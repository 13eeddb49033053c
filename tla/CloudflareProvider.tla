------------------------- MODULE CloudflareProvider -------------------------
(***************************************************************************)
(* The worker's Cloudflare provider and the bridge's sandbox routes, for   *)
(* one sandbox.  The worker posts a request and waits 30 s; the bridge's   *)
(* Durable Object may go on with a request nobody waits for, and serves    *)
(* the next one meanwhile at every call that leaves its storage.  What     *)
(* happens to a command inside the bridge is CommandBridge's subject: here *)
(* it runs, ends and is answered.                                          *)
(*                                                                         *)
(* External: the container and the bucket mount are one call each, which   *)
(* may fail with or without its effect.  The container sleeps after 10     *)
(* minutes without a call, or dies, and the next call wakes a fresh one,   *)
(* without the mount.                                                      *)
(***************************************************************************)
EXTENDS Naturals, Sequences

CONSTANTS
  CloudCreates,    \* create requests the bridge may hold at a time
  CloudAttempts,   \* max_attempts of a job
  OutputCap,       \* MAX_COMMAND_OUTPUT_BYTES
  LineCap,         \* MAX_SSE_LINE_BYTES
  OutputMax        \* bound: output of a command

ASSUME CloudAssumption ==
  /\ CloudAttempts \in Nat \ {0}
  /\ OutputCap \in Nat /\ LineCap \in Nat /\ OutputMax \in Nat
  /\ {"nobody", "created"} \cap CloudCreates = {}

CloudKinds == {"provision", "command", "stop"}
Streams == {"stdout", "stderr"}
Torn == OutputMax + 1         \* data that does not decode

VARIABLES
  kledger, krecovers,         \* configuration: the replay ledger; the bridge may recover the sandbox
  kjob, ktries,               \* the jobs, and the attempts made
  kpair, kcancel,             \* the spec's scope is organization:workspace; the provision is cancelled
  kwait,                      \* the create request the worker waits for, or its outcome
  kident, kflag,              \* the object's storage: sandbox:identity, sandbox:home-mounted
  khome,                      \* external: the bucket is mounted in the container
  kslept,                     \* history: the container went away with its mount, and none came since
  kcall,                      \* the create requests in the object
  kdelete,                    \* the delete request in the object
  kcmd, ksize,                \* the command's record, the output it kept
  kexec, klines,              \* the worker's exec, the lines of the answer still to come
  kevent, kdata, kgot, kexit  \* SseParser

kbridge == <<kident, kflag, khome, kslept, kcall, kdelete>>
kcommand == <<kcmd, ksize>>
kconfig == <<kledger, krecovers, kpair>>
kparser == <<kevent, kdata, kgot, kexit>>
kvars == <<kconfig, kjob, ktries, kcancel, kwait, kbridge, kcommand, kexec, klines, kparser>>

Nobody == "nobody"
CreatePhases == {"free", "mounting", "mkdir", "marking", "answered", "refused"}

CloudTypeOK ==
  /\ kledger \in BOOLEAN /\ krecovers \in BOOLEAN
  /\ kjob \in [CloudKinds -> {"none", "queued", "running", "completed", "failed"}]
  /\ ktries \in [CloudKinds -> 0..CloudAttempts] /\ kpair \in BOOLEAN /\ kcancel \in BOOLEAN
  /\ kwait \in CloudCreates \cup {Nobody, "created"}
  /\ kident \in BOOLEAN /\ kflag \in BOOLEAN /\ khome \in BOOLEAN /\ kslept \in BOOLEAN
  /\ kcall \in [CloudCreates -> CreatePhases]
  /\ kdelete \in {"none", "destroying", "unmarking"}
  /\ kcmd \in {"none", "running", "completed", "indeterminate"} /\ ksize \in [Streams -> 0..OutputMax]
  /\ kexec \in {"idle", "posted", "reading"}
  /\ kevent \in Streams \cup {"", "exit", "junk"} /\ kdata \in 0..Torn
  /\ kgot \in [Streams -> 0..OutputCap] /\ kexit \in BOOLEAN

CloudInit ==
  /\ kledger \in BOOLEAN /\ krecovers \in BOOLEAN
  /\ kjob = [j \in CloudKinds |-> IF j = "provision" THEN "queued" ELSE "none"]
  /\ ktries = [j \in CloudKinds |-> 0] /\ kpair \in BOOLEAN /\ kcancel = FALSE
  /\ kwait = Nobody
  /\ kident = FALSE /\ kflag = FALSE /\ khome = FALSE /\ kslept = FALSE
  /\ kcall = [d \in CloudCreates |-> "free"] /\ kdelete = "none"
  /\ kcmd = "none" /\ ksize = [s \in Streams |-> 0]
  /\ kexec = "idle" /\ klines = << >>
  /\ kevent = "" /\ kdata = 0 /\ kgot = [s \in Streams |-> 0] /\ kexit = FALSE

-----------------------------------------------------------------------------
(* How an attempt ends: ProviderError's disposition, or none. *)

Ends(j, status) == kjob' = [kjob EXCEPT ![j] = status]
Retries(j) == Ends(j, IF ktries[j] < CloudAttempts THEN "queued" ELSE "failed")
CloudJob(j) ==
  /\ kjob[j] = "queued" /\ ktries' = [ktries EXCEPT ![j] = @ + 1]

\* provider_error: what the bridge's status makes of the attempt.
Refused(j, status) ==
  IF status \in {400, 401, 403, 409, 422} THEN Ends(j, "failed") ELSE Retries(j)

-----------------------------------------------------------------------------
(* Provision, the worker's side: provision_with_home. *)

\* Mutant: the flag is set before the mount it stands for.
AdmitsMarked(d) ==
  /\ kcall[d] = "free" /\ kident' = TRUE /\ kflag' = TRUE
  /\ kcall' = [kcall EXCEPT ![d] = IF kflag THEN "answered" ELSE "mounting"]

\* createSandbox: the identity is ensured and the flag read in one turn.
Admits(d) ==
  /\ kcall[d] = "free" /\ kident' = TRUE /\ UNCHANGED kflag
  /\ kcall' = [kcall EXCEPT ![d] = IF kflag THEN "answered" ELSE "mounting"]

\* A scope that is not organization:workspace is a terminal contract failure; a
\* cancelled job fails untyped; else the create is posted, with a managed home.
StartCloudProvision ==
  /\ CloudJob("provision") /\ kwait = Nobody
  /\ \/ /\ ~kpair \/ kcancel
        /\ Ends("provision", "failed") /\ UNCHANGED <<kwait, kcall, kident, kflag>>
     \/ /\ kpair /\ ~kcancel /\ Ends("provision", "running")
        /\ \E d \in CloudCreates : Admits(d) /\ kwait' = d
  /\ UNCHANGED <<kconfig, kcancel, khome, kslept, kdelete, kcommand, kexec, klines, kparser>>

\* ensureHomeMounted: mountBucket, where an error that says it is already mounted
\* counts as mounted, mkdir, and the flag.
MountHome(d) ==
  /\ kcall[d] = "mounting"
  /\ \/ khome' = TRUE /\ kcall' = [kcall EXCEPT ![d] = "mkdir"]
     \/ khome' \in {khome, TRUE} /\ kcall' = [kcall EXCEPT ![d] = "refused"]
  /\ kslept' = (kslept /\ ~khome')
  /\ UNCHANGED <<kconfig, kjob, ktries, kcancel, kwait, kident, kflag, kdelete, kcommand, kexec, klines, kparser>>

MakeThreads(d) ==
  /\ kcall[d] = "mkdir"
  /\ \E next \in {"marking", "refused"} : kcall' = [kcall EXCEPT ![d] = next]
  /\ UNCHANGED <<kconfig, kjob, ktries, kcancel, kwait, kident, kflag, khome, kslept, kdelete, kcommand, kexec, klines, kparser>>

MarkMounted(d) ==
  /\ kcall[d] = "marking" /\ kflag' = TRUE
  /\ kcall' = [kcall EXCEPT ![d] = "answered"]
  /\ UNCHANGED <<kconfig, kjob, ktries, kcancel, kwait, kident, khome, kslept, kdelete, kcommand, kexec, klines, kparser>>

\* An answer nobody waits for is dropped.
DropCreate(d) ==
  /\ kcall[d] \in {"answered", "refused"} /\ kwait # d
  /\ kcall' = [kcall EXCEPT ![d] = "free"]
  /\ UNCHANGED <<kconfig, kjob, ktries, kcancel, kwait, kident, kflag, khome, kslept, kdelete, kcommand, kexec, klines, kparser>>

\* The answer: a 500 is retried; the id is the sandbox's own, so it is not deleted.
CreateReturns ==
  /\ kwait \in CloudCreates /\ kcall[kwait] \in {"answered", "refused"}
  /\ kcall' = [kcall EXCEPT ![kwait] = "free"]
  /\ \/ kcall[kwait] = "answered" /\ kwait' = "created" /\ UNCHANGED kjob
     \/ kcall[kwait] = "refused" /\ kwait' = Nobody /\ Refused("provision", 500)
  /\ UNCHANGED <<kconfig, ktries, kcancel, kident, kflag, khome, kslept, kdelete, kcommand, kexec, klines, kparser>>

\* No answer in time, cloudflare_create_outcome_unknown, or the worker dies: the
\* object goes on with the request.
CreateUnknown ==
  /\ kwait # Nobody /\ kwait' = Nobody /\ Retries("provision")
  /\ UNCHANGED <<kconfig, ktries, kcancel, kbridge, kcommand, kexec, klines, kparser>>

\* The readiness loop: sandboxReady finds the identity, which nothing deletes,
\* and answers running when the container takes a call, 500 when it throws.
PollReady ==
  /\ kwait = "created" /\ kwait' = Nobody
  /\ \/ kcancel /\ Ends("provision", "failed")
     \/ ~kcancel /\ Ends("provision", "completed")
     \/ ~kcancel /\ Refused("provision", 500)
  /\ UNCHANGED <<kconfig, ktries, kcancel, kbridge, kcommand, kexec, klines, kparser>>

\* sleepAfter, or the container's own end: the mount is gone, and the flag that
\* stands for it is stored and is not.
ContainerSleeps ==
  /\ khome /\ khome' = FALSE /\ kslept' = TRUE
  /\ UNCHANGED <<kconfig, kjob, ktries, kcancel, kwait, kident, kflag, kcall, kdelete, kcommand, kexec, klines, kparser>>

-----------------------------------------------------------------------------
(* Stop. *)

\* The tenant stops the sandbox; a provision still at work is cancelled.
AskStop ==
  /\ kjob["stop"] = "none" /\ kcancel' = TRUE
  /\ kjob' = [kjob EXCEPT !["stop"] = "queued", !["provision"] = IF @ = "queued" THEN "failed" ELSE @]
  /\ UNCHANGED <<kconfig, ktries, kwait, kbridge, kcommand, kexec, klines, kparser>>

\* The rows of a completed provision name the scope; without them the scope is
\* the tenant and the delete is a recovery, which the bridge's bindings must allow.
Scoped == kjob["provision"] = "completed"

\* destroySandbox: a 404 counts as deleted.
StartCloudStop ==
  /\ CloudJob("stop") /\ kdelete = "none"
  /\ \/ /\ ~Scoped /\ ~krecovers /\ Refused("stop", 403) /\ UNCHANGED kdelete
     \/ /\ Scoped \/ krecovers
        /\ IF kident THEN kdelete' = "destroying" /\ Ends("stop", "running")
                     ELSE Ends("stop", "completed") /\ UNCHANGED kdelete
  /\ UNCHANGED <<kconfig, kcancel, kwait, kident, kflag, khome, kslept, kcall, kcommand, kexec, klines, kparser>>

\* destroy() of the container, which may throw.
DestroyContainer ==
  /\ kdelete = "destroying"
  /\ \/ khome' = FALSE /\ kdelete' = "unmarking" /\ UNCHANGED kjob
     \/ /\ khome' \in {khome, FALSE} /\ kdelete' = "none"
        /\ IF kjob["stop"] = "running" THEN Refused("stop", 500) ELSE UNCHANGED kjob
  /\ UNCHANGED <<kconfig, ktries, kcancel, kwait, kident, kflag, kslept, kcall, kcommand, kexec, klines, kparser>>

\* The flag goes, and the worker, if it still waits, has stopped the sandbox.
DeleteReturns ==
  /\ kdelete = "unmarking" /\ kdelete' = "none" /\ kflag' = FALSE
  /\ kjob' = [kjob EXCEPT !["stop"] = IF @ = "running" THEN "completed" ELSE @]
  /\ UNCHANGED <<kconfig, ktries, kcancel, kwait, kident, khome, kslept, kcall, kcommand, kexec, klines, kparser>>

DeleteUnknown ==
  /\ kjob["stop"] = "running" /\ Retries("stop")
  /\ UNCHANGED <<kconfig, ktries, kcancel, kwait, kbridge, kcommand, kexec, klines, kparser>>

-----------------------------------------------------------------------------
(* Exec: exec_handoff_with_job_id, and the event stream of its answer. *)

AskCommand ==
  /\ kjob["command"] = "none" /\ kjob["provision"] = "completed" /\ kjob["stop"] = "none"
  /\ Ends("command", "queued")
  /\ UNCHANGED <<kconfig, ktries, kcancel, kwait, kbridge, kcommand, kexec, klines, kparser>>

\* Without the replay ledger, or cancelled, nothing is posted.  The job's id is the command's:
\* the first post starts it.
StartExec ==
  /\ CloudJob("command") /\ kexec = "idle"
  /\ \/ (~kledger \/ kcancel) /\ Ends("command", "failed") /\ UNCHANGED <<kexec, kcmd>>
     \/ /\ kledger /\ ~kcancel /\ Ends("command", "running") /\ kexec' = "posted"
        /\ kcmd' = IF kcmd = "none" THEN "running" ELSE kcmd
  /\ UNCHANGED <<kconfig, kcancel, kwait, kbridge, ksize, klines, kparser>>

CommandEnds ==
  /\ kcmd = "running"
  /\ \/ kcmd' = "completed" /\ ksize' \in [Streams -> 0..OutputMax]
     \/ kcmd' = "indeterminate" /\ UNCHANGED ksize
  /\ UNCHANGED <<kconfig, kjob, ktries, kcancel, kwait, kbridge, kexec, klines, kparser>>

\* commandResponse: an event is its name, its data and a blank line; output that
\* is empty has no event.
EventLines(name, size) == << <<"event", name, 0>>, <<"data", name, size>>, <<"blank", "", 0>> >>
OutputLines(s) == IF ksize[s] = 0 THEN << >> ELSE EventLines(s, ksize[s])

\* A completed record answers its stream, but the loser of a dispatch answers a
\* stream without events; a running one 409, an indeterminate one 503.
CloudExecAnswered ==
  /\ kexec = "posted"
  /\ \/ /\ kcmd = "completed" /\ kexec' = "reading" /\ UNCHANGED kjob
        /\ klines' \in {<< >>, OutputLines("stdout") \o OutputLines("stderr") \o EventLines("exit", 1)}
     \/ /\ kexec' = "idle" /\ UNCHANGED klines
        /\ \/ kcmd = "running" /\ ktries["command"] > 1 /\ Refused("command", 409)
           \/ kcmd = "indeterminate" /\ Refused("command", 503)
           \/ Refused("command", 500)
  /\ UNCHANGED <<kconfig, ktries, kcancel, kwait, kbridge, kcommand, kparser>>

\* SseParser::new, and its end.
ResetParser == kevent' = "" /\ kdata' = 0 /\ kgot' = [s \in Streams |-> 0] /\ kexit' = FALSE

ExecFails == kexec' = "idle" /\ klines' = << >> /\ Retries("command") /\ ResetParser

\* The request or the read times out, or the worker dies.
ExecUnknown ==
  /\ kexec # "idle" /\ ExecFails
  /\ UNCHANGED <<kconfig, ktries, kcancel, kwait, kbridge, kcommand>>

Keeps(s, n) == [kgot EXCEPT ![s] = IF @ + n > OutputCap THEN OutputCap ELSE @ + n]
Decodes(event, data) ==
  CASE event \in Streams -> data # Torn
    [] event = "exit" -> data = 1
    [] OTHER -> TRUE

\* process_event, of data that decodes.
ProcessEvent(event, data) ==
  /\ kgot' = IF event \in Streams THEN Keeps(event, data) ELSE kgot
  /\ kexit' = (kexit \/ event = "exit")

\* process_line: a line too long, or an event that does not decode, ends the
\* attempt, which is retried.
ReadLine ==
  /\ kexec = "reading" /\ klines # << >>
  /\ LET line == Head(klines) IN
     IF line[3] > LineCap \/ (line[1] = "blank" /\ ~Decodes(kevent, kdata)) THEN ExecFails
     ELSE /\ klines' = Tail(klines) /\ UNCHANGED <<kjob, kexec>>
          /\ \/ line[1] = "event" /\ kevent' = line[2] /\ UNCHANGED <<kdata, kgot, kexit>>
             \/ line[1] = "data" /\ kdata' = line[3] /\ UNCHANGED <<kevent, kgot, kexit>>
             \/ /\ line[1] = "blank" /\ ProcessEvent(kevent, kdata)
                /\ kevent' = "" /\ kdata' = 0
  /\ UNCHANGED <<kconfig, ktries, kcancel, kwait, kbridge, kcommand>>

\* What may be left of the line the stream ends in: its field is not recognised,
\* its value is cut, or only the newline is missing.
Remnants(line) ==
  {<<kevent, kdata>>} \cup
  CASE line[1] = "event" -> {<<e, kdata>> : e \in {"junk", line[2]}}
    [] line[1] = "data" -> {<<kevent, n>> : n \in 0..line[3] \cup {Torn}}
    [] OTHER -> {}

\* Mutant: a stream that ended without an exit event is a result.
FinishesAnyway(event) == TRUE

\* finish: the exit has been read, or is what is left.
Finishes(event) == kexit \/ event = "exit"

\* The stream ends, wherever: what is left is processed, and the result reported.
StreamEnds ==
  /\ kexec = "reading"
  /\ \E left \in IF klines = << >> THEN {<<kevent, kdata>>} ELSE Remnants(Head(klines)) :
       IF Decodes(left[1], left[2]) /\ Finishes(left[1])
       THEN /\ ProcessEvent(left[1], left[2]) /\ Ends("command", "completed")
            /\ kexec' = "idle" /\ klines' = << >> /\ kevent' = "" /\ kdata' = 0
       ELSE ExecFails
  /\ UNCHANGED <<kconfig, ktries, kcancel, kwait, kbridge, kcommand>>

CloudNext ==
  \/ StartCloudProvision \/ CreateReturns \/ CreateUnknown \/ PollReady
  \/ \E d \in CloudCreates : MountHome(d) \/ MakeThreads(d) \/ MarkMounted(d) \/ DropCreate(d)
  \/ ContainerSleeps \/ AskStop \/ StartCloudStop \/ DestroyContainer \/ DeleteReturns \/ DeleteUnknown
  \/ AskCommand \/ StartExec \/ CommandEnds \/ CloudExecAnswered \/ ExecUnknown \/ ReadLine \/ StreamEnds

CloudSpec == CloudInit /\ [][CloudNext]_kvars

-----------------------------------------------------------------------------
(* Properties. *)

\* A provision that is reported ready has had its home mounted, though creates
\* whose answers were lost still run in the object and share one flag with the
\* retry (index.ts:224); until the sandbox is stopped the home is missing only
\* when the container that had it mounted slept or died since (index.ts:213), and
\* then the flag keeps every create from mounting it again.
HandleHasHome ==
  kjob["stop"] = "none" =>
    /\ kjob["provision"] = "completed" => khome \/ kslept
    /\ kflag => khome \/ kslept

\* The result of a command is the one the bridge recorded, with all of its output
\* up to the cap, wherever the stream that carried it was cut (cloudflare.rs:590).
ResultIsWhole ==
  kjob["command"] = "completed" =>
    /\ kcmd = "completed"
    /\ \A s \in Streams : kgot[s] = IF ksize[s] < OutputCap THEN ksize[s] ELSE OutputCap
=============================================================================
