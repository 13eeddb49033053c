---------------------------- MODULE CommandBridge ----------------------------
(***************************************************************************)
(* The Cloudflare command bridge: one Durable Object per sandbox, whose    *)
(* storage holds one record and an event log per command.  A worker posts  *)
(* a command under an idempotency key and posts it again when it has no    *)
(* answer; every delivery runs CommandCoordinator.execute to its end, and  *)
(* deliveries interleave at every await.  A step of a delivery is one      *)
(* storage transaction or one call into the sandbox.                       *)
(*                                                                         *)
(* The sandbox runtime is external.  A process is named by the command id. *)
(* A call that throws may have had its effect, may have it later, or never.*)
(* The object may be reset at any step (Crash), which drops its deliveries *)
(* and keeps its storage; the container may be destroyed or lost (Destroy).*)
(***************************************************************************)
EXTENDS Naturals, Sequences

CONSTANTS
  Requests,    \* deliveries in flight at one time
  Commands,    \* command ids
  Intents,     \* canonical command bodies, identified by their digest
  CommandOf,   \* the command id an intent is posted under
  ExitCodes,   \* exit codes a process may have
  NoExit,      \* no exit code
  NoIntent,    \* no intent
  MaxCrashes   \* bound: resets of the object and losses of the container

FallbackExit == 1 \* process.exitCode ?? 1

ASSUME CommandBridgeAssumption ==
  /\ CommandOf \in [Intents -> Commands]
  /\ FallbackExit \in ExitCodes
  /\ NoExit \notin ExitCodes
  /\ NoIntent \notin Intents
  /\ MaxCrashes \in Nat

VARIABLES
  \* the ledger: the record of each command and its event log
  intent, state, terminal, events,
  \* the sandbox: the process of each command and what it left
  process, exit, output,
  \* start calls whose response was lost and which may still take effect
  late,
  \* start calls made for each command
  starts,
  \* the deliveries: where each is, what it serves, the exit code it read
  pc, serving, code,
  \* the last answer of each delivery: its kind, and the events it carried
  reply, carried,
  crashes

ledger == <<intent, state, terminal, events>>
sandbox == <<process, exit, output, late>>
vars == <<ledger, sandbox, starts, pc, serving, code, reply, carried, crashes>>

RecordState == {"absent", "accepted", "dispatching", "running", "indeterminate", "completed"}
Stream == {"stdout", "stderr"}
ProcessState == {"none", "live", "exited", "gone"}
Step == {"idle", "mkdir", "claim", "start", "started", "recover", "probe",
         "found", "missing", "collect", "stdout", "stderr", "complete"}
Reply == {"none", "in_progress", "completed", "indeterminate", "conflict", "error"}

Init ==
  /\ intent = [c \in Commands |-> NoIntent]
  /\ state = [c \in Commands |-> "absent"]
  /\ terminal = [c \in Commands |-> NoExit]
  /\ events = [c \in Commands |-> << >>]
  /\ process = [c \in Commands |-> "none"]
  /\ exit = [c \in Commands |-> NoExit]
  /\ output = [c \in Commands |-> {}]
  /\ late = {}
  /\ starts = [c \in Commands |-> 0]
  /\ pc = [r \in Requests |-> "idle"]
  /\ serving = [r \in Requests |-> NoIntent]
  /\ code = [r \in Requests |-> NoExit]
  /\ reply = [r \in Requests |-> "none"]
  /\ carried = [r \in Requests |-> << >>]
  /\ crashes = 0

(***************************************************************************)
(* Answers.  commandResponse renders the events only of a result that      *)
(* carries them, whatever its status says.                                 *)
(***************************************************************************)
Answer(r, kind, log) ==
  /\ pc' = [pc EXCEPT ![r] = "idle"]
  /\ reply' = [reply EXCEPT ![r] = kind]
  /\ carried' = [carried EXCEPT ![r] = log]

\* The kind of answer response(record.state, record) stands for.
KindOf(s) ==
  IF s \in {"completed", "indeterminate"} THEN s ELSE "in_progress"

\* A delivery goes on to the step s.
Goto(r, s) ==
  /\ pc' = [pc EXCEPT ![r] = s]
  /\ UNCHANGED <<reply, carried>>

Serves(r) == CommandOf[serving[r]]

(***************************************************************************)
(* Admission: ledger.admit and the branches of execute on what it returns. *)
(***************************************************************************)
\* A delivery begins: a slot that serves nobody takes the intent i.
Begin(r, i) ==
  /\ pc[r] = "idle"
  /\ serving' = [serving EXCEPT ![r] = i]
  /\ code' = [code EXCEPT ![r] = NoExit]
  /\ UNCHANGED <<sandbox, starts, crashes>>

\* A delivery that is not answered at once waits at the step s.
Enter(r, s) ==
  /\ pc' = [pc EXCEPT ![r] = s]
  /\ reply' = [reply EXCEPT ![r] = "none"]
  /\ carried' = [carried EXCEPT ![r] = << >>]

\* The branch taken on a record that already has this intent.
Join(r, c) ==
  \/ /\ state[c] = "completed"
     /\ Answer(r, "completed", events[c])
  \/ /\ state[c] = "accepted"
     /\ Enter(r, "mkdir")
  \/ /\ state[c] = "dispatching"        \* younger than dispatchLeaseMs
     /\ Answer(r, "in_progress", << >>)
  \/ /\ state[c] \in {"dispatching", "running", "indeterminate"}
     /\ Enter(r, "probe")

AdmitNew(r, i) ==
  LET c == CommandOf[i] IN
  /\ Begin(r, i)
  /\ state[c] = "absent"
  /\ intent' = [intent EXCEPT ![c] = i]
  /\ state' = [state EXCEPT ![c] = "accepted"]
  /\ UNCHANGED <<terminal, events>>
  /\ Enter(r, "mkdir")

\* The command id is taken by another intent: command_intent_conflict.
RefuseIntent(r, i) ==
  LET c == CommandOf[i] IN
  /\ Begin(r, i)
  /\ state[c] # "absent"
  /\ intent[c] # i
  /\ Answer(r, "conflict", << >>)
  /\ UNCHANGED ledger

\* Mutant: the stored intent is not compared with the delivered one.
AdmitAnyDuplicate(r, i) ==
  LET c == CommandOf[i] IN
  /\ Begin(r, i)
  /\ state[c] # "absent"
  /\ Join(r, c)
  /\ UNCHANGED ledger

AdmitDuplicate(r, i) ==
  LET c == CommandOf[i] IN
  /\ Begin(r, i)
  /\ state[c] # "absent"
  /\ intent[c] = i
  /\ Join(r, c)
  /\ UNCHANGED ledger

\* GET .../exec/{commandId}: the stored result, whatever intent it is of.
ResultLookup(r, c) ==
  \E after \in 0..Len(events[c]) :
    /\ pc[r] = "idle"
    /\ state[c] # "absent"
    /\ Answer(r, KindOf(state[c]),
              IF state[c] = "completed" THEN SubSeq(events[c], after + 1, Len(events[c]))
                                        ELSE << >>)
    /\ serving' = [serving EXCEPT ![r] = NoIntent]
    /\ code' = [code EXCEPT ![r] = NoExit]
    /\ UNCHANGED <<ledger, sandbox, starts, crashes>>

(***************************************************************************)
(* Dispatch: mkdir, claimDispatch, startProcess.                           *)
(***************************************************************************)
MakeDirectory(r) ==
  /\ pc[r] = "mkdir"
  /\ \/ Goto(r, "claim")
     \/ Answer(r, "error", << >>)
  /\ UNCHANGED <<ledger, sandbox, starts, serving, code, crashes>>

\* Mutant: the claim does not look at the state it replaces.
ClaimDispatchTwice(r) ==
  LET c == Serves(r) IN
  /\ pc[r] = "claim"
  /\ state[c] \in {"accepted", "dispatching"}
  /\ state' = [state EXCEPT ![c] = "dispatching"]
  /\ Goto(r, "start")
  /\ UNCHANGED <<intent, terminal, events, sandbox, starts, serving, code, crashes>>

ClaimDispatch(r) ==
  LET c == Serves(r) IN
  /\ pc[r] = "claim"
  /\ state[c] = "accepted"
  /\ state' = [state EXCEPT ![c] = "dispatching"]
  /\ Goto(r, "start")
  /\ UNCHANGED <<intent, terminal, events, sandbox, starts, serving, code, crashes>>

\* Another delivery has claimed the dispatch: answer with the record alone.
DispatchClaimed(r) ==
  LET c == Serves(r) IN
  /\ pc[r] = "claim"
  /\ state[c] # "accepted"
  /\ Answer(r, KindOf(state[c]), << >>)
  /\ UNCHANGED <<ledger, sandbox, starts, serving, code, crashes>>

StartProcess(r) ==
  LET c == Serves(r) IN
  /\ pc[r] = "start"
  /\ starts' = [starts EXCEPT ![c] = @ + 1]
  /\ process' = [process EXCEPT ![c] = "live"]
  /\ Goto(r, "started")
  /\ UNCHANGED <<ledger, exit, output, late, serving, code, crashes>>

\* The start call throws; its effect may still come, or never.
StartThrows(r) ==
  LET c == Serves(r) IN
  /\ pc[r] = "start"
  /\ starts' = [starts EXCEPT ![c] = @ + 1]
  /\ \/ late' = late \cup {c}
     \/ UNCHANGED late
  /\ Goto(r, "recover")
  /\ UNCHANGED <<ledger, process, exit, output, serving, code, crashes>>

(***************************************************************************)
(* Finding the process again: the catch branch of #dispatch ("recover")    *)
(* and reconcile ("probe").                                                *)
(***************************************************************************)
GetProcess(r) ==
  /\ pc[r] \in {"recover", "probe"}
  /\ \/ /\ process[Serves(r)] \in {"live", "exited"}
        /\ Goto(r, "found")
     \/ /\ process[Serves(r)] \in {"none", "gone"}
        /\ Goto(r, "missing")
     \/ Answer(r, "error", << >>)
  /\ UNCHANGED <<ledger, sandbox, starts, serving, code, crashes>>

MarkRunning(r) ==
  LET c == Serves(r) IN
  /\ pc[r] \in {"started", "found"}
  /\ state[c] # "accepted"
  /\ state' = [state EXCEPT ![c] = IF @ \in {"completed", "indeterminate"} THEN @ ELSE "running"]
  /\ Goto(r, "collect")
  /\ UNCHANGED <<intent, terminal, events, sandbox, starts, serving, code, crashes>>

MarkIndeterminate(r) ==
  LET c == Serves(r) IN
  /\ pc[r] = "missing"
  /\ state[c] # "accepted"
  /\ state' = [state EXCEPT ![c] = IF @ = "completed" THEN @ ELSE "indeterminate"]
  /\ Answer(r, "indeterminate", << >>)
  /\ UNCHANGED <<intent, terminal, events, sandbox, starts, serving, code, crashes>>

(***************************************************************************)
(* #collect.  A process that is still live when a delivery does not wait,  *)
(* or when its wait times out, gives "in_progress".                        *)
(***************************************************************************)
StillRunning(r) ==
  /\ pc[r] = "collect"
  /\ process[Serves(r)] = "live"
  /\ Answer(r, "in_progress", << >>)
  /\ UNCHANGED <<ledger, sandbox, starts, serving, code, crashes>>

\* getStatus, waitForExit or getLogs on a process that is gone throws.
ProcessLost(r) ==
  /\ pc[r] = "collect"
  /\ process[Serves(r)] = "gone"
  /\ Answer(r, "error", << >>)
  /\ UNCHANGED <<ledger, sandbox, starts, serving, code, crashes>>

\* Mutant: the logs of a process that is still live are taken for its result.
ReadExitEarly(r) ==
  LET c == Serves(r) IN
  /\ pc[r] = "collect"
  /\ process[c] \in {"live", "exited"}
  /\ code' = [code EXCEPT ![r] = IF process[c] = "exited" THEN exit[c] ELSE FallbackExit]
  /\ Goto(r, "stdout")
  /\ UNCHANGED <<ledger, sandbox, starts, serving, crashes>>

\* waitForExit gives the exit code; when it throws although the process has
\* ended, the handle's exit code is used if it has one.
ReadExit(r) ==
  LET c == Serves(r) IN
  /\ pc[r] = "collect"
  /\ process[c] = "exited"
  /\ \/ code' = [code EXCEPT ![r] = exit[c]]
     \/ code' = [code EXCEPT ![r] = FallbackExit]
  /\ Goto(r, "stdout")
  /\ UNCHANGED <<ledger, sandbox, starts, serving, crashes>>

\* ledger.append of one stream, skipped when the stream is empty.
AppendStream(r, stream, next) ==
  LET c == Serves(r) IN
  /\ pc[r] = stream
  /\ \/ /\ stream \in output[c]
        /\ state[c] # "completed"
        /\ events' = [events EXCEPT ![c] = Append(@, stream)]
        /\ Goto(r, next)
     \/ /\ stream \in output[c]
        /\ state[c] = "completed"       \* command_already_terminal
        /\ Answer(r, "conflict", << >>)
        /\ UNCHANGED events
     \/ /\ stream \notin output[c]
        /\ Goto(r, next)
        /\ UNCHANGED events
  /\ UNCHANGED <<intent, state, terminal, sandbox, starts, serving, code, crashes>>

AppendOutput(r) ==
  \/ AppendStream(r, "stdout", "stderr")
  \/ AppendStream(r, "stderr", "complete")

Complete(r) ==
  LET c == Serves(r) IN
  /\ pc[r] = "complete"
  /\ state[c] # "completed"
  /\ state' = [state EXCEPT ![c] = "completed"]
  /\ terminal' = [terminal EXCEPT ![c] = code[r]]
  /\ events' = [events EXCEPT ![c] = Append(@, "exit")]
  /\ Answer(r, "completed", Append(events[c], "exit"))
  /\ UNCHANGED <<intent, sandbox, starts, serving, code, crashes>>

\* The record is terminal already: the same result is replayed, another one
\* is command_terminal_conflict.
CompleteAgain(r) ==
  LET c == Serves(r) IN
  /\ pc[r] = "complete"
  /\ state[c] = "completed"
  /\ \/ /\ terminal[c] = code[r]
        /\ Answer(r, "completed", events[c])
     \/ /\ terminal[c] # code[r]
        /\ Answer(r, "conflict", << >>)
  /\ UNCHANGED <<ledger, sandbox, starts, serving, code, crashes>>

(***************************************************************************)
(* The environment.                                                        *)
(***************************************************************************)
ProcessExits(c) ==
  /\ process[c] = "live"
  /\ process' = [process EXCEPT ![c] = "exited"]
  /\ \E e \in ExitCodes, out \in SUBSET Stream :
       /\ exit' = [exit EXCEPT ![c] = e]
       /\ output' = [output EXCEPT ![c] = out]
  /\ UNCHANGED <<ledger, late, starts, pc, serving, code, reply, carried, crashes>>

LateStart(c) ==
  /\ c \in late
  /\ late' = late \ {c}
  /\ process' = [process EXCEPT ![c] = "live"]
  /\ UNCHANGED <<ledger, exit, output, starts, pc, serving, code, reply, carried, crashes>>

\* The object is reset: its deliveries are never answered.
Crash ==
  /\ crashes < MaxCrashes
  /\ crashes' = crashes + 1
  /\ pc' = [r \in Requests |-> "idle"]
  /\ reply' = [r \in Requests |-> "none"]
  /\ carried' = [r \in Requests |-> << >>]
  /\ UNCHANGED <<ledger, sandbox, starts, serving, code>>

\* DELETE /v1/sandbox/{id}, or a container that went away by itself.
Destroy ==
  /\ crashes < MaxCrashes
  /\ crashes' = crashes + 1
  /\ process' = [c \in Commands |-> IF process[c] = "none" THEN "none" ELSE "gone"]
  /\ UNCHANGED <<ledger, exit, output, late, starts, pc, serving, code, reply, carried>>

Deliver ==
  \E r \in Requests, i \in Intents :
    AdmitNew(r, i) \/ RefuseIntent(r, i) \/ AdmitDuplicate(r, i)

Advance(r) ==
  \/ MakeDirectory(r) \/ ClaimDispatch(r) \/ DispatchClaimed(r)
  \/ StartProcess(r) \/ StartThrows(r)
  \/ GetProcess(r) \/ MarkRunning(r) \/ MarkIndeterminate(r)
  \/ StillRunning(r) \/ ProcessLost(r) \/ ReadExit(r)
  \/ AppendOutput(r) \/ Complete(r) \/ CompleteAgain(r)

Next ==
  \/ Deliver
  \/ \E r \in Requests, c \in Commands : ResultLookup(r, c)
  \/ \E r \in Requests : Advance(r)
  \/ \E c \in Commands : ProcessExits(c) \/ LateStart(c)
  \/ Crash
  \/ Destroy

Spec == Init /\ [][Next]_vars

-----------------------------------------------------------------------------
(***************************************************************************)
(* Properties.                                                             *)
(***************************************************************************)
\* Types of the stored records, the sandbox and the deliveries.
TypeOK ==
  /\ intent \in [Commands -> Intents \cup {NoIntent}]
  /\ state \in [Commands -> RecordState]
  /\ terminal \in [Commands -> ExitCodes \cup {NoExit}]
  /\ events \in [Commands -> Seq(Stream \cup {"exit"})]
  /\ process \in [Commands -> ProcessState]
  /\ exit \in [Commands -> ExitCodes \cup {NoExit}]
  /\ output \in [Commands -> SUBSET Stream]
  /\ late \in SUBSET Commands
  /\ starts \in [Commands -> Nat]
  /\ pc \in [Requests -> Step]
  /\ serving \in [Requests -> Intents \cup {NoIntent}]
  /\ code \in [Requests -> ExitCodes \cup {NoExit}]
  /\ reply \in [Requests -> Reply]
  /\ carried \in [Requests -> Seq(Stream \cup {"exit"})]
  /\ crashes \in 0..MaxCrashes
  /\ \A r \in Requests : pc[r] # "idle" => serving[r] \in Intents

\* A command is started at most once, whatever is delivered twice, lost or
\* reset: a delivery that cannot see the process never starts it again.
StartedOnce == \A c \in Commands : starts[c] <= 1

Holds(log, e) == \E k \in 1..Len(log) : log[k] = e
EndsInExit(log) ==
  LET n == Len(log) IN
  n > 0 /\ log[n] = "exit" /\ \A k \in 1..n : log[k] = "exit" => k = n

\* A finished log is whole: it holds every stream the process wrote, nothing
\* it did not write, and ends in the only exit event; the recorded exit code
\* is the process's own or the fallback for a handle that has none.
CompletedIsWhole ==
  \A c \in Commands : state[c] = "completed" =>
    /\ starts[c] = 1
    /\ EndsInExit(events[c])
    /\ \A s \in Stream : s \in output[c] <=> Holds(events[c], s)
    /\ terminal[c] \in {exit[c], FallbackExit}

\* What a delivery was told stays true: the result it was answered with is
\* the result of its own intent, and the ledger holds exactly those events
\* ever after.
AnswersHold ==
  \A r \in Requests :
    (reply[r] = "completed" /\ serving[r] # NoIntent /\ carried[r] # << >>) =>
      /\ intent[Serves(r)] = serving[r]
      /\ carried[r] = events[Serves(r)]

\* A record that is complete is never written again: a slow collector's
\* append, completion or mark leaves the log, the result and the intent alone.
FinalStep ==
  \A c \in Commands : state[c] = "completed" =>
    /\ state'[c] = state[c]
    /\ intent'[c] = intent[c]
    /\ terminal'[c] = terminal[c]
    /\ events'[c] = events[c]
ResultsFinal == [][FinalStep]_vars

=============================================================================
