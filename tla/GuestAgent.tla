------------------------------ MODULE GuestAgent ------------------------------
(***************************************************************************)
(* The agent inside a sandbox: the daemon loop that claims the sandbox's   *)
(* own leases, the supervisor of its resident processes, the renewal task  *)
(* of each lease, the launcher a sterile candidate hands its workload to,  *)
(* and the one-shot activation of an Agent Sandbox.                        *)
(*                                                                         *)
(* A resident process is a child of a task of its own; a command runs      *)
(* inside the loop.  A candidate has no child: the launcher, a separate    *)
(* process, runs Maestro from the first bundle it accepts.  Time is        *)
(* abstract: a retry budget runs out, a deadline passes and a child exits  *)
(* at any step.  A request that fails and is retried is a stuttering step. *)
(* The guest token is not kept: a request that is refused for it fails.    *)
(***************************************************************************)
EXTENDS Naturals, FiniteSets

CONSTANTS
  GuestModes,       \* how a daemon is started
  GuestLeases,      \* lease ids
  GuestBundles,     \* activation bundles, by digest
  GuestSlots,       \* max_resident_processes
  GuestAttempts,    \* bound: attempts under the on_failure policy (3 in the code)
  NoBundle

ASSUME GuestAgentAssumption ==
  /\ GuestModes \subseteq {"ordinary", "gated", "candidate"}
  /\ GuestSlots \in Nat \ {0} /\ GuestAttempts \in Nat \ {0}
  /\ NoBundle \notin GuestBundles

VARIABLES
  \* the daemon: its stage and how it was started
  gdaemon, gmode,
  \* the control plane's side of each lease
  gapi, gkind, gstop,
  \* the handler of each lease: its stage, whether it is renewed, why it was
  \* cancelled, the attempts left, its child, the answer it is about to send
  gstage, grenew, greason, gleft, gchild, gwant,
  \* the bundle a candidate's lease carries, and the launcher
  gbundle, glauncher, gdigest, gmaestros

gdaemonvars == <<gdaemon, gmode>>
gapivars == <<gapi, gkind, gstop>>
gtaskvars == <<gstage, grenew, greason, gleft, gchild, gwant>>
glaunchvars == <<glauncher, gdigest, gmaestros>>
gvars == <<gdaemonvars, gapivars, gtaskvars, gbundle, glaunchvars>>

GuestKind == {"none", "command", "resident", "foreign"}
GuestStage == {"none", "scope", "fetch", "attempt", "spawned", "started", "wait", "final", "finish",
               "nochild", "kill", "stopped", "stopfinish", "lost", "answer",
               "activate", "launching", "watching", "settle", "exec", "erred", "done", "cancelled"}
GuestAnswer == {"none", "complete", "final", "retry"}

GuestTypeOK ==
  /\ gdaemon \in {"resolve", "gate", "announce", "reap", "refresh", "claim", "busy",
                  "stopping", "exited"}
  /\ gmode \in GuestModes
  /\ gapi \in [GuestLeases -> GuestAnswer \cup {"active", "lapsed"}]
  /\ gkind \in [GuestLeases -> GuestKind]
  /\ gstop \in [GuestLeases -> BOOLEAN]
  /\ gstage \in [GuestLeases -> GuestStage]
  /\ grenew \in [GuestLeases -> BOOLEAN]
  /\ greason \in [GuestLeases -> {"none", "DesiredStop", "LeaseLost"}]
  /\ gleft \in [GuestLeases -> 0..GuestAttempts]
  /\ gchild \in [GuestLeases -> {"none", "alive", "ok", "bad", "killed"}]
  /\ gwant \in [GuestLeases -> GuestAnswer]
  /\ gbundle \in [GuestLeases -> GuestBundles \cup {NoBundle}]
  /\ glauncher \in {"waiting", "accepted", "running", "ok", "bad"}
  /\ gdigest \in GuestBundles \cup {NoBundle}
  /\ gmaestros \in Nat

GuestInit ==
  /\ gdaemon = "resolve" /\ gmode \in GuestModes
  /\ gapi = [l \in GuestLeases |-> "none"] /\ gkind = [l \in GuestLeases |-> "none"]
  /\ gstop = [l \in GuestLeases |-> FALSE]
  /\ gstage = [l \in GuestLeases |-> "none"] /\ grenew = [l \in GuestLeases |-> FALSE]
  /\ greason = [l \in GuestLeases |-> "none"] /\ gleft = [l \in GuestLeases |-> 0]
  /\ gchild = [l \in GuestLeases |-> "none"] /\ gwant = [l \in GuestLeases |-> "none"]
  /\ gbundle = [l \in GuestLeases |-> NoBundle]
  /\ glauncher = "waiting" /\ gdigest = NoBundle /\ gmaestros = 0

-----------------------------------------------------------------------------
(* Helpers.                                                                  *)

GSet(f, l, v) == [f EXCEPT ![l] = v]

GStageTo(l, s) == gstage' = GSet(gstage, l, s)

\* The control plane accepts an answer of an active lease only.
GuestTakes(l, answer) == gapi[l] = "active" /\ gapi' = GSet(gapi, l, answer)

\* ResidentProcessSupervisor::active_len: a finished task counts until reaped.
Supervised == {l \in GuestLeases : gkind[l] \in {"resident", "foreign"}
                                    /\ gstage[l] \notin {"none"}}

SupervisorIsFull == Cardinality(Supervised) >= GuestSlots

\* guest_claim_kinds.  "foreign" is a resident job of another sandbox and
\* "misfit" one without its supervision metadata.
GuestClaimKinds ==
  LET residents == IF SupervisorIsFull THEN {} ELSE {"resident", "misfit", "foreign"} IN
  IF gmode = "candidate" THEN residents ELSE {"command"} \cup residents

\* The handler of lease l is forgotten with all it held.  A child it left alive
\* stays.
GuestForgets(l) ==
  /\ gkind' = GSet(gkind, l, "none") /\ gstop' = GSet(gstop, l, FALSE)
  /\ gchild' = GSet(gchild, l, IF gchild[l] = "alive" THEN "alive" ELSE "none")
  /\ gbundle' = GSet(gbundle, l, NoBundle)
  /\ gstage' = GSet(gstage, l, "none") /\ grenew' = GSet(grenew, l, FALSE)
  /\ greason' = GSet(greason, l, "none") /\ gleft' = GSet(gleft, l, 0)
  /\ gwant' = GSet(gwant, l, "none")

\* The handler has an answer, to be sent once.
GuestAnswers(l, answer) == GStageTo(l, "answer") /\ gwant' = GSet(gwant, l, answer)

-----------------------------------------------------------------------------
(* The daemon.  with_retry either succeeds or ends the daemon.               *)

ResolveSession ==
  /\ gdaemon = "resolve" /\ gdaemon' \in {"gate", "exited"}
  /\ UNCHANGED <<gmode, gapivars, gtaskvars, gbundle, glaunchvars>>

\* validate_sterile_lease_gate: only a gated daemon has one to validate.
PassGate ==
  /\ gdaemon = "gate"
  /\ gdaemon' \in (IF gmode = "gated" THEN {"announce", "exited"} ELSE {"announce"})
  /\ UNCHANGED <<gmode, gapivars, gtaskvars, gbundle, glaunchvars>>

\* The first Ready report; the heartbeat task starts after it.
Announce ==
  /\ gdaemon = "announce" /\ gdaemon' \in {"reap", "exited"}
  /\ UNCHANGED <<gmode, gapivars, gtaskvars, gbundle, glaunchvars>>

\* fail_resident_lease_and_report: three attempts to give the lease back, then
\* the health report.  Either failing, or a lease that has ended, ends the loop.
FailAndReport(l) ==
  \/ /\ GuestTakes(l, "retry")
     /\ gdaemon' \in {gdaemon, "stopping"}
  \/ /\ gdaemon' = "stopping"
     /\ UNCHANGED gapi

\* The loop reaps every finished task first.
ReapResident(l) ==
  /\ gdaemon = "reap" /\ gkind[l] # "command"
  /\ GuestForgets(l)
  /\ \/ /\ gstage[l] = "done" /\ UNCHANGED <<gdaemon, gapi>>
     \/ /\ gstage[l] = "erred" /\ FailAndReport(l)
  /\ UNCHANGED <<gmode, glaunchvars>>

\* The heartbeat task, which gives up after its own count of failures, ends
\* the loop too.
EndReaping ==
  /\ gdaemon = "reap" /\ \A l \in GuestLeases : gstage[l] \notin {"done", "erred"}
  /\ gdaemon' \in {"refresh", "stopping"}
  /\ UNCHANGED <<gmode, gapivars, gtaskvars, gbundle, glaunchvars>>

\* ensure_fresh: a recoverable failure is left to the next turn.
RefreshSession ==
  /\ gdaemon = "refresh" /\ gdaemon' \in {"claim", "stopping"}
  /\ UNCHANGED <<gmode, gapivars, gtaskvars, gbundle, glaunchvars>>

\* Nothing to claim, or the claim's retries ran out.
ClaimNothing ==
  /\ gdaemon = "claim" /\ gdaemon' \in {"reap", "stopping"}
  /\ UNCHANGED <<gmode, gapivars, gtaskvars, gbundle, glaunchvars>>

GuestGrants(l, k) ==
  /\ gapi[l] = "none"
  /\ gapi' = GSet(gapi, l, "active") /\ gkind' = GSet(gkind, l, k)
  /\ UNCHANGED gstop

\* A claim whose response is lost: the retry asks for another lease, and
\* nobody in this sandbox knows of the first.
ClaimIsLost(l) ==
  /\ gdaemon = "claim"
  /\ GuestClaimKinds # {} /\ GuestGrants(l, "none")
  /\ UNCHANGED <<gdaemonvars, gtaskvars, gbundle, glaunchvars>>

\* A resident lease gets a task; the restart policy decides its attempts.
ClaimResident(l) ==
  /\ gdaemon = "claim"
  /\ \E k \in GuestClaimKinds \cap {"resident", "foreign"} : GuestGrants(l, k)
  /\ gdaemon' = "reap"
  /\ GStageTo(l, "scope")
  /\ \E n \in {1, GuestAttempts} : gleft' = GSet(gleft, l, n)
  /\ \E b \in (IF gmode = "candidate" THEN GuestBundles ELSE {NoBundle}) :
       gbundle' = GSet(gbundle, l, b)
  /\ UNCHANGED <<gmode, grenew, greason, gchild, gwant, glaunchvars>>

\* A resident lease without metadata is given back from the loop itself.
ClaimMisfit(l) ==
  /\ gdaemon = "claim" /\ "misfit" \in GuestClaimKinds
  /\ gapi[l] = "none"
  /\ \/ gapi' = GSet(gapi, l, "retry") /\ gdaemon' \in {"reap", "stopping"}
     \/ gapi' = GSet(gapi, l, "active") /\ gdaemon' = "stopping"
  /\ UNCHANGED <<gmode, gkind, gstop, gtaskvars, gbundle, glaunchvars>>

\* A command runs inside the loop.  A child that cannot be spawned is an error.
ClaimCommand(l) ==
  /\ gdaemon = "claim" /\ "command" \in GuestClaimKinds /\ GuestGrants(l, "command")
  /\ gdaemon' = "busy"
  /\ \/ GStageTo(l, "exec") /\ gchild' = GSet(gchild, l, "alive") /\ UNCHANGED gwant
     \/ GuestAnswers(l, "final") /\ UNCHANGED gchild
  /\ grenew' = GSet(grenew, l, TRUE)
  /\ UNCHANGED <<gmode, greason, gleft, gbundle, glaunchvars>>

\* execute_streaming: the child's exit, the command's timeout, or a
\* cancellation, whichever select sees; the last two kill the child first.
GuestCommandEnds(l) ==
  /\ gdaemon = "busy" /\ gstage[l] = "exec"
  /\ \/ /\ gchild[l] \in {"ok", "bad"} /\ UNCHANGED gchild
        /\ \E answer \in {"complete", "final"} : GuestAnswers(l, answer)
     \/ /\ gchild' = GSet(gchild, l, "killed") /\ GuestAnswers(l, "final")
  /\ UNCHANGED <<gdaemonvars, gapivars, grenew, greason, gleft, gbundle, glaunchvars>>

\* The renewal is stopped, the answer is sent once, and a failure to send it
\* is reported as ill health.
CommandAnswered(l) ==
  /\ gdaemon = "busy" /\ gstage[l] = "answer" /\ gkind[l] = "command"
  /\ GuestForgets(l)
  /\ gdaemon' \in {"reap", "stopping"}
  /\ GuestTakes(l, gwant[l]) \/ UNCHANGED gapi
  /\ UNCHANGED <<gmode, glaunchvars>>

\* run_until_sterile_lease_expiry: the loop is dropped where it stands.  The
\* command in it is dropped unanswered and its child is not killed.
SterileLeaseExpires ==
  /\ gmode = "gated" /\ gdaemon \in {"reap", "refresh", "claim", "busy"}
  /\ gdaemon' = "stopping"
  /\ LET S == {l \in GuestLeases : gkind[l] = "command"}
         Reset(f, v) == [l \in GuestLeases |-> IF l \in S THEN v ELSE f[l]] IN
     /\ gstage' = Reset(gstage, "none") /\ grenew' = Reset(grenew, FALSE)
     /\ greason' = Reset(greason, "none") /\ gwant' = Reset(gwant, "none")
     /\ gkind' = Reset(gkind, "none")
  /\ UNCHANGED <<gmode, gapi, gstop, gleft, gchild, gbundle, glaunchvars>>

\* Mutant of ShutdownSupervisor: the children are spawned without kill_on_drop.
ShutdownLeavesChildren ==
  LET S == {l \in Supervised : gstage[l] \notin {"done", "erred", "cancelled"}} IN
  /\ gdaemon = "stopping" /\ S # {}
  /\ gstage' = [l \in GuestLeases |-> IF l \in S THEN "cancelled" ELSE gstage[l]]
  /\ grenew' = [l \in GuestLeases |-> grenew[l] /\ l \notin S]
  /\ UNCHANGED <<gdaemonvars, gapivars, greason, gleft, gchild, gwant, gbundle, glaunchvars>>

\* ResidentProcessSupervisor::shutdown: every task that has not returned is
\* aborted, which kills its child (kill_on_drop) and ends its renewal.
ShutdownSupervisor ==
  LET S == {l \in Supervised : gstage[l] \notin {"done", "erred", "cancelled"}} IN
  /\ gdaemon = "stopping" /\ S # {}
  /\ gstage' = [l \in GuestLeases |-> IF l \in S THEN "cancelled" ELSE gstage[l]]
  /\ grenew' = [l \in GuestLeases |-> grenew[l] /\ l \notin S]
  /\ gchild' = [l \in GuestLeases |->
                  IF l \in S /\ gchild[l] = "alive" THEN "killed" ELSE gchild[l]]
  /\ UNCHANGED <<gdaemonvars, gapivars, greason, gleft, gwant, gbundle, glaunchvars>>

\* Each completion is reconciled; a failure does not keep the others from it.
ReconcileShutdown(l) ==
  /\ gdaemon = "stopping" /\ \A k \in Supervised : gstage[k] \in {"done", "erred", "cancelled"}
  /\ gstage[l] \in {"done", "erred", "cancelled"}
  /\ GuestForgets(l)
  /\ \/ gstage[l] # "done" /\ GuestTakes(l, "retry")
     \/ UNCHANGED gapi
  /\ UNCHANGED <<gdaemonvars, glaunchvars>>

ExitDaemon ==
  /\ gdaemon = "stopping" /\ Supervised = {}
  /\ gdaemon' = "exited"
  /\ UNCHANGED <<gmode, gapivars, gtaskvars, gbundle, glaunchvars>>

-----------------------------------------------------------------------------
(* The control plane and the operating system.                               *)

\* A lease lapses, or ends for another reason.
GuestLeaseEnds(l) ==
  /\ gapi[l] = "active" /\ gapi' = GSet(gapi, l, "lapsed")
  /\ UNCHANGED <<gdaemonvars, gkind, gstop, gtaskvars, gbundle, glaunchvars>>

GuestStopDesired(l) ==
  /\ gapi[l] = "active" /\ gkind[l] = "resident" /\ ~gstop[l] /\ gstop' = GSet(gstop, l, TRUE)
  /\ UNCHANGED <<gdaemonvars, gapi, gkind, gtaskvars, gbundle, glaunchvars>>

ChildExits(l) ==
  /\ gchild[l] = "alive" /\ \E r \in {"ok", "bad"} : gchild' = GSet(gchild, l, r)
  /\ UNCHANGED <<gdaemonvars, gapivars, gstage, grenew, greason, gleft, gwant, gbundle, glaunchvars>>

\* spawn_lease_renewal_task: the stop signal comes with a renewal, which goes on.
RenewalSeesStop(l) ==
  /\ grenew[l] /\ gapi[l] = "active" /\ gstop[l] /\ greason[l] = "none"
  /\ greason' = GSet(greason, l, "DesiredStop")
  /\ UNCHANGED <<gdaemonvars, gapivars, gstage, grenew, gleft, gchild, gwant, gbundle, glaunchvars>>

\* The attempts of one renewal all failed.  After a desired stop it keeps on.
RenewalIsLost(l) ==
  /\ grenew[l] /\ greason[l] # "DesiredStop"
  /\ greason' = GSet(greason, l, "LeaseLost") /\ grenew' = GSet(grenew, l, FALSE)
  /\ UNCHANGED <<gdaemonvars, gapivars, gstage, gleft, gchild, gwant, gbundle, glaunchvars>>

-----------------------------------------------------------------------------
(* The handler of a resident lease: one action per call it waits for.        *)

GuestStep(l, from) == gstage[l] = from

\* A step of the handler that leaves the control plane, the daemon, its
\* bundle and the launcher alone.
OwnStep == UNCHANGED <<gdaemonvars, gapivars, gbundle, glaunchvars>>

\* handle_lease: a job of another sandbox goes back to the queue.
CheckScope(l) ==
  /\ GuestStep(l, "scope")
  /\ IF gkind[l] = "foreign" THEN GuestAnswers(l, "retry")
     ELSE GStageTo(l, "fetch") /\ UNCHANGED gwant
  /\ OwnStep /\ UNCHANGED <<grenew, greason, gleft, gchild>>

\* The payload, the bootstrap and its activation.  Nothing is renewed yet.  A
\* bootstrap that cannot be prepared after its delivery fails for good.
FetchBootstrap(l) ==
  /\ GuestStep(l, "fetch")
  /\ \/ GStageTo(l, "erred") /\ UNCHANGED <<gwant, grenew>>
     \/ /\ gmode # "candidate"
        /\ \/ GuestAnswers(l, "final") /\ UNCHANGED grenew
           \/ GStageTo(l, "attempt") /\ grenew' = GSet(grenew, l, TRUE) /\ UNCHANGED gwant
     \/ gmode = "candidate" /\ GStageTo(l, "activate") /\ UNCHANGED <<gwant, grenew>>
  /\ OwnStep /\ UNCHANGED <<greason, gleft, gchild>>

\* validate_resident_sterile_activation: an ordinary agent with an ordinary job
\* asks nobody; any other asks the control plane, which may refuse.
ActivationAnswers == IF gmode = "ordinary" THEN {TRUE} ELSE BOOLEAN

\* One attempt: a gated activation is validated again, then the child is
\* spawned.  Before the last attempt a failed spawn is tried again.
SpawnChild(l) ==
  /\ GuestStep(l, "attempt")
  /\ gleft' = GSet(gleft, l, gleft[l] - 1)
  /\ \/ GStageTo(l, "spawned") /\ gchild' = GSet(gchild, l, "alive")
     \/ /\ UNCHANGED gchild
        /\ \/ gleft[l] > 1 /\ UNCHANGED gstage
           \/ gleft[l] = 1 /\ GStageTo(l, "nochild")
           \/ FALSE \in ActivationAnswers /\ GStageTo(l, "erred")
  /\ grenew' = [grenew EXCEPT ![l] = @ /\ gstage'[l] # "erred"]
  /\ OwnStep /\ UNCHANGED <<greason, gwant>>

\* post_resident_observation_until_resolved: on to the next stage when the
\* control plane has it, to the other when the lease was cancelled meanwhile.
GuestObserved(l, next, cancelled) ==
  \/ gapi[l] = "active" /\ greason[l] = "none" /\ GStageTo(l, next)
  \/ greason[l] # "none" /\ GStageTo(l, cancelled)

\* The failed last spawn is observed, and the lease fails for good.
ObserveNoChild(l) ==
  /\ GuestStep(l, "nochild")
  /\ \/ /\ greason[l] = "none" /\ gapi[l] = "active" /\ GuestAnswers(l, "final")
     \/ /\ greason[l] = "DesiredStop" /\ GStageTo(l, "stopped") /\ UNCHANGED gwant
     \/ /\ greason[l] = "LeaseLost" /\ GuestAnswers(l, "final")
  /\ OwnStep /\ UNCHANGED <<grenew, greason, gleft, gchild>>

ObserveStarting(l) ==
  /\ GuestStep(l, "spawned") /\ GuestObserved(l, "started", "kill")
  /\ OwnStep /\ UNCHANGED <<grenew, greason, gleft, gchild, gwant>>

ObserveRunning(l) ==
  /\ GuestStep(l, "started") /\ GuestObserved(l, "wait", "kill")
  /\ OwnStep /\ UNCHANGED <<grenew, greason, gleft, gchild, gwant>>

\* The child exited: another attempt, or the last word on it.  The
\* cancellation is not looked at between two attempts.
WaitForChild(l) ==
  /\ GuestStep(l, "wait")
  /\ \/ greason[l] # "none" /\ GStageTo(l, "kill")
     \/ gchild[l] = "bad" /\ gleft[l] > 0 /\ GStageTo(l, "attempt")
     \/ (gchild[l] = "ok" \/ (gchild[l] = "bad" /\ gleft[l] = 0)) /\ GStageTo(l, "final")
  /\ OwnStep /\ UNCHANGED <<grenew, greason, gleft, gchild, gwant>>

\* reconcile_resident_cancellation kills and reaps the child before it tells
\* anyone.
KillChild(l) ==
  /\ GuestStep(l, "kill")
  /\ gchild' = GSet(gchild, l, "killed")
  /\ GStageTo(l, IF greason[l] = "DesiredStop" THEN "stopped" ELSE "lost")
  /\ OwnStep /\ UNCHANGED <<grenew, greason, gleft, gwant>>

\* The Lost observation is tried once, and the lease is given back once.
ReportLost(l) ==
  /\ GuestStep(l, "lost")
  /\ \/ gapi[l] = "active" /\ GuestAnswers(l, "retry")
     \/ GStageTo(l, "erred") /\ UNCHANGED gwant
  /\ OwnStep /\ UNCHANGED <<grenew, greason, gleft, gchild>>

\* complete_desired_stop_resident_lease: tried for ever, cancelled or not.
ReportStopped(l) ==
  /\ GuestStep(l, "stopped") /\ gapi[l] = "active" /\ GStageTo(l, "stopfinish")
  /\ OwnStep /\ UNCHANGED <<grenew, greason, gleft, gchild, gwant>>

FinishStopped(l) ==
  /\ GuestStep(l, "stopfinish") /\ GuestTakes(l, "complete") /\ UNCHANGED <<gkind, gstop>>
  /\ GStageTo(l, "done") /\ grenew' = GSet(grenew, l, FALSE)
  /\ UNCHANGED <<gdaemonvars, greason, gleft, gchild, gwant, gbundle, glaunchvars>>

\* The final observation and the completion, each until it is resolved.  A
\* cancellation without a child completes a desired stop and fails the rest.
WithoutChild(l) ==
  /\ greason[l] # "none"
  /\ IF greason[l] = "DesiredStop" THEN GStageTo(l, "stopped") /\ UNCHANGED gwant
     ELSE GuestAnswers(l, "final")

ObserveFinal(l) ==
  /\ GuestStep(l, "final")
  /\ \/ /\ gapi[l] = "active" /\ greason[l] = "none" /\ GStageTo(l, "finish") /\ UNCHANGED gwant
     \/ WithoutChild(l)
  /\ OwnStep /\ UNCHANGED <<grenew, greason, gleft, gchild>>

FinishLease(l) ==
  /\ GuestStep(l, "finish")
  /\ \/ /\ greason[l] = "none" /\ GuestTakes(l, "complete")
        /\ GStageTo(l, "done") /\ grenew' = GSet(grenew, l, FALSE) /\ UNCHANGED gwant
     \/ WithoutChild(l) /\ UNCHANGED <<gapi, grenew>>
  /\ UNCHANGED <<gdaemonvars, gkind, gstop, greason, gleft, gchild, gbundle, glaunchvars>>

\* An answer sent once.  A task whose answer failed returns an error, and the
\* supervisor gives its lease back.
SendOnce(l) ==
  /\ GuestStep(l, "answer") /\ gkind[l] # "command"
  /\ gwant' = GSet(gwant, l, "none") /\ grenew' = GSet(grenew, l, FALSE)
  /\ \/ GuestTakes(l, gwant[l]) /\ gstage' \in {GSet(gstage, l, s) : s \in {"done", "erred"}}
     \/ UNCHANGED gapi /\ GStageTo(l, "erred")
  /\ UNCHANGED <<gdaemonvars, gkind, gstop, greason, gleft, gchild, gbundle, glaunchvars>>

-----------------------------------------------------------------------------
(* The launcher of a sterile candidate, and the handler that watches it.     *)

\* Mutant of RegisterActivation: the digest of a repeat is not compared.
RegisterAnyActivation(b) ==
  IF glauncher = "waiting" THEN glauncher' = "accepted" /\ gdigest' = b
  ELSE UNCHANGED <<glauncher, gdigest>>

\* register_sterile_activation: the first bundle is the one, and a repeat of
\* it is answered with the present status.
RegisterActivation(b) ==
  \/ /\ glauncher = "waiting"
     /\ glauncher' = "accepted" /\ gdigest' = b
  \/ /\ glauncher # "waiting" /\ gdigest = b
     /\ UNCHANGED <<glauncher, gdigest>>

\* activate_sterile_launcher_after_revalidation: the activation is validated
\* again and sent until the launcher answers.  The answer may be lost, and
\* then the same bundle is sent again; a refusal or the expiry is an error.
ActivateLauncher(l) ==
  /\ GuestStep(l, "activate")
  /\ \/ /\ RegisterActivation(gbundle[l])
        /\ \/ GStageTo(l, "launching") /\ grenew' = GSet(grenew, l, TRUE)
           \/ UNCHANGED <<gstage, grenew>>
     \/ /\ GStageTo(l, "erred") /\ UNCHANGED <<glauncher, gdigest, grenew>>
  /\ UNCHANGED <<gdaemonvars, gapivars, greason, gleft, gchild, gwant, gbundle, gmaestros>>

\* run_sterile_activation: the bundle's files, then Maestro.
LauncherStarts ==
  /\ glauncher = "accepted"
  /\ \/ glauncher' = "running" /\ gmaestros' = gmaestros + 1
     \/ glauncher' = "bad" /\ UNCHANGED gmaestros
  /\ UNCHANGED <<gdaemonvars, gapivars, gtaskvars, gbundle, gdigest>>

MaestroExits ==
  /\ glauncher = "running" /\ glauncher' \in {"ok", "bad"}
  /\ UNCHANGED <<gdaemonvars, gapivars, gtaskvars, gbundle, gdigest, gmaestros>>

\* supervise_sterile_launcher: it waits for a status until the activation
\* expires, and posts each observation once.
WatchLauncher(l) ==
  /\ \/ /\ GuestStep(l, "launching")
        /\ \/ glauncher \in {"running", "ok", "bad"} /\ gapi[l] = "active" /\ GStageTo(l, "watching")
           \/ GStageTo(l, "erred")
        /\ UNCHANGED gwant
     \/ /\ GuestStep(l, "watching")
        /\ \/ /\ glauncher = "ok" /\ gapi[l] = "active" /\ GStageTo(l, "settle") /\ UNCHANGED gwant
           \/ /\ glauncher = "bad" /\ gapi[l] = "active" /\ GuestAnswers(l, "final")
           \/ GStageTo(l, "erred") /\ UNCHANGED gwant
  /\ grenew' = [grenew EXCEPT ![l] = @ /\ gstage'[l] # "erred"]
  /\ OwnStep /\ UNCHANGED <<greason, gleft, gchild>>

\* complete_resident_lease_until_resolved; a cancelled completion is an error.
SettleLauncher(l) ==
  /\ GuestStep(l, "settle")
  /\ \/ greason[l] = "none" /\ GuestTakes(l, "complete") /\ GStageTo(l, "done")
     \/ greason[l] # "none" /\ GStageTo(l, "erred") /\ UNCHANGED gapi
  /\ grenew' = GSet(grenew, l, FALSE)
  /\ UNCHANGED <<gdaemonvars, gkind, gstop, greason, gleft, gchild, gwant, gbundle, glaunchvars>>

-----------------------------------------------------------------------------
GuestDaemonStep ==
  \/ ResolveSession \/ PassGate \/ Announce
  \/ EndReaping \/ RefreshSession \/ ClaimNothing
  \/ SterileLeaseExpires \/ ShutdownSupervisor \/ ExitDaemon
  \/ LauncherStarts \/ MaestroExits

GuestLeaseStep(l) ==
  \/ ReapResident(l) \/ ReconcileShutdown(l)
  \/ ClaimIsLost(l) \/ ClaimResident(l) \/ ClaimMisfit(l) \/ ClaimCommand(l)
  \/ GuestCommandEnds(l) \/ CommandAnswered(l)
  \/ GuestLeaseEnds(l) \/ GuestStopDesired(l) \/ ChildExits(l)
  \/ RenewalSeesStop(l) \/ RenewalIsLost(l)
  \/ CheckScope(l) \/ FetchBootstrap(l) \/ SpawnChild(l) \/ ObserveNoChild(l)
  \/ ObserveStarting(l) \/ ObserveRunning(l) \/ WaitForChild(l) \/ KillChild(l)
  \/ ReportLost(l) \/ ReportStopped(l) \/ FinishStopped(l)
  \/ ObserveFinal(l) \/ FinishLease(l) \/ SendOnce(l)
  \/ ActivateLauncher(l) \/ WatchLauncher(l) \/ SettleLauncher(l)

GuestNext == GuestDaemonStep \/ \E l \in GuestLeases : GuestLeaseStep(l)

GuestSpec == GuestInit /\ [][GuestNext]_gvars

-----------------------------------------------------------------------------
(* Properties.                                                               *)

\* A lease the agent gave back, for another executor to run or for good, has
\* no live child here: whichever of the handler, the supervisor and the
\* daemon's shutdown answered it, the child was dead or reaped before.
HandedBackDead ==
  \A l \in GuestLeases : gapi[l] \in {"complete", "final", "retry"} => gchild[l] # "alive"

\* The launcher runs Maestro once, however often bundles are sent to it, and a
\* handler that watches the launcher watches the bundle it sent itself.
OwnMaestro ==
  /\ gmaestros <= 1
  /\ \A l \in GuestLeases :
       gstage[l] \in {"launching", "watching", "settle"} => gdigest = gbundle[l]
=============================================================================
