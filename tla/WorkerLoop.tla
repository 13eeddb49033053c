------------------------------ MODULE WorkerLoop ------------------------------
(***************************************************************************)
(* One worker process: the loop that claims leases, the handler of each    *)
(* lease with its renewal task and its cancellation signal, the supervisor *)
(* of provider-isolated resident processes, and the drain at shutdown.     *)
(*                                                                         *)
(* The loop is one task.  Handlers of resident, control and ordinary       *)
(* leases are tasks of their own; a provision runs inside the loop, which  *)
(* meanwhile claims residents on a fast lane.  Provider calls run on       *)
(* blocking threads that no abort can stop: only the cancellation signal   *)
(* tells them, and one whose handler was dropped goes on unseen.  Time is  *)
(* abstract: a deadline passes at any step.  The control plane is the  *)
(* wapi and wstop of a lease; any request of the worker may fail, and any  *)
(* lease may end while it is held.                                         *)
(***************************************************************************)
EXTENDS Naturals, FiniteSets

CONSTANTS
  Leases,           \* lease ids
  JobKinds,         \* kinds of job the queue offers
  OrdinarySlots,    \* ordinary_slots: max_concurrent_jobs - 1, at least 1
  ResidentSlots,    \* max_resident_processes
  ResidentAttempts, \* bound: MAX_RESIDENT_PROCESS_ATTEMPTS
  NoLease

\* "misfit" is a resident job that lacks its supervision metadata.
Provisions == {"provision", "restore"}
Residents == {"resident", "misfit"}

ASSUME WorkerLoopAssumption ==
  /\ JobKinds \subseteq Provisions \cup Residents
        \cup {"command", "file", "control", "instructions"}
  /\ OrdinarySlots \in Nat \ {0} /\ ResidentSlots \in Nat \ {0}
  /\ ResidentAttempts \in Nat \ {0}
  /\ NoLease \notin Leases

VARIABLES
  \* the loop: where it is, the lease in its hand, the fast lane's claim
  wloop, whand, wfast,
  \* shutdown: 0 none, 1 requested, 2 graceful deadline passed
  wshut,
  \* the drain receipt: whether it is published or settled, and what it captured
  wreceipt, wcaptured,
  \* the control plane's side of each lease: its state, a desired stop
  wapi, wkind, wstop,
  \* the handler of each lease: its stage, whether it is renewed, why it was
  \* cancelled, what its provider call came to, its attempts and its answer
  wtask, wrenew, wreason, wout, wtry, wans,
  \* the resident Pod as the provider last saw it
  wpod

wcontrol == <<wloop, whand, wfast>>
wdrain == <<wshut, wreceipt, wcaptured>>
whandler == <<wtask, wrenew, wreason, wout, wtry, wans, wpod>>
wvars == <<wcontrol, wdrain, wapi, wkind, wstop, whandler>>

Reason == {"none", "DesiredStop", "LeaseLost", "Shutdown"}
WorkerStage == {"none", "fetch", "mint", "run", "callback", "apply", "poll", "observe", "cleanup",
          "settle", "stopped", "answer", "lost", "gone"}
WorkerAnswer == {"none", "complete", "retry", "final"}
\* What a provider call came to.  "finished" and "crashed" are exits of the
\* resident process; the others are errors by the class classify_retry sees.
CallOutcome == {"none", "finished", "crashed", "capacity", "retryable", "permanent"}
PodView == {"absent", "pending", "running", "finished", "crashed"}

WorkerTypeOK ==
  /\ wloop \in {"claim", "admit", "parked", "inline", "drain", "exited"}
  /\ whand \in Leases \cup {NoLease} /\ wfast \in Leases \cup {NoLease}
  /\ wshut \in 0..2 /\ wreceipt \in {"none", "published", "settled"}
  /\ wcaptured \subseteq Leases
  /\ wapi \in [Leases -> {"none", "active", "ended"}]
  /\ wkind \in [Leases -> JobKinds \cup {"none"}]
  /\ wstop \in [Leases -> BOOLEAN]
  /\ wtask \in [Leases -> WorkerStage]
  /\ wrenew \in [Leases -> BOOLEAN]
  /\ wreason \in [Leases -> Reason]
  /\ wout \in [Leases -> CallOutcome]
  /\ wtry \in [Leases -> 0..ResidentAttempts]
  /\ wans \in [Leases -> WorkerAnswer]
  /\ wpod \in [Leases -> PodView]

WorkerInit ==
  /\ wloop = "claim" /\ whand = NoLease /\ wfast = NoLease
  /\ wshut = 0 /\ wreceipt = "none" /\ wcaptured = {}
  /\ wapi = [l \in Leases |-> "none"] /\ wkind = [l \in Leases |-> "none"]
  /\ wstop = [l \in Leases |-> FALSE]
  /\ wtask = [l \in Leases |-> "none"] /\ wrenew = [l \in Leases |-> FALSE]
  /\ wreason = [l \in Leases |-> "none"] /\ wout = [l \in Leases |-> "none"]
  /\ wtry = [l \in Leases |-> 0] /\ wans = [l \in Leases |-> "none"]
  /\ wpod = [l \in Leases |-> "absent"]

-----------------------------------------------------------------------------
(* Cancellation and the small helpers of a handler.                          *)

Cancelled(l) == wreason[l] # "none"

\* LeaseCancellation::cancel: the first reason stands, the signal stays set.
CancelReason(r, reason) == IF r = "none" THEN reason ELSE r

CancelLease(l, reason) == wreason' = [wreason EXCEPT ![l] = CancelReason(@, reason)]

Working(l) == wtask[l] \notin {"none", "gone"}
ResidentTasks == {l \in Leases : wkind[l] = "resident" /\ Working(l)}
OrdinaryTasks == {l \in Leases : wkind[l] # "resident" /\ Working(l)
                                 /\ ~(wloop = "inline" /\ whand = l)}

\* claim_kinds_for_work_loop: with the resident slots full, the list is
\* explicit and leaves out delete_home too, which "control" stands for only
\* in part: stop_sandbox is always claimed.
ClaimKinds == IF Cardinality(ResidentTasks) < ResidentSlots
              THEN JobKinds ELSE JobKinds \ Residents

\* The first stage of handle_lease for each kind.
FirstStage(kind) ==
  CASE kind \in {"resident", "file"} -> "fetch"
    [] kind = "provision" -> "mint"
    [] OTHER -> "run"

\* handle_lease starts: the renewal task is spawned before anything else.
StartHandler(l, kind) ==
  /\ wtask' = [wtask EXCEPT ![l] = FirstStage(kind)]
  /\ wrenew' = [wrenew EXCEPT ![l] = TRUE]
  /\ UNCHANGED <<wreason, wout, wtry, wans, wpod>>

GoTo(l, stage) == wtask' = [wtask EXCEPT ![l] = stage]

\* The handler has its answer, which it sends next.
Answers(l, answer) ==
  /\ GoTo(l, "answer")
  /\ wans' = [wans EXCEPT ![l] = answer]

\* The handler of every lease in S is gone, and what it held with it.  A lease
\* it did not answer is left to lapse.
Dropped(S) ==
  LET Reset(f, v) == [l \in Leases |-> IF l \in S THEN v ELSE f[l]] IN
  /\ wtask' = Reset(wtask, "gone") /\ wrenew' = Reset(wrenew, FALSE)
  /\ wreason' = Reset(wreason, "none") /\ wout' = Reset(wout, "none")
  /\ wtry' = Reset(wtry, 0) /\ wans' = Reset(wans, "none") /\ wpod' = Reset(wpod, "absent")
  /\ wkind' = Reset(wkind, "none") /\ wstop' = Reset(wstop, FALSE)
  /\ wapi' = Reset(wapi, "ended")

-----------------------------------------------------------------------------
(* The loop.                                                                 *)

Granted(l, kind) ==
  /\ wapi[l] = "none"
  /\ wapi' = [wapi EXCEPT ![l] = "active"]
  /\ wkind' = [wkind EXCEPT ![l] = kind]

\* The claim request.  Its response may be lost after the last retry, which
\* leaves a lease that nobody handles.
ClaimLease(l, kind) ==
  /\ wloop = "claim" /\ wshut = 0
  /\ kind \in ClaimKinds
  /\ \/ /\ wloop' = "admit" /\ whand' = l
        /\ Granted(l, kind) /\ UNCHANGED <<wstop, whandler>>
     \/ wapi[l] = "none" /\ Dropped({l}) /\ UNCHANGED <<wloop, whand>>
  /\ UNCHANGED <<wfast, wdrain>>

\* A lease in hand goes to the resident set, to the ordinary set, into the
\* loop itself, or waits for an ordinary slot without a handler.
Dispatch(l) ==
  IF wkind[l] \in Provisions
  THEN /\ wloop' = "inline" /\ whand' = l
       /\ StartHandler(l, wkind[l])
  ELSE IF wkind[l] \in {"resident", "control"} \/ Cardinality(OrdinaryTasks) < OrdinarySlots
  THEN /\ wloop' = "claim" /\ whand' = NoLease
       /\ StartHandler(l, wkind[l])
  ELSE /\ wloop' = "parked"
       /\ UNCHANGED <<whand, whandler>>

\* A lease that was claimed while the shutdown was requested is failed for a
\* retry, within the graceful deadline.
ReleaseRacedLease(l) == wshut > 0 /\ Dropped({l})

\* The loop ends when the release does not get through.
AdmitLease ==
  /\ wloop = "admit"
  /\ \/ /\ ReleaseRacedLease(whand)
        /\ wloop' \in {"claim", "drain"} /\ whand' = NoLease
     \/ wshut = 0 /\ Dispatch(whand) /\ UNCHANGED <<wapi, wkind, wstop>>
  /\ UNCHANGED <<wfast, wdrain>>

\* An ordinary task ended: the parked lease gets its slot, whatever became of
\* the lease or of the shutdown while it waited.
Unpark ==
  /\ wloop = "parked" /\ Cardinality(OrdinaryTasks) < OrdinarySlots
  /\ StartHandler(whand, wkind[whand])
  /\ wloop' = "claim" /\ whand' = NoLease
  /\ UNCHANGED <<wfast, wdrain, wapi, wkind, wstop>>

\* During a provision the loop claims resident jobs only.
FastLaneClaim(l, kind) ==
  /\ wloop = "inline" /\ wshut = 0 /\ wfast = NoLease
  /\ Cardinality(ResidentTasks) < ResidentSlots
  /\ kind \in JobKinds \cap Residents
  /\ Granted(l, kind)
  /\ wfast' = l
  /\ UNCHANGED <<wloop, whand, wdrain, wstop, whandler>>

\* The fast lane's response is admitted; a misfit goes to the ordinary set
\* without waiting for a slot.
FastLaneAdmit ==
  /\ wloop = "inline" /\ wfast # NoLease
  /\ wfast' = NoLease
  /\ \/ ReleaseRacedLease(wfast)
     \/ wshut = 0 /\ StartHandler(wfast, wkind[wfast]) /\ UNCHANGED <<wapi, wkind, wstop>>
  /\ UNCHANGED <<wloop, whand, wdrain>>

\* The provision in the loop returned; a fast lane claim in flight is dropped.
InlineDone ==
  /\ wloop = "inline" /\ wtask[whand] = "gone"
  /\ wloop' = "claim" /\ whand' = NoLease /\ wfast' = NoLease
  /\ Dropped({wfast} \ {NoLease})
  /\ UNCHANGED wdrain

\* drain_watchdog: the handler is dropped with its renewal; a provider call
\* under way goes on and is not told.
InlineDropped ==
  /\ wloop = "inline" /\ wshut >= 2
  /\ Dropped({whand, wfast} \ {NoLease})
  /\ wloop' = "drain" /\ whand' = NoLease /\ wfast' = NoLease
  /\ UNCHANGED wdrain

\* The loop ends on the shutdown flag or after max_iterations.
LeaveLoop ==
  /\ wloop = "claim"
  /\ wloop' = "drain"
  /\ wshut' = IF wshut = 0 THEN 1 ELSE wshut
  /\ UNCHANGED <<whand, wfast, wreceipt, wcaptured, wapi, wkind, wstop, whandler>>

-----------------------------------------------------------------------------
(* Shutdown and drain.                                                       *)

\* The signal, then the graceful deadline of the plan.
ShutdownClock ==
  /\ wshut < 2 /\ wloop # "exited"
  /\ wshut' = wshut + 1
  /\ UNCHANGED <<wcontrol, wreceipt, wcaptured, wapi, wkind, wstop, whandler>>

\* The receipt task starts with the plan, whatever the loop is doing.
PublishReceipt ==
  /\ wshut > 0 /\ wreceipt = "none" /\ wloop # "exited"
  /\ wreceipt' = "published"
  /\ wcaptured' = {l \in ResidentTasks : wapi[l] = "active"}
  /\ UNCHANGED <<wcontrol, wshut, wapi, wkind, wstop, whandler>>

\* A resident lease that the receipt does not name is not ours any more.
Uncaptured == ResidentTasks \ wcaptured

\* The receipt is awaited once the loop has ended.
RevokeUncaptured ==
  /\ wloop = "drain" /\ wreceipt = "published"
  /\ wreceipt' = "settled" /\ wcaptured' = {}
  /\ wreason' = [l \in Leases |-> IF l \in Uncaptured
                                  THEN CancelReason(wreason[l], "LeaseLost") ELSE wreason[l]]
  /\ UNCHANGED <<wcontrol, wshut, wapi, wkind, wstop, wtask, wrenew, wout, wtry, wans, wpod>>

\* drain_resident_tasks_to_channel_until_deadline at the graceful deadline.
ForceRelease ==
  /\ wloop = "drain" /\ wshut >= 2
  /\ \E l \in ResidentTasks : ~Cancelled(l)
  /\ wreason' = [l \in Leases |-> IF l \in ResidentTasks
                                  THEN CancelReason(wreason[l], "Shutdown") ELSE wreason[l]]
  /\ UNCHANGED <<wcontrol, wdrain, wapi, wkind, wstop, wtask, wrenew, wout, wtry, wans, wpod>>

\* The process ends when its tasks have, or at the hard deadline.
ExitWorker ==
  /\ wloop = "drain"
  /\ wshut = 2 \/ ResidentTasks \cup OrdinaryTasks = {}
  /\ wloop' = "exited"
  /\ Dropped({l \in Leases : Working(l)})
  /\ UNCHANGED <<whand, wfast, wdrain>>

-----------------------------------------------------------------------------
(* The control plane and the renewal task.                                   *)

\* A lease ends on the control plane's side: it lapsed, or its job was ended.
LeaseEnds(l) ==
  /\ wapi[l] = "active"
  /\ wapi' = [wapi EXCEPT ![l] = "ended"]
  /\ UNCHANGED <<wcontrol, wdrain, wkind, wstop, whandler>>

DesireStop(l) ==
  /\ wapi[l] = "active" /\ wkind[l] \in Residents /\ ~wstop[l]
  /\ wstop' = [wstop EXCEPT ![l] = TRUE]
  /\ UNCHANGED <<wcontrol, wdrain, wapi, wkind, whandler>>

\* A renewal is refused because the process is to stop: the job is cancelled
\* and the lease is renewed on.
RenewalToldToStop(l) ==
  /\ wrenew[l] /\ wkind[l] \in Residents /\ wstop[l] /\ wapi[l] = "active"
  /\ ~Cancelled(l)
  /\ CancelLease(l, "DesiredStop")
  /\ UNCHANGED <<wcontrol, wdrain, wapi, wkind, wstop, wtask, wrenew, wout, wtry, wans, wpod>>

\* A renewal task that gives up without a word to the job.
RenewalLostSilently(l) ==
  /\ wrenew[l]
  /\ ~(wkind[l] \in Residents /\ wreason[l] = "DesiredStop")
  /\ wrenew' = [wrenew EXCEPT ![l] = FALSE]
  /\ UNCHANGED <<wcontrol, wdrain, wapi, wkind, wstop, wreason, wtask, wout, wtry, wans, wpod>>

\* Renewing failed after its retries, or the lease is no longer ours.  Once
\* the process is to stop, the renewal task carries on regardless.
RenewalLost(l) ==
  /\ wrenew[l]
  /\ ~(wkind[l] \in Residents /\ wreason[l] = "DesiredStop")
  /\ CancelLease(l, "LeaseLost")
  /\ wrenew' = [wrenew EXCEPT ![l] = FALSE]
  /\ UNCHANGED <<wcontrol, wdrain, wapi, wkind, wstop, wtask, wout, wtry, wans, wpod>>

-----------------------------------------------------------------------------
(* The handler of a lease.                                                   *)

\* What a failed fetch makes of the lease: a bootstrap whose fetch failed for
\* good is not asked for again.
FetchFailure(kind) == IF kind = "file" THEN {"retry"} ELSE {"retry", "final"}

\* classify_retry: only a typed provider error is retried.
ClassifyRetry(out) == IF out \in {"capacity", "retryable"} THEN "retry" ELSE "final"

\* The file's content, or the resident's bootstrap, is fetched under the lease.
\* A handler that fails here stops renewing before it answers.
Fetch(l) ==
  /\ wtask[l] = "fetch"
  /\ \/ /\ ~Cancelled(l)
        /\ GoTo(l, IF wkind[l] = "file" THEN "run" ELSE "apply")
        /\ wtry' = [wtry EXCEPT ![l] = IF wkind[l] = "file" THEN 0 ELSE 1]
        /\ UNCHANGED <<wrenew, wans>>
     \/ /\ \E answer \in FetchFailure(wkind[l]) : Answers(l, answer)
        /\ wrenew' = [wrenew EXCEPT ![l] = FALSE]
        /\ UNCHANGED wtry
  /\ UNCHANGED <<wcontrol, wdrain, wapi, wkind, wstop, wreason, wout, wpod>>

\* The guest token of a provision: without it handle_lease returns its error
\* and sends no answer.
MintGuestToken(l) ==
  /\ wtask[l] = "mint"
  /\ \/ /\ GoTo(l, "run")
        /\ UNCHANGED <<wapi, wkind, wstop, wrenew, wreason, wout, wtry, wans, wpod>>
     \/ Dropped({l})
  /\ UNCHANGED <<wcontrol, wdrain>>

\* A provider call returns: done, or with an error, which is final unless its
\* class is retryable.
CallReturns(l, kinds) ==
  /\ wtask[l] = "run" /\ wkind[l] \in kinds
  /\ \E answer \in {"complete", "retry", "final"} : Answers(l, answer)
  /\ UNCHANGED <<wcontrol, wdrain, wapi, wkind, wstop, wrenew, wreason, wout, wtry, wpod>>

ExecuteProvision(l) == CallReturns(l, Provisions)
ExecuteInSandbox(l) == CallReturns(l, {"command", "file"})
ExecuteControl(l) == CallReturns(l, {"control"})

\* The instructions are read and compared with the digest of the job.
ExecuteInstructions(l) ==
  /\ wtask[l] = "run" /\ wkind[l] = "instructions"
  /\ \/ GoTo(l, "callback") /\ UNCHANGED wans
     \/ \E answer \in {"retry", "final"} : Answers(l, answer)
  /\ UNCHANGED <<wcontrol, wdrain, wapi, wkind, wstop, wrenew, wreason, wout, wtry, wpod>>

\* A resident job that came the ordinary way is refused.
RefuseMisfit(l) ==
  /\ wtask[l] = "run" /\ wkind[l] = "misfit"
  /\ Answers(l, "final")
  /\ UNCHANGED <<wcontrol, wdrain, wapi, wkind, wstop, wrenew, wreason, wout, wtry, wpod>>

\* The instructions' bytes go out by the callback; a failed delivery is final.
DeliverCallback(l) ==
  /\ wtask[l] = "callback"
  /\ \E answer \in {"complete", "final"} : Answers(l, answer)
  /\ UNCHANGED <<wcontrol, wdrain, wapi, wkind, wstop, wrenew, wreason, wout, wtry, wpod>>

\* The job or its manifests are refused before any call to the cluster.
RefuseResident(l) ==
  /\ wtask[l] = "apply" /\ wpod[l] = "absent"
  /\ GoTo(l, "settle")
  /\ wout' = [wout EXCEPT ![l] = "permanent"]
  /\ UNCHANGED <<wcontrol, wdrain, wapi, wkind, wstop, wrenew, wreason, wtry, wans, wpod>>

\* The manifests of a resident process are applied, or failed with or without
\* a Pod.  A cancelled call is killed.
ApplyResident(l) ==
  /\ wtask[l] = "apply"
  /\ \/ /\ ~Cancelled(l)
        /\ GoTo(l, "poll")
        /\ wpod' = [wpod EXCEPT ![l] = "pending"]
        /\ wout' = [wout EXCEPT ![l] = "none"]
     \/ /\ GoTo(l, "cleanup")
        /\ \E o \in {"capacity", "retryable", "permanent"} : wout' = [wout EXCEPT ![l] = o]
        /\ wpod' \in {[wpod EXCEPT ![l] = "pending"], wpod}
  /\ UNCHANGED <<wcontrol, wdrain, wapi, wkind, wstop, wrenew, wreason, wtry, wans>>

\* What the Pod may be seen as next.
Sightings(view) ==
  CASE view = "pending" -> {"running", "finished", "crashed"}
    [] view = "running" -> {"finished", "crashed"}
    [] OTHER -> {}

\* One turn of the poll loop: a change of the Pod is observed before anything
\* else; past the startup deadline a pending Pod is observed as failed.
PollResident(l) ==
  /\ wtask[l] = "poll"
  /\ \/ /\ ~Cancelled(l)
        /\ \/ /\ \E view \in Sightings(wpod[l]) : wpod' = [wpod EXCEPT ![l] = view]
              /\ UNCHANGED wout
           \/ /\ wpod[l] = "pending"
              /\ wout' = [wout EXCEPT ![l] = "retryable"]
              /\ UNCHANGED wpod
        /\ GoTo(l, "observe")
     \/ /\ GoTo(l, "cleanup")
        /\ wout' = [wout EXCEPT ![l] = "permanent"]
        /\ UNCHANGED wpod
  /\ UNCHANGED <<wcontrol, wdrain, wapi, wkind, wstop, wrenew, wreason, wtry, wans>>

\* A cancelled handler posts no observation, unless the stop was desired.
ObserverMayPost(l) == wreason[l] \in {"none", "DesiredStop"}

\* The control plane takes an observation under an active lease.
Acknowledged(l) == wapi[l] = "active" /\ ObserverMayPost(l)

\* The observer posts until it is acknowledged, refused or cancelled.
ObserveResident(l) ==
  /\ wtask[l] = "observe"
  /\ \/ /\ Acknowledged(l)
        /\ IF wpod[l] \in {"finished", "crashed"}
           THEN GoTo(l, "cleanup") /\ wout' = [wout EXCEPT ![l] = wpod[l]]
           ELSE GoTo(l, IF wout[l] = "none" THEN "poll" ELSE "cleanup") /\ UNCHANGED wout
        /\ UNCHANGED wreason
     \/ /\ wreason[l] # "DesiredStop"
        /\ GoTo(l, "cleanup")
        /\ wout' = [wout EXCEPT ![l] = "permanent"]
        /\ \/ UNCHANGED wreason
           \/ wstop[l] /\ wapi[l] = "active" /\ CancelLease(l, "DesiredStop")
  /\ UNCHANGED <<wcontrol, wdrain, wapi, wkind, wstop, wrenew, wtry, wans, wpod>>

\* The manifests are deleted whatever happened, and the call is not
\* cancellable; a failed deletion turns an exit into an error.
CleanupResident(l) ==
  /\ wtask[l] = "cleanup"
  /\ GoTo(l, "settle")
  /\ wpod' = [wpod EXCEPT ![l] = "absent"]
  /\ \/ UNCHANGED wout
     \/ /\ wout[l] \in {"finished", "crashed"}
        /\ wout' = [wout EXCEPT ![l] = "permanent"]
  /\ UNCHANGED <<wcontrol, wdrain, wapi, wkind, wstop, wrenew, wreason, wtry, wans>>

\* A shutdown taken for a desired stop.
StopWasDesiredUnlessLost(l) == wreason[l] # "LeaseLost"

\* desired_stop in execute_isolated_resident_process_job.
StopWasDesired(l) == wreason[l] = "DesiredStop"

\* What the supervisor makes of a call that ended: another attempt, an answer,
\* or the last observation of a cancelled process.  That observation is
\* refused by the observer unless the stop was desired, so that the answer of
\* a cancelled call is the untyped error of the observer.
SettleResident(l) ==
  /\ wtask[l] = "settle"
  /\ \/ /\ wout[l] \in {"finished", "crashed"}
        /\ Answers(l, "complete") /\ UNCHANGED wtry
        /\ wout[l] = "finished" \/ wtry[l] = ResidentAttempts \/ Cancelled(l)
     \/ /\ wout[l] = "crashed" /\ wtry[l] < ResidentAttempts /\ ~Cancelled(l)
        /\ GoTo(l, "apply") /\ wtry' = [wtry EXCEPT ![l] = @ + 1] /\ UNCHANGED wans
     \/ /\ wout[l] = "capacity" /\ ~Cancelled(l)
        /\ GoTo(l, "apply") /\ UNCHANGED <<wtry, wans>>
     \/ /\ wout[l] \notin {"finished", "crashed"} /\ ~Cancelled(l)
        /\ Answers(l, ClassifyRetry(wout[l])) /\ UNCHANGED wtry
     \/ /\ wout[l] \notin {"finished", "crashed"} /\ Cancelled(l)
        /\ IF StopWasDesired(l) THEN GoTo(l, "stopped") /\ UNCHANGED wans ELSE Answers(l, "final")
        /\ UNCHANGED wtry
  /\ UNCHANGED <<wcontrol, wdrain, wapi, wkind, wstop, wrenew, wreason, wout, wpod>>

\* report_desired_stop_resident_observation loops until it is acknowledged.
StopAcknowledged(l) ==
  /\ wtask[l] = "stopped" /\ wapi[l] = "active"
  /\ Answers(l, "complete")
  /\ UNCHANGED <<wcontrol, wdrain, wapi, wkind, wstop, wrenew, wreason, wout, wtry, wpod>>

\* complete_desired_stop_worker_lease never gives up.
SentForever(l) == wans[l] = "complete" /\ wreason[l] = "DesiredStop"

\* The answer goes out, is refused or lost.  A resident task that got no
\* acceptance is reconciled; the completion of a desired stop is sent forever.
SendAnswer(l) ==
  /\ wtask[l] = "answer"
  /\ \/ /\ wapi[l] = "active" \/ wkind[l] # "resident"
        /\ Dropped({l})
     \/ /\ wkind[l] = "resident" /\ ~SentForever(l)
        /\ wapi' \in {wapi, [wapi EXCEPT ![l] = "ended"]}
        /\ GoTo(l, "lost")
        /\ wrenew' = [wrenew EXCEPT ![l] = FALSE]
        /\ UNCHANGED <<wkind, wstop, wreason, wout, wtry, wans, wpod>>
  /\ UNCHANGED <<wcontrol, wdrain>>

\* reconcile_resident_task_result for a task that returned an error: its
\* signal is set, the process is reported lost and the lease failed for a
\* retry.
ReconcileLost(l) ==
  /\ wtask[l] = "lost" /\ wloop \in {"claim", "inline", "drain"}
  /\ Dropped({l})
  /\ UNCHANGED <<wcontrol, wdrain>>

WorkerStep(l) ==
  \/ \E kind \in JobKinds : ClaimLease(l, kind) \/ FastLaneClaim(l, kind)
  \/ LeaseEnds(l) \/ DesireStop(l) \/ RenewalToldToStop(l) \/ RenewalLost(l)
  \/ Fetch(l) \/ MintGuestToken(l) \/ ExecuteProvision(l) \/ ExecuteInSandbox(l)
  \/ ExecuteControl(l) \/ ExecuteInstructions(l) \/ DeliverCallback(l) \/ RefuseMisfit(l)
  \/ RefuseResident(l) \/ ApplyResident(l) \/ PollResident(l) \/ ObserveResident(l) \/ CleanupResident(l)
  \/ SettleResident(l) \/ StopAcknowledged(l) \/ SendAnswer(l) \/ ReconcileLost(l)

WorkerNext ==
  \/ AdmitLease \/ Unpark \/ FastLaneAdmit \/ InlineDone \/ InlineDropped \/ LeaveLoop
  \/ ShutdownClock \/ PublishReceipt \/ RevokeUncaptured \/ ForceRelease \/ ExitWorker
  \/ \E l \in Leases : WorkerStep(l)

WorkerSpec == WorkerInit /\ [][WorkerNext]_wvars

-----------------------------------------------------------------------------
(* Properties.                                                               *)

\* A resident lease is completed only when its process was seen to exit or the
\* control plane wanted it stopped: an outage, a lost lease or the worker's own
\* shutdown never passes for the end of the process.
CompletionIsEarned ==
  \A l \in Leases :
    wkind[l] = "resident" /\ wtask[l] = "answer" /\ wans[l] = "complete"
      => wout[l] \in {"finished", "crashed"} \/ wstop[l]

\* While a handler is alive, a provider call of its lease is either still
\* renewed or has been told to stop: no job runs on under a lease the worker
\* stopped defending.
RunningIsRenewedOrTold ==
  \A l \in Leases : wtask[l] \in {"run", "apply", "poll", "observe"}
                      => wrenew[l] \/ Cancelled(l)

=============================================================================
