--------------------------- MODULE WorkerProofs ----------------------------
(***************************************************************************)
(* Proofs about the worker's loop, the guest agent and the network of a    *)
(* sandbox, for any number of leases, slots and attempts and addresses of  *)
(* any width.  No property is inductive.  A completion is earned when the  *)
(* reason a handler stopped is true of the control plane, and a handler    *)
(* that runs is defended from the step that started it, so WorkerInv says  *)
(* both of every stage and of the leases the loop has in its hands.        *)
(* GuestInv says at which stages a handler holds a child and what the      *)
(* launcher has accepted by then.  ReachInv says of every policy in the    *)
(* cluster what it lets through, and to which of the two kinds of Pods it  *)
(* belongs.                                                                *)
(***************************************************************************)
EXTENDS WorkerLoop, GuestAgent, NetworkReach, TLAPS

-----------------------------------------------------------------------------
(* The worker. *)

\* The stages in which a handler has work under way.
Busy == {"fetch", "mint", "run", "callback", "apply", "poll", "observe", "cleanup", "settle"}

\* A handler that works is renewed or cancelled.
Defended(l) == wtask[l] \in Busy => wrenew[l] \/ Cancelled(l)

\* A stop is taken for desired only when the control plane desired it, and the
\* wait for the acknowledgement of a stop is for a desired one.
StopIsTrue(l) ==
  /\ wreason[l] = "DesiredStop" => wstop[l]
  /\ wtask[l] = "stopped" => wreason[l] = "DesiredStop"

\* A lease has a handler only once it was granted; a callback is made for
\* instructions only; and a completion of a resident process is earned.
EarnedSoFar(l) ==
  /\ wapi[l] = "none" => wtask[l] = "none"
  /\ wtask[l] = "callback" => wkind[l] = "instructions"
  /\ wkind[l] = "resident" /\ wtask[l] = "answer" /\ wans[l] = "complete"
       => wout[l] \in {"finished", "crashed"} \/ wstop[l]

\* The leases in the loop's hands were granted.
HandsHoldGranted ==
  /\ wloop \in {"admit", "parked", "inline"} => whand \in Leases
  /\ whand \in Leases => wapi[whand] # "none"
  /\ wfast \in Leases => wapi[wfast] # "none"

LeasesInv == \A l \in Leases : Defended(l) /\ StopIsTrue(l) /\ EarnedSoFar(l)

WorkerInv == WorkerTypeOK /\ LeasesInv /\ HandsHoldGranted

\* The types of what a handler and the control plane keep of a lease.
LeaseTypes ==
  /\ wapi \in [Leases -> {"none", "active", "ended"}]
  /\ wkind \in [Leases -> JobKinds \cup {"none"}]
  /\ wstop \in [Leases -> BOOLEAN]
  /\ wtask \in [Leases -> WorkerStage]
  /\ wrenew \in [Leases -> BOOLEAN]
  /\ wreason \in [Leases -> Reason]
  /\ wout \in [Leases -> CallOutcome]
  /\ wtry \in [Leases -> 0..ResidentAttempts]
  /\ wans \in [Leases -> WorkerAnswer]
  /\ wpod \in [Leases -> PodView]

\* The stage a handler starts in is one where it works.
LEMMA FirstStageIsBusy == \A kind : FirstStage(kind) \in {"fetch", "mint", "run"}
BY DEF FirstStage

\* Dropping handlers keeps everything that is said of leases.
LEMMA DroppedKeeps ==
  ASSUME WorkerInv, NEW S, Dropped(S)
  PROVE  LeaseTypes' /\ LeasesInv' /\ \A l \in Leases : wapi[l] # "none" => wapi'[l] # "none"
<1> USE DEF Dropped
<1>1. LeaseTypes'
  <2>1. /\ wstop' \in [Leases -> BOOLEAN] /\ wrenew' \in [Leases -> BOOLEAN]
      BY Zenon DEF WorkerInv, WorkerTypeOK
  <2>2. wtry' \in [Leases -> 0..ResidentAttempts]
      BY WorkerLoopAssumption DEF WorkerInv, WorkerTypeOK
  <2>3. /\ wapi' \in [Leases -> {"none", "active", "ended"}]
        /\ wkind' \in [Leases -> JobKinds \cup {"none"}]
        /\ wtask' \in [Leases -> WorkerStage]
        /\ wreason' \in [Leases -> Reason]
        /\ wout' \in [Leases -> CallOutcome]
        /\ wans' \in [Leases -> WorkerAnswer]
        /\ wpod' \in [Leases -> PodView]
      BY DEF WorkerInv, WorkerTypeOK, WorkerStage, Reason, CallOutcome, WorkerAnswer, PodView
  <2> QED
      BY <2>1, <2>2, <2>3 DEF LeaseTypes
<1>2. ASSUME NEW l \in Leases PROVE (Defended(l) /\ StopIsTrue(l) /\ EarnedSoFar(l))'
  <2>1. CASE l \in S
      BY <2>1 DEF Defended, StopIsTrue, EarnedSoFar, Busy
  <2>2. CASE l \notin S
      BY <2>2 DEF WorkerInv, LeasesInv, Defended, StopIsTrue, EarnedSoFar, Cancelled
  <2> QED
      BY <2>1, <2>2
<1>3. \A l \in Leases : wapi[l] # "none" => wapi'[l] # "none"
    OBVIOUS
<1> QED
    BY <1>1, <1>2, <1>3 DEF LeasesInv

\* A worker that has just started satisfies the invariant.
LEMMA WorkerInitInv == WorkerInit => WorkerInv
<1> SUFFICES ASSUME WorkerInit PROVE WorkerInv
    OBVIOUS
<1>1. 0 \in 0..2 /\ 0 \in 0..ResidentAttempts
    BY WorkerLoopAssumption
<1>2. WorkerTypeOK
    BY <1>1, Zenon DEF WorkerInit, WorkerTypeOK, WorkerStage, Reason, CallOutcome, WorkerAnswer, PodView
<1>3. LeasesInv /\ HandsHoldGranted
    BY WorkerLoopAssumption DEF WorkerInit, LeasesInv, HandsHoldGranted, Defended, StopIsTrue, EarnedSoFar, Busy
<1> QED
    BY <1>2, <1>3 DEF WorkerInv

\* Starting the handler of a granted lease keeps what is said of leases.
LEMMA StartKeeps ==
  ASSUME WorkerInv, NEW l \in Leases, wapi[l] # "none", NEW kind, StartHandler(l, kind),
         UNCHANGED <<wapi, wkind, wstop>>
  PROVE  LeaseTypes' /\ LeasesInv'
<1>1. FirstStage(kind) \in {"fetch", "mint", "run"}
    BY FirstStageIsBusy
<1>2. wtask' \in [Leases -> WorkerStage]
    BY <1>1 DEF StartHandler, WorkerInv, WorkerTypeOK, WorkerStage
<1>3. wrenew' \in [Leases -> BOOLEAN]
    BY Zenon DEF StartHandler, WorkerInv, WorkerTypeOK
<1>4. LeaseTypes'
    BY <1>2, <1>3 DEF StartHandler, WorkerInv, WorkerTypeOK, LeaseTypes
<1>5. LeasesInv'
    BY <1>1 DEF StartHandler, WorkerInv, WorkerTypeOK, LeasesInv, Defended, StopIsTrue, EarnedSoFar, Busy, Cancelled
<1> QED
    BY <1>4, <1>5

\* Granting a lease keeps what is said of leases.
LEMMA GrantKeeps ==
  ASSUME WorkerInv, NEW l \in Leases, NEW kind \in JobKinds, Granted(l, kind), UNCHANGED <<wstop, whandler>>
  PROVE  LeaseTypes' /\ LeasesInv' /\ wapi'[l] # "none"
         /\ \A k \in Leases : wapi[k] # "none" => wapi'[k] # "none"
BY DEF Granted, whandler, WorkerInv, WorkerTypeOK, LeaseTypes, LeasesInv, Defended, StopIsTrue, EarnedSoFar, Busy,
       Cancelled

\* The loop, the drain and the exit.
LEMMA LoopStep ==
  ASSUME WorkerInv,
         \/ AdmitLease \/ Unpark \/ FastLaneAdmit \/ InlineDone \/ InlineDropped \/ LeaveLoop
         \/ ShutdownClock \/ PublishReceipt \/ RevokeUncaptured \/ ForceRelease \/ ExitWorker
  PROVE  WorkerInv'
<1> USE DEF wdrain, wcontrol
<1>0. SUFFICES /\ LeaseTypes' /\ LeasesInv'
               /\ (/\ wloop \in {"claim", "admit", "parked", "inline", "drain", "exited"}
                   /\ whand \in Leases \cup {NoLease} /\ wfast \in Leases \cup {NoLease}
                   /\ wshut \in 0..2 /\ wreceipt \in {"none", "published", "settled"}
                   /\ wcaptured \subseteq Leases)'
               /\ HandsHoldGranted'
    BY DEF WorkerInv, WorkerTypeOK, LeaseTypes
<1>t. LeaseTypes /\ LeasesInv /\ HandsHoldGranted /\ WorkerTypeOK
    BY DEF WorkerInv, WorkerTypeOK, LeaseTypes
<1>n. NoLease \notin Leases
    BY WorkerLoopAssumption
<1>1. CASE AdmitLease
  <2>1. whand \in Leases /\ wapi[whand] # "none"
      BY <1>1, <1>t DEF AdmitLease, HandsHoldGranted
  <2>2. CASE ReleaseRacedLease(whand) /\ wloop' \in {"claim", "drain"} /\ whand' = NoLease
    <3>1. LeaseTypes' /\ LeasesInv' /\ \A l \in Leases : wapi[l] # "none" => wapi'[l] # "none"
        BY <2>2, DroppedKeeps DEF ReleaseRacedLease
    <3> QED
        BY <1>1, <1>t, <1>n, <2>2, <3>1 DEF AdmitLease, HandsHoldGranted, WorkerTypeOK
  <2>3. CASE Dispatch(whand) /\ UNCHANGED <<wapi, wkind, wstop>>
    <3>1. LeaseTypes' /\ LeasesInv'
      <4>1. CASE StartHandler(whand, wkind[whand])
          BY <2>1, <2>3, <4>1, StartKeeps
      <4>2. CASE UNCHANGED whandler
          BY <2>3, <4>2, <1>t DEF whandler, LeaseTypes, LeasesInv, Defended, StopIsTrue, EarnedSoFar, Cancelled
      <4> QED
          BY <2>3, <4>1, <4>2 DEF Dispatch
    <3>2. wloop' \in {"inline", "claim", "parked"} /\ (whand' = whand \/ (whand' = NoLease /\ wloop' = "claim"))
        BY <2>3 DEF Dispatch
    <3> QED
        BY <1>1, <1>t, <1>n, <2>1, <2>3, <3>1, <3>2 DEF AdmitLease, HandsHoldGranted, WorkerTypeOK
  <2> QED
      BY <1>1, <2>2, <2>3 DEF AdmitLease
<1>2. CASE Unpark
  <2>1. LeaseTypes' /\ LeasesInv'
      BY <1>2, <1>t, StartKeeps DEF Unpark, HandsHoldGranted
  <2> QED
      BY <1>2, <1>t, <1>n, <2>1 DEF Unpark, HandsHoldGranted, WorkerTypeOK
<1>3. CASE FastLaneAdmit
  <2>1. LeaseTypes' /\ LeasesInv' /\ \A l \in Leases : wapi[l] # "none" => wapi'[l] # "none"
    <3>1. CASE ReleaseRacedLease(wfast)
        BY <3>1, DroppedKeeps DEF ReleaseRacedLease
    <3>2. CASE StartHandler(wfast, wkind[wfast]) /\ UNCHANGED <<wapi, wkind, wstop>>
      <4>1. wfast \in Leases /\ wapi[wfast] # "none"
          BY <1>3, <1>t DEF FastLaneAdmit, HandsHoldGranted, WorkerTypeOK
      <4> QED
          BY <3>2, <4>1, StartKeeps
    <3> QED
        BY <1>3, <3>1, <3>2 DEF FastLaneAdmit
  <2> QED
      BY <1>3, <1>t, <1>n, <2>1 DEF FastLaneAdmit, HandsHoldGranted, WorkerTypeOK
<1>4. CASE InlineDone
  <2>1. LeaseTypes' /\ LeasesInv' /\ \A l \in Leases : wapi[l] # "none" => wapi'[l] # "none"
      BY <1>4, DroppedKeeps DEF InlineDone
  <2> QED
      BY <1>4, <1>t, <1>n, <2>1 DEF InlineDone, HandsHoldGranted, WorkerTypeOK
<1>5. CASE InlineDropped
  <2>1. LeaseTypes' /\ LeasesInv' /\ \A l \in Leases : wapi[l] # "none" => wapi'[l] # "none"
      BY <1>5, DroppedKeeps DEF InlineDropped
  <2> QED
      BY <1>5, <1>t, <1>n, <2>1 DEF InlineDropped, HandsHoldGranted, WorkerTypeOK
<1>6. CASE LeaveLoop \/ ShutdownClock \/ PublishReceipt
  <2>1. UNCHANGED <<wapi, wkind, wstop, whandler>>
      BY <1>6 DEF LeaveLoop, ShutdownClock, PublishReceipt
  <2>2. LeaseTypes' /\ LeasesInv'
      BY <2>1, <1>t DEF whandler, LeaseTypes, LeasesInv, Defended, StopIsTrue, EarnedSoFar, Cancelled
  <2>3. UNCHANGED <<wfast, whand>> /\ (wloop' = wloop \/ wloop' = "drain") /\ wshut' \in 0..2
      BY <1>6, <1>t DEF LeaveLoop, ShutdownClock, PublishReceipt, WorkerTypeOK
  <2>4. wreceipt' \in {"none", "published", "settled"} /\ wcaptured' \subseteq Leases
      BY <1>6, <1>t DEF LeaveLoop, ShutdownClock, PublishReceipt, WorkerTypeOK, ResidentTasks
  <2> QED
      BY <1>t, <1>n, <2>1, <2>2, <2>3, <2>4 DEF HandsHoldGranted, WorkerTypeOK
<1>7. CASE RevokeUncaptured \/ ForceRelease
  <2>1. /\ wreason' \in [Leases -> Reason]
        /\ \A l \in Leases : wreason'[l] = wreason[l] \/ (wreason[l] = "none" /\ wreason'[l] \in {"LeaseLost", "Shutdown"})
      BY <1>7, <1>t DEF RevokeUncaptured, ForceRelease, CancelReason, WorkerTypeOK, Reason
  <2>2. UNCHANGED <<wcontrol, wshut, wapi, wkind, wstop, wtask, wrenew, wout, wtry, wans, wpod>>
      BY <1>7 DEF RevokeUncaptured, ForceRelease
  <2>3. wreceipt' \in {"none", "published", "settled"} /\ wcaptured' \subseteq Leases
      BY <1>7, <1>t DEF RevokeUncaptured, ForceRelease, WorkerTypeOK
  <2>4. LeaseTypes' /\ LeasesInv'
      BY <2>1, <2>2, <1>t DEF LeaseTypes, LeasesInv, Defended, StopIsTrue, EarnedSoFar, Cancelled
  <2> QED
      BY <1>t, <1>n, <2>2, <2>3, <2>4 DEF HandsHoldGranted, WorkerTypeOK
<1>8. CASE ExitWorker
  <2>1. LeaseTypes' /\ LeasesInv' /\ \A l \in Leases : wapi[l] # "none" => wapi'[l] # "none"
      BY <1>8, DroppedKeeps DEF ExitWorker
  <2> QED
      BY <1>8, <1>t, <1>n, <2>1 DEF ExitWorker, HandsHoldGranted, WorkerTypeOK
<1> QED
    BY <1>1, <1>2, <1>3, <1>4, <1>5, <1>6, <1>7, <1>8

\* The steps of a lease's handler that leave it at work or with an answer.
LEMMA HandlerStep ==
  ASSUME WorkerInv, NEW l \in Leases,
         \/ Fetch(l) \/ ExecuteProvision(l) \/ ExecuteInSandbox(l) \/ ExecuteControl(l) \/ ExecuteInstructions(l)
         \/ DeliverCallback(l) \/ RefuseMisfit(l) \/ RefuseResident(l) \/ ApplyResident(l) \/ PollResident(l)
         \/ ObserveResident(l) \/ CleanupResident(l) \/ SettleResident(l) \/ StopAcknowledged(l)
  PROVE  WorkerInv'
<1> USE DEF wdrain, wcontrol, WorkerInv, WorkerTypeOK, LeasesInv, HandsHoldGranted, Defended, StopIsTrue, EarnedSoFar,
            Busy, WorkerStage, Reason, CallOutcome, WorkerAnswer, PodView, Cancelled, GoTo, Answers, CancelLease,
            CancelReason
<1>1. CASE ExecuteProvision(l)
    BY <1>1, WorkerLoopAssumption DEF ExecuteProvision, CallReturns, Provisions
<1>2. CASE ExecuteInSandbox(l)
    BY <1>2, WorkerLoopAssumption DEF ExecuteInSandbox, CallReturns
<1>3. CASE ExecuteControl(l)
    BY <1>3, WorkerLoopAssumption DEF ExecuteControl, CallReturns
<1>4. CASE ExecuteInstructions(l)
    BY <1>4, WorkerLoopAssumption DEF ExecuteInstructions
<1>5. CASE DeliverCallback(l)
    BY <1>5, WorkerLoopAssumption DEF DeliverCallback
<1>6. CASE RefuseMisfit(l)
    BY <1>6, WorkerLoopAssumption DEF RefuseMisfit
<1>7. CASE RefuseResident(l)
    BY <1>7, WorkerLoopAssumption DEF RefuseResident
<1>8. CASE ApplyResident(l)
    BY <1>8, WorkerLoopAssumption DEF ApplyResident
<1>9. CASE PollResident(l)
    BY <1>9, WorkerLoopAssumption DEF PollResident, Sightings
<1>10. CASE ObserveResident(l)
    BY <1>10, WorkerLoopAssumption DEF ObserveResident, Acknowledged, ObserverMayPost
<1>11. CASE CleanupResident(l)
    BY <1>11, WorkerLoopAssumption DEF CleanupResident
<1>12. CASE SettleResident(l)
    BY <1>12, WorkerLoopAssumption DEF SettleResident, StopWasDesired, ClassifyRetry
<1>13. CASE StopAcknowledged(l)
    BY <1>13, WorkerLoopAssumption DEF StopAcknowledged
<1>14. CASE Fetch(l)
  <2>1. CASE /\ ~Cancelled(l) /\ GoTo(l, IF wkind[l] = "file" THEN "run" ELSE "apply")
             /\ wtry' = [wtry EXCEPT ![l] = IF wkind[l] = "file" THEN 0 ELSE 1]
             /\ UNCHANGED <<wrenew, wans>>
      BY <1>14, <2>1, WorkerLoopAssumption DEF Fetch
  <2>2. CASE /\ \E answer \in FetchFailure(wkind[l]) : Answers(l, answer)
             /\ wrenew' = [wrenew EXCEPT ![l] = FALSE] /\ UNCHANGED wtry
    <3>1. wrenew' \in [Leases -> BOOLEAN] /\ \A k \in Leases : k # l => wrenew'[k] = wrenew[k]
        BY <2>2, Zenon
    <3>2. wtask' = [wtask EXCEPT ![l] = "answer"] /\ \E answer \in {"retry", "final"} : wans' = [wans EXCEPT ![l] = answer]
        BY <2>2 DEF FetchFailure
    <3> QED
        BY <1>14, <2>2, <3>1, <3>2 DEF Fetch
  <2> QED
      BY <1>14, <2>1, <2>2 DEF Fetch
<1> QED
    BY <1>1, <1>2, <1>3, <1>4, <1>5, <1>6, <1>7, <1>8, <1>9, <1>10, <1>11, <1>12, <1>13, <1>14

\* The other steps about one lease: the claims, the control plane, the renewal,
\* and the ends of a handler.
LEMMA LeaseStep ==
  ASSUME WorkerInv, NEW l \in Leases,
         \/ \E kind \in JobKinds : ClaimLease(l, kind) \/ FastLaneClaim(l, kind)
         \/ LeaseEnds(l) \/ DesireStop(l) \/ RenewalToldToStop(l) \/ RenewalLost(l)
         \/ MintGuestToken(l) \/ SendAnswer(l) \/ ReconcileLost(l)
  PROVE  WorkerInv'
<1> USE DEF wdrain, wcontrol
<1>t. LeaseTypes /\ LeasesInv /\ HandsHoldGranted /\ WorkerTypeOK
    BY DEF WorkerInv, WorkerTypeOK, LeaseTypes
<1>d. ASSUME Dropped({l}), UNCHANGED <<wloop, whand, wfast, wshut, wreceipt, wcaptured>> PROVE WorkerInv'
  <2>1. LeaseTypes' /\ LeasesInv' /\ \A k \in Leases : wapi[k] # "none" => wapi'[k] # "none"
      BY <1>d, DroppedKeeps
  <2> QED
      BY <1>d, <1>t, <2>1 DEF WorkerInv, HandsHoldGranted, WorkerTypeOK, LeaseTypes
<1>1. ASSUME NEW kind \in JobKinds, ClaimLease(l, kind) PROVE WorkerInv'
  <2>1. CASE wloop' = "admit" /\ whand' = l /\ Granted(l, kind) /\ UNCHANGED <<wstop, whandler>>
    <3>1. LeaseTypes' /\ LeasesInv' /\ wapi'[l] # "none" /\ \A k \in Leases : wapi[k] # "none" => wapi'[k] # "none"
        BY <2>1, GrantKeeps
    <3> QED
        BY <1>1, <1>t, <2>1, <3>1 DEF ClaimLease, WorkerInv, HandsHoldGranted, WorkerTypeOK, LeaseTypes
  <2>2. CASE Dropped({l}) /\ UNCHANGED <<wloop, whand>>
      BY <1>1, <1>d, <2>2 DEF ClaimLease
  <2> QED
      BY <1>1, <2>1, <2>2 DEF ClaimLease
<1>2. ASSUME NEW kind \in JobKinds, FastLaneClaim(l, kind) PROVE WorkerInv'
  <2>1. LeaseTypes' /\ LeasesInv' /\ wapi'[l] # "none" /\ \A k \in Leases : wapi[k] # "none" => wapi'[k] # "none"
      BY <1>2, GrantKeeps DEF FastLaneClaim
  <2> QED
      BY <1>2, <1>t, <2>1 DEF FastLaneClaim, WorkerInv, HandsHoldGranted, WorkerTypeOK, LeaseTypes
<1>3. CASE LeaseEnds(l)
    BY <1>3 DEF LeaseEnds, whandler, WorkerInv, WorkerTypeOK, LeasesInv, HandsHoldGranted, Defended, StopIsTrue,
                EarnedSoFar, Cancelled
<1>4. CASE DesireStop(l)
  <2>1. wstop' \in [Leases -> BOOLEAN] /\ \A k \in Leases : wstop[k] => wstop'[k]
      BY <1>4, <1>t, Zenon DEF DesireStop, WorkerTypeOK
  <2> QED
      BY <1>4, <2>1 DEF DesireStop, whandler, WorkerInv, WorkerTypeOK, LeasesInv, HandsHoldGranted, Defended, StopIsTrue,
                  EarnedSoFar, Cancelled
<1>5. CASE RenewalToldToStop(l)
    BY <1>5 DEF RenewalToldToStop, CancelLease, CancelReason, WorkerInv, WorkerTypeOK, LeasesInv, HandsHoldGranted,
                Defended, StopIsTrue, EarnedSoFar, Cancelled, Reason
<1>6. CASE RenewalLost(l)
  <2>1. wrenew' \in [Leases -> BOOLEAN] /\ \A k \in Leases : k # l => wrenew'[k] = wrenew[k]
      BY <1>6, <1>t, Zenon DEF RenewalLost, WorkerTypeOK
  <2> QED
      BY <1>6, <2>1 DEF RenewalLost, CancelLease, CancelReason, WorkerInv, WorkerTypeOK, LeasesInv, HandsHoldGranted,
                  Defended, StopIsTrue, EarnedSoFar, Cancelled, Reason
<1>7. CASE MintGuestToken(l)
  <2>1. CASE Dropped({l})
      BY <1>7, <1>d, <2>1 DEF MintGuestToken
  <2>2. CASE GoTo(l, "run") /\ UNCHANGED <<wapi, wkind, wstop, wrenew, wreason, wout, wtry, wans, wpod>>
      BY <1>7, <2>2 DEF MintGuestToken, GoTo, WorkerInv, WorkerTypeOK, WorkerStage, LeasesInv, HandsHoldGranted,
                  Defended, StopIsTrue, EarnedSoFar, Cancelled, Busy
  <2> QED
      BY <1>7, <2>1, <2>2 DEF MintGuestToken
<1>8. CASE SendAnswer(l)
  <2>1. CASE Dropped({l})
      BY <1>8, <1>d, <2>1 DEF SendAnswer
  <2>2. CASE /\ wapi' \in {wapi, [wapi EXCEPT ![l] = "ended"]} /\ GoTo(l, "lost")
             /\ wrenew' = [wrenew EXCEPT ![l] = FALSE]
             /\ UNCHANGED <<wkind, wstop, wreason, wout, wtry, wans, wpod>>
    <3>1. wrenew' \in [Leases -> BOOLEAN] /\ \A k \in Leases : k # l => wrenew'[k] = wrenew[k]
        BY <2>2, <1>t, Zenon DEF WorkerTypeOK
    <3> QED
        BY <1>8, <2>2, <3>1 DEF SendAnswer, GoTo, WorkerInv, WorkerTypeOK, WorkerStage, LeasesInv, HandsHoldGranted,
                    Defended, StopIsTrue, EarnedSoFar, Cancelled, Busy
  <2> QED
      BY <1>8, <2>1, <2>2 DEF SendAnswer
<1>9. CASE ReconcileLost(l)
    BY <1>9, <1>d DEF ReconcileLost
<1> QED
    BY <1>1, <1>2, <1>3, <1>4, <1>5, <1>6, <1>7, <1>8, <1>9

\* Every step of the loop, of a handler and of the control plane keeps the invariant.
LEMMA WorkerStepInv == WorkerInv /\ [WorkerNext]_wvars => WorkerInv'
<1> SUFFICES ASSUME WorkerInv, [WorkerNext]_wvars PROVE WorkerInv'
    OBVIOUS
<1>1. ASSUME NEW l \in Leases, WorkerStep(l) PROVE WorkerInv'
    BY <1>1, HandlerStep, LeaseStep DEF WorkerStep
<1>2. CASE UNCHANGED wvars
    BY <1>2 DEF wvars, wcontrol, wdrain, whandler, WorkerInv, WorkerTypeOK, LeasesInv, HandsHoldGranted, Defended,
                StopIsTrue, EarnedSoFar, Cancelled
<1> QED
    BY <1>1, <1>2, LoopStep DEF WorkerNext

\* A resident lease is completed only when its process was seen to exit or the
\* control plane wanted it stopped, for any number of leases and slots.
THEOREM CompletionsAreEarned == WorkerSpec => []CompletionIsEarned
<1>1. WorkerInv => CompletionIsEarned
    BY DEF WorkerInv, LeasesInv, EarnedSoFar, CompletionIsEarned
<1> QED
    BY <1>1, WorkerInitInv, WorkerStepInv, PTL DEF WorkerSpec

\* No provider call runs on, under a live handler, for a lease the worker has
\* stopped renewing without telling the call.
THEOREM RunningIsDefended == WorkerSpec => []RunningIsRenewedOrTold
<1>1. WorkerInv => RunningIsRenewedOrTold
    BY DEF WorkerInv, LeasesInv, Defended, Busy, RunningIsRenewedOrTold
<1> QED
    BY <1>1, WorkerInitInv, WorkerStepInv, PTL DEF WorkerSpec

-----------------------------------------------------------------------------
(* The guest agent. *)

\* The stages of a handler that holds a child.
Parenting == {"exec", "spawned", "started", "wait", "kill"}

\* What the proof needs of the types.
GuestShape ==
  /\ gapi \in [GuestLeases -> GuestAnswer \cup {"active", "lapsed"}]
  /\ gstage \in [GuestLeases -> GuestStage]
  /\ gchild \in [GuestLeases -> {"none", "alive", "ok", "bad", "killed"}]
  /\ gwant \in [GuestLeases -> GuestAnswer]
  /\ gbundle \in [GuestLeases -> GuestBundles \cup {NoBundle}]

\* A lease has a handler only while the control plane knows of it, and the
\* handler of an answered one has nothing left to do.  An answer under way is one.
AnsweredLast(l) ==
  /\ gapi[l] = "none" => gstage[l] = "none"
  /\ gapi[l] \in {"complete", "final", "retry"} => gstage[l] \in {"none", "done", "erred"}
  /\ gstage[l] = "answer" => gwant[l] # "none"

\* A live child is in the hands of its handler, or was left by a dropped command
\* whose lease nobody here answers any more.
ChildInHand(l) ==
  gchild[l] = "alive" => gstage[l] \in Parenting \cup {"none"} /\ gapi[l] \in {"active", "lapsed"}

\* A handler at the launcher sent the bundle that the launcher has accepted.
AtOwnLauncher(l) ==
  gstage[l] \in {"launching", "watching", "settle"} => glauncher # "waiting" /\ gdigest = gbundle[l]

\* The launcher starts Maestro once, and only after it has accepted a bundle.
LauncherOnce == gmaestros \in {0, 1} /\ (glauncher \in {"waiting", "accepted"} => gmaestros = 0)

GuestInv ==
  /\ GuestShape /\ LauncherOnce
  /\ \A l \in GuestLeases : AnsweredLast(l) /\ ChildInHand(l) /\ AtOwnLauncher(l)

\* A daemon that has just started holds nothing.
LEMMA GuestInitInv == GuestInit => GuestInv
BY DEF GuestInit, GuestInv, GuestShape, LauncherOnce, AnsweredLast, ChildInHand, AtOwnLauncher, GuestAnswer, GuestStage, Parenting

\* A handler that ends takes its child with it, whatever was answered for its lease.
LEMMA GuestForgetsKeeps ==
  ASSUME GuestInv, NEW l \in GuestLeases, GuestForgets(l), gstage[l] \in {"done", "erred", "cancelled", "answer"},
         UNCHANGED gapi \/ (\E a \in GuestAnswer \ {"none"} : GuestTakes(l, a)),
         UNCHANGED glaunchvars
  PROVE  GuestInv'
BY DEF GuestInv, GuestShape, LauncherOnce, AnsweredLast, ChildInHand, AtOwnLauncher, GuestAnswer, GuestStage, Parenting,
       GuestForgets, GSet, GuestTakes, glaunchvars

\* The daemon's own steps and the launcher's keep the invariant.
LEMMA GuestDaemonKeeps == GuestInv /\ GuestDaemonStep => GuestInv'
<1> SUFFICES ASSUME GuestInv, GuestDaemonStep PROVE GuestInv'
    OBVIOUS
<1> USE DEF GuestInv, GuestShape, LauncherOnce, AnsweredLast, ChildInHand, AtOwnLauncher, GuestAnswer, GuestStage, Parenting
<1>1. CASE ResolveSession \/ PassGate \/ Announce \/ EndReaping \/ RefreshSession \/ ClaimNothing \/ ExitDaemon
    BY <1>1 DEF ResolveSession, PassGate, Announce, EndReaping, RefreshSession, ClaimNothing, ExitDaemon,
                gapivars, gtaskvars, glaunchvars
<1>2. CASE SterileLeaseExpires
    BY <1>2 DEF SterileLeaseExpires, glaunchvars
<1>3. CASE ShutdownSupervisor
    BY <1>3 DEF ShutdownSupervisor, Supervised, gapivars, glaunchvars
<1>4. CASE LauncherStarts \/ MaestroExits
    BY <1>4 DEF LauncherStarts, MaestroExits, gapivars, gtaskvars
<1> QED
    BY <1>1, <1>2, <1>3, <1>4 DEF GuestDaemonStep

\* So does every step of a lease's handler, and of the control plane on the lease.
LEMMA GuestLeaseKeeps ==
  ASSUME GuestInv, NEW l \in GuestLeases, GuestLeaseStep(l)
  PROVE  GuestInv'
<1>1. CASE ReapResident(l) \/ ReconcileShutdown(l) \/ CommandAnswered(l)
  <2>1. GuestForgets(l) /\ UNCHANGED glaunchvars /\ gstage[l] \in {"done", "erred", "cancelled", "answer"}
      BY <1>1 DEF ReapResident, ReconcileShutdown, CommandAnswered
  <2>2. UNCHANGED gapi \/ \E a \in GuestAnswer \ {"none"} : GuestTakes(l, a)
      BY <1>1 DEF ReapResident, ReconcileShutdown, CommandAnswered, FailAndReport, GuestInv, GuestShape, AnsweredLast, GuestAnswer
  <2> QED
      BY <2>1, <2>2, GuestForgetsKeeps
<1> USE DEF GuestInv, GuestShape, LauncherOnce, AnsweredLast, ChildInHand, AtOwnLauncher, GuestAnswer, GuestStage, Parenting
<1> USE DEF GSet, GStageTo, GuestStep, GuestTakes, GuestAnswers, GuestGrants, OwnStep, GuestObserved, WithoutChild,
            gdaemonvars, gapivars, glaunchvars, gtaskvars
<1>2. CASE ClaimIsLost(l) \/ ClaimResident(l) \/ ClaimMisfit(l)
    BY <1>2 DEF ClaimIsLost, ClaimResident, ClaimMisfit
<1>3. CASE ClaimCommand(l)
    BY <1>3 DEF ClaimCommand
<1>4. CASE GuestCommandEnds(l)
    BY <1>4 DEF GuestCommandEnds
<1>5. CASE GuestLeaseEnds(l) \/ ChildExits(l)
    BY <1>5 DEF GuestLeaseEnds, ChildExits
<1>13. CASE GuestStopDesired(l) \/ RenewalSeesStop(l) \/ RenewalIsLost(l)
    BY <1>13 DEF GuestStopDesired, RenewalSeesStop, RenewalIsLost
<1>6. CASE CheckScope(l)
    BY <1>6 DEF CheckScope
<1>14. CASE FetchBootstrap(l)
    BY <1>14 DEF FetchBootstrap
<1>7. CASE SpawnChild(l)
  <2>1. /\ gstage[l] = "attempt" /\ UNCHANGED <<gapi, gwant, gbundle, glauncher, gdigest, gmaestros>>
        /\ \/ gstage' = [gstage EXCEPT ![l] = "spawned"] /\ gchild' = [gchild EXCEPT ![l] = "alive"]
           \/ UNCHANGED <<gstage, gchild>>
           \/ gstage' = [gstage EXCEPT ![l] = "nochild"] /\ UNCHANGED gchild
           \/ gstage' = [gstage EXCEPT ![l] = "erred"] /\ UNCHANGED gchild
      BY <1>7, Zenon DEF SpawnChild
  <2> QED
      BY <2>1
<1>8. CASE ObserveNoChild(l) \/ ObserveStarting(l) \/ ObserveRunning(l) \/ WaitForChild(l) \/ KillChild(l)
    BY <1>8 DEF ObserveNoChild, ObserveStarting, ObserveRunning, WaitForChild, KillChild
<1>9. CASE ReportLost(l) \/ ReportStopped(l) \/ FinishStopped(l) \/ ObserveFinal(l) \/ FinishLease(l)
    BY <1>9 DEF ReportLost, ReportStopped, FinishStopped, ObserveFinal, FinishLease
<1>10. CASE SendOnce(l)
    BY <1>10 DEF SendOnce
<1>11. CASE ActivateLauncher(l)
    BY <1>11 DEF ActivateLauncher, RegisterActivation
<1>12. CASE WatchLauncher(l) \/ SettleLauncher(l)
    BY <1>12 DEF WatchLauncher, SettleLauncher
<1> QED
    BY <1>1, <1>2, <1>3, <1>4, <1>5, <1>6, <1>7, <1>8, <1>9, <1>10, <1>11, <1>12, <1>13, <1>14 DEF GuestLeaseStep

\* Every step keeps the invariant.
LEMMA GuestStepInv == GuestInv /\ [GuestNext]_gvars => GuestInv'
<1> SUFFICES ASSUME GuestInv, [GuestNext]_gvars PROVE GuestInv'
    OBVIOUS
<1>1. CASE UNCHANGED gvars
    BY <1>1 DEF gvars, gdaemonvars, gapivars, gtaskvars, glaunchvars, GuestInv, GuestShape, LauncherOnce, AnsweredLast,
                ChildInHand, AtOwnLauncher
<1> QED
    BY <1>1, GuestDaemonKeeps, GuestLeaseKeeps DEF GuestNext

\* A lease the guest agent gave back, for another executor to run or for good, has
\* no live child here, for any number of leases, bundles and attempts.
THEOREM LeasesHandedBackDead == GuestSpec => []HandedBackDead
<1>1. GuestInv => HandedBackDead
    BY DEF GuestInv, ChildInHand, HandedBackDead
<1> QED
    BY <1>1, GuestInitInv, GuestStepInv, PTL DEF GuestSpec

\* The launcher runs Maestro once at most, and a handler that watches the launcher
\* watches the bundle it sent itself, however many bundles are sent.
THEOREM LauncherRunsOnce == GuestSpec => []OwnMaestro
<1>1. GuestInv => OwnMaestro
    BY DEF GuestInv, LauncherOnce, AtOwnLauncher, OwnMaestro
<1> QED
    BY <1>1, GuestInitInv, GuestStepInv, PTL DEF GuestSpec

-----------------------------------------------------------------------------
(* The network. *)

\* What the tenant's rules grant of the addresses.
Given(E, a) == E.kind = "allow_all" \/ \E n \in E.cidrs : InNet(n, a)

\* What a policy lets through: X are the excluded blocks, S the sidecars', R the
\* resolvers and E the tenant's rules.
Asks(t, a, R) == t.ports = {53} /\ a \in R
SharedRules(q, X, R, E) ==
  /\ \A f \in q.in : f.pods = {"control"} /\ f.ports = {2222}
  /\ \A t \in q.out :
       /\ \A a \in t.addresses : Asks(t, a, R) \/ (a \notin AddressesOf(X) /\ Given(E, a))
       /\ \A r \in t.pods : \/ r = "dns" /\ t.ports = {53}
                            \/ r = "api" /\ t.ports = {3217}
                            \/ r = "gateway" /\ t.ports = {8080} /\ q.selects = "runtime"
GatewayRules(q, X, R) ==
  /\ \A f \in q.in : f.pods = {"runtime"} /\ f.ports = {8080}
  /\ \A t \in q.out :
       /\ \A a \in t.addresses : Asks(t, a, R) \/ (a \notin AddressesOf(X) /\ t.ports = {80, 443})
       /\ \A r \in t.pods : r = "dns" /\ t.ports = {53}
ResidentRules(q, X, S, R) ==
  /\ \A f \in q.in : f.pods = {"runner-host"} /\ f.ports = {8443} /\ q.selects = "maestro"
  /\ \A t \in q.out :
       /\ \A a \in t.addresses :
            \/ Asks(t, a, R)
            \/ t.ports = {443} /\ ((\E n \in S : InNet(n, a)) \/ (q.selects = "orb" /\ a \notin AddressesOf(X)))
       /\ \A r \in t.pods : \/ r = "dns" /\ t.ports = {53}
                            \/ r \in {"identity", "llm-gateway"} /\ t.ports = {8080} /\ q.selects = "maestro"
TenantRules(q, R) ==
  /\ \A f \in q.in : (f.pods = {"runner-host"} /\ f.ports = {8443}) \/ (f.pods = {"supervisor"} /\ f.ports = {9443})
  /\ \A t \in q.out :
       /\ \A a \in t.addresses : Asks(t, a, R)
       /\ \A r \in t.pods : \/ r = "dns" /\ t.ports = {53}
                            \/ r \in {"identity", "llm-gateway"} /\ t.ports = {8080}
SupervisorRules(q, R) ==
  /\ q.in = {}
  /\ \A t \in q.out :
       /\ \A a \in t.addresses : Asks(t, a, R)
       /\ \A r \in t.pods : \/ r = "dns" /\ t.ports = {53}
                            \/ r = "api" /\ t.ports = {3217}
                            \/ r = "tenant" /\ t.ports = {9443}

\* The policies of a sandbox and those of a candidate.
OfSandbox(q, X, S, R, B, E) ==
  \/ q.selects = "runtime" /\ SharedRules(q, X, R, E)
  \/ q.selects = "any" /\ SharedRules(q, X, {}, E) /\ B = "cilium" /\ AddressesOf(X) \subseteq q.deny
  \/ q.selects = "egress-gateway" /\ GatewayRules(q, X, R)
  \/ q.selects \in {"orb", "maestro"} /\ ResidentRules(q, X, S, R)
OfCandidate(q, R) ==
  \/ q.selects = "runtime" /\ TenantRules(q, R)
  \/ q.selects = "supervisor" /\ SupervisorRules(q, R)

\* A policy that selects every Pod is in force.
Shared == \E q \in npolicies : q.selects = "any"

\* The Pods are those of a sandbox or of a candidate, never of both: the label
\* "runtime" is on a Pod of either, so that the policy of one would open the other.
PoliciesInv ==
  /\ nexcluded \subseteq Nets /\ negress.cidrs \subseteq Nets
  /\ npods = {} => npolicies = {}
  /\ "gateway" \in npods => nbackend # "cilium"
  /\ Shared => \A q \in npolicies : q.selects \in {"any", "orb", "maestro"}
  /\ \/ npods \subseteq {"tenant", "supervisor"} /\ \A q \in npolicies : OfCandidate(q, nresolvers)
     \/ /\ npods \subseteq {"runtime", "gateway", "orb", "maestro"}
        /\ \A q \in npolicies : OfSandbox(q, nexcluded, nsidecar, nresolvers, nbackend, negress)

\* A target was evaluated by a gateway that is there, and a connection is of a Pod
\* that is there.
TargetInv == ntarget # NoTarget => "gateway" \in npods
LastInv == npods = {} => nlast = NoConnection

ReachInv == PoliciesInv /\ TargetInv /\ LastInv /\ TrafficIsGranted

\* Two blocks with an address in common are nested.
LEMMA BlocksNest ==
    ASSUME NEW n \in Nets, NEW m \in Nets, NEW a, InNet(n, a), InNet(m, a)
    PROVE  Covers(n, m) \/ Covers(m, n)
<1>1. n.len \in Nat /\ m.len \in Nat
    BY ReachAssumption DEF Nets
<1>2. \A i \in 1..n.len : a[i] = n.bits[i]
    BY DEF InNet
<1>3. \A i \in 1..m.len : a[i] = m.bits[i]
    BY DEF InNet
<1> QED BY <1>1, <1>2, <1>3 DEF Covers

\* What is left of a block that is not refused has no excluded address.
LEMMA BlockIsOpen ==
    ASSUME nexcluded \subseteq Nets, NEW n \in Nets, ~BlockRefused(n), NEW a \in IpBlock(n)
    PROVE  a \notin AddressesOf(nexcluded) /\ InNet(n, a)
<1>1. a \in Address /\ InNet(n, a)
    BY DEF IpBlock, AddressesOf
<1>2. ASSUME NEW e \in nexcluded, InNet(e, a) PROVE FALSE
    <2>1. Covers(n, e) \/ Covers(e, n)
        BY <1>1, <1>2, BlocksNest
    <2>2. e \in Excepted(n)
        BY <2>1 DEF BlockRefused, Excepted
    <2> QED BY <1>1, <1>2, <2>2 DEF IpBlock, AddressesOf
<1> QED BY <1>1, <1>2 DEF AddressesOf

\* The block of all addresses is one.
LEMMA EverythingIsNet == Everything \in Nets
<1>1. 0 \in 0..ReachBits
    BY ReachAssumption
<1>2. Zeros(0) \in Bits(0)
    BY DEF Zeros, Bits
<1>3. Everything \in {[len |-> 0, bits |-> b] : b \in Bits(0)}
    BY <1>2, Zenon DEF Everything
<1> QED BY <1>1, <1>3 DEF Nets

\* A DNS rule asks a DNS Pod or a resolver, on their port.
LEMMA DnsAsks ==
    ASSUME NEW t \in DnsRules
    PROVE  /\ \A a \in t.addresses : Asks(t, a, nresolvers)
           /\ \A r \in t.pods : r = "dns" /\ t.ports = {53}
<1>1. CASE t = DnsRule
    BY <1>1 DEF DnsRule, To
<1>2. CASE \E a \in nresolvers : t = To({}, {a}, {53})
    BY <1>2 DEF To, Asks
<1> QED BY <1>1, <1>2 DEF DnsRules

\* Each policy provider.rs renders lets through what is said of it: the runtime's,
LEMMA SandboxPolicyFits ==
    ASSUME nexcluded \subseteq Nets, negress.cidrs \subseteq Nets,
           \A n \in negress.cidrs \cup (IF negress.kind = "allow_all" THEN {Everything} ELSE {}) : ~BlockRefused(n)
    PROVE  OfSandbox(SandboxPolicy, nexcluded, nsidecar, nresolvers, nbackend, negress)
<1> DEFINE q == SandboxPolicy
<1>1. q.selects = "runtime" /\ q.in = {IngressRule}
    BY DEF SandboxPolicy, Policy
<1>2. ASSUME NEW t \in q.out
      PROVE  /\ \A a \in t.addresses : Asks(t, a, nresolvers) \/ (a \notin AddressesOf(nexcluded) /\ Given(negress, a))
             /\ \A r \in t.pods : \/ r = "dns" /\ t.ports = {53}
                                  \/ r = "api" /\ t.ports = {3217}
                                  \/ r = "gateway" /\ t.ports = {8080}
    <2>1. \/ t \in DnsRules \/ t = ApiRule
          \/ negress.kind = "allow_all" /\ t = To({}, IpBlock(Everything), Ports)
          \/ \E n \in negress.cidrs : t = To({}, IpBlock(n), Ports)
          \/ t = To({"gateway"}, {}, {8080})
        BY <1>2 DEF SandboxPolicy, Policy
    <2>2. CASE t = ApiRule \/ t = To({"gateway"}, {}, {8080})
        BY <2>2 DEF ApiRule, To
    <2>5. CASE t \in DnsRules
        BY <2>5, DnsAsks
    <2>3. CASE negress.kind = "allow_all" /\ t = To({}, IpBlock(Everything), Ports)
        BY <2>3, BlockIsOpen, EverythingIsNet DEF To, Given
    <2>4. ASSUME NEW n \in negress.cidrs, t = To({}, IpBlock(n), Ports)
          PROVE  /\ \A a \in t.addresses : a \notin AddressesOf(nexcluded) /\ Given(negress, a)
                 /\ t.pods = {}
        BY <2>4, BlockIsOpen DEF To, Given
    <2> QED BY <2>1, <2>2, <2>3, <2>4, <2>5
<1>3. \A f \in q.in : f.pods = {"control"} /\ f.ports = {2222}
    BY <1>1 DEF IngressRule, From
<1>4. SharedRules(q, nexcluded, nresolvers, negress)
    BY <1>1, <1>2, <1>3 DEF SharedRules
<1> QED BY <1>1, <1>4 DEF OfSandbox

\* that of Cilium, which denies the excluded addresses as well,
LEMMA CiliumPolicyFits ==
    ASSUME nexcluded \subseteq Nets, negress.cidrs \subseteq Nets, nbackend = "cilium",
           \A n \in negress.cidrs : ~BlockRefused(n)
    PROVE  OfSandbox(CiliumPolicy, nexcluded, nsidecar, nresolvers, nbackend, negress)
<1> DEFINE q == CiliumPolicy
<1>1. q.selects = "any" /\ q.in = {IngressRule} /\ q.deny = AddressesOf(nexcluded)
    BY DEF CiliumPolicy, Policy
<1>2. ASSUME NEW t \in q.out
      PROVE  /\ \A a \in t.addresses : a \notin AddressesOf(nexcluded) /\ Given(negress, a)
             /\ \A r \in t.pods : \/ r = "dns" /\ t.ports = {53}
                                  \/ r = "api" /\ t.ports = {3217}
    <2>1. t = DnsRule \/ t = ApiRule \/ \E n \in negress.cidrs : t = To({}, IpBlock(n), Ports)
        BY <1>2 DEF CiliumPolicy, Policy
    <2>2. CASE t = DnsRule \/ t = ApiRule
        BY <2>2 DEF DnsRule, ApiRule, To
    <2>3. ASSUME NEW n \in negress.cidrs, t = To({}, IpBlock(n), Ports)
          PROVE  /\ \A a \in t.addresses : a \notin AddressesOf(nexcluded) /\ Given(negress, a)
                 /\ t.pods = {}
        BY <2>3, BlockIsOpen DEF To, Given
    <2> QED BY <2>1, <2>2, <2>3
<1>3. \A f \in q.in : f.pods = {"control"} /\ f.ports = {2222}
    BY <1>1 DEF IngressRule, From
<1>4. SharedRules(q, nexcluded, {}, negress)
    BY <1>2, <1>3 DEF SharedRules
<1> QED BY <1>1, <1>4 DEF OfSandbox

\* the egress gateway's,
LEMMA GatewayPolicyFits == OfSandbox(GatewayPolicy, nexcluded, nsidecar, nresolvers, nbackend, negress)
<1> DEFINE q == GatewayPolicy
<1>1. q.selects = "egress-gateway" /\ q.in = {From({"runtime"}, {8080})}
      /\ q.out = DnsRules \cup {To({}, Address \ AddressesOf(nexcluded), FqdnPorts)}
    BY DEF GatewayPolicy, Policy
<1>2. GatewayRules(q, nexcluded, nresolvers)
    BY <1>1, DnsAsks DEF GatewayRules, From, To, FqdnPorts
<1> QED BY <1>1, <1>2 DEF OfSandbox

\* a resident's, which is not rendered when nothing would be left of its block,
LEMMA ResidentPolicyFits ==
    ASSUME nexcluded \subseteq Nets, NEW p \in {"orb", "maestro"}, p = "orb" => ~BlockRefused(Everything)
    PROVE  OfSandbox(ResidentPolicy(p), nexcluded, nsidecar, nresolvers, nbackend, negress)
<1> DEFINE q == ResidentPolicy(p)
<1>1. q.selects = p /\ \A f \in q.in : p = "maestro" /\ f = From({"runner-host"}, {8443})
    BY DEF ResidentPolicy, Policy
<1>2. ASSUME NEW t \in q.out
      PROVE  /\ \A a \in t.addresses :
                  \/ Asks(t, a, nresolvers)
                  \/ t.ports = {443} /\ ((\E n \in nsidecar : InNet(n, a)) \/ (p = "orb" /\ a \notin AddressesOf(nexcluded)))
             /\ \A r \in t.pods : \/ r = "dns" /\ t.ports = {53}
                                  \/ r \in {"identity", "llm-gateway"} /\ t.ports = {8080} /\ p = "maestro"
    <2>1. \/ t \in DnsRules
          \/ \E n \in nsidecar : t = To({}, AddressesOf({n}), {443})
          \/ p = "orb" /\ t = To({}, IpBlock(Everything), {443})
          \/ p = "maestro" /\ t = To({"identity", "llm-gateway"}, {}, {8080})
        BY <1>2 DEF ResidentPolicy, Policy
    <2>2. CASE t \in DnsRules
        BY <2>2, DnsAsks
    <2>3. ASSUME NEW n \in nsidecar, t = To({}, AddressesOf({n}), {443})
          PROVE  t.pods = {} /\ t.ports = {443} /\ \A a \in t.addresses : \E m \in nsidecar : InNet(m, a)
        BY <2>3 DEF To, AddressesOf
    <2>4. CASE p = "orb" /\ t = To({}, IpBlock(Everything), {443})
        BY <2>4, BlockIsOpen, EverythingIsNet DEF To
    <2>5. CASE p = "maestro" /\ t = To({"identity", "llm-gateway"}, {}, {8080})
        BY <2>5 DEF To
    <2>6. CASE \E n \in nsidecar : t = To({}, AddressesOf({n}), {443})
        <3>1. t.pods = {} /\ t.ports = {443} /\ \A a \in t.addresses : \E m \in nsidecar : InNet(m, a)
            BY <2>3, <2>6, Zenon
        <3> QED BY <3>1
    <2> QED BY <2>1, <2>2, <2>4, <2>5, <2>6
<1>3. ResidentRules(q, nexcluded, nsidecar, nresolvers)
    BY <1>1, <1>2 DEF ResidentRules, From
<1> QED BY <1>1, <1>3 DEF OfSandbox

\* and those of a candidate of the sterile pool.
LEMMA CandidatePoliciesFit == OfCandidate(TenantPolicy, nresolvers) /\ OfCandidate(SupervisorPolicy, nresolvers)
<1>1. TenantPolicy.selects = "runtime" /\ TenantRules(TenantPolicy, nresolvers)
    BY DnsAsks DEF TenantPolicy, Policy, TenantRules, To, From
<1>2. SupervisorPolicy.selects = "supervisor" /\ SupervisorRules(SupervisorPolicy, nresolvers)
    BY DnsAsks DEF SupervisorPolicy, Policy, SupervisorRules, ApiRule, To
<1> QED BY <1>1, <1>2 DEF OfCandidate

\* Where the policies that select a Pod let it out to.
LEMMA AddressGranted ==
    ASSUME PoliciesInv, NEW p \in npods, NEW a, NEW port, Leaves(p, "none", {a}, port)
    PROVE  \/ p \in {"orb", "maestro"} /\ port = 443 /\ \E n \in nsidecar : InNet(n, a)
           \/ /\ port = 53 /\ a \in nresolvers
              /\ Shared => p \in {"orb", "maestro"} /\ a \notin AddressesOf(nexcluded)
           \/ /\ a \notin AddressesOf(nexcluded)
              /\ \/ (p = "runtime" \/ (p \in {"orb", "maestro"} /\ Shared)) /\ Given(negress, a)
                 \/ p = "orb" /\ port = 443
                 \/ p = "gateway" /\ port \in {80, 443}
<1>1. p \in OwnPods
    BY DEF PoliciesInv, OwnPods
<1>2. PICK q \in npolicies : /\ q.selects \in {"any", p, Component[p]}
                             /\ \E t \in q.out : port \in t.ports /\ ("none" \in t.pods \/ a \in t.addresses)
    BY <1>1 DEF Leaves, Selected
<1>3. PICK t \in q.out : port \in t.ports /\ ("none" \in t.pods \/ a \in t.addresses)
    BY <1>2
<1>6. Shared => a \notin AddressesOf(nexcluded)
    <2> SUFFICES ASSUME Shared PROVE a \notin AddressesOf(nexcluded)
        OBVIOUS
    <2>1. PICK u \in npolicies : u.selects = "any"
        BY DEF Shared
    <2>2. u \in Selected(p)
        BY <1>1, <2>1 DEF Selected
    <2>3. a \notin u.deny
        BY <1>1, <2>2 DEF Leaves
    <2> QED BY <2>1, <2>3 DEF PoliciesInv, OfSandbox, OfCandidate
<1>7. Shared => q.selects \in {"any", "orb", "maestro"}
    BY DEF PoliciesInv
<1>4. CASE npods \subseteq {"tenant", "supervisor"} /\ OfCandidate(q, nresolvers)
    BY <1>3, <1>4, <1>7 DEF OfCandidate, TenantRules, SupervisorRules, Asks
<1>5. CASE npods \subseteq {"runtime", "gateway", "orb", "maestro"} /\ OfSandbox(q, nexcluded, nsidecar, nresolvers, nbackend, negress)
    <2>1. Component[p] = IF p = "runtime" THEN "runtime" ELSE IF p = "gateway" THEN "egress-gateway" ELSE "none"
        BY <1>5, <1>1 DEF Component
    <2>2. CASE q.selects = "runtime" /\ SharedRules(q, nexcluded, nresolvers, negress)
        BY <1>2, <1>3, <1>5, <1>7, <2>1, <2>2 DEF SharedRules, Asks
    <2>3. CASE q.selects = "any" /\ SharedRules(q, nexcluded, {}, negress) /\ nbackend = "cilium"
        BY <1>2, <1>3, <1>5, <2>3 DEF SharedRules, Asks, Shared, PoliciesInv
    <2>4. CASE q.selects = "egress-gateway" /\ GatewayRules(q, nexcluded, nresolvers)
        BY <1>2, <1>3, <1>5, <1>7, <2>1, <2>4 DEF GatewayRules, Asks
    <2>5. CASE q.selects \in {"orb", "maestro"} /\ ResidentRules(q, nexcluded, nsidecar, nresolvers)
        BY <1>2, <1>3, <1>5, <1>6, <2>1, <2>5 DEF ResidentRules, Asks
    <2> QED BY <1>5, <2>2, <2>3, <2>4, <2>5 DEF OfSandbox
<1> QED BY <1>2, <1>4, <1>5 DEF PoliciesInv

\* Cilium's DNS proxy opens no excluded address.
LEMMA NameGranted ==
    ASSUME PoliciesInv, NEW p \in npods, NEW a,
           \E q \in Selected(p) : q.selects = "any", \A q \in Selected(p) : a \notin q.deny
    PROVE  a \notin AddressesOf(nexcluded)
<1>1. PICK q \in npolicies : q.selects = "any" /\ a \notin q.deny
    BY DEF Selected
<1> QED BY <1>1 DEF PoliciesInv, OfSandbox, OfCandidate

\* Which Pods a Pod reaches, when both sides let the connection through.
LEMMA PodReachable ==
    ASSUME PoliciesInv, NEW p \in npods \cup ClusterPods,
           NEW r \in npods \cup {"dns", "api", "identity", "llm-gateway"}, NEW port,
           {p, r} \cap npods # {}, Leaves(p, r, {}, port), Enters(p, r, port)
    PROVE  \/ <<p, r, port>> \in Meant
           \/ Shared /\ ((p \in {"orb", "maestro"} /\ r = "api") \/ (p = "control" /\ port = 2222))
<1>0. npods \subseteq OwnPods /\ OwnPods \cap ClusterPods = {}
    BY DEF PoliciesInv, OwnPods, ClusterPods
<1>1. ASSUME p \in npods
      PROVE  \/ <<p, r, port>> \in Meant
             \/ Shared /\ p \in {"orb", "maestro"} /\ r = "api"
    <2>1. PICK q \in npolicies : /\ q.selects \in {"any", p, Component[p]}
                                 /\ \E t \in q.out : port \in t.ports /\ r \in t.pods
        BY <1>0, <1>1 DEF Leaves, Selected
    <2>2. PICK t \in q.out : port \in t.ports /\ r \in t.pods
        BY <2>1
    <2>3. p \in OwnPods
        BY <1>0, <1>1
    <2>4. Component[p] = IF p \in {"runtime", "tenant"} THEN "runtime" ELSE IF p = "gateway" THEN "egress-gateway"
                         ELSE IF p = "supervisor" THEN "supervisor" ELSE "none"
        BY <2>3 DEF Component
    <2>5. \/ r = "dns" /\ port = 53
          \/ r = "api" /\ port = 3217 /\ (p \in {"runtime", "supervisor"} \/ (p \in {"orb", "maestro"} /\ Shared))
          \/ r = "gateway" /\ port = 8080 /\ p = "runtime"
          \/ r = "tenant" /\ port = 9443 /\ p = "supervisor"
          \/ r \in {"identity", "llm-gateway"} /\ port = 8080 /\ p \in {"maestro", "tenant"}
        <3>1. CASE npods \subseteq {"tenant", "supervisor"} /\ OfCandidate(q, nresolvers)
            BY <1>1, <2>1, <2>2, <2>4, <3>1 DEF OfCandidate, TenantRules, SupervisorRules
        <3>2. CASE npods \subseteq {"runtime", "gateway", "orb", "maestro"} /\ OfSandbox(q, nexcluded, nsidecar, nresolvers, nbackend, negress)
            <4>2. CASE q.selects = "runtime" /\ SharedRules(q, nexcluded, nresolvers, negress)
                BY <1>1, <2>1, <2>2, <2>4, <3>2, <4>2 DEF SharedRules
            <4>3. CASE q.selects = "any" /\ SharedRules(q, nexcluded, {}, negress) /\ nbackend = "cilium"
                BY <1>1, <2>1, <2>2, <3>2, <4>3 DEF SharedRules, Shared, PoliciesInv
            <4>4. CASE q.selects = "egress-gateway" /\ GatewayRules(q, nexcluded, nresolvers)
                BY <1>1, <2>1, <2>2, <2>4, <3>2, <4>4 DEF GatewayRules
            <4>5. CASE q.selects \in {"orb", "maestro"} /\ ResidentRules(q, nexcluded, nsidecar, nresolvers)
                BY <1>1, <2>1, <2>2, <2>4, <3>2, <4>5 DEF ResidentRules
            <4> QED BY <3>2, <4>2, <4>3, <4>4, <4>5 DEF OfSandbox
        <3> QED BY <2>1, <3>1, <3>2 DEF PoliciesInv
    <2>6. CASE r = "api" /\ p \in {"orb", "maestro"} /\ Shared
        BY <2>6
    <2>7. CASE r = "dns" /\ port = 53
        BY <2>3, <2>7 DEF Meant
    <2>8. CASE r = "api" /\ port = 3217 /\ p \in {"runtime", "supervisor"}
        BY <2>8 DEF Meant
    <2>9. CASE r = "gateway" /\ port = 8080 /\ p = "runtime"
        BY <2>9 DEF Meant
    <2>10. CASE r = "tenant" /\ port = 9443 /\ p = "supervisor"
        BY <2>10 DEF Meant
    <2>11. CASE r \in {"identity", "llm-gateway"} /\ port = 8080 /\ p \in {"maestro", "tenant"}
        BY <2>11 DEF Meant
    <2> QED BY <2>5, <2>6, <2>7, <2>8, <2>9, <2>10, <2>11
<1>2. ASSUME p \notin npods
      PROVE  \/ <<p, r, port>> \in Meant
             \/ Shared /\ p = "control" /\ port = 2222
    <2>1. p \in ClusterPods /\ r \in npods /\ r \in OwnPods
        BY <1>0, <1>2
    <2>2. PICK q \in npolicies : /\ q.selects \in {"any", r, Component[r]}
                                 /\ \E f \in q.in : p \in f.pods /\ port \in f.ports
        BY <2>1 DEF Enters, Selected
    <2>3. PICK f \in q.in : p \in f.pods /\ port \in f.ports
        BY <2>2
    <2>4. Component[r] = IF r \in {"runtime", "tenant"} THEN "runtime" ELSE IF r = "gateway" THEN "egress-gateway"
                         ELSE IF r = "supervisor" THEN "supervisor" ELSE "none"
        BY <2>1 DEF Component
    <2>5. \/ p = "control" /\ port = 2222 /\ (r = "runtime" \/ Shared)
          \/ p = "runner-host" /\ port = 8443 /\ r \in {"maestro", "tenant"}
        <3>1. CASE npods \subseteq {"tenant", "supervisor"} /\ OfCandidate(q, nresolvers)
            BY <2>1, <2>2, <2>3, <2>4, <3>1 DEF OfCandidate, TenantRules, SupervisorRules, ClusterPods
        <3>2. CASE npods \subseteq {"runtime", "gateway", "orb", "maestro"} /\ OfSandbox(q, nexcluded, nsidecar, nresolvers, nbackend, negress)
            <4>2. CASE q.selects = "runtime" /\ SharedRules(q, nexcluded, nresolvers, negress)
                BY <2>1, <2>2, <2>3, <2>4, <3>2, <4>2 DEF SharedRules
            <4>3. CASE q.selects = "any" /\ SharedRules(q, nexcluded, {}, negress)
                BY <2>1, <2>2, <2>3, <4>3 DEF SharedRules, Shared
            <4>4. CASE q.selects = "egress-gateway" /\ GatewayRules(q, nexcluded, nresolvers)
                BY <2>1, <2>3, <4>4 DEF GatewayRules, ClusterPods
            <4>5. CASE q.selects \in {"orb", "maestro"} /\ ResidentRules(q, nexcluded, nsidecar, nresolvers)
                BY <2>1, <2>2, <2>3, <2>4, <3>2, <4>5 DEF ResidentRules
            <4> QED BY <3>2, <4>2, <4>3, <4>4, <4>5 DEF OfSandbox
        <3> QED BY <2>2, <3>1, <3>2 DEF PoliciesInv
    <2>6. CASE p = "control" /\ port = 2222 /\ r = "runtime"
        BY <2>6 DEF Meant
    <2>7. CASE p = "runner-host" /\ port = 8443 /\ r \in {"maestro", "tenant"}
        BY <2>7 DEF Meant
    <2> QED BY <2>5, <2>6, <2>7
<1> QED BY <1>1, <1>2

\* Steps that make no connection keep what was true of the last one.
LEMMA GrantedStays ==
    ASSUME TrafficIsGranted, UNCHANGED <<nconfig, nlast>>, npolicies' = npolicies \/ nlast = NoConnection
    PROVE  TrafficIsGranted'
<1>1. /\ nexcluded' = nexcluded /\ nsidecar' = nsidecar /\ nresolvers' = nresolvers
      /\ negress' = negress /\ nlast' = nlast
    BY DEF nconfig
<1>2. Excluded' = Excluded /\ GrantedAddresses' = GrantedAddresses
    BY <1>1 DEF Excluded, GrantedAddresses
<1>3. CASE npolicies' = npolicies
    BY <1>1, <1>2, <1>3 DEF TrafficIsGranted
<1>4. CASE nlast = NoConnection
    BY <1>1, <1>4 DEF TrafficIsGranted, NoConnection, Connection
<1> QED BY <1>3, <1>4

\* Without Pods and policies there is no connection.
LEMMA ReachInitInv == ReachInit => ReachInv
<1> SUFFICES ASSUME ReachInit PROVE ReachInv
    OBVIOUS
<1>1. nexcluded \subseteq Nets /\ negress.cidrs \subseteq Nets
    BY DEF ReachInit, Lists
<1>2. npods = {} /\ npolicies = {} /\ nlast = NoConnection
    BY DEF ReachInit
<1>3. nlast.from = "none" /\ nlast.pod = "none"
    BY <1>2 DEF NoConnection, Connection
<1>4. TargetInv
    BY DEF ReachInit, TargetInv
<1>5. PoliciesInv
    BY <1>1, <1>2 DEF PoliciesInv, Shared
<1> QED BY <1>2, <1>3, <1>4, <1>5 DEF ReachInv, LastInv, TrafficIsGranted

\* Every rendering of policies and every connection keeps the invariant.
LEMMA ReachStep == ReachInv /\ [ReachNext]_nvars => ReachInv'
<1> SUFFICES ASSUME ReachInv, [ReachNext]_nvars PROVE ReachInv'
    OBVIOUS
<1>0. PoliciesInv /\ TrafficIsGranted
    BY DEF ReachInv
<1>t. TargetInv'
    BY DEF ReachInv, TargetInv, nvars, ReachNext, ProvisionSandbox, ProvisionCandidate, LaunchResident, ConnectPod,
           ConnectAddress, ConnectName, GatewayResolves, GatewayConnects
<1>l. LastInv'
    BY DEF ReachInv, LastInv, TargetInv, nvars, ReachNext, ProvisionSandbox, ProvisionCandidate, LaunchResident, ConnectPod,
           ConnectAddress, ConnectName, GatewayResolves, GatewayConnects
<1>a. ASSUME UNCHANGED <<nconfig, npods, npolicies>> PROVE PoliciesInv'
    BY <1>0, <1>a DEF PoliciesInv, Shared, nconfig
<1>b. ASSUME UNCHANGED <<nconfig, npods, npolicies, nlast>> PROVE ReachInv'
    BY <1>0, <1>a, <1>b, <1>t, <1>l, GrantedStays DEF ReachInv
<1>1. CASE ProvisionSandbox
    <2>1. npods = {} /\ npolicies = {} /\ UNCHANGED nconfig /\ nlast' = nlast /\ nlast = NoConnection
        BY <1>0, <1>1 DEF ProvisionSandbox, PoliciesInv, ReachInv, LastInv
    <2>2. npods' \subseteq {"runtime", "gateway"} /\ npods' # {}
          /\ ("gateway" \in npods' => nbackend # "cilium")
        BY <1>1 DEF ProvisionSandbox, UsesGateway
    <2>3. \A q \in npolicies' : OfSandbox(q, nexcluded, nsidecar, nresolvers, nbackend, negress)
        <3>1. nexcluded \subseteq Nets /\ negress.cidrs \subseteq Nets
            BY <1>0 DEF PoliciesInv
        <3>2. \A n \in negress.cidrs \cup (IF negress.kind = "allow_all" THEN {Everything} ELSE {}) : ~BlockRefused(n)
            BY <1>1 DEF ProvisionSandbox
        <3>3. \A q \in npolicies' : (q = CiliumPolicy /\ nbackend = "cilium") \/ q = SandboxPolicy \/ q = GatewayPolicy
            BY <1>1 DEF ProvisionSandbox
        <3>4. nbackend = "cilium" => OfSandbox(CiliumPolicy, nexcluded, nsidecar, nresolvers, nbackend, negress)
            BY <3>1, <3>2, CiliumPolicyFits
        <3>5. OfSandbox(SandboxPolicy, nexcluded, nsidecar, nresolvers, nbackend, negress)
            BY <3>1, <3>2, SandboxPolicyFits
        <3> QED BY <3>3, <3>4, <3>5, GatewayPolicyFits
    <2>6. Shared' => \A q \in npolicies' : q.selects \in {"any", "orb", "maestro"}
        BY <1>1 DEF ProvisionSandbox, Shared, CiliumPolicy, SandboxPolicy, GatewayPolicy, Policy
    <2>4. PoliciesInv'
        BY <1>0, <2>1, <2>2, <2>3, <2>6 DEF PoliciesInv, nconfig
    <2>5. TrafficIsGranted'
        BY <1>0, <2>1, GrantedStays
    <2> QED BY <1>t, <1>l, <2>4, <2>5 DEF ReachInv
<1>2. CASE ProvisionCandidate
    <2>1. npods = {} /\ npolicies = {} /\ UNCHANGED nconfig /\ nlast' = nlast /\ nlast = NoConnection
        BY <1>0, <1>2 DEF ProvisionCandidate, PoliciesInv, ReachInv, LastInv
    <2>2. npods' = {"tenant", "supervisor"} /\ npolicies' = {TenantPolicy, SupervisorPolicy}
        BY <1>2 DEF ProvisionCandidate
    <2>3. \A q \in npolicies' : OfCandidate(q, nresolvers)
        BY <2>2, CandidatePoliciesFit
    <2>6. ~Shared'
        BY <2>2 DEF Shared, TenantPolicy, SupervisorPolicy, Policy
    <2>4. PoliciesInv'
        BY <1>0, <2>1, <2>2, <2>3, <2>6 DEF PoliciesInv, nconfig
    <2>5. TrafficIsGranted'
        BY <1>0, <2>1, GrantedStays
    <2> QED BY <1>t, <1>l, <2>4, <2>5 DEF ReachInv
<1>3. ASSUME NEW p \in {"orb", "maestro"}, LaunchResident(p) PROVE ReachInv'
    <2>1. /\ "runtime" \in npods /\ npods' = npods \cup {p} /\ npolicies' = npolicies \cup {ResidentPolicy(p)}
          /\ UNCHANGED nconfig /\ nlast' = nlast /\ nlast = NoConnection /\ (p = "orb" => ~BlockRefused(Everything))
        BY <1>3 DEF LaunchResident
    <2>2. nexcluded \subseteq Nets
        BY <1>0 DEF PoliciesInv
    <2>3. OfSandbox(ResidentPolicy(p), nexcluded, nsidecar, nresolvers, nbackend, negress)
        BY <2>1, <2>2, ResidentPolicyFits
    <2>6. ResidentPolicy(p).selects = p
        BY DEF ResidentPolicy, Policy
    <2>7. Shared' => \A q \in npolicies' : q.selects \in {"any", "orb", "maestro"}
        BY <1>0, <2>1, <2>6 DEF Shared, PoliciesInv
    <2>4. PoliciesInv'
        BY <1>0, <2>1, <2>3, <2>7 DEF PoliciesInv, nconfig
    <2>5. TrafficIsGranted'
        BY <1>0, <2>1, GrantedStays
    <2> QED BY <1>t, <1>l, <2>4, <2>5 DEF ReachInv
<1>4. ASSUME NEW p \in OwnPods \cup ClusterPods, NEW r \in OwnPods \cup ClusterPods, NEW port \in Ports,
             ConnectPod(p, r, port)
      PROVE  ReachInv'
    <2>1. /\ nlast' = Connection(p, r, Zeros(ReachBits), port, "none") /\ UNCHANGED <<nconfig, npods, npolicies>>
          /\ p \in npods \cup ClusterPods /\ r \in npods \cup {"dns", "api", "identity", "llm-gateway"}
          /\ {p, r} \cap npods # {} /\ Leaves(p, r, {}, port) /\ Enters(p, r, port)
        BY <1>4 DEF ConnectPod
    <2>2. \/ <<p, r, port>> \in Meant
          \/ Shared /\ ((p \in {"orb", "maestro"} /\ r = "api") \/ (p = "control" /\ port = 2222))
        BY <1>0, <2>1, PodReachable
    <2>3. nlast'.from = p /\ nlast'.pod = r /\ nlast'.port = port
        BY <2>1 DEF Connection
    <2>4. r # "none" /\ npolicies' = npolicies
        BY <2>1 DEF OwnPods, ClusterPods
    <2>5. TrafficIsGranted'
        BY <2>2, <2>3, <2>4 DEF TrafficIsGranted, Shared, Meant
    <2> QED BY <1>t, <1>l, <1>a, <2>1, <2>5 DEF ReachInv
<1>5. ASSUME NEW p \in npods, NEW a, NEW port, NEW h, Leaves(p, "none", {a}, port),
             a \in Address \/ p = "gateway",
             nlast' = Connection(p, "none", a, port, h), UNCHANGED <<nconfig, npods, npolicies>>
      PROVE  ReachInv'
    <2>1. \/ p \in {"orb", "maestro"} /\ port = 443 /\ \E n \in nsidecar : InNet(n, a)
          \/ /\ port = 53 /\ a \in nresolvers
             /\ Shared => p \in {"orb", "maestro"} /\ a \notin AddressesOf(nexcluded)
          \/ /\ a \notin AddressesOf(nexcluded)
             /\ \/ (p = "runtime" \/ (p \in {"orb", "maestro"} /\ Shared)) /\ Given(negress, a)
                \/ p = "orb" /\ port = 443
                \/ p = "gateway" /\ port \in {80, 443}
        BY <1>0, <1>5, AddressGranted
    <2>2. /\ nlast'.from = p /\ nlast'.pod = "none" /\ nlast'.port = port /\ nlast'.address = a
          /\ nexcluded' = nexcluded /\ nsidecar' = nsidecar /\ nresolvers' = nresolvers
          /\ negress' = negress /\ npolicies' = npolicies
        BY <1>5 DEF Connection, nconfig
    <2>3. (a \in Excluded' => a \in AddressesOf(nexcluded)) /\ (a \in Address /\ Given(negress, a) => a \in GrantedAddresses')
        BY <2>2 DEF Excluded, AddressesOf, Given, GrantedAddresses
    <2>4. TrafficIsGranted'
        BY <1>5, <2>1, <2>2, <2>3 DEF TrafficIsGranted, Shared
    <2> QED BY <1>t, <1>l, <1>a, <1>5, <2>4 DEF ReachInv
<1>6. ASSUME NEW p \in OwnPods, NEW a \in Address, NEW port \in Ports, ConnectAddress(p, a, port) PROVE ReachInv'
    BY <1>5, <1>6 DEF ConnectAddress
<1>7. ASSUME NEW p \in OwnPods, NEW h \in ReachHosts, NEW a \in Address, NEW port \in FqdnPorts,
             ConnectName(p, h, a, port)
      PROVE  ReachInv'
    <2>1. /\ p \in npods /\ h \in negress.hosts /\ nlast' = Connection(p, "none", a, port, h)
          /\ UNCHANGED <<nconfig, npods, npolicies>>
          /\ \E q \in Selected(p) : q.selects = "any"
          /\ \A q \in Selected(p) : a \notin q.deny
        BY <1>7 DEF ConnectName
    <2>2. a \notin AddressesOf(nexcluded)
        BY <1>0, <2>1, NameGranted
    <2>3. /\ nlast'.pod = "none" /\ nlast'.port = port /\ nlast'.address = a /\ nlast'.host = h
          /\ nexcluded' = nexcluded /\ negress' = negress
        BY <2>1 DEF Connection, nconfig
    <2>4. a \notin Excluded'
        BY <2>2, <2>3 DEF Excluded, AddressesOf
    <2>5. TrafficIsGranted'
        BY <1>7, <2>1, <2>3, <2>4 DEF TrafficIsGranted, FqdnPorts
    <2> QED BY <1>t, <1>l, <1>a, <2>1, <2>5 DEF ReachInv
<1>8. ASSUME NEW h, NEW port, NEW S, GatewayResolves(h, port, S) PROVE ReachInv'
    BY <1>b, <1>8 DEF GatewayResolves
<1>9. CASE GatewayConnects
    <2>1. "gateway" \in npods
        BY <1>9 DEF GatewayConnects, ReachInv, TargetInv
    <2> QED BY <1>5, <1>9, <2>1 DEF GatewayConnects
<1>10. CASE UNCHANGED nvars
    BY <1>b, <1>10 DEF nvars, nconfig
<1> QED BY <1>1, <1>2, <1>3, <1>4, <1>6, <1>7, <1>8, <1>9, <1>10 DEF ReachNext

\* An excluded address is reached from a sandbox's Pods only where the operator opened it to a
\* resident or named it a resolver, and what else is reached was granted, under the policies of
\* provider.rs, for addresses of any width, any resolvers and any blocks, however they nest.
THEOREM NetworkGrantsOnly == ReachSpec => []TrafficIsGranted
<1>1. ReachInv => TrafficIsGranted
    BY DEF ReachInv
<1> QED BY <1>1, ReachInitInv, ReachStep, PTL DEF ReachSpec
=============================================================================
