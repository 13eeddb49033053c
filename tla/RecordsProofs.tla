---------------------------- MODULE RecordsProofs ----------------------------
(***************************************************************************)
(* Proofs about the tables of the API, each under the requests that race   *)
(* over it.  They share no state; each part has an invariant of its own,   *)
(* shown to hold first and to be kept by every step.  Sums are those of    *)
(* Tally: the cardinality of a set of units, so that the facts about them  *)
(* are facts about unions and products of finite sets.                     *)
(***************************************************************************)
EXTENDS InstructionRead, HomeMounts, LifetimeReaper, RuntimeInventory, CommandOutput, RequestGate,
        ObservationSink, Tally, FiniteSetTheorems, FunctionTheorems, TLAPS

-----------------------------------------------------------------------------
(* Apex instruction reads. *)

\* Nothing has happened to a read before its row is there, and only a callback
\* that won sets the lease, with the outcome it saw.
ReadOrder ==
  /\ xreader \in {"new", "inserting"} =>
       /\ xrow = "none" /\ xjob = "none" /\ ~xlease /\ ~xsent /\ xacks = {}
       /\ \A c \in ReadCalls : xcall[c] = "new"
  /\ xacks # {} => xlease
  /\ xlease => xrow \in {"completed", "unavailable"}
  /\ xrow = "completed" => xlease
  /\ \A c \in ReadCalls : xcall[c] = "won" =>
       xlease /\ xrow = IF xsaw[c] THEN "completed" ELSE "unavailable"

ReadInv == ReadTypeOK /\ ReadOrder /\ AcknowledgementsHold

\* The first state of a read satisfies the invariant.
LEMMA ReadInitInv == ReadInit => ReadInv
BY DEF ReadInit, ReadInv, ReadTypeOK, ReadOrder, AcknowledgementsHold

\* Every step of an instruction read, its poll, its callback and its timeouts keeps it.
LEMMA ReadStep == ReadInv /\ [ReadNext]_xvars => ReadInv'
<1> SUFFICES ASSUME ReadInv, [ReadNext]_xvars PROVE ReadInv'
    OBVIOUS
<1> USE DEF ReadInv, ReadTypeOK, ReadOrder, AcknowledgementsHold, xcalls
<1>1. CASE InsertWaiter
    BY <1>1 DEF InsertWaiter
<1>2. CASE InsertRead
    BY <1>2 DEF InsertRead
<1>3. CASE Receive
    BY <1>3 DEF Receive
<1>4. CASE TimeOut
    BY <1>4 DEF TimeOut
<1>5. CASE GiveUpRead
    BY <1>5 DEF GiveUpRead, MarkUnavailable
<1>6. CASE AnswerUnavailable
    BY <1>6 DEF AnswerUnavailable
<1>7. CASE Disconnect
    BY <1>7 DEF Disconnect
<1>8. CASE RetryRead
    BY <1>8 DEF RetryRead, MarkUnavailable
<1>9. CASE ClaimRead
    BY <1>9 DEF ClaimRead
<1>10. CASE FailRead
    BY <1>10 DEF FailRead
<1>11. CASE CompleteRead
    BY <1>11 DEF CompleteRead
<1>12. ASSUME NEW c \in ReadCalls, CallbackArrives(c) PROVE ReadInv'
    BY <1>12 DEF CallbackArrives
<1>13. ASSUME NEW c \in ReadCalls, CallbackLooks(c) PROVE ReadInv'
  <2>1. PICK home \in BOOLEAN : xsaw' = [xsaw EXCEPT ![c] = home /\ xwaiter]
      BY <1>13 DEF CallbackLooks
  <2>2. xsaw' \in [ReadCalls -> BOOLEAN] /\ \A d \in ReadCalls : d # c => xsaw'[d] = xsaw[d]
      BY <2>1, Zenon
  <2> QED
      BY <1>13, <2>2 DEF CallbackLooks
<1>14. ASSUME NEW c \in ReadCalls, CallbackUpdates(c) PROVE ReadInv'
  <2>1. CASE Records /\ xcall' = [xcall EXCEPT ![c] = "won"] /\ xlease' = TRUE /\ xsaw[c]
      BY <1>14, <2>1 DEF CallbackUpdates, Records
  <2>2. CASE Records /\ xcall' = [xcall EXCEPT ![c] = "won"] /\ xlease' = TRUE /\ ~xsaw[c]
      BY <1>14, <2>2 DEF CallbackUpdates, Records
  <2>3. CASE ~Records
    <3>1. /\ xcall' = [xcall EXCEPT ![c] = "done"] /\ UNCHANGED <<xrow, xlease, xjob, xwaiter, xsent, xreader, xsaw>>
          /\ xacks' = xacks \/ (xlease /\ xacks' = xacks \cup {xrow})
        BY <1>14, <2>3 DEF CallbackUpdates
    <3>2. xcall[c] = "saw"
        BY <1>14 DEF CallbackUpdates
    <3>3. ReadTypeOK'
        BY <3>1
    <3>4. AcknowledgementsHold'
        BY <3>1
    <3>5. ReadOrder'
        BY <3>1, <3>2
    <3> QED
        BY <3>3, <3>4, <3>5
  <2> QED
      BY <1>14, <2>1, <2>2, <2>3 DEF CallbackUpdates
<1>15. ASSUME NEW c \in ReadCalls, CallbackSends(c) PROVE ReadInv'
    BY <1>15 DEF CallbackSends
<1>16. CASE UNCHANGED xvars
    BY <1>16 DEF xvars
<1> QED
    BY <1>1, <1>2, <1>3, <1>4, <1>5, <1>6, <1>7, <1>8, <1>9, <1>10, <1>11, <1>12, <1>13, <1>14, <1>15,
       <1>16 DEF ReadNext

\* An acknowledgement of apex_instructions.rs tells the worker the state the row keeps, and
\* the tenant has the output only of a completed read, for any number of callbacks.
THEOREM AcksAreKept == ReadSpec => []AcknowledgementsHold
<1>1. ReadInv => AcknowledgementsHold
    BY DEF ReadInv
<1> QED
    BY <1>1, ReadInitInv, ReadStep, PTL DEF ReadSpec

-----------------------------------------------------------------------------
(* Homes. *)

\* The home is being deleted, or was.
Leaving == hhome \in {"deleting", "delete_failed", "removed"}

\* A home that is being deleted has no mount and nobody who is about to mount it,
\* save those who overlapped with the deletion where the database does not
\* serialise them; nothing of its deletion exists before that.
HomeEmpty ==
    /\ Leaving => hclaiming \subseteq hoverlap /\ hmount \subseteq hoverlap
    /\ Leaving /\ hserial => hclaiming = {} /\ hmount = {}
    /\ hhome = "none" => hclaiming = {}
    /\ hdeleting = "unmounted" => hhome # "none"
    /\ hdeleting = "unmounted" /\ hserial => hmount = {}
    /\ (hjob # "none" \/ hworkers > 0 \/ hwiped) => Leaving

\* A deletion that waits has an attempt left.
HomeTries == hjob = "queued" => htries < HomeAttempts

HomeInv == HomeTypeOK /\ HomeEmpty /\ HomeTries

\* The first state of a home satisfies the invariant.
LEMMA HomeInitInv == HomeInit => HomeInv
<1> SUFFICES ASSUME HomeInit PROVE HomeInv
    OBVIOUS
<1>1. 0 \in 0 .. HomeAttempts /\ ~(0 > 0)
    BY HomesAssumption
<1>2. HomeTypeOK
    BY <1>1, Zenon DEF HomeInit, HomeTypeOK, HomeStates, BoxStates
<1>3. HomeEmpty /\ HomeTries
    BY HomesAssumption DEF HomeInit, HomeEmpty, HomeTries, Leaving
<1> QED
    BY <1>2, <1>3 DEF HomeInv

\* Every mount, stop, delete and reaping keeps it.
LEMMA HomeStep == HomeInv /\ [HomeNext]_hvars => HomeInv'
<1> SUFFICES ASSUME HomeInv, [HomeNext]_hvars PROVE HomeInv'
    OBVIOUS
<1>0. hserial' = hserial
    BY DEF HomeNext, hvars
<1> USE HomesAssumption DEF HomeInv, HomeTypeOK, HomeEmpty, HomeTries, Leaving, HomeStates, BoxStates, MayWrite, Outdates
<1>1. CASE CreateHome
    BY <1>0, <1>1 DEF CreateHome
<1>2. ASSUME NEW b \in HomeBoxes, ClaimChecks(b) PROVE HomeInv'
    BY <1>0, <1>2 DEF ClaimChecks
<1>3. ASSUME NEW b \in HomeBoxes, ClaimMount(b) PROVE HomeInv'
    BY <1>0, <1>3 DEF ClaimMount
<1>4. ASSUME NEW b \in HomeBoxes, ClaimRefused(b) PROVE HomeInv'
    BY <1>0, <1>4 DEF ClaimRefused
<1>5. ASSUME NEW b \in HomeBoxes, BoxFails(b) PROVE HomeInv'
    BY <1>0, <1>5 DEF BoxFails
<1>6. ASSUME NEW b \in HomeBoxes, BoxStops(b) PROVE HomeInv'
    BY <1>0, <1>6 DEF BoxStops
<1>7. ASSUME NEW b \in HomeBoxes, BoxStopped(b) PROVE HomeInv'
    BY <1>0, <1>7 DEF BoxStopped
<1>8. CASE ReconcileHomeMounts
    BY <1>0, <1>8 DEF ReconcileHomeMounts
<1>9. CASE DeleteLooks
    BY <1>0, <1>9 DEF DeleteLooks, Unmounted
<1>10. CASE DeleteHome
    BY <1>0, <1>10 DEF DeleteHome
<1>11. CASE DeleteOutdated
    BY <1>0, <1>11 DEF DeleteOutdated
<1>12. CASE ClaimDeletion
    BY <1>0, <1>12 DEF ClaimDeletion
<1>13. CASE DeleteClaim
    BY <1>0, <1>13 DEF DeleteClaim
<1>14. CASE WorkerEnds
    BY <1>0, <1>14 DEF WorkerEnds
<1>15. CASE CompleteDeletion
    BY <1>0, <1>15 DEF CompleteDeletion
<1>16. CASE FailDeletion
    BY <1>0, <1>16 DEF FailDeletion
<1>17. CASE DeletionAges
    BY <1>0, <1>17 DEF DeletionAges
<1>18. CASE UNCHANGED hvars
    BY <1>0, <1>18 DEF hvars
<1> QED
    BY <1>1, <1>2, <1>3, <1>4, <1>5, <1>6, <1>7, <1>8, <1>9, <1>10, <1>11, <1>12, <1>13, <1>14, <1>15,
       <1>16, <1>17, <1>18 DEF HomeNext

\* homes.rs never deletes the claim of a home that is mounted on SQLite, and on
\* PostgreSQL only from under a creation that overlapped with the deletion, for any
\* number of sandboxes and attempts.
THEOREM DeletedHomeIsUnmounted == HomeSpec => []DeleteSparesMounted
<1>1. HomeInv => DeleteSparesMounted
    BY DEF HomeInv, HomeEmpty, DeleteSparesMounted
<1> QED
    BY <1>1, HomeInitInv, HomeStep, PTL DEF HomeSpec

-----------------------------------------------------------------------------
(* The lifetime reaper. *)

\* Every use that is not recorded exactly came within the throttle of one that
\* was: the age that is recorded exceeds the true one by no more.
UsesNearlyRecorded ==
    \A b \in ReapBoxes :
        vexact[b] <= vused[b] \/ (vseen[b] # Null /\ vseen[b] - BumpThrottle <= vused[b])

ReaperInv == ReaperTypeOK /\ UsesNearlyRecorded

\* No use is unrecorded at the start.
LEMMA ReaperInitInv == ReaperInit => ReaperInv
BY ReapAssumption DEF ReaperInit, ReaperInv, ReaperTypeOK, UsesNearlyRecorded, ReapBoxes, Ages, AgeLimit, Null

\* Every use, touch and pass of the reaper keeps it.
LEMMA ReaperStep == ReaperInv /\ [ReaperNext]_vvars => ReaperInv'
<1> SUFFICES ASSUME ReaperInv, [ReaperNext]_vvars PROVE ReaperInv'
    OBVIOUS
<1>a. AgeLimit \in Nat /\ BumpThrottle \in Nat
    BY ReapAssumption DEF AgeLimit
<1> USE <1>a DEF ReaperInv, ReaperTypeOK, UsesNearlyRecorded, Ages, Null, Live
<1>1. CASE TickAges
  <2>1. \A a \in Ages : Older(a) \in Ages /\ (Older(a) = a + 1 \/ (Older(a) = a /\ a = AgeLimit))
      BY DEF Older
  <2>2. Older(Null) = Null
      BY DEF Older
  <2>3. \A a, e \in Ages : a <= e => Older(a) <= Older(e)
      BY <2>1
  <2>4. \A a, e \in Ages : a - BumpThrottle <= e => Older(a) - BumpThrottle <= Older(e)
      BY <2>1
  <2>5. ReaperTypeOK'
      BY <1>1, <2>1, <2>2 DEF TickAges
  <2>6. UsesNearlyRecorded'
      BY <1>1, <2>1, <2>2, <2>3, <2>4 DEF TickAges
  <2> QED
      BY <2>5, <2>6
<1>2. ASSUME NEW b \in ReapBoxes, NEW limit \in {"none", "life", "idle", "both"}, CreateBox(b, limit)
      PROVE ReaperInv'
    BY <1>2 DEF CreateBox
<1>3. ASSUME NEW b \in ReapBoxes, RecordExactly(b) PROVE ReaperInv'
    BY <1>3 DEF RecordExactly
<1>4. ASSUME NEW b \in ReapBoxes, BumpActivity(b) PROVE ReaperInv'
    BY <1>4 DEF BumpActivity, Bumped
<1>5. ASSUME NEW b \in ReapBoxes, StopBox(b) PROVE ReaperInv'
    BY <1>5 DEF StopBox
<1>6. CASE SweepReads
    BY <1>6 DEF SweepReads, Candidates
<1>7. CASE ReapCandidate
    BY <1>7 DEF ReapCandidate
<1>8. CASE ReapFails
    BY <1>8 DEF ReapFails
<1>9. CASE UNCHANGED vvars
    BY <1>9 DEF vvars
<1> QED
    BY <1>1, <1>2, <1>3, <1>4, <1>5, <1>6, <1>7, <1>8, <1>9 DEF ReaperNext

\* A sweep of reap.rs picks a sandbox for being idle only when its last use is older than
\* its idle time less the throttle, for any number of sandboxes and any limits.
THEOREM IdleIsReal == ReaperSpec => IdleMeansUnused
<1> DEFINE Picks == \A b \in vdue' \ vdue : vlimit[b] = "idle" => vused[b] >= IdleTtl - BumpThrottle
<1>1. ReaperInv /\ [ReaperNext]_vvars => [Picks]_vvars
  <2> SUFFICES ASSUME ReaperInv, ReaperNext, NEW b \in vdue' \ vdue, vlimit[b] = "idle"
               PROVE vused[b] >= IdleTtl - BumpThrottle
      OBVIOUS
  <2>1. SweepReads
      BY DEF ReaperNext, TickAges, CreateBox, RecordExactly, BumpActivity, StopBox, ReapCandidate, ReapFails
  <2>2. b \in ReapBoxes /\ IdleExpired(b)
      BY <2>1 DEF SweepReads, Candidates, Live, Due, LifetimeExpired
  <2>3. AgeLimit \in Nat /\ BumpThrottle \in Nat /\ IdleTtl \in Nat
      BY ReapAssumption DEF AgeLimit
  <2> QED
      BY <2>2, <2>3 DEF IdleExpired, LastActivity, ReaperInv, ReaperTypeOK, UsesNearlyRecorded, Ages, Null
<1> QED
    BY <1>1, ReaperInitInv, ReaperStep, PTL DEF ReaperSpec, IdleMeansUnused

-----------------------------------------------------------------------------
(* The runtime inventory. *)

\* A generation that is recorded runs, or its volume is gone and the stop has not
\* been recorded.
RecordedRuns ==
    \A b \in InvBoxes : urecorded[b] # NoVolume =>
        \/ uphase[b] = "running" /\ uvol[b] = urecorded[b]
        \/ uphase[b] = "stopped" /\ uvol[b] = NoVolume

\* A sandbox whose job has run has a volume.
VolumeThere ==
    \A b \in InvBoxes : uphase[b] \in {"provisioned", "restored"} => uvol[b] \in Sources

\* An inventory that could still revive a row another has retired has seen the
\* recorded volume or none, unless it was under way when that happened.
SeenIsRecorded ==
    \A b \in InvBoxes, i \in Inventories :
        (uasked[i] # "no" /\ urecorded[b] # NoVolume /\ urow[b] # "live" /\ ~ustale[b]) =>
            useenvol[i][b] \in {NoVolume, urecorded[b]}

InventoryInv == InventoryTypeOK /\ RecordedRuns /\ VolumeThere /\ SeenIsRecorded /\ LineageIsTrue

\* The first state of the inventory satisfies the invariant.
LEMMA InventoryInitInv == InventoryInit => InventoryInv
BY DEF InventoryInit, InventoryInv, InventoryTypeOK, RecordedRuns, VolumeThere, SeenIsRecorded, LineageIsTrue, Volumes,
       Sources, RowStatuses, Recordable

\* Every worker report, completion and retirement keeps it.
LEMMA InventoryStep == InventoryInv /\ [InventoryNext]_uvars => InventoryInv'
<1> SUFFICES ASSUME InventoryInv, [InventoryNext]_uvars PROVE InventoryInv'
    OBVIOUS
<1> USE DEF InventoryInv, InventoryTypeOK, RecordedRuns, VolumeThere, SeenIsRecorded, LineageIsTrue, Volumes, Sources,
            RowStatuses, Recordable, rowvars, seenvars, Retired, Accepts
<1>1. ASSUME NEW b \in InvBoxes, NEW source \in Sources, ProvisionVolume(b, source) PROVE InventoryInv'
    BY <1>1 DEF ProvisionVolume
<1>2. ASSUME NEW b \in InvBoxes, NEW s \in InvSnaps, TakeSnapshot(b, s) PROVE InventoryInv'
    BY <1>2 DEF TakeSnapshot
<1>3. ASSUME NEW b \in InvBoxes, NEW s \in InvSnaps, RestoreVolume(b, s) PROVE InventoryInv'
    BY <1>3 DEF RestoreVolume
<1>4. ASSUME NEW b \in InvBoxes, CompleteVolume(b) PROVE InventoryInv'
    BY <1>4 DEF CompleteVolume
<1>5. ASSUME NEW b \in InvBoxes, StopVolume(b) PROVE InventoryInv'
    BY <1>5 DEF StopVolume
<1>6. ASSUME NEW b \in InvBoxes, CompleteVolumeStop(b) PROVE InventoryInv'
    BY <1>6 DEF CompleteVolumeStop
<1>7. ASSUME NEW b \in InvBoxes, CompleteResume(b) PROVE InventoryInv'
    BY <1>7 DEF CompleteResume
<1>8. ASSUME NEW b \in InvBoxes, DeleteBoxRows(b) PROVE InventoryInv'
    BY <1>8 DEF DeleteBoxRows
<1>9. ASSUME NEW s \in InvSnaps, CompleteSnapshotRow(s) PROVE InventoryInv'
    BY <1>9 DEF CompleteSnapshotRow
<1>10. ASSUME NEW s \in InvSnaps, ExpireSnapshotRow(s) PROVE InventoryInv'
    BY <1>10 DEF ExpireSnapshotRow
<1>11. ASSUME NEW i \in Inventories, ReadInventory(i) PROVE InventoryInv'
    BY <1>11 DEF ReadInventory
<1>12. ASSUME NEW i \in Inventories, ApplyInventory(i) PROVE InventoryInv'
  <2> USE <1>12 DEF ApplyInventory, Missing, Answered
  <2>1. InventoryTypeOK' /\ RecordedRuns' /\ VolumeThere'
    <3>1. ustale' \in [InvBoxes -> BOOLEAN]
        BY Zenon
    <3> QED
        BY <3>1 DEF SeenBoxes
  <2>2. ASSUME NEW b \in InvBoxes, urecorded[b] # NoVolume, ~ustale'[b]
        PROVE  /\ urow'[b] = "live" => usource'[b] = urecorded[b]
               /\ \A j \in Inventories : uasked'[j] # "no" /\ urow'[b] # "live" => useenvol'[j][b] \in {NoVolume, urecorded[b]}
    <3>1. ~ustale[b] /\ ~HidesFromOlder(i, b)
        BY <2>2, Zenon
    <3>2. CASE b \in SeenBoxes(i)
        BY <2>2, <3>1, <3>2 DEF InventoryAccepted, SeenBoxes
    <3>3. CASE b \notin SeenBoxes(i)
      <4>1. usource'[b] = usource[b] /\ (urow'[b] = "live" => urow[b] = "live")
          BY <3>3
      <4>2. ASSUME NEW j \in Inventories, uasked'[j] # "no", urow'[b] # "live"
            PROVE  useenvol'[j][b] \in {NoVolume, urecorded[b]}
        <5>1. j # i /\ uasked[j] # "no" /\ useenvol'[j] = useenvol[j]
            BY <4>2
        <5>2. CASE urow[b] # "live"
            BY <2>2, <3>1, <5>1, <5>2
        <5>3. CASE urow[b] = "live"
          <6>1. uasked[i] = "replace"
              BY <3>3, <4>2, <5>3
          <6> QED
              BY <2>2, <3>1, <3>3, <5>1, <5>3, <6>1 DEF HidesFromOlder
        <5> QED
            BY <5>2, <5>3
      <4> QED
          BY <2>2, <3>1, <4>1, <4>2
    <3> QED
        BY <3>2, <3>3
  <2>3. urecorded' = urecorded
      OBVIOUS
  <2>4. SeenIsRecorded' /\ LineageIsTrue'
      BY <2>2, <2>3 DEF SeenIsRecorded, LineageIsTrue
  <2> QED
      BY <2>1, <2>4
<1>13. ASSUME NEW i \in Inventories, RefuseInventory(i) PROVE InventoryInv'
    BY <1>13 DEF RefuseInventory, Answered
<1>14. CASE UNCHANGED uvars
    BY <1>14 DEF uvars
<1> QED
    BY <1>1, <1>2, <1>3, <1>4, <1>5, <1>6, <1>7, <1>8, <1>9, <1>10, <1>11, <1>12, <1>13, <1>14
    DEF InventoryNext

\* A live row of reconcile.rs names the source of the volume that was recorded, unless one
\* inventory hid it while an older one was under way, for any number of sandboxes and inventories.
THEOREM LiveLineageIsTrue == InventorySpec => []LineageIsTrue
<1>1. InventoryInv => LineageIsTrue
    BY DEF InventoryInv
<1> QED
    BY <1>1, InventoryInitInv, InventoryStep, PTL DEF InventorySpec

-----------------------------------------------------------------------------
(* Sums. *)

\* The sum over a finite set is a number.
LEMMA SumIsNat ==
  ASSUME NEW S, IsFiniteSet(S), NEW f \in [S -> Nat]
  PROVE  IsFiniteSet(Units(f)) /\ SumOf(f) \in Nat
<1> DEFINE T == {{x} \X (1 .. f[x]) : x \in S}
           g == [x \in S |-> {x} \X (1 .. f[x])]
<1>1. g \in Surjection(S, T)
  BY Fun_IsSurj
<1>2. IsFiniteSet(T)
  BY <1>1, FS_Surjection
<1>3. \A x \in S : IsFiniteSet({x} \X (1 .. f[x]))
  <2> SUFFICES ASSUME NEW x \in S PROVE IsFiniteSet({x} \X (1 .. f[x]))
    OBVIOUS
  <2>1. IsFiniteSet(1 .. f[x])
    BY FS_Interval
  <2>2. IsFiniteSet({x})
    BY FS_Singleton
  <2> QED BY <2>1, <2>2, FS_Product, Zenon
<1>4. IsFiniteSet(UNION T)
  BY <1>2, <1>3, FS_UNION
<1> QED BY <1>4, FS_CardinalityType DEF Units, SumOf

\* The sum is that over a part and that over the rest.
LEMMA SumSplits ==
  ASSUME NEW S, IsFiniteSet(S), NEW f \in [S -> Nat], NEW A \in SUBSET S
  PROVE  SumOf(f) = SumOf([x \in A |-> f[x]]) + SumOf([x \in S \ A |-> f[x]])
<1> DEFINE g == [x \in A |-> f[x]]
           h == [x \in S \ A |-> f[x]]
<1>1. IsFiniteSet(A) /\ IsFiniteSet(S \ A)
  BY FS_Subset
<1>2. IsFiniteSet(Units(g)) /\ IsFiniteSet(Units(h)) /\ SumOf(g) \in Nat /\ SumOf(h) \in Nat
  BY <1>1, SumIsNat
<1>3. Units(f) = Units(g) \cup Units(h)
  BY DEF Units
<1>4. Units(g) \cap Units(h) = {}
  BY DEF Units
<1>5. Cardinality(Units(g) \cap Units(h)) = 0
  BY <1>4, FS_EmptySet
<1>6. Cardinality(Units(f)) = Cardinality(Units(g)) + Cardinality(Units(h)) - Cardinality(Units(g) \cap Units(h))
  BY <1>2, <1>3, FS_Union, Zenon
<1> SUFFICES SumOf(f) = SumOf(g) + SumOf(h)
  OBVIOUS
<1> HIDE DEF g, h
<1> QED BY <1>2, <1>5, <1>6 DEF SumOf

\* The sum over one element.
LEMMA SumOfOne ==
  ASSUME NEW a, NEW n \in Nat
  PROVE  SumOf([x \in {a} |-> n]) = n
<1>1. Units([x \in {a} |-> n]) = {a} \X (1 .. n)
  BY DEF Units
<1>2. Cardinality({a} \X (1 .. n)) = n
  <2>1. IsFiniteSet({a}) /\ Cardinality({a}) = 1
    BY FS_Singleton
  <2>2. IsFiniteSet(1 .. n) /\ Cardinality(1 .. n) = n
    BY FS_Interval
  <2>3. Cardinality({a} \X (1 .. n)) = Cardinality({a}) * Cardinality(1 .. n)
    BY <2>1, <2>2, FS_Product, Zenon
  <2> QED BY <2>1, <2>2, <2>3
<1> QED BY <1>1, <1>2 DEF SumOf

\* Nothing adds up to nothing.
LEMMA SumOfNone ==
  ASSUME NEW S, NEW f, f = [x \in S |-> 0]
  PROVE  SumOf(f) = 0
<1>1. Units(f) = {}
  BY DEF Units
<1> QED BY <1>1, FS_EmptySet DEF SumOf

\* One counter changes the sum by as much as it changes itself.
LEMMA SumChanges ==
  ASSUME NEW S, IsFiniteSet(S), NEW f \in [S -> Nat], NEW a \in S, NEW v \in Nat
  PROVE  SumOf([f EXCEPT ![a] = v]) = SumOf(f) - f[a] + v
<1> DEFINE g == [f EXCEPT ![a] = v]
<1>1. g \in [S -> Nat]
  OBVIOUS
<1>2. /\ [x \in {a} |-> f[x]] = [x \in {a} |-> f[a]]
      /\ [x \in {a} |-> g[x]] = [x \in {a} |-> v]
      /\ [x \in S \ {a} |-> g[x]] = [x \in S \ {a} |-> f[x]]
  OBVIOUS
<1>3. SumOf(f) = SumOf([x \in {a} |-> f[x]]) + SumOf([x \in S \ {a} |-> f[x]])
  BY SumSplits
<1>4. SumOf(g) = SumOf([x \in {a} |-> g[x]]) + SumOf([x \in S \ {a} |-> g[x]])
  <2> HIDE DEF g
  <2> QED BY <1>1, SumSplits
<1>5. SumOf([x \in {a} |-> f[a]]) = f[a] /\ SumOf([x \in {a} |-> v]) = v
  BY SumOfOne
<1>6. SumOf([x \in S \ {a} |-> f[x]]) \in Nat
  <2>1. IsFiniteSet(S \ {a})
    BY FS_Subset
  <2>2. [x \in S \ {a} |-> f[x]] \in [S \ {a} -> Nat]
    OBVIOUS
  <2> QED BY <2>1, <2>2, SumIsNat, Zenon
<1> QED BY <1>2, <1>3, <1>4, <1>5, <1>6

\* What is sorted into buckets is as much as there was.
LEMMA BucketsHoldAll ==
  ASSUME NEW K, IsFiniteSet(K), NEW n \in Nat, NEW q, \A i \in 1 .. n : q[i] \in K
  PROVE  SumOf([k \in K |-> Cardinality({i \in 1 .. n : q[i] = k})]) = n
<1> DEFINE C(k) == {i \in 1 .. n : q[i] = k}
           f == [k \in K |-> Cardinality(C(k))]
           g == [k \in K |-> CHOOSE b : b \in Bijection(1 .. f[k], C(k))]
           h == [u \in Units(f) |-> g[u[1]][u[2]]]
<1>1. IsFiniteSet(1 .. n) /\ Cardinality(1 .. n) = n
  BY FS_Interval
<1>2. \A k \in K : IsFiniteSet(C(k))
  BY <1>1, FS_Subset
<1>3. \A k \in K : f[k] \in Nat /\ g[k] \in Bijection(1 .. f[k], C(k))
  <2> SUFFICES ASSUME NEW k \in K PROVE f[k] \in Nat /\ g[k] \in Bijection(1 .. f[k], C(k))
    OBVIOUS
  <2>1. f[k] \in Nat /\ ExistsBijection(1 .. f[k], C(k))
    BY <1>2, FS_CardinalityType
  <2>2. \E b : b \in Bijection(1 .. f[k], C(k))
    BY <2>1 DEF ExistsBijection
  <2> QED BY <2>1, <2>2
<1> HIDE DEF C, g
<1>4. \A u \in Units(f) : u[1] \in K /\ u[2] \in 1 .. f[u[1]] /\ u = <<u[1], u[2]>>
  BY DEF Units
<1>5. \A k \in K : \A i \in 1 .. f[k] : <<k, i>> \in Units(f)
  BY DEF Units
<1> HIDE DEF f
<1>6. \A k \in K : /\ \A i \in 1 .. f[k] : g[k][i] \in C(k)
                   /\ \A i, j \in 1 .. f[k] : g[k][i] = g[k][j] => i = j
                   /\ \A c \in C(k) : \E i \in 1 .. f[k] : g[k][i] = c
  BY <1>3, Fun_BijectionProperties
<1>7. \A k \in K : \A c \in C(k) : c \in 1 .. n /\ q[c] = k
  BY DEF C
<1>8. h \in [Units(f) -> 1 .. n]
  BY <1>4, <1>6, <1>7
<1>9. ASSUME NEW u \in Units(f), NEW v \in Units(f), h[u] = h[v]
      PROVE  u = v
  <2>1. g[u[1]][u[2]] = g[v[1]][v[2]]
    BY <1>9
  <2>2. u[1] = q[g[u[1]][u[2]]] /\ v[1] = q[g[v[1]][v[2]]]
    BY <1>4, <1>6, <1>7
  <2>3. u[1] = v[1]
    BY <2>1, <2>2
  <2>4. u[2] = v[2]
    BY <2>1, <2>3, <1>4, <1>6
  <2> QED BY <2>3, <2>4, <1>4
<1>10. ASSUME NEW c \in 1 .. n
       PROVE  \E u \in Units(f) : h[u] = c
  <2>1. q[c] \in K /\ c \in C(q[c])
    BY DEF C
  <2>2. PICK i \in 1 .. f[q[c]] : g[q[c]][i] = c
    BY <2>1, <1>6
  <2>3. <<q[c], i>> \in Units(f)
    BY <2>1, <1>5
  <2>4. h[<<q[c], i>>] = c
    BY <2>2, <2>3
  <2> QED BY <2>3, <2>4
<1>11. h \in Bijection(Units(f), 1 .. n)
  <2> HIDE DEF h
  <2> QED BY <1>8, <1>9, <1>10, Fun_IsBij
<1>12. f \in [K -> Nat]
  BY <1>3 DEF f
<1>13. IsFiniteSet(Units(f))
  BY <1>12, SumIsNat
<1>14. Cardinality(Units(f)) = n
  BY <1>1, <1>11, <1>13, FS_Bijection DEF ExistsBijection
<1> QED BY <1>14 DEF SumOf, f, C

-----------------------------------------------------------------------------
(* Observations. *)

\* What the proof needs of the types, and the property itself: every observation
\* moves from one of the sums to another, or is counted in two of them.
SinkInv ==
  /\ zqueue \in Seq(SinkKeys) /\ zmade \in Nat
  /\ zbatch \in [SinkKeys -> Nat] /\ zstored \in [SinkKeys -> Nat]
  /\ zlost \in [LossReasons -> Nat]
  /\ NothingErasedSilently

\* The sums in the property are numbers.
LEMMA SinkSums ==
  ASSUME SinkInv
  PROVE  /\ SumOf(zbatch) \in Nat /\ SumOf(zstored) \in Nat /\ SumOf(zlost) \in Nat
         /\ Len(zqueue) \in Nat /\ IsFiniteSet(SinkKeys) /\ IsFiniteSet(LossReasons)
<1>1. IsFiniteSet(SinkKeys)
  BY SinkAssumption
<1>2. IsFiniteSet(LossReasons)
  <2>1. IsFiniteSet({"queue_full"})
    BY FS_Singleton
  <2>2. IsFiniteSet({"queue_full"} \cup {"write_failed"})
    BY <2>1, FS_AddElement
  <2>3. LossReasons = {"queue_full"} \cup {"write_failed"}
    BY DEF LossReasons
  <2> QED BY <2>2, <2>3
<1> QED BY <1>1, <1>2, SumIsNat DEF SinkInv

\* A loss that is counted is in the sum.
LEMMA LossCounted ==
  ASSUME SinkInv, NEW r \in LossReasons, NEW n \in Nat, Lose(r, n)
  PROVE  zlost' \in [LossReasons -> Nat] /\ SumOf(zlost') = SumOf(zlost) + n
<1>1. zlost \in [LossReasons -> Nat] /\ IsFiniteSet(LossReasons) /\ SumOf(zlost) \in Nat
  BY SinkSums DEF SinkInv
<1>2. PICK v \in Nat : v = zlost[r] + n
  BY <1>1
<1>3. zlost' = [zlost EXCEPT ![r] = v]
  BY <1>2 DEF Lose
<1>4. SumOf([zlost EXCEPT ![r] = v]) = SumOf(zlost) - zlost[r] + v
  BY <1>1, SumChanges
<1> QED BY <1>1, <1>2, <1>3, <1>4

\* An empty sink has lost nothing.
LEMMA SinkInitInv == SinkInit => SinkInv
<1> SUFFICES ASSUME SinkInit PROVE SinkInv
  OBVIOUS
<1>1. /\ zqueue \in Seq(SinkKeys) /\ Len(zqueue) = 0 /\ zmade = 0
      /\ zbatch \in [SinkKeys -> Nat] /\ zstored \in [SinkKeys -> Nat]
      /\ zlost \in [LossReasons -> Nat]
  BY DEF SinkInit
<1>2. SumOf(zbatch) = 0 /\ SumOf(zstored) = 0 /\ SumOf(zlost) = 0
  BY SumOfNone DEF SinkInit
<1> QED BY <1>1, <1>2 DEF SinkInv, NothingErasedSilently

\* An observation, a batch taken off the queue and every outcome of a write keep it.
LEMMA SinkStep == SinkInv /\ [SinkNext]_zvars => SinkInv'
<1> SUFFICES ASSUME SinkInv, [SinkNext]_zvars PROVE SinkInv'
  OBVIOUS
<1>0. /\ zqueue \in Seq(SinkKeys) /\ zmade \in Nat /\ zbatch \in [SinkKeys -> Nat]
      /\ zstored \in [SinkKeys -> Nat] /\ zlost \in [LossReasons -> Nat]
      /\ zmade <= Len(zqueue) + SumOf(zbatch) + SumOf(zstored) + SumOf(zlost)
  BY DEF SinkInv, NothingErasedSilently
<1>s. /\ SumOf(zbatch) \in Nat /\ SumOf(zstored) \in Nat /\ SumOf(zlost) \in Nat
      /\ Len(zqueue) \in Nat /\ IsFiniteSet(SinkKeys)
  BY SinkSums
<1>r. "queue_full" \in LossReasons /\ "write_failed" \in LossReasons
  BY DEF LossReasons
<1>1. ASSUME NEW k \in SinkKeys, TryEnqueue(k) PROVE SinkInv'
  <2>1. zmade' = zmade + 1 /\ zbatch' = zbatch /\ zstored' = zstored
    BY <1>1 DEF TryEnqueue
  <2>2. CASE Lose("queue_full", 1) /\ zqueue' = zqueue
    <3>1. zlost' \in [LossReasons -> Nat] /\ SumOf(zlost') = SumOf(zlost) + 1
      BY <2>2, <1>r, LossCounted
    <3> QED BY <2>1, <2>2, <3>1, <1>0, <1>s DEF SinkInv, NothingErasedSilently
  <2>3. CASE zqueue' = Append(zqueue, k) /\ zlost' = zlost
    <3>1. zqueue' \in Seq(SinkKeys) /\ Len(zqueue') = Len(zqueue) + 1
      BY <2>3, <1>0
    <3> QED BY <2>1, <2>3, <3>1, <1>0, <1>s DEF SinkInv, NothingErasedSilently
  <2> QED BY <1>1, <2>2, <2>3 DEF TryEnqueue
<1>2. CASE TakeBatch
  <2>1. /\ \A k \in SinkKeys : zbatch[k] = 0
        /\ zstored' = zstored /\ zlost' = zlost /\ zmade' = zmade
    BY <1>2 DEF TakeBatch
  <2>2. PICK n \in 1..SinkBatch :
          /\ n <= Len(zqueue)
          /\ zbatch' = [k \in SinkKeys |-> Cardinality({i \in 1..n : zqueue[i] = k})]
          /\ zqueue' = SubSeq(zqueue, n + 1, Len(zqueue))
    BY <1>2 DEF TakeBatch
  <2>3. n \in Nat
    BY SinkAssumption
  <2>4. zqueue' \in Seq(SinkKeys) /\ Len(zqueue') = Len(zqueue) - n
    BY <2>2, <2>3, <1>0
  <2>5. \A i \in 1..n : zqueue[i] \in SinkKeys
    BY <2>2, <2>3, <1>0
  <2>6. SumOf(zbatch') = n
    <3>1. SumOf([k \in SinkKeys |-> Cardinality({i \in 1..n : zqueue[i] = k})]) = n
      BY <2>3, <2>5, <1>s, BucketsHoldAll
    <3> QED BY <2>2, <3>1
  <2>7. zbatch' \in [SinkKeys -> Nat]
    <3> SUFFICES ASSUME NEW k \in SinkKeys PROVE Cardinality({i \in 1..n : zqueue[i] = k}) \in Nat
      BY <2>2
    <3>1. IsFiniteSet(1..n)
      BY <2>3, FS_Interval
    <3>2. IsFiniteSet({i \in 1..n : zqueue[i] = k})
      BY <3>1, FS_Subset
    <3> QED BY <3>2, FS_CardinalityType
  <2>8. SumOf(zbatch) = 0
    <3>1. zbatch = [k \in SinkKeys |-> 0]
      BY <2>1, <1>0
    <3> QED BY <3>1, SumOfNone
  <2>9. zmade <= Len(zqueue') + SumOf(zbatch') + SumOf(zstored) + SumOf(zlost)
    BY <2>3, <2>4, <2>6, <2>8, <1>0, <1>s
  <2> QED BY <2>1, <2>4, <2>7, <2>9, <1>0 DEF SinkInv, NothingErasedSilently
<1>3. ASSUME NEW k \in SinkKeys, WriteAggregate(k) PROVE SinkInv'
  <2>1. zbatch' = [zbatch EXCEPT ![k] = 0] /\ zqueue' = zqueue /\ zmade' = zmade
    BY <1>3 DEF WriteAggregate
  <2>2. zbatch' \in [SinkKeys -> Nat] /\ SumOf(zbatch') = SumOf(zbatch) - zbatch[k]
    <3>1. SumOf([zbatch EXCEPT ![k] = 0]) = SumOf(zbatch) - zbatch[k] + 0
      <4>1. 0 \in Nat
        OBVIOUS
      <4> QED BY <4>1, <1>0, <1>s, SumChanges, Zenon
    <3>2. zbatch[k] \in Nat
      BY <1>0
    <3> QED BY <2>1, <3>1, <3>2, <1>0, <1>s
  <2>3. PICK v \in Nat : v = zstored[k] + zbatch[k]
    BY <1>0
  <2>4. SumOf([zstored EXCEPT ![k] = v]) = SumOf(zstored) + zbatch[k]
    <3>1. SumOf([zstored EXCEPT ![k] = v]) = SumOf(zstored) - zstored[k] + v
      BY <1>0, <1>s, SumChanges, Zenon
    <3>2. zbatch[k] \in Nat /\ zstored[k] \in Nat
      BY <1>0
    <3> QED BY <2>3, <3>1, <3>2, <1>s
  <2>5. \/ zstored' = zstored /\ Lose("write_failed", zbatch[k])
        \/ zstored' = [zstored EXCEPT ![k] = v] /\ zlost' = zlost
        \/ zstored' = [zstored EXCEPT ![k] = v] /\ Lose("write_failed", zbatch[k])
    BY <1>3, <2>3 DEF WriteAggregate, LostSamples
  <2>6. Lose("write_failed", zbatch[k]) => zlost' \in [LossReasons -> Nat] /\ SumOf(zlost') = SumOf(zlost) + zbatch[k]
    BY <1>0, <1>r, LossCounted
  <2>7. zstored' \in [SinkKeys -> Nat] /\ zlost' \in [LossReasons -> Nat]
    BY <2>5, <2>6, <1>0
  <2>8. zmade <= Len(zqueue) + SumOf(zbatch') + SumOf(zstored') + SumOf(zlost')
    <3>1. zbatch[k] \in Nat
      BY <1>0
    <3>2. \/ SumOf(zstored') = SumOf(zstored) /\ SumOf(zlost') = SumOf(zlost) + zbatch[k]
          \/ SumOf(zstored') = SumOf(zstored) + zbatch[k] /\ SumOf(zlost') = SumOf(zlost)
          \/ SumOf(zstored') = SumOf(zstored) + zbatch[k] /\ SumOf(zlost') = SumOf(zlost) + zbatch[k]
      BY <2>4, <2>5, <2>6
    <3>3. SumOf(zbatch') = SumOf(zbatch) - zbatch[k]
      BY <2>2
    <3>4. zmade \in Nat /\ zmade <= Len(zqueue) + SumOf(zbatch) + SumOf(zstored) + SumOf(zlost)
      BY <1>0
    <3> QED BY ONLY <3>1, <3>2, <3>3, <3>4, <1>s
  <2> QED BY <2>1, <2>2, <2>7, <2>8, <1>0 DEF SinkInv, NothingErasedSilently
<1>4. CASE UNCHANGED zvars
  BY <1>4 DEF SinkInv, NothingErasedSilently, zvars
<1> QED BY <1>1, <1>2, <1>3, <1>4 DEF SinkNext

\* What observation.rs is given is queued, in the batch, stored or counted as lost, for any
\* number of keys and any capacity.
THEOREM LossesAreCounted == SinkSpec => []NothingErasedSilently
<1>1. SinkInv => NothingErasedSilently
  BY DEF SinkInv
<1> QED BY <1>1, SinkInitInv, SinkStep, PTL DEF SinkSpec

-----------------------------------------------------------------------------
(* Command output. *)

\* Every chunk, retry and completion keeps at most one chunk per operation.
LEMMA OutputStep == OneChunkPerOperation /\ [OutputNext]_yvars => OneChunkPerOperation'
<1> SUFFICES ASSUME OneChunkPerOperation, [OutputNext]_yvars PROVE OneChunkPerOperation'
    OBVIOUS
<1> USE DEF OneChunkPerOperation, outputTable
<1>r. ResetOutput => OneChunkPerOperation'
    BY DEF ResetOutput
<1>e. ASSUME NEW status, NEW size, EndCommand(status, size) PROVE OneChunkPerOperation'
    BY <1>e DEF EndCommand, AppendChunk
<1>1. CASE QueueCommand
    BY <1>1 DEF QueueCommand
<1>2. CASE ClaimRun
    BY <1>2 DEF ClaimRun
<1>3. ASSUME NEW k \in OutKeys, NEW s \in OutStreams, NEW size \in OutSizes, SendOutput(k, s, size)
      PROVE OneChunkPerOperation'
    BY <1>3 DEF SendOutput
<1>4. ASSUME NEW k \in OutKeys, NEW c \in Copies, AppendChecks(k, c) \/ AppendLooks(k, c)
      PROVE OneChunkPerOperation'
    BY <1>4 DEF AppendChecks, AppendLooks
<1>5. ASSUME NEW k \in OutKeys, NEW c \in Copies, AppendWrites(k, c) PROVE OneChunkPerOperation'
    BY <1>5, OutAssumption DEF AppendWrites, AppendChunk, Unrecorded, Recorded
<1>6. ASSUME NEW out, NEW err, CompleteCommand(out, err) PROVE OneChunkPerOperation'
  <2>1. PICK p, q : yrows' = (yrows \ (p.gone \cup q.gone)) \cup NewRow(p, "stdout") \cup NewRow(q, "stderr")
      BY <1>6 DEF CompleteCommand
  <2>2. \A r \in yrows' : r \in yrows \/ r.k = NoOperation
      BY <2>1 DEF NewRow
  <2> QED
      BY <2>2
<1>7. ASSUME NEW retry \in BOOLEAN, FailCommand(retry, 1) PROVE OneChunkPerOperation'
    BY <1>7, <1>r, <1>e DEF FailCommand, RetryCommand
<1>8. CASE ExpireCommand
    BY <1>8, <1>r, <1>e DEF ExpireCommand, RetryCommand
<1>9. CASE UNCHANGED yvars
    BY <1>9 DEF yvars
<1> QED
    BY <1>1, <1>2, <1>3, <1>4, <1>5, <1>6, <1>7, <1>8, <1>9 DEF OutputNext, CommandNext

\* An operation key of commands.rs has one chunk at most, for any number of keys, attempts and bytes.
THEOREM OperationsAppendOnce == OutputSpec => []OneChunkPerOperation
<1>1. OutputInit => OneChunkPerOperation
    BY DEF OutputInit, OneChunkPerOperation
<1> QED
    BY <1>1, OutputStep, PTL DEF OutputSpec

\* The rows of a stream.
Of(R, s) == {r \in R : r.s = s}

\* The counters c, b and q are those of the rows R.
Counted(R, c, b, q) ==
    /\ R \subseteq OutRows /\ IsFiniteSet(R)
    /\ c = Cardinality(R) /\ b = TotalSize(R)
    /\ q \in [OutStreams -> Nat]
    /\ \A s \in OutStreams : {r.n : r \in Of(R, s)} = 1 .. q[s] /\ Cardinality(Of(R, s)) = q[s]

\* The size of finitely many rows is a number, that of a part and of the rest.
LEMMA SizeSplits ==
    ASSUME NEW R \in SUBSET OutRows, IsFiniteSet(R), NEW A \in SUBSET R
    PROVE  /\ TotalSize(A) \in Nat /\ TotalSize(R) \in Nat
           /\ TotalSize(R \ A) = TotalSize(R) - TotalSize(A)
<1> DEFINE f == [r \in R |-> r.size]
<1>1. f \in [R -> Nat]
    BY DEF OutRows
<1>2. [r \in A |-> f[r]] = [r \in A |-> r.size] /\ [r \in R \ A |-> f[r]] = [r \in R \ A |-> r.size]
    OBVIOUS
<1>3. [r \in A |-> r.size] \in [A -> Nat] /\ [r \in R \ A |-> r.size] \in [R \ A -> Nat]
    BY DEF OutRows
<1>4. IsFiniteSet(A) /\ IsFiniteSet(R \ A)
    BY FS_Subset
<1>5. SumOf([r \in A |-> r.size]) \in Nat /\ SumOf([r \in R \ A |-> r.size]) \in Nat /\ SumOf(f) \in Nat
    BY <1>1, <1>3, <1>4, SumIsNat, Zenon
<1>6. SumOf(f) = SumOf([r \in A |-> f[r]]) + SumOf([r \in R \ A |-> f[r]])
    <2> HIDE DEF f
    <2> QED BY <1>1, SumSplits
<1>7. TotalSize(R) = SumOf(f) /\ TotalSize(A) = SumOf([r \in A |-> r.size]) /\ TotalSize(R \ A) = SumOf([r \in R \ A |-> r.size])
    BY DEF TotalSize
<1> HIDE DEF f
<1> QED BY <1>2, <1>5, <1>6, <1>7

\* A row that is added is counted once.
LEMMA RowCounted ==
    ASSUME NEW R, NEW c, NEW b, NEW q, Counted(R, c, b, q),
           NEW s \in OutStreams, NEW size \in Nat, NEW k \in OutKeys \cup {NoOperation},
           NEW row, row = [s |-> s, n |-> q[s] + 1, size |-> size, k |-> k]
    PROVE  Counted(R \cup {row}, c + 1, b + size, [q EXCEPT ![s] = q[s] + 1])
<1> DEFINE T == R \cup {row}
<1>0. /\ R \subseteq OutRows /\ IsFiniteSet(R) /\ q \in [OutStreams -> Nat]
      /\ c = Cardinality(R) /\ b = TotalSize(R)
      /\ \A t \in OutStreams : {r.n : r \in Of(R, t)} = 1 .. q[t] /\ Cardinality(Of(R, t)) = q[t]
    BY DEF Counted
<1>1. q[s] \in Nat
    BY <1>0
<1>2. row \in OutRows /\ row.s = s /\ row.n = q[s] + 1 /\ row.size = size
    BY <1>1 DEF OutRows
<1>3. row \notin R
    <2> SUFFICES ASSUME row \in R PROVE FALSE
        OBVIOUS
    <2>1. row.n \in {r.n : r \in Of(R, s)}
        BY <1>2 DEF Of
    <2> QED BY <2>1, <1>0, <1>1, <1>2
<1>4. T \in SUBSET OutRows /\ IsFiniteSet(T) /\ Cardinality(T) = Cardinality(R) + 1
    BY <1>0, <1>2, <1>3, FS_AddElement
<1>5. TotalSize(T) = TotalSize(R) + size
    <2>1. T \ {row} = R /\ {row} \in SUBSET T
        BY <1>3
    <2>2. /\ TotalSize({row}) \in Nat /\ TotalSize(T) \in Nat
          /\ TotalSize(T \ {row}) = TotalSize(T) - TotalSize({row})
        <3> HIDE DEF T
        <3> QED BY <1>4, <2>1, SizeSplits, Zenon
    <2>3. [r \in {row} |-> r.size] = [r \in {row} |-> size]
        BY <1>2
    <2>4. TotalSize({row}) = size
        BY <2>3, SumOfOne DEF TotalSize
    <2> HIDE DEF T
    <2>5. TotalSize(T \ {row}) = TotalSize(R)
        BY <2>1, Zenon
    <2> QED BY <2>2, <2>4, <2>5
<1> DEFINE p == [q EXCEPT ![s] = q[s] + 1]
<1>6. p \in [OutStreams -> Nat]
    BY <1>0, <1>1
<1>7. ASSUME NEW t \in OutStreams
      PROVE  {r.n : r \in Of(T, t)} = 1 .. p[t] /\ Cardinality(Of(T, t)) = p[t]
    <2>1. CASE t = s
        <3>1. Of(T, t) = Of(R, s) \cup {row} /\ row \notin Of(R, s)
            BY <2>1, <1>2, <1>3 DEF Of
        <3>2. p[t] = q[s] + 1
            BY <2>1, <1>0
        <3>3. {r.n : r \in Of(R, s)} = 1 .. q[s] /\ Cardinality(Of(R, s)) = q[s]
            BY <1>0
        <3>4. {r.n : r \in Of(R, s) \cup {row}} = {r.n : r \in Of(R, s)} \cup {q[s] + 1}
            BY <1>2
        <3>5. (1 .. q[s]) \cup {q[s] + 1} = 1 .. (q[s] + 1)
            BY <1>1
        <3>6. IsFiniteSet(Of(R, s))
            BY <1>0, FS_Subset DEF Of
        <3>7. Cardinality(Of(R, s) \cup {row}) = Cardinality(Of(R, s)) + 1
            BY <3>1, <3>6, FS_AddElement
        <3> HIDE DEF T, p
        <3> QED BY <3>1, <3>2, <3>3, <3>4, <3>5, <3>7
    <2>2. CASE t # s
        <3>1. Of(T, t) = Of(R, t) /\ p[t] = q[t]
            BY <2>2, <1>0, <1>2 DEF Of
        <3> HIDE DEF T, p
        <3> QED BY <3>1, <1>0
    <2> QED BY <2>1, <2>2
<1> SUFFICES Counted(T, c + 1, b + size, p)
    OBVIOUS
<1> HIDE DEF T, p
<1> QED BY <1>0, <1>4, <1>5, <1>6, <1>7 DEF Counted

\* The rows of a stream are taken away with what they count.
LEMMA StreamDropped ==
    ASSUME NEW R, NEW c, NEW b, NEW q, Counted(R, c, b, q), NEW s \in OutStreams
    PROVE  /\ Counted(R \ Of(R, s), c - Cardinality(Of(R, s)), b - TotalSize(Of(R, s)), [q EXCEPT ![s] = 0])
<1> DEFINE A == Of(R, s)
           T == R \ A
           p == [q EXCEPT ![s] = 0]
<1>0. /\ R \in SUBSET OutRows /\ IsFiniteSet(R) /\ q \in [OutStreams -> Nat]
      /\ c = Cardinality(R) /\ b = TotalSize(R)
      /\ \A t \in OutStreams : {r.n : r \in Of(R, t)} = 1 .. q[t] /\ Cardinality(Of(R, t)) = q[t]
    BY DEF Counted
<1>1. A \in SUBSET R
    BY DEF Of
<1>2. TotalSize(T) = TotalSize(R) - TotalSize(A)
    <2> HIDE DEF A
    <2> QED BY <1>0, <1>1, SizeSplits
<1>3. IsFiniteSet(T) /\ Cardinality(T) = Cardinality(R) - Cardinality(A)
    <2>1. R \cap A = A
        BY <1>1
    <2>2. IsFiniteSet(R \ A) /\ Cardinality(R \ A) = Cardinality(R) - Cardinality(R \cap A)
        <3> HIDE DEF A
        <3> QED BY <1>0, FS_Difference, Zenon
    <2> HIDE DEF A
    <2> QED BY <2>1, <2>2
<1>4. p \in [OutStreams -> Nat]
    BY <1>0
<1>5. ASSUME NEW t \in OutStreams
      PROVE  {r.n : r \in Of(T, t)} = 1 .. p[t] /\ Cardinality(Of(T, t)) = p[t]
    <2>1. CASE t = s
        <3>1. Of(T, t) = {}
            BY <2>1 DEF Of
        <3>2. p[t] = 0
            BY <2>1, <1>0
        <3>3. {r.n : r \in {}} = 1 .. 0
            OBVIOUS
        <3> HIDE DEF T, p
        <3> QED BY <3>1, <3>2, <3>3, FS_EmptySet
    <2>2. CASE t # s
        <3>1. Of(T, t) = Of(R, t) /\ p[t] = q[t]
            BY <2>2, <1>0 DEF Of
        <3> HIDE DEF T, p
        <3> QED BY <3>1, <1>0
    <2> QED BY <2>1, <2>2
<1> SUFFICES Counted(T, c - Cardinality(A), b - TotalSize(A), p)
    OBVIOUS
<1>6. T \subseteq OutRows
    BY <1>0
<1> HIDE DEF T, p, A
<1> QED BY <1>0, <1>2, <1>3, <1>4, <1>5, <1>6 DEF Counted

\* The rows of a stream after a result was settled under a plan: all of them
\* gone or none, and one more or none.
LEMMA Settled ==
    ASSUME NEW R, NEW c, NEW b, NEW q, Counted(R, c, b, q), NEW s \in OutStreams,
           NEW gone, NEW size \in Nat, gone = {} \/ (gone = Of(R, s) /\ size > 0 /\ gone # {}),
           NEW n, n = (IF gone # {} THEN 0 ELSE q[s]) + (IF size > 0 THEN 1 ELSE 0),
           NEW new, new = {r \in {[s |-> s, n |-> n, size |-> size, k |-> NoOperation]} : size > 0}
    PROVE  Counted((R \ gone) \cup new, c - Cardinality(gone) + (IF size > 0 THEN 1 ELSE 0),
                   b - TotalSize(gone) + size, [q EXCEPT ![s] = n])
<1>0. /\ R \in SUBSET OutRows /\ IsFiniteSet(R) /\ q \in [OutStreams -> Nat]
      /\ c = Cardinality(R) /\ b = TotalSize(R)
    BY DEF Counted
<1>1. c \in Nat /\ b \in Nat
    BY <1>0, SizeSplits, FS_CardinalityType
<1>2. TotalSize({}) = 0 /\ Cardinality({}) = 0
    <2>1. [r \in {} |-> r.size] = [r \in {} |-> 0]
        OBVIOUS
    <2> QED BY <2>1, SumOfNone, FS_EmptySet DEF TotalSize
<1>3. CASE gone = {} /\ size = 0
    <2>1. (R \ gone) \cup new = R /\ [q EXCEPT ![s] = n] = q
        BY <1>0, <1>3
    <2>2. c - Cardinality(gone) + 0 = c /\ b - TotalSize(gone) + size = b
        BY <1>1, <1>2, <1>3
    <2>3. (IF size > 0 THEN 1 ELSE 0) = 0
        BY <1>3
    <2> QED BY <2>1, <2>2, <2>3, Zenon
<1>4. CASE gone = {} /\ size > 0
    <2>1. n = q[s] + 1 /\ (IF size > 0 THEN 1 ELSE 0) = 1
        BY <1>0, <1>4
    <2>2. PICK row : row = [s |-> s, n |-> q[s] + 1, size |-> size, k |-> NoOperation]
        OBVIOUS
    <2>3. Counted(R \cup {row}, c + 1, b + size, [q EXCEPT ![s] = q[s] + 1])
        BY <2>2, RowCounted
    <2>4. (R \ gone) \cup new = R \cup {row}
        BY <1>4, <2>1, <2>2
    <2>5. c - Cardinality(gone) + 1 = c + 1 /\ b - TotalSize(gone) + size = b + size
        BY <1>1, <1>2, <1>4
    <2> QED BY <2>1, <2>3, <2>4, <2>5, Zenon
<1>5. CASE gone = Of(R, s) /\ size > 0 /\ gone # {}
    <2>1. n = 0 + 1 /\ (IF size > 0 THEN 1 ELSE 0) = 1
        BY <1>5
    <2>2. PICK p : p = [q EXCEPT ![s] = 0]
        OBVIOUS
    <2>3. Counted(R \ gone, c - Cardinality(gone), b - TotalSize(gone), p)
        BY <1>5, <2>2, StreamDropped
    <2>4. p[s] = 0
        BY <1>0, <2>2
    <2>5. PICK row : row = [s |-> s, n |-> p[s] + 1, size |-> size, k |-> NoOperation]
        OBVIOUS
    <2>6. Counted((R \ gone) \cup {row}, c - Cardinality(gone) + 1, b - TotalSize(gone) + size, [p EXCEPT ![s] = p[s] + 1])
        BY <2>3, <2>5, RowCounted
    <2>7. (R \ gone) \cup new = (R \ gone) \cup {row}
        BY <1>5, <2>1, <2>4, <2>5
    <2>8. [p EXCEPT ![s] = p[s] + 1] = [q EXCEPT ![s] = n]
        BY <1>0, <2>1, <2>2, <2>4
    <2> QED BY <2>1, <2>6, <2>7, <2>8, Zenon
<1> QED BY <1>3, <1>4, <1>5

\* What the steps say of the rows, with the types of what requests append.
CountInv ==
    /\ Counted(yrows, ycount, ybytes, yseq)
    /\ \A k \in OutKeys : ywhat[k].s \in OutStreams /\ ywhat[k].size \in Nat

\* Without rows the counters are zero.
LEMMA NothingCounted == Counted({}, 0, 0, [s \in OutStreams |-> 0])
<1>1. [r \in {} |-> r.size] = [r \in {} |-> 0]
    OBVIOUS
<1>2. TotalSize({}) = 0 /\ Cardinality({}) = 0 /\ IsFiniteSet({})
    BY <1>1, SumOfNone, FS_EmptySet DEF TotalSize
<1>3. \A s \in OutStreams : Of({}, s) = {} /\ {r.n : r \in {}} = 1 .. 0
    BY DEF Of
<1> QED BY <1>2, <1>3 DEF Counted

\* A command without output satisfies the invariant.
LEMMA CountInitInv == OutputInit => CountInv
<1> SUFFICES ASSUME OutputInit PROVE CountInv
    OBVIOUS
<1>1. yrows = {} /\ ycount = 0 /\ ybytes = 0 /\ yseq = [s \in OutStreams |-> 0]
    BY DEF OutputInit
<1>2. \A k \in OutKeys : ywhat[k].s \in OutStreams /\ ywhat[k].size \in Nat
    BY DEF OutputInit, OutStreams
<1> QED BY <1>1, <1>2, NothingCounted DEF CountInv

\* The plans by which a stream is settled.
LEMMA SettlementPlans ==
    ASSUME Counted(yrows, ycount, ybytes, yseq), NEW s \in OutStreams, NEW size \in 0 .. OutChunk + 1,
           NEW p \in Settlements(s, size)
    PROVE  p.size \in Nat /\ (p.gone = {} \/ (p.gone = Of(yrows, s) /\ p.size > 0 /\ p.gone # {}))
<1>1. StreamRows(s) = Of(yrows, s) /\ Of(yrows, s) \in SUBSET yrows
    BY DEF StreamRows, Of
<1>2. TotalSize(StreamRows(s)) \in Nat
    BY <1>1, SizeSplits DEF Counted
<1>3. size \in Nat
    BY OutAssumption
<1> QED BY <1>1, <1>2, <1>3 DEF Settlements, Unmoved

\* Every chunk, retry and completion keeps it: a completion settles the two streams one
\* after the other, and the rows of the second are those of before.
LEMMA CountStep == CountInv /\ [OutputNext]_yvars => CountInv'
<1> SUFFICES ASSUME CountInv, [OutputNext]_yvars PROVE CountInv'
    OBVIOUS
<1>0. /\ Counted(yrows, ycount, ybytes, yseq)
      /\ \A k \in OutKeys : ywhat[k].s \in OutStreams /\ ywhat[k].size \in Nat
    BY DEF CountInv
<1>u. ASSUME UNCHANGED <<outputTable, ywhat>> PROVE CountInv'
    BY <1>0, <1>u DEF CountInv, outputTable
<1>a. ASSUME NEW s \in OutStreams, NEW size \in Nat, NEW k \in OutKeys \cup {NoOperation},
             AppendChunk(s, size, k), ywhat' = ywhat
      PROVE  CountInv'
    <2>1. PICK row : row = [s |-> s, n |-> yseq[s] + 1, size |-> size, k |-> k]
        OBVIOUS
    <2>2. Counted(yrows \cup {row}, ycount + 1, ybytes + size, [yseq EXCEPT ![s] = yseq[s] + 1])
        BY <1>0, <2>1, RowCounted
    <2>3. yrows' = yrows \cup {row} /\ ycount' = ycount + 1 /\ ybytes' = ybytes + size
          /\ yseq' = [yseq EXCEPT ![s] = yseq[s] + 1]
        BY <1>a, <2>1 DEF AppendChunk
    <2>4. Counted(yrows', ycount', ybytes', yseq')
        BY <2>2, <2>3, Zenon
    <2> QED BY <2>4, <1>0, <1>a DEF CountInv
<1>r. ASSUME ResetOutput, ywhat' = ywhat PROVE CountInv'
    <2>1. Counted(yrows', ycount', ybytes', yseq')
        BY <1>r, NothingCounted DEF ResetOutput
    <2> QED BY <2>1, <1>0, <1>r DEF CountInv
<1>e. ASSUME NEW status, NEW size \in Nat, EndCommand(status, size), ywhat' = ywhat PROVE CountInv'
    BY <1>a, <1>e DEF EndCommand, OutStreams
<1>1. CASE QueueCommand \/ ClaimRun
    BY <1>1, <1>u DEF QueueCommand, ClaimRun
<1>2. ASSUME NEW k \in OutKeys, NEW s \in OutStreams, NEW size \in OutSizes, SendOutput(k, s, size)
      PROVE  CountInv'
    <2>1. UNCHANGED outputTable /\ ywhat' = [ywhat EXCEPT ![k] = [t |-> ytries, s |-> s, size |-> size]]
        BY <1>2 DEF SendOutput
    <2>2. size \in Nat
        BY OutAssumption DEF OutSizes
    <2>3. \A j \in OutKeys : ywhat'[j].s \in OutStreams /\ ywhat'[j].size \in Nat
        BY <1>0, <2>1, <2>2
    <2> QED BY <1>0, <2>1, <2>3 DEF CountInv, outputTable
<1>3. ASSUME NEW k \in OutKeys, NEW c \in Copies, AppendChecks(k, c) \/ AppendLooks(k, c)
      PROVE  CountInv'
    BY <1>3, <1>u DEF AppendChecks, AppendLooks
<1>4. ASSUME NEW k \in OutKeys, NEW c \in Copies, AppendWrites(k, c)
      PROVE  CountInv'
    BY <1>4, <1>0, <1>u, <1>a DEF AppendWrites
<1>5. ASSUME NEW out \in 0 .. OutChunk + 1, NEW err \in 0 .. OutChunk + 1, CompleteCommand(out, err)
      PROVE  CountInv'
    <2> DEFINE c(p) == CountAfter(p, ycount) + Adds(p)
               b(p) == BytesAfter(p, ybytes) + p.size
    <2>0. "stdout" \in OutStreams /\ "stderr" \in OutStreams
        BY DEF OutStreams
    <2>1. PICK p \in Settlements("stdout", out), q \in Settlements("stderr", err) :
             /\ yrows' = (yrows \ (p.gone \cup q.gone)) \cup NewRow(p, "stdout") \cup NewRow(q, "stderr")
             /\ ycount' = CountAfter(q, c(p)) + Adds(q)
             /\ ybytes' = BytesAfter(q, b(p)) + q.size
             /\ yseq' = [yseq EXCEPT !["stdout"] = SeqAfter(p, "stdout"), !["stderr"] = SeqAfter(q, "stderr")]
        BY <1>5 DEF CompleteCommand
    <2>2. ywhat' = ywhat
        BY <1>5 DEF CompleteCommand
    <2>3. p.size \in Nat /\ (p.gone = {} \/ (p.gone = Of(yrows, "stdout") /\ p.size > 0 /\ p.gone # {}))
        BY <1>0, <2>0, SettlementPlans
    <2>4. q.size \in Nat /\ (q.gone = {} \/ (q.gone = Of(yrows, "stderr") /\ q.size > 0 /\ q.gone # {}))
        BY <1>0, <2>0, SettlementPlans
    <2>5. PICK R, seq : /\ R = (yrows \ p.gone) \cup NewRow(p, "stdout")
                        /\ seq = [yseq EXCEPT !["stdout"] = SeqAfter(p, "stdout")]
        OBVIOUS
    <2>6. Counted(R, c(p), b(p), seq)
        BY <1>0, <2>3, <2>5, Settled DEF NewRow, SeqAfter, Adds, CountAfter, BytesAfter, FreedBytes, OutStreams
    <2>7. Of(R, "stderr") = Of(yrows, "stderr") /\ seq["stderr"] = yseq["stderr"]
        BY <1>0, <2>3, <2>5 DEF Of, NewRow, Counted, OutStreams
    <2>8. Counted((R \ q.gone) \cup NewRow(q, "stderr"), CountAfter(q, c(p)) + Adds(q), BytesAfter(q, b(p)) + q.size,
                  [seq EXCEPT !["stderr"] = SeqAfter(q, "stderr")])
        BY <2>4, <2>6, <2>7, Settled DEF NewRow, SeqAfter, Adds, CountAfter, BytesAfter, FreedBytes, OutStreams
    <2>9a. \A r \in q.gone : r.s = "stderr"
        BY <2>4 DEF Of
    <2>9b. \A r \in NewRow(p, "stdout") : r.s = "stdout"
        BY DEF NewRow
    <2>9c. NewRow(p, "stdout") \cap q.gone = {}
        BY <2>9a, <2>9b
    <2>9. (R \ q.gone) \cup NewRow(q, "stderr") = yrows'
        <3>1. PICK A, B, G, H : A = NewRow(p, "stdout") /\ B = NewRow(q, "stderr") /\ G = p.gone /\ H = q.gone
            OBVIOUS
        <3>2. yrows' = (yrows \ (G \cup H)) \cup A \cup B /\ R = (yrows \ G) \cup A /\ A \cap H = {}
            BY <2>1, <2>5, <2>9c, <3>1, Zenon
        <3>3. (R \ H) \cup B = yrows'
            BY ONLY <3>2
        <3> QED BY <3>1, <3>3, Zenon
    <2>10. [seq EXCEPT !["stderr"] = SeqAfter(q, "stderr")] = yseq'
        <3>1. PICK x, y : x = SeqAfter(p, "stdout") /\ y = SeqAfter(q, "stderr")
            OBVIOUS
        <3>2. yseq' = [yseq EXCEPT !["stdout"] = x, !["stderr"] = y] /\ seq = [yseq EXCEPT !["stdout"] = x]
            BY <2>1, <2>5, <3>1, Zenon
        <3>3. [seq EXCEPT !["stderr"] = y] = yseq'
            BY ONLY <3>2
        <3> QED BY <3>1, <3>3, Zenon
    <2> QED BY <1>0, <2>1, <2>2, <2>8, <2>9, <2>10 DEF CountInv
<1>6. ASSUME RetryCommand, ywhat' = ywhat PROVE CountInv'
    BY <1>6, <1>r DEF RetryCommand
<1>7. ASSUME NEW retry \in BOOLEAN, FailCommand(retry, 1) PROVE CountInv'
    BY <1>7, <1>6, <1>e DEF FailCommand
<1>8. CASE ExpireCommand
    BY <1>8, <1>6, <1>e DEF ExpireCommand
<1>9. CASE UNCHANGED yvars
    BY <1>9, <1>u DEF yvars, outputTable
<1> QED BY <1>1, <1>2, <1>3, <1>4, <1>5, <1>7, <1>8, <1>9 DEF OutputNext, CommandNext

\* The counters commands.rs and leases.rs keep in the command's row are those of its chunks,
\* and the chunks of a stream are numbered without a gap, for any number of keys and bytes.
THEOREM CountersAgree == OutputSpec => []CountersMatchRows
<1>1. CountInv => CountersMatchRows
    BY DEF CountInv, Counted, CountersMatchRows, StreamRows, Of
<1> QED BY <1>1, CountInitInv, CountStep, PTL DEF OutputSpec

-----------------------------------------------------------------------------
(* The request gate. *)

USE GateAssumption

\* The requests that claimed the key and whose handler has not run.
Before == {"limit", "quota", "handler"}

GateShape ==
  /\ istate \in {"none", "processing", "completed"}
  /\ istored \in GateRequests \cup {NoRequest}
  /\ iphase \in [GateRequests -> PastClaim \cup {"new", "waiting", "done"}]
  /\ ianswer \in [GateRequests -> GateRequests \cup {NoRequest}]
  /\ ilost \in [GateRequests -> {"no", "swept", "taken"}]
  /\ ireleased \in Nat

\* A record is the claim of a request that has not lost it, and a request past its
\* claim that has not lost it owns the record.  Whoever else writes to the record
\* has lost its own, and the first to lose one lost it to the sweep.
GateOwned ==
  /\ istate # "none" => iowner \in GateRequests /\ iprint = PrintOf[iowner] /\ ilost[iowner] = "no"
  /\ \A r \in GateRequests : iphase[r] \in PastClaim /\ ilost[r] = "no" => istate # "none" /\ iowner = r
  /\ \A r \in GateRequests : iphase[r] \in {"new", "waiting"} => ilost[r] = "no"
  /\ istate = "completed" => istored \in GateRequests /\ (PrintOf[istored] = iprint \/ ilost[istored] # "no")
  /\ \A r \in GateRequests : ianswer[r] # NoRequest /\ PrintOf[ianswer[r]] # PrintOf[r] => ilost[ianswer[r]] # "no"
  /\ \A r \in GateRequests : ilost[r] = "taken" => \E q \in GateRequests : ilost[q] = "swept"

\* Every claim of the key is worth one mutation: the claims are the releases and
\* the record that is there.
Worth == iran \cup {r \in GateRequests : iphase[r] \in Before}
GateCounted ==
  /\ IsFiniteSet(Worth)
  /\ Cardinality(Worth) <= ireleased + (IF istate = "none" THEN 0 ELSE 1)

GateInv == GateShape /\ GateOwned /\ GateCounted

\* No request is past its claim at the start.
LEMMA GateInitInv == GateInit => GateInv
<1> SUFFICES ASSUME GateInit PROVE GateInv
    OBVIOUS
<1>1. Worth = {}
    BY DEF GateInit, Worth, Before
<1>2. IsFiniteSet(Worth) /\ Cardinality(Worth) = 0
    BY <1>1, FS_EmptySet, Zenon
<1> QED
    BY <1>2 DEF GateInit, GateInv, GateShape, GateOwned, GateCounted, PastClaim

\* What a step that starts no claim leaves of the mutations the claims are worth.
LEMMA WorthShrinks ==
  ASSUME GateInv, Worth' \subseteq Worth, ireleased \in Nat, ireleased' \in Nat,
         ireleased + (IF istate = "none" THEN 0 ELSE 1) <= ireleased' + (IF istate' = "none" THEN 0 ELSE 1)
  PROVE  GateCounted'
<1>1. IsFiniteSet(Worth') /\ Cardinality(Worth') <= Cardinality(Worth)
    BY FS_Subset DEF GateInv, GateCounted
<1>2. Cardinality(Worth') \in Nat /\ Cardinality(Worth) \in Nat
    BY <1>1, FS_CardinalityType DEF GateInv, GateCounted
<1> DEFINE n == IF istate = "none" THEN 0 ELSE 1
           m == IF istate' = "none" THEN 0 ELSE 1
<1>3. n \in Nat /\ m \in Nat /\ ireleased + n <= ireleased' + m
    OBVIOUS
<1>4. Cardinality(Worth) <= ireleased + n
    BY DEF GateInv, GateCounted
<1>5. Cardinality(Worth') <= ireleased' + m
  <2> HIDE DEF n, m
  <2>1. \A a, b, c, d, i, j \in Nat : a <= b /\ b <= c + i /\ c + i <= d + j => a <= d + j
      OBVIOUS
  <2> QED
      BY <1>1, <1>2, <1>3, <1>4, <2>1, Zenon
<1> QED
    BY <1>1, <1>5 DEF GateCounted

\* Every step of a gated request keeps the invariant.
LEMMA GateStep == GateInv /\ [GateNext]_ivars => GateInv'
<1> SUFFICES ASSUME GateInv, [GateNext]_ivars PROVE GateInv'
    OBVIOUS
<1> USE DEF GateShape, PastClaim, IStep, irecord, ilimits
<1>s. GateShape
    BY DEF GateInv
<1>1. ASSUME NEW r \in GateRequests, ClaimKey(r) PROVE GateInv'
  <2>1. GateShape' /\ GateOwned'
      BY <1>1 DEF ClaimKey, GateInv, GateOwned
  <2>2. CASE istate = "none"
    <3>1. Worth' = Worth \cup {r}
        BY <1>1, <2>2 DEF ClaimKey, Worth, Before, GateInv
    <3>2. /\ IsFiniteSet(Worth \cup {r})
          /\ \/ Cardinality(Worth \cup {r}) = Cardinality(Worth)
             \/ Cardinality(Worth \cup {r}) = Cardinality(Worth) + 1
        BY FS_AddElement, Zenon DEF GateInv, GateCounted
    <3>3. IsFiniteSet(Worth') /\ (Cardinality(Worth') = Cardinality(Worth) \/ Cardinality(Worth') = Cardinality(Worth) + 1)
        BY <3>1, <3>2, Zenon
    <3>4. Cardinality(Worth) \in Nat
        BY FS_CardinalityType DEF GateInv, GateCounted
    <3> QED
        BY <1>1, <2>1, <2>2, <3>3, <3>4 DEF ClaimKey, GateInv, GateCounted
  <2>3. CASE istate # "none"
    <3>1. Worth' \subseteq Worth
        BY <1>1, <2>3 DEF ClaimKey, Worth, Before, GateInv
    <3>2. GateCounted'
        BY <1>1, <2>3, <3>1, WorthShrinks DEF ClaimKey, GateInv
    <3> QED
        BY <2>1, <3>2 DEF GateInv
  <2> QED
      BY <2>2, <2>3
<1>2. ASSUME NEW r \in GateRequests, NEW k \in Kinds,
             TakeQuota(r, k, "limit", "quota") \/ TakeQuota(r, k, "quota", "handler")
      PROVE GateInv'
  <2>1. GateShape' /\ GateOwned'
      BY <1>2 DEF TakeQuota, GateInv, GateOwned
  <2>2. Worth' \subseteq Worth
      BY <1>2 DEF TakeQuota, Worth, Before, GateInv
  <2>3. GateCounted'
      BY <1>2, <2>2, WorthShrinks DEF TakeQuota, GateInv
  <2> QED
      BY <2>1, <2>3 DEF GateInv
<1>3. ASSUME NEW r \in GateRequests, RunHandler(r) PROVE GateInv'
  <2>1. GateShape' /\ GateOwned'
      BY <1>3 DEF RunHandler, GateInv, GateOwned
  <2>2. Worth' \subseteq Worth
      BY <1>3 DEF RunHandler, Worth, Before, GateInv
  <2>3. GateCounted'
      BY <1>3, <2>2, WorthShrinks DEF RunHandler, GateInv
  <2> QED
      BY <2>1, <2>3 DEF GateInv
<1>4. ASSUME NEW r \in GateRequests, StoreAnswer(r) \/ StoreFails(r) PROVE GateInv'
  <2>1. GateShape' /\ GateOwned'
      BY <1>4 DEF StoreAnswer, StoreFails, StoresResponse, Completes, GateInv, GateOwned
  <2>2. Worth' \subseteq Worth
      BY <1>4 DEF StoreAnswer, StoreFails, Worth, Before, GateInv
  <2>3. GateCounted'
      BY <1>4, <2>2, WorthShrinks DEF StoreAnswer, StoreFails, StoresResponse, Completes, GateInv
  <2> QED
      BY <2>1, <2>3 DEF GateInv
<1>6. ASSUME NEW r \in GateRequests, GiveUpKey(r) PROVE GateInv'
  <2>1. GateShape'
      BY <1>6 DEF GiveUpKey, Abandons, RemoveRecord, GateInv, GateOwned
  <2>2. GateOwned'
    <3>1. CASE UNCHANGED <<irecord, ilost, ireleased>>
        BY <1>6, <3>1 DEF GiveUpKey, GateInv, GateOwned
    <3>2. CASE istate = "processing" /\ RemoveRecord(r, "taken")
      <4>1. CASE iowner = r
          BY <1>6, <3>2, <4>1 DEF GiveUpKey, RemoveRecord, GateInv, GateOwned
      <4>2. CASE iowner # r
        <5>1. ilost[r] # "no"
            BY <1>6, <4>2 DEF GiveUpKey, GateInv, GateOwned
        <5>2. PICK q \in GateRequests : ilost[q] = "swept"
            BY <5>1 DEF GateInv, GateOwned
        <5>3. q # iowner /\ ilost'[q] = "swept"
            BY <3>2, <5>2 DEF RemoveRecord, GateInv, GateOwned
        <5>4. \A p \in GateRequests : ilost'[p] = "no" => ilost[p] = "no" /\ (p = iowner => iphase[p] \notin PastClaim)
            BY <3>2, <4>2 DEF RemoveRecord, GateInv, GateOwned
        <5> QED
            BY <1>6, <3>2, <5>3, <5>4 DEF GiveUpKey, RemoveRecord, GateInv, GateOwned
      <4> QED
          BY <4>1, <4>2
    <3> QED
        BY <1>6, <3>1, <3>2 DEF GiveUpKey, Abandons
  <2>3. Worth' \subseteq Worth
      BY <1>6 DEF GiveUpKey, Worth, Before, GateInv
  <2>4. GateCounted'
      BY <1>6, <2>3, WorthShrinks DEF GiveUpKey, Abandons, RemoveRecord, GateInv
  <2> QED
      BY <2>1, <2>2, <2>4 DEF GateInv
<1>7. ASSUME NEW r \in GateRequests, PollRecord(r) \/ DropRequest(r) PROVE GateInv'
  <2>1. GateShape' /\ GateOwned'
      BY <1>7 DEF PollRecord, Replays, DropRequest, GateInv, GateOwned
  <2>2. Worth' \subseteq Worth
      BY <1>7 DEF PollRecord, DropRequest, Worth, Before, GateInv
  <2>3. GateCounted'
      BY <1>7, <2>2, WorthShrinks DEF PollRecord, DropRequest, GateInv
  <2> QED
      BY <2>1, <2>3 DEF GateInv
<1>9. CASE ExpireRecord
  <2>1. GateShape'
      BY <1>9 DEF ExpireRecord, RemoveRecord, GateInv, GateOwned
  <2>2. GateOwned'
    <3>1. \A p \in GateRequests : ilost'[p] = "no" => ilost[p] = "no" /\ (p = iowner => iphase[p] \notin PastClaim)
        BY <1>9 DEF ExpireRecord, RemoveRecord, GateInv, GateOwned
    <3>2. \A p \in GateRequests : ilost[p] # "no" => ilost'[p] = ilost[p]
        BY <1>9 DEF ExpireRecord, RemoveRecord, GateInv, GateOwned
    <3> QED
        BY <1>9, <3>1, <3>2 DEF ExpireRecord, RemoveRecord, GateInv, GateOwned
  <2>3. Worth' \subseteq Worth
      BY <1>9 DEF ExpireRecord, Worth, Before, GateInv
  <2>4. GateCounted'
      BY <1>9, <2>3, WorthShrinks DEF ExpireRecord, RemoveRecord, GateInv
  <2> QED
      BY <2>1, <2>2, <2>4 DEF GateInv
<1>10. ASSUME \/ \E n \in 1..QuotaMax : PutPolicy(n)
              \/ \E k \in Kinds : WindowEnds(k)
              \/ UNCHANGED ivars
       PROVE GateInv'
  <2>1. UNCHANGED <<irecord, iphase, ianswer, ilost, iran, ireleased>>
      BY <1>10 DEF PutPolicy, WindowEnds, ivars
  <2> QED
      BY <2>1 DEF GateInv, GateOwned, GateCounted, Worth, Before
<1> QED
    BY <1>1, <1>2, <1>3, <1>4, <1>6, <1>7, <1>9, <1>10 DEF GateNext, Kinds

\* The invariant gives the property: a mutation has been paid for by a claim of the key.
LEMMA GateImplies == GateInv => OneKeyOneMutation
<1> SUFFICES ASSUME GateInv PROVE OneKeyOneMutation
    OBVIOUS
<1> DEFINE S == {r \in GateRequests : iphase[r] \in {"limit", "quota", "handler"} /\ ilost[r] = "no"}
<1>1. Cardinality(S) <= 1
  <2>1. CASE S = {}
      BY <2>1, FS_EmptySet
  <2>2. CASE S # {}
    <3>1. PICK r \in S : TRUE
        BY <2>2
    <3>2. S = {r}
        BY <3>1 DEF GateInv, GateOwned, PastClaim
    <3>3. Cardinality({r}) = 1
        BY FS_Singleton, Zenon
    <3>4. Cardinality(S) = 1
        BY <3>2, <3>3, Zenon
    <3> QED
        BY <3>4
  <2> QED
      BY <2>1, <2>2
<1>2. Cardinality(iran) <= 1 + ireleased
  <2>1. iran \subseteq Worth
      BY DEF Worth
  <2>2. IsFiniteSet(iran) /\ Cardinality(iran) <= Cardinality(Worth)
      BY <2>1, FS_Subset DEF GateInv, GateCounted
  <2>3. Cardinality(iran) \in Nat /\ Cardinality(Worth) \in Nat
      BY <2>2, FS_CardinalityType DEF GateInv, GateCounted
  <2> QED
      BY <2>2, <2>3 DEF GateInv, GateShape, GateCounted
<1> QED
    BY <1>1, <1>2 DEF GateInv, GateOwned, OneKeyOneMutation

\* A key of idempotency.rs is worth one mutation for each time it was given up or swept, and
\* only a request that has outlived its claim runs beside another or answers for it, for any
\* number of requests.
THEOREM KeyMutatesOnce == GateSpec => []OneKeyOneMutation
BY GateInitInv, GateStep, GateImplies, PTL DEF GateSpec
=============================================================================
