-------------------------- MODULE SterilePoolProofs --------------------------
(***************************************************************************)
(* Proofs about the sterile pool: the inductive invariant, the truth of    *)
(* provider_absent, the hard target, and the refinement of the one-use     *)
(* promise of SterileCell.                                                 *)
(***************************************************************************)
EXTENDS SterilePool, FiniteSetTheorems, TLAPS

\* A lease that is named is a lease: of a leased cell, of a teardown that is to
\* destroy, and of the stop that carries it.
LeasesNamed ==
  \A c \in Cells :
    /\ cell[c] = "leased" => cellLease[c] # NoClaim
    /\ wanted[c] = "destroyed" => memberLease[c] # NoClaim
    /\ member[c] = "cleanup_pending" => wanted[c] # "none"
    /\ fence[c].disposition = "destroyed" => fence[c].lease # NoClaim

\* How far a member, its jobs and its sandbox can be apart.
MembersInStep ==
  \A c \in Cells :
    /\ member[c] # "none" => sandbox[c] # "none"
    /\ stop[c] # "none" => sandbox[c] \in {"archiving", "archived"}
    /\ provision[c] = "active" => member[c] \in {"provisioning", "quarantined"} /\ sandbox[c] = "planning"
    /\ cell[c] \in {"none", "ready"} => cellLease[c] = NoClaim
    /\ member[c] = "provisioning" => cellLease[c] = NoClaim
    /\ member[c] \in Spent \cup {"provisioning"} => cell[c] # "leased"

\* A release is of a cell that was leased.
ReleasesOfLeased == \A r \in releasing : cellLease[r.cell] # NoClaim

\* The inductive invariant.
PoolInv == TypeOK /\ LeasesNamed /\ MembersInStep /\ ReleasesOfLeased /\ AbsentMeansGone

\* The empty pool satisfies the invariant.
LEMMA PoolInitInv == Init => PoolInv
<1> SUFFICES ASSUME Init PROVE PoolInv
    OBVIOUS
<1>1. TypeOK
    BY Zenon DEF Init, TypeOK, MemberState, CellState, SandboxState, Spent, Disposition, Plain
<1>2. LeasesNamed /\ MembersInStep /\ ReleasesOfLeased /\ AbsentMeansGone
    BY DEF Init, LeasesNamed, MembersInStep, ReleasesOfLeased, AbsentMeansGone, Plain, Spent
<1> QED
    BY <1>1, <1>2 DEF PoolInv

\* An empty claim has one of the reasons the code names.
LEMMA NoLeaseReasonType == \A sick : NoLeaseReason(sick) \in NoLeaseReasons
BY DEF NoLeaseReason, NoLeaseReasons

\* Reconciliation keeps the invariant.
LEMMA ReconcileInv ==
  ASSUME PoolInv, NEW sick, NEW synced \in {LeaseSync, {}}, NEW gone \in {QuarantineSync, {}},
         NEW new \in SUBSET Unused, Reconcile(sick, synced, gone, new)
  PROVE  PoolInv'
<1> DEFINE ready == ExpiredReady(sick, synced)
           leased == ExpiredLeased(synced)
           all == CleanupPending \cup ready \cup leased
           holder(c) == IF c \in synced THEN cellLease[c] ELSE memberLease[c]
<1> USE DEF memberVars, cellVars, jobVars, timeVars
<1>1. /\ stop' = [c \in Cells |-> IF c \in all THEN "queued" ELSE stop[c]]
      /\ fence' = [c \in Cells |->
           IF c \in CleanupPending THEN CleanupFence(c)
           ELSE IF c \in ready THEN ReadyFence
           ELSE IF c \in leased THEN LeasedFence(holder(c))
           ELSE fence[c]]
      /\ stopRef' = [c \in Cells |-> IF c \in all THEN "active" ELSE stopRef[c]]
      /\ wanted' = [c \in Cells |-> IF c \in ready \cup leased THEN "quarantined" ELSE wanted[c]]
      /\ memberLease' = [c \in Cells |-> holder(c)]
      /\ member' = [c \in Cells |-> IF c \in all THEN "stopping"
                                    ELSE IF c \in gone THEN "quarantined"
                                    ELSE IF c \in synced THEN "leased"
                                    ELSE IF c \in new THEN "provisioning"
                                    ELSE member[c]]
      /\ cell' = [c \in Cells |-> IF c \in {d \in leased : ~StopLegal(d) /\ cell[d] = "leased"}
                                  THEN "quarantined" ELSE cell[c]]
      /\ sandbox' = [c \in Cells |-> IF c \in new THEN "planning"
                                     ELSE IF c \in all /\ StopLegal(c) THEN "archiving"
                                     ELSE sandbox[c]]
      /\ provision' = [c \in Cells |-> IF c \in new THEN "active" ELSE provision[c]]
      /\ UNCHANGED <<absent, cellLease, stopFailed, runtime, timeVars, empty, releasing>>
    BY DEF Reconcile, Set, PoolInv, TypeOK
<1>2. /\ CleanupPending = {c \in Cells : member[c] = "cleanup_pending" /\ stopRef[c] \in {"none", "failed", "dead"}}
      /\ \A c \in ready : c \in Cells /\ member[c] = "ready"
      /\ \A c \in leased : c \in Cells /\ (member[c] = "leased" \/ c \in synced)
      /\ \A c \in synced : c \in Cells /\ member[c] = "ready" /\ cell[c] = "leased"
      /\ \A c \in gone : c \in Cells /\ member[c] = "provisioning" /\ cell[c] = "quarantined"
      /\ \A c \in new : c \in Cells /\ sandbox[c] = "none" /\ cell[c] = "none"
      /\ \A c \in ready : StopLegal(c)
    BY DEF CleanupPending, ExpiredReady, ExpiredLeased, LeaseSync, QuarantineSync, Unused, Reconcile
<1> HIDE DEF ready, leased, all
<1>a. \A c : c \in all <=> c \in CleanupPending \/ c \in ready \/ c \in leased
    BY DEF all
<1>3. \A c \in Cells : holder(c) \in Claims \cup {NoClaim} /\ (memberLease[c] # NoClaim => holder(c) # NoClaim)
    BY <1>2 DEF PoolInv, TypeOK, LeasesNamed
<1>4. \A c \in Cells : fence'[c] \in Fences \cup {Plain} /\ (fence'[c].disposition = "destroyed" => fence'[c].lease # NoClaim)
  <2> SUFFICES ASSUME NEW c \in Cells
               PROVE  fence'[c] \in Fences \cup {Plain} /\ (fence'[c].disposition = "destroyed" => fence'[c].lease # NoClaim)
      OBVIOUS
  <2>1. CASE c \in CleanupPending
      BY <1>1, <1>2, <2>1 DEF CleanupFence, Fences, PoolInv, TypeOK, LeasesNamed
  <2>2. CASE c \notin CleanupPending /\ c \in ready
      BY <1>1, <2>2 DEF ReadyFence, Fences, Disposition
  <2>3. CASE c \notin CleanupPending /\ c \notin ready /\ c \in leased
      BY <1>1, <1>3, <2>3 DEF LeasedFence, Fences, Disposition
  <2>4. CASE c \notin CleanupPending /\ c \notin ready /\ c \notin leased
      BY <1>1, <2>4 DEF PoolInv, TypeOK, LeasesNamed
  <2> QED
      BY <2>1, <2>2, <2>3, <2>4
<1>5. TypeOK'
    BY <1>1, <1>3, <1>4 DEF PoolInv, TypeOK, MemberState, CellState, SandboxState, Spent, Disposition
<1>6. LeasesNamed'
    BY <1>1, <1>2, <1>3, <1>4, <1>a DEF PoolInv, TypeOK, LeasesNamed
<1>7. MembersInStep'
  <2> SUFFICES ASSUME NEW c \in Cells
               PROVE  /\ member'[c] # "none" => sandbox'[c] # "none"
                      /\ stop'[c] # "none" => sandbox'[c] \in {"archiving", "archived"}
                      /\ provision'[c] = "active" => member'[c] \in {"provisioning", "quarantined"}
                                                    /\ sandbox'[c] = "planning"
                      /\ cell'[c] \in {"none", "ready"} => cellLease'[c] = NoClaim
                      /\ member'[c] = "provisioning" => cellLease'[c] = NoClaim
                      /\ member'[c] \in Spent \cup {"provisioning"} => cell'[c] # "leased"
      BY DEF MembersInStep
  <2> USE DEF PoolInv, TypeOK, MembersInStep
  <2>1. CASE c \in all
    <3>1. /\ stop'[c] = "queued" /\ member'[c] = "stopping"
          /\ sandbox[c] # "none" /\ c \notin new
          /\ sandbox'[c] = IF StopLegal(c) THEN "archiving" ELSE sandbox[c]
          /\ provision'[c] = provision[c] /\ cellLease'[c] = cellLease[c]
          /\ cell'[c] \in {cell[c], "quarantined"}
        BY <1>1, <1>2, <1>a, <2>1
    <3>2. provision[c] # "active"
        BY <1>2, <1>a, <2>1
    <3> QED
        BY <3>1, <3>2 DEF StopLegal, SandboxState, Spent
  <2>2. CASE c \notin all /\ c \in new
    <3>1. /\ stop'[c] = stop[c] /\ stop[c] = "none" /\ member[c] = "none"
          /\ c \notin gone /\ c \notin synced
          /\ member'[c] = "provisioning" /\ sandbox'[c] = "planning"
          /\ cell'[c] = cell[c] /\ cell[c] = "none" /\ cellLease'[c] = cellLease[c]
        BY <1>1, <1>2, <1>a, <2>2
    <3> QED
        BY <3>1 DEF Spent
  <2>3. CASE c \notin all /\ c \notin new
    <3>1. /\ stop'[c] = stop[c] /\ sandbox'[c] = sandbox[c] /\ provision'[c] = provision[c]
          /\ cell'[c] = cell[c] /\ cellLease'[c] = cellLease[c]
          /\ \/ member'[c] = member[c]
             \/ member'[c] = "leased" /\ member[c] = "ready"
             \/ member'[c] = "quarantined" /\ member[c] = "provisioning" /\ cell[c] = "quarantined"
        BY <1>1, <1>2, <1>a, <2>3
    <3> QED
        BY <3>1 DEF Spent
  <2> QED
      BY <2>1, <2>2, <2>3
<1>8. ReleasesOfLeased'
    BY <1>1 DEF PoolInv, ReleasesOfLeased
<1>9. AbsentMeansGone'
    BY <1>1, <1>2, <1>a DEF PoolInv, TypeOK, AbsentMeansGone, Spent, StopLegal
<1> QED
    BY <1>5, <1>6, <1>7, <1>8, <1>9 DEF PoolInv

\* The actions of the provision job keep the invariant.
LEMMA ProvisioningInv ==
  ASSUME PoolInv, NEW c \in Cells, CreateRuntime(c) \/ AdmitProvisionedCell(c) \/ FailProvision(c)
  PROVE  PoolInv'
<1> USE DEF memberVars, cellVars, jobVars, timeVars
<1>1. CASE CreateRuntime(c)
  <2>1. /\ runtime' \in [Cells -> BOOLEAN]
        /\ \A d \in Cells : d # c => runtime'[d] = runtime[d]
      BY <1>1, Zenon DEF CreateRuntime, PoolInv, TypeOK
  <2>2. TypeOK' /\ LeasesNamed' /\ MembersInStep' /\ ReleasesOfLeased'
      BY <1>1, <2>1 DEF CreateRuntime, PoolInv, TypeOK, LeasesNamed, MembersInStep, ReleasesOfLeased
  <2>3. ~absent[c]
      BY <1>1 DEF CreateRuntime, PoolInv, MembersInStep, AbsentMeansGone
  <2>4. AbsentMeansGone'
      BY <1>1, <2>1, <2>3 DEF CreateRuntime, PoolInv, AbsentMeansGone
  <2> QED
      BY <2>2, <2>4 DEF PoolInv
<1>2. CASE AdmitProvisionedCell(c)
  <2>1. TypeOK'
      BY <1>2 DEF AdmitProvisionedCell, PoolInv, TypeOK, MemberState, CellState, SandboxState
  <2>2. LeasesNamed' /\ ReleasesOfLeased'
      BY <1>2 DEF AdmitProvisionedCell, PoolInv, TypeOK, LeasesNamed, ReleasesOfLeased
  <2>3. MembersInStep'
      BY <1>2 DEF AdmitProvisionedCell, PoolInv, TypeOK, MembersInStep, Spent
  <2>4. AbsentMeansGone'
      BY <1>2 DEF AdmitProvisionedCell, PoolInv, TypeOK, AbsentMeansGone, Spent
  <2> QED
      BY <2>1, <2>2, <2>3, <2>4 DEF PoolInv
<1>3. CASE FailProvision(c)
  <2> USE <1>3 DEF FailProvision, QuarantineRecord
  <2>1. TypeOK'
      BY DEF PoolInv, TypeOK, MemberState, CellState, SandboxState, Spent
  <2>2. LeasesNamed' /\ ReleasesOfLeased'
      BY DEF PoolInv, TypeOK, LeasesNamed, ReleasesOfLeased
  <2>3. MembersInStep'
      BY DEF PoolInv, TypeOK, MembersInStep, Spent, CellState
  <2>4. AbsentMeansGone'
      BY DEF PoolInv, TypeOK, MembersInStep, AbsentMeansGone, Spent
  <2> QED
      BY <2>1, <2>2, <2>3, <2>4 DEF PoolInv
<1> QED
    BY <1>1, <1>2, <1>3

\* The actions of claims keep the invariant.
LEMMA TenantInv ==
  ASSUME PoolInv, NEW k \in Claims, NEW c \in Cells, NEW d \in Disposition,
         ClaimCell(k, c) \/ RecoverClaim(k, c) \/ ValidateLease(c, k, d)
  PROVE  PoolInv'
<1> USE DEF memberVars, cellVars, jobVars, timeVars
<1>n. k # NoClaim
    BY SterilePoolAssumption
<1>2. CASE ClaimCell(k, c)
  <2> USE <1>2 DEF ClaimCell, RecordPoolClaim, Selectable
  <2>1. TypeOK'
      BY DEF PoolInv, TypeOK, MemberState, CellState
  <2>2. LeasesNamed' /\ ReleasesOfLeased'
      BY <1>n DEF PoolInv, TypeOK, LeasesNamed, ReleasesOfLeased
  <2>3. MembersInStep'
      BY DEF PoolInv, TypeOK, MembersInStep, Spent
  <2>4. AbsentMeansGone'
      BY DEF PoolInv, TypeOK, AbsentMeansGone, Spent
  <2> QED
      BY <2>1, <2>2, <2>3, <2>4 DEF PoolInv
<1>3. CASE RecoverClaim(k, c)
    BY <1>3 DEF RecoverClaim, PoolInv, TypeOK, LeasesNamed, MembersInStep, ReleasesOfLeased, AbsentMeansGone,
       CellState, Spent
<1>4. CASE ValidateLease(c, k, d)
  <2> USE <1>4 DEF ValidateLease
  <2>1. TypeOK'
      BY DEF PoolInv, TypeOK, CellState, Spent
  <2>2. LeasesNamed' /\ ReleasesOfLeased'
      BY <1>n DEF PoolInv, TypeOK, LeasesNamed, ReleasesOfLeased
  <2>3. MembersInStep' /\ AbsentMeansGone'
      BY DEF PoolInv, TypeOK, MembersInStep, AbsentMeansGone, Spent
  <2> QED
      BY <2>1, <2>2, <2>3 DEF PoolInv
<1> QED
    BY <1>2, <1>3, <1>4

\* What mark_pool_cleanup_pending keeps, whatever else its caller changes: the
\* cell is quarantined unless it is spent, and the member is unless it ended.
LEMMA MarkFacts ==
  ASSUME PoolInv, NEW c \in Cells, NEW ref \in {"none", "active", "succeeded", "failed", "dead"},
         MarkCleanupPending(c, ref)
  PROVE  /\ member' \in [Cells -> MemberState] /\ wanted' \in [Cells -> Disposition \cup {"none"}]
         /\ stopRef' \in [Cells -> {"none", "active", "succeeded", "failed", "dead"}]
         /\ cell' \in [Cells -> CellState]
         /\ \A d \in Cells \ {c} : /\ member'[d] = member[d] /\ wanted'[d] = wanted[d]
                                   /\ stopRef'[d] = stopRef[d] /\ cell'[d] = cell[d]
         /\ \/ member'[c] = member[c] /\ wanted'[c] = wanted[c] /\ member[c] \in Spent \cup {"none"}
            \/ /\ member[c] \notin Spent \cup {"none"} /\ member'[c] = "cleanup_pending"
               /\ wanted'[c] = IF wanted[c] = "none" THEN "quarantined" ELSE wanted[c]
         /\ cell'[c] = IF cell[c] \in {"ready", "leased"} THEN "quarantined" ELSE cell[c]
BY DEF MarkCleanupPending, QuarantineRecord, PoolInv, TypeOK, MemberState, CellState, Disposition, Spent

\* A release keeps the invariant.
LEMMA ReleaseInv ==
  ASSUME PoolInv, NEW r \in releasing, ReleaseLease(r)
  PROVE  PoolInv'
<1> DEFINE c == r.cell
           k == r.lease
           d == r.disposition
<1>1. c \in Cells /\ k \in Claims /\ d \in Disposition /\ k # NoClaim /\ cellLease[c] # NoClaim
    BY SterilePoolAssumption DEF PoolInv, TypeOK, ReleasesOfLeased
<1>2. /\ releasing' \subseteq releasing
      /\ UNCHANGED <<memberLease, absent, cellLease, provision, stopFailed, runtime, expired, lapsed, empty>>
    BY DEF ReleaseLease, timeVars
<1>3. \/ UNCHANGED <<member, wanted, stopRef, cell, sandbox, stop, fence>>
      \/ member[c] # "none" /\ EnqueuePoolStop(c, k, d)
    BY DEF ReleaseLease
<1> HIDE DEF c, k, d
<1>4. CASE UNCHANGED <<member, wanted, stopRef, cell, sandbox, stop, fence>>
    BY <1>2, <1>4 DEF PoolInv, TypeOK, LeasesNamed, MembersInStep, ReleasesOfLeased, AbsentMeansGone
<1>5. CASE /\ member[c] # "none" /\ MarkCleanupPending(c, "none")
           /\ UNCHANGED <<sandbox, stop, fence>>
  <2>1. TypeOK'
      BY <1>1, <1>2, <1>5, MarkFacts DEF PoolInv, TypeOK
  <2>2. LeasesNamed' /\ ReleasesOfLeased'
      BY <1>1, <1>2, <1>5, MarkFacts DEF PoolInv, TypeOK, LeasesNamed, ReleasesOfLeased
  <2>3. MembersInStep'
    <3>1. member[c] # "provisioning"
        BY <1>1 DEF PoolInv, MembersInStep
    <3>2. provision[c] = "active" => member[c] \in Spent
        BY <1>1, <3>1 DEF PoolInv, MembersInStep, Spent
    <3> QED
        BY <1>1, <1>2, <1>5, <3>2, MarkFacts DEF PoolInv, TypeOK, MembersInStep, Spent
  <2>4. AbsentMeansGone'
      BY <1>1, <1>2, <1>5, MarkFacts DEF PoolInv, AbsentMeansGone, Spent
  <2> QED
      BY <2>1, <2>2, <2>3, <2>4 DEF PoolInv
<1>6. CASE QuarantineRecord(c) /\ UNCHANGED <<member, wanted, stopRef, sandbox, stop, fence>>
    BY <1>1, <1>2, <1>6 DEF QuarantineRecord, PoolInv, TypeOK, LeasesNamed, MembersInStep, ReleasesOfLeased,
       AbsentMeansGone, CellState, Spent
<1>7. CASE /\ member[c] = "leased" /\ memberLease[c] = k /\ cell[c] = "leased"
           /\ member' = [member EXCEPT ![c] = "stopping"]
           /\ wanted' = [wanted EXCEPT ![c] = d]
           /\ stopRef' = [stopRef EXCEPT ![c] = "active"]
           /\ stop' = [stop EXCEPT ![c] = "queued"]
           /\ fence' = [fence EXCEPT ![c] = [lease |-> k, disposition |-> d]]
           /\ IF StopLegal(c)
              THEN sandbox' = [sandbox EXCEPT ![c] = "archiving"] /\ UNCHANGED cell
              ELSE UNCHANGED sandbox /\ QuarantineRecord(c)
  <2>1. [lease |-> k, disposition |-> d] \in Fences
      BY <1>1 DEF Fences
  <2>2. /\ cell' \in [Cells -> CellState] /\ cell'[c] \in {"leased", "quarantined"}
        /\ \A e \in Cells \ {c} : cell'[e] = cell[e] /\ sandbox'[e] = sandbox[e]
        /\ sandbox' \in [Cells -> SandboxState]
        /\ sandbox'[c] = IF StopLegal(c) THEN "archiving" ELSE sandbox[c]
      BY <1>1, <1>7 DEF QuarantineRecord, PoolInv, TypeOK, CellState, SandboxState, Spent
  <2>3. TypeOK'
      BY <1>1, <1>2, <1>7, <2>1, <2>2 DEF PoolInv, TypeOK, MemberState
  <2>4. LeasesNamed' /\ ReleasesOfLeased'
      BY <1>1, <1>2, <1>7, <2>2 DEF PoolInv, TypeOK, LeasesNamed, ReleasesOfLeased
  <2>5. MembersInStep'
    <3>1. sandbox'[c] \in {"archiving", "archived"} /\ provision[c] # "active"
        BY <1>1, <1>7, <2>2 DEF PoolInv, TypeOK, MembersInStep, StopLegal, SandboxState
    <3> QED
        BY <1>1, <1>2, <1>7, <2>2, <3>1 DEF PoolInv, TypeOK, MembersInStep, Spent
  <2>6. AbsentMeansGone'
      BY <1>1, <1>2, <1>7, <2>2 DEF PoolInv, TypeOK, AbsentMeansGone, Spent
  <2> QED
      BY <2>3, <2>4, <2>5, <2>6 DEF PoolInv
<1> QED
    BY <1>3, <1>4, <1>5, <1>6, <1>7 DEF EnqueuePoolStop

\* The actions of a stop keep the invariant.
LEMMA StoppingInv ==
  ASSUME PoolInv, NEW c \in Cells,
         \/ ClaimStop(c) \/ DeleteRuntime(c) \/ CompleteStop(c) \/ RepairStop(c) \/ AgeOut(c)
         \/ \E status \in {"failed", "dead"} : FailStop(c, status)
  PROVE  PoolInv'
<1> USE DEF memberVars, cellVars, jobVars, timeVars
<1>r. \A status \in {"succeeded", "failed", "dead"} :
        EndedRef(c, status) \in {"none", "active", "succeeded", "failed", "dead"}
    BY DEF EndedRef, PoolInv, TypeOK
<1>1. CASE ClaimStop(c)
    BY <1>1 DEF ClaimStop, PoolInv, TypeOK, LeasesNamed, MembersInStep, ReleasesOfLeased, AbsentMeansGone
<1>2. CASE DeleteRuntime(c)
  <2>1. /\ runtime' \in [Cells -> BOOLEAN]
        /\ \A d \in Cells : d # c => runtime'[d] = runtime[d]
        /\ ~runtime'[c]
      BY <1>2, Zenon DEF DeleteRuntime, PoolInv, TypeOK
  <2>2. TypeOK' /\ LeasesNamed' /\ MembersInStep' /\ ReleasesOfLeased'
      BY <1>2, <2>1 DEF DeleteRuntime, PoolInv, TypeOK, LeasesNamed, MembersInStep, ReleasesOfLeased
  <2>3. AbsentMeansGone'
      BY <1>2, <2>1 DEF DeleteRuntime, PoolInv, AbsentMeansGone
  <2> QED
      BY <2>2, <2>3 DEF PoolInv
<1>3. CASE CompleteStop(c)
  <2>1. /\ stop[c] = "leased" /\ ~runtime[c]
        /\ stop' = [stop EXCEPT ![c] = "none"]
        /\ sandbox' = IF sandbox[c] = "archiving" THEN [sandbox EXCEPT ![c] = "archived"] ELSE sandbox
        /\ UNCHANGED <<memberLease, cellLease, provision, fence, stopFailed, runtime, timeVars, empty,
                       releasing>>
      BY <1>3 DEF CompleteStop
  <2>2. /\ sandbox' \in [Cells -> SandboxState] /\ sandbox'[c] = "archived"
        /\ \A d \in Cells \ {c} : sandbox'[d] = sandbox[d]
        /\ provision[c] # "active"
      BY <2>1 DEF PoolInv, TypeOK, MembersInStep, SandboxState
  <2>3. CASE UNCHANGED <<member, wanted, stopRef, absent, cell>>
      BY <2>1, <2>2, <2>3 DEF PoolInv, TypeOK, LeasesNamed, MembersInStep, ReleasesOfLeased, AbsentMeansGone
  <2>4. CASE MarkCleanupPending(c, "none") /\ UNCHANGED absent
    <3>1. TypeOK'
        BY <2>1, <2>2, <2>4, MarkFacts DEF PoolInv, TypeOK
    <3>2. LeasesNamed' /\ ReleasesOfLeased'
        BY <2>1, <2>4, MarkFacts DEF PoolInv, TypeOK, LeasesNamed, ReleasesOfLeased
    <3>3. MembersInStep'
        BY <2>1, <2>2, <2>4, MarkFacts DEF PoolInv, TypeOK, MembersInStep, Spent
    <3>4. AbsentMeansGone'
        BY <2>1, <2>2, <2>4, MarkFacts DEF PoolInv, AbsentMeansGone, Spent
    <3> QED
        BY <3>1, <3>2, <3>3, <3>4 DEF PoolInv
  <2>5. CASE /\ fence[c] # Plain /\ MemberFence(c) /\ CellFence(c)
             /\ member' = [member EXCEPT ![c] = TerminalDisposition(c)]
             /\ cell' = [cell EXCEPT ![c] = TerminalDisposition(c)]
             /\ absent' = [absent EXCEPT ![c] = TRUE]
             /\ stopRef' = [stopRef EXCEPT ![c] = EndedRef(c, "succeeded")]
             /\ UNCHANGED wanted
    <3>1. /\ absent' \in [Cells -> BOOLEAN]
          /\ \A d \in Cells : d # c => absent'[d] = absent[d]
        BY <2>5, Zenon DEF PoolInv, TypeOK
    <3>2. TerminalDisposition(c) \in Spent
        BY <2>5 DEF TerminalDisposition, PoolInv, TypeOK, Fences, Disposition, Spent
    <3>3. TypeOK'
        BY <1>r, <2>1, <2>2, <2>5, <3>1, <3>2 DEF PoolInv, TypeOK, MemberState, CellState
    <3>4. LeasesNamed' /\ ReleasesOfLeased'
        BY <2>1, <2>5, <3>2 DEF PoolInv, TypeOK, LeasesNamed, ReleasesOfLeased, Spent
    <3>5. MembersInStep'
        BY <2>1, <2>2, <2>5, <3>2 DEF PoolInv, TypeOK, MembersInStep, Spent
    <3>6. AbsentMeansGone'
        BY <2>1, <2>2, <2>5, <3>1, <3>2 DEF PoolInv, TypeOK, AbsentMeansGone
    <3> QED
        BY <3>3, <3>4, <3>5, <3>6 DEF PoolInv
  <2> QED
      BY <1>3, <2>3, <2>4, <2>5 DEF CompleteStop
<1>4. CASE RepairStop(c)
  <2>1. [fence EXCEPT ![c] = Plain] \in [Cells -> Fences \cup {Plain}] /\ Plain.disposition = "none"
      BY DEF PoolInv, TypeOK, Plain
  <2> QED
      BY <1>4, <2>1 DEF RepairStop, PoolInv, TypeOK, LeasesNamed, MembersInStep, ReleasesOfLeased, AbsentMeansGone
<1>5. CASE AgeOut(c)
    BY <1>5, <1>r DEF AgeOut, PoolInv, TypeOK, LeasesNamed, MembersInStep, ReleasesOfLeased, AbsentMeansGone
<1>6. ASSUME NEW status \in {"failed", "dead"}, FailStop(c, status) PROVE PoolInv'
  <2>1. stopFailed' \in [Cells -> BOOLEAN]
      BY <1>6, Zenon DEF FailStop, PoolInv, TypeOK
  <2>2. /\ stop[c] = "leased" /\ stop' = [stop EXCEPT ![c] = "none"]
        /\ UNCHANGED <<memberLease, absent, cellLease, sandbox, provision, fence, runtime, timeVars,
                       empty, releasing>>
      BY <1>6 DEF FailStop
  <2>3. CASE UNCHANGED <<member, wanted, stopRef, cell>>
      BY <2>1, <2>2, <2>3 DEF PoolInv, TypeOK, LeasesNamed, MembersInStep, ReleasesOfLeased, AbsentMeansGone
  <2>4. CASE MarkCleanupPending(c, EndedRef(c, status))
    <3> DEFINE ref == EndedRef(c, status)
    <3>0. ref \in {"none", "active", "succeeded", "failed", "dead"} /\ MarkCleanupPending(c, ref)
        BY <1>r, <2>4
    <3> HIDE DEF ref
    <3>1. TypeOK'
        BY <2>1, <2>2, <3>0, MarkFacts DEF PoolInv, TypeOK
    <3>2. LeasesNamed' /\ ReleasesOfLeased'
        BY <2>2, <3>0, MarkFacts DEF PoolInv, TypeOK, LeasesNamed, ReleasesOfLeased
    <3>3. MembersInStep'
        BY <2>2, <3>0, MarkFacts DEF PoolInv, TypeOK, MembersInStep, Spent
    <3>4. AbsentMeansGone'
        BY <2>2, <3>0, MarkFacts DEF PoolInv, AbsentMeansGone, Spent
    <3> QED
        BY <3>1, <3>2, <3>3, <3>4 DEF PoolInv
  <2> QED
      BY <1>6, <2>3, <2>4 DEF FailStop
<1> QED
    BY <1>1, <1>2, <1>3, <1>4, <1>5, <1>6

\* The actions of cells and of time keep the invariant.
LEMMA CellInv == PoolInv /\ (Cell \/ \E c \in Cells, k \in Claims, d \in Disposition : ReleaseLookup(c, k, d)) => PoolInv'
<1> SUFFICES ASSUME PoolInv, Cell \/ \E c \in Cells, k \in Claims, d \in Disposition : ReleaseLookup(c, k, d)
             PROVE  PoolInv'
    OBVIOUS
<1> USE DEF memberVars, cellVars, jobVars, timeVars
<1>1. ASSUME NEW c \in Cells, PrepareCell(c) PROVE PoolInv'
    BY <1>1 DEF PrepareCell, PoolInv, TypeOK, LeasesNamed, MembersInStep, ReleasesOfLeased, AbsentMeansGone,
       CellState, Spent
<1>2. ASSUME NEW c \in Cells, RetireReady(c) PROVE PoolInv'
    BY <1>2 DEF RetireReady, PoolInv, TypeOK, LeasesNamed, MembersInStep, ReleasesOfLeased, AbsentMeansGone,
       CellState, Spent
<1>3. ASSUME NEW c \in Cells, NEW k \in Claims, NEW d \in Disposition, DestroyCell(c, k, d) PROVE PoolInv'
    BY <1>3 DEF DestroyCell, PoolInv, TypeOK, LeasesNamed, MembersInStep, ReleasesOfLeased, AbsentMeansGone,
       CellState, Spent, Disposition
<1>4. CASE QuarantineExpired
    BY <1>4 DEF QuarantineExpired, Set, PoolInv, TypeOK, LeasesNamed, MembersInStep, ReleasesOfLeased,
       AbsentMeansGone, CellState, Spent
<1>5. ASSUME NEW c \in Cells, LeaseLapses(c) \/ CellExpires(c) PROVE PoolInv'
  <2>1. expired' \in [Cells -> BOOLEAN] /\ lapsed' \in [Cells -> BOOLEAN]
      BY <1>5, Zenon DEF LeaseLapses, CellExpires, PoolInv, TypeOK
  <2>2. UNCHANGED <<memberVars, cellVars, sandbox, jobVars, runtime, empty, releasing>>
      BY <1>5 DEF LeaseLapses, CellExpires
  <2> QED
      BY <2>1, <2>2 DEF PoolInv, TypeOK, LeasesNamed, MembersInStep, ReleasesOfLeased, AbsentMeansGone
<1>6. ASSUME NEW c \in Cells, NEW k \in Claims, NEW d \in Disposition, ReleaseLookup(c, k, d) PROVE PoolInv'
    BY <1>6 DEF ReleaseLookup, PoolInv, TypeOK, LeasesNamed, MembersInStep, ReleasesOfLeased, AbsentMeansGone
<1> QED
    BY <1>1, <1>2, <1>3, <1>4, <1>5, <1>6 DEF Cell

\* Every step of the pool keeps the invariant.
LEMMA PoolStep == PoolInv /\ [Next]_vars => PoolInv'
<1> SUFFICES ASSUME PoolInv, [Next]_vars PROVE PoolInv'
    OBVIOUS
<1>1. CASE Controller
  <2>1. PICK sick \in SUBSET Cells : ReconcilePool(sick) \/ ReconcileCleanup(sick)
      BY <1>1 DEF Controller
  <2>2. CASE ReconcilePool(sick)
      BY <2>2, ReconcileInv DEF ReconcilePool
  <2>3. CASE ReconcileCleanup(sick)
      BY <2>3, ReconcileInv DEF ReconcileCleanup
  <2> QED
      BY <2>1, <2>2, <2>3
<1>2. CASE Provisioning
    BY <1>2, ProvisioningInv DEF Provisioning
<1>3. CASE Tenant
  <2>1. PICK k \in Claims :
          \/ ClaimEmpty(k)
          \/ \E c \in Cells : ClaimCell(k, c) \/ RecoverClaim(k, c)
          \/ \E c \in Cells, d \in Disposition : ValidateLease(c, k, d)
      BY <1>3 DEF Tenant
  <2>2. CASE ClaimEmpty(k)
    <3>1. empty' \in [Claims -> NoLeaseReasons \cup {"none"}]
        BY <2>2, NoLeaseReasonType DEF ClaimEmpty, PoolInv, TypeOK
    <3> QED
        BY <2>2, <3>1 DEF ClaimEmpty, memberVars, cellVars, jobVars, timeVars, PoolInv, TypeOK, LeasesNamed,
           MembersInStep, ReleasesOfLeased, AbsentMeansGone
  <2>3. ASSUME NEW c \in Cells, ClaimCell(k, c) \/ RecoverClaim(k, c) PROVE PoolInv'
      BY <2>3, TenantInv DEF Disposition
  <2> QED
      BY <2>1, <2>2, <2>3, TenantInv
<1>4. CASE Releases
    BY <1>4, ReleaseInv, CellInv DEF Releases
<1>5. CASE Stopping
    BY <1>5, StoppingInv DEF Stopping
<1>6. CASE Cell
    BY <1>6, CellInv
<1>7. CASE UNCHANGED vars
    BY <1>7 DEF vars, memberVars, cellVars, jobVars, timeVars, PoolInv, TypeOK, LeasesNamed, MembersInStep,
       ReleasesOfLeased, AbsentMeansGone
<1> QED
    BY <1>1, <1>2, <1>3, <1>4, <1>5, <1>6, <1>7 DEF Next

\* The invariant holds in every state of the pool.
LEMMA PoolInvariance == Spec => []PoolInv
BY PoolInitInv, PoolStep, PTL DEF Spec

\* get_sterile_cell_lease_status reports provider_absent only once the resources of the
\* sandbox are gone, and then for good, for any number of cells and claims.
THEOREM AbsenceIsTrue == Spec => []AbsentMeansGone
<1>1. PoolInv => AbsentMeansGone
    BY DEF PoolInv
<1> QED
    BY <1>1, PoolInvariance, PTL

-----------------------------------------------------------------------------
(* The hard target. *)

\* The members that count, those in provisioning, and the bounds on both.
Live == {c \in Cells : member[c] \in LiveState}
InProvision == {c \in Cells : member[c] = "provisioning"}

TargetKept == Cardinality(Live) <= Target /\ Cardinality(InProvision) <= MaxProvisioning

\* A subset of a set of cells has no more elements.
LEMMA SubsetCount ==
  ASSUME NEW S \in SUBSET Cells, NEW T \in SUBSET S
  PROVE  IsFiniteSet(T) /\ Cardinality(T) \in Nat /\ Cardinality(S) \in Nat /\ Cardinality(T) <= Cardinality(S)
<1>1. IsFiniteSet(Cells)
    BY SterilePoolAssumption
<1>2. IsFiniteSet(S)
    BY <1>1, FS_Subset, Zenon
<1>3. IsFiniteSet(T) /\ Cardinality(T) <= Cardinality(S)
    BY <1>2, FS_Subset, Zenon
<1>4. Cardinality(S) \in Nat /\ Cardinality(T) \in Nat
    BY <1>2, <1>3, FS_CardinalityType, Zenon
<1> QED
    BY <1>3, <1>4

\* What is covered by two sets of cells has no more elements than both together.
LEMMA UnionCount ==
  ASSUME NEW S \in SUBSET Cells, NEW T \in SUBSET Cells, NEW U \in SUBSET (S \cup T)
  PROVE  Cardinality(U) <= Cardinality(S) + Cardinality(T)
<1>1. IsFiniteSet(S) /\ IsFiniteSet(T) /\ Cardinality(S) \in Nat /\ Cardinality(T) \in Nat
    BY SubsetCount
<1>2. Cardinality(S \cup T) = Cardinality(S) + Cardinality(T) - Cardinality(S \cap T)
    BY <1>1, FS_Union, Zenon
<1>3. Cardinality(S \cap T) \in Nat
    BY SubsetCount
<1>4. S \cup T \in SUBSET Cells
    OBVIOUS
<1>5. Cardinality(U) <= Cardinality(S \cup T) /\ Cardinality(U) \in Nat
    BY <1>4, SubsetCount
<1> QED
    BY <1>1, <1>2, <1>3, <1>5

\* A step that adds no member keeps the target.
LEMMA NoNewMembers ==
  ASSUME TargetKept, Live' \subseteq Live, InProvision' \subseteq InProvision
  PROVE  TargetKept'
<1>1. Live \in SUBSET Cells /\ InProvision \in SUBSET Cells
    BY DEF Live, InProvision
<1>2. /\ Cardinality(Live') <= Cardinality(Live) /\ Cardinality(Live) \in Nat /\ Cardinality(Live') \in Nat
      /\ Cardinality(InProvision') <= Cardinality(InProvision)
      /\ Cardinality(InProvision) \in Nat /\ Cardinality(InProvision') \in Nat
    BY <1>1, SubsetCount
<1> QED
    BY <1>2, SterilePoolAssumption DEF TargetKept

\* A reconciliation fills the target and no more: the members it retires before
\* admission leave the count, and the ones it creates are within what is free.
LEMMA ReconcileKeepsTarget ==
  ASSUME PoolInv, TargetKept, NEW sick, NEW new \in SUBSET Unused,
         InsertPoolMembers(new), Reconcile(sick, LeaseSync, QuarantineSync, new)
  PROVE  TargetKept'
<1> DEFINE gone == QuarantineSync
           live == {c \in Cells \ gone : Counts(c)}
           provisioning == {c \in Cells \ gone : member[c] = "provisioning"}
<1>1. /\ Live' \subseteq live \cup new /\ InProvision' \subseteq provisioning \cup new
      /\ live \in SUBSET Cells /\ provisioning \in SUBSET Cells /\ new \in SUBSET Cells
  <2> DEFINE all == CleanupPending \cup ExpiredReady(sick, LeaseSync) \cup ExpiredLeased(LeaseSync)
  <2>1. member' = [c \in Cells |-> IF c \in all THEN "stopping"
                                    ELSE IF c \in gone THEN "quarantined"
                                    ELSE IF c \in LeaseSync THEN "leased"
                                    ELSE IF c \in new THEN "provisioning"
                                    ELSE member[c]]
      BY DEF Reconcile
  <2>2. /\ \A c \in all : member[c] \in {"cleanup_pending", "ready", "leased"}
        /\ \A c \in LeaseSync : member[c] = "ready"
        /\ \A c \in gone : member[c] = "provisioning"
      BY DEF CleanupPending, ExpiredReady, ExpiredLeased, LeaseSync, QuarantineSync
  <2> HIDE DEF all, gone
  <2> QED
      BY <2>1, <2>2 DEF Live, InProvision, LiveState, Counts, Unused
<1>2. Cardinality(new) <= ToCreate(gone)
  <2>1. Cardinality(new) = IF ToCreate(gone) < Cardinality(Unused) THEN ToCreate(gone) ELSE Cardinality(Unused)
      BY DEF InsertPoolMembers
  <2>2. Cardinality(Unused) \in Nat
      BY SubsetCount DEF Unused
  <2>3. ToCreate(gone) \in Nat
    <3>1. Cardinality(live) \in Nat /\ Cardinality(provisioning) \in Nat
        BY <1>1, SubsetCount
    <3> QED
        BY <3>1, SterilePoolAssumption DEF ToCreate
  <2> QED
      BY <2>1, <2>2, <2>3
<1>3. /\ Cardinality(live) \in Nat /\ Cardinality(provisioning) \in Nat /\ Cardinality(new) \in Nat
      /\ Cardinality(live) <= Cardinality(Live) /\ Cardinality(Live) \in Nat
      /\ Cardinality(provisioning) <= Cardinality(InProvision) /\ Cardinality(InProvision) \in Nat
  <2>1. live \in SUBSET Live /\ provisioning \in SUBSET InProvision
        /\ Live \in SUBSET Cells /\ InProvision \in SUBSET Cells
      BY DEF Live, InProvision, Counts
  <2> HIDE DEF live, provisioning
  <2> QED
      BY <1>1, <2>1, SubsetCount
<1>4. /\ Cardinality(live) <= Target /\ Cardinality(provisioning) <= MaxProvisioning
      /\ Target \in Nat /\ MaxProvisioning \in Nat
    BY <1>3, SterilePoolAssumption DEF TargetKept
<1>5. Cardinality(new) <= Target - Cardinality(live) /\ Cardinality(new) <= MaxProvisioning - Cardinality(provisioning)
  <2>1. ToCreate(gone) = LET room == IF Target > Cardinality(live) THEN Target - Cardinality(live) ELSE 0
                             slots == IF MaxProvisioning > Cardinality(provisioning)
                                      THEN MaxProvisioning - Cardinality(provisioning) ELSE 0
                         IN IF room < slots THEN room ELSE slots
      BY DEF ToCreate
  <2> HIDE DEF live, provisioning, gone
  <2> QED
      BY <1>2, <1>3, <1>4, <2>1
<1>6. /\ Cardinality(Live') <= Cardinality(live) + Cardinality(new)
      /\ Cardinality(InProvision') <= Cardinality(provisioning) + Cardinality(new)
  <2> HIDE DEF live, provisioning
  <2> QED
      BY <1>1, UnionCount
<1>7. Cardinality(Live') \in Nat /\ Cardinality(InProvision') \in Nat
  <2>1. Live' \in SUBSET Cells /\ InProvision' \in SUBSET Cells
      BY DEF Live, InProvision
  <2> QED
      BY <2>1, SubsetCount
<1> HIDE DEF live, provisioning
<1> QED
    BY <1>3, <1>4, <1>5, <1>6, <1>7 DEF TargetKept

\* No other step adds a member.
LEMMA OthersAddNone ==
  ASSUME PoolInv, Next, ~\E sick \in SUBSET Cells : ReconcilePool(sick)
  PROVE  Live' \subseteq Live /\ InProvision' \subseteq InProvision
<1> SUFFICES \A c \in Cells : /\ member'[c] = "provisioning" => member[c] = "provisioning"
                              /\ member'[c] \in LiveState => member[c] \in LiveState
    BY DEF Live, InProvision
<1> USE DEF memberVars, PoolInv, TypeOK, LiveState
<1>1. CASE Controller
  <2>1. PICK sick \in SUBSET Cells : ReconcileCleanup(sick)
      BY <1>1 DEF Controller
  <2> DEFINE all == CleanupPending \cup ExpiredReady(sick, {}) \cup ExpiredLeased({})
  <2>2. member' = [c \in Cells |-> IF c \in all THEN "stopping"
                                    ELSE IF c \in {} THEN "quarantined"
                                    ELSE IF c \in {} THEN "leased"
                                    ELSE IF c \in {} THEN "provisioning"
                                    ELSE member[c]]
      BY <2>1 DEF ReconcileCleanup, Reconcile
  <2>3. \A c \in all : member[c] \in {"cleanup_pending", "ready", "leased"}
      BY DEF CleanupPending, ExpiredReady, ExpiredLeased
  <2> HIDE DEF all
  <2> QED
      BY <2>2, <2>3
<1>2. CASE Provisioning
    BY <1>2 DEF Provisioning, CreateRuntime, AdmitProvisionedCell, FailProvision
<1>3. CASE Tenant
    BY <1>3 DEF Tenant, ClaimEmpty, ClaimCell, RecordPoolClaim, RecoverClaim, ValidateLease
<1>4. CASE Releases
  <2>1. CASE UNCHANGED member
      BY <2>1
  <2>2. ASSUME NEW r \in releasing, ReleaseLease(r), ~UNCHANGED member
        PROVE  /\ r.cell \in Cells /\ member[r.cell] \notin Spent \cup {"none"}
               /\ \E s \in {"cleanup_pending", "stopping"} : member' = [member EXCEPT ![r.cell] = s]
    <3>1. r.cell \in Cells /\ EnqueuePoolStop(r.cell, r.lease, r.disposition)
        BY <2>2 DEF ReleaseLease
    <3> QED
        BY <2>2, <3>1 DEF EnqueuePoolStop, MarkCleanupPending, Spent
  <2> QED
      BY <1>4, <2>1, <2>2 DEF Releases, ReleaseLookup, Spent, MemberState
<1>5. CASE Stopping
  <2>1. PICK c \in Cells :
          \/ ClaimStop(c) \/ DeleteRuntime(c) \/ CompleteStop(c) \/ RepairStop(c) \/ AgeOut(c)
          \/ \E status \in {"failed", "dead"} : FailStop(c, status)
      BY <1>5 DEF Stopping
  <2>2. \/ UNCHANGED member
        \/ \E ref : MarkCleanupPending(c, ref)
        \/ MemberFence(c) /\ fence[c] # Plain /\ member' = [member EXCEPT ![c] = TerminalDisposition(c)]
      BY <2>1 DEF ClaimStop, DeleteRuntime, CompleteStop, RepairStop, AgeOut, FailStop
  <2>3. fence[c] # Plain => TerminalDisposition(c) \in Spent
      BY DEF TerminalDisposition, Fences, Disposition, Spent
  <2>4. CASE \E ref : MarkCleanupPending(c, ref)
      BY <2>4 DEF MarkCleanupPending, MemberState, Spent
  <2> QED
      BY <2>2, <2>3, <2>4 DEF Spent
<1>6. CASE Cell
    BY <1>6 DEF Cell, QuarantineExpired, PrepareCell, RetireReady, LeaseLapses, CellExpires, DestroyCell
<1> QED
    BY <1>1, <1>2, <1>3, <1>4, <1>5, <1>6 DEF Next

\* reconcile_sterile_pool never has more members than its target, nor more in provisioning
\* than its limit, for every target, limit and number of cells.
THEOREM TargetIsHard == Spec => []HardTarget
<1>1. Init => TargetKept
  <2> SUFFICES ASSUME Init PROVE TargetKept
      OBVIOUS
  <2>1. Live = {} /\ InProvision = {}
      BY DEF Init, Live, InProvision, LiveState
  <2> QED
      BY <2>1, FS_EmptySet, SterilePoolAssumption DEF TargetKept
<1>2. PoolInv /\ TargetKept /\ [Next]_vars => TargetKept'
  <2> SUFFICES ASSUME PoolInv, TargetKept, [Next]_vars PROVE TargetKept'
      OBVIOUS
  <2>1. CASE \E sick \in SUBSET Cells : ReconcilePool(sick)
      BY <2>1, ReconcileKeepsTarget DEF ReconcilePool
  <2>2. CASE Next /\ ~\E sick \in SUBSET Cells : ReconcilePool(sick)
      BY <2>2, OthersAddNone, NoNewMembers
  <2>3. CASE UNCHANGED vars
    <3>1. Live' = Live /\ InProvision' = InProvision
        BY <2>3 DEF vars, memberVars, Live, InProvision
    <3> QED
        BY <3>1, NoNewMembers
  <2> QED
      BY <2>1, <2>2, <2>3
<1>3. PoolInv /\ TargetKept => HardTarget
  <2> SUFFICES ASSUME PoolInv, TargetKept PROVE HardTarget
      OBVIOUS
  <2>1. {c \in Cells : member[c] \in LiveState \/ (member[c] # "none" /\ cell[c] = "leased")} = Live
      BY DEF Live, LiveState, PoolInv, TypeOK, MemberState, MembersInStep, Spent
  <2> QED
      BY <2>1 DEF TargetKept, HardTarget, InProvision
<1> QED
    BY <1>1, <1>2, <1>3, PoolInvariance, PTL DEF Spec

-----------------------------------------------------------------------------
(* The one-use promise. *)

\* Cells that are available or leased are quarantined together.
LEMMA Suspects ==
  ASSUME PoolInv, NEW S \in SUBSET Cells, \A c \in S : cell[c] \in {"ready", "leased"},
         cell' = [c \in Cells |-> IF c \in S THEN "quarantined" ELSE cell[c]], cellLease' = cellLease
  PROVE  Promise!Next
<1>1. Promise!Spend({}, S)
    BY DEF Promise!Spend
<1> QED
    BY <1>1 DEF Promise!Next

\* One cell is quarantined, unless it is spent.
LEMMA Quarantined ==
  ASSUME PoolInv, NEW c \in Cells, QuarantineRecord(c), cellLease' = cellLease
  PROVE  [Promise!Next]_<<cell, cellLease>>
<1>1. CASE cell[c] \notin {"ready", "leased"}
    BY <1>1 DEF QuarantineRecord
<1>2. CASE cell[c] \in {"ready", "leased"}
  <2>1. cell' = [d \in Cells |-> IF d \in {c} THEN "quarantined" ELSE cell[d]]
      BY <1>2 DEF QuarantineRecord, PoolInv, TypeOK
  <2> QED
      BY <1>2, <2>1, Suspects
<1> QED
    BY <1>1, <1>2

\* Every step of the pool is a step of the promise, or leaves it alone.
LEMMA PromiseStep ==
  ASSUME PoolInv, [Next]_vars
  PROVE  [Promise!Next]_<<cell, cellLease>>
<1> USE DEF cellVars
<1>1. CASE Controller
  <2>1. PICK sick, synced, gone, new :
              sick \in SUBSET Cells /\ synced \in {LeaseSync, {}} /\ Reconcile(sick, synced, gone, new)
      BY <1>1 DEF Controller, ReconcilePool, ReconcileCleanup
  <2> DEFINE S == {c \in ExpiredLeased(synced) : ~StopLegal(c) /\ cell[c] = "leased"}
  <2>2. S \in SUBSET Cells /\ \A c \in S : cell[c] = "leased"
      BY DEF ExpiredLeased
  <2>3. cell' = [c \in Cells |-> IF c \in S THEN "quarantined" ELSE cell[c]] /\ cellLease' = cellLease
      BY <2>1 DEF Reconcile, Set, PoolInv, TypeOK
  <2> HIDE DEF S
  <2> QED
      BY <2>2, <2>3, Suspects
<1>2. CASE Provisioning
  <2>1. PICK c \in Cells : CreateRuntime(c) \/ AdmitProvisionedCell(c) \/ FailProvision(c)
      BY <1>2 DEF Provisioning
  <2>2. CASE CreateRuntime(c)
      BY <2>2 DEF CreateRuntime
  <2>3. CASE AdmitProvisionedCell(c)
    <3>1. Promise!Admit(c)
        BY <2>3 DEF AdmitProvisionedCell, Promise!Admit
    <3> QED
        BY <3>1 DEF Promise!Next
  <2>4. CASE FailProvision(c)
      BY <2>4, Quarantined DEF FailProvision
  <2> QED
      BY <2>1, <2>2, <2>3, <2>4
<1>3. CASE Tenant
  <2>1. PICK k \in Claims :
          \/ ClaimEmpty(k)
          \/ \E c \in Cells : ClaimCell(k, c) \/ RecoverClaim(k, c)
          \/ \E c \in Cells, d \in Disposition : ValidateLease(c, k, d)
      BY <1>3 DEF Tenant
  <2>2. CASE ClaimEmpty(k)
      BY <2>2 DEF ClaimEmpty
  <2>3. ASSUME NEW c \in Cells, ClaimCell(k, c) PROVE Promise!Next
    <3>1. Promise!Lease(c, k)
        BY <2>3 DEF ClaimCell, Selectable, Answered, Promise!Lease
    <3> QED
        BY <3>1 DEF Promise!Next
  <2>4. ASSUME NEW c \in Cells, NEW d \in Disposition, RecoverClaim(k, c) \/ ValidateLease(c, k, d)
        PROVE  [Promise!Next]_<<cell, cellLease>>
    <3>1. cellLease' = cellLease /\ (cell' = cell \/ QuarantineRecord(c))
        BY <2>4 DEF RecoverClaim, ValidateLease, QuarantineRecord
    <3> QED
        BY <3>1, Quarantined
  <2> QED
      BY <2>1, <2>2, <2>3, <2>4 DEF Disposition
<1>4. CASE Releases
  <2>1. CASE UNCHANGED <<cell, cellLease>>
      BY <2>1
  <2>2. ASSUME NEW r \in releasing, ReleaseLease(r) PROVE [Promise!Next]_<<cell, cellLease>>
    <3>1. r.cell \in Cells
        BY DEF PoolInv, TypeOK
    <3>2. cellLease' = cellLease /\ (cell' = cell \/ QuarantineRecord(r.cell))
        BY <2>2 DEF ReleaseLease, EnqueuePoolStop, MarkCleanupPending
    <3> QED
        BY <3>1, <3>2, Quarantined
  <2> QED
      BY <1>4, <2>1, <2>2 DEF Releases, ReleaseLookup
<1>5. CASE Stopping
  <2>1. PICK c \in Cells :
          \/ ClaimStop(c) \/ DeleteRuntime(c) \/ CompleteStop(c) \/ RepairStop(c) \/ AgeOut(c)
          \/ \E status \in {"failed", "dead"} : FailStop(c, status)
      BY <1>5 DEF Stopping
  <2>2. /\ cellLease' = cellLease
        /\ \/ cell' = cell
           \/ QuarantineRecord(c)
           \/ fence[c] # Plain /\ CellFence(c) /\ cell' = [cell EXCEPT ![c] = TerminalDisposition(c)]
      BY <2>1 DEF ClaimStop, DeleteRuntime, CompleteStop, RepairStop, AgeOut, FailStop, MarkCleanupPending
  <2>3. CASE fence[c] # Plain /\ CellFence(c) /\ cell' = [cell EXCEPT ![c] = TerminalDisposition(c)]
    <3>1. fence[c].disposition \in {"destroyed", "quarantined"}
        BY <2>3 DEF PoolInv, TypeOK, Fences, Disposition
    <3>2. CASE cell[c] \in Spent
      <4>1. TerminalDisposition(c) = cell[c]
          BY <2>3, <3>2 DEF CellFence, TerminalDisposition, Spent
      <4> QED
          BY <2>2, <2>3, <4>1 DEF PoolInv, TypeOK
    <3>3. CASE cell[c] \notin Spent /\ fence[c].disposition = "quarantined"
      <4>1. cell[c] \in {"ready", "leased"} /\ TerminalDisposition(c) = "quarantined"
          BY <2>3, <3>3 DEF CellFence, TerminalDisposition
      <4> QED
          BY <2>2, <2>3, <4>1, Quarantined DEF QuarantineRecord
    <3>4. CASE cell[c] \notin Spent /\ fence[c].disposition = "destroyed"
      <4>1. cell[c] = "leased" /\ TerminalDisposition(c) = "destroyed"
          BY <2>3, <3>4 DEF CellFence, TerminalDisposition, PoolInv, LeasesNamed, Spent
      <4>2. Promise!Spend({c}, {})
          BY <2>2, <2>3, <4>1 DEF Promise!Spend, PoolInv, TypeOK
      <4> QED
          BY <4>2 DEF Promise!Next
    <3> QED
        BY <3>1, <3>2, <3>3, <3>4
  <2> QED
      BY <2>2, <2>3, Quarantined
<1>6. CASE Cell
  <2>1. ASSUME NEW c \in Cells, PrepareCell(c) PROVE Promise!Next
    <3>1. Promise!Admit(c)
        BY <2>1 DEF PrepareCell, Promise!Admit
    <3> QED
        BY <3>1 DEF Promise!Next
  <2>2. ASSUME NEW c \in Cells, RetireReady(c) PROVE [Promise!Next]_<<cell, cellLease>>
      BY <2>2, Quarantined DEF RetireReady, QuarantineRecord
  <2>3. ASSUME NEW c \in Cells, NEW k \in Claims, NEW d \in Disposition, DestroyCell(c, k, d)
        PROVE  [Promise!Next]_<<cell, cellLease>>
    <3>1. CASE QuarantineRecord(c)
        BY <2>3, <3>1, Quarantined DEF DestroyCell
    <3>2. CASE cell[c] = "leased" /\ cell' = [cell EXCEPT ![c] = "destroyed"]
      <4>1. Promise!Spend({c}, {})
          BY <2>3, <3>2 DEF DestroyCell, Promise!Spend, PoolInv, TypeOK
      <4> QED
          BY <4>1 DEF Promise!Next
    <3> QED
        BY <2>3, <3>1, <3>2 DEF DestroyCell, QuarantineRecord, Disposition
  <2>4. CASE QuarantineExpired
    <3> DEFINE S == {c \in Cells : member[c] = "none"
                       /\ \/ cell[c] = "ready" /\ expired[c]
                          \/ cell[c] = "leased" /\ (expired[c] \/ lapsed[c])}
    <3>1. S \in SUBSET Cells /\ \A c \in S : cell[c] \in {"ready", "leased"}
        OBVIOUS
    <3>2. cell' = [c \in Cells |-> IF c \in S THEN "quarantined" ELSE cell[c]] /\ cellLease' = cellLease
        BY <2>4 DEF QuarantineExpired, Set, PoolInv, TypeOK
    <3> HIDE DEF S
    <3> QED
        BY <3>1, <3>2, Suspects
  <2>5. ASSUME NEW c \in Cells, LeaseLapses(c) \/ CellExpires(c) PROVE UNCHANGED <<cell, cellLease>>
      BY <2>5 DEF LeaseLapses, CellExpires
  <2> QED
      BY <1>6, <2>1, <2>2, <2>3, <2>4, <2>5 DEF Cell
<1>7. CASE UNCHANGED vars
    BY <1>7 DEF vars
<1> QED
    BY <1>1, <1>2, <1>3, <1>4, <1>5, <1>6, <1>7 DEF Next

\* The pool and its workers implement SterileCell: a cell is admitted clean, given to one
\* holder at most and then spent for good, and one in quarantine is never called destroyed.
THEOREM PoolKeepsPromise == Spec => OneUse
<1>1. Init => Promise!Init
    BY DEF Init, Promise!Init
<1>2. PoolInv /\ [Next]_vars => [Promise!Next]_Promise!vars
    BY PromiseStep DEF Promise!vars
<1> QED
    BY <1>1, <1>2, PoolInvariance, PTL DEF Spec, OneUse, Promise!Spec
=============================================================================
