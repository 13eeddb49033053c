----------------------------- MODULE SterilePool -----------------------------
(***************************************************************************)
(* The sterile pool and the one-use cells it manages: the reconciler that  *)
(* keeps a target of members alive, the claim that leases a cell to a      *)
(* tenant, the releases, the fenced stop that tears a member down, and the *)
(* cells that workers prepare outside the pool.                            *)
(*                                                                         *)
(* A cell, its sandbox and its pool membership share one id, used once.    *)
(* Every action is one transaction.  Reconciliation, claims and stops hold *)
(* the controller lock, so each reads what the others have committed; the  *)
(* lookup a release makes before its transaction does not.  The oldest-    *)
(* first order of claims is left open.  A lease is named by the claim that *)
(* took it, and its generation, always 2, is left out.                     *)
(***************************************************************************)
EXTENDS Naturals, FiniteSets, FiniteSetsExt

CONSTANTS
  Cells,            \* ids of sandboxes, and so of cells and members
  Claims,           \* claims, each naming the one lease it may obtain
  Fenced,           \* the claims that carry a claim_id
  NoClaim,          \* no lease
  Target,           \* SANDBOXWICH_STERILE_POOL_TARGET
  MaxProvisioning,  \* SANDBOXWICH_STERILE_POOL_MAX_PROVISIONING
  ReadyFloor,       \* SANDBOXWICH_STERILE_POOL_READY_FLOOR
  MaxReleases,      \* bound: releases between their lookup and their commit
  Ageing            \* whether the queue drops jobs that waited too long

ASSUME SterilePoolAssumption ==
  /\ IsFiniteSet(Cells)
  /\ Fenced \subseteq Claims
  /\ NoClaim \notin Claims
  /\ Target \in Nat /\ MaxProvisioning \in Nat /\ ReadyFloor \in Nat
  /\ ReadyFloor <= Target /\ MaxProvisioning <= Target
  /\ MaxReleases \in Nat
  /\ Ageing \in BOOLEAN

VARIABLES
  member,         \* sterile_pool_memberships.state
  memberLease,    \* and its lease_id
  wanted,         \* and its requested_disposition
  stopRef,        \* and the state of the job its stop_job_id names
  absent,         \* and its provider_absent
  cell,           \* sterile_cells.state
  cellLease,      \* and its lease_id
  sandbox,        \* sandboxes.state
  provision,      \* the provision job of the member
  stop,           \* the one active stop job of the sandbox
  fence,          \* the lease and disposition that stop carries
  stopFailed,     \* a stop job of the sandbox has status 'failed'
  runtime,        \* the provider has resources of the sandbox
  expired,        \* cell_expires_at has passed
  lapsed,         \* lease_expires_at has passed
  empty,          \* why each fenced claim recorded without a lease got none
  releasing       \* releases that looked their cell up and have not committed

memberVars == <<member, memberLease, wanted, stopRef, absent>>
cellVars == <<cell, cellLease>>
jobVars == <<provision, stop, fence, stopFailed>>
timeVars == <<expired, lapsed>>
vars == <<memberVars, cellVars, sandbox, jobVars, runtime, timeVars, empty, releasing>>

Disposition == {"destroyed", "quarantined"}
Spent == {"destroyed", "quarantined"}
MemberState == {"none", "provisioning", "ready", "leased", "stopping", "cleanup_pending"} \cup Spent
CellState == {"none", "ready", "leased"} \cup Spent
SandboxState == {"none", "planning", "ready", "error", "archiving", "archived"}
NoLeaseReasons == {"ready_floor_protected", "already_leased", "unhealthy", "capacity_absent",
                   "not_claimable"}
Fences == [lease : Claims \cup {NoClaim}, disposition : Disposition]
Plain == [lease |-> NoClaim, disposition |-> "none"] \* a stop without the pool's marker

Init ==
  /\ member = [c \in Cells |-> "none"]
  /\ memberLease = [c \in Cells |-> NoClaim]
  /\ wanted = [c \in Cells |-> "none"]
  /\ stopRef = [c \in Cells |-> "none"]
  /\ absent = [c \in Cells |-> FALSE]
  /\ cell = [c \in Cells |-> "none"]
  /\ cellLease = [c \in Cells |-> NoClaim]
  /\ sandbox = [c \in Cells |-> "none"]
  /\ provision = [c \in Cells |-> "none"]
  /\ stop = [c \in Cells |-> "none"]
  /\ fence = [c \in Cells |-> Plain]
  /\ stopFailed = [c \in Cells |-> FALSE]
  /\ runtime = [c \in Cells |-> FALSE]
  /\ expired = [c \in Cells |-> FALSE]
  /\ lapsed = [c \in Cells |-> FALSE]
  /\ empty = [k \in Claims |-> "none"]
  /\ releasing = {}

\* f with the value v at the elements of S.
Set(f, S, v) == [c \in DOMAIN f |-> IF c \in S THEN v ELSE f[c]]

-----------------------------------------------------------------------------
(* Reconciliation: one transaction under the controller lock. *)

LiveState == {"provisioning", "ready", "leased", "stopping", "cleanup_pending"}
StopLegal(c) == sandbox[c] \in {"planning", "ready", "error"}
StopActive(c) == stop[c] # "none"

\* Mutant: only a stop that reported its failure is tried again.
CleanupPendingFailed == {c \in Cells : member[c] = "cleanup_pending" /\ stopRef[c] = "failed"}

\* Members whose stop ended without success, or whose stop is unknown.
CleanupPending == {c \in Cells : member[c] = "cleanup_pending"
                                 /\ stopRef[c] \in {"none", "failed", "dead"}}

\* Ready members that expired, were quarantined, or are in sick: their
\* guest has not reported ready for longer than the grace period.
ExpiredReady(sick, synced) ==
  {c \in Cells \ synced : member[c] = "ready"
                          /\ (expired[c] \/ cell[c] = "quarantined" \/ c \in sick)}

\* Leased members whose lease or cell ran out, or whose cell is quarantined.
ExpiredLeased(synced) ==
  {c \in Cells : (member[c] = "leased" \/ c \in synced)
                 /\ (cell[c] = "quarantined" \/ expired[c] \/ lapsed[c])}

\* Claims committed without their membership.
LeaseSync == {c \in Cells : member[c] = "ready" /\ cell[c] = "leased"}

\* Members whose cell was terminalised outside the pool before admission.
QuarantineSync == {c \in Cells : member[c] = "provisioning" /\ cell[c] = "quarantined"}

\* The fence of the stop each of them is given.
CleanupFence(c) == [lease |-> memberLease[c], disposition |-> wanted[c]]
ReadyFence == [lease |-> NoClaim, disposition |-> "quarantined"]
LeasedFence(k) == [lease |-> k, disposition |-> "quarantined"]

\* A reconciliation: it folds synced and gone into the membership, queues the
\* stops and creates the members new.  A stop that meets an active stop of
\* its sandbox, or an expired ready member whose sandbox cannot be stopped,
\* fails, and the whole transaction with it.
Reconcile(sick, synced, gone, new) ==
  LET pending == CleanupPending
      ready == ExpiredReady(sick, synced)
      leased == ExpiredLeased(synced)
      all == pending \cup ready \cup leased
      holder(c) == IF c \in synced THEN cellLease[c] ELSE memberLease[c]
  IN /\ \A c \in all : ~StopActive(c)
     /\ \A c \in ready : StopLegal(c)
     /\ stop' = Set(stop, all, "queued")
     /\ fence' = [c \in Cells |->
          IF c \in pending THEN CleanupFence(c)
          ELSE IF c \in ready THEN ReadyFence
          ELSE IF c \in leased THEN LeasedFence(holder(c))
          ELSE fence[c]]
     /\ stopRef' = Set(stopRef, all, "active")
     /\ wanted' = Set(wanted, ready \cup leased, "quarantined")
     /\ memberLease' = [c \in Cells |-> holder(c)]
     /\ member' = [c \in Cells |-> IF c \in all THEN "stopping"
                                   ELSE IF c \in gone THEN "quarantined"
                                   ELSE IF c \in synced THEN "leased"
                                   ELSE IF c \in new THEN "provisioning"
                                   ELSE member[c]]
     /\ cell' = Set(cell, {c \in leased : ~StopLegal(c) /\ cell[c] = "leased"}, "quarantined")
     /\ sandbox' = [c \in Cells |-> IF c \in new THEN "planning"
                                    ELSE IF c \in all /\ StopLegal(c) THEN "archiving"
                                    ELSE sandbox[c]]
     /\ provision' = Set(provision, new, "active")
     /\ UNCHANGED <<absent, cellLease, stopFailed, runtime, timeVars, empty, releasing>>

\* Mutant: members being torn down leave the count.
CountsRunning(c) == member[c] \in {"provisioning", "ready", "leased"}

\* Members counted against the hard target.
Counts(c) == member[c] \in LiveState

\* How many members a reconciliation creates: to_create.
ToCreate(gone) ==
  LET live == Cardinality({c \in Cells \ gone : Counts(c)})
      provisioning == Cardinality({c \in Cells \ gone : member[c] = "provisioning"})
      room == IF Target > live THEN Target - live ELSE 0
      slots == IF MaxProvisioning > provisioning THEN MaxProvisioning - provisioning ELSE 0
  IN IF room < slots THEN room ELSE slots

\* Ids no row has used.  They run out, which bounds the model and not the code.
Unused == {c \in Cells : sandbox[c] = "none" /\ cell[c] = "none"}

InsertPoolMembers(new) ==
  LET n == ToCreate(QuarantineSync)
      free == Cardinality(Unused)
  IN /\ new \subseteq Unused
     /\ Cardinality(new) = IF n < free THEN n ELSE free

ReconcilePool(sick) ==
  \E new \in SUBSET Unused :
    /\ InsertPoolMembers(new)
    /\ Reconcile(sick, LeaseSync, QuarantineSync, new)

\* An API without a pool configuration still cleans up.
ReconcileCleanup(sick) == Reconcile(sick, {}, {}, {})

-----------------------------------------------------------------------------
(* The provision job of a member. *)

\* External: the worker creates the resources of the sandbox.
CreateRuntime(c) ==
  /\ provision[c] = "active"
  /\ ~runtime[c]
  /\ runtime' = [runtime EXCEPT ![c] = TRUE]
  /\ UNCHANGED <<memberVars, cellVars, sandbox, jobVars, timeVars, empty, releasing>>

\* The job completes and its cell is admitted; an id that already has a cell
\* refuses the completion.
AdmitProvisionedCell(c) ==
  /\ provision[c] = "active"
  /\ runtime[c]
  /\ sandbox[c] = "planning"
  /\ member[c] = "provisioning"
  /\ cell[c] = "none"
  /\ provision' = [provision EXCEPT ![c] = "succeeded"]
  /\ sandbox' = [sandbox EXCEPT ![c] = "ready"]
  /\ cell' = [cell EXCEPT ![c] = "ready"]
  /\ member' = [member EXCEPT ![c] = "ready"]
  /\ UNCHANGED <<memberLease, wanted, stopRef, absent, cellLease, stop, fence, stopFailed,
                 runtime, timeVars, empty, releasing>>

\* quarantine_pool_cell_record: an available or leased cell is quarantined.
QuarantineRecord(c) ==
  cell' = IF cell[c] \in {"ready", "leased"} THEN [cell EXCEPT ![c] = "quarantined"] ELSE cell

\* The last attempt of the job fails or expires.
FailProvision(c) ==
  /\ provision[c] = "active"
  /\ provision' = [provision EXCEPT ![c] = "failed"]
  /\ sandbox' = IF sandbox[c] = "planning" THEN [sandbox EXCEPT ![c] = "error"] ELSE sandbox
  /\ QuarantineRecord(c)
  /\ member' = IF member[c] \in Spent THEN member ELSE [member EXCEPT ![c] = "quarantined"]
  /\ UNCHANGED <<memberLease, wanted, stopRef, absent, cellLease, stop, fence, stopFailed,
                 runtime, timeVars, empty, releasing>>

-----------------------------------------------------------------------------
(* Claims. *)

ReadyMembers == Cardinality({c \in Cells : member[c] = "ready"})

\* Cells a claim may select: ready, with more life than the lease asks for,
\* and not a ready member the floor protects.
Selectable ==
  {c \in Cells : cell[c] = "ready" /\ ~expired[c]
                 /\ ~(member[c] = "ready" /\ ReadyMembers <= ReadyFloor)}

\* A member that is not ready refuses the claim, which rolls back.
RecordPoolClaim(c, k) ==
  \/ /\ member[c] = "none"
     /\ UNCHANGED <<member, memberLease>>
  \/ /\ member[c] = "ready"
     /\ member' = [member EXCEPT ![c] = "leased"]
     /\ memberLease' = [memberLease EXCEPT ![c] = k]

\* The claim k has been answered before, with a lease or as empty.
Answered(k) == empty[k] # "none" \/ \E c \in Cells : cellLease[c] = k

\* A claim that finds a cell leases it, exposes it and links the two.
ClaimCell(k, c) ==
  /\ ~Answered(k)
  /\ c \in Selectable
  /\ cellLease[c] = NoClaim            \* ever_tenant_exposed = 0
  /\ cell' = [cell EXCEPT ![c] = "leased"]
  /\ cellLease' = [cellLease EXCEPT ![c] = k]
  /\ RecordPoolClaim(c, k)
  /\ UNCHANGED <<wanted, stopRef, absent, sandbox, jobVars, runtime, timeVars, empty, releasing>>

\* Why there is no lease.  The cells of other release tuples, which no other
\* definition looks at, are left out, and release_mismatch with them.
NoLeaseReason(sick) ==
  LET Has(state) == \E c \in Cells : cell[c] = state
      pool == {c \in Cells : member[c] = "ready"}
      eligible == {c \in Cells : cell[c] = "ready" /\ ~expired[c]}
      protected == {c \in eligible : member[c] = "ready" /\ ReadyMembers <= ReadyFloor}
  IN CASE protected # {} /\ eligible = protected -> "ready_floor_protected"
       [] protected = {} /\ ~Has("ready") /\ Has("leased") -> "already_leased"
       [] protected = {} /\ (Has("ready") \/ ~Has("leased")) /\ pool # {} /\ pool \subseteq sick
            -> "unhealthy"
       [] ~Has("ready") /\ ~Has("leased") /\ pool = {} -> "capacity_absent"
       [] OTHER -> "not_claimable"

\* A fenced claim that finds none is recorded, and stays empty.
ClaimEmpty(k) ==
  /\ k \in Fenced
  /\ ~Answered(k)
  /\ Selectable = {}
  /\ \E sick \in SUBSET Cells : empty' = [empty EXCEPT ![k] = NoLeaseReason(sick)]
  /\ UNCHANGED <<memberVars, cellVars, sandbox, jobVars, runtime, timeVars, releasing>>

\* A claim repeated after its lease ran out quarantines the cell; while the
\* lease is live, and for an empty claim, the repetition changes nothing.
RecoverClaim(k, c) ==
  /\ k \in Fenced
  /\ cellLease[c] = k
  /\ cell[c] = "leased"
  /\ lapsed[c]
  /\ cell' = [cell EXCEPT ![c] = "quarantined"]
  /\ UNCHANGED <<memberVars, cellLease, sandbox, jobVars, runtime, timeVars, empty, releasing>>

-----------------------------------------------------------------------------
(* Releases and stops. *)

\* validate_live_lease_fence of a release: a lease that ran out quarantines.
ValidateLease(c, k, d) ==
  /\ cellLease[c] = k
  /\ \/ /\ cell[c] = "leased" /\ ~lapsed[c]
        /\ Cardinality(releasing) < MaxReleases
        /\ releasing' = releasing \cup {[cell |-> c, lease |-> k, disposition |-> d]}
        /\ UNCHANGED cell
     \/ /\ cell[c] = "leased" /\ lapsed[c]
        /\ cell' = [cell EXCEPT ![c] = "quarantined"]
        /\ UNCHANGED releasing
  /\ UNCHANGED <<memberVars, cellLease, sandbox, jobVars, runtime, timeVars, empty>>

\* The worker's release route checks only that the cell is leased.
ReleaseLookup(c, k, d) ==
  /\ cell[c] = "leased"
  /\ Cardinality(releasing) < MaxReleases
  /\ releasing' = releasing \cup {[cell |-> c, lease |-> k, disposition |-> d]}
  /\ UNCHANGED <<memberVars, cellVars, sandbox, jobVars, runtime, timeVars, empty>>

\* mark_pool_cleanup_pending
MarkCleanupPending(c, ref) ==
  /\ QuarantineRecord(c)
  /\ IF member[c] \in Spent \cup {"none"}
     THEN UNCHANGED <<member, wanted, stopRef>>
     ELSE /\ member' = [member EXCEPT ![c] = "cleanup_pending"]
          /\ wanted' = [wanted EXCEPT ![c] = IF @ = "none" THEN "quarantined" ELSE @]
          /\ stopRef' = [stopRef EXCEPT ![c] = ref]

\* enqueue_pool_stop on a member: repeated, refused and quarantined, or queued.
EnqueuePoolStop(c, k, d) ==
  \/ /\ member[c] = "stopping" /\ memberLease[c] = k /\ wanted[c] = d
     /\ UNCHANGED <<member, wanted, stopRef, cell, sandbox, stop, fence>>
  \/ /\ ~(member[c] = "stopping" /\ memberLease[c] = k /\ wanted[c] = d)
     /\ ~(member[c] = "leased" /\ memberLease[c] = k)
     /\ MarkCleanupPending(c, "none")
     /\ UNCHANGED <<sandbox, stop, fence>>
  \/ /\ member[c] = "leased" /\ memberLease[c] = k
     /\ ~StopActive(c)
     /\ \/ /\ ~(cell[c] = "leased" /\ cellLease[c] = k /\ ~lapsed[c])
           /\ QuarantineRecord(c)
           /\ UNCHANGED <<member, wanted, stopRef, sandbox, stop, fence>>
        \/ /\ cell[c] = "leased" /\ cellLease[c] = k /\ ~lapsed[c]
           /\ member' = [member EXCEPT ![c] = "stopping"]
           /\ wanted' = [wanted EXCEPT ![c] = d]
           /\ stopRef' = [stopRef EXCEPT ![c] = "active"]
           /\ stop' = [stop EXCEPT ![c] = "queued"]
           /\ fence' = [fence EXCEPT ![c] = [lease |-> k, disposition |-> d]]
           /\ IF StopLegal(c)
              THEN sandbox' = [sandbox EXCEPT ![c] = "archiving"] /\ UNCHANGED cell
              ELSE UNCHANGED sandbox /\ QuarantineRecord(c)

\* The transaction of a release; a cell without membership is not found.
ReleaseLease(r) ==
  /\ r \in releasing
  /\ releasing' = releasing \ {r}
  /\ \/ /\ member[r.cell] = "none"
        /\ UNCHANGED <<member, wanted, stopRef, cell, sandbox, stop, fence>>
     \/ /\ member[r.cell] # "none"
        /\ EnqueuePoolStop(r.cell, r.lease, r.disposition)
  /\ UNCHANGED <<memberLease, absent, cellLease, provision, stopFailed, runtime, timeVars, empty>>

\* A worker takes the stop job and deletes the runtime.
ClaimStop(c) ==
  /\ stop[c] = "queued"
  /\ stop' = [stop EXCEPT ![c] = "leased"]
  /\ UNCHANGED <<memberVars, cellVars, sandbox, provision, fence, stopFailed, runtime, timeVars,
                 empty, releasing>>

\* External: the provider deletes the resources of the sandbox.
DeleteRuntime(c) ==
  /\ stop[c] = "leased"
  /\ runtime[c]
  /\ runtime' = [runtime EXCEPT ![c] = FALSE]
  /\ UNCHANGED <<memberVars, cellVars, sandbox, jobVars, timeVars, empty, releasing>>

\* The fences a completed stop must meet: the membership and then the cell.
MemberFence(c) ==
  /\ member[c] \in {"stopping", "cleanup_pending"}
  /\ fence[c] = [lease |-> memberLease[c], disposition |-> wanted[c]]

CellFence(c) ==
  /\ cellLease[c] = fence[c].lease
  /\ cell[c] \in Spent \cup {IF fence[c].lease = NoClaim THEN "ready" ELSE "leased"}
  /\ cell[c] = "destroyed" => fence[c].disposition = "destroyed"

\* Mutant: the requested disposition wins over a quarantine.
RequestedDisposition(c) == fence[c].disposition

\* A cell quarantined while its stop ran stays quarantined.
TerminalDisposition(c) ==
  IF cell[c] = "quarantined" THEN "quarantined" ELSE fence[c].disposition

\* What the end of a stop leaves in the job row the membership names.
EndedRef(c, status) ==
  IF fence[c] # Plain /\ stopRef[c] = "active" THEN status ELSE stopRef[c]

\* Mutant: the teardown is reported before the provider confirmed it.
CompleteStopUnconfirmed(c) ==
  /\ stop[c] = "leased"
  /\ stop' = [stop EXCEPT ![c] = "none"]
  /\ sandbox' = IF sandbox[c] = "archiving" THEN [sandbox EXCEPT ![c] = "archived"] ELSE sandbox
  /\ fence[c] # Plain /\ MemberFence(c) /\ CellFence(c)
  /\ member' = [member EXCEPT ![c] = TerminalDisposition(c)]
  /\ cell' = [cell EXCEPT ![c] = TerminalDisposition(c)]
  /\ absent' = [absent EXCEPT ![c] = TRUE]
  /\ UNCHANGED <<memberLease, wanted, stopRef, cellLease, provision, fence, stopFailed, runtime,
                 timeVars, empty, releasing>>

\* A stop completes after the provider confirmed the teardown.
CompleteStop(c) ==
  /\ stop[c] = "leased"
  /\ ~runtime[c]
  /\ stop' = [stop EXCEPT ![c] = "none"]
  /\ sandbox' = IF sandbox[c] = "archiving" THEN [sandbox EXCEPT ![c] = "archived"] ELSE sandbox
  /\ \/ /\ fence[c] = Plain
        /\ UNCHANGED <<member, wanted, stopRef, absent, cell>>
     \/ /\ fence[c] # Plain
        /\ ~(MemberFence(c) /\ CellFence(c))
        /\ MarkCleanupPending(c, "none")
        /\ UNCHANGED absent
     \/ /\ fence[c] # Plain
        /\ MemberFence(c) /\ CellFence(c)
        /\ member' = [member EXCEPT ![c] = TerminalDisposition(c)]
        /\ cell' = [cell EXCEPT ![c] = TerminalDisposition(c)]
        /\ absent' = [absent EXCEPT ![c] = TRUE]
        /\ stopRef' = [stopRef EXCEPT ![c] = EndedRef(c, "succeeded")]
        /\ UNCHANGED wanted
  /\ UNCHANGED <<memberLease, cellLease, provision, fence, stopFailed, runtime, timeVars, empty,
                 releasing>>

\* A stop has one attempt: the worker reports an error, or its lease expires.
FailStop(c, status) ==
  /\ stop[c] = "leased"
  /\ stop' = [stop EXCEPT ![c] = "none"]
  /\ stopFailed' = [stopFailed EXCEPT ![c] = @ \/ status = "failed"]
  /\ \/ /\ fence[c] = Plain
        /\ UNCHANGED <<member, wanted, stopRef, cell>>
     \/ /\ fence[c] # Plain
        /\ MarkCleanupPending(c, EndedRef(c, status))
  /\ UNCHANGED <<memberLease, absent, cellLease, sandbox, provision, fence, runtime, timeVars,
                 empty, releasing>>

\* The repair loop queues a stop without the pool's marker.
RepairStop(c) ==
  /\ sandbox[c] = "archiving"
  /\ stopFailed[c]
  /\ ~StopActive(c)
  /\ stop' = [stop EXCEPT ![c] = "queued"]
  /\ fence' = [fence EXCEPT ![c] = Plain]
  /\ UNCHANGED <<memberVars, cellVars, sandbox, provision, stopFailed, runtime, timeVars, empty,
                 releasing>>

\* The queue drops a job that waited too long, and nothing else changes.
AgeOut(c) ==
  /\ Ageing
  /\ \/ /\ stop[c] = "queued"
        /\ stop' = [stop EXCEPT ![c] = "none"]
        /\ stopRef' = [stopRef EXCEPT ![c] = EndedRef(c, "dead")]
        /\ UNCHANGED provision
     \/ /\ provision[c] = "active"
        /\ provision' = [provision EXCEPT ![c] = "failed"]
        /\ UNCHANGED <<stop, stopRef>>
  /\ UNCHANGED <<member, memberLease, wanted, absent, cellVars, sandbox, fence, stopFailed,
                 runtime, timeVars, empty, releasing>>

-----------------------------------------------------------------------------
(* Cells, and their retirement. *)

\* A worker registers a cell it made itself.  Nothing keeps it from naming
\* the id of a member whose own cell is not admitted yet.
PrepareCell(c) ==
  /\ cell[c] = "none"
  /\ cell' = [cell EXCEPT ![c] = "ready"]
  /\ UNCHANGED <<memberVars, cellLease, sandbox, jobVars, runtime, timeVars, empty, releasing>>

RetireReady(c) ==
  /\ cell[c] = "ready"
  /\ cell' = [cell EXCEPT ![c] = "quarantined"]
  /\ UNCHANGED <<memberVars, cellLease, sandbox, jobVars, runtime, timeVars, empty, releasing>>

\* A worker ends a cell it prepared; a stale fence quarantines it.
DestroyCell(c, k, d) ==
  /\ member[c] = "none"
  /\ \/ /\ cell[c] = "leased" /\ cellLease[c] = k
        /\ cell' = [cell EXCEPT ![c] = d]
     \/ /\ cell[c] \in {"ready", "leased"}
        /\ cellLease[c] # k
        /\ cell' = [cell EXCEPT ![c] = "quarantined"]
  /\ UNCHANGED <<memberVars, cellLease, sandbox, jobVars, runtime, timeVars, empty, releasing>>

\* The sweep quarantines expired cells that are not of a pool.
QuarantineExpired ==
  LET over == {c \in Cells : member[c] = "none"
                 /\ \/ cell[c] = "ready" /\ expired[c]
                    \/ cell[c] = "leased" /\ (expired[c] \/ lapsed[c])}
  IN /\ over # {}
     /\ cell' = Set(cell, over, "quarantined")
     /\ UNCHANGED <<memberVars, cellLease, sandbox, jobVars, runtime, timeVars, empty, releasing>>

\* Time passes.  A lease ends no later than its cell.
LeaseLapses(c) ==
  /\ cell[c] = "leased" /\ ~lapsed[c]
  /\ lapsed' = [lapsed EXCEPT ![c] = TRUE]
  /\ UNCHANGED <<memberVars, cellVars, sandbox, jobVars, runtime, expired, empty, releasing>>

CellExpires(c) ==
  /\ cell[c] \in {"ready", "leased"} /\ ~expired[c]
  /\ expired' = [expired EXCEPT ![c] = TRUE]
  /\ lapsed' = [lapsed EXCEPT ![c] = cellLease[c] # NoClaim]
  /\ UNCHANGED <<memberVars, cellVars, sandbox, jobVars, runtime, empty, releasing>>

-----------------------------------------------------------------------------
Controller == \E sick \in SUBSET Cells : ReconcilePool(sick) \/ ReconcileCleanup(sick)

Provisioning == \E c \in Cells : CreateRuntime(c) \/ AdmitProvisionedCell(c) \/ FailProvision(c)

Tenant ==
  \E k \in Claims :
    \/ ClaimEmpty(k)
    \/ \E c \in Cells : ClaimCell(k, c) \/ RecoverClaim(k, c)
    \/ \E c \in Cells, d \in Disposition : ValidateLease(c, k, d)

Releases ==
  \/ \E c \in Cells, k \in Claims, d \in Disposition : ReleaseLookup(c, k, d)
  \/ \E r \in releasing : ReleaseLease(r)

Stopping ==
  \E c \in Cells :
    \/ ClaimStop(c) \/ DeleteRuntime(c) \/ CompleteStop(c) \/ RepairStop(c) \/ AgeOut(c)
    \/ \E status \in {"failed", "dead"} : FailStop(c, status)

Cell ==
  \/ QuarantineExpired
  \/ \E c \in Cells : PrepareCell(c) \/ RetireReady(c) \/ LeaseLapses(c) \/ CellExpires(c)
  \/ \E c \in Cells, k \in Claims, d \in Disposition : DestroyCell(c, k, d)

Next == Controller \/ Provisioning \/ Tenant \/ Releases \/ Stopping \/ Cell

Spec == Init /\ [][Next]_vars

\* The reconciler and the queue run on timers.  A reconciliation that is
\* possible again and again is not kept from its lock, and of the stops queued
\* for a sandbox again and again not all age out (a worker comes online) or
\* are cut short by an error or by their lease.
Fairness ==
  /\ SF_vars(ReconcileCleanup({}))
  /\ \A c \in Cells : SF_vars(ClaimStop(c)) /\ SF_vars(DeleteRuntime(c)) /\ SF_vars(CompleteStop(c))

FairSpec == Spec /\ Fairness

-----------------------------------------------------------------------------
(* Properties. *)

TypeOK ==
  /\ member \in [Cells -> MemberState]
  /\ memberLease \in [Cells -> Claims \cup {NoClaim}]
  /\ wanted \in [Cells -> Disposition \cup {"none"}]
  /\ stopRef \in [Cells -> {"none", "active", "succeeded", "failed", "dead"}]
  /\ absent \in [Cells -> BOOLEAN]
  /\ cell \in [Cells -> CellState]
  /\ cellLease \in [Cells -> Claims \cup {NoClaim}]
  /\ sandbox \in [Cells -> SandboxState]
  /\ provision \in [Cells -> {"none", "active", "succeeded", "failed"}]
  /\ stop \in [Cells -> {"none", "queued", "leased"}]
  /\ fence \in [Cells -> Fences \cup {Plain}]
  /\ stopFailed \in [Cells -> BOOLEAN]
  /\ runtime \in [Cells -> BOOLEAN]
  /\ expired \in [Cells -> BOOLEAN]
  /\ lapsed \in [Cells -> BOOLEAN]
  /\ empty \in [Claims -> NoLeaseReasons \cup {"none"}]
  /\ releasing \subseteq [cell : Cells, lease : Claims, disposition : Disposition]

\* reconcile_sterile_pool: the target and the provisioning limit are hard,
\* whatever claims, releases, failures and retirements go on between two
\* reconciliations.  A cell a tenant still holds counts, so nothing replaces it.
HardTarget ==
  /\ Cardinality({c \in Cells : member[c] \in LiveState
                                \/ (member[c] # "none" /\ cell[c] = "leased")}) <= Target
  /\ Cardinality({c \in Cells : member[c] = "provisioning"}) <= MaxProvisioning

\* get_sterile_cell_lease_status: provider_absent is reported only once the
\* resources of the sandbox are gone, and then for good.
AbsentMeansGone ==
  \A c \in Cells : absent[c] =>
    ~runtime[c] /\ member[c] = cell[c] /\ cell[c] \in Spent /\ sandbox[c] = "archived"

\* The pool and its workers keep what a sterile cell promises.
Promise == INSTANCE SterileCell
             WITH Holders <- Claims, NoHolder <- NoClaim, phase <- cell, holder <- cellLease

OneUse == Promise!Spec

\* The stop of a member waited in the queue for too long: the age sweep ended
\* the job, and the membership still names it (jobs.rs:875).
AgedOut(c) == member[c] = "stopping" /\ stopRef[c] = "dead"

\* A cell in teardown is stopped in the end: pool_stop, its retry by the
\* reconciler, a release that comes in between and the repair loop lose a
\* member in one way only, when the age sweep ends its queued stop.  The
\* reconciler retries members in cleanup_pending alone (sterile_pool.rs:329),
\* so that member stays stopping.
TornDown == \A c \in Cells : member[c] \in {"stopping", "cleanup_pending"}
                               ~> (member[c] \in Spent \/ AgedOut(c))
=============================================================================
