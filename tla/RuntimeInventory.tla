--------------------------- MODULE RuntimeInventory ---------------------------
(***************************************************************************)
(* The rows that record what a sandbox has in its cluster (reconcile.rs):   *)
(* completed jobs write them, a stop and a resume retire them, and a        *)
(* worker's inventory, read from the cluster some time ago, is laid over    *)
(* them.  The resources of a sandbox's runtime are named after it and come  *)
(* and go together, so one row stands for them: that of the workspace       *)
(* volume, which also records the snapshot it was restored from.            *)
(*                                                                         *)
(* Every handler is one transaction on the single write connection.  The    *)
(* inventories of several workers are under way at once, and are laid over  *)
(* the rows in any order.                                                   *)
(***************************************************************************)
CONSTANTS
    InvBoxes,    \* sandboxes
    InvSnaps,    \* snapshots
    NoSnap,      \* a volume restored from no snapshot
    NoVolume,    \* no volume
    Inventories  \* bound: inventories under way at once

VARIABLES
    uphase,      \* how far the sandbox and its current job are
    uvol,        \* the volume in the cluster, by the snapshot it was restored from
    uobj,        \* snapshots whose object is in the cluster
    urow,        \* status of the sandbox's runtime rows
    usource,     \* their source_snapshot_id
    usnap,       \* status of each snapshot's row
    uowner,      \* the sandbox each snapshot is of; NoVolume before it is taken
    urecorded,   \* the generation a completion recorded and nothing has retired
    ustale,      \* history: the row was hidden while an older inventory was under way
    uasked,      \* each inventory under way, and whether it marks what is missing
    useenvol,    \* the volumes it has seen
    useenobj     \* the snapshot objects it has seen

rowvars == <<urow, usource, usnap, urecorded, ustale>>
seenvars == <<uasked, useenvol, useenobj>>
uvars == <<uphase, uvol, uobj, uowner, rowvars, seenvars>>

Sources == InvSnaps \cup {NoSnap}
Volumes == Sources \cup {NoVolume}
RowStatuses == {"none", "live", "gone"}
Recordable == {"provisioned", "running", "stopped", "archived", "restored"}

InventoryTypeOK ==
    /\ uphase \in [InvBoxes -> {"new", "deleted"} \cup Recordable]
    /\ uvol \in [InvBoxes -> Volumes]
    /\ uobj \subseteq InvSnaps
    /\ urow \in [InvBoxes -> RowStatuses]
    /\ usource \in [InvBoxes -> Sources]
    /\ usnap \in [InvSnaps -> RowStatuses]
    /\ uowner \in [InvSnaps -> InvBoxes \cup {NoVolume}]
    /\ urecorded \in [InvBoxes -> Volumes]
    /\ ustale \in [InvBoxes -> BOOLEAN]
    /\ uasked \in [Inventories -> {"no", "merge", "replace"}]
    /\ useenvol \in [Inventories -> [InvBoxes -> Volumes]]
    /\ useenobj \in [Inventories -> SUBSET InvSnaps]

InventoryInit ==
    /\ uphase = [b \in InvBoxes |-> "new"]
    /\ uvol = [b \in InvBoxes |-> NoVolume]
    /\ uobj = {}
    /\ urow = [b \in InvBoxes |-> "none"]
    /\ usource = [b \in InvBoxes |-> NoSnap]
    /\ usnap = [s \in InvSnaps |-> "none"]
    /\ uowner = [s \in InvSnaps |-> NoVolume]
    /\ urecorded = [b \in InvBoxes |-> NoVolume]
    /\ ustale = [b \in InvBoxes |-> FALSE]
    /\ uasked = [i \in Inventories |-> "no"]
    /\ useenvol = [i \in Inventories |-> [b \in InvBoxes |-> NoVolume]]
    /\ useenobj = [i \in Inventories |-> {}]

-----------------------------------------------------------------------------
(* upsert_provider_runtime_resource *)

(* mutant: the report overwrites whatever the row says *)
AcceptsAny(b, source, status) == TRUE

(* The row is inserted; or the resource was torn down, and its sandbox may  *)
(* recreate it from another source; or the report agrees with the row.      *)
Accepts(b, source, status) == status \in {"none", "gone"} \/ usource[b] = source

(* mark_runtime_resources_deleted_for_sandbox, runtime generation only: the *)
(* rows of the sandbox's snapshots stay.                                    *)
Retired(status) == IF status = "live" THEN "gone" ELSE status

-----------------------------------------------------------------------------
(* The provider acts, and the job's completion records it. *)

ProvisionVolume(b, source) ==
    /\ uphase[b] = "new"
    /\ source \in uobj \cup {NoSnap}
    /\ uphase' = [uphase EXCEPT ![b] = "provisioned"]
    /\ uvol' = [uvol EXCEPT ![b] = source]
    /\ UNCHANGED <<uobj, uowner, rowvars, seenvars>>

(* Also of a fork.  Refused, it changes nothing: the job is tried again.    *)
CompleteVolume(b) ==
    /\ uphase[b] = "provisioned"
    /\ Accepts(b, uvol[b], urow[b])
    /\ uphase' = [uphase EXCEPT ![b] = "running"]
    /\ urow' = [urow EXCEPT ![b] = "live"]
    /\ usource' = [usource EXCEPT ![b] = uvol[b]]
    /\ urecorded' = [urecorded EXCEPT ![b] = uvol[b]]
    /\ ustale' = [ustale EXCEPT ![b] = FALSE]
    /\ UNCHANGED <<uvol, uobj, uowner, usnap, seenvars>>

TakeSnapshot(b, s) ==
    /\ uphase[b] = "running"
    /\ uowner[s] = NoVolume
    /\ uowner' = [uowner EXCEPT ![s] = b]
    /\ uobj' = uobj \cup {s}
    /\ UNCHANGED <<uphase, uvol, rowvars, seenvars>>

CompleteSnapshotRow(s) ==
    /\ s \in uobj
    /\ uphase[uowner[s]] # "deleted"
    /\ usnap' = [usnap EXCEPT ![s] = "live"]
    /\ UNCHANGED <<uphase, uvol, uobj, uowner, urow, usource, urecorded, ustale, seenvars>>

(* cleanup_runtime_resources_for_expired_snapshots retires the row; the     *)
(* object goes later or not at all.                                         *)
ExpireSnapshotRow(s) ==
    /\ usnap[s] = "live"
    /\ usnap' = [usnap EXCEPT ![s] = "gone"]
    /\ uobj' \in {uobj, uobj \ {s}}
    /\ UNCHANGED <<uphase, uvol, uowner, urow, usource, urecorded, ustale, seenvars>>

StopVolume(b) ==
    /\ uphase[b] = "running"
    /\ uphase' = [uphase EXCEPT ![b] = "stopped"]
    /\ uvol' = [uvol EXCEPT ![b] = NoVolume]
    /\ UNCHANGED <<uobj, uowner, rowvars, seenvars>>

CompleteVolumeStop(b) ==
    /\ uphase[b] = "stopped"
    /\ uphase' = [uphase EXCEPT ![b] = "archived"]
    /\ urow' = [urow EXCEPT ![b] = Retired(@)]
    /\ urecorded' = [urecorded EXCEPT ![b] = NoVolume]
    /\ UNCHANGED <<uvol, uobj, uowner, usource, usnap, ustale, seenvars>>

RestoreVolume(b, s) ==
    /\ uphase[b] = "archived"
    /\ s \in uobj
    /\ uowner[s] = b
    /\ uphase' = [uphase EXCEPT ![b] = "restored"]
    /\ uvol' = [uvol EXCEPT ![b] = s]
    /\ UNCHANGED <<uobj, uowner, rowvars, seenvars>>

(* The old generation is retired first, whatever has revived it. *)
CompleteResume(b) ==
    /\ uphase[b] = "restored"
    /\ Accepts(b, uvol[b], Retired(urow[b]))
    /\ uphase' = [uphase EXCEPT ![b] = "running"]
    /\ urow' = [urow EXCEPT ![b] = "live"]
    /\ usource' = [usource EXCEPT ![b] = uvol[b]]
    /\ urecorded' = [urecorded EXCEPT ![b] = uvol[b]]
    /\ ustale' = [ustale EXCEPT ![b] = FALSE]
    /\ UNCHANGED <<uvol, uobj, uowner, usnap, seenvars>>

(* Retention: every row of the sandbox, its snapshots' too, becomes a       *)
(* tombstone.                                                               *)
DeleteBoxRows(b) ==
    /\ uphase[b] = "archived"
    /\ uphase' = [uphase EXCEPT ![b] = "deleted"]
    /\ urow' = [urow EXCEPT ![b] = "none"]
    /\ usnap' = [s \in InvSnaps |-> IF uowner[s] = b THEN "none" ELSE usnap[s]]
    /\ UNCHANGED <<uvol, uobj, uowner, usource, urecorded, ustale, seenvars>>

-----------------------------------------------------------------------------
(* reconcile_runtime_resources *)

ReadInventory(i) ==
    /\ uasked[i] = "no"
    /\ \E how \in {"merge", "replace"} : uasked' = [uasked EXCEPT ![i] = how]
    /\ useenvol' = [useenvol EXCEPT ![i] = uvol]
    /\ useenobj' = [useenobj EXCEPT ![i] = uobj]
    /\ UNCHANGED <<uphase, uvol, uobj, uowner, rowvars>>

SeenBoxes(i) == {b \in InvBoxes : useenvol[i][b] # NoVolume}

(* Every resource must belong to a sandbox that exists and agree with its   *)
(* row; one that does not ends the transaction.                             *)
InventoryAccepted(i) ==
    /\ \A b \in SeenBoxes(i) : uphase[b] \in {"new"} \cup Recordable /\ Accepts(b, useenvol[i][b], urow[b])
    /\ \A s \in useenobj[i] : uphase[uowner[s]] # "deleted"

(* mark_missing_runtime_resources_deleted for what was not seen. *)
Missing(i, status) == IF uasked[i] = "replace" THEN Retired(status) ELSE status

(* i hides the row of a recorded generation while another inventory has     *)
(* seen an older one.                                                       *)
HidesFromOlder(i, b) ==
    /\ b \notin SeenBoxes(i) /\ uasked[i] = "replace" /\ urow[b] = "live" /\ urecorded[b] # NoVolume
    /\ \E j \in Inventories \ {i} : uasked[j] # "no" /\ useenvol[j][b] \notin {NoVolume, urecorded[b]}

Answered(i) ==
    /\ uasked' = [uasked EXCEPT ![i] = "no"]
    /\ useenvol' = [useenvol EXCEPT ![i] = [b \in InvBoxes |-> NoVolume]]
    /\ useenobj' = [useenobj EXCEPT ![i] = {}]

ApplyInventory(i) ==
    /\ uasked[i] # "no"
    /\ InventoryAccepted(i)
    /\ urow' = [b \in InvBoxes |-> IF b \in SeenBoxes(i) THEN "live" ELSE Missing(i, urow[b])]
    /\ usource' = [b \in InvBoxes |-> IF b \in SeenBoxes(i) THEN useenvol[i][b] ELSE usource[b]]
    /\ usnap' = [s \in InvSnaps |-> IF s \in useenobj[i] THEN "live" ELSE Missing(i, usnap[s])]
    /\ ustale' = [b \in InvBoxes |-> ustale[b] \/ HidesFromOlder(i, b)]
    /\ Answered(i)
    /\ UNCHANGED <<uphase, uvol, uobj, uowner, urecorded>>

RefuseInventory(i) ==
    /\ uasked[i] # "no"
    /\ ~InventoryAccepted(i)
    /\ Answered(i)
    /\ UNCHANGED <<uphase, uvol, uobj, uowner, rowvars>>

InventoryNext ==
    \/ \E b \in InvBoxes, source \in Sources : ProvisionVolume(b, source)
    \/ \E b \in InvBoxes, s \in InvSnaps : TakeSnapshot(b, s) \/ RestoreVolume(b, s)
    \/ \E b \in InvBoxes :
          CompleteVolume(b) \/ StopVolume(b) \/ CompleteVolumeStop(b) \/ CompleteResume(b) \/ DeleteBoxRows(b)
    \/ \E s \in InvSnaps : CompleteSnapshotRow(s) \/ ExpireSnapshotRow(s)
    \/ \E i \in Inventories : ReadInventory(i) \/ ApplyInventory(i) \/ RefuseInventory(i)

InventorySpec == InventoryInit /\ [][InventoryNext]_uvars

-----------------------------------------------------------------------------
(* While a generation a completion recorded is not retired, a live row says *)
(* what that volume was restored from ("a live resource may not change      *)
(* lineage at all", reconcile.rs:416): an inventory read before the last    *)
(* stop, and laid over the rows after a resume, does not bring the old      *)
(* source back.  Two together may, and nothing less does: one that read     *)
(* before the volume was there hides the row while one that has seen an     *)
(* older volume is under way.                                               *)
LineageIsTrue ==
    \A b \in InvBoxes :
        (urow[b] = "live" /\ urecorded[b] # NoVolume /\ usource[b] # urecorded[b]) => ustale[b]

=============================================================================
