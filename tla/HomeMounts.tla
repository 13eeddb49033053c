------------------------------ MODULE HomeMounts ------------------------------
(***************************************************************************)
(* One managed home and the sandboxes that ask to mount it                 *)
(* (handlers/homes.rs): its row, the row of sandbox_home_mounts, the       *)
(* delete-home job and the claim the worker deletes.  A creation claims    *)
(* the mount in its transaction and a deletion looks for a mount in its    *)
(* own; both read before they write, so each is two steps here.            *)
(*                                                                         *)
(* hserial is what the database gives, one of the two in a behaviour:      *)
(* SQLite lets one transaction write at a time and refuses to upgrade a    *)
(* reader whose snapshot is old; PostgreSQL at READ COMMITTED does         *)
(* neither, and the key-share lock the insert takes on the home row does   *)
(* not wait for the update of its state.                                   *)
(***************************************************************************)
EXTENDS Naturals, FiniteSets

CONSTANTS
    HomeBoxes,        \* the sandboxes created on the home
    HomeAttempts      \* max_attempts of the delete-home job

ASSUME HomesAssumption ==
    /\ IsFiniteSet(HomeBoxes)
    /\ HomeAttempts \in Nat \ {0}

VARIABLES
    hserial,    \* TRUE on SQLite, FALSE on PostgreSQL
    hhome,      \* state of the homes row, "none" before it is created and after
    hbox,       \* state of each sandbox, the usable states as "live"
    hmount,     \* the sandboxes that have a row in sandbox_home_mounts
    hclaiming,  \* the creation transactions that have checked the home
    hcleared,   \* the mount rows each of them has deleted, not committed
    hdeleting,  \* "idle", or what the deletion's transaction has read
    hjob,       \* status of the delete-home job
    htries,     \* its attempts
    hworkers,   \* the workers that are still running it
    hwiped,     \* a worker has deleted the persistent volume claim
    hoverlap    \* history: who had checked the home when its deletion began

hvars == <<hserial, hhome, hbox, hmount, hclaiming, hcleared, hdeleting, hjob, htries, hworkers,
           hwiped, hoverlap>>

HomeStates == {"none", "ready", "deleting", "delete_failed", "removed"}
BoxStates == {"none", "live", "archiving", "archived", "error"}
Reclaimable == {"archived", "error"}

HomeTypeOK ==
    /\ hhome \in HomeStates
    /\ hbox \in [HomeBoxes -> BoxStates]
    /\ hmount \subseteq HomeBoxes
    /\ hclaiming \subseteq HomeBoxes
    /\ hcleared \in [HomeBoxes -> SUBSET HomeBoxes]
    /\ hdeleting \in {"idle", "unmounted", "outdated"}
    /\ hjob \in {"none", "queued", "leased", "dead", "completed"}
    /\ htries \in 0 .. HomeAttempts
    /\ hworkers \in 0 .. HomeAttempts
    /\ hwiped \in BOOLEAN /\ hserial \in BOOLEAN
    /\ hoverlap \subseteq HomeBoxes

HomeInit ==
    /\ hhome = "none"
    /\ hbox = [b \in HomeBoxes |-> "none"]
    /\ hmount = {}
    /\ hclaiming = {}
    /\ hcleared = [b \in HomeBoxes |-> {}]
    /\ hdeleting = "idle"
    /\ hjob = "none"
    /\ htries = 0
    /\ hworkers = 0
    /\ hwiped = FALSE
    /\ hserial \in BOOLEAN
    /\ hoverlap = {}

-----------------------------------------------------------------------------
(* What the database does to a transaction that writes. *)

(* A transaction may write unless another one that has written is open;     *)
(* S holds the transaction itself.                                          *)
MayWrite(S) == hserial => hclaiming \subseteq S

(* A row an open transaction has deleted makes another that deletes it wait. *)
Locked == UNION {hcleared[b] : b \in HomeBoxes}

(* A write makes the snapshot of an open deletion old. *)
Outdates ==
    hdeleting' = IF hserial /\ hdeleting = "unmounted" THEN "outdated" ELSE hdeleting

-----------------------------------------------------------------------------
(* create_home: a key that exists, or whose insert loses to another, gives  *)
(* the home that is there.                                                  *)
CreateHome ==
    /\ hhome = "none"
    /\ MayWrite({})
    /\ hhome' = "ready"
    /\ UNCHANGED <<hbox, hmount, hclaiming, hcleared, hdeleting, hjob, htries, hworkers, hwiped, hoverlap>>

(* A creation removes the rows of sandboxes that are replacement-eligible   *)
(* and goes on when the home is ready and nothing else is mounted;          *)
(* otherwise its transaction is rolled back, that removal too.              *)
ClaimChecks(b) ==
    /\ hbox[b] = "none"
    /\ b \notin hclaiming
    /\ MayWrite({b})
    /\ hmount \cap Locked = {}
    /\ hhome = "ready"
    /\ \A o \in hmount : hbox[o] \in Reclaimable
    /\ hclaiming' = hclaiming \cup {b}
    /\ hcleared' = [hcleared EXCEPT ![b] = hmount]
    /\ Outdates
    /\ UNCHANGED <<hhome, hbox, hmount, hjob, htries, hworkers, hwiped, hoverlap>>

(* The insert and the commit of the creation.  unique(home_id) refuses a    *)
(* second row, and the reference to the home refuses a row of one that is   *)
(* gone.                                                                    *)
ClaimMount(b) ==
    /\ b \in hclaiming
    /\ hmount \subseteq hcleared[b]
    /\ hhome # "removed"
    /\ hclaiming' = hclaiming \ {b}
    /\ hcleared' = [hcleared EXCEPT ![b] = {}]
    /\ hbox' = [hbox EXCEPT ![b] = "live"]
    /\ hmount' = {b}
    /\ Outdates
    /\ UNCHANGED <<hhome, hjob, htries, hworkers, hwiped, hoverlap>>

(* The unique violation rolls back to the savepoint and answers a conflict; *)
(* any other failure ends the transaction as well.                          *)
ClaimRefused(b) ==
    /\ b \in hclaiming
    /\ hclaiming' = hclaiming \ {b}
    /\ hcleared' = [hcleared EXCEPT ![b] = {}]
    /\ UNCHANGED <<hhome, hbox, hmount, hdeleting, hjob, htries, hworkers, hwiped, hoverlap>>

-----------------------------------------------------------------------------
(* The mounted sandbox, as its own jobs end. *)

(* A provision fails for good; the row stays. *)
BoxFails(b) ==
    /\ hbox[b] = "live"
    /\ MayWrite({b})
    /\ hbox' = [hbox EXCEPT ![b] = "error"]
    /\ Outdates
    /\ UNCHANGED <<hhome, hmount, hclaiming, hcleared, hjob, htries, hworkers, hwiped, hoverlap>>

BoxStops(b) ==
    /\ hbox[b] \in {"live", "error"}
    /\ MayWrite({b})
    /\ hbox' = [hbox EXCEPT ![b] = "archiving"]
    /\ Outdates
    /\ UNCHANGED <<hhome, hmount, hclaiming, hcleared, hjob, htries, hworkers, hwiped, hoverlap>>

(* The stop's completion archives the sandbox and releases its mount. *)
BoxStopped(b) ==
    /\ hbox[b] = "archiving"
    /\ MayWrite({b})
    /\ hbox' = [hbox EXCEPT ![b] = "archived"]
    /\ b \notin Locked
    /\ hmount' = hmount \ {b}
    /\ Outdates
    /\ UNCHANGED <<hhome, hclaiming, hcleared, hjob, htries, hworkers, hwiped, hoverlap>>

(* An operator removes the rows of sandboxes that have ended. *)
ReconcileHomeMounts ==
    /\ MayWrite({})
    /\ \E b \in hmount : hbox[b] \in Reclaimable /\ b \notin Locked
    /\ hmount' = {b \in hmount : hbox[b] \notin Reclaimable}
    /\ Outdates
    /\ UNCHANGED <<hhome, hbox, hclaiming, hcleared, hjob, htries, hworkers, hwiped, hoverlap>>

-----------------------------------------------------------------------------
(* delete_home: the look for a mount, then the update and the job. *)

(* mutant: only a sandbox that is usable is looked for *)
UnmountedOrStopping == \A b \in hmount : hbox[b] = "archiving"

Unmounted == hmount = {}

DeleteLooks ==
    /\ hdeleting = "idle"
    /\ hhome \notin {"none", "removed"}
    /\ Unmounted
    /\ hdeleting' = "unmounted"
    /\ UNCHANGED <<hhome, hbox, hmount, hclaiming, hcleared, hjob, htries, hworkers, hwiped, hoverlap>>

DeleteHome ==
    /\ hdeleting = "unmounted"
    /\ MayWrite({})
    /\ hdeleting' = "idle"
    /\ IF hhome \in {"ready", "delete_failed"}
       THEN /\ hhome' = "deleting" /\ hjob' = "queued" /\ htries' = 0
            /\ hoverlap' = hoverlap \cup hclaiming \cup hmount
       ELSE UNCHANGED <<hhome, hjob, htries, hoverlap>>
    /\ UNCHANGED <<hbox, hmount, hclaiming, hcleared, hworkers, hwiped>>

(* A reader with an old snapshot cannot write; the request fails. *)
DeleteOutdated ==
    /\ hdeleting = "outdated"
    /\ hdeleting' = "idle"
    /\ UNCHANGED <<hhome, hbox, hmount, hclaiming, hcleared, hjob, htries, hworkers, hwiped, hoverlap>>

-----------------------------------------------------------------------------
(* The delete-home job. *)

ClaimDeletion ==
    /\ hjob = "queued"
    /\ MayWrite({})
    /\ hworkers < HomeAttempts
    /\ hjob' = "leased"
    /\ htries' = htries + 1
    /\ hworkers' = hworkers + 1
    /\ Outdates
    /\ UNCHANGED <<hhome, hbox, hmount, hclaiming, hcleared, hwiped, hoverlap>>

(* kubectl delete persistentvolumeclaim, by a worker that may have lost its *)
(* lease.                                                                   *)
DeleteClaim ==
    /\ hworkers > 0
    /\ hwiped' = TRUE
    /\ UNCHANGED <<hhome, hbox, hmount, hclaiming, hcleared, hdeleting, hjob, htries,
                   hworkers, hoverlap>>

(* A worker that ends without reporting, or whose report is refused. *)
WorkerEnds ==
    /\ hworkers > 0
    /\ hworkers' = hworkers - 1
    /\ UNCHANGED <<hhome, hbox, hmount, hclaiming, hcleared, hdeleting, hjob, htries,
                   hwiped, hoverlap>>

(* The completion removes the row; a mount's key restricts it, and the      *)
(* answer is an error that leaves the lease as it was.                      *)
CompleteDeletion ==
    /\ hjob = "leased"
    /\ MayWrite({})
    /\ hworkers > 0
    /\ hwiped
    /\ hhome = "deleting"
    /\ hmount = {}
    /\ hhome' = "removed"
    /\ hjob' = "completed"
    /\ hworkers' = hworkers - 1
    /\ Outdates
    /\ UNCHANGED <<hbox, hmount, hclaiming, hcleared, htries, hwiped, hoverlap>>

(* The worker reports a failure or the lease expires: another attempt, or   *)
(* the failure of the home.                                                 *)
FailDeletion ==
    /\ hjob = "leased"
    /\ MayWrite({})
    /\ IF htries < HomeAttempts
       THEN hjob' = "queued" /\ UNCHANGED hhome
       ELSE /\ hjob' = "dead"
            /\ hhome' = IF hhome = "deleting" THEN "delete_failed" ELSE hhome
    /\ Outdates
    /\ UNCHANGED <<hbox, hmount, hclaiming, hcleared, htries, hworkers, hwiped, hoverlap>>

(* The age sweep ends a queued job and leaves the home in deleting. *)
DeletionAges ==
    /\ hjob = "queued"
    /\ MayWrite({})
    /\ hjob' = "dead"
    /\ Outdates
    /\ UNCHANGED <<hhome, hbox, hmount, hclaiming, hcleared, htries, hworkers, hwiped, hoverlap>>

HomeNext ==
    /\ UNCHANGED hserial
    /\ \/ CreateHome
       \/ \E b \in HomeBoxes : \/ ClaimChecks(b) \/ ClaimMount(b) \/ ClaimRefused(b)
                               \/ BoxFails(b) \/ BoxStops(b) \/ BoxStopped(b)
       \/ ReconcileHomeMounts
       \/ DeleteLooks
       \/ DeleteHome
       \/ DeleteOutdated
       \/ ClaimDeletion
       \/ DeleteClaim
       \/ WorkerEnds
       \/ CompleteDeletion
       \/ FailDeletion
       \/ DeletionAges

HomeSpec == HomeInit /\ [][HomeNext]_hvars

-----------------------------------------------------------------------------
(* On SQLite the volume of a home is never deleted from under a mount,      *)
(* whatever attempts, late workers, replacements and repeated deletions     *)
(* there were ("home cannot be deleted while a sandbox is mounted",         *)
(* homes.rs:190).  On PostgreSQL one may be: a creation that checked the    *)
(* home before the deletion committed (homes.rs:181 and :466 look, neither  *)
(* locks); no creation that came after it ever is.                          *)
DeleteSparesMounted == hwiped => hmount \subseteq (IF hserial THEN {} ELSE hoverlap)

-----------------------------------------------------------------------------
=============================================================================
