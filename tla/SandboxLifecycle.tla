-------------------------- MODULE SandboxLifecycle --------------------------
(***************************************************************************)
(* The life of one sandbox: sandboxes.state, its runtime_resources rows,   *)
(* the jobs that build it (provision, fork, resume), the job that tears it *)
(* down (stop), the repair and retention sweeps of cleanup.rs, and the     *)
(* provider resources all of them are about.                               *)
(*                                                                         *)
(* A job's lease is folded into the job.  Module JobLease shows that a     *)
(* leased job has exactly one active lease (LeaseAuthority), so "leased"   *)
(* here is that lease, Complete, Fail and Expire are what its end does to  *)
(* the job and to the sandbox in one transaction, and work is what the     *)
(* worker that holds it has done at the provider so far.                   *)
(*                                                                         *)
(* The partial unique index idx_jobs_one_active_stop_per_sandbox admits    *)
(* one queued or leased stop job per sandbox, so the newest stop job is    *)
(* the only one that can still move: it is kept as one row, and of the     *)
(* earlier ones only whether some of them has status 'failed'.             *)
(*                                                                         *)
(* The provider is external and named by what it holds for the sandbox:    *)
(* nothing, the remains of an attempt that failed, a complete runtime, or  *)
(* a complete runtime that an accepted completion has reported.            *)
(***************************************************************************)
EXTENDS Naturals

CONSTANTS
    Builds,             \* ids of provision, fork and resume jobs
    MaxAttempts,        \* jobs.max_attempts of builds and requested stops
    CleanupMaxAttempts, \* max_attempts of a repair stop job
    Origins,            \* how the sandbox comes to be: "create", "fork"
    DirectJobs,         \* job kinds a tenant also posts to /v1/jobs
    QueuedJobsExpire,   \* SANDBOXWICH_QUEUED_JOB_MAX_AGE_SECONDS is not 0
    RecordsExpire,      \* sandboxes.ttl_seconds is set: retention deletes it
    LateEffects         \* a provider call may outlive the lease it ran under

ASSUME SandboxLifecycleAssumption ==
    /\ MaxAttempts \in Nat \ {0}
    /\ CleanupMaxAttempts \in Nat \ {0}
    /\ Origins \subseteq {"create", "fork"}
    /\ DirectJobs \subseteq {"provision", "fork", "resume", "stop"}
    /\ QueuedJobsExpire \in BOOLEAN
    /\ RecordsExpire \in BOOLEAN
    /\ LateEffects \in BOOLEAN

VARIABLES
    state,          \* sandboxes.state
    rows,           \* runtime_resources holds live rows of the sandbox
    awaiting,       \* a fork child's parent snapshot job is outstanding
    restorable,     \* a snapshot of the sandbox itself is ready
    kind, status, tries, work,                  \* build jobs
    stopStatus, stopTries, stopMax, stopWork,   \* the newest stop job
    stopFailed,     \* an earlier stop job has status 'failed'
    runtime,        \* what the provider holds
    late,           \* provider calls still running under an ended lease
    withdrawn       \* history: a job the sandbox waits for was ended unseen

buildTable == <<kind, status, tries, work>>
stopTable == <<stopStatus, stopTries, stopMax, stopWork, stopFailed>>
provider == <<runtime, late>>
snapshots == <<awaiting, restorable>>

system == <<state, rows, snapshots, buildTable, stopTable, provider>>
vars == <<system, withdrawn>>

-----------------------------------------------------------------------------
(* sandbox states; nothing moves a sandbox to running or idle yet *)

Pending == {"planning", "provisioning"}

Closing == {"archiving", "archived"}

SandboxState == Pending \cup Closing \cup {"ready", "error"}

NoRecord == {"none", "deleted"}

(* The predecessor sets of the compare-and-swap updates. *)
STOP_LEGAL_FROM == {"planning", "provisioning", "ready", "error"}

PROVISION_COMPLETED_LEGAL_FROM == {"planning", "provisioning", "ready", "error"}

PROVISION_FAILED_LEGAL_FROM == {"planning", "provisioning"}

(* set_sandbox_state: the update lands only on a legal predecessor. *)
Moved(from, to) == IF state \in from THEN to ELSE state

BuildKind == {"provision", "fork", "resume"}

JobStatus == {"none", "checked", "queued", "leased", "succeeded", "failed",
              "cancelled", "dead"}

Work == {"none", "executing", "applied", "errored", "refused"}

BuildActive(b) == status[b] \in {"queued", "leased"}

StopActive == stopStatus \in {"queued", "leased"}

-----------------------------------------------------------------------------

Init ==
    /\ state = "none"
    /\ rows = FALSE
    /\ awaiting = FALSE
    /\ restorable = FALSE
    /\ kind = [b \in Builds |-> "provision"]
    /\ status = [b \in Builds |-> "none"]
    /\ tries = [b \in Builds |-> 0]
    /\ work = [b \in Builds |-> "none"]
    /\ stopStatus = "none"
    /\ stopTries = 0
    /\ stopMax = MaxAttempts
    /\ stopWork = "none"
    /\ stopFailed = FALSE
    /\ runtime = "absent"
    /\ late = {}
    /\ withdrawn = FALSE

(* insert_job for a build, with an id that was not used before.             *)
InsertBuild(b, k, s) ==
    /\ status[b] = "none"
    /\ kind' = [kind EXCEPT ![b] = k]
    /\ status' = [status EXCEPT ![b] = s]
    /\ UNCHANGED <<tries, work>>

(* insert_job for a stop job.  The unique index refuses a second active one *)
(* and with it the transaction, so every use needs ~StopActive.             *)
InsertStop(max) ==
    /\ stopStatus' = "queued"
    /\ stopTries' = 0
    /\ stopMax' = max
    /\ stopWork' = "none"
    /\ UNCHANGED stopFailed

-----------------------------------------------------------------------------
(* Requests of a tenant. *)

CreateSandbox(b) ==
    /\ "create" \in Origins
    /\ state = "none"
    /\ state' = "planning"
    /\ InsertBuild(b, "provision", "queued")
    /\ UNCHANGED <<rows, snapshots, stopTable, provider>>

(* fork_sandbox creates the child and the snapshot job of its parent. *)
ForkSandbox ==
    /\ "fork" \in Origins
    /\ state = "none"
    /\ state' = "planning"
    /\ awaiting' = TRUE
    /\ UNCHANGED <<rows, restorable, buildTable, stopTable, provider>>

(* fork_snapshot: the child restores a snapshot that is ready already. *)
ForkSnapshot(b) ==
    /\ "fork" \in Origins
    /\ state = "none"
    /\ state' = "planning"
    /\ InsertBuild(b, "fork", "queued")
    /\ UNCHANGED <<rows, snapshots, stopTable, provider>>

(* stop_sandbox_via_job, for a stop request and for the lifetime reaper:    *)
(* queued work other than stop and provision jobs is cancelled.             *)
StopSandbox ==
    /\ state \in STOP_LEGAL_FROM
    /\ ~StopActive
    /\ state' = "archiving"
    /\ status' = [b \in Builds |->
                    IF status[b] = "queued" /\ kind[b] # "provision"
                    THEN "cancelled" ELSE status[b]]
    /\ InsertStop(MaxAttempts)
    /\ UNCHANGED <<rows, snapshots, kind, tries, work, provider>>

(* A divergence finding stops the sandbox too, and cancels nothing. *)
DivergenceStop ==
    /\ state \in STOP_LEGAL_FROM
    /\ ~StopActive
    /\ state' = "archiving"
    /\ InsertStop(MaxAttempts)
    /\ UNCHANGED <<rows, snapshots, buildTable, provider>>

(* stop_sandbox_via_job for the sandbox this one is forked from: the fork   *)
(* jobs of its children that are queued are cancelled, and so is its        *)
(* snapshot job unless a worker has it.                                     *)
StopParent ==
    /\ "fork" \in Origins
    /\ awaiting \/ \E b \in Builds : kind[b] = "fork" /\ status[b] = "queued"
    /\ awaiting' \in {FALSE, awaiting}
    /\ status' = [b \in Builds |->
                    IF status[b] = "queued" /\ kind[b] = "fork"
                    THEN "cancelled" ELSE status[b]]
    /\ UNCHANGED <<state, rows, restorable, kind, tries, work, stopTable, provider>>

(* Only a stopped sandbox is resumed, and only from a snapshot of its own.  *)
ResumeSandbox(b) ==
    /\ state = "archived"
    /\ restorable
    /\ state' = "provisioning"
    /\ InsertBuild(b, "resume", "queued")
    /\ UNCHANGED <<rows, snapshots, stopTable, provider>>

(* POST /v1/jobs: the tenant queues a job without moving the sandbox.       *)
PostBuild(b, k) ==
    /\ k \in DirectJobs \ {"resume", "stop"}
    /\ state \in SandboxState
    /\ InsertBuild(b, k, "queued")
    /\ UNCHANGED <<state, rows, snapshots, stopTable, provider>>

(* A posted resume is checked like a resume request, outside the insert.    *)
PostResumeCheck(b) ==
    /\ "resume" \in DirectJobs
    /\ state = "archived"
    /\ restorable
    /\ InsertBuild(b, "resume", "checked")
    /\ UNCHANGED <<state, rows, snapshots, stopTable, provider>>

PostResumeInsert(b) ==
    /\ status[b] = "checked"
    /\ status' = [status EXCEPT ![b] = "queued"]
    /\ UNCHANGED <<state, rows, snapshots, kind, tries, work, stopTable, provider>>

PostStop ==
    /\ "stop" \in DirectJobs
    /\ state \in SandboxState
    /\ ~StopActive
    /\ InsertStop(MaxAttempts)
    /\ UNCHANGED <<state, rows, snapshots, buildTable, provider>>

-----------------------------------------------------------------------------
(* Snapshot jobs: of the parent, as its end concerns a waiting fork child,  *)
(* and of the sandbox itself.                                               *)

(* queue_forks_waiting_on_snapshot selects children still in planning. *)
SnapshotReady(b) ==
    /\ awaiting
    /\ awaiting' = FALSE
    /\ \/ /\ state = "planning"
          /\ InsertBuild(b, "fork", "queued")
       \/ /\ state # "planning"
          /\ UNCHANGED buildTable
    /\ UNCHANGED <<state, rows, restorable, stopTable, provider>>

SnapshotFailed ==
    /\ awaiting
    /\ awaiting' = FALSE
    /\ state' = Moved({"planning"}, "error")
    /\ UNCHANGED <<rows, restorable, buildTable, stopTable, provider>>

(* A snapshot job of the sandbox itself succeeds.  There must be a volume   *)
(* to take it from; the sandbox may be in any state.                        *)
SnapshotTaken ==
    /\ ~restorable
    /\ state \in SandboxState
    /\ runtime # "absent"
    /\ restorable' = TRUE
    /\ UNCHANGED <<state, rows, awaiting, buildTable, stopTable, provider>>

(* expire_due_snapshots ends the last snapshot that could be restored. *)
SnapshotExpired ==
    /\ restorable
    /\ restorable' = FALSE
    /\ UNCHANGED <<state, rows, awaiting, buildTable, stopTable, provider>>

-----------------------------------------------------------------------------
(* A build job under its lease. *)

(* try_claim_job with apply_claimed_job.  A job whose sandbox record is     *)
(* deleted has no placement and is never claimed.                           *)
ClaimBuild(b) ==
    /\ status[b] = "queued"
    /\ state \in SandboxState
    /\ status' = [status EXCEPT ![b] = "leased"]
    /\ tries' = [tries EXCEPT ![b] = @ + 1]
    /\ work' = [work EXCEPT ![b] = "executing"]
    /\ state' = IF kind[b] = "fork" THEN Moved({"planning"}, "provisioning")
                                    ELSE state
    /\ UNCHANGED <<rows, snapshots, kind, stopTable, provider>>

(* The provider brings the runtime up. *)
ApplyRuntime(b) ==
    /\ work[b] = "executing"
    /\ work' = [work EXCEPT ![b] = "applied"]
    /\ runtime' = "built"
    /\ UNCHANGED <<state, rows, snapshots, kind, status, tries, stopTable, late>>

(* The provider call ends in an error.  Depending on where, nothing was     *)
(* touched, the sandbox's resources were rolled back, or the call was cut   *)
(* short and left what it had made.                                         *)
BuildError(b) ==
    /\ work[b] = "executing"
    /\ work' = [work EXCEPT ![b] = "errored"]
    /\ runtime' \in {"absent", "partial", runtime}
    /\ UNCHANGED <<state, rows, snapshots, kind, status, tries, stopTable, late>>

(* enqueue_archived_runtime_cleanup: nothing while a stop job is active.    *)
EnqueueCleanup ==
    \/ StopActive /\ UNCHANGED stopTable
    \/ ~StopActive /\ InsertStop(CleanupMaxAttempts)

(* Faulty variant: a completion moves the sandbox from any state.           *)
RecordBuiltAnywhere(b) ==
    /\ rows' = TRUE
    /\ runtime' = IF runtime = "built" THEN "reported" ELSE runtime
    /\ state' = "ready"
    /\ UNCHANGED stopTable

(* apply_completed_job of a build: record the runtime rows, then move the   *)
(* sandbox; a provision that lost to a stop asks for teardown instead.  The *)
(* handle of every provider names a resource, so the branches for an empty  *)
(* list are not taken.                                                      *)
RecordBuilt(b) ==
    /\ rows' = TRUE
    /\ runtime' = IF runtime = "built" THEN "reported" ELSE runtime
    /\ state' = Moved(IF kind[b] = "provision" THEN PROVISION_COMPLETED_LEGAL_FROM
                                               ELSE {"provisioning"}, "ready")
    /\ IF kind[b] = "provision" /\ state \in Closing THEN EnqueueCleanup
                                                     ELSE UNCHANGED stopTable

CompleteBuild(b) ==
    /\ status[b] = "leased"
    /\ work[b] = "applied"
    /\ state \in SandboxState
    /\ RecordBuilt(b)
    /\ status' = [status EXCEPT ![b] = "succeeded"]
    /\ work' = [work EXCEPT ![b] = "none"]
    /\ UNCHANGED <<snapshots, kind, tries, late>>

(* Recording the rows of a deleted sandbox answers not found: the whole     *)
(* completion is rolled back and the lease stays as it was.                 *)
RefuseCompletion(b) ==
    /\ status[b] = "leased"
    /\ work[b] = "applied"
    /\ state = "deleted"
    /\ work' = [work EXCEPT ![b] = "refused"]
    /\ UNCHANGED <<state, rows, snapshots, kind, status, tries, stopTable, provider>>

(* apply_retryable_job and apply_failed_job, as they move the sandbox.      *)
StateAfterRetry(b) ==
    IF kind[b] = "fork" THEN Moved({"provisioning"}, "planning") ELSE state

(* Faulty variant: an exhausted provision or resume leaves the sandbox. *)
StateAfterFailureIgnored(b) ==
    IF kind[b] = "fork" THEN Moved({"provisioning"}, "error") ELSE state

StateAfterFailure(b) ==
    CASE kind[b] = "provision" -> Moved(PROVISION_FAILED_LEGAL_FROM, "error")
      [] kind[b] = "fork" -> Moved({"provisioning"}, "error")
      [] kind[b] = "resume" -> Moved({"provisioning"}, "archived")

(* A lease ends without a result: the job waits again, or is over.          *)
EndBuild(b, again, over) ==
    /\ status' = [status EXCEPT ![b] = IF again THEN "queued" ELSE over]
    /\ state' = IF again THEN StateAfterRetry(b) ELSE StateAfterFailure(b)
    /\ work' = [work EXCEPT ![b] = "none"]
    /\ UNCHANGED <<rows, snapshots, kind, tries, stopTable, runtime>>

FailBuild(b, retry) ==
    /\ status[b] = "leased"
    /\ work[b] = "errored"
    /\ EndBuild(b, retry /\ tries[b] < MaxAttempts, "failed")
    /\ UNCHANGED late

ExpireBuild(b) ==
    /\ status[b] = "leased"
    /\ EndBuild(b, tries[b] < MaxAttempts, "dead")
    /\ late' = IF LateEffects /\ work[b] = "executing" THEN late \cup {"apply"}
                                                       ELSE late

-----------------------------------------------------------------------------
(* The stop job under its lease. *)

ClaimStop ==
    /\ stopStatus = "queued"
    /\ state \in SandboxState
    /\ stopStatus' = "leased"
    /\ stopTries' = stopTries + 1
    /\ stopWork' = "executing"
    /\ UNCHANGED <<state, rows, snapshots, buildTable, stopMax, stopFailed, provider>>

(* The provider deletes whatever carries the sandbox's label. *)
TearDownRuntime ==
    /\ stopWork = "executing"
    /\ stopWork' = "applied"
    /\ runtime' = "absent"
    /\ UNCHANGED <<state, rows, snapshots, buildTable, stopStatus, stopTries,
                   stopMax, stopFailed, late>>

TearDownError ==
    /\ stopWork = "executing"
    /\ stopWork' = "errored"
    /\ runtime' \in {runtime, IF runtime = "absent" THEN "absent" ELSE "partial"}
    /\ UNCHANGED <<state, rows, snapshots, buildTable, stopStatus, stopTries,
                   stopMax, stopFailed, late>>

(* Faulty variant: a stop completion retires the rows in every state. *)
RetireRuntimeRowsAlways ==
    rows' = FALSE

RetireRuntimeRows ==
    rows' = IF state \in Closing THEN FALSE ELSE rows

CompleteStop ==
    /\ stopStatus = "leased"
    /\ stopWork = "applied"
    /\ stopStatus' = "succeeded"
    /\ stopWork' = "none"
    /\ state' = Moved({"archiving"}, "archived")
    /\ RetireRuntimeRows
    /\ UNCHANGED <<snapshots, buildTable, stopTries, stopMax, stopFailed, provider>>

(* An ended stop lease moves nothing but its job. *)
EndStop(again, over) ==
    /\ stopStatus' = IF again THEN "queued" ELSE over
    /\ stopWork' = "none"
    /\ stopFailed' = (stopFailed \/ stopStatus' = "failed")
    /\ UNCHANGED <<state, rows, snapshots, buildTable, stopTries, stopMax, runtime>>

FailStop(retry) ==
    /\ stopStatus = "leased"
    /\ stopWork = "errored"
    /\ EndStop(retry /\ stopTries < stopMax, "failed")
    /\ UNCHANGED late

ExpireStop ==
    /\ stopStatus = "leased"
    /\ EndStop(stopTries < stopMax, "dead")
    /\ late' = IF LateEffects /\ stopWork = "executing" THEN late \cup {"teardown"}
                                                        ELSE late

-----------------------------------------------------------------------------
(* Sweeps. *)

(* Faulty variant: only sandboxes still archiving are repaired. *)
NeedsTeardownArchivingOnly == state = "archiving" /\ stopFailed

NeedsTeardown ==
    \/ state = "archived" /\ rows
    \/ state = "archiving" /\ stopFailed

(* reconcile_archived_runtime_resources *)
ReconcileArchived ==
    /\ NeedsTeardown
    /\ ~StopActive
    /\ EnqueueCleanup
    /\ UNCHANGED <<state, rows, snapshots, buildTable, provider>>

(* cleanup_archived_sandboxes, once ttl_seconds have passed and unless a    *)
(* snapshot can still be restored: the rows go with the record.             *)
DeleteArchived ==
    /\ RecordsExpire
    /\ state = "archived"
    /\ ~restorable
    /\ state' = "deleted"
    /\ rows' = FALSE
    /\ UNCHANGED <<snapshots, buildTable, stopTable, provider>>

(* expire_stale_queued_jobs ends queued jobs of every kind and nothing      *)
(* else; the claim scan does the same to jobs of a deleted sandbox.         *)
DropBuild(b) ==
    /\ QueuedJobsExpire \/ state = "deleted"
    /\ status[b] = "queued"
    /\ status' = [status EXCEPT ![b] = "dead"]
    /\ UNCHANGED <<state, rows, snapshots, kind, tries, work, stopTable, provider>>

DropStop ==
    /\ QueuedJobsExpire \/ state = "deleted"
    /\ stopStatus = "queued"
    /\ stopStatus' = "dead"
    /\ UNCHANGED <<state, rows, snapshots, buildTable, stopTries, stopMax,
                   stopWork, stopFailed, provider>>

DropSnapshot ==
    /\ QueuedJobsExpire
    /\ awaiting
    /\ awaiting' = FALSE
    /\ UNCHANGED <<state, rows, restorable, buildTable, stopTable, provider>>

-----------------------------------------------------------------------------
(* Provider calls of workers that lost their lease. *)

LateApply ==
    /\ "apply" \in late
    /\ late' = late \ {"apply"}
    /\ runtime' \in {"absent", "partial", "built"}
    /\ UNCHANGED <<state, rows, snapshots, buildTable, stopTable>>

LateTearDown ==
    /\ "teardown" \in late
    /\ late' = late \ {"teardown"}
    /\ runtime' = "absent"
    /\ UNCHANGED <<state, rows, snapshots, buildTable, stopTable>>

-----------------------------------------------------------------------------

Request ==
    \/ \E b \in Builds :
          \/ CreateSandbox(b) \/ ForkSnapshot(b) \/ ResumeSandbox(b)
          \/ \E k \in {"provision", "fork"} : PostBuild(b, k)
          \/ PostResumeCheck(b) \/ PostResumeInsert(b)
    \/ ForkSandbox \/ StopSandbox \/ DivergenceStop \/ StopParent \/ PostStop

Snapshot ==
    \/ \E b \in Builds : SnapshotReady(b)
    \/ SnapshotFailed \/ SnapshotTaken \/ SnapshotExpired

Build == \E b \in Builds :
    \/ ClaimBuild(b) \/ ApplyRuntime(b) \/ BuildError(b)
    \/ CompleteBuild(b) \/ RefuseCompletion(b)
    \/ \E retry \in BOOLEAN : FailBuild(b, retry)
    \/ ExpireBuild(b)

TearDown ==
    \/ ClaimStop \/ TearDownRuntime \/ TearDownError \/ CompleteStop
    \/ \E retry \in BOOLEAN : FailStop(retry)
    \/ ExpireStop

Sweep ==
    \/ ReconcileArchived \/ DeleteArchived
    \/ \E b \in Builds : DropBuild(b)
    \/ DropStop \/ DropSnapshot

Late == LateApply \/ LateTearDown

Step == Request \/ Snapshot \/ Build \/ TearDown \/ Sweep \/ Late

(* A queued job is aged out or cancelled, or the snapshot a fork child      *)
(* waits for is, and nothing is done to the sandbox.                        *)
Withdraws ==
    \/ \E b \in Builds : status[b] = "queued" /\ status'[b] \in {"cancelled", "dead"}
    \/ state = "planning" /\ awaiting /\ ~awaiting' /\ UNCHANGED <<state, status>>

Next ==
    /\ Step
    /\ withdrawn' = (state' \in Pending /\ (withdrawn \/ Withdraws))

Spec == Init /\ [][Next]_vars

(* The sweeps run on a timer, so each is taken when it stays possible.  A   *)
(* stop attempt may age out, fail or be cut short any number of times, but  *)
(* not forever: again and again a worker is online before the job is too    *)
(* old, and the provider is reachable for the length of a lease.            *)
FairSpec ==
    /\ Spec
    /\ WF_system(ReconcileArchived)
    /\ WF_system(ExpireStop)
    /\ SF_system(ClaimStop)
    /\ SF_system(TearDownRuntime)
    /\ SF_system(CompleteStop)

-----------------------------------------------------------------------------
(* Properties. *)

(* Every column holds a value of its type. *)
TypeOK ==
    /\ state \in SandboxState \cup NoRecord
    /\ rows \in BOOLEAN
    /\ awaiting \in BOOLEAN
    /\ restorable \in BOOLEAN
    /\ kind \in [Builds -> BuildKind]
    /\ status \in [Builds -> JobStatus]
    /\ tries \in [Builds -> 0 .. MaxAttempts]
    /\ work \in [Builds -> Work]
    /\ stopStatus \in JobStatus \ {"checked", "cancelled"}
    /\ stopTries \in 0 .. stopMax
    /\ stopMax \in {MaxAttempts, CleanupMaxAttempts}
    /\ stopWork \in Work \ {"refused"}
    /\ stopFailed \in BOOLEAN
    /\ runtime \in {"absent", "partial", "built", "reported"}
    /\ late \subseteq {"apply", "teardown"}
    /\ withdrawn \in BOOLEAN

(* A usable sandbox has a recorded runtime: no stop completion that belongs *)
(* to an earlier life of the sandbox, however late, retires the rows of the *)
(* runtime a resume or a provision has recorded since                       *)
(* (apply_completed_job retires only for an archiving or archived sandbox). *)
ReadyHasRows == state = "ready" => rows

(* A sandbox that is still to come up has work that can bring it up: its    *)
(* build job is queued or leased, or its parent's snapshot is outstanding   *)
(* (the last end of a build moves the sandbox out of planning and           *)
(* provisioning in the same transaction).  One thing alone strands it: the  *)
(* job it was waiting for was ended while queued, by the age sweep          *)
(* (jobs.rs:875) or by the stop of its parent (sandboxes.rs:853), which     *)
(* leave the sandbox as it is; no failure, retry, late end of an earlier    *)
(* job or job posted beside it does.                                        *)
PendingHasJob ==
    state \in Pending => awaiting \/ withdrawn \/ \E b \in Builds : BuildActive(b)

Revives ==
    state \in Closing /\ state' \notin Closing =>
        \/ state' = "deleted"
        \/ /\ state = "archived"
           /\ state' = "provisioning"
           /\ \E b \in Builds : status[b] = "none" /\ status'[b] = "queued"

(* A stopped sandbox stays stopped: whatever completes, fails or expires    *)
(* afterwards, only a resume request, which queues its own job, takes an    *)
(* archived sandbox back, and nothing takes back an archiving one.          *)
NoResurrection == [][Revives]_vars

(* An archived sandbox does not keep live runtime rows: the repair sweep    *)
(* queues teardown until one succeeds, whatever became of earlier ones.     *)
ArchivedRowsRetired ==
    (state = "archived" /\ rows) ~> (state # "archived" \/ ~rows)
=============================================================================
