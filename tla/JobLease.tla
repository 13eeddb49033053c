------------------------------ MODULE JobLease ------------------------------
(***************************************************************************)
(* The durable job queue of sandboxwich-api: the tables jobs, job_leases,  *)
(* lease_claim_operations, workers, worker_drain_receipts and              *)
(* worker_drain_lease_fences, and every transaction that moves a job or a  *)
(* lease between statuses.                                                 *)
(*                                                                         *)
(* One action is one committed database transaction (or one single         *)
(* statement outside a transaction).  A handler that runs several of them  *)
(* is several actions, and what it remembers in between is state: a lease  *)
(* claim reads its candidate on the read-only pool and commits later, so   *)
(* the row it read may be stale by then (the variable claims).             *)
(*                                                                         *)
(* Time is relative.  A timestamp column in the future is the number of    *)
(* ticks until it is reached (0: it is due), and a timestamp in the past   *)
(* is the number of ticks since, counted up to the threshold the code      *)
(* compares it with.  Nothing compares timestamps in another way.          *)
(***************************************************************************)
EXTENDS Integers, FiniteSets

CONSTANTS
    Jobs,           \* job ids
    ResidentJobs,   \* the jobs of kind run_resident_process
    Unplaceable,    \* jobs whose placement may fail to resolve
    Clogged,        \* jobs of commands whose output has no room for an error text
    Workers,        \* worker ids (a logical worker identity)
    Eligible,       \* <<w, j>>: w has the capability, class and placement of j
    Leases,         \* lease ids that may be handed out
    Requests,       \* claim requests that can be in flight at once
    Operations,     \* idempotency keys of claim requests
    Shutdowns,      \* shutdown ids of typed drain requests
    StopScopes,     \* per sandbox, its jobs other than stop and provision jobs
    MaxAttempts,    \* jobs.max_attempts
    LeaseSeconds,   \* values of effective_lease_seconds
    DrainSeconds,   \* distances of a drain's hard deadline that are accepted
    Capacities,     \* values of workers.max_concurrent_jobs
    QueuedJobMaxAge,\* SANDBOXWICH_QUEUED_JOB_MAX_AGE_SECONDS, 0 disables it
    OfflineAfter,   \* the 90 seconds of reconcile_worker_liveness
    None            \* SQL null

ASSUME JobLeaseAssumption ==
    /\ ResidentJobs \subseteq Jobs
    /\ Unplaceable \subseteq Jobs
    /\ Clogged \subseteq Jobs \ ResidentJobs
    /\ Eligible \subseteq Workers \X Jobs
    /\ \A S \in StopScopes : S \subseteq Jobs
    /\ MaxAttempts \in Nat \ {0}
    /\ LeaseSeconds \subseteq Nat \ {0}
    /\ DrainSeconds \subseteq Nat \ {0}
    /\ Capacities \subseteq Nat \ {0}
    /\ QueuedJobMaxAge \in Nat
    /\ OfflineAfter \in Nat
    /\ None \notin Jobs \cup Workers \cup Leases \cup Operations

VARIABLES
    (* jobs *)
    jobStatus,      \* [Jobs -> JobStatus]
    attempts,       \* how often the job was claimed, as try_claim_job counts
    age,            \* ticks since scheduled_at
    (* job_leases *)
    leaseStatus,    \* [Leases -> LeaseStatus]
    leaseJob, leaseWorker, leaseOp,   \* written once, when the row is inserted
    ttl,            \* ticks until expires_at
    cancelled,      \* leases with cancel_requested_at set
    (* workers *)
    workerStatus,   \* [Workers -> WorkerStatus]
    silent,         \* ticks since last_heartbeat_at, or registered_at
    capacity,       \* max_concurrent_jobs
    (* worker_drain_receipts, worker_drain_lease_fences *)
    receiptStatus, receiptWorker,
    remaining,      \* ticks until hard_deadline
    fences,         \* outcome per shutdown and lease
    (* lease_claim_operations and resident_processes *)
    operations,     \* lease recorded under (worker, operation)
    stopping,       \* resident jobs whose process has desired_state 'stopped'
    delivered,      \* resident jobs whose bootstrap was delivered to a lease
    (* in memory *)
    claims,         \* claim requests between candidate scan and commit
    (* history *)
    waited          \* ticks a job has been queued without interruption

jobTable == <<jobStatus, attempts, age, waited>>
leaseTable == <<leaseStatus, leaseJob, leaseWorker, leaseOp, ttl, cancelled>>
workerTable == <<workerStatus, silent, capacity>>
drainTable == <<receiptStatus, receiptWorker, remaining, fences>>
residentTable == <<stopping, delivered>>

vars == <<jobTable, leaseTable, workerTable, drainTable, residentTable,
          operations, claims>>

-----------------------------------------------------------------------------
(* Column types. *)

TerminalJobStatus == {"succeeded", "failed", "cancelled", "dead"}

JobStatus == {"none", "queued", "leased"} \cup TerminalJobStatus

TerminalLeaseStatus == {"completed", "failed", "expired"}

LeaseStatus == {"none", "active"} \cup TerminalLeaseStatus

WorkerStatus == {"none", "registered", "online", "draining", "offline"}

ReceiptStatus == {"none", "open", "retired"}

FenceOutcome == {"none", "open"} \cup TerminalLeaseStatus

(* A claim request: idle, or the columns it read before its transaction.    *)
ClaimRow == [phase : {"idle", "scanned"}, worker : Workers \cup {None},
             op : Operations \cup {None}, job : Jobs \cup {None},
             attempts : Nat, capacity : Nat]

IdleClaim == [phase |-> "idle", worker |-> None, op |-> None, job |-> None,
              attempts |-> 0, capacity |-> 0]

Minimum(a, b) == IF a <= b THEN a ELSE b

IsActive(l) == leaseStatus[l] = "active"

HoldsActive(l, w) == IsActive(l) /\ leaseWorker[l] = w

(* The active leases that count against a worker's capacity: resident       *)
(* processes do not.                                                        *)
ActiveLeases(w) ==
    {l \in Leases : HoldsActive(l, w) /\ leaseJob[l] \notin ResidentJobs}

HasOpenReceipt(w) ==
    \E s \in Shutdowns : receiptStatus[s] = "open" /\ receiptWorker[s] = w

-----------------------------------------------------------------------------

Init ==
    /\ jobStatus = [j \in Jobs |-> "none"]
    /\ attempts = [j \in Jobs |-> 0]
    /\ age = [j \in Jobs |-> 0]
    /\ waited = [j \in Jobs |-> 0]
    /\ leaseStatus = [l \in Leases |-> "none"]
    /\ leaseJob = [l \in Leases |-> None]
    /\ leaseWorker = [l \in Leases |-> None]
    /\ leaseOp = [l \in Leases |-> None]
    /\ ttl = [l \in Leases |-> 0]
    /\ cancelled = {}
    /\ workerStatus = [w \in Workers |-> "none"]
    /\ silent = [w \in Workers |-> 0]
    /\ capacity = [w \in Workers |-> 0]
    /\ receiptStatus = [s \in Shutdowns |-> "none"]
    /\ receiptWorker = [s \in Shutdowns |-> None]
    /\ remaining = [s \in Shutdowns |-> 0]
    /\ fences = [s \in Shutdowns |-> [l \in Leases |-> "none"]]
    /\ operations = [w \in Workers |-> [o \in Operations |-> None]]
    /\ stopping = {}
    /\ delivered = {}
    /\ claims = [r \in Requests |-> IdleClaim]

(* A handler inserts a queued job with scheduled_at = now.                  *)
CreateJob(j) ==
    /\ jobStatus[j] = "none"
    /\ jobStatus' = [jobStatus EXCEPT ![j] = "queued"]
    /\ UNCHANGED <<attempts, age, waited, leaseTable, workerTable, drainTable,
                   residentTable, operations, claims>>

-----------------------------------------------------------------------------
(* Claiming a lease: claim_lease reads a candidate, try_claim_job commits.  *)

(* The read-only half of claim_lease: an operation id that already has a    *)
(* lease is answered from the record, a saturated worker is turned away,    *)
(* and the candidate row, the worker row and the attempt count are read.    *)
ScanCandidates(r, w, o, j) ==
    /\ claims[r].phase = "idle"
    /\ workerStatus[w] # "none"
    /\ o # None => operations[w][o] = None
    /\ Cardinality(ActiveLeases(w)) < capacity[w]
    /\ jobStatus[j] = "queued"
    /\ <<w, j>> \in Eligible
    /\ j \notin stopping
    /\ claims' = [claims EXCEPT ![r] =
                    [phase |-> "scanned", worker |-> w, op |-> o, job |-> j,
                     attempts |-> attempts[j], capacity |-> capacity[w]]]
    /\ UNCHANGED <<jobTable, leaseTable, workerTable, drainTable,
                   residentTable, operations>>

(* A candidate whose authoritative placement cannot be rebuilt is           *)
(* dead-lettered if it is still queued, and the scan goes on without it.    *)
RejectPlacement(r) ==
    /\ claims[r].phase = "scanned"
    /\ claims[r].job \in Unplaceable
    /\ jobStatus' = [jobStatus EXCEPT ![claims[r].job] =
                        IF @ = "queued" THEN "dead" ELSE @]
    /\ claims' = [claims EXCEPT ![r] = IdleClaim]
    /\ UNCHANGED <<attempts, age, waited, leaseTable, workerTable, drainTable,
                   residentTable, operations>>

(* Faulty variants: the slot is not counted again under the worker lock,    *)
ClaimAdmittedUncounted(c) ==
    /\ workerStatus[c.worker] \in {"registered", "online"}
    /\ jobStatus[c.job] = "queued"
    /\ c.job \notin stopping
    /\ c.op # None => operations[c.worker][c.op] = None

(* ... the update of the job row has no status guard,                       *)
ClaimAdmittedUnguarded(c) ==
    /\ workerStatus[c.worker] \in {"registered", "online"}
    /\ Cardinality(ActiveLeases(c.worker)) < c.capacity
    /\ c.job \notin stopping
    /\ c.op # None => operations[c.worker][c.op] = None

(* ... the operations table has no primary key.                             *)
ClaimAdmittedUnkeyed(c) ==
    /\ workerStatus[c.worker] \in {"registered", "online"}
    /\ Cardinality(ActiveLeases(c.worker)) < c.capacity
    /\ jobStatus[c.job] = "queued"
    /\ c.job \notin stopping

(* What the transaction of try_claim_job requires of the current rows: the  *)
(* worker row locked while it admits work, a free slot counted under that   *)
(* lock, the job still queued, a resident process still wanted, and no row  *)
(* of the same operation id (the primary key aborts the transaction).       *)
ClaimAdmitted(c) ==
    /\ workerStatus[c.worker] \in {"registered", "online"}
    /\ Cardinality(ActiveLeases(c.worker)) < c.capacity
    /\ jobStatus[c.job] = "queued"
    /\ c.job \notin stopping
    /\ c.op # None => operations[c.worker][c.op] = None

(* try_claim_job commits. The attempt number comes from the row that the    *)
(* scan read, not from the current one.                                     *)
TryClaimJob(r, l, seconds) ==
    LET c == claims[r] IN
    /\ c.phase = "scanned"
    /\ ClaimAdmitted(c)
    /\ leaseStatus[l] = "none"
    /\ jobStatus' = [jobStatus EXCEPT ![c.job] = "leased"]
    /\ attempts' = [attempts EXCEPT ![c.job] = c.attempts + 1]
    /\ waited' = [waited EXCEPT ![c.job] = 0]
    /\ leaseStatus' = [leaseStatus EXCEPT ![l] = "active"]
    /\ leaseJob' = [leaseJob EXCEPT ![l] = c.job]
    /\ leaseWorker' = [leaseWorker EXCEPT ![l] = c.worker]
    /\ leaseOp' = [leaseOp EXCEPT ![l] = c.op]
    /\ ttl' = [ttl EXCEPT ![l] = seconds]
    /\ operations' = IF c.op = None THEN operations
                     ELSE [operations EXCEPT ![c.worker][c.op] = l]
    /\ claims' = [claims EXCEPT ![r] = IdleClaim]
    /\ UNCHANGED <<age, cancelled, workerTable, drainTable, residentTable>>

(* The transaction rolls back, the candidate window runs out, or the API    *)
(* process or the connection dies before the commit.                        *)
AbandonClaim(r) ==
    /\ claims[r].phase = "scanned"
    /\ claims' = [claims EXCEPT ![r] = IdleClaim]
    /\ UNCHANGED <<jobTable, leaseTable, workerTable, drainTable,
                   residentTable, operations>>

-----------------------------------------------------------------------------
(* The holder of a lease: renew, complete, fail.                            *)

OpenFences(l) == {s \in Shutdowns : fences[s][l] = "open"}

(* Faulty variants: a renewal does not look at the drain fences,            *)
RenewedTtlUncapped(l, seconds) == {seconds}

(* The earliest unresolved hard deadline caps what a renewal may ask for.   *)
RenewedTtl(l, seconds) ==
    {t \in {seconds} \cup {remaining[s] : s \in OpenFences(l)} :
        /\ t <= seconds
        /\ \A s \in OpenFences(l) : t <= remaining[s]}

(* Faulty variant: a renewal does not look at cancel_requested_at.          *)
RenewCancelledLease(l, seconds) ==
    /\ IsActive(l)
    /\ ttl[l] > 0
    /\ \A s \in OpenFences(l) : remaining[s] > 0
    /\ \E t \in RenewedTtl(l, seconds) : ttl' = [ttl EXCEPT ![l] = t]
    /\ UNCHANGED <<jobTable, leaseStatus, leaseJob, leaseWorker, leaseOp,
                   cancelled, workerTable, drainTable, residentTable,
                   operations, claims>>

(* Renewal is refused once cancellation was requested, once a drain deadline*)
(* has passed, and once the lease is due even if no sweep has expired it.   *)
RenewLease(l, seconds) ==
    /\ IsActive(l)
    /\ l \notin cancelled
    /\ ttl[l] > 0
    /\ \A s \in OpenFences(l) : remaining[s] > 0
    /\ \E t \in RenewedTtl(l, seconds) : ttl' = [ttl EXCEPT ![l] = t]
    /\ UNCHANGED <<jobTable, leaseStatus, leaseJob, leaseWorker, leaseOp,
                   cancelled, workerTable, drainTable, residentTable,
                   operations, claims>>

(* Every terminal transition resolves the drain fences that captured the    *)
(* lease, in the same transaction. A fence stores worker, job and attempt   *)
(* of the lease; those columns of a lease row are never updated.            *)
ResolveCaptured(l, outcome) ==
    [s \in Shutdowns |->
        [fences[s] EXCEPT ![l] = IF @ = "open" THEN outcome ELSE @]]

(* The lease ends with one status, its job gets another: the job row is     *)
(* updated by its id alone.                                                 *)
Terminate(l, outcome, status) ==
    /\ leaseStatus' = [leaseStatus EXCEPT ![l] = outcome]
    /\ jobStatus' = [jobStatus EXCEPT ![leaseJob[l]] = status]
    /\ waited' = [waited EXCEPT ![leaseJob[l]] = 0]
    /\ fences' = ResolveCaptured(l, outcome)
    /\ UNCHANGED <<attempts, age, leaseJob, leaseWorker, leaseOp, ttl,
                   cancelled, workerTable, receiptStatus, receiptWorker,
                   remaining, residentTable, operations, claims>>

(* Faulty variant: completion does not look at the status of the lease.     *)
CompleteAnyLease(l) ==
    /\ leaseStatus[l] # "none"
    /\ Terminate(l, "completed", "succeeded")

(* Completion is accepted from the holder as long as the row is active,     *)
(* whatever its expiry time and its cancellation flag say; a replay on a    *)
(* completed lease changes nothing.                                         *)
CompleteLease(l) ==
    /\ IsActive(l)
    /\ Terminate(l, "completed", "succeeded")

(* A failure is retried while attempts remain, unless the single-use        *)
(* bootstrap of a resident process was already delivered.                   *)
Retryable(j) ==
    /\ attempts[j] < MaxAttempts
    /\ j \notin delivered

(* apply_failed_job appends the error to the command's output; where that   *)
(* is refused the transaction is rolled back and the lease stays active.    *)
FailureRecorded(j) == j \notin Clogged

FailLease(l, retry) ==
    /\ IsActive(l)
    /\ \/ /\ retry /\ Retryable(leaseJob[l])
          /\ Terminate(l, "failed", "queued")
       \/ /\ ~(retry /\ Retryable(leaseJob[l])) /\ FailureRecorded(leaseJob[l])
          /\ Terminate(l, "failed", "failed")

(* A resident process reads its bootstrap under its active lease.           *)
DeliverBootstrap(l) ==
    /\ IsActive(l)
    /\ ttl[l] > 0
    /\ leaseJob[l] \in ResidentJobs
    /\ delivered' = delivered \cup {leaseJob[l]}
    /\ UNCHANGED <<jobTable, leaseTable, workerTable, drainTable, stopping,
                   operations, claims>>

-----------------------------------------------------------------------------
(* Tenant requests that withdraw work.                                      *)

(* stop_sandbox_via_job: queued work of the sandbox is cancelled, leased    *)
(* work is asked to stop, resident processes lose their desired state.      *)
StopSandbox(S) ==
    /\ jobStatus' = [j \in Jobs |->
                       IF j \in S /\ jobStatus[j] = "queued"
                       THEN "cancelled" ELSE jobStatus[j]]
    /\ cancelled' = cancelled \cup
                      {l \in Leases : IsActive(l) /\ leaseJob[l] \in S}
    /\ stopping' = stopping \cup
                     {j \in S \cap ResidentJobs : jobStatus[j] # "none"}
    /\ UNCHANGED <<attempts, age, waited, leaseStatus, leaseJob, leaseWorker,
                   leaseOp, ttl, workerTable, drainTable, delivered,
                   operations, claims>>

(* stop_resident_process: a job still queued ends as succeeded at once, a   *)
(* leased one is left to its holder or to the expiry sweep.                 *)
StopResidentProcess(j) ==
    /\ j \in ResidentJobs
    /\ jobStatus[j] # "none"
    /\ jobStatus' = [jobStatus EXCEPT ![j] =
                        IF @ = "queued" THEN "succeeded" ELSE @]
    /\ stopping' = stopping \cup {j}
    /\ UNCHANGED <<attempts, age, waited, leaseTable, workerTable, drainTable,
                   delivered, operations, claims>>

-----------------------------------------------------------------------------
(* Worker sessions.                                                         *)

(* A worker (re-)registers under its logical identity: its leases stay, and *)
(* an unretired drain receipt keeps it draining.                            *)
RegisterWorker(w, slots) ==
    /\ workerStatus' = [workerStatus EXCEPT ![w] =
                          IF HasOpenReceipt(w) THEN "draining"
                          ELSE "registered"]
    /\ silent' = [silent EXCEPT ![w] = 0]
    /\ capacity' = [capacity EXCEPT ![w] = slots]
    /\ UNCHANGED <<jobTable, leaseTable, drainTable, residentTable, operations,
                   claims>>

(* A heartbeat brings a worker online unless it drains; it may carry a new  *)
(* capacity.                                                                *)
HeartbeatWorker(w, slots) ==
    /\ workerStatus[w] # "none"
    /\ workerStatus' = [workerStatus EXCEPT ![w] =
                          IF HasOpenReceipt(w) \/ @ = "draining"
                          THEN "draining" ELSE "online"]
    /\ silent' = [silent EXCEPT ![w] = 0]
    /\ capacity' = [capacity EXCEPT ![w] = slots]
    /\ UNCHANGED <<jobTable, leaseTable, drainTable, residentTable, operations,
                   claims>>

(* drain_worker without a body: no receipt, no fences.                      *)
DrainWithoutReceipt(w) ==
    /\ workerStatus[w] # "none"
    /\ workerStatus' = [workerStatus EXCEPT ![w] = "draining"]
    /\ UNCHANGED <<jobTable, leaseTable, silent, capacity, drainTable,
                   residentTable, operations, claims>>

(* drain_worker with a shutdown id: admission is closed, every active lease *)
(* of the worker is fenced and its expiry is brought forward to the hard    *)
(* deadline, in one transaction under the worker row lock. A replay of the  *)
(* same request returns the stored receipt.                                 *)
DrainWithReceipt(w, s, seconds) ==
    /\ receiptStatus[s] = "none"
    /\ workerStatus[w] \in {"registered", "online"}
    /\ workerStatus' = [workerStatus EXCEPT ![w] = "draining"]
    /\ receiptStatus' = [receiptStatus EXCEPT ![s] = "open"]
    /\ receiptWorker' = [receiptWorker EXCEPT ![s] = w]
    /\ remaining' = [remaining EXCEPT ![s] = seconds]
    /\ fences' = [fences EXCEPT ![s] =
                    [l \in Leases |-> IF HoldsActive(l, w) THEN "open"
                                      ELSE "none"]]
    /\ ttl' = [l \in Leases |-> IF HoldsActive(l, w)
                                THEN Minimum(ttl[l], seconds) ELSE ttl[l]]
    /\ UNCHANGED <<jobTable, leaseStatus, leaseJob, leaseWorker, leaseOp,
                   cancelled, silent, capacity, residentTable, operations,
                   claims>>

-----------------------------------------------------------------------------
(* The background sweeper.                                                  *)

(* What becomes of the job of an expired lease.                             *)
AfterExpiry(j) ==
    IF j \in stopping THEN "succeeded"
    ELSE IF Retryable(j) THEN "queued" ELSE "dead"

(* expire_lease_if_still_active, for expire_due_leases, and for the loop of *)
(* reconcile_due_worker_drain_fences over the leases behind a fence that is *)
(* due: those are due themselves, and an unresolved fence of a lease that   *)
(* has ended does not exist (DrainCaptures, FencesTruthful).                *)
ExpireLease(l) ==
    /\ IsActive(l)
    /\ ttl[l] = 0
    /\ AfterExpiry(leaseJob[l]) = "dead" => FailureRecorded(leaseJob[l])
    /\ Terminate(l, "expired", AfterExpiry(leaseJob[l]))

(* A row that is due and whose expiry fails: each sweep ends with the error *)
(* there, and the next one meets it again.                                  *)
CutsOff(l) ==
    /\ IsActive(l)
    /\ ttl[l] = 0
    /\ AfterExpiry(leaseJob[l]) = "dead"
    /\ ~FailureRecorded(leaseJob[l])

(* expire_stale_queued_jobs measures the age of a queued job from its       *)
(* scheduled_at, which a retry does not move.                               *)
ExpireStaleQueuedJob(j) ==
    /\ QueuedJobMaxAge # 0
    /\ jobStatus[j] = "queued"
    /\ age[j] >= QueuedJobMaxAge
    /\ jobStatus' = [jobStatus EXCEPT ![j] = "dead"]
    /\ UNCHANGED <<attempts, age, waited, leaseTable, workerTable, drainTable,
                   residentTable, operations, claims>>

(* Faulty variant: a receipt whose fences are all resolved is not due.      *)
ReceiptDueUnfenced(s) ==
    /\ receiptStatus[s] = "open"
    /\ remaining[s] = 0
    /\ \A l \in Leases : fences[s][l] = "none"

ReceiptDue(s) ==
    /\ receiptStatus[s] = "open"
    /\ remaining[s] = 0
    /\ \A l \in Leases : fences[s][l] # "open"

(* The last statement of reconcile_due_worker_drain_fences, which comes to  *)
(* it only when no row of its loop has failed.                              *)
RetireDrainReceipts ==
    /\ \E s \in Shutdowns : ReceiptDue(s)
    /\ ~\E s \in Shutdowns, l \in Leases : remaining[s] = 0 /\ fences[s][l] = "open" /\ CutsOff(l)
    /\ receiptStatus' = [s \in Shutdowns |->
                           IF ReceiptDue(s) THEN "retired"
                           ELSE receiptStatus[s]]
    /\ UNCHANGED <<jobTable, leaseTable, workerTable, receiptWorker, remaining,
                   fences, residentTable, operations, claims>>

ReconcileWorkerLiveness(w) ==
    /\ workerStatus[w] \in {"online", "draining"}
    /\ silent[w] > OfflineAfter
    /\ workerStatus' = [workerStatus EXCEPT ![w] = "offline"]
    /\ UNCHANGED <<jobTable, leaseTable, silent, capacity, drainTable,
                   residentTable, operations, claims>>

-----------------------------------------------------------------------------

Countdown(n) == IF n > 0 THEN n - 1 ELSE 0

(* Time passes. A row that does not exist has no timestamps, and what ages  *)
(* past its threshold is not counted further.                               *)
Tick ==
    /\ age' = [j \in Jobs |-> IF jobStatus[j] = "none" THEN age[j]
                              ELSE Minimum(age[j] + 1, QueuedJobMaxAge)]
    /\ waited' = [j \in Jobs |-> IF jobStatus[j] = "queued"
                                 THEN Minimum(waited[j] + 1, QueuedJobMaxAge)
                                 ELSE waited[j]]
    /\ ttl' = [l \in Leases |-> IF IsActive(l) THEN Countdown(ttl[l])
                                ELSE ttl[l]]
    /\ silent' = [w \in Workers |->
                    IF workerStatus[w] = "none" THEN silent[w]
                    ELSE Minimum(silent[w] + 1, OfflineAfter + 1)]
    /\ remaining' = [s \in Shutdowns |-> IF receiptStatus[s] = "open"
                                         THEN Countdown(remaining[s])
                                         ELSE remaining[s]]
    /\ UNCHANGED <<jobStatus, attempts, leaseStatus, leaseJob, leaseWorker,
                   leaseOp, cancelled, workerStatus, capacity, receiptStatus,
                   receiptWorker, fences, residentTable, operations, claims>>

-----------------------------------------------------------------------------

Claim == \E r \in Requests :
    \/ \E w \in Workers, o \in Operations \cup {None}, j \in Jobs :
          ScanCandidates(r, w, o, j)
    \/ RejectPlacement(r)
    \/ \E l \in Leases, seconds \in LeaseSeconds : TryClaimJob(r, l, seconds)
    \/ AbandonClaim(r)

Hold == \E l \in Leases :
    \/ \E seconds \in LeaseSeconds : RenewLease(l, seconds)
    \/ CompleteLease(l)
    \/ \E retry \in BOOLEAN : FailLease(l, retry)
    \/ DeliverBootstrap(l)

Withdraw ==
    \/ \E S \in StopScopes : StopSandbox(S)
    \/ \E j \in Jobs : StopResidentProcess(j)

Session == \E w \in Workers :
    \/ \E slots \in Capacities :
          RegisterWorker(w, slots) \/ HeartbeatWorker(w, slots)
    \/ DrainWithoutReceipt(w)
    \/ \E s \in Shutdowns, seconds \in DrainSeconds :
          DrainWithReceipt(w, s, seconds)

Sweep ==
    \/ \E l \in Leases : ExpireLease(l)
    \/ \E j \in Jobs : ExpireStaleQueuedJob(j)
    \/ RetireDrainReceipts
    \/ \E w \in Workers : ReconcileWorkerLiveness(w)

Next ==
    \/ \E j \in Jobs : CreateJob(j)
    \/ Claim
    \/ Hold
    \/ Withdraw
    \/ Session
    \/ Sweep
    \/ Tick

Spec == Init /\ [][Next]_vars

(* The sweeper loop of scheduler.rs runs every step on every tick and goes  *)
(* on after an error, and time passes. A sweep of the leases comes to every *)
(* row that is due only if none of them fails: it leaves at the first that  *)
(* does. Nothing is assumed of workers, tenants or claim requests.          *)
SweepCutOff == \E l \in Leases : CutsOff(l)

Fairness ==
    /\ WF_vars(Tick)
    /\ \A l \in Leases : WF_vars(~SweepCutOff /\ ExpireLease(l))
    /\ WF_vars(RetireDrainReceipts)

FairSpec == Spec /\ Fairness

-----------------------------------------------------------------------------
(* Properties.                                                              *)

(* Every table keeps the shape of its schema.                               *)
TypeOK ==
    /\ jobStatus \in [Jobs -> JobStatus]
    /\ attempts \in [Jobs -> Nat]
    /\ age \in [Jobs -> Nat]
    /\ waited \in [Jobs -> Nat]
    /\ leaseStatus \in [Leases -> LeaseStatus]
    /\ leaseJob \in [Leases -> Jobs \cup {None}]
    /\ leaseWorker \in [Leases -> Workers \cup {None}]
    /\ leaseOp \in [Leases -> Operations \cup {None}]
    /\ ttl \in [Leases -> Nat]
    /\ cancelled \in SUBSET Leases
    /\ workerStatus \in [Workers -> WorkerStatus]
    /\ silent \in [Workers -> Nat]
    /\ capacity \in [Workers -> Nat]
    /\ receiptStatus \in [Shutdowns -> ReceiptStatus]
    /\ receiptWorker \in [Shutdowns -> Workers \cup {None}]
    /\ remaining \in [Shutdowns -> Nat]
    /\ fences \in [Shutdowns -> [Leases -> FenceOutcome]]
    /\ operations \in [Workers -> [Operations -> Leases \cup {None}]]
    /\ stopping \in SUBSET ResidentJobs
    /\ delivered \in SUBSET ResidentJobs
    /\ claims \in [Requests -> ClaimRow]

(* Exclusive authority over a job: a job is leased exactly when one lease   *)
(* of it is active, and never two are. The claim's status guard, the        *)
(* holder's completion and failure and the expiry sweep each write both     *)
(* tables, and the job row is written without a guard of its own.           *)
LeaseAuthority ==
    \A j \in Jobs :
        /\ jobStatus[j] = "leased" <=>
              \E l \in Leases : IsActive(l) /\ leaseJob[l] = j
        /\ \A l, m \in Leases :
              /\ IsActive(l) /\ leaseJob[l] = j
              /\ IsActive(m) /\ leaseJob[m] = j
              => l = m

(* The attempt counter of a job never passes max_attempts although a claim  *)
(* writes it from a row it read earlier.                                    *)
AttemptsBounded ==
    \A j \in Jobs :
        /\ attempts[j] <= MaxAttempts
        /\ jobStatus[j] = "queued" => attempts[j] < MaxAttempts

(* No worker holds more leases (resident processes aside) than the largest  *)
(* max_concurrent_jobs it may report, however many of its claim requests    *)
(* raced past the first, unlocked, capacity check.                          *)
WithinCapacity ==
    \A w \in Workers :
        ActiveLeases(w) # {} =>
            \E c \in Capacities : Cardinality(ActiveLeases(w)) <= c

(* An unretired drain receipt closes admission and leaves no lease out: the *)
(* worker is not claimable, and each of its active leases is fenced by it   *)
(* and due no later than the hard deadline. This is the claim/drain and     *)
(* renew/drain serialization on the worker row.                             *)
DrainCaptures ==
    \A s \in Shutdowns : receiptStatus[s] = "open" =>
        /\ workerStatus[receiptWorker[s]] \in {"draining", "offline"}
        /\ \A l \in Leases : HoldsActive(l, receiptWorker[s]) =>
              /\ fences[s][l] = "open"
              /\ ttl[l] <= remaining[s]

(* A drain receipt reports the truth: a captured lease is unresolved while  *)
(* it is active and afterwards carries the status the lease ended with.     *)
FencesTruthful ==
    \A s \in Shutdowns, l \in Leases : fences[s][l] # "none" =>
        fences[s][l] = IF IsActive(l) THEN "open" ELSE leaseStatus[l]

(* One lease per worker and idempotency key: a claim retried after a lost   *)
(* response, or racing its own retry, is never granted a second lease.      *)
OneLeasePerOperation ==
    \A l, m \in Leases :
        /\ leaseStatus[l] # "none" /\ leaseStatus[m] # "none"
        /\ leaseOp[l] # None
        /\ leaseOp[l] = leaseOp[m] /\ leaseWorker[l] = leaseWorker[m]
        => l = m

KeepsOutcomes ==
    \A j \in Jobs : jobStatus[j] \in TerminalJobStatus =>
        jobStatus'[j] = jobStatus[j]

(* A job that reached a terminal status keeps it: no late completion,       *)
(* failure, expiry or claim reopens it or changes its outcome.              *)
TerminalJobsFinal == [][KeepsOutcomes]_vars

(* Once cancellation was requested the lease ends, even if its holder has   *)
(* died or keeps trying to renew, unless a row whose expiry fails stands in *)
(* the sweep for ever (leases.rs:1809).                                     *)
CancelledLeasesEnd ==
    \A l \in Leases :
        (IsActive(l) /\ l \in cancelled) ~> (~IsActive(l) \/ []SweepCutOff)

(* Every typed drain finishes: its receipt is retired, which needs every    *)
(* captured lease to have ended, whatever the draining worker does, and     *)
(* only a row whose expiry fails for ever is in its way (leases.rs:1860).   *)
DrainsFinish ==
    \A s \in Shutdowns :
        (receiptStatus[s] = "open") ~> (receiptStatus[s] = "retired" \/ []SweepCutOff)

=============================================================================
