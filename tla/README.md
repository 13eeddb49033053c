# sandboxwich: TLA+ models, checks and proofs

This directory holds TLA+ models of sandboxwich, TLC configurations that check them
on small instances, and TLAPS proofs about them. The reference is the code under
`src/`; `PROJECT.json` maps every definition that models code to the lines it stands
for, and lists the components, the runs, the mutants that show each property can fail,
the findings, the hazards and the theorems.

In the paths below, `api`, `worker` and `agent` stand for
`src/crates/sandboxwich-{api,worker,agent}/src`, and `bridge` for
`src/cloudflare/command-bridge/src`.

## 1. The system

sandboxwich hands out sandboxes. One API server (in one or several replicas) owns all
durable state in SQLite or PostgreSQL. Workers poll it for jobs and drive a provider
(Kubernetes, Cloudflare, dry run). A guest agent runs inside a sandbox. For the
Cloudflare provider, a Durable Object beside each sandbox runs its commands.

Everything that happens to a sandbox is a *job*: a row of `jobs` that a worker claims
with a *lease*, works on outside the database, and completes or fails. Requests and
sweeps write the tables in single transactions; what makes the system hard is that a
worker's work goes on while those transactions commit, and that an answer may be lost
while its effect stands.

### Inventory

| Part | Source | State | Operations | What makes it correct | Module |
|---|---|---|---|---|---|
| Job queue and leases | `api/handlers/jobs.rs`, `leases.rs` | `jobs`, `job_leases`, `lease_claim_operations` | claim, renew, complete, fail, expire, age out, cancel | one holder and one outcome per job, bounded attempts, one lease per key, a worker within its limit | `JobLease`, `LeaseSweep`, `PlacementRefresh` |
| Worker sessions and drain | `api/handlers/workers.rs` | `workers`, `worker_drain_receipts`, `worker_drain_lease_fences` | register, heartbeat, drain, liveness sweep | a drain closes admission, captures every lease, ends, and reports the truth | `JobLease` |
| Sandbox lifecycle | `api/handlers/sandboxes.rs`, core `lib.rs` | `sandboxes.state` | create, fork, stop, resume, and what each job outcome does | no sandbox waits for work that is gone, none comes back by itself, none is usable without a runtime | `SandboxLifecycle` |
| Repair, retention | `api/cleanup.rs` | `sandboxes`, `runtime_resources` | repair, delete | teardown is never forgotten | `SandboxLifecycle` |
| Runtime inventory | `api/reconcile.rs` | `runtime_resources` | record, restore, retire, inventory | a live row names the volume that exists and its true source | `RuntimeInventory` |
| Snapshots and forks | `api/handlers/snapshots.rs` | `snapshots` | take, release or fail waiting children | a child never waits for a snapshot that ended | `SandboxLifecycle`, `RuntimeInventory` |
| Reaper and activity | `api/reap.rs`, `activity.rs` | deadlines, last activity | reap, bump | a sandbox in use is not idle | `LifetimeReaper` |
| Idempotency, tenant limits | `api/idempotency.rs`, `limits.rs` | `idempotency_records`, windowed counters | claim, replay, wait, finalise, expire, consume | one mutation per record of a key; a replay belongs to its request | `RequestGate` |
| Sterile pool and cells | `api/sterile_pool.rs`, `handlers/sterile_cells.rs` | pool members, cells, leases | reconcile, admit, claim, release, expire, quarantine | hard target; a cell is used once; absence is reported when true | `SterilePool`, `SterileCell` |
| Resident processes, bootstrap | `api/handlers/resident_processes.rs`, `bootstrap_handoff.rs`, `state.rs` | generations, delivered fence, a store per replica, a sealed shared row | put, claim, observe, stop, read, acknowledge, rehydrate | a bootstrap is read by one lease of one generation | `ResidentBootstrap` |
| Attestation, activation | `api/handlers/resident_attestations.rs`, `maestro_activations.rs` | proof records, activations | issue, redeem, validate, bind | a proof vouches for the Pod that runs the lease, once | `PlacementProof` |
| Instructions, observation | `api/handlers/apex_instructions.rs`, `maestro_observation.rs` | reads, a bounded queue | request, claim, complete, acknowledge; record, flush | an acknowledgement stands; nothing is lost uncounted | `InstructionRead`, `ObservationSink` |
| Commands and output | `api/handlers/commands.rs`, `leases.rs` | `commands`, output chunks | append, reset, complete | a chunk once per operation; counters match rows | `CommandOutput` |
| Homes | `api/handlers/homes.rs` | `homes` | mount, release, replace, delete | the claim of a mounted home is not deleted | `HomeMounts` |
| Worker loop | `worker/main.rs` | in-memory lease handlers | admit, park, renew, cancel, observe, drain | a completion is earned; what runs is renewed or told | `WorkerLoop` |
| Kubernetes provider | `worker/provider.rs` | the cluster | provision by stages, fork, resume, exec, snapshot, stop, roll back, orphan pass | what a later attempt built is deleted only by one that does not know it lost; a pass spares the living | `KubernetesProvider` |
| Network policies, egress gateway | `worker/provider.rs`, `egress-gateway` | policies | render, resolve, connect | no packet passes that was not granted, resolvers included | `NetworkReach` |
| Agent sandboxes | `worker/provider.rs`, `agent/main.rs` | claim, Pod, activation files | claim, bind, activate, receipt, release | a custody receipt is true | `AgentSandbox` |
| Cloudflare provider | `worker/provider/cloudflare.rs`, `bridge/index.ts` | sandbox identity, home flag | create, mount, exec, stop | a ready sandbox was given its home; a result is whole | `CloudflareProvider` |
| Cloudflare command bridge | `bridge` | ledger records and event logs | execute, reconcile, look up, destroy | a command starts once; a result, once given, stands | `CommandBridge` |
| Guest agent | `agent/main.rs`, `resident_process_supervisor.rs` | handlers, children, the launcher | claim, run, supervise, activate, shut down | a lease is given back with its child dead; one Maestro | `GuestAgent` |

The parts left out on purpose (authentication, routing, metrics, row decoding,
archive formats, secrets, file transfer, desktop and SSH sessions, the clients) are in
`PROJECT.json` with the reason.

### How the parts interact

A request (create, stop, resume, fork, delete) writes a state and a job in one
transaction. A worker's claim and completion call back into the lifecycle
(`apply_claimed_job`, `apply_completed_job`, `apply_retryable_job`,
`apply_failed_job`). The sweeper expires leases, ages out queued jobs, repairs
archived sandboxes, deletes old records and retires drain receipts. The provider is
called by workers only; its answer may be lost, and its effect may come after the
lease that asked for it has ended. A resident process is a job that runs for as long as
its lease is renewed; its bootstrap bytes go from the request, through a store in one
replica or a sealed row, to the one lease that reads them. Interleaving with everything:
a timer (leases, drains, reaper), a crash of a replica, worker, agent or object, and a
retry of a request whose answer was lost.

## 2. Modules

One action is one committed transaction, one storage turn or one external call; where a
handler reads, waits and writes later, what it has read is state. A module states its
component's actions as `Next` (or `<Part>Next`), a specification, and its properties.
Mutants stand beside the definition they change. `MC...` modules instantiate for TLC,
`...Proofs` modules hold the theorems.

### `JobLease`

A lease claim is the step that matters: `claim_lease` reads candidates on the read pool
and `try_claim_job` commits later, so a claim request in flight is state (`claims`) and
may hold a stale row. Time is relative: a timestamp in the future is the number of ticks
left, one in the past the ticks since, counted to the threshold the code compares it
with.

| Actions | Code |
|---|---|
| `CreateJob` | `insert_job_on_connection` |
| `ScanCandidates`, `RejectPlacement`, `TryClaimJob`, `AbandonClaim` | `claim_lease`, `authoritatively_refresh_job_placement_cached`, `try_claim_job` |
| `RenewLease`, `CompleteLease`, `FailLease` | `renew_lease`, `complete_lease_in_transaction`, `fail_lease_in_transaction` |
| `DeliverBootstrap`, `StopSandbox`, `StopResidentProcess` | as they touch jobs and leases |
| `RegisterWorker`, `HeartbeatWorker`, `DrainWithoutReceipt`, `DrainWithReceipt` | `workers.rs` |
| `ExpireLease`, `ExpireStaleQueuedJob`, `RetireDrainReceipts`, `ReconcileWorkerLiveness` | the sweeper |

A lease of a command whose output is full (`Clogged`) cannot be ended as `dead`: the
append of the error is refused and the transaction rolled back (`FailureRecorded`).
`LeaseSweep` (with `CommandOutput`) is one pass of the expiry sweep over several due
leases, and `PlacementRefresh` the rewriting of a payload at claim; both carry a finding.

### `SandboxLifecycle`

One sandbox, its build jobs (provision, fork, resume), its stop job, the runtime
generation's rows in `runtime_resources`, the runtime the provider really holds, and
for a fork the snapshot it waits for. Because `JobLease` shows that a job has one
holder and one outcome, a lease is folded into its job here: a leased job completes,
fails or expires once. There is one stop slot because
`migrations/20260815000100_unique_active_stop_job.sql` allows one active stop job per
sandbox. `rows` stands for the rows with no snapshot id, the ones retirement and repair
look at. The provider's calls are steps of their own (`ApplyRuntime`,
`TearDownRuntime`, and `LateApply`, `LateTearDown` for a worker whose lease has ended),
so a stop, a resume or a sweep may come between a call and its report. A lifetime or
idle reap goes through `stop_sandbox_via_job` and is a `StopSandbox` step; a pool
teardown cancels nothing and looks like `DivergenceStop`. `SnapshotFailed` also stands
for cancelling the snapshot's operation and for its expiry. `withdrawn` is history: the
job a pending sandbox waited for was ended in the queue (`Withdraws`).

### `CommandBridge`

The Durable Object of one sandbox: for each command id a ledger record (intent, state,
terminal result) and an event log, and the deliveries that run
`CommandCoordinator.execute` at the same time. A step is one storage transaction or
one call into the sandbox, and deliveries interleave between any two of them. This is
weaker than the platform's input gates promise, so what holds here holds with them. The
sandbox SDK is external: a start call that throws may have had no effect or take effect
later (`late`), a process may vanish (`Destroy`), and the object may be reset at any
step (`Crash`). `ledger.fail` has no caller and the state `failed` is therefore absent.

### `SterilePool` and `SterileCell`

`SterileCell` is the promise: a cell is admitted clean, given to one holder at most, and
then spent for good. `SterilePool` is the pool with its members, cells, leases, releases
and the jobs the workers run for it: reconciliation reads the pool and creates or stops
members up to the target; admission, claim, release with its fence, expiry, quarantine
and teardown are requests and job outcomes. `OneUse` is `SterileCell`'s specification
under the mapping from members, cells and leases to a cell's phase, and is checked as a
property and proved.

### `ResidentBootstrap` and `PlacementProof`

`ResidentBootstrap` has one executor with its generations and leases, the replicas'
process-local stores, the sealed shared row and the requests in progress: a put reserves,
commits and publishes in three steps, a read takes, consumes and marks in three, an
acknowledgement and a stop read before they write. `PlacementProof` has the proof records
of leases, the row and its Pod, and requests that read the record, then the row, then
write under a fence. Bytes are the generation they belong to; a digest is what it covers.

### The tables in `MCRecords`

`RequestGate` (a key's record and the counter behind it; a record may be swept while its
request runs, since nothing cancels a handler, and `ilost` says how a request lost its
record), `InstructionRead` (a read and
its waiters), `ObservationSink` (queue, batch, lost-sample row), `HomeMounts` (mounts read
from sandbox rows, and the delete job, on either database: `hserial` is SQLite, where an
open writer keeps others from writing and outdates a reader), `LifetimeReaper` (the deadline and the throttled
activity), `RuntimeInventory` (a volume's rows against the cluster, with several inventories
read and not yet applied). Where counters are
added up, here and in `CommandOutput`, `Tally` defines the sum as the number of units
counted, which the proofs can take apart; `MCRecords` has TLC compare it with a fold
(`SumsAreFolds`).

### The worker's side

`WorkerLoop` has a handler per lease with its stages, the renewal, the cancellation token,
the slots, the parked leases and the drain. `CommandOutput` has the chunks the worker
appends and their operation ids. `NetworkReach` has policies and addresses that are strings
of `ReachBits` bits, of which a CIDR block is a prefix, so that blocks nest as real ones
do; a resolver's address is granted on port 53 without regard to the excluded blocks, as
`dns_egress_rules` does; how a cluster enforces policies is external. `KubernetesProvider` has the objects of one sandbox, each created, recreated or
deleted by one `kubectl` call that may fail before or after its effect, and attempts that
may be cancelled, lose their lease or die between any two. `AgentSandbox` has the claim,
the Pod and the activation processes inside it. `CloudflareProvider` has the create
requests that live on in the object after the worker gave up on them, the container's
sleep, which takes the mount and leaves the stored flag, and the event stream of an answer, line by line, cut anywhere. `GuestAgent` has the daemon's handlers,
their children, the supervisor and the launcher; it is checked beside `SandboxLifecycle`
(`MCSandboxAgent`).

## 3. Runs

Parts that share no state are checked together: the MC module has a variable `part`, a
behaviour runs one part and leaves the others where they start, so the states are the sum
of the parts', not their product. `CHECK_DEADLOCK FALSE` is set where bounded attempts,
ids or requests may be used up; the job-lease runs check deadlock.

| Run | Parts | Properties | What it shows |
|---|---|---|---|
| `records` | claims of `JobLease`, and the six tables of `MCRecords` | `WithinCapacity`, `OneLeasePerOperation`, `OneKeyOneMutation`, `AcknowledgementsHold`, `NothingErasedSilently`, `DeleteSparesMounted`, `IdleMeansUnused`, `LineageIsTrue` | racing claims keep a worker's limit and keys exact; a repeated or overtaken request changes nothing twice; an acknowledgement stands; a sample is recorded or counted as lost; a mounted home, a sandbox in use and a volume's lineage are safe; each but for the overlap its property names |
| `job_lease_race` | `JobLease` | `LeaseAuthority`, `TerminalJobsFinal` | two workers, stops, expiry, drain and the age sweep over one job: one holder, one outcome |
| `job_lease_drain` | `JobLease`, fair | `DrainCaptures`, `CancelledLeasesEnd`, `DrainsFinish` | two drains race claims, renewals and re-registration: an open receipt captures every lease; cancelled leases end and receipts are retired, unless a row that fails cuts every sweep off |
| `sandbox_core` | `SandboxLifecycle`, `GuestAgent` | `ReadyHasRows`, `PendingHasJob`, `NoResurrection`, `HandedBackDead`, `OwnMaestro` | created and forked sandboxes with posted jobs of all kinds, stops, resumes, retention and the age sweep; the guest agent through lost leases and shutdown |
| `sandbox_repair` | `SandboxLifecycle`, fair | `ArchivedRowsRetired` | late provider calls, fork children and aged-out jobs: the repair loop retires what a late completion left |
| `pool_core` | `SterilePool` | `HardTarget`, `AbsentMeansGone`, `OneUse` | two cells around a target of one, competing claims, stale releases, failed and aged-out stops; refinement of `SterileCell` |
| `pool_live` | `SterilePool`, fair | `TornDown` | every teardown, with releases and aged-out stops, ends although one active stop aborts a whole reconciliation, unless the member's stop aged out |
| `resident_core` | `ResidentBootstrap`, `PlacementProof` | `OneReader`, `StoreFollowsRow`, `ProofIsLive`, `ProofUsedOnce` | two replicas, generations and leases with restarts and dropped requests; proofs of placement |
| `providers` | `KubernetesProvider`, `AgentSandbox`, `CloudflareProvider` | `SuccessorIsSpared`, `PassSparesTheLiving`, `CustodyIsProven`, `HandleHasHome`, `ResultIsWhole` | two attempts of any job with failing and killed calls and an orphan pass; activation through retries and crashes; lost creates, a sleeping container and cut streams |
| `worker` | `CommandBridge`, `WorkerLoop`, `CommandOutput`, `NetworkReach` | `StartedOnce`, `CompletedIsWhole`, `AnswersHold`, `CompletionIsEarned`, `RunningIsRenewedOrTold`, `CountersMatchRows`, `OneChunkPerOperation`, `TrafficIsGranted` | deliveries of competing intents with lost responses and a reset; the loop with outages, parked leases and a drain; output through retries; policies under every pair of nested blocks, with a resolver inside and outside them |
| `cloudflare_scope` | `PlacementRefresh` | `ScopeReachesProvider` | expected to fail: the refresh at claim drops the routing scope |
| `lease_sweep` | `LeaseSweep`, fair | `DueLeasesExpire` | expected to fail: a full output stops the sweep at its row for ever |

The two runs that are expected to fail show a disagreement between the code and what a
test or comment of the repository says; each has a finding with the quotation.

### Bounds

Two of everything that competes: two workers, requests, replicas, leases, attempts,
creates, cells, deliveries. The hazards are between a late or repeated actor and the
current one, so they take two; a third appears where a repetition must meet the first
effect of another (three calls of an agent sandbox, three requests at the gate of which
one has another fingerprint). Counters stop at the threshold the code compares them with.
Where a bound was kept at one the theorem of section 5 is for every value: crashes of the
bridge's object, attempts of a resident in the worker loop and in the guest agent, the
executor sidecar. `ReachBits = 2` gives blocks that nest, are equal and are disjoint; there is one resolver
or one sidecar, at the least address (`MaxResolvers = 1`, `MCWorker`), and the blocks range
over all; the theorem is for any width and any resolvers.
`QuotaMax = 1` puts every request at the limit. In `pool_live` one cell has every
behaviour; while both are in use, `PairBound` keeps them members that do not reach their
age and tenants at the other one. In `providers` the ledger is on exactly where a stop may
recover (`kledger = krecovers`): no step reads both. In `job_lease_drain` attempts are
one, so that an expiry may be the last, and one job of two is `Clogged`.
`OutputCap = 1`, `LineCap = 2`, `OutputMax = 3` put an output below, at and above the
cap, and a line above its own.

## 4. Fairness

`JobLease!FairSpec` assumes that time passes and that `spawn_expiry_sweeper` runs the
sweeps on a timer. A sweep of the leases leaves at the first row that fails
(`leases.rs:1809`, and `:1860` for the fences) and starts at the same row next time, so a
due lease is promised its expiry only while no due row fails (weak fairness of
`~SweepCutOff /\ ExpireLease(l)`). `CancelledLeasesEnd` and `DrainsFinish` say that what
they promise happens or the sweep is cut off for ever; `lease_sweep` shows that this
happens. Nothing is assumed of workers, which may renew for ever or die.

`SandboxLifecycle!FairSpec` assumes the same of the repair loop and of the expiry of the
stop lease (weak fairness), and strong fairness of claiming, carrying out and completing
a stop: some worker keeps polling and the provider is reachable again and again. Any
number of failed, expired and aged-out attempts may come between.

`SterilePool!FairSpec` assumes a reconciliation on its timer again and again, a worker
that claims a waiting stop, and a provider and API that are reachable again and again.

`LeaseSweep!SweepSpec` assumes that the sweep runs. The other modules state no liveness:
a worker's, an agent's or a client's progress depends on a peer whose retries are bounded.

## 5. Proofs

All theorems are for every value of the constants allowed by the named assumption of the
module (`JobLeaseAssumption`, `CloudAssumption`, ...: sizes are natural numbers, null
values are not members of the sets they extend). A theorem that names a property of a run
establishes, for every value, what the run shows on its instance. Each proof has the same
frame: an inductive invariant as a conjunction of named parts, a lemma that the initial
states have it, one lemma or case per action that it is kept, and the theorem by `PTL`.

`JobLeaseProofs`

* `TypeCorrect`, `AuthorityExclusive`, `OutcomesFinal`, `DrainFences`,
  `ReceiptsTruthful`, `AttemptsWithinLimit`, `OperationsGrantOnce`, `LimitKept`.
* `LeaseAuthority` is inductive with the types: a claim's compare-and-swap on `queued` is
  what ties the job row to its one active lease. `OutcomesFinal` follows from it, since
  the row is written by id but only under an active lease. A drain's fences need that an
  open receipt means the worker is draining. `LimitKept` counts: `LimitInv` adds that the
  limits in use were reported and that a worker's leases are finite in number, and the
  cardinality theorems give the step of a claim and of a lease that ends.

`SandboxLifecycleProofs`

* `TypeCorrect` is strengthened by `AttemptLeft`: a job that may still be claimed has an
  attempt left, because a retry is granted below the limit only.
* `ReadyRecorded`: `ReadyHasRows` is inductive with the types.
* `StoppedStaysStopped`: an action property; each action is shown to leave a stopped
  sandbox stopped, or to be a resume of an archived one.
* `PendingHasWork`, for created and forked sandboxes, with the age sweep on or off.
  `PendingInv` says which job a waiting sandbox waits for: in `planning` an active provision
  or a queued fork, in `provisioning` an active build, unless that job was withdrawn.

`CommandBridgeProofs`

* `TypeCorrect`. `NeverRestarted`: `DispatchInv` says that before the claim no start was
  made, that one delivery at most stands before the start call, and that it stands there
  before any start. `CompleteIsFinal`: step by step. `AnswersStayTrue` adds that an
  answered record is complete. `CompletedLogsWhole`: `WholeInv` says that a log is empty
  until the process has ended, holds only what the process wrote, and holds a stream
  before a delivery goes past it.

`SterilePoolProofs`

* `AbsenceIsTrue`, `TargetIsHard` and the refinement `PoolKeepsPromise`. `PoolInv` says
  that a lease names its claim, that member, cell and lease move in step, that a release
  is of a leased cell, and that an absent one has no runtime. The refinement maps initial
  states to initial states and every step to a step of `SterileCell` or a stutter.

`ResidentProofs`

* `BootstrapHasOneReader`, `StoresFollowTheRow`. `ResidentInv`: leases, jobs and the
  delivered fence are of the row's generation (`RowInOrder`); whoever holds a delivered
  fence holds one the row has or had (`FencesFollow`); bytes are of their fence's
  generation (`BytesMatch`); a generation is served under one fence (`ServedOnce`).
* `VouchedIsLive`, `ProofsUsedOnce`: action properties. `ProofInv` says what each phase of
  a request has read and that it still stands.

`WorkerProofs`

* `CompletionsAreEarned`, `RunningIsDefended`. `WorkerInv` says at every stage why a
  handler may stop, and that a handler at work is renewed or cancelled.
* `LeasesHandedBackDead`, `LauncherRunsOnce`. `GuestInv`: a live child is in the hands of
  a handler at one of its stages, or was left by a dropped command whose lease nobody here
  answers any more; an answered lease's handler is over; a handler at the launcher sent
  the bundle the launcher accepted.
* `NetworkGrantsOnly`. `PoliciesInv` says of every policy in the cluster what it lets
  through (on port 53 the resolvers; the runtime's and Cilium's: granted addresses and no excluded one; the
  gateway's: the web ports; a resident's: 443), and that the Pods are a sandbox's or a
  candidate's and never both, since the label `runtime` is on a Pod of either. `BlocksNest`
  (two blocks with an address in common are nested) gives `BlockIsOpen`: an `ipBlock` that
  is not refused has no excluded address left once the blocks inside it are excepted. The
  theorem is for addresses of any width; that the excluded ranges contain the gateway's
  built-in ones is assumed by the model.

`RecordsProofs`

* `AcksAreKept`, `DeletedHomeIsUnmounted` (on either database), `IdleIsReal`,
  `LiveLineageIsTrue` (for any number of inventories), `OperationsAppendOnce`,
  `KeyMutatesOnce` (with a sweep at any time). Each has the invariant that ties what a
  request in flight has read to the row it will write, or that says which overlap made it
  lose that tie.
* `LossesAreCounted`. `SinkInv` is the property with the types of the counters. A sum is
  the cardinality of a set of units (`Tally`), so that a counter that changes moves the
  sum by as much (`SumChanges`), and the keys of a batch add up to the observations taken
  off the queue (`BucketsHoldAll`, by a bijection); no induction is needed. The keys are
  assumed to be finitely many.
* `CountersAgree`. `Counted` says that the three counters are those of a set of rows, and
  is kept by one row more (`RowCounted`) and by the loss of a stream (`StreamDropped`); a
  completion that replaces both streams is two such settlements (`Settled`), the second
  of which finds the rows of its stream as they were.

`ProvidersProofs`

* `SuccessorsAreSpared`, `PassesSpareTheLiving`: action properties, from `KubeInv`. While a
  build is leased nothing but a stop is claimed after it, and while a stop is leased nothing
  at all (`Leases`), so that an attempt whose deletes by label meet what a later one made
  has lost its own lease; a staged provision, the only one that
  reports (`StepsOfPlan`, over every kind of sandbox), begins no rollback after it was told;
  and the list of a pass that saw its
  sandbox listed, inside its ttl, holds at most the workspace claim (`SparesListed`),
  whatever attempts do between discovery and delete.
* `CustodyTellsTheTruth`. `AgentInv` follows a provision from its claim to its receipt,
  and every process an earlier one left in the Pod: one process at most stands between
  staging and commit, and the process of the running provision finds its own bundle. What a
  stop read of the receipt before its deletes is what it writes back (`HeldIsProven`).
* `ReadyHasItsHome`. Until a stop is asked for, a set flag, a create past its mount and an
  answered create each stand for a home that is mounted or was lost to a sleep
  (`HomeOrSlept`).
* `ResultsAreWhole`. `ParserInStep` says, for every line of an answer, which events the
  parser has taken and what its fields hold; `ParserClean` that an attempt that failed
  leaves nothing to the next. It rests on lemmas on the head and the tail of
  concatenations, so that a stream is any of the sequences the bridge can send.

Every invariant and action property of a passing run is stated by a theorem. Only
model-checked:

* the liveness properties `CancelledLeasesEnd`, `DrainsFinish`, `ArchivedRowsRetired`,
  `TornDown` (the prover has no fairness and no `ENABLED`);
* that the recursive or folded definitions agree with each other (`SumsAreFolds`): that
  needs induction over data.

## 6. Not modelled

* Desktop and SSH sessions, secrets, file transfers, authentication, metrics, routing,
  archive formats and the clients: see the components in `PROJECT.json`.
* `POST /workers/{id}/runtime-resources/reconcile` in `SandboxLifecycle` (no caller in
  the repository): `ReadyHasRows` is about what job outcomes and sweeps do.
  `RuntimeInventory` has an inventory as an action.
* PostgreSQL's weaker isolation inside one transaction: a transaction is one step, except
  in `HomeMounts`, where `hserial = FALSE` splits it.
* What a Cloudflare command meets in a container without its home.
* The contents of manifests, digests, tokens and outputs.

## 7. Observations

Behaviours of the code that the models have, or that were met while modelling, and that a
reader should know of. No run is kept for them.

**Jobs and sandboxes**

* The age sweep selects queued jobs by `scheduled_at`, which no retry moves
  (`jobs.rs:862`): a job put back after a long attempt may be dead-lettered before it is
  claimed, although the comment at `jobs.rs:839` speaks of abandoned work, "not a retry".
* The age sweep marks a queued provision dead without `apply_failed_job`, so the sandbox
  stays in `planning` with no job (`jobs.rs:875`); `PendingHasJob` excepts it as
  `withdrawn`.
* A stop whose last lease expires is `dead`, and the repair loop looks for `failed`
  (`cleanup.rs:38`): the sandbox stays `archiving`.
* A provision that completes between the teardown of a leased stop and the completion of
  that stop is stranded (`leases.rs:2885`).
* Stopping a parent cancels the fork's jobs and leaves the child in `planning`
  (`sandboxes.rs:853`).
* The late completion of an old provision makes a resumed sandbox ready with the rows of
  the runtime the stop deleted (`leases.rs:2863`).
* Retention deletes an archived sandbox whose cleanup job is still queued
  (`cleanup.rs:409`); a completion for a deleted sandbox is refused by the ownership check
  and rolled back (`reconcile.rs:128`).

**Records**

* With PostgreSQL's default isolation (`hserial = FALSE`) a mount and a delete of one home
  can both succeed (`homes.rs:181`, `466`), although `homes.rs:190` says "home cannot be
  deleted while a sandbox is mounted"; `DeleteSparesMounted` names the sandboxes it can
  happen to. A delete job that ages out leaves its home `deleting`. A sandbox in `error`
  may be replaced although its runtime may still mount the home.
* Two delayed inventories at once can bring an old source back on a live row, although
  `reconcile.rs:416` says "a live resource may not change lineage at all": one that read
  before the volume was there hides the row, one that has seen an older volume revives it
  (`ustale`). READ COMMITTED can do it with one. A stale inventory can revive the row of a stopped sandbox or retire fresh rows.
* A request that outlives its five minutes loses its record to the sweep
  (`idempotency.rs:462`); a retry then runs beside it, and the first, which completes and
  abandons by key alone, may store its response over the retry's or delete its record. The
  comment at `idempotency.rs:18` says why no handler should take that long.
* The reaper takes the hundred oldest sandboxes with a limit, due or not
  (`reap.rs:281`): younger ones that are overdue wait until those are gone.
* A result the agent cut at 2 MiB plus its notice exceeds the chunk limit; the append is
  refused and the command runs again until its attempts are used up. An append may come
  after the lease check and before the lease ends (`leases.rs:1477`).
* A reader of an instruction may time out while a waiter of the same read is up: the read
  is `completed` while the tenant was told unavailable.
* `create_desktop_access` reads the session and mints in a later transaction
  (`desktop.rs:89`); two concurrent mints leave two live credentials (`desktop.rs:195`).

**Sterile pool**

* A pool stop that ages out leaves its member `stopping` for ever (`AgedOut`, which
  `TornDown` excepts). A member whose guest
  became unready keeps its cell `ready`, so that claims answer 409. A second release with
  another disposition clears the stop's id, and reconciliation is aborted by the unique
  index until the active stop ends. `staggered_ready_expiry` may clamp two members to one
  instant (`docs/sterile-cells.md:84`). A failed provision quarantines a member whose
  runtime may exist.

**Residents**

* A read begun under a live lease may consume after the lease failed, so that the job of a
  delivered bootstrap is queued again. A stop after a retry leaves `active_lease_id` set
  and the row can never be replaced (`leases.rs:3396`). `forget_shared` deletes by process
  without the generation. A replica that served one generation keeps its entry when the
  acknowledgement lands elsewhere, and answers 409 for the next. Rehydration ignores the
  per-tenant half of the capacity.
* An activation's replay is refused after a renewal, since the digest covers the lease's
  expiry (`maestro_activations.rs:42`). A resident claimed by another worker of the same
  cluster is never attested (`leases.rs:268` against `resident_attestations.rs:434`).

**Worker and guest agent**

* A parked lease may run after it lapsed (`worker/main.rs:2989`). An outage of renewals of
  about a second cancels a job, and the untyped cancellation fails it for good. With its
  resident slots full a worker never claims `delete_home` (`5216`). The loops that wait
  for a desired stop do not end once the lease is lost (`4105`, `4134`). At shutdown an
  observer that is cut off fails its lease without a retry (`3722`, `3915`), where the
  comment at `2101` expects it to be handed back.
* A resident lease that lapsed (409) ends the whole guest daemon (`agent/main.rs:1256`).
  A command's child has no kill-on-drop (`1178`). A claim without an operation id whose
  answer is lost leaves an orphaned lease. The launcher's Maestro outlives its lease.

**Kubernetes and agent sandboxes**

* A retry that recreates two policies of one stage is refused at its second report
  (`leases.rs:1161`). The supervisor is never revived. A stale inventory deletes a sandbox
  that was resumed after its page was read (`docs/kubernetes.md:205`). Fork, resume and
  direct provision roll back even when cancelled. A snapshot applied between a stop's list
  and its delete loses the volume; one that is never ready makes every stop fail. A
  cancelled agent-sandbox provision leaks its claim; a stop retried after the claim's
  delete never releases the receipt.
* A crash after the staging marker leaves a temporary file that makes later activations
  fail (`agent/main.rs:738`). A retry within the window overwrites `activation.json`.
* The rollback of an attempt that lost its lease without having noticed deletes by label
  what its successor has built (`provider.rs:7501`); two commands may rebuild one missing
  Pod side by side and the rollback of the first may take the second's.
* A resolver inside an excluded range is reachable on port 53 (`provider.rs:2729`;
  `tests.rs:3115` asserts it for 169.254.20.10), although `docs/kubernetes.md:427` has the
  excluded ranges carved "out of *every* egress allow rule that overlaps them". Where the
  Cilium policy is in force it denies them again.
* The Cilium policy selects by sandbox id alone (`provider.rs:2940`), so residents share
  the runtime's rules.

**Cloudflare**

* A delivery that loses the dispatch to one that has completed answers a stream without
  events (`coordinator.mjs:67`), which the worker rejects and retries. `append` and
  `complete` are separate transactions, so a reset between them appends a stream again
  (`coordinator.mjs:114`); `CompletedIsWhole` says that a finished log has every stream,
  not that it has it once.
* A command that runs for more than 30 s is retried, answered 409 and failed for good
  (`cloudflare.rs:664`, `152`). An output above about 48 KiB makes an event line longer than
  the parser allows (`cloudflare.rs:528`). A create that timed out may land after the
  delete. A container sleeps after ten idle minutes (`index.ts:213`) and loses its mount,
  while the flag is stored; `ensureHomeMounted` then returns at the flag (`index.ts:224`),
  and the sandbox runs without its home.

## 8. Plan

1. `CustodyIsProven`, `OneReader` and `AbsentMeansGone` across a composition with
   `JobLease`, whose authority each of them takes as given.
2. Desktop sessions, once reads and writes share a transaction.
