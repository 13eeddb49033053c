------------------------- MODULE KubernetesProvider -------------------------
(***************************************************************************)
(* The Kubernetes provider of a worker and the control plane's provisioning*)
(* fence, for one sandbox: attempts that build, stop and snapshot its      *)
(* runtime with kubectl, their rollbacks, the durable stage operation with *)
(* its resource rows, and the orphan reconciliation pass.                  *)
(*                                                                         *)
(* An attempt is one lease of a job; a kubectl command, a stage report and *)
(* an inventory page are one action each, so the steps of an attempt that  *)
(* lost its lease interleave with those of its successor.  An object is    *)
(* named by its manifest and its uid is the attempt that created it.       *)
(***************************************************************************)
EXTENDS Naturals, Sequences, FiniteSets

CONSTANTS
  Cases,        \* the specs of a sandbox, and the history it starts from
  MaxAttempts,  \* bound: leases of all jobs together
  MaxDeleted    \* max_deleted of a reconciliation pass

ASSUME KubernetesAssumption ==
  /\ Cases \subseteq [persistent : BOOLEAN, home : BOOLEAN, gateway : BOOLEAN,
                      guest : BOOLEAN, sterile : BOOLEAN, cilium : BOOLEAN,
                      from : {"provision", "fork", "running", "archived"}]
  /\ MaxAttempts \in Nat \ {0} /\ MaxDeleted \in Nat \ {0}

VARIABLES
  spec,                 \* the sandbox's provision spec, and where its history starts
  state,                \* "live", "archiving" or "archived"
  job,                  \* the build job that waits for an attempt, or "none"
  lapsed,               \* created_at + ttl_seconds has passed
  obj,                  \* uid of each object in the cluster, 0 when absent
  tenant,               \* the Pod uid the supervisor Pod was rendered with
  down,                 \* the supervisor Pod has terminated
  claim,                \* the workspace claim: "pending", "aged" (for an hour) or "bound"
  snapshot,             \* the VolumeSnapshot of the workspace
  kind, pc, phase,      \* the job and the position of each attempt
  applied,              \* resources_applied
  knew,                 \* history: it began its rollback knowing that it lost the sandbox
  told,                 \* its cancel signal
  lacks,                \* what its last read did not find, or the snapshots it listed
  readUid, podUid,      \* the identity it reports next, and that of the Pod
  leased,               \* the attempts whose lease is active
  opStage, opAttempt,   \* provisioning_operations
  rowUid, rowBy,        \* provisioning_operation_resources, and who wrote them
  pass                  \* the reconciliation pass

clusterVars == <<obj, tenant, down, claim, snapshot>>
readVars == <<lacks, readUid, podUid>>
flags == <<applied, knew, told>>
attemptVars == <<kind, pc, phase, flags, readVars>>
opVars == <<opStage, opAttempt, rowUid, rowBy>>
sandboxVars == <<state, job, lapsed>>
vars == <<spec, sandboxVars, clusterVars, attemptVars, leased, opVars, pass>>

Attempts == 1..MaxAttempts
Uids == 0..(MaxAttempts + 2)
Revived == MaxAttempts + 1      \* uid of a revived supervisor
Prior == MaxAttempts + 2        \* uid of objects created before the history starts
Names == {"pvc", "home", "gwpol", "gwsvc", "gwpod", "netpol", "cilium", "guest", "client",
          "server", "pod", "service", "supervisor", "ssh", "desktop"}
Kinds == {"none", "provision", "fork", "resume", "exec", "stop", "snapshot"}
Done == 0                       \* pc of an attempt that has returned
NoRows == [n \in Names |-> 0]
PassAt(at, rows, listed, todo, deleted) ==
  [at |-> at, rows |-> rows, listed |-> listed, todo |-> todo, deleted |-> deleted]
NoPass == PassAt("idle", NoRows, FALSE, [n \in {} |-> 0], 0)

\* A managed home carries no sandbox label, and a Cilium policy is deleted by
\* its own command.
Labelled == Names \ {"home"}
TeardownKinds == Labelled \ {"cilium"}

-----------------------------------------------------------------------------
(* What each operation does, as the sequence of its steps. *)

Report(stage, names) == [op |-> "report", stage |-> stage, names |-> names]
Adopt(names) == [op |-> "adopt", stage |-> 0, names |-> names]
Wait(names) == [op |-> "wait", stage |-> 0, names |-> names]
Step(op) == [op |-> op, stage |-> 0, names |-> {}]

\* ProvisioningStage::ordinal, from 1.
WorkspacePlanned == 1
WorkspaceReady == 2
NetworkPolicyReady == 3
CredentialsReady == 4
PodReady == 5
ServiceReady == 6
SandboxReady == 7

\* The per-sandbox claim, or the managed home.
WorkspaceSteps(s) ==
  LET volume == {IF s.home THEN "home" ELSE "pvc"}
  IN <<Report(WorkspacePlanned, {})>> \o
     IF s.persistent THEN <<Adopt(volume), Report(WorkspaceReady, volume)>>
     ELSE <<Report(WorkspaceReady, {})>>

\* The policy of the egress gateway comes first; its Service and Pod go with the
\* runtime's own policy, of which alone the identity is reported.
NetworkSteps(s) ==
  LET gateway == s.gateway /\ ~s.sterile
      policy == IF s.cilium THEN "cilium" ELSE "netpol"
  IN (IF gateway THEN <<Adopt({"gwpol"}), Report(NetworkPolicyReady, {"gwpol"})>> ELSE <<>>)
     \o <<Adopt({policy} \cup IF gateway THEN {"gwsvc", "gwpod"} ELSE {}),
          Report(NetworkPolicyReady, {policy})>>

CredentialSteps(s) ==
  (IF s.guest THEN <<Adopt({"guest"}), Report(CredentialsReady, {"guest"})>>
   ELSE <<Report(CredentialsReady, {})>>)
  \o (IF s.sterile THEN <<Adopt({"client"}), Adopt({"server"})>> ELSE <<>>)

PodSteps(s) ==
  <<Adopt({"pod"})>>
  \o (IF s.gateway /\ ~s.sterile THEN <<Wait({"gwpod"})>> ELSE <<>>)
  \o <<Wait({"pod"}), Step("verify"), Report(PodReady, {"pod"})>>

\* The identity of the supervisor Pod is not reported.
ServiceSteps(s) ==
  (IF s.sterile
   THEN <<Adopt({"service"}), Report(ServiceReady, {"service"}),
          Adopt({"supervisor"}), Wait({"supervisor"})>>
   ELSE <<Adopt({"ssh"}), Report(ServiceReady, {"ssh"}),
          Adopt({"desktop"}), Report(ServiceReady, {"desktop"})>>)
  \o <<Report(SandboxReady, {})>>

StagedSteps(s) ==
  WorkspaceSteps(s) \o NetworkSteps(s) \o CredentialSteps(s) \o PodSteps(s) \o ServiceSteps(s)

\* provision_manifests and fork_manifests of a sandbox that is not sterile.
Manifests(s, restored) ==
  {"pod", "ssh", "desktop", IF s.cilium THEN "cilium" ELSE "netpol"}
  \cup (IF s.persistent \/ restored THEN {"pvc"} ELSE {})
  \cup (IF s.guest THEN {"guest"} ELSE {})
  \cup (IF s.gateway THEN {"gwpod", "gwsvc", "gwpol"} ELSE {})

ReadySteps(s) == (IF s.gateway THEN <<Wait({"gwpod"})>> ELSE <<>>) \o <<Wait({"pod"})>>

\* provision of the trait, which a worker takes to exec in a missing Pod.
DirectSteps(s) ==
  <<[op |-> "apply", stage |-> 0, names |-> Manifests(s, FALSE)]>> \o ReadySteps(s) \o <<Step("verify")>>
RestoreSteps(s) ==
  <<Step("need"), [op |-> "apply", stage |-> 0, names |-> Manifests(s, TRUE)]>> \o ReadySteps(s)
ForkSteps(s) == RestoreSteps(s) \o <<Step("verify")>>
ResumeSteps(s) == RestoreSteps(s)
ExecSteps(s) == <<Step("podExists")>> \o DirectSteps(s) \o <<Step("exec")>>
StopSteps(s) == <<Step("list"), Step("settle"), Step("teardown"), Step("optional")>>
SnapshotSteps(s) == <<Step("capture"), Step("ready")>>

Plan == [k \in Kinds |-> [s \in Cases |->
  CASE k = "provision" -> StagedSteps(s)
    [] k = "fork" -> ForkSteps(s)
    [] k = "resume" -> ResumeSteps(s)
    [] k = "exec" -> ExecSteps(s)
    [] k = "stop" -> StopSteps(s)
    [] k = "snapshot" -> SnapshotSteps(s)
    [] OTHER -> <<>>]]
Steps(a) == Plan[kind[a]][spec]

Set(f, S, v) == [x \in DOMAIN f |-> IF x \in S THEN v ELSE f[x]]

\* A sandbox starts with its provision or fork job, as one that was provisioned,
\* or as one that was stopped after a snapshot.
Init ==
  /\ spec \in Cases /\ lapsed = FALSE
  /\ state = IF spec.from = "archived" THEN "archived" ELSE "live"
  /\ job = IF spec.from \in {"provision", "fork"} THEN spec.from ELSE "none"
  /\ LET named == {n \in Names : \E i \in DOMAIN StagedSteps(spec) : n \in StagedSteps(spec)[i].names}
         recorded == {n \in Names : \E i \in DOMAIN StagedSteps(spec) :
                        StagedSteps(spec)[i].op = "report" /\ n \in StagedSteps(spec)[i].names}
     IN /\ obj = IF spec.from = "running" THEN Set(NoRows, named, Prior) ELSE NoRows
        /\ rowUid = IF spec.from \in {"running", "archived"} THEN Set(NoRows, recorded, Prior) ELSE NoRows
  /\ tenant = obj["supervisor"] /\ down = FALSE
  /\ claim = IF spec.from = "running" THEN "bound" ELSE "pending"
  /\ snapshot = IF spec.from = "archived" THEN "ready" ELSE "none"
  /\ kind = [a \in Attempts |-> "none"] /\ pc = [a \in Attempts |-> Done]
  /\ phase = [a \in Attempts |-> "run"]
  /\ applied = [a \in Attempts |-> FALSE] /\ knew = [a \in Attempts |-> FALSE]
  /\ told = [a \in Attempts |-> FALSE] /\ lacks = [a \in Attempts |-> {}]
  /\ readUid = [a \in Attempts |-> 0] /\ podUid = [a \in Attempts |-> 0]
  /\ leased = {} /\ opStage = 0 /\ opAttempt = 0 /\ rowBy = NoRows
  /\ pass = NoPass

-----------------------------------------------------------------------------
Present(S) == {n \in S : obj[n] # 0}
Running(a) == pc[a] # Done /\ phase[a] \notin {"rollback", "rollbackOptional"}
At(a, op) == Running(a) /\ pc[a] <= Len(Steps(a)) /\ Steps(a)[pc[a]].op = op
Here(a) == Steps(a)[pc[a]]
Advance(a) == pc' = [pc EXCEPT ![a] = @ + 1] /\ phase' = [phase EXCEPT ![a] = "run"]

\* What a kubectl apply that failed or was killed may have done of S: nothing,
\* everything, or its first manifest (bound).
Partly(S) == {{}, S} \cup {IF "pvc" \in S THEN {"pvc"} ELSE S \cap {"netpol", "cilium"}}

\* The cluster after names were created by a, or deleted.  The workspace claim
\* binds when its Pod is scheduled, and a snapshot in progress needs the claim.
Create(a, names) ==
  LET new == {n \in names : obj[n] = 0} IN
  /\ obj' = Set(obj, new, a)
  /\ tenant' = IF "supervisor" \in new THEN podUid[a] ELSE tenant
  /\ down' = (down /\ "supervisor" \notin new)
  /\ claim' = IF "pod" \in new THEN "bound" ELSE IF "pvc" \in new THEN "pending" ELSE claim
  /\ UNCHANGED snapshot
Delete(names) ==
  /\ obj' = Set(obj, names, 0)
  /\ tenant' = IF "supervisor" \in names THEN 0 ELSE tenant
  /\ down' = (down /\ "supervisor" \notin names)
  /\ claim' = IF "pvc" \in names THEN "pending" ELSE claim
  /\ snapshot' = IF "pvc" \in names /\ obj["pvc"] # 0 /\ snapshot = "pending" THEN "lost" ELSE snapshot

\* Mutant: the rollback looks at the cancel signal alone.
RollbackUnlessTold(a, rejected) == applied[a] /\ (kind[a] = "provision" => ~told[a])

\* Whether an attempt that fails rolls back: a staged one only while neither the
\* cancel signal nor a rejected report has told it that it lost the sandbox, the
\* others whenever they have applied.
RollsBack(a, rejected) ==
  IF kind[a] = "provision" THEN applied[a] /\ ~told[a] /\ ~rejected
  ELSE applied[a] /\ kind[a] \in {"fork", "resume", "exec"}

\* An attempt returns, which leaves nothing of it, and its lease ends with the
\* report of that; a report that never arrives is a lease that expires.
Returns(a) ==
  /\ pc' = [pc EXCEPT ![a] = Done] /\ phase' = [phase EXCEPT ![a] = "run"]
  /\ applied' = [applied EXCEPT ![a] = FALSE] /\ knew' = [knew EXCEPT ![a] = FALSE]
  /\ told' = [told EXCEPT ![a] = FALSE] /\ lacks' = [lacks EXCEPT ![a] = {}]
  /\ readUid' = [readUid EXCEPT ![a] = 0] /\ podUid' = [podUid EXCEPT ![a] = 0]
  /\ leased' = leased \ {a}

\* An attempt's error, on a rejected report or in kubectl.
Errs(a, rollsBack, rejected) ==
  IF rollsBack
  THEN /\ phase' = [phase EXCEPT ![a] = "rollback"]
       /\ knew' = [knew EXCEPT ![a] = told[a] \/ rejected]
       /\ UNCHANGED <<pc, applied, told, readVars, leased>>
  ELSE Returns(a)

-----------------------------------------------------------------------------
(* The control plane. *)

Next0(a) == a \in Attempts /\ kind[a] = "none" /\ \A b \in Attempts : b < a => kind[b] # "none"

\* A worker claims the next attempt of a queued job.
Claim(a, k) ==
  /\ Next0(a)
  /\ \/ k = job /\ k # "none" /\ state = "live" /\ \A b \in leased : kind[b] \notin {"provision", "fork", "resume"}
     \/ k \in {"exec", "snapshot"} /\ state = "live" /\ job = "none" /\ obj["pod"] # 0
        /\ (k = "snapshot" => spec.persistent /\ snapshot \in {"none", "ready"}) /\ (k = "exec" => ~spec.sterile)
     \/ k = "stop" /\ state = "archiving" /\ \A b \in leased : kind[b] # "stop"
  /\ kind' = [kind EXCEPT ![a] = k] /\ pc' = [pc EXCEPT ![a] = 1]
  /\ leased' = leased \cup {a}
  /\ UNCHANGED <<spec, sandboxVars, clusterVars, phase, flags, readVars, opVars, pass>>

\* A lease runs out, and its worker's renewal loop gives up on it.
Expire(a) ==
  /\ a \in leased /\ leased' = leased \ {a}
  /\ UNCHANGED <<spec, sandboxVars, clusterVars, attemptVars, opVars, pass>>
Cancel(a) ==
  /\ pc[a] # Done /\ ~told[a] /\ a \notin leased
  /\ told' = [told EXCEPT ![a] = TRUE]
  /\ UNCHANGED <<spec, sandboxVars, clusterVars, kind, pc, phase, applied, knew, readVars, leased, opVars, pass>>

StopSandbox ==
  /\ state = "live" /\ state' = "archiving" /\ job' = "none"
  /\ UNCHANGED <<spec, lapsed, clusterVars, attemptVars, leased, opVars, pass>>
ResumeSandbox ==
  /\ state = "archived" /\ snapshot = "ready" /\ ~lapsed
  /\ state' = "live" /\ job' = "resume"
  /\ UNCHANGED <<spec, lapsed, clusterVars, attemptVars, leased, opVars, pass>>
TtlLapses ==
  /\ state = "live" /\ job = "none" /\ ~lapsed /\ lapsed' = TRUE
  /\ UNCHANGED <<spec, state, job, clusterVars, attemptVars, leased, opVars, pass>>

-----------------------------------------------------------------------------
(* The steps of an attempt. *)

\* A stage report: update_provisioning_stage_in_transaction.  The fence is the
\* active lease, a sandbox that is not stopped, the newest attempt and, within
\* an attempt, the stage order; a row of an older attempt may change its uid.
StageAccepted(a, k, n) ==
  /\ a \in leased /\ state = "live"
  /\ opAttempt <= a
  /\ opAttempt = a => opStage <= k
  /\ \A m \in n : rowUid[m] \in {0, readUid[a]} \/ opAttempt < a

SendReport(a) ==
  LET k == Here(a).stage
      n == Here(a).names
      repeated == opAttempt = a /\ opStage = k /\ \A m \in n : rowUid[m] = readUid[a]
      owns == k >= opStage
  IN
  /\ At(a, "report")
  /\ IF StageAccepted(a, k, n)
     THEN /\ opAttempt' = IF owns /\ ~repeated THEN a ELSE opAttempt
          /\ opStage' = IF owns THEN k ELSE opStage
          /\ rowUid' = Set(rowUid, n, readUid[a])
          /\ rowBy' = IF repeated THEN rowBy ELSE Set(rowBy, n, a)
          /\ Advance(a) /\ UNCHANGED <<flags, readVars, leased>>
     ELSE Errs(a, RollsBack(a, TRUE), TRUE) /\ UNCHANGED opVars
  /\ UNCHANGED <<spec, sandboxVars, clusterVars, kind, pass>>

\* apply_or_adopt_manifests_with_identity reads the objects, before and after it
\* applies those that are missing.  A supervisor rendered for another Pod does
\* not match the adoption contract.
ReadIdentities(a) ==
  LET names == Here(a).names
      missing == names \ Present(names)
      conflict == "supervisor" \in names /\ tenant # podUid[a]
      reported == names \ {"gwsvc", "gwpod"}
  IN
  /\ At(a, "adopt") /\ phase[a] # "apply" /\ ~told[a]
  /\ CASE missing = {} /\ ~conflict ->
            /\ readUid' = [readUid EXCEPT ![a] = obj[CHOOSE n \in reported : TRUE]]
            /\ podUid' = IF "pod" \in names THEN [podUid EXCEPT ![a] = obj["pod"]] ELSE podUid
            /\ lacks' = [lacks EXCEPT ![a] = {}]
            /\ Advance(a) /\ UNCHANGED <<flags, leased>>
       [] missing # {} /\ phase[a] = "run" ->
            /\ lacks' = [lacks EXCEPT ![a] = missing]
            /\ applied' = [applied EXCEPT ![a] = TRUE]
            /\ phase' = [phase EXCEPT ![a] = "apply"]
            /\ UNCHANGED <<readUid, podUid, pc, knew, told, leased>>
       [] OTHER -> Errs(a, RollsBack(a, FALSE), FALSE)
  /\ UNCHANGED <<spec, sandboxVars, clusterVars, kind, opVars, pass>>

ApplyMissing(a) ==
  /\ At(a, "adopt") /\ phase[a] = "apply" /\ ~told[a]
  /\ Create(a, lacks[a])
  /\ phase' = [phase EXCEPT ![a] = "read"]
  /\ UNCHANGED <<spec, sandboxVars, kind, pc, flags, readVars, leased, opVars, pass>>

\* The one apply of provision, fork and resume.
ApplyAll(a) ==
  /\ At(a, "apply") /\ ~told[a]
  /\ Create(a, Here(a).names)
  /\ applied' = [applied EXCEPT ![a] = TRUE]
  /\ Advance(a)
  /\ UNCHANGED <<spec, sandboxVars, kind, knew, told, readVars, leased, opVars, pass>>

\* kubectl wait, the RuntimeClass check and the restore precondition.
Await(a) ==
  /\ ~told[a]
  /\ \/ At(a, "wait") /\ Present(Here(a).names) = Here(a).names
     \/ At(a, "verify") /\ obj["pod"] # 0
     \/ At(a, "need") /\ (kind[a] = "fork" \/ snapshot = "ready")
     \/ At(a, "ready") /\ snapshot = "ready"
     \/ At(a, "settle") /\ (lacks[a] = {} \/ snapshot = "ready")
     \/ At(a, "exec")
  /\ Advance(a)
  /\ UNCHANGED <<spec, sandboxVars, clusterVars, kind, flags, readVars, leased, opVars, pass>>

\* exec_handoff provisions a Pod that is missing.
PodExists(a) ==
  /\ At(a, "podExists") /\ ~told[a]
  /\ IF obj["pod"] # 0 THEN pc' = [pc EXCEPT ![a] = Len(Steps(a))] ELSE pc' = [pc EXCEPT ![a] = @ + 1]
  /\ UNCHANGED <<spec, sandboxVars, clusterVars, kind, phase, flags, readVars, leased, opVars, pass>>

\* create_snapshot applies a VolumeSnapshot of the workspace claim.
Capture(a) ==
  /\ At(a, "capture") /\ ~told[a]
  /\ snapshot' = IF obj["pvc"] # 0 THEN "pending" ELSE "lost"
  /\ Advance(a)
  /\ UNCHANGED <<spec, sandboxVars, obj, tenant, down, claim, kind, flags, readVars, leased, opVars, pass>>

\* wait_for_sandbox_volume_snapshots_ready lists the snapshots once.
ListSnapshots(a) ==
  /\ At(a, "list") /\ ~told[a]
  /\ lacks' = [lacks EXCEPT ![a] = IF snapshot = "none" THEN {} ELSE {"pvc"}]
  /\ Advance(a)
  /\ UNCHANGED <<spec, sandboxVars, clusterVars, kind, applied, knew, told, readUid, podUid, leased, opVars, pass>>

\* Deletes by label, the built-in kinds before the optional ones.
Teardown(a) ==
  /\ ~told[a]
  /\ \/ At(a, "teardown") /\ Delete(Present(TeardownKinds))
     \/ At(a, "optional") /\ Delete(Present(Labelled \ TeardownKinds))
  /\ Advance(a)
  /\ UNCHANGED <<spec, sandboxVars, kind, flags, readVars, leased, opVars, pass>>

\* A kubectl command fails, times out or is killed on cancellation, whatever it
\* has done by then.  A killed apply of provision, fork or resume returns before
\* the rollback that follows a failed one.
KubectlFails(a, killed) ==
  LET op == Here(a).op
      undo == IF op = "apply" THEN ~killed ELSE op # "exec" /\ RollsBack(a, FALSE)
  IN
  /\ Running(a) /\ pc[a] <= Len(Steps(a)) /\ op # "report" /\ (told[a] => killed)
  /\ \/ op = "adopt" /\ phase[a] = "apply" /\ \E part \in Partly(lacks[a]) : Create(a, part)
     \/ op = "apply" /\ \E part \in Partly(Here(a).names) : Create(a, part)
     \/ op = "teardown" /\ \E part \in {{}, Present(TeardownKinds)} : Delete(part)
     \/ op \notin {"apply", "teardown"} /\ phase[a] # "apply" /\ UNCHANGED clusterVars
  /\ Errs(a, undo, FALSE)
  /\ UNCHANGED <<spec, sandboxVars, kind, opVars, pass>>

\* rollback_applied_resources deletes by label, whatever the lease and the
\* cancel signal say, and its own failures are only logged.
Rollback(a) ==
  /\ pc[a] # Done
  /\ \/ /\ phase[a] = "rollback"
        /\ \E part \in {{}, Present(TeardownKinds)} : Delete(part)
        /\ phase' = [phase EXCEPT ![a] = "rollbackOptional"]
        /\ UNCHANGED <<pc, flags, readVars, leased>>
     \/ /\ phase[a] = "rollbackOptional"
        /\ \E part \in {{}, Present(Labelled \ TeardownKinds)} : Delete(part)
        /\ Returns(a)
  /\ UNCHANGED <<spec, sandboxVars, kind, opVars, pass>>

\* The worker completes the lease, which counts only while it is active.
Complete(a) ==
  /\ Running(a) /\ pc[a] = Len(Steps(a)) + 1
  /\ Returns(a)
  /\ job' = IF a \in leased /\ kind[a] = job THEN "none" ELSE job
  /\ state' = IF a \in leased /\ kind[a] = "stop" THEN "archived" ELSE state
  /\ UNCHANGED <<spec, lapsed, clusterVars, kind, opVars, pass>>

-----------------------------------------------------------------------------
(* The cluster on its own. *)

SnapshotSettles ==
  /\ snapshot = "pending" /\ snapshot' = "ready"
  /\ UNCHANGED <<spec, sandboxVars, obj, tenant, down, claim, attemptVars, leased, opVars, pass>>
ClaimAges ==
  /\ obj["pvc"] # 0 /\ claim = "pending" /\ \A a \in Attempts : pc[a] = Done
  /\ claim' = "aged"
  /\ UNCHANGED <<spec, sandboxVars, obj, tenant, down, snapshot, attemptVars, leased, opVars, pass>>
SupervisorExits ==
  /\ obj["supervisor"] # 0 /\ ~down /\ down' = TRUE
  /\ UNCHANGED <<spec, sandboxVars, obj, tenant, claim, snapshot, attemptVars, leased, opVars, pass>>

-----------------------------------------------------------------------------
(* The reconciliation pass. *)

\* The rows of the runtime inventory, and after them the sandboxes it lists.
FetchRows ==
  /\ pass.at = "idle"
  /\ pass' = PassAt("ids", IF state = "live" THEN rowUid ELSE NoRows, FALSE, NoPass.todo, 0)
  /\ UNCHANGED <<spec, sandboxVars, clusterVars, attemptVars, leased, opVars>>

SandboxListed == state # "archived"

FetchSandboxes ==
  /\ pass.at = "ids"
  /\ pass' = PassAt("discover", pass.rows, SandboxListed, NoPass.todo, 0)
  /\ UNCHANGED <<spec, sandboxVars, clusterVars, attemptVars, leased, opVars>>

\* classify_reconciliation of an object that is no resident process's.
Classify(n, rows, listed) ==
  LET unrecorded == rows[n] = 0
      class == CASE ~unrecorded /\ rows[n] # obj[n] -> "indeterminate"
                 [] lapsed /\ (\E m \in Names : rows[m] # 0) -> "expired"
                 [] ~unrecorded -> "expected"
                 [] listed -> "indeterminate"
                 [] OTHER -> "orphaned"
  IN IF class = "indeterminate" /\ unrecorded /\ n = "pvc" /\ claim = "aged" THEN "orphaned" ELSE class

\* Kinds are listed in the order of SANDBOX_RECONCILIATION_RESOURCE_KINDS, and
\* their objects deleted in that order.
DiscoveryOrder ==
  <<"gwpod", "supervisor", "pod", "pvc", "desktop", "gwsvc", "service", "ssh",
    "client", "guest", "server", "gwpol", "netpol">>
Foremost(n, names) ==
  \A m \in names : \E i, j \in DOMAIN DiscoveryOrder :
    i <= j /\ DiscoveryOrder[i] = n /\ DiscoveryOrder[j] = m

\* The pass asks for no Cilium policies: reconcile_once configures no backend.
Discovered == Present(TeardownKinds)

\* plan_supervisor_revivals
Revives(rows, listed) ==
  /\ obj["supervisor"] # 0 /\ down /\ listed
  /\ rows["supervisor"] # 0
  /\ obj["pod"] # 0 /\ obj["guest"] # 0 /\ obj["client"] # 0

\* The objects a pass may delete, with the uids it observed.
Decisions(rows, listed) ==
  [n \in {m \in Discovered : Classify(m, rows, listed) \in {"orphaned", "expired"}} |-> obj[n]]

\* Discovery, revivals, and the decisions the deletes go by.
Discover ==
  LET revives == Revives(pass.rows, pass.listed)
      decisions == Decisions(pass.rows, pass.listed)
  IN
  /\ pass.at = "discover"
  /\ pass' = IF DOMAIN decisions = {} THEN NoPass
             ELSE PassAt("delete", NoRows, pass.listed, decisions, 0)
  /\ obj' = IF revives THEN [obj EXCEPT !["supervisor"] = Revived] ELSE obj
  /\ tenant' = IF revives THEN obj["pod"] ELSE tenant
  /\ down' = (down /\ ~revives)
  /\ UNCHANGED <<spec, sandboxVars, claim, snapshot, attemptVars, leased, opVars>>

Deleted(p, n) ==
  IF DOMAIN p.todo = {n} \/ p.deleted + 1 = MaxDeleted THEN NoPass
  ELSE PassAt("delete", p.rows, p.listed, [m \in DOMAIN p.todo \ {n} |-> p.todo[m]], p.deleted + 1)

\* Mutant: the delete has no uid precondition.
DeleteByName(n, uid) == Delete({n}) /\ pass' = Deleted(pass, n)

\* delete_reconciled_resource: absent is success, another uid fails the pass.
DeleteFenced(n, uid) ==
  IF obj[n] \in {0, uid} THEN Delete({n}) /\ pass' = Deleted(pass, n)
  ELSE UNCHANGED clusterVars /\ pass' = NoPass

DeleteNext ==
  /\ pass.at = "delete"
  /\ \E n \in DOMAIN pass.todo : Foremost(n, DOMAIN pass.todo) /\ DeleteFenced(n, pass.todo[n])
  /\ UNCHANGED <<spec, sandboxVars, attemptVars, leased, opVars>>

\* The pass ends: nothing to delete, max_deleted, max_elapsed, or an error of
\* the inventory, of discovery or of a delete.
EndPass ==
  /\ pass.at # "idle" /\ pass' = NoPass
  /\ UNCHANGED <<spec, sandboxVars, clusterVars, attemptVars, leased, opVars>>

-----------------------------------------------------------------------------
AttemptStep(a) ==
  \/ SendReport(a) \/ ReadIdentities(a) \/ ApplyMissing(a) \/ ApplyAll(a) \/ Await(a)
  \/ PodExists(a) \/ Capture(a) \/ ListSnapshots(a) \/ Teardown(a) \/ Rollback(a) \/ Complete(a)
  \/ \E killed \in BOOLEAN : KubectlFails(a, killed)

PassStep == FetchRows \/ FetchSandboxes \/ Discover \/ DeleteNext

Next ==
  \/ \E a \in Attempts :
       \/ \E k \in Kinds \ {"none"} : Claim(a, k)
       \/ Expire(a) \/ Cancel(a) \/ AttemptStep(a)
  \/ StopSandbox \/ ResumeSandbox \/ TtlLapses
  \/ SnapshotSettles \/ ClaimAges \/ SupervisorExits
  \/ PassStep \/ EndPass

Spec == Init /\ [][Next]_vars

\* Workers act, and kubectl calls are bounded by a timeout; the pass is a CronJob
\* that is tried again until its inventory, its discovery and its deletes succeed.
Fairness ==
  /\ \A a \in Attempts : WF_vars(AttemptStep(a))
  /\ WF_vars(FetchRows) /\ SF_vars(FetchSandboxes) /\ SF_vars(Discover) /\ SF_vars(DeleteNext)

FairSpec == Spec /\ Fairness

-----------------------------------------------------------------------------
\* Every variable of the provider, the fence and the pass has its type.
TypeOK ==
  /\ spec \in Cases /\ state \in {"live", "archiving", "archived"}
  /\ job \in {"none", "provision", "fork", "resume"} /\ lapsed \in BOOLEAN
  /\ obj \in [Names -> Uids] /\ tenant \in Uids /\ down \in BOOLEAN
  /\ claim \in {"pending", "aged", "bound"} /\ snapshot \in {"none", "pending", "ready", "lost"}
  /\ kind \in [Attempts -> Kinds] /\ pc \in [Attempts -> Nat]
  /\ phase \in [Attempts -> {"run", "apply", "read", "rollback", "rollbackOptional"}]
  /\ applied \in [Attempts -> BOOLEAN] /\ knew \in [Attempts -> BOOLEAN]
  /\ told \in [Attempts -> BOOLEAN] /\ lacks \in [Attempts -> SUBSET Names]
  /\ readUid \in [Attempts -> Uids] /\ podUid \in [Attempts -> Uids]
  /\ leased \subseteq Attempts /\ opStage \in 0..SandboxReady /\ opAttempt \in 0..MaxAttempts
  /\ rowUid \in [Names -> Uids] /\ rowBy \in [Names -> 0..MaxAttempts]
  /\ pass.at \in {"idle", "ids", "discover", "delete"} /\ pass.listed \in BOOLEAN
  /\ pass.rows \in [Names -> Uids] /\ pass.deleted \in 0..MaxDeleted
  /\ DOMAIN pass.todo \subseteq TeardownKinds /\ \A n \in DOMAIN pass.todo : pass.todo[n] \in Uids

\* The deletes of a rollback and of a stop go by the sandbox's label, with no uid
\* (provider.rs:7501), so they may meet what a later attempt has built.  Builds and
\* stops do so only once their lease is over, and a staged provision only if neither
\* its cancel signal nor a refused report had told it so when its rollback began
\* (provider.rs:5513).  Two commands may rebuild one missing Pod side by side, and
\* the rollback of the first may take the second's.
SuccessorStep ==
  \A a \in Attempts : pc[a] # pc'[a] \/ phase[a] # phase'[a] =>
    \A n \in Names : obj[n] \in Attempts /\ obj[n] > a /\ obj'[n] # obj[n] =>
      /\ kind[a] \in {"provision", "fork", "resume", "stop"} => a \notin leased
      /\ kind[a] = "provision" => ~knew[a]
SuccessorIsSpared == [][SuccessorStep]_vars

\* What a reconciliation pass deletes was there when it discovered, with the same
\* uid; and when the pass saw the sandbox listed, inside its ttl, it is at most the
\* workspace claim.
PassDeletes ==
  pass.at = "delete" /\ pass' # pass => \A n \in Names :
    obj[n] # 0 /\ obj'[n] = 0 =>
      /\ n \in DOMAIN pass.todo /\ obj[n] = pass.todo[n] /\ Foremost(n, DOMAIN pass.todo)
      /\ pass.listed /\ ~lapsed => n = "pvc"
PassSparesTheLiving == [][PassDeletes]_vars

=============================================================================
