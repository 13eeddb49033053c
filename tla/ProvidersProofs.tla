------------------------- MODULE ProvidersProofs ---------------------------
(***************************************************************************)
(* Proofs about three providers.  Kubernetes: KubeInv says which attempts  *)
(* may be leased beside each other, whose objects there may be, and what   *)
(* the list of a reconciliation pass may hold.  Agent sandboxes: AgentInv follows a      *)
(* provision from its claim to its receipt and every process it left in    *)
(* the Pod.  Cloudflare: HomeUntilStop says which of the creates in the    *)
(* object stand for a mounted home; ResultInv says, for every line of an   *)
(* answer, what the parser has taken of it.                                *)
(***************************************************************************)
EXTENDS KubernetesProvider, AgentSandbox, CloudflareProvider, SequenceTheorems, TLAPS

-----------------------------------------------------------------------------
(* Kubernetes. *)

\* What the proof needs of the types.
KubeShape ==
  /\ spec \in Cases
  /\ DOMAIN obj = Names /\ DOMAIN knew = Attempts
  /\ kind \in [Attempts -> Kinds] /\ pc \in [Attempts -> Nat]
  /\ phase \in [Attempts -> {"run", "apply", "read", "rollback", "rollbackOptional"}]
  /\ \A a \in Attempts : kind[a] = "none" => pc[a] = Done

\* No staged provision began its rollback knowing that it had lost the sandbox.
KnowsNot == \A a \in Attempts : kind[a] \in {"none", "provision"} => ~knew[a]

\* An object is made by an attempt that builds.
Builders == {"provision", "fork", "resume"}
MadeBy == \A n \in Names : obj[n] \in Attempts => kind[obj[n]] \in Builders \cup {"exec"}

\* One build and one stop hold a lease at a time, attempts are claimed in order, and
\* while a build is leased the sandbox is stopped or still has its job, so that
\* nothing but a stop is claimed after it; while a stop is leased, nothing at all.
Leases ==
  /\ leased \subseteq Attempts /\ job \in Builders \cup {"none"}
  /\ \A a, b \in Attempts : a < b /\ kind[a] = "none" => kind[b] = "none"
  /\ \A a, b \in leased : kind[a] \in Builders /\ kind[b] \in Builders => a = b
  /\ \A a, b \in leased : kind[a] = "stop" /\ kind[b] = "stop" => a = b
  /\ \A a \in leased : kind[a] \in Builders /\ state = "live" => job # "none"
  /\ \A a \in leased : kind[a] = "stop" => state = "archiving"
  /\ \A a \in leased, b \in Attempts : a < b /\ kind[a] \in Builders => kind[b] \in {"none", "stop"}
  /\ \A a \in leased, b \in Attempts : a < b /\ kind[a] = "stop" => kind[b] = "none"

\* Of a sandbox that the pass saw listed, inside its ttl, only the workspace claim
\* is to be deleted.
SparesListed == pass.listed /\ ~lapsed => DOMAIN pass.todo \subseteq {"pvc"}

\* The inductive invariant.
KubeInv == KubeShape /\ KnowsNot /\ MadeBy /\ Leases /\ SparesListed

\* The steps a staged provision is made of, and those of the other jobs.
StagedStep == [op : {"report", "adopt", "wait", "verify"}, stage : 0..SandboxReady, names : SUBSET Names]
OtherStep == [op : {"apply", "wait", "verify", "need", "podExists", "exec", "list", "settle", "teardown",
                    "optional", "capture", "ready"},
              stage : {0}, names : SUBSET Names]
QuietStep == [op : {"list", "settle", "teardown", "optional", "capture", "ready"}, stage : {0}, names : {{}}]

\* Only the staged provision reports, and stops and snapshots apply nothing.
LEMMA StepsOfPlan ==
  ASSUME NEW s \in Cases
  PROVE  /\ StagedSteps(s) \in Seq(StagedStep)
         /\ \A k \in Kinds \ {"provision"} : Plan[k][s] \in Seq(OtherStep)
         /\ Plan["provision"][s] = StagedSteps(s)
         /\ \A k \in {"none", "stop", "snapshot"} : Plan[k][s] \in Seq(QuietStep)
<1> USE DEF Names, SandboxReady
<1>1. WorkspaceSteps(s) \in Seq(StagedStep)
  <2>1. Report(WorkspacePlanned, {}) \in StagedStep /\ Report(WorkspaceReady, {}) \in StagedStep
    BY DEF Report, StagedStep, WorkspacePlanned, WorkspaceReady
  <2>2. \A n \in Names : Adopt({n}) \in StagedStep /\ Report(WorkspaceReady, {n}) \in StagedStep
    BY DEF Report, Adopt, StagedStep, WorkspacePlanned, WorkspaceReady
  <2>3. PICK v \in Names : v = IF s.home THEN "home" ELSE "pvc"
    OBVIOUS
  <2>4. /\ <<Report(WorkspacePlanned, {})>> \in Seq(StagedStep) /\ <<Report(WorkspaceReady, {})>> \in Seq(StagedStep)
        /\ <<Adopt({v}), Report(WorkspaceReady, {v})>> \in Seq(StagedStep)
    BY <2>1, <2>2
  <2>5. WorkspaceSteps(s) = <<Report(WorkspacePlanned, {})>> \o
          (IF s.persistent THEN <<Adopt({v}), Report(WorkspaceReady, {v})>> ELSE <<Report(WorkspaceReady, {})>>)
    BY <2>3 DEF WorkspaceSteps
  <2> QED BY <2>4, <2>5
<1> DEFINE Staged == Seq(StagedStep)
<1>a. \A n \in SUBSET Names : /\ Adopt(n) \in StagedStep /\ Wait(n) \in StagedStep
                              /\ \A k \in 0..SandboxReady : Report(k, n) \in StagedStep
  <2> SUFFICES ASSUME NEW n \in SUBSET Names, NEW k \in 0..SandboxReady
               PROVE  Adopt(n) \in StagedStep /\ Wait(n) \in StagedStep /\ Report(k, n) \in StagedStep
    BY DEF SandboxReady
  <2>1. Adopt(n) \in StagedStep
    BY DEF Adopt, StagedStep
  <2>2. Wait(n) \in StagedStep
    BY DEF Wait, StagedStep
  <2>3. Report(k, n) \in StagedStep
    BY DEF Report, StagedStep
  <2> QED BY <2>1, <2>2, <2>3
<1>b. Step("verify") \in StagedStep
  BY DEF Step, StagedStep
<1>2. NetworkSteps(s) \in Staged
  <2>1. PICK g \in BOOLEAN : g = (s.gateway /\ ~s.sterile)
    BY Zenon
  <2>2. PICK p \in Names : p = IF s.cilium THEN "cilium" ELSE "netpol"
    OBVIOUS
  <2>3. PICK n \in SUBSET Names : n = {p} \cup IF g THEN {"gwsvc", "gwpod"} ELSE {}
    OBVIOUS
  <2>4. /\ <<Adopt({"gwpol"}), Report(NetworkPolicyReady, {"gwpol"})>> \in Staged
        /\ <<Adopt(n), Report(NetworkPolicyReady, {p})>> \in Staged
    BY <1>a DEF NetworkPolicyReady
  <2>5. NetworkSteps(s) = (IF g THEN <<Adopt({"gwpol"}), Report(NetworkPolicyReady, {"gwpol"})>> ELSE <<>>)
                          \o <<Adopt(n), Report(NetworkPolicyReady, {p})>>
    BY <2>1, <2>2, <2>3 DEF NetworkSteps
  <2> QED BY <2>4, <2>5
<1>3. CredentialSteps(s) \in Staged
  <2>1. /\ <<Adopt({"guest"}), Report(CredentialsReady, {"guest"})>> \in Staged
        /\ <<Report(CredentialsReady, {})>> \in Staged
        /\ <<Adopt({"client"}), Adopt({"server"})>> \in Staged
    BY <1>a DEF CredentialsReady
  <2> QED BY <2>1 DEF CredentialSteps
<1>4. PodSteps(s) \in Staged
  <2>1. /\ <<Adopt({"pod"})>> \in Staged /\ <<Wait({"gwpod"})>> \in Staged
        /\ <<Wait({"pod"}), Step("verify"), Report(PodReady, {"pod"})>> \in Staged
    BY <1>a, <1>b DEF PodReady
  <2> QED BY <2>1 DEF PodSteps
<1>5. ServiceSteps(s) \in Staged
  <2>1. /\ <<Adopt({"service"}), Report(ServiceReady, {"service"}), Adopt({"supervisor"}), Wait({"supervisor"})>> \in Staged
        /\ <<Adopt({"ssh"}), Report(ServiceReady, {"ssh"}), Adopt({"desktop"}), Report(ServiceReady, {"desktop"})>> \in Staged
        /\ <<Report(SandboxReady, {})>> \in Staged
    BY <1>a DEF ServiceReady
  <2> QED BY <2>1 DEF ServiceSteps
<1>6. StagedSteps(s) \in Staged
  BY <1>1, <1>2, <1>3, <1>4, <1>5 DEF StagedSteps
<1> DEFINE Others == Seq(OtherStep)
           apply(r) == [op |-> "apply", stage |-> 0, names |-> Manifests(s, r)]
<1>c. \A op \in {"verify", "need", "podExists", "exec", "list", "settle", "teardown", "optional", "capture", "ready"} :
        Step(op) \in OtherStep
  BY DEF Step, OtherStep
<1>d. \A n \in SUBSET Names : Wait(n) \in OtherStep
  BY DEF Wait, OtherStep
<1>e. \A r \in BOOLEAN : apply(r) \in OtherStep
  <2>1. \A r \in BOOLEAN : Manifests(s, r) \in SUBSET Names
    BY DEF Manifests
  <2> QED BY <2>1 DEF OtherStep
<1>7. ReadySteps(s) \in Others
  <2>1. <<Wait({"gwpod"})>> \in Others /\ <<Wait({"pod"})>> \in Others
    BY <1>d
  <2> QED BY <2>1 DEF ReadySteps
<1>8. <<apply(FALSE)>> \in Others /\ <<Step("need"), apply(TRUE)>> \in Others
  <2>1. PICK x \in OtherStep, y \in OtherStep, z \in OtherStep : x = apply(FALSE) /\ y = Step("need") /\ z = apply(TRUE)
    BY <1>c, <1>e
  <2>2. <<x>> \in Others /\ <<y, z>> \in Others
    OBVIOUS
  <2> HIDE DEF Others
  <2> QED BY <2>1, <2>2
<1>9. <<Step("verify")>> \in Others /\ <<Step("podExists")>> \in Others /\ <<Step("exec")>> \in Others
  BY <1>c
<1>10. DirectSteps(s) \in Others /\ RestoreSteps(s) \in Others
  BY <1>7, <1>8, <1>9 DEF DirectSteps, RestoreSteps
<1>11. ForkSteps(s) \in Others /\ ResumeSteps(s) \in Others /\ ExecSteps(s) \in Others
  BY <1>9, <1>10 DEF ForkSteps, ResumeSteps, ExecSteps
<1>12. StopSteps(s) \in Others /\ SnapshotSteps(s) \in Others /\ <<>> \in Others
  BY <1>c DEF StopSteps, SnapshotSteps
<1>13. \A k \in Kinds \ {"provision"} : Plan[k][s] \in Others
  <2> SUFFICES ASSUME NEW k \in Kinds \ {"provision"} PROVE Plan[k][s] \in Others
    OBVIOUS
  <2> HIDE DEF Others
  <2> QED BY <1>11, <1>12 DEF Plan, Kinds
<1>14. Plan["provision"][s] = StagedSteps(s)
  BY DEF Plan, Kinds
<1>15. \A k \in {"none", "stop", "snapshot"} : Plan[k][s] \in Seq(QuietStep)
  <2>1. \A op \in {"list", "settle", "teardown", "optional", "capture", "ready"} : Step(op) \in QuietStep
    BY DEF Step, QuietStep
  <2>2. StopSteps(s) \in Seq(QuietStep) /\ SnapshotSteps(s) \in Seq(QuietStep) /\ <<>> \in Seq(QuietStep)
    BY <2>1 DEF StopSteps, SnapshotSteps
  <2>3. Plan["none"][s] = <<>> /\ Plan["stop"][s] = StopSteps(s) /\ Plan["snapshot"][s] = SnapshotSteps(s)
    BY DEF Plan, Kinds
  <2> QED BY <2>2, <2>3
<1> QED BY <1>6, <1>13, <1>14, <1>15

\* At the start no attempt has run and no pass is on its way.
LEMMA KubeInitInv == Init => KubeInv
<1> SUFFICES ASSUME Init PROVE KubeInv
  OBVIOUS
<1>1. DOMAIN obj = Names /\ \A n \in Names : obj[n] \in {0, Prior}
  BY DEF Init, Set, NoRows
<1>2. KubeShape
  BY <1>1 DEF Init, KubeShape, Kinds, Done
<1>3. KnowsNot
  BY Zenon DEF Init, KnowsNot
<1>4. MadeBy
  <2>1. 0 \notin Attempts /\ Prior \notin Attempts
    BY KubernetesAssumption DEF Attempts, Prior
  <2> QED BY <1>1, <2>1 DEF MadeBy
<1>5. Leases
  BY DEF Init, Leases, Builders
<1>6. pass.listed = FALSE
  BY DEF Init, NoPass, PassAt
<1> QED BY <1>2, <1>3, <1>4, <1>5, <1>6 DEF KubeInv, SparesListed

\* The steps of an attempt are a sequence, only those of a provision report, and
\* only those of a build or a command make objects.
LEMMA StepsOfAttempt ==
  ASSUME KubeShape, NEW a \in Attempts
  PROVE  /\ Len(Steps(a)) \in Nat
         /\ At(a, "report") => kind[a] = "provision"
         /\ At(a, "adopt") \/ At(a, "apply") => kind[a] \in Builders \cup {"exec"}
<1> USE DEF KubeShape
<1>a. ASSUME kind[a] \notin Builders \cup {"exec"} PROVE ~(At(a, "adopt") \/ At(a, "apply"))
  <2>1. kind[a] \in {"none", "stop", "snapshot"}
    BY <1>a DEF Kinds, Builders
  <2>2. Steps(a) \in Seq(QuietStep)
    BY <2>1, StepsOfPlan DEF Steps
  <2>3. \A i \in 1..Len(Steps(a)) : Steps(a)[i].op \notin {"adopt", "apply"}
    <3> SUFFICES ASSUME NEW i \in 1..Len(Steps(a)) PROVE Steps(a)[i].op \notin {"adopt", "apply"}
      OBVIOUS
    <3>1. Steps(a)[i] \in QuietStep
      BY <2>2
    <3> QED BY <3>1 DEF QuietStep
  <2>4. At(a, "adopt") \/ At(a, "apply") => pc[a] \in 1..Len(Steps(a)) /\ Steps(a)[pc[a]].op \in {"adopt", "apply"}
    BY <2>2 DEF At, Running, Done
  <2> QED BY <2>3, <2>4
<1>1. CASE kind[a] = "provision"
  <2>1. Steps(a) \in Seq(StagedStep)
    BY <1>1, StepsOfPlan DEF Steps
  <2> QED BY <1>1, <1>a, <2>1
<1>2. CASE kind[a] # "provision"
  <2>1. kind[a] \in Kinds \ {"provision"}
    BY <1>2
  <2>2. Steps(a) \in Seq(OtherStep)
    BY <2>1, StepsOfPlan DEF Steps
  <2>3. \A i \in 1..Len(Steps(a)) : Steps(a)[i].op # "report"
    <3> SUFFICES ASSUME NEW i \in 1..Len(Steps(a)) PROVE Steps(a)[i].op # "report"
      OBVIOUS
    <3>1. Steps(a)[i] \in OtherStep
      BY <2>2
    <3> QED BY <3>1 DEF OtherStep
  <2>4. At(a, "report") => pc[a] \in 1..Len(Steps(a)) /\ Steps(a)[pc[a]].op = "report"
    BY <2>2 DEF At, Running, Done
  <2> QED BY <1>a, <2>2, <2>3, <2>4
<1> QED BY <1>1, <1>2

Phases == {"run", "apply", "read", "rollback", "rollbackOptional"}

\* What a step of attempt a does to the attempts, and to the objects.
Moves(a) ==
  /\ DOMAIN knew' = Attempts
  /\ \A b \in Attempts : kind[b] \in {"none", "provision"} => ~knew'[b]
  /\ pc' \in [Attempts -> Nat] /\ phase' \in [Attempts -> Phases]
  /\ \A b \in Attempts \ {a} : pc'[b] = pc[b]
  /\ leased' \subseteq leased

Touches(a) ==
  /\ DOMAIN obj' = Names
  /\ \A n \in Names : \/ obj'[n] \in {obj[n], 0}
                      \/ obj'[n] = a /\ kind[a] \in Builders \cup {"exec"}

\* A step that succeeds, a return and an error move an attempt in that way, an error
\* provided that a provision that knows it lost the sandbox does not roll back.
LEMMA KeepsMoves ==
  ASSUME KubeInv, NEW a \in Attempts, NEW p \in Phases, phase' = [phase EXCEPT ![a] = p],
         pc' = pc, knew' = knew, leased' = leased
  PROVE  Moves(a)
BY DEF KubeInv, KubeShape, KnowsNot, Moves, Phases

LEMMA AdvanceMoves ==
  ASSUME KubeInv, NEW a \in Attempts, Advance(a), knew' = knew, leased' = leased
  PROVE  Moves(a)
BY DEF KubeInv, KubeShape, KnowsNot, Advance, Moves, Phases

LEMMA ReturnsMoves ==
  ASSUME KubeInv, NEW a \in Attempts, Returns(a)
  PROVE  Moves(a)
<1>1. DOMAIN knew' = Attempts /\ \A b \in Attempts : kind[b] \in {"none", "provision"} => ~knew'[b]
  BY DEF KubeInv, KubeShape, KnowsNot, Returns
<1> QED BY <1>1 DEF KubeInv, KubeShape, Returns, Moves, Phases, Done

LEMMA ErrsMoves ==
  ASSUME KubeInv, NEW a \in Attempts, pc[a] # Done, NEW u \in BOOLEAN, NEW r \in BOOLEAN, Errs(a, u, r),
         u => ~r /\ ~(kind[a] = "provision" /\ told[a])
  PROVE  Moves(a)
<1>1. CASE u
  <2>1. /\ phase' = [phase EXCEPT ![a] = "rollback"] /\ pc' = pc /\ leased' = leased
        /\ knew' = [knew EXCEPT ![a] = told[a] \/ r]
    BY <1>1 DEF Errs
  <2>2. kind[a] # "none"
    BY DEF KubeInv, KubeShape
  <2>3. /\ DOMAIN knew' = Attempts /\ knew'[a] = (told[a] \/ r)
        /\ \A b \in Attempts \ {a} : knew'[b] = knew[b]
    BY <2>1, Zenon DEF KubeInv, KubeShape
  <2>4. kind[a] \in {"none", "provision"} => ~knew'[a]
    BY <1>1, <2>2, <2>3, Zenon
  <2>5. \A b \in Attempts : kind[b] \in {"none", "provision"} => ~knew'[b]
    BY <2>3, <2>4, Zenon DEF KubeInv, KnowsNot
  <2> QED BY <2>1, <2>3, <2>5 DEF KubeInv, KubeShape, Moves, Phases
<1>2. CASE ~u
  BY <1>2, ReturnsMoves DEF Errs
<1> QED BY <1>1, <1>2

\* What creating, deleting and doing nothing in the cluster touches.
LEMMA ObjectsTouched ==
  ASSUME DOMAIN obj = Names, NEW a \in Attempts
  PROVE  /\ \A n : Create(a, n) /\ kind[a] \in Builders \cup {"exec"} => Touches(a)
         /\ \A n : Delete(n) => Touches(a)
         /\ UNCHANGED clusterVars => Touches(a)
         /\ obj' = obj => Touches(a)
BY DEF Create, Delete, Set, clusterVars, Touches

\* Every step of an attempt moves it in that way and leaves the pass alone.
LEMMA AttemptMoves ==
  ASSUME KubeInv, NEW a \in Attempts, AttemptStep(a)
  PROVE  /\ Moves(a) /\ Touches(a)
         /\ spec' = spec /\ kind' = kind /\ pass' = pass /\ lapsed' = lapsed
         /\ UNCHANGED <<state, job>> \/ Complete(a)
<1> DEFINE Same == spec' = spec /\ kind' = kind /\ pass' = pass /\ lapsed' = lapsed
                   /\ (UNCHANGED <<state, job>> \/ Complete(a))
<1> USE DEF flags, sandboxVars
<1>0. DOMAIN obj = Names /\ kind[a] \in Kinds /\ Len(Steps(a)) \in Nat
  BY StepsOfAttempt DEF KubeInv, KubeShape
<1>c. UNCHANGED clusterVars => Touches(a)
  BY <1>0, ObjectsTouched
<1>d. (At(a, "adopt") \/ At(a, "apply")) => kind[a] \in Builders \cup {"exec"}
  BY StepsOfAttempt DEF KubeInv
<1>1. CASE SendReport(a)
  <2>1. Same /\ UNCHANGED clusterVars /\ At(a, "report")
    BY <1>1 DEF SendReport
  <2>2. CASE StageAccepted(a, Here(a).stage, Here(a).names)
    <3>1. Advance(a) /\ knew' = knew /\ leased' = leased
      BY <1>1, <2>2 DEF SendReport
    <3> QED BY <3>1, <2>1, <1>c, AdvanceMoves
  <2>3. CASE ~StageAccepted(a, Here(a).stage, Here(a).names)
    <3>1. kind[a] = "provision"
      BY <2>1, StepsOfAttempt DEF KubeInv
    <3>2. RollsBack(a, TRUE) = FALSE
      BY <3>1, Zenon DEF RollsBack
    <3>3. Errs(a, RollsBack(a, TRUE), TRUE)
      BY <1>1, <2>3 DEF SendReport
    <3>4. Returns(a)
      BY <3>2, <3>3 DEF Errs
    <3> QED BY <3>4, <2>1, <1>c, ReturnsMoves
  <2> QED BY <2>2, <2>3
<1>2. CASE ReadIdentities(a)
  <2>1. Same /\ UNCHANGED clusterVars /\ ~told[a] /\ pc[a] # Done
    BY <1>2 DEF ReadIdentities, At, Running
  <2> DEFINE missing == Here(a).names \ Present(Here(a).names)
             conflict == "supervisor" \in Here(a).names /\ tenant # podUid[a]
  <2>2. \/ Advance(a) /\ knew' = knew /\ leased' = leased
        \/ phase' = [phase EXCEPT ![a] = "apply"] /\ knew' = knew /\ leased' = leased /\ pc' = pc
        \/ Errs(a, RollsBack(a, FALSE), FALSE)
    <3>1. CASE missing = {} /\ ~conflict
      BY <1>2, <3>1 DEF ReadIdentities
    <3>2. CASE ~(missing = {} /\ ~conflict) /\ missing # {} /\ phase[a] = "run"
      BY <1>2, <3>2 DEF ReadIdentities
    <3>3. CASE ~(missing = {} /\ ~conflict) /\ ~(missing # {} /\ phase[a] = "run")
      BY <1>2, <3>3 DEF ReadIdentities
    <3> QED BY <3>1, <3>2, <3>3
  <2>3. CASE Advance(a) /\ knew' = knew /\ leased' = leased
    BY <2>1, <2>3, <1>c, AdvanceMoves
  <2>4. CASE phase' = [phase EXCEPT ![a] = "apply"] /\ knew' = knew /\ leased' = leased /\ pc' = pc
    <3>0. "apply" \in Phases
      BY DEF Phases
    <3>1. Moves(a)
      BY <2>4, <3>0, KeepsMoves
    <3> QED BY <3>1, <2>1, <1>c
  <2>5. CASE Errs(a, RollsBack(a, FALSE), FALSE)
    <3>0. RollsBack(a, FALSE) \in BOOLEAN
      BY Zenon DEF RollsBack
    <3>1. PICK u \in BOOLEAN : u = RollsBack(a, FALSE) /\ Errs(a, u, FALSE)
      BY <2>5, <3>0
    <3>2. Moves(a)
      BY <3>1, <2>1, ErrsMoves
    <3> QED BY <3>2, <2>1, <1>c
  <2> QED BY <2>2, <2>3, <2>4, <2>5
<1>3. CASE ApplyMissing(a)
  <2>1. Same /\ phase' = [phase EXCEPT ![a] = "read"] /\ pc' = pc /\ knew' = knew /\ leased' = leased
        /\ Create(a, lacks[a]) /\ At(a, "adopt")
    BY <1>3 DEF ApplyMissing
  <2>2. Moves(a)
    <3>1. "read" \in Phases
      BY DEF Phases
    <3> QED BY <2>1, <3>1, KeepsMoves
  <2> QED BY <2>1, <2>2, <1>0, <1>d, ObjectsTouched
<1>4. CASE ApplyAll(a)
  <2>1. Same /\ Advance(a) /\ knew' = knew /\ leased' = leased /\ Create(a, Here(a).names) /\ At(a, "apply")
    BY <1>4 DEF ApplyAll
  <2> QED BY <2>1, <1>0, <1>d, AdvanceMoves, ObjectsTouched
<1>5. CASE Await(a)
  <2>1. Same /\ Advance(a) /\ knew' = knew /\ leased' = leased /\ UNCHANGED clusterVars
    BY <1>5 DEF Await
  <2> QED BY <2>1, <1>c, AdvanceMoves
<1>6. CASE PodExists(a)
  <2>1. Same /\ phase' = phase /\ knew' = knew /\ leased' = leased /\ UNCHANGED clusterVars
    BY <1>6 DEF PodExists
  <2>2. pc' = [pc EXCEPT ![a] = Len(Steps(a))] \/ pc' = [pc EXCEPT ![a] = @ + 1]
    BY <1>6 DEF PodExists
  <2>3. pc' \in [Attempts -> Nat]
    BY <2>2, <1>0 DEF KubeInv, KubeShape
  <2>4. Moves(a)
    BY <2>1, <2>2, <2>3 DEF KubeInv, KubeShape, KnowsNot, Moves, Phases
  <2> QED BY <2>1, <2>4, <1>c
<1>7. CASE Capture(a)
  <2>1. Same /\ Advance(a) /\ knew' = knew /\ leased' = leased /\ obj' = obj
    BY <1>7 DEF Capture
  <2>2. Touches(a)
    BY <2>1, <1>0, ObjectsTouched
  <2>3. Moves(a)
    BY <2>1, AdvanceMoves
  <2> QED BY <2>1, <2>2, <2>3
<1>8. CASE ListSnapshots(a)
  <2>1. Same /\ Advance(a) /\ knew' = knew /\ leased' = leased /\ UNCHANGED clusterVars
    BY <1>8 DEF ListSnapshots
  <2> QED BY <2>1, <1>c, AdvanceMoves
<1>9. CASE Teardown(a)
  <2>1. Same /\ Advance(a) /\ knew' = knew /\ leased' = leased /\ \E n : Delete(n)
    BY <1>9 DEF Teardown
  <2> QED BY <2>1, <1>0, AdvanceMoves, ObjectsTouched
<1>10. CASE Rollback(a)
  <2>1. Same /\ phase[a] \in {"rollback", "rollbackOptional"} /\ \E n : Delete(n)
    BY <1>10 DEF Rollback
  <2>2. Returns(a) \/ (phase' = [phase EXCEPT ![a] = "rollbackOptional"] /\ pc' = pc /\ knew' = knew /\ leased' = leased)
    BY <1>10 DEF Rollback
  <2>3. Moves(a)
    <3>1. CASE Returns(a)
      BY <3>1, ReturnsMoves
    <3>2. CASE phase' = [phase EXCEPT ![a] = "rollbackOptional"] /\ pc' = pc /\ knew' = knew /\ leased' = leased
      <4>1. "rollbackOptional" \in Phases
        BY DEF Phases
      <4> QED BY <3>2, <4>1, KeepsMoves
    <3> QED BY <2>2, <3>1, <3>2
  <2> QED BY <2>1, <2>3, <1>0, ObjectsTouched
<1>11. CASE Complete(a)
  <2>1. Same /\ Returns(a) /\ UNCHANGED clusterVars
    BY <1>11 DEF Complete
  <2> QED BY <2>1, <1>c, ReturnsMoves
<1>12. ASSUME NEW killed \in BOOLEAN, KubectlFails(a, killed)
       PROVE  Moves(a) /\ Touches(a) /\ Same
  <2> DEFINE op == Here(a).op
             undo == IF op = "apply" THEN ~killed ELSE op # "exec" /\ RollsBack(a, FALSE)
  <2>1. Same /\ Errs(a, undo, FALSE) /\ (told[a] => killed) /\ pc[a] # Done
    BY <1>12 DEF KubectlFails, Running
  <2>2. ((\E n : Create(a, n)) /\ (At(a, "adopt") \/ At(a, "apply"))) \/ (\E n : Delete(n)) \/ UNCHANGED clusterVars
    <3>1. \/ op = "adopt" /\ \E part \in Partly(lacks[a]) : Create(a, part)
          \/ op = "apply" /\ \E part \in Partly(Here(a).names) : Create(a, part)
          \/ \E part \in {{}, Present(TeardownKinds)} : Delete(part)
          \/ UNCHANGED clusterVars
      BY <1>12, Zenon DEF KubectlFails
    <3>2. op = "adopt" => At(a, "adopt")
      BY <1>12, Zenon DEF KubectlFails, At, Here
    <3>3. op = "apply" => At(a, "apply")
      BY <1>12, Zenon DEF KubectlFails, At, Here
    <3> HIDE DEF op
    <3> QED BY <3>1, <3>2, <3>3, Zenon
  <2>3. undo \in BOOLEAN /\ (undo => ~(kind[a] = "provision" /\ told[a]))
    <3>1. RollsBack(a, FALSE) \in BOOLEAN /\ (RollsBack(a, FALSE) => ~(kind[a] = "provision" /\ told[a]))
      BY Zenon DEF RollsBack
    <3>2. CASE op = "apply"
      <4>1. undo = ~killed
        BY <3>2
      <4> HIDE DEF undo
      <4> QED BY <4>1, <2>1, Zenon
    <3>3. CASE op # "apply"
      <4>1. undo = (op # "exec" /\ RollsBack(a, FALSE))
        BY <3>3
      <4> HIDE DEF undo, op
      <4> QED BY <4>1, <3>1, Zenon
    <3> QED BY <3>2, <3>3
  <2>4. PICK u \in BOOLEAN : u = undo
    BY <2>3
  <2>5. Moves(a)
    <3> HIDE DEF undo
    <3> QED BY <2>1, <2>3, <2>4, ErrsMoves
  <2> QED BY <2>1, <2>2, <2>5, <1>0, <1>d, ObjectsTouched
<1> QED BY <1>1, <1>2, <1>3, <1>4, <1>5, <1>6, <1>7, <1>8, <1>9, <1>10, <1>11, <1>12, AttemptStep(a) DEF AttemptStep

\* Discovery decides to delete nothing of a listed sandbox but its aged claim.
LEMMA ListedAreSpared ==
  ASSUME KubeInv, Discover
  PROVE  SparesListed'
<1>1. pass' = NoPass \/ pass' = PassAt("delete", NoRows, pass.listed, Decisions(pass.rows, pass.listed), 0)
  BY DEF Discover
<1>2. lapsed' = lapsed
  BY DEF Discover, sandboxVars
<1>3. ASSUME pass.listed, ~lapsed, NEW n \in DOMAIN Decisions(pass.rows, pass.listed)
      PROVE  n = "pvc"
  <2>1. Classify(n, pass.rows, pass.listed) \in {"orphaned", "expired"}
    BY <1>3 DEF Decisions
  <2>2. ASSUME n # "pvc"
        PROVE  Classify(n, pass.rows, pass.listed) \in {"indeterminate", "expected"}
    BY <1>3, <2>2 DEF Classify
  <2> QED BY <2>1, <2>2
<1>4. CASE pass' = NoPass
  <2>1. pass'.listed = FALSE
    BY <1>4 DEF NoPass, PassAt
  <2> QED BY <2>1 DEF SparesListed
<1>5. CASE pass' = PassAt("delete", NoRows, pass.listed, Decisions(pass.rows, pass.listed), 0)
  <2>1. pass'.listed = pass.listed /\ pass'.todo = Decisions(pass.rows, pass.listed)
    BY <1>5 DEF PassAt
  <2> QED BY <2>1, <1>2, <1>3 DEF SparesListed
<1> QED BY <1>1, <1>4, <1>5

\* A delete of the pass takes one object, with the uid that was discovered.
LEMMA DeleteSpares ==
  ASSUME KubeInv, DeleteNext
  PROVE  /\ SparesListed' /\ PassDeletes
         /\ DOMAIN obj' = Names /\ \A m \in Names : obj'[m] \in {obj[m], 0}
<1>1. PICK n \in DOMAIN pass.todo : Foremost(n, DOMAIN pass.todo) /\ DeleteFenced(n, pass.todo[n])
  BY DEF DeleteNext
<1>2. DOMAIN obj = Names /\ lapsed' = lapsed
  BY DEF DeleteNext, sandboxVars, KubeInv, KubeShape
<1>3. pass' = NoPass \/ pass' = Deleted(pass, n)
  BY <1>1 DEF DeleteFenced
<1>4. SparesListed'
  <2>1. CASE pass' = NoPass
    <3>1. pass'.listed = FALSE
      BY <2>1 DEF NoPass, PassAt
    <3> QED BY <3>1 DEF SparesListed
  <2>2. CASE pass' # NoPass
    <3>1. pass' = PassAt("delete", pass.rows, pass.listed, [m \in DOMAIN pass.todo \ {n} |-> pass.todo[m]], pass.deleted + 1)
      BY <1>3, <2>2 DEF Deleted
    <3>2. pass'.listed = pass.listed /\ DOMAIN pass'.todo = DOMAIN pass.todo \ {n}
      BY <3>1 DEF PassAt
    <3> QED BY <3>2, <1>2 DEF SparesListed, KubeInv
  <2> QED BY <2>1, <2>2
<1>5. CASE obj[n] \in {0, pass.todo[n]}
  <2>1. obj' = [x \in Names |-> IF x \in {n} THEN 0 ELSE obj[x]]
    BY <1>1, <1>2, <1>5 DEF DeleteFenced, Delete, Set
  <2>2. \A m \in Names : obj[m] # 0 /\ obj'[m] = 0 => m = n /\ obj[m] = pass.todo[m]
    BY <2>1, <1>5
  <2>3. pass.listed /\ ~lapsed => n = "pvc"
    BY DEF KubeInv, SparesListed
  <2> QED BY <1>1, <1>4, <2>1, <2>2, <2>3 DEF PassDeletes
<1>6. CASE obj[n] \notin {0, pass.todo[n]}
  <2>1. obj' = obj
    BY <1>1, <1>6 DEF DeleteFenced, clusterVars
  <2> QED BY <1>2, <1>4, <2>1 DEF PassDeletes
<1> QED BY <1>5, <1>6

\* A later attempt that has built is not claimed beside a leased build or stop.
LEMMA Succession == KubeInv => SuccessorStep
<1> SUFFICES ASSUME KubeInv, NEW a \in Attempts, NEW n \in Names, obj[n] \in Attempts, obj[n] > a
             PROVE  /\ kind[a] \in {"provision", "fork", "resume", "stop"} => a \notin leased
                    /\ kind[a] = "provision" => ~knew[a]
  BY DEF SuccessorStep
<1>1. PICK b \in Attempts : b = obj[n] /\ a < b
  BY DEF Attempts
<1>2. kind[b] \in Builders \cup {"exec"}
  BY <1>1 DEF KubeInv, MadeBy
<1>3. ASSUME a \in leased, kind[a] \in Builders PROVE FALSE
  BY <1>1, <1>2, <1>3 DEF KubeInv, Leases, Builders
<1>4. ASSUME a \in leased, kind[a] = "stop" PROVE FALSE
  BY <1>1, <1>2, <1>4 DEF KubeInv, Leases, Builders
<1>5. kind[a] = "provision" => ~knew[a]
  BY Zenon DEF KubeInv, KnowsNot
<1> QED BY <1>3, <1>4, <1>5 DEF Builders

\* The leases stay in order while the sandbox and its jobs are left alone.
LEMMA LeasesKept ==
  ASSUME KubeInv, kind' = kind, leased' \subseteq leased, job' = job, state' = state
  PROVE  Leases'
BY DEF KubeInv, Leases

\* Objects that go, or are made by an attempt that builds, keep MadeBy.
LEMMA MadeByKept ==
  ASSUME KubeInv, kind' = kind, NEW a \in Attempts, Touches(a)
  PROVE  MadeBy'
<1>1. 0 \notin Attempts
  BY DEF Attempts
<1> QED BY <1>1 DEF KubeInv, MadeBy, Touches

\* The claims and the ends that move the sandbox keep the leases in order.
LEMMA ClaimInOrder ==
  ASSUME KubeInv, NEW a \in Attempts, NEW k \in Kinds \ {"none"}, Claim(a, k)
  PROVE  Leases' /\ MadeBy'
<1>1. /\ kind[a] = "none" /\ kind' = [kind EXCEPT ![a] = k] /\ leased' = leased \cup {a}
      /\ state' = state /\ job' = job /\ obj' = obj
      /\ \A b \in Attempts : b < a => kind[b] # "none"
  BY DEF Claim, Next0, sandboxVars, clusterVars
<1>2. /\ kind \in [Attempts -> Kinds] /\ kind'[a] = k /\ \A b \in Attempts \ {a} : kind'[b] = kind[b]
  BY <1>1 DEF KubeInv, KubeShape
<1>3. \A b \in Attempts : a < b => kind[b] = "none"
  BY <1>1 DEF KubeInv, Leases
<1>4. \/ k = job /\ state = "live" /\ \A b \in leased : kind[b] \notin Builders
      \/ k \in {"exec", "snapshot"} /\ state = "live" /\ job = "none"
      \/ k = "stop" /\ state = "archiving" /\ \A b \in leased : kind[b] # "stop"
  BY DEF Claim, Builders
<1>a. MadeBy'
  BY <1>1, <1>2 DEF KubeInv, MadeBy, Builders
<1>b. /\ leased' \subseteq Attempts /\ job' \in Builders \cup {"none"}
      /\ \A c, b \in Attempts : c < b /\ kind'[c] = "none" => kind'[b] = "none"
  <2>1. ASSUME NEW c \in Attempts, NEW b \in Attempts, c < b, kind'[c] = "none" PROVE kind'[b] = "none"
    <3>1. c # a /\ kind[c] = "none"
      BY <1>2, <2>1
    <3>2. kind[b] = "none"
      BY <2>1, <3>1 DEF KubeInv, Leases
    <3>3. b # a
      BY <1>1, <2>1, <3>1
    <3> QED BY <1>2, <3>2, <3>3
  <2> QED BY <1>1, <2>1 DEF KubeInv, Leases
<1>c. CASE k = job /\ state = "live" /\ \A b \in leased : kind[b] \notin Builders
  <2>1. k \in Builders
    BY <1>c DEF KubeInv, Leases
  <2> QED BY <1>a, <1>b, <1>c, <1>1, <1>2, <1>3, <2>1 DEF KubeInv, Leases, Builders
<1>d. CASE k \in {"exec", "snapshot"} /\ state = "live" /\ job = "none"
  BY <1>a, <1>b, <1>d, <1>1, <1>2, <1>3 DEF KubeInv, Leases, Builders
<1>e. CASE k = "stop" /\ state = "archiving" /\ \A b \in leased : kind[b] # "stop"
  BY <1>a, <1>b, <1>e, <1>1, <1>2, <1>3 DEF KubeInv, Leases, Builders
<1> QED BY <1>4, <1>c, <1>d, <1>e

LEMMA CompleteInOrder ==
  ASSUME KubeInv, NEW a \in Attempts, Complete(a)
  PROVE  Leases'
<1>1. /\ kind' = kind /\ leased' = leased \ {a}
      /\ job' = IF a \in leased /\ kind[a] = job THEN "none" ELSE job
      /\ state' = IF a \in leased /\ kind[a] = "stop" THEN "archived" ELSE state
  BY DEF Complete, Returns
<1>2. job' = job \/ (a \in leased /\ kind[a] \in Builders)
  BY <1>1 DEF KubeInv, Leases, Builders
<1>3. state' = state \/ (a \in leased /\ kind[a] = "stop" /\ state' = "archived")
  BY <1>1
<1>4. job' \in Builders \cup {"none"}
  BY <1>1 DEF KubeInv, Leases
<1>5. \A b \in leased' : kind[b] \in Builders /\ state' = "live" => job' # "none"
  BY <1>1, <1>2, <1>3 DEF KubeInv, Leases
<1>6. \A b \in leased' : kind[b] = "stop" => state' = "archiving"
  BY <1>1, <1>3 DEF KubeInv, Leases
<1> QED BY <1>1, <1>4, <1>5, <1>6 DEF KubeInv, Leases

\* Every step keeps the invariant, and is one the two properties allow.
LEMMA KubeStep == KubeInv /\ [Next]_vars => KubeInv' /\ [SuccessorStep /\ PassDeletes]_vars
<1> SUFFICES ASSUME KubeInv, [Next]_vars
             PROVE  KubeInv' /\ PassDeletes
  BY Succession
<1> USE DEF Phases, flags, sandboxVars, attemptVars
<1>0. /\ spec \in Cases /\ DOMAIN obj = Names /\ kind \in [Attempts -> Kinds] /\ pc \in [Attempts -> Nat]
      /\ phase \in [Attempts -> Phases] /\ DOMAIN knew = Attempts
      /\ \A a \in Attempts : kind[a] = "none" => pc[a] = Done
  BY DEF KubeInv, KubeShape
<1>a. ASSUME pass' = pass PROVE PassDeletes
  BY <1>a DEF PassDeletes
<1>b. ASSUME pass' = pass, lapsed' = lapsed PROVE SparesListed'
  BY <1>b DEF SparesListed, KubeInv
<1>c. ASSUME kind' = kind, DOMAIN obj' = Names,
             \A n \in Names : obj'[n] \in {obj[n], 0, Revived}
      PROVE  MadeBy'
  <2>1. 0 \notin Attempts /\ Revived \notin Attempts
    BY KubernetesAssumption DEF Attempts, Revived
  <2> QED BY <1>c, <2>1 DEF KubeInv, MadeBy
<1>d. ASSUME UNCHANGED attemptVars, UNCHANGED spec, DOMAIN obj' = Names,
             \A n \in Names : obj'[n] \in {obj[n], 0, Revived}, SparesListed', Leases'
      PROVE  KubeInv'
  <2>1. /\ kind' = kind /\ pc' = pc /\ phase' = phase /\ knew' = knew /\ spec' = spec
    BY <1>d
  <2>2. KnowsNot'
    BY <2>1 DEF KubeInv, KnowsNot
  <2> QED BY <1>0, <1>c, <1>d, <2>1, <2>2 DEF KubeInv, KubeShape
<1>e. ASSUME obj' = obj PROVE DOMAIN obj' = Names /\ \A n \in Names : obj'[n] \in {obj[n], 0, Revived}
  BY <1>e, <1>0
<1>1. ASSUME NEW a \in Attempts, NEW k \in Kinds \ {"none"}, Claim(a, k)
      PROVE  KubeInv' /\ PassDeletes
  <2>1. /\ pass' = pass /\ lapsed' = lapsed /\ spec' = spec /\ obj' = obj /\ phase' = phase /\ knew' = knew
        /\ kind' = [kind EXCEPT ![a] = k] /\ pc' = [pc EXCEPT ![a] = 1] /\ kind[a] = "none"
    BY <1>1 DEF Claim, Next0, clusterVars
  <2>2. /\ kind' \in [Attempts -> Kinds] /\ pc' \in [Attempts -> Nat]
        /\ \A b \in Attempts : kind'[b] = "none" => pc'[b] = Done
    BY <2>1, <1>0
  <2>3. \A b \in Attempts : kind'[b] \in {"none", "provision"} => kind[b] \in {"none", "provision"}
    BY <2>1, <1>0
  <2>4. KnowsNot'
    BY <2>1, <2>3, Zenon DEF KubeInv, KnowsNot
  <2> QED BY <2>1, <2>2, <2>4, <1>0, <1>1, <1>a, <1>b, ClaimInOrder DEF KubeInv, KubeShape
<1>2. ASSUME NEW a \in Attempts, Expire(a)
      PROVE  KubeInv' /\ PassDeletes
  <2>1. /\ UNCHANGED <<spec, attemptVars>> /\ pass' = pass /\ lapsed' = lapsed /\ obj' = obj
        /\ kind' = kind /\ leased' \subseteq leased /\ job' = job /\ state' = state
    BY <1>2 DEF Expire, clusterVars
  <2>2. Leases'
    BY <2>1, LeasesKept
  <2> QED BY <2>1, <2>2, <1>a, <1>b, <1>d, <1>e
<1>3. ASSUME NEW a \in Attempts, Cancel(a)
      PROVE  KubeInv' /\ PassDeletes
  <2>1. /\ pass' = pass /\ lapsed' = lapsed /\ spec' = spec /\ obj' = obj /\ phase' = phase /\ knew' = knew
        /\ kind' = kind /\ pc' = pc /\ leased' = leased /\ job' = job /\ state' = state
    BY <1>3 DEF Cancel, clusterVars
  <2>2. Leases' /\ KnowsNot'
    BY <2>1, LeasesKept DEF KubeInv, KnowsNot
  <2> QED BY <2>1, <2>2, <1>0, <1>a, <1>b, <1>c, <1>e DEF KubeInv, KubeShape
<1>4. ASSUME NEW a \in Attempts, AttemptStep(a)
      PROVE  KubeInv' /\ PassDeletes
  <2>1. /\ Moves(a) /\ Touches(a)
        /\ spec' = spec /\ kind' = kind /\ pass' = pass /\ lapsed' = lapsed
        /\ UNCHANGED <<state, job>> \/ Complete(a)
    BY <1>4, AttemptMoves
  <2>2. Leases'
    BY <2>1, LeasesKept, CompleteInOrder DEF Moves
  <2>3. MadeBy'
    BY <2>1, MadeByKept
  <2>4. KnowsNot'
    BY <2>1, Zenon DEF Moves, KnowsNot
  <2>5. \A b \in Attempts : kind'[b] = "none" => pc'[b] = Done
    <3>1. pc[a] # Done
      BY <1>4 DEF AttemptStep, SendReport, ReadIdentities, ApplyMissing, ApplyAll, Await, PodExists, Capture,
         ListSnapshots, Teardown, Rollback, Complete, KubectlFails, At, Running
    <3>2. kind[a] # "none"
      BY <1>0, <3>1
    <3> QED BY <1>0, <2>1, <3>2 DEF Moves
  <2>6. KubeShape'
    BY <2>1, <2>5, <1>0 DEF Moves, Touches, KubeShape
  <2> QED BY <2>1, <2>2, <2>3, <2>4, <2>6, <1>a, <1>b DEF KubeInv
<1>5. CASE StopSandbox \/ ResumeSandbox
  <2>1. /\ UNCHANGED <<spec, attemptVars>> /\ pass' = pass /\ lapsed' = lapsed /\ obj' = obj
        /\ kind' = kind /\ leased' = leased
        /\ \/ state = "live" /\ state' = "archiving" /\ job' = "none"
           \/ state = "archived" /\ state' = "live" /\ job' = "resume"
    BY <1>5 DEF StopSandbox, ResumeSandbox, clusterVars
  <2>2. Leases'
    BY <2>1 DEF KubeInv, Leases, Builders
  <2> QED BY <2>1, <2>2, <1>a, <1>b, <1>d, <1>e
<1>6. CASE TtlLapses
  <2>1. SparesListed'
    BY <1>6 DEF TtlLapses, SparesListed
  <2>2. /\ UNCHANGED <<spec, attemptVars>> /\ pass' = pass /\ obj' = obj
        /\ kind' = kind /\ leased' \subseteq leased /\ job' = job /\ state' = state
    BY <1>6 DEF TtlLapses, clusterVars
  <2> QED BY <2>1, <2>2, <1>a, <1>d, <1>e, LeasesKept
<1>7. CASE SnapshotSettles \/ ClaimAges \/ SupervisorExits
  <2>1. /\ UNCHANGED <<spec, attemptVars>> /\ pass' = pass /\ lapsed' = lapsed /\ obj' = obj
        /\ kind' = kind /\ leased' \subseteq leased /\ job' = job /\ state' = state
    BY <1>7 DEF SnapshotSettles, ClaimAges, SupervisorExits
  <2> QED BY <2>1, <1>a, <1>b, <1>d, <1>e, LeasesKept
<1>8. CASE FetchRows \/ FetchSandboxes \/ EndPass
  <2>1. /\ UNCHANGED <<spec, attemptVars>> /\ obj' = obj
        /\ kind' = kind /\ leased' \subseteq leased /\ job' = job /\ state' = state
    BY <1>8 DEF FetchRows, FetchSandboxes, EndPass, clusterVars
  <2>2. PassDeletes
    BY <2>1 DEF PassDeletes
  <2>3. pass'.listed = FALSE \/ pass'.todo = NoPass.todo
    BY <1>8 DEF FetchRows, FetchSandboxes, EndPass, NoPass, PassAt
  <2>4. DOMAIN NoPass.todo = {}
    BY DEF NoPass, PassAt
  <2>5. SparesListed'
    BY <2>3, <2>4 DEF SparesListed
  <2> QED BY <2>1, <2>2, <2>5, <1>d, <1>e, LeasesKept
<1>9. CASE Discover
  <2>1. SparesListed'
    BY <1>9, ListedAreSpared
  <2>2. /\ UNCHANGED <<spec, attemptVars>> /\ pass.at = "discover"
        /\ kind' = kind /\ leased' \subseteq leased /\ job' = job /\ state' = state
    BY <1>9 DEF Discover
  <2>3. DOMAIN obj' = Names /\ \A n \in Names : obj'[n] \in {obj[n], 0, Revived}
    BY <1>9, <1>0 DEF Discover
  <2>4. PassDeletes
    BY <2>2 DEF PassDeletes
  <2> QED BY <2>1, <2>2, <2>3, <2>4, <1>d, LeasesKept
<1>10. CASE DeleteNext
  <2>1. /\ UNCHANGED <<spec, attemptVars>>
        /\ kind' = kind /\ leased' \subseteq leased /\ job' = job /\ state' = state
    BY <1>10 DEF DeleteNext
  <2> QED BY <1>10, <2>1, <1>d, DeleteSpares, LeasesKept
<1>11. CASE UNCHANGED vars
  <2>1. /\ UNCHANGED <<spec, attemptVars>> /\ pass' = pass /\ lapsed' = lapsed /\ obj' = obj
        /\ kind' = kind /\ leased' \subseteq leased /\ job' = job /\ state' = state
    BY <1>11 DEF vars, clusterVars
  <2> QED BY <2>1, <1>a, <1>b, <1>d, <1>e, LeasesKept
<1> QED BY <1>1, <1>2, <1>3, <1>4, <1>5, <1>6, <1>7, <1>8, <1>9, <1>10, <1>11 DEF Next, PassStep

\* A delete by label of a build or a stop takes an object of a later attempt only
\* once its own lease is over, and that of a staged provision only when it began its
\* rollback before it could know, for every kind of sandbox and any number of
\* attempts.
THEOREM SuccessorsAreSpared == Spec => SuccessorIsSpared
<1>1. KubeInv /\ [Next]_vars => KubeInv' /\ [SuccessorStep]_vars
  BY KubeStep
<1> QED BY <1>1, KubeInitInv, PTL DEF Spec, SuccessorIsSpared

\* A reconciliation pass deletes an object only with the uid it discovered, and of a
\* sandbox it saw listed, inside its ttl, at most the workspace claim, whatever
\* attempts did since it looked.
THEOREM PassesSpareTheLiving == Spec => PassSparesTheLiving
<1>1. KubeInv /\ [Next]_vars => KubeInv' /\ [PassDeletes]_vars
  BY KubeStep
<1> QED BY <1>1, KubeInitInv, PTL DEF Spec, PassSparesTheLiving

-----------------------------------------------------------------------------
(* The agent sandbox. *)

\* What the proof needs of the types.
AgentShape ==
  /\ acall \in 0..AgentCalls
  /\ aproc \in [AgentNonces -> {"none", "written", "read", "staged", "nonced", "ok", "failed"}]
  /\ aread \in [AgentNonces -> 0..AgentCalls] /\ abundle \in 0..AgentCalls

\* A provision at work has its number, and signs for a Pod; without a bound Pod
\* no process runs, and none runs of a provision to come.
CallInOrder ==
  /\ aphase \in {"claim", "bind", "workspace", "label", "policy", "exec", "receipt"} => acall # 0
  /\ aphase \in {"workspace", "label", "policy", "exec", "receipt"} => aseen # 0
  /\ apods \in Nat
  /\ aclaim # "bound" => apod = 0
  /\ apod = 0 => \A n \in AgentNonces : aproc[n] = "none"
  /\ \A n \in AgentNonces : aproc[n] # "none" => n <= acall

\* One process at most stands between staging and the commit, with its own
\* bundle's nonce staged, and used up for it alone.
OneStages ==
  /\ \A n, m \in AgentNonces : aproc[n] \in {"staged", "nonced"} /\ aproc[m] \in {"staged", "nonced"} => n = m
  /\ \A n \in AgentNonces :
       /\ aproc[n] \in {"read", "staged", "nonced"} => aread[n] # 0
       /\ aproc[n] \in {"staged", "nonced"} => astaged = aread[n]
       /\ aproc[n] = "nonced" => aread[n] \in anonces /\ amarker # aread[n]

\* The process of the running provision finds the bundle of that provision.
OwnBundle ==
  \A n \in AgentNonces : n = acall /\ aproc[n] # "none" =>
    /\ abundle = acall
    /\ aproc[n] \in {"read", "staged", "nonced"} => aread[n] = acall
    /\ aproc[n] = "ok" => <<apod, acall>> \in acommitted

\* A provision that is about to be given custody has its nonce committed in its Pod.
ReceiptNext == aphase = "receipt" => <<aseen, acall>> \in acommitted

\* What a stop has read of a receipt is as true as the receipt.
HeldIsProven == aheld # 0 => <<aheldPod, aheld>> \in acommitted

AgentInv == AgentShape /\ CallInOrder /\ OneStages /\ OwnBundle /\ ReceiptNext /\ HeldIsProven /\ CustodyIsProven

\* Before the first provision there is neither claim, Pod nor process.
LEMMA AgentInitInv == AgentInit => AgentInv
BY AgentSandboxAssumption DEF AgentInit, AgentInv, AgentShape, CallInOrder, OneStages, OwnBundle, ReceiptNext, HeldIsProven, CustodyIsProven, AgentNonces

\* What a Pod that is lost takes with it.
LEMMA FreshKeeps ==
  ASSUME AgentInv, FreshFiles, UNCHANGED <<acall, acommitted>>
  PROVE  /\ AgentShape' /\ OneStages' /\ OwnBundle'
         /\ \A n \in AgentNonces : aproc'[n] = "none"
         /\ amarker' = 0
BY AgentSandboxAssumption DEF FreshFiles, AgentInv, AgentShape, OneStages, OwnBundle, AgentNonces

\* Every step of a provision, of a stop, of the Pod and of its processes keeps the
\* invariant.
LEMMA AgentStep == AgentInv /\ [AgentNext]_avars => AgentInv'
<1> SUFFICES ASSUME AgentInv, [AgentNext]_avars PROVE AgentInv'
    OBVIOUS
<1> USE AgentSandboxAssumption DEF AgentNonces, afiles, acustody, acluster
<1>1. CASE UNCHANGED avars
    BY <1>1 DEF avars, AgentInv, AgentShape, CallInOrder, OneStages, OwnBundle, ReceiptNext, HeldIsProven, CustodyIsProven
<1>2. CASE AgentCallDropped \/ SeePod \/ CheckWorkspace \/ LabelPod \/ RollBackPolicy \/ StartStop \/ StopReads \/ ApplyPolicy \/ StopPolicy \/ ApplyClaim
    BY <1>2 DEF Holds, AgentCallDropped, SeePod, CheckWorkspace, LabelPod, RollBackPolicy, StartStop, StopReads, ApplyPolicy, StopPolicy, ApplyClaim,
       AgentInv, AgentShape, CallInOrder, OneStages, OwnBundle, ReceiptNext, HeldIsProven, CustodyIsProven
<1>3. CASE StartProvision
    BY <1>3 DEF StartProvision, AgentInv, AgentShape, CallInOrder, OneStages, OwnBundle, ReceiptNext, HeldIsProven, CustodyIsProven
<1>4. CASE BindPod
    BY <1>4 DEF BindPod, AgentInv, AgentShape, CallInOrder, OneStages, OwnBundle, ReceiptNext, HeldIsProven, CustodyIsProven
<1>5. CASE LosePod
    BY <1>5, FreshKeeps DEF LosePod, AgentInv, CallInOrder, ReceiptNext, HeldIsProven, CustodyIsProven
<1>6. CASE ExecActivate
    BY <1>6 DEF ExecActivate, AgentInv, AgentShape, CallInOrder, OneStages, OwnBundle, ReceiptNext, HeldIsProven, CustodyIsProven
<1>7. CASE ExecAnswered
  <2>1. acall \in AgentNonces
      BY <1>7 DEF ExecAnswered, AgentInv, AgentShape, CallInOrder
  <2>2. aproc[acall] = "ok" => <<apod, acall>> \in acommitted
      BY <2>1 DEF AgentInv, OwnBundle
  <2>3. ReceiptNext'
      BY <1>7, <2>2 DEF ExecAnswered, ReceiptNext
  <2> QED
      BY <1>7, <2>3 DEF ExecAnswered, AgentInv, AgentShape, CallInOrder, OneStages, OwnBundle, HeldIsProven, CustodyIsProven
<1>8. CASE WriteReceipt
    BY <1>8 DEF Holds, WriteReceipt, PutReceipt, AgentInv, AgentShape, CallInOrder, OneStages, OwnBundle, ReceiptNext, HeldIsProven, CustodyIsProven
<1>9. CASE RollBackClaim \/ StopClaim
  <2>1. CASE DeleteClaim
      BY <1>9, <2>1, FreshKeeps DEF Holds, RollBackClaim, StopClaim, DeleteClaim, AgentInv, CallInOrder, ReceiptNext, HeldIsProven, CustodyIsProven
  <2>2. CASE UNCHANGED <<aclaim, apod, afiles>>
      BY <1>9, <2>2 DEF Holds, RollBackClaim, StopClaim, AgentInv, AgentShape, CallInOrder, OneStages, OwnBundle, ReceiptNext, HeldIsProven, CustodyIsProven
  <2> QED
      BY <1>9, <2>1, <2>2 DEF Holds, RollBackClaim, StopClaim
<1>10. CASE RollBackReceipt \/ StopReceipt \/ TakeReceipt
    BY <1>10 DEF Holds, RollBackReceipt, StopReceipt, TakeReceipt, PutReceipt, AgentInv, AgentShape, CallInOrder, OneStages, OwnBundle, ReceiptNext, HeldIsProven, CustodyIsProven
<1>11. CASE InPod
  <2>1. UNCHANGED <<acall, aphase, acluster, aseen, acustody>>
      BY <1>11 DEF InPod
  <2>2. CASE LauncherChecks
      BY <2>1, <2>2 DEF LauncherChecks, AgentInv, AgentShape, CallInOrder, OneStages, OwnBundle, ReceiptNext, HeldIsProven, CustodyIsProven
  <2>3. ASSUME NEW n \in AgentNonces, ProcReads(n) PROVE AgentInv'
    <3>1. AgentShape'
        BY <2>1, <2>3 DEF ProcReads, BundleAnswers, ProcTo, AgentInv, AgentShape
    <3>2. CallInOrder'
        BY <2>1, <2>3 DEF ProcReads, BundleAnswers, ProcTo, AgentInv, AgentShape, CallInOrder
    <3>3. OneStages'
        BY <2>1, <2>3 DEF ProcReads, BundleAnswers, ProcTo, AgentInv, AgentShape, OneStages, OwnBundle, CallInOrder, CustodyIsProven
    <3>4. OwnBundle' /\ ReceiptNext'
        BY <2>1, <2>3 DEF ProcReads, BundleAnswers, ProcTo, AgentInv, AgentShape, OneStages, OwnBundle, CallInOrder, ReceiptNext
    <3>6. HeldIsProven'
        BY <2>1, <2>3 DEF ProcReads, AgentInv, HeldIsProven
    <3>5. CustodyIsProven'
        BY <2>1, <2>3 DEF ProcReads, BundleAnswers, ProcTo, AgentInv, AgentShape, OneStages, CustodyIsProven
    <3> QED
        BY <3>1, <3>2, <3>3, <3>4, <3>5, <3>6 DEF AgentInv
  <2>4. ASSUME NEW n \in AgentNonces, ProcStages(n) PROVE AgentInv'
    <3>1. AgentShape'
        BY <2>1, <2>4 DEF ProcStages, ProcTo, AgentInv, AgentShape
    <3>2. CallInOrder'
        BY <2>1, <2>4 DEF ProcStages, ProcTo, AgentInv, AgentShape, CallInOrder
    <3>3. OneStages'
        BY <2>1, <2>4 DEF ProcStages, ProcTo, AgentInv, AgentShape, OneStages, OwnBundle, CallInOrder, CustodyIsProven
    <3>4. OwnBundle' /\ ReceiptNext'
        BY <2>1, <2>4 DEF ProcStages, ProcTo, AgentInv, AgentShape, OneStages, OwnBundle, CallInOrder, ReceiptNext
    <3>6. HeldIsProven'
        BY <2>1, <2>4 DEF ProcStages, AgentInv, HeldIsProven
    <3>5. CustodyIsProven'
        BY <2>1, <2>4 DEF ProcStages, ProcTo, AgentInv, AgentShape, OneStages, CustodyIsProven
    <3> QED
        BY <3>1, <3>2, <3>3, <3>4, <3>5, <3>6 DEF AgentInv
  <2>5. ASSUME NEW n \in AgentNonces, ProcUsesNonce(n) PROVE AgentInv'
    <3>1. AgentShape'
        BY <2>1, <2>5 DEF ProcUsesNonce, ProcTo, AgentInv, AgentShape
    <3>2. CallInOrder'
        BY <2>1, <2>5 DEF ProcUsesNonce, ProcTo, AgentInv, AgentShape, CallInOrder
    <3>3. OneStages'
        BY <2>1, <2>5 DEF ProcUsesNonce, ProcTo, AgentInv, AgentShape, OneStages, OwnBundle, CallInOrder, CustodyIsProven
    <3>4. OwnBundle' /\ ReceiptNext'
        BY <2>1, <2>5 DEF ProcUsesNonce, ProcTo, AgentInv, AgentShape, OneStages, OwnBundle, CallInOrder, ReceiptNext
    <3>6. HeldIsProven'
        BY <2>1, <2>5 DEF ProcUsesNonce, AgentInv, HeldIsProven
    <3>5. CustodyIsProven'
        BY <2>1, <2>5 DEF ProcUsesNonce, ProcTo, AgentInv, AgentShape, OneStages, CustodyIsProven
    <3> QED
        BY <3>1, <3>2, <3>3, <3>4, <3>5, <3>6 DEF AgentInv
  <2>6. ASSUME NEW n \in AgentNonces, ProcCommits(n) PROVE AgentInv'
    <3>1. AgentShape'
        BY <2>1, <2>6 DEF ProcCommits, ProcTo, AgentInv, AgentShape
    <3>2. CallInOrder'
        BY <2>1, <2>6 DEF ProcCommits, ProcTo, AgentInv, AgentShape, CallInOrder
    <3>3. OneStages'
        BY <2>1, <2>6 DEF ProcCommits, ProcTo, AgentInv, AgentShape, OneStages, OwnBundle, CallInOrder, CustodyIsProven
    <3>4. OwnBundle' /\ ReceiptNext'
        BY <2>1, <2>6 DEF ProcCommits, ProcTo, AgentInv, AgentShape, OneStages, OwnBundle, CallInOrder, ReceiptNext
    <3>6. HeldIsProven'
        BY <2>1, <2>6 DEF ProcCommits, AgentInv, HeldIsProven
    <3>5. CustodyIsProven'
        BY <2>1, <2>6 DEF ProcCommits, ProcTo, AgentInv, AgentShape, OneStages, CustodyIsProven
    <3> QED
        BY <3>1, <3>2, <3>3, <3>4, <3>5, <3>6 DEF AgentInv
  <2>7. ASSUME NEW n \in AgentNonces, ProcDies(n) PROVE AgentInv'
    <3>1. AgentShape'
        BY <2>1, <2>7 DEF ProcDies, ProcTo, AgentInv, AgentShape
    <3>2. CallInOrder'
        BY <2>1, <2>7 DEF ProcDies, ProcTo, AgentInv, AgentShape, CallInOrder
    <3>3. OneStages'
        BY <2>1, <2>7 DEF ProcDies, ProcTo, AgentInv, AgentShape, OneStages, OwnBundle, CallInOrder, CustodyIsProven
    <3>4. OwnBundle' /\ ReceiptNext'
        BY <2>1, <2>7 DEF ProcDies, ProcTo, AgentInv, AgentShape, OneStages, OwnBundle, CallInOrder, ReceiptNext
    <3>6. HeldIsProven'
        BY <2>1, <2>7 DEF ProcDies, AgentInv, HeldIsProven
    <3>5. CustodyIsProven'
        BY <2>1, <2>7 DEF ProcDies, ProcTo, AgentInv, AgentShape, OneStages, CustodyIsProven
    <3> QED
        BY <3>1, <3>2, <3>3, <3>4, <3>5, <3>6 DEF AgentInv
  <2> QED
      BY <1>11, <2>2, <2>3, <2>4, <2>5, <2>6, <2>7 DEF InPod
<1> QED
    BY <1>1, <1>2, <1>3, <1>4, <1>5, <1>6, <1>7, <1>8, <1>9, <1>10, <1>11 DEF AgentNext

\* A custody receipt is given only for a Pod in which the activation of that very
\* provision was committed, whatever processes of earlier provisions still run in
\* it, for any number of provisions and Pods.
THEOREM CustodyTellsTheTruth == AgentSpec => []CustodyIsProven
<1>1. AgentInv => CustodyIsProven
    BY DEF AgentInv
<1> QED
    BY <1>1, AgentInitInv, AgentStep, PTL DEF AgentSpec

-----------------------------------------------------------------------------
(* The home of a Cloudflare sandbox. *)

\* What the home depends on.
CloudShape ==
  /\ kjob \in [CloudKinds -> {"none", "queued", "running", "completed", "failed"}]
  /\ kcall \in [CloudCreates -> CreatePhases]
  /\ kwait \in CloudCreates \cup {Nobody, "created"}

\* The home is mounted, or went away with its container and was not mounted since.
HomeOrSlept == khome \/ kslept

\* Until a stop is asked for no container is destroyed, and every create past its
\* mount, the flag, and a create that was answered, stand for a home that is
\* mounted, or that was in the container that went away last.
HomeUntilStop ==
  kjob["stop"] = "none" =>
    /\ kdelete = "none"
    /\ kflag => HomeOrSlept
    /\ \A d \in CloudCreates : kcall[d] \in {"mkdir", "marking", "answered"} => HomeOrSlept
    /\ kwait = "created" => HomeOrSlept
    /\ kjob["provision"] = "completed" => HomeOrSlept

CloudHomeInv == CloudShape /\ HomeUntilStop

\* Nothing is created at the start.
LEMMA CloudHomeInit == CloudInit => CloudHomeInv
BY DEF CloudInit, CloudHomeInv, CloudShape, HomeUntilStop, HomeOrSlept, CloudKinds, CreatePhases, Nobody

\* Every step of the worker and of the object keeps the invariant.
LEMMA CloudHomeStep == CloudHomeInv /\ [CloudNext]_kvars => CloudHomeInv'
<1> SUFFICES ASSUME CloudHomeInv, [CloudNext]_kvars PROVE CloudHomeInv'
    OBVIOUS
<1> USE CloudAssumption DEF CloudHomeInv, CloudShape, HomeUntilStop, CloudKinds, CreatePhases, Nobody, kbridge, Ends, Retries, Refused
<1>0. UNCHANGED <<khome, kslept>> => (HomeOrSlept' <=> HomeOrSlept)
    BY DEF HomeOrSlept
<1>1. CASE UNCHANGED kvars
    BY <1>0, <1>1 DEF kvars
<1>2. CASE StartCloudProvision
    BY <1>0, <1>2 DEF StartCloudProvision, CloudJob, Admits
<1>3. CASE CreateReturns
    BY <1>0, <1>3 DEF CreateReturns
<1>4. CASE CreateUnknown
    BY <1>0, <1>4 DEF CreateUnknown
<1>11. CASE PollReady
    BY <1>0, <1>11 DEF PollReady
<1>5. CASE \E d \in CloudCreates : MountHome(d)
  <2>1. PICK d \in CloudCreates : MountHome(d)
    BY <1>5
  <2>2. /\ HomeOrSlept => HomeOrSlept'
        /\ \/ HomeOrSlept' /\ kcall' = [kcall EXCEPT ![d] = "mkdir"]
           \/ kcall' = [kcall EXCEPT ![d] = "refused"]
    BY <2>1, Zenon DEF MountHome, HomeOrSlept
  <2>3. UNCHANGED <<kjob, kwait, kflag, kdelete>>
    BY <2>1, Zenon DEF MountHome
  <2> QED
    BY <2>2, <2>3
<1>6. CASE \E d \in CloudCreates : MakeThreads(d) \/ MarkMounted(d) \/ DropCreate(d)
    BY <1>0, <1>6 DEF MakeThreads, MarkMounted, DropCreate
<1>14. CASE ContainerSleeps
  <2>1. HomeOrSlept' /\ UNCHANGED <<kjob, kwait, kflag, kcall, kdelete>>
    BY <1>14, Zenon DEF ContainerSleeps, HomeOrSlept
  <2> QED
    BY <2>1
<1>7. CASE AskStop
    BY <1>0, <1>7 DEF AskStop
<1>12. CASE StartCloudStop
    BY <1>0, <1>12 DEF StartCloudStop, CloudJob
<1>8. CASE DestroyContainer \/ DeleteReturns \/ DeleteUnknown
  <2>1. CASE kjob["stop"] = "none"
    BY <1>0, <1>8, <2>1 DEF DestroyContainer, DeleteReturns, DeleteUnknown
  <2>2. CASE kjob["stop"] # "none"
    <3>1. \E v \in {"queued", "running", "completed", "failed"} : kjob' = [kjob EXCEPT !["stop"] = v]
      <4>1. CASE DestroyContainer
        <5> HIDE DEF Refused
        <5>1. kjob' = kjob \/ Refused("stop", 500)
          BY <4>1, Zenon DEF DestroyContainer
        <5> QED
          BY <5>1, <2>2 DEF Refused
      <4>2. CASE DeleteReturns
        BY <4>2, <2>2 DEF DeleteReturns
      <4>3. CASE DeleteUnknown
        BY <4>3, <2>2 DEF DeleteUnknown
      <4> QED
        BY <1>8, <4>1, <4>2, <4>3
    <3>2. UNCHANGED <<kwait, kcall>>
      BY <1>8, Zenon DEF DestroyContainer, DeleteReturns, DeleteUnknown, kbridge
    <3> QED
      BY <3>1, <3>2, <2>2
  <2> QED
    BY <2>1, <2>2
<1>9. CASE AskCommand \/ StartExec \/ CommandEnds
    BY <1>0, <1>9 DEF AskCommand, StartExec, CommandEnds, CloudJob
<1>13. CASE CloudExecAnswered
    BY <1>0, <1>13 DEF CloudExecAnswered
<1>10. CASE ExecUnknown \/ ReadLine \/ StreamEnds
  <2>1. UNCHANGED <<kwait, kflag, khome, kslept, kcall, kdelete>>
    BY <1>10, Zenon DEF ExecUnknown, ReadLine, StreamEnds, kbridge
  <2>2. kjob' = kjob \/ Retries("command") \/ Ends("command", "completed")
    <3>1. CASE ExecUnknown
      BY <3>1, Zenon DEF ExecUnknown, ExecFails
    <3>2. CASE ReadLine
      BY <3>2, Zenon DEF ReadLine, ExecFails
    <3>3. CASE StreamEnds
      BY <3>3, Zenon DEF StreamEnds, ExecFails
    <3> QED
      BY <1>10, <3>1, <3>2, <3>3
  <2>3. \E v \in {"queued", "completed", "failed"} : kjob' = [kjob EXCEPT !["command"] = v] \/ kjob' = kjob
    BY <2>2
  <2> QED
    BY <1>0, <2>1, <2>3
<1> QED
    BY <1>1, <1>2, <1>3, <1>4, <1>5, <1>6, <1>7, <1>8, <1>9, <1>10, <1>11, <1>12, <1>13, <1>14 DEF CloudNext

\* Until a sandbox is stopped, a provision that is reported ready lacks its home only
\* if the container with the mount went away, for any number of creates whose
\* answers were lost and any number of containers.
THEOREM ReadyHasItsHome == CloudSpec => []HandleHasHome
<1>1. CloudHomeInv => HandleHasHome
    BY DEF CloudHomeInv, HomeUntilStop, HomeOrSlept, HandleHasHome
<1> QED
    BY <1>1, CloudHomeInit, CloudHomeStep, PTL DEF CloudSpec

-----------------------------------------------------------------------------
(* The result of a command. *)

\* What a result keeps of a stream.
Whole(s) == IF ksize[s] < OutputCap THEN ksize[s] ELSE OutputCap
NothingRead == \A s \in Streams : kgot[s] = 0
StdoutRead == kgot["stdout"] = Whole("stdout") /\ kgot["stderr"] = 0
AllRead == \A s \in Streams : kgot[s] = Whole(s)

\* The lines of an answer from the exit event on, and from stderr on.
ExitLines == EventLines("exit", 1)
FromStderr == OutputLines("stderr") \o ExitLines

\* Where the parser is in an event, before lines that follow it.
AtEvent(lines, event, data, name, size, rest) ==
  \/ lines = EventLines(name, size) \o rest /\ event = "" /\ data = 0
  \/ lines = << <<"data", name, size>>, <<"blank", "", 0>> >> \o rest /\ event = name /\ data = 0
  \/ lines = << <<"blank", "", 0>> >> \o rest /\ event = name /\ data = size

\* What the proof needs of the types.
ResultShape ==
  /\ kjob \in [CloudKinds -> {"none", "queued", "running", "completed", "failed"}]
  /\ kcmd \in {"none", "running", "completed", "indeterminate"}
  /\ ksize \in [Streams -> 0..OutputMax] /\ kgot \in [Streams -> 0..OutputCap]
  /\ kexec \in {"idle", "posted", "reading"}

\* An exec is of a running job, and a stream of a completed record.
ExecInHand ==
  /\ kexec # "idle" => kjob["command"] = "running"
  /\ kexec = "reading" \/ kjob["command"] = "completed" => kcmd = "completed"

\* Outside a stream nothing is left of an earlier attempt.
ParserClean ==
  kexec # "reading" /\ kjob["command"] # "completed" =>
    NothingRead /\ kevent = "" /\ kdata = 0 /\ ~kexit

\* In a stream the parser has taken the events before the one it is in, and no more;
\* the loser of a dispatch has a stream without any.
ParserInStep ==
  kexec = "reading" =>
    \/ klines = << >> /\ kevent = "" /\ kdata = 0 /\ ~kexit /\ NothingRead
    \/ AtEvent(klines, kevent, kdata, "stdout", ksize["stdout"], FromStderr) /\ ~kexit /\ NothingRead
    \/ AtEvent(klines, kevent, kdata, "stderr", ksize["stderr"], ExitLines) /\ ~kexit /\ StdoutRead
    \/ AtEvent(klines, kevent, kdata, "exit", 1, << >>) /\ ~kexit /\ AllRead
    \/ klines = << >> /\ kevent = "" /\ kdata = 0 /\ kexit /\ AllRead

\* A result that was reported is not changed.
ResultKept == kjob["command"] = "completed" => AllRead

ResultInv == ResultShape /\ ExecInHand /\ ParserClean /\ ParserInStep /\ ResultKept

\* The head and the tail of a concatenation.
LEMMA HeadOfConcat ==
  ASSUME NEW S, NEW p \in Seq(S), p # << >>, NEW rest \in Seq(S)
  PROVE  p \o rest # << >> /\ Head(p \o rest) = Head(p) /\ Tail(p \o rest) = Tail(p) \o rest
<1>1. /\ p \o rest \in Seq(S) /\ Len(p \o rest) = Len(p) + Len(rest)
      /\ Len(p) \in Nat \ {0} /\ Len(rest) \in Nat
    OBVIOUS
<1>2. p \o rest # << >> /\ Head(p \o rest) = Head(p)
    BY <1>1
<1>3. /\ Tail(p) \in Seq(S) /\ Len(Tail(p)) = Len(p) - 1
      /\ Tail(p \o rest) \in Seq(S) /\ Len(Tail(p \o rest)) = Len(p) + Len(rest) - 1
    BY <1>1, <1>2
<1>4. Tail(p) \o rest \in Seq(S) /\ Len(Tail(p) \o rest) = Len(p) + Len(rest) - 1
    BY <1>1, <1>3
<1>5. ASSUME NEW i \in 1..(Len(p) + Len(rest) - 1)
      PROVE  Tail(p \o rest)[i] = (Tail(p) \o rest)[i]
  <2>1. Tail(p \o rest)[i] = (p \o rest)[i + 1]
    BY <1>1, <1>2, <1>3
  <2>2. CASE i <= Len(p) - 1
    BY <2>1, <2>2, <1>1, <1>3
  <2>3. CASE i > Len(p) - 1
    BY <2>1, <2>3, <1>1, <1>3
  <2> QED
    BY <2>2, <2>3, <1>1
<1> QED
    BY <1>2, <1>3, <1>4, <1>5, SeqEqual

\* The lines of an event, one by one.
LEMMA EventLinesSplit ==
  ASSUME NEW S, NEW e \in S, NEW d \in S, NEW b \in S, NEW rest \in Seq(S)
  PROVE  /\ <<e, d, b>> \o rest # << >> /\ Head(<<e, d, b>> \o rest) = e
         /\ Tail(<<e, d, b>> \o rest) = <<d, b>> \o rest
         /\ <<d, b>> \o rest # << >> /\ Head(<<d, b>> \o rest) = d
         /\ Tail(<<d, b>> \o rest) = <<b>> \o rest
         /\ <<b>> \o rest # << >> /\ Head(<<b>> \o rest) = b
         /\ Tail(<<b>> \o rest) = rest
<1>1. <<e, d, b>> \in Seq(S) /\ <<d, b>> \in Seq(S) /\ <<b>> \in Seq(S)
    OBVIOUS
<1>2. /\ <<e, d, b>> # << >> /\ Head(<<e, d, b>>) = e /\ Tail(<<e, d, b>>) = <<d, b>>
      /\ <<d, b>> # << >> /\ Head(<<d, b>>) = d /\ Tail(<<d, b>>) = <<b>>
      /\ <<b>> # << >> /\ Head(<<b>>) = b /\ Tail(<<b>>) = << >>
    OBVIOUS
<1>3. << >> \o rest = rest
    OBVIOUS
<1>4. /\ <<e, d, b>> \o rest # << >> /\ Head(<<e, d, b>> \o rest) = Head(<<e, d, b>>)
      /\ Tail(<<e, d, b>> \o rest) = Tail(<<e, d, b>>) \o rest
    BY <1>1, <1>2, HeadOfConcat
<1>5. /\ <<d, b>> \o rest # << >> /\ Head(<<d, b>> \o rest) = Head(<<d, b>>)
      /\ Tail(<<d, b>> \o rest) = Tail(<<d, b>>) \o rest
    BY <1>1, <1>2, HeadOfConcat
<1>6. /\ <<b>> \o rest # << >> /\ Head(<<b>> \o rest) = Head(<<b>>)
      /\ Tail(<<b>> \o rest) = Tail(<<b>>) \o rest
    BY <1>1, <1>2, HeadOfConcat
<1> QED
    BY <1>2, <1>3, <1>4, <1>5, <1>6

\* The lines of an answer.
AnswerLines == ({"event", "data"} \X (Streams \cup {"exit"}) \X (0..OutputMax \cup {1})) \cup {<<"blank", "", 0>>}

\* Every line the bridge sends is one of them.
LEMMA AnswerTyped ==
  ASSUME ResultShape, CloudAssumption
  PROVE  /\ ExitLines \in Seq(AnswerLines) /\ FromStderr \in Seq(AnswerLines)
         /\ \A s \in Streams : /\ OutputLines(s) \in Seq(AnswerLines)
                               /\ EventLines(s, ksize[s]) \in Seq(AnswerLines)
         /\ \A s \in Streams : /\ <<"event", s, 0>> \in AnswerLines
                               /\ <<"data", s, ksize[s]>> \in AnswerLines
         /\ <<"event", "exit", 0>> \in AnswerLines /\ <<"data", "exit", 1>> \in AnswerLines
         /\ <<"blank", "", 0>> \in AnswerLines
<1> DEFINE b == <<"blank", "", 0>>
<1>1. /\ \A s \in Streams : /\ <<"event", s, 0>> \in AnswerLines
                            /\ <<"data", s, ksize[s]>> \in AnswerLines
      /\ <<"event", "exit", 0>> \in AnswerLines /\ <<"data", "exit", 1>> \in AnswerLines
      /\ b \in AnswerLines
    BY CloudAssumption DEF ResultShape, AnswerLines
<1>2. \A x, y, z \in AnswerLines : <<x, y, z>> \in Seq(AnswerLines)
    OBVIOUS
<1>3. ExitLines \in Seq(AnswerLines) /\ \A s \in Streams : EventLines(s, ksize[s]) \in Seq(AnswerLines)
    BY <1>1, <1>2 DEF ExitLines, EventLines
<1>4. \A s \in Streams : OutputLines(s) \in Seq(AnswerLines)
    BY <1>3 DEF OutputLines
<1>5. FromStderr \in Seq(AnswerLines)
    BY <1>3, <1>4 DEF FromStderr, Streams
<1> QED
    BY <1>1, <1>3, <1>4, <1>5

\* One line of an event is read: the parser moves on in it, or it has taken it.
LEMMA ReadsOn ==
  ASSUME NEW S, NEW rest \in Seq(S), NEW name \in {"stdout", "stderr", "exit"}, NEW size,
         <<"event", name, 0>> \in S, <<"data", name, size>> \in S, <<"blank", "", 0>> \in S,
         AtEvent(klines, kevent, kdata, name, size, rest), ReadLine
  PROVE  \/ ExecFails
         \/ /\ AtEvent(klines', kevent', kdata', name, size, rest)
            /\ UNCHANGED <<kjob, kexec, kgot, kexit>>
         \/ /\ klines' = rest /\ kevent' = "" /\ kdata' = 0 /\ UNCHANGED <<kjob, kexec>>
            /\ ProcessEvent(name, size)
<1>7. PICK e \in S, d \in S, b \in S :
        e = <<"event", name, 0>> /\ d = <<"data", name, size>> /\ b = <<"blank", "", 0>>
    OBVIOUS
<1>2. /\ e[1] = "event" /\ e[2] = name
      /\ d[1] = "data" /\ d[3] = size
      /\ b[1] = "blank"
    BY <1>7
<1>1. /\ <<e, d, b>> \o rest # << >> /\ Head(<<e, d, b>> \o rest) = e
      /\ Tail(<<e, d, b>> \o rest) = <<d, b>> \o rest
      /\ <<d, b>> \o rest # << >> /\ Head(<<d, b>> \o rest) = d
      /\ Tail(<<d, b>> \o rest) = <<b>> \o rest
      /\ <<b>> \o rest # << >> /\ Head(<<b>> \o rest) = b
      /\ Tail(<<b>> \o rest) = rest
  <2>1. e \in S /\ d \in S /\ b \in S /\ rest \in Seq(S)
    OBVIOUS
  <2>2. /\ <<e, d, b>> \o rest # << >> /\ Head(<<e, d, b>> \o rest) = e
        /\ <<d, b>> \o rest # << >> /\ Head(<<d, b>> \o rest) = d
        /\ <<b>> \o rest # << >> /\ Head(<<b>> \o rest) = b
    BY ONLY <2>1, EventLinesSplit
  <2>3. Tail(<<e, d, b>> \o rest) = <<d, b>> \o rest
    <3>1. <<e, d, b>> \in Seq(S) /\ <<e, d, b>> # << >> /\ Tail(<<e, d, b>>) = <<d, b>>
      BY ONLY <2>1
    <3> QED
      BY ONLY <2>1, <3>1, HeadOfConcat
  <2>4. Tail(<<d, b>> \o rest) = <<b>> \o rest
    <3>1. <<d, b>> \in Seq(S) /\ <<d, b>> # << >> /\ Tail(<<d, b>>) = <<b>>
      BY ONLY <2>1
    <3> QED
      BY ONLY <2>1, <3>1, HeadOfConcat
  <2>5. Tail(<<b>> \o rest) = rest
    BY ONLY <2>1, EventLinesSplit
  <2> QED
    BY ONLY <2>2, <2>3, <2>4, <2>5
<1>3. \/ ExecFails
      \/ /\ klines' = Tail(klines) /\ UNCHANGED <<kjob, kexec>>
         /\ \/ Head(klines)[1] = "event" /\ kevent' = Head(klines)[2] /\ UNCHANGED <<kdata, kgot, kexit>>
            \/ Head(klines)[1] = "data" /\ kdata' = Head(klines)[3] /\ UNCHANGED <<kevent, kgot, kexit>>
            \/ /\ Head(klines)[1] = "blank" /\ ProcessEvent(kevent, kdata)
               /\ kevent' = "" /\ kdata' = 0
    BY Zenon DEF ReadLine
<1>4. CASE klines = <<e, d, b>> \o rest /\ kevent = "" /\ kdata = 0
  <2>1. Head(klines) = e /\ Tail(klines) = <<d, b>> \o rest
    BY <1>1, <1>4
  <2>2. ASSUME ~ExecFails
        PROVE  /\ klines' = <<d, b>> \o rest /\ kevent' = name /\ kdata' = kdata
               /\ UNCHANGED <<kjob, kexec, kgot, kexit>>
    BY <1>2, <1>3, <2>1, <2>2
  <2> QED
    BY <1>4, <1>7, <2>2 DEF AtEvent
<1>5. CASE klines = <<d, b>> \o rest /\ kevent = name /\ kdata = 0
  <2>1. Head(klines) = d /\ Tail(klines) = <<b>> \o rest
    BY <1>1, <1>5
  <2>2. ASSUME ~ExecFails
        PROVE  /\ klines' = <<b>> \o rest /\ kevent' = kevent /\ kdata' = size
               /\ UNCHANGED <<kjob, kexec, kgot, kexit>>
    BY <1>2, <1>3, <2>1, <2>2
  <2> QED
    BY <1>5, <1>7, <2>2 DEF AtEvent
<1>6. CASE klines = <<b>> \o rest /\ kevent = name /\ kdata = size
  <2>1. Head(klines) = b /\ Tail(klines) = rest
    BY <1>1, <1>6
  <2>2. ASSUME ~ExecFails
        PROVE  /\ klines' = rest /\ kevent' = "" /\ kdata' = 0
               /\ UNCHANGED <<kjob, kexec>> /\ ProcessEvent(kevent, kdata)
    BY <1>2, <1>3, <2>1, <2>2
  <2> QED
    BY <1>6, <2>2
<1> QED
    BY <1>4, <1>5, <1>6, <1>7 DEF AtEvent, EventLines

\* The caps are numbers.
LEMMA CapsAreNumbers == OutputCap \in Nat /\ OutputMax \in Nat
BY CloudAssumption

\* At the start there is no command and no answer.
LEMMA ResultInit == CloudInit => ResultInv
<1> SUFFICES ASSUME CloudInit PROVE ResultInv
    OBVIOUS
<1>1. /\ kjob = [j \in CloudKinds |-> IF j = "provision" THEN "queued" ELSE "none"]
      /\ kcmd = "none" /\ ksize = [s \in Streams |-> 0] /\ kexec = "idle"
      /\ kevent = "" /\ kdata = 0 /\ kgot = [s \in Streams |-> 0] /\ ~kexit
    BY Zenon DEF CloudInit
<1>2. ResultShape
  <2>1. 0 \in 0..OutputCap /\ 0 \in 0..OutputMax
    BY CapsAreNumbers
  <2>2. ksize \in [Streams -> 0..OutputMax] /\ kgot \in [Streams -> 0..OutputCap]
    BY ONLY <1>1, <2>1
  <2> QED
    BY <1>1, <2>2 DEF ResultShape
<1> QED
    BY <1>1, <1>2 DEF ResultInv, ExecInHand, ParserClean, ParserInStep, ResultKept, NothingRead, CloudKinds

\* A step that leaves the command's run and its answer alone.
LEMMA ParserStays ==
  ASSUME ResultInv, UNCHANGED <<kcommand, kexec, klines, kparser>>,
         kjob' \in [CloudKinds -> {"none", "queued", "running", "completed", "failed"}],
         \/ kjob'["command"] = kjob["command"]
         \/ kjob["command"] = "none" /\ kjob'["command"] = "queued"
  PROVE  ResultInv'
<1>1. /\ kcmd' = kcmd /\ ksize' = ksize /\ kexec' = kexec /\ klines' = klines
      /\ kevent' = kevent /\ kdata' = kdata /\ kgot' = kgot
    BY DEF kcommand, kparser
<1>2. kexit' <=> kexit
    BY Zenon DEF kparser
<1>3. /\ FromStderr' = FromStderr /\ NothingRead' = NothingRead
      /\ StdoutRead' = StdoutRead /\ AllRead' = AllRead
    BY <1>1 DEF FromStderr, OutputLines, NothingRead, StdoutRead, AllRead, Whole
<1>4. ParserInStep'
  <2>1. ParserInStep
    BY DEF ResultInv
  <2> QED
    BY <1>1, <1>2, <1>3, <2>1 DEF ParserInStep
<1>5. ParserClean'
  <2>1. ParserClean /\ ExecInHand
    BY DEF ResultInv
  <2> QED
    BY <1>1, <1>2, <1>3, <2>1 DEF ParserClean, ExecInHand
<1>6. ResultShape' /\ ExecInHand' /\ ResultKept'
    BY <1>1, <1>3 DEF ResultInv, ResultShape, ExecInHand, ResultKept
<1> QED
    BY <1>4, <1>5, <1>6 DEF ResultInv

\* An attempt that ends without a result leaves no half of one.
LEMMA FailureClears ==
  ASSUME ResultInv, ExecFails, kexec # "idle", UNCHANGED kcommand
  PROVE  ResultInv'
<1>1. kcmd' = kcmd /\ ksize' = ksize
    BY DEF kcommand
<1>2. kexec' = "idle" /\ kevent' = "" /\ kdata' = 0 /\ kgot' = [s \in Streams |-> 0]
    BY Zenon DEF ExecFails, ResetParser
<1>3. ~kexit'
    BY Zenon DEF ExecFails, ResetParser
<1>4. \E v \in {"queued", "failed"} : kjob' = [kjob EXCEPT !["command"] = v]
    BY DEF ExecFails, Retries, Ends
<1>5. /\ kjob' \in [CloudKinds -> {"none", "queued", "running", "completed", "failed"}]
      /\ kjob'["command"] \in {"queued", "failed"}
    BY <1>4 DEF ResultInv, ResultShape, CloudKinds
<1>6. NothingRead'
    BY <1>2 DEF NothingRead
<1>7. ResultShape'
  <2>1. 0 \in 0..OutputCap
    BY CapsAreNumbers
  <2>2. kgot' \in [Streams -> 0..OutputCap]
    BY ONLY <1>2, <2>1
  <2> QED
    BY <1>1, <1>2, <1>5, <2>2 DEF ResultInv, ResultShape
<1>8. ExecInHand' /\ ParserClean' /\ ParserInStep' /\ ResultKept'
    BY <1>2, <1>3, <1>5, <1>6 DEF ExecInHand, ParserClean, ParserInStep, ResultKept
<1> QED
    BY <1>7, <1>8 DEF ResultInv

\* The answer of a completed command is read from its first line, or is empty.
LEMMA AnswerStarts ==
  ASSUME ResultInv, CloudExecAnswered
  PROVE  ResultInv'
<1>1. kcmd' = kcmd /\ ksize' = ksize /\ kevent' = kevent /\ kdata' = kdata /\ kgot' = kgot
    BY DEF CloudExecAnswered, kcommand, kparser
<1>2. kexit' <=> kexit
    BY Zenon DEF CloudExecAnswered, kparser
<1>3. kexec = "posted" /\ kjob["command"] = "running"
    BY DEF CloudExecAnswered, ResultInv, ExecInHand
<1>4. NothingRead /\ kevent = "" /\ kdata = 0 /\ ~kexit
    BY <1>3 DEF ResultInv, ParserClean
<1>5. /\ NothingRead' /\ kevent' = "" /\ kdata' = 0 /\ ~kexit'
      /\ FromStderr' = FromStderr
    BY <1>1, <1>2, <1>4 DEF NothingRead, FromStderr, OutputLines
<1>6. CASE /\ kcmd = "completed" /\ kexec' = "reading" /\ UNCHANGED kjob
           /\ klines' \in {<< >>, OutputLines("stdout") \o OutputLines("stderr") \o EventLines("exit", 1)}
  <2>1. ResultShape' /\ ExecInHand' /\ ParserClean' /\ ResultKept'
    BY <1>1, <1>3, <1>6 DEF ResultInv, ResultShape, ExecInHand, ParserClean, ResultKept
  <2>2. CASE klines' = << >>
    BY <1>5, <2>1, <2>2 DEF ResultInv, ParserInStep
  <2>3. CASE klines' = OutputLines("stdout") \o OutputLines("stderr") \o EventLines("exit", 1)
    <3>1. /\ OutputLines("stdout") \in Seq(AnswerLines) /\ OutputLines("stderr") \in Seq(AnswerLines)
          /\ ExitLines \in Seq(AnswerLines) /\ FromStderr \in Seq(AnswerLines)
      BY AnswerTyped, CloudAssumption DEF ResultInv, Streams
    <3>2. klines' = OutputLines("stdout") \o FromStderr
      BY <2>3, <3>1, ConcatAssociative DEF FromStderr, ExitLines
    <3>3. CASE ksize["stdout"] # 0
      <4>1. OutputLines("stdout") = EventLines("stdout", ksize["stdout"])
        BY <3>3 DEF OutputLines
      <4>2. AtEvent(klines', kevent', kdata', "stdout", ksize["stdout"], FromStderr)
        BY <1>5, <3>2, <4>1 DEF AtEvent
      <4> QED
        BY <1>1, <1>5, <2>1, <4>2 DEF ResultInv, ParserInStep
    <3>4. CASE ksize["stdout"] = 0
      <4>1. OutputLines("stdout") = << >>
        BY <3>4 DEF OutputLines
      <4>2. klines' = FromStderr
        BY ONLY <3>1, <3>2, <4>1, ConcatEmptySeq
      <4>3. Whole("stdout") = 0 /\ StdoutRead'
        <5>1. (IF 0 < OutputCap THEN 0 ELSE OutputCap) = 0
          BY ONLY CapsAreNumbers
        <5>2. kgot["stdout"] = 0 /\ kgot["stderr"] = 0
          BY <1>4 DEF NothingRead, Streams
        <5> QED
          BY ONLY <1>1, <3>4, <5>1, <5>2 DEF Whole, StdoutRead
      <4>4. CASE ksize["stderr"] # 0
        <5>1. klines' = EventLines("stderr", ksize["stderr"]) \o ExitLines
          BY <4>2, <4>4 DEF FromStderr, OutputLines
        <5>2. AtEvent(klines', kevent', kdata', "stderr", ksize["stderr"], ExitLines)
          BY <1>5, <5>1 DEF AtEvent
        <5>3. ExitLines' = ExitLines
          BY DEF ExitLines, EventLines
        <5> QED
          BY <1>1, <1>5, <2>1, <4>3, <5>2, <5>3 DEF ResultInv, ParserInStep
      <4>5. CASE ksize["stderr"] = 0
        <5>1. OutputLines("stderr") = << >>
          BY <4>5 DEF OutputLines
        <5>2. klines' = ExitLines /\ ExitLines = ExitLines \o << >>
          BY <3>1, <4>2, <5>1, ConcatEmptySeq DEF FromStderr
        <5>3. AtEvent(klines', kevent', kdata', "exit", 1, << >>)
          BY <1>5, <5>2 DEF AtEvent, ExitLines
        <5>4. AllRead'
          <6>1. (IF 0 < OutputCap THEN 0 ELSE OutputCap) = 0
            BY ONLY CapsAreNumbers
          <6>2. kgot["stdout"] = 0 /\ kgot["stderr"] = 0
            BY <1>4 DEF NothingRead, Streams
          <6> QED
            BY ONLY <1>1, <3>4, <4>5, <6>1, <6>2 DEF Whole, AllRead, Streams
        <5> QED
          BY <1>5, <2>1, <5>3, <5>4 DEF ResultInv, ParserInStep
      <4> QED
        BY <4>4, <4>5
    <3> QED
      BY <3>3, <3>4
  <2> QED
    BY <1>6, <2>2, <2>3
<1>7. CASE kexec' = "idle" /\ \E v \in {"queued", "failed"} : kjob' = [kjob EXCEPT !["command"] = v]
  <2>1. /\ kjob' \in [CloudKinds -> {"none", "queued", "running", "completed", "failed"}]
        /\ kjob'["command"] \in {"queued", "failed"}
    BY <1>7 DEF ResultInv, ResultShape, CloudKinds
  <2> QED
    BY <1>1, <1>5, <1>7, <2>1 DEF ResultInv, ResultShape, ExecInHand, ParserClean, ParserInStep, ResultKept
<1>8. \/ /\ kcmd = "completed" /\ kexec' = "reading" /\ UNCHANGED kjob
         /\ klines' \in {<< >>, OutputLines("stdout") \o OutputLines("stderr") \o EventLines("exit", 1)}
      \/ kexec' = "idle" /\ \E v \in {"queued", "failed"} : kjob' = [kjob EXCEPT !["command"] = v]
    BY DEF CloudExecAnswered, Refused, Retries, Ends
<1> QED
    BY <1>6, <1>7, <1>8

\* The stream of a result that is kept: what an event adds to what was read.
LEMMA TakesEvent ==
  ASSUME ResultInv, NEW name \in Streams, kgot[name] = 0, ProcessEvent(name, ksize[name])
  PROVE  /\ kgot' \in [Streams -> 0..OutputCap] /\ kgot'[name] = Whole(name)
         /\ \A s \in Streams \ {name} : kgot'[s] = kgot[s]
         /\ kexit' <=> kexit
<1>1. kgot' = Keeps(name, ksize[name])
    BY DEF ProcessEvent
<1>2. kexit' <=> kexit
  <2>1. kexit' <=> (kexit \/ name = "exit")
    BY Zenon DEF ProcessEvent
  <2>2. name # "exit"
    BY DEF Streams
  <2> QED
    BY <2>1, <2>2, Zenon
<1>3. ksize[name] \in Nat /\ kgot \in [Streams -> 0..OutputCap]
    BY CapsAreNumbers DEF ResultInv, ResultShape
<1>4. /\ (IF 0 + ksize[name] > OutputCap THEN OutputCap ELSE 0 + ksize[name]) = Whole(name)
      /\ Whole(name) \in 0..OutputCap
    BY <1>3, CapsAreNumbers DEF Whole
<1>5. kgot' = [kgot EXCEPT ![name] = Whole(name)]
    BY <1>1, <1>3, <1>4 DEF Keeps
<1> QED
    BY <1>2, <1>3, <1>4, <1>5

\* The lines that may be to come are lines.
LEMMA LinesToCome ==
  ASSUME ResultInv
  PROVE  /\ ExitLines \in Seq(AnswerLines) /\ FromStderr \in Seq(AnswerLines) /\ << >> \in Seq(AnswerLines)
         /\ <<"event", "stdout", 0>> \in AnswerLines /\ <<"data", "stdout", ksize["stdout"]>> \in AnswerLines
         /\ <<"event", "stderr", 0>> \in AnswerLines /\ <<"data", "stderr", ksize["stderr"]>> \in AnswerLines
         /\ <<"event", "exit", 0>> \in AnswerLines /\ <<"data", "exit", 1>> \in AnswerLines
         /\ <<"blank", "", 0>> \in AnswerLines
<1>1. ResultShape /\ "stdout" \in Streams /\ "stderr" \in Streams
    BY DEF ResultInv, Streams
<1>2. << >> \in Seq(AnswerLines)
    OBVIOUS
<1>3. /\ ExitLines \in Seq(AnswerLines) /\ FromStderr \in Seq(AnswerLines)
      /\ \A s \in Streams : /\ <<"event", s, 0>> \in AnswerLines
                            /\ <<"data", s, ksize[s]>> \in AnswerLines
      /\ <<"event", "exit", 0>> \in AnswerLines /\ <<"data", "exit", 1>> \in AnswerLines
      /\ <<"blank", "", 0>> \in AnswerLines
    BY ONLY <1>1, AnswerTyped, CloudAssumption, Zenon
<1> QED
    BY ONLY <1>1, <1>2, <1>3, Zenon

\* A line that is read keeps the parser in step.
LEMMA LineRead ==
  ASSUME ResultInv, ReadLine
  PROVE  ResultInv'
<1>1. kexec = "reading" /\ klines # << >> /\ UNCHANGED kcommand
    BY DEF ReadLine
<1>2. kcmd' = kcmd /\ ksize' = ksize
    BY <1>1 DEF kcommand
<1>3. CASE ExecFails
    BY <1>1, <1>3, FailureClears
<1>4. /\ FromStderr' = FromStderr /\ ExitLines' = ExitLines
      /\ \A s \in Streams : Whole(s)' = Whole(s)
    BY <1>2 DEF FromStderr, OutputLines, ExitLines, Whole
<1>5. kjob["command"] = "running" /\ kcmd = "completed"
    BY <1>1 DEF ResultInv, ExecInHand
<1>6. ASSUME UNCHANGED <<kjob, kexec>>, kgot' \in [Streams -> 0..OutputCap], ParserInStep'
      PROVE  ResultInv'
    BY <1>1, <1>2, <1>5, <1>6 DEF ResultInv, ResultShape, ExecInHand, ParserClean, ResultKept
<1>7. ASSUME UNCHANGED <<kjob, kexec, kgot, kexit>>
      PROVE  /\ kgot' \in [Streams -> 0..OutputCap] /\ (kexit' <=> kexit)
             /\ (NothingRead' <=> NothingRead) /\ (StdoutRead' <=> StdoutRead) /\ (AllRead' <=> AllRead)
             /\ UNCHANGED <<kjob, kexec>>
  <2>1. kgot' = kgot /\ UNCHANGED <<kjob, kexec>>
    BY <1>7
  <2>2. kexit' <=> kexit
    BY <1>7, Zenon
  <2> QED
    BY <1>2, <2>1, <2>2 DEF ResultInv, ResultShape, NothingRead, StdoutRead, AllRead, Whole
<1>8. /\ ExitLines \in Seq(AnswerLines) /\ FromStderr \in Seq(AnswerLines) /\ << >> \in Seq(AnswerLines)
      /\ <<"event", "stdout", 0>> \in AnswerLines /\ <<"data", "stdout", ksize["stdout"]>> \in AnswerLines
      /\ <<"event", "stderr", 0>> \in AnswerLines /\ <<"data", "stderr", ksize["stderr"]>> \in AnswerLines
      /\ <<"event", "exit", 0>> \in AnswerLines /\ <<"data", "exit", 1>> \in AnswerLines
      /\ <<"blank", "", 0>> \in AnswerLines
    BY LinesToCome
<1>9. CASE AtEvent(klines, kevent, kdata, "stdout", ksize["stdout"], FromStderr) /\ ~kexit /\ NothingRead
  <2>1. \/ ExecFails
        \/ /\ AtEvent(klines', kevent', kdata', "stdout", ksize["stdout"], FromStderr)
           /\ UNCHANGED <<kjob, kexec, kgot, kexit>>
        \/ /\ klines' = FromStderr /\ kevent' = "" /\ kdata' = 0 /\ UNCHANGED <<kjob, kexec>>
           /\ ProcessEvent("stdout", ksize["stdout"])
    BY <1>8, <1>9, ReadsOn
  <2>2. CASE /\ AtEvent(klines', kevent', kdata', "stdout", ksize["stdout"], FromStderr)
             /\ UNCHANGED <<kjob, kexec, kgot, kexit>>
    <3>1. ParserInStep'
      BY <1>2, <1>4, <1>7, <1>9, <2>2 DEF ParserInStep
    <3> QED
      BY <1>6, <1>7, <2>2, <3>1
  <2>3. CASE /\ klines' = FromStderr /\ kevent' = "" /\ kdata' = 0 /\ UNCHANGED <<kjob, kexec>>
             /\ ProcessEvent("stdout", ksize["stdout"])
    <3>1. kgot["stdout"] = 0 /\ kgot["stderr"] = 0 /\ "stdout" \in Streams /\ "stderr" \in Streams \ {"stdout"}
      BY <1>9 DEF NothingRead, Streams
    <3>2. /\ kgot' \in [Streams -> 0..OutputCap] /\ kgot'["stdout"] = Whole("stdout")
          /\ kgot'["stderr"] = 0 /\ ~kexit'
      BY <1>9, <2>3, <3>1, TakesEvent
    <3>3. CASE ksize["stderr"] # 0
      <4>1. klines' = EventLines("stderr", ksize["stderr"]) \o ExitLines
        BY <2>3, <3>3 DEF FromStderr, OutputLines
      <4>2. AtEvent(klines', kevent', kdata', "stderr", ksize["stderr"], ExitLines)
        BY <2>3, <4>1 DEF AtEvent
      <4>3. StdoutRead'
        BY <1>4, <3>1, <3>2 DEF StdoutRead
      <4>4. ParserInStep'
        BY <1>2, <1>4, <3>2, <4>2, <4>3 DEF ParserInStep
      <4> QED
        BY <1>6, <2>3, <3>2, <4>4
    <3>4. CASE ksize["stderr"] = 0
      <4>1. OutputLines("stderr") = << >>
        BY <3>4 DEF OutputLines
      <4>2. klines' = ExitLines /\ ExitLines = ExitLines \o << >>
        BY <1>8, <2>3, <4>1, ConcatEmptySeq DEF FromStderr
      <4>3. AtEvent(klines', kevent', kdata', "exit", 1, << >>)
        BY <2>3, <4>2 DEF AtEvent, ExitLines
      <4>4. AllRead'
        <5>1. (IF 0 < OutputCap THEN 0 ELSE OutputCap) = 0
          BY ONLY CapsAreNumbers
        <5>2. Whole("stderr") = 0
          BY ONLY <3>4, <5>1 DEF Whole
        <5> QED
          BY <1>4, <3>1, <3>2, <5>2 DEF AllRead, Streams
      <4>5. ParserInStep'
        BY <3>2, <4>3, <4>4 DEF ParserInStep
      <4> QED
        BY <1>6, <2>3, <3>2, <4>5
    <3> QED
      BY <3>3, <3>4
  <2> QED
    BY <1>3, <2>1, <2>2, <2>3
<1>10. CASE AtEvent(klines, kevent, kdata, "stderr", ksize["stderr"], ExitLines) /\ ~kexit /\ StdoutRead
  <2>1. \/ ExecFails
        \/ /\ AtEvent(klines', kevent', kdata', "stderr", ksize["stderr"], ExitLines)
           /\ UNCHANGED <<kjob, kexec, kgot, kexit>>
        \/ /\ klines' = ExitLines /\ kevent' = "" /\ kdata' = 0 /\ UNCHANGED <<kjob, kexec>>
           /\ ProcessEvent("stderr", ksize["stderr"])
    BY <1>8, <1>10, ReadsOn
  <2>2. CASE /\ AtEvent(klines', kevent', kdata', "stderr", ksize["stderr"], ExitLines)
             /\ UNCHANGED <<kjob, kexec, kgot, kexit>>
    <3>1. ParserInStep'
      BY <1>2, <1>4, <1>7, <1>10, <2>2 DEF ParserInStep
    <3> QED
      BY <1>6, <1>7, <2>2, <3>1
  <2>3. CASE /\ klines' = ExitLines /\ kevent' = "" /\ kdata' = 0 /\ UNCHANGED <<kjob, kexec>>
             /\ ProcessEvent("stderr", ksize["stderr"])
    <3>1. /\ kgot["stdout"] = Whole("stdout") /\ kgot["stderr"] = 0
          /\ "stderr" \in Streams /\ "stdout" \in Streams \ {"stderr"}
      BY <1>10 DEF StdoutRead, Streams
    <3>2. /\ kgot' \in [Streams -> 0..OutputCap] /\ kgot'["stderr"] = Whole("stderr")
          /\ kgot'["stdout"] = Whole("stdout") /\ ~kexit'
      BY <1>10, <2>3, <3>1, TakesEvent
    <3>3. ExitLines = ExitLines \o << >>
      BY <1>8, ConcatEmptySeq
    <3>4. AtEvent(klines', kevent', kdata', "exit", 1, << >>)
      BY <2>3, <3>3 DEF AtEvent, ExitLines
    <3>5. AllRead'
      BY <1>4, <3>1, <3>2 DEF AllRead, Streams
    <3>6. ParserInStep'
      BY <3>2, <3>4, <3>5 DEF ParserInStep
    <3> QED
      BY <1>6, <2>3, <3>2, <3>6
  <2> QED
    BY <1>3, <2>1, <2>2, <2>3
<1>11. CASE AtEvent(klines, kevent, kdata, "exit", 1, << >>) /\ ~kexit /\ AllRead
  <2>1. \/ ExecFails
        \/ /\ AtEvent(klines', kevent', kdata', "exit", 1, << >>)
           /\ UNCHANGED <<kjob, kexec, kgot, kexit>>
        \/ /\ klines' = << >> /\ kevent' = "" /\ kdata' = 0 /\ UNCHANGED <<kjob, kexec>>
           /\ ProcessEvent("exit", 1)
    BY <1>8, <1>11, ReadsOn
  <2>2. CASE /\ AtEvent(klines', kevent', kdata', "exit", 1, << >>)
             /\ UNCHANGED <<kjob, kexec, kgot, kexit>>
    <3>1. ParserInStep'
      BY <1>7, <1>11, <2>2 DEF ParserInStep
    <3> QED
      BY <1>6, <1>7, <2>2, <3>1
  <2>3. CASE /\ klines' = << >> /\ kevent' = "" /\ kdata' = 0 /\ UNCHANGED <<kjob, kexec>>
             /\ ProcessEvent("exit", 1)
    <3>1. kgot' = kgot
      <4>1. "exit" \notin Streams
        BY DEF Streams
      <4> QED
        BY <2>3, <4>1 DEF ProcessEvent
    <3>2. kexit'
      BY <2>3, Zenon DEF ProcessEvent
    <3>3. kgot' \in [Streams -> 0..OutputCap]
      BY <3>1 DEF ResultInv, ResultShape
    <3>4. AllRead'
      BY <1>4, <1>11, <3>1 DEF AllRead
    <3>5. ParserInStep'
      BY <2>3, <3>2, <3>4 DEF ParserInStep
    <3> QED
      BY <1>6, <2>3, <3>3, <3>5
  <2> QED
    BY <1>3, <2>1, <2>2, <2>3
<1> QED
    BY <1>1, <1>9, <1>10, <1>11 DEF ResultInv, ParserInStep

\* In an event, only its own name is to be found.
LEMMA NameAtHead ==
  ASSUME NEW S, NEW rest \in Seq(S), NEW name \in {"stdout", "stderr", "exit"}, NEW size,
         <<"event", name, 0>> \in S, <<"data", name, size>> \in S, <<"blank", "", 0>> \in S,
         AtEvent(klines, kevent, kdata, name, size, rest)
  PROVE  /\ klines # << >> /\ kevent \in {"", name}
         /\ Head(klines)[1] = "event" => Head(klines)[2] = name
<1>1. PICK e \in S, d \in S, b \in S :
        e = <<"event", name, 0>> /\ d = <<"data", name, size>> /\ b = <<"blank", "", 0>>
    OBVIOUS
<1>2. /\ e[1] = "event" /\ e[2] = name
      /\ d[1] = "data" /\ b[1] = "blank"
    BY <1>1
<1>3. e \in S /\ d \in S /\ b \in S /\ rest \in Seq(S)
    OBVIOUS
<1>4. /\ <<e, d, b>> \o rest # << >> /\ Head(<<e, d, b>> \o rest) = e
      /\ <<d, b>> \o rest # << >> /\ Head(<<d, b>> \o rest) = d
      /\ <<b>> \o rest # << >> /\ Head(<<b>> \o rest) = b
    BY ONLY <1>3, EventLinesSplit
<1>5. klines \in {<<e, d, b>> \o rest, <<d, b>> \o rest, <<b>> \o rest} /\ kevent \in {"", name}
    BY <1>1 DEF AtEvent, EventLines
<1> QED
    BY ONLY <1>2, <1>4, <1>5

\* What a cut line leaves behind names an event only if the line or the parser does.
LEMMA RemnantNames ==
  ASSUME NEW line, NEW left \in Remnants(line)
  PROVE  left[1] = kevent \/ (line[1] = "event" /\ left[1] \in {"junk", line[2]})
BY DEF Remnants

\* A stream that ends has a result only when all of it had been read.
LEMMA EndedWhole ==
  ASSUME ResultInv, StreamEnds
  PROVE  ResultInv'
<1>1. kexec = "reading" /\ UNCHANGED kcommand
    BY DEF StreamEnds
<1>2. kcmd' = kcmd /\ ksize' = ksize
    BY <1>1 DEF kcommand
<1>3. CASE ExecFails
    BY <1>1, <1>3, FailureClears
<1>4. PICK left \in IF klines = << >> THEN {<<kevent, kdata>>} ELSE Remnants(Head(klines)) :
        IF Decodes(left[1], left[2]) /\ Finishes(left[1])
        THEN /\ ProcessEvent(left[1], left[2]) /\ Ends("command", "completed")
             /\ kexec' = "idle" /\ klines' = << >> /\ kevent' = "" /\ kdata' = 0
        ELSE ExecFails
    BY DEF StreamEnds
<1>5. CASE ~ExecFails
  <2>1. /\ Finishes(left[1]) /\ ProcessEvent(left[1], left[2]) /\ Ends("command", "completed")
        /\ kexec' = "idle"
    BY <1>4, <1>5, Zenon
  <2>2. kexit \/ left[1] = "exit"
    BY <2>1, Zenon DEF Finishes
  <2>3. IF klines = << >> THEN left[1] = kevent
        ELSE left[1] = kevent \/ (Head(klines)[1] = "event" /\ left[1] \in {"junk", Head(klines)[2]})
    <3>1. CASE klines = << >>
      <4>1. left \in {<<kevent, kdata>>}
        BY <1>4, <3>1
      <4> QED
        BY <3>1, <4>1
    <3>2. CASE klines # << >>
      <4>1. left \in Remnants(Head(klines))
        BY <1>4, <3>2
      <4> QED
        BY <3>2, <4>1, RemnantNames
    <3> QED
      BY <3>1, <3>2
  <2>4. AllRead /\ left[1] \notin Streams
    <3>1. CASE klines = << >> /\ kevent = "" /\ ~kexit
      BY <2>2, <2>3, <3>1
    <3>2. CASE klines = << >> /\ kevent = "" /\ AllRead
      BY <2>3, <3>2 DEF Streams
    <3>3. ASSUME NEW name \in {"stdout", "stderr", "exit"}, ~kexit,
                 klines # << >> /\ kevent \in {"", name},
                 Head(klines)[1] = "event" => Head(klines)[2] = name
          PROVE  left[1] = "exit" /\ name = "exit"
      <4>1. left[1] = "exit"
        BY <2>2, <3>3, Zenon
      <4> QED
        BY <2>3, <3>3, <4>1
    <3>4. CASE AtEvent(klines, kevent, kdata, "stdout", ksize["stdout"], FromStderr) /\ ~kexit
      <4>1. /\ klines # << >> /\ kevent \in {"", "stdout"}
            /\ Head(klines)[1] = "event" => Head(klines)[2] = "stdout"
        BY <3>4, LinesToCome, NameAtHead
      <4> QED
        BY <3>3, <3>4, <4>1
    <3>5. CASE AtEvent(klines, kevent, kdata, "stderr", ksize["stderr"], ExitLines) /\ ~kexit
      <4>1. /\ klines # << >> /\ kevent \in {"", "stderr"}
            /\ Head(klines)[1] = "event" => Head(klines)[2] = "stderr"
        BY <3>5, LinesToCome, NameAtHead
      <4> QED
        BY <3>3, <3>5, <4>1
    <3>6. CASE AtEvent(klines, kevent, kdata, "exit", 1, << >>) /\ ~kexit /\ AllRead
      <4>1. /\ klines # << >> /\ kevent \in {"", "exit"}
            /\ Head(klines)[1] = "event" => Head(klines)[2] = "exit"
        BY <3>6, LinesToCome, NameAtHead
      <4>2. left[1] = "exit"
        BY <3>3, <3>6, <4>1
      <4> QED
        BY <3>6, <4>2 DEF Streams
    <3> QED
      BY <1>1, <3>1, <3>2, <3>4, <3>5, <3>6 DEF ResultInv, ParserInStep
  <2>5. kgot' = kgot
    BY <2>1, <2>4 DEF ProcessEvent
  <2>6. /\ kjob' \in [CloudKinds -> {"none", "queued", "running", "completed", "failed"}]
        /\ kjob'["command"] = "completed"
    BY <2>1 DEF Ends, ResultInv, ResultShape, CloudKinds
  <2>7. AllRead'
    BY <1>2, <2>4, <2>5 DEF AllRead, Whole
  <2>8. kcmd = "completed"
    BY <1>1 DEF ResultInv, ExecInHand
  <2> QED
    BY <1>2, <2>1, <2>5, <2>6, <2>7, <2>8
    DEF ResultInv, ResultShape, ExecInHand, ParserClean, ParserInStep, ResultKept
<1> QED
    BY <1>3, <1>5

\* Every step keeps the invariant.
LEMMA ResultStep == ResultInv /\ [CloudNext]_kvars => ResultInv'
<1> SUFFICES ASSUME ResultInv, [CloudNext]_kvars PROVE ResultInv'
    OBVIOUS
<1> DEFINE Statuses == {"none", "queued", "running", "completed", "failed"}
<1>1. kjob \in [CloudKinds -> Statuses] /\ CloudKinds = {"provision", "command", "stop"}
    BY DEF ResultInv, ResultShape, CloudKinds
<1>2. ASSUME UNCHANGED <<kcommand, kexec, klines, kparser>>,
             NEW j \in {"provision", "stop"}, NEW v \in Statuses,
             kjob' = [kjob EXCEPT ![j] = v]
      PROVE  ResultInv'
  <2>1. kjob' \in [CloudKinds -> Statuses] /\ kjob'["command"] = kjob["command"]
    BY <1>1, <1>2
  <2> QED
    BY <1>2, <2>1, ParserStays
<1>3. ASSUME UNCHANGED <<kcommand, kexec, klines, kparser>>, kjob' = kjob
      PROVE  ResultInv'
    BY <1>1, <1>3, ParserStays
<1>4. CASE UNCHANGED kvars
    BY <1>3, <1>4 DEF kvars
<1>5. CASE StartCloudProvision
    BY <1>2, <1>5 DEF StartCloudProvision, Ends
<1>6. CASE CreateReturns
  <2>1. UNCHANGED <<kcommand, kexec, klines, kparser>>
    BY <1>6 DEF CreateReturns
  <2>2. kjob' = kjob \/ \E v \in Statuses : kjob' = [kjob EXCEPT !["provision"] = v]
    BY <1>6 DEF CreateReturns, Refused, Retries, Ends
  <2> QED
    BY <1>2, <1>3, <2>1, <2>2
<1>7. CASE CreateUnknown
    BY <1>2, <1>7 DEF CreateUnknown, Retries, Ends
<1>8. CASE PollReady
  <2>1. UNCHANGED <<kcommand, kexec, klines, kparser>>
    BY <1>8 DEF PollReady
  <2>2. \E v \in Statuses : kjob' = [kjob EXCEPT !["provision"] = v]
    BY <1>8 DEF PollReady, Refused, Retries, Ends
  <2> QED
    BY <1>2, <2>1, <2>2
<1>9. CASE ContainerSleeps \/ \E d \in CloudCreates : MountHome(d) \/ MakeThreads(d) \/ MarkMounted(d) \/ DropCreate(d)
  <2>1. UNCHANGED <<kcommand, kexec, klines, kparser>> /\ kjob' = kjob
    BY <1>9, Zenon DEF ContainerSleeps, MountHome, MakeThreads, MarkMounted, DropCreate
  <2> QED
    BY <1>3, <2>1
<1>10. CASE AskStop
  <2>1. UNCHANGED <<kcommand, kexec, klines, kparser>>
    BY <1>10 DEF AskStop
  <2>2. kjob' \in [CloudKinds -> Statuses] /\ kjob'["command"] = kjob["command"]
    BY <1>1, <1>10 DEF AskStop
  <2> QED
    BY <2>1, <2>2, ParserStays
<1>11. CASE StartCloudStop
  <2>1. UNCHANGED <<kcommand, kexec, klines, kparser>>
    BY <1>11 DEF StartCloudStop
  <2>2. \E v \in Statuses : kjob' = [kjob EXCEPT !["stop"] = v]
    BY <1>11 DEF StartCloudStop, Refused, Retries, Ends
  <2> QED
    BY <1>2, <2>1, <2>2
<1>12. CASE DestroyContainer
  <2>1. UNCHANGED <<kcommand, kexec, klines, kparser>>
    BY <1>12 DEF DestroyContainer
  <2>2. kjob' = kjob \/ Refused("stop", 500)
    BY <1>12, Zenon DEF DestroyContainer
  <2>3. kjob' = kjob \/ \E v \in Statuses : kjob' = [kjob EXCEPT !["stop"] = v]
    BY <2>2 DEF Refused, Retries, Ends
  <2> QED
    BY <1>2, <1>3, <2>1, <2>3
<1>13. CASE DeleteReturns
  <2>1. UNCHANGED <<kcommand, kexec, klines, kparser>>
    BY <1>13 DEF DeleteReturns
  <2>2. kjob' \in [CloudKinds -> Statuses] /\ kjob'["command"] = kjob["command"]
    BY <1>1, <1>13 DEF DeleteReturns
  <2> QED
    BY <2>1, <2>2, ParserStays
<1>14. CASE DeleteUnknown
    BY <1>2, <1>14 DEF DeleteUnknown, Retries, Ends
<1>15. CASE AskCommand
  <2>1. UNCHANGED <<kcommand, kexec, klines, kparser>>
    BY <1>15 DEF AskCommand
  <2>2. kjob' \in [CloudKinds -> Statuses] /\ kjob["command"] = "none" /\ kjob'["command"] = "queued"
    BY <1>1, <1>15 DEF AskCommand, Ends
  <2> QED
    BY <2>1, <2>2, ParserStays
<1>16. CASE StartExec
  <2>1. /\ ksize' = ksize /\ klines' = klines /\ kevent' = kevent /\ kdata' = kdata /\ kgot' = kgot
        /\ kjob["command"] = "queued" /\ kexec = "idle"
    BY <1>16 DEF StartExec, CloudJob, kparser
  <2>2. kexit' <=> kexit
    BY <1>16, Zenon DEF StartExec, kparser
  <2>3. \/ kjob' = [kjob EXCEPT !["command"] = "failed"] /\ kexec' = kexec /\ kcmd' = kcmd
        \/ /\ kjob' = [kjob EXCEPT !["command"] = "running"] /\ kexec' = "posted"
           /\ kcmd' = IF kcmd = "none" THEN "running" ELSE kcmd
    BY <1>16, Zenon DEF StartExec, Ends
  <2>4. kjob' \in [CloudKinds -> Statuses] /\ kjob'["command"] \in {"failed", "running"}
    BY <1>1, <2>3
  <2>5. kexec' # "idle" => kjob'["command"] = "running"
    BY <1>1, <2>1, <2>3
  <2>6. NothingRead /\ kevent = "" /\ kdata = 0 /\ ~kexit
    BY <2>1 DEF ResultInv, ParserClean
  <2>7. NothingRead'
    BY <2>1, <2>6 DEF NothingRead
  <2>8. ResultShape'
    BY <2>1, <2>3, <2>4 DEF ResultInv, ResultShape
  <2> QED
    BY <2>1, <2>2, <2>3, <2>4, <2>5, <2>6, <2>7, <2>8 DEF ResultInv, ExecInHand, ParserClean, ParserInStep, ResultKept
<1>17. CASE CommandEnds
  <2>1. /\ kexec' = kexec /\ klines' = klines /\ kevent' = kevent /\ kdata' = kdata /\ kgot' = kgot
        /\ kjob' = kjob /\ kcmd = "running"
    BY <1>17 DEF CommandEnds, kparser
  <2>2. kexit' <=> kexit
    BY <1>17, Zenon DEF CommandEnds, kparser
  <2>3. kcmd' \in {"completed", "indeterminate"} /\ ksize' \in [Streams -> 0..OutputMax]
    BY <1>17 DEF CommandEnds, ResultInv, ResultShape
  <2>4. kexec # "reading" /\ kjob["command"] # "completed"
    BY <2>1 DEF ResultInv, ExecInHand
  <2> QED
    BY <2>1, <2>2, <2>3, <2>4
    DEF ResultInv, ResultShape, ExecInHand, ParserClean, ParserInStep, ResultKept, NothingRead
<1>18. CASE CloudExecAnswered
    BY <1>18, AnswerStarts
<1>19. CASE ExecUnknown
    BY <1>19, FailureClears DEF ExecUnknown
<1>20. CASE ReadLine
    BY <1>20, LineRead
<1>21. CASE StreamEnds
    BY <1>21, EndedWhole
<1> QED
    BY <1>4, <1>5, <1>6, <1>7, <1>8, <1>9, <1>10, <1>11, <1>12, <1>13, <1>14, <1>15, <1>16, <1>17,
       <1>18, <1>19, <1>20, <1>21 DEF CloudNext

\* The result of a command is the one the bridge recorded, with all of its output up
\* to the cap, wherever the streams that carried it were cut, for every cap and size.
THEOREM ResultsAreWhole == CloudSpec => []ResultIsWhole
<1>1. ResultInv => ResultIsWhole
    BY DEF ResultInv, ExecInHand, ResultKept, AllRead, Whole, ResultIsWhole
<1> QED
    BY <1>1, ResultInit, ResultStep, PTL DEF CloudSpec
=============================================================================
