----------------------------- MODULE AgentSandbox -----------------------------
(***************************************************************************)
(* One sandbox on the agent_sandbox provider: a worker claims a warm Pod,  *)
(* signs a one-shot activation for exactly that Pod, has the agent inside  *)
(* the Pod accept it, and keeps a custody receipt of it until the stop.    *)
(*                                                                         *)
(* One provision or stop runs at a time: a worker that loses its lease is  *)
(* told before the lease is over, and a told provider call issues no more  *)
(* requests, its roll back included.  What it had already sent still lands,*)
(* and the process it started inside the Pod runs on beside the next one.  *)
(* The files under /run/sandboxwich are gone with the Pod.                 *)
(***************************************************************************)
EXTENDS Naturals, FiniteSets

CONSTANTS
  AgentCalls,   \* bound: provisions tried for the sandbox; each has its nonce
  AgentPods     \* bound: Pods the claim is bound to, one after the other

ASSUME AgentSandboxAssumption == AgentCalls \in Nat \ {0} /\ AgentPods \in Nat \ {0}

VARIABLES
  acall,      \* the provision that runs or ran last; its nonce has its number
  aphase,     \* what the worker is at
  aclaim,     \* the SandboxClaim
  apods,      \* Pods bound so far
  apod,       \* the bound Pod, 0 if none
  aseen,      \* the Pod the running provision signed for
  apolicy,    \* whether the post-claim NetworkPolicy is there
  \* the files of the Pod: bundle, staged marker, nonces, marker
  abundle, astaged, anonces, amarker,
  \* the activate processes, by provision, and the bundle each has read
  aproc, aread,
  alauncher,  \* the Pod's main process
  \* the custody receipt: nonce (0 if none), Pod, and whether it is released
  areceipt, areceiptPod, areleased,
  aheld, aheldPod,   \* the receipt a running stop has read: nonce (0 if none) and Pod
  acommitted  \* history: the Pod and nonce of every marker committed

afiles == <<abundle, astaged, anonces, amarker, aproc, aread, alauncher>>
acustody == <<areceipt, areceiptPod, areleased, aheld, aheldPod>>
acluster == <<aclaim, apods, apod, apolicy>>
avars == <<acall, aphase, acluster, aseen, afiles, acustody, acommitted>>

AgentNonces == 1..AgentCalls
AgentPhase == {"idle", "claim", "bind", "workspace", "label", "policy", "exec", "receipt", "unclaim", "unpolicy",
               "unreceipt", "stopread", "stop", "stoppolicy", "stopreceipt", "take", "over"}

AgentTypeOK ==
  /\ acall \in 0..AgentCalls /\ aphase \in AgentPhase
  /\ aclaim \in {"absent", "pending", "bound"}
  /\ apods \in 0..AgentPods /\ apod \in 0..AgentPods /\ aseen \in 0..AgentPods
  /\ apolicy \in BOOLEAN
  /\ abundle \in 0..AgentCalls /\ astaged \in 0..AgentCalls
  /\ anonces \subseteq AgentNonces /\ amarker \in 0..AgentCalls
  /\ aproc \in [AgentNonces -> {"none", "written", "read", "staged", "nonced", "ok", "failed"}]
  /\ aread \in [AgentNonces -> 0..AgentCalls]
  /\ alauncher \in {"preclaim", "ready", "failed"}
  /\ areceipt \in 0..AgentCalls /\ areceiptPod \in 0..AgentPods /\ areleased \in BOOLEAN
  /\ aheld \in 0..AgentCalls /\ aheldPod \in 0..AgentPods
  /\ acommitted \subseteq ((1..AgentPods) \X AgentNonces)

\* A Pod straight from the warm pool.
FreshFiles ==
  /\ abundle' = 0 /\ astaged' = 0 /\ anonces' = {} /\ amarker' = 0
  /\ aproc' = [n \in AgentNonces |-> "none"] /\ aread' = [n \in AgentNonces |-> 0]
  /\ alauncher' = "preclaim"

AgentInit ==
  /\ acall = 0 /\ aphase = "idle" /\ aclaim = "absent" /\ apods = 0 /\ apod = 0 /\ aseen = 0
  /\ apolicy = FALSE
  /\ abundle = 0 /\ astaged = 0 /\ anonces = {} /\ amarker = 0
  /\ aproc = [n \in AgentNonces |-> "none"] /\ aread = [n \in AgentNonces |-> 0]
  /\ alauncher = "preclaim"
  /\ areceipt = 0 /\ areceiptPod = 0 /\ areleased = FALSE /\ aheld = 0 /\ aheldPod = 0 /\ acommitted = {}

-----------------------------------------------------------------------------
(* The worker's provision.  A failed request leads to the roll back.         *)

Holds(nonce, pod) == aheld' = nonce /\ aheldPod' = pod

\* The worker is told that its lease is gone, or it dies.  A request it had
\* sent has landed by then or never will.
AgentCallDropped ==
  /\ aphase \notin {"idle", "over"} /\ aphase' = "idle" /\ Holds(0, 0)
  /\ UNCHANGED <<acall, acluster, aseen, afiles, areceipt, areceiptPod, areleased, acommitted>>

StartProvision ==
  /\ aphase = "idle" /\ acall < AgentCalls
  /\ acall' = acall + 1 /\ aphase' = "claim" /\ aseen' = 0
  /\ UNCHANGED <<acluster, afiles, acustody, acommitted>>

ApplyClaim ==
  /\ aphase = "claim"
  /\ \/ aclaim' = (IF aclaim = "absent" THEN "pending" ELSE aclaim) /\ aphase' \in {"bind", "unclaim"}
     \/ UNCHANGED aclaim /\ aphase' = "unclaim"
  /\ UNCHANGED <<acall, apods, apod, aseen, apolicy, afiles, acustody, acommitted>>

\* The claim's controller binds a warm Pod, and another if that one is lost.
BindPod ==
  /\ aclaim = "pending" /\ apods < AgentPods
  /\ aclaim' = "bound" /\ apods' = apods + 1 /\ apod' = apods + 1
  /\ UNCHANGED <<acall, aphase, aseen, apolicy, afiles, acustody, acommitted>>

LosePod ==
  /\ apod # 0 /\ aclaim' = "pending" /\ apod' = 0 /\ FreshFiles
  /\ UNCHANGED <<acall, aphase, apods, aseen, apolicy, acustody, acommitted>>

\* The loop over claim, sandbox and Pod: the first running Pod is the one the
\* provision signs for.
SeePod ==
  /\ aphase = "bind"
  /\ \/ apod # 0 /\ aseen' = apod /\ aphase' = "workspace"
     \/ aphase' = "unclaim" /\ UNCHANGED aseen
  /\ UNCHANGED <<acall, acluster, afiles, acustody, acommitted>>

\* discover_agent_sandbox_workspace_pvc: the workspace must belong to that Pod,
\* by name and UID.  The label that selects it for the policy goes on next.
CheckWorkspace ==
  /\ aphase = "workspace"
  /\ \/ apod = aseen /\ aphase' = "label"
     \/ aphase' = "unclaim"
  /\ UNCHANGED <<acall, acluster, aseen, afiles, acustody, acommitted>>

LabelPod ==
  /\ aphase = "label"
  /\ \/ apod = aseen /\ aphase' = "policy"
     \/ aphase' = "unclaim"
  /\ UNCHANGED <<acall, acluster, aseen, afiles, acustody, acommitted>>

\* The profile's NetworkPolicy, by name: the Pod is not asked for.
ApplyPolicy ==
  /\ aphase = "policy"
  /\ \/ apolicy' = TRUE /\ aphase' \in {"exec", "unclaim"}
     \/ UNCHANGED apolicy /\ aphase' = "unclaim"
  /\ UNCHANGED <<acall, aclaim, apods, apod, aseen, afiles, acustody, acommitted>>

\* kubectl exec: the bundle is written to the Pod and the activate process
\* started.
ExecActivate ==
  /\ aphase = "exec" /\ apod = aseen /\ aproc[acall] = "none"
  /\ abundle' = acall /\ aproc' = [aproc EXCEPT ![acall] = "written"]
  /\ UNCHANGED <<acall, aphase, acluster, aseen, astaged, anonces, amarker, aread, alauncher,
                 acustody, acommitted>>

\* Mutant of ExecAnswered: the exit status is not looked at.
ExecAnsweredUnchecked ==
  /\ aphase = "exec" /\ aproc[acall] # "none" /\ aphase' \in {"receipt", "unclaim"}
  /\ UNCHANGED <<acall, acluster, aseen, afiles, acustody, acommitted>>

\* The exit status of that process, a timeout, or a Pod that is gone.
ExecAnswered ==
  /\ aphase = "exec"
  /\ \/ apod = aseen /\ aproc[acall] = "ok" /\ aphase' = "receipt"
     \/ aproc[acall] # "ok" /\ aphase' = "unclaim"
  /\ UNCHANGED <<acall, acluster, aseen, afiles, acustody, acommitted>>

\* write_agent_custody_receipt: one ConfigMap, overwritten.
PutReceipt(nonce, pod, released) ==
  /\ areceipt' = nonce /\ areceiptPod' = pod /\ areleased' = released

WriteReceipt ==
  /\ aphase = "receipt"
  /\ \/ /\ PutReceipt(acall, aseen, FALSE)
        /\ aphase' \in {"idle", "unclaim"} /\ Holds(0, 0)
     \/ aphase' = "unclaim" /\ UNCHANGED acustody
  /\ UNCHANGED <<acall, acluster, aseen, afiles, acommitted>>

\* delete_agent_sandbox_claim: claim, policy and receipt in turn.  A failure
\* of one is logged and the next is tried.
DeleteClaim ==
  /\ aclaim' = "absent" /\ apod' = 0 /\ FreshFiles

RollBackClaim ==
  /\ aphase = "unclaim" /\ aphase' = "unpolicy"
  /\ DeleteClaim \/ UNCHANGED <<aclaim, apod, afiles>>
  /\ UNCHANGED <<acall, apods, aseen, apolicy, acustody, acommitted>>

RollBackPolicy ==
  /\ aphase = "unpolicy" /\ aphase' = "unreceipt"
  /\ apolicy' \in {FALSE, apolicy}
  /\ UNCHANGED <<acall, aclaim, apods, apod, aseen, afiles, acustody, acommitted>>

RollBackReceipt ==
  /\ aphase = "unreceipt" /\ aphase' = "idle"
  /\ \/ PutReceipt(0, 0, FALSE) /\ Holds(0, 0)
     \/ UNCHANGED acustody
  /\ UNCHANGED <<acall, acluster, aseen, afiles, acommitted>>

-----------------------------------------------------------------------------
(* The stop.                                                                 *)

\* agent_sandbox_claim_exists: without a claim the stop is the ordinary one,
\* which KubernetesProvider models, and only the receipt is left to take.
StartStop ==
  /\ aphase = "idle" /\ acall > 0
  /\ aphase' = IF aclaim = "absent" THEN "take" ELSE "stopread"
  /\ UNCHANGED <<acall, acluster, aseen, afiles, acustody, acommitted>>

\* read_agent_custody_receipt: a receipt that cannot be read counts as none.
StopReads ==
  /\ aphase = "stopread" /\ aphase' = "stop"
  /\ Holds(areceipt, areceiptPod) \/ Holds(0, 0)
  /\ UNCHANGED <<acall, acluster, aseen, afiles, areceipt, areceiptPod, areleased, acommitted>>

\* A delete that fails fails the stop.
StopClaim ==
  /\ aphase = "stop"
  /\ \/ DeleteClaim /\ aphase' = "stoppolicy" /\ UNCHANGED <<aheld, aheldPod>>
     \/ aphase' = "idle" /\ Holds(0, 0) /\ UNCHANGED <<aclaim, apod, afiles>>
  /\ UNCHANGED <<acall, apods, aseen, apolicy, areceipt, areceiptPod, areleased, acommitted>>

StopPolicy ==
  /\ aphase = "stoppolicy"
  /\ \/ apolicy' = FALSE /\ aphase' = "stopreceipt" /\ UNCHANGED <<aheld, aheldPod>>
     \/ aphase' = "idle" /\ Holds(0, 0) /\ UNCHANGED apolicy
  /\ UNCHANGED <<acall, aclaim, apods, apod, aseen, afiles, areceipt, areceiptPod, areleased, acommitted>>

\* The receipt the stop read before the deletes, if any, is written back with its
\* release.
StopReceipt ==
  /\ aphase = "stopreceipt" /\ Holds(0, 0)
  /\ \/ aheld # 0 /\ PutReceipt(aheld, aheldPod, TRUE) /\ aphase' = "take"
     \/ aheld = 0 /\ UNCHANGED <<areceipt, areceiptPod, areleased>> /\ aphase' = "take"
     \/ aphase' = "idle" /\ UNCHANGED <<areceipt, areceiptPod, areleased>>
  /\ UNCHANGED <<acall, acluster, aseen, afiles, acommitted>>

\* take_custody_receipt hands the receipt to the completion and deletes it.
TakeReceipt ==
  /\ aphase = "take"
  /\ \/ PutReceipt(0, 0, FALSE) /\ Holds(0, 0) /\ aphase' = "over"
     \/ aphase' = "idle" /\ UNCHANGED acustody
  /\ UNCHANGED <<acall, acluster, aseen, afiles, acommitted>>

-----------------------------------------------------------------------------
(* Inside the Pod.                                                           *)

ProcTo(n, s) == aproc' = [aproc EXCEPT ![n] = s]

\* validate_shape, the bindings and the signature: a bundle is whole, meant for
\* this Pod, and good for five minutes, so a late process may refuse it.
BundleAnswers(n) == IF n = 0 THEN {FALSE} ELSE BOOLEAN

\* agent_sandbox_activate reads the bundle that is there now, and checks its
\* shape, its bindings and its signature.
ProcReads(n) ==
  /\ aproc[n] = "written"
  /\ \E valid \in BundleAnswers(abundle) :
       IF valid THEN ProcTo(n, "read") /\ aread' = [aread EXCEPT ![n] = abundle]
       ELSE ProcTo(n, "failed") /\ UNCHANGED aread
  /\ UNCHANGED <<abundle, astaged, anonces, amarker, alauncher, acommitted>>

\* The marker is staged under one name, which only one process can create.
ProcStages(n) ==
  /\ aproc[n] = "read"
  /\ IF astaged = 0 THEN ProcTo(n, "staged") /\ astaged' = aread[n]
     ELSE ProcTo(n, "failed") /\ UNCHANGED astaged
  /\ UNCHANGED <<aread, abundle, anonces, amarker, alauncher, acommitted>>

\* The nonce file is created, or the activation is a replay.
ProcUsesNonce(n) ==
  /\ aproc[n] = "staged"
  /\ IF aread[n] \notin anonces
     THEN ProcTo(n, "nonced") /\ anonces' = anonces \cup {aread[n]} /\ UNCHANGED astaged
     ELSE ProcTo(n, "failed") /\ astaged' = 0 /\ UNCHANGED anonces
  /\ UNCHANGED <<aread, abundle, amarker, alauncher, acommitted>>

\* The staged marker is renamed into place; if that fails, marker and nonce
\* are removed.
ProcCommits(n) ==
  /\ aproc[n] = "nonced" /\ astaged' = 0
  /\ \/ /\ ProcTo(n, "ok") /\ amarker' = astaged
        /\ acommitted' = acommitted \cup {<<apod, astaged>>} /\ UNCHANGED anonces
     \/ /\ ProcTo(n, "failed") /\ anonces' = anonces \ {aread[n]}
        /\ UNCHANGED <<amarker, acommitted>>
  /\ UNCHANGED <<aread, abundle, alauncher>>

\* The process is killed where it stands and cleans nothing up.
ProcDies(n) ==
  /\ aproc[n] \in {"written", "read", "staged", "nonced"} /\ ProcTo(n, "failed")
  /\ UNCHANGED <<aread, abundle, astaged, anonces, amarker, alauncher, acommitted>>

\* agent_sandbox_preclaim waits for the marker; the launcher it becomes
\* compares it with the bundle.
LauncherChecks ==
  /\ apod # 0 /\ alauncher = "preclaim" /\ amarker # 0
  /\ alauncher' = IF amarker = abundle THEN "ready" ELSE "failed"
  /\ UNCHANGED <<aproc, aread, abundle, astaged, anonces, amarker, acommitted>>

InPod ==
  /\ \/ \E n \in AgentNonces : \/ ProcReads(n) \/ ProcStages(n) \/ ProcUsesNonce(n)
                                \/ ProcCommits(n) \/ ProcDies(n)
     \/ LauncherChecks
  /\ UNCHANGED <<acall, aphase, acluster, aseen, acustody>>

-----------------------------------------------------------------------------
AgentNext ==
  \/ AgentCallDropped \/ StartProvision \/ ApplyClaim \/ BindPod \/ LosePod \/ SeePod
  \/ CheckWorkspace \/ LabelPod \/ ApplyPolicy \/ ExecActivate \/ ExecAnswered \/ WriteReceipt
  \/ RollBackClaim \/ RollBackPolicy \/ RollBackReceipt
  \/ StartStop \/ StopReads \/ StopClaim \/ StopPolicy \/ StopReceipt \/ TakeReceipt
  \/ InPod

AgentSpec == AgentInit /\ [][AgentNext]_avars

-----------------------------------------------------------------------------
(* Properties.                                                               *)

\* A custody receipt tells the truth: the Pod it names had committed exactly
\* the activation it names before it was written, however many processes of
\* earlier provisions were still at work in the Pod, each reading whatever
\* bundle lay there; and no marker stands without its nonce used up.
CustodyIsProven ==
  /\ areceipt # 0 => <<areceiptPod, areceipt>> \in acommitted
  /\ amarker # 0 => amarker \in anonces
=============================================================================
