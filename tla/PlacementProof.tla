---------------------------- MODULE PlacementProof ----------------------------
(***************************************************************************)
(* What the API tells others about the placement of a provider-isolated    *)
(* resident process: the one-time placement proof of the sidecar (issued,  *)
(* redeemed, validated) and the binding and activation proofs of the       *)
(* hosted Maestro runner.                                                  *)
(*                                                                         *)
(* One row stands for either process; its generations, leases, stops and   *)
(* observations are those of ResidentBootstrap, cut down to the columns    *)
(* the proofs read.  Every statement outside a transaction is a step of    *)
(* its own, so the row, the lease, the placement and the proof's record    *)
(* may all change between the checks of one request.  One request is       *)
(* followed; what others do to the state it reads is the one update that   *)
(* redeems a proof.                                                        *)
(***************************************************************************)
EXTENDS Naturals

CONSTANTS
  ProofLeases,       \* bound: leases of the process, granted in order
  ProofGenerations,  \* bound: generations of the process
  ProofPlacements,   \* bound: generations of the sandbox's placement
  ProofWorkers,      \* workers of the placement's cluster
  ProofKeys,         \* idempotency keys of redemptions
  Activations,       \* activation ids
  NoKey, NoWorker

ASSUME ProofAssumption ==
  /\ ProofLeases \in Nat \ {0} /\ ProofGenerations \in Nat \ {0} /\ ProofPlacements \in Nat \ {0}
  /\ NoKey \notin ProofKeys /\ NoWorker \notin ProofWorkers

VARIABLES
  \* resident_processes: generation, desired and observed state (failed, stopped
  \* and lost are one), active lease
  \* (0 if none), Pod uid (0 if none), and the placement generation in its env
  pgen, pdesired, pobserved, plive, ppod, penv,
  \* sandbox_placements: generation and worker
  pplace, pworker,
  pjob,               \* the job of the generation
  \* job_leases, by lease: status, generation in the job, worker
  please, plgen, plworker,
  \* resident_placement_attestations, by lease: whether it exists, Pod uid,
  \* placement generation, redeeming key
  rissued, rpod, rplace, rkey,
  \* an issue between its fence and its insert, and an observation under way
  pissue, pobs,
  \* the request: its phase, the lease and Pod it is about, its key, and the key
  \* and the placement generation it has read
  qphase, qlease, qpod, qkey, qseen, qplace,
  \* maestro_activation_validations: the tuple each activation id proves
  pledger

prow == <<pgen, pdesired, pobserved, plive, ppod, penv>>
pplacement == <<pplace, pworker>>
pleases == <<pjob, please, plgen, plworker>>
precord == <<rissued, rpod, rplace, rkey>>
prequests == <<qphase, qlease, qpod, qkey, qseen, qplace>>
pvars == <<prow, pplacement, pleases, precord, pissue, pobs, prequests, pledger>>

PLeaseIds == 1..ProofLeases
\* The Pod, named by generation and lease; another uid under the same lease
\* would be refused by NamesPod.
PodOf(l) == l
PodUids == PLeaseIds
NoTuple == 0
NoIssue == [lease |-> 0, place |-> 0, pod |-> 0]
NoObservation == [phase |-> "none", lease |-> 0]
Phases == {"idle", "fence", "row", "cas", "raced", "fence2", "row2", "bound", "granted"}

ProofTypeOK ==
  /\ pgen \in 0..ProofGenerations /\ pdesired \in {"running", "stopped"}
  /\ pobserved \in {"pending", "starting", "running", "over"}
  /\ plive \in 0..ProofLeases /\ ppod \in PodUids \cup {0} /\ penv \in 1..ProofPlacements
  /\ pplace \in 1..ProofPlacements /\ pworker \in ProofWorkers
  /\ pjob \in {"none", "queued", "leased", "over"}
  /\ please \in [PLeaseIds -> {"free", "active", "lapsed", "ended"}]
  /\ plgen \in [PLeaseIds -> 0..ProofGenerations]
  /\ plworker \in [PLeaseIds -> ProofWorkers \cup {NoWorker}]
  /\ rissued \in [PLeaseIds -> BOOLEAN]
  /\ rpod \in [PLeaseIds -> PodUids \cup {0}] /\ rplace \in [PLeaseIds -> 0..ProofPlacements]
  /\ rkey \in [PLeaseIds -> ProofKeys \cup {NoKey}]
  /\ pissue \in [lease : 0..ProofLeases, place : 0..ProofPlacements, pod : PodUids \cup {0}]
  /\ pobs \in [phase : {"none", "record", "state"}, lease : 0..ProofLeases]
  /\ qphase \in Phases /\ qlease \in 0..ProofLeases
  /\ qpod \in PodUids \cup {0}
  /\ qkey \in ProofKeys \cup {NoKey}
  /\ qseen \in ProofKeys \cup {NoKey}
  /\ qplace \in 0..ProofPlacements
  /\ pledger \in [Activations -> 0..ProofLeases]

ProofInit ==
  /\ pgen = 0 /\ pdesired = "running" /\ pobserved = "pending" /\ plive = 0 /\ ppod = 0 /\ penv = 1
  /\ pplace = 1 /\ pworker \in ProofWorkers /\ pjob = "none"
  /\ please = [l \in PLeaseIds |-> "free"] /\ plgen = [l \in PLeaseIds |-> 0]
  /\ plworker = [l \in PLeaseIds |-> NoWorker]
  /\ rissued = [l \in PLeaseIds |-> FALSE]
  /\ rpod = [l \in PLeaseIds |-> 0] /\ rplace = [l \in PLeaseIds |-> 0]
  /\ rkey = [l \in PLeaseIds |-> NoKey]
  /\ pissue = NoIssue /\ pobs = NoObservation
  /\ qphase = "idle" /\ qlease = 0
  /\ qpod = 0 /\ qplace = 0
  /\ qkey = NoKey /\ qseen = NoKey
  /\ pledger = [a \in Activations |-> NoTuple]

-----------------------------------------------------------------------------
(* What changes the row, the lease and the placement.                        *)

\* A put, or the replacement of a terminal process that holds no lease.  Its
\* env names the placement of the moment.
PutProcess ==
  /\ pgen < ProofGenerations
  /\ pgen > 0 => plive = 0 /\ pobserved = "over"
  /\ pgen' = pgen + 1 /\ penv' = pplace
  /\ pdesired' = "running" /\ pobserved' = "pending" /\ plive' = 0 /\ ppod' = 0
  /\ pjob' = "queued"
  /\ UNCHANGED <<pplacement, please, plgen, plworker, precord, pissue, pobs, prequests, pledger>>

\* Any worker of the placement's cluster may claim; the claim clears the Pod.
ClaimProcess(l, w) ==
  /\ pjob = "queued" /\ pdesired = "running"
  /\ please[l] = "free" /\ \A k \in PLeaseIds : k < l => please[k] # "free"
  /\ please' = [please EXCEPT ![l] = "active"] /\ plgen' = [plgen EXCEPT ![l] = pgen]
  /\ plworker' = [plworker EXCEPT ![l] = w]
  /\ pjob' = "leased" /\ plive' = l /\ pobserved' = "starting" /\ ppod' = 0
  /\ UNCHANGED <<pgen, pdesired, penv, pplacement, precord, pissue, pobs, prequests, pledger>>

\* A lease runs past its expiry; the sweep comes later.
LapseProcess(l) ==
  /\ please[l] = "active"
  /\ please' = [please EXCEPT ![l] = "lapsed"]
  /\ UNCHANGED <<prow, pplacement, pjob, plgen, plworker, precord, pissue, pobs, prequests, pledger>>

\* A completion, a failure or the sweep.  A requeued process keeps its row, a
\* failed one whose stop was observed keeps its lease.
EndProcess(l, how) ==
  /\ \/ please[l] = "active"
     \/ please[l] = "lapsed" /\ (pdesired = "stopped" <=> how = "stopped")
  /\ please' = [please EXCEPT ![l] = "ended"]
  /\ IF how = "requeue" THEN pjob' = "queued" /\ UNCHANGED <<pobserved, plive>>
     ELSE /\ pjob' = "over" /\ pobserved' = "over"
          /\ plive' = 0 \/ (how = "failed" /\ pobserved = "over" /\ plive' = plive)
  /\ UNCHANGED <<pgen, pdesired, ppod, penv, pplacement, plgen, plworker, precord, pissue,
                 pobs, prequests, pledger>>

StopProcess ==
  /\ pgen > 0 /\ pdesired = "running"
  /\ pdesired' = "stopped"
  /\ IF pjob = "queued" THEN pjob' = "over" /\ pobserved' = "over" ELSE UNCHANGED <<pjob, pobserved>>
  /\ UNCHANGED <<pgen, plive, ppod, penv, pplacement, please, plgen, plworker, precord, pissue,
                 pobs, prequests, pledger>>

\* Another provision or fork of the sandbox is claimed.
MovePlacement(w) ==
  /\ pplace < ProofPlacements
  /\ pplace' = pplace + 1 /\ pworker' = w
  /\ UNCHANGED <<prow, pleases, precord, pissue, pobs, prequests, pledger>>

\* The first update of record_provider_pod_identity: it fills an unset Pod.
NamesPod(l, u) == plive = l /\ plgen[l] = pgen /\ ppod \in {0, u}

\* observe_resident_process of a starting or running Pod: the row's Pod, ...
ObservePod(l) ==
  /\ pobs = NoObservation
  /\ please[l] = "active" /\ NamesPod(l, PodOf(l))
  /\ ppod' = PodOf(l)
  /\ pobs' = [phase |-> "record", lease |-> l]
  /\ UNCHANGED <<pgen, pdesired, pobserved, plive, penv, pplacement, pleases, precord, pissue, prequests, pledger>>

\* ... the Pod of the proof's record, ...
ObserveRecord ==
  LET l == pobs.lease IN
  /\ pobs.phase = "record"
  /\ rpod' = IF rissued[l] /\ rpod[l] \in {0, PodOf(l)} THEN [rpod EXCEPT ![l] = PodOf(l)] ELSE rpod
  /\ pobs' = [phase |-> "state", lease |-> l]
  /\ UNCHANGED <<prow, pplacement, pleases, rissued, rplace, rkey, pissue, prequests, pledger>>

\* ... and the state, if the row still has the generation and the lease.
ObserveState(s) ==
  /\ pobs.phase = "state"
  /\ pobserved' = IF plive = pobs.lease /\ pgen = plgen[pobs.lease] THEN s ELSE pobserved
  /\ pobs' = NoObservation
  /\ UNCHANGED <<pgen, pdesired, plive, ppod, penv, pplacement, pleases, precord, pissue, prequests, pledger>>

\* A report that the process is over names no Pod.
ObserveOver(l) ==
  /\ please[l] = "active" /\ plive = l /\ plgen[l] = pgen
  /\ pobserved' = "over"
  /\ UNCHANGED <<pgen, pdesired, plive, ppod, penv, pplacement, pleases, precord, pissue, pobs, prequests, pledger>>

-----------------------------------------------------------------------------
(* Issuing, with the one read of the bootstrap.                              *)

\* placement_fence_on, one select over process, lease, job, placement, worker.
PlacementFence(l) ==
  /\ plive = l /\ pgen = plgen[l]
  /\ please[l] = "active"
  /\ plworker[l] = pworker

\* A lease that has its record keeps it: the insert would do nothing.
IssueFence(l) ==
  /\ pissue = NoIssue /\ ~rissued[l]
  /\ PlacementFence(l)
  /\ pissue' = [lease |-> l, place |-> pplace, pod |-> ppod]
  /\ UNCHANGED <<prow, pplacement, pleases, precord, pobs, prequests, pledger>>

\* The record gets the fence as it was read, and the token is derived from it.
IssueInsert ==
  LET l == pissue.lease IN
  /\ pissue # NoIssue
  /\ rissued' = [rissued EXCEPT ![l] = TRUE]
  /\ rpod' = [rpod EXCEPT ![l] = pissue.pod]
  /\ rplace' = [rplace EXCEPT ![l] = pissue.place]
  /\ pissue' = NoIssue
  /\ UNCHANGED <<prow, pplacement, pleases, rkey, pobs, prequests, pledger>>

-----------------------------------------------------------------------------
(* Redeeming and validating.                                                 *)

QTo(to) == qphase' = to

\* A request returns, and forgets what it read.
Forget ==
  /\ QTo("idle")
  /\ qlease' = 0 /\ qpod' = 0
  /\ qkey' = NoKey /\ qseen' = NoKey
  /\ qplace' = 0

Begin(to, l, k, seen) ==
  /\ qphase = "idle" /\ QTo(to)
  /\ qlease' = l /\ qpod' = rpod[l]
  /\ qkey' = k /\ qseen' = seen
  /\ UNCHANGED <<qplace, prow, pplacement, pleases, precord, pissue, pobs, pledger>>

\* The record of the presented token.  It expires 300 seconds after it was issued
\* or with the lease of that moment: whether it has is left open.
RedeemFetch(l, k) == rissued[l] /\ Begin("fence", l, k, rkey[l])

\* A record that was redeemed, by its id, whatever its age.
ValidateFetch(l) == rkey[l] # NoKey /\ Begin("fence2", l, NoKey, NoKey)

qread == <<qlease, qpod, qkey, qseen, qplace>>
qrest == <<prow, pplacement, pleases, precord, pissue, pobs, pledger>>

\* live_claims: the fence stands and is the one of the record.
ClaimsFence ==
  LET l == qlease IN
  /\ qphase \in {"fence", "fence2"}
  /\ IF PlacementFence(l) /\ pplace = rplace[l]
     THEN QTo(IF qphase = "fence" THEN "row" ELSE "row2") /\ UNCHANGED qread
     ELSE Forget
  /\ UNCHANGED qrest

\* Mutant: the running state alone.
RowRunsAnyPod == pdesired = "running" /\ pobserved = "running"

\* live_claims: the row runs in the Pod of the record as it was read.  The
\* select names neither generation nor lease.
RowRuns ==
  /\ ppod # 0 /\ ppod = qpod
  /\ pdesired = "running" /\ pobserved = "running"

ClaimsRow ==
  /\ qphase \in {"row", "row2"}
  /\ IF ~RowRuns THEN Forget
     ELSE IF qphase = "row" /\ qseen \notin {NoKey, qkey} THEN Forget
     ELSE /\ QTo(IF qphase = "row2" THEN "granted" ELSE IF qseen = NoKey THEN "cas" ELSE "fence2")
          /\ UNCHANGED qread
  /\ UNCHANGED qrest

\* Mutant: the update does not ask whether the proof is unused.
RedeemsAgain(l) ==
  /\ PlacementFence(l) /\ pplace = rplace[l]
  /\ pdesired = "running" /\ pobserved = "running" /\ ppod # 0 /\ ppod = rpod[l]

\* The condition of the redeeming update.
Redeems(l) ==
  /\ rkey[l] = NoKey
  /\ PlacementFence(l) /\ pplace = rplace[l]
  /\ pdesired = "running" /\ pobserved = "running" /\ ppod # 0 /\ ppod = rpod[l]

\* It matches nothing when the condition fails or the proof has expired.
RedeemUpdate ==
  LET l == qlease IN
  /\ qphase = "cas"
  /\ \/ Redeems(l) /\ rkey' = [rkey EXCEPT ![l] = qkey] /\ QTo("fence2")
     \/ UNCHANGED rkey /\ QTo("raced")
  /\ UNCHANGED <<qread, prow, pplacement, pleases, rissued, rpod, rplace, pissue, pobs, pledger>>

\* The update of another request.
RedeemElsewhere(l, k) ==
  /\ Redeems(l)
  /\ rkey' = [rkey EXCEPT ![l] = k]
  /\ UNCHANGED <<prow, pplacement, pleases, rissued, rpod, rplace, pissue, pobs, prequests, pledger>>

\* The update matched nothing: perhaps the same request had redeemed already.
RedeemRaced ==
  /\ qphase = "raced"
  /\ IF rkey[qlease] = qkey THEN QTo("fence2") /\ UNCHANGED qread ELSE Forget
  /\ UNCHANGED qrest

ProofAnswered == qphase = "granted" /\ Forget /\ UNCHANGED qrest

-----------------------------------------------------------------------------
(* The hosted runner: its identity, its connection binding, its activation.  *)

\* The row as the binding asks for it; the binding of its env names a placement.
RowBinds == pdesired = "running" /\ pobserved \in {"starting", "running"} /\ plive # 0 /\ ppod # 0

\* validate_maestro_workload_identity and get_maestro_connection_binding read
\* the row, ...
BindingRow ==
  /\ qphase = "idle"
  /\ RowBinds
  /\ QTo("bound")
  /\ qlease' = plive /\ qpod' = ppod
  /\ qplace' = penv
  /\ UNCHANGED <<qkey, qseen, qrest>>

\* ... and then the fence, which must be of the same Pod and placement.
BindingFence ==
  /\ qphase = "bound"
  /\ IF PlacementFence(qlease) /\ pplace = qplace /\ ppod = qpod
     THEN QTo("granted") /\ UNCHANGED qread
     ELSE Forget
  /\ UNCHANGED qrest

\* The tuple an activation proves, by its lease.  Its digest covers the
\* placement and the lease's expiry too, so that an id is refused after a renewal;
\* a refusal changes nothing, and the model refuses less.
LiveTuple == plive

\* A known activation id proves only the tuple it was first used for.
Proves(a) == pledger[a] \in {NoTuple, LiveTuple}

\* validate_maestro_activation(_identity): one transaction that locks the row,
\* the placement, the lease and the worker before it reads them.
Activate(a) ==
  /\ RowBinds
  /\ PlacementFence(plive) /\ pplace = penv
  /\ Proves(a)
  /\ pledger' = [pledger EXCEPT ![a] = LiveTuple]
  /\ UNCHANGED <<prow, pplacement, pleases, precord, pissue, pobs, prequests>>

-----------------------------------------------------------------------------
ProofNext ==
  \/ PutProcess
  \/ \E l \in PLeaseIds, w \in ProofWorkers : ClaimProcess(l, w)
  \/ \E l \in PLeaseIds : LapseProcess(l) \/ IssueFence(l)
  \/ \E l \in PLeaseIds, how \in {"requeue", "stopped", "failed"} : EndProcess(l, how)
  \/ StopProcess
  \/ \E w \in ProofWorkers : MovePlacement(w)
  \/ \E l \in PLeaseIds : ObservePod(l) \/ ObserveOver(l)
  \/ ObserveRecord
  \/ \E s \in {"starting", "running"} : ObserveState(s)
  \/ IssueInsert
  \/ \E l \in PLeaseIds, k \in ProofKeys : RedeemFetch(l, k) \/ RedeemElsewhere(l, k)
  \/ \E l \in PLeaseIds : ValidateFetch(l)
  \/ ClaimsFence \/ ClaimsRow \/ RedeemUpdate \/ RedeemRaced
  \/ BindingRow \/ BindingFence \/ ProofAnswered
  \/ \E a \in Activations : Activate(a)

ProofSpec == ProofInit /\ [][ProofNext]_pvars

-----------------------------------------------------------------------------
(* Properties. *)

\* A placement is vouched for only while it is there: at the last check of a
\* granted redemption, validation or binding the row still has the lease and the
\* Pod the answer names, although the checks are separate statements and the last
\* one of live_claims names no lease (resident_attestations.rs:1152).
VouchesForTheLiving ==
  qphase # "granted" /\ qphase' = "granted" =>
    /\ plive = qlease /\ plgen[qlease] = pgen
    /\ ppod = qpod /\ qpod # 0
ProofIsLive == [][VouchesForTheLiving]_pvars

\* Used once: whoever is granted a redemption holds the key the record was
\* redeemed under, and neither that key nor the tuple of an activation id is ever
\* replaced.
UsedUnderOneKey ==
  /\ qphase' = "granted" /\ qkey' # NoKey => rkey'[qlease'] = qkey'
  /\ \A l \in PLeaseIds : rkey[l] # NoKey => rkey'[l] = rkey[l]
  /\ \A a \in Activations : pledger[a] # NoTuple => pledger'[a] = pledger[a]
ProofUsedOnce == [][UsedUnderOneKey]_pvars
=============================================================================
