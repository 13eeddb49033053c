---------------------------- MODULE LifetimeReaper ----------------------------
(***************************************************************************)
(* The sweep that stops sandboxes past their lifetime (reap.rs), and the   *)
(* activity it goes by (activity.rs).  Sandboxes are numbered in the order *)
(* of their creation.  Every time is kept as an age, which grows with Tick *)
(* up to a limit beyond which the rules do not tell ages apart.            *)
(*                                                                         *)
(* A sweep reads its candidates, decides with what it has read, and stops  *)
(* them one after another.                                                 *)
(***************************************************************************)
EXTENDS Integers, FiniteSets

CONSTANTS
    ReapCount,     \* the number of sandboxes
    ReapBatch,     \* REAP_CANDIDATE_BATCH_SIZE
    MaxLifetime,   \* max_lifetime_seconds of a sandbox that has one
    IdleTtl,       \* idle_ttl_seconds of a sandbox that has one
    BumpThrottle   \* ACTIVITY_BUMP_THROTTLE_SECONDS

ASSUME ReapAssumption ==
    /\ ReapCount \in Nat /\ ReapBatch \in Nat
    /\ MaxLifetime \in Nat /\ IdleTtl \in Nat /\ BumpThrottle \in Nat

VARIABLES
    vstate,    \* state of each sandbox, the states a stop is legal from as "live"
    vlimit,    \* which lifetime each sandbox was created with
    vage,      \* age of created_at
    vexact,    \* age of updated_at or of the newest command, whichever is younger
    vseen,     \* age of last_activity_at; Null while it is null
    vused,     \* age of the last use that reached the database
    vdue       \* the candidates the sweep is about to stop

vvars == <<vstate, vlimit, vage, vexact, vseen, vused, vdue>>

ReapBoxes == 1 .. ReapCount
AgeLimit == IF MaxLifetime > IdleTtl THEN MaxLifetime ELSE IdleTtl
Ages == 0 .. AgeLimit
Null == -1

ReaperTypeOK ==
    /\ vstate \in [ReapBoxes -> {"none", "live", "archiving"}]
    /\ vlimit \in [ReapBoxes -> {"none", "life", "idle", "both"}]
    /\ vage \in [ReapBoxes -> Ages]
    /\ vexact \in [ReapBoxes -> Ages]
    /\ vseen \in [ReapBoxes -> Ages \cup {Null}]
    /\ vused \in [ReapBoxes -> Ages]
    /\ vdue \subseteq ReapBoxes

ReaperInit ==
    /\ vstate = [b \in ReapBoxes |-> "none"]
    /\ vlimit = [b \in ReapBoxes |-> "none"]
    /\ vage = [b \in ReapBoxes |-> 0]
    /\ vexact = [b \in ReapBoxes |-> 0]
    /\ vseen = [b \in ReapBoxes |-> Null]
    /\ vused = [b \in ReapBoxes |-> 0]
    /\ vdue = {}

Live == {b \in ReapBoxes : vstate[b] = "live"}

-----------------------------------------------------------------------------
(* Time, and what uses a sandbox. *)

Older(age) == IF age \in 0 .. AgeLimit - 1 THEN age + 1 ELSE age

TickAges ==
    /\ vage' = [b \in ReapBoxes |-> IF b \in Live THEN Older(vage[b]) ELSE vage[b]]
    /\ vexact' = [b \in ReapBoxes |-> IF b \in Live THEN Older(vexact[b]) ELSE vexact[b]]
    /\ vseen' = [b \in ReapBoxes |-> IF b \in Live THEN Older(vseen[b]) ELSE vseen[b]]
    /\ vused' = [b \in ReapBoxes |-> IF b \in Live THEN Older(vused[b]) ELSE vused[b]]
    /\ UNCHANGED <<vstate, vlimit, vdue>>

CreateBox(b, limit) ==
    /\ vstate[b] = "none"
    /\ \A o \in 1 .. b - 1 : vstate[o] # "none"
    /\ vstate' = [vstate EXCEPT ![b] = "live"]
    /\ vlimit' = [vlimit EXCEPT ![b] = limit]
    /\ UNCHANGED <<vage, vexact, vseen, vused, vdue>>

(* A command is queued, or the lifecycle moves on among the live states. *)
RecordExactly(b) ==
    /\ b \in Live
    /\ vexact' = [vexact EXCEPT ![b] = 0]
    /\ vused' = [vused EXCEPT ![b] = 0]
    /\ UNCHANGED <<vstate, vlimit, vage, vseen, vdue>>

(* mutant: only the first use is recorded *)
BumpedOnce(b) == vseen[b] = Null

(* bump_sandbox_activity writes when the last write is old enough. *)
Bumped(b) == vseen[b] = Null \/ vseen[b] > BumpThrottle

(* SSH access, desktop access or the observation of a resident process.  A  *)
(* failure to write is logged, and is then no use the database knows of.    *)
BumpActivity(b) ==
    /\ b \in Live
    /\ vseen' = [vseen EXCEPT ![b] = IF Bumped(b) THEN 0 ELSE @]
    /\ vused' = [vused EXCEPT ![b] = 0]
    /\ UNCHANGED <<vstate, vlimit, vage, vexact, vdue>>

StopBox(b) ==
    /\ b \in Live
    /\ vstate' = [vstate EXCEPT ![b] = "archiving"]
    /\ UNCHANGED <<vlimit, vage, vexact, vseen, vused, vdue>>

-----------------------------------------------------------------------------
(* reap_expired_active_sandboxes *)

(* resolve_last_activity: the youngest of the recorded times. *)
LastActivity(b) ==
    IF vseen[b] # Null /\ vseen[b] < vexact[b] THEN vseen[b] ELSE vexact[b]

LifetimeExpired(b) == vlimit[b] \in {"life", "both"} /\ vage[b] >= MaxLifetime
IdleExpired(b) == vlimit[b] \in {"idle", "both"} /\ LastActivity(b) >= IdleTtl

(* expired_deadline *)
Due(b) == LifetimeExpired(b) \/ IdleExpired(b)

(* The query: live sandboxes that have a limit, the oldest ReapBatch.  It   *)
(* does not ask whether they are due.                                       *)
Candidates ==
    {b \in Live : /\ vlimit[b] # "none"
                  /\ Cardinality({o \in Live : o < b /\ vlimit[o] # "none"}) < ReapBatch}

SweepReads ==
    /\ vdue = {}
    /\ \E b \in Candidates : Due(b)
    /\ vdue' = {b \in Candidates : Due(b)}
    /\ UNCHANGED <<vstate, vlimit, vage, vexact, vseen, vused>>

(* The candidate the sweep is at: the oldest that is left. *)
NextDue == CHOOSE b \in vdue : \A o \in vdue : b <= o

(* attempt_reap_candidate: reaped, or skipped because it was stopped        *)
(* meanwhile.                                                               *)
ReapCandidate ==
    /\ vdue # {}
    /\ vstate' = IF NextDue \in Live THEN [vstate EXCEPT ![NextDue] = "archiving"] ELSE vstate
    /\ vdue' = vdue \ {NextDue}
    /\ UNCHANGED <<vlimit, vage, vexact, vseen, vused>>

(* The candidate's egress rules cannot be read and the sweep ends, or its   *)
(* stop fails and the sweep goes on.                                        *)
ReapFails ==
    /\ vdue # {}
    /\ vdue' \in {{}, vdue \ {NextDue}}
    /\ UNCHANGED <<vstate, vlimit, vage, vexact, vseen, vused>>

ReaperNext ==
    \/ TickAges
    \/ \E b \in ReapBoxes, limit \in {"none", "life", "idle", "both"} : CreateBox(b, limit)
    \/ \E b \in ReapBoxes : RecordExactly(b) \/ BumpActivity(b) \/ StopBox(b)
    \/ SweepReads
    \/ ReapCandidate
    \/ ReapFails

ReaperSpec == ReaperInit /\ [][ReaperNext]_vvars

-----------------------------------------------------------------------------
(* A sweep picks a sandbox for being idle only when its last use is older   *)
(* than its idle time less the throttle on recording uses: a sandbox that   *)
(* is used all the time is not reaped because most of its uses are not      *)
(* written.                                                                 *)
IdleMeansUnused ==
    [][\A b \in vdue' \ vdue :
          vlimit[b] = "idle" => vused[b] >= IdleTtl - BumpThrottle]_vvars

=============================================================================
