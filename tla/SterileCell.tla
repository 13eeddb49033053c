----------------------------- MODULE SterileCell -----------------------------
(***************************************************************************)
(* What a sterile cell promises, whoever manages it: a cell is admitted    *)
(* clean, is given to one holder at most, and is then spent for good.  A   *)
(* spent cell is either destroyed, which says that its provider confirmed  *)
(* the teardown, or quarantined, which may never become destroyed.         *)
(***************************************************************************)
CONSTANTS Cells, Holders, NoHolder

VARIABLES phase, holder

vars == <<phase, holder>>

Phase == {"none", "ready", "leased", "destroyed", "quarantined"}

Init ==
  /\ phase = [c \in Cells |-> "none"]
  /\ holder = [c \in Cells |-> NoHolder]

\* A cell that was never used becomes available.
Admit(c) ==
  /\ phase[c] = "none"
  /\ phase' = [phase EXCEPT ![c] = "ready"]
  /\ UNCHANGED holder

\* A clean cell is given to a holder that has no other cell.
Lease(c, k) ==
  /\ phase[c] = "ready"
  /\ \A d \in Cells : holder[d] # k
  /\ phase' = [phase EXCEPT ![c] = "leased"]
  /\ holder' = [holder EXCEPT ![c] = k]

\* Cells are taken out of use together; only a leased one may be destroyed.
Spend(dead, suspect) ==
  /\ \A c \in dead : phase[c] = "leased"
  /\ \A c \in suspect : phase[c] \in {"ready", "leased"}
  /\ phase' = [c \in Cells |-> IF c \in dead THEN "destroyed"
                               ELSE IF c \in suspect THEN "quarantined"
                               ELSE phase[c]]
  /\ UNCHANGED holder

Next ==
  \/ \E c \in Cells : Admit(c)
  \/ \E c \in Cells, k \in Holders : Lease(c, k)
  \/ \E dead, suspect \in SUBSET Cells : Spend(dead, suspect)

Spec == Init /\ [][Next]_vars
=============================================================================
