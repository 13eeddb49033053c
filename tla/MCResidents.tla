---------------------------- MODULE MCResidents -----------------------------
(***************************************************************************)
(* The TLC instance of a resident process's bootstrap and of the proofs of *)
(* its placement. They share no state here, so a behaviour runs one of     *)
(* them and leaves the others where they start: the states are the sum of  *)
(* the parts', not their product.                                          *)
(*                                                                         *)
(* Replicas and leases are alike, and so are keys and workers, which take  *)
(* the same ids: leases are claimed in any order.                          *)
(***************************************************************************)
EXTENDS ResidentBootstrap, PlacementProof, TLC

VARIABLE part

Symmetry == Permutations(Replicas) \cup Permutations(Leases)

ResidentsInit ==
    /\ part \in {"bootstrap", "proof"}
    /\ ResidentInit /\ ProofInit

ResidentsNext ==
    /\ \/ part = "bootstrap" /\ ResidentNext /\ UNCHANGED <<pvars>>
       \/ part = "proof" /\ ProofNext /\ UNCHANGED <<residentVars>>
    /\ UNCHANGED part

ResidentsSpec == ResidentsInit /\ [][ResidentsNext]_<<part, residentVars, pvars>>

=============================================================================
