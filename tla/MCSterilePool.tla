--------------------------- MODULE MCSterilePool ---------------------------
(* Instances of SterilePool for TLC. *)
EXTENDS SterilePool, TLC

CONSTANTS k1, k2, c2

MCFenced == Claims \cap {k1}

(* Cells are interchangeable. *)
CellSymmetry == Permutations(Cells)

(* The bound of the liveness run.  While one cell is in use, everything may *)
(* happen to it.  Once c2 is in use beside it, both are members of the pool *)
(* that do not reach their age, and tenants take and release the other one. *)
PairBound ==
    sandbox'[c2] # "none" \/ cell'[c2] # "none" =>
      /\ \A c \in Cells : ~expired'[c] /\ (cell'[c] # "none" => member'[c] # "none")
      /\ cellLease'[c2] = NoClaim
      /\ \A r \in releasing' : r.cell # c2

LiveSpec == Init /\ [][Next /\ PairBound]_vars /\ Fairness
=============================================================================
