-------------------------------- MODULE Tally --------------------------------
(***************************************************************************)
(* Sums of counters.  A function to the naturals counts f[x] units of each *)
(* x; its sum is the number of all of them.                                *)
(***************************************************************************)
EXTENDS Naturals, FiniteSets

Units(f) == UNION {{x} \X (1 .. f[x]) : x \in DOMAIN f}
SumOf(f) == Cardinality(Units(f))

=============================================================================
