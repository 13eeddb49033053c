----------------------------- MODULE MCRecords ------------------------------
(***************************************************************************)
(* The TLC instance of what the API records: jobs and their leases,        *)
(* idempotency keys, reads of instructions, observations, homes, lifetimes *)
(* and resources. They share no state here, so a behaviour runs one of     *)
(* them and leaves the others where they start: the states are the sum of  *)
(* the parts', not their product.                                          *)
(*                                                                         *)
(* The ids of every part are taken from Ids, which are interchangeable in  *)
(* all of them.                                                            *)
(***************************************************************************)
EXTENDS JobLease, RequestGate, InstructionRead, ObservationSink,
        HomeMounts, LifetimeReaper, RuntimeInventory, TLC

CONSTANTS
    id1, id2,   \* interchangeable ids
    other       \* the id of a request that differs

VARIABLE part

Ids == {id1, id2}

MCEligible == Workers \X Jobs
MCScopes == {Jobs}
MCPrintOf == [r \in GateRequests |-> IF r = other THEN "other" ELSE "same"]

\* Sums by units are sums, here on small functions against the fold of Functions.
Fun == INSTANCE Functions
ASSUME SumsAreFolds ==
    \A S \in SUBSET {"a", "b", "c"} : \A f \in [S -> 0..3] : SumOf(f) = Fun!FoldFunction(LAMBDA x, y : x + y, 0, f)

Symmetry == Permutations(Ids) \cup Permutations(Leases) \cup Permutations(Requests)
            \cup Permutations(Inventories)

RecordsInit ==
    /\ part \in {"jobs", "gate", "read", "sink", "homes", "reaper", "inventory"}
    /\ Init /\ GateInit /\ ReadInit /\ SinkInit /\ HomeInit /\ ReaperInit /\ InventoryInit
    /\ hserial \/ part = "homes"

RecordsNext ==
    /\ \/ part = "jobs" /\ Next /\ UNCHANGED <<ivars, xvars, zvars, hvars, vvars, uvars>>
       \/ part = "gate" /\ GateNext /\ UNCHANGED <<vars, xvars, zvars, hvars, vvars, uvars>>
       \/ part = "read" /\ ReadNext /\ UNCHANGED <<vars, ivars, zvars, hvars, vvars, uvars>>
       \/ part = "sink" /\ SinkNext /\ UNCHANGED <<vars, ivars, xvars, hvars, vvars, uvars>>
       \/ part = "homes" /\ HomeNext /\ UNCHANGED <<vars, ivars, xvars, zvars, vvars, uvars>>
       \/ part = "reaper" /\ ReaperNext /\ UNCHANGED <<vars, ivars, xvars, zvars, hvars, uvars>>
       \/ part = "inventory" /\ InventoryNext /\ UNCHANGED <<vars, ivars, xvars, zvars, hvars, vvars>>
    /\ UNCHANGED part

RecordsSpec == RecordsInit /\ [][RecordsNext]_<<part, vars, ivars, xvars, zvars, hvars, vvars, uvars>>

=============================================================================
