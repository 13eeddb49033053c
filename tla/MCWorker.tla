------------------------------ MODULE MCWorker ------------------------------
(***************************************************************************)
(* The TLC instance of the worker's loop, of the network policies it       *)
(* applies, of the Cloudflare command bridge, and of the output the API    *)
(* keeps of commands. They share no state here, so a behaviour runs one of *)
(* them and leaves the others where they start: the states are the sum of  *)
(* the parts', not their product.                                          *)
(*                                                                         *)
(* The ids of every part are taken from Ids or Names. There is a sidecar   *)
(* or a resolver, at the least address: the excluded blocks and the rules  *)
(* range over all blocks, and policies tell addresses apart by blocks.     *)
(***************************************************************************)
EXTENDS CommandBridge, WorkerLoop, CommandOutput, NetworkReach, TLC

CONSTANTS
    Ids, Names,   \* interchangeable ids
    command

VARIABLE part

MCCommandOf == [i \in Intents |-> command]

Symmetry == Permutations(Ids) \cup Permutations(Names)

WorkerSideInit ==
    /\ part \in {"bridge", "loop", "output", "network"}
    /\ Init /\ WorkerInit /\ OutputInit /\ ReachInit
    /\ nresolvers = IF nsidecar = {} THEN {Zeros(ReachBits)} ELSE {}
    /\ part # "network" => nexcluded = {} /\ nsidecar = {} /\ nbackend = "cilium" /\ negress.kind = "deny_all"

WorkerSideNext ==
    /\ \/ part = "bridge" /\ Next /\ UNCHANGED <<wvars, yvars, nvars>>
       \/ part = "loop" /\ WorkerNext /\ UNCHANGED <<vars, yvars, nvars>>
       \/ part = "output" /\ OutputNext /\ UNCHANGED <<vars, wvars, nvars>>
       \/ part = "network" /\ ReachNext /\ UNCHANGED <<vars, wvars, yvars>>
    /\ UNCHANGED part

WorkerSideSpec == WorkerSideInit /\ [][WorkerSideNext]_<<part, vars, wvars, yvars, nvars>>

=============================================================================
