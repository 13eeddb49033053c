--------------------------- MODULE MCSandboxAgent ---------------------------
(***************************************************************************)
(* The TLC instance of a sandbox's life, as the control plane sees it, and *)
(* of the agent that runs inside a sandbox.  They share no state here, so  *)
(* a behaviour runs one of them and leaves the other where it starts: the  *)
(* states are the sum of the parts', not their product.                    *)
(***************************************************************************)
EXTENDS MCSandboxLifecycle, GuestAgent

VARIABLE part

SandboxAgentInit ==
    /\ part \in {"sandbox", "agent"}
    /\ Init /\ GuestInit
    /\ part # "agent" => gmode = "gated"

SandboxAgentNext ==
    /\ \/ part = "sandbox" /\ Next /\ UNCHANGED gvars
       \/ part = "agent" /\ GuestNext /\ UNCHANGED vars
    /\ UNCHANGED part

SandboxAgentSpec == SandboxAgentInit /\ [][SandboxAgentNext]_<<part, vars, gvars>>

=============================================================================
