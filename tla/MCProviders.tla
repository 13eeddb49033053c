---------------------------- MODULE MCProviders -----------------------------
(***************************************************************************)
(* The TLC instance of the providers: Kubernetes, with what its sandboxes  *)
(* are built of and where their history starts, the Agent Sandbox mode and *)
(* the Cloudflare bridge.  They share no state here, so a behaviour runs   *)
(* one of them and leaves the others where they start: the states are the  *)
(* sum of the parts', not their product.                                   *)
(***************************************************************************)
EXTENDS KubernetesProvider, AgentSandbox, CloudflareProvider

VARIABLE part

Bare(from) == [persistent |-> FALSE, home |-> FALSE, gateway |-> FALSE, guest |-> FALSE,
               sterile |-> FALSE, cilium |-> FALSE, from |-> from]
Persistent(from) == [Bare(from) EXCEPT !.persistent = TRUE]
Gateway(from) == [Persistent(from) EXCEPT !.gateway = TRUE, !.guest = TRUE]
Sterile(from) == [Persistent(from) EXCEPT !.sterile = TRUE, !.guest = TRUE]
Home(from) == [Bare(from) EXCEPT !.home = TRUE, !.cilium = TRUE]

Core == {Home("provision"), Gateway("fork"), Persistent("archived"), Sterile("running")}

ProvidersInit ==
    /\ part \in {"kubernetes", "agent", "cloudflare"}
    /\ Init /\ AgentInit /\ CloudInit
    /\ part # "kubernetes" => spec = Sterile("running")
    /\ kledger = krecovers   \* the one is about commands, the other about stops
    /\ part # "cloudflare" => ~kledger /\ ~kpair

ProvidersNext ==
    /\ \/ part = "kubernetes" /\ Next /\ UNCHANGED <<avars, kvars>>
       \/ part = "agent" /\ AgentNext /\ UNCHANGED <<vars, kvars>>
       \/ part = "cloudflare" /\ CloudNext /\ UNCHANGED <<vars, avars>>
    /\ UNCHANGED part

ProvidersSpec == ProvidersInit /\ [][ProvidersNext]_<<part, vars, avars, kvars>>

=============================================================================
