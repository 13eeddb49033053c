-------------------------- MODULE PlacementRefresh --------------------------
(***************************************************************************)
(* What a poll does to a queued job before it may claim it: the placement  *)
(* in the payload is replaced by the control plane's own, read once per    *)
(* poll, and the job is then matched with the worker's provider.  One      *)
(* sandbox, its provision and then its stop.                               *)
(***************************************************************************)
EXTENDS Naturals

CONSTANTS RefreshWorkers,   \* workers that poll
          RefreshTries      \* max_attempts

Preferences == {"any", "kubernetes", "cloudflare"}
NoEntry == "none"
\* The placement fields of a payload: provider_preference, provider_external_id,
\* provider_routing_scope, sterile_pool_candidate.
Spec0 == [preference |-> "any", external |-> FALSE, scope |-> FALSE, candidate |-> FALSE]

VARIABLES
  fasked,      \* the tenant's request: preference, and a routing scope
  fjob, fkind, ftries, fspec,   \* the sandbox's job and its payload's spec
  fplaced,     \* sandbox_placements.provider
  frow,        \* a cloudflare runtime resource row is recorded
  fprovider,   \* the provider of each worker
  fentry,      \* the placement each poll has cached
  fholder      \* the worker that leases the job

fvars == <<fasked, fjob, fkind, ftries, fspec, fplaced, frow, fprovider, fentry, fholder>>

RefreshInit ==
  /\ fasked = Spec0 /\ fjob = "none" /\ fkind = "provision" /\ ftries = 0 /\ fspec = Spec0
  /\ fplaced = NoEntry /\ frow = FALSE
  /\ fprovider \in [RefreshWorkers -> {"kubernetes", "cloudflare"}]
  /\ fentry = [w \in RefreshWorkers |-> NoEntry] /\ fholder = NoEntry

\* create_sandbox_inner: a Cloudflare sandbox needs the scope, which the request
\* carries; an ordinary one has none.
CreateSandboxJob(preference) ==
  /\ fjob = "none"
  /\ fasked' = [Spec0 EXCEPT !.preference = preference, !.scope = preference = "cloudflare"]
  /\ fspec' = fasked' /\ fjob' = "queued"
  /\ UNCHANGED <<fkind, ftries, fplaced, frow, fprovider, fentry, fholder>>

\* load_sandbox_placement_inputs: the identity of the recorded row, if any.
LoadPlacement(w) ==
  /\ fjob = "queued" /\ fentry[w] = NoEntry
  /\ fentry' = [fentry EXCEPT ![w] = IF frow THEN "recorded" ELSE IF fplaced # NoEntry THEN "placed" ELSE "unplaced"]
  /\ UNCHANGED <<fasked, fjob, fkind, ftries, fspec, fplaced, frow, fprovider, fholder>>

\* The spec add_provision_spec_to_payload_with_identity writes; before placement
\* the preference asked for stays.
Authoritative(w) ==
  [preference |-> IF fentry[w] = "unplaced" THEN fspec.preference ELSE fplaced,
   external |-> fentry[w] = "recorded", scope |-> fentry[w] = "recorded", candidate |-> FALSE]

\* apply_sandbox_placement, written while the job is queued; then the provider is
\* matched, and the matching worker claims and is placed.
WorkerMatches(w, preference) ==
  IF preference = "any" THEN fprovider[w] = "kubernetes" ELSE fprovider[w] = preference

RefreshAndClaim(w) ==
  /\ fjob = "queued" /\ fentry[w] # NoEntry /\ fentry' = [fentry EXCEPT ![w] = NoEntry]
  /\ fspec' = Authoritative(w)
  /\ IF WorkerMatches(w, fspec'.preference)
     THEN /\ fjob' = "leased" /\ fholder' = w /\ ftries' = ftries + 1
          /\ fplaced' = IF fkind = "provision" THEN fprovider[w] ELSE fplaced
     ELSE UNCHANGED <<fjob, fholder, ftries, fplaced>>
  /\ UNCHANGED <<fasked, fkind, frow, fprovider>>

\* provision_with_home: without the scope a terminal contract failure.
FinishProvision ==
  /\ fjob = "leased" /\ fkind = "provision" /\ fholder' = NoEntry
  /\ \/ /\ fprovider[fholder] = "cloudflare" => fspec.scope
        /\ fjob' = "completed" /\ frow' = (fprovider[fholder] = "cloudflare")
     \/ fjob' = "failed" /\ UNCHANGED frow
     \/ fjob' = (IF ftries < RefreshTries THEN "queued" ELSE "failed") /\ UNCHANGED frow
  /\ UNCHANGED <<fasked, fkind, ftries, fspec, fplaced, fprovider, fentry>>

\* A stop of the sandbox, with a payload that names no placement.
QueueStop ==
  /\ fjob \in {"completed", "failed"} /\ fkind = "provision"
  /\ fkind' = "stop" /\ fjob' = "queued" /\ ftries' = 0 /\ fspec' = Spec0
  /\ UNCHANGED <<fasked, fplaced, frow, fprovider, fentry, fholder>>

FinishStop ==
  /\ fjob = "leased" /\ fkind = "stop" /\ fjob' = "completed" /\ fholder' = NoEntry
  /\ UNCHANGED <<fasked, fkind, ftries, fspec, fplaced, frow, fprovider, fentry>>

RefreshNext ==
  \/ \E p \in Preferences : CreateSandboxJob(p)
  \/ \E w \in RefreshWorkers : LoadPlacement(w) \/ RefreshAndClaim(w)
  \/ FinishProvision \/ QueueStop \/ FinishStop
RefreshSpec == RefreshInit /\ [][RefreshNext]_fvars

-----------------------------------------------------------------------------
(* Properties. *)

\* A provision a worker holds carries the routing scope its tenant gave, which the
\* provider needs (test authenticated_cloudflare_create_preserves_provider_routing_scope_...).
ScopeReachesProvider ==
  fjob = "leased" /\ fkind = "provision" => fspec.scope = fasked.scope
=============================================================================
