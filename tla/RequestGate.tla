----------------------------- MODULE RequestGate -----------------------------
(***************************************************************************)
(* The two middlewares around a tenant's mutating route: enforce_          *)
(* idempotency, with its record of one Idempotency-Key, and, inside it,    *)
(* enforce_tenant_limits with its two counters.                            *)
(*                                                                         *)
(* Requests of one tenant arrive under one key, with the same or another   *)
(* fingerprint.  The client may go away at any moment, which drops the     *)
(* handler where it stands.  Time shows only in what it allows: a window   *)
(* may end, and a record may age out at any moment, also while its handler *)
(* still runs, for nothing cancels a handler after the five minutes.       *)
(***************************************************************************)
EXTENDS Naturals, FiniteSets

CONSTANTS
  GateRequests,    \* bound: requests under the key
  PrintOf,         \* fingerprint_request of each
  QuotaMax,        \* bound: limits a policy sets
  NoRequest, NoPrint

ASSUME GateAssumption == NoRequest \notin GateRequests /\ QuotaMax \in Nat \ {0}

VARIABLES
  istate, iprint, istored,  \* the record: state, fingerprint, whose response
  iphase,                   \* each request
  ianswer,                  \* its answer: whose response, if it carries one
  iowner, ilost,            \* history: whose claim the record is; how each request lost its own while it ran
  iran,                     \* requests whose handler committed its mutation
  ireleased,                \* how often the record was given up
  ipolicy, iused            \* request_limit = mutation_limit (0: no policy), counters

ivars == <<istate, iprint, istored, iphase, ianswer, iowner, ilost, iran, ireleased, ipolicy, iused>>
irecord == <<istate, iprint, istored, iowner>>
ilimits == <<ipolicy, iused>>

Kinds == {"request", "mutation"}

GateTypeOK ==
  /\ istate \in {"none", "processing", "completed"}
  /\ iprint \in {PrintOf[r] : r \in GateRequests} \cup {NoPrint}
  /\ istored \in GateRequests \cup {NoRequest}
  /\ iphase \in [GateRequests -> {"new", "limit", "quota", "handler", "answered", "secret", "throttled",
                                  "unsaved", "waiting", "done"}]
  /\ ianswer \in [GateRequests -> GateRequests \cup {NoRequest}]
  /\ iowner \in GateRequests \cup {NoRequest} /\ ilost \in [GateRequests -> {"no", "swept", "taken"}]
  /\ iran \subseteq GateRequests /\ ireleased \in 0..Cardinality(GateRequests)
  /\ ipolicy \in 0..QuotaMax /\ iused \in [Kinds -> 0..QuotaMax]

GateInit ==
  /\ istate = "none" /\ iprint = NoPrint /\ istored = NoRequest
  /\ iphase = [r \in GateRequests |-> "new"] /\ ianswer = [r \in GateRequests |-> NoRequest]
  /\ iowner = NoRequest /\ ilost = [r \in GateRequests |-> "no"]
  /\ iran = {} /\ ireleased = 0
  /\ ipolicy = 0 /\ iused = [k \in Kinds |-> 0]

IStep(r, from, to) == iphase[r] = from /\ iphase' = [iphase EXCEPT ![r] = to]

\* The insert that claims the key, or the wait for whoever holds it.
ClaimKey(r) ==
  /\ \/ /\ istate = "none" /\ IStep(r, "new", "limit")
        /\ istate' = "processing" /\ iprint' = PrintOf[r] /\ istored' = NoRequest /\ iowner' = r
     \/ /\ istate # "none" /\ IStep(r, "new", "waiting")
        /\ UNCHANGED irecord
  /\ UNCHANGED <<ianswer, ilost, iran, ireleased, ilimits>>

\* consume: one upsert, which counts only below the limit.
Consumes(k) == iused[k] < ipolicy /\ iused' = [iused EXCEPT ![k] = @ + 1]

\* enforce_tenant_limits: no policy, or the request counter and then that of
\* mutations; a refusal is a 429.
TakeQuota(r, k, from, to) ==
  /\ \/ ipolicy = 0 /\ IStep(r, from, to) /\ UNCHANGED iused
     \/ ipolicy > 0 /\ Consumes(k) /\ IStep(r, from, to)
     \/ ipolicy > 0 /\ iused[k] >= ipolicy /\ IStep(r, from, "throttled") /\ UNCHANGED iused
  /\ UNCHANGED <<irecord, ianswer, ilost, iran, ireleased, ipolicy>>

\* The route's handler: its mutation commits, or it fails before it does.  Its
\* response may be marked as not to be stored.
RunHandler(r) ==
  /\ \E to \in {"answered", "secret"} : IStep(r, "handler", to)
  /\ iran' \in {iran, iran \cup {r}}
  /\ UNCHANGED <<irecord, ianswer, ilost, ireleased, ilimits>>

\* complete_record's condition: neither the owner nor the fingerprint is in it.
Completes == istate = "processing"

\* The response is stored in the record, if the claim is still there.
StoresResponse(r) == IF Completes THEN istate' = "completed" /\ istored' = r /\ UNCHANGED <<iprint, iowner>>
                ELSE UNCHANGED irecord

\* It is stored for replay and given to the client.
StoreAnswer(r) ==
  /\ IStep(r, "answered", "done") /\ StoresResponse(r)
  /\ ianswer' = [ianswer EXCEPT ![r] = r]
  /\ UNCHANGED <<ilost, iran, ireleased, ilimits>>

\* Storing it failed, or only its confirmation did: the record is to be given up.
StoreFails(r) ==
  /\ IStep(r, "answered", "unsaved")
  /\ StoresResponse(r) \/ UNCHANGED irecord
  /\ UNCHANGED <<ianswer, ilost, iran, ireleased, ilimits>>

\* The phases of a request that is past its claim and not yet answered.
PastClaim == {"limit", "quota", "handler", "answered", "secret", "throttled", "unsaved"}

\* The row is deleted; a claimant other than `by` that still runs has lost it.
RemoveRecord(by, how) ==
  /\ istate' = "none" /\ iprint' = NoPrint /\ istored' = NoRequest /\ iowner' = NoRequest
  /\ ireleased' = ireleased + 1
  /\ ilost' = IF iowner # by /\ iphase[iowner] \in PastClaim THEN [ilost EXCEPT ![iowner] = how] ELSE ilost

\* abandon_record: a record that is completed is left alone, one that is not is
\* deleted whoever claimed it.
Abandons(r) == IF istate = "processing" THEN RemoveRecord(r, "taken") ELSE UNCHANGED <<irecord, ilost, ireleased>>

\* A throttled, secret-bearing or unsaved answer gives the key up, unless that
\* fails too; the client gets the answer either way.
GiveUpKey(r) ==
  /\ \E from \in {"throttled", "secret", "unsaved"} : IStep(r, from, "done")
  /\ Abandons(r) \/ UNCHANGED <<irecord, ilost, ireleased>>
  /\ ianswer' = [ianswer EXCEPT ![r] = r]
  /\ UNCHANGED <<iran, ilimits>>

\* Mutant: any completed response will do.
ReplaysAny(r) == istate = "completed"

\* replay_or_wait finds a completed record of the same request.
Replays(r) == istate = "completed" /\ iprint = PrintOf[r]

\* It polls the record, forty times: a replay, a conflict, a released record, or
\* nothing yet, at last a 409 to try again.
PollRecord(r) ==
  /\ IStep(r, "waiting", "done")
  /\ ianswer' = IF Replays(r) THEN [ianswer EXCEPT ![r] = istored] ELSE ianswer
  /\ UNCHANGED <<irecord, ilost, iran, ireleased, ilimits>>

\* The client goes away.
DropRequest(r) ==
  /\ iphase[r] \notin {"new", "done"} /\ iphase' = [iphase EXCEPT ![r] = "done"]
  /\ UNCHANGED <<irecord, ianswer, ilost, iran, ireleased, ilimits>>

\* expire_idempotency_records, 24 hours after the completion or five minutes
\* after the claim, whatever has become of the claimant.
ExpireRecord ==
  /\ istate # "none" /\ RemoveRecord(NoRequest, "swept")
  /\ UNCHANGED <<iphase, ianswer, iran, ilimits>>

\* put_tenant_limit_policy, and a window that ends.
PutPolicy(n) == ipolicy' = n /\ UNCHANGED <<irecord, iphase, ianswer, ilost, iran, ireleased, iused>>
WindowEnds(k) ==
  /\ iused[k] > 0 /\ iused' = [iused EXCEPT ![k] = 0]
  /\ UNCHANGED <<irecord, iphase, ianswer, ilost, iran, ireleased, ipolicy>>

GateNext ==
  \/ \E r \in GateRequests :
       \/ ClaimKey(r) \/ TakeQuota(r, "request", "limit", "quota") \/ TakeQuota(r, "mutation", "quota", "handler")
       \/ RunHandler(r) \/ StoreAnswer(r) \/ StoreFails(r) \/ GiveUpKey(r) \/ PollRecord(r) \/ DropRequest(r)
  \/ ExpireRecord
  \/ \E n \in 1..QuotaMax : PutPolicy(n)
  \/ \E k \in Kinds : WindowEnds(k)

GateSpec == GateInit /\ [][GateNext]_ivars

-----------------------------------------------------------------------------
(* Properties. *)

\* A mutation is repeated only after the key was given up or swept.  Two requests
\* run at once, and a retry is answered with the response to another request, only
\* where one of them has outlived its claim: the sweep deleted its record while it
\* ran (idempotency.rs:462), or such a request, which completes and abandons by key
\* and state alone (:390, :231), deleted the record of the next.  No claim is lost
\* to another request unless the sweep took one first.
OneKeyOneMutation ==
  /\ Cardinality(iran) <= 1 + ireleased
  /\ Cardinality({r \in GateRequests : iphase[r] \in {"limit", "quota", "handler"} /\ ilost[r] = "no"}) <= 1
  /\ \A r \in GateRequests :
       /\ ianswer[r] # NoRequest /\ PrintOf[ianswer[r]] # PrintOf[r] => ilost[ianswer[r]] # "no"
       /\ ilost[r] = "taken" => \E q \in GateRequests : ilost[q] = "swept"
=============================================================================
