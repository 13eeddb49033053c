-------------------------- MODULE ResidentBootstrap --------------------------
(***************************************************************************)
(* The executor resident process of a sandbox and the one-read bootstrap   *)
(* it is given: the row that fences generations and leases, the job that   *)
(* runs it, the process-local bootstrap store of each API replica and the  *)
(* sealed handoff row that the replicas share.                             *)
(*                                                                         *)
(* A database transaction is one action; a handler that touches the        *)
(* database and the store is one action per await, kept in puts, reads,    *)
(* stops and tails between them.  Bootstrap bytes are named by the         *)
(* generation they were admitted with, and a digest adds nothing to that.  *)
(* The sidecar's own row is abstracted to whether it is configured and     *)
(* ready, and other processes hold no slots of a replica's store.          *)
(***************************************************************************)
EXTENDS Naturals, FiniteSets

CONSTANTS
  Replicas,      \* API processes
  Leases,        \* lease ids, each used once
  NoLease,
  MaxGeneration, \* bound: generations of the process
  MaxAttempts,   \* max_attempts of the job
  Capacity,      \* slots of a replica's store
  Reports,       \* the states an agent reports
  SidecarConfigured, \* whether the sandbox has a sidecar row
  Shared,        \* whether SANDBOXWICH_BOOTSTRAP_HANDOFF_KEY is configured
  MaxHandlers    \* bound: requests in progress

ASSUME ResidentAssumption ==
  /\ IsFiniteSet(Replicas) /\ IsFiniteSet(Leases)
  /\ NoLease \notin Leases
  /\ MaxGeneration \in Nat /\ MaxAttempts \in Nat \ {0}
  /\ Capacity \in Nat \ {0} /\ MaxHandlers \in Nat
  /\ Reports \subseteq {"starting", "running", "failed", "stopped", "lost"}
  /\ SidecarConfigured \in BOOLEAN /\ Shared \in BOOLEAN

VARIABLES
  generation,    \* resident_processes.generation, 0 while there is no row
  bootstrap,     \* bootstrap_sha256 is not null
  desired, observed,
  active,        \* active_lease_id
  delivered,     \* the bootstrap_delivered_* fence
  acknowledged,  \* bootstrap_acknowledged_at is not null
  job, attempts, \* the run_resident_process job of the generation
  lease,         \* the state of each lease
  leaseGen,      \* the generation in the payload of its job
  handoff,       \* generation of the sealed handoff row, 0 when there is none
  store,         \* each replica's entry for the process
  sidecar,       \* "absent", "unready" or "ready"
  puts, reads, stops, tails,
  given          \* responses that carried bootstrap bytes

rowVars == <<generation, bootstrap, desired, observed, active, delivered, acknowledged>>
residentJobVars == <<job, attempts, lease, leaseGen>>
handlers == <<puts, reads, stops, tails>>
residentVars == <<rowVars, residentJobVars, handoff, store, sidecar, handlers, given>>

Generations == 1..MaxGeneration
Terminal == {"failed", "stopped", "lost"}
Observed == {"pending", "starting", "running"} \cup Terminal
ResidentFences == [gen : Generations, lease : Leases]
NoFence == [gen |-> 0, lease |-> NoLease]
NoEntry == [kind |-> "none", bytes |-> 0, fence |-> NoFence, acked |-> FALSE]
Ready(g) == [kind |-> "ready", bytes |-> g, fence |-> NoFence, acked |-> FALSE]
Delivered(g, f) == [kind |-> "delivered", bytes |-> g, fence |-> f, acked |-> FALSE]
InFlight(f) == [kind |-> "inflight", bytes |-> 0, fence |-> f, acked |-> FALSE]
AckedInFlight(f) == [kind |-> "inflight", bytes |-> 0, fence |-> f, acked |-> TRUE]
Entries ==
  {NoEntry}
  \cup [kind : {"ready"}, bytes : Generations, fence : {NoFence}, acked : {FALSE}]
  \cup [kind : {"delivered"}, bytes : Generations, fence : ResidentFences, acked : {FALSE}]
  \cup [kind : {"inflight"}, bytes : {0}, fence : ResidentFences, acked : BOOLEAN]

ResidentInit ==
  /\ generation = 0 /\ bootstrap = FALSE
  /\ desired = "running" /\ observed = "pending" /\ active = NoLease
  /\ delivered = NoFence /\ acknowledged = FALSE
  /\ job = "none" /\ attempts = 0
  /\ lease = [l \in Leases |-> "free"] /\ leaseGen = [l \in Leases |-> 0]
  /\ handoff = 0
  /\ store = [r \in Replicas |-> NoEntry]
  /\ sidecar = IF SidecarConfigured THEN "unready" ELSE "absent"
  /\ puts = {} /\ reads = {} /\ stops = {} /\ tails = {}
  /\ given = {}

\* Another request may be in progress.
MayBegin ==
  Cardinality(puts) + Cardinality(reads) + Cardinality(stops) + Cardinality(tails) < MaxHandlers

-----------------------------------------------------------------------------
(* The process-local store. *)

EntryGen(e) == IF e.kind = "inflight" THEN e.fence.gen ELSE e.bytes
Values(r) == IF store[r] = NoEntry THEN 0 ELSE 1
Reserved(r) == Cardinality({p \in puts : p.replica = r /\ p.boot})

\* reserve_inner: the entry of the generation being replaced gives up its slot,
\* one of any other generation refuses the reservation, and a tenant gets half
\* of the store.
CanReserve(r, old) ==
  LET replaces == old > 0 /\ store[r] # NoEntry
      freed == IF replaces THEN 1 ELSE 0
      own == Reserved(r) + (IF store[r] = NoEntry \/ replaces THEN 0 ELSE 1)
  IN /\ replaces => EntryGen(store[r]) = old
     /\ Values(r) + Reserved(r) - freed < Capacity
     /\ own < (IF Capacity < 2 THEN 1 ELSE Capacity \div 2)

\* begin_delivery, and the caller's check that the bytes are of its generation.
Takes(e, f) ==
  /\ \/ e.kind = "ready"
     \/ e.kind = "delivered" /\ e.fence = f
  /\ e.bytes = f.gen

\* acknowledge
Acknowledge(e, f) ==
  IF e.kind = "delivered" /\ e.fence = f THEN NoEntry
  ELSE IF e.kind = "inflight" /\ e.fence = f THEN AckedInFlight(f)
  ELSE e

\* reclaim
Reclaim(e, g, f) ==
  IF e.kind = "ready" /\ e.bytes = g THEN NoEntry ELSE Acknowledge(e, f)

\* rehydrate: whether a missing entry may be recovered.
Rehydrates(r) == Values(r) + Reserved(r) < Capacity

\* publish_inner, or discard_generation when there are no bytes.  An entry of a
\* generation other than the replaced one is left alone.
Published(e, p) ==
  IF e # NoEntry /\ ~(p.old > 0 /\ EntryGen(e) = p.old) THEN e
  ELSE IF p.boot THEN Ready(p.old + 1) ELSE NoEntry

\* mark_delivered, and dropping a delivery: only the slot this delivery took is
\* written, and one acknowledged meanwhile is emptied.
Exact(e, f) == e.kind = "inflight" /\ e.fence = f
Marked(e, d) ==
  IF ~Exact(e, d.fence) THEN e ELSE IF e.acked THEN NoEntry ELSE Delivered(d.bytes, d.fence)
Restored(e, d) ==
  IF ~Exact(e, d.fence) THEN e ELSE IF e.acked THEN NoEntry
  ELSE IF d.again THEN Delivered(d.bytes, d.fence) ELSE Ready(d.bytes)

-----------------------------------------------------------------------------
(* The shared handoff row. *)

\* publish_on_connection, after the predecessor's row was deleted.
Sealed(boot, g) == IF Shared /\ boot THEN g ELSE 0

\* load: an expired row or one sealed under another key is as good as none.
Loadable == Shared /\ handoff > 0

\* forget_shared: by process, whatever the generation.
Forgotten == IF Shared THEN 0 ELSE handoff

-----------------------------------------------------------------------------
(* put_resident_process *)

Put(r, old, boot, done) == [replica |-> r, old |-> old, boot |-> boot, done |-> done]

\* The row is new, or terminal and free of a lease; the bytes find a slot.
Replaceable == active = NoLease /\ observed \in Terminal

PutReserve(r, boot) ==
  /\ MayBegin
  /\ generation < MaxGeneration
  /\ generation > 0 => Replaceable
  /\ boot => CanReserve(r, generation)
  /\ puts' = puts \cup {Put(r, generation, boot, FALSE)}
  /\ UNCHANGED <<rowVars, residentJobVars, handoff, store, sidecar, reads, stops, tails, given>>

\* The transaction: the row under its old generation, the job, the handoff.
PutCommit(p) ==
  /\ ~p.done
  /\ generation = p.old
  /\ generation > 0 => Replaceable
  /\ generation' = p.old + 1
  /\ bootstrap' = p.boot
  /\ desired' = "running" /\ observed' = "pending" /\ active' = NoLease
  /\ delivered' = NoFence /\ acknowledged' = FALSE
  /\ job' = "queued" /\ attempts' = 0
  /\ handoff' = Sealed(p.boot, p.old + 1)
  /\ puts' = (puts \ {p}) \cup {Put(p.replica, p.old, p.boot, TRUE)}
  /\ UNCHANGED <<lease, leaseGen, store, sidecar, reads, stops, tails, given>>

\* The reservation is dropped: the transaction failed or was abandoned.
PutFail(p) ==
  /\ ~p.done
  /\ puts' = puts \ {p}
  /\ UNCHANGED <<rowVars, residentJobVars, handoff, store, sidecar, reads, stops, tails, given>>

PutPublish(p) ==
  /\ p.done
  /\ store' = [store EXCEPT ![p.replica] = Published(@, p)]
  /\ puts' = puts \ {p}
  /\ UNCHANGED <<rowVars, residentJobVars, handoff, sidecar, reads, stops, tails, given>>

-----------------------------------------------------------------------------
(* The job and its leases. *)

\* A configured sidecar desires running, runs, and holds a live lease.
SidecarReady == sidecar # "unready"

\* The filters of claim_lease for a resident process.
Claimable == job = "queued" /\ desired = "running" /\ SidecarReady

Claim(l) ==
  /\ Claimable
  /\ lease[l] = "free" /\ attempts < MaxAttempts
  /\ lease' = [lease EXCEPT ![l] = "active"]
  /\ leaseGen' = [leaseGen EXCEPT ![l] = generation]
  /\ job' = "leased" /\ attempts' = attempts + 1
  /\ active' = l /\ observed' = "starting"
  /\ UNCHANGED <<generation, bootstrap, desired, delivered, acknowledged, handoff,
                 store, sidecar, handlers, given>>

\* ensure_resident_lease_scope: the row's lease, which is alive.
OwnsLease(l) == active = l /\ lease[l] = "active"

EndLease(l) == lease' = [lease EXCEPT ![l] = "ended"]

\* apply_completed_job: the exit code decides between stopped and failed.
CompleteRow(clean) ==
  /\ observed' = IF clean THEN "stopped" ELSE "failed"
  /\ active' = NoLease
  /\ job' = "succeeded"

\* apply_failed_job: a row observed stopped keeps its lease.
FailRow(status) ==
  /\ job' = status
  /\ observed' = IF observed = "stopped" THEN observed ELSE "failed"
  /\ active' = IF observed = "stopped" THEN active ELSE NoLease

Requeue == job' = "queued" /\ UNCHANGED <<observed, active>>

\* A job whose bootstrap was delivered is never run again.
Retryable == attempts < MaxAttempts /\ delivered = NoFence

Complete(l, clean) ==
  /\ lease[l] = "active" /\ leaseGen[l] = generation
  /\ EndLease(l)
  /\ CompleteRow(clean)
  /\ UNCHANGED <<generation, bootstrap, desired, delivered, acknowledged, attempts,
                 leaseGen, handoff, store, sidecar, handlers, given>>

Fail(l, retry) ==
  /\ lease[l] = "active" /\ leaseGen[l] = generation
  /\ EndLease(l)
  /\ IF retry /\ Retryable THEN Requeue ELSE FailRow("failed")
  /\ UNCHANGED <<generation, bootstrap, desired, delivered, acknowledged, attempts,
                 leaseGen, handoff, store, sidecar, handlers, given>>

\* The sweep meets a lease past its expiry, under which nothing was read or
\* reported since.  It completes the job of a process that was asked to stop.
Expire(l) ==
  /\ lease[l] = "active" /\ leaseGen[l] = generation
  /\ EndLease(l)
  /\ IF desired = "stopped" THEN CompleteRow(TRUE)
     ELSE IF Retryable THEN Requeue ELSE FailRow("dead")
  /\ UNCHANGED <<generation, bootstrap, desired, delivered, acknowledged, attempts,
                 leaseGen, handoff, store, sidecar, handlers, given>>

-----------------------------------------------------------------------------
(* read_resident_process_bootstrap *)

Read(r, f, phase, bytes, again, seen) ==
  [replica |-> r, fence |-> f, phase |-> phase, bytes |-> bytes,
   again |-> again, seen |-> seen]

\* The lease is the row's and alive.  The local entry is taken, or, when there is
\* none, the handoff row is loaded.
ReadBegin(r, l) ==
  LET f == [gen |-> leaseGen[l], lease |-> l]
      e == store[r]
  IN /\ MayBegin
     /\ OwnsLease(l)
     /\ \/ /\ Takes(e, f)
           /\ store' = [store EXCEPT ![r] = InFlight(f)]
           /\ reads' = reads \cup {Read(r, f, "taken", e.bytes, e.kind = "delivered", NoFence)}
        \/ /\ e = NoEntry /\ Loadable
           /\ reads' = reads \cup {Read(r, f, "loaded", handoff, FALSE, NoFence)}
           /\ UNCHANGED store
     /\ UNCHANGED <<rowVars, residentJobVars, handoff, sidecar, puts, stops, tails, given>>

\* delivered_bootstrap_fence, after the load.
ReadFence(d) ==
  /\ d.phase = "loaded"
  /\ reads' = (reads \ {d}) \cup {Read(d.replica, d.fence, "fenced", d.bytes, FALSE, delivered)}
  /\ UNCHANGED <<rowVars, residentJobVars, handoff, store, sidecar, puts, stops, tails, given>>

\* rehydrate, which never displaces an entry, and begin_delivery once more.
ReadRehydrate(d) ==
  LET r == d.replica
      fresh == IF d.seen = NoFence THEN Ready(d.bytes) ELSE Delivered(d.bytes, d.seen)
      e == IF store[r] = NoEntry THEN fresh ELSE store[r]
  IN /\ d.phase = "fenced"
     /\ IF store[r] = NoEntry /\ ~Rehydrates(r)
        THEN reads' = reads \ {d} /\ UNCHANGED store
        ELSE IF Takes(e, d.fence)
        THEN /\ store' = [store EXCEPT ![r] = InFlight(d.fence)]
             /\ reads' = (reads \ {d}) \cup
                         {Read(r, d.fence, "taken", e.bytes, e.kind = "delivered", NoFence)}
        ELSE /\ store' = [store EXCEPT ![r] = e]
             /\ reads' = reads \ {d}
     /\ UNCHANGED <<rowVars, residentJobVars, handoff, sidecar, puts, stops, tails, given>>

\* The handler ends without an answer: the update matched no row, or the client
\* went away.
ReadDrop(d) ==
  /\ d.phase \in {"taken", "consumed"}
  /\ store' = [store EXCEPT ![d.replica] = Restored(@, d)]
  /\ reads' = reads \ {d}
  /\ UNCHANGED <<rowVars, residentJobVars, handoff, sidecar, puts, stops, tails, given>>

\* Mutant: any lease of the generation may consume again.
ConsumableByAny(f) ==
  /\ generation = f.gen /\ active = f.lease /\ bootstrap
  /\ ~acknowledged
  /\ SidecarReady

\* The conditions of the consuming update.
Consumable(f) ==
  /\ generation = f.gen /\ active = f.lease /\ bootstrap
  /\ ~acknowledged
  /\ delivered \in {NoFence, f}
  /\ SidecarReady

ReadConsume(d) ==
  /\ d.phase = "taken"
  /\ Consumable(d.fence)
  /\ delivered' = d.fence
  /\ reads' = (reads \ {d}) \cup {Read(d.replica, d.fence, "consumed", d.bytes, d.again, NoFence)}
  /\ UNCHANGED <<generation, bootstrap, desired, observed, active, acknowledged, residentJobVars,
                 handoff, store, sidecar, puts, stops, tails, given>>

\* The answer carries the bytes unless they were acknowledged in flight.
ReadMark(d) ==
  LET e == store[d.replica]
  IN /\ d.phase = "consumed"
     /\ store' = [store EXCEPT ![d.replica] = Marked(e, d)]
     /\ given' = IF Exact(e, d.fence) /\ ~e.acked
                 THEN given \cup {[fence |-> d.fence, bytes |-> d.bytes]} ELSE given
     /\ reads' = reads \ {d}
     /\ UNCHANGED <<rowVars, residentJobVars, handoff, sidecar, puts, stops, tails>>

-----------------------------------------------------------------------------
(* observe_resident_process and stop_resident_process *)

Observe(r, l, s) ==
  LET f == [gen |-> leaseGen[l], lease |-> l]
  IN /\ MayBegin
     /\ OwnsLease(l)
     /\ observed' = s
     /\ acknowledged' = (acknowledged \/ delivered = f)
     /\ tails' = IF bootstrap
                 THEN tails \cup {[replica |-> r, fence |-> f, ended |-> s \in Terminal]}
                 ELSE tails
     /\ UNCHANGED <<generation, bootstrap, desired, active, delivered, residentJobVars, handoff,
                    store, sidecar, puts, reads, stops, given>>

\* What follows the update: a terminal report reclaims the bytes, and any report
\* drops them once the row is acknowledged.
ObserveTail(t) ==
  LET e == store[t.replica]
      kept == IF t.ended THEN Reclaim(e, t.fence.gen, t.fence) ELSE e
  IN /\ store' = [store EXCEPT ![t.replica] =
          IF acknowledged THEN Acknowledge(kept, t.fence) ELSE kept]
     /\ handoff' = IF t.ended \/ acknowledged THEN Forgotten ELSE handoff
     /\ tails' = tails \ {t}
     /\ UNCHANGED <<rowVars, residentJobVars, sidecar, puts, reads, stops, given>>

Stop(r, g, boot, seen, done) ==
  [replica |-> r, gen |-> g, boot |-> boot, seen |-> seen, done |-> done]

\* A stop reads the row and the delivered fence before its transaction.
StopRead(r) ==
  /\ generation > 0
  /\ MayBegin
  /\ stops' = stops \cup {Stop(r, generation, bootstrap, delivered, FALSE)}
  /\ UNCHANGED <<rowVars, residentJobVars, handoff, store, sidecar, puts, reads, tails, given>>

\* A queued job ends here; a leased one learns of the stop when it renews.
StopCommit(s) ==
  /\ ~s.done
  /\ desired' = "stopped"
  /\ job' = IF job = "queued" THEN "succeeded" ELSE job
  /\ observed' = IF job = "queued" THEN "stopped" ELSE observed
  /\ acknowledged' = (acknowledged \/ delivered # NoFence)
  /\ stops' = (stops \ {s}) \cup {Stop(s.replica, s.gen, s.boot, s.seen, TRUE)}
  /\ UNCHANGED <<generation, bootstrap, active, delivered, attempts, lease, leaseGen,
                 handoff, store, sidecar, puts, reads, tails, given>>

StopTail(s) ==
  /\ s.done
  /\ IF s.boot
     THEN /\ store' = [store EXCEPT ![s.replica] = Reclaim(@, s.gen, s.seen)]
          /\ handoff' = Forgotten
     ELSE UNCHANGED <<store, handoff>>
  /\ stops' = stops \ {s}
  /\ UNCHANGED <<rowVars, residentJobVars, sidecar, puts, reads, tails, given>>

-----------------------------------------------------------------------------
(* The environment. *)

\* expire_due_bootstrap_handoffs, or a row past its time to live.
HandoffExpires ==
  /\ handoff > 0
  /\ handoff' = 0
  /\ UNCHANGED <<rowVars, residentJobVars, store, sidecar, handlers, given>>

\* The configured sidecar becomes ready and unready.
SidecarChanges ==
  /\ sidecar # "absent"
  /\ sidecar' = IF sidecar = "unready" THEN "ready" ELSE "unready"
  /\ UNCHANGED <<rowVars, residentJobVars, handoff, store, handlers, given>>

\* A replica loses its store and the requests it was serving.
Restart(r) ==
  /\ store' = [store EXCEPT ![r] = NoEntry]
  /\ puts' = {p \in puts : p.replica # r}
  /\ reads' = {d \in reads : d.replica # r}
  /\ stops' = {s \in stops : s.replica # r}
  /\ tails' = {t \in tails : t.replica # r}
  /\ UNCHANGED <<rowVars, residentJobVars, handoff, sidecar, given>>

ResidentNext ==
  \/ \E r \in Replicas : StopRead(r) \/ Restart(r)
  \/ \E r \in Replicas, b \in BOOLEAN : PutReserve(r, b)
  \/ \E p \in puts : PutCommit(p) \/ PutFail(p) \/ PutPublish(p)
  \/ \E l \in Leases : Claim(l) \/ Expire(l)
  \/ \E l \in Leases, b \in BOOLEAN : Complete(l, b) \/ Fail(l, b)
  \/ \E r \in Replicas, l \in Leases : ReadBegin(r, l)
  \/ \E d \in reads : ReadFence(d) \/ ReadRehydrate(d) \/ ReadConsume(d)
                      \/ ReadMark(d) \/ ReadDrop(d)
  \/ \E r \in Replicas, l \in Leases, s \in Reports : Observe(r, l, s)
  \/ \E t \in tails : ObserveTail(t)
  \/ \E s \in stops : StopCommit(s) \/ StopTail(s)
  \/ HandoffExpires
  \/ SidecarChanges

ResidentSpec == ResidentInit /\ [][ResidentNext]_residentVars

-----------------------------------------------------------------------------
(* Properties. *)

Puts == [replica : Replicas, old : 0..MaxGeneration, boot : BOOLEAN, done : BOOLEAN]
Reads == [replica : Replicas, fence : ResidentFences, phase : {"loaded", "fenced", "taken", "consumed"},
          bytes : Generations, again : BOOLEAN, seen : ResidentFences \cup {NoFence}]
Stops == [replica : Replicas, gen : Generations, boot : BOOLEAN,
          seen : ResidentFences \cup {NoFence}, done : BOOLEAN]
Tails == [replica : Replicas, fence : ResidentFences, ended : BOOLEAN]

\* Every column, entry and pending request has one of the values the code gives it.
ResidentTypeOK ==
  /\ generation \in 0..MaxGeneration /\ handoff \in 0..MaxGeneration
  /\ bootstrap \in BOOLEAN /\ acknowledged \in BOOLEAN
  /\ desired \in {"running", "stopped"}
  /\ observed \in Observed
  /\ active \in Leases \cup {NoLease} /\ delivered \in ResidentFences \cup {NoFence}
  /\ job \in {"none", "queued", "leased", "succeeded", "failed", "dead"}
  /\ attempts \in 0..MaxAttempts
  /\ lease \in [Leases -> {"free", "active", "ended"}]
  /\ leaseGen \in [Leases -> 0..MaxGeneration]
  /\ store \in [Replicas -> Entries]
  /\ sidecar \in {"absent", "unready", "ready"}
  /\ puts \subseteq Puts /\ reads \subseteq Reads
  /\ stops \subseteq Stops /\ tails \subseteq Tails
  /\ given \subseteq [fence : ResidentFences, bytes : Generations]

\* The one-read bootstrap: whatever replicas restart, rehydrate or race, the bytes
\* of a generation leave the API under one lease only, and with no other
\* generation's, although a slow rehydration can pair the bytes of one generation
\* with the fence of the next.
OneReader ==
  /\ \A x, y \in given : x.fence.gen = y.fence.gen => x.fence.lease = y.fence.lease
  /\ \A x \in given : x.bytes = x.fence.gen

\* A replica that holds the current generation as delivered agrees with the row
\* on the lease it was delivered to, though the two are written apart.
StoreFollowsRow ==
  \A r \in Replicas : LET e == store[r] IN
    e.kind = "delivered" /\ e.fence.gen = generation => e.fence = delivered

=============================================================================
