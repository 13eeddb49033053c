-------------------------- MODULE ResidentProofs ---------------------------
(***************************************************************************)
(* Proofs about resident processes.  First the one-read bootstrap: the     *)
(* invariant that ties the entries of the stores, the reads in progress    *)
(* and the answers given to the delivered fence of the row, and the two    *)
(* properties it gives.  Then the attestation of a resident's placement,   *)
(* for any number of leases, generations, keys and workers: a request      *)
(* reads the record, then the row, then writes; ProofInv says what each of *)
(* its phases has read and that it still stands, and that a record and an  *)
(* issue name the Pod of their own lease.                                  *)
(***************************************************************************)
EXTENDS ResidentBootstrap, PlacementProof, TLAPS

-----------------------------------------------------------------------------
(* The bootstrap. *)

\* A fence is the row's, or of a generation that is over.
Follows(f) == f.gen <= generation /\ (f.gen = generation => f = delivered)

\* Leases and jobs are of a generation that exists, the delivered fence is of the
\* current one, and a replacement in progress has a generation to come to.
RowInOrder ==
  /\ delivered # NoFence => delivered.gen = generation
  /\ job # "none" => generation > 0
  /\ \A l \in Leases : lease[l] # "free" => leaseGen[l] > 0
  /\ \A p \in puts : p.old < MaxGeneration

\* Whoever holds a delivered fence, holds one that the row has or had.
FencesFollow ==
  /\ \A r \in Replicas : store[r].kind = "delivered" => Follows(store[r].fence)
  /\ \A d \in reads : /\ Follows(d.seen)
                      /\ d.again \/ d.phase = "consumed" => Follows(d.fence)
  /\ \A x \in given : Follows(x.fence)

\* The bytes of a delivery are of the generation of its fence.
BytesMatch ==
  /\ \A d \in reads : d.phase \in {"taken", "consumed"} => d.bytes = d.fence.gen
  /\ \A x \in given : x.bytes = x.fence.gen

\* The fences under which bytes have left, or are about to.
Served == {x.fence : x \in given} \cup {d.fence : d \in {e \in reads : e.phase = "consumed"}}
ServedOnce == \A f, h \in Served : f.gen = h.gen => f.lease = h.lease

\* The inductive invariant.
ResidentInv == ResidentTypeOK /\ RowInOrder /\ FencesFollow /\ BytesMatch /\ ServedOnce

\* A fence, or none.
AnyFence == ResidentFences \cup {NoFence}

-----------------------------------------------------------------------------
(* The entries of a store, and what its operations make of them. *)

\* A fence has a generation and a lease, and the absent fence has generation 0.
LEMMA FenceShape ==
  /\ \A f \in ResidentFences : f.gen \in Nat \ {0} /\ f.gen \in Generations /\ f.lease \in Leases /\ f # NoFence
  /\ NoFence.gen = 0
  /\ \A g \in Generations, l \in Leases : [gen |-> g, lease |-> l] \in ResidentFences
BY ResidentAssumption DEF ResidentFences, NoFence, Generations

\* The entries a store can hold, and what they carry.
LEMMA EntryShape ==
  /\ NoEntry \in Entries
  /\ \A g \in Generations : Ready(g) \in Entries
  /\ \A g \in Generations, f \in ResidentFences : Delivered(g, f) \in Entries
  /\ \A f \in ResidentFences : InFlight(f) \in Entries /\ AckedInFlight(f) \in Entries
  /\ \A e \in Entries : /\ e.kind \in {"delivered", "inflight"} => e.fence \in ResidentFences
                        /\ e.kind \in {"ready", "delivered"} => e.bytes \in Generations
<1>1. NoEntry \in Entries /\ \A g \in Generations : Ready(g) \in Entries
    BY DEF Entries, NoEntry, Ready
<1>2. \A g \in Generations, f \in ResidentFences : Delivered(g, f) \in Entries
    BY DEF Entries, Delivered
<1>3. \A f \in ResidentFences : InFlight(f) \in Entries /\ AckedInFlight(f) \in Entries
    BY DEF Entries, InFlight, AckedInFlight
<1>4. \A e \in Entries : /\ e.kind \in {"delivered", "inflight"} => e.fence \in ResidentFences
                         /\ e.kind \in {"ready", "delivered"} => e.bytes \in Generations
  <2> TAKE e \in Entries
  <2>1. CASE e = NoEntry
      BY <2>1 DEF NoEntry
  <2>2. CASE e \in [kind : {"ready"}, bytes : Generations, fence : {NoFence}, acked : {FALSE}]
      BY <2>2
  <2>3. CASE e \in [kind : {"delivered"}, bytes : Generations, fence : ResidentFences, acked : {FALSE}]
      BY <2>3
  <2>4. CASE e \in [kind : {"inflight"}, bytes : {0}, fence : ResidentFences, acked : BOOLEAN]
      BY <2>4
  <2> QED
      BY <2>1, <2>2, <2>3, <2>4 DEF Entries
<1> QED
    BY <1>1, <1>2, <1>3, <1>4

\* acknowledge and reclaim leave no delivered entry that was not there.
LEMMA AcknowledgeOps ==
  ASSUME NEW e \in Entries, NEW f \in AnyFence, NEW g \in Nat
  PROVE  /\ Acknowledge(e, f) \in Entries
         /\ Acknowledge(e, f).kind = "delivered" => Acknowledge(e, f) = e
         /\ Reclaim(e, g, f) \in Entries
         /\ Reclaim(e, g, f).kind = "delivered" => Reclaim(e, g, f) = e
<1>0. NoEntry.kind = "none" /\ \A h : AckedInFlight(h).kind = "inflight"
    BY DEF NoEntry, AckedInFlight
<1>1. Acknowledge(e, f) \in Entries /\ (Acknowledge(e, f).kind = "delivered" => Acknowledge(e, f) = e)
    BY <1>0, EntryShape DEF Acknowledge
<1>2. Reclaim(e, g, f) \in Entries /\ (Reclaim(e, g, f).kind = "delivered" => Reclaim(e, g, f) = e)
    BY <1>0, <1>1, EntryShape DEF Reclaim
<1> QED
    BY <1>1, <1>2

\* Nor does publish.
LEMMA PublishOps ==
  ASSUME NEW e \in Entries, NEW p \in Puts, p.old < MaxGeneration
  PROVE  Published(e, p) \in Entries /\ (Published(e, p).kind = "delivered" => Published(e, p) = e)
<1>0. NoEntry.kind = "none" /\ \A h : Ready(h).kind = "ready"
    BY DEF NoEntry, Ready
<1>1. p.old + 1 \in Generations
    BY ResidentAssumption DEF Puts, Generations
<1> QED
    BY <1>0, <1>1, EntryShape DEF Published

\* A delivery that is marked or dropped leaves its own fence, if any.
LEMMA DeliveryOps ==
  ASSUME NEW e \in Entries, NEW d \in Reads
  PROVE  /\ Marked(e, d) \in Entries
         /\ Marked(e, d).kind = "delivered" => Marked(e, d) = e \/ Marked(e, d).fence = d.fence
         /\ Restored(e, d) \in Entries
         /\ Restored(e, d).kind = "delivered" => Restored(e, d) = e \/ (d.again /\ Restored(e, d).fence = d.fence)
<1>0. /\ NoEntry.kind = "none" /\ (\A h : Ready(h).kind = "ready")
      /\ Delivered(d.bytes, d.fence).fence = d.fence
      /\ d.bytes \in Generations /\ d.fence \in ResidentFences
    BY DEF NoEntry, Ready, Delivered, Reads
<1>1. Marked(e, d) \in Entries /\ Restored(e, d) \in Entries
    BY <1>0, EntryShape DEF Marked, Restored
<1>2. Marked(e, d).kind = "delivered" => Marked(e, d) = e \/ Marked(e, d).fence = d.fence
    BY <1>0 DEF Marked
<1>3. Restored(e, d).kind = "delivered" => Restored(e, d) = e \/ (d.again /\ Restored(e, d).fence = d.fence)
    BY <1>0 DEF Restored
<1> QED
    BY <1>1, <1>2, <1>3

-----------------------------------------------------------------------------

\* Nothing is stored, read or given at the start.
LEMMA ResidentInitInv == ResidentInit => ResidentInv
<1> SUFFICES ASSUME ResidentInit PROVE ResidentInv
    OBVIOUS
<1>1. ResidentTypeOK
  <2>1. store \in [Replicas -> Entries]
      BY EntryShape DEF ResidentInit
  <2>2. bootstrap \in BOOLEAN /\ acknowledged \in BOOLEAN
      BY Zenon DEF ResidentInit
  <2> QED
      BY <2>1, <2>2, ResidentAssumption DEF ResidentInit, ResidentTypeOK, Observed
<1>2. RowInOrder /\ FencesFollow /\ BytesMatch /\ ServedOnce
    BY DEF ResidentInit, RowInOrder, FencesFollow, BytesMatch, ServedOnce, Served, NoEntry
<1> QED
    BY <1>1, <1>2 DEF ResidentInv

\* A fence that follows the row keeps following it.
LEMMA FollowsStep ==
  ASSUME ResidentInv,
         \/ UNCHANGED <<generation, delivered>>
         \/ \E p \in puts : PutCommit(p)
         \/ \E d \in reads : ReadConsume(d),
         NEW f \in AnyFence, Follows(f)
  PROVE  Follows(f)'
<1>1. CASE UNCHANGED <<generation, delivered>>
    BY <1>1 DEF Follows
<1>2. ASSUME NEW p \in puts, PutCommit(p) PROVE Follows(f)'
    BY <1>2, FenceShape DEF PutCommit, Follows, ResidentInv, ResidentTypeOK, AnyFence
<1>3. ASSUME NEW d \in reads, ReadConsume(d) PROVE Follows(f)'
  <2>1. d.fence \in ResidentFences /\ generation = d.fence.gen /\ delivered \in {NoFence, d.fence}
        /\ delivered' = d.fence /\ generation' = generation
      BY <1>3 DEF ReadConsume, Consumable, ResidentInv, ResidentTypeOK, Reads
  <2> QED
      BY <2>1, FenceShape DEF Follows
<1> QED
    BY <1>1, <1>2, <1>3

\* A read in progress that has consumed nothing.
Unserved(d) ==
  /\ d \in Reads /\ d.phase # "consumed"
  /\ Follows(d.seen) /\ (d.again => Follows(d.fence))
  /\ d.phase = "taken" => d.bytes = d.fence.gen

\* What is left of the invariant after a step that serves nobody: the fences it
\* leaves behind were there before, or follow the row.
LEMMA NothingServed ==
  ASSUME ResidentInv, ResidentTypeOK',
         \A f \in AnyFence : Follows(f) => Follows(f)',
         \A r \in Replicas : store'[r].kind = "delivered" => store'[r] = store[r] \/ Follows(store'[r].fence),
         \A d \in reads' : d \in reads \/ Unserved(d), given' = given
  PROVE  FencesFollow' /\ BytesMatch' /\ ServedOnce'
<1>1. FencesFollow'
  <2>1. \A r \in Replicas : store'[r].kind = "delivered" => Follows(store[r].fence)'
    <3> TAKE r \in Replicas
    <3> HAVE store'[r].kind = "delivered"
    <3>1. store'[r].fence \in AnyFence
        BY EntryShape DEF ResidentTypeOK, AnyFence
    <3>2. Follows(store'[r].fence)
        BY DEF ResidentInv, FencesFollow
    <3>3. PICK f \in AnyFence : f = store'[r].fence /\ Follows(f)'
        BY <3>1, <3>2
    <3> QED
        BY <3>3 DEF Follows
  <2>2. \A d \in reads' : Follows(d.seen)' /\ (d.again \/ d.phase = "consumed" => Follows(d.fence)')
    <3> TAKE d \in reads'
    <3>1. d.seen \in AnyFence /\ d.fence \in AnyFence
        BY DEF ResidentTypeOK, Reads, AnyFence
    <3>2. Follows(d.seen) /\ (d.again \/ d.phase = "consumed" => Follows(d.fence))
        BY DEF ResidentInv, FencesFollow, Unserved
    <3> QED
        BY <3>1, <3>2
  <2>3. \A x \in given' : Follows(x.fence)'
    <3> TAKE x \in given'
    <3>1. x \in given /\ x.fence \in AnyFence
        BY DEF ResidentInv, ResidentTypeOK, AnyFence
    <3> QED
        BY <3>1 DEF ResidentInv, FencesFollow
  <2> QED
      BY <2>1, <2>2, <2>3 DEF FencesFollow
<1>2. BytesMatch'
    BY DEF ResidentInv, BytesMatch, Unserved
<1>3. Served' \subseteq Served
    BY DEF Served, Unserved
<1> QED
    BY <1>1, <1>2, <1>3 DEF ResidentInv, ServedOnce

\* The requests that change the row, the job or a lease and no delivery.
LEMMA RowSteps ==
  ASSUME ResidentInv,
         \/ \E r \in Replicas : StopRead(r)
         \/ \E r \in Replicas, b \in BOOLEAN : PutReserve(r, b)
         \/ \E l \in Leases : Claim(l) \/ Expire(l)
         \/ \E l \in Leases, b \in BOOLEAN : Complete(l, b) \/ Fail(l, b)
         \/ \E r \in Replicas, l \in Leases, s \in Reports : Observe(r, l, s)
         \/ HandoffExpires
         \/ SidecarChanges
         \/ \E p \in puts : PutFail(p)
         \/ \E s \in stops : StopCommit(s)
  PROVE  ResidentInv'
<1> USE DEF rowVars, residentJobVars, handlers, ResidentInv
<1>0. UNCHANGED <<generation, delivered, store, reads, given>>
    BY DEF StopRead, PutReserve, Claim, Expire, Complete, Fail, Observe, HandoffExpires, SidecarChanges, PutFail,
       StopCommit
<1>1. ResidentTypeOK' /\ RowInOrder'
  <2> USE <1>0
  <2>1. ASSUME NEW r \in Replicas, StopRead(r) PROVE ResidentTypeOK' /\ RowInOrder'
    <3>1. Stop(r, generation, bootstrap, delivered, FALSE) \in Stops
        BY <2>1 DEF StopRead, Stop, Stops, ResidentTypeOK, Generations
    <3> QED
        BY <2>1, <3>1 DEF StopRead, ResidentTypeOK, RowInOrder
  <2>2. ASSUME NEW r \in Replicas, NEW b \in BOOLEAN, PutReserve(r, b) PROVE ResidentTypeOK' /\ RowInOrder'
    <3>1. Put(r, generation, b, FALSE) \in Puts /\ Put(r, generation, b, FALSE).old < MaxGeneration
        BY <2>2 DEF PutReserve, Put, Puts, ResidentTypeOK
    <3> QED
        BY <2>2, <3>1 DEF PutReserve, ResidentTypeOK, RowInOrder
  <2>3. ASSUME NEW l \in Leases, Claim(l) PROVE ResidentTypeOK' /\ RowInOrder'
      BY <2>3, ResidentAssumption DEF Claim, Claimable, ResidentTypeOK, RowInOrder, Observed
  <2>4. ASSUME NEW l \in Leases, Expire(l) PROVE ResidentTypeOK' /\ RowInOrder'
      BY <2>4 DEF Expire, EndLease, CompleteRow, Requeue, FailRow, ResidentTypeOK, RowInOrder, Observed, Terminal
  <2>5. ASSUME NEW l \in Leases, NEW b \in BOOLEAN, Complete(l, b) PROVE ResidentTypeOK' /\ RowInOrder'
      BY <2>5 DEF Complete, EndLease, CompleteRow, ResidentTypeOK, RowInOrder, Observed, Terminal
  <2>6. ASSUME NEW l \in Leases, NEW b \in BOOLEAN, Fail(l, b) PROVE ResidentTypeOK' /\ RowInOrder'
      BY <2>6 DEF Fail, EndLease, Requeue, FailRow, ResidentTypeOK, RowInOrder, Observed, Terminal
  <2>7. ASSUME NEW r \in Replicas, NEW l \in Leases, NEW x \in Reports, Observe(r, l, x) PROVE ResidentTypeOK' /\ RowInOrder'
    <3> DEFINE f == [gen |-> leaseGen[l], lease |-> l]
               t == [replica |-> r, fence |-> f, ended |-> x \in Terminal]
    <3>1. f \in ResidentFences
        BY <2>7 DEF Observe, OwnsLease, ResidentTypeOK, RowInOrder, ResidentFences, Generations
    <3>2. t \in Tails
        BY <3>1 DEF Tails
    <3>3. acknowledged' \in BOOLEAN
        BY <2>7, Zenon DEF Observe
    <3>4. tails' = tails \/ tails' = tails \cup {t}
        BY <2>7 DEF Observe
    <3>5. x \in Observed
        BY ResidentAssumption DEF Observed, Terminal
    <3> HIDE DEF f, t
    <3> QED
        BY <2>7, <3>2, <3>3, <3>4, <3>5 DEF Observe, ResidentTypeOK, RowInOrder
  <2>8. CASE HandoffExpires \/ SidecarChanges
      BY <2>8, ResidentAssumption DEF HandoffExpires, SidecarChanges, ResidentTypeOK, RowInOrder
  <2>9. ASSUME NEW p \in puts, PutFail(p) PROVE ResidentTypeOK' /\ RowInOrder'
      BY <2>9 DEF PutFail, ResidentTypeOK, RowInOrder
  <2>10. ASSUME NEW s \in stops, StopCommit(s) PROVE ResidentTypeOK' /\ RowInOrder'
    <3>1. Stop(s.replica, s.gen, s.boot, s.seen, TRUE) \in Stops
        BY DEF Stop, Stops, ResidentTypeOK
    <3>2. acknowledged' \in BOOLEAN
        BY <2>10, Zenon DEF StopCommit
    <3> QED
        BY <2>10, <3>1, <3>2 DEF StopCommit, ResidentTypeOK, RowInOrder, Observed, Terminal
  <2> QED
      BY <2>1, <2>2, <2>3, <2>4, <2>5, <2>6, <2>7, <2>8, <2>9, <2>10
<1>2. \A f \in AnyFence : Follows(f) => Follows(f)'
    BY <1>0 DEF Follows
<1>3. FencesFollow' /\ BytesMatch' /\ ServedOnce'
    BY <1>0, <1>1, <1>2, NothingServed
<1> QED
    BY <1>1, <1>3

\* A replacement begins a generation that nobody has been served.
LEMMA PutSteps ==
  ASSUME ResidentInv, NEW p \in puts, PutCommit(p)
  PROVE  ResidentInv'
<1> USE DEF ResidentInv
<1>0. p \in Puts /\ p.old < MaxGeneration /\ p.old \in 0..MaxGeneration
    BY DEF ResidentTypeOK, RowInOrder, Puts
<1>1. Put(p.replica, p.old, p.boot, TRUE) \in Puts /\ Put(p.replica, p.old, p.boot, TRUE).old = p.old
    BY DEF Put, Puts, ResidentTypeOK
<1>2. bootstrap' \in BOOLEAN /\ acknowledged' \in BOOLEAN
  <2>1. p.boot \in BOOLEAN
      BY <1>0 DEF Puts
  <2> QED
      BY <2>1, Zenon DEF PutCommit
<1>3. /\ p.old + 1 \in 0..MaxGeneration /\ p.old + 1 > 0
      /\ generation' = p.old + 1 /\ (handoff' = 0 \/ handoff' = p.old + 1)
    BY <1>0, ResidentAssumption DEF PutCommit, Sealed
<1>4. ResidentTypeOK'
  <2>1. generation' \in 0..MaxGeneration /\ handoff' \in 0..MaxGeneration /\ attempts' \in 0..MaxAttempts
      BY <1>3, ResidentAssumption DEF PutCommit
  <2>2. puts' \subseteq Puts
      BY <1>1 DEF PutCommit, ResidentTypeOK
  <2> QED
      BY <1>2, <2>1, <2>2 DEF PutCommit, ResidentTypeOK, Observed
<1>5. RowInOrder'
    BY <1>0, <1>1, <1>3 DEF PutCommit, RowInOrder
<1>6. \A f \in AnyFence : Follows(f) => Follows(f)'
    BY FollowsStep
<1>7. FencesFollow' /\ BytesMatch' /\ ServedOnce'
    BY <1>4, <1>6, NothingServed DEF PutCommit
<1> QED
    BY <1>4, <1>5, <1>7

\* The steps that end a request at a replica's store, and a restart.
LEMMA StoreSteps ==
  ASSUME ResidentInv,
         \/ \E p \in puts : PutPublish(p)
         \/ \E t \in tails : ObserveTail(t)
         \/ \E s \in stops : StopTail(s)
         \/ \E d \in reads : ReadDrop(d)
         \/ \E r \in Replicas : Restart(r)
  PROVE  ResidentInv'
<1> USE DEF rowVars, residentJobVars, ResidentInv
<1>0. UNCHANGED <<rowVars, residentJobVars, sidecar, given>>
    BY DEF PutPublish, ObserveTail, StopTail, ReadDrop, Restart
<1>1. /\ puts' \subseteq puts /\ reads' \subseteq reads /\ stops' \subseteq stops /\ tails' \subseteq tails
      /\ handoff' \in 0..MaxGeneration
  <2>1. puts' \subseteq puts /\ reads' \subseteq reads /\ stops' \subseteq stops /\ tails' \subseteq tails
      BY DEF PutPublish, ObserveTail, StopTail, ReadDrop, Restart
  <2>2. handoff' \in {handoff, Forgotten}
      BY DEF PutPublish, ObserveTail, StopTail, ReadDrop, Restart
  <2> QED
      BY <2>1, <2>2, ResidentAssumption DEF Forgotten, ResidentTypeOK
<1>2. /\ store' \in [Replicas -> Entries]
      /\ \A r \in Replicas : store'[r].kind = "delivered" => store'[r] = store[r] \/ Follows(store'[r].fence)
  <2> DEFINE Kept(r, e) == /\ r \in Replicas /\ e \in Entries /\ store' = [store EXCEPT ![r] = e]
                           /\ e.kind = "delivered" => e = store[r] \/ Follows(e.fence)
  <2>1. ASSUME NEW p \in puts, PutPublish(p) PROVE \E r, e : Kept(r, e)
    <3> DEFINE e == Published(store[p.replica], p)
    <3>1. p \in Puts /\ p.replica \in Replicas /\ p.old < MaxGeneration /\ store[p.replica] \in Entries
        BY DEF ResidentTypeOK, RowInOrder, Puts
    <3>2. store' = [store EXCEPT ![p.replica] = e]
        BY <2>1 DEF PutPublish
    <3>3. e \in Entries /\ (e.kind = "delivered" => e = store[p.replica])
        BY <3>1, PublishOps
    <3> HIDE DEF e
    <3>4. Kept(p.replica, e)
        BY <3>1, <3>2, <3>3
    <3> QED
        BY <3>4
  <2>2. ASSUME NEW t \in tails, ObserveTail(t) PROVE \E r, e : Kept(r, e)
    <3> DEFINE old == store[t.replica]
               kept == IF t.ended THEN Reclaim(old, t.fence.gen, t.fence) ELSE old
               e == IF acknowledged THEN Acknowledge(kept, t.fence) ELSE kept
    <3>1. t.replica \in Replicas /\ t.fence \in AnyFence /\ t.fence.gen \in Nat /\ old \in Entries
        BY FenceShape DEF ResidentTypeOK, Tails, AnyFence
    <3>2. store' = [store EXCEPT ![t.replica] = e]
        BY <2>2 DEF ObserveTail
    <3>3. kept \in Entries /\ (kept.kind = "delivered" => kept = old)
        BY <3>1, AcknowledgeOps
    <3> HIDE DEF kept, old
    <3>4. e \in Entries /\ (e.kind = "delivered" => e = kept)
        BY <3>1, <3>3, AcknowledgeOps
    <3> HIDE DEF e
    <3>5. Kept(t.replica, e)
        BY <3>1, <3>2, <3>3, <3>4 DEF old
    <3> QED
        BY <3>5
  <2>3. ASSUME NEW s \in stops, StopTail(s) PROVE store' = store \/ \E r, e : Kept(r, e)
    <3> DEFINE e == Reclaim(store[s.replica], s.gen, s.seen)
    <3>1. s.replica \in Replicas /\ s.seen \in AnyFence /\ s.gen \in Nat /\ store[s.replica] \in Entries
        BY ResidentAssumption DEF ResidentTypeOK, Stops, AnyFence, Generations
    <3>2. store' = store \/ store' = [store EXCEPT ![s.replica] = e]
        BY <2>3 DEF StopTail
    <3>3. e \in Entries /\ (e.kind = "delivered" => e = store[s.replica])
        BY <3>1, AcknowledgeOps
    <3> HIDE DEF e
    <3> QED
        BY <3>1, <3>2, <3>3
  <2>4. ASSUME NEW d \in reads, ReadDrop(d) PROVE \E r, e : Kept(r, e)
    <3> DEFINE e == Restored(store[d.replica], d)
    <3>1. d \in Reads /\ d.replica \in Replicas /\ store[d.replica] \in Entries
        BY DEF ResidentTypeOK, Reads
    <3>2. store' = [store EXCEPT ![d.replica] = e]
        BY <2>4 DEF ReadDrop
    <3>3. e \in Entries /\ (e.kind = "delivered" => e = store[d.replica] \/ (d.again /\ e.fence = d.fence))
        BY <3>1, DeliveryOps
    <3>4. d.again => Follows(d.fence)
        BY DEF FencesFollow
    <3> HIDE DEF e
    <3>5. Kept(d.replica, e)
        BY <3>1, <3>2, <3>3, <3>4
    <3> QED
        BY <3>5
  <2>5. ASSUME NEW r \in Replicas, Restart(r) PROVE \E q, e : Kept(q, e)
    <3>1. Kept(r, NoEntry)
        BY <2>5, EntryShape DEF Restart, NoEntry
    <3> QED
        BY <3>1
  <2>6. store' = store \/ \E r, e : Kept(r, e)
      BY <2>1, <2>2, <2>3, <2>4, <2>5
  <2> QED
      BY <2>6 DEF ResidentTypeOK
<1>3. ResidentTypeOK' /\ RowInOrder'
    BY <1>0, <1>1, <1>2 DEF ResidentTypeOK, RowInOrder
<1>4. \A f \in AnyFence : Follows(f) => Follows(f)'
    BY <1>0 DEF Follows
<1>5. FencesFollow' /\ BytesMatch' /\ ServedOnce'
    BY <1>0, <1>1, <1>2, <1>3, <1>4, NothingServed
<1> QED
    BY <1>3, <1>5

\* The row's own fence follows it, and so does the absent one.
LEMMA RowFollows == ResidentInv => Follows(NoFence) /\ Follows(delivered)
BY FenceShape DEF ResidentInv, ResidentTypeOK, RowInOrder, Follows

\* What begin_delivery takes is of the generation that asks for it, and was
\* delivered before only under the same fence.
LEMMA TakesFacts ==
  ASSUME NEW e \in Entries, NEW f \in ResidentFences, NEW r \in Replicas, Takes(e, f), ResidentInv,
         e.kind = "delivered" => Follows(e.fence)
  PROVE  Unserved(Read(r, f, "taken", e.bytes, e.kind = "delivered", NoFence))
<1> DEFINE d == Read(r, f, "taken", e.bytes, e.kind = "delivered", NoFence)
<1>1. /\ d.replica = r /\ d.fence = f /\ d.phase = "taken" /\ d.bytes = e.bytes /\ d.seen = NoFence
      /\ d.again = (e.kind = "delivered")
    BY Zenon DEF Read
<1>2. e.bytes = f.gen /\ e.bytes \in Generations /\ (e.kind = "delivered" => e.fence = f)
    BY EntryShape DEF Takes
<1>3. d \in Reads
    BY <1>2 DEF Read, Reads
<1>4. d.again => Follows(d.fence)
    BY <1>1, <1>2
<1> HIDE DEF d
<1>5. Unserved(d)
    BY <1>1, <1>2, <1>3, <1>4, RowFollows DEF Unserved
<1> QED
    BY <1>5 DEF d

\* The steps of a read before it consumes.
LEMMA ReadSteps ==
  ASSUME ResidentInv,
         \/ \E r \in Replicas, l \in Leases : ReadBegin(r, l)
         \/ \E d \in reads : ReadFence(d) \/ ReadRehydrate(d)
  PROVE  ResidentInv'
<1> USE DEF rowVars, residentJobVars
<1>0. UNCHANGED <<rowVars, residentJobVars, handoff, sidecar, puts, stops, tails, given>>
    BY DEF ReadBegin, ReadFence, ReadRehydrate
<1>1. ASSUME NEW r \in Replicas, NEW l \in Leases, ReadBegin(r, l)
      PROVE  /\ store' \in [Replicas -> Entries]
             /\ \A q \in Replicas : store'[q].kind = "delivered" => store'[q] = store[q]
             /\ \A d \in reads' : d \in reads \/ Unserved(d)
  <2> DEFINE f == [gen |-> leaseGen[l], lease |-> l]
             e == store[r]
  <2>1. f \in ResidentFences /\ e \in Entries
      BY <1>1 DEF ReadBegin, OwnsLease, ResidentInv, ResidentTypeOK, RowInOrder, ResidentFences, Generations
  <2>2. InFlight(f) \in Entries /\ InFlight(f).kind = "inflight"
      BY <2>1, EntryShape DEF InFlight
  <2>3. \/ /\ Takes(e, f)
           /\ store' = [store EXCEPT ![r] = InFlight(f)]
           /\ reads' = reads \cup {Read(r, f, "taken", e.bytes, e.kind = "delivered", NoFence)}
        \/ /\ Loadable
           /\ reads' = reads \cup {Read(r, f, "loaded", handoff, FALSE, NoFence)}
           /\ UNCHANGED store
      BY <1>1 DEF ReadBegin
  <2>4. e.kind = "delivered" => Follows(e.fence)
      BY DEF ResidentInv, FencesFollow
  <2>5. Loadable => Unserved(Read(r, f, "loaded", handoff, FALSE, NoFence))
      BY <2>1, RowFollows DEF Loadable, Unserved, Read, Reads, Generations, ResidentInv, ResidentTypeOK
  <2>6. Takes(e, f) => Unserved(Read(r, f, "taken", e.bytes, e.kind = "delivered", NoFence))
      BY <2>1, <2>4, TakesFacts
  <2>7. store \in [Replicas -> Entries]
      BY DEF ResidentInv, ResidentTypeOK
  <2> HIDE DEF f, e
  <2> QED
      BY <2>2, <2>3, <2>5, <2>6, <2>7
<1>2. ASSUME NEW d \in reads, ReadFence(d)
      PROVE  /\ store' = store
             /\ \A c \in reads' : c \in reads \/ Unserved(c)
  <2>1. Unserved(Read(d.replica, d.fence, "fenced", d.bytes, FALSE, delivered))
      BY RowFollows DEF Unserved, Read, Reads, ResidentInv, ResidentTypeOK
  <2> QED
      BY <1>2, <2>1 DEF ReadFence
<1>3. ASSUME NEW d \in reads, ReadRehydrate(d)
      PROVE  /\ store' \in [Replicas -> Entries]
             /\ \A q \in Replicas : store'[q].kind = "delivered" => store'[q] = store[q] \/ Follows(store'[q].fence)
             /\ \A c \in reads' : c \in reads \/ Unserved(c)
  <2> DEFINE r == d.replica
             fresh == IF d.seen = NoFence THEN Ready(d.bytes) ELSE Delivered(d.bytes, d.seen)
             e == IF store[r] = NoEntry THEN fresh ELSE store[r]
             new == Read(r, d.fence, "taken", e.bytes, e.kind = "delivered", NoFence)
  <2>1. /\ r \in Replicas /\ d.fence \in ResidentFences /\ d.bytes \in Generations
        /\ d.seen \in AnyFence /\ Follows(d.seen) /\ store \in [Replicas -> Entries]
      BY DEF ResidentInv, ResidentTypeOK, FencesFollow, Reads, AnyFence
  <2>2. fresh \in Entries /\ (fresh.kind = "delivered" => Follows(fresh.fence))
      BY <2>1, EntryShape DEF AnyFence, Ready, Delivered
  <2> HIDE DEF fresh
  <2>3. e \in Entries /\ (e.kind = "delivered" => Follows(e.fence))
      BY <2>1, <2>2 DEF ResidentInv, FencesFollow
  <2>4. InFlight(d.fence) \in Entries /\ InFlight(d.fence).kind = "inflight"
      BY <2>1, EntryShape DEF InFlight
  <2>5. \/ reads' = reads \ {d} /\ UNCHANGED store
        \/ /\ Takes(e, d.fence) /\ store' = [store EXCEPT ![r] = InFlight(d.fence)]
           /\ reads' = (reads \ {d}) \cup {new}
        \/ store' = [store EXCEPT ![r] = e] /\ reads' = reads \ {d}
      BY <1>3 DEF ReadRehydrate, fresh
  <2> HIDE DEF e
  <2>6. Takes(e, d.fence) => Unserved(new)
      BY <2>1, <2>3, TakesFacts
  <2> HIDE DEF new, r
  <2> QED
      BY <2>1, <2>3, <2>4, <2>5, <2>6
<1>4. /\ store' \in [Replicas -> Entries]
      /\ \A q \in Replicas : store'[q].kind = "delivered" => store'[q] = store[q] \/ Follows(store'[q].fence)
      /\ \A c \in reads' : c \in reads \/ Unserved(c)
    BY <1>1, <1>2, <1>3 DEF ResidentInv, ResidentTypeOK
<1>5. reads' \subseteq Reads
    BY <1>4 DEF Unserved, ResidentInv, ResidentTypeOK
<1>6. ResidentTypeOK' /\ RowInOrder'
    BY <1>0, <1>4, <1>5 DEF ResidentInv, ResidentTypeOK, RowInOrder
<1>7. \A f \in AnyFence : Follows(f) => Follows(f)'
    BY <1>0 DEF Follows
<1>8. FencesFollow' /\ BytesMatch' /\ ServedOnce'
    BY <1>0, <1>4, <1>6, <1>7, NothingServed
<1> QED
    BY <1>6, <1>8 DEF ResidentInv

\* The consuming update: the row takes the fence, and no other fence of its
\* generation has been served.
LEMMA ConsumeStep ==
  ASSUME ResidentInv, NEW d \in reads, ReadConsume(d)
  PROVE  ResidentInv'
<1> DEFINE c == Read(d.replica, d.fence, "consumed", d.bytes, d.again, NoFence)
<1>0. d \in Reads /\ d.fence \in ResidentFences /\ d.phase = "taken" /\ d.bytes = d.fence.gen
    BY DEF ReadConsume, ResidentInv, ResidentTypeOK, BytesMatch, Reads
<1>1. /\ generation = d.fence.gen /\ delivered' = d.fence /\ generation' = generation
      /\ reads' = (reads \ {d}) \cup {c}
      /\ UNCHANGED <<bootstrap, desired, observed, active, acknowledged, residentJobVars,
                     handoff, store, sidecar, puts, stops, tails, given>>
    BY DEF ReadConsume, Consumable
<1>2. c \in Reads /\ c.fence = d.fence /\ c.bytes = d.bytes /\ c.seen = NoFence
    BY <1>0 DEF Read, Reads
<1> HIDE DEF c
<1>3. ResidentTypeOK' /\ RowInOrder'
    BY <1>0, <1>1, <1>2 DEF residentJobVars, ResidentInv, ResidentTypeOK, RowInOrder
<1>4. \A f \in AnyFence : Follows(f) => Follows(f)'
    BY FollowsStep
<1>5. Follows(d.fence)' /\ Follows(NoFence)'
  <2>1. Follows(NoFence)'
      BY <1>4, RowFollows DEF AnyFence
  <2>2. Follows(d.fence)'
    <3>1. PICK f \in ResidentFences : f = d.fence
        BY <1>0
    <3>2. f.gen = generation' /\ f = delivered' /\ f.gen \in Nat
        BY <1>1, <3>1, FenceShape
    <3> QED
        BY <1>1, <3>1, <3>2 DEF Follows
  <2> QED
      BY <2>1, <2>2
<1>6. FencesFollow'
  <2>1. \A r \in Replicas : store'[r].kind = "delivered" => Follows(store[r].fence)'
    <3> TAKE r \in Replicas
    <3> HAVE store'[r].kind = "delivered"
    <3>1. PICK f \in AnyFence : f = store[r].fence
        BY <1>1, EntryShape DEF ResidentInv, ResidentTypeOK, AnyFence
    <3>2. Follows(f)'
        BY <1>1, <1>4, <3>1 DEF ResidentInv, FencesFollow
    <3> QED
        BY <1>1, <3>1, <3>2 DEF Follows
  <2>2. \A x \in reads' : Follows(x.seen)' /\ (x.again \/ x.phase = "consumed" => Follows(x.fence)')
    <3> TAKE x \in reads'
    <3>1. CASE x = c
        BY <1>2, <1>5, <3>1 DEF Follows
    <3>2. CASE x \in reads
      <4>1. x.seen \in AnyFence /\ x.fence \in AnyFence
          BY <3>2 DEF ResidentInv, ResidentTypeOK, Reads, AnyFence
      <4> QED
          BY <1>4, <3>2, <4>1 DEF ResidentInv, FencesFollow
    <3> QED
        BY <1>1, <3>1, <3>2
  <2>3. \A x \in given' : Follows(x.fence)'
    <3> TAKE x \in given'
    <3>1. x \in given /\ x.fence \in AnyFence
        BY <1>1 DEF ResidentInv, ResidentTypeOK, AnyFence
    <3> QED
        BY <1>4, <3>1 DEF ResidentInv, FencesFollow
  <2> QED
      BY <2>1, <2>2, <2>3 DEF FencesFollow
<1>7. BytesMatch'
    BY <1>0, <1>1, <1>2 DEF ResidentInv, BytesMatch
<1>8. ServedOnce'
  <2>1. Served' \subseteq Served \cup {d.fence}
      BY <1>1, <1>2 DEF Served
  <2>2. \A f \in Served : f.gen = generation => f = d.fence
    <3> TAKE f \in Served
    <3> HAVE f.gen = generation
    <3>1. f \in ResidentFences /\ Follows(f)
        BY DEF Served, ResidentInv, ResidentTypeOK, FencesFollow, Reads
    <3>2. Follows(f)'
        BY <1>4, <3>1 DEF AnyFence
    <3> QED
        BY <1>1, <3>2 DEF Follows
  <2> QED
      BY <1>1, <2>1, <2>2 DEF ResidentInv, ServedOnce
<1> QED
    BY <1>3, <1>6, <1>7, <1>8 DEF ResidentInv

\* The answer: the bytes leave under a fence that was consumed.
LEMMA MarkStep ==
  ASSUME ResidentInv, NEW d \in reads, ReadMark(d)
  PROVE  ResidentInv'
<1> USE DEF rowVars, residentJobVars
<1> DEFINE e == Marked(store[d.replica], d)
           x == [fence |-> d.fence, bytes |-> d.bytes]
<1>0. /\ d \in Reads /\ d.replica \in Replicas /\ d.fence \in ResidentFences /\ d.bytes \in Generations
      /\ d.phase = "consumed" /\ d.bytes = d.fence.gen /\ Follows(d.fence)
    BY DEF ReadMark, ResidentInv, ResidentTypeOK, BytesMatch, FencesFollow, Reads
<1>1. /\ store' = [store EXCEPT ![d.replica] = e] /\ reads' = reads \ {d}
      /\ (given' = given \/ given' = given \cup {x})
      /\ UNCHANGED <<rowVars, residentJobVars, handoff, sidecar, puts, stops, tails>>
    BY DEF ReadMark
<1>2. e \in Entries /\ (e.kind = "delivered" => e = store[d.replica] \/ e.fence = d.fence)
    BY <1>0, DeliveryOps DEF ResidentInv, ResidentTypeOK
<1>3. x \in [fence : ResidentFences, bytes : Generations] /\ x.fence = d.fence /\ x.bytes = d.bytes
    BY <1>0
<1> HIDE DEF e, x
<1>4. ResidentTypeOK' /\ RowInOrder'
    BY <1>0, <1>1, <1>2, <1>3 DEF ResidentInv, ResidentTypeOK, RowInOrder
<1>5. \A f : Follows(f) => Follows(f)'
    BY <1>1 DEF Follows
<1>6. FencesFollow'
  <2>1. \A r \in Replicas : store'[r].kind = "delivered" => Follows(store[r].fence)'
    <3> TAKE r \in Replicas
    <3> HAVE store'[r].kind = "delivered"
    <3>1. Follows(store'[r].fence)
        BY <1>0, <1>1, <1>2 DEF ResidentInv, ResidentTypeOK, FencesFollow
    <3> QED
        BY <1>1, <3>1 DEF Follows
  <2>2. \A y \in reads' : Follows(y.seen)' /\ (y.again \/ y.phase = "consumed" => Follows(y.fence)')
      BY <1>1, <1>5 DEF ResidentInv, FencesFollow
  <2>3. \A y \in given' : Follows(y.fence)'
    <3> TAKE y \in given'
    <3>1. Follows(y.fence)
        BY <1>0, <1>1, <1>3 DEF ResidentInv, FencesFollow
    <3> QED
        BY <1>5, <3>1
  <2> QED
      BY <2>1, <2>2, <2>3 DEF FencesFollow
<1>7. BytesMatch'
    BY <1>0, <1>1, <1>3 DEF ResidentInv, BytesMatch
<1>8. Served' \subseteq Served
    BY <1>0, <1>1, <1>3 DEF Served
<1> QED
    BY <1>4, <1>6, <1>7, <1>8 DEF ResidentInv, ServedOnce

\* Every step keeps the invariant.
LEMMA ResidentStep == ResidentInv /\ [ResidentNext]_residentVars => ResidentInv'
<1> SUFFICES ASSUME ResidentInv, [ResidentNext]_residentVars PROVE ResidentInv'
    OBVIOUS
<1>1. CASE UNCHANGED residentVars
    BY <1>1 DEF residentVars, rowVars, residentJobVars, handlers, ResidentInv, ResidentTypeOK, RowInOrder,
       FencesFollow, Follows, BytesMatch, ServedOnce, Served
<1>2. CASE \E d \in reads : ReadConsume(d) \/ ReadMark(d)
    BY <1>2, ConsumeStep, MarkStep
<1>3. CASE \E p \in puts : PutCommit(p)
    BY <1>3, PutSteps
<1>4. CASE \/ \E r \in Replicas : Restart(r)
           \/ \E p \in puts : PutPublish(p)
           \/ \E d \in reads : ReadDrop(d)
           \/ \E t \in tails : ObserveTail(t)
           \/ \E s \in stops : StopTail(s)
    BY <1>4, StoreSteps
<1>5. CASE \/ \E r \in Replicas, l \in Leases : ReadBegin(r, l)
           \/ \E d \in reads : ReadFence(d) \/ ReadRehydrate(d)
    BY <1>5, ReadSteps
<1>6. CASE \/ \E r \in Replicas : StopRead(r)
           \/ \E r \in Replicas, b \in BOOLEAN : PutReserve(r, b)
           \/ \E l \in Leases : Claim(l) \/ Expire(l)
           \/ \E l \in Leases, b \in BOOLEAN : Complete(l, b) \/ Fail(l, b)
           \/ \E r \in Replicas, l \in Leases, s \in Reports : Observe(r, l, s)
           \/ HandoffExpires
           \/ SidecarChanges
           \/ \E p \in puts : PutFail(p)
           \/ \E s \in stops : StopCommit(s)
    BY <1>6, RowSteps
<1> QED
    BY <1>1, <1>2, <1>3, <1>4, <1>5, <1>6 DEF ResidentNext

\* The invariant holds in every state.
LEMMA ResidentInvariance == ResidentSpec => []ResidentInv
BY ResidentInitInv, ResidentStep, PTL DEF ResidentSpec

\* read_resident_process_bootstrap serves the bytes of a generation under one lease
\* only, and never those of another generation, for any number of replicas, leases
\* and generations.
THEOREM BootstrapHasOneReader == ResidentSpec => []OneReader
<1>1. ResidentInv => OneReader
    BY DEF ResidentInv, BytesMatch, ServedOnce, Served, OneReader
<1> QED
    BY <1>1, ResidentInvariance, PTL

\* A replica that holds the current generation as delivered agrees with the row.
THEOREM StoresFollowTheRow == ResidentSpec => []StoreFollowsRow
<1>1. ResidentInv => StoreFollowsRow
    BY DEF ResidentInv, FencesFollow, Follows, StoreFollowsRow
<1> QED
    BY <1>1, ResidentInvariance, PTL

-----------------------------------------------------------------------------
(* The placement proof. *)

\* A Pod is named only by the lease that the row had, of the row's generation, and
\* while the process is not over that lease is still the row's.
RowPod ==
  /\ ppod # 0 => plive \in {0, ppod} /\ plgen[ppod] = pgen
  /\ ppod # 0 /\ pobserved # "over" => plive = ppod
\* Every record names the Pod of its own lease, if any, and so does an issue under
\* way; an observation under way is of a lease.
RecordPod ==
  /\ \A l \in PLeaseIds : rpod[l] \in {0, l}
  /\ pissue = NoIssue \/ (pissue.lease \in PLeaseIds /\ pissue.pod \in {0, pissue.lease})
  /\ pobs.phase # "none" => pobs.lease \in PLeaseIds

\* What a request has read: the Pod of its lease, and a key that stands.
RequestPod ==
  /\ qphase \in {"fence", "row", "cas", "raced", "fence2", "row2"} =>
       qlease \in PLeaseIds /\ qpod \in {0, qlease}
  /\ qphase = "bound" => qlease \in PLeaseIds /\ qpod # 0
RequestKey ==
  /\ qphase \in {"idle", "bound"} => qkey = NoKey
  /\ qphase \in {"fence", "row"} => qkey \in ProofKeys /\ qseen \in {NoKey, rkey[qlease]}
  /\ qphase \in {"fence2", "row2", "granted"} /\ qkey # NoKey => qlease \in PLeaseIds /\ rkey[qlease] = qkey
  /\ qphase \in {"cas", "raced"} => qkey \in ProofKeys

ProofInv == ProofTypeOK /\ RowPod /\ RecordPod /\ RequestPod /\ RequestKey

\* Before anything is claimed the invariant holds.
LEMMA ProofInitInv == ProofInit => ProofInv
<1> SUFFICES ASSUME ProofInit PROVE ProofInv
    OBVIOUS
<1>1. /\ 0 \in 0..ProofGenerations /\ 0 \in 0..ProofLeases /\ 0 \in 0..ProofPlacements /\ 1 \in 1..ProofPlacements
      /\ 0 \notin PLeaseIds
    BY ProofAssumption DEF PLeaseIds
<1>2. ProofTypeOK
    BY <1>1, Zenon DEF ProofInit, ProofTypeOK, PodUids, NoIssue, NoObservation, NoTuple, Phases
<1>3. RowPod /\ RecordPod /\ RequestPod /\ RequestKey
    BY <1>1 DEF ProofInit, RowPod, RecordPod, RequestPod, RequestKey, NoIssue, NoObservation
<1> QED
    BY <1>2, <1>3 DEF ProofInv

\* Every claim, observation, issue, request and retirement keeps the invariant.
LEMMA ProofStep == ProofInv /\ [ProofNext]_pvars => ProofInv'
<1> SUFFICES ASSUME ProofInv, [ProofNext]_pvars PROVE ProofInv'
    OBVIOUS
<1>z. PLeaseIds \subseteq Nat /\ 0 \notin PLeaseIds /\ 0..ProofLeases = PLeaseIds \cup {0}
    BY ProofAssumption DEF PLeaseIds
<1> USE <1>z, ProofAssumption
        DEF ProofInv, ProofTypeOK, RowPod, RecordPod, RequestPod, RequestKey, prow, pplacement, pleases, precord,
            prequests, qread, qrest, PodUids, NoIssue, NoObservation, NoTuple, Phases, QTo
<1>1. CASE PutProcess
    BY <1>1 DEF PutProcess
<1>2. ASSUME NEW l \in PLeaseIds, NEW w \in ProofWorkers, ClaimProcess(l, w) PROVE ProofInv'
    BY <1>2 DEF ClaimProcess
<1>3. ASSUME NEW l \in PLeaseIds, LapseProcess(l) PROVE ProofInv'
    BY <1>3 DEF LapseProcess
<1>4. ASSUME NEW l \in PLeaseIds, NEW how \in {"requeue", "stopped", "failed"}, EndProcess(l, how) PROVE ProofInv'
    BY <1>4 DEF EndProcess
<1>5. CASE StopProcess
    BY <1>5 DEF StopProcess
<1>6. ASSUME NEW w \in ProofWorkers, MovePlacement(w) PROVE ProofInv'
    BY <1>6 DEF MovePlacement
<1>7. ASSUME NEW l \in PLeaseIds, ObservePod(l) PROVE ProofInv'
    BY <1>7 DEF ObservePod, NamesPod, PodOf
<1>8. ASSUME NEW l \in PLeaseIds, ObserveOver(l) PROVE ProofInv'
    BY <1>8 DEF ObserveOver
<1>9. CASE ObserveRecord
    BY <1>9 DEF ObserveRecord, PodOf
<1>10. ASSUME NEW s \in {"starting", "running"}, ObserveState(s) PROVE ProofInv'
    BY <1>10 DEF ObserveState
<1>11. ASSUME NEW l \in PLeaseIds, IssueFence(l) PROVE ProofInv'
    BY <1>11 DEF IssueFence, PlacementFence
<1>12. CASE IssueInsert
    BY <1>12 DEF IssueInsert
<1>13. ASSUME NEW l \in PLeaseIds, NEW k \in ProofKeys, RedeemFetch(l, k) PROVE ProofInv'
    BY <1>13 DEF RedeemFetch, Begin
<1>14. ASSUME NEW l \in PLeaseIds, NEW k \in ProofKeys, RedeemElsewhere(l, k) PROVE ProofInv'
    BY <1>14 DEF RedeemElsewhere, Redeems
<1>15. ASSUME NEW l \in PLeaseIds, ValidateFetch(l) PROVE ProofInv'
    BY <1>15 DEF ValidateFetch, Begin
<1>16. CASE ClaimsFence
    BY <1>16 DEF ClaimsFence, Forget
<1>17. CASE ClaimsRow
    BY <1>17 DEF ClaimsRow, Forget
<1>18. CASE RedeemUpdate
    BY <1>18 DEF RedeemUpdate, Redeems
<1>19. CASE RedeemRaced
    BY <1>19 DEF RedeemRaced, Forget
<1>20. CASE BindingRow
    BY <1>20 DEF BindingRow, RowBinds
<1>21. CASE BindingFence
    BY <1>21 DEF BindingFence, Forget
<1>22. CASE ProofAnswered
    BY <1>22 DEF ProofAnswered, Forget
<1>23. ASSUME NEW a \in Activations, Activate(a) PROVE ProofInv'
    BY <1>23 DEF Activate, LiveTuple
<1>24. CASE UNCHANGED pvars
    BY <1>24 DEF pvars
<1> QED
    BY <1>1, <1>2, <1>3, <1>4, <1>5, <1>6, <1>7, <1>8, <1>9, <1>10, <1>11, <1>12, <1>13, <1>14, <1>15, <1>16, <1>17, <1>18, <1>19, <1>20, <1>21, <1>22, <1>23, <1>24
    DEF ProofNext

\* A placement is vouched for only while it is there: at the last check of a
\* redemption, a validation or a binding the row has the lease and the Pod the
\* answer names, for any number of leases, generations and placements.
THEOREM VouchedIsLive == ProofSpec => ProofIsLive
<1>1. ProofInv /\ [ProofNext]_pvars => [VouchesForTheLiving]_pvars
  <2> SUFFICES ASSUME ProofInv, ProofNext, qphase # "granted", qphase' = "granted"
               PROVE  plive = qlease /\ plgen[qlease] = pgen /\ ppod = qpod /\ qpod # 0
      BY DEF VouchesForTheLiving
  <2>1. (ClaimsRow /\ qphase = "row2" /\ RowRuns) \/ (BindingFence /\ PlacementFence(qlease) /\ ppod = qpod)
    <3>1. ClaimsRow \/ BindingFence
        BY DEF ProofNext, PutProcess, ClaimProcess, LapseProcess, IssueFence, EndProcess, StopProcess, MovePlacement,
               ObservePod, ObserveOver, ObserveRecord, ObserveState, IssueInsert, RedeemFetch, RedeemElsewhere,
               ValidateFetch, Begin, ClaimsFence, RedeemUpdate, RedeemRaced, BindingRow, ProofAnswered, Activate,
               QTo, Forget, prequests
    <3>2. ClaimsRow => qphase = "row2" /\ RowRuns
        BY DEF ClaimsRow, QTo, Forget
    <3>3. BindingFence => PlacementFence(qlease) /\ ppod = qpod
        BY DEF BindingFence, QTo, Forget
    <3> QED
        BY <3>1, <3>2, <3>3
  <2>2. CASE ClaimsRow /\ qphase = "row2" /\ RowRuns
      BY <2>2 DEF RowRuns, ProofInv, RowPod, RequestPod
  <2>3. CASE BindingFence /\ PlacementFence(qlease) /\ ppod = qpod
      BY <2>3 DEF BindingFence, PlacementFence, ProofInv, RequestPod
  <2> QED
      BY <2>1, <2>2, <2>3
<1> QED
    BY <1>1, ProofInitInv, ProofStep, PTL DEF ProofSpec, ProofIsLive

\* A proof is used once: whoever is granted a redemption holds the key the record
\* was redeemed under, and neither that key nor the tuple an activation id proves
\* is ever replaced.
THEOREM ProofsUsedOnce == ProofSpec => ProofUsedOnce
<1>1. ProofInv /\ [ProofNext]_pvars => [UsedUnderOneKey]_pvars
  <2> SUFFICES ASSUME ProofInv, ProofInv', ProofNext PROVE UsedUnderOneKey
      BY ProofStep
  <2>1. qphase' = "granted" /\ qkey' # NoKey => rkey'[qlease'] = qkey'
      BY DEF ProofInv, RequestKey
  <2>2. ASSUME NEW l \in PLeaseIds, rkey[l] # NoKey PROVE rkey'[l] = rkey[l]
    <3>1. UNCHANGED rkey \/ \E k \in PLeaseIds : \E v : rkey[k] = NoKey /\ rkey' = [rkey EXCEPT ![k] = v]
      <4>1. CASE RedeemUpdate
          BY <4>1 DEF RedeemUpdate, Redeems, ProofInv, RequestPod
      <4>2. CASE \E k \in PLeaseIds, v \in ProofKeys : RedeemElsewhere(k, v)
          BY <4>2 DEF RedeemElsewhere, Redeems
      <4> QED
          BY <4>1, <4>2
          DEF ProofNext, PutProcess, ClaimProcess, LapseProcess, IssueFence, EndProcess, StopProcess, MovePlacement,
              ObservePod, ObserveOver, ObserveRecord, ObserveState, IssueInsert, RedeemFetch, ValidateFetch, Begin,
              ClaimsFence, ClaimsRow, RedeemRaced, BindingRow, BindingFence, ProofAnswered, Activate, precord, qrest
    <3> QED
        BY <2>2, <3>1 DEF ProofInv, ProofTypeOK
  <2>3. ASSUME NEW b \in Activations, pledger[b] # NoTuple PROVE pledger'[b] = pledger[b]
    <3>1. UNCHANGED pledger \/ \E a \in Activations : Activate(a)
        BY DEF ProofNext, PutProcess, ClaimProcess, LapseProcess, IssueFence, EndProcess, StopProcess, MovePlacement,
               ObservePod, ObserveOver, ObserveRecord, ObserveState, IssueInsert, RedeemFetch, ValidateFetch, Begin,
               ClaimsFence, ClaimsRow, RedeemUpdate, RedeemElsewhere, RedeemRaced, BindingRow, BindingFence,
               ProofAnswered, qrest
    <3> QED
        BY <2>3, <3>1 DEF Activate, Proves, LiveTuple, ProofInv, ProofTypeOK
  <2> QED
      BY <2>1, <2>2, <2>3 DEF UsedUnderOneKey
<1> QED
    BY <1>1, ProofInitInv, ProofStep, PTL DEF ProofSpec, ProofUsedOnce
=============================================================================
