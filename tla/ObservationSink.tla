--------------------------- MODULE ObservationSink ---------------------------
(***************************************************************************)
(* ActivationObservationSink: identity validations are counted through a   *)
(* bounded queue and one batching writer, and what is lost is counted too. *)
(* The writer runs as long as the process, so its channel never closes.    *)
(***************************************************************************)
EXTENDS Naturals, Sequences, FiniteSets, Tally

CONSTANTS
  SinkKeys,        \* bound: (tenant, outcome, reason) keys
  SinkCapacity,    \* DEFAULT_QUEUE_CAPACITY
  SinkBatch,       \* MAX_BATCH_SIZE
  SinkTotal        \* bound: observations

ASSUME SinkAssumption ==
  IsFiniteSet(SinkKeys) /\ {SinkCapacity, SinkBatch, SinkTotal} \subseteq Nat \ {0}

VARIABLES
  zqueue,          \* the channel
  zbatch,          \* flush_batch: sample_count of each key still to be written
  zstored,         \* the persisted sample_count of each key
  zlost,           \* Losses, by reason
  zmade            \* observations made

zvars == <<zqueue, zbatch, zstored, zlost, zmade>>

LossReasons == {"queue_full", "write_failed"}

SinkTypeOK ==
  /\ zqueue \in Seq(SinkKeys) /\ Len(zqueue) <= SinkCapacity
  /\ zbatch \in [SinkKeys -> 0..SinkBatch]
  /\ zstored \in [SinkKeys -> 0..SinkTotal] /\ zlost \in [LossReasons -> 0..(2 * SinkTotal)]
  /\ zmade \in 0..SinkTotal

SinkInit ==
  /\ zqueue = << >> /\ zmade = 0
  /\ zbatch = [k \in SinkKeys |-> 0] /\ zstored = [k \in SinkKeys |-> 0]
  /\ zlost = [r \in LossReasons |-> 0]

Lose(reason, n) == zlost' = [zlost EXCEPT ![reason] = @ + n]

\* try_enqueue, which never waits.
TryEnqueue(k) ==
  /\ zmade < SinkTotal /\ zmade' = zmade + 1
  /\ \/ Len(zqueue) >= SinkCapacity /\ Lose("queue_full", 1) /\ UNCHANGED zqueue
     \/ Len(zqueue) < SinkCapacity /\ zqueue' = Append(zqueue, k) /\ UNCHANGED zlost
  /\ UNCHANGED <<zbatch, zstored>>

\* run_writer: the first message and whatever else is there, up to a batch, added
\* up by key.
TakeBatch ==
  /\ zqueue # << >> /\ \A k \in SinkKeys : zbatch[k] = 0
  /\ \E n \in 1..SinkBatch :
       /\ n <= Len(zqueue)
       /\ zbatch' = [k \in SinkKeys |-> Cardinality({i \in 1..n : zqueue[i] = k})]
       /\ zqueue' = SubSeq(zqueue, n + 1, Len(zqueue))
  /\ UNCHANGED <<zstored, zlost, zmade>>

\* Mutant: a failed write counts once.
LostSamplesOnce(k) == 1

\* What a failed write of a key's aggregate counts as lost.
LostSamples(k) == zbatch[k]

\* write_aggregate: the upsert adds the samples, or fails before or after it did.
WriteAggregate(k) ==
  /\ zbatch[k] > 0
  /\ zbatch' = [zbatch EXCEPT ![k] = 0]
  /\ zstored' \in {zstored, [zstored EXCEPT ![k] = @ + zbatch[k]]}
  /\ \/ zstored' # zstored /\ UNCHANGED zlost
     \/ Lose("write_failed", LostSamples(k))
  /\ UNCHANGED <<zqueue, zmade>>

SinkNext == TakeBatch \/ \E k \in SinkKeys : TryEnqueue(k) \/ WriteAggregate(k)

SinkSpec == SinkInit /\ [][SinkNext]_zvars

-----------------------------------------------------------------------------
(* Properties. *)

\* An observation is in the queue, in the batch, in the table or counted as lost:
\* dropping it never erases it silently, as the sink's comment promises
\* (maestro_observation.rs:70), even when one batch mixes keys whose writes fail
\* and succeed.
NothingErasedSilently ==
  zmade <= Len(zqueue) + SumOf(zbatch) + SumOf(zstored) + SumOf(zlost)
=============================================================================
