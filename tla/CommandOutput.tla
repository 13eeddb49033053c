---------------------------- MODULE CommandOutput ----------------------------
(***************************************************************************)
(* The output of one command (handlers/commands.rs, handlers/leases.rs):   *)
(* the chunk rows a guest streams through its lease, the counters the      *)
(* commands row keeps of them, and what the end of the lease does to both. *)
(* A chunk is its stream, its sequence number, its size and the operation  *)
(* that appended it; what is in it is left out, so a completion may find   *)
(* that the result equals, continues or contradicts what was streamed.     *)
(*                                                                         *)
(* An append is three steps: the handler reads the lease, its transaction  *)
(* looks the operation up, and then locks the commands row and writes.     *)
(***************************************************************************)
EXTENDS Naturals, FiniteSets, Tally

CONSTANTS
    OutKeys,      \* the idempotency keys of the append requests
    OutAttempts,  \* max_attempts of the command's job
    OutChunks,    \* MAX_COMMAND_OUTPUT_CHUNKS
    OutBytes,     \* MAX_COMMAND_OUTPUT_BYTES
    OutChunk,     \* MAX_COMMAND_OUTPUT_CHUNK_BYTES, and the guest's capture limit
    NoOperation   \* the operation of a chunk that no request appended

ASSUME OutAssumption ==
    /\ NoOperation \notin OutKeys
    /\ OutAttempts \in Nat \ {0}
    /\ OutChunks \in Nat /\ OutBytes \in Nat /\ OutChunk \in Nat

VARIABLES
    yjob,      \* status of the run-command job
    ytries,    \* its attempts
    ylease,    \* status of the lease of the current attempt
    yrows,     \* the rows of command_output_chunks
    ycount,    \* output_chunk_count
    ybytes,    \* output_byte_count
    yseq,      \* stdout_output_sequence and stderr_output_sequence
    yreq,      \* the stage of each delivery of each append request
    ywhat      \* what each request appends: its attempt, stream and size

yvars == <<yjob, ytries, ylease, yrows, ycount, ybytes, yseq, yreq, ywhat>>

OutStreams == {"stdout", "stderr"}
Copies == {1, 2}
Stages == {"unsent", "sent", "checked", "looked", "answered"}
OutSizes == 1 .. OutChunk
OutRows == [s : OutStreams, n : Nat, size : Nat, k : OutKeys \cup {NoOperation}]

OutputTypeOK ==
    /\ yjob \in {"none", "queued", "leased", "succeeded", "failed", "dead"}
    /\ ytries \in 0 .. OutAttempts
    /\ ylease \in {"none", "active", "ended"}
    /\ yrows \subseteq OutRows
    /\ ycount \in Nat /\ ybytes \in Nat
    /\ yseq \in [OutStreams -> Nat]
    /\ yreq \in [OutKeys -> [Copies -> Stages]]
    /\ ywhat \in [OutKeys -> [t : 0 .. OutAttempts, s : OutStreams, size : OutSizes]]

OutputInit ==
    /\ yjob = "none"
    /\ ytries = 0
    /\ ylease = "none"
    /\ yrows = {}
    /\ ycount = 0
    /\ ybytes = 0
    /\ yseq = [s \in OutStreams |-> 0]
    /\ yreq = [k \in OutKeys |-> [c \in Copies |-> "unsent"]]
    /\ ywhat = [k \in OutKeys |-> [t |-> 0, s |-> "stdout", size |-> 1]]

outputTable == <<yrows, ycount, ybytes, yseq>>

-----------------------------------------------------------------------------
(* What a transaction that holds the lock of the commands row does. *)

(* validate_command_output_bounds *)
WithinBounds(count, bytes, size) ==
    /\ size <= OutChunk
    /\ count < OutChunks
    /\ bytes + size <= OutBytes

(* append_command_output_chunk_on_connection *)
AppendChunk(s, size, k) ==
    /\ yrows' = yrows \cup {[s |-> s, n |-> yseq[s] + 1, size |-> size, k |-> k]}
    /\ ycount' = ycount + 1
    /\ ybytes' = ybytes + size
    /\ yseq' = [yseq EXCEPT ![s] = @ + 1]

StreamRows(s) == {r \in yrows : r.s = s}
TotalSize(R) == SumOf([r \in R |-> r.size])

(* The operations that have a row in command_output_operations: the row of  *)
(* an operation goes with the chunk it names (on delete cascade).           *)
Recorded == {r.k : r \in yrows} \ {NoOperation}

(* reset_command_for_retry_on_connection *)
ResetOutput ==
    /\ yrows' = {}
    /\ ycount' = 0
    /\ ybytes' = 0
    /\ yseq' = [s \in OutStreams |-> 0]

-----------------------------------------------------------------------------
(* queue_command, and the claim of its job. *)

QueueCommand ==
    /\ yjob = "none"
    /\ yjob' = "queued"
    /\ UNCHANGED <<ytries, ylease, outputTable, yreq, ywhat>>

ClaimRun ==
    /\ yjob = "queued"
    /\ yjob' = "leased"
    /\ ytries' = ytries + 1
    /\ ylease' = "active"
    /\ UNCHANGED <<outputTable, yreq, ywhat>>

-----------------------------------------------------------------------------
(* append_lease_output.  The guest sends each piece once, with a key of its *)
(* own; a request may be delivered twice, and late.                         *)

SendOutput(k, s, size) ==
    /\ yjob = "leased"
    /\ \A c \in Copies : yreq[k][c] = "unsent"
    /\ \E C \in {{1}, Copies} :
          yreq' = [yreq EXCEPT ![k] = [c \in Copies |-> IF c \in C THEN "sent" ELSE "unsent"]]
    /\ ywhat' = [ywhat EXCEPT ![k] = [t |-> ytries, s |-> s, size |-> size]]
    /\ UNCHANGED <<yjob, ytries, ylease, outputTable>>

At(k, c, stage) == yreq[k][c] = stage
Reaches(k, c, stage) == yreq' = [yreq EXCEPT ![k][c] = stage]

(* The lease must be active, in a read of its own. *)
AppendChecks(k, c) ==
    /\ At(k, c, "sent")
    /\ Reaches(k, c, IF ylease = "active" /\ ywhat[k].t = ytries THEN "checked"
                                                                ELSE "answered")
    /\ UNCHANGED <<yjob, ytries, ylease, outputTable, ywhat>>

(* An operation that is recorded is answered with its chunk. *)
AppendLooks(k, c) ==
    /\ At(k, c, "checked")
    /\ Reaches(k, c, IF k \in Recorded THEN "answered" ELSE "looked")
    /\ UNCHANGED <<yjob, ytries, ylease, outputTable, ywhat>>

(* mutant: the operation is not recorded, so nothing refuses a second chunk *)
UnrecordedToo(k) == TRUE

(* The primary key of command_output_operations refuses a second row, and   *)
(* the transaction its chunk with it.                                       *)
Unrecorded(k) == k \notin Recorded

AppendWrites(k, c) ==
    /\ At(k, c, "looked")
    /\ IF WithinBounds(ycount, ybytes, ywhat[k].size) /\ Unrecorded(k)
       THEN AppendChunk(ywhat[k].s, ywhat[k].size, k)
       ELSE UNCHANGED outputTable
    /\ Reaches(k, c, "answered")
    /\ UNCHANGED <<yjob, ytries, ylease, ywhat>>

-----------------------------------------------------------------------------
(* append_completion_output_on_connection for the streams of a result. The  *)
(* second stream works on what the first has left.                          *)

(* What a stream of "size" bytes does to the counters: nothing when it is   *)
(* empty or all there, one more chunk when it continues what is there, and  *)
(* otherwise the stream's chunks give way to one.                           *)
Unmoved == [gone |-> {}, size |-> 0]

(* mutant: a result that contradicts the stream leaves its bytes counted *)
FreedBytesForgotten(p) == 0

FreedBytes(p) == TotalSize(p.gone)

Settlements(s, size) ==
    IF size = 0 THEN {Unmoved}
    ELSE {p \in {Unmoved} : size = TotalSize(StreamRows(s))}
         \cup {p \in {[gone |-> {}, size |-> size - TotalSize(StreamRows(s))]} :
                  size > TotalSize(StreamRows(s))}
         \cup {p \in {[gone |-> StreamRows(s), size |-> size]} : StreamRows(s) # {}}

CountAfter(p, count) == count - Cardinality(p.gone)
BytesAfter(p, bytes) == bytes - FreedBytes(p)
Adds(p) == IF p.size > 0 THEN 1 ELSE 0
SeqAfter(p, s) == (IF p.gone # {} THEN 0 ELSE yseq[s]) + Adds(p)

NewRow(p, s) ==
    {r \in {[s |-> s, n |-> SeqAfter(p, s), size |-> p.size, k |-> NoOperation]} : p.size > 0}

(* The output of a stream settled under plan p within the bounds. *)
Fits(p, count, bytes) ==
    p.size > 0 => WithinBounds(CountAfter(p, count), BytesAfter(p, bytes), p.size)

(* complete_lease: the result of a command that ran to its end.  A result   *)
(* that does not fit is refused and the lease stays as it was.              *)
CompleteCommand(out, err) ==
    /\ ylease = "active"
    /\ \E p \in Settlements("stdout", out), q \in Settlements("stderr", err) :
        LET count == CountAfter(p, ycount) + Adds(p)
            bytes == BytesAfter(p, ybytes) + p.size
        IN /\ Fits(p, ycount, ybytes)
           /\ Fits(q, count, bytes)
           /\ yrows' = (yrows \ (p.gone \cup q.gone)) \cup NewRow(p, "stdout")
                                                     \cup NewRow(q, "stderr")
           /\ ycount' = CountAfter(q, count) + Adds(q)
           /\ ybytes' = BytesAfter(q, bytes) + q.size
           /\ yseq' = [yseq EXCEPT !["stdout"] = SeqAfter(p, "stdout"),
                                   !["stderr"] = SeqAfter(q, "stderr")]
    /\ ylease' = "ended"
    /\ yjob' = "succeeded"
    /\ UNCHANGED <<ytries, yreq, ywhat>>

(* apply_retryable_job_on_connection *)
RetryCommand ==
    /\ ylease' = "ended"
    /\ yjob' = "queued"
    /\ ResetOutput

(* apply_failed_job_on_connection appends the error to stderr first, and    *)
(* the bounds hold for it as well.                                          *)
EndFits(size) == WithinBounds(ycount, ybytes, size)

EndCommand(status, size) ==
    /\ EndFits(size)
    /\ ylease' = "ended"
    /\ yjob' = status
    /\ AppendChunk("stderr", size, NoOperation)

(* fail_lease, with the error's size. *)
FailCommand(retry, size) ==
    /\ ylease = "active"
    /\ IF retry /\ ytries < OutAttempts THEN RetryCommand ELSE EndCommand("failed", size)
    /\ UNCHANGED <<ytries, yreq, ywhat>>

(* expire_lease_if_still_active, for a lease that is due. *)
ExpireCommand ==
    /\ ylease = "active"
    /\ IF ytries < OutAttempts THEN RetryCommand ELSE EndCommand("dead", 1)
    /\ UNCHANGED <<ytries, yreq, ywhat>>

(* Everything but the expiry of the lease. *)
CommandNext ==
    \/ QueueCommand
    \/ ClaimRun
    \/ \E k \in OutKeys, s \in OutStreams, size \in OutSizes : SendOutput(k, s, size)
    \/ \E k \in OutKeys, c \in Copies :
          AppendChecks(k, c) \/ AppendLooks(k, c) \/ AppendWrites(k, c)
    \/ \E out, err \in 0 .. OutChunk + 1 : CompleteCommand(out, err)
    \/ \E retry \in BOOLEAN : FailCommand(retry, 1)

OutputNext == CommandNext \/ ExpireCommand

OutputSpec == OutputInit /\ [][OutputNext]_yvars

-----------------------------------------------------------------------------
(* The commands row counts its chunks: their number, their bytes and, for   *)
(* each stream, a last sequence number with no gap and no double below it,  *)
(* whatever appends, replays, replacements and resets came in which order.  *)
(* The bounds on output and the order of the chunks rest on it.             *)
CountersMatchRows ==
    /\ ycount = Cardinality(yrows)
    /\ ybytes = TotalSize(yrows)
    /\ \A s \in OutStreams :
          /\ {r.n : r \in StreamRows(s)} = 1 .. yseq[s]
          /\ Cardinality(StreamRows(s)) = yseq[s]

(* An operation has one chunk at most, although the look-up of a delivery   *)
(* and its write are apart and a reset or a replacement between them takes  *)
(* the record of the operation away.                                        *)
OneChunkPerOperation ==
    \A r, q \in yrows : r.k = q.k /\ r.k # NoOperation => r = q

-----------------------------------------------------------------------------
=============================================================================
