--------------------------- MODULE InstructionRead ---------------------------
(***************************************************************************)
(* One read of a sandbox's task instructions: a tenant's request waits in  *)
(* its replica for the worker's callback, which may land in that replica   *)
(* or in another, several times, while the wait times out, the client goes *)
(* away, the tenant retries under its key and the lease ends.              *)
(***************************************************************************)
EXTENDS Naturals

CONSTANT ReadCalls    \* bound: deliveries of the callback

VARIABLES
  xrow, xlease,       \* apex_instruction_reads: state, and lease_id is set
  xjob,               \* its job
  xwaiter, xsent,     \* the replica's sender for the nonce; bytes in the channel
  xreader,            \* the tenant's request
  xcall, xsaw,        \* each callback: where it is, waiter_available
  xacks               \* acknowledgements given: the state each implies

xvars == <<xrow, xlease, xjob, xwaiter, xsent, xreader, xcall, xsaw, xacks>>
xcalls == <<xcall, xsaw, xacks>>

ReadTypeOK ==
  /\ xrow \in {"none", "pending", "completed", "unavailable", "failed"} /\ xlease \in BOOLEAN
  /\ xjob \in {"none", "queued", "leased", "completed", "failed"}
  /\ xwaiter \in BOOLEAN /\ xsent \in BOOLEAN
  /\ xreader \in {"new", "inserting", "waiting", "late", "reread", "output", "unavailable", "gone"}
  /\ xcall \in [ReadCalls -> {"new", "looking", "saw", "won", "done"}] /\ xsaw \in [ReadCalls -> BOOLEAN]
  /\ xacks \subseteq {"completed", "unavailable"}

ReadInit ==
  /\ xrow = "none" /\ xlease = FALSE /\ xjob = "none"
  /\ xwaiter = FALSE /\ xsent = FALSE /\ xreader = "new"
  /\ xcall = [c \in ReadCalls |-> "new"] /\ xsaw = [c \in ReadCalls |-> FALSE] /\ xacks = {}

\* A ready sandbox, no row under the key and room in the replica: the waiter is
\* put up first.
InsertWaiter ==
  /\ xreader = "new" /\ xreader' = "inserting" /\ xwaiter' = TRUE
  /\ UNCHANGED <<xrow, xlease, xjob, xsent, xcalls>>

\* Then one transaction inserts the row and the job, or fails with the request.
InsertRead ==
  /\ xreader = "inserting"
  /\ \/ xreader' = "waiting" /\ xrow' = "pending" /\ xjob' = "queued" /\ UNCHANGED xwaiter
     \/ xreader' = "gone" /\ xwaiter' = FALSE /\ UNCHANGED <<xrow, xjob>>
  /\ UNCHANGED <<xlease, xsent, xcalls>>

\* mark_unavailable.
MarkUnavailable == xrow' = IF xrow = "pending" THEN "unavailable" ELSE xrow

Receive ==
  /\ xreader = "waiting" /\ xsent /\ xreader' = "output" /\ xsent' = FALSE /\ xwaiter' = FALSE
  /\ UNCHANGED <<xrow, xlease, xjob, xcalls>>

\* The wait ends without output, maybe just as it is sent; the guard keeps the
\* waiter up until the answer.
TimeOut ==
  /\ xreader = "waiting" /\ xreader' = "late" /\ xsent' = FALSE
  /\ UNCHANGED <<xrow, xlease, xjob, xwaiter, xcalls>>
GiveUpRead ==
  /\ xreader = "late" /\ xreader' = "reread" /\ MarkUnavailable
  /\ UNCHANGED <<xlease, xjob, xwaiter, xsent, xcalls>>
AnswerUnavailable ==
  /\ xreader = "reread" /\ xreader' = "unavailable" /\ xwaiter' = FALSE
  /\ UNCHANGED <<xrow, xlease, xjob, xsent, xcalls>>

\* The client disconnects, or the replica dies: ApexWaiterGuard.
Disconnect ==
  /\ xreader \in {"inserting", "waiting", "late", "reread"}
  /\ xreader' = "gone" /\ xwaiter' = FALSE /\ xsent' = FALSE
  /\ UNCHANGED <<xrow, xlease, xjob, xcalls>>

\* A retry under the key, once the row has expired: never the output.
RetryRead ==
  /\ xrow = "pending" /\ xreader \notin {"inserting", "waiting"} /\ MarkUnavailable
  /\ UNCHANGED <<xlease, xjob, xwaiter, xsent, xreader, xcalls>>

ClaimRead ==
  /\ xjob = "queued" /\ xjob' = "leased"
  /\ UNCHANGED <<xrow, xlease, xwaiter, xsent, xreader, xcalls>>

\* The job fails, lapses or ages out; it is attempted once.
FailRead ==
  /\ xjob \in {"queued", "leased"} /\ xjob' = "failed"
  /\ xrow' = IF xrow = "pending" THEN "failed" ELSE xrow
  /\ UNCHANGED <<xlease, xwaiter, xsent, xreader, xcalls>>

\* The callback's lease is active and its digest the expected one.
CallbackArrives(c) ==
  /\ xcall[c] = "new" /\ xjob = "leased" /\ xcall' = [xcall EXCEPT ![c] = "looking"]
  /\ UNCHANGED <<xrow, xlease, xjob, xwaiter, xsent, xreader, xsaw, xacks>>

\* has_sender, in the replica it landed in.
CallbackLooks(c) ==
  /\ xcall[c] = "looking" /\ xcall' = [xcall EXCEPT ![c] = "saw"]
  /\ \E home \in BOOLEAN : xsaw' = [xsaw EXCEPT ![c] = home /\ xwaiter]
  /\ UNCHANGED <<xrow, xlease, xjob, xwaiter, xsent, xreader, xacks>>

\* Mutant: whoever answered before.
RecordsAgain == xrow \in {"pending", "unavailable"}

\* The row takes one callback's outcome.
Records == xrow = "pending" \/ (xrow = "unavailable" /\ ~xlease)

\* The update; a callback that changed nothing answers what is there, if that is
\* a callback's outcome, and a 404 else.
CallbackUpdates(c) ==
  /\ xcall[c] = "saw"
  /\ \/ /\ Records /\ xcall' = [xcall EXCEPT ![c] = "won"] /\ xlease' = TRUE
        /\ xrow' = IF xsaw[c] THEN "completed" ELSE "unavailable"
        /\ UNCHANGED xacks
     \/ /\ ~Records /\ xcall' = [xcall EXCEPT ![c] = "done"]
        /\ xacks' = IF xlease THEN xacks \cup {xrow} ELSE xacks
        /\ UNCHANGED <<xrow, xlease>>
  /\ UNCHANGED <<xjob, xwaiter, xsent, xreader, xsaw>>

\* The winner takes the waiter it saw, sends if it is still there, and answers.
CallbackSends(c) ==
  /\ xcall[c] = "won" /\ xcall' = [xcall EXCEPT ![c] = "done"]
  /\ xwaiter' = (xwaiter /\ ~xsaw[c])
  /\ xsent' = (xsent \/ (xsaw[c] /\ xwaiter /\ xreader = "waiting"))
  /\ xacks' = xacks \cup {IF xsaw[c] THEN "completed" ELSE "unavailable"}
  /\ UNCHANGED <<xrow, xlease, xjob, xreader, xsaw>>

\* The worker completes the lease with what it was told.
CompleteRead ==
  /\ xjob = "leased" /\ xrow \in xacks /\ xlease /\ xjob' = "completed"
  /\ UNCHANGED <<xrow, xlease, xwaiter, xsent, xreader, xcalls>>

ReadNext ==
  \/ InsertWaiter \/ InsertRead \/ Receive \/ TimeOut \/ GiveUpRead \/ AnswerUnavailable
  \/ Disconnect \/ RetryRead \/ ClaimRead \/ FailRead \/ CompleteRead
  \/ \E c \in ReadCalls : CallbackArrives(c) \/ CallbackLooks(c) \/ CallbackUpdates(c) \/ CallbackSends(c)

ReadSpec == ReadInit /\ [][ReadNext]_xvars

-----------------------------------------------------------------------------
(* Properties. *)

\* However many callbacks overlap, in whichever replicas, every acknowledgement
\* tells the worker the state the row keeps from then on, so that the completion
\* it builds on it is not refused; and the tenant has the output only when no
\* acknowledgement calls it unavailable (apex_instructions.rs:456 reads the waiter
\* before the update that decides).
AcknowledgementsHold ==
  /\ xacks \subseteq {xrow}
  /\ (xsent \/ xreader = "output") => xrow = "completed"
=============================================================================
