------------------------------ MODULE LeaseSweep ------------------------------
(***************************************************************************)
(* expire_due_leases (handlers/leases.rs) over two leases: the lease of    *)
(* the command of CommandOutput, and one of another job.  The sweep        *)
(* selects what is due, first due first, and expires each in a transaction *)
(* of its own; an error of one is the end of the sweep.                    *)
(***************************************************************************)
EXTENDS CommandOutput, Sequences

VARIABLES
    other,    \* status of the lease of another job
    overdue,  \* the active leases that are due, first due first
    batch     \* the leases the sweep has selected and not yet come to

sweepVars == <<yvars, other, overdue, batch>>

SweepTypeOK ==
    /\ OutputTypeOK
    /\ other \in {"active", "expired"}
    /\ overdue \in Seq({"command", "other"})
    /\ batch \in Seq({"command", "other"})

SweepInit ==
    /\ OutputInit
    /\ other = "active"
    /\ overdue = <<>>
    /\ batch = <<>>

IsDue(l) == \E i \in DOMAIN overdue : overdue[i] = l
Without(l) == SelectSeq(overdue, LAMBDA o : o # l)

(* A step of the command; its lease is no longer due when it ends. *)
CommandStep ==
    /\ CommandNext
    /\ overdue' = IF ylease' = "active" THEN overdue ELSE Without("command")
    /\ UNCHANGED <<other, batch>>

(* A lease that is due can no longer be renewed. *)
LeaseLapses(l) ==
    /\ ~IsDue(l)
    /\ (IF l = "command" THEN ylease ELSE other) = "active"
    /\ overdue' = Append(overdue, l)
    /\ UNCHANGED <<yvars, other, batch>>

SweepSelects ==
    /\ batch = <<>>
    /\ overdue # <<>>
    /\ batch' = overdue
    /\ UNCHANGED <<yvars, other, overdue>>

SweepExpires ==
    /\ batch # <<>>
    /\ LET l == Head(batch) IN
         /\ IF IsDue(l) /\ l = "command" THEN ExpireCommand ELSE UNCHANGED yvars
         /\ other' = IF l = "other" THEN "expired" ELSE other
         /\ overdue' = Without(l)
    /\ batch' = Tail(batch)

(* The end of the command's lease cannot be applied: the transaction is     *)
(* rolled back and the sweep returns the error.                             *)
SweepFails ==
    /\ batch # <<>>
    /\ Head(batch) = "command" /\ IsDue("command")
    /\ ytries >= OutAttempts /\ ~EndFits(1)
    /\ batch' = <<>>
    /\ UNCHANGED <<yvars, other, overdue>>

Sweep == SweepSelects \/ SweepExpires \/ SweepFails

SweepNext == CommandStep \/ (\E l \in {"command", "other"} : LeaseLapses(l)) \/ Sweep

(* The ticker never stops: the error of a sweep is logged and the next      *)
(* sweep is due a second later (scheduler.rs).                              *)
SweepSpec == SweepInit /\ [][SweepNext]_sweepVars /\ WF_sweepVars(Sweep)

-----------------------------------------------------------------------------
(* A lease that is due is expired by a sweep.  "At the default one-second   *)
(* interval this can catch up 60,000 leases per minute while bounding each  *)
(* tick" (leases.rs): the sweep gets to every lease that is due.            *)
DueLeasesExpire == IsDue("other") ~> other = "expired"

-----------------------------------------------------------------------------
=============================================================================
