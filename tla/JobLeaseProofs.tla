--------------------------- MODULE JobLeaseProofs ---------------------------
(***************************************************************************)
(* Proofs about JobLease, for every number of jobs, workers, leases, claim *)
(* requests and drains and every value of the time constants.              *)
(***************************************************************************)
EXTENDS JobLease, FiniteSetTheorems, TLAPS

USE JobLeaseAssumption

(* Next, flattened into its actions.                                       *)
LEMMA NextCases ==
    ASSUME Next
    PROVE  \/ \E j \in Jobs : CreateJob(j)
           \/ \E r \in Requests, w \in Workers, o \in Operations \cup {None},
                 j \in Jobs : ScanCandidates(r, w, o, j)
           \/ \E r \in Requests : RejectPlacement(r)
           \/ \E r \in Requests, l \in Leases, n \in LeaseSeconds :
                 TryClaimJob(r, l, n)
           \/ \E r \in Requests : AbandonClaim(r)
           \/ \E l \in Leases, n \in LeaseSeconds : RenewLease(l, n)
           \/ \E l \in Leases : CompleteLease(l)
           \/ \E l \in Leases, retry \in BOOLEAN : FailLease(l, retry)
           \/ \E l \in Leases : DeliverBootstrap(l)
           \/ \E S \in StopScopes : StopSandbox(S)
           \/ \E j \in Jobs : StopResidentProcess(j)
           \/ \E w \in Workers, n \in Capacities : RegisterWorker(w, n)
           \/ \E w \in Workers, n \in Capacities : HeartbeatWorker(w, n)
           \/ \E w \in Workers : DrainWithoutReceipt(w)
           \/ \E w \in Workers, s \in Shutdowns, n \in DrainSeconds :
                 DrainWithReceipt(w, s, n)
           \/ \E l \in Leases : ExpireLease(l)
           \/ \E j \in Jobs : ExpireStaleQueuedJob(j)
           \/ RetireDrainReceipts
           \/ \E w \in Workers : ReconcileWorkerLiveness(w)
           \/ Tick
BY Zenon DEF Next, Claim, Hold, Withdraw, Session, Sweep

-----------------------------------------------------------------------------
(* Type correctness.                                                       *)

(* References are resolved: a lease row names a job and a worker, a scanned *)
(* claim too, and a receipt its worker.                                     *)
Resolved ==
    /\ \A l \in Leases : leaseStatus[l] # "none" =>
          leaseJob[l] \in Jobs /\ leaseWorker[l] \in Workers
    /\ \A r \in Requests : claims[r].phase = "scanned" =>
          claims[r].job \in Jobs /\ claims[r].worker \in Workers
    /\ \A s \in Shutdowns : receiptStatus[s] # "none" =>
          receiptWorker[s] \in Workers

TypeInv == TypeOK /\ Resolved

USE DEF ClaimRow, JobStatus, TerminalJobStatus, LeaseStatus,
        TerminalLeaseStatus, WorkerStatus, ReceiptStatus, FenceOutcome

LEMMA TypeInit == Init => TypeInv
BY DEF Init, TypeInv, TypeOK, Resolved, IdleClaim

(* A terminal transition keeps every table well typed.                     *)
LEMMA TerminateTypes ==
    ASSUME TypeInv, NEW l \in Leases, NEW ls \in TerminalLeaseStatus,
           NEW js \in JobStatus, IsActive(l), Terminate(l, ls, js)
    PROVE  TypeInv'
BY DEF TypeInv, TypeOK, Resolved, Terminate, ResolveCaptured, IsActive,
       workerTable, residentTable

LEMMA TypeStep == TypeInv /\ [Next]_vars => TypeInv'
<1> SUFFICES ASSUME TypeInv, [Next]_vars PROVE TypeInv'
    OBVIOUS
<1> USE DEF TypeInv, TypeOK, Resolved, jobTable, leaseTable, workerTable,
            drainTable, residentTable
<1>1. CASE UNCHANGED vars
    BY <1>1 DEF vars
<1>2. CASE \E j \in Jobs : CreateJob(j)
    BY <1>2 DEF CreateJob
<1>3. CASE \E r \in Requests, w \in Workers, o \in Operations \cup {None},
              j \in Jobs : ScanCandidates(r, w, o, j)
    BY <1>3 DEF ScanCandidates
<1>4. CASE \E r \in Requests : RejectPlacement(r)
    BY <1>4 DEF RejectPlacement, IdleClaim
<1>5. CASE \E r \in Requests, l \in Leases, n \in LeaseSeconds :
              TryClaimJob(r, l, n)
    BY <1>5 DEF TryClaimJob, IdleClaim
<1>6. CASE \E r \in Requests : AbandonClaim(r)
    BY <1>6 DEF AbandonClaim, IdleClaim
<1>7. CASE \E l \in Leases, n \in LeaseSeconds : RenewLease(l, n)
    BY <1>7 DEF RenewLease, RenewedTtl, IsActive
<1>8. CASE \E l \in Leases : CompleteLease(l)
    BY <1>8, TerminateTypes DEF CompleteLease
<1>9. CASE \E l \in Leases, retry \in BOOLEAN : FailLease(l, retry)
    BY <1>9, TerminateTypes DEF FailLease
<1>10. CASE \E l \in Leases : DeliverBootstrap(l)
    BY <1>10 DEF DeliverBootstrap
<1>11. CASE \E S \in StopScopes : StopSandbox(S)
    BY <1>11 DEF StopSandbox, IsActive
<1>12. CASE \E j \in Jobs : StopResidentProcess(j)
    BY <1>12 DEF StopResidentProcess
<1>13. CASE \E w \in Workers, n \in Capacities : RegisterWorker(w, n)
    BY <1>13 DEF RegisterWorker
<1>14. CASE \E w \in Workers, n \in Capacities : HeartbeatWorker(w, n)
    BY <1>14 DEF HeartbeatWorker
<1>15. CASE \E w \in Workers : DrainWithoutReceipt(w)
    BY <1>15 DEF DrainWithoutReceipt
<1>16. CASE \E w \in Workers, s \in Shutdowns, n \in DrainSeconds :
               DrainWithReceipt(w, s, n)
    BY <1>16 DEF DrainWithReceipt, Minimum, HoldsActive, IsActive
<1>17. CASE \E l \in Leases : ExpireLease(l)
    BY <1>17, TerminateTypes DEF ExpireLease, AfterExpiry
<1>18. CASE \E j \in Jobs : ExpireStaleQueuedJob(j)
    BY <1>18 DEF ExpireStaleQueuedJob
<1>19. CASE RetireDrainReceipts
    BY <1>19 DEF RetireDrainReceipts, ReceiptDue
<1>20. CASE \E w \in Workers : ReconcileWorkerLiveness(w)
    BY <1>20 DEF ReconcileWorkerLiveness
<1>21. CASE Tick
    BY <1>21 DEF Tick, Minimum, Countdown
<1> QED
    BY <1>1, <1>2, <1>3, <1>4, <1>5, <1>6, <1>7, <1>8, <1>9, <1>10, <1>11,
       <1>12, <1>13, <1>14, <1>15, <1>16, <1>17, <1>18, <1>19, <1>20, <1>21,
       NextCases

(* Every table keeps the shape of its schema.                              *)
THEOREM TypeCorrect == Spec => []TypeOK
<1>1. Spec => []TypeInv
    BY TypeInit, TypeStep, PTL DEF Spec
<1>2. TypeInv => TypeOK
    BY DEF TypeInv
<1> QED
    BY <1>1, <1>2, PTL

-----------------------------------------------------------------------------
(* Exclusive authority.                                                    *)

(* A terminal transition of an active lease frees its job and no other.    *)
LEMMA TerminateAuthority ==
    ASSUME TypeInv, LeaseAuthority, NEW l \in Leases,
           NEW ls \in TerminalLeaseStatus, NEW js \in JobStatus \ {"leased"},
           IsActive(l), Terminate(l, ls, js)
    PROVE  LeaseAuthority'
BY DEF TypeInv, TypeOK, Resolved, LeaseAuthority, Terminate, IsActive

(* An action that leaves the lease rows alone and takes no job into or out  *)
(* of the status leased keeps authority as it is.                           *)
LEMMA AuthorityFrame ==
    ASSUME LeaseAuthority, UNCHANGED <<leaseStatus, leaseJob>>,
           \A j \in Jobs : jobStatus'[j] = "leased" <=> jobStatus[j] = "leased"
    PROVE  LeaseAuthority'
BY DEF LeaseAuthority, IsActive

LEMMA AuthorityStep ==
    TypeInv /\ LeaseAuthority /\ [Next]_vars => LeaseAuthority'
<1> SUFFICES ASSUME TypeInv, LeaseAuthority, [Next]_vars
             PROVE  LeaseAuthority'
    OBVIOUS
<1> USE DEF TypeInv, TypeOK, Resolved, jobTable, leaseTable
<1>1. CASE UNCHANGED vars
    BY <1>1, AuthorityFrame DEF vars
<1>2. CASE \E j \in Jobs : CreateJob(j)
    BY <1>2, AuthorityFrame DEF CreateJob
<1>3. CASE \E r \in Requests, w \in Workers, o \in Operations \cup {None},
              j \in Jobs : ScanCandidates(r, w, o, j)
    BY <1>3, AuthorityFrame DEF ScanCandidates
<1>4. CASE \E r \in Requests : RejectPlacement(r)
    BY <1>4, AuthorityFrame DEF RejectPlacement
<1>5. CASE \E r \in Requests, l \in Leases, n \in LeaseSeconds :
              TryClaimJob(r, l, n)
    BY <1>5 DEF TryClaimJob, ClaimAdmitted, LeaseAuthority, IsActive
<1>6. CASE \E r \in Requests : AbandonClaim(r)
    BY <1>6, AuthorityFrame DEF AbandonClaim
<1>7. CASE \E l \in Leases, n \in LeaseSeconds : RenewLease(l, n)
    BY <1>7, AuthorityFrame DEF RenewLease
<1>8. CASE \E l \in Leases : CompleteLease(l)
    BY <1>8, TerminateAuthority DEF CompleteLease
<1>9. CASE \E l \in Leases, retry \in BOOLEAN : FailLease(l, retry)
    BY <1>9, TerminateAuthority DEF FailLease
<1>10. CASE \E l \in Leases : DeliverBootstrap(l)
    BY <1>10, AuthorityFrame DEF DeliverBootstrap
<1>11. CASE \E S \in StopScopes : StopSandbox(S)
    BY <1>11, AuthorityFrame DEF StopSandbox
<1>12. CASE \E j \in Jobs : StopResidentProcess(j)
    BY <1>12, AuthorityFrame DEF StopResidentProcess
<1>13. CASE \E w \in Workers, n \in Capacities : RegisterWorker(w, n)
    BY <1>13, AuthorityFrame DEF RegisterWorker
<1>14. CASE \E w \in Workers, n \in Capacities : HeartbeatWorker(w, n)
    BY <1>14, AuthorityFrame DEF HeartbeatWorker
<1>15. CASE \E w \in Workers : DrainWithoutReceipt(w)
    BY <1>15, AuthorityFrame DEF DrainWithoutReceipt
<1>16. CASE \E w \in Workers, s \in Shutdowns, n \in DrainSeconds :
               DrainWithReceipt(w, s, n)
    BY <1>16, AuthorityFrame DEF DrainWithReceipt
<1>17. CASE \E l \in Leases : ExpireLease(l)
    BY <1>17, TerminateAuthority DEF ExpireLease, AfterExpiry
<1>18. CASE \E j \in Jobs : ExpireStaleQueuedJob(j)
    BY <1>18, AuthorityFrame DEF ExpireStaleQueuedJob
<1>19. CASE RetireDrainReceipts
    BY <1>19, AuthorityFrame DEF RetireDrainReceipts
<1>20. CASE \E w \in Workers : ReconcileWorkerLiveness(w)
    BY <1>20, AuthorityFrame DEF ReconcileWorkerLiveness
<1>21. CASE Tick
    BY <1>21, AuthorityFrame DEF Tick
<1> QED
    BY <1>1, <1>2, <1>3, <1>4, <1>5, <1>6, <1>7, <1>8, <1>9, <1>10, <1>11,
       <1>12, <1>13, <1>14, <1>15, <1>16, <1>17, <1>18, <1>19, <1>20, <1>21,
       NextCases

LEMMA AuthorityInit == Init => LeaseAuthority
BY DEF Init, LeaseAuthority, IsActive

(* A job is leased exactly while one lease of it is active, and two leases  *)
(* of a job are never active together: claim, completion, failure, expiry,  *)
(* stop and age sweep in any order, with any number of stale candidate rows.*)
THEOREM AuthorityExclusive == Spec => []LeaseAuthority
<1>1. Spec => [](TypeInv /\ LeaseAuthority)
    BY TypeInit, TypeStep, AuthorityInit, AuthorityStep, PTL DEF Spec
<1> QED
    BY <1>1, PTL

(* Every step leaves a terminal job as it is, because whoever writes a job  *)
(* row by its id alone holds the only active lease of that job.             *)
LEMMA TerminateKeepsTerminal ==
    ASSUME TypeInv, LeaseAuthority, NEW l \in Leases,
           NEW ls \in TerminalLeaseStatus, NEW js \in JobStatus,
           IsActive(l), Terminate(l, ls, js), NEW k \in Jobs,
           jobStatus[k] \in TerminalJobStatus
    PROVE  jobStatus'[k] = jobStatus[k]
<1>1. leaseJob[l] \in Jobs /\ jobStatus[leaseJob[l]] = "leased"
    BY DEF TypeInv, TypeOK, Resolved, LeaseAuthority, IsActive
<1>2. leaseJob[l] # k
    BY <1>1
<1> QED
    BY <1>1, <1>2 DEF TypeInv, TypeOK, Terminate

LEMMA FinalStep ==
    TypeInv /\ LeaseAuthority /\ [Next]_vars => KeepsOutcomes
<1> SUFFICES ASSUME TypeInv, LeaseAuthority, [Next]_vars,
                    NEW k \in Jobs, jobStatus[k] \in TerminalJobStatus
             PROVE  jobStatus'[k] = jobStatus[k]
    BY DEF KeepsOutcomes
<1> USE DEF TypeInv, TypeOK, Resolved, jobTable
<1>1. CASE UNCHANGED vars
    BY <1>1 DEF vars
<1>2. CASE \E j \in Jobs : CreateJob(j)
    BY <1>2 DEF CreateJob
<1>3. CASE \E r \in Requests, w \in Workers, o \in Operations \cup {None},
              j \in Jobs : ScanCandidates(r, w, o, j)
    BY <1>3 DEF ScanCandidates
<1>4. CASE \E r \in Requests : RejectPlacement(r)
    BY <1>4 DEF RejectPlacement
<1>5. CASE \E r \in Requests, l \in Leases, n \in LeaseSeconds :
              TryClaimJob(r, l, n)
    BY <1>5 DEF TryClaimJob, ClaimAdmitted
<1>6. CASE \E r \in Requests : AbandonClaim(r)
    BY <1>6 DEF AbandonClaim
<1>7. CASE \E l \in Leases, n \in LeaseSeconds : RenewLease(l, n)
    BY <1>7 DEF RenewLease
<1>8. CASE \E l \in Leases : CompleteLease(l)
    BY <1>8, TerminateKeepsTerminal DEF CompleteLease
<1>9. CASE \E l \in Leases, retry \in BOOLEAN : FailLease(l, retry)
    BY <1>9, TerminateKeepsTerminal DEF FailLease
<1>10. CASE \E l \in Leases : DeliverBootstrap(l)
    BY <1>10 DEF DeliverBootstrap
<1>11. CASE \E S \in StopScopes : StopSandbox(S)
    BY <1>11 DEF StopSandbox
<1>12. CASE \E j \in Jobs : StopResidentProcess(j)
    BY <1>12 DEF StopResidentProcess
<1>13. CASE \E w \in Workers, n \in Capacities : RegisterWorker(w, n)
    BY <1>13 DEF RegisterWorker
<1>14. CASE \E w \in Workers, n \in Capacities : HeartbeatWorker(w, n)
    BY <1>14 DEF HeartbeatWorker
<1>15. CASE \E w \in Workers : DrainWithoutReceipt(w)
    BY <1>15 DEF DrainWithoutReceipt
<1>16. CASE \E w \in Workers, s \in Shutdowns, n \in DrainSeconds :
               DrainWithReceipt(w, s, n)
    BY <1>16 DEF DrainWithReceipt
<1>17. CASE \E l \in Leases : ExpireLease(l)
    BY <1>17, TerminateKeepsTerminal DEF ExpireLease, AfterExpiry
<1>18. CASE \E j \in Jobs : ExpireStaleQueuedJob(j)
    BY <1>18 DEF ExpireStaleQueuedJob
<1>19. CASE RetireDrainReceipts
    BY <1>19 DEF RetireDrainReceipts
<1>20. CASE \E w \in Workers : ReconcileWorkerLiveness(w)
    BY <1>20 DEF ReconcileWorkerLiveness
<1>21. CASE Tick
    BY <1>21 DEF Tick
<1> QED
    BY <1>1, <1>2, <1>3, <1>4, <1>5, <1>6, <1>7, <1>8, <1>9, <1>10, <1>11,
       <1>12, <1>13, <1>14, <1>15, <1>16, <1>17, <1>18, <1>19, <1>20, <1>21,
       NextCases

(* No late completion, failure, expiry or claim changes the outcome of a   *)
(* job that has one.                                                       *)
THEOREM OutcomesFinal == Spec => TerminalJobsFinal
<1>1. Spec => [](TypeInv /\ LeaseAuthority)
    BY TypeInit, TypeStep, AuthorityInit, AuthorityStep, PTL DEF Spec
<1>2. TypeInv /\ LeaseAuthority /\ [Next]_vars => [KeepsOutcomes]_vars
    BY FinalStep
<1> QED
    BY <1>1, <1>2, PTL DEF Spec, TerminalJobsFinal

-----------------------------------------------------------------------------
(* Worker drain.                                                           *)

DrainInv == FencesTruthful /\ DrainCaptures

LEMMA DrainInit == Init => DrainInv
BY DEF Init, DrainInv, FencesTruthful, DrainCaptures

LEMMA TerminateDrain ==
    ASSUME TypeInv, DrainInv, NEW l \in Leases,
           NEW ls \in TerminalLeaseStatus, NEW js \in JobStatus,
           IsActive(l), Terminate(l, ls, js)
    PROVE  DrainInv'
BY DEF TypeInv, TypeOK, Resolved, DrainInv, FencesTruthful, DrainCaptures,
       Terminate, ResolveCaptured, IsActive, HoldsActive, workerTable

(* Nothing the invariant speaks of moves, except that a worker with an open *)
(* receipt may change between draining and offline.                         *)
LEMMA DrainFrame ==
    ASSUME TypeInv, DrainInv,
           UNCHANGED <<leaseStatus, leaseWorker, ttl, drainTable>>,
           \A w \in Workers : HasOpenReceipt(w) =>
              \/ workerStatus'[w] = workerStatus[w]
              \/ workerStatus'[w] \in {"draining", "offline"}
    PROVE  DrainInv'
<1>1. FencesTruthful'
    BY DEF DrainInv, FencesTruthful, IsActive, drainTable
<1>2. ASSUME NEW s \in Shutdowns, receiptStatus'[s] = "open"
      PROVE  /\ workerStatus'[receiptWorker'[s]] \in {"draining", "offline"}
             /\ \A l \in Leases : HoldsActive(l, receiptWorker[s])' =>
                   fences'[s][l] = "open" /\ ttl'[l] <= remaining'[s]
    <2>1. receiptStatus[s] = "open" /\ receiptWorker'[s] = receiptWorker[s]
        BY <1>2 DEF drainTable
    <2>2. receiptWorker[s] \in Workers /\ HasOpenReceipt(receiptWorker[s])
        BY <2>1 DEF TypeInv, Resolved, HasOpenReceipt
    <2>3. workerStatus[receiptWorker[s]] \in {"draining", "offline"}
        BY <2>1 DEF DrainInv, DrainCaptures
    <2>4. workerStatus'[receiptWorker[s]] \in {"draining", "offline"}
        BY <2>2, <2>3
    <2>5. \A l \in Leases : HoldsActive(l, receiptWorker[s])' =>
             fences'[s][l] = "open" /\ ttl'[l] <= remaining'[s]
        BY <2>1 DEF DrainInv, DrainCaptures, HoldsActive, IsActive, drainTable
    <2> QED
        BY <2>1, <2>4, <2>5
<1> QED
    BY <1>1, <1>2 DEF DrainInv, DrainCaptures, drainTable

LEMMA DrainStep ==
    TypeInv /\ DrainInv /\ [Next]_vars => DrainInv'
<1> SUFFICES ASSUME TypeInv, DrainInv, [Next]_vars
             PROVE  DrainInv'
    OBVIOUS
<1> USE DEF jobTable, leaseTable, workerTable, drainTable
<1>1. CASE UNCHANGED vars
    BY <1>1, DrainFrame DEF vars
<1>2. CASE \E j \in Jobs : CreateJob(j)
    BY <1>2, DrainFrame DEF CreateJob
<1>3. CASE \E r \in Requests, w \in Workers, o \in Operations \cup {None},
              j \in Jobs : ScanCandidates(r, w, o, j)
    BY <1>3, DrainFrame DEF ScanCandidates
<1>4. CASE \E r \in Requests : RejectPlacement(r)
    BY <1>4, DrainFrame DEF RejectPlacement
<1>5. CASE \E r \in Requests, l \in Leases, n \in LeaseSeconds :
              TryClaimJob(r, l, n)
    BY <1>5 DEF TryClaimJob, ClaimAdmitted, TypeInv, TypeOK, Resolved, DrainInv, FencesTruthful, DrainCaptures,
         IsActive, HoldsActive
<1>6. CASE \E r \in Requests : AbandonClaim(r)
    BY <1>6, DrainFrame DEF AbandonClaim
<1>7. CASE \E l \in Leases, n \in LeaseSeconds : RenewLease(l, n)
    BY <1>7 DEF RenewLease, RenewedTtl, OpenFences, TypeInv, TypeOK, Resolved, DrainInv, FencesTruthful, DrainCaptures,
         IsActive, HoldsActive
<1>8. CASE \E l \in Leases : CompleteLease(l)
    BY <1>8, TerminateDrain DEF CompleteLease
<1>9. CASE \E l \in Leases, retry \in BOOLEAN : FailLease(l, retry)
    BY <1>9, TerminateDrain DEF FailLease
<1>10. CASE \E l \in Leases : DeliverBootstrap(l)
    BY <1>10, DrainFrame DEF DeliverBootstrap
<1>11. CASE \E S \in StopScopes : StopSandbox(S)
    BY <1>11, DrainFrame DEF StopSandbox
<1>12. CASE \E j \in Jobs : StopResidentProcess(j)
    BY <1>12, DrainFrame DEF StopResidentProcess
<1>13. CASE \E w \in Workers, n \in Capacities : RegisterWorker(w, n)
    BY <1>13, DrainFrame DEF RegisterWorker, TypeInv, TypeOK
<1>14. CASE \E w \in Workers, n \in Capacities : HeartbeatWorker(w, n)
    BY <1>14, DrainFrame DEF HeartbeatWorker, TypeInv, TypeOK
<1>15. CASE \E w \in Workers : DrainWithoutReceipt(w)
    BY <1>15, DrainFrame DEF DrainWithoutReceipt, TypeInv, TypeOK
<1>16. CASE \E w \in Workers, s \in Shutdowns, n \in DrainSeconds :
               DrainWithReceipt(w, s, n)
    BY <1>16 DEF DrainWithReceipt, Minimum, TypeInv, TypeOK, Resolved, DrainInv, FencesTruthful, DrainCaptures,
         IsActive, HoldsActive
<1>17. CASE \E l \in Leases : ExpireLease(l)
    BY <1>17, TerminateDrain DEF ExpireLease, AfterExpiry
<1>18. CASE \E j \in Jobs : ExpireStaleQueuedJob(j)
    BY <1>18, DrainFrame DEF ExpireStaleQueuedJob
<1>19. CASE RetireDrainReceipts
    BY <1>19 DEF RetireDrainReceipts, ReceiptDue, TypeInv, TypeOK, Resolved, DrainInv, FencesTruthful, DrainCaptures,
         IsActive, HoldsActive
<1>20. CASE \E w \in Workers : ReconcileWorkerLiveness(w)
    BY <1>20, DrainFrame DEF ReconcileWorkerLiveness, TypeInv, TypeOK
<1>21. CASE Tick
    BY <1>21 DEF Tick, Countdown, TypeInv, TypeOK, Resolved, DrainInv, FencesTruthful, DrainCaptures,
         IsActive, HoldsActive
<1> QED
    BY <1>1, <1>2, <1>3, <1>4, <1>5, <1>6, <1>7, <1>8, <1>9, <1>10, <1>11,
       <1>12, <1>13, <1>14, <1>15, <1>16, <1>17, <1>18, <1>19, <1>20, <1>21,
       NextCases

(* While a drain receipt is open no claim is admitted for its worker, every *)
(* active lease of the worker is fenced by it, and none is due after the    *)
(* hard deadline, however renewals, claims and re-registrations interleave. *)
THEOREM DrainFences == Spec => []DrainCaptures
<1>1. Spec => [](TypeInv /\ DrainInv)
    BY TypeInit, TypeStep, DrainInit, DrainStep, PTL DEF Spec
<1> QED
    BY <1>1, PTL DEF DrainInv

(* The receipt of a drain reports for every lease it captured the status    *)
(* that lease really has.                                                   *)
THEOREM ReceiptsTruthful == Spec => []FencesTruthful
<1>1. Spec => [](TypeInv /\ DrainInv)
    BY TypeInit, TypeStep, DrainInit, DrainStep, PTL DEF Spec
<1> QED
    BY <1>1, PTL DEF DrainInv

-----------------------------------------------------------------------------
(* Claim bookkeeping.                                                      *)

(* The lease row of a claim made under an idempotency key is the one its    *)
(* key leads to.                                                            *)
OperationsIndexLeases ==
    \A l \in Leases : leaseStatus[l] # "none" /\ leaseOp[l] # None =>
        operations[leaseWorker[l]][leaseOp[l]] = l

(* A claim in flight read a job that still had an attempt left.             *)
ClaimsHadAttempts ==
    \A r \in Requests : claims[r].phase = "scanned" =>
        claims[r].attempts < MaxAttempts

(* A job row that was never inserted was never claimed.                     *)
UnbornUnclaimed == \A j \in Jobs : jobStatus[j] = "none" => attempts[j] = 0

ClaimInv ==
    /\ OperationsIndexLeases
    /\ ClaimsHadAttempts
    /\ UnbornUnclaimed
    /\ AttemptsBounded

LEMMA ClaimInit == Init => ClaimInv
BY DEF Init, ClaimInv, OperationsIndexLeases, ClaimsHadAttempts,
       AttemptsBounded, UnbornUnclaimed, IdleClaim

LEMMA TerminateClaim ==
    ASSUME TypeInv, ClaimInv, NEW l \in Leases,
           NEW ls \in TerminalLeaseStatus, NEW js \in JobStatus \ {"none"},
           js = "queued" => Retryable(leaseJob[l]),
           IsActive(l), Terminate(l, ls, js)
    PROVE  ClaimInv'
BY DEF TypeInv, TypeOK, Resolved, ClaimInv, OperationsIndexLeases,
       ClaimsHadAttempts, UnbornUnclaimed, AttemptsBounded, Terminate, IsActive,
       Retryable

LEMMA ClaimFrame ==
    ASSUME TypeInv, ClaimInv,
           UNCHANGED <<leaseStatus, leaseWorker, leaseOp, operations, attempts,
                       claims>>,
           \A j \in Jobs : jobStatus'[j] = "none" => jobStatus[j] = "none",
           \A j \in Jobs : jobStatus'[j] = "queued" =>
              jobStatus[j] \in {"none", "queued"}
    PROVE  ClaimInv'
BY DEF TypeInv, TypeOK, ClaimInv, OperationsIndexLeases, ClaimsHadAttempts,
       UnbornUnclaimed, AttemptsBounded

LEMMA ClaimStep ==
    TypeInv /\ ClaimInv /\ [Next]_vars => ClaimInv'
<1> SUFFICES ASSUME TypeInv, ClaimInv, [Next]_vars
             PROVE  ClaimInv'
    OBVIOUS
<1> USE DEF TypeInv, TypeOK, Resolved, jobTable, leaseTable
<1>1. CASE UNCHANGED vars
    BY <1>1, ClaimFrame DEF vars
<1>2. CASE \E j \in Jobs : CreateJob(j)
    BY <1>2, ClaimFrame DEF CreateJob
<1>3. CASE \E r \in Requests, w \in Workers, o \in Operations \cup {None},
              j \in Jobs : ScanCandidates(r, w, o, j)
    BY <1>3 DEF ScanCandidates, ClaimInv, OperationsIndexLeases,
         ClaimsHadAttempts, UnbornUnclaimed, AttemptsBounded
<1>4. CASE \E r \in Requests : RejectPlacement(r)
    BY <1>4 DEF RejectPlacement, IdleClaim, ClaimInv, OperationsIndexLeases,
         ClaimsHadAttempts, UnbornUnclaimed, AttemptsBounded
<1>5. CASE \E r \in Requests, l \in Leases, n \in LeaseSeconds :
              TryClaimJob(r, l, n)
    BY <1>5 DEF TryClaimJob, ClaimAdmitted, IdleClaim, ClaimInv, OperationsIndexLeases,
         ClaimsHadAttempts, UnbornUnclaimed, AttemptsBounded
<1>6. CASE \E r \in Requests : AbandonClaim(r)
    BY <1>6 DEF AbandonClaim, IdleClaim, ClaimInv, OperationsIndexLeases,
         ClaimsHadAttempts, UnbornUnclaimed, AttemptsBounded
<1>7. CASE \E l \in Leases, n \in LeaseSeconds : RenewLease(l, n)
    BY <1>7, ClaimFrame DEF RenewLease
<1>8. CASE \E l \in Leases : CompleteLease(l)
    BY <1>8, TerminateClaim DEF CompleteLease
<1>9. CASE \E l \in Leases, retry \in BOOLEAN : FailLease(l, retry)
    BY <1>9, TerminateClaim DEF FailLease
<1>10. CASE \E l \in Leases : DeliverBootstrap(l)
    BY <1>10, ClaimFrame DEF DeliverBootstrap
<1>11. CASE \E S \in StopScopes : StopSandbox(S)
    BY <1>11, ClaimFrame DEF StopSandbox
<1>12. CASE \E j \in Jobs : StopResidentProcess(j)
    BY <1>12, ClaimFrame DEF StopResidentProcess
<1>13. CASE \E w \in Workers, n \in Capacities : RegisterWorker(w, n)
    BY <1>13, ClaimFrame DEF RegisterWorker
<1>14. CASE \E w \in Workers, n \in Capacities : HeartbeatWorker(w, n)
    BY <1>14, ClaimFrame DEF HeartbeatWorker
<1>15. CASE \E w \in Workers : DrainWithoutReceipt(w)
    BY <1>15, ClaimFrame DEF DrainWithoutReceipt
<1>16. CASE \E w \in Workers, s \in Shutdowns, n \in DrainSeconds :
               DrainWithReceipt(w, s, n)
    BY <1>16, ClaimFrame DEF DrainWithReceipt
<1>17. CASE \E l \in Leases : ExpireLease(l)
    BY <1>17, TerminateClaim DEF ExpireLease, AfterExpiry
<1>18. CASE \E j \in Jobs : ExpireStaleQueuedJob(j)
    BY <1>18, ClaimFrame DEF ExpireStaleQueuedJob
<1>19. CASE RetireDrainReceipts
    BY <1>19, ClaimFrame DEF RetireDrainReceipts
<1>20. CASE \E w \in Workers : ReconcileWorkerLiveness(w)
    BY <1>20, ClaimFrame DEF ReconcileWorkerLiveness
<1>21. CASE Tick
    BY <1>21, ClaimFrame DEF Tick
<1> QED
    BY <1>1, <1>2, <1>3, <1>4, <1>5, <1>6, <1>7, <1>8, <1>9, <1>10, <1>11,
       <1>12, <1>13, <1>14, <1>15, <1>16, <1>17, <1>18, <1>19, <1>20, <1>21,
       NextCases

(* The attempt counter stays within max_attempts although every claim       *)
(* writes it from the row its candidate scan read.                          *)
THEOREM AttemptsWithinLimit == Spec => []AttemptsBounded
<1>1. Spec => [](TypeInv /\ ClaimInv)
    BY TypeInit, TypeStep, ClaimInit, ClaimStep, PTL DEF Spec
<1> QED
    BY <1>1, PTL DEF ClaimInv

(* A worker's idempotency key is good for one lease, ever.                  *)
THEOREM OperationsGrantOnce == Spec => []OneLeasePerOperation
<1>1. Spec => [](TypeInv /\ ClaimInv)
    BY TypeInit, TypeStep, ClaimInit, ClaimStep, PTL DEF Spec
<1>2. ClaimInv => OneLeasePerOperation
    BY DEF ClaimInv, OperationsIndexLeases, OneLeasePerOperation
<1> QED
    BY <1>1, <1>2, PTL

-----------------------------------------------------------------------------
(* The concurrency limit.                                                  *)

(* The limit a worker row has, and the one a claim has read, was reported.  *)
LimitsReported ==
    /\ \A w \in Workers : workerStatus[w] # "none" => capacity[w] \in Capacities
    /\ \A r \in Requests : claims[r].phase = "scanned" =>
          claims[r].capacity \in Capacities

(* A worker's slots are finite in number, and within the limit.             *)
SlotsCounted == \A w \in Workers : IsFiniteSet(ActiveLeases(w))

(* The inductive invariant of the limit.                                    *)
LimitInv == LimitsReported /\ SlotsCounted /\ WithinCapacity

(* At the start no worker has a lease.                                      *)
LEMMA LimitInit == Init => LimitInv
<1> SUFFICES ASSUME Init PROVE LimitInv
    OBVIOUS
<1>1. \A w \in Workers : ActiveLeases(w) = {}
    BY DEF Init, ActiveLeases, HoldsActive, IsActive
<1>2. SlotsCounted /\ WithinCapacity
    BY <1>1, FS_EmptySet, Zenon DEF SlotsCounted, WithinCapacity
<1> QED
    BY <1>2 DEF Init, LimitInv, LimitsReported, IdleClaim

(* A worker that loses slots stays within its limit.                        *)
LEMMA FewerLeases ==
    ASSUME SlotsCounted, WithinCapacity, NEW w \in Workers, NEW S \in SUBSET ActiveLeases(w)
    PROVE  IsFiniteSet(S) /\ (S # {} => \E c \in Capacities : Cardinality(S) <= c)
<1>1. IsFiniteSet(ActiveLeases(w))
    BY DEF SlotsCounted
<1>2. IsFiniteSet(S) /\ Cardinality(S) <= Cardinality(ActiveLeases(w))
    BY <1>1, FS_Subset, Zenon
<1>3. Cardinality(S) \in Nat /\ Cardinality(ActiveLeases(w)) \in Nat
    BY <1>1, <1>2, FS_CardinalityType, Zenon
<1>4. S # {} => ActiveLeases(w) # {}
    OBVIOUS
<1> QED
    BY <1>2, <1>3, <1>4 DEF WithinCapacity

(* A worker given one lease with a slot free stays within its limit.        *)
LEMMA OneMoreLease ==
    ASSUME SlotsCounted, NEW w \in Workers, NEW l, NEW c \in Capacities,
           Cardinality(ActiveLeases(w)) < c
    PROVE  /\ IsFiniteSet(ActiveLeases(w) \cup {l})
           /\ Cardinality(ActiveLeases(w) \cup {l}) <= c
<1>1. IsFiniteSet(ActiveLeases(w))
    BY DEF SlotsCounted
<1>2. /\ IsFiniteSet(ActiveLeases(w) \cup {l})
      /\ Cardinality(ActiveLeases(w) \cup {l}) =
            IF l \in ActiveLeases(w) THEN Cardinality(ActiveLeases(w)) ELSE Cardinality(ActiveLeases(w)) + 1
    BY <1>1, FS_AddElement, Zenon
<1>3. Cardinality(ActiveLeases(w)) \in Nat
    BY <1>1, FS_CardinalityType, Zenon
<1> QED
    BY <1>2, <1>3

(* A step that starts no lease and reports nothing keeps the invariant.     *)
LEMMA LimitFrame ==
    ASSUME LimitInv, \A w \in Workers : ActiveLeases(w)' \subseteq ActiveLeases(w), LimitsReported'
    PROVE  LimitInv'
<1>1. ASSUME NEW w \in Workers
      PROVE  IsFiniteSet(ActiveLeases(w)') /\ (ActiveLeases(w)' # {} => \E c \in Capacities : Cardinality(ActiveLeases(w)') <= c)
  <2>1. PICK S : S = ActiveLeases(w)'
      OBVIOUS
  <2>2. S \in SUBSET ActiveLeases(w)
      BY <2>1
  <2>3. IsFiniteSet(S) /\ (S # {} => \E c \in Capacities : Cardinality(S) <= c)
      BY <2>2, FewerLeases DEF LimitInv
  <2> QED
      BY <2>1, <2>3
<1> QED
    BY <1>1 DEF LimitInv, SlotsCounted, WithinCapacity

(* A claim counts the slots again; no other step starts a lease.            *)
LEMMA LimitStep == TypeInv /\ LimitInv /\ [Next]_vars => LimitInv'
<1> SUFFICES ASSUME TypeInv, LimitInv, [Next]_vars
             PROVE  LimitInv'
    OBVIOUS
<1>1. CASE \E r \in Requests, l \in Leases, n \in LeaseSeconds : TryClaimJob(r, l, n)
  <2>1. PICK r \in Requests, l \in Leases, n \in LeaseSeconds : TryClaimJob(r, l, n)
      BY <1>1
  <2>2. PICK v : v = claims[r].worker
      OBVIOUS
  <2>3. v \in Workers /\ claims[r].capacity \in Capacities /\ Cardinality(ActiveLeases(v)) < claims[r].capacity
      BY <2>1, <2>2 DEF TryClaimJob, ClaimAdmitted, TypeInv, Resolved, LimitInv, LimitsReported
  <2>4. \A w \in Workers \ {v} : ActiveLeases(w)' \subseteq ActiveLeases(w)
      BY <2>1, <2>2 DEF TryClaimJob, TypeInv, TypeOK, ActiveLeases, HoldsActive, IsActive
  <2>5. ActiveLeases(v)' \subseteq ActiveLeases(v) \cup {l}
      BY <2>1, <2>2, <2>3 DEF TryClaimJob, TypeInv, TypeOK, ActiveLeases, HoldsActive, IsActive
  <2>6. LimitsReported'
      BY <2>1 DEF TryClaimJob, TypeInv, TypeOK, IdleClaim, LimitInv, LimitsReported, workerTable
  <2>7. ASSUME NEW w \in Workers
        PROVE  IsFiniteSet(ActiveLeases(w)') /\ (ActiveLeases(w)' # {} => \E c \in Capacities : Cardinality(ActiveLeases(w)') <= c)
    <3>1. PICK S : S = ActiveLeases(w)'
        OBVIOUS
    <3>2. CASE w # v
      <4>1. S \in SUBSET ActiveLeases(w)
          BY <2>4, <3>1, <3>2
      <4>2. IsFiniteSet(S) /\ (S # {} => \E c \in Capacities : Cardinality(S) <= c)
          BY <4>1, FewerLeases DEF LimitInv
      <4> QED
          BY <3>1, <4>2
    <3>3. CASE w = v
      <4>1. S \in SUBSET (ActiveLeases(v) \cup {l})
          BY <2>5, <3>1, <3>3
      <4>2. /\ IsFiniteSet(ActiveLeases(v) \cup {l})
            /\ Cardinality(ActiveLeases(v) \cup {l}) <= claims[r].capacity
          BY <2>3, OneMoreLease DEF LimitInv
      <4>3. IsFiniteSet(S) /\ Cardinality(S) <= Cardinality(ActiveLeases(v) \cup {l})
          BY <4>1, <4>2, FS_Subset, Zenon
      <4>4. Cardinality(S) \in Nat /\ Cardinality(ActiveLeases(v) \cup {l}) \in Nat
          BY <4>2, <4>3, FS_CardinalityType, Zenon
      <4>5. \A a, b \in Nat, c \in Capacities : a <= b /\ b <= c => a <= c
          OBVIOUS
      <4>6. Cardinality(S) <= claims[r].capacity
          BY <2>3, <4>2, <4>3, <4>4, <4>5, Zenon
      <4> QED
          BY <2>3, <3>1, <4>3, <4>6
    <3> QED
        BY <3>2, <3>3
  <2> QED
      BY <2>6, <2>7 DEF LimitInv, SlotsCounted, WithinCapacity
<1> USE DEF TypeInv, TypeOK, LimitInv, LimitsReported, ActiveLeases, HoldsActive, IsActive, jobTable, leaseTable, workerTable
<1>2. CASE UNCHANGED vars
    BY <1>2, LimitFrame DEF vars
<1>3. CASE \E j \in Jobs : CreateJob(j)
    BY <1>3, LimitFrame DEF CreateJob
<1>4. CASE \E r \in Requests, w \in Workers, o \in Operations \cup {None},
              j \in Jobs : ScanCandidates(r, w, o, j)
    BY <1>4, LimitFrame DEF ScanCandidates
<1>5. CASE \E r \in Requests : RejectPlacement(r)
    BY <1>5, LimitFrame DEF RejectPlacement, IdleClaim
<1>18. CASE \E r \in Requests : AbandonClaim(r)
    BY <1>18, LimitFrame DEF AbandonClaim, IdleClaim
<1>6. CASE \E l \in Leases, n \in LeaseSeconds : RenewLease(l, n)
    BY <1>6, LimitFrame DEF RenewLease
<1>7. CASE \E l \in Leases, ls \in TerminalLeaseStatus, js \in JobStatus : Terminate(l, ls, js)
    BY <1>7, LimitFrame DEF Terminate
<1>8. CASE \E l \in Leases : DeliverBootstrap(l)
    BY <1>8, LimitFrame DEF DeliverBootstrap
<1>9. CASE \E S \in StopScopes : StopSandbox(S)
    BY <1>9, LimitFrame DEF StopSandbox
<1>10. CASE \E j \in Jobs : StopResidentProcess(j) \/ ExpireStaleQueuedJob(j)
    BY <1>10, LimitFrame DEF StopResidentProcess, ExpireStaleQueuedJob
<1>11. CASE \E w \in Workers, n \in Capacities : RegisterWorker(w, n)
    BY <1>11, LimitFrame DEF RegisterWorker
<1>12. CASE \E w \in Workers, n \in Capacities : HeartbeatWorker(w, n)
    BY <1>12, LimitFrame DEF HeartbeatWorker
<1>13. CASE \E w \in Workers : DrainWithoutReceipt(w) \/ ReconcileWorkerLiveness(w)
    BY <1>13, LimitFrame DEF DrainWithoutReceipt, ReconcileWorkerLiveness
<1>14. CASE \E w \in Workers, s \in Shutdowns, n \in DrainSeconds : DrainWithReceipt(w, s, n)
    BY <1>14, LimitFrame DEF DrainWithReceipt
<1>15. CASE RetireDrainReceipts
    BY <1>15, LimitFrame DEF RetireDrainReceipts
<1>16. CASE Tick
    BY <1>16, LimitFrame DEF Tick
<1>17. CASE \E l \in Leases : CompleteLease(l) \/ ExpireLease(l) \/ \E retry \in BOOLEAN : FailLease(l, retry)
    BY <1>7, <1>17, LimitFrame DEF CompleteLease, ExpireLease, FailLease, AfterExpiry
<1> QED
    BY <1>1, <1>2, <1>3, <1>4, <1>5, <1>6, <1>8, <1>9, <1>10, <1>11,
       <1>12, <1>13, <1>14, <1>15, <1>16, <1>17, <1>18, NextCases

(* A worker never holds more leases (resident processes aside) than the     *)
(* largest limit it may report: try_claim_job counts again under the row    *)
(* lock of the worker.                                                      *)
THEOREM LimitKept == Spec => []WithinCapacity
<1>1. Spec => [](TypeInv /\ LimitInv)
    BY TypeInit, TypeStep, LimitInit, LimitStep, PTL DEF Spec
<1> QED
    BY <1>1, PTL DEF LimitInv

=============================================================================
