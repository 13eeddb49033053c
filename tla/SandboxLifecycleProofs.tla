----------------------- MODULE SandboxLifecycleProofs -----------------------
(***************************************************************************)
(* Proofs about SandboxLifecycle, for any number of build jobs and         *)
(* attempts and every combination of origins, posted jobs and sweeps.      *)
(***************************************************************************)
EXTENDS SandboxLifecycle, TLAPS

USE SandboxLifecycleAssumption

(* Every step is a step of one of the actions. *)
LEMMA NextCases ==
    ASSUME Next
    PROVE  \/ \E b \in Builds : CreateSandbox(b)
           \/ \E b \in Builds : ForkSnapshot(b)
           \/ \E b \in Builds : ResumeSandbox(b)
           \/ \E b \in Builds, k \in {"provision", "fork"} : PostBuild(b, k)
           \/ \E b \in Builds : PostResumeCheck(b)
           \/ \E b \in Builds : PostResumeInsert(b)
           \/ ForkSandbox
           \/ StopSandbox
           \/ DivergenceStop
           \/ StopParent
           \/ PostStop
           \/ \E b \in Builds : SnapshotReady(b)
           \/ SnapshotFailed
           \/ SnapshotTaken
           \/ SnapshotExpired
           \/ \E b \in Builds : ClaimBuild(b)
           \/ \E b \in Builds : ApplyRuntime(b)
           \/ \E b \in Builds : BuildError(b)
           \/ \E b \in Builds : CompleteBuild(b)
           \/ \E b \in Builds : RefuseCompletion(b)
           \/ \E b \in Builds, retry \in BOOLEAN : FailBuild(b, retry)
           \/ \E b \in Builds : ExpireBuild(b)
           \/ ClaimStop
           \/ TearDownRuntime
           \/ TearDownError
           \/ CompleteStop
           \/ \E retry \in BOOLEAN : FailStop(retry)
           \/ ExpireStop
           \/ ReconcileArchived
           \/ DeleteArchived
           \/ \E b \in Builds : DropBuild(b)
           \/ DropStop
           \/ DropSnapshot
           \/ LateApply
           \/ LateTearDown
BY Zenon DEF Next, Step, Request, Snapshot, Build, TearDown, Sweep, Late

-----------------------------------------------------------------------------
(* Type correctness. *)

(* What TypeOK needs to be inductive: a job that may still be claimed has   *)
(* an attempt left, because a retry is granted below the limit only.        *)
AttemptLeft ==
    /\ \A b \in Builds :
          status[b] \in {"none", "checked", "queued"} => tries[b] < MaxAttempts
    /\ stopStatus = "queued" => stopTries < stopMax

TypeInv == TypeOK /\ AttemptLeft

USE DEF SandboxState, Pending, Closing, NoRecord, BuildKind, JobStatus, Work

LEMMA TypeInit == Init => TypeInv
<1>1. Init => /\ rows \in BOOLEAN
              /\ awaiting \in BOOLEAN
              /\ restorable \in BOOLEAN
              /\ stopFailed \in BOOLEAN
              /\ withdrawn \in BOOLEAN
    BY Zenon DEF Init
<1> QED
    BY <1>1 DEF Init, TypeInv, TypeOK, AttemptLeft

LEMMA TypeStep == TypeInv /\ [Next]_vars => TypeInv'
<1> SUFFICES ASSUME TypeInv, [Next]_vars PROVE TypeInv'
    OBVIOUS
<1> USE DEF TypeInv, TypeOK, AttemptLeft, buildTable, stopTable, provider,
            snapshots
<1>0. withdrawn' \in BOOLEAN
    BY Zenon DEF Next, vars
<1> USE <1>0
<1>1. CASE UNCHANGED vars
    BY <1>1 DEF vars, system
<1>2. CASE \E b \in Builds : CreateSandbox(b)
    BY <1>2 DEF CreateSandbox, InsertBuild
<1>3. CASE \E b \in Builds : ForkSnapshot(b)
    BY <1>3 DEF ForkSnapshot, InsertBuild
<1>4. CASE \E b \in Builds : ResumeSandbox(b)
    BY <1>4 DEF ResumeSandbox, InsertBuild
<1>5. CASE \E b \in Builds, k \in {"provision", "fork"} : PostBuild(b, k)
    BY <1>5 DEF PostBuild, InsertBuild
<1>6. CASE \E b \in Builds : PostResumeCheck(b)
    BY <1>6 DEF PostResumeCheck, InsertBuild
<1>7. CASE \E b \in Builds : PostResumeInsert(b)
    BY <1>7 DEF PostResumeInsert
<1>8. CASE ForkSandbox
    BY <1>8 DEF ForkSandbox
<1>9. CASE StopSandbox
    BY <1>9 DEF StopSandbox, InsertStop
<1>10. CASE DivergenceStop
    BY <1>10 DEF DivergenceStop, InsertStop
<1>11. CASE StopParent
    <2>1. awaiting' \in BOOLEAN
        BY <1>11, Zenon DEF StopParent
    <2> QED
        BY <1>11, <2>1 DEF StopParent
<1>12. CASE PostStop
    BY <1>12 DEF PostStop, InsertStop
<1>13. CASE \E b \in Builds : SnapshotReady(b)
    <2>1. awaiting' \in BOOLEAN
        BY <1>13, Zenon DEF SnapshotReady, InsertBuild
    <2> QED
        BY <1>13, <2>1 DEF SnapshotReady, InsertBuild
<1>14. CASE SnapshotFailed
    <2>1. awaiting' \in BOOLEAN
        BY <1>14, Zenon DEF SnapshotFailed, Moved
    <2> QED
        BY <1>14, <2>1 DEF SnapshotFailed, Moved
<1>15. CASE SnapshotTaken
    <2>1. restorable' \in BOOLEAN
        BY <1>15, Zenon DEF SnapshotTaken
    <2> QED
        BY <1>15, <2>1 DEF SnapshotTaken
<1>16. CASE SnapshotExpired
    <2>1. restorable' \in BOOLEAN
        BY <1>16, Zenon DEF SnapshotExpired
    <2> QED
        BY <1>16, <2>1 DEF SnapshotExpired
<1>17. CASE \E b \in Builds : ClaimBuild(b)
    BY <1>17 DEF ClaimBuild, Moved
<1>18. CASE \E b \in Builds : ApplyRuntime(b)
    BY <1>18 DEF ApplyRuntime
<1>19. CASE \E b \in Builds : BuildError(b)
    BY <1>19 DEF BuildError
<1>20. CASE \E b \in Builds : CompleteBuild(b)
    BY <1>20 DEF CompleteBuild, RecordBuilt, Moved,
    PROVISION_COMPLETED_LEGAL_FROM, EnqueueCleanup, InsertStop
<1>21. CASE \E b \in Builds : RefuseCompletion(b)
    BY <1>21 DEF RefuseCompletion
<1>22. CASE \E b \in Builds, retry \in BOOLEAN : FailBuild(b, retry)
    BY <1>22 DEF FailBuild, EndBuild, StateAfterRetry, StateAfterFailure,
    Moved, PROVISION_FAILED_LEGAL_FROM
<1>23. CASE \E b \in Builds : ExpireBuild(b)
    BY <1>23 DEF ExpireBuild, EndBuild, StateAfterRetry, StateAfterFailure,
    Moved, PROVISION_FAILED_LEGAL_FROM
<1>24. CASE ClaimStop
    BY <1>24 DEF ClaimStop
<1>25. CASE TearDownRuntime
    BY <1>25 DEF TearDownRuntime
<1>26. CASE TearDownError
    BY <1>26 DEF TearDownError
<1>27. CASE CompleteStop
    BY <1>27 DEF CompleteStop, RetireRuntimeRows, Moved
<1>28. CASE \E retry \in BOOLEAN : FailStop(retry)
    BY <1>28 DEF FailStop, EndStop
<1>29. CASE ExpireStop
    BY <1>29 DEF ExpireStop, EndStop
<1>30. CASE ReconcileArchived
    BY <1>30 DEF ReconcileArchived, EnqueueCleanup, InsertStop
<1>31. CASE DeleteArchived
    <2>1. rows' \in BOOLEAN
        BY <1>31, Zenon DEF DeleteArchived
    <2> QED
        BY <1>31, <2>1 DEF DeleteArchived
<1>32. CASE \E b \in Builds : DropBuild(b)
    BY <1>32 DEF DropBuild
<1>33. CASE DropStop
    BY <1>33 DEF DropStop
<1>34. CASE DropSnapshot
    <2>1. awaiting' \in BOOLEAN
        BY <1>34, Zenon DEF DropSnapshot
    <2> QED
        BY <1>34, <2>1 DEF DropSnapshot
<1>35. CASE LateApply
    BY <1>35 DEF LateApply
<1>36. CASE LateTearDown
    BY <1>36 DEF LateTearDown
<1> QED
    BY <1>1, <1>2, <1>3, <1>4, <1>5, <1>6, <1>7, <1>8, <1>9, <1>10, <1>11,
    <1>12, <1>13, <1>14, <1>15, <1>16, <1>17, <1>18, <1>19, <1>20, <1>21,
    <1>22, <1>23, <1>24, <1>25, <1>26, <1>27, <1>28, <1>29, <1>30, <1>31,
    <1>32, <1>33, <1>34, <1>35, <1>36, NextCases

(* Every column keeps its type; in particular no job, requested or repair,  *)
(* is attempted more often than its max_attempts.                           *)
THEOREM TypeCorrect == Spec => []TypeOK
<1>1. TypeInv => TypeOK
    BY DEF TypeInv
<1> QED
    BY <1>1, TypeInit, TypeStep, PTL DEF Spec

-----------------------------------------------------------------------------
(* A usable sandbox has a recorded runtime. *)

LEMMA ReadyStep == TypeInv /\ ReadyHasRows /\ [Next]_vars => ReadyHasRows'
<1> SUFFICES ASSUME TypeInv, ReadyHasRows, [Next]_vars PROVE ReadyHasRows'
    OBVIOUS
<1> USE DEF ReadyHasRows
<1>1. CASE UNCHANGED vars
    BY <1>1 DEF vars, system
<1>2. CASE \E b \in Builds : CreateSandbox(b)
    BY <1>2 DEF CreateSandbox, InsertBuild
<1>3. CASE \E b \in Builds : ForkSnapshot(b)
    BY <1>3 DEF ForkSnapshot, InsertBuild
<1>4. CASE \E b \in Builds : ResumeSandbox(b)
    BY <1>4 DEF ResumeSandbox, InsertBuild
<1>5. CASE \E b \in Builds, k \in {"provision", "fork"} : PostBuild(b, k)
    BY <1>5 DEF PostBuild, InsertBuild
<1>6. CASE \E b \in Builds : PostResumeCheck(b)
    BY <1>6 DEF PostResumeCheck, InsertBuild
<1>7. CASE \E b \in Builds : PostResumeInsert(b)
    BY <1>7 DEF PostResumeInsert
<1>8. CASE ForkSandbox
    BY <1>8 DEF ForkSandbox
<1>9. CASE StopSandbox
    BY <1>9 DEF StopSandbox, InsertStop
<1>10. CASE DivergenceStop
    BY <1>10 DEF DivergenceStop, InsertStop
<1>11. CASE StopParent
    BY <1>11 DEF StopParent
<1>12. CASE PostStop
    BY <1>12 DEF PostStop, InsertStop
<1>13. CASE \E b \in Builds : SnapshotReady(b)
    BY <1>13 DEF SnapshotReady, InsertBuild
<1>14. CASE SnapshotFailed
    BY <1>14 DEF SnapshotFailed, Moved
<1>15. CASE SnapshotTaken
    BY <1>15 DEF SnapshotTaken
<1>16. CASE SnapshotExpired
    BY <1>16 DEF SnapshotExpired
<1>17. CASE \E b \in Builds : ClaimBuild(b)
    BY <1>17 DEF ClaimBuild, Moved
<1>18. CASE \E b \in Builds : ApplyRuntime(b)
    BY <1>18 DEF ApplyRuntime
<1>19. CASE \E b \in Builds : BuildError(b)
    BY <1>19 DEF BuildError
<1>20. CASE \E b \in Builds : CompleteBuild(b)
    BY <1>20 DEF CompleteBuild, RecordBuilt, Moved,
    PROVISION_COMPLETED_LEGAL_FROM, EnqueueCleanup, InsertStop
<1>21. CASE \E b \in Builds : RefuseCompletion(b)
    BY <1>21 DEF RefuseCompletion
<1>22. CASE \E b \in Builds, retry \in BOOLEAN : FailBuild(b, retry)
    BY <1>22 DEF FailBuild, EndBuild, StateAfterRetry, StateAfterFailure,
    Moved, PROVISION_FAILED_LEGAL_FROM, TypeInv, TypeOK
<1>23. CASE \E b \in Builds : ExpireBuild(b)
    BY <1>23 DEF ExpireBuild, EndBuild, StateAfterRetry, StateAfterFailure,
    Moved, PROVISION_FAILED_LEGAL_FROM, TypeInv, TypeOK
<1>24. CASE ClaimStop
    BY <1>24 DEF ClaimStop
<1>25. CASE TearDownRuntime
    BY <1>25 DEF TearDownRuntime
<1>26. CASE TearDownError
    BY <1>26 DEF TearDownError
<1>27. CASE CompleteStop
    BY <1>27 DEF CompleteStop, RetireRuntimeRows, Moved
<1>28. CASE \E retry \in BOOLEAN : FailStop(retry)
    BY <1>28 DEF FailStop, EndStop
<1>29. CASE ExpireStop
    BY <1>29 DEF ExpireStop, EndStop
<1>30. CASE ReconcileArchived
    BY <1>30 DEF ReconcileArchived, EnqueueCleanup, InsertStop
<1>31. CASE DeleteArchived
    BY <1>31 DEF DeleteArchived
<1>32. CASE \E b \in Builds : DropBuild(b)
    BY <1>32 DEF DropBuild
<1>33. CASE DropStop
    BY <1>33 DEF DropStop
<1>34. CASE DropSnapshot
    BY <1>34 DEF DropSnapshot
<1>35. CASE LateApply
    BY <1>35 DEF LateApply
<1>36. CASE LateTearDown
    BY <1>36 DEF LateTearDown
<1> QED
    BY <1>1, <1>2, <1>3, <1>4, <1>5, <1>6, <1>7, <1>8, <1>9, <1>10, <1>11,
    <1>12, <1>13, <1>14, <1>15, <1>16, <1>17, <1>18, <1>19, <1>20, <1>21,
    <1>22, <1>23, <1>24, <1>25, <1>26, <1>27, <1>28, <1>29, <1>30, <1>31,
    <1>32, <1>33, <1>34, <1>35, <1>36, NextCases

(* Whatever completes, fails, expires or is swept, in any order and however *)
(* late, a ready sandbox keeps its live runtime rows.                       *)
THEOREM ReadyRecorded == Spec => []ReadyHasRows
<1>1. Init => ReadyHasRows
    BY DEF Init, ReadyHasRows
<1> QED
    BY <1>1, TypeInit, TypeStep, ReadyStep, PTL DEF Spec

-----------------------------------------------------------------------------
(* A stopped sandbox stays stopped. *)

LEMMA RevivesStep == TypeInv /\ [Next]_vars => [Revives]_vars
<1> SUFFICES ASSUME TypeInv, [Next]_vars PROVE Revives \/ UNCHANGED vars
    OBVIOUS
<1> USE DEF Revives
<1>1. CASE UNCHANGED vars
    BY <1>1 DEF vars, system
<1>2. CASE \E b \in Builds : CreateSandbox(b)
    BY <1>2 DEF CreateSandbox, InsertBuild
<1>3. CASE \E b \in Builds : ForkSnapshot(b)
    BY <1>3 DEF ForkSnapshot, InsertBuild
<1>4. CASE \E b \in Builds : ResumeSandbox(b)
    BY <1>4 DEF ResumeSandbox, InsertBuild, TypeInv, TypeOK
<1>5. CASE \E b \in Builds, k \in {"provision", "fork"} : PostBuild(b, k)
    BY <1>5 DEF PostBuild, InsertBuild
<1>6. CASE \E b \in Builds : PostResumeCheck(b)
    BY <1>6 DEF PostResumeCheck, InsertBuild
<1>7. CASE \E b \in Builds : PostResumeInsert(b)
    BY <1>7 DEF PostResumeInsert
<1>8. CASE ForkSandbox
    BY <1>8 DEF ForkSandbox
<1>9. CASE StopSandbox
    BY <1>9 DEF StopSandbox
<1>10. CASE DivergenceStop
    BY <1>10 DEF DivergenceStop
<1>11. CASE StopParent
    BY <1>11 DEF StopParent
<1>12. CASE PostStop
    BY <1>12 DEF PostStop
<1>13. CASE \E b \in Builds : SnapshotReady(b)
    BY <1>13 DEF SnapshotReady, InsertBuild
<1>14. CASE SnapshotFailed
    BY <1>14 DEF SnapshotFailed, Moved
<1>15. CASE SnapshotTaken
    BY <1>15 DEF SnapshotTaken
<1>16. CASE SnapshotExpired
    BY <1>16 DEF SnapshotExpired
<1>17. CASE \E b \in Builds : ClaimBuild(b)
    BY <1>17 DEF ClaimBuild, Moved
<1>18. CASE \E b \in Builds : ApplyRuntime(b)
    BY <1>18 DEF ApplyRuntime
<1>19. CASE \E b \in Builds : BuildError(b)
    BY <1>19 DEF BuildError
<1>20. CASE \E b \in Builds : CompleteBuild(b)
    BY <1>20 DEF CompleteBuild, RecordBuilt, Moved,
    PROVISION_COMPLETED_LEGAL_FROM
<1>21. CASE \E b \in Builds : RefuseCompletion(b)
    BY <1>21 DEF RefuseCompletion
<1>22. CASE \E b \in Builds, retry \in BOOLEAN : FailBuild(b, retry)
    BY <1>22 DEF FailBuild, EndBuild, StateAfterRetry, StateAfterFailure,
    Moved, PROVISION_FAILED_LEGAL_FROM, TypeInv, TypeOK
<1>23. CASE \E b \in Builds : ExpireBuild(b)
    BY <1>23 DEF ExpireBuild, EndBuild, StateAfterRetry, StateAfterFailure,
    Moved, PROVISION_FAILED_LEGAL_FROM, TypeInv, TypeOK
<1>24. CASE ClaimStop
    BY <1>24 DEF ClaimStop
<1>25. CASE TearDownRuntime
    BY <1>25 DEF TearDownRuntime
<1>26. CASE TearDownError
    BY <1>26 DEF TearDownError
<1>27. CASE CompleteStop
    BY <1>27 DEF CompleteStop, RetireRuntimeRows, Moved
<1>28. CASE \E retry \in BOOLEAN : FailStop(retry)
    BY <1>28 DEF FailStop, EndStop
<1>29. CASE ExpireStop
    BY <1>29 DEF ExpireStop, EndStop
<1>30. CASE ReconcileArchived
    BY <1>30 DEF ReconcileArchived
<1>31. CASE DeleteArchived
    BY <1>31 DEF DeleteArchived
<1>32. CASE \E b \in Builds : DropBuild(b)
    BY <1>32 DEF DropBuild
<1>33. CASE DropStop
    BY <1>33 DEF DropStop
<1>34. CASE DropSnapshot
    BY <1>34 DEF DropSnapshot
<1>35. CASE LateApply
    BY <1>35 DEF LateApply
<1>36. CASE LateTearDown
    BY <1>36 DEF LateTearDown
<1> QED
    BY <1>1, <1>2, <1>3, <1>4, <1>5, <1>6, <1>7, <1>8, <1>9, <1>10, <1>11,
    <1>12, <1>13, <1>14, <1>15, <1>16, <1>17, <1>18, <1>19, <1>20, <1>21,
    <1>22, <1>23, <1>24, <1>25, <1>26, <1>27, <1>28, <1>29, <1>30, <1>31,
    <1>32, <1>33, <1>34, <1>35, <1>36, NextCases

(* No late completion, failure, expiry or sweep takes a stopped sandbox     *)
(* back: only a resume request does, once teardown has archived it.         *)
THEOREM StoppedStaysStopped == Spec => NoResurrection
BY TypeInit, TypeStep, RevivesStep, PTL DEF Spec, NoResurrection

-----------------------------------------------------------------------------
(* A pending sandbox has work, unless a queued job was withdrawn from it.   *)

(* In planning the work is the parent's snapshot, or a job whose next end   *)
(* is sure to move the sandbox: a provision job, or a fork job not yet      *)
(* claimed (claiming it moves the sandbox on).  Other jobs a tenant posted  *)
(* may be active beside it, and end without effect on a planning sandbox.   *)
Bringing(b) ==
    /\ BuildActive(b)
    /\ \/ kind[b] = "provision"
       \/ kind[b] = "fork" /\ status[b] = "queued"

PendingInv ==
    /\ state = "planning" /\ ~withdrawn => awaiting \/ \E b \in Builds : Bringing(b)
    /\ state = "provisioning" /\ ~withdrawn => \E b \in Builds : BuildActive(b)

(* The end of a lease requeues its job, or ends it and moves the sandbox. *)
LEMMA PendingEnd ==
    ASSUME TypeInv, PendingInv, NEW b \in Builds, status[b] = "leased",
           NEW again \in BOOLEAN, NEW over \in {"failed", "dead"},
           EndBuild(b, again, over),
           state' \in Pending /\ ~withdrawn' => ~withdrawn
    PROVE  PendingInv'
<1> USE DEF TypeInv, TypeOK, PendingInv, Bringing, BuildActive, snapshots
<1>1. kind' = kind /\ awaiting' = awaiting
    BY DEF EndBuild
<1>2. \A c \in Builds \ {b} : status'[c] = status[c]
    BY DEF EndBuild
<1>3. CASE again
    <2>1. status'[b] = "queued"
        BY <1>3 DEF EndBuild
    <2>2. state' = StateAfterRetry(b)
        BY <1>3 DEF EndBuild
    <2>3. CASE kind[b] = "fork" /\ state = "provisioning"
        BY <1>1, <2>1, <2>2, <2>3 DEF StateAfterRetry, Moved
    <2>4. CASE ~(kind[b] = "fork" /\ state = "provisioning")
        <3>1. state' = state
            BY <2>2, <2>4 DEF StateAfterRetry, Moved
        <3> QED
            BY <1>1, <1>2, <2>1, <3>1
    <2> QED
        BY <2>3, <2>4
<1>4. CASE ~again
    <2>1. state' = StateAfterFailure(b)
        BY <1>4 DEF EndBuild
    <2>2. state' # "provisioning"
        BY <2>1 DEF StateAfterFailure, Moved, PROVISION_FAILED_LEGAL_FROM
    <2>3. state' = "planning" => state = "planning" /\ kind[b] # "provision"
        BY <2>1 DEF StateAfterFailure, Moved, PROVISION_FAILED_LEGAL_FROM
    <2> QED
        BY <1>1, <1>2, <2>2, <2>3
<1> QED
    BY <1>3, <1>4

LEMMA PendingStep == TypeInv /\ PendingInv /\ [Next]_vars => PendingInv'
<1> SUFFICES ASSUME TypeInv, PendingInv, [Next]_vars PROVE PendingInv'
    OBVIOUS
<1> USE DEF TypeInv, TypeOK, PendingInv, Bringing, BuildActive, buildTable, snapshots
<1>1. CASE UNCHANGED vars
    BY <1>1 DEF vars, system
<1> SUFFICES ASSUME Next PROVE PendingInv'
    BY <1>1
<1>a. state' \in Pending /\ ~withdrawn' => ~withdrawn
    BY Zenon DEF Next
<1>b. state' \in Pending /\ ~withdrawn' => ~Withdraws
    BY Zenon DEF Next
<1> USE <1>a
<1>2. CASE \E b \in Builds : CreateSandbox(b)
    BY <1>2 DEF CreateSandbox, InsertBuild
<1>3. CASE \E b \in Builds : ForkSnapshot(b)
    BY <1>3 DEF ForkSnapshot, InsertBuild
<1>4. CASE \E b \in Builds : ResumeSandbox(b)
    BY <1>4 DEF ResumeSandbox, InsertBuild
<1>5. CASE \E b \in Builds, k \in {"provision", "fork"} : PostBuild(b, k)
    BY <1>5 DEF PostBuild, InsertBuild
<1>6. CASE \E b \in Builds : PostResumeCheck(b)
    BY <1>6 DEF PostResumeCheck, InsertBuild
<1>7. CASE \E b \in Builds : PostResumeInsert(b)
    BY <1>7 DEF PostResumeInsert
<1>8. CASE ForkSandbox
    BY <1>8 DEF ForkSandbox
<1>9. CASE StopSandbox
    BY <1>9 DEF StopSandbox, InsertStop
<1>10. CASE DivergenceStop
    BY <1>10 DEF DivergenceStop, InsertStop
<1>11. CASE StopParent
    <2>1. CASE state' \notin Pending \/ withdrawn'
        BY <2>1
    <2>2. CASE state' \in Pending /\ ~withdrawn'
        <3>1. \A b \in Builds : status[b] = "queued" => status'[b] = "queued"
            BY <1>11, <1>b, <2>2 DEF StopParent, Withdraws
        <3>2. status' = status /\ kind' = kind /\ state' = state
            BY <1>11, <3>1 DEF StopParent
        <3>3. state = "planning" /\ awaiting => awaiting'
            BY <1>b, <2>2, <3>2 DEF Withdraws
        <3> QED
            BY <2>2, <3>2, <3>3
    <2> QED
        BY <2>1, <2>2
<1>12. CASE PostStop
    BY <1>12 DEF PostStop, InsertStop
<1>13. CASE \E b \in Builds : SnapshotReady(b)
    BY <1>13 DEF SnapshotReady, InsertBuild
<1>14. CASE SnapshotFailed
    BY <1>14 DEF SnapshotFailed, Moved
<1>15. CASE SnapshotTaken
    BY <1>15 DEF SnapshotTaken
<1>16. CASE SnapshotExpired
    BY <1>16 DEF SnapshotExpired
<1>17. CASE \E b \in Builds : ClaimBuild(b)
    <2> PICK b \in Builds : ClaimBuild(b)
        BY <1>17
    <2>1. status'[b] = "leased" /\ kind' = kind /\ awaiting' = awaiting
        BY DEF ClaimBuild
    <2>2. \A c \in Builds \ {b} : status'[c] = status[c]
        BY DEF ClaimBuild
    <2>3. CASE kind[b] = "fork" /\ state = "planning"
        BY <2>1, <2>3 DEF ClaimBuild, Moved
    <2>4. CASE ~(kind[b] = "fork" /\ state = "planning")
        <3>1. state' = state
            BY <2>4 DEF ClaimBuild, Moved
        <3>2. \A c \in Builds : BuildActive(c) => BuildActive(c)'
            BY <2>1, <2>2
        <3>3. ASSUME state = "planning", NEW c \in Builds, Bringing(c)
              PROVE  Bringing(c)'
            <4>1. CASE c = b
                BY <2>1, <2>4, <3>3, <4>1
            <4>2. CASE c # b
                BY <2>1, <2>2, <3>3, <4>2
            <4> QED
                BY <4>1, <4>2
        <3> QED
            BY <2>1, <3>1, <3>2, <3>3
    <2> QED
        BY <2>3, <2>4
<1>18. CASE \E b \in Builds : ApplyRuntime(b)
    BY <1>18 DEF ApplyRuntime
<1>19. CASE \E b \in Builds : BuildError(b)
    BY <1>19 DEF BuildError
<1>20. CASE \E b \in Builds : CompleteBuild(b)
    <2> PICK b \in Builds : CompleteBuild(b)
        BY <1>20
    <2>1. kind' = kind /\ awaiting' = awaiting /\ status[b] = "leased"
        BY DEF CompleteBuild
    <2>2. \A c \in Builds \ {b} : status'[c] = status[c]
        BY DEF CompleteBuild
    <2>3. state' # "provisioning"
        BY DEF CompleteBuild, RecordBuilt, Moved, PROVISION_COMPLETED_LEGAL_FROM
    <2>4. state' = "planning" => state = "planning" /\ kind[b] # "provision"
        BY DEF CompleteBuild, RecordBuilt, Moved, PROVISION_COMPLETED_LEGAL_FROM
    <2> QED
        BY <2>1, <2>2, <2>3, <2>4
<1>21. CASE \E b \in Builds : RefuseCompletion(b)
    BY <1>21 DEF RefuseCompletion
<1>22. CASE \E b \in Builds, retry \in BOOLEAN : FailBuild(b, retry)
    BY <1>22, PendingEnd DEF FailBuild
<1>23. CASE \E b \in Builds : ExpireBuild(b)
    <2> PICK b \in Builds : ExpireBuild(b)
        BY <1>23
    <2>1. (tries[b] < MaxAttempts) \in BOOLEAN
        OBVIOUS
    <2> QED
        BY <2>1, PendingEnd DEF ExpireBuild
<1>24. CASE ClaimStop
    BY <1>24 DEF ClaimStop
<1>25. CASE TearDownRuntime
    BY <1>25 DEF TearDownRuntime
<1>26. CASE TearDownError
    BY <1>26 DEF TearDownError
<1>27. CASE CompleteStop
    BY <1>27 DEF CompleteStop, RetireRuntimeRows, Moved
<1>28. CASE \E retry \in BOOLEAN : FailStop(retry)
    BY <1>28 DEF FailStop, EndStop
<1>29. CASE ExpireStop
    BY <1>29 DEF ExpireStop, EndStop
<1>30. CASE ReconcileArchived
    BY <1>30 DEF ReconcileArchived, EnqueueCleanup, InsertStop
<1>31. CASE DeleteArchived
    BY <1>31 DEF DeleteArchived
<1>32. CASE \E b \in Builds : DropBuild(b)
    <2>1. Withdraws /\ state' = state
        BY <1>32 DEF DropBuild, Withdraws
    <2> QED
        BY <1>b, <2>1
<1>33. CASE DropStop
    BY <1>33 DEF DropStop
<1>34. CASE DropSnapshot
    <2>1. state' = state /\ status' = status /\ kind' = kind /\ awaiting /\ ~awaiting'
        BY <1>34 DEF DropSnapshot
    <2>2. state = "planning" => Withdraws
        BY <2>1 DEF Withdraws
    <2> QED
        BY <1>b, <2>1, <2>2
<1>35. CASE LateApply
    BY <1>35 DEF LateApply
<1>36. CASE LateTearDown
    BY <1>36 DEF LateTearDown
<1> QED
    BY <1>1, <1>2, <1>3, <1>4, <1>5, <1>6, <1>7, <1>8, <1>9, <1>10, <1>11,
    <1>12, <1>13, <1>14, <1>15, <1>16, <1>17, <1>18, <1>19, <1>20, <1>21,
    <1>22, <1>23, <1>24, <1>25, <1>26, <1>27, <1>28, <1>29, <1>30, <1>31,
    <1>32, <1>33, <1>34, <1>35, <1>36, NextCases

(* A sandbox in planning or provisioning always has an active build job or  *)
(* an outstanding parent snapshot, whatever completes, fails, expires or is *)
(* posted beside it and however the sandbox came to be, until a queued job  *)
(* is aged out or cancelled under it.                                       *)
THEOREM PendingHasWork == Spec => []PendingHasJob
<1>1. Init => PendingInv
    BY DEF Init, PendingInv
<1>2. PendingInv /\ TypeInv => PendingHasJob
    BY DEF PendingInv, PendingHasJob, Bringing, TypeInv, TypeOK
<1> QED
    BY <1>1, <1>2, TypeInit, TypeStep, PendingStep, PTL DEF Spec
=============================================================================
