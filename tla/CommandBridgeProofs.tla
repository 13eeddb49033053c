------------------------- MODULE CommandBridgeProofs -------------------------
(***************************************************************************)
(* Proofs about CommandBridge, for any number of deliveries, commands and  *)
(* intents, and any number of resets and losses.                           *)
(***************************************************************************)
EXTENDS CommandBridge, TLAPS

USE CommandBridgeAssumption DEF FallbackExit

(* Every step is a step of one of the actions. *)
LEMMA NextCases ==
    ASSUME Next
    PROVE
           \/ \E r \in Requests, i \in Intents : AdmitNew(r, i)
           \/ \E r \in Requests, i \in Intents : RefuseIntent(r, i)
           \/ \E r \in Requests, i \in Intents : AdmitDuplicate(r, i)
           \/ \E r \in Requests, c \in Commands : ResultLookup(r, c)
           \/ \E r \in Requests : MakeDirectory(r)
           \/ \E r \in Requests : ClaimDispatch(r)
           \/ \E r \in Requests : DispatchClaimed(r)
           \/ \E r \in Requests : StartProcess(r)
           \/ \E r \in Requests : StartThrows(r)
           \/ \E r \in Requests : GetProcess(r)
           \/ \E r \in Requests : MarkRunning(r)
           \/ \E r \in Requests : MarkIndeterminate(r)
           \/ \E r \in Requests : StillRunning(r)
           \/ \E r \in Requests : ProcessLost(r)
           \/ \E r \in Requests : ReadExit(r)
           \/ \E r \in Requests : AppendOutput(r)
           \/ \E r \in Requests : Complete(r)
           \/ \E r \in Requests : CompleteAgain(r)
           \/ \E c \in Commands : ProcessExits(c)
           \/ \E c \in Commands : LateStart(c)
           \/ Crash
           \/ Destroy
BY Zenon DEF Next, Deliver, Advance

-----------------------------------------------------------------------------
(* Logs.  What appending one event does to the events a log holds. *)

Event == Stream \cup {"exit"}

LEMMA HoldsAppend ==
    ASSUME NEW log \in Seq(Event), NEW x \in Event, NEW e
    PROVE  Holds(Append(log, x), e) <=> (Holds(log, e) \/ x = e)
<1>1. /\ Len(Append(log, x)) = Len(log) + 1
      /\ Len(log) \in Nat
      /\ \A k \in 1..Len(log) : Append(log, x)[k] = log[k]
      /\ Append(log, x)[Len(log) + 1] = x
    OBVIOUS
<1>2. ASSUME Holds(Append(log, x), e) PROVE Holds(log, e) \/ x = e
    <2>1. PICK k \in 1..Len(log) + 1 : Append(log, x)[k] = e
        BY <1>1, <1>2 DEF Holds
    <2>2. k \in 1..Len(log) \/ k = Len(log) + 1
        BY <1>1
    <2> QED
        BY <1>1, <2>1, <2>2 DEF Holds
<1>3. ASSUME Holds(log, e) PROVE Holds(Append(log, x), e)
    <2>1. PICK k \in 1..Len(log) : log[k] = e
        BY <1>3 DEF Holds
    <2>2. k \in 1..Len(Append(log, x)) /\ Append(log, x)[k] = e
        BY <1>1, <2>1
    <2> QED
        BY <2>2 DEF Holds
<1>4. ASSUME x = e PROVE Holds(Append(log, x), e)
    <2>1. /\ Len(log) + 1 \in 1..Len(Append(log, x))
          /\ Append(log, x)[Len(log) + 1] = e
        BY <1>1, <1>4
    <2> QED
        BY <2>1 DEF Holds
<1> QED
    BY <1>2, <1>3, <1>4

(* A log without an exit event ends in its only one when it is appended.   *)
LEMMA ExitAppended ==
    ASSUME NEW log \in Seq(Event), ~Holds(log, "exit")
    PROVE  EndsInExit(Append(log, "exit"))
<1>1. /\ Len(Append(log, "exit")) = Len(log) + 1
      /\ Len(log) \in Nat
      /\ \A k \in 1..Len(log) : Append(log, "exit")[k] = log[k]
      /\ Append(log, "exit")[Len(log) + 1] = "exit"
    BY DEF Event
<1>2. \A k \in 1..Len(log) : log[k] # "exit"
    BY DEF Holds
<1>3. \A k \in 1..Len(log) + 1 : Append(log, "exit")[k] = "exit" => k = Len(log) + 1
    <2> SUFFICES ASSUME NEW k \in 1..Len(log) + 1, Append(log, "exit")[k] = "exit"
                 PROVE  k = Len(log) + 1
        OBVIOUS
    <2>1. k \in 1..Len(log) \/ k = Len(log) + 1
        BY <1>1
    <2> QED
        BY <1>1, <1>2, <2>1
<1> QED
    BY <1>1, <1>3 DEF EndsInExit

LEMMA EmptyHolds == \A e : ~Holds(<< >>, e)
BY DEF Holds

-----------------------------------------------------------------------------
(* Type correctness. *)

USE DEF RecordState, Stream, ProcessState, Step, Reply, ledger, sandbox,
        Answer, Goto, Enter, KindOf, Serves

LEMMA TypeInit == Init => TypeOK
BY DEF Init, TypeOK

LEMMA TypeStep == TypeOK /\ [Next]_vars => TypeOK'
<1> SUFFICES ASSUME TypeOK, [Next]_vars PROVE TypeOK'
    OBVIOUS
<1> USE DEF TypeOK
<1>1. CASE UNCHANGED vars
    BY <1>1 DEF vars
<1>2. CASE \E r \in Requests, i \in Intents : AdmitNew(r, i)
    BY <1>2 DEF AdmitNew, Begin
<1>3. CASE \E r \in Requests, i \in Intents : RefuseIntent(r, i)
    BY <1>3 DEF RefuseIntent, Begin
<1>4. CASE \E r \in Requests, i \in Intents : AdmitDuplicate(r, i)
    <2>1. PICK r \in Requests, i \in Intents : AdmitDuplicate(r, i)
        BY <1>4
    <2>2. CASE state[CommandOf[i]] = "completed" /\ Answer(r, "completed", events[CommandOf[i]])
        BY <2>1, <2>2 DEF AdmitDuplicate, Begin, Join
    <2>3. CASE state[CommandOf[i]] = "accepted" /\ Enter(r, "mkdir")
        BY <2>1, <2>3 DEF AdmitDuplicate, Begin, Join
    <2>4. CASE state[CommandOf[i]] = "dispatching" /\ Answer(r, "in_progress", << >>)
        BY <2>1, <2>4 DEF AdmitDuplicate, Begin, Join
    <2>5. CASE state[CommandOf[i]] \in {"dispatching", "running", "indeterminate"} /\ Enter(r, "probe")
        BY <2>1, <2>5 DEF AdmitDuplicate, Begin, Join
    <2> QED
        BY Zenon, <2>1, <2>2, <2>3, <2>4, <2>5 DEF AdmitDuplicate, Begin, Join
<1>5. CASE \E r \in Requests, c \in Commands : ResultLookup(r, c)
    BY <1>5 DEF ResultLookup
<1>6. CASE \E r \in Requests : MakeDirectory(r)
    <2>1. PICK r \in Requests : MakeDirectory(r)
        BY <1>6
    <2>2. CASE Goto(r, "claim")
        BY <2>1, <2>2 DEF MakeDirectory
    <2>3. CASE Answer(r, "error", << >>)
        BY <2>1, <2>3 DEF MakeDirectory
    <2> QED
        BY Zenon, <2>1, <2>2, <2>3 DEF MakeDirectory
<1>7. CASE \E r \in Requests : ClaimDispatch(r)
    BY <1>7 DEF ClaimDispatch
<1>8. CASE \E r \in Requests : DispatchClaimed(r)
    BY <1>8 DEF DispatchClaimed
<1>9. CASE \E r \in Requests : StartProcess(r)
    BY <1>9 DEF StartProcess
<1>10. CASE \E r \in Requests : StartThrows(r)
    BY <1>10 DEF StartThrows
<1>11. CASE \E r \in Requests : GetProcess(r)
    <2>1. PICK r \in Requests : GetProcess(r)
        BY <1>11
    <2>2. CASE Goto(r, "found")
        BY <2>1, <2>2 DEF GetProcess
    <2>3. CASE Goto(r, "missing")
        BY <2>1, <2>3 DEF GetProcess
    <2>4. CASE Answer(r, "error", << >>)
        BY <2>1, <2>4 DEF GetProcess
    <2> QED
        BY Zenon, <2>1, <2>2, <2>3, <2>4 DEF GetProcess
<1>12. CASE \E r \in Requests : MarkRunning(r)
    BY <1>12 DEF MarkRunning
<1>13. CASE \E r \in Requests : MarkIndeterminate(r)
    BY <1>13 DEF MarkIndeterminate
<1>14. CASE \E r \in Requests : StillRunning(r)
    BY <1>14 DEF StillRunning
<1>15. CASE \E r \in Requests : ProcessLost(r)
    BY <1>15 DEF ProcessLost
<1>16. CASE \E r \in Requests : ReadExit(r)
    <2>1. PICK r \in Requests : ReadExit(r)
        BY <1>16
    <2>2. CASE code' = [code EXCEPT ![r] = exit[Serves(r)]]
        BY <2>1, <2>2 DEF ReadExit
    <2>3. CASE code' = [code EXCEPT ![r] = FallbackExit]
        BY <2>1, <2>3 DEF ReadExit
    <2> QED
        BY Zenon, <2>1, <2>2, <2>3 DEF ReadExit
<1>17. CASE \E r \in Requests : AppendOutput(r)
    <2>1. PICK r \in Requests : AppendOutput(r)
        BY <1>17
    <2>2. ASSUME AppendStream(r, "stdout", "stderr") PROVE TypeOK'
        <3> DEFINE c == Serves(r)
        <3>1. CASE /\ events' = [events EXCEPT ![c] = Append(@, "stdout")]
                   /\ state[c] # "completed"
                   /\ Goto(r, "stderr")
            BY <2>2, <3>1 DEF AppendStream
        <3>2. CASE Answer(r, "conflict", << >>) /\ UNCHANGED events
            BY <2>2, <3>2 DEF AppendStream
        <3>3. CASE Goto(r, "stderr") /\ UNCHANGED events
            BY <2>2, <3>3 DEF AppendStream
        <3> QED
            BY Zenon, <2>2, <3>1, <3>2, <3>3 DEF AppendStream
    <2>3. ASSUME AppendStream(r, "stderr", "complete") PROVE TypeOK'
        <3> DEFINE c == Serves(r)
        <3>1. CASE /\ events' = [events EXCEPT ![c] = Append(@, "stderr")]
                   /\ state[c] # "completed"
                   /\ Goto(r, "complete")
            BY <2>3, <3>1 DEF AppendStream
        <3>2. CASE Answer(r, "conflict", << >>) /\ UNCHANGED events
            BY <2>3, <3>2 DEF AppendStream
        <3>3. CASE Goto(r, "complete") /\ UNCHANGED events
            BY <2>3, <3>3 DEF AppendStream
        <3> QED
            BY Zenon, <2>3, <3>1, <3>2, <3>3 DEF AppendStream
    <2> QED
        BY <2>1, <2>2, <2>3 DEF AppendOutput
<1>18. CASE \E r \in Requests : Complete(r)
    BY <1>18 DEF Complete
<1>19. CASE \E r \in Requests : CompleteAgain(r)
    <2>1. PICK r \in Requests : CompleteAgain(r)
        BY <1>19
    <2>2. CASE terminal[Serves(r)] = code[r] /\ Answer(r, "completed", events[Serves(r)])
        BY <2>1, <2>2 DEF CompleteAgain
    <2>3. CASE Answer(r, "conflict", << >>)
        BY <2>1, <2>3 DEF CompleteAgain
    <2> QED
        BY Zenon, <2>1, <2>2, <2>3 DEF CompleteAgain
<1>20. CASE \E c \in Commands : ProcessExits(c)
    BY <1>20 DEF ProcessExits
<1>21. CASE \E c \in Commands : LateStart(c)
    BY <1>21 DEF LateStart
<1>22. CASE Crash
    BY <1>22 DEF Crash
<1>23. CASE Destroy
    BY <1>23 DEF Destroy
<1> QED
    BY <1>1, <1>2, <1>3, <1>4, <1>5, <1>6, <1>7, <1>8, <1>9, <1>10, <1>11, <1>12, <1>13, <1>14, <1>15, <1>16, <1>17, <1>18, <1>19, <1>20, <1>21, <1>22, <1>23, NextCases

(* The records, the sandbox and the deliveries keep their types, and a       *)
(* delivery that is under way serves an intent.                              *)
THEOREM TypeCorrect == Spec => []TypeOK
BY TypeInit, TypeStep, PTL DEF Spec

-----------------------------------------------------------------------------
(* A command is started at most once.                                       *)
(*                                                                          *)
(* The argument: the claim moves the record from accepted to dispatching,   *)
(* and nothing moves it back, so one delivery at most stands before the     *)
(* start call, and it stands there before any start was made.               *)

(* The steps a delivery reaches only after the dispatch was claimed. *)
Claimed == {"start", "started", "recover", "probe", "found", "missing",
            "collect", "stdout", "stderr", "complete"}

DispatchInv ==
    /\ \A c \in Commands :
          /\ starts[c] <= 1
          /\ state[c] \in {"absent", "accepted"} => starts[c] = 0
          /\ starts[c] = 0 => (process[c] = "none" /\ c \notin late)
          /\ c \in late => process[c] = "none"
          /\ state[c] # "absent" => intent[c] \in Intents
    /\ \A r \in Requests :
          /\ pc[r] # "idle" => state[Serves(r)] # "absent" /\ intent[Serves(r)] = serving[r]
          /\ pc[r] \in Claimed => state[Serves(r)] # "accepted"
          /\ pc[r] = "start" => starts[Serves(r)] = 0
    /\ \A r, q \in Requests :
          (pc[r] = "start" /\ pc[q] = "start" /\ Serves(r) = Serves(q)) => r = q

LEMMA DispatchInit == Init => DispatchInv
BY DEF Init, DispatchInv, Claimed

LEMMA DispatchStep == TypeOK /\ DispatchInv /\ [Next]_vars => DispatchInv'
<1> SUFFICES ASSUME TypeOK, DispatchInv, [Next]_vars PROVE DispatchInv'
    OBVIOUS
<1> USE DEF TypeOK, DispatchInv, Claimed
<1>1. CASE UNCHANGED vars
    BY <1>1 DEF vars
<1>2. CASE \E r \in Requests, i \in Intents : AdmitNew(r, i)
    BY <1>2 DEF AdmitNew, Begin
<1>3. CASE \E r \in Requests, i \in Intents : RefuseIntent(r, i)
    BY <1>3 DEF RefuseIntent, Begin
<1>4. CASE \E r \in Requests, i \in Intents : AdmitDuplicate(r, i)
    <2>1. PICK r \in Requests, i \in Intents : AdmitDuplicate(r, i)
        BY <1>4
    <2>2. CASE state[CommandOf[i]] = "completed" /\ Answer(r, "completed", events[CommandOf[i]])
        BY <2>1, <2>2 DEF AdmitDuplicate, Begin, Join
    <2>3. CASE state[CommandOf[i]] = "accepted" /\ Enter(r, "mkdir")
        BY <2>1, <2>3 DEF AdmitDuplicate, Begin, Join
    <2>4. CASE state[CommandOf[i]] = "dispatching" /\ Answer(r, "in_progress", << >>)
        BY <2>1, <2>4 DEF AdmitDuplicate, Begin, Join
    <2>5. CASE state[CommandOf[i]] \in {"dispatching", "running", "indeterminate"} /\ Enter(r, "probe")
        BY <2>1, <2>5 DEF AdmitDuplicate, Begin, Join
    <2> QED
        BY Zenon, <2>1, <2>2, <2>3, <2>4, <2>5 DEF AdmitDuplicate, Begin, Join
<1>5. CASE \E r \in Requests, c \in Commands : ResultLookup(r, c)
    BY <1>5 DEF ResultLookup
<1>6. CASE \E r \in Requests : MakeDirectory(r)
    <2>1. PICK r \in Requests : MakeDirectory(r)
        BY <1>6
    <2>2. CASE Goto(r, "claim")
        BY <2>1, <2>2 DEF MakeDirectory
    <2>3. CASE Answer(r, "error", << >>)
        BY <2>1, <2>3 DEF MakeDirectory
    <2> QED
        BY Zenon, <2>1, <2>2, <2>3 DEF MakeDirectory
<1>7. CASE \E r \in Requests : ClaimDispatch(r)
    BY <1>7 DEF ClaimDispatch
<1>8. CASE \E r \in Requests : DispatchClaimed(r)
    BY <1>8 DEF DispatchClaimed
<1>9. CASE \E r \in Requests : StartProcess(r)
    BY <1>9 DEF StartProcess
<1>10. CASE \E r \in Requests : StartThrows(r)
    BY <1>10 DEF StartThrows
<1>11. CASE \E r \in Requests : GetProcess(r)
    <2>1. PICK r \in Requests : GetProcess(r)
        BY <1>11
    <2>2. CASE Goto(r, "found")
        BY <2>1, <2>2 DEF GetProcess
    <2>3. CASE Goto(r, "missing")
        BY <2>1, <2>3 DEF GetProcess
    <2>4. CASE Answer(r, "error", << >>)
        BY <2>1, <2>4 DEF GetProcess
    <2> QED
        BY Zenon, <2>1, <2>2, <2>3, <2>4 DEF GetProcess
<1>12. CASE \E r \in Requests : MarkRunning(r)
    BY <1>12 DEF MarkRunning
<1>13. CASE \E r \in Requests : MarkIndeterminate(r)
    BY <1>13 DEF MarkIndeterminate
<1>14. CASE \E r \in Requests : StillRunning(r)
    BY <1>14 DEF StillRunning
<1>15. CASE \E r \in Requests : ProcessLost(r)
    BY <1>15 DEF ProcessLost
<1>16. CASE \E r \in Requests : ReadExit(r)
    BY <1>16 DEF ReadExit
<1>17. CASE \E r \in Requests : AppendOutput(r)
    <2>1. PICK r \in Requests : AppendOutput(r)
        BY <1>17
    <2>2. ASSUME AppendStream(r, "stdout", "stderr") PROVE DispatchInv'
        <3> DEFINE c == Serves(r)
        <3>1. CASE /\ events' = [events EXCEPT ![c] = Append(@, "stdout")]
                   /\ state[c] # "completed"
                   /\ Goto(r, "stderr")
            BY <2>2, <3>1 DEF AppendStream
        <3>2. CASE Answer(r, "conflict", << >>) /\ UNCHANGED events
            BY <2>2, <3>2 DEF AppendStream
        <3>3. CASE Goto(r, "stderr") /\ UNCHANGED events
            BY <2>2, <3>3 DEF AppendStream
        <3> QED
            BY Zenon, <2>2, <3>1, <3>2, <3>3 DEF AppendStream
    <2>3. ASSUME AppendStream(r, "stderr", "complete") PROVE DispatchInv'
        <3> DEFINE c == Serves(r)
        <3>1. CASE /\ events' = [events EXCEPT ![c] = Append(@, "stderr")]
                   /\ state[c] # "completed"
                   /\ Goto(r, "complete")
            BY <2>3, <3>1 DEF AppendStream
        <3>2. CASE Answer(r, "conflict", << >>) /\ UNCHANGED events
            BY <2>3, <3>2 DEF AppendStream
        <3>3. CASE Goto(r, "complete") /\ UNCHANGED events
            BY <2>3, <3>3 DEF AppendStream
        <3> QED
            BY Zenon, <2>3, <3>1, <3>2, <3>3 DEF AppendStream
    <2> QED
        BY <2>1, <2>2, <2>3 DEF AppendOutput
<1>18. CASE \E r \in Requests : Complete(r)
    BY <1>18 DEF Complete
<1>19. CASE \E r \in Requests : CompleteAgain(r)
    <2>1. PICK r \in Requests : CompleteAgain(r)
        BY <1>19
    <2>2. CASE terminal[Serves(r)] = code[r] /\ Answer(r, "completed", events[Serves(r)])
        BY <2>1, <2>2 DEF CompleteAgain
    <2>3. CASE Answer(r, "conflict", << >>)
        BY <2>1, <2>3 DEF CompleteAgain
    <2> QED
        BY Zenon, <2>1, <2>2, <2>3 DEF CompleteAgain
<1>20. CASE \E c \in Commands : ProcessExits(c)
    BY <1>20 DEF ProcessExits
<1>21. CASE \E c \in Commands : LateStart(c)
    BY <1>21 DEF LateStart
<1>22. CASE Crash
    BY <1>22 DEF Crash
<1>23. CASE Destroy
    BY <1>23 DEF Destroy
<1> QED
    BY <1>1, <1>2, <1>3, <1>4, <1>5, <1>6, <1>7, <1>8, <1>9, <1>10, <1>11, <1>12, <1>13, <1>14, <1>15, <1>16, <1>17, <1>18, <1>19, <1>20, <1>21, <1>22, <1>23, NextCases

(* No delivery starts a command again: not one that lost the start's         *)
(* response, not one that finds no process, not one after a reset.           *)
THEOREM NeverRestarted == Spec => []StartedOnce
<1>1. TypeOK /\ DispatchInv /\ [Next]_vars => (TypeOK /\ DispatchInv)'
    BY TypeStep, DispatchStep
<1>2. DispatchInv => StartedOnce
    BY DEF DispatchInv, StartedOnce
<1> QED
    BY TypeInit, DispatchInit, <1>1, <1>2, PTL DEF Spec

-----------------------------------------------------------------------------
(* A complete record is final. *)

LEMMA FinalStepLemma == TypeOK /\ [Next]_vars => [FinalStep]_vars
<1> SUFFICES ASSUME TypeOK, Next PROVE FinalStep
    OBVIOUS
<1> USE DEF TypeOK, FinalStep
<1>1. CASE UNCHANGED vars
    BY <1>1 DEF vars
<1>2. CASE \E r \in Requests, i \in Intents : AdmitNew(r, i)
    BY <1>2 DEF AdmitNew, Begin
<1>3. CASE \E r \in Requests, i \in Intents : RefuseIntent(r, i)
    BY <1>3 DEF RefuseIntent, Begin
<1>4. CASE \E r \in Requests, i \in Intents : AdmitDuplicate(r, i)
    BY <1>4 DEF AdmitDuplicate, Begin, Join
<1>5. CASE \E r \in Requests, c \in Commands : ResultLookup(r, c)
    BY <1>5 DEF ResultLookup
<1>6. CASE \E r \in Requests : MakeDirectory(r)
    BY <1>6 DEF MakeDirectory
<1>7. CASE \E r \in Requests : ClaimDispatch(r)
    BY <1>7 DEF ClaimDispatch
<1>8. CASE \E r \in Requests : DispatchClaimed(r)
    BY <1>8 DEF DispatchClaimed
<1>9. CASE \E r \in Requests : StartProcess(r)
    BY <1>9 DEF StartProcess
<1>10. CASE \E r \in Requests : StartThrows(r)
    BY <1>10 DEF StartThrows
<1>11. CASE \E r \in Requests : GetProcess(r)
    BY <1>11 DEF GetProcess
<1>12. CASE \E r \in Requests : MarkRunning(r)
    BY <1>12 DEF MarkRunning
<1>13. CASE \E r \in Requests : MarkIndeterminate(r)
    BY <1>13 DEF MarkIndeterminate
<1>14. CASE \E r \in Requests : StillRunning(r)
    BY <1>14 DEF StillRunning
<1>15. CASE \E r \in Requests : ProcessLost(r)
    BY <1>15 DEF ProcessLost
<1>16. CASE \E r \in Requests : ReadExit(r)
    BY <1>16 DEF ReadExit
<1>17. CASE \E r \in Requests : AppendOutput(r)
    BY <1>17 DEF AppendOutput, AppendStream
<1>18. CASE \E r \in Requests : Complete(r)
    BY <1>18 DEF Complete
<1>19. CASE \E r \in Requests : CompleteAgain(r)
    BY <1>19 DEF CompleteAgain
<1>20. CASE \E c \in Commands : ProcessExits(c)
    BY <1>20 DEF ProcessExits
<1>21. CASE \E c \in Commands : LateStart(c)
    BY <1>21 DEF LateStart
<1>22. CASE Crash
    BY <1>22 DEF Crash
<1>23. CASE Destroy
    BY <1>23 DEF Destroy
<1> QED
    BY <1>1, <1>2, <1>3, <1>4, <1>5, <1>6, <1>7, <1>8, <1>9, <1>10, <1>11, <1>12, <1>13, <1>14, <1>15, <1>16, <1>17, <1>18, <1>19, <1>20, <1>21, <1>22, <1>23, NextCases

(* A slow collector, a late mark and a duplicate completion leave a complete *)
(* record, its result and its log as they are.                               *)
THEOREM CompleteIsFinal == Spec => ResultsFinal
<1>1. Spec => []TypeOK
    BY TypeCorrect
<1> QED
    BY <1>1, FinalStepLemma, PTL DEF Spec, ResultsFinal

-----------------------------------------------------------------------------
(* What was answered stays true. *)

AnswersInv ==
    \A r \in Requests :
        (reply[r] = "completed" /\ serving[r] # NoIntent /\ carried[r] # << >>) =>
            /\ state[Serves(r)] = "completed"
            /\ intent[Serves(r)] = serving[r]
            /\ carried[r] = events[Serves(r)]

LEMMA AnswersInit == Init => AnswersInv
BY DEF Init, AnswersInv

LEMMA AnswersStep == TypeOK /\ DispatchInv /\ AnswersInv /\ [Next]_vars => AnswersInv'
<1> SUFFICES ASSUME TypeOK, DispatchInv, AnswersInv, [Next]_vars PROVE AnswersInv'
    OBVIOUS
<1> USE DEF TypeOK, DispatchInv, Claimed, AnswersInv
<1>1. CASE UNCHANGED vars
    BY <1>1 DEF vars
<1>2. CASE \E r \in Requests, i \in Intents : AdmitNew(r, i)
    BY <1>2 DEF AdmitNew, Begin
<1>3. CASE \E r \in Requests, i \in Intents : RefuseIntent(r, i)
    BY <1>3 DEF RefuseIntent, Begin
<1>4. CASE \E r \in Requests, i \in Intents : AdmitDuplicate(r, i)
    <2>1. PICK r \in Requests, i \in Intents : AdmitDuplicate(r, i)
        BY <1>4
    <2>2. CASE state[CommandOf[i]] = "completed" /\ Answer(r, "completed", events[CommandOf[i]])
        BY <2>1, <2>2 DEF AdmitDuplicate, Begin, Join
    <2>3. CASE state[CommandOf[i]] = "accepted" /\ Enter(r, "mkdir")
        BY <2>1, <2>3 DEF AdmitDuplicate, Begin, Join
    <2>4. CASE state[CommandOf[i]] = "dispatching" /\ Answer(r, "in_progress", << >>)
        BY <2>1, <2>4 DEF AdmitDuplicate, Begin, Join
    <2>5. CASE state[CommandOf[i]] \in {"dispatching", "running", "indeterminate"} /\ Enter(r, "probe")
        BY <2>1, <2>5 DEF AdmitDuplicate, Begin, Join
    <2> QED
        BY Zenon, <2>1, <2>2, <2>3, <2>4, <2>5 DEF AdmitDuplicate, Begin, Join
<1>5. CASE \E r \in Requests, c \in Commands : ResultLookup(r, c)
    BY <1>5 DEF ResultLookup
<1>6. CASE \E r \in Requests : MakeDirectory(r)
    BY <1>6 DEF MakeDirectory
<1>7. CASE \E r \in Requests : ClaimDispatch(r)
    BY <1>7 DEF ClaimDispatch
<1>8. CASE \E r \in Requests : DispatchClaimed(r)
    BY <1>8 DEF DispatchClaimed
<1>9. CASE \E r \in Requests : StartProcess(r)
    BY <1>9 DEF StartProcess
<1>10. CASE \E r \in Requests : StartThrows(r)
    BY <1>10 DEF StartThrows
<1>11. CASE \E r \in Requests : GetProcess(r)
    BY <1>11 DEF GetProcess
<1>12. CASE \E r \in Requests : MarkRunning(r)
    BY <1>12 DEF MarkRunning
<1>13. CASE \E r \in Requests : MarkIndeterminate(r)
    BY <1>13 DEF MarkIndeterminate
<1>14. CASE \E r \in Requests : StillRunning(r)
    BY <1>14 DEF StillRunning
<1>15. CASE \E r \in Requests : ProcessLost(r)
    BY <1>15 DEF ProcessLost
<1>16. CASE \E r \in Requests : ReadExit(r)
    BY <1>16 DEF ReadExit
<1>17. CASE \E r \in Requests : AppendOutput(r)
    BY <1>17 DEF AppendOutput, AppendStream
<1>18. CASE \E r \in Requests : Complete(r)
    BY <1>18 DEF Complete
<1>19. CASE \E r \in Requests : CompleteAgain(r)
    <2>1. PICK r \in Requests : CompleteAgain(r)
        BY <1>19
    <2>2. CASE terminal[Serves(r)] = code[r] /\ Answer(r, "completed", events[Serves(r)])
        BY <2>1, <2>2 DEF CompleteAgain
    <2>3. CASE Answer(r, "conflict", << >>)
        BY <2>1, <2>3 DEF CompleteAgain
    <2> QED
        BY Zenon, <2>1, <2>2, <2>3 DEF CompleteAgain
<1>20. CASE \E c \in Commands : ProcessExits(c)
    BY <1>20 DEF ProcessExits
<1>21. CASE \E c \in Commands : LateStart(c)
    BY <1>21 DEF LateStart
<1>22. CASE Crash
    BY <1>22 DEF Crash
<1>23. CASE Destroy
    BY <1>23 DEF Destroy
<1> QED
    BY <1>1, <1>2, <1>3, <1>4, <1>5, <1>6, <1>7, <1>8, <1>9, <1>10, <1>11, <1>12, <1>13, <1>14, <1>15, <1>16, <1>17, <1>18, <1>19, <1>20, <1>21, <1>22, <1>23, NextCases

(* A result a delivery was given is the result of the intent it posted, and  *)
(* later deliveries, resets and losses never change the log it was read from.*)
THEOREM AnswersStayTrue == Spec => []AnswersHold
<1>1. TypeOK /\ DispatchInv /\ AnswersInv /\ [Next]_vars
          => (TypeOK /\ DispatchInv /\ AnswersInv)'
    BY TypeStep, DispatchStep, AnswersStep
<1>2. AnswersInv => AnswersHold
    BY DEF AnswersInv, AnswersHold
<1> QED
    BY TypeInit, DispatchInit, AnswersInit, <1>1, <1>2, PTL DEF Spec


-----------------------------------------------------------------------------
(* A complete log is whole.                                                 *)
(*                                                                          *)
(* A delivery appends only what a process that has ended wrote, a process   *)
(* ends once, and what the process wrote is in the log before the delivery  *)
(* goes on to the completion; an exit event is in no other log.             *)

(* The steps of a delivery that has read the exit code. *)
Collecting == {"stdout", "stderr", "complete"}

(* What holds of the log, the record and the process of one command. *)
LogOf(c) ==
    /\ process[c] # "none" => starts[c] = 1
    /\ process[c] \in {"none", "live"} => (events[c] = << >> /\ state[c] # "completed")
    /\ state[c] # "completed" => ~Holds(events[c], "exit")
    /\ \A s \in Stream : Holds(events[c], s) => s \in output[c]
    /\ state[c] = "completed" =>
          /\ starts[c] = 1
          /\ EndsInExit(events[c])
          /\ \A s \in Stream : s \in output[c] => Holds(events[c], s)
          /\ terminal[c] \in {exit[c], FallbackExit}

(* What a delivery that collects knows of its command. *)
Collected(r) ==
    LET c == Serves(r) IN
    pc[r] \in Collecting =>
        /\ process[c] \in {"exited", "gone"}
        /\ code[r] \in {exit[c], FallbackExit}
        /\ (pc[r] # "stdout" /\ "stdout" \in output[c]) => Holds(events[c], "stdout")
        /\ (pc[r] = "complete" /\ "stderr" \in output[c]) => Holds(events[c], "stderr")

WholeInv ==
    /\ \A c \in Commands : LogOf(c)
    /\ \A r \in Requests : Collected(r)

LEMMA WholeInit == Init => WholeInv
BY EmptyHolds DEF Init, WholeInv, LogOf, Collected, Collecting

LEMMA WholeStep == TypeOK /\ DispatchInv /\ WholeInv /\ [Next]_vars => WholeInv'
<1> SUFFICES ASSUME TypeOK, DispatchInv, WholeInv, [Next]_vars PROVE WholeInv'
    OBVIOUS
<1> USE DEF TypeOK, DispatchInv, Claimed, WholeInv, LogOf, Collected, Collecting
<1>1. CASE UNCHANGED vars
    BY <1>1 DEF vars
<1>2. CASE \E r \in Requests, i \in Intents : AdmitNew(r, i)
    BY <1>2 DEF AdmitNew, Begin
<1>3. CASE \E r \in Requests, i \in Intents : RefuseIntent(r, i)
    BY <1>3 DEF RefuseIntent, Begin
<1>4. CASE \E r \in Requests, i \in Intents : AdmitDuplicate(r, i)
    <2>1. PICK r \in Requests, i \in Intents : AdmitDuplicate(r, i)
        BY <1>4
    <2>2. CASE state[CommandOf[i]] = "completed" /\ Answer(r, "completed", events[CommandOf[i]])
        BY <2>1, <2>2 DEF AdmitDuplicate, Begin, Join
    <2>3. CASE state[CommandOf[i]] = "accepted" /\ Enter(r, "mkdir")
        BY <2>1, <2>3 DEF AdmitDuplicate, Begin, Join
    <2>4. CASE state[CommandOf[i]] = "dispatching" /\ Answer(r, "in_progress", << >>)
        BY <2>1, <2>4 DEF AdmitDuplicate, Begin, Join
    <2>5. CASE state[CommandOf[i]] \in {"dispatching", "running", "indeterminate"} /\ Enter(r, "probe")
        BY <2>1, <2>5 DEF AdmitDuplicate, Begin, Join
    <2> QED
        BY Zenon, <2>1, <2>2, <2>3, <2>4, <2>5 DEF AdmitDuplicate, Begin, Join
<1>5. CASE \E r \in Requests, c \in Commands : ResultLookup(r, c)
    BY <1>5 DEF ResultLookup
<1>6. CASE \E r \in Requests : MakeDirectory(r)
    <2>1. PICK r \in Requests : MakeDirectory(r)
        BY <1>6
    <2>2. CASE Goto(r, "claim")
        BY <2>1, <2>2 DEF MakeDirectory
    <2>3. CASE Answer(r, "error", << >>)
        BY <2>1, <2>3 DEF MakeDirectory
    <2> QED
        BY Zenon, <2>1, <2>2, <2>3 DEF MakeDirectory
<1>7. CASE \E r \in Requests : ClaimDispatch(r)
    <2>1. PICK r \in Requests : ClaimDispatch(r)
        BY <1>7
    <2>8. ASSUME NEW d \in Commands PROVE LogOf(d)'
        BY <2>1 DEF ClaimDispatch
    <2>9. ASSUME NEW q \in Requests PROVE Collected(q)'
        BY <2>1 DEF ClaimDispatch
    <2> QED
        BY <2>8, <2>9 DEF WholeInv
<1>8. CASE \E r \in Requests : DispatchClaimed(r)
    BY <1>8 DEF DispatchClaimed
<1>9. CASE \E r \in Requests : StartProcess(r)
    BY <1>9 DEF StartProcess
<1>10. CASE \E r \in Requests : StartThrows(r)
    BY <1>10 DEF StartThrows
<1>11. CASE \E r \in Requests : GetProcess(r)
    <2>1. PICK r \in Requests : GetProcess(r)
        BY <1>11
    <2>2. CASE Goto(r, "found")
        BY <2>1, <2>2 DEF GetProcess
    <2>3. CASE Goto(r, "missing")
        BY <2>1, <2>3 DEF GetProcess
    <2>4. CASE Answer(r, "error", << >>)
        BY <2>1, <2>4 DEF GetProcess
    <2> QED
        BY Zenon, <2>1, <2>2, <2>3, <2>4 DEF GetProcess
<1>12. CASE \E r \in Requests : MarkRunning(r)
    BY <1>12 DEF MarkRunning
<1>13. CASE \E r \in Requests : MarkIndeterminate(r)
    BY <1>13 DEF MarkIndeterminate
<1>14. CASE \E r \in Requests : StillRunning(r)
    BY <1>14 DEF StillRunning
<1>15. CASE \E r \in Requests : ProcessLost(r)
    BY <1>15 DEF ProcessLost
<1>16. CASE \E r \in Requests : ReadExit(r)
    <2>1. PICK r \in Requests : ReadExit(r)
        BY <1>16
    <2>2. CASE code' = [code EXCEPT ![r] = exit[Serves(r)]]
        BY <2>1, <2>2 DEF ReadExit
    <2>3. CASE code' = [code EXCEPT ![r] = FallbackExit]
        BY <2>1, <2>3 DEF ReadExit
    <2> QED
        BY Zenon, <2>1, <2>2, <2>3 DEF ReadExit
<1>17. CASE \E r \in Requests : AppendOutput(r)
    <2>1. PICK r \in Requests : AppendOutput(r)
        BY <1>17
    <2> DEFINE c == Serves(r)
    <2>2. ASSUME AppendStream(r, "stdout", "stderr") PROVE WholeInv'
        <3>1. CASE /\ events' = [events EXCEPT ![c] = Append(@, "stdout")]
                   /\ "stdout" \in output[c]
                   /\ state[c] # "completed"
                   /\ Goto(r, "stderr")
            <4>1. /\ c \in Commands /\ pc[r] = "stdout" /\ process[c] \in {"exited", "gone"}
                  /\ events[c] \in Seq(Event) /\ "stdout" \in Event
                  /\ events'[c] = Append(events[c], "stdout")
                BY <2>2, <3>1 DEF AppendStream, Event
            <4>2. \A e : Holds(events'[c], e) <=> (Holds(events[c], e) \/ "stdout" = e)
                BY <4>1, HoldsAppend
            <4>3. \A d \in Commands : d # c => events'[d] = events[d]
                BY <3>1
            <4>4. ASSUME NEW d \in Commands PROVE LogOf(d)'
                <5>1. CASE d = c
                    BY <2>2, <3>1, <4>1, <4>2, <5>1 DEF AppendStream
                <5>2. CASE d # c
                    BY <2>2, <4>3, <5>2 DEF AppendStream
                <5> QED
                    BY <5>1, <5>2
            <4>5. ASSUME NEW q \in Requests PROVE Collected(q)'
                BY <2>2, <3>1, <4>1, <4>2, <4>3 DEF AppendStream
            <4> QED
                BY <4>4, <4>5
        <3>2. CASE Answer(r, "conflict", << >>) /\ UNCHANGED events
            BY <2>2, <3>2 DEF AppendStream
        <3>3. CASE Goto(r, "stderr") /\ "stdout" \notin output[c] /\ UNCHANGED events
            BY <2>2, <3>3 DEF AppendStream
        <3> QED
            BY Zenon, <2>2, <3>1, <3>2, <3>3 DEF AppendStream
    <2>3. ASSUME AppendStream(r, "stderr", "complete") PROVE WholeInv'
        <3>1. CASE /\ events' = [events EXCEPT ![c] = Append(@, "stderr")]
                   /\ "stderr" \in output[c]
                   /\ state[c] # "completed"
                   /\ Goto(r, "complete")
            <4>1. /\ c \in Commands /\ pc[r] = "stderr" /\ process[c] \in {"exited", "gone"}
                  /\ events[c] \in Seq(Event) /\ "stderr" \in Event
                  /\ events'[c] = Append(events[c], "stderr")
                BY <2>3, <3>1 DEF AppendStream, Event
            <4>2. \A e : Holds(events'[c], e) <=> (Holds(events[c], e) \/ "stderr" = e)
                BY <4>1, HoldsAppend
            <4>3. \A d \in Commands : d # c => events'[d] = events[d]
                BY <3>1
            <4>4. ASSUME NEW d \in Commands PROVE LogOf(d)'
                <5>1. CASE d = c
                    BY <2>3, <3>1, <4>1, <4>2, <5>1 DEF AppendStream
                <5>2. CASE d # c
                    BY <2>3, <4>3, <5>2 DEF AppendStream
                <5> QED
                    BY <5>1, <5>2
            <4>5. ASSUME NEW q \in Requests PROVE Collected(q)'
                BY <2>3, <3>1, <4>1, <4>2, <4>3 DEF AppendStream
            <4> QED
                BY <4>4, <4>5
        <3>2. CASE Answer(r, "conflict", << >>) /\ UNCHANGED events
            BY <2>3, <3>2 DEF AppendStream
        <3>3. CASE Goto(r, "complete") /\ "stderr" \notin output[c] /\ UNCHANGED events
            BY <2>3, <3>3 DEF AppendStream
        <3> QED
            BY Zenon, <2>3, <3>1, <3>2, <3>3 DEF AppendStream
    <2> QED
        BY <2>1, <2>2, <2>3 DEF AppendOutput
<1>18. CASE \E r \in Requests : Complete(r)
    <2>1. PICK r \in Requests : Complete(r)
        BY <1>18
    <2> DEFINE c == Serves(r)
    <2>2. /\ c \in Commands /\ pc[r] = "complete" /\ state[c] # "completed"
          /\ process[c] \in {"exited", "gone"}
          /\ events[c] \in Seq(Event) /\ "exit" \in Event
        BY <2>1 DEF Complete, Event
    <2>3. \A e : Holds(Append(events[c], "exit"), e) <=> (Holds(events[c], e) \/ "exit" = e)
        BY <2>2, HoldsAppend
    <2>4. EndsInExit(Append(events[c], "exit"))
        BY <2>2, ExitAppended
    <2>8. ASSUME NEW d \in Commands PROVE LogOf(d)'
        BY <2>1, <2>2, <2>3, <2>4 DEF Complete
    <2>9. ASSUME NEW q \in Requests PROVE Collected(q)'
        BY <2>1, <2>2, <2>3, <2>4 DEF Complete
    <2> QED
        BY <2>8, <2>9 DEF WholeInv
<1>19. CASE \E r \in Requests : CompleteAgain(r)
    <2>1. PICK r \in Requests : CompleteAgain(r)
        BY <1>19
    <2>2. CASE terminal[Serves(r)] = code[r] /\ Answer(r, "completed", events[Serves(r)])
        BY <2>1, <2>2 DEF CompleteAgain
    <2>3. CASE Answer(r, "conflict", << >>)
        BY <2>1, <2>3 DEF CompleteAgain
    <2> QED
        BY Zenon, <2>1, <2>2, <2>3 DEF CompleteAgain
<1>20. CASE \E c \in Commands : ProcessExits(c)
    <2>1. PICK c \in Commands : ProcessExits(c)
        BY <1>20
    <2>2. \A e : ~Holds(events[c], e)
        BY <2>1, EmptyHolds DEF ProcessExits
    <2>8. ASSUME NEW d \in Commands PROVE LogOf(d)'
        BY <2>1, <2>2 DEF ProcessExits
    <2>9. ASSUME NEW q \in Requests PROVE Collected(q)'
        BY <2>1, <2>2 DEF ProcessExits
    <2> QED
        BY <2>8, <2>9 DEF WholeInv
<1>21. CASE \E c \in Commands : LateStart(c)
    <2>1. PICK c \in Commands : LateStart(c)
        BY <1>21
    <2>3. starts[c] \in Nat /\ starts[c] <= 1 /\ starts[c] # 0 /\ process[c] = "none"
        BY <2>1 DEF LateStart
    <2>2. starts[c] = 1 /\ process[c] = "none"
        <3> HIDE DEF TypeOK, DispatchInv, WholeInv
        <3> QED
            BY <2>3
    <2>8. ASSUME NEW d \in Commands PROVE LogOf(d)'
        BY <2>1, <2>2 DEF LateStart
    <2>9. ASSUME NEW q \in Requests PROVE Collected(q)'
        BY <2>1, <2>2 DEF LateStart
    <2> QED
        BY <2>8, <2>9 DEF WholeInv
<1>22. CASE Crash
    BY <1>22 DEF Crash
<1>23. CASE Destroy
    <2>1. Destroy
        BY <1>23
    <2>8. ASSUME NEW d \in Commands PROVE LogOf(d)'
        BY <2>1 DEF Destroy
    <2>9. ASSUME NEW q \in Requests PROVE Collected(q)'
        BY <2>1 DEF Destroy
    <2> QED
        BY <2>8, <2>9 DEF WholeInv
<1> QED
    BY <1>1, <1>2, <1>3, <1>4, <1>5, <1>6, <1>7, <1>8, <1>9, <1>10, <1>11, <1>12, <1>13, <1>14, <1>15, <1>16, <1>17, <1>18, <1>19, <1>20, <1>21, <1>22, <1>23, NextCases

(* A completed command was started, its log holds every stream its process   *)
(* wrote and no other and ends in its only exit event, and its exit code is  *)
(* the process's own or the fallback.                                        *)
THEOREM CompletedLogsWhole == Spec => []CompletedIsWhole
<1>1. TypeOK /\ DispatchInv /\ WholeInv /\ [Next]_vars
          => (TypeOK /\ DispatchInv /\ WholeInv)'
    BY TypeStep, DispatchStep, WholeStep
<1>2. WholeInv => CompletedIsWhole
    BY DEF WholeInv, LogOf, CompletedIsWhole
<1> QED
    BY TypeInit, DispatchInit, WholeInit, <1>1, <1>2, PTL DEF Spec

==============================================================================
