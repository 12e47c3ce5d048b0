------------------------- MODULE StepUpWorkerProofs -------------------------
(***************************************************************************)
(* What TLAPS proves of StepUpWorker for every set of purchases and every  *)
(* number of failures and crashes: its types, that no close is stale, that *)
(* the ledger counts what Viseca approved and nothing else, that a process *)
(* sends one /resolve per purchase, that the worker implements Purchase,   *)
(* that a customer's approval survives one failure, and that Viseca and    *)
(* the ledger agree while nothing fails.                                   *)
(***************************************************************************)
EXTENDS StepUpWorker, TLAPS

(* Where the loop holds a purchase, and what the engine may be doing. *)
Handling == {"lookup", "decide", "late", "post", "posted", "window", "save"}
Working  == {"running", "admitted", "recorded"}

(* The handler's purchase is a real one, the engine works only for it, and *)
(* what the engine is about to store is a first decision.                  *)
HandlerInv ==
    /\ pc \in Handling => cur \in Auth
    /\ eng \in Working => cur \in Auth
    /\ eng \in Working =>
          pc \in {"decide", "late"} \/ (pc \in {"post", "posted"} /\ mode = "overrun")
    /\ eng = "admitted" => entry \in {"approve", "decline", "pending"}

(* A task inside the lock: alone, on an open step-up, with an answer that  *)
(* is "approved" only after Viseca approved.                               *)
TaskInv(t) ==
    \/ /\ t.by = "start" /\ pc = "resending"
       /\ t.step = "next" \/ (t.step = "send" /\ t.id \in Auth)
    \/ /\ t.by = "customer" /\ t.step = "send" /\ t.id \in Auth
       /\ t.answer \in {"approved", "declined"}
       /\ ledger[t.id] = "pending"
    \/ /\ t.by \in {"timer", "read"} /\ t.step \in {"read", "send", "reread"}
       /\ t.id \in Auth /\ ledger[t.id] = "pending"
    \/ /\ t.by \in {"customer", "timer", "read"} /\ t.step = "record"
       /\ t.id \in Auth /\ ledger[t.id] = "pending"
       /\ t.answer \in Closings
       /\ t.answer = "approved" => plat[t.id] = "approved"

LockInv ==
    /\ \A t, u \in inside : t = u
    /\ \A t \in inside : TaskInv(t)

(* Before a process has claimed the /resolve of an id it has sent none,     *)
(* and a task about to send is the one that claimed it.                    *)
SendInv ==
    /\ \A a \in Auth : resolves[a] <= crashes + 1
    /\ \A a \in Auth : a \notin sent => resolves[a] <= crashes
    /\ \A t \in inside : t.step = "send" => t.id \in sent /\ resolves[t.id] <= crashes

(* An approval is only posted after the ledger holds it.                   *)
PostInv ==
    /\ pc = "post" /\ body = "approve" => ledger[cur] = "approve"
    /\ eng \in {"recorded", "returned"} /\ pc \in {"decide", "late"}
          /\ entry = "approve" => ledger[cur] = "approve"

CountedInv == NothingCountedUnapproved /\ TeamApprovalRecorded

IInv == TypeOK /\ HandlerInv /\ LockInv /\ SendInv /\ PostInv /\ CountedInv

-----------------------------------------------------------------------------
(* The invariant holds before the first start. *)
LEMMA InitHolds == Init => IInv
BY WorkerAssumption, SMT
   DEF Init, IInv, TypeOK, HandlerInv, LockInv, SendInv, PostInv, CountedInv,
       NothingCountedUnapproved, TeamApprovalRecorded, Outcomes, Entries, Closings,
       Handling, Working, Tasks

(* A task inside the lock stays one when it goes on to its next step. *)
LEMMA TaskMoves ==
    ASSUME NEW t \in Tasks, NEW step \in {"read", "send", "reread", "record"},
           NEW answer \in Closings \cup {"none"}
    PROVE  Task(t.by, t.id, step, answer) \in Tasks
BY SMT DEF Task, Tasks

(* No step of the worker breaks a type. *)
LEMMA TypePreserved == TypeOK /\ HandlerInv /\ LockInv /\ [Next]_vars => TypeOK'
<1> SUFFICES ASSUME TypeOK, HandlerInv, LockInv, [Next]_vars PROVE TypeOK'
    OBVIOUS
<1> USE WorkerAssumption DEF platVars, storeVars, loopVars, engVars, memVars, budget,
        TypeOK, Outcomes, Entries, Closings
<1>1. CASE Start
     BY <1>1, SMT DEF Start
<1>2. CASE RecoverPending
     BY <1>2, SMT DEF RecoverPending
<1>3. CASE ListAtStart
     BY <1>3, SMT DEF ListAtStart, Fault, NoFault
<1>4. CASE ReconcileBegin
     BY <1>4, SMT DEF ReconcileBegin, Enters, Task, LockFree, Tasks
<1>5. CASE ReconcileSend
     BY <1>5, SMT DEF ReconcileSend, Task, ResolveArrives, Fault, NoFault, LockInv,
        TaskInv, Tasks
<1>6. CASE ReconcileDone
     BY <1>6, SMT DEF ReconcileDone, Leaves, Tasks
<1>7. CASE Crash
     BY <1>7, SMT DEF Crash
<1>8. CASE StillWaiting
     BY <1>8, SMT DEF StillWaiting, Returns, Armed, HandlerInv, Handling, Working
<1>9. CASE Redelivered
     BY <1>9, SMT DEF Redelivered, Outcome, HandlerInv, Handling, Working
<1>10. CASE EngineStarts
     BY <1>10, SMT DEF EngineStarts, HandlerInv, Handling, Working
<1>11. CASE EngineAdmits
     BY <1>11, SMT DEF EngineAdmits, Admissible, HandlerInv, Handling, Working
<1>12. CASE EngineRecords
     BY <1>12, SMT DEF EngineRecords, Recorded, HandlerInv, Handling, Working
<1>13. CASE EngineReturns
     BY <1>13, SMT DEF EngineReturns
<1>14. CASE EngineFails
     BY <1>14, SMT DEF EngineFails, Fault
<1>15. CASE ResultReady
     BY <1>15, SMT DEF ResultReady, Outcome, HandlerInv, Handling, Working
<1>16. CASE DeclineUnevaluable
     BY <1>16, SMT DEF DeclineUnevaluable, Recorded, Fault, NoFault, HandlerInv,
        Handling, Working
<1>17. CASE Overrun
     BY <1>17, SMT DEF Overrun, OverrunEntries, Outcome, HandlerInv, Handling, Working
<1>18. CASE LateFailure
     BY <1>18, SMT DEF LateFailure, Outcome, HandlerInv, Handling, Working
<1>19. CASE Post
     BY <1>19, SMT DEF Post, DecisionArrives, Fault, NoFault, HandlerInv, Handling,
        Working
<1>20. CASE PostedNew
     BY <1>20, SMT DEF PostedNew, HandlerInv, Handling, Working
<1>21. CASE PostedStored
     BY <1>21, SMT DEF PostedStored, Returns, Armed, HandlerInv, Handling, Working
<1>22. CASE SettleOverrun
     BY <1>22, SMT DEF SettleOverrun, Recorded, Returns, HandlerInv, Handling, Working
<1>23. CASE AwaitAnswer
     BY <1>23, SMT DEF AwaitAnswer, Returns, Armed, HandlerInv, Handling, Working
<1>24. CASE AwaitSave
     BY <1>24, SMT DEF AwaitSave, Returns
<1>25. CASE CustomerSend
    <2>1. PICK t \in inside : CustomerSend!(t)
          BY <1>25 DEF CustomerSend
    <2>2. t \in Tasks /\ t.id \in Auth /\ t.answer \in Closings \cup {"none"}
          BY <2>1, SMT DEF Tasks, LockInv, TaskInv
    <2>3. \A step \in {"read", "send", "reread", "record"}, answer \in Closings \cup {"none"} :
             Task(t.by, t.id, step, answer) \in Tasks
          BY TaskMoves, <2>2
    <2>4. inside' \subseteq Tasks
          BY <2>1, <2>2, <2>3, SMT DEF GoesOn, Leaves
    <2> QED
          BY <2>1, <2>2, <2>4, SMT DEF ResolveArrives, Fault, NoFault
<1>26. CASE ExpireRead
    <2>1. PICK t \in inside, result \in Closings \cup {"none"} : ExpireRead!(t, result)
          BY <1>26 DEF ExpireRead
    <2>2. t \in Tasks /\ t.id \in Auth /\ t.answer \in Closings \cup {"none"}
          BY <2>1, SMT DEF Tasks, LockInv, TaskInv
    <2>3. \A step \in {"read", "send", "reread", "record"}, answer \in Closings \cup {"none"} :
             Task(t.by, t.id, step, answer) \in Tasks
          BY TaskMoves, <2>2
    <2>4. inside' \subseteq Tasks
          BY <2>1, <2>2, <2>3, SMT DEF GoesOn
    <2> QED
          BY <2>1, <2>2, <2>4, SMT DEF Reads, PlatformResult, Claims, Fault, NoFault
<1>27. CASE ExpireSend
    <2>1. PICK t \in inside : ExpireSend!(t)
          BY <1>27 DEF ExpireSend
    <2>2. t \in Tasks /\ t.id \in Auth /\ t.answer \in Closings \cup {"none"}
          BY <2>1, SMT DEF Tasks, LockInv, TaskInv
    <2>3. \A step \in {"read", "send", "reread", "record"}, answer \in Closings \cup {"none"} :
             Task(t.by, t.id, step, answer) \in Tasks
          BY TaskMoves, <2>2
    <2>4. inside' \subseteq Tasks
          BY <2>1, <2>2, <2>3, SMT DEF GoesOn
    <2> QED
          BY <2>1, <2>2, <2>4, SMT DEF ResolveArrives, Fault, NoFault
<1>28. CASE ExpireReread
    <2>1. PICK t \in inside, result \in Closings \cup {"none"} : ExpireReread!(t, result)
          BY <1>28 DEF ExpireReread
    <2>2. t \in Tasks /\ t.id \in Auth /\ t.answer \in Closings \cup {"none"}
          BY <2>1, SMT DEF Tasks, LockInv, TaskInv
    <2>3. \A step \in {"read", "send", "reread", "record"}, answer \in Closings \cup {"none"} :
             Task(t.by, t.id, step, answer) \in Tasks
          BY TaskMoves, <2>2
    <2>4. inside' \subseteq Tasks
          BY <2>1, <2>2, <2>3, SMT DEF GoesOn
    <2> QED
          BY <2>1, <2>2, <2>4, SMT DEF Reads, PlatformResult, Fault, NoFault
<1>29. CASE Record
     BY <1>29, SMT DEF Record, Leaves, Fault, NoFault, LockInv, TaskInv
<1>30. ASSUME NEW a \in Auth, ReconcileNext(a) PROVE TypeOK'
     BY <1>30, SMT DEF ReconcileNext, Task, Claims, Tasks
<1>31. ASSUME NEW a \in Auth, Poll(a) PROVE TypeOK'
     BY <1>31, SMT DEF Poll
<1>32. ASSUME NEW a \in Auth, PlatformTimesOut(a) PROVE TypeOK'
     BY <1>32, SMT DEF PlatformTimesOut
<1>33. ASSUME NEW a \in Auth, WindowPasses(a) PROVE TypeOK'
     BY <1>33, SMT DEF WindowPasses
<1>34. ASSUME NEW a \in Auth, SaveEvent(a) PROVE TypeOK'
     BY <1>34, SMT DEF SaveEvent, Fault, NoFault
<1>35. ASSUME NEW a \in Auth, ExpireByTimer(a) PROVE TypeOK'
     BY <1>35, SMT DEF ExpireByTimer, Enters, Task, Tasks
<1>36. ASSUME NEW a \in Auth, ExpireByRead(a) PROVE TypeOK'
     BY <1>36, SMT DEF ExpireByRead, Enters, Task, Tasks
<1>37. ASSUME NEW a \in Auth, CustomerAnswers(a, "approved") PROVE TypeOK'
     BY <1>37, SMT DEF CustomerAnswers, Enters, Task, Claims, Tasks
<1>38. ASSUME NEW a \in Auth, CustomerAnswers(a, "declined") PROVE TypeOK'
     BY <1>38, SMT DEF CustomerAnswers, Enters, Task, Claims, Tasks
<1>39. CASE UNCHANGED vars
     BY <1>39, SMT DEF vars
<1> QED
     BY <1>1, <1>2, <1>3, <1>4, <1>5, <1>6, <1>7, <1>8, <1>9, <1>10, <1>11, <1>12,
        <1>13, <1>14, <1>15, <1>16, <1>17, <1>18, <1>19, <1>20, <1>21, <1>22, <1>23,
        <1>24, <1>25, <1>26, <1>27, <1>28, <1>29, <1>30, <1>31, <1>32, <1>33, <1>34,
        <1>35, <1>36, <1>37, <1>38, <1>39,
        SMT DEF Next, StartSteps, LoopSteps, EngineSteps, LockSteps

(* No step takes the purchase from a handler or an engine that works on it. *)
LEMMA HandlerPreserved == TypeOK /\ HandlerInv /\ LockInv /\ [Next]_vars => HandlerInv'
<1> SUFFICES ASSUME TypeOK, HandlerInv, LockInv, [Next]_vars PROVE HandlerInv'
    OBVIOUS
<1> USE WorkerAssumption DEF platVars, storeVars, loopVars, engVars, memVars, budget,
        TypeOK, Outcomes, Entries, Closings, HandlerInv, Handling, Working
<1>1. CASE Start
     BY <1>1, SMT DEF Start
<1>2. CASE RecoverPending
     BY <1>2, SMT DEF RecoverPending
<1>3. CASE ListAtStart
     BY <1>3, SMT DEF ListAtStart, Fault, NoFault
<1>4. CASE ReconcileBegin
     BY <1>4, SMT DEF ReconcileBegin, Enters, Task, LockFree
<1>5. CASE ReconcileSend
     BY <1>5, SMT DEF ReconcileSend, Task, ResolveArrives, Fault, NoFault
<1>6. CASE ReconcileDone
     BY <1>6, SMT DEF ReconcileDone, Leaves, LockInv, TaskInv
<1>7. CASE Crash
     BY <1>7, SMT DEF Crash
<1>8. CASE StillWaiting
     BY <1>8, SMT DEF StillWaiting, Returns, Armed
<1>9. CASE Redelivered
     BY <1>9, SMT DEF Redelivered, Outcome
<1>10. CASE EngineStarts
     BY <1>10, SMT DEF EngineStarts
<1>11. CASE EngineAdmits
     BY <1>11, SMT DEF EngineAdmits, Admissible
<1>12. CASE EngineRecords
     BY <1>12, SMT DEF EngineRecords, Recorded
<1>13. CASE EngineReturns
     BY <1>13, SMT DEF EngineReturns
<1>14. CASE EngineFails
     BY <1>14, SMT DEF EngineFails, Fault
<1>15. CASE ResultReady
     BY <1>15, SMT DEF ResultReady, Outcome
<1>16. CASE DeclineUnevaluable
     BY <1>16, SMT DEF DeclineUnevaluable, Recorded, Fault, NoFault
<1>17. CASE Overrun
     BY <1>17, SMT DEF Overrun, OverrunEntries, Outcome
<1>18. CASE LateFailure
     BY <1>18, SMT DEF LateFailure, Outcome
<1>19. CASE Post
     BY <1>19, SMT DEF Post, DecisionArrives, Fault, NoFault
<1>20. CASE PostedNew
     BY <1>20, SMT DEF PostedNew
<1>21. CASE PostedStored
     BY <1>21, SMT DEF PostedStored, Returns, Armed
<1>22. CASE SettleOverrun
     BY <1>22, SMT DEF SettleOverrun, Recorded, Returns
<1>23. CASE AwaitAnswer
     BY <1>23, SMT DEF AwaitAnswer, Returns, Armed
<1>24. CASE AwaitSave
     BY <1>24, SMT DEF AwaitSave, Returns
<1>25. CASE CustomerSend
     BY <1>25, SMT DEF CustomerSend, ResolveArrives, GoesOn, Leaves, Fault, NoFault
<1>26. CASE ExpireRead
     BY <1>26, SMT DEF ExpireRead, Reads, PlatformResult, GoesOn, Claims, Fault, NoFault
<1>27. CASE ExpireSend
     BY <1>27, SMT DEF ExpireSend, ResolveArrives, GoesOn, Fault, NoFault
<1>28. CASE ExpireReread
     BY <1>28, SMT DEF ExpireReread, Reads, PlatformResult, GoesOn, Fault, NoFault
<1>29. CASE Record
     BY <1>29, SMT DEF Record, Leaves, Fault, NoFault
<1>30. ASSUME NEW a \in Auth, ReconcileNext(a) PROVE HandlerInv'
     BY <1>30, SMT DEF ReconcileNext, Task, Claims
<1>31. ASSUME NEW a \in Auth, Poll(a) PROVE HandlerInv'
     BY <1>31, SMT DEF Poll
<1>32. ASSUME NEW a \in Auth, PlatformTimesOut(a) PROVE HandlerInv'
     BY <1>32, SMT DEF PlatformTimesOut
<1>33. ASSUME NEW a \in Auth, WindowPasses(a) PROVE HandlerInv'
     BY <1>33, SMT DEF WindowPasses
<1>34. ASSUME NEW a \in Auth, SaveEvent(a) PROVE HandlerInv'
     BY <1>34, SMT DEF SaveEvent, Fault, NoFault
<1>35. ASSUME NEW a \in Auth, ExpireByTimer(a) PROVE HandlerInv'
     BY <1>35, SMT DEF ExpireByTimer, Enters, Task
<1>36. ASSUME NEW a \in Auth, ExpireByRead(a) PROVE HandlerInv'
     BY <1>36, SMT DEF ExpireByRead, Enters, Task
<1>37. ASSUME NEW a \in Auth, CustomerAnswers(a, "approved") PROVE HandlerInv'
     BY <1>37, SMT DEF CustomerAnswers, Enters, Task, Claims
<1>38. ASSUME NEW a \in Auth, CustomerAnswers(a, "declined") PROVE HandlerInv'
     BY <1>38, SMT DEF CustomerAnswers, Enters, Task, Claims
<1>39. CASE UNCHANGED vars
     BY <1>39, SMT DEF vars
<1> QED
     BY <1>1, <1>2, <1>3, <1>4, <1>5, <1>6, <1>7, <1>8, <1>9, <1>10, <1>11, <1>12,
        <1>13, <1>14, <1>15, <1>16, <1>17, <1>18, <1>19, <1>20, <1>21, <1>22, <1>23,
        <1>24, <1>25, <1>26, <1>27, <1>28, <1>29, <1>30, <1>31, <1>32, <1>33, <1>34,
        <1>35, <1>36, <1>37, <1>38, <1>39,
        SMT DEF Next, StartSteps, LoopSteps, EngineSteps, LockSteps

(* No step closes a step-up behind the back of the task inside the lock,   *)
(* and no task gets an "approved" that Viseca has not given.               *)
LEMMA LockPreserved == TypeOK /\ HandlerInv /\ LockInv /\ [Next]_vars => LockInv'
<1> SUFFICES ASSUME TypeOK, HandlerInv, LockInv, [Next]_vars PROVE LockInv'
    OBVIOUS
<1> USE WorkerAssumption DEF platVars, storeVars, loopVars, engVars, memVars, budget,
        TypeOK, Outcomes, Entries, Closings, LockInv, TaskInv
<1>1. CASE Start
     BY <1>1, SMT DEF Start
<1>2. CASE RecoverPending
     BY <1>2, SMT DEF RecoverPending
<1>3. CASE ListAtStart
     BY <1>3, SMT DEF ListAtStart, Fault, NoFault
<1>4. CASE ReconcileBegin
     BY <1>4, SMT DEF ReconcileBegin, Enters, Task, LockFree
<1>5. CASE ReconcileSend
     BY <1>5, SMT DEF ReconcileSend, Task, ResolveArrives, Fault, NoFault
<1>6. CASE ReconcileDone
     BY <1>6, SMT DEF ReconcileDone, Leaves
<1>7. CASE Crash
     BY <1>7, SMT DEF Crash
<1>8. CASE StillWaiting
     BY <1>8, SMT DEF StillWaiting, Returns, Armed
<1>9. CASE Redelivered
     BY <1>9, SMT DEF Redelivered, Outcome
<1>10. CASE EngineStarts
     BY <1>10, SMT DEF EngineStarts
<1>11. CASE EngineAdmits
     BY <1>11, SMT DEF EngineAdmits, Admissible
<1>12. CASE EngineRecords
     BY <1>12, SMT DEF EngineRecords, Recorded, HandlerInv, Working
<1>13. CASE EngineReturns
     BY <1>13, SMT DEF EngineReturns
<1>14. CASE EngineFails
     BY <1>14, SMT DEF EngineFails, Fault
<1>15. CASE ResultReady
     BY <1>15, SMT DEF ResultReady, Outcome
<1>16. CASE DeclineUnevaluable
     BY <1>16, SMT DEF DeclineUnevaluable, Recorded, Fault, NoFault, HandlerInv,
        Handling
<1>17. CASE Overrun
     BY <1>17, SMT DEF Overrun, OverrunEntries, Outcome
<1>18. CASE LateFailure
     BY <1>18, SMT DEF LateFailure, Outcome
<1>19. CASE Post
     BY <1>19, SMT DEF Post, DecisionArrives, Fault, NoFault, HandlerInv, Handling
<1>20. CASE PostedNew
     BY <1>20, SMT DEF PostedNew
<1>21. CASE PostedStored
     BY <1>21, SMT DEF PostedStored, Returns, Armed
<1>22. CASE SettleOverrun
     BY <1>22, SMT DEF SettleOverrun, Recorded, Returns, HandlerInv, Handling
<1>23. CASE AwaitAnswer
     BY <1>23, SMT DEF AwaitAnswer, Returns, Armed
<1>24. CASE AwaitSave
     BY <1>24, SMT DEF AwaitSave, Returns
<1>25. CASE CustomerSend
     BY <1>25, SMT DEF CustomerSend, ResolveArrives, GoesOn, Leaves, Fault, NoFault,
        Task
<1>26. CASE ExpireRead
     BY <1>26, SMT DEF ExpireRead, Reads, PlatformResult, GoesOn, Claims, Fault,
        NoFault, Task
<1>27. CASE ExpireSend
     BY <1>27, SMT DEF ExpireSend, ResolveArrives, GoesOn, Fault, NoFault, Task
<1>28. CASE ExpireReread
     BY <1>28, SMT DEF ExpireReread, Reads, PlatformResult, GoesOn, Fault, NoFault, Task
<1>29. CASE Record
     BY <1>29, SMT DEF Record, Leaves, Fault, NoFault
<1>30. ASSUME NEW a \in Auth, ReconcileNext(a) PROVE LockInv'
     BY <1>30, SMT DEF ReconcileNext, Task, Claims
<1>31. ASSUME NEW a \in Auth, Poll(a) PROVE LockInv'
     BY <1>31, SMT DEF Poll
<1>32. ASSUME NEW a \in Auth, PlatformTimesOut(a) PROVE LockInv'
     BY <1>32, SMT DEF PlatformTimesOut
<1>33. ASSUME NEW a \in Auth, WindowPasses(a) PROVE LockInv'
     BY <1>33, SMT DEF WindowPasses
<1>34. ASSUME NEW a \in Auth, SaveEvent(a) PROVE LockInv'
     BY <1>34, SMT DEF SaveEvent, Fault, NoFault
<1>35. ASSUME NEW a \in Auth, ExpireByTimer(a) PROVE LockInv'
     BY <1>35, SMT DEF ExpireByTimer, Enters, Task, LockFree
<1>36. ASSUME NEW a \in Auth, ExpireByRead(a) PROVE LockInv'
     BY <1>36, SMT DEF ExpireByRead, Enters, Task, LockFree
<1>37. ASSUME NEW a \in Auth, CustomerAnswers(a, "approved") PROVE LockInv'
     BY <1>37, SMT DEF CustomerAnswers, Enters, Task, Claims, LockFree
<1>38. ASSUME NEW a \in Auth, CustomerAnswers(a, "declined") PROVE LockInv'
     BY <1>38, SMT DEF CustomerAnswers, Enters, Task, Claims, LockFree
<1>39. CASE UNCHANGED vars
     BY <1>39, SMT DEF vars
<1> QED
     BY <1>1, <1>2, <1>3, <1>4, <1>5, <1>6, <1>7, <1>8, <1>9, <1>10, <1>11, <1>12,
        <1>13, <1>14, <1>15, <1>16, <1>17, <1>18, <1>19, <1>20, <1>21, <1>22, <1>23,
        <1>24, <1>25, <1>26, <1>27, <1>28, <1>29, <1>30, <1>31, <1>32, <1>33, <1>34,
        <1>35, <1>36, <1>37, <1>38, <1>39,
        SMT DEF Next, StartSteps, LoopSteps, EngineSteps, LockSteps

(* Every /resolve goes out under a claim of this process. *)
LEMMA SendPreserved == TypeOK /\ HandlerInv /\ LockInv /\ SendInv /\ [Next]_vars => SendInv'
<1> SUFFICES ASSUME TypeOK, HandlerInv, LockInv, SendInv, [Next]_vars PROVE SendInv'
    OBVIOUS
<1> USE WorkerAssumption DEF platVars, storeVars, loopVars, engVars, memVars, budget,
        TypeOK, SendInv
<1>1. CASE Start
     BY <1>1, SMT DEF Start
<1>2. CASE RecoverPending
     BY <1>2, SMT DEF RecoverPending
<1>3. CASE ListAtStart
     BY <1>3, SMT DEF ListAtStart, Fault, NoFault
<1>4. CASE ReconcileBegin
     BY <1>4, SMT DEF ReconcileBegin, Enters, Task, LockFree
<1>5. CASE ReconcileSend
     BY <1>5, SMT DEF ReconcileSend, Task, ResolveArrives, Fault, NoFault, LockInv,
        TaskInv
<1>6. CASE ReconcileDone
     BY <1>6, SMT DEF ReconcileDone, Leaves
<1>7. CASE Crash
     BY <1>7, SMT DEF Crash
<1>8. CASE StillWaiting
     BY <1>8, SMT DEF StillWaiting, Returns, Armed
<1>9. CASE Redelivered
     BY <1>9, SMT DEF Redelivered, Outcome
<1>10. CASE EngineStarts
     BY <1>10, SMT DEF EngineStarts
<1>11. CASE EngineAdmits
     BY <1>11, SMT DEF EngineAdmits, Admissible
<1>12. CASE EngineRecords
     BY <1>12, SMT DEF EngineRecords, Recorded
<1>13. CASE EngineReturns
     BY <1>13, SMT DEF EngineReturns
<1>14. CASE EngineFails
     BY <1>14, SMT DEF EngineFails, Fault
<1>15. CASE ResultReady
     BY <1>15, SMT DEF ResultReady, Outcome
<1>16. CASE DeclineUnevaluable
     BY <1>16, SMT DEF DeclineUnevaluable, Recorded, Fault, NoFault
<1>17. CASE Overrun
     BY <1>17, SMT DEF Overrun, OverrunEntries, Outcome
<1>18. CASE LateFailure
     BY <1>18, SMT DEF LateFailure, Outcome
<1>19. CASE Post
     BY <1>19, SMT DEF Post, DecisionArrives, Fault, NoFault
<1>20. CASE PostedNew
     BY <1>20, SMT DEF PostedNew
<1>21. CASE PostedStored
     BY <1>21, SMT DEF PostedStored, Returns, Armed
<1>22. CASE SettleOverrun
     BY <1>22, SMT DEF SettleOverrun, Recorded, Returns
<1>23. CASE AwaitAnswer
     BY <1>23, SMT DEF AwaitAnswer, Returns, Armed
<1>24. CASE AwaitSave
     BY <1>24, SMT DEF AwaitSave, Returns
<1>25. CASE CustomerSend
     BY <1>25, SMT DEF CustomerSend, ResolveArrives, GoesOn, Leaves, Fault, NoFault,
        Task, LockInv, TaskInv
<1>26. CASE ExpireRead
     BY <1>26, SMT DEF ExpireRead, Reads, PlatformResult, GoesOn, Claims, Fault,
        NoFault, Task, LockInv, TaskInv
<1>27. CASE ExpireSend
     BY <1>27, SMT DEF ExpireSend, ResolveArrives, GoesOn, Fault, NoFault, Task,
        LockInv, TaskInv
<1>28. CASE ExpireReread
     BY <1>28, SMT DEF ExpireReread, Reads, PlatformResult, GoesOn, Fault, NoFault,
        Task, LockInv, TaskInv
<1>29. CASE Record
     BY <1>29, SMT DEF Record, Leaves, Fault, NoFault
<1>30. ASSUME NEW a \in Auth, ReconcileNext(a) PROVE SendInv'
     BY <1>30, SMT DEF ReconcileNext, Task, Claims
<1>31. ASSUME NEW a \in Auth, Poll(a) PROVE SendInv'
     BY <1>31, SMT DEF Poll
<1>32. ASSUME NEW a \in Auth, PlatformTimesOut(a) PROVE SendInv'
     BY <1>32, SMT DEF PlatformTimesOut
<1>33. ASSUME NEW a \in Auth, WindowPasses(a) PROVE SendInv'
     BY <1>33, SMT DEF WindowPasses
<1>34. ASSUME NEW a \in Auth, SaveEvent(a) PROVE SendInv'
     BY <1>34, SMT DEF SaveEvent, Fault, NoFault
<1>35. ASSUME NEW a \in Auth, ExpireByTimer(a) PROVE SendInv'
     BY <1>35, SMT DEF ExpireByTimer, Enters, Task
<1>36. ASSUME NEW a \in Auth, ExpireByRead(a) PROVE SendInv'
     BY <1>36, SMT DEF ExpireByRead, Enters, Task
<1>37. ASSUME NEW a \in Auth, CustomerAnswers(a, "approved") PROVE SendInv'
     BY <1>37, SMT DEF CustomerAnswers, Enters, Task, Claims
<1>38. ASSUME NEW a \in Auth, CustomerAnswers(a, "declined") PROVE SendInv'
     BY <1>38, SMT DEF CustomerAnswers, Enters, Task, Claims
<1>39. CASE UNCHANGED vars
     BY <1>39, SMT DEF vars
<1> QED
     BY <1>1, <1>2, <1>3, <1>4, <1>5, <1>6, <1>7, <1>8, <1>9, <1>10, <1>11, <1>12,
        <1>13, <1>14, <1>15, <1>16, <1>17, <1>18, <1>19, <1>20, <1>21, <1>22, <1>23,
        <1>24, <1>25, <1>26, <1>27, <1>28, <1>29, <1>30, <1>31, <1>32, <1>33, <1>34,
        <1>35, <1>36, <1>37, <1>38, <1>39,
        SMT DEF Next, StartSteps, LoopSteps, EngineSteps, LockSteps

(* Recording comes before posting on every path to an approval. *)
LEMMA PostPreserved == TypeOK /\ HandlerInv /\ LockInv /\ PostInv /\ [Next]_vars => PostInv'
<1> SUFFICES ASSUME TypeOK, HandlerInv, LockInv, PostInv, [Next]_vars PROVE PostInv'
    OBVIOUS
<1> USE WorkerAssumption DEF platVars, storeVars, loopVars, engVars, memVars, budget,
        TypeOK, Entries, Closings, HandlerInv, Handling, Working, PostInv
<1>1. CASE Start
     BY <1>1, SMT DEF Start
<1>2. CASE RecoverPending
     BY <1>2, SMT DEF RecoverPending
<1>3. CASE ListAtStart
     BY <1>3, SMT DEF ListAtStart, Fault, NoFault
<1>4. CASE ReconcileBegin
     BY <1>4, SMT DEF ReconcileBegin, Enters, Task, LockFree
<1>5. CASE ReconcileSend
     BY <1>5, SMT DEF ReconcileSend, Task, ResolveArrives, Fault, NoFault
<1>6. CASE ReconcileDone
     BY <1>6, SMT DEF ReconcileDone, Leaves, LockInv, TaskInv
<1>7. CASE Crash
     BY <1>7, SMT DEF Crash
<1>8. CASE StillWaiting
     BY <1>8, SMT DEF StillWaiting, Returns, Armed
<1>9. CASE Redelivered
     BY <1>9, SMT DEF Redelivered, Outcome
<1>10. CASE EngineStarts
     BY <1>10, SMT DEF EngineStarts
<1>11. CASE EngineAdmits
     BY <1>11, SMT DEF EngineAdmits, Admissible
<1>12. CASE EngineRecords
     BY <1>12, SMT DEF EngineRecords, Recorded
<1>13. CASE EngineReturns
     BY <1>13, SMT DEF EngineReturns
<1>14. CASE EngineFails
     BY <1>14, SMT DEF EngineFails, Fault
<1>15. CASE ResultReady
     BY <1>15, SMT DEF ResultReady, Outcome
<1>16. CASE DeclineUnevaluable
     BY <1>16, SMT DEF DeclineUnevaluable, Recorded, Fault, NoFault
<1>17. CASE Overrun
     BY <1>17, SMT DEF Overrun, OverrunEntries, Outcome
<1>18. CASE LateFailure
     BY <1>18, SMT DEF LateFailure, Outcome
<1>19. CASE Post
     BY <1>19, SMT DEF Post, DecisionArrives, Fault, NoFault
<1>20. CASE PostedNew
     BY <1>20, SMT DEF PostedNew
<1>21. CASE PostedStored
     BY <1>21, SMT DEF PostedStored, Returns, Armed
<1>22. CASE SettleOverrun
     BY <1>22, SMT DEF SettleOverrun, Recorded, Returns
<1>23. CASE AwaitAnswer
     BY <1>23, SMT DEF AwaitAnswer, Returns, Armed
<1>24. CASE AwaitSave
     BY <1>24, SMT DEF AwaitSave, Returns
<1>25. CASE CustomerSend
     BY <1>25, SMT DEF CustomerSend, ResolveArrives, GoesOn, Leaves, Fault, NoFault
<1>26. CASE ExpireRead
     BY <1>26, SMT DEF ExpireRead, Reads, PlatformResult, GoesOn, Claims, Fault, NoFault
<1>27. CASE ExpireSend
     BY <1>27, SMT DEF ExpireSend, ResolveArrives, GoesOn, Fault, NoFault
<1>28. CASE ExpireReread
     BY <1>28, SMT DEF ExpireReread, Reads, PlatformResult, GoesOn, Fault, NoFault
<1>29. CASE Record
     BY <1>29, SMT DEF Record, Leaves, Fault, NoFault, LockInv, TaskInv
<1>30. ASSUME NEW a \in Auth, ReconcileNext(a) PROVE PostInv'
     BY <1>30, SMT DEF ReconcileNext, Task, Claims
<1>31. ASSUME NEW a \in Auth, Poll(a) PROVE PostInv'
     BY <1>31, SMT DEF Poll
<1>32. ASSUME NEW a \in Auth, PlatformTimesOut(a) PROVE PostInv'
     BY <1>32, SMT DEF PlatformTimesOut
<1>33. ASSUME NEW a \in Auth, WindowPasses(a) PROVE PostInv'
     BY <1>33, SMT DEF WindowPasses
<1>34. ASSUME NEW a \in Auth, SaveEvent(a) PROVE PostInv'
     BY <1>34, SMT DEF SaveEvent, Fault, NoFault
<1>35. ASSUME NEW a \in Auth, ExpireByTimer(a) PROVE PostInv'
     BY <1>35, SMT DEF ExpireByTimer, Enters, Task
<1>36. ASSUME NEW a \in Auth, ExpireByRead(a) PROVE PostInv'
     BY <1>36, SMT DEF ExpireByRead, Enters, Task
<1>37. ASSUME NEW a \in Auth, CustomerAnswers(a, "approved") PROVE PostInv'
     BY <1>37, SMT DEF CustomerAnswers, Enters, Task, Claims
<1>38. ASSUME NEW a \in Auth, CustomerAnswers(a, "declined") PROVE PostInv'
     BY <1>38, SMT DEF CustomerAnswers, Enters, Task, Claims
<1>39. CASE UNCHANGED vars
     BY <1>39, SMT DEF vars
<1> QED
     BY <1>1, <1>2, <1>3, <1>4, <1>5, <1>6, <1>7, <1>8, <1>9, <1>10, <1>11, <1>12,
        <1>13, <1>14, <1>15, <1>16, <1>17, <1>18, <1>19, <1>20, <1>21, <1>22, <1>23,
        <1>24, <1>25, <1>26, <1>27, <1>28, <1>29, <1>30, <1>31, <1>32, <1>33, <1>34,
        <1>35, <1>36, <1>37, <1>38, <1>39,
        SMT DEF Next, StartSteps, LoopSteps, EngineSteps, LockSteps

(* Approved rows and Viseca's approvals stay together. *)
LEMMA CountedPreserved ==
    TypeOK /\ HandlerInv /\ LockInv /\ PostInv /\ CountedInv /\ [Next]_vars => CountedInv'
<1> SUFFICES ASSUME TypeOK, HandlerInv, LockInv, PostInv, CountedInv, [Next]_vars PROVE CountedInv'
    OBVIOUS
<1> USE WorkerAssumption DEF platVars, storeVars, loopVars, engVars, memVars, budget,
        TypeOK, CountedInv, NothingCountedUnapproved, TeamApprovalRecorded
<1>1. CASE Start
     BY <1>1, SMT DEF Start
<1>2. CASE RecoverPending
     BY <1>2, SMT DEF RecoverPending
<1>3. CASE ListAtStart
     BY <1>3, SMT DEF ListAtStart, Fault, NoFault
<1>4. CASE ReconcileBegin
     BY <1>4, SMT DEF ReconcileBegin, Enters, Task, LockFree
<1>5. CASE ReconcileSend
     BY <1>5, SMT DEF ReconcileSend, Task, ResolveArrives, Fault, NoFault
<1>6. CASE ReconcileDone
     BY <1>6, SMT DEF ReconcileDone, Leaves
<1>7. CASE Crash
     BY <1>7, SMT DEF Crash
<1>8. CASE StillWaiting
     BY <1>8, SMT DEF StillWaiting, Returns, Armed
<1>9. CASE Redelivered
     BY <1>9, SMT DEF Redelivered, Outcome
<1>10. CASE EngineStarts
     BY <1>10, SMT DEF EngineStarts
<1>11. CASE EngineAdmits
     BY <1>11, SMT DEF EngineAdmits, Admissible
<1>12. CASE EngineRecords
     BY <1>12, SMT DEF EngineRecords, Recorded, HandlerInv, Working
<1>13. CASE EngineReturns
     BY <1>13, SMT DEF EngineReturns
<1>14. CASE EngineFails
     BY <1>14, SMT DEF EngineFails, Fault
<1>15. CASE ResultReady
     BY <1>15, SMT DEF ResultReady, Outcome
<1>16. CASE DeclineUnevaluable
     BY <1>16, SMT DEF DeclineUnevaluable, Recorded, Fault, NoFault
<1>17. CASE Overrun
     BY <1>17, SMT DEF Overrun, OverrunEntries, Outcome
<1>18. CASE LateFailure
     BY <1>18, SMT DEF LateFailure, Outcome
<1>19. CASE Post
     BY <1>19, SMT DEF Post, DecisionArrives, Fault, NoFault, PostInv, HandlerInv,
        Handling, Outcomes
<1>20. CASE PostedNew
     BY <1>20, SMT DEF PostedNew
<1>21. CASE PostedStored
     BY <1>21, SMT DEF PostedStored, Returns, Armed
<1>22. CASE SettleOverrun
     BY <1>22, SMT DEF SettleOverrun, Recorded, Returns
<1>23. CASE AwaitAnswer
     BY <1>23, SMT DEF AwaitAnswer, Returns, Armed
<1>24. CASE AwaitSave
     BY <1>24, SMT DEF AwaitSave, Returns
<1>25. CASE CustomerSend
     BY <1>25, SMT DEF CustomerSend, ResolveArrives, GoesOn, Leaves, Fault, NoFault
<1>26. CASE ExpireRead
     BY <1>26, SMT DEF ExpireRead, Reads, PlatformResult, GoesOn, Claims, Fault, NoFault
<1>27. CASE ExpireSend
     BY <1>27, SMT DEF ExpireSend, ResolveArrives, GoesOn, Fault, NoFault
<1>28. CASE ExpireReread
     BY <1>28, SMT DEF ExpireReread, Reads, PlatformResult, GoesOn, Fault, NoFault
<1>29. CASE Record
     BY <1>29, SMT DEF Record, Leaves, Fault, NoFault, LockInv, TaskInv
<1>30. ASSUME NEW a \in Auth, ReconcileNext(a) PROVE CountedInv'
     BY <1>30, SMT DEF ReconcileNext, Task, Claims
<1>31. ASSUME NEW a \in Auth, Poll(a) PROVE CountedInv'
     BY <1>31, SMT DEF Poll
<1>32. ASSUME NEW a \in Auth, PlatformTimesOut(a) PROVE CountedInv'
     BY <1>32, SMT DEF PlatformTimesOut
<1>33. ASSUME NEW a \in Auth, WindowPasses(a) PROVE CountedInv'
     BY <1>33, SMT DEF WindowPasses
<1>34. ASSUME NEW a \in Auth, SaveEvent(a) PROVE CountedInv'
     BY <1>34, SMT DEF SaveEvent, Fault, NoFault
<1>35. ASSUME NEW a \in Auth, ExpireByTimer(a) PROVE CountedInv'
     BY <1>35, SMT DEF ExpireByTimer, Enters, Task
<1>36. ASSUME NEW a \in Auth, ExpireByRead(a) PROVE CountedInv'
     BY <1>36, SMT DEF ExpireByRead, Enters, Task
<1>37. ASSUME NEW a \in Auth, CustomerAnswers(a, "approved") PROVE CountedInv'
     BY <1>37, SMT DEF CustomerAnswers, Enters, Task, Claims
<1>38. ASSUME NEW a \in Auth, CustomerAnswers(a, "declined") PROVE CountedInv'
     BY <1>38, SMT DEF CustomerAnswers, Enters, Task, Claims
<1>39. CASE UNCHANGED vars
     BY <1>39, SMT DEF vars
<1> QED
     BY <1>1, <1>2, <1>3, <1>4, <1>5, <1>6, <1>7, <1>8, <1>9, <1>10, <1>11, <1>12,
        <1>13, <1>14, <1>15, <1>16, <1>17, <1>18, <1>19, <1>20, <1>21, <1>22, <1>23,
        <1>24, <1>25, <1>26, <1>27, <1>28, <1>29, <1>30, <1>31, <1>32, <1>33, <1>34,
        <1>35, <1>36, <1>37, <1>38, <1>39,
        SMT DEF Next, StartSteps, LoopSteps, EngineSteps, LockSteps

(* The worker refines Purchase, one step at a time.  A step that writes    *)
(* the ledger leaves Viseca alone and the reverse.                         *)
LEMMA InitMaps == Init => Promise!PurchaseInit
BY SMT DEF Init, Promise!PurchaseInit, Viseca

(* ledger.record is a Decide, or nothing when a row is there already (M7). *)
LEMMA DecisionMaps ==
    ASSUME TypeOK, NEW a \in Auth, NEW e \in {"approve", "decline", "pending"},
           ledger' = Recorded(a, e), UNCHANGED plat
    PROVE  [Promise!PurchaseNext]_(Promise!pvars)
<1>1. CASE ledger[a] = "none"
    <2>1. UNCHANGED Viseca
          BY DEF Viseca
    <2>2. ledger' = [ledger EXCEPT ![a] = e]
          BY <1>1, SMT DEF Recorded, TypeOK
    <2>3. Promise!Decide(a)
          BY <1>1, <2>1, <2>2 DEF Promise!Decide
    <2> QED
          BY <2>3 DEF Promise!PurchaseNext
<1>2. CASE ledger[a] # "none"
    BY <1>2, SMT DEF Recorded, Promise!pvars, Viseca, TypeOK
<1> QED
    BY <1>1, <1>2

(* ledger.resolve is a Close. *)
LEMMA ClosingMaps ==
    ASSUME TypeOK, NEW a \in Auth, NEW answer \in Closings, ledger[a] = "pending",
           answer = "approved" => plat[a] = "approved",
           ledger' = [ledger EXCEPT ![a] = answer], UNCHANGED plat
    PROVE  [Promise!PurchaseNext]_(Promise!pvars)
<1>1. UNCHANGED Viseca
    BY DEF Viseca
<1>2. answer = "approved" => Viseca[a] = "approved"
    BY SMT DEF Viseca, TypeOK
<1>3. Promise!Close(a)
    BY <1>1, <1>2 DEF Promise!Close, Closings
<1> QED
    BY <1>3 DEF Promise!PurchaseNext

(* Whatever reaches Viseca, or runs out there, is a VisecaMoves. *)
LEMMA PlatformMaps ==
    ASSUME TypeOK, NEW a \in Auth,
           NEW to \in {"delivered", "pending", "approved", "declined"},
           \/ plat[a] \in {"queued", "delivered"}
           \/ plat[a] = "pending" /\ to \in {"approved", "declined"},
           plat' = [plat EXCEPT ![a] = to], UNCHANGED ledger
    PROVE  [Promise!PurchaseNext]_(Promise!pvars)
<1>1. CASE to = "delivered"
    BY <1>1, SMT DEF Promise!pvars, Viseca, TypeOK
<1>2. CASE to # "delivered"
    <2>1. Viseca' = [Viseca EXCEPT ![a] = to]
        <3>1. /\ plat' = [plat EXCEPT ![a] = to] /\ DOMAIN plat = Auth
              /\ to \notin {"queued", "delivered"}
              BY <1>2, SMT DEF TypeOK
        <3>2. \A b \in Auth : plat'[b] = IF b = a THEN to ELSE plat[b]
              BY <3>1
        <3> QED
              BY <3>1, <3>2 DEF Viseca
    <2>2. Viseca[a] = "open" \/ (Viseca[a] = "pending" /\ to \in {"approved", "declined"})
          BY SMT DEF Viseca, TypeOK
    <2>3. Promise!VisecaMoves(a)
          BY <1>2, <2>1, <2>2 DEF Promise!VisecaMoves
    <2> QED
          BY <2>3 DEF Promise!PurchaseNext
<1> QED
    BY <1>1, <1>2

(* Every step of the worker is a step of Purchase or a stutter. *)
LEMMA StepMaps == IInv /\ [Next]_vars => [Promise!PurchaseNext]_(Promise!pvars)
<1> SUFFICES ASSUME IInv, [Next]_vars PROVE [Promise!PurchaseNext]_(Promise!pvars)
    OBVIOUS
<1> DEFINE Goal == [Promise!PurchaseNext]_(Promise!pvars)
<1> USE WorkerAssumption DEF IInv, platVars, storeVars, loopVars, engVars, memVars, budget
<1>0. ASSUME UNCHANGED <<ledger, plat>> PROVE Goal
    BY <1>0 DEF Promise!pvars, Viseca
<1>1. CASE Start
     BY <1>1, <1>0 DEF Start
<1>2. CASE RecoverPending
     BY <1>2, <1>0 DEF RecoverPending
<1>3. CASE ListAtStart
     BY <1>3, <1>0 DEF ListAtStart
<1>4. CASE ReconcileBegin
     BY <1>4, <1>0 DEF ReconcileBegin
<1>5. CASE ReconcileSend
    <2>1. PICK t \in inside : ReconcileSend!(t)
          BY <1>5 DEF ReconcileSend
    <2>2. t.id \in Auth /\ UNCHANGED ledger
          BY <2>1, SMT DEF LockInv, TaskInv
    <2>3. UNCHANGED plat
             \/ /\ plat[t.id] = "pending"
                /\ \/ plat' = [plat EXCEPT ![t.id] = "approved"]
                   \/ plat' = [plat EXCEPT ![t.id] = "declined"]
          BY <2>1, SMT DEF ResolveArrives
    <2> QED
          BY <1>0, <2>2, <2>3, PlatformMaps
<1>6. CASE ReconcileDone
     BY <1>6, <1>0 DEF ReconcileDone
<1>7. CASE Crash
     BY <1>7, <1>0 DEF Crash
<1>8. CASE StillWaiting
     BY <1>8, <1>0 DEF StillWaiting
<1>9. CASE Redelivered
     BY <1>9, <1>0 DEF Redelivered
<1>10. CASE EngineStarts
     BY <1>10, <1>0 DEF EngineStarts
<1>11. CASE EngineAdmits
     BY <1>11, <1>0 DEF EngineAdmits
<1>12. CASE EngineRecords
     BY <1>12, DecisionMaps DEF EngineRecords, HandlerInv, Working
<1>13. CASE EngineReturns
     BY <1>13, <1>0 DEF EngineReturns
<1>14. CASE EngineFails
     BY <1>14, <1>0 DEF EngineFails
<1>15. CASE ResultReady
     BY <1>15, <1>0 DEF ResultReady
<1>16. CASE DeclineUnevaluable
     BY <1>16, <1>0, DecisionMaps DEF DeclineUnevaluable, HandlerInv, Handling
<1>17. CASE Overrun
     BY <1>17, <1>0 DEF Overrun
<1>18. CASE LateFailure
     BY <1>18, <1>0 DEF LateFailure
<1>19. CASE Post
    <2>1. cur \in Auth /\ UNCHANGED ledger
          BY <1>19 DEF Post, HandlerInv, Handling
    <2>2. UNCHANGED plat
             \/ /\ plat[cur] = "delivered"
                /\ \/ plat' = [plat EXCEPT ![cur] = "pending"]
                   \/ plat' = [plat EXCEPT ![cur] = "approved"]
                   \/ plat' = [plat EXCEPT ![cur] = "declined"]
          BY <1>19, SMT DEF Post, DecisionArrives, TypeOK, Outcomes
    <2> QED
          BY <1>0, <2>1, <2>2, PlatformMaps
<1>20. CASE PostedNew
     BY <1>20, <1>0 DEF PostedNew
<1>21. CASE PostedStored
     BY <1>21, <1>0 DEF PostedStored
<1>22. CASE SettleOverrun
     BY <1>22, <1>0, DecisionMaps DEF SettleOverrun, HandlerInv, Handling, TypeOK
<1>23. CASE AwaitAnswer
     BY <1>23, <1>0 DEF AwaitAnswer
<1>24. CASE AwaitSave
     BY <1>24, <1>0 DEF AwaitSave
<1>25. CASE CustomerSend
    <2>1. PICK t \in inside : CustomerSend!(t)
          BY <1>25 DEF CustomerSend
    <2>2. t.id \in Auth /\ UNCHANGED ledger
          BY <2>1, SMT DEF LockInv, TaskInv
    <2>3. UNCHANGED plat
             \/ /\ plat[t.id] = "pending"
                /\ \/ plat' = [plat EXCEPT ![t.id] = "approved"]
                   \/ plat' = [plat EXCEPT ![t.id] = "declined"]
          BY <2>1, SMT DEF ResolveArrives
    <2> QED
          BY <1>0, <2>2, <2>3, PlatformMaps
<1>26. CASE ExpireRead
     BY <1>26, <1>0 DEF ExpireRead
<1>27. CASE ExpireSend
    <2>1. PICK t \in inside : ExpireSend!(t)
          BY <1>27 DEF ExpireSend
    <2>2. t.id \in Auth /\ UNCHANGED ledger
          BY <2>1, SMT DEF LockInv, TaskInv
    <2>3. UNCHANGED plat
             \/ /\ plat[t.id] = "pending"
                /\ \/ plat' = [plat EXCEPT ![t.id] = "approved"]
                   \/ plat' = [plat EXCEPT ![t.id] = "declined"]
          BY <2>1, SMT DEF ResolveArrives
    <2> QED
          BY <1>0, <2>2, <2>3, PlatformMaps
<1>28. CASE ExpireReread
     BY <1>28, <1>0 DEF ExpireReread
<1>29. CASE Record
    <2>1. PICK t \in inside : Record!(t)
          BY <1>29 DEF Record
    <2>2. UNCHANGED plat
          BY <2>1
    <2>3. CASE UNCHANGED ledger
          BY <1>0, <2>2, <2>3
    <2>4. CASE ledger' = [ledger EXCEPT ![t.id] = t.answer]
        <3>1. /\ t.id \in Auth /\ ledger[t.id] = "pending" /\ t.answer \in Closings
              /\ t.answer = "approved" => plat[t.id] = "approved"
              BY <2>1, SMT DEF LockInv, TaskInv
        <3> QED
              BY <2>2, <2>4, <3>1, ClosingMaps
    <2> QED
          BY <2>1, <2>3, <2>4
<1>30. ASSUME NEW a \in Auth, ReconcileNext(a) PROVE Goal
     BY <1>30, <1>0 DEF ReconcileNext
<1>31. ASSUME NEW a \in Auth, Poll(a) PROVE Goal
     BY <1>31, <1>0, PlatformMaps DEF Poll
<1>32. ASSUME NEW a \in Auth, PlatformTimesOut(a) PROVE Goal
     BY <1>32, PlatformMaps DEF PlatformTimesOut
<1>33. ASSUME NEW a \in Auth, WindowPasses(a) PROVE Goal
     BY <1>33, <1>0 DEF WindowPasses
<1>34. ASSUME NEW a \in Auth, SaveEvent(a) PROVE Goal
     BY <1>34, <1>0 DEF SaveEvent
<1>35. ASSUME NEW a \in Auth, ExpireByTimer(a) PROVE Goal
     BY <1>35, <1>0 DEF ExpireByTimer
<1>36. ASSUME NEW a \in Auth, ExpireByRead(a) PROVE Goal
     BY <1>36, <1>0 DEF ExpireByRead
<1>37. ASSUME NEW a \in Auth, CustomerAnswers(a, "approved") PROVE Goal
     BY <1>37, <1>0 DEF CustomerAnswers
<1>38. ASSUME NEW a \in Auth, CustomerAnswers(a, "declined") PROVE Goal
     BY <1>38, <1>0 DEF CustomerAnswers
<1>39. CASE UNCHANGED vars
     BY <1>39, <1>0 DEF vars
<1> QED
     BY <1>1, <1>2, <1>3, <1>4, <1>5, <1>6, <1>7, <1>8, <1>9, <1>10, <1>11, <1>12,
        <1>13, <1>14, <1>15, <1>16, <1>17, <1>18, <1>19, <1>20, <1>21, <1>22, <1>23,
        <1>24, <1>25, <1>26, <1>27, <1>28, <1>29, <1>30, <1>31, <1>32, <1>33, <1>34,
        <1>35, <1>36, <1>37, <1>38, <1>39
     DEF Next, StartSteps, LoopSteps, EngineSteps, LockSteps

-----------------------------------------------------------------------------
(* The strengthening of the safety properties is an inductive invariant. *)
THEOREM Inductive == Spec => []IInv
<1>1. Init => IInv
    BY InitHolds
<1>2. IInv /\ [Next]_vars => IInv'
    BY TypePreserved, HandlerPreserved, LockPreserved, SendPreserved, PostPreserved,
       CountedPreserved DEF IInv
<1> QED
    BY <1>1, <1>2, PTL DEF Spec

(* Every variable of the worker keeps its type (worker.py's handlers). *)
THEOREM TypeCorrect == Spec => []TypeOK
BY Inductive, PTL DEF IInv

(* ledger.resolve never meets a step-up somebody else closed meanwhile     *)
(* (resolve_by_customer, expire).                                          *)
THEOREM NoCloseIsStale == Spec => []NoStaleClose
<1>1. IInv => NoStaleClose
    BY SMT DEF IInv, LockInv, TaskInv, NoStaleClose
<1> QED
    BY <1>1, Inductive, PTL

(* A step-up is counted only when Viseca approved it. *)
THEOREM CountedOnlyIfApproved == Spec => []NothingCountedUnapproved
BY Inductive, PTL DEF IInv, CountedInv

(* What Viseca approved on this team's "approve" is in the ledger. *)
THEOREM ApprovalsAreRecorded == Spec => []TeamApprovalRecorded
BY Inductive, PTL DEF IInv, CountedInv

(* One process sends at most one /resolve per live id (_claim_resolve). *)
THEOREM OneResolve == Spec => []OneResolvePerProcess
<1>1. IInv => OneResolvePerProcess
    <2> SUFFICES ASSUME IInv, NEW a \in Auth PROVE resolves[a] <= 1 + crashes
        BY DEF OneResolvePerProcess
    <2>1. resolves[a] \in Nat /\ crashes \in Nat /\ resolves[a] <= crashes + 1
        BY WorkerAssumption, SMT DEF IInv, TypeOK, SendInv
    <2> QED
        BY <2>1, SMT
<1> QED
    BY <1>1, Inductive, PTL

(* The worker implements Purchase: decided once, closed once, approved     *)
(* only when Viseca approved, whatever fails and however often it crashes. *)
THEOREM Refinement == Spec => PurchaseKept
BY InitMaps, StepMaps, Inductive, PTL DEF Spec, PurchaseKept, Promise!PurchaseSpec

-----------------------------------------------------------------------------
(* The customer's approval across one failure *)

(* A task that goes on to close a step-up with anything but an approval:   *)
(* it found the platform without one, and the lock keeps C8 out since.     *)
ClosesWithoutApproval(t) ==
    \/ t.by \in {"timer", "read"} /\ t.step \in {"send", "reread"}
    \/ t.step = "record" /\ t.answer # "approved"

(* Why a customer's approval is kept.  As long as nothing has failed, one  *)
(* that Viseca took and the ledger does not hold yet is on its way to the  *)
(* ledger inside the lock; so an expiry misses it only by a second failure *)
(* of its own read.                                                        *)
ApprovedIsKnown == \A a \in Auth : plat[a] = "approved" => ledger[a] # "none"

ApprovalOnItsWay ==
    faults + crashes = 0 =>
        \A a \in Auth : plat[a] = "approved" /\ ledger[a] = "pending" =>
            \E t \in inside : t.id = a /\ t.step = "record" /\ t.answer = "approved"

ApprovalIsSeen ==
    faults + crashes <= 1 =>
        \A t \in inside : ClosesWithoutApproval(t) => plat[t.id] # "approved"

ApprovalInv ==
    ApprovedIsKnown /\ ApprovalOnItsWay /\ ApprovalIsSeen /\ CustomerApprovalKept

(* The task inside the lock is there alone. *)
LEMMA Alone ==
    ASSUME TypeOK, LockInv, NEW t \in inside
    PROVE  inside = {t} /\ t \in Tasks
BY SMT DEF TypeOK, LockInv

(* An answer that Viseca takes goes on to the ledger, or it is the failure. *)
LEMMA ApprovalAfterAnswer == TypeOK /\ LockInv /\ ApprovalInv /\ CustomerSend => ApprovalInv'
<1> SUFFICES ASSUME TypeOK, LockInv, ApprovalInv, CustomerSend PROVE ApprovalInv'
    OBVIOUS
<1>1. PICK t \in inside : CustomerSend!(t)
      BY DEF CustomerSend
<1>2. inside = {t} /\ t \in Tasks
      BY <1>1, Alone
<1>3. t.id \in Auth /\ ledger[t.id] = "pending" /\ t.step = "send"
      BY <1>1, SMT DEF LockInv, TaskInv
<1>4. /\ UNCHANGED <<ledger, crashes>> /\ faults \in Nat /\ crashes \in Nat
      /\ plat \in [Auth -> {"queued", "delivered", "pending", "approved", "declined"}]
      BY <1>1, WorkerAssumption, SMT DEF TypeOK, storeVars, Fault, NoFault, budget
<1>5. \/ /\ t.answer = "approved" /\ faults' = faults
         /\ plat' = [plat EXCEPT ![t.id] = "approved"]
         /\ inside' = {Task(t.by, t.id, "record", "approved")}
      \/ /\ t.answer # "approved" /\ faults' = faults
         /\ plat' = [plat EXCEPT ![t.id] = "declined"]
         /\ inside' = {Task(t.by, t.id, "record", t.answer)}
      \/ UNCHANGED plat /\ inside' = {} /\ faults' = faults
      \/ /\ inside' = {} /\ faults' = faults + 1
         /\ \/ UNCHANGED plat
            \/ plat' = [plat EXCEPT ![t.id] = "declined"]
            \/ plat' = [plat EXCEPT ![t.id] = "approved"]
      BY <1>1, <1>2, SMT DEF ResolveArrives, GoesOn, Leaves, Fault, NoFault, budget
<1>6. \A a \in Auth : plat'[a] = "approved" => plat[a] = "approved" \/ a = t.id
      BY <1>3, <1>4, <1>5, SMT
<1>7. ApprovedIsKnown' /\ CustomerApprovalKept'
      BY <1>3, <1>4, <1>5, <1>6, SMT DEF ApprovalInv, ApprovedIsKnown, CustomerApprovalKept
<1>8. ApprovalIsSeen'
      BY <1>3, <1>4, <1>5, SMT DEF Task, ApprovalIsSeen, ClosesWithoutApproval
<1>9. ApprovalOnItsWay'
    <2> SUFFICES ASSUME faults' + crashes' = 0, NEW a \in Auth,
                        plat'[a] = "approved", ledger'[a] = "pending"
                 PROVE  \E u \in inside' :
                            u.id = a /\ u.step = "record" /\ u.answer = "approved"
        BY DEF ApprovalOnItsWay
    <2>1. faults + crashes = 0 /\ faults' = faults
        BY <1>4, <1>5, SMT
    <2>2. plat[a] # "approved"
        <3>1. faults + crashes = 0 /\ ledger[a] = "pending"
            BY <1>4, <2>1
        <3>2. \A u \in inside : u.step # "record"
            BY <1>2, <1>3
        <3> QED
            BY <3>1, <3>2 DEF ApprovalInv, ApprovalOnItsWay
    <2>3. a = t.id
        BY <1>6, <2>2
    <2>4. faults' # faults + 1 /\ plat' # plat
        BY <1>4, <2>1, <2>2, SMT
    <2>5. plat' # [plat EXCEPT ![t.id] = "declined"]
        BY <1>3, <1>4, <2>3, SMT
    <2>6. inside' = {Task(t.by, t.id, "record", "approved")}
        BY <1>5, <2>4, <2>5, Zenon
    <2> QED
        BY <2>3, <2>6, SMT DEF Task
<1> QED
      BY <1>7, <1>8, <1>9 DEF ApprovalInv

(* An expiry that reads the platform sees the approval, unless that read is *)
(* a failure after another one.                                            *)
LEMMA ApprovalAfterRead == TypeOK /\ LockInv /\ ApprovalInv /\ ExpireRead => ApprovalInv'
<1> SUFFICES ASSUME TypeOK, LockInv, ApprovalInv, ExpireRead PROVE ApprovalInv'
    OBVIOUS
<1>1. PICK t \in inside, result \in Closings \cup {"none"} : ExpireRead!(t, result)
      BY DEF ExpireRead
<1>2. inside = {t} /\ t \in Tasks
      BY <1>1, Alone
<1>3. t.id \in Auth /\ ledger[t.id] = "pending" /\ t.step = "read"
      BY <1>1, SMT DEF LockInv, TaskInv
<1>4. /\ UNCHANGED <<ledger, plat, crashes>> /\ faults \in Nat /\ crashes \in Nat
      /\ \/ faults' = faults /\ result = PlatformResult(t.id)
         \/ faults' = faults + 1 /\ result = "none"
      BY <1>1, WorkerAssumption, SMT
      DEF TypeOK, storeVars, platVars, Reads, Fault, NoFault, budget
<1>5. PICK step \in {"record", "send"}, answer \in Closings :
         /\ inside' = {Task(t.by, t.id, step, answer)}
         /\ answer = "approved" => result = "approved"
         /\ result = "approved" => answer = "approved" /\ step = "record"
      BY <1>1, <1>2, SMT DEF GoesOn, Closings
<1>6. faults + crashes = 0 =>
         \A a \in Auth : ~(plat[a] = "approved" /\ ledger[a] = "pending")
    <2>1. \A u \in inside : u.step # "record"
        BY <1>2, <1>3
    <2> QED
        BY <2>1 DEF ApprovalInv, ApprovalOnItsWay
<1>7. faults' + crashes' <= 1 /\ result # "approved" => plat[t.id] # "approved"
      BY <1>3, <1>4, <1>6, SMT DEF PlatformResult
<1>8. \A u \in inside' : /\ u.id = t.id
                         /\ ClosesWithoutApproval(u) => result # "approved"
      BY <1>5, SMT DEF Task, ClosesWithoutApproval
<1> QED
      BY <1>3, <1>4, <1>6, <1>7, <1>8, SMT
      DEF ApprovalInv, ApprovedIsKnown, ApprovalOnItsWay, ApprovalIsSeen,
          CustomerApprovalKept

(* No step loses an approval that Viseca took, but for a second failure.   *)
LEMMA ApprovalPreserved == IInv /\ ApprovalInv /\ [Next]_vars => ApprovalInv'
<1> SUFFICES ASSUME IInv, ApprovalInv, [Next]_vars PROVE ApprovalInv'
    OBVIOUS
<1> USE WorkerAssumption DEF platVars, storeVars, loopVars, engVars, memVars, budget,
        IInv, TypeOK, Outcomes, Entries, Closings, HandlerInv, Handling, Working, LockInv,
        TaskInv, ApprovalInv, ApprovedIsKnown, ApprovalOnItsWay, ApprovalIsSeen,
        CustomerApprovalKept, ClosesWithoutApproval
<1>1. CASE Start
     BY <1>1, SMT DEF Start
<1>2. CASE RecoverPending
     BY <1>2, SMT DEF RecoverPending
<1>3. CASE ListAtStart
     BY <1>3, SMT DEF ListAtStart, Fault, NoFault
<1>4. CASE ReconcileBegin
     BY <1>4, SMT DEF ReconcileBegin, Enters, Task, LockFree
<1>5. CASE ReconcileSend
     BY <1>5, SMT DEF ReconcileSend, Task, ResolveArrives, Fault, NoFault
<1>6. CASE ReconcileDone
     BY <1>6, SMT DEF ReconcileDone, Leaves, LockInv, TaskInv
<1>7. CASE Crash
     BY <1>7, SMT DEF Crash
<1>8. CASE StillWaiting
     BY <1>8, SMT DEF StillWaiting, Returns, Armed
<1>9. CASE Redelivered
     BY <1>9, SMT DEF Redelivered, Outcome
<1>10. CASE EngineStarts
     BY <1>10, SMT DEF EngineStarts
<1>11. CASE EngineAdmits
     BY <1>11, SMT DEF EngineAdmits, Admissible
<1>12. CASE EngineRecords
     BY <1>12, SMT DEF EngineRecords, Recorded
<1>13. CASE EngineReturns
     BY <1>13, SMT DEF EngineReturns
<1>14. CASE EngineFails
     BY <1>14, SMT DEF EngineFails, Fault
<1>15. CASE ResultReady
     BY <1>15, SMT DEF ResultReady, Outcome
<1>16. CASE DeclineUnevaluable
     BY <1>16, SMT DEF DeclineUnevaluable, Recorded, Fault, NoFault
<1>17. CASE Overrun
     BY <1>17, SMT DEF Overrun, OverrunEntries, Outcome
<1>18. CASE LateFailure
     BY <1>18, SMT DEF LateFailure, Outcome
<1>19. CASE Post
     BY <1>19, SMTT(30) DEF Post, DecisionArrives, Fault, NoFault, PostInv
<1>20. CASE PostedNew
     BY <1>20, SMT DEF PostedNew
<1>21. CASE PostedStored
     BY <1>21, SMT DEF PostedStored, Returns, Armed
<1>22. CASE SettleOverrun
     BY <1>22, SMT DEF SettleOverrun, Recorded, Returns
<1>23. CASE AwaitAnswer
     BY <1>23, SMT DEF AwaitAnswer, Returns, Armed
<1>24. CASE AwaitSave
     BY <1>24, SMT DEF AwaitSave, Returns
<1>25. CASE CustomerSend
     BY <1>25, ApprovalAfterAnswer
<1>26. CASE ExpireRead
     BY <1>26, ApprovalAfterRead
<1>27. CASE ExpireSend
    <2>1. PICK t \in inside : ExpireSend!(t)
          BY <1>27 DEF ExpireSend
    <2>2. inside = {t} /\ t \in Tasks /\ t.id \in Auth
          BY <2>1, SMT
    <2> QED
          BY <2>1, <2>2, SMT DEF Task, Tasks, ResolveArrives, GoesOn, Fault, NoFault
<1>28. CASE ExpireReread
    <2>1. PICK t \in inside, result \in Closings \cup {"none"} : ExpireReread!(t, result)
          BY <1>28 DEF ExpireReread
    <2>2. inside = {t} /\ t \in Tasks /\ t.id \in Auth
          BY <2>1, SMT
    <2> QED
          BY <2>1, <2>2, SMT DEF Task, Tasks, Reads, PlatformResult, GoesOn, Fault, NoFault
<1>29. CASE Record
     BY <1>29, SMT DEF Record, Leaves, Fault, NoFault
<1>30. ASSUME NEW a \in Auth, ReconcileNext(a) PROVE ApprovalInv'
     BY <1>30, SMT DEF ReconcileNext, Task, Claims
<1>31. ASSUME NEW a \in Auth, Poll(a) PROVE ApprovalInv'
     BY <1>31, SMT DEF Poll
<1>32. ASSUME NEW a \in Auth, PlatformTimesOut(a) PROVE ApprovalInv'
     BY <1>32, SMT DEF PlatformTimesOut
<1>33. ASSUME NEW a \in Auth, WindowPasses(a) PROVE ApprovalInv'
     BY <1>33, SMT DEF WindowPasses
<1>34. ASSUME NEW a \in Auth, SaveEvent(a) PROVE ApprovalInv'
     BY <1>34, SMT DEF SaveEvent, Fault, NoFault
<1>35. ASSUME NEW a \in Auth, ExpireByTimer(a) PROVE ApprovalInv'
     BY <1>35, SMT DEF ExpireByTimer, Enters, Task
<1>36. ASSUME NEW a \in Auth, ExpireByRead(a) PROVE ApprovalInv'
     BY <1>36, SMT DEF ExpireByRead, Enters, Task
<1>37. ASSUME NEW a \in Auth, CustomerAnswers(a, "approved") PROVE ApprovalInv'
     BY <1>37, SMT DEF CustomerAnswers, Enters, Task, Claims
<1>38. ASSUME NEW a \in Auth, CustomerAnswers(a, "declined") PROVE ApprovalInv'
     BY <1>38, SMT DEF CustomerAnswers, Enters, Task, Claims
<1>39. CASE UNCHANGED vars
     BY <1>39, SMT DEF vars
<1> QED
     BY <1>1, <1>2, <1>3, <1>4, <1>5, <1>6, <1>7, <1>8, <1>9, <1>10, <1>11, <1>12,
        <1>13, <1>14, <1>15, <1>16, <1>17, <1>18, <1>19, <1>20, <1>21, <1>22, <1>23,
        <1>24, <1>25, <1>26, <1>27, <1>28, <1>29, <1>30, <1>31, <1>32, <1>33, <1>34,
        <1>35, <1>36, <1>37, <1>38, <1>39,
        SMT DEF Next, StartSteps, LoopSteps, EngineSteps, LockSteps

(* A customer's approval that Viseca took is never booked as a decline or  *)
(* a timeout by one failure (resolve_by_customer, expire, platform_result).*)
THEOREM ApprovalSurvivesAFailure == Spec => []CustomerApprovalKept
<1>1. Init => ApprovalInv
    BY WorkerAssumption, SMT
       DEF Init, ApprovalInv, ApprovedIsKnown, ApprovalOnItsWay, ApprovalIsSeen,
           CustomerApprovalKept
<1>2. IInv /\ ApprovalInv /\ [Next]_vars => ApprovalInv'
    BY ApprovalPreserved
<1>3. ApprovalInv => CustomerApprovalKept
    BY DEF ApprovalInv
<1> QED
    BY <1>1, <1>2, <1>3, Inductive, PTL DEF Spec

-----------------------------------------------------------------------------
(* Viseca and the ledger agree while nothing fails *)

(* The decision the handler's purchase has or is to have: an overrun claim *)
(* until the engine admits it, what the engine admitted until the row is   *)
(* there, the row from then on.                                            *)
Held ==
    IF mode = "overrun" /\ claim # "none" THEN claim
    ELSE IF mode = "overrun" /\ eng = "admitted" THEN entry
    ELSE ledger[cur]

(* With nothing failing, the engine works on an undecided purchase, a      *)
(* claim lasts until the engine admits it, and what is posted is the       *)
(* decision held.                                                          *)
EngineAgrees ==
    /\ eng # "failed"
    /\ eng \in {"running", "admitted"} => ledger[cur] = "none"
    /\ claim # "none" => pc \in {"post", "posted"} /\ mode = "overrun" /\ eng = "running"
    /\ eng = "running" /\ pc \in {"post", "posted"} => claim # "none"
    /\ eng \in {"recorded", "returned"} /\ pc \in {"decide", "late"} =>
          ledger[cur] # "none" /\ Outcome(ledger[cur]) = Outcome(entry)

PostAgrees ==
    /\ pc = "post" => body = Outcome(Held) /\ Held # "none"
    /\ pc = "posted" /\ mode = "overrun" =>
          accepted[cur] \in {"none", Outcome(Held)}

MatchInv ==
    /\ faults + crashes = 0 => EngineAgrees /\ PostAgrees
    /\ AcceptedMatchesLedger

(* No step takes posted and stored decision apart while nothing fails, the *)
(* overrun claim and the engine that answers late included.                *)
LEMMA MatchPreserved == IInv /\ MatchInv /\ [Next]_vars => MatchInv'
<1> SUFFICES ASSUME IInv, MatchInv, [Next]_vars PROVE MatchInv'
    OBVIOUS
<1> USE WorkerAssumption DEF platVars, storeVars, loopVars, engVars, memVars, budget,
        IInv, TypeOK, Outcomes, Entries, Closings, HandlerInv, Handling, Working,
        MatchInv, AcceptedMatchesLedger, EngineAgrees, PostAgrees, Held, Outcome
<1>1. CASE Start
     BY <1>1, SMT DEF Start
<1>2. CASE RecoverPending
     BY <1>2, SMT DEF RecoverPending
<1>3. CASE ListAtStart
     BY <1>3, SMT DEF ListAtStart, Fault, NoFault
<1>4. CASE ReconcileBegin
     BY <1>4, SMT DEF ReconcileBegin, Enters, Task, LockFree
<1>5. CASE ReconcileSend
     BY <1>5, SMT DEF ReconcileSend, Task, ResolveArrives, Fault, NoFault
<1>6. CASE ReconcileDone
     BY <1>6, SMT DEF ReconcileDone, Leaves, LockInv, TaskInv
<1>7. CASE Crash
     BY <1>7, SMT DEF Crash
<1>8. CASE StillWaiting
     BY <1>8, SMT DEF StillWaiting, Returns, Armed
<1>9. CASE Redelivered
     BY <1>9, SMT DEF Redelivered, Outcome
<1>10. CASE EngineStarts
     BY <1>10, SMT DEF EngineStarts
<1>11. CASE EngineAdmits
     BY <1>11, SMT DEF EngineAdmits, Admissible
<1>12. CASE EngineRecords
     BY <1>12, SMT DEF EngineRecords, Recorded
<1>13. CASE EngineReturns
     BY <1>13, SMT DEF EngineReturns
<1>14. CASE EngineFails
     BY <1>14, SMT DEF EngineFails, Fault
<1>15. CASE ResultReady
     BY <1>15, SMT DEF ResultReady, Outcome
<1>16. CASE DeclineUnevaluable
     BY <1>16, SMT DEF DeclineUnevaluable, Recorded, Fault, NoFault
<1>17. CASE Overrun
     BY <1>17, SMT DEF Overrun, OverrunEntries, Outcome
<1>18. CASE LateFailure
     BY <1>18, SMT DEF LateFailure, Outcome
<1>19. CASE Post
     BY <1>19, SMT DEF Post, DecisionArrives, Fault, NoFault
<1>20. CASE PostedNew
     BY <1>20, SMT DEF PostedNew
<1>21. CASE PostedStored
     BY <1>21, SMT DEF PostedStored, Returns, Armed
<1>22. CASE SettleOverrun
    <2>1. CASE faults + crashes = 0
        <3>1. claim = "none" /\ ledger' = ledger
              BY <1>22, <2>1, SMT DEF SettleOverrun, ThreadFree
        <3>2. mode = "overrun" /\ pc = "posted" /\ eng \in {"idle", "returned"}
              BY <1>22, <2>1, SMT DEF SettleOverrun, ThreadFree
        <3>3. accepted[cur] \in {"none", Outcome(ledger[cur])}
              BY <2>1, <3>1, <3>2, SMT
        <3>4. /\ UNCHANGED <<accepted, faults, crashes>> /\ claim' = "none" /\ eng' = "idle"
              /\ pc' \in {"poll", "window", "save"}
              BY <1>22, SMT DEF SettleOverrun, Returns
        <3> QED
              BY <3>1, <3>2, <3>3, <3>4, SMT
    <2>2. CASE faults + crashes # 0
          BY <1>22, <2>2, SMT DEF SettleOverrun
    <2> QED
          BY <2>1, <2>2
<1>23. CASE AwaitAnswer
     BY <1>23, SMT DEF AwaitAnswer, Returns, Armed
<1>24. CASE AwaitSave
     BY <1>24, SMT DEF AwaitSave, Returns
<1>25. CASE CustomerSend
     BY <1>25, SMT DEF CustomerSend, ResolveArrives, GoesOn, Leaves, Fault, NoFault
<1>26. CASE ExpireRead
     BY <1>26, SMT DEF ExpireRead, Reads, PlatformResult, GoesOn, Claims, Fault, NoFault
<1>27. CASE ExpireSend
     BY <1>27, SMT DEF ExpireSend, ResolveArrives, GoesOn, Fault, NoFault
<1>28. CASE ExpireReread
     BY <1>28, SMT DEF ExpireReread, Reads, PlatformResult, GoesOn, Fault, NoFault
<1>29. CASE Record
     BY <1>29, SMT DEF Record, Leaves, Fault, NoFault, LockInv, TaskInv
<1>30. ASSUME NEW a \in Auth, ReconcileNext(a) PROVE MatchInv'
     BY <1>30, SMT DEF ReconcileNext, Task, Claims
<1>31. ASSUME NEW a \in Auth, Poll(a) PROVE MatchInv'
     BY <1>31, SMT DEF Poll
<1>32. ASSUME NEW a \in Auth, PlatformTimesOut(a) PROVE MatchInv'
     BY <1>32, SMT DEF PlatformTimesOut
<1>33. ASSUME NEW a \in Auth, WindowPasses(a) PROVE MatchInv'
     BY <1>33, SMT DEF WindowPasses
<1>34. ASSUME NEW a \in Auth, SaveEvent(a) PROVE MatchInv'
     BY <1>34, SMT DEF SaveEvent, Fault, NoFault
<1>35. ASSUME NEW a \in Auth, ExpireByTimer(a) PROVE MatchInv'
     BY <1>35, SMT DEF ExpireByTimer, Enters, Task
<1>36. ASSUME NEW a \in Auth, ExpireByRead(a) PROVE MatchInv'
     BY <1>36, SMT DEF ExpireByRead, Enters, Task
<1>37. ASSUME NEW a \in Auth, CustomerAnswers(a, "approved") PROVE MatchInv'
     BY <1>37, SMT DEF CustomerAnswers, Enters, Task, Claims
<1>38. ASSUME NEW a \in Auth, CustomerAnswers(a, "declined") PROVE MatchInv'
     BY <1>38, SMT DEF CustomerAnswers, Enters, Task, Claims
<1>39. CASE UNCHANGED vars
     BY <1>39, SMT DEF vars
<1> QED
     BY <1>1, <1>2, <1>3, <1>4, <1>5, <1>6, <1>7, <1>8, <1>9, <1>10, <1>11, <1>12,
        <1>13, <1>14, <1>15, <1>16, <1>17, <1>18, <1>19, <1>20, <1>21, <1>22, <1>23,
        <1>24, <1>25, <1>26, <1>27, <1>28, <1>29, <1>30, <1>31, <1>32, <1>33, <1>34,
        <1>35, <1>36, <1>37, <1>38, <1>39,
        Zenon DEF Next, StartSteps, LoopSteps, EngineSteps, LockSteps

(* With nothing failing, the decision Viseca took is the one in the ledger *)
(* (_post_new, _post_stored, _settle_overrun).                             *)
THEOREM OverrunsAgree == Spec => []AcceptedMatchesLedger
<1>1. Init => MatchInv
    BY WorkerAssumption, SMT
       DEF Init, MatchInv, AcceptedMatchesLedger, EngineAgrees, PostAgrees
<1>2. IInv /\ MatchInv /\ [Next]_vars => MatchInv'
    BY MatchPreserved
<1>3. MatchInv => AcceptedMatchesLedger
    BY DEF MatchInv
<1> QED
    BY <1>1, <1>2, <1>3, Inductive, PTL DEF Spec

=============================================================================
