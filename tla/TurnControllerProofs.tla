------------------------ MODULE TurnControllerProofs ------------------------
(* Proofs about TurnController: its invariants, and that it implements
   TurnLifecycle.                                                            *)
EXTENDS TurnRefinement, TLAPS

(* Who may be doing what: the turn whose task is under way is the one whose
   task the controller holds; unless shutdown gave the reservation back, a
   reserved or running turn, or a lifecycle operation, is the holder of the
   execution; a reserved turn waits for the end of the previous task.        *)
Scheduling ==
    /\ \A t \in Turns : pc[t] \in Live \cup {"completing"} => activeTask = t
    /\ \A t \in Turns : pc[t] \in Live \cup {"reserved"} /\ closed # "closed" =>
            execution = t
    /\ \A t \in Turns : pc[t] = "reserved" => TaskDone
    /\ \A h \in Handlers : task[h].op = "start" =>
            task[h].turn \in Turns /\ pc[task[h].turn] = "reserved"
    /\ \A g, h \in Handlers : task[g].op = "start" /\ task[h].op = "start" => g = h
    /\ \A h \in Handlers : task[h].op \in {"lifecycle", "closing"} => execution = h
    /\ \A h \in Handlers : closed # "open" => task[h] = IdleTask

Recording == {"effect", "status", "settle"}

(* What the tasks hold while they wait: a request task recording an answer holds
   the lock of a record that has no resolution yet; a turn task past `acting'
   has a request, and saves only an answer that calls for it.                  *)
Holding ==
    /\ \A h \in Handlers : task[h].op \in Recording =>
            /\ task[h].req \in Requests /\ task[h].ans \in Answers
            /\ lock[task[h].req] = h
            /\ resolution[task[h].req] = None
    /\ \A h \in Handlers : task[h].op = "steer" => task[h].turn \in Turns
    /\ \A t \in Turns : pc[t] \in InAct \ {"acting"} => current[t] \in Requests
    /\ \A t \in Turns : pc[t] = "saving" => future[current[t]] \in Saved

(* How an answer travels: the future and the core only hold the resolution. *)
Answering ==
    /\ \A r \in Requests : future[r] \in Answers => resolution[r] = future[r]
    /\ CoreGetsAcceptedAnswer

IInv == TypeOK /\ Scheduling /\ Holding /\ Answering

-----------------------------------------------------------------------------
(* Types *)

(* The types at the start. *)
LEMMA TypeInit == Init => TypeOK
  BY TokenAssumption DEF Init, TypeOK, Sent, Task, IdleTask, Operation, Points

(* A request that resumes is a request. *)
LEMMA ResumeType ==
    ASSUME task \in [Handlers -> Task], NEW h \in Handlers, NEW op \in Operation,
           Resume(h, op)
    PROVE  task' \in [Handlers -> Task]
  <1>1. [task[h] EXCEPT !.op = op] \in Task BY DEF Task
  <1>2. task' = [task EXCEPT ![h] = [task[h] EXCEPT !.op = op]] BY DEF Resume
  <1> QED BY <1>1, <1>2

(* A cancellation keeps the types. *)
LEMMA CancelType ==
    ASSUME TypeOK, NEW t, CancelTask(t)
    PROVE  /\ cancel' \in [Turns -> {"no", "self", "thrown"}]
           /\ future' \in [Requests -> Answers \cup {"pending", "exception", "cancelled"}]
  BY DEF TypeOK, CancelTask

(* An answer that reaches the core keeps the types. *)
LEMMA ResolveType ==
    ASSUME TypeOK, NEW t \in Turns, NEW a \in Answers, current[t] \in Requests,
           ResolveCore(t, a)
    PROVE  TypeOK'
  <1> USE DEF controller, slots, entries
  <1>1. core' \in [Requests -> Answers \cup {"none", "pending", "rejected", "gone"}]
    BY DEF TypeOK, ResolveCore
  <1>2. cancel' \in [Turns -> {"no", "self", "thrown"}] BY DEF TypeOK, ResolveCore
  <1>3. /\ coreResolved' \subseteq Requests
        /\ current' \in [Turns -> Requests \cup {None}]
    BY DEF TypeOK, ResolveCore
  <1>4. pc' \in [Turns -> Points] BY DEF TypeOK, ResolveCore, Goto, Points, InAct
  <1>5. UNCHANGED <<execution, sessionExecution, activeTurn, activeTask, projector,
                    completed, closed, status, asked, callbacks, resolution, future,
                    lock, callbackEntry, effectEntry, task, sent, landed>>
    BY DEF ResolveCore
  <1> QED BY <1>1, <1>2, <1>3, <1>4, <1>5 DEF TypeOK

(* Every action keeps the types. *)
LEMMA TypeStep == IInv /\ [Next]_vars => TypeOK'
  <1> SUFFICES ASSUME IInv, [Next]_vars PROVE TypeOK' OBVIOUS
  <1> USE DEF vars, controller, slots, turnTask, requests, records, table, entries
  <1>0. TypeOK BY DEF IInv
  <1>1. ASSUME NEW h \in Handlers, NEW t \in Turns, TurnStart(h, t) PROVE TypeOK'
    BY <1>0, <1>1 DEF TypeOK, TurnStart, Begin, Goto, Suspend, Points, Task, Operation
  <1>2. ASSUME NEW h \in Handlers, AfterResponse(h) PROVE TypeOK'
    BY <1>0, <1>2 DEF TypeOK, AfterResponse, Goto, Finish, IdleTask, Points, Starting, Task, Operation
  <1>3. ASSUME NEW t \in Turns, FireLoop(t) PROVE TypeOK'
    BY <1>0, <1>3 DEF TypeOK, FireLoop, Begin, Goto, Points, Starting
  <1>4. ASSUME NEW t \in Turns, RunTurn(t) PROVE TypeOK'
    BY <1>0, <1>4 DEF TypeOK, RunTurn, Goto, Points, Starting, Sent
  <1>5. ASSUME NEW t \in Turns, AnnounceTurn(t) PROVE TypeOK'
    BY <1>0, <1>5 DEF TypeOK, AnnounceTurn, Goto, Points, Starting, Sent, SendStatus
  <1>6. ASSUME NEW t \in Turns, EnterAct(t) PROVE TypeOK'
    BY <1>0, <1>6 DEF TypeOK, EnterAct, Goto, Points, InAct
  <1>7. ASSUME NEW t \in Turns, DieBeforeTry(t) PROVE TypeOK'
    BY <1>0, <1>7 DEF TypeOK, DieBeforeTry, Goto, Points, Over
  <1>8. ASSUME NEW t \in Turns, NEW r \in Requests, AskCore(t, r) PROVE TypeOK'
    BY <1>0, <1>8 DEF TypeOK, AskCore
  <1>9. ASSUME NEW t \in Turns, NEW r \in Requests, OpenCallback(t, r) PROVE TypeOK'
    BY <1>0, <1>9 DEF TypeOK, OpenCallback, Goto, Points, InAct
  <1>10. ASSUME NEW t \in Turns, MarkBlocked(t) PROVE TypeOK'
    BY <1>0, <1>10 DEF TypeOK, MarkBlocked, Goto, Points, InAct, Sent, SendStatus
  <1>11. ASSUME NEW t \in Turns, DeliverCallback(t) PROVE TypeOK'
    BY <1>0, <1>11 DEF TypeOK, DeliverCallback, Goto, Points, InAct
  <1>12. ASSUME NEW t \in Turns, AwaitAnswer(t) PROVE TypeOK'
    BY <1>0, <1>12 DEF TypeOK, AwaitAnswer, Goto, Points, InAct
  <1>13. ASSUME NEW t \in Turns, ReceiveAnswer(t) PROVE TypeOK'
    <2>1. current[t] \in Requests BY <1>13 DEF IInv, Holding, ReceiveAnswer, Runs, InAct
    <2>2. future[current[t]] \in Answers BY <1>13 DEF ReceiveAnswer
    <2> QED BY <1>0, <1>13, <2>1, <2>2, ResolveType DEF ReceiveAnswer
  <1>14. ASSUME NEW t \in Turns, SaveApproval(t) PROVE TypeOK'
    BY <1>0, <1>14 DEF TypeOK, SaveApproval, Goto, Points, InAct
  <1>15. ASSUME NEW t \in Turns, ApprovalSaved(t) PROVE TypeOK'
    <2>1. current[t] \in Requests BY <1>15 DEF IInv, Holding, ApprovalSaved, Runs, InAct
    <2>2. future[current[t]] \in Answers
      BY <1>15, TokenAssumption DEF IInv, Holding, ApprovalSaved, Runs
    <2> QED BY <1>0, <1>15, <2>1, <2>2, ResolveType DEF ApprovalSaved
  <1>16. ASSUME NEW t \in Turns, RequestFails(t) PROVE TypeOK'
    <2>1. current[t] \in Requests BY <1>16 DEF IInv, Holding, RequestFails, Runs, InAct
    <2> QED BY <1>0, <1>16, <2>1
          DEF TypeOK, RequestFails, RejectRecords, RejectedCore, FailedFutures,
              Unwind, Abandoned, Goto, Points
  <1>17. ASSUME NEW t \in Turns, ReceiveRejection(t) PROVE TypeOK'
    BY <1>0, <1>17 DEF TypeOK, ReceiveRejection, Unwind, Abandoned, Goto, Points
  <1>18. ASSUME NEW t \in Turns, NEW r \in Requests, RefuseRequest(t, r) PROVE TypeOK'
    BY <1>0, <1>18 DEF TypeOK, RefuseRequest, Unwind, Abandoned, Goto, Points
  <1>19. ASSUME NEW t \in Turns, NEW r \in Requests, ToolResult(t, r) PROVE TypeOK'
    BY <1>0, <1>19 DEF TypeOK, ToolResult, Sent
  <1>20. ASSUME NEW t \in Turns, ActFails(t) PROVE TypeOK'
    BY <1>0, <1>20 DEF TypeOK, ActFails, Unwind, Abandoned, Goto, Points
  <1>21. ASSUME NEW t \in Turns, ActCancelled(t) PROVE TypeOK'
    BY <1>0, <1>21 DEF TypeOK, ActCancelled, Unwind, Abandoned, Goto, Points
  <1>22. ASSUME NEW t \in Turns, ActCompletes(t) PROVE TypeOK'
    BY <1>0, <1>22 DEF TypeOK, ActCompletes, FinalizeTurn, Goto, Points, Finishing, Sent
  <1>23. ASSUME NEW t \in Turns, ActUnwound(t) PROVE TypeOK'
    BY SMTT(30), <1>0, <1>23 DEF TypeOK, ActUnwound, FinalizeTurn, Goto, Points, Finishing, Sent
  <1>24. ASSUME NEW t \in Turns, SettleTurn(t) PROVE TypeOK'
    BY <1>0, <1>24 DEF TypeOK, SettleTurn, RejectRecords, RejectedCore, FailedFutures, Goto, Points, Finishing
  <1>25. ASSUME NEW t \in Turns, GoIdle(t) PROVE TypeOK'
    BY <1>0, <1>25 DEF TypeOK, GoIdle, Goto, Points, Finishing, Sent
  <1>26. ASSUME NEW t \in Turns, CompleteTurn(t) PROVE TypeOK'
    BY <1>0, <1>26 DEF TypeOK, CompleteTurn, Goto, Points, Finishing, Sent, Released
  <1>27. ASSUME NEW t \in Turns, EndTurn(t) PROVE TypeOK'
    BY <1>0, <1>27 DEF TypeOK, EndTurn, Goto, Points, Over, Released
  <1>28. ASSUME NEW t \in Turns, Interrupt(t) PROVE TypeOK'
    BY <1>0, <1>28 DEF TypeOK, Interrupt, CancelTask
  <1>29. ASSUME NEW h \in Handlers, NEW t \in Turns, Steer(h, t) PROVE TypeOK'
    BY <1>0, <1>29 DEF TypeOK, Steer, Suspend, Task, Operation
  <1>30. ASSUME NEW h \in Handlers, ProjectSteer(h) PROVE TypeOK'
    <2>1. task[h].turn \in Turns BY <1>30 DEF IInv, Holding, ProjectSteer
    <2> QED BY <1>0, <1>30, <2>1 DEF TypeOK, ProjectSteer, Finish, IdleTask, Task, Operation
  <1>31. ASSUME NEW h \in Handlers, NEW r \in Requests, NEW a \in Answers, AnswerCallback(h, r, a) PROVE TypeOK'
    <2>1. task' \in [Handlers -> Task]
      <3>1. task \in [Handlers -> Task] BY <1>0 DEF TypeOK
      <3> QED BY <1>31, <3>1 DEF AnswerCallback, Suspend, Task, Operation
    <2>2. /\ callbackEntry' \in [Requests -> {"none", "open", "answered", "cancelled"}]
          /\ effectEntry' \in [Requests -> {"none", "running", "blocked", "ended"}]
      BY <1>0, <1>31 DEF TypeOK, AnswerCallback
    <2>3. lock' \in [Requests -> Handlers \cup {None}]
      BY <1>0, <1>31 DEF TypeOK, AnswerCallback
    <2> QED BY <1>0, <1>31, <2>1, <2>2, <2>3 DEF TypeOK, AnswerCallback
  <1>32. ASSUME NEW h \in Handlers, AnswerEffect(h) PROVE TypeOK'
    <2>1. task' \in [Handlers -> Task]
      BY <1>0, <1>32, ResumeType DEF TypeOK, AnswerEffect, Operation
    <2>2. sent' \in Sent
      <3>1. sent \in Sent BY <1>0 DEF TypeOK
      <3>2. sent.late \subseteq Requests /\ sent.effects \subseteq Requests BY <3>1 DEF Sent
      <3>3. sent' = [sent EXCEPT !.late = sent'.late] /\ sent'.late \subseteq Requests
        BY <1>32, <3>1, <3>2 DEF AnswerEffect, Sent
      <3> QED BY <3>1, <3>3 DEF Sent
    <2> QED BY <1>0, <1>32, <2>1, <2>2 DEF TypeOK, AnswerEffect
  <1>33. ASSUME NEW h \in Handlers, AnswerStatus(h) PROVE TypeOK'
    <2>1. task' \in [Handlers -> Task]
      BY <1>0, <1>33, ResumeType DEF TypeOK, AnswerStatus, Operation
    <2>2. sent' \in Sent BY <1>0, <1>33 DEF TypeOK, AnswerStatus, SendStatus, Sent
    <2> QED BY <1>0, <1>33, <2>1, <2>2 DEF TypeOK, AnswerStatus
  <1>34. ASSUME NEW h \in Handlers, AnswerAccepted(h) PROVE TypeOK'
    <2>1. task[h].ans \in Answers
      BY <1>34 DEF IInv, Holding, Recording, AnswerAccepted
    <2>2. task' \in [Handlers -> Task]
      BY <1>0, <1>34 DEF TypeOK, AnswerAccepted, Finish, IdleTask, Task, Operation
    <2>3. /\ resolution' \in [Requests -> Answers \cup {None, "error"}]
          /\ lock' \in [Requests -> Handlers \cup {None}]
      BY <1>0, <1>34, <2>1 DEF TypeOK, AnswerAccepted
    <2>4. future' \in [Requests -> Answers \cup {"pending", "exception", "cancelled"}]
      BY <1>0, <1>34, <2>1 DEF TypeOK, AnswerAccepted
    <2> QED BY <1>0, <1>34, <2>2, <2>3, <2>4 DEF TypeOK, AnswerAccepted
  <1>35. ASSUME NEW r \in Requests, RejectCallback(r) PROVE TypeOK'
    BY <1>0, <1>35 DEF TypeOK, RejectCallback, RejectRecords, RejectedCore, FailedFutures
  <1>36. ASSUME NEW h \in Handlers, BeginLifecycle(h) PROVE TypeOK'
    BY <1>0, <1>36 DEF TypeOK, BeginLifecycle, Suspend, Task, Operation
  <1>37. ASSUME NEW h \in Handlers, CloseTurns(h) PROVE TypeOK'
    <2>1. task' \in [Handlers -> Task]
      BY <1>0, <1>37, ResumeType DEF TypeOK, CloseTurns, Operation
    <2> QED BY <1>0, <1>37, <2>1, CancelType DEF TypeOK, CloseTurns
  <1>38. ASSUME NEW h \in Handlers, ResetTurns(h) PROVE TypeOK'
    BY <1>0, <1>38 DEF TypeOK, ResetTurns, RejectRecords, RejectedCore, FailedFutures, Finish, IdleTask, Task, Operation, Sent
  <1>39. ASSUME NEW h \in Handlers, LifecycleFails(h) PROVE TypeOK'
    BY <1>0, <1>39 DEF TypeOK, LifecycleFails, Released, Finish, IdleTask, Task, Operation
  <1>40. ASSUME Disconnect PROVE TypeOK'
    BY <1>0, <1>40 DEF TypeOK, Disconnect, CancelRequests, IdleTask, Task, Operation
  <1>41. ASSUME Shutdown PROVE TypeOK'
    <2>1. /\ cancel' \in [Turns -> {"no", "self", "thrown"}]
          /\ future' \in [Requests -> Answers \cup {"pending", "exception", "cancelled"}]
      BY <1>0, <1>41, CancelType DEF TypeOK, Shutdown
    <2>2. /\ task' \in [Handlers -> Task]
          /\ lock' \in [Requests -> Handlers \cup {None}]
          /\ execution' \in Turns \cup Handlers \cup {None}
      BY <1>0, <1>41 DEF TypeOK, Shutdown, CancelRequests, IdleTask, Task, Operation
    <2> QED BY <1>0, <1>41, <2>1, <2>2 DEF TypeOK, Shutdown
  <1>42. ASSUME FinishShutdown PROVE TypeOK'
    BY <1>0, <1>42 DEF TypeOK, FinishShutdown, RejectRecords, RejectedCore, FailedFutures, Released
  <1>43. CASE UNCHANGED vars BY <1>0, <1>43 DEF TypeOK
  <1> QED BY <1>1, <1>2, <1>3, <1>4, <1>5, <1>6, <1>7, <1>8, <1>9, <1>10, <1>11, <1>12, <1>13, <1>14, <1>15, <1>16, <1>17, <1>18, <1>19, <1>20, <1>21, <1>22, <1>23, <1>24, <1>25, <1>26, <1>27, <1>28, <1>29, <1>30, <1>31, <1>32, <1>33, <1>34, <1>35, <1>36, <1>37, <1>38, <1>39, <1>40, <1>41, <1>42, <1>43
        DEF Next, TurnStep, TurnMay, HandlerStep, ClientStep

-----------------------------------------------------------------------------
(* Scheduling *)

(* Nothing runs at the start. *)
LEMMA SchedulingInit == Init => Scheduling
  BY TokenAssumption
  DEF Init, Scheduling, Live, InAct, Starting, IdleTask, TaskDone

(* A turn task that goes on, or ends, disturbs nobody's reservation. *)
LEMMA TurnGoesOn ==
    ASSUME TypeOK, Scheduling, NEW t \in Turns, pc[t] \in Live,
           NEW p \in Live \cup Over, Goto(t, p),
           UNCHANGED <<activeTask, execution, closed, task>>
    PROVE  Scheduling'
  <1> USE DEF Live, InAct, Starting, Over
  <1>1. pc' = [pc EXCEPT ![t] = p] /\ pc \in [Turns -> Points] BY DEF Goto, TypeOK
  <1>2. \A u \in Turns : u # t => pc'[u] = pc[u] BY <1>1
  <1>3. \A u \in Turns : pc[u] = "reserved" => u # t BY <1>1
  <1>4. \A u \in Turns : pc'[u] \in Live \cup {"completing"} => activeTask = u
    BY <1>1 DEF Scheduling
  <1>5. \A u \in Turns : pc'[u] \in Live \cup {"reserved"} /\ closed # "closed" => execution = u
    BY <1>1 DEF Scheduling
  <1>6. \A u \in Turns : pc'[u] = "reserved" => TaskDone'
    BY <1>1, <1>2 DEF Scheduling, TaskDone
  <1>7. \A h \in Handlers : task[h].op = "start" =>
            task[h].turn \in Turns /\ pc'[task[h].turn] = "reserved"
    BY <1>1, <1>2 DEF Scheduling
  <1> QED BY <1>4, <1>5, <1>6, <1>7 DEF Scheduling, TaskDone

(* Request tasks that reserve nothing leave the schedule alone. *)
LEMMA RequestGoesOn ==
    ASSUME TypeOK, Scheduling, NEW h \in Handlers, closed = "open",
           \A g \in Handlers : g # h => task'[g] = task[g],
           task'[h].op \notin {"start", "lifecycle", "closing"},
           UNCHANGED <<pc, activeTask, execution, closed>>
    PROVE  Scheduling'
  BY DEF Scheduling, TaskDone

(* The turn releases its own reservation, never anybody else's. *)
LEMMA TurnStops ==
    ASSUME TypeOK, Scheduling, NEW t \in Turns, pc[t] \in Live \cup {"completing"},
           NEW p \in Over \cup {"completing"}, pc' = [pc EXCEPT ![t] = p],
           execution' = Released(t), UNCHANGED <<activeTask, closed, task>>
    PROVE  Scheduling'
  <1> USE DEF Live, InAct, Starting, Over
  <1>1. pc \in [Turns -> Points] BY DEF TypeOK
  <1>2. \A u \in Turns : u # t => pc'[u] = pc[u] BY <1>1
  <1>3. pc'[t] = p BY <1>1
  <1>4. activeTask = t BY DEF Scheduling
  <1>5. \A u \in Turns : pc[u] # "reserved"
    BY <1>4, TokenAssumption DEF Scheduling, TaskDone
  <1>6. \A u \in Turns : pc'[u] \in Live \cup {"completing"} => activeTask = u
    BY <1>2, <1>4 DEF Scheduling
  <1>7. \A u \in Turns : pc'[u] \notin Live \cup {"reserved"}
    BY <1>2, <1>3, <1>4, <1>5 DEF Scheduling
  <1>8. \A h \in Handlers : task[h].op # "start" BY <1>5 DEF Scheduling
  <1>9. \A h \in Handlers : task[h].op \in {"lifecycle", "closing"} => execution' = h
    BY TokenAssumption DEF Scheduling, Released
  <1> QED BY <1>6, <1>7, <1>8, <1>9 DEF Scheduling

(* A lifecycle operation gives its reservation back: no turn is under way. *)
LEMMA HolderGone ==
    ASSUME TypeOK, Scheduling, NEW h \in Handlers, closed = "open",
           execution = h, execution' = None,
           task' = [task EXCEPT ![h] = IdleTask],
           activeTask' = activeTask \/ (TaskDone /\ activeTask' = None),
           UNCHANGED <<pc, closed>>
    PROVE  Scheduling'
  <1>1. task \in [Handlers -> Task] BY DEF TypeOK
  <1>2. \A u \in Turns : pc[u] \notin Live \cup {"reserved"}
    BY TokenAssumption DEF Scheduling
  <1>3. \A g \in Handlers : task'[g].op \notin {"start", "lifecycle", "closing"}
    BY <1>1, <1>2 DEF Scheduling, IdleTask
  <1>4. \A u \in Turns : pc[u] = "completing" => activeTask' = u
    BY TokenAssumption DEF Scheduling, TaskDone, Over
  <1> QED BY <1>2, <1>3, <1>4 DEF Scheduling

(* Every step keeps the slots and who holds them. *)
LEMMA SchedulingStep == IInv /\ [Next]_vars => Scheduling'
  <1> SUFFICES ASSUME IInv, [Next]_vars PROVE Scheduling' OBVIOUS
  <1> USE DEF vars, controller, slots, turnTask, requests, records, table, entries
  <1>0. TypeOK /\ Scheduling BY DEF IInv
  <1>1. ASSUME NEW h \in Handlers, NEW t \in Turns, TurnStart(h, t) PROVE Scheduling'
    <2>1. /\ pc \in [Turns -> Points] /\ task \in [Handlers -> Task] BY <1>0 DEF TypeOK
    <2>2. /\ closed = "open" /\ TaskDone /\ execution = None
          /\ pc[t] = "unused" /\ task[h].op = "idle"
      BY <1>1 DEF TurnStart, Begin, Idle
    <2>3. /\ closed' = "open" /\ execution' = t /\ activeTask' = activeTask
          /\ pc' = [pc EXCEPT ![t] = "reserved"]
          /\ task' = [task EXCEPT ![h] = [op |-> "start", turn |-> t, req |-> None, ans |-> None]]
      BY <1>1, <2>2 DEF TurnStart, Begin, Goto, Suspend
    <2>4. \A u \in Turns : pc[u] \notin Live \cup {"reserved"}
      BY <1>0, <2>2, TokenAssumption DEF Scheduling
    <2>5. \A g \in Handlers : task[g].op \notin {"start", "lifecycle", "closing"}
      BY <1>0, <2>2, <2>4, TokenAssumption DEF Scheduling
    <2>6. \A u \in Turns : pc'[u] \in Live \cup {"reserved", "completing"} =>
              pc'[u] = pc[u] \/ u = t
      BY <2>1, <2>3
    <2>7. TaskDone' BY <2>1, <2>2, <2>3 DEF TaskDone, Over
    <2>8. /\ task'[h].op = "start" /\ task'[h].turn = t
          /\ \A g \in Handlers : g # h => task'[g] = task[g]
      BY <2>1, <2>3
    <2>9. pc'[t] = "reserved" BY <2>1, <2>3
    <2>10. \A u \in Turns : pc'[u] \in Live \cup {"completing"} => activeTask' = u
      BY <1>0, <2>3, <2>6, <2>9 DEF Scheduling, Live, InAct, Starting
    <2>11. \A u \in Turns : pc'[u] \in Live \cup {"reserved"} => execution' = u
      BY <2>3, <2>4, <2>6
    <2>12. \A g \in Handlers : task'[g].op \in {"start", "lifecycle", "closing"} => g = h
      BY <2>5, <2>8
    <2> QED BY <2>3, <2>7, <2>8, <2>9, <2>10, <2>11, <2>12 DEF Scheduling
  <1>2. ASSUME NEW h \in Handlers, AfterResponse(h) PROVE Scheduling'
    <2> DEFINE t == task[h].turn
    <2>1. /\ pc \in [Turns -> Points] /\ task \in [Handlers -> Task] BY <1>0 DEF TypeOK
    <2>2. task[h].op = "start" BY <1>2 DEF AfterResponse
    <2>3. /\ t \in Turns /\ pc[t] = "reserved" BY <1>0, <2>2 DEF Scheduling
    <2>4. closed = "open" BY <1>0, <2>2 DEF Scheduling, IdleTask
    <2>5. /\ closed' = "open" /\ execution' = execution /\ activeTask' = t
          /\ pc' = [pc EXCEPT ![t] = "created"]
          /\ task' = [task EXCEPT ![h] = IdleTask]
      BY <1>2, <2>4 DEF AfterResponse, Goto, Finish
    <2>6. execution = t BY <1>0, <2>3, <2>4 DEF Scheduling
    <2>7. \A u \in Turns : pc[u] \in Live \cup {"reserved"} => u = t
      BY <1>0, <2>4, <2>6 DEF Scheduling
    <2>8. \A u \in Turns : pc[u] # "completing"
      BY <1>0, <2>3, TokenAssumption DEF Scheduling, TaskDone, Over
    <2>9. \A u \in Turns : pc'[u] \in Live \cup {"reserved", "completing"} => u = t
      BY <2>1, <2>5, <2>7, <2>8
    <2>10. pc'[t] = "created" BY <2>1, <2>3, <2>5
    <2>11. task'[h] = IdleTask /\ \A g \in Handlers : g # h => task'[g] = task[g]
      BY <2>1, <2>5
    <2>12. \A g \in Handlers : task[g].op \notin {"lifecycle", "closing"}
      BY <1>0, <2>3, <2>6, TokenAssumption DEF Scheduling
    <2>13. \A g \in Handlers : task'[g].op \notin {"start", "lifecycle", "closing"}
      BY <1>0, <2>2, <2>11, <2>12 DEF Scheduling, IdleTask
    <2> QED BY <2>5, <2>6, <2>9, <2>10, <2>13 DEF Scheduling
  <1>3. ASSUME NEW t \in Turns, FireLoop(t) PROVE Scheduling'
    <2>1. /\ pc \in [Turns -> Points] BY <1>0 DEF TypeOK
    <2>2. /\ closed = "open" /\ TaskDone /\ execution = None /\ pc[t] = "unused"
      BY <1>3 DEF FireLoop, Begin
    <2>3. /\ closed' = "open" /\ execution' = t /\ activeTask' = t
          /\ pc' = [pc EXCEPT ![t] = "created"] /\ task' = task
      BY <1>3, <2>2 DEF FireLoop, Begin, Goto
    <2>4. \A u \in Turns : pc[u] \notin Live \cup {"reserved"}
      BY <1>0, <2>2, TokenAssumption DEF Scheduling
    <2>5. \A g \in Handlers : task[g].op \notin {"start", "lifecycle", "closing"}
      BY <1>0, <2>2, <2>4, TokenAssumption DEF Scheduling
    <2>6. \A u \in Turns : pc[u] # "completing"
      BY <1>0, <2>2, TokenAssumption DEF Scheduling, TaskDone, Over
    <2>7. \A u \in Turns : pc'[u] \in Live \cup {"reserved", "completing"} => u = t
      BY <2>1, <2>3, <2>4, <2>6
    <2>8. \A u \in Turns : pc'[u] # "reserved"
      BY <2>1, <2>3, <2>4
    <2> QED BY <2>3, <2>5, <2>7, <2>8 DEF Scheduling
  <1>4. ASSUME NEW t \in Turns, RunTurn(t) PROVE Scheduling'
    BY <1>0, <1>4, TurnGoesOn
    DEF RunTurn, Runs, Live, InAct, Starting, Over
  <1>5. ASSUME NEW t \in Turns, AnnounceTurn(t) PROVE Scheduling'
    BY <1>0, <1>5, TurnGoesOn
    DEF AnnounceTurn, Runs, Live, InAct, Starting, Over
  <1>6. ASSUME NEW t \in Turns, EnterAct(t) PROVE Scheduling'
    BY <1>0, <1>6, TurnGoesOn
    DEF EnterAct, Runs, Live, InAct, Starting, Over
  <1>7. ASSUME NEW t \in Turns, DieBeforeTry(t) PROVE Scheduling'
    BY <1>0, <1>7, TurnGoesOn
    DEF DieBeforeTry, Runs, Live, InAct, Starting, Over
  <1>8. ASSUME NEW t \in Turns, NEW r \in Requests, AskCore(t, r) PROVE Scheduling'
    BY <1>0, <1>8 DEF AskCore, Scheduling, TaskDone
  <1>9. ASSUME NEW t \in Turns, NEW r \in Requests, OpenCallback(t, r) PROVE Scheduling'
    BY <1>0, <1>9, TurnGoesOn
    DEF OpenCallback, Runs, Live, InAct, Starting, Over
  <1>10. ASSUME NEW t \in Turns, MarkBlocked(t) PROVE Scheduling'
    BY <1>0, <1>10, TurnGoesOn
    DEF MarkBlocked, Runs, Live, InAct, Starting, Over
  <1>11. ASSUME NEW t \in Turns, DeliverCallback(t) PROVE Scheduling'
    BY <1>0, <1>11, TurnGoesOn
    DEF DeliverCallback, Runs, Live, InAct, Starting, Over
  <1>12. ASSUME NEW t \in Turns, AwaitAnswer(t) PROVE Scheduling'
    BY <1>0, <1>12, TurnGoesOn
    DEF AwaitAnswer, Runs, Live, InAct, Starting, Over
  <1>13. ASSUME NEW t \in Turns, ReceiveAnswer(t) PROVE Scheduling'
    BY <1>0, <1>13, TurnGoesOn
    DEF ReceiveAnswer, ResolveCore, Runs, Live, InAct, Starting, Over
  <1>14. ASSUME NEW t \in Turns, SaveApproval(t) PROVE Scheduling'
    BY <1>0, <1>14, TurnGoesOn
    DEF SaveApproval, Runs, Live, InAct, Starting, Over
  <1>15. ASSUME NEW t \in Turns, ApprovalSaved(t) PROVE Scheduling'
    BY <1>0, <1>15, TurnGoesOn
    DEF ApprovalSaved, ResolveCore, Runs, Live, InAct, Starting, Over
  <1>16. ASSUME NEW t \in Turns, RequestFails(t) PROVE Scheduling'
    BY <1>0, <1>16, TurnGoesOn
    DEF RequestFails, Unwind, Runs, Live, InAct, Starting, Over
  <1>17. ASSUME NEW t \in Turns, ReceiveRejection(t) PROVE Scheduling'
    BY <1>0, <1>17, TurnGoesOn
    DEF ReceiveRejection, Unwind, Runs, Live, InAct, Starting, Over
  <1>18. ASSUME NEW t \in Turns, NEW r \in Requests, RefuseRequest(t, r) PROVE Scheduling'
    BY <1>0, <1>18, TurnGoesOn
    DEF RefuseRequest, Unwind, Runs, Live, InAct, Starting, Over
  <1>19. ASSUME NEW t \in Turns, NEW r \in Requests, ToolResult(t, r) PROVE Scheduling'
    BY <1>0, <1>19 DEF ToolResult, Scheduling, TaskDone
  <1>20. ASSUME NEW t \in Turns, ActFails(t) PROVE Scheduling'
    BY <1>0, <1>20, TurnGoesOn
    DEF ActFails, Unwind, Runs, Live, InAct, Starting, Over
  <1>21. ASSUME NEW t \in Turns, ActCancelled(t) PROVE Scheduling'
    BY <1>0, <1>21, TurnGoesOn
    DEF ActCancelled, Unwind, Runs, Live, InAct, Starting, Over
  <1>22. ASSUME NEW t \in Turns, ActCompletes(t) PROVE Scheduling'
    BY <1>0, <1>22, TurnGoesOn
    DEF ActCompletes, FinalizeTurn, Runs, Live, InAct, Starting, Over
  <1>23. ASSUME NEW t \in Turns, ActUnwound(t) PROVE Scheduling'
    BY <1>0, <1>23, TurnGoesOn
    DEF ActUnwound, FinalizeTurn, Runs, Live, InAct, Starting, Over
  <1>24. ASSUME NEW t \in Turns, SettleTurn(t) PROVE Scheduling'
    BY <1>0, <1>24, TurnGoesOn
    DEF SettleTurn, Runs, Live, InAct, Starting, Over
  <1>25. ASSUME NEW t \in Turns, GoIdle(t) PROVE Scheduling'
    BY <1>0, <1>25, TurnGoesOn
    DEF GoIdle, Runs, Live, InAct, Starting, Over
  <1>26. ASSUME NEW t \in Turns, CompleteTurn(t) PROVE Scheduling'
    <2>1. pc \in [Turns -> Points] BY <1>0 DEF TypeOK
    <2>2. /\ pc[t] = "idling" /\ pc' = [pc EXCEPT ![t] = "completing"]
          /\ execution' = Released(t)
          /\ UNCHANGED <<activeTask, closed, task>>
      BY <1>26 DEF CompleteTurn, Runs, Goto
    <2> QED BY <1>0, <2>1, <2>2, TurnStops DEF Live
  <1>27. ASSUME NEW t \in Turns, EndTurn(t) PROVE Scheduling'
    <2>1. PICK p \in {"done", "aborted"} :
              pc' = [pc EXCEPT ![t] = p] /\ pc[t] \in Live \cup {"completing"}
      BY <1>27 DEF EndTurn, Runs, Goto, Finishing, Live
    <2>2. execution' = Released(t) /\ UNCHANGED <<activeTask, closed, task>>
      BY <1>27 DEF EndTurn
    <2> QED BY <1>0, <2>1, <2>2, TurnStops DEF Over
  <1>28. ASSUME NEW t \in Turns, Interrupt(t) PROVE Scheduling'
    BY <1>0, <1>28 DEF Interrupt, Scheduling, TaskDone
  <1>29. ASSUME NEW h \in Handlers, NEW t \in Turns, Steer(h, t) PROVE Scheduling'
    <2>1. task \in [Handlers -> Task] BY <1>0 DEF TypeOK
    <2>2. closed = "open" BY <1>0, <1>29 DEF Steer, Scheduling, IdleTask, Idle
    <2>3. /\ \A g \in Handlers : g # h => task'[g] = task[g]
          /\ task'[h].op \notin {"start", "lifecycle", "closing"}
      BY <1>29, <2>1 DEF Steer, Idle, Suspend, Task
    <2> QED BY <1>0, <1>29, <2>2, <2>3, RequestGoesOn DEF Steer
  <1>30. ASSUME NEW h \in Handlers, ProjectSteer(h) PROVE Scheduling'
    <2>1. task \in [Handlers -> Task] BY <1>0 DEF TypeOK
    <2>2. closed = "open" BY <1>0, <1>30 DEF ProjectSteer, Scheduling, IdleTask
    <2>3. /\ \A g \in Handlers : g # h => task'[g] = task[g]
          /\ task'[h].op \notin {"start", "lifecycle", "closing"}
      BY <1>30, <2>1 DEF ProjectSteer, Finish, IdleTask, Task
    <2> QED BY <1>0, <1>30, <2>2, <2>3, RequestGoesOn DEF ProjectSteer
  <1>31. ASSUME NEW h \in Handlers, NEW r \in Requests, NEW a \in Answers, AnswerCallback(h, r, a) PROVE Scheduling'
    <2>1. task \in [Handlers -> Task] BY <1>0 DEF TypeOK
    <2>2. closed = "open" BY <1>0, <1>31 DEF AnswerCallback, Scheduling, IdleTask, Idle
    <2>3. /\ \A g \in Handlers : g # h => task'[g] = task[g]
          /\ task'[h].op \notin {"start", "lifecycle", "closing"}
      BY <1>31, <2>1 DEF AnswerCallback, Idle, Suspend, Task
    <2> QED BY <1>0, <1>31, <2>2, <2>3, RequestGoesOn DEF AnswerCallback
  <1>32. ASSUME NEW h \in Handlers, AnswerEffect(h) PROVE Scheduling'
    <2>1. task \in [Handlers -> Task] BY <1>0 DEF TypeOK
    <2>2. closed = "open" BY <1>0, <1>32 DEF AnswerEffect, Scheduling, IdleTask
    <2>3. /\ \A g \in Handlers : g # h => task'[g] = task[g]
          /\ task'[h].op \notin {"start", "lifecycle", "closing"}
      BY <1>32, <2>1 DEF AnswerEffect, Resume, Task
    <2> QED BY <1>0, <1>32, <2>2, <2>3, RequestGoesOn DEF AnswerEffect
  <1>33. ASSUME NEW h \in Handlers, AnswerStatus(h) PROVE Scheduling'
    <2>1. task \in [Handlers -> Task] BY <1>0 DEF TypeOK
    <2>2. closed = "open" BY <1>0, <1>33 DEF AnswerStatus, Scheduling, IdleTask
    <2>3. /\ \A g \in Handlers : g # h => task'[g] = task[g]
          /\ task'[h].op \notin {"start", "lifecycle", "closing"}
      BY <1>33, <2>1 DEF AnswerStatus, Resume, Task
    <2> QED BY <1>0, <1>33, <2>2, <2>3, RequestGoesOn DEF AnswerStatus
  <1>34. ASSUME NEW h \in Handlers, AnswerAccepted(h) PROVE Scheduling'
    <2>1. task \in [Handlers -> Task] BY <1>0 DEF TypeOK
    <2>2. closed = "open" BY <1>0, <1>34 DEF AnswerAccepted, Scheduling, IdleTask
    <2>3. /\ \A g \in Handlers : g # h => task'[g] = task[g]
          /\ task'[h].op \notin {"start", "lifecycle", "closing"}
      BY <1>34, <2>1 DEF AnswerAccepted, Finish, IdleTask, Task
    <2> QED BY <1>0, <1>34, <2>2, <2>3, RequestGoesOn DEF AnswerAccepted
  <1>35. ASSUME NEW r \in Requests, RejectCallback(r) PROVE Scheduling'
    BY <1>0, <1>35 DEF RejectCallback, Scheduling, TaskDone
  <1>36. ASSUME NEW h \in Handlers, BeginLifecycle(h) PROVE Scheduling'
    <2>1. /\ task \in [Handlers -> Task] BY <1>0 DEF TypeOK
    <2>2. /\ closed = "open" /\ execution = None /\ execution' = h
          /\ UNCHANGED <<pc, activeTask, closed>>
          /\ task' = [task EXCEPT ![h] =
                         [op |-> "lifecycle", turn |-> None, req |-> None, ans |-> None]]
      BY <1>36 DEF BeginLifecycle, Idle, Suspend
    <2>3. \A u \in Turns : pc[u] \notin Live \cup {"reserved"}
      BY <1>0, <2>2, TokenAssumption DEF Scheduling
    <2>4. \A g \in Handlers : task[g].op \notin {"start", "lifecycle", "closing"}
      BY <1>0, <2>2, <2>3, TokenAssumption DEF Scheduling
    <2>5. /\ task'[h].op = "lifecycle"
          /\ \A g \in Handlers : g # h => task'[g] = task[g]
      BY <2>1, <2>2
    <2> QED BY <1>0, <2>2, <2>3, <2>4, <2>5 DEF Scheduling
  <1>37. ASSUME NEW h \in Handlers, CloseTurns(h) PROVE Scheduling'
    <2>1. task \in [Handlers -> Task] BY <1>0 DEF TypeOK
    <2>2. /\ task[h].op = "lifecycle" /\ task' = [task EXCEPT ![h].op = "closing"]
          /\ UNCHANGED <<pc, activeTask, execution, closed>>
      BY <1>37 DEF CloseTurns, Resume
    <2>3. closed = "open" BY <1>0, <2>2 DEF Scheduling, IdleTask
    <2>4. /\ task'[h].op = "closing"
          /\ \A g \in Handlers : g # h => task'[g] = task[g]
      BY <2>1, <2>2 DEF Task
    <2> QED BY <1>0, <2>2, <2>3, <2>4 DEF Scheduling, TaskDone
  <1>38. ASSUME NEW h \in Handlers, ResetTurns(h) PROVE Scheduling'
    <2>1. task \in [Handlers -> Task] BY <1>0 DEF TypeOK
    <2>2. /\ task[h].op \in {"lifecycle", "closing"} /\ TaskDone
          /\ task' = [task EXCEPT ![h] = IdleTask]
          /\ activeTask' = None
          /\ UNCHANGED <<pc, closed>>
      BY <1>38 DEF ResetTurns, Finish
    <2>3. closed = "open" BY <1>0, <2>2 DEF Scheduling, IdleTask
    <2>4. execution = h /\ execution' = None BY <1>0, <1>38, <2>2 DEF Scheduling, ResetTurns
    <2> QED BY <1>0, <2>1, <2>2, <2>3, <2>4, HolderGone
  <1>39. ASSUME NEW h \in Handlers, LifecycleFails(h) PROVE Scheduling'
    <2>1. task \in [Handlers -> Task] BY <1>0 DEF TypeOK
    <2>2. /\ task[h].op = "lifecycle"
          /\ task' = [task EXCEPT ![h] = IdleTask]
          /\ UNCHANGED <<pc, closed, activeTask>>
      BY <1>39 DEF LifecycleFails, Finish
    <2>3. closed = "open" BY <1>0, <2>2 DEF Scheduling, IdleTask
    <2>4. execution = h /\ execution' = None
      BY <1>0, <1>39, <2>2 DEF Scheduling, LifecycleFails, Released
    <2> QED BY <1>0, <2>1, <2>2, <2>3, <2>4, HolderGone
  <1>40. ASSUME Disconnect PROVE Scheduling'
    <2>1. /\ task' = [h \in Handlers |-> IdleTask]
          /\ execution' = IF execution \in Handlers THEN None ELSE execution
          /\ closed # "closed" /\ closed' = closed
          /\ UNCHANGED <<pc, activeTask>>
      BY <1>0, <1>40 DEF Disconnect, CancelRequests, Scheduling, IdleTask
    <2>2. \A u \in Turns : execution = u => execution' = u
      BY <2>1, TokenAssumption
    <2>3. \A h \in Handlers : task'[h] = IdleTask BY <2>1
    <2> QED BY <1>0, <2>1, <2>2, <2>3 DEF Scheduling, TaskDone, IdleTask
  <1>41. ASSUME Shutdown PROVE Scheduling'
    <2>1. /\ task' = [h \in Handlers |-> IdleTask]
          /\ execution' = IF execution \in Handlers THEN None ELSE execution
          /\ closed # "closed"
          /\ UNCHANGED <<pc, activeTask>>
      BY <1>0, <1>41 DEF Shutdown, CancelRequests, Scheduling, IdleTask
    <2>2. \A u \in Turns : execution = u => execution' = u
      BY <2>1, TokenAssumption
    <2>3. \A h \in Handlers : task'[h] = IdleTask BY <2>1
    <2> QED BY <1>0, <2>1, <2>2, <2>3 DEF Scheduling, TaskDone, IdleTask
  <1>42. ASSUME FinishShutdown PROVE Scheduling'
    <2>1. /\ closed = "closing" /\ closed' = "closed"
          /\ UNCHANGED <<pc, activeTask, task>>
      BY <1>42 DEF FinishShutdown
    <2> QED BY <1>0, <2>1 DEF Scheduling, TaskDone, IdleTask
  <1>43. CASE UNCHANGED vars BY <1>0, <1>43 DEF Scheduling, TaskDone
  <1> QED BY <1>1, <1>2, <1>3, <1>4, <1>5, <1>6, <1>7, <1>8, <1>9, <1>10, <1>11, <1>12, <1>13, <1>14, <1>15, <1>16, <1>17, <1>18, <1>19, <1>20, <1>21, <1>22, <1>23, <1>24, <1>25, <1>26, <1>27, <1>28, <1>29, <1>30, <1>31, <1>32, <1>33, <1>34, <1>35, <1>36, <1>37, <1>38, <1>39, <1>40, <1>41, <1>42, <1>43
        DEF Next, TurnStep, TurnMay, HandlerStep, ClientStep

-----------------------------------------------------------------------------
(* What waiting tasks hold *)

AnswersStay == \A r \in Requests : future[r] \in Answers => future'[r] = future[r]

(* A rejection leaves answers alone. *)
LEMMA RejectKeeps == ASSUME NEW S, RejectRecords(S) PROVE AnswersStay
  BY TokenAssumption DEF RejectRecords, FailedFutures, AnswersStay

(* A cancellation leaves answers alone. *)
LEMMA CancelKeeps == ASSUME TypeOK, NEW t, CancelTask(t) PROVE AnswersStay
  BY TokenAssumption DEF CancelTask, AnswersStay, TypeOK

(* Nothing is suspended at the start. *)
LEMMA HoldingInit == Init => Holding
  BY TokenAssumption DEF Init, Holding, Recording, InAct, IdleTask

(* A turn goes on with what its place relies on. *)
LEMMA TurnHolds ==
    ASSUME TypeOK, Holding, NEW t \in Turns, NEW p, Goto(t, p),
           AnswersStay, UNCHANGED <<task, lock, resolution>>,
           \A u \in Turns : u # t => current'[u] = current[u],
           p \in InAct \ {"acting"} => current'[t] \in Requests,
           p = "saving" => future'[current'[t]] \in Saved
    PROVE  Holding'
  <1>1. /\ pc \in [Turns -> Points] /\ Saved \subseteq Answers
    BY TokenAssumption DEF TypeOK
  <1>2. pc'[t] = p /\ \A u \in Turns : u # t => pc'[u] = pc[u]
    BY <1>1 DEF Goto
  <1>3. \A u \in Turns : pc'[u] \in InAct \ {"acting"} => current'[u] \in Requests
    BY <1>2 DEF Holding
  <1>4. \A u \in Turns : pc'[u] = "saving" => future'[current'[u]] \in Saved
    <2> SUFFICES ASSUME NEW u \in Turns, u # t, pc[u] = "saving"
                 PROVE  future'[current[u]] \in Saved
      BY <1>2
    <2> QED BY <1>1 DEF Holding, AnswersStay, InAct
  <1> QED BY <1>3, <1>4 DEF Holding

(* A turn that moves to a point where it holds nothing disturbs nobody. *)
LEMMA TurnMoves ==
    ASSUME TypeOK, Holding, NEW t \in Turns, NEW p, Goto(t, p), p \notin InAct \ {"acting"},
           UNCHANGED <<task, lock, resolution, future, current>>
    PROVE  Holding'
  <1>1. AnswersStay BY DEF AnswersStay
  <1>2. p # "saving" BY DEF InAct
  <1> QED BY <1>1, <1>2, TurnHolds

(* A step beside turns and requests. *)
LEMMA TurnsHold ==
    ASSUME Holding, AnswersStay, UNCHANGED <<pc, current, task, lock, resolution>>
    PROVE  Holding'
  BY TokenAssumption DEF Holding, AnswersStay, InAct

(* A request goes on that records no answer. *)
LEMMA RequestHolds ==
    ASSUME TypeOK, Holding, NEW h \in Handlers,
           \A g \in Handlers : g # h => task'[g] = task[g],
           task'[h].op \notin Recording \cup {"steer"},
           AnswersStay, UNCHANGED <<pc, current>>,
           \A g \in Handlers : g # h /\ task[g].op \in Recording =>
               UNCHANGED <<lock[task[g].req], resolution[task[g].req]>>
    PROVE  Holding'
  <1>1. \A u \in Turns : pc[u] = "saving" => future'[current[u]] \in Saved
    BY TokenAssumption DEF Holding, AnswersStay, InAct
  <1> QED BY <1>1 DEF Holding

(* Every step keeps what suspended tasks rely on. *)
LEMMA HoldingStep == IInv /\ [Next]_vars => Holding'
  <1> SUFFICES ASSUME IInv, [Next]_vars PROVE Holding' OBVIOUS
  <1> USE DEF vars, controller, slots, turnTask, requests, records, table, entries
  <1>0. TypeOK /\ Holding BY DEF IInv
  <1>1. ASSUME NEW h \in Handlers, NEW t \in Turns, TurnStart(h, t) PROVE Holding'
    <2>1. /\ task \in [Handlers -> Task] /\ pc \in [Turns -> Points] BY <1>0 DEF TypeOK
    <2>2. /\ \A g \in Handlers : g # h => task'[g] = task[g]
          /\ task'[h].op \notin Recording \cup {"steer"}
      BY <1>1, <2>1 DEF TurnStart, Suspend, Recording, Task
    <2>3. \A u \in Turns : pc'[u] \in InAct => pc[u] = pc'[u]
      BY <1>1, <2>1 DEF TurnStart, Goto, InAct
    <2> QED BY <1>0, <1>1, <2>2, <2>3 DEF TurnStart, Begin, Holding, InAct
  <1>2. ASSUME NEW h \in Handlers, AfterResponse(h) PROVE Holding'
    <2>1. /\ task \in [Handlers -> Task] /\ pc \in [Turns -> Points] BY <1>0 DEF TypeOK
    <2>2. /\ \A g \in Handlers : g # h => task'[g] = task[g]
          /\ task'[h].op \notin Recording \cup {"steer"}
      BY <1>2, <2>1 DEF AfterResponse, Finish, IdleTask, Recording
    <2>3. \A u \in Turns : pc'[u] \in InAct => pc[u] = pc'[u]
      BY <1>2, <2>1 DEF AfterResponse, Goto, InAct
    <2> QED BY <1>0, <1>2, <2>2, <2>3 DEF AfterResponse, Holding, InAct
  <1>3. ASSUME NEW t \in Turns, FireLoop(t) PROVE Holding'
    BY <1>0, <1>3, TurnHolds DEF FireLoop, Begin, Goto, InAct, AnswersStay
  <1>4. ASSUME NEW t \in Turns, RunTurn(t) PROVE Holding'
    <2>1. UNCHANGED <<current, future, task, lock, resolution>> BY <1>4 DEF RunTurn
    <2>2. Goto(t, "started") BY <1>4 DEF RunTurn
    <2> QED BY <1>0, <2>1, <2>2, TurnMoves DEF InAct
  <1>5. ASSUME NEW t \in Turns, AnnounceTurn(t) PROVE Holding'
    <2>1. UNCHANGED <<current, future, task, lock, resolution>> BY <1>5 DEF AnnounceTurn
    <2>2. Goto(t, "announced") BY <1>5 DEF AnnounceTurn
    <2> QED BY <1>0, <2>1, <2>2, TurnMoves DEF InAct
  <1>6. ASSUME NEW t \in Turns, EnterAct(t) PROVE Holding'
    <2>1. UNCHANGED <<current, future, task, lock, resolution>> BY <1>6 DEF EnterAct
    <2>2. Goto(t, "acting") BY <1>6 DEF EnterAct
    <2> QED BY <1>0, <2>1, <2>2, TurnMoves DEF InAct
  <1>7. ASSUME NEW t \in Turns, DieBeforeTry(t) PROVE Holding'
    <2>1. UNCHANGED <<current, future, task, lock, resolution>> BY <1>7 DEF DieBeforeTry
    <2>2. Goto(t, "dead") BY <1>7 DEF DieBeforeTry
    <2> QED BY <1>0, <2>1, <2>2, TurnMoves DEF InAct
  <1>8. ASSUME NEW t \in Turns, NEW r \in Requests, AskCore(t, r) PROVE Holding'
    BY <1>0, <1>8 DEF AskCore, Holding
  <1>9. ASSUME NEW t \in Turns, NEW r \in Requests, OpenCallback(t, r) PROVE Holding'
    BY ZenonT(60), <1>0, <1>9, TurnHolds
    DEF OpenCallback, Goto, Runs, AnswersStay, InAct, TypeOK
  <1>10. ASSUME NEW t \in Turns, MarkBlocked(t) PROVE Holding'
    <2>1. AnswersStay /\ UNCHANGED <<current, task, lock, resolution>>
      BY <1>10 DEF MarkBlocked, AnswersStay
    <2>2. Goto(t, "blocking") BY <1>10 DEF MarkBlocked
    <2>3. current'[t] \in Requests
      BY <1>0, <1>10 DEF MarkBlocked, Runs, Holding, InAct
    <2> QED BY <1>0, <2>1, <2>2, <2>3, TurnHolds
  <1>11. ASSUME NEW t \in Turns, DeliverCallback(t) PROVE Holding'
    <2>1. AnswersStay /\ UNCHANGED <<current, task, lock, resolution>>
      BY <1>11 DEF DeliverCallback, AnswersStay
    <2>2. Goto(t, "delivering") BY <1>11 DEF DeliverCallback
    <2>3. current'[t] \in Requests
      BY <1>0, <1>11 DEF DeliverCallback, Runs, Holding, InAct
    <2> QED BY <1>0, <2>1, <2>2, <2>3, TurnHolds
  <1>12. ASSUME NEW t \in Turns, AwaitAnswer(t) PROVE Holding'
    <2>1. AnswersStay /\ UNCHANGED <<current, task, lock, resolution>>
      BY <1>12 DEF AwaitAnswer, AnswersStay
    <2>2. Goto(t, "waiting") BY <1>12 DEF AwaitAnswer
    <2>3. current'[t] \in Requests
      BY <1>0, <1>12 DEF AwaitAnswer, Runs, Holding, InAct
    <2> QED BY <1>0, <2>1, <2>2, <2>3, TurnHolds
  <1>13. ASSUME NEW t \in Turns, ReceiveAnswer(t) PROVE Holding'
    BY <1>0, <1>13, TurnHolds
    DEF ReceiveAnswer, ResolveCore, Goto, Runs, Holding, AnswersStay, InAct, TypeOK
  <1>14. ASSUME NEW t \in Turns, SaveApproval(t) PROVE Holding'
    <2>1. AnswersStay /\ UNCHANGED <<current, task, lock, resolution>>
      BY <1>14 DEF SaveApproval, AnswersStay
    <2>2. Goto(t, "saving") BY <1>14 DEF SaveApproval
    <2>3. current'[t] \in Requests /\ future'[current'[t]] \in Saved
      BY <1>0, <1>14 DEF SaveApproval, Runs, Holding, InAct
    <2> QED BY <1>0, <2>1, <2>2, <2>3, TurnHolds
  <1>15. ASSUME NEW t \in Turns, ApprovalSaved(t) PROVE Holding'
    BY <1>0, <1>15, TurnHolds
    DEF ApprovalSaved, ResolveCore, Goto, Runs, Holding, AnswersStay, InAct, TypeOK
  <1>16. ASSUME NEW t \in Turns, RequestFails(t) PROVE Holding'
    <2>1. AnswersStay BY <1>16, RejectKeeps DEF RequestFails
    <2> QED BY <1>0, <1>16, <2>1, TurnHolds DEF RequestFails, Unwind, Goto, InAct, TypeOK
  <1>17. ASSUME NEW t \in Turns, ReceiveRejection(t) PROVE Holding'
    BY <1>0, <1>17, TurnHolds
    DEF ReceiveRejection, Unwind, Goto, Runs, AnswersStay, InAct, TypeOK
  <1>18. ASSUME NEW t \in Turns, NEW r \in Requests, RefuseRequest(t, r) PROVE Holding'
    BY ZenonT(60), <1>0, <1>18, TurnHolds
    DEF RefuseRequest, Unwind, Goto, Runs, AnswersStay, InAct, TypeOK
  <1>19. ASSUME NEW t \in Turns, NEW r \in Requests, ToolResult(t, r) PROVE Holding'
    BY <1>0, <1>19 DEF ToolResult, Holding
  <1>20. ASSUME NEW t \in Turns, ActFails(t) PROVE Holding'
    BY <1>0, <1>20, TurnHolds
    DEF ActFails, Unwind, Goto, Runs, AnswersStay, InAct, TypeOK
  <1>21. ASSUME NEW t \in Turns, ActCancelled(t) PROVE Holding'
    BY <1>0, <1>21, TurnHolds
    DEF ActCancelled, Unwind, Goto, Runs, AnswersStay, InAct, TypeOK
  <1>22. ASSUME NEW t \in Turns, ActCompletes(t) PROVE Holding'
    BY <1>0, <1>22, TurnMoves
    DEF ActCompletes, FinalizeTurn, InAct
  <1>23. ASSUME NEW t \in Turns, ActUnwound(t) PROVE Holding'
    BY <1>0, <1>23, TurnMoves
    DEF ActUnwound, FinalizeTurn, InAct
  <1>24. ASSUME NEW t \in Turns, SettleTurn(t) PROVE Holding'
    <2>1. AnswersStay BY <1>24, RejectKeeps DEF SettleTurn
    <2> QED BY <1>0, <1>24, <2>1, TurnHolds DEF SettleTurn, Goto, InAct
  <1>25. ASSUME NEW t \in Turns, GoIdle(t) PROVE Holding'
    BY <1>0, <1>25, TurnMoves
    DEF GoIdle, InAct
  <1>26. ASSUME NEW t \in Turns, CompleteTurn(t) PROVE Holding'
    BY <1>0, <1>26, TurnMoves
    DEF CompleteTurn, InAct
  <1>27. ASSUME NEW t \in Turns, EndTurn(t) PROVE Holding'
    <2>1. UNCHANGED <<current, future, task, lock, resolution>> BY <1>27 DEF EndTurn
    <2>2. CASE Goto(t, "done") BY <1>0, <2>1, <2>2, TurnMoves DEF InAct
    <2>3. CASE Goto(t, "aborted") BY <1>0, <2>1, <2>3, TurnMoves DEF InAct
    <2> QED BY <1>27, <2>2, <2>3 DEF EndTurn
  <1>28. ASSUME NEW t \in Turns, Interrupt(t) PROVE Holding'
    <2>1. AnswersStay BY <1>0, <1>28, CancelKeeps DEF Interrupt, AnswersStay
    <2>2. UNCHANGED <<pc, current, task, lock, resolution>> BY <1>28 DEF Interrupt
    <2> QED BY <1>0, <2>1, <2>2, TurnsHold
  <1>29. ASSUME NEW h \in Handlers, NEW t \in Turns, Steer(h, t) PROVE Holding'
    <2>1. task \in [Handlers -> Task] BY <1>0 DEF TypeOK
    <2>2. /\ \A g \in Handlers : g # h => task'[g] = task[g]
          /\ task'[h].op = "steer" /\ task'[h].turn = t
      BY <1>29, <2>1 DEF Steer, Suspend
    <2> QED BY <1>0, <1>29, <2>2 DEF Steer, Holding, Recording
  <1>30. ASSUME NEW h \in Handlers, ProjectSteer(h) PROVE Holding'
    <2>1. task \in [Handlers -> Task] BY <1>0 DEF TypeOK
    <2>2. /\ \A g \in Handlers : g # h => task'[g] = task[g]
          /\ task'[h].op \notin Recording \cup {"steer"}
      BY <1>30, <2>1 DEF ProjectSteer, Finish, IdleTask, Recording
    <2> QED BY <1>0, <1>30, <2>2, RequestHolds DEF ProjectSteer, AnswersStay
  <1>31. ASSUME NEW h \in Handlers, NEW r \in Requests, NEW a \in Answers, AnswerCallback(h, r, a) PROVE Holding'
    <2>1. /\ task \in [Handlers -> Task] /\ lock \in [Requests -> Handlers \cup {None}]
      BY <1>0 DEF TypeOK
    <2>2. /\ lock[r] = None /\ resolution[r] = None
          /\ lock' = [lock EXCEPT ![r] = h]
          /\ UNCHANGED <<pc, current, future, resolution>>
      BY <1>31 DEF AnswerCallback, Answerable
    <2>3. /\ \A g \in Handlers : g # h => task'[g] = task[g]
          /\ task'[h].op \in {"effect", "status"}
          /\ task'[h].req = r /\ task'[h].ans = a
      BY <1>31, <2>1 DEF AnswerCallback, Suspend
    <2>4. \A g \in Handlers : g # h /\ task[g].op \in Recording => task[g].req # r
      BY <1>0, <2>2, TokenAssumption DEF Holding
    <2>5. lock'[r] = h /\ \A q \in Requests : q # r => lock'[q] = lock[q] BY <2>1, <2>2
    <2>6. \A g \in Handlers : task'[g].op \in Recording =>
              /\ task'[g].req \in Requests /\ task'[g].ans \in Answers
              /\ lock'[task'[g].req] = g
              /\ resolution[task'[g].req] = None
      BY <1>0, <2>2, <2>3, <2>4, <2>5 DEF Holding
    <2>7. \A g \in Handlers : task'[g].op = "steer" => task'[g].turn \in Turns
      BY <1>0, <2>3 DEF Holding
    <2> QED BY <1>0, <2>2, <2>6, <2>7 DEF Holding
  <1>32. ASSUME NEW h \in Handlers, AnswerEffect(h) PROVE Holding'
    <2>1. task \in [Handlers -> Task] BY <1>0 DEF TypeOK
    <2>2. /\ \A g \in Handlers : g # h => task'[g] = task[g]
          /\ task[h].op \in Recording /\ task'[h].op \in Recording
          /\ task'[h].req = task[h].req /\ task'[h].ans = task[h].ans
      BY <1>32, <2>1 DEF AnswerEffect, Resume, Recording, Task
    <2> QED BY <1>0, <1>32, <2>2 DEF AnswerEffect, Holding, Recording
  <1>33. ASSUME NEW h \in Handlers, AnswerStatus(h) PROVE Holding'
    <2>1. task \in [Handlers -> Task] BY <1>0 DEF TypeOK
    <2>2. /\ \A g \in Handlers : g # h => task'[g] = task[g]
          /\ task[h].op \in Recording /\ task'[h].op \in Recording
          /\ task'[h].req = task[h].req /\ task'[h].ans = task[h].ans
      BY <1>33, <2>1 DEF AnswerStatus, Resume, Recording, Task
    <2> QED BY <1>0, <1>33, <2>2 DEF AnswerStatus, Holding, Recording
  <1>34. ASSUME NEW h \in Handlers, AnswerAccepted(h) PROVE Holding'
    <2> DEFINE r == task[h].req
    <2>1. /\ task \in [Handlers -> Task] /\ future \in [Requests -> Answers \cup {"pending", "exception", "cancelled"}]
          /\ lock \in [Requests -> Handlers \cup {None}]
          /\ resolution \in [Requests -> Answers \cup {None, "error"}]
      BY <1>0 DEF TypeOK
    <2>2. /\ task[h].op \in Recording
          /\ lock' = [lock EXCEPT ![r] = None]
          /\ resolution' = [resolution EXCEPT ![r] = task[h].ans]
      BY <1>34 DEF AnswerAccepted, Recording
    <2>3. \A g \in Handlers : g # h /\ task[g].op \in Recording => task[g].req # r
      BY <1>0, <2>2 DEF Holding
    <2>4. /\ \A g \in Handlers : g # h => task'[g] = task[g]
          /\ task'[h].op \notin Recording \cup {"steer"}
      BY <1>34, <2>1 DEF AnswerAccepted, Finish, IdleTask, Recording
    <2>5. \A g \in Handlers : g # h /\ task[g].op \in Recording =>
              UNCHANGED <<lock[task[g].req], resolution[task[g].req]>>
      <3> SUFFICES ASSUME NEW g \in Handlers, g # h, task[g].op \in Recording
                   PROVE  UNCHANGED <<lock[task[g].req], resolution[task[g].req]>>
        OBVIOUS
      <3>1. task'[g] = task[g] /\ task[g].req # r BY <2>3, <2>4
      <3>2. task[g].req \in Requests BY <1>0 DEF Holding
      <3> QED BY <2>1, <2>2, <3>1, <3>2
    <2>6. AnswersStay
      BY <1>34, <2>1, TokenAssumption DEF AnswerAccepted, AnswersStay
    <2>7. UNCHANGED <<pc, current>> BY <1>34 DEF AnswerAccepted
    <2> QED BY <1>0, <2>4, <2>5, <2>6, <2>7, RequestHolds
  <1>35. ASSUME NEW r \in Requests, RejectCallback(r) PROVE Holding'
    <2>1. AnswersStay BY <1>35, RejectKeeps DEF RejectCallback
    <2>2. /\ lock[r] = None /\ UNCHANGED <<pc, current, task, lock>>
          /\ resolution' = [resolution EXCEPT ![r] = "error"]
      BY <1>35 DEF RejectCallback, Answerable
    <2>3. \A q \in Requests : q # r => resolution'[q] = resolution[q]
      BY <1>0, <2>2 DEF TypeOK
    <2>4. \A h \in Handlers : task[h].op \in Recording => resolution'[task[h].req] = None
      BY <1>0, <2>2, <2>3, TokenAssumption DEF Holding
    <2>5. \A u \in Turns : pc[u] = "saving" => future'[current[u]] \in Saved
      BY <1>0, <2>1, TokenAssumption DEF Holding, AnswersStay, InAct
    <2> QED BY <1>0, <2>2, <2>4, <2>5 DEF Holding
  <1>36. ASSUME NEW h \in Handlers, BeginLifecycle(h) PROVE Holding'
    <2>1. task \in [Handlers -> Task] BY <1>0 DEF TypeOK
    <2>2. /\ \A g \in Handlers : g # h => task'[g] = task[g]
          /\ task'[h].op \notin Recording \cup {"steer"}
      BY <1>36, <2>1 DEF BeginLifecycle, Suspend, Task, Recording
    <2> QED BY <1>0, <1>36, <2>2, RequestHolds DEF BeginLifecycle, AnswersStay
  <1>37. ASSUME NEW h \in Handlers, CloseTurns(h) PROVE Holding'
    <2>1. task \in [Handlers -> Task] BY <1>0 DEF TypeOK
    <2>2. /\ \A g \in Handlers : g # h => task'[g] = task[g]
          /\ task'[h].op \notin Recording \cup {"steer"}
      BY <1>37, <2>1 DEF CloseTurns, Resume, Task, Recording
    <2>3. AnswersStay BY <1>0, <1>37, CancelKeeps DEF CloseTurns
    <2> QED BY <1>0, <1>37, <2>2, <2>3, RequestHolds DEF CloseTurns
  <1>38. ASSUME NEW h \in Handlers, ResetTurns(h) PROVE Holding'
    <2>1. task \in [Handlers -> Task] BY <1>0 DEF TypeOK
    <2>2. /\ \A g \in Handlers : g # h => task'[g] = task[g]
          /\ task'[h].op \notin Recording \cup {"steer"}
      BY <1>38, <2>1 DEF ResetTurns, Finish, IdleTask, Recording
    <2>3. AnswersStay BY <1>38, RejectKeeps DEF ResetTurns
    <2> QED BY <1>0, <1>38, <2>2, <2>3, RequestHolds DEF ResetTurns
  <1>39. ASSUME NEW h \in Handlers, LifecycleFails(h) PROVE Holding'
    <2>1. task \in [Handlers -> Task] BY <1>0 DEF TypeOK
    <2>2. /\ \A g \in Handlers : g # h => task'[g] = task[g]
          /\ task'[h].op \notin Recording \cup {"steer"}
      BY <1>39, <2>1 DEF LifecycleFails, Finish, IdleTask, Recording
    <2> QED BY <1>0, <1>39, <2>2, RequestHolds DEF LifecycleFails, AnswersStay
  <1>40. ASSUME Disconnect PROVE Holding'
    <2>1. AnswersStay BY <1>0, <1>40 DEF Disconnect, AnswersStay
    <2>2. /\ UNCHANGED <<pc, current>> /\ \A h \in Handlers : task'[h] = IdleTask
      BY <1>40 DEF Disconnect, CancelRequests
    <2>3. \A u \in Turns : pc[u] = "saving" => future'[current[u]] \in Saved
      BY <1>0, <2>1, TokenAssumption DEF Holding, AnswersStay, InAct
    <2> QED BY <1>0, <2>2, <2>3 DEF Holding, Recording, IdleTask
  <1>41. ASSUME Shutdown PROVE Holding'
    <2>1. AnswersStay BY <1>0, <1>41, CancelKeeps DEF Shutdown, AnswersStay
    <2>2. /\ UNCHANGED <<pc, current>> /\ \A h \in Handlers : task'[h] = IdleTask
      BY <1>41 DEF Shutdown, CancelRequests
    <2>3. \A u \in Turns : pc[u] = "saving" => future'[current[u]] \in Saved
      BY <1>0, <2>1, TokenAssumption DEF Holding, AnswersStay, InAct
    <2> QED BY <1>0, <2>2, <2>3 DEF Holding, Recording, IdleTask
  <1>42. ASSUME FinishShutdown PROVE Holding'
    <2>1. AnswersStay BY <1>42, RejectKeeps DEF FinishShutdown
    <2>2. UNCHANGED <<pc, current, task, lock, resolution>> BY <1>42 DEF FinishShutdown
    <2> QED BY <1>0, <2>1, <2>2, TurnsHold
  <1>43. CASE UNCHANGED vars BY <1>0, <1>43 DEF Holding
  <1> QED BY <1>1, <1>2, <1>3, <1>4, <1>5, <1>6, <1>7, <1>8, <1>9, <1>10, <1>11, <1>12, <1>13, <1>14, <1>15, <1>16, <1>17, <1>18, <1>19, <1>20, <1>21, <1>22, <1>23, <1>24, <1>25, <1>26, <1>27, <1>28, <1>29, <1>30, <1>31, <1>32, <1>33, <1>34, <1>35, <1>36, <1>37, <1>38, <1>39, <1>40, <1>41, <1>42, <1>43
        DEF Next, TurnStep, TurnMay, HandlerStep, ClientStep

-----------------------------------------------------------------------------
(* Answers *)

(* Nothing is answered at the start. *)
LEMMA AnsweringInit == Init => Answering
  BY TokenAssumption DEF Init, Answering, CoreGetsAcceptedAnswer

(* Nothing but a recorded resolution ever becomes an answer. *)
LEMMA NothingAnswered ==
    ASSUME Answering,
           \A r \in Requests : future'[r] \in Answers => future[r] = future'[r],
           \A r \in Requests : core'[r] \in Answers =>
               core[r] = core'[r] \/ future[r] = core'[r],
           \A r \in Requests : resolution[r] # None => resolution'[r] = resolution[r]
    PROVE  Answering'
  <1>1. None \notin Answers BY TokenAssumption
  <1>2. \A r \in Requests : future'[r] \in Answers => resolution'[r] = future'[r]
    BY <1>1 DEF Answering
  <1>3. \A r \in Requests : core'[r] \in Answers => resolution'[r] = core'[r]
    BY <1>1 DEF Answering, CoreGetsAcceptedAnswer
  <1> QED BY <1>2, <1>3 DEF Answering, CoreGetsAcceptedAnswer

(* Steps that answer no future. *)
LEMMA NoNewFuture ==
    ASSUME TypeOK,
           \/ UNCHANGED future
           \/ \E S \in SUBSET Requests : RejectRecords(S)
           \/ \E t \in Turns \cup {None} : CancelTask(t)
    PROVE  \A r \in Requests : future'[r] \in Answers => future[r] = future'[r]
  BY TokenAssumption DEF TypeOK, RejectRecords, FailedFutures, CancelTask

(* Steps that answer nothing to the core. *)
LEMMA NoNewCore ==
    ASSUME TypeOK, NEW S,
           \/ UNCHANGED core
           \/ core' = RejectedCore(S)
           \/ \E t \in Turns : core' = Abandoned(t, core)
           \/ \E t \in Turns : core' = Abandoned(t, RejectedCore(S))
           \/ \E t \in Turns, r \in Requests :
                  core' = Abandoned(t, [core EXCEPT ![r] = "rejected"])
    PROVE  \A r \in Requests : core'[r] \in Answers => core[r] = core'[r]
  BY TokenAssumption DEF TypeOK, RejectedCore, Abandoned

(* A resolution, once made, is never replaced: the two places that write one
   find none (the record's lock keeps the others out in between).            *)
LEMMA AcceptedOnce ==
    ASSUME IInv, NEW h \in Handlers, AnswerAccepted(h)
    PROVE  /\ task[h].req \in Requests /\ task[h].ans \in Answers
           /\ resolution[task[h].req] = None
           /\ \A r \in Requests : resolution[r] # None => resolution'[r] = resolution[r]
  <1>1. task[h].op \in Recording BY DEF AnswerAccepted, Recording
  <1>2. /\ task[h].req \in Requests /\ task[h].ans \in Answers
        /\ resolution[task[h].req] = None
    BY <1>1 DEF IInv, Holding
  <1> QED BY <1>2 DEF AnswerAccepted, IInv, TypeOK

(* A rejection replaces no resolution. *)
LEMMA RejectedOnce ==
    ASSUME TypeOK, NEW q \in Requests, RejectCallback(q)
    PROVE  \A r \in Requests : resolution[r] # None => resolution'[r] = resolution[r]
  BY DEF RejectCallback, Answerable, TypeOK

(* Every step keeps the way of an answer to the core. *)
LEMMA AnsweringStep == IInv /\ [Next]_vars => Answering'
  <1> SUFFICES ASSUME IInv, [Next]_vars PROVE Answering' OBVIOUS
  <1> USE DEF vars, controller, slots, turnTask, requests, records, table, entries
  <1>0. TypeOK /\ Answering BY DEF IInv
  <1>1. ASSUME NEW h \in Handlers, NEW t \in Turns, TurnStart(h, t) PROVE Answering'
    BY <1>0, <1>1 DEF TurnStart, Begin, Answering, CoreGetsAcceptedAnswer
  <1>2. ASSUME NEW h \in Handlers, AfterResponse(h) PROVE Answering'
    BY <1>0, <1>2 DEF AfterResponse, Answering, CoreGetsAcceptedAnswer
  <1>3. ASSUME NEW t \in Turns, FireLoop(t) PROVE Answering'
    BY <1>0, <1>3 DEF FireLoop, Begin, Answering, CoreGetsAcceptedAnswer
  <1>4. ASSUME NEW t \in Turns, RunTurn(t) PROVE Answering'
    BY <1>0, <1>4 DEF RunTurn, Answering, CoreGetsAcceptedAnswer
  <1>5. ASSUME NEW t \in Turns, AnnounceTurn(t) PROVE Answering'
    BY <1>0, <1>5 DEF AnnounceTurn, Answering, CoreGetsAcceptedAnswer
  <1>6. ASSUME NEW t \in Turns, EnterAct(t) PROVE Answering'
    BY <1>0, <1>6 DEF EnterAct, Answering, CoreGetsAcceptedAnswer
  <1>7. ASSUME NEW t \in Turns, DieBeforeTry(t) PROVE Answering'
    BY <1>0, <1>7 DEF DieBeforeTry, Answering, CoreGetsAcceptedAnswer
  <1>8. ASSUME NEW t \in Turns, NEW r \in Requests, AskCore(t, r) PROVE Answering'
    <2>1. \A q \in Requests : core'[q] \in Answers => core[q] = core'[q]
      BY <1>0, <1>8, TokenAssumption DEF AskCore, TypeOK
    <2> QED BY <1>0, <1>8, <2>1, NothingAnswered DEF AskCore
  <1>9. ASSUME NEW t \in Turns, NEW r \in Requests, OpenCallback(t, r) PROVE Answering'
    BY <1>0, <1>9 DEF OpenCallback, Answering, CoreGetsAcceptedAnswer
  <1>10. ASSUME NEW t \in Turns, MarkBlocked(t) PROVE Answering'
    BY <1>0, <1>10 DEF MarkBlocked, Answering, CoreGetsAcceptedAnswer
  <1>11. ASSUME NEW t \in Turns, DeliverCallback(t) PROVE Answering'
    BY <1>0, <1>11 DEF DeliverCallback, Answering, CoreGetsAcceptedAnswer
  <1>12. ASSUME NEW t \in Turns, AwaitAnswer(t) PROVE Answering'
    BY <1>0, <1>12 DEF AwaitAnswer, Answering, CoreGetsAcceptedAnswer
  <1>13. ASSUME NEW t \in Turns, ReceiveAnswer(t) PROVE Answering'
    <2>1. \A r \in Requests : core'[r] \in Answers =>
              core[r] = core'[r] \/ future[r] = core'[r]
      BY <1>0, <1>13 DEF ReceiveAnswer, ResolveCore, TypeOK
    <2> QED BY <1>0, <1>13, <2>1, NothingAnswered DEF ReceiveAnswer, ResolveCore
  <1>14. ASSUME NEW t \in Turns, SaveApproval(t) PROVE Answering'
    BY <1>0, <1>14 DEF SaveApproval, Answering, CoreGetsAcceptedAnswer
  <1>15. ASSUME NEW t \in Turns, ApprovalSaved(t) PROVE Answering'
    <2>1. \A r \in Requests : core'[r] \in Answers =>
              core[r] = core'[r] \/ future[r] = core'[r]
      BY <1>0, <1>15 DEF ApprovalSaved, ResolveCore, TypeOK
    <2> QED BY <1>0, <1>15, <2>1, NothingAnswered DEF ApprovalSaved, ResolveCore
  <1>16. ASSUME NEW t \in Turns, RequestFails(t) PROVE Answering'
    <2>1. \A q \in Requests : core'[q] \in Answers => core[q] = core'[q]
      BY <1>0, <1>16, NoNewCore DEF RequestFails, Unwind
    <2>2. {current[t]} \in SUBSET Requests BY <1>16 DEF RequestFails, Runs, IInv, Holding, InAct
    <2>3. \A q \in Requests : future'[q] \in Answers => future[q] = future'[q]
      BY <1>0, <1>16, <2>2, NoNewFuture DEF RequestFails
    <2> QED BY <1>0, <1>16, <2>1, <2>3, NothingAnswered DEF RequestFails, Unwind
  <1>17. ASSUME NEW t \in Turns, ReceiveRejection(t) PROVE Answering'
    <2>1. \A q \in Requests : core'[q] \in Answers => core[q] = core'[q]
      BY <1>0, <1>17, NoNewCore DEF ReceiveRejection, Unwind
    <2> QED BY <1>0, <1>17, <2>1, NothingAnswered DEF ReceiveRejection, Unwind
  <1>18. ASSUME NEW t \in Turns, NEW r \in Requests, RefuseRequest(t, r) PROVE Answering'
    <2>1. \A q \in Requests : core'[q] \in Answers => core[q] = core'[q]
      BY <1>0, <1>18, NoNewCore DEF RefuseRequest, Unwind
    <2> QED BY <1>0, <1>18, <2>1, NothingAnswered DEF RefuseRequest, Unwind
  <1>19. ASSUME NEW t \in Turns, NEW r \in Requests, ToolResult(t, r) PROVE Answering'
    BY <1>0, <1>19 DEF ToolResult, Answering, CoreGetsAcceptedAnswer
  <1>20. ASSUME NEW t \in Turns, ActFails(t) PROVE Answering'
    <2>1. \A q \in Requests : core'[q] \in Answers => core[q] = core'[q]
      BY <1>0, <1>20, NoNewCore DEF ActFails, Unwind
    <2> QED BY <1>0, <1>20, <2>1, NothingAnswered DEF ActFails, Unwind
  <1>21. ASSUME NEW t \in Turns, ActCancelled(t) PROVE Answering'
    <2>1. \A q \in Requests : core'[q] \in Answers => core[q] = core'[q]
      BY <1>0, <1>21, NoNewCore DEF ActCancelled, Unwind
    <2> QED BY <1>0, <1>21, <2>1, NothingAnswered DEF ActCancelled, Unwind
  <1>22. ASSUME NEW t \in Turns, ActCompletes(t) PROVE Answering'
    BY <1>0, <1>22 DEF ActCompletes, FinalizeTurn, Answering, CoreGetsAcceptedAnswer
  <1>23. ASSUME NEW t \in Turns, ActUnwound(t) PROVE Answering'
    BY <1>0, <1>23 DEF ActUnwound, FinalizeTurn, Answering, CoreGetsAcceptedAnswer
  <1>24. ASSUME NEW t \in Turns, SettleTurn(t) PROVE Answering'
    <2>1. \A q \in Requests : core'[q] \in Answers => core[q] = core'[q]
      BY <1>0, <1>24, NoNewCore DEF SettleTurn
    <2>2. callbacks \in SUBSET Requests BY <1>0 DEF TypeOK
    <2>3. \A q \in Requests : future'[q] \in Answers => future[q] = future'[q]
      BY <1>0, <1>24, <2>2, NoNewFuture DEF SettleTurn
    <2> QED BY <1>0, <1>24, <2>1, <2>3, NothingAnswered DEF SettleTurn
  <1>25. ASSUME NEW t \in Turns, GoIdle(t) PROVE Answering'
    BY <1>0, <1>25 DEF GoIdle, Answering, CoreGetsAcceptedAnswer
  <1>26. ASSUME NEW t \in Turns, CompleteTurn(t) PROVE Answering'
    BY <1>0, <1>26 DEF CompleteTurn, Answering, CoreGetsAcceptedAnswer
  <1>27. ASSUME NEW t \in Turns, EndTurn(t) PROVE Answering'
    BY <1>0, <1>27 DEF EndTurn, Answering, CoreGetsAcceptedAnswer
  <1>28. ASSUME NEW t \in Turns, Interrupt(t) PROVE Answering'
    <2>1. \A q \in Requests : future'[q] \in Answers => future[q] = future'[q]
      BY <1>0, <1>28, NoNewFuture DEF Interrupt, TypeOK
    <2> QED BY <1>0, <1>28, <2>1, NothingAnswered DEF Interrupt
  <1>29. ASSUME NEW h \in Handlers, NEW t \in Turns, Steer(h, t) PROVE Answering'
    BY <1>0, <1>29 DEF Steer, Answering, CoreGetsAcceptedAnswer
  <1>30. ASSUME NEW h \in Handlers, ProjectSteer(h) PROVE Answering'
    BY <1>0, <1>30 DEF ProjectSteer, Answering, CoreGetsAcceptedAnswer
  <1>31. ASSUME NEW h \in Handlers, NEW r \in Requests, NEW a \in Answers, AnswerCallback(h, r, a) PROVE Answering'
    BY <1>0, <1>31 DEF AnswerCallback, Answering, CoreGetsAcceptedAnswer
  <1>32. ASSUME NEW h \in Handlers, AnswerEffect(h) PROVE Answering'
    BY <1>0, <1>32 DEF AnswerEffect, Answering, CoreGetsAcceptedAnswer
  <1>33. ASSUME NEW h \in Handlers, AnswerStatus(h) PROVE Answering'
    BY <1>0, <1>33 DEF AnswerStatus, Answering, CoreGetsAcceptedAnswer
  <1>34. ASSUME NEW h \in Handlers, AnswerAccepted(h) PROVE Answering'
    <2> DEFINE q == task[h].req
    <2>1. /\ q \in Requests /\ task[h].ans \in Answers /\ resolution[q] = None
      BY <1>34, AcceptedOnce
    <2>2. /\ resolution' = [resolution EXCEPT ![q] = task[h].ans]
          /\ future' = [future EXCEPT ![q] = IF future[q] = "pending" THEN task[h].ans ELSE future[q]]
          /\ UNCHANGED core
      BY <1>34 DEF AnswerAccepted
    <2>3. /\ resolution'[q] = task[h].ans
          /\ future'[q] = IF future[q] = "pending" THEN task[h].ans ELSE future[q]
          /\ \A r \in Requests : r # q => resolution'[r] = resolution[r] /\ future'[r] = future[r]
      BY <1>0, <2>1, <2>2 DEF TypeOK
    <2>4. future[q] \notin Answers /\ core[q] \notin Answers
      BY <1>0, <2>1, TokenAssumption DEF Answering, CoreGetsAcceptedAnswer
    <2> QED BY <1>0, <2>2, <2>3, <2>4 DEF Answering, CoreGetsAcceptedAnswer
  <1>35. ASSUME NEW r \in Requests, RejectCallback(r) PROVE Answering'
    <2>1. \A q \in Requests : core'[q] \in Answers => core[q] = core'[q]
      BY <1>0, <1>35, NoNewCore DEF RejectCallback
    <2>2. {r} \in SUBSET Requests OBVIOUS
    <2>3. \A q \in Requests : future'[q] \in Answers => future[q] = future'[q]
      BY <1>0, <1>35, <2>2, NoNewFuture DEF RejectCallback
    <2> QED BY <1>0, <1>35, <2>1, <2>3, RejectedOnce, NothingAnswered DEF RejectCallback
  <1>36. ASSUME NEW h \in Handlers, BeginLifecycle(h) PROVE Answering'
    BY <1>0, <1>36 DEF BeginLifecycle, Answering, CoreGetsAcceptedAnswer
  <1>37. ASSUME NEW h \in Handlers, CloseTurns(h) PROVE Answering'
    <2>1. \A q \in Requests : future'[q] \in Answers => future[q] = future'[q]
      BY <1>0, <1>37, NoNewFuture DEF CloseTurns, TypeOK
    <2> QED BY <1>0, <1>37, <2>1, NothingAnswered DEF CloseTurns
  <1>38. ASSUME NEW h \in Handlers, ResetTurns(h) PROVE Answering'
    <2>1. \A q \in Requests : core'[q] \in Answers => core[q] = core'[q]
      BY <1>0, <1>38, NoNewCore DEF ResetTurns
    <2>2. callbacks \in SUBSET Requests BY <1>0 DEF TypeOK
    <2>3. \A q \in Requests : future'[q] \in Answers => future[q] = future'[q]
      BY <1>0, <1>38, <2>2, NoNewFuture DEF ResetTurns
    <2> QED BY <1>0, <1>38, <2>1, <2>3, NothingAnswered DEF ResetTurns
  <1>39. ASSUME NEW h \in Handlers, LifecycleFails(h) PROVE Answering'
    BY <1>0, <1>39 DEF LifecycleFails, Answering, CoreGetsAcceptedAnswer
  <1>40. ASSUME Disconnect PROVE Answering'
    BY <1>0, <1>40 DEF Disconnect, Answering, CoreGetsAcceptedAnswer
  <1>41. ASSUME Shutdown PROVE Answering'
    <2>1. \A q \in Requests : future'[q] \in Answers => future[q] = future'[q]
      BY <1>0, <1>41, NoNewFuture DEF Shutdown, TypeOK
    <2> QED BY <1>0, <1>41, <2>1, NothingAnswered DEF Shutdown
  <1>42. ASSUME FinishShutdown PROVE Answering'
    <2>1. \A q \in Requests : core'[q] \in Answers => core[q] = core'[q]
      BY <1>0, <1>42, NoNewCore DEF FinishShutdown
    <2>2. callbacks \in SUBSET Requests BY <1>0 DEF TypeOK
    <2>3. \A q \in Requests : future'[q] \in Answers => future[q] = future'[q]
      BY <1>0, <1>42, <2>2, NoNewFuture DEF FinishShutdown
    <2> QED BY <1>0, <1>42, <2>1, <2>3, NothingAnswered DEF FinishShutdown
  <1>43. CASE UNCHANGED vars BY <1>0, <1>43 DEF Answering, CoreGetsAcceptedAnswer
  <1> QED BY <1>1, <1>2, <1>3, <1>4, <1>5, <1>6, <1>7, <1>8, <1>9, <1>10, <1>11, <1>12, <1>13, <1>14, <1>15, <1>16, <1>17, <1>18, <1>19, <1>20, <1>21, <1>22, <1>23, <1>24, <1>25, <1>26, <1>27, <1>28, <1>29, <1>30, <1>31, <1>32, <1>33, <1>34, <1>35, <1>36, <1>37, <1>38, <1>39, <1>40, <1>41, <1>42, <1>43
        DEF Next, TurnStep, TurnMay, HandlerStep, ClientStep

(* The only writers of a resolution. *)
LEMMA ResolutionWriters ==
    ASSUME [Next]_vars
    PROVE  \/ UNCHANGED resolution
           \/ \E h \in Handlers : AnswerAccepted(h)
           \/ \E r \in Requests : RejectCallback(r)
  <1> USE DEF vars, controller, slots, turnTask, requests, records, table, entries
  <1>1. CASE \E h \in Handlers, t \in Turns : TurnStart(h, t) \/ Steer(h, t)
    BY <1>1 DEF TurnStart, Begin, Steer
  <1>2. CASE \E t \in Turns : FireLoop(t) \/ Interrupt(t)
    BY <1>2 DEF FireLoop, Begin, Interrupt
  <1>3. CASE \E t \in Turns : TurnStep(t)
    BY <1>3 DEF TurnStep, RunTurn, AnnounceTurn, EnterAct, DieBeforeTry, OpenCallback, ToolResult,
           MarkBlocked, DeliverCallback, AwaitAnswer, ReceiveAnswer, SaveApproval,
           ApprovalSaved, ResolveCore, ReceiveRejection, ActCancelled, Unwind,
           ActCompletes, ActUnwound, FinalizeTurn, SettleTurn, GoIdle, CompleteTurn,
           EndTurn
  <1>4. CASE \E t \in Turns : TurnMay(t)
    BY <1>4 DEF TurnMay, AskCore, RefuseRequest, RequestFails, ActFails, Unwind
  <1>5. CASE \E h \in Handlers : HandlerStep(h) /\ ~AnswerAccepted(h)
    BY <1>5 DEF HandlerStep, AfterResponse, ProjectSteer, AnswerEffect, AnswerStatus, CloseTurns,
           ResetTurns
  <1>6. CASE \E h \in Handlers, r \in Requests, a \in Answers : AnswerCallback(h, r, a)
    BY <1>6 DEF AnswerCallback
  <1>7. CASE \E h \in Handlers : BeginLifecycle(h) \/ LifecycleFails(h)
    BY <1>7 DEF BeginLifecycle, LifecycleFails
  <1>8. CASE Disconnect \/ Shutdown \/ FinishShutdown
    BY <1>8 DEF Disconnect, Shutdown, FinishShutdown
  <1>9. CASE UNCHANGED vars
    BY <1>9
  <1> QED BY <1>1, <1>2, <1>3, <1>4, <1>5, <1>6, <1>7, <1>8, <1>9
        DEF Next, HandlerStep, ClientStep

-----------------------------------------------------------------------------
(* Theorems *)

(* The inductive invariant holds of every behaviour. *)
LEMMA Invariance == Spec => []IInv
  <1>1. Init => IInv
    BY TypeInit, SchedulingInit, HoldingInit, AnsweringInit DEF IInv
  <1>2. IInv /\ [Next]_vars => IInv'
    BY TypeStep, SchedulingStep, HoldingStep, AnsweringStep DEF IInv
  <1> QED BY <1>1, <1>2, PTL DEF Spec

(* Every variable keeps its type. *)
THEOREM TypeCorrect == Spec => []TypeOK
  BY Invariance, PTL DEF IInv

(* However many turns, request tasks and callbacks there are, two turns never run
   at once and no lifecycle operation changes the core under a turn: a start is
   let in only with the execution free and the previous task over, and shutdown
   is the only one to give somebody else's reservation back.                   *)
THEOREM OneTurnAtATime == Spec => []OneActiveTurn
  <1>1. IInv => OneActiveTurn
    <2> SUFFICES ASSUME IInv, NEW t \in Turns, pc[t] \in Live
                 PROVE  /\ \A u \in Turns : pc[u] \in Live => u = t
                        /\ \A h \in Handlers : task[h].op \notin {"lifecycle", "closing"}
      BY DEF OneActiveTurn
    <2>1. \A u \in Turns : pc[u] \in Live => u = t BY DEF IInv, Scheduling
    <2>2. ASSUME NEW h \in Handlers, task[h].op \in {"lifecycle", "closing"} PROVE FALSE
      <3>1. closed = "open" BY <2>2 DEF IInv, Scheduling, IdleTask
      <3>2. execution = t /\ execution = h BY <2>2, <3>1 DEF IInv, Scheduling
      <3> QED BY <3>2, TokenAssumption
    <2> QED BY <2>1, <2>2
  <1> QED BY <1>1, Invariance, PTL

(* The core is only ever given the answer that was recorded as accepted. *)
THEOREM AnswersAreTrue == Spec => []CoreGetsAcceptedAnswer
  <1>1. IInv => CoreGetsAcceptedAnswer BY DEF IInv, Answering
  <1> QED BY <1>1, Invariance, PTL

(* No step replaces the resolution of a callback, for any number of clients'
   request tasks racing over it.                                            *)
THEOREM ResolutionsAreFinal == Spec => ResolutionIsFinal
  <1> DEFINE Kept == \A r \in Requests : resolution[r] # None => resolution'[r] = resolution[r]
  <1>1. IInv /\ [Next]_vars => [Kept]_vars
    <2> SUFFICES ASSUME IInv, [Next]_vars PROVE Kept OBVIOUS
    <2> USE DEF vars, controller, slots, turnTask, requests, records, table, entries
    <2>1. CASE \E h \in Handlers : AnswerAccepted(h) BY <2>1, AcceptedOnce
    <2>2. CASE \E r \in Requests : RejectCallback(r) BY <2>2, RejectedOnce DEF IInv
    <2>3. CASE UNCHANGED resolution BY <2>3
    <2> QED BY <2>1, <2>2, <2>3, ResolutionWriters
  <1> QED BY <1>1, Invariance, PTL DEF Spec, ResolutionIsFinal

-----------------------------------------------------------------------------
(* Proof that TurnController implements TurnLifecycle. *)

(* A request stays pending only while its turn is in the agent loop, and of
   those with a callback only the one the turn is working on is pending: so
   whoever closes all callbacks at once settles one request at most.         *)
Pending ==
    /\ \A r \in Requests : core[r] = "pending" =>
            asked[r] \in Turns /\ pc[asked[r]] \in InAct
    /\ \A r \in callbacks : core[r] = "pending" =>
            pc[asked[r]] # "acting" /\ current[asked[r]] = r
    /\ \A r \in callbacks : core[r] # "none"

(* At most one turn is in the agent loop. *)
LEMMA AloneInAct ==
    ASSUME IInv, NEW t \in Turns, pc[t] \in InAct
    PROVE  \A u \in Turns : pc[u] \in InAct => u = t
  BY DEF IInv, Scheduling, Live

(* Without a turn in the loop, no request is pending. *)
LEMMA NothingPending ==
    ASSUME TypeOK, Pending, \A t \in Turns : pc[t] \notin InAct, NEW S
    PROVE  RejectedCore(S) = core
  <1>1. \A r \in Requests : core[r] # "pending" BY DEF Pending
  <1> QED BY <1>1 DEF RejectedCore, TypeOK

(* Nothing is pending at the start. *)
LEMMA PendingInit == Init => Pending
  BY DEF Init, Pending

(* Steps that ask nothing and leave the loop only without pending requests. *)
LEMMA StillPending ==
    ASSUME TypeOK, Pending, UNCHANGED <<asked, current>>, callbacks' \subseteq callbacks,
           \A r \in Requests : core'[r] = "pending" => core[r] = "pending",
           \A r \in Requests : core'[r] = "none" => core[r] = "none",
           \A t \in Turns : pc[t] \in InAct => pc'[t] \in InAct,
           \A t \in Turns : pc[t] \in InAct \ {"acting"} => pc'[t] # "acting"
    PROVE  Pending'
  <1>1. callbacks \subseteq Requests BY DEF TypeOK
  <1>2. \A r \in Requests : core'[r] = "pending" =>
            asked'[r] \in Turns /\ pc'[asked'[r]] \in InAct
    BY DEF Pending
  <1>3. \A r \in callbacks' : core'[r] = "pending" =>
            pc'[asked'[r]] # "acting" /\ current'[asked'[r]] = r
    BY <1>1 DEF Pending
  <1>4. \A r \in callbacks' : core'[r] # "none"
    BY <1>1 DEF Pending
  <1> QED BY <1>2, <1>3, <1>4 DEF Pending

(* The turn leaves the loop: whatever it asked is settled. *)
LEMMA UnwoundSettles ==
    ASSUME IInv, Pending, NEW t \in Turns, pc[t] \in InAct, NEW s,
           NEW c \in [Requests -> Answers \cup {"none", "pending", "rejected", "gone"}],
           \A r \in Requests : core[r] = "pending" => c[r] \in {"pending", "rejected"},
           \A r \in Requests : core[r] # "pending" => c[r] = core[r],
           Unwind(t, s, c)
    PROVE  /\ \A r \in Requests : IF core[r] = "pending" THEN core'[r] \in {"rejected", "gone"}
                                  ELSE core'[r] = core[r]
           /\ Pending'
  <1>1. \A r \in Requests : core[r] = "pending" => asked[r] = t
    BY AloneInAct DEF Pending
  <1>2. \A r \in Requests : core'[r] = IF asked[r] = t /\ c[r] = "pending" THEN "gone" ELSE c[r]
    BY DEF Unwind, Abandoned
  <1>3. \A r \in Requests : IF core[r] = "pending" THEN core'[r] \in {"rejected", "gone"}
                            ELSE core'[r] = core[r]
    BY <1>1, <1>2
  <1>4. \A r \in Requests : core'[r] # "pending" BY <1>3
  <1>5. callbacks' = callbacks /\ callbacks \subseteq Requests
    BY DEF Unwind, table, IInv, TypeOK
  <1>6. \A r \in callbacks' : core'[r] # "none" BY <1>3, <1>5 DEF Pending
  <1> QED BY <1>3, <1>4, <1>5, <1>6 DEF Pending

(* A turn whose request is resolved. *)
LEMMA ResolvedNotPending ==
    ASSUME IInv, Pending, NEW t \in Turns, NEW a \in Answers,
           pc[t] \in InAct \ {"acting"}, ResolveCore(t, a)
    PROVE  Pending'
  <1> DEFINE r == current[t]
  <1>1. r \in Requests BY DEF IInv, Holding
  <1>2. /\ core' = [core EXCEPT ![r] = IF core[r] = "pending" THEN a ELSE core[r]]
        /\ current' = [current EXCEPT ![t] = None] /\ pc' = [pc EXCEPT ![t] = "acting"]
        /\ UNCHANGED <<asked, callbacks>>
    BY DEF ResolveCore, Goto
  <1>3. /\ pc'[t] = "acting"
        /\ \A u \in Turns : u # t => pc'[u] = pc[u] /\ current'[u] = current[u]
    BY <1>2 DEF IInv, TypeOK
  <1>4. /\ core'[r] # "pending" /\ (core'[r] = "none" => core[r] = "none")
        /\ \A q \in Requests : q # r => core'[q] = core[q]
    BY <1>1, <1>2, TokenAssumption DEF IInv, TypeOK
  <1>5. \A q \in callbacks : core'[q] = "pending" => asked[q] # t
    BY <1>4 DEF Pending, IInv, TypeOK
  <1>6. callbacks \subseteq Requests BY DEF IInv, TypeOK
  <1>7. \A q \in callbacks : core'[q] # "none" BY <1>4, <1>6 DEF Pending
  <1> QED BY <1>2, <1>3, <1>4, <1>5, <1>6, <1>7 DEF Pending, InAct

(* Every step keeps what is pending with its turn. *)
LEMMA PendingStep == IInv /\ Pending /\ [Next]_vars => Pending'
  <1> SUFFICES ASSUME IInv, Pending, [Next]_vars PROVE Pending' OBVIOUS
  <1> USE DEF vars, controller, slots, turnTask, requests, records, table, entries
  <1>0. IInv /\ TypeOK /\ Pending BY DEF IInv
  <1>1. ASSUME NEW h \in Handlers, NEW t \in Turns, TurnStart(h, t) PROVE Pending'
    <2>1. pc \in [Turns -> Points] BY <1>0 DEF TypeOK
    <2> QED BY <1>0, <1>1, <2>1, StillPending
          DEF TurnStart, Begin, Goto, InAct
  <1>2. ASSUME NEW h \in Handlers, AfterResponse(h) PROVE Pending'
    <2>1. pc \in [Turns -> Points] BY <1>0 DEF TypeOK
    <2> QED BY <1>0, <1>2, <2>1, StillPending
          DEF AfterResponse, Goto, InAct, IInv, Scheduling
  <1>3. ASSUME NEW t \in Turns, FireLoop(t) PROVE Pending'
    <2>1. pc \in [Turns -> Points] BY <1>0 DEF TypeOK
    <2> QED BY <1>0, <1>3, <2>1, StillPending
          DEF FireLoop, Begin, Goto, InAct
  <1>4. ASSUME NEW t \in Turns, RunTurn(t) PROVE Pending'
    <2>1. pc \in [Turns -> Points] BY <1>0 DEF TypeOK
    <2> QED BY <1>0, <1>4, <2>1, StillPending
          DEF RunTurn, Runs, Goto, InAct
  <1>5. ASSUME NEW t \in Turns, AnnounceTurn(t) PROVE Pending'
    <2>1. pc \in [Turns -> Points] BY <1>0 DEF TypeOK
    <2> QED BY <1>0, <1>5, <2>1, StillPending
          DEF AnnounceTurn, Runs, Goto, InAct
  <1>6. ASSUME NEW t \in Turns, EnterAct(t) PROVE Pending'
    <2>1. pc \in [Turns -> Points] BY <1>0 DEF TypeOK
    <2> QED BY <1>0, <1>6, <2>1, StillPending
          DEF EnterAct, Runs, Goto, InAct
  <1>7. ASSUME NEW t \in Turns, DieBeforeTry(t) PROVE Pending'
    <2>1. pc \in [Turns -> Points] BY <1>0 DEF TypeOK
    <2> QED BY <1>0, <1>7, <2>1, StillPending
          DEF DieBeforeTry, Goto, InAct, Starting
  <1>8. ASSUME NEW t \in Turns, NEW r \in Requests, AskCore(t, r) PROVE Pending'
    <2>1. /\ core' = [core EXCEPT ![r] = "pending"] /\ asked' = [asked EXCEPT ![r] = t]
          /\ pc[t] \in InAct /\ core[r] = "none"
          /\ UNCHANGED <<pc, current, callbacks>>
      BY <1>8 DEF AskCore
    <2>2. /\ core'[r] = "pending" /\ asked'[r] = t
          /\ \A q \in Requests : q # r => core'[q] = core[q] /\ asked'[q] = asked[q]
      BY <1>0, <2>1 DEF TypeOK
    <2>3. r \notin callbacks BY <1>0, <2>1 DEF Pending
    <2> QED BY <1>0, <2>1, <2>2, <2>3 DEF Pending, TypeOK
  <1>9. ASSUME NEW t \in Turns, NEW r \in Requests, OpenCallback(t, r) PROVE Pending'
    <2>1. /\ callbacks' = callbacks \cup {r} /\ current' = [current EXCEPT ![t] = r]
          /\ pc' = [pc EXCEPT ![t] = "opening"] /\ pc[t] = "acting"
          /\ asked[r] = t /\ core[r] = "pending" /\ UNCHANGED <<core, asked>>
      BY <1>9 DEF OpenCallback, Runs, Goto
    <2>2. /\ pc'[t] = "opening" /\ current'[t] = r
          /\ \A u \in Turns : u # t => pc'[u] = pc[u] /\ current'[u] = current[u]
      BY <1>0, <2>1 DEF TypeOK
    <2>3. \A q \in callbacks : core[q] = "pending" => asked[q] # t
      BY <1>0, <2>1 DEF Pending
    <2>4. callbacks \subseteq Requests BY <1>0 DEF TypeOK
    <2> QED BY <1>0, <2>1, <2>2, <2>3, <2>4 DEF Pending, InAct
  <1>10. ASSUME NEW t \in Turns, MarkBlocked(t) PROVE Pending'
    <2>1. pc \in [Turns -> Points] BY <1>0 DEF TypeOK
    <2> QED BY <1>0, <1>10, <2>1, StillPending
          DEF MarkBlocked, Runs, Goto, InAct
  <1>11. ASSUME NEW t \in Turns, DeliverCallback(t) PROVE Pending'
    <2>1. pc \in [Turns -> Points] BY <1>0 DEF TypeOK
    <2> QED BY <1>0, <1>11, <2>1, StillPending
          DEF DeliverCallback, Runs, Goto, InAct
  <1>12. ASSUME NEW t \in Turns, AwaitAnswer(t) PROVE Pending'
    <2>1. pc \in [Turns -> Points] BY <1>0 DEF TypeOK
    <2> QED BY <1>0, <1>12, <2>1, StillPending
          DEF AwaitAnswer, Runs, Goto, InAct
  <1>13. ASSUME NEW t \in Turns, ReceiveAnswer(t) PROVE Pending'
    <2>1. /\ pc[t] \in InAct \ {"acting"} /\ future[current[t]] \in Answers
      BY <1>13 DEF ReceiveAnswer, Runs, InAct
    <2> QED BY <1>0, <1>13, <2>1, ResolvedNotPending DEF ReceiveAnswer
  <1>14. ASSUME NEW t \in Turns, SaveApproval(t) PROVE Pending'
    <2>1. pc \in [Turns -> Points] BY <1>0 DEF TypeOK
    <2> QED BY <1>0, <1>14, <2>1, StillPending
          DEF SaveApproval, Runs, Goto, InAct
  <1>15. ASSUME NEW t \in Turns, ApprovalSaved(t) PROVE Pending'
    <2>1. /\ pc[t] \in InAct \ {"acting"} /\ future[current[t]] \in Answers
      BY <1>15, TokenAssumption DEF ApprovalSaved, Runs, InAct, IInv, Holding
    <2> QED BY <1>0, <1>15, <2>1, ResolvedNotPending DEF ApprovalSaved
  <1>16. ASSUME NEW t \in Turns, RequestFails(t) PROVE Pending'
    <2> DEFINE c == RejectedCore({current[t]})
    <2>1. pc[t] \in InAct BY <1>16 DEF RequestFails, Runs, InAct
    <2>2. c \in [Requests -> Answers \cup {"none", "pending", "rejected", "gone"}]
      BY <1>0 DEF TypeOK, RejectedCore
    <2>3. /\ \A q \in Requests : core[q] = "pending" => c[q] \in {"pending", "rejected"}
          /\ \A q \in Requests : core[q] # "pending" => c[q] = core[q]
      BY <1>0, <1>16 DEF RequestFails, RejectedCore, TypeOK
    <2>4. PICK s : Unwind(t, s, c) BY <1>16 DEF RequestFails
    <2> QED BY <1>0, <2>1, <2>2, <2>3, <2>4, UnwoundSettles
  <1>17. ASSUME NEW t \in Turns, ReceiveRejection(t) PROVE Pending'
    <2> DEFINE c == core
    <2>1. pc[t] \in InAct BY <1>17 DEF ReceiveRejection, Runs, InAct
    <2>2. c \in [Requests -> Answers \cup {"none", "pending", "rejected", "gone"}]
      BY <1>0 DEF TypeOK
    <2>3. /\ \A q \in Requests : core[q] = "pending" => c[q] \in {"pending", "rejected"}
          /\ \A q \in Requests : core[q] # "pending" => c[q] = core[q]
      BY <1>0, <1>17 DEF ReceiveRejection, TypeOK
    <2>4. PICK s : Unwind(t, s, c) BY <1>17 DEF ReceiveRejection
    <2> QED BY <1>0, <2>1, <2>2, <2>3, <2>4, UnwoundSettles
  <1>18. ASSUME NEW t \in Turns, NEW r \in Requests, RefuseRequest(t, r) PROVE Pending'
    <2> DEFINE c == [core EXCEPT ![r] = "rejected"]
    <2>1. pc[t] \in InAct BY <1>18 DEF RefuseRequest, Runs, InAct
    <2>2. c \in [Requests -> Answers \cup {"none", "pending", "rejected", "gone"}]
      BY <1>0 DEF TypeOK
    <2>3. /\ \A q \in Requests : core[q] = "pending" => c[q] \in {"pending", "rejected"}
          /\ \A q \in Requests : core[q] # "pending" => c[q] = core[q]
      BY <1>0, <1>18 DEF RefuseRequest, TypeOK
    <2>4. PICK s : Unwind(t, s, c) BY <1>18 DEF RefuseRequest
    <2> QED BY <1>0, <2>1, <2>2, <2>3, <2>4, UnwoundSettles
  <1>19. ASSUME NEW t \in Turns, NEW r \in Requests, ToolResult(t, r) PROVE Pending'
    BY <1>0, <1>19 DEF ToolResult, Pending
  <1>20. ASSUME NEW t \in Turns, ActFails(t) PROVE Pending'
    <2> DEFINE c == core
    <2>1. pc[t] \in InAct BY <1>20 DEF ActFails, Runs, InAct
    <2>2. c \in [Requests -> Answers \cup {"none", "pending", "rejected", "gone"}]
      BY <1>0 DEF TypeOK
    <2>3. /\ \A q \in Requests : core[q] = "pending" => c[q] \in {"pending", "rejected"}
          /\ \A q \in Requests : core[q] # "pending" => c[q] = core[q]
      BY <1>0, <1>20 DEF ActFails, TypeOK
    <2>4. PICK s : Unwind(t, s, c) BY <1>20 DEF ActFails
    <2> QED BY <1>0, <2>1, <2>2, <2>3, <2>4, UnwoundSettles
  <1>21. ASSUME NEW t \in Turns, ActCancelled(t) PROVE Pending'
    <2> DEFINE c == core
    <2>1. pc[t] \in InAct BY <1>21 DEF ActCancelled, Runs, InAct
    <2>2. c \in [Requests -> Answers \cup {"none", "pending", "rejected", "gone"}]
      BY <1>0 DEF TypeOK
    <2>3. /\ \A q \in Requests : core[q] = "pending" => c[q] \in {"pending", "rejected"}
          /\ \A q \in Requests : core[q] # "pending" => c[q] = core[q]
      BY <1>0, <1>21 DEF ActCancelled, TypeOK
    <2>4. PICK s : Unwind(t, s, c) BY <1>21 DEF ActCancelled
    <2> QED BY <1>0, <2>1, <2>2, <2>3, <2>4, UnwoundSettles
  <1>22. ASSUME NEW t \in Turns, ActCompletes(t) PROVE Pending'
    <2>1. pc \in [Turns -> Points] BY <1>0 DEF TypeOK
    <2>2. \A u \in Turns : pc'[u] # pc[u] => u = t
      BY <1>22, <2>1 DEF ActCompletes, FinalizeTurn, Goto
    <2>3. \A q \in Requests : core[q] # "pending"
      BY <1>0, <1>22, AloneInAct, TokenAssumption DEF ActCompletes, Pending, InAct
    <2>4. callbacks \subseteq Requests BY <1>0 DEF TypeOK
    <2> QED BY <1>22, <2>3, <2>4 DEF ActCompletes, FinalizeTurn, Pending
  <1>23. ASSUME NEW t \in Turns, ActUnwound(t) PROVE Pending'
    <2>1. pc \in [Turns -> Points] BY <1>0 DEF TypeOK
    <2>2. \A u \in Turns : pc'[u] # pc[u] => u = t
      BY <1>23, <2>1 DEF ActUnwound, FinalizeTurn, Goto
    <2> QED BY <1>0, <1>23, <2>1, <2>2, StillPending DEF ActUnwound, FinalizeTurn, InAct
  <1>24. ASSUME NEW t \in Turns, SettleTurn(t) PROVE Pending'
    <2>1. \A q \in Requests :
              /\ core'[q] = "pending" => core[q] = "pending"
              /\ core'[q] = "none" => core[q] = "none"
      BY <1>0, <1>24 DEF SettleTurn, RejectedCore
    <2>2. pc \in [Turns -> Points] BY <1>0 DEF TypeOK
    <2> QED BY <1>0, <1>24, <2>1, <2>2, StillPending DEF SettleTurn, Goto, Runs, InAct
  <1>25. ASSUME NEW t \in Turns, GoIdle(t) PROVE Pending'
    <2>1. pc \in [Turns -> Points] BY <1>0 DEF TypeOK
    <2> QED BY <1>0, <1>25, <2>1, StillPending
          DEF GoIdle, Runs, Goto, InAct
  <1>26. ASSUME NEW t \in Turns, CompleteTurn(t) PROVE Pending'
    <2>1. pc \in [Turns -> Points] BY <1>0 DEF TypeOK
    <2> QED BY <1>0, <1>26, <2>1, StillPending
          DEF CompleteTurn, Runs, Goto, InAct
  <1>27. ASSUME NEW t \in Turns, EndTurn(t) PROVE Pending'
    <2>1. pc \in [Turns -> Points] BY <1>0 DEF TypeOK
    <2> QED BY <1>0, <1>27, <2>1, StillPending
          DEF EndTurn, Goto, InAct, Finishing, Runs
  <1>28. ASSUME NEW t \in Turns, Interrupt(t) PROVE Pending'
    BY <1>0, <1>28 DEF Interrupt, Pending
  <1>29. ASSUME NEW h \in Handlers, NEW t \in Turns, Steer(h, t) PROVE Pending'
    BY <1>0, <1>29 DEF Steer, Pending
  <1>30. ASSUME NEW h \in Handlers, ProjectSteer(h) PROVE Pending'
    BY <1>0, <1>30 DEF ProjectSteer, Pending
  <1>31. ASSUME NEW h \in Handlers, NEW r \in Requests, NEW a \in Answers, AnswerCallback(h, r, a) PROVE Pending'
    BY <1>0, <1>31 DEF AnswerCallback, Pending
  <1>32. ASSUME NEW h \in Handlers, AnswerEffect(h) PROVE Pending'
    BY <1>0, <1>32 DEF AnswerEffect, Pending
  <1>33. ASSUME NEW h \in Handlers, AnswerStatus(h) PROVE Pending'
    BY <1>0, <1>33 DEF AnswerStatus, Pending
  <1>34. ASSUME NEW h \in Handlers, AnswerAccepted(h) PROVE Pending'
    BY <1>0, <1>34 DEF AnswerAccepted, Pending
  <1>35. ASSUME NEW r \in Requests, RejectCallback(r) PROVE Pending'
    <2>1. \A q \in Requests :
              /\ core'[q] = "pending" => core[q] = "pending"
              /\ core'[q] = "none" => core[q] = "none"
      BY <1>0, <1>35 DEF RejectCallback, RejectedCore
    <2> QED BY <1>0, <1>35, <2>1, StillPending DEF RejectCallback
  <1>36. ASSUME NEW h \in Handlers, BeginLifecycle(h) PROVE Pending'
    BY <1>0, <1>36 DEF BeginLifecycle, Pending
  <1>37. ASSUME NEW h \in Handlers, CloseTurns(h) PROVE Pending'
    BY <1>0, <1>37 DEF CloseTurns, Pending
  <1>38. ASSUME NEW h \in Handlers, ResetTurns(h) PROVE Pending'
    <2>1. \A q \in Requests :
              /\ core'[q] = "pending" => core[q] = "pending"
              /\ core'[q] = "none" => core[q] = "none"
      BY <1>0, <1>38 DEF ResetTurns, RejectedCore
    <2>2. callbacks' = {} /\ UNCHANGED <<pc, current, asked>> BY <1>38 DEF ResetTurns
    <2> QED BY <1>0, <2>1, <2>2, StillPending
  <1>39. ASSUME NEW h \in Handlers, LifecycleFails(h) PROVE Pending'
    BY <1>0, <1>39 DEF LifecycleFails, Pending
  <1>40. ASSUME Disconnect PROVE Pending'
    BY <1>0, <1>40 DEF Disconnect, Pending
  <1>41. ASSUME Shutdown PROVE Pending'
    BY <1>0, <1>41 DEF Shutdown, Pending
  <1>42. ASSUME FinishShutdown PROVE Pending'
    <2>1. \A q \in Requests :
              /\ core'[q] = "pending" => core[q] = "pending"
              /\ core'[q] = "none" => core[q] = "none"
      BY <1>0, <1>42 DEF FinishShutdown, RejectedCore
    <2> QED BY <1>0, <1>42, <2>1, StillPending DEF FinishShutdown
  <1>43. CASE UNCHANGED vars BY <1>0, <1>43 DEF Pending
  <1> QED BY <1>1, <1>2, <1>3, <1>4, <1>5, <1>6, <1>7, <1>8, <1>9, <1>10, <1>11, <1>12, <1>13, <1>14, <1>15, <1>16, <1>17, <1>18, <1>19, <1>20, <1>21, <1>22, <1>23, <1>24, <1>25, <1>26, <1>27, <1>28, <1>29, <1>30, <1>31, <1>32, <1>33, <1>34, <1>35, <1>36, <1>37, <1>38, <1>39, <1>40, <1>41, <1>42, <1>43
        DEF Next, TurnStep, TurnMay, HandlerStep, ClientStep

-----------------------------------------------------------------------------
(* The refinement mapping *)

OverTurns == {t \in Turns : pc[t] \in Left}

(* The turn in the agent loop is the abstract running turn. *)
LEMMA TheRunningTurn ==
    ASSUME IInv, NEW t \in Turns, pc[t] \in InAct
    PROVE  RunningTurn = t
  <1>1. \A u \in Turns : pc[u] \in InAct => u = t BY AloneInAct
  <1> QED BY <1>1 DEF RunningTurn

(* Without a turn in the agent loop the abstract system is idle. *)
LEMMA NoRunningTurn ==
    ASSUME \A t \in Turns : pc[t] \notin InAct
    PROVE  RunningTurn = None
  BY DEF RunningTurn

(* The same facts of the state after a step. *)
LEMMA RunningTurnNext ==
    ASSUME IInv'
    PROVE  /\ \A t \in Turns : pc'[t] \in InAct => RunningTurn' = t
           /\ (\A t \in Turns : pc'[t] \notin InAct) => RunningTurn' = None
  <1>1. \A t, u \in Turns : pc'[t] \in InAct /\ pc'[u] \in InAct => u = t
    BY DEF IInv, Scheduling, Live
  <1> QED BY <1>1 DEF RunningTurn

(* A step that neither takes a turn in or out of the loop nor touches the core's
   requests is invisible to TurnLifecycle.                                      *)
LEMMA Invisible ==
    ASSUME IInv, IInv', core' = core,
           \A t \in Turns : (pc[t] \in InAct) = (pc'[t] \in InAct),
           \A t \in Turns : (pc[t] \in Left) = (pc'[t] \in Left)
    PROVE  UNCHANGED <<RunningTurn, OverTurns, core>>
  <1>1. RunningTurn' = RunningTurn
    <2>1. CASE \E t \in Turns : pc[t] \in InAct
      BY <2>1, TheRunningTurn, RunningTurnNext
    <2>2. CASE \A t \in Turns : pc[t] \notin InAct
      BY <2>2, NoRunningTurn, RunningTurnNext
    <2> QED BY <2>1, <2>2
  <1> QED BY <1>1 DEF OverTurns

(* A turn leaves the loop. *)
LEMMA Stops ==
    ASSUME IInv, IInv', NEW t \in Turns, pc[t] \in InAct, NEW p \in {"unwinding", "finalizing"},
           Goto(t, p),
           \A r \in Requests : IF core[r] = "pending" THEN core'[r] \in {"rejected", "gone"}
                               ELSE core'[r] = core[r]
    PROVE  Lifecycle!StopTurn
  <1>1. pc' = [pc EXCEPT ![t] = p] /\ pc \in [Turns -> Points]
    BY DEF Goto, IInv, TypeOK
  <1>2. pc'[t] = p /\ \A u \in Turns : u # t => pc'[u] = pc[u] BY <1>1
  <1>3. \A u \in Turns : pc[u] \in InAct => u = t BY AloneInAct
  <1>4. RunningTurn = t BY TheRunningTurn
  <1>5. RunningTurn' = None
    <2>1. \A u \in Turns : pc'[u] \notin InAct BY <1>2, <1>3 DEF InAct
    <2> QED BY <2>1, RunningTurnNext
  <1>6. OverTurns' = OverTurns \cup {t}
    BY <1>2 DEF OverTurns, Left, Finishing
  <1>7. core' \in [Requests -> Lifecycle!Outcomes \cup {"none"}]
    <2>1. core' \in [Requests -> Answers \cup {"none", "pending", "rejected", "gone"}]
      BY DEF IInv, TypeOK
    <2>2. \A r \in Requests : core'[r] # "pending" OBVIOUS
    <2> QED BY <2>1, <2>2 DEF Lifecycle!Outcomes
  <1>8. t # None BY TokenAssumption
  <1> QED BY <1>4, <1>5, <1>6, <1>7, <1>8 DEF Lifecycle!StopTurn, OverTurns

(* At most one pending request is given an answer or rejected. *)
LEMMA Settles ==
    ASSUME IInv, IInv', Pending, NEW r \in Requests,
           \/ core' = core
           \/ \E o \in Answers \cup {"rejected"} :
                  core[r] = "pending" /\ core' = [core EXCEPT ![r] = o],
           \A t \in Turns : (pc[t] \in InAct) = (pc'[t] \in InAct),
           \A t \in Turns : (pc[t] \in Left) = (pc'[t] \in Left)
    PROVE  [Lifecycle!LifecycleNext]_<<RunningTurn, OverTurns, core>>
  <1>1. CASE core' = core BY <1>1, Invisible
  <1>2. CASE core' # core
    <2>1. asked[r] \in Turns /\ pc[asked[r]] \in InAct BY <1>2 DEF Pending
    <2>2. RunningTurn = asked[r] BY <2>1, TheRunningTurn
    <2>3. RunningTurn' = RunningTurn BY <2>1, <2>2, RunningTurnNext
    <2>4. OverTurns' = OverTurns BY DEF OverTurns
    <2>5. RunningTurn # None BY <2>1, <2>2, TokenAssumption
    <2>6. Lifecycle!Settle(r) BY <1>2, <2>3, <2>4, <2>5 DEF Lifecycle!Settle, OverTurns
    <2> QED BY <2>6 DEF Lifecycle!LifecycleNext
  <1> QED BY <1>1, <1>2

(* Closing a set of callbacks settles at most the one its turn works on. *)
LEMMA RejectsOne ==
    ASSUME IInv, Pending, NEW S \in SUBSET callbacks
    PROVE  \/ RejectedCore(S) = core
           \/ \E r \in Requests : core[r] = "pending"
                  /\ RejectedCore(S) = [core EXCEPT ![r] = "rejected"]
  <1>1. core \in [Requests -> Answers \cup {"none", "pending", "rejected", "gone"}]
        /\ callbacks \subseteq Requests
    BY DEF IInv, TypeOK
  <1>2. CASE \A r \in S \ coreResolved : core[r] # "pending"
    BY <1>1, <1>2 DEF RejectedCore
  <1>3. ASSUME NEW r \in S \ coreResolved, core[r] = "pending"
        PROVE  RejectedCore(S) = [core EXCEPT ![r] = "rejected"]
    <2>1. \A q \in S : core[q] = "pending" => q = r
      <3> SUFFICES ASSUME NEW q \in S, core[q] = "pending" PROVE q = r OBVIOUS
      <3>1. asked[q] = asked[r] BY <1>1, <1>3, AloneInAct DEF Pending
      <3> QED BY <1>3, <3>1 DEF Pending
    <2> QED BY <1>1, <1>3, <2>1 DEF RejectedCore
  <1> QED BY <1>1, <1>2, <1>3

(* Every step is a step of the lifecycle, or none. *)
LEMMA LifecycleStep ==
    IInv /\ IInv' /\ Pending /\ [Next]_vars =>
        [Lifecycle!LifecycleNext]_<<RunningTurn, OverTurns, core>>
  <1> DEFINE Maps == [Lifecycle!LifecycleNext]_<<RunningTurn, OverTurns, core>>
  <1> SUFFICES ASSUME IInv, IInv', Pending, [Next]_vars PROVE Maps OBVIOUS
  <1> USE DEF vars, controller, slots, turnTask, requests, records, table, entries
  <1>0. IInv /\ IInv' /\ TypeOK /\ Pending BY DEF IInv
  <1>t. pc \in [Turns -> Points] BY <1>0 DEF TypeOK
  <1> HIDE DEF Maps
  <1>1. ASSUME NEW h \in Handlers, NEW t \in Turns, TurnStart(h, t) PROVE Maps
    BY <1>0, <1>t, <1>1, Invisible DEF Maps, TurnStart, Begin, Goto, InAct, Left, Finishing
  <1>2. ASSUME NEW h \in Handlers, AfterResponse(h) PROVE Maps
    BY <1>0, <1>t, <1>2, Invisible DEF Maps, AfterResponse, IInv, Scheduling, Goto, InAct, Left, Finishing
  <1>3. ASSUME NEW t \in Turns, FireLoop(t) PROVE Maps
    BY <1>0, <1>t, <1>3, Invisible DEF Maps, FireLoop, Begin, Goto, InAct, Left, Finishing
  <1>4. ASSUME NEW t \in Turns, RunTurn(t) PROVE Maps
    BY <1>0, <1>t, <1>4, Invisible DEF Maps, RunTurn, Runs, Goto, InAct, Left, Finishing
  <1>5. ASSUME NEW t \in Turns, AnnounceTurn(t) PROVE Maps
    BY <1>0, <1>t, <1>5, Invisible DEF Maps, AnnounceTurn, Runs, Goto, InAct, Left, Finishing
  <1>6. ASSUME NEW t \in Turns, EnterAct(t) PROVE Maps
    <2>1. /\ pc[t] = "announced" /\ pc' = [pc EXCEPT ![t] = "acting"] /\ core' = core
      BY <1>6 DEF EnterAct, Runs, Goto
    <2>2. pc'[t] = "acting" /\ \A u \in Turns : u # t => pc'[u] = pc[u] BY <1>t, <2>1
    <2>3. RunningTurn = None
      <3>1. \A u \in Turns : pc[u] \notin InAct
        BY <1>0, <2>1 DEF IInv, Scheduling, Live, Starting, InAct
      <3> QED BY <3>1, NoRunningTurn
    <2>4. RunningTurn' = t BY <1>0, <2>2, RunningTurnNext DEF InAct
    <2>5. OverTurns' = OverTurns /\ t \notin OverTurns
      BY <2>1, <2>2 DEF OverTurns, Left, Finishing
    <2>6. Lifecycle!StartTurn(t) BY <2>1, <2>3, <2>4, <2>5 DEF Lifecycle!StartTurn, OverTurns
    <2> QED BY <2>6 DEF Maps, Lifecycle!LifecycleNext
  <1>7. ASSUME NEW t \in Turns, DieBeforeTry(t) PROVE Maps
    BY <1>0, <1>t, <1>7, Invisible DEF Maps, DieBeforeTry, Starting, Goto, InAct, Left, Finishing
  <1>8. ASSUME NEW t \in Turns, NEW r \in Requests, AskCore(t, r) PROVE Maps
    <2>1. /\ pc[t] \in InAct /\ core[r] = "none" /\ core' = [core EXCEPT ![r] = "pending"]
          /\ pc' = pc
      BY <1>8 DEF AskCore
    <2>2. RunningTurn = t /\ RunningTurn' = t
      BY <1>0, <2>1, TheRunningTurn, RunningTurnNext
    <2>3. OverTurns' = OverTurns BY <2>1 DEF OverTurns
    <2>4. Lifecycle!Ask(r) BY <2>1, <2>2, <2>3, TokenAssumption DEF Lifecycle!Ask, OverTurns
    <2> QED BY <2>4 DEF Maps, Lifecycle!LifecycleNext
  <1>9. ASSUME NEW t \in Turns, NEW r \in Requests, OpenCallback(t, r) PROVE Maps
    BY <1>0, <1>t, <1>9, Invisible DEF Maps, OpenCallback, Runs, Goto, InAct, Left, Finishing
  <1>10. ASSUME NEW t \in Turns, MarkBlocked(t) PROVE Maps
    BY <1>0, <1>t, <1>10, Invisible DEF Maps, MarkBlocked, Runs, Goto, InAct, Left, Finishing
  <1>11. ASSUME NEW t \in Turns, DeliverCallback(t) PROVE Maps
    BY <1>0, <1>t, <1>11, Invisible DEF Maps, DeliverCallback, Runs, Goto, InAct, Left, Finishing
  <1>12. ASSUME NEW t \in Turns, AwaitAnswer(t) PROVE Maps
    BY <1>0, <1>t, <1>12, Invisible DEF Maps, AwaitAnswer, Runs, Goto, InAct, Left, Finishing
  <1>13. ASSUME NEW t \in Turns, ReceiveAnswer(t) PROVE Maps
    <2>1. /\ pc[t] \in InAct \ {"acting"} /\ future[current[t]] \in Answers
          /\ pc' = [pc EXCEPT ![t] = "acting"]
      BY <1>0, <1>13, TokenAssumption DEF ReceiveAnswer, ResolveCore, Runs, Goto, InAct
    <2>2. current[t] \in Requests BY <1>0, <2>1 DEF IInv, Holding
    <2>3. \/ core' = core
          \/ core[current[t]] = "pending"
             /\ core' = [core EXCEPT ![current[t]] = future[current[t]]]
      <3>1. core' = [core EXCEPT ![current[t]] =
                        IF core[current[t]] = "pending" THEN future[current[t]]
                        ELSE core[current[t]]]
        BY <1>13 DEF ReceiveAnswer, ResolveCore
      <3>2. core \in [Requests -> Answers \cup {"none", "pending", "rejected", "gone"}]
        BY <1>0 DEF TypeOK
      <3> QED BY <2>2, <3>1, <3>2
    <2>4. /\ \A u \in Turns : (pc[u] \in InAct) = (pc'[u] \in InAct)
          /\ \A u \in Turns : (pc[u] \in Left) = (pc'[u] \in Left)
      BY <1>t, <2>1 DEF InAct, Left, Finishing
    <2> QED BY <1>0, <2>1, <2>2, <2>3, <2>4, Settles DEF Maps
  <1>14. ASSUME NEW t \in Turns, SaveApproval(t) PROVE Maps
    BY <1>0, <1>t, <1>14, Invisible DEF Maps, SaveApproval, Runs, Goto, InAct, Left, Finishing
  <1>15. ASSUME NEW t \in Turns, ApprovalSaved(t) PROVE Maps
    <2>1. /\ pc[t] \in InAct \ {"acting"} /\ future[current[t]] \in Answers
          /\ pc' = [pc EXCEPT ![t] = "acting"]
      BY <1>0, <1>15, TokenAssumption DEF ApprovalSaved, ResolveCore, Runs, Goto, InAct, IInv, Holding
    <2>2. current[t] \in Requests BY <1>0, <2>1 DEF IInv, Holding
    <2>3. \/ core' = core
          \/ core[current[t]] = "pending"
             /\ core' = [core EXCEPT ![current[t]] = future[current[t]]]
      <3>1. core' = [core EXCEPT ![current[t]] =
                        IF core[current[t]] = "pending" THEN future[current[t]]
                        ELSE core[current[t]]]
        BY <1>15 DEF ApprovalSaved, ResolveCore
      <3>2. core \in [Requests -> Answers \cup {"none", "pending", "rejected", "gone"}]
        BY <1>0 DEF TypeOK
      <3> QED BY <2>2, <3>1, <3>2
    <2>4. /\ \A u \in Turns : (pc[u] \in InAct) = (pc'[u] \in InAct)
          /\ \A u \in Turns : (pc[u] \in Left) = (pc'[u] \in Left)
      BY <1>t, <2>1 DEF InAct, Left, Finishing
    <2> QED BY <1>0, <2>1, <2>2, <2>3, <2>4, Settles DEF Maps
  <1>16. ASSUME NEW t \in Turns, RequestFails(t) PROVE Maps
    <2> DEFINE c == RejectedCore({current[t]})
    <2>1. pc[t] \in InAct BY <1>16 DEF RequestFails, Runs, InAct
    <2>2. c \in [Requests -> Answers \cup {"none", "pending", "rejected", "gone"}]
      BY <1>0 DEF TypeOK, RejectedCore
    <2>3. /\ \A q \in Requests : core[q] = "pending" => c[q] \in {"pending", "rejected"}
          /\ \A q \in Requests : core[q] # "pending" => c[q] = core[q]
      BY <1>0, <1>16 DEF RequestFails, RejectedCore, TypeOK
    <2>4. PICK s : Unwind(t, s, c) BY <1>16 DEF RequestFails
    <2>5. Goto(t, "unwinding") BY <2>4 DEF Unwind
    <2>6. Lifecycle!StopTurn BY <1>0, <2>1, <2>2, <2>3, <2>4, <2>5, UnwoundSettles, Stops
    <2> QED BY <2>6 DEF Maps, Lifecycle!LifecycleNext
  <1>17. ASSUME NEW t \in Turns, ReceiveRejection(t) PROVE Maps
    <2> DEFINE c == core
    <2>1. pc[t] \in InAct BY <1>17 DEF ReceiveRejection, Runs, InAct
    <2>2. c \in [Requests -> Answers \cup {"none", "pending", "rejected", "gone"}]
      BY <1>0 DEF TypeOK
    <2>3. /\ \A q \in Requests : core[q] = "pending" => c[q] \in {"pending", "rejected"}
          /\ \A q \in Requests : core[q] # "pending" => c[q] = core[q]
      BY <1>0, <1>17 DEF ReceiveRejection, TypeOK
    <2>4. PICK s : Unwind(t, s, c) BY <1>17 DEF ReceiveRejection
    <2>5. Goto(t, "unwinding") BY <2>4 DEF Unwind
    <2>6. Lifecycle!StopTurn BY <1>0, <2>1, <2>2, <2>3, <2>4, <2>5, UnwoundSettles, Stops
    <2> QED BY <2>6 DEF Maps, Lifecycle!LifecycleNext
  <1>18. ASSUME NEW t \in Turns, NEW r \in Requests, RefuseRequest(t, r) PROVE Maps
    <2> DEFINE c == [core EXCEPT ![r] = "rejected"]
    <2>1. pc[t] \in InAct BY <1>18 DEF RefuseRequest, Runs, InAct
    <2>2. c \in [Requests -> Answers \cup {"none", "pending", "rejected", "gone"}]
      BY <1>0 DEF TypeOK
    <2>3. /\ \A q \in Requests : core[q] = "pending" => c[q] \in {"pending", "rejected"}
          /\ \A q \in Requests : core[q] # "pending" => c[q] = core[q]
      BY <1>0, <1>18 DEF RefuseRequest, TypeOK
    <2>4. PICK s : Unwind(t, s, c) BY <1>18 DEF RefuseRequest
    <2>5. Goto(t, "unwinding") BY <2>4 DEF Unwind
    <2>6. Lifecycle!StopTurn BY <1>0, <2>1, <2>2, <2>3, <2>4, <2>5, UnwoundSettles, Stops
    <2> QED BY <2>6 DEF Maps, Lifecycle!LifecycleNext
  <1>19. ASSUME NEW t \in Turns, NEW r \in Requests, ToolResult(t, r) PROVE Maps
    BY <1>0, <1>19, Invisible DEF Maps, ToolResult
  <1>20. ASSUME NEW t \in Turns, ActFails(t) PROVE Maps
    <2> DEFINE c == core
    <2>1. pc[t] \in InAct BY <1>20 DEF ActFails, Runs, InAct
    <2>2. c \in [Requests -> Answers \cup {"none", "pending", "rejected", "gone"}]
      BY <1>0 DEF TypeOK
    <2>3. /\ \A q \in Requests : core[q] = "pending" => c[q] \in {"pending", "rejected"}
          /\ \A q \in Requests : core[q] # "pending" => c[q] = core[q]
      BY <1>0, <1>20 DEF ActFails, TypeOK
    <2>4. PICK s : Unwind(t, s, c) BY <1>20 DEF ActFails
    <2>5. Goto(t, "unwinding") BY <2>4 DEF Unwind
    <2>6. Lifecycle!StopTurn BY <1>0, <2>1, <2>2, <2>3, <2>4, <2>5, UnwoundSettles, Stops
    <2> QED BY <2>6 DEF Maps, Lifecycle!LifecycleNext
  <1>21. ASSUME NEW t \in Turns, ActCancelled(t) PROVE Maps
    <2> DEFINE c == core
    <2>1. pc[t] \in InAct BY <1>21 DEF ActCancelled, Runs, InAct
    <2>2. c \in [Requests -> Answers \cup {"none", "pending", "rejected", "gone"}]
      BY <1>0 DEF TypeOK
    <2>3. /\ \A q \in Requests : core[q] = "pending" => c[q] \in {"pending", "rejected"}
          /\ \A q \in Requests : core[q] # "pending" => c[q] = core[q]
      BY <1>0, <1>21 DEF ActCancelled, TypeOK
    <2>4. PICK s : Unwind(t, s, c) BY <1>21 DEF ActCancelled
    <2>5. Goto(t, "unwinding") BY <2>4 DEF Unwind
    <2>6. Lifecycle!StopTurn BY <1>0, <2>1, <2>2, <2>3, <2>4, <2>5, UnwoundSettles, Stops
    <2> QED BY <2>6 DEF Maps, Lifecycle!LifecycleNext
  <1>22. ASSUME NEW t \in Turns, ActCompletes(t) PROVE Maps
    <2>1. pc[t] \in InAct /\ Goto(t, "finalizing") /\ core' = core
      BY <1>22 DEF ActCompletes, FinalizeTurn, InAct
    <2>2. \A q \in Requests : core[q] # "pending"
      BY <1>0, <1>22, <2>1, AloneInAct, TokenAssumption DEF ActCompletes, Pending
    <2>3. Lifecycle!StopTurn BY <1>0, <2>1, <2>2, Stops
    <2> QED BY <2>3 DEF Maps, Lifecycle!LifecycleNext
  <1>23. ASSUME NEW t \in Turns, ActUnwound(t) PROVE Maps
    BY <1>0, <1>t, <1>23, Invisible DEF Maps, ActUnwound, FinalizeTurn, Goto, InAct, Left, Finishing
  <1>24. ASSUME NEW t \in Turns, SettleTurn(t) PROVE Maps
    <2>1. pc[t] = "finalizing" /\ pc' = [pc EXCEPT ![t] = "settled"]
      BY <1>24 DEF SettleTurn, Runs, Goto
    <2>2. core' = core
      <3>1. \A u \in Turns : pc[u] \notin InAct
        BY <1>0, <2>1 DEF IInv, Scheduling, Live, InAct
      <3> QED BY <1>0, <1>24, <3>1, NothingPending DEF SettleTurn
    <2> QED BY <1>0, <1>t, <2>1, <2>2, Invisible DEF Maps, InAct, Left, Finishing
  <1>25. ASSUME NEW t \in Turns, GoIdle(t) PROVE Maps
    BY <1>0, <1>t, <1>25, Invisible DEF Maps, GoIdle, Runs, Goto, InAct, Left, Finishing
  <1>26. ASSUME NEW t \in Turns, CompleteTurn(t) PROVE Maps
    BY <1>0, <1>t, <1>26, Invisible DEF Maps, CompleteTurn, Runs, Goto, InAct, Left, Finishing
  <1>27. ASSUME NEW t \in Turns, EndTurn(t) PROVE Maps
    BY <1>0, <1>t, <1>27, Invisible DEF Maps, EndTurn, Runs, Goto, InAct, Left, Finishing
  <1>28. ASSUME NEW t \in Turns, Interrupt(t) PROVE Maps
    BY <1>0, <1>28, Invisible DEF Maps, Interrupt
  <1>29. ASSUME NEW h \in Handlers, NEW t \in Turns, Steer(h, t) PROVE Maps
    BY <1>0, <1>29, Invisible DEF Maps, Steer
  <1>30. ASSUME NEW h \in Handlers, ProjectSteer(h) PROVE Maps
    BY <1>0, <1>30, Invisible DEF Maps, ProjectSteer
  <1>31. ASSUME NEW h \in Handlers, NEW r \in Requests, NEW a \in Answers, AnswerCallback(h, r, a) PROVE Maps
    BY <1>0, <1>31, Invisible DEF Maps, AnswerCallback
  <1>32. ASSUME NEW h \in Handlers, AnswerEffect(h) PROVE Maps
    BY <1>0, <1>32, Invisible DEF Maps, AnswerEffect
  <1>33. ASSUME NEW h \in Handlers, AnswerStatus(h) PROVE Maps
    BY <1>0, <1>33, Invisible DEF Maps, AnswerStatus
  <1>34. ASSUME NEW h \in Handlers, AnswerAccepted(h) PROVE Maps
    BY <1>0, <1>34, Invisible DEF Maps, AnswerAccepted
  <1>35. ASSUME NEW r \in Requests, RejectCallback(r) PROVE Maps
    <2>1. core' = RejectedCore({r}) /\ pc' = pc BY <1>35 DEF RejectCallback
    <2>2. \/ core' = core
          \/ \E q \in Requests : core[q] = "pending" /\ core' = [core EXCEPT ![q] = "rejected"]
      BY <1>0, <1>35, <2>1, RejectsOne DEF RejectCallback, Answerable
    <2>3. CASE core' = core BY <1>0, <2>1, <2>3, Invisible DEF Maps
    <2>4. CASE \E q \in Requests : core[q] = "pending" /\ core' = [core EXCEPT ![q] = "rejected"]
      BY <1>0, <2>1, <2>4, Settles DEF Maps
    <2> QED BY <2>2, <2>3, <2>4
  <1>36. ASSUME NEW h \in Handlers, BeginLifecycle(h) PROVE Maps
    BY <1>0, <1>36, Invisible DEF Maps, BeginLifecycle
  <1>37. ASSUME NEW h \in Handlers, CloseTurns(h) PROVE Maps
    BY <1>0, <1>37, Invisible DEF Maps, CloseTurns
  <1>38. ASSUME NEW h \in Handlers, ResetTurns(h) PROVE Maps
    <2>1. TaskDone /\ pc' = pc BY <1>38 DEF ResetTurns
    <2>2. core' = core
      <3>1. \A u \in Turns : pc[u] \notin InAct
        BY <1>0, <2>1, TokenAssumption DEF IInv, Scheduling, Live, InAct, TaskDone, Over
      <3> QED BY <1>0, <1>38, <3>1, NothingPending DEF ResetTurns
    <2> QED BY <1>0, <2>1, <2>2, Invisible DEF Maps
  <1>39. ASSUME NEW h \in Handlers, LifecycleFails(h) PROVE Maps
    BY <1>0, <1>39, Invisible DEF Maps, LifecycleFails
  <1>40. ASSUME Disconnect PROVE Maps
    BY <1>0, <1>40, Invisible DEF Maps, Disconnect
  <1>41. ASSUME Shutdown PROVE Maps
    BY <1>0, <1>41, Invisible DEF Maps, Shutdown
  <1>42. ASSUME FinishShutdown PROVE Maps
    <2>1. core' = RejectedCore(callbacks) /\ pc' = pc BY <1>42 DEF FinishShutdown
    <2>2. \/ core' = core
          \/ \E q \in Requests : core[q] = "pending" /\ core' = [core EXCEPT ![q] = "rejected"]
      BY <1>0, <1>42, <2>1, RejectsOne DEF FinishShutdown, Answerable
    <2>3. CASE core' = core BY <1>0, <2>1, <2>3, Invisible DEF Maps
    <2>4. CASE \E q \in Requests : core[q] = "pending" /\ core' = [core EXCEPT ![q] = "rejected"]
      BY <1>0, <2>1, <2>4, Settles DEF Maps
    <2> QED BY <2>2, <2>3, <2>4
  <1>43. CASE UNCHANGED vars BY <1>0, <1>43, Invisible DEF Maps
  <1> QED BY <1>1, <1>2, <1>3, <1>4, <1>5, <1>6, <1>7, <1>8, <1>9, <1>10, <1>11, <1>12, <1>13, <1>14, <1>15, <1>16, <1>17, <1>18, <1>19, <1>20, <1>21, <1>22, <1>23, <1>24, <1>25, <1>26, <1>27, <1>28, <1>29, <1>30, <1>31, <1>32, <1>33, <1>34, <1>35, <1>36, <1>37, <1>38, <1>39, <1>40, <1>41, <1>42, <1>43
        DEF Next, TurnStep, TurnMay, HandlerStep, ClientStep

-----------------------------------------------------------------------------
(* For every number of turns, requests and request tasks, and whatever they
   interleave with, the controller keeps the promise of TurnLifecycle: one turn
   in the agent loop at a time, none twice, and each request settled at most
   once, only while its turn runs, and by the time its turn has left the loop.  *)
THEOREM TurnsImplementLifecycle == Spec => ImplementsLifecycle
  <1>1. Init => Lifecycle!LifecycleInit
    <2> SUFFICES ASSUME Init PROVE Lifecycle!LifecycleInit OBVIOUS
    <2>1. \A t \in Turns : pc[t] = "unused" BY DEF Init
    <2>2. RunningTurn = None BY <2>1, NoRunningTurn DEF InAct
    <2>3. OverTurns = {} BY <2>1 DEF OverTurns, Left, Finishing
    <2> QED BY <2>2, <2>3 DEF Lifecycle!LifecycleInit, OverTurns, Init
  <1>2. IInv /\ IInv' /\ Pending /\ [Next]_vars =>
            [Lifecycle!LifecycleNext]_(Lifecycle!lifecycleVars)
    BY LifecycleStep DEF Lifecycle!lifecycleVars, OverTurns
  <1>3. Spec => []Pending
    <2>1. IInv /\ Pending /\ [Next]_vars => Pending' BY PendingStep
    <2> QED BY <2>1, PendingInit, Invariance, PTL DEF Spec
  <1> QED BY <1>1, <1>2, <1>3, Invariance, PTL
        DEF Spec, ImplementsLifecycle, Lifecycle!LifecycleSpec
=============================================================================
