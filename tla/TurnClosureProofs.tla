------------------------- MODULE TurnClosureProofs -------------------------
(* Proofs that a turn leaves nothing open behind it: what TurnController has
   sent about a turn when turn/completed goes out is what happened in it.    *)
EXTENDS TurnControllerProofs

(* Before: the loop over act() has not been entered.  Finalized: the turn's entries
   have been finalized.                                                      *)
Before == {"unused", "reserved", "dead"} \cup Starting
Finalized == Finishing \cup {"done", "aborted"}

(* From its reservation until it goes idle, a turn is the one whose entries the
   controller's projector writes: the previous turn is over when it is
   reserved, and nobody else takes the projector away.                       *)
Projecting ==
    \A t \in Turns : pc[t] \in {"reserved"} \cup (Live \ {"idling"}) => projector = t

(* A request belongs to the one turn that raised it inside act(); its tool
   effect has an entry, an open callback blocks that effect, and nobody answers
   what was not asked.                                                       *)
Owning ==
    \A r \in Requests :
        /\ asked[r] = None <=> core[r] = "none"
        /\ asked[r] = None =>
                callbackEntry[r] = "none" /\ resolution[r] = None /\ lock[r] = None
        /\ asked[r] # None => effectEntry[r] # "none" /\ pc[asked[r]] \notin Before
        /\ callbackEntry[r] = "open" => effectEntry[r] = "blocked"

(* Finalization closes the turn's entries, then its records, and both stay
   closed: a late answer finds no open entry of a turn that was left.        *)
Closing ==
    /\ \A t \in Turns, r \in Requests : pc[t] \in Finalized /\ asked[r] = t =>
            callbackEntry[r] # "open" /\ effectEntry[r] = "ended"
    /\ \A t \in Turns, r \in callbacks :
            (pc[t] \in {"settled", "idling"} \/ t \in sent.ended) /\ asked[r] = t =>
                r \in coreResolved
    /\ \A t \in sent.ended : pc[t] \in {"completing", "done", "aborted"}

(* An answer on its way to a turn still in act() has been shown: the request
   task that records it, the record's future that carries it and the core that
   was given it all come after the callback's public entry was answered.      *)
Showing ==
    /\ \A t \in Turns : pc[t] \in InAct \ {"acting"} =>
            asked[current[t]] = t /\ current[t] \in callbacks
    /\ \A h \in Handlers :
            task[h].op \in Recording /\ asked[task[h].req] \in Turns
                /\ pc[asked[task[h].req]] \in InAct =>
            callbackEntry[task[h].req] = "answered" /\ task[h].req \in callbacks
    /\ \A r \in Requests :
            future[r] \in Answers /\ asked[r] \in Turns /\ pc[asked[r]] \in InAct =>
            callbackEntry[r] = "answered" /\ r \in callbacks
    /\ \A r \in Requests : core[r] \in Answers => callbackEntry[r] = "answered"

(* Only a turn all of whose requests were answered is recorded as completed. *)
Recorded ==
    \A t \in Turns : status[t] = "completed" =>
        /\ pc[t] \in Finalized
        /\ \A r \in Requests : asked[r] = t => core[r] \in Answers

Closure == Projecting /\ Owning /\ Closing /\ Showing /\ Recorded

-----------------------------------------------------------------------------
(* The projector *)

(* Only the start of a turn, its end and a reset write the projector. *)
LEMMA ProjectingStep == IInv /\ Projecting /\ [Next]_vars => Projecting'
  <1> SUFFICES ASSUME IInv, Projecting, [Next]_vars PROVE Projecting' OBVIOUS
  <1> USE DEF vars, controller, slots, turnTask, requests, records, table, entries
  <1>0. TypeOK /\ Scheduling /\ Projecting /\ pc \in [Turns -> Points] BY DEF IInv, TypeOK
  <1>1. ASSUME NEW h \in Handlers, NEW t \in Turns, TurnStart(h, t) PROVE Projecting'
    BY <1>0, <1>1, TokenAssumption DEF TurnStart, Begin, Projecting, Scheduling, Goto, Live,
          InAct, Starting, Over, TaskDone
  <1>2. ASSUME NEW h \in Handlers, AfterResponse(h) PROVE Projecting'
    BY <1>0, <1>2 DEF AfterResponse, Projecting, Scheduling, Goto, Live, InAct, Starting
  <1>3. ASSUME NEW t \in Turns, FireLoop(t) PROVE Projecting'
    BY <1>0, <1>3, TokenAssumption DEF FireLoop, Begin, Projecting, Scheduling, Goto, Live,
          InAct, Starting, Over, TaskDone
  <1>4. ASSUME NEW t \in Turns, RunTurn(t) PROVE Projecting'
    BY <1>0, <1>4 DEF RunTurn, Projecting, Goto, Runs, Live, InAct, Starting
  <1>5. ASSUME NEW t \in Turns, AnnounceTurn(t) PROVE Projecting'
    BY <1>0, <1>5 DEF AnnounceTurn, Projecting, Goto, Runs, Live, InAct, Starting
  <1>6. ASSUME NEW t \in Turns, EnterAct(t) PROVE Projecting'
    BY <1>0, <1>6 DEF EnterAct, Projecting, Goto, Runs, Live, InAct, Starting
  <1>7. ASSUME NEW t \in Turns, DieBeforeTry(t) PROVE Projecting'
    BY <1>0, <1>7 DEF DieBeforeTry, Projecting, Goto, Live, InAct, Starting
  <1>8. ASSUME NEW t \in Turns, NEW r \in Requests, AskCore(t, r) PROVE Projecting'
    BY <1>0, <1>8 DEF AskCore, Projecting, Live, InAct, Starting
  <1>9. ASSUME NEW t \in Turns, NEW r \in Requests, OpenCallback(t, r) PROVE Projecting'
    BY <1>0, <1>9 DEF OpenCallback, Projecting, Goto, Runs, Live, InAct, Starting
  <1>10. ASSUME NEW t \in Turns, MarkBlocked(t) PROVE Projecting'
    BY <1>0, <1>10 DEF MarkBlocked, Projecting, Goto, Runs, Live, InAct, Starting
  <1>11. ASSUME NEW t \in Turns, DeliverCallback(t) PROVE Projecting'
    BY <1>0, <1>11 DEF DeliverCallback, Projecting, Goto, Runs, Live, InAct, Starting
  <1>12. ASSUME NEW t \in Turns, AwaitAnswer(t) PROVE Projecting'
    BY <1>0, <1>12 DEF AwaitAnswer, Projecting, Goto, Runs, Live, InAct, Starting
  <1>13. ASSUME NEW t \in Turns, ReceiveAnswer(t) PROVE Projecting'
    BY <1>0, <1>13 DEF ReceiveAnswer, ResolveCore, Projecting, Goto, Runs, Live, InAct,
          Starting
  <1>14. ASSUME NEW t \in Turns, SaveApproval(t) PROVE Projecting'
    BY <1>0, <1>14 DEF SaveApproval, Projecting, Goto, Runs, Live, InAct, Starting
  <1>15. ASSUME NEW t \in Turns, ApprovalSaved(t) PROVE Projecting'
    BY <1>0, <1>15 DEF ApprovalSaved, ResolveCore, Projecting, Goto, Runs, Live, InAct,
          Starting
  <1>16. ASSUME NEW t \in Turns, RequestFails(t) PROVE Projecting'
    BY <1>0, <1>16 DEF RequestFails, Unwind, Projecting, Goto, Runs, Live, InAct, Starting
  <1>17. ASSUME NEW t \in Turns, ReceiveRejection(t) PROVE Projecting'
    BY <1>0, <1>17 DEF ReceiveRejection, Unwind, Projecting, Goto, Runs, Live, InAct,
          Starting
  <1>18. ASSUME NEW t \in Turns, NEW r \in Requests, RefuseRequest(t, r) PROVE Projecting'
    BY <1>0, <1>18 DEF RefuseRequest, Unwind, Projecting, Goto, Runs, Live, InAct, Starting
  <1>19. ASSUME NEW t \in Turns, NEW r \in Requests, ToolResult(t, r) PROVE Projecting'
    BY <1>0, <1>19 DEF ToolResult, Projecting, Runs, Live, InAct, Starting
  <1>20. ASSUME NEW t \in Turns, ActFails(t) PROVE Projecting'
    BY <1>0, <1>20 DEF ActFails, Unwind, Projecting, Goto, Live, InAct, Starting
  <1>21. ASSUME NEW t \in Turns, ActCancelled(t) PROVE Projecting'
    BY <1>0, <1>21 DEF ActCancelled, Unwind, Projecting, Goto, Live, InAct, Starting
  <1>22. ASSUME NEW t \in Turns, ActCompletes(t) PROVE Projecting'
    BY <1>0, <1>22 DEF ActCompletes, FinalizeTurn, Projecting, Goto, Live, InAct, Starting
  <1>23. ASSUME NEW t \in Turns, ActUnwound(t) PROVE Projecting'
    BY <1>0, <1>23 DEF ActUnwound, FinalizeTurn, Projecting, Goto, Live, InAct, Starting
  <1>24. ASSUME NEW t \in Turns, SettleTurn(t) PROVE Projecting'
    BY <1>0, <1>24 DEF SettleTurn, Projecting, Goto, Runs, Live, InAct, Starting
  <1>25. ASSUME NEW t \in Turns, GoIdle(t) PROVE Projecting'
    BY <1>0, <1>25 DEF GoIdle, Projecting, Goto, Runs, Live, InAct, Starting
  <1>26. ASSUME NEW t \in Turns, CompleteTurn(t) PROVE Projecting'
    BY <1>0, <1>26 DEF CompleteTurn, Projecting, Goto, Runs, Live, InAct, Starting
  <1>27. ASSUME NEW t \in Turns, EndTurn(t) PROVE Projecting'
    BY <1>0, <1>27 DEF EndTurn, Projecting, Goto, Runs, Live, InAct, Starting, Finishing
  <1>28. ASSUME NEW t \in Turns, Interrupt(t) PROVE Projecting'
    BY <1>0, <1>28 DEF Interrupt, Projecting, Live, InAct, Starting
  <1>29. ASSUME NEW h \in Handlers, NEW t \in Turns, Steer(h, t) PROVE Projecting'
    BY <1>0, <1>29 DEF Steer, Projecting, Live, InAct, Starting
  <1>30. ASSUME NEW h \in Handlers, ProjectSteer(h) PROVE Projecting'
    BY <1>0, <1>30 DEF ProjectSteer, Projecting, Live, InAct, Starting
  <1>31. ASSUME NEW h \in Handlers, NEW r \in Requests, NEW a \in Answers, AnswerCallback(h, r, a) PROVE Projecting'
    BY <1>0, <1>31 DEF AnswerCallback, Projecting, Live, InAct, Starting
  <1>32. ASSUME NEW h \in Handlers, AnswerEffect(h) PROVE Projecting'
    BY <1>0, <1>32 DEF AnswerEffect, Projecting, Live, InAct, Starting
  <1>33. ASSUME NEW h \in Handlers, AnswerStatus(h) PROVE Projecting'
    BY <1>0, <1>33 DEF AnswerStatus, Projecting, Live, InAct, Starting
  <1>34. ASSUME NEW h \in Handlers, AnswerAccepted(h) PROVE Projecting'
    BY <1>0, <1>34 DEF AnswerAccepted, Projecting, Live, InAct, Starting
  <1>35. ASSUME NEW r \in Requests, RejectCallback(r) PROVE Projecting'
    BY <1>0, <1>35 DEF RejectCallback, Projecting, Live, InAct, Starting
  <1>36. ASSUME NEW h \in Handlers, BeginLifecycle(h) PROVE Projecting'
    BY <1>0, <1>36 DEF BeginLifecycle, Projecting, Live, InAct, Starting
  <1>37. ASSUME NEW h \in Handlers, CloseTurns(h) PROVE Projecting'
    BY <1>0, <1>37 DEF CloseTurns, Projecting, Live, InAct, Starting
  <1>38. ASSUME NEW h \in Handlers, ResetTurns(h) PROVE Projecting'
    <2>1. closed = "open" /\ execution = h
      BY <1>0, <1>38 DEF ResetTurns, Scheduling, IdleTask
    <2>2. \A t \in Turns : pc[t] \notin Live \cup {"reserved"}
      BY <1>0, <2>1, TokenAssumption DEF Scheduling
    <2> QED BY <2>2, <1>38 DEF ResetTurns, Projecting
  <1>39. ASSUME NEW h \in Handlers, LifecycleFails(h) PROVE Projecting'
    BY <1>0, <1>39 DEF LifecycleFails, Projecting, Live, InAct, Starting
  <1>40. ASSUME Disconnect PROVE Projecting'
    BY <1>0, <1>40 DEF Disconnect, Projecting, Live, InAct, Starting
  <1>41. ASSUME Shutdown PROVE Projecting'
    BY <1>0, <1>41 DEF Shutdown, Projecting, Live, InAct, Starting
  <1>42. ASSUME FinishShutdown PROVE Projecting'
    BY <1>0, <1>42 DEF FinishShutdown, Projecting, Live, InAct, Starting
  <1>43. CASE UNCHANGED vars
    BY <1>0, <1>43 DEF Projecting
  <1> QED BY <1>1, <1>2, <1>3, <1>4, <1>5, <1>6, <1>7, <1>8, <1>9, <1>10, <1>11, <1>12,
        <1>13, <1>14, <1>15, <1>16, <1>17, <1>18, <1>19, <1>20, <1>21, <1>22, <1>23, <1>24,
        <1>25, <1>26, <1>27, <1>28, <1>29, <1>30, <1>31, <1>32, <1>33, <1>34, <1>35, <1>36,
        <1>37, <1>38, <1>39, <1>40, <1>41, <1>42, <1>43
        DEF Next, TurnStep, TurnMay, HandlerStep, ClientStep

-----------------------------------------------------------------------------
(* Requests and their entries *)

(* What a request has, it keeps for as long as the session. *)
LEMMA OwningStep == IInv /\ Pending /\ Projecting /\ Showing /\ Owning /\ [Next]_vars => Owning'
  <1> SUFFICES ASSUME IInv, Pending, Projecting, Showing, Owning, [Next]_vars PROVE Owning' OBVIOUS
  <1> USE DEF vars, controller, slots, turnTask, requests, records, table, entries
  <1>0. Owning /\ TypeOK /\ pc \in [Turns -> Points] /\ asked \in [Requests -> Turns \cup {None}]
    BY DEF IInv, TypeOK
  <1>1. ASSUME NEW h \in Handlers, NEW t \in Turns, TurnStart(h, t) PROVE Owning'
    BY <1>0, <1>1, TokenAssumption DEF TurnStart, Begin, Owning, Goto, Before, Starting
  <1>2. ASSUME NEW h \in Handlers, AfterResponse(h) PROVE Owning'
    BY <1>0, <1>2 DEF AfterResponse, IInv, Scheduling, Owning, Goto, Before, Starting
  <1>3. ASSUME NEW t \in Turns, FireLoop(t) PROVE Owning'
    BY <1>0, <1>3, TokenAssumption DEF FireLoop, Begin, Owning, Goto, Before, Starting
  <1>4. ASSUME NEW t \in Turns, RunTurn(t) PROVE Owning'
    BY <1>0, <1>4, TokenAssumption DEF RunTurn, Owning, Goto, Runs, Before, Starting
  <1>5. ASSUME NEW t \in Turns, AnnounceTurn(t) PROVE Owning'
    BY <1>0, <1>5, TokenAssumption DEF AnnounceTurn, Owning, Goto, Runs, Before, Starting
  <1>6. ASSUME NEW t \in Turns, EnterAct(t) PROVE Owning'
    BY <1>0, <1>6, TokenAssumption DEF EnterAct, Owning, Goto, Runs, Before, Starting
  <1>7. ASSUME NEW t \in Turns, DieBeforeTry(t) PROVE Owning'
    BY <1>0, <1>7, TokenAssumption DEF DieBeforeTry, Owning, Goto, Before, Starting
  <1>8. ASSUME NEW t \in Turns, NEW r \in Requests, AskCore(t, r) PROVE Owning'
    <2>1. /\ pc[t] \in InAct /\ core[r] = "none" /\ core' = [core EXCEPT ![r] = "pending"]
          /\ asked' = [asked EXCEPT ![r] = t]
          /\ effectEntry' = [effectEntry EXCEPT ![r] = "running"]
          /\ UNCHANGED <<pc, callbackEntry, resolution, lock>>
      BY <1>8 DEF AskCore
    <2>2. callbackEntry[r] = "none" BY <1>0, <2>1 DEF Owning
    <2>3. /\ core'[r] = "pending" /\ asked'[r] = t /\ effectEntry'[r] = "running"
          /\ t # None /\ pc[t] \notin Before
          /\ \A q \in Requests : q # r =>
                core'[q] = core[q] /\ asked'[q] = asked[q] /\ effectEntry'[q] = effectEntry[q]
      BY <1>0, <2>1, TokenAssumption DEF TypeOK, InAct, Before, Starting
    <2> QED BY <1>0, <2>1, <2>2, <2>3 DEF Owning
  <1>9. ASSUME NEW t \in Turns, NEW r \in Requests, OpenCallback(t, r) PROVE Owning'
    <2>1. /\ pc' = [pc EXCEPT ![t] = "opening"]
          /\ callbackEntry' = [callbackEntry EXCEPT ![r] = "open"]
          /\ effectEntry' = [effectEntry EXCEPT ![r] = "blocked"]
          /\ asked[r] = t /\ UNCHANGED <<core, asked, resolution, lock>>
      BY <1>9 DEF OpenCallback, Goto
    <2>2. /\ callbackEntry'[r] = "open" /\ effectEntry'[r] = "blocked"
          /\ \A q \in Requests : q # r =>
                callbackEntry'[q] = callbackEntry[q] /\ effectEntry'[q] = effectEntry[q]
      BY <1>0, <2>1 DEF TypeOK
    <2>3. \A u \in Turns : pc'[u] \in Before => pc[u] \in Before
      BY <1>0, <2>1 DEF Before, Starting
    <2> QED BY <1>0, <2>1, <2>2, <2>3, TokenAssumption DEF Owning
  <1>10. ASSUME NEW t \in Turns, MarkBlocked(t) PROVE Owning'
    BY <1>0, <1>10, TokenAssumption DEF MarkBlocked, Owning, Goto, Runs, Before, Starting
  <1>11. ASSUME NEW t \in Turns, DeliverCallback(t) PROVE Owning'
    BY <1>0, <1>11, TokenAssumption DEF DeliverCallback, Owning, Goto, Runs, Before,
          Starting
  <1>12. ASSUME NEW t \in Turns, AwaitAnswer(t) PROVE Owning'
    BY <1>0, <1>12, TokenAssumption DEF AwaitAnswer, Owning, Goto, Runs, Before, Starting
  <1>13. ASSUME NEW t \in Turns, ReceiveAnswer(t) PROVE Owning'
    BY <1>0, <1>13, TokenAssumption DEF ReceiveAnswer, ResolveCore, Owning, Goto, Runs,
          Before, Starting
  <1>14. ASSUME NEW t \in Turns, SaveApproval(t) PROVE Owning'
    BY <1>0, <1>14, TokenAssumption DEF SaveApproval, Owning, Goto, Runs, Before, Starting
  <1>15. ASSUME NEW t \in Turns, ApprovalSaved(t) PROVE Owning'
    <2>1. future[current[t]] \in Answers /\ "none" \notin Answers
      BY <1>15, TokenAssumption DEF ApprovalSaved, Runs, IInv, Holding, InAct
    <2> QED BY <1>0, <1>15, <2>1 DEF ApprovalSaved, ResolveCore, Owning, Goto, Before, Starting
  <1>16. ASSUME NEW t \in Turns, RequestFails(t) PROVE Owning'
    BY <1>0, <1>16, TokenAssumption DEF RequestFails, Unwind, Abandoned, RejectedCore,
          Owning, Goto, Runs, Before, Starting
  <1>17. ASSUME NEW t \in Turns, ReceiveRejection(t) PROVE Owning'
    BY <1>0, <1>17, TokenAssumption DEF ReceiveRejection, Unwind, Abandoned, Owning, Goto,
          Runs, Before, Starting
  <1>18. ASSUME NEW t \in Turns, NEW r \in Requests, RefuseRequest(t, r) PROVE Owning'
    BY <1>0, <1>18, TokenAssumption DEF RefuseRequest, Unwind, Abandoned, Owning, Goto,
          Runs, Before, Starting
  <1>19. ASSUME NEW t \in Turns, NEW r \in Requests, ToolResult(t, r) PROVE Owning'
    <2>1. /\ effectEntry' = [effectEntry EXCEPT ![r] = "ended"] /\ core[r] \in Answers
          /\ UNCHANGED <<pc, core, asked, callbackEntry, resolution, lock>>
      BY <1>19 DEF ToolResult
    <2>2. callbackEntry[r] # "open" BY <2>1 DEF Showing
    <2>3. effectEntry'[r] = "ended" /\ \A q \in Requests : q # r => effectEntry'[q] = effectEntry[q]
      BY <1>0, <2>1 DEF TypeOK
    <2> QED BY <1>0, <2>1, <2>2, <2>3 DEF Owning
  <1>20. ASSUME NEW t \in Turns, ActFails(t) PROVE Owning'
    BY <1>0, <1>20, TokenAssumption DEF ActFails, Unwind, Abandoned, Owning, Goto, Before,
          Starting
  <1>21. ASSUME NEW t \in Turns, ActCancelled(t) PROVE Owning'
    BY <1>0, <1>21, TokenAssumption DEF ActCancelled, Unwind, Abandoned, Owning, Goto,
          Before, InAct, Starting
  <1>22. ASSUME NEW t \in Turns, ActCompletes(t) PROVE Owning'
    BY <1>0, <1>22, TokenAssumption DEF ActCompletes, FinalizeTurn, Owning, Goto, Before,
          Starting
  <1>23. ASSUME NEW t \in Turns, ActUnwound(t) PROVE Owning'
    BY <1>0, <1>23, TokenAssumption DEF ActUnwound, FinalizeTurn, Owning, Goto, Before,
          Starting
  <1>24. ASSUME NEW t \in Turns, SettleTurn(t) PROVE Owning'
    BY <1>0, <1>24, TokenAssumption DEF SettleTurn, RejectRecords, RejectedCore, Owning,
          Goto, Runs, Before, Starting
  <1>25. ASSUME NEW t \in Turns, GoIdle(t) PROVE Owning'
    BY <1>0, <1>25, TokenAssumption DEF GoIdle, Owning, Goto, Runs, Before, Starting
  <1>26. ASSUME NEW t \in Turns, CompleteTurn(t) PROVE Owning'
    BY <1>0, <1>26, TokenAssumption DEF CompleteTurn, Owning, Goto, Runs, Before, Starting
  <1>27. ASSUME NEW t \in Turns, EndTurn(t) PROVE Owning'
    BY <1>0, <1>27, TokenAssumption DEF EndTurn, Owning, Goto, Runs, Before, Starting,
          Finishing
  <1>28. ASSUME NEW t \in Turns, Interrupt(t) PROVE Owning'
    BY <1>0, <1>28, TokenAssumption DEF Interrupt, Owning, Before, Starting
  <1>29. ASSUME NEW h \in Handlers, NEW t \in Turns, Steer(h, t) PROVE Owning'
    BY <1>0, <1>29, TokenAssumption DEF Steer, Owning, Before, Starting
  <1>30. ASSUME NEW h \in Handlers, ProjectSteer(h) PROVE Owning'
    BY <1>0, <1>30, TokenAssumption DEF ProjectSteer, Owning, Before, Starting
  <1>31. ASSUME NEW h \in Handlers, NEW r \in Requests, NEW a \in Answers, AnswerCallback(h, r, a) PROVE Owning'
    <2>0. /\ asked[r] # None /\ lock' = [lock EXCEPT ![r] = h] /\ UNCHANGED resolution
      BY <1>0, <1>31 DEF AnswerCallback, Answerable, Pending, Owning
    <2>3. \A q \in Requests : asked[q] = None => lock'[q] = lock[q]
      BY <2>0 DEF IInv, TypeOK
    <2>1. CASE asked[r] # projector
      BY <1>0, <1>31, <2>0, <2>3, <2>1 DEF AnswerCallback, Owning
    <2>2. CASE asked[r] = projector
      <3>1. /\ callbackEntry[r] = "open" /\ UNCHANGED <<pc, core, asked>>
            /\ callbackEntry' = [callbackEntry EXCEPT ![r] = "answered"]
            /\ effectEntry' = [effectEntry EXCEPT ![r] = "running"]
        BY <1>31, <2>2 DEF AnswerCallback
      <3>2. /\ callbackEntry'[r] = "answered" /\ effectEntry'[r] = "running"
            /\ \A q \in Requests : q # r =>
                  callbackEntry'[q] = callbackEntry[q] /\ effectEntry'[q] = effectEntry[q]
        BY <1>0, <3>1 DEF TypeOK
      <3> QED BY <1>0, <2>0, <2>3, <3>1, <3>2 DEF Owning
    <2> QED BY <2>1, <2>2
  <1>32. ASSUME NEW h \in Handlers, AnswerEffect(h) PROVE Owning'
    BY <1>0, <1>32, TokenAssumption DEF AnswerEffect, Owning, Before, Starting
  <1>33. ASSUME NEW h \in Handlers, AnswerStatus(h) PROVE Owning'
    BY <1>0, <1>33, TokenAssumption DEF AnswerStatus, Owning, Before, Starting
  <1>34. ASSUME NEW h \in Handlers, AnswerAccepted(h) PROVE Owning'
    <2>1. /\ task[h].req \in Requests /\ lock[task[h].req] = h
          /\ resolution' = [resolution EXCEPT ![task[h].req] = task[h].ans]
          /\ lock' = [lock EXCEPT ![task[h].req] = None]
          /\ UNCHANGED <<pc, core, asked, callbackEntry, effectEntry>>
      BY <1>34 DEF AnswerAccepted, IInv, Holding, Recording
    <2>2. asked[task[h].req] # None BY <1>0, <2>1, TokenAssumption DEF Owning
    <2>3. \A q \in Requests : asked[q] = None =>
              resolution'[q] = resolution[q] /\ lock'[q] = lock[q]
      BY <2>1, <2>2 DEF IInv, TypeOK
    <2> QED BY <1>0, <2>1, <2>3 DEF Owning
  <1>35. ASSUME NEW r \in Requests, RejectCallback(r) PROVE Owning'
    <2>1. /\ asked[r] # None /\ resolution' = [resolution EXCEPT ![r] = "error"]
          /\ UNCHANGED <<pc, asked, lock, callbackEntry, effectEntry>>
      BY <1>0, <1>35 DEF RejectCallback, Answerable, Pending, Owning
    <2>2. \A q \in Requests : asked[q] = None => resolution'[q] = resolution[q]
      BY <2>1 DEF IInv, TypeOK
    <2>3. \A q \in Requests : core'[q] = "none" <=> core[q] = "none"
      BY <1>35 DEF RejectCallback, RejectedCore
    <2> QED BY <1>0, <2>1, <2>2, <2>3 DEF Owning
  <1>36. ASSUME NEW h \in Handlers, BeginLifecycle(h) PROVE Owning'
    BY <1>0, <1>36, TokenAssumption DEF BeginLifecycle, Owning, Before, Starting
  <1>37. ASSUME NEW h \in Handlers, CloseTurns(h) PROVE Owning'
    BY <1>0, <1>37, TokenAssumption DEF CloseTurns, Owning, Before, Starting
  <1>38. ASSUME NEW h \in Handlers, ResetTurns(h) PROVE Owning'
    BY <1>0, <1>38, TokenAssumption DEF ResetTurns, RejectRecords, RejectedCore, Owning,
          Before, Starting
  <1>39. ASSUME NEW h \in Handlers, LifecycleFails(h) PROVE Owning'
    BY <1>0, <1>39, TokenAssumption DEF LifecycleFails, Owning, Before, Starting
  <1>40. ASSUME Disconnect PROVE Owning'
    BY <1>0, <1>40 DEF Disconnect, CancelRequests, Owning
  <1>41. ASSUME Shutdown PROVE Owning'
    BY <1>0, <1>41 DEF Shutdown, CancelRequests, Owning
  <1>42. ASSUME FinishShutdown PROVE Owning'
    BY <1>0, <1>42, TokenAssumption DEF FinishShutdown, RejectRecords, RejectedCore, Owning,
          Before, Starting
  <1>43. CASE UNCHANGED vars
    BY <1>0, <1>43 DEF Owning
  <1> QED BY <1>1, <1>2, <1>3, <1>4, <1>5, <1>6, <1>7, <1>8, <1>9, <1>10, <1>11, <1>12,
        <1>13, <1>14, <1>15, <1>16, <1>17, <1>18, <1>19, <1>20, <1>21, <1>22, <1>23, <1>24,
        <1>25, <1>26, <1>27, <1>28, <1>29, <1>30, <1>31, <1>32, <1>33, <1>34, <1>35, <1>36,
        <1>37, <1>38, <1>39, <1>40, <1>41, <1>42, <1>43
        DEF Next, TurnStep, TurnMay, HandlerStep, ClientStep

-----------------------------------------------------------------------------
(* Finalization *)

(* _finalize_turn finds the turn it finalizes in the projector, so it closes
   the entries of that turn, all of them, and of no other.                   *)
LEMMA FinalizeCloses ==
    ASSUME IInv, Projecting, Owning, Closing, NEW t \in Turns, NEW s,
           pc[t] \in {"acting", "unwinding"}, FinalizeTurn(t, s)
    PROVE  Closing'
  <1> USE DEF controller, slots, records, table
  <1>1. projector = t BY DEF Projecting, Live, InAct
  <1>2. /\ pc' = [pc EXCEPT ![t] = "finalizing"] /\ sent'.ended = sent.ended
        /\ UNCHANGED <<asked, callbacks, coreResolved>>
    BY DEF FinalizeTurn, Goto, IInv, TypeOK, Sent
  <1>3. \A r \in Requests : asked[r] = t =>
            callbackEntry'[r] # "open" /\ effectEntry'[r] = "ended"
    <2> SUFFICES ASSUME NEW r \in Requests, asked[r] = t
                 PROVE  callbackEntry'[r] # "open" /\ effectEntry'[r] = "ended"
      OBVIOUS
    <2>1. effectEntry[r] \in {"running", "blocked", "ended"}
      BY TokenAssumption DEF Owning, IInv, TypeOK
    <2>2. callbackEntry[r] = "open" => effectEntry[r] = "blocked" BY DEF Owning
    <2> QED BY <1>1, <2>1, <2>2 DEF FinalizeTurn, Unfinished
  <1>4. \A r \in Requests : asked[r] # t =>
            callbackEntry'[r] = callbackEntry[r] /\ effectEntry'[r] = effectEntry[r]
    BY <1>1 DEF FinalizeTurn
  <1>5. /\ pc'[t] = "finalizing" /\ \A u \in Turns : u # t => pc'[u] = pc[u]
        /\ t \notin sent.ended
    BY <1>2 DEF IInv, TypeOK, Closing
  <1>6. \A u \in Turns, r \in Requests : pc'[u] \in Finalized /\ asked'[r] = u =>
            callbackEntry'[r] # "open" /\ effectEntry'[r] = "ended"
    BY <1>2, <1>3, <1>4, <1>5 DEF Closing
  <1>7. \A u \in Turns, r \in callbacks' :
            (pc'[u] \in {"settled", "idling"} \/ u \in sent'.ended) /\ asked'[r] = u =>
                r \in coreResolved'
    BY <1>2, <1>5 DEF Closing
  <1>8. \A u \in sent'.ended : pc'[u] \in {"completing", "done", "aborted"}
    <2>1. sent.ended \subseteq Turns BY DEF IInv, TypeOK, Sent
    <2> QED BY <1>2, <1>5, <2>1 DEF Closing
  <1> QED BY <1>6, <1>7, <1>8 DEF Closing

(* Nothing that was closed is opened again. *)
LEMMA ClosingStep == IInv /\ Pending /\ Projecting /\ Owning /\ Showing /\ Closing /\ [Next]_vars => Closing'
  <1> SUFFICES ASSUME IInv, Pending, Projecting, Owning, Showing, Closing, [Next]_vars PROVE Closing' OBVIOUS
  <1> USE DEF vars, controller, slots, turnTask, requests, records, table, entries
  <1>0. /\ Closing /\ TypeOK /\ pc \in [Turns -> Points] /\ sent \in Sent
        /\ asked \in [Requests -> Turns \cup {None}] /\ callbacks \subseteq Requests
    BY DEF IInv, TypeOK
  <1>1. ASSUME NEW h \in Handlers, NEW t \in Turns, TurnStart(h, t) PROVE Closing'
    BY <1>0, <1>1 DEF TurnStart, Begin, Closing, Goto, Finishing, Finalized
  <1>2. ASSUME NEW h \in Handlers, AfterResponse(h) PROVE Closing'
    BY <1>0, <1>2 DEF AfterResponse, IInv, Scheduling, Closing, Goto, Finalized, Finishing
  <1>3. ASSUME NEW t \in Turns, FireLoop(t) PROVE Closing'
    BY <1>0, <1>3 DEF FireLoop, Begin, Closing, Goto, Finishing, Finalized
  <1>4. ASSUME NEW t \in Turns, RunTurn(t) PROVE Closing'
    BY <1>0, <1>4 DEF RunTurn, Closing, Goto, Runs, Finishing, Finalized
  <1>5. ASSUME NEW t \in Turns, AnnounceTurn(t) PROVE Closing'
    BY <1>0, <1>5 DEF AnnounceTurn, SendStatus, Closing, Goto, Runs, Finishing, Finalized
  <1>6. ASSUME NEW t \in Turns, EnterAct(t) PROVE Closing'
    BY <1>0, <1>6 DEF EnterAct, Closing, Goto, Runs, Finishing, Finalized
  <1>7. ASSUME NEW t \in Turns, DieBeforeTry(t) PROVE Closing'
    BY <1>0, <1>7 DEF DieBeforeTry, Closing, Goto, Starting, Finishing, Finalized
  <1>8. ASSUME NEW t \in Turns, NEW r \in Requests, AskCore(t, r) PROVE Closing'
    BY <1>0, <1>8 DEF AskCore, Closing, InAct, Finishing, Finalized
  <1>9. ASSUME NEW t \in Turns, NEW r \in Requests, OpenCallback(t, r) PROVE Closing'
    BY <1>0, <1>9 DEF OpenCallback, Closing, Goto, Runs, Finishing, Finalized
  <1>10. ASSUME NEW t \in Turns, MarkBlocked(t) PROVE Closing'
    BY <1>0, <1>10 DEF MarkBlocked, SendStatus, Closing, Goto, Runs, Finishing, Finalized
  <1>11. ASSUME NEW t \in Turns, DeliverCallback(t) PROVE Closing'
    BY <1>0, <1>11 DEF DeliverCallback, Closing, Goto, Runs, Finishing, Finalized
  <1>12. ASSUME NEW t \in Turns, AwaitAnswer(t) PROVE Closing'
    BY <1>0, <1>12 DEF AwaitAnswer, Closing, Goto, Runs, Finishing, Finalized
  <1>13. ASSUME NEW t \in Turns, ReceiveAnswer(t) PROVE Closing'
    BY <1>0, <1>13 DEF ReceiveAnswer, ResolveCore, Closing, Goto, Runs, Finishing, Finalized
  <1>14. ASSUME NEW t \in Turns, SaveApproval(t) PROVE Closing'
    BY <1>0, <1>14 DEF SaveApproval, Closing, Goto, Runs, Finishing, Finalized
  <1>15. ASSUME NEW t \in Turns, ApprovalSaved(t) PROVE Closing'
    BY <1>0, <1>15 DEF ApprovalSaved, ResolveCore, Closing, Goto, Runs, Finishing, Finalized
  <1>16. ASSUME NEW t \in Turns, RequestFails(t) PROVE Closing'
    BY <1>0, <1>16 DEF RequestFails, Unwind, RejectRecords, Closing, Goto, Runs, Finishing,
          Finalized
  <1>17. ASSUME NEW t \in Turns, ReceiveRejection(t) PROVE Closing'
    BY <1>0, <1>17 DEF ReceiveRejection, Unwind, Closing, Goto, Runs, Finishing, Finalized
  <1>18. ASSUME NEW t \in Turns, NEW r \in Requests, RefuseRequest(t, r) PROVE Closing'
    BY <1>0, <1>18 DEF RefuseRequest, Unwind, Closing, Goto, Runs, Finishing, Finalized
  <1>19. ASSUME NEW t \in Turns, NEW r \in Requests, ToolResult(t, r) PROVE Closing'
    BY <1>0, <1>19 DEF ToolResult, Closing, Runs, Finishing, Finalized
  <1>20. ASSUME NEW t \in Turns, ActFails(t) PROVE Closing'
    BY <1>0, <1>20 DEF ActFails, Unwind, Closing, Goto, Finishing, Finalized
  <1>21. ASSUME NEW t \in Turns, ActCancelled(t) PROVE Closing'
    BY <1>0, <1>21 DEF ActCancelled, Unwind, Closing, Goto, InAct, Finishing, Finalized
  <1>22. ASSUME NEW t \in Turns, ActCompletes(t) PROVE Closing'
    BY <1>0, <1>22, FinalizeCloses DEF ActCompletes
  <1>23. ASSUME NEW t \in Turns, ActUnwound(t) PROVE Closing'
    BY <1>0, <1>23, FinalizeCloses DEF ActUnwound
  <1>24. ASSUME NEW t \in Turns, SettleTurn(t) PROVE Closing'
    BY <1>0, <1>24 DEF SettleTurn, RejectRecords, Closing, Goto, Runs, Finishing, Finalized
  <1>25. ASSUME NEW t \in Turns, GoIdle(t) PROVE Closing'
    BY <1>0, <1>25 DEF GoIdle, Closing, Goto, Runs, Finishing, Finalized
  <1>26. ASSUME NEW t \in Turns, CompleteTurn(t) PROVE Closing'
    BY <1>0, <1>26 DEF CompleteTurn, Closing, Goto, Runs, Finishing, Finalized
  <1>27. ASSUME NEW t \in Turns, EndTurn(t) PROVE Closing'
    BY <1>0, <1>27 DEF EndTurn, Closing, Goto, Runs, Finishing, Sent, Finalized
  <1>28. ASSUME NEW t \in Turns, Interrupt(t) PROVE Closing'
    BY <1>0, <1>28 DEF Interrupt, Closing, Finishing, Finalized
  <1>29. ASSUME NEW h \in Handlers, NEW t \in Turns, Steer(h, t) PROVE Closing'
    BY <1>0, <1>29 DEF Steer, Closing, Finishing, Finalized
  <1>30. ASSUME NEW h \in Handlers, ProjectSteer(h) PROVE Closing'
    BY <1>0, <1>30 DEF ProjectSteer, Closing, Finishing, Finalized
  <1>31. ASSUME NEW h \in Handlers, NEW r \in Requests, NEW a \in Answers, AnswerCallback(h, r, a) PROVE Closing'
    <2>1. CASE asked[r] # projector BY <1>0, <1>31, <2>1 DEF AnswerCallback, Closing
    <2>2. CASE asked[r] = projector
      <3>1. /\ callbackEntry[r] = "open"
            /\ callbackEntry' = [callbackEntry EXCEPT ![r] = "answered"]
            /\ effectEntry' = [effectEntry EXCEPT ![r] = "running"]
            /\ UNCHANGED <<pc, asked, callbacks, coreResolved, sent>>
        BY <1>31, <2>2 DEF AnswerCallback
      <3>2. \A t \in Turns : asked[r] = t => pc[t] \notin Finalized
        BY <1>0, <3>1 DEF Closing
      <3>3. \A q \in Requests : q # r =>
                callbackEntry'[q] = callbackEntry[q] /\ effectEntry'[q] = effectEntry[q]
        BY <1>0, <3>1 DEF TypeOK
      <3> QED BY <1>0, <3>1, <3>2, <3>3 DEF Closing
    <2> QED BY <2>1, <2>2
  <1>32. ASSUME NEW h \in Handlers, AnswerEffect(h) PROVE Closing'
    BY <1>0, <1>32 DEF AnswerEffect, Closing, Finishing, Finalized
  <1>33. ASSUME NEW h \in Handlers, AnswerStatus(h) PROVE Closing'
    BY <1>0, <1>33 DEF AnswerStatus, SendStatus, Closing, Finishing, Finalized
  <1>34. ASSUME NEW h \in Handlers, AnswerAccepted(h) PROVE Closing'
    BY <1>0, <1>34 DEF AnswerAccepted, Closing, Finishing, Finalized
  <1>35. ASSUME NEW r \in Requests, RejectCallback(r) PROVE Closing'
    BY <1>0, <1>35 DEF RejectCallback, RejectRecords, Closing, Finishing, Finalized
  <1>36. ASSUME NEW h \in Handlers, BeginLifecycle(h) PROVE Closing'
    BY <1>0, <1>36 DEF BeginLifecycle, Closing, Finishing, Finalized
  <1>37. ASSUME NEW h \in Handlers, CloseTurns(h) PROVE Closing'
    BY <1>0, <1>37 DEF CloseTurns, Closing, Finishing, Finalized
  <1>38. ASSUME NEW h \in Handlers, ResetTurns(h) PROVE Closing'
    BY <1>0, <1>38 DEF ResetTurns, RejectRecords, Closing, Finishing, Finalized
  <1>39. ASSUME NEW h \in Handlers, LifecycleFails(h) PROVE Closing'
    BY <1>0, <1>39 DEF LifecycleFails, Closing, Finishing, Finalized
  <1>40. ASSUME Disconnect PROVE Closing'
    BY <1>0, <1>40 DEF Disconnect, Closing, Finishing, Finalized
  <1>41. ASSUME Shutdown PROVE Closing'
    BY <1>0, <1>41 DEF Shutdown, Closing, Finishing, Finalized
  <1>42. ASSUME FinishShutdown PROVE Closing'
    BY <1>0, <1>42 DEF FinishShutdown, RejectRecords, Closing, Finishing, Finalized
  <1>43. CASE UNCHANGED vars
    BY <1>0, <1>43 DEF Closing
  <1> QED BY <1>1, <1>2, <1>3, <1>4, <1>5, <1>6, <1>7, <1>8, <1>9, <1>10, <1>11, <1>12,
        <1>13, <1>14, <1>15, <1>16, <1>17, <1>18, <1>19, <1>20, <1>21, <1>22, <1>23, <1>24,
        <1>25, <1>26, <1>27, <1>28, <1>29, <1>30, <1>31, <1>32, <1>33, <1>34, <1>35, <1>36,
        <1>37, <1>38, <1>39, <1>40, <1>41, <1>42, <1>43
        DEF Next, TurnStep, TurnMay, HandlerStep, ClientStep

-----------------------------------------------------------------------------
(* Answers *)

(* Cancelling a turn task breaks the future it waits on; it answers nothing. *)
LEMMA CancelShowsNothing ==
    ASSUME IInv, Showing, NEW x, CancelTask(x) \/ UNCHANGED <<cancel, future>>,
           UNCHANGED <<pc, current, asked, callbacks, callbackEntry, core>>,
           \A h \in Handlers : task'[h] = task[h] \/ task'[h].op \notin Recording
    PROVE  Showing'
  <1>1. \A r \in Requests : future'[r] \in Answers => future[r] \in Answers
    BY TokenAssumption DEF IInv, TypeOK, CancelTask
  <1> QED BY <1>1 DEF Showing

(* A request task is the only one that answers a callback, and it shows the
   answer before it lets anybody else see it.                                *)
LEMMA ShowingStep == IInv /\ Pending /\ Projecting /\ Owning /\ Showing /\ [Next]_vars => Showing'
  <1> SUFFICES ASSUME IInv, Pending, Projecting, Owning, Showing, [Next]_vars PROVE Showing' OBVIOUS
  <1> USE DEF vars, controller, slots, turnTask, requests, records, table, entries
  <1>0. /\ Showing /\ TypeOK /\ pc \in [Turns -> Points] /\ task \in [Handlers -> Task]
        /\ asked \in [Requests -> Turns \cup {None}] /\ callbacks \subseteq Requests
        /\ \A h \in Handlers : task[h].op \in Recording => task[h].req \in Requests
    BY DEF IInv, TypeOK, Holding
  <1>1. ASSUME NEW h \in Handlers, NEW t \in Turns, TurnStart(h, t) PROVE Showing'
    BY <1>0, <1>1, TokenAssumption DEF TurnStart, Begin, Suspend, Showing, Recording, Goto,
          InAct
  <1>2. ASSUME NEW h \in Handlers, AfterResponse(h) PROVE Showing'
    BY <1>0, <1>2, TokenAssumption DEF AfterResponse, Finish, IdleTask, Showing, Recording,
          Goto, InAct
  <1>3. ASSUME NEW t \in Turns, FireLoop(t) PROVE Showing'
    BY <1>0, <1>3, TokenAssumption DEF FireLoop, Begin, Showing, Recording, Goto, InAct
  <1>4. ASSUME NEW t \in Turns, RunTurn(t) PROVE Showing'
    BY <1>0, <1>4, TokenAssumption DEF RunTurn, Showing, Recording, Goto, Runs, InAct
  <1>5. ASSUME NEW t \in Turns, AnnounceTurn(t) PROVE Showing'
    BY <1>0, <1>5, TokenAssumption DEF AnnounceTurn, Showing, Recording, Goto, Runs, InAct
  <1>6. ASSUME NEW t \in Turns, EnterAct(t) PROVE Showing'
    <2>1. pc[t] = "announced" /\ pc' = [pc EXCEPT ![t] = "acting"]
          /\ UNCHANGED <<current, requests, task>>
      BY <1>6 DEF EnterAct, Runs, Goto
    <2>2. \A r \in Requests : asked[r] # t
      BY <2>1, TokenAssumption DEF Owning, Before, Starting
    <2>3. pc'[t] = "acting" /\ \A u \in Turns : u # t => pc'[u] = pc[u] BY <1>0, <2>1
    <2> QED BY <1>0, <2>1, <2>2, <2>3 DEF Showing
  <1>7. ASSUME NEW t \in Turns, DieBeforeTry(t) PROVE Showing'
    BY <1>0, <1>7, TokenAssumption DEF DieBeforeTry, Showing, Recording, Goto, InAct,
          Starting
  <1>8. ASSUME NEW t \in Turns, NEW r \in Requests, AskCore(t, r) PROVE Showing'
    <2>1. /\ core[r] = "none" /\ core' = [core EXCEPT ![r] = "pending"]
          /\ asked' = [asked EXCEPT ![r] = t]
          /\ UNCHANGED <<pc, current, callbacks, callbackEntry, future, task>>
      BY <1>8 DEF AskCore
    <2>2. asked[r] = None /\ resolution[r] = None /\ lock[r] = None BY <2>1 DEF Owning
    <2>3. future[r] \notin Answers BY <2>2, TokenAssumption DEF IInv, Answering
    <2>4. \A h \in Handlers : task[h].op \in Recording => task[h].req # r
      BY <2>2, TokenAssumption DEF IInv, Holding
    <2>5. \A u \in Turns : pc[u] \in InAct \ {"acting"} => current[u] \in Requests /\ current[u] # r
      BY <1>0, <2>2, TokenAssumption DEF Showing, IInv, Holding
    <2>6. /\ core'[r] = "pending" /\ asked'[r] = t
          /\ \A q \in Requests : q # r => core'[q] = core[q] /\ asked'[q] = asked[q]
      BY <1>0, <2>1 DEF TypeOK
    <2> QED BY <1>0, <2>1, <2>3, <2>4, <2>5, <2>6, TokenAssumption DEF Showing
  <1>9. ASSUME NEW t \in Turns, NEW r \in Requests, OpenCallback(t, r) PROVE Showing'
    <2>1. /\ pc' = [pc EXCEPT ![t] = "opening"] /\ pc[t] = "acting"
          /\ current' = [current EXCEPT ![t] = r] /\ callbacks' = callbacks \cup {r}
          /\ callbackEntry' = [callbackEntry EXCEPT ![r] = "open"]
          /\ asked[r] = t /\ core[r] = "pending" /\ r \notin callbacks
          /\ UNCHANGED <<core, asked, future, task>>
      BY <1>9 DEF OpenCallback, Goto, Runs
    <2>2. /\ pc'[t] = "opening" /\ current'[t] = r
          /\ \A u \in Turns : u # t => pc'[u] = pc[u] /\ current'[u] = current[u]
          /\ \A q \in Requests : q # r => callbackEntry'[q] = callbackEntry[q]
      BY <1>0, <2>1 DEF TypeOK
    <2>3. future[r] \notin Answers BY <1>0, <2>1 DEF Showing, InAct
    <2>4. \A h \in Handlers : task[h].op \in Recording => task[h].req # r
      BY <1>0, <2>1 DEF Showing, InAct
    <2>5. \A u \in Turns : pc'[u] \in InAct <=> pc[u] \in InAct BY <2>1, <2>2 DEF InAct
    <2> QED BY <1>0, <2>1, <2>2, <2>3, <2>4, <2>5, TokenAssumption DEF Showing
  <1>10. ASSUME NEW t \in Turns, MarkBlocked(t) PROVE Showing'
    BY <1>0, <1>10, TokenAssumption DEF MarkBlocked, Showing, Recording, Goto, Runs, InAct
  <1>11. ASSUME NEW t \in Turns, DeliverCallback(t) PROVE Showing'
    BY <1>0, <1>11, TokenAssumption DEF DeliverCallback, Showing, Recording, Goto, Runs,
          InAct
  <1>12. ASSUME NEW t \in Turns, AwaitAnswer(t) PROVE Showing'
    BY <1>0, <1>12, TokenAssumption DEF AwaitAnswer, Showing, Recording, Goto, Runs, InAct
  <1>13. ASSUME NEW t \in Turns, ReceiveAnswer(t) PROVE Showing'
    BY <1>0, <1>13, TokenAssumption DEF ReceiveAnswer, ResolveCore, Showing, Recording,
          Goto, Runs, InAct
  <1>14. ASSUME NEW t \in Turns, SaveApproval(t) PROVE Showing'
    BY <1>0, <1>14, TokenAssumption DEF SaveApproval, Showing, Recording, Goto, Runs, InAct
  <1>15. ASSUME NEW t \in Turns, ApprovalSaved(t) PROVE Showing'
    BY <1>0, <1>15, TokenAssumption DEF ApprovalSaved, ResolveCore, Showing, Recording,
          Goto, Runs, InAct
  <1>16. ASSUME NEW t \in Turns, RequestFails(t) PROVE Showing'
    BY <1>0, <1>16, TokenAssumption DEF RequestFails, Unwind, RejectRecords, RejectedCore,
          FailedFutures, Abandoned, Showing, Recording, Goto, Runs, InAct
  <1>17. ASSUME NEW t \in Turns, ReceiveRejection(t) PROVE Showing'
    BY <1>0, <1>17, TokenAssumption DEF ReceiveRejection, Unwind, Abandoned, Showing,
          Recording, Goto, Runs, InAct
  <1>18. ASSUME NEW t \in Turns, NEW r \in Requests, RefuseRequest(t, r) PROVE Showing'
    BY <1>0, <1>18, TokenAssumption DEF RefuseRequest, Unwind, Abandoned, Showing,
          Recording, Goto, Runs, InAct
  <1>19. ASSUME NEW t \in Turns, NEW r \in Requests, ToolResult(t, r) PROVE Showing'
    BY <1>0, <1>19, TokenAssumption DEF ToolResult, Showing, Recording, Runs, InAct
  <1>20. ASSUME NEW t \in Turns, ActFails(t) PROVE Showing'
    BY <1>0, <1>20, TokenAssumption DEF ActFails, Unwind, Abandoned, Showing, Recording,
          Goto, InAct
  <1>21. ASSUME NEW t \in Turns, ActCancelled(t) PROVE Showing'
    BY <1>0, <1>21, TokenAssumption DEF ActCancelled, Unwind, Abandoned, Showing, Recording,
          Goto, InAct
  <1>22. ASSUME NEW t \in Turns, ActCompletes(t) PROVE Showing'
    BY <1>0, <1>22, TokenAssumption DEF ActCompletes, FinalizeTurn, Showing, Recording,
          Goto, InAct
  <1>23. ASSUME NEW t \in Turns, ActUnwound(t) PROVE Showing'
    BY <1>0, <1>23, TokenAssumption DEF ActUnwound, FinalizeTurn, Showing, Recording, Goto,
          InAct
  <1>24. ASSUME NEW t \in Turns, SettleTurn(t) PROVE Showing'
    BY <1>0, <1>24, TokenAssumption DEF SettleTurn, RejectRecords, RejectedCore,
          FailedFutures, Showing, Recording, Goto, Runs, InAct
  <1>25. ASSUME NEW t \in Turns, GoIdle(t) PROVE Showing'
    BY <1>0, <1>25, TokenAssumption DEF GoIdle, Showing, Recording, Goto, Runs, InAct
  <1>26. ASSUME NEW t \in Turns, CompleteTurn(t) PROVE Showing'
    BY <1>0, <1>26, TokenAssumption DEF CompleteTurn, Showing, Recording, Goto, Runs, InAct
  <1>27. ASSUME NEW t \in Turns, EndTurn(t) PROVE Showing'
    BY <1>0, <1>27, TokenAssumption DEF EndTurn, Showing, Recording, Goto, Runs, InAct
  <1>28. ASSUME NEW t \in Turns, Interrupt(t) PROVE Showing'
    BY <1>28, CancelShowsNothing DEF Interrupt
  <1>29. ASSUME NEW h \in Handlers, NEW t \in Turns, Steer(h, t) PROVE Showing'
    BY <1>0, <1>29, TokenAssumption DEF Steer, Suspend, Showing, Recording, InAct
  <1>30. ASSUME NEW h \in Handlers, ProjectSteer(h) PROVE Showing'
    BY <1>0, <1>30, TokenAssumption DEF ProjectSteer, Finish, IdleTask, Showing, Recording,
          InAct
  <1>31. ASSUME NEW h \in Handlers, NEW r \in Requests, NEW a \in Answers, AnswerCallback(h, r, a) PROVE Showing'
    <2>1. /\ r \in callbacks /\ UNCHANGED <<pc, current, core, asked, callbacks, future>>
          /\ task[h].op = "idle" /\ \A g \in Handlers : g # h => task'[g] = task[g]
          /\ task'[h].req = r
      BY <1>0, <1>31 DEF AnswerCallback, Answerable, Idle, Suspend
    <2>2. asked[r] \in Turns /\ pc[asked[r]] \in InAct => callbackEntry'[r] = "answered"
      <3>1. asked[r] \in Turns /\ pc[asked[r]] \in InAct => asked[r] = projector
        BY DEF Projecting, Live, InAct
      <3> QED BY <1>0, <3>1, <1>31 DEF AnswerCallback, TypeOK
    <2>3. \A q \in Requests : q # r => callbackEntry'[q] = callbackEntry[q]
      BY <1>0, <1>31 DEF AnswerCallback, TypeOK
    <2>4. callbackEntry[r] = "answered" => callbackEntry'[r] = "answered"
      BY <1>0, <1>31 DEF AnswerCallback, TypeOK
    <2> QED BY <1>0, <2>1, <2>2, <2>3, <2>4 DEF Showing
  <1>32. ASSUME NEW h \in Handlers, AnswerEffect(h) PROVE Showing'
    BY <1>0, <1>32, TokenAssumption DEF AnswerEffect, Resume, Showing, Recording, InAct
  <1>33. ASSUME NEW h \in Handlers, AnswerStatus(h) PROVE Showing'
    BY <1>0, <1>33, TokenAssumption DEF AnswerStatus, Resume, Showing, Recording, InAct
  <1>34. ASSUME NEW h \in Handlers, AnswerAccepted(h) PROVE Showing'
    BY <1>0, <1>34, TokenAssumption DEF AnswerAccepted, Finish, IdleTask, Showing,
          Recording, InAct
  <1>35. ASSUME NEW r \in Requests, RejectCallback(r) PROVE Showing'
    BY <1>0, <1>35, TokenAssumption DEF RejectCallback, RejectRecords, RejectedCore,
          FailedFutures, Showing, Recording, InAct
  <1>36. ASSUME NEW h \in Handlers, BeginLifecycle(h) PROVE Showing'
    BY <1>0, <1>36, TokenAssumption DEF BeginLifecycle, Suspend, Showing, Recording, InAct
  <1>37. ASSUME NEW h \in Handlers, CloseTurns(h) PROVE Showing'
    <2>1. \A g \in Handlers : task'[g] = task[g] \/ task'[g].op \notin Recording
      BY <1>0, <1>37 DEF CloseTurns, Resume, Recording, Task
    <2> QED BY <1>37, <2>1, CancelShowsNothing DEF CloseTurns
  <1>38. ASSUME NEW h \in Handlers, ResetTurns(h) PROVE Showing'
    <2>1. closed = "open" /\ execution = h
      BY <1>38 DEF ResetTurns, IInv, Scheduling, IdleTask
    <2>2. \A t \in Turns : pc[t] \notin InAct
      BY <2>1, TokenAssumption DEF IInv, Scheduling, Live
    <2>3. \A r \in Requests : core'[r] \in Answers => core[r] \in Answers
      BY <1>38, TokenAssumption DEF ResetTurns, RejectedCore
    <2>4. UNCHANGED <<pc, asked, callbackEntry>> BY <1>38 DEF ResetTurns
    <2>5. /\ \A t \in Turns : pc'[t] \in InAct \ {"acting"} =>
                asked'[current'[t]] = t /\ current'[t] \in callbacks'
          /\ \A g \in Handlers :
                task'[g].op \in Recording /\ asked'[task'[g].req] \in Turns
                    /\ pc'[asked'[task'[g].req]] \in InAct =>
                callbackEntry'[task'[g].req] = "answered" /\ task'[g].req \in callbacks'
          /\ \A r \in Requests :
                future'[r] \in Answers /\ asked'[r] \in Turns /\ pc'[asked'[r]] \in InAct =>
                callbackEntry'[r] = "answered" /\ r \in callbacks'
      BY <2>2, <2>4
    <2> QED BY <1>0, <2>3, <2>4, <2>5 DEF Showing
  <1>39. ASSUME NEW h \in Handlers, LifecycleFails(h) PROVE Showing'
    BY <1>0, <1>39, TokenAssumption DEF LifecycleFails, Finish, IdleTask, Showing,
          Recording, InAct
  <1>40. ASSUME Disconnect PROVE Showing'
    BY <1>0, <1>40, TokenAssumption DEF Disconnect, CancelRequests, IdleTask, Showing,
          Recording, InAct
  <1>41. ASSUME Shutdown PROVE Showing'
    <2>1. \A g \in Handlers : task'[g].op \notin Recording
      BY <1>41 DEF Shutdown, CancelRequests, IdleTask, Recording
    <2> QED BY <1>41, <2>1, CancelShowsNothing DEF Shutdown
  <1>42. ASSUME FinishShutdown PROVE Showing'
    BY <1>0, <1>42, TokenAssumption DEF FinishShutdown, RejectRecords, RejectedCore,
          FailedFutures, Showing, Recording, InAct
  <1>43. CASE UNCHANGED vars
    BY <1>0, <1>43 DEF Showing
  <1> QED BY <1>1, <1>2, <1>3, <1>4, <1>5, <1>6, <1>7, <1>8, <1>9, <1>10, <1>11, <1>12,
        <1>13, <1>14, <1>15, <1>16, <1>17, <1>18, <1>19, <1>20, <1>21, <1>22, <1>23, <1>24,
        <1>25, <1>26, <1>27, <1>28, <1>29, <1>30, <1>31, <1>32, <1>33, <1>34, <1>35, <1>36,
        <1>37, <1>38, <1>39, <1>40, <1>41, <1>42, <1>43
        DEF Next, TurnStep, TurnMay, HandlerStep, ClientStep

(* Once a turn is recorded as completed, its record stays true. *)
LEMMA RecordedStep == IInv /\ Recorded /\ [Next]_vars => Recorded'
  <1> SUFFICES ASSUME IInv, Recorded, [Next]_vars PROVE Recorded' OBVIOUS
  <1> USE DEF vars, controller, slots, turnTask, requests, records, table, entries
  <1>0. /\ Recorded /\ TypeOK /\ pc \in [Turns -> Points]
        /\ asked \in [Requests -> Turns \cup {None}]
        /\ status \in [Turns -> {"none", "completed", "interrupted", "failed"}]
    BY DEF IInv, TypeOK
  <1>1. ASSUME NEW h \in Handlers, NEW t \in Turns, TurnStart(h, t) PROVE Recorded'
    BY <1>0, <1>1, TokenAssumption DEF TurnStart, Begin, Recorded, Goto, Finishing,
          Finalized
  <1>2. ASSUME NEW h \in Handlers, AfterResponse(h) PROVE Recorded'
    BY <1>0, <1>2 DEF AfterResponse, IInv, Scheduling, Recorded, Goto, Finalized, Finishing
  <1>3. ASSUME NEW t \in Turns, FireLoop(t) PROVE Recorded'
    BY <1>0, <1>3, TokenAssumption DEF FireLoop, Begin, Recorded, Goto, Finishing, Finalized
  <1>4. ASSUME NEW t \in Turns, RunTurn(t) PROVE Recorded'
    BY <1>0, <1>4, TokenAssumption DEF RunTurn, Recorded, Goto, Runs, Finishing, Finalized
  <1>5. ASSUME NEW t \in Turns, AnnounceTurn(t) PROVE Recorded'
    BY <1>0, <1>5, TokenAssumption DEF AnnounceTurn, Recorded, Goto, Runs, Finishing,
          Finalized
  <1>6. ASSUME NEW t \in Turns, EnterAct(t) PROVE Recorded'
    BY <1>0, <1>6, TokenAssumption DEF EnterAct, Recorded, Goto, Runs, Finishing, Finalized
  <1>7. ASSUME NEW t \in Turns, DieBeforeTry(t) PROVE Recorded'
    BY <1>0, <1>7, TokenAssumption DEF DieBeforeTry, Recorded, Goto, Starting, Finishing,
          Finalized
  <1>8. ASSUME NEW t \in Turns, NEW r \in Requests, AskCore(t, r) PROVE Recorded'
    BY <1>0, <1>8, TokenAssumption DEF AskCore, Recorded, InAct, Finishing, Finalized
  <1>9. ASSUME NEW t \in Turns, NEW r \in Requests, OpenCallback(t, r) PROVE Recorded'
    BY <1>0, <1>9, TokenAssumption DEF OpenCallback, Recorded, Goto, Runs, Finishing,
          Finalized
  <1>10. ASSUME NEW t \in Turns, MarkBlocked(t) PROVE Recorded'
    BY <1>0, <1>10, TokenAssumption DEF MarkBlocked, Recorded, Goto, Runs, Finishing,
          Finalized
  <1>11. ASSUME NEW t \in Turns, DeliverCallback(t) PROVE Recorded'
    BY <1>0, <1>11, TokenAssumption DEF DeliverCallback, Recorded, Goto, Runs, Finishing,
          Finalized
  <1>12. ASSUME NEW t \in Turns, AwaitAnswer(t) PROVE Recorded'
    BY <1>0, <1>12, TokenAssumption DEF AwaitAnswer, Recorded, Goto, Runs, Finishing,
          Finalized
  <1>13. ASSUME NEW t \in Turns, ReceiveAnswer(t) PROVE Recorded'
    BY <1>0, <1>13, TokenAssumption DEF ReceiveAnswer, ResolveCore, Recorded, Goto, Runs,
          Finishing, Finalized
  <1>14. ASSUME NEW t \in Turns, SaveApproval(t) PROVE Recorded'
    BY <1>0, <1>14, TokenAssumption DEF SaveApproval, Recorded, Goto, Runs, Finishing,
          Finalized
  <1>15. ASSUME NEW t \in Turns, ApprovalSaved(t) PROVE Recorded'
    BY <1>0, <1>15, TokenAssumption DEF ApprovalSaved, ResolveCore, Recorded, Goto, Runs,
          Finishing, Finalized
  <1>16. ASSUME NEW t \in Turns, RequestFails(t) PROVE Recorded'
    BY <1>0, <1>16, TokenAssumption DEF RequestFails, Unwind, RejectedCore, Abandoned,
          Recorded, Goto, Runs, Finishing, Finalized
  <1>17. ASSUME NEW t \in Turns, ReceiveRejection(t) PROVE Recorded'
    BY <1>0, <1>17, TokenAssumption DEF ReceiveRejection, Unwind, Abandoned, Recorded, Goto,
          Runs, Finishing, Finalized
  <1>18. ASSUME NEW t \in Turns, NEW r \in Requests, RefuseRequest(t, r) PROVE Recorded'
    BY <1>0, <1>18, TokenAssumption DEF RefuseRequest, Unwind, Abandoned, Recorded, Goto,
          Runs, Finishing, Finalized
  <1>19. ASSUME NEW t \in Turns, NEW r \in Requests, ToolResult(t, r) PROVE Recorded'
    BY <1>0, <1>19, TokenAssumption DEF ToolResult, Recorded, Runs, Finishing, Finalized
  <1>20. ASSUME NEW t \in Turns, ActFails(t) PROVE Recorded'
    BY <1>0, <1>20, TokenAssumption DEF ActFails, Unwind, Abandoned, Recorded, Goto,
          Finishing, Finalized
  <1>21. ASSUME NEW t \in Turns, ActCancelled(t) PROVE Recorded'
    BY <1>0, <1>21, TokenAssumption DEF ActCancelled, Unwind, Abandoned, Recorded, Goto,
          InAct, Finishing, Finalized
  <1>22. ASSUME NEW t \in Turns, ActCompletes(t) PROVE Recorded'
    BY <1>0, <1>22, TokenAssumption DEF ActCompletes, FinalizeTurn, Recorded, Goto,
          Finishing, Finalized
  <1>23. ASSUME NEW t \in Turns, ActUnwound(t) PROVE Recorded'
    BY <1>0, <1>23, TokenAssumption DEF ActUnwound, FinalizeTurn, Recorded, Goto, Finishing,
          Finalized
  <1>24. ASSUME NEW t \in Turns, SettleTurn(t) PROVE Recorded'
    BY <1>0, <1>24, TokenAssumption DEF SettleTurn, RejectedCore, Recorded, Goto, Runs,
          Finishing, Finalized
  <1>25. ASSUME NEW t \in Turns, GoIdle(t) PROVE Recorded'
    BY <1>0, <1>25, TokenAssumption DEF GoIdle, Recorded, Goto, Runs, Finishing, Finalized
  <1>26. ASSUME NEW t \in Turns, CompleteTurn(t) PROVE Recorded'
    BY <1>0, <1>26, TokenAssumption DEF CompleteTurn, Recorded, Goto, Runs, Finishing,
          Finalized
  <1>27. ASSUME NEW t \in Turns, EndTurn(t) PROVE Recorded'
    BY <1>0, <1>27, TokenAssumption DEF EndTurn, Recorded, Goto, Runs, Finishing, Finalized
  <1>28. ASSUME NEW t \in Turns, Interrupt(t) PROVE Recorded'
    BY <1>0, <1>28, TokenAssumption DEF Interrupt, Recorded, Finishing, Finalized
  <1>29. ASSUME NEW h \in Handlers, NEW t \in Turns, Steer(h, t) PROVE Recorded'
    BY <1>0, <1>29, TokenAssumption DEF Steer, Recorded, Finishing, Finalized
  <1>30. ASSUME NEW h \in Handlers, ProjectSteer(h) PROVE Recorded'
    BY <1>0, <1>30, TokenAssumption DEF ProjectSteer, Recorded, Finishing, Finalized
  <1>31. ASSUME NEW h \in Handlers, NEW r \in Requests, NEW a \in Answers, AnswerCallback(h, r, a) PROVE Recorded'
    BY <1>0, <1>31, TokenAssumption DEF AnswerCallback, Recorded, Finishing, Finalized
  <1>32. ASSUME NEW h \in Handlers, AnswerEffect(h) PROVE Recorded'
    BY <1>0, <1>32, TokenAssumption DEF AnswerEffect, Recorded, Finishing, Finalized
  <1>33. ASSUME NEW h \in Handlers, AnswerStatus(h) PROVE Recorded'
    BY <1>0, <1>33, TokenAssumption DEF AnswerStatus, Recorded, Finishing, Finalized
  <1>34. ASSUME NEW h \in Handlers, AnswerAccepted(h) PROVE Recorded'
    BY <1>0, <1>34, TokenAssumption DEF AnswerAccepted, Recorded, Finishing, Finalized
  <1>35. ASSUME NEW r \in Requests, RejectCallback(r) PROVE Recorded'
    BY <1>0, <1>35, TokenAssumption DEF RejectCallback, RejectedCore, Recorded, Finishing,
          Finalized
  <1>36. ASSUME NEW h \in Handlers, BeginLifecycle(h) PROVE Recorded'
    BY <1>0, <1>36, TokenAssumption DEF BeginLifecycle, Recorded, Finishing, Finalized
  <1>37. ASSUME NEW h \in Handlers, CloseTurns(h) PROVE Recorded'
    BY <1>0, <1>37, TokenAssumption DEF CloseTurns, Recorded, Finishing, Finalized
  <1>38. ASSUME NEW h \in Handlers, ResetTurns(h) PROVE Recorded'
    BY <1>0, <1>38, TokenAssumption DEF ResetTurns, RejectedCore, Recorded, Finishing,
          Finalized
  <1>39. ASSUME NEW h \in Handlers, LifecycleFails(h) PROVE Recorded'
    BY <1>0, <1>39, TokenAssumption DEF LifecycleFails, Recorded, Finishing, Finalized
  <1>40. ASSUME Disconnect PROVE Recorded'
    BY <1>0, <1>40, TokenAssumption DEF Disconnect, Recorded, Finishing, Finalized
  <1>41. ASSUME Shutdown PROVE Recorded'
    BY <1>0, <1>41, TokenAssumption DEF Shutdown, Recorded, Finishing, Finalized
  <1>42. ASSUME FinishShutdown PROVE Recorded'
    BY <1>0, <1>42, TokenAssumption DEF FinishShutdown, RejectedCore, Recorded, Finishing,
          Finalized
  <1>43. CASE UNCHANGED vars
    BY <1>0, <1>43 DEF Recorded
  <1> QED BY <1>1, <1>2, <1>3, <1>4, <1>5, <1>6, <1>7, <1>8, <1>9, <1>10, <1>11, <1>12,
        <1>13, <1>14, <1>15, <1>16, <1>17, <1>18, <1>19, <1>20, <1>21, <1>22, <1>23, <1>24,
        <1>25, <1>26, <1>27, <1>28, <1>29, <1>30, <1>31, <1>32, <1>33, <1>34, <1>35, <1>36,
        <1>37, <1>38, <1>39, <1>40, <1>41, <1>42, <1>43
        DEF Next, TurnStep, TurnMay, HandlerStep, ClientStep

-----------------------------------------------------------------------------
(* Status *)

(* Whoever sends `running' or `blocked' looks for an active turn as it sends. *)
LEMMA AnnouncedStep == IInv /\ IdleIsAnnounced /\ [Next]_vars => IdleIsAnnounced'
  <1> SUFFICES ASSUME IInv, IdleIsAnnounced, [Next]_vars PROVE IdleIsAnnounced' OBVIOUS
  <1> USE DEF vars, controller, slots, turnTask, requests, records, table, entries
  <1>0. IdleIsAnnounced /\ sent \in Sent BY DEF IInv, TypeOK
  <1>1. ASSUME NEW h \in Handlers, NEW t \in Turns, TurnStart(h, t) PROVE IdleIsAnnounced'
    BY <1>0, <1>1, TokenAssumption DEF TurnStart, Begin, IdleIsAnnounced
  <1>2. ASSUME NEW h \in Handlers, AfterResponse(h) PROVE IdleIsAnnounced'
    BY <1>0, <1>2 DEF AfterResponse, IdleIsAnnounced
  <1>3. ASSUME NEW t \in Turns, FireLoop(t) PROVE IdleIsAnnounced'
    BY <1>0, <1>3, TokenAssumption DEF FireLoop, Begin, IdleIsAnnounced
  <1>4. ASSUME NEW t \in Turns, RunTurn(t) PROVE IdleIsAnnounced'
    BY <1>0, <1>4 DEF RunTurn, IdleIsAnnounced
  <1>5. ASSUME NEW t \in Turns, AnnounceTurn(t) PROVE IdleIsAnnounced'
    BY <1>0, <1>5 DEF AnnounceTurn, SendStatus, IdleIsAnnounced
  <1>6. ASSUME NEW t \in Turns, EnterAct(t) PROVE IdleIsAnnounced'
    BY <1>0, <1>6 DEF EnterAct, IdleIsAnnounced
  <1>7. ASSUME NEW t \in Turns, DieBeforeTry(t) PROVE IdleIsAnnounced'
    BY <1>0, <1>7 DEF DieBeforeTry, IdleIsAnnounced
  <1>8. ASSUME NEW t \in Turns, NEW r \in Requests, AskCore(t, r) PROVE IdleIsAnnounced'
    BY <1>0, <1>8 DEF AskCore, IdleIsAnnounced
  <1>9. ASSUME NEW t \in Turns, NEW r \in Requests, OpenCallback(t, r) PROVE IdleIsAnnounced'
    BY <1>0, <1>9 DEF OpenCallback, IdleIsAnnounced
  <1>10. ASSUME NEW t \in Turns, MarkBlocked(t) PROVE IdleIsAnnounced'
    BY <1>0, <1>10 DEF MarkBlocked, SendStatus, IdleIsAnnounced
  <1>11. ASSUME NEW t \in Turns, DeliverCallback(t) PROVE IdleIsAnnounced'
    BY <1>0, <1>11 DEF DeliverCallback, IdleIsAnnounced
  <1>12. ASSUME NEW t \in Turns, AwaitAnswer(t) PROVE IdleIsAnnounced'
    BY <1>0, <1>12 DEF AwaitAnswer, IdleIsAnnounced
  <1>13. ASSUME NEW t \in Turns, ReceiveAnswer(t) PROVE IdleIsAnnounced'
    BY <1>0, <1>13 DEF ReceiveAnswer, ResolveCore, IdleIsAnnounced
  <1>14. ASSUME NEW t \in Turns, SaveApproval(t) PROVE IdleIsAnnounced'
    BY <1>0, <1>14 DEF SaveApproval, IdleIsAnnounced
  <1>15. ASSUME NEW t \in Turns, ApprovalSaved(t) PROVE IdleIsAnnounced'
    BY <1>0, <1>15 DEF ApprovalSaved, ResolveCore, IdleIsAnnounced
  <1>16. ASSUME NEW t \in Turns, RequestFails(t) PROVE IdleIsAnnounced'
    BY <1>0, <1>16 DEF RequestFails, Unwind, IdleIsAnnounced
  <1>17. ASSUME NEW t \in Turns, ReceiveRejection(t) PROVE IdleIsAnnounced'
    BY <1>0, <1>17 DEF ReceiveRejection, Unwind, IdleIsAnnounced
  <1>18. ASSUME NEW t \in Turns, NEW r \in Requests, RefuseRequest(t, r) PROVE IdleIsAnnounced'
    BY <1>0, <1>18 DEF RefuseRequest, Unwind, IdleIsAnnounced
  <1>19. ASSUME NEW t \in Turns, NEW r \in Requests, ToolResult(t, r) PROVE IdleIsAnnounced'
    BY <1>0, <1>19 DEF ToolResult, IdleIsAnnounced
  <1>20. ASSUME NEW t \in Turns, ActFails(t) PROVE IdleIsAnnounced'
    BY <1>0, <1>20 DEF ActFails, Unwind, IdleIsAnnounced
  <1>21. ASSUME NEW t \in Turns, ActCancelled(t) PROVE IdleIsAnnounced'
    BY <1>0, <1>21 DEF ActCancelled, Unwind, IdleIsAnnounced
  <1>22. ASSUME NEW t \in Turns, ActCompletes(t) PROVE IdleIsAnnounced'
    BY <1>0, <1>22 DEF ActCompletes, FinalizeTurn, IdleIsAnnounced
  <1>23. ASSUME NEW t \in Turns, ActUnwound(t) PROVE IdleIsAnnounced'
    BY <1>0, <1>23 DEF ActUnwound, FinalizeTurn, IdleIsAnnounced
  <1>24. ASSUME NEW t \in Turns, SettleTurn(t) PROVE IdleIsAnnounced'
    BY <1>0, <1>24 DEF SettleTurn, IdleIsAnnounced
  <1>25. ASSUME NEW t \in Turns, GoIdle(t) PROVE IdleIsAnnounced'
    BY <1>0, <1>25 DEF GoIdle, IdleIsAnnounced
  <1>26. ASSUME NEW t \in Turns, CompleteTurn(t) PROVE IdleIsAnnounced'
    BY <1>0, <1>26 DEF CompleteTurn, IdleIsAnnounced
  <1>27. ASSUME NEW t \in Turns, EndTurn(t) PROVE IdleIsAnnounced'
    BY <1>0, <1>27 DEF EndTurn, IdleIsAnnounced
  <1>28. ASSUME NEW t \in Turns, Interrupt(t) PROVE IdleIsAnnounced'
    BY <1>0, <1>28 DEF Interrupt, IdleIsAnnounced
  <1>29. ASSUME NEW h \in Handlers, NEW t \in Turns, Steer(h, t) PROVE IdleIsAnnounced'
    BY <1>0, <1>29 DEF Steer, IdleIsAnnounced
  <1>30. ASSUME NEW h \in Handlers, ProjectSteer(h) PROVE IdleIsAnnounced'
    BY <1>0, <1>30 DEF ProjectSteer, IdleIsAnnounced
  <1>31. ASSUME NEW h \in Handlers, NEW r \in Requests, NEW a \in Answers, AnswerCallback(h, r, a) PROVE IdleIsAnnounced'
    BY <1>0, <1>31 DEF AnswerCallback, IdleIsAnnounced
  <1>32. ASSUME NEW h \in Handlers, AnswerEffect(h) PROVE IdleIsAnnounced'
    BY <1>0, <1>32 DEF AnswerEffect, IdleIsAnnounced
  <1>33. ASSUME NEW h \in Handlers, AnswerStatus(h) PROVE IdleIsAnnounced'
    BY <1>0, <1>33 DEF AnswerStatus, SendStatus, IdleIsAnnounced
  <1>34. ASSUME NEW h \in Handlers, AnswerAccepted(h) PROVE IdleIsAnnounced'
    BY <1>0, <1>34 DEF AnswerAccepted, IdleIsAnnounced
  <1>35. ASSUME NEW r \in Requests, RejectCallback(r) PROVE IdleIsAnnounced'
    BY <1>0, <1>35 DEF RejectCallback, IdleIsAnnounced
  <1>36. ASSUME NEW h \in Handlers, BeginLifecycle(h) PROVE IdleIsAnnounced'
    BY <1>0, <1>36 DEF BeginLifecycle, IdleIsAnnounced
  <1>37. ASSUME NEW h \in Handlers, CloseTurns(h) PROVE IdleIsAnnounced'
    BY <1>0, <1>37 DEF CloseTurns, IdleIsAnnounced
  <1>38. ASSUME NEW h \in Handlers, ResetTurns(h) PROVE IdleIsAnnounced'
    BY <1>0, <1>38 DEF ResetTurns, IdleIsAnnounced
  <1>39. ASSUME NEW h \in Handlers, LifecycleFails(h) PROVE IdleIsAnnounced'
    BY <1>0, <1>39 DEF LifecycleFails, IdleIsAnnounced
  <1>40. ASSUME Disconnect PROVE IdleIsAnnounced'
    BY <1>0, <1>40 DEF Disconnect, IdleIsAnnounced
  <1>41. ASSUME Shutdown PROVE IdleIsAnnounced'
    BY <1>0, <1>41 DEF Shutdown, IdleIsAnnounced
  <1>42. ASSUME FinishShutdown PROVE IdleIsAnnounced'
    BY <1>0, <1>42 DEF FinishShutdown, IdleIsAnnounced
  <1>43. CASE UNCHANGED vars
    BY <1>0, <1>43 DEF IdleIsAnnounced
  <1> QED BY <1>1, <1>2, <1>3, <1>4, <1>5, <1>6, <1>7, <1>8, <1>9, <1>10, <1>11, <1>12,
        <1>13, <1>14, <1>15, <1>16, <1>17, <1>18, <1>19, <1>20, <1>21, <1>22, <1>23, <1>24,
        <1>25, <1>26, <1>27, <1>28, <1>29, <1>30, <1>31, <1>32, <1>33, <1>34, <1>35, <1>36,
        <1>37, <1>38, <1>39, <1>40, <1>41, <1>42, <1>43
        DEF Next, TurnStep, TurnMay, HandlerStep, ClientStep

-----------------------------------------------------------------------------
(* Theorems *)

(* Nothing has been opened, closed or announced at the start. *)
LEMMA ClosureInit == Init => Closure
  BY TokenAssumption
  DEF Init, Closure, Projecting, Owning, Closing, Showing, Recorded, Live, InAct,
      Starting, Finishing, Finalized, Before, IdleTask, Recording

(* The parts, each on top of the ones it needs. *)
LEMMA ClosureInvariance == Spec => [](IInv /\ Pending /\ Closure)
  <1>1. Init => Pending /\ Closure BY PendingInit, ClosureInit
  <1>2. IInv /\ Pending /\ Closure /\ [Next]_vars => Pending' /\ Closure'
    BY PendingStep, ProjectingStep, OwningStep, ClosingStep, ShowingStep, RecordedStep
    DEF Closure
  <1> QED BY <1>1, <1>2, Invariance, PTL DEF Spec

(* When turn/completed has been sent, no tool of that turn waits on the core, no
   entry of it is open and no record of it can be resolved; later answers, late
   request tasks, other turns and resets included.                            *)
THEOREM EndedTurnsAreClosed == Spec => []EndedTurnIsClosed
  <1>1. IInv /\ Pending /\ Closure => EndedTurnIsClosed
    <2> SUFFICES ASSUME IInv, Pending, Closure, NEW t \in sent.ended, NEW r \in Requests,
                        asked[r] = t
                 PROVE  /\ core[r] # "pending"
                        /\ callbackEntry[r] # "open" /\ effectEntry[r] = "ended"
                        /\ r \in callbacks => r \in coreResolved
      BY DEF EndedTurnIsClosed
    <2>1. t \in Turns /\ pc[t] \in {"completing", "done", "aborted"}
      BY DEF Closure, Closing, IInv, TypeOK, Sent
    <2>2. core[r] # "pending" BY <2>1 DEF Pending, InAct
    <2>3. callbackEntry[r] # "open" /\ effectEntry[r] = "ended"
      BY <2>1 DEF Closure, Closing, Finalized, Finishing
    <2>4. r \in callbacks => r \in coreResolved BY <2>1 DEF Closure, Closing
    <2> QED BY <2>2, <2>3, <2>4
  <1> QED BY <1>1, ClosureInvariance, PTL

(* No request task, however late, leaves clients showing a running session when
   the controller has no turn.                                                *)
THEOREM IdleSessionsShowIdle == Spec => []IdleIsAnnounced
  <1>1. Init => IdleIsAnnounced BY DEF Init, IdleIsAnnounced
  <1> QED BY <1>1, AnnouncedStep, Invariance, PTL DEF Spec

(* A turn that public history records as completed had each of its requests
   answered by a client, and shows the answers.                               *)
THEOREM CompletedTurnsWereAnswered == Spec => []CompletedTurnWasAnswered
  <1>1. Closure => CompletedTurnWasAnswered
    BY DEF Closure, Recorded, Showing, CompletedTurnWasAnswered
  <1> QED BY <1>1, ClosureInvariance, PTL
=============================================================================
