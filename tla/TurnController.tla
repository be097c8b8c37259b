--------------------------- MODULE TurnController ---------------------------
(***************************************************************************)
(* The turn controller of one attached session (vibe/app_server/_turns.py) *)
(* with the single-slot reservation it shares with lifecycle operations    *)
(* (_execution.py), the request tasks of the server that drive it          *)
(* (server.py, _handler.py), the scheduler that starts turns on its own    *)
(* (_legacy_session_runtime.py) and the broker that holds the futures the  *)
(* agent's tools wait on (core/agent_loop/_request_broker.py).             *)
(*                                                                         *)
(* Everything runs on one asyncio loop: what one action does happens       *)
(* between two awaits, and every `await self._notify(...)' is a point      *)
(* where any other task may run.  The turn task of turn t is pc[t]; a      *)
(* request task is task[h].  Task.cancel() raises at the await the task is *)
(* suspended in ("thrown"), or, when the running task cancels itself, at   *)
(* the next await that suspends ("self").                                  *)
(***************************************************************************)
EXTENDS FiniteSets

CONSTANTS
    Turns,       \* identities of turns, each used once (uuid4)
    Requests,    \* identities of the core's approval and user-input requests
    Answers,     \* semantic answers a client may give
    Saved,       \* the answers that make approve_always write configuration
    CancelTurn,  \* the decision that denies the tool and cancels the turn
    Handlers,    \* request tasks the server may have in flight at once
    Methods,     \* what the environment does in this instance
    None

ASSUME TokenAssumption ==
    /\ CancelTurn \in Answers
    /\ Saved \subseteq Answers \ {CancelTurn}
    /\ None \notin Turns \cup Requests \cup Answers \cup Handlers
    /\ Turns \cap Handlers = {}
    /\ {"pending", "error", "rejected", "gone"} \cap Answers = {}
    /\ {"none", "cancelled", "exception"} \cap Answers = {}

VARIABLES
    execution,         \* SessionExecution._active: its id (a turn, or the
                       \* handler of a lifecycle operation), or None
    sessionExecution,  \* TurnController._session_execution
    activeTurn,        \* TurnController._active_turn
    activeTask,        \* the turn whose task is TurnController._active_task
    projector,         \* the turn TurnController._projector projects, or None
    completed,         \* turns in TurnController._completed_turns
    closed,            \* shutdown of the controller: "open" .. "closed"
    pc,                \* control point of each turn's _run_turn task
    cancel,            \* cancellation pending on that task
    status,            \* how the turn is about to be recorded
    current,           \* the core request the task is handling
    core,              \* the broker's future of each request
    asked,             \* the turn that raised each request
    callbacks,         \* the requests registered in TurnController._callbacks
    resolution,        \* CallbackRecord.resolution
    future,            \* CallbackRecord.future
    coreResolved,      \* the records with CallbackRecord.core_resolved set
    lock,              \* the request task holding resolution_lock, or None
    callbackEntry,     \* the public entry of each callback
    effectEntry,       \* the public entry of the tool effect it is about
    task,              \* the server's request tasks
    sent,              \* what has been handed to notify, in summary
    landed             \* <<expected turn, turn it landed in>> of steers (history)

slots      == <<sessionExecution, activeTurn, activeTask, projector, completed, closed>>
controller == <<execution, slots>>
turnTask   == <<pc, cancel, status, current>>
table      == <<callbacks, resolution, lock>>
records    == <<table, future, coreResolved>>
entries    == <<callbackEntry, effectEntry>>
requests   == <<core, asked, records, entries>>
vars       == <<controller, turnTask, requests, task, sent, landed>>

-----------------------------------------------------------------------------
(* Control points of _run_turn.  Reserved: start() returned, start_turn() not
   called.  InAct: inside the try block, consuming agent_loop.act.           *)
InAct     == {"acting", "opening", "blocking", "delivering", "waiting", "saving"}
Starting  == {"created", "started", "announced"}
Finishing == {"finalizing", "settled", "idling", "completing"}
Over      == {"done", "aborted", "dead"}
Points    == {"unused", "reserved", "unwinding"} \cup InAct \cup Starting
                \cup Finishing \cup Over

Operation == {"idle", "start", "steer", "effect", "status", "settle",
              "lifecycle", "closing"}

Task == [op: Operation, turn: Turns \cup {None}, req: Requests \cup {None},
         ans: Answers \cup {None}]

IdleTask == [op |-> "idle", turn |-> None, req |-> None, ans |-> None]

Sent == [started: SUBSET Turns, ended: SUBSET Turns,
         status: {"idle", "running", "blocked"},
         effects: SUBSET Requests,   \* tool effects whose end has been sent
         late: SUBSET Requests]      \* and those updated after that

TypeOK ==
    /\ execution \in Turns \cup Handlers \cup {None}
    /\ sessionExecution \in Turns \cup {None}
    /\ activeTurn \in Turns \cup {None}
    /\ activeTask \in Turns \cup {None}
    /\ projector \in Turns \cup {None}
    /\ completed \subseteq Turns
    /\ closed \in {"open", "closing", "closed"}
    /\ pc \in [Turns -> Points]
    /\ cancel \in [Turns -> {"no", "self", "thrown"}]
    /\ status \in [Turns -> {"none", "completed", "interrupted", "failed"}]
    /\ current \in [Turns -> Requests \cup {None}]
    /\ core \in [Requests -> Answers \cup {"none", "pending", "rejected", "gone"}]
    /\ asked \in [Requests -> Turns \cup {None}]
    /\ callbacks \subseteq Requests
    /\ resolution \in [Requests -> Answers \cup {None, "error"}]
    /\ future \in [Requests -> Answers \cup {"pending", "exception", "cancelled"}]
    /\ coreResolved \subseteq Requests
    /\ lock \in [Requests -> Handlers \cup {None}]
    /\ callbackEntry \in [Requests -> {"none", "open", "answered", "cancelled"}]
    /\ effectEntry \in [Requests -> {"none", "running", "blocked", "ended"}]
    /\ task \in [Handlers -> Task]
    /\ sent \in Sent
    /\ landed \subseteq Turns \X Turns

Init ==
    /\ execution = None /\ sessionExecution = None
    /\ activeTurn = None /\ activeTask = None /\ projector = None
    /\ completed = {} /\ closed = "open"
    /\ pc = [t \in Turns |-> "unused"]
    /\ cancel = [t \in Turns |-> "no"]
    /\ status = [t \in Turns |-> "none"]
    /\ current = [t \in Turns |-> None]
    /\ core = [r \in Requests |-> "none"]
    /\ asked = [r \in Requests |-> None]
    /\ callbacks = {} /\ coreResolved = {}
    /\ resolution = [r \in Requests |-> None]
    /\ future = [r \in Requests |-> "pending"]
    /\ lock = [r \in Requests |-> None]
    /\ callbackEntry = [r \in Requests |-> "none"]
    /\ effectEntry = [r \in Requests |-> "none"]
    /\ task = [h \in Handlers |-> IdleTask]
    /\ sent = [started |-> {}, ended |-> {}, status |-> "idle",
               effects |-> {}, late |-> {}]
    /\ landed = {}

-----------------------------------------------------------------------------
TaskDone == activeTask # None => pc[activeTask] \in Over

Runs(t, p) == pc[t] = p /\ cancel[t] # "thrown"

Goto(t, p) == pc' = [pc EXCEPT ![t] = p]

Idle(h) == task[h].op = "idle" /\ closed = "open"

Suspend(h, op, t, r, a) ==
    task' = [task EXCEPT ![h] = [op |-> op, turn |-> t, req |-> r, ans |-> a]]

Resume(h, op) == task' = [task EXCEPT ![h].op = op]

Finish(h) == task' = [task EXCEPT ![h] = IdleTask]

(* Mutants: finish clears whatever is reserved; or everything but its own. *)
ReleasedAlways(holder) == None

ReleasedOthers(holder) == IF execution = holder THEN execution ELSE None

(* SessionExecution.finish: only the holder's reservation is cleared. *)
Released(holder) == IF execution = holder THEN None ELSE execution

(* _reject_callback_record on every record of S that the core has not had
   resolved: the broker's future and the record's future fail.             *)
FailedFutures(S) ==
    [r \in Requests |-> IF r \in S \ coreResolved /\ future[r] = "pending"
                        THEN "exception" ELSE future[r]]

RejectedCore(S) ==
    [r \in Requests |-> IF r \in S \ coreResolved /\ core[r] = "pending"
                        THEN "rejected" ELSE core[r]]

RejectRecords(S) ==
    /\ coreResolved' = coreResolved \cup S
    /\ future' = FailedFutures(S)

(* Mutants: the generator is not closed; or the futures are cancelled without
   being taken out of the broker's tables.                                    *)
AbandonedNone(t, c) == c

AbandonedInPlace(t, c) ==
    [r \in Requests |-> IF asked[r] = t /\ c[r] = "pending" THEN "cancelled" ELSE c[r]]

(* Closing the event generator of act() cancels the turn's tool tasks, which
   drop the requests they are still waiting on.                            *)
Abandoned(t, c) ==
    [r \in Requests |-> IF asked[r] = t /\ c[r] = "pending" THEN "gone" ELSE c[r]]

(* Task.cancel() on the turn task: nothing when it is over; a task suspended on
   the callback's future cancels that future at once.                        *)
CancelTask(t) ==
    /\ cancel' = IF pc[t] \in Over THEN cancel ELSE [cancel EXCEPT ![t] = "thrown"]
    /\ future' = IF pc[t] = "waiting" /\ future[current[t]] = "pending"
                 THEN [future EXCEPT ![current[t]] = "cancelled"] ELSE future

-----------------------------------------------------------------------------
(* Starting a turn: start() reserves, start_turn() creates the task. *)

Begin(t) ==
    /\ closed = "open"
    /\ pc[t] = "unused"
    /\ TaskDone
    /\ execution = None
    /\ execution' = t
    /\ sessionExecution' = t
    /\ activeTurn' = t
    /\ projector' = t
    /\ UNCHANGED <<completed, closed, cancel, status, current, requests, sent,
                   landed>>

TurnStart(h, t) ==
    /\ "turn/start" \in Methods
    /\ Idle(h)
    /\ Begin(t)
    /\ Goto(t, "reserved")
    /\ Suspend(h, "start", t, None, None)
    /\ UNCHANGED activeTask

(* The response is written; _after_response calls start_turn(). *)
AfterResponse(h) ==
    /\ task[h].op = "start"
    /\ Goto(task[h].turn, "created")
    /\ activeTask' = task[h].turn
    /\ Finish(h)
    /\ UNCHANGED <<execution, sessionExecution, activeTurn, projector, completed,
                   closed, cancel, status, current, requests, sent, landed>>

(* The scheduler starts the turn of a due loop without a client. *)
FireLoop(t) ==
    /\ "loop" \in Methods
    /\ Begin(t)
    /\ Goto(t, "created")
    /\ activeTask' = t
    /\ UNCHANGED task

-----------------------------------------------------------------------------
(* The turn task, outside its try block. *)

RunTurn(t) ==
    /\ Runs(t, "created")
    /\ Goto(t, "started")
    /\ sent' = [sent EXCEPT !.started = @ \cup {t}]
    /\ UNCHANGED <<controller, cancel, status, current, requests, task, landed>>

SendStatus(s) ==
    sent' = IF activeTurn = None THEN sent ELSE [sent EXCEPT !.status = s]

AnnounceTurn(t) ==
    /\ Runs(t, "started")
    /\ Goto(t, "announced")
    /\ SendStatus("running")
    /\ UNCHANGED <<controller, cancel, status, current, requests, task, landed>>

EnterAct(t) ==
    /\ Runs(t, "announced")
    /\ Goto(t, "acting")
    /\ UNCHANGED <<controller, cancel, status, current, requests, task, sent,
                   landed>>

(* A task cancelled before its first step never runs; one cancelled in the
   three awaits before `try' leaves without _finalize_turn.                *)
DieBeforeTry(t) ==
    /\ pc[t] \in Starting /\ cancel[t] = "thrown"
    /\ Goto(t, "dead")
    /\ cancel' = [cancel EXCEPT ![t] = "no"]
    /\ UNCHANGED <<controller, status, current, requests, task, sent, landed>>

-----------------------------------------------------------------------------
(* The turn task inside act(): core requests and their callbacks. *)

(* A tool asks: the broker stores a future and queues the request event. *)
AskCore(t, r) ==
    /\ pc[t] \in InAct
    /\ core[r] = "none"
    /\ core' = [core EXCEPT ![r] = "pending"]
    /\ asked' = [asked EXCEPT ![r] = t]
    /\ effectEntry' = [effectEntry EXCEPT ![r] = "running"]
    /\ UNCHANGED <<controller, turnTask, records, callbackEntry, task, sent,
                   landed>>

OpenCallback(t, r) ==
    /\ Runs(t, "acting")
    /\ asked[r] = t /\ core[r] = "pending" /\ r \notin callbacks
    /\ callbacks' = callbacks \cup {r}
    /\ callbackEntry' = [callbackEntry EXCEPT ![r] = "open"]
    /\ effectEntry' = [effectEntry EXCEPT ![r] = "blocked"]
    /\ current' = [current EXCEPT ![t] = r]
    /\ Goto(t, "opening")
    /\ UNCHANGED <<controller, cancel, status, core, asked, resolution, future,
                   coreResolved, lock, task, sent, landed>>

MarkBlocked(t) ==
    /\ Runs(t, "opening")
    /\ Goto(t, "blocking")
    /\ SendStatus("blocked")
    /\ UNCHANGED <<controller, cancel, status, current, requests, task, landed>>

DeliverCallback(t) ==
    /\ Runs(t, "blocking")
    /\ Goto(t, "delivering")
    /\ UNCHANGED <<controller, cancel, status, current, requests, task, sent,
                   landed>>

AwaitAnswer(t) ==
    /\ Runs(t, "delivering")
    /\ Goto(t, "waiting")
    /\ UNCHANGED <<controller, cancel, status, current, requests, task, sent,
                   landed>>

(* An exception leaves the loop over act(): the generator is closed, then the
   turn is finalized.                                                       *)
Unwind(t, s, c) ==
    /\ Goto(t, "unwinding")
    /\ status' = [status EXCEPT ![t] = s]
    /\ current' = [current EXCEPT ![t] = None]
    /\ core' = Abandoned(t, c)
    /\ UNCHANGED <<controller, asked, table, entries, task, sent, landed>>

(* resolve_approval_request, then core_resolved, then perhaps a cancel of the
   task by itself.                                                          *)
ResolveCore(t, a) ==
    LET r == current[t] IN
    /\ core' = [core EXCEPT ![r] = IF @ = "pending" THEN a ELSE @]
    /\ coreResolved' = coreResolved \cup {r}
    /\ cancel' = IF a = CancelTurn THEN [cancel EXCEPT ![t] = "self"] ELSE cancel
    /\ current' = [current EXCEPT ![t] = None]
    /\ Goto(t, "acting")
    /\ UNCHANGED <<controller, status, asked, callbacks, resolution, future, lock,
                   entries, task, sent, landed>>

ReceiveAnswer(t) ==
    /\ Runs(t, "waiting")
    /\ future[current[t]] \in Answers \ Saved
    /\ ResolveCore(t, future[current[t]])

(* approve_always writes the permission before the core is resolved. *)
SaveApproval(t) ==
    /\ Runs(t, "waiting")
    /\ future[current[t]] \in Saved
    /\ Goto(t, "saving")
    /\ UNCHANGED <<controller, cancel, status, current, requests, task, sent,
                   landed>>

ApprovalSaved(t) ==
    /\ Runs(t, "saving")
    /\ ResolveCore(t, future[current[t]])

(* The ways a request fails before it is resolved: the callback could not be
   delivered, or the approval could not be saved (_handle_core_request rejects
   the record); the client rejected it (CallbackRejectedError passes through). *)
RequestFails(t) ==
    /\ \/ Runs(t, "delivering")
       \/ Runs(t, "saving")
    /\ RejectRecords({current[t]})
    /\ Unwind(t, "failed", RejectedCore({current[t]}))
    /\ UNCHANGED cancel

ReceiveRejection(t) ==
    /\ Runs(t, "waiting")
    /\ future[current[t]] = "exception"
    /\ Unwind(t, "failed", core)
    /\ UNCHANGED <<coreResolved, future, cancel>>

(* The request could not even be opened: the core is rejected directly. *)
RefuseRequest(t, r) ==
    /\ Runs(t, "acting")
    /\ asked[r] = t /\ core[r] = "pending" /\ r \notin callbacks
    /\ Unwind(t, "failed", [core EXCEPT ![r] = "rejected"])
    /\ UNCHANGED <<coreResolved, future, cancel>>

(* A tool whose request was answered ends and its effect is completed. *)
ToolResult(t, r) ==
    /\ Runs(t, "acting")
    /\ asked[r] = t /\ core[r] \in Answers /\ effectEntry[r] # "ended"
    /\ effectEntry' = [effectEntry EXCEPT ![r] = "ended"]
    /\ sent' = [sent EXCEPT !.effects = @ \cup {r}]
    /\ UNCHANGED <<controller, turnTask, core, asked, records, callbackEntry,
                   task, landed>>

ActFails(t) ==
    /\ pc[t] = "acting" /\ cancel[t] = "no"
    /\ Unwind(t, "failed", core)
    /\ UNCHANGED <<coreResolved, future, cancel>>

ActCancelled(t) ==
    /\ pc[t] \in InAct /\ cancel[t] # "no"
    /\ Unwind(t, "interrupted", core)
    /\ cancel' = [cancel EXCEPT ![t] = "no"]
    /\ UNCHANGED <<coreResolved, future>>

-----------------------------------------------------------------------------
(* _finalize_turn, one action per await. *)

(* Mutant: effects blocked on a callback are forgotten. *)
UnfinishedRunning(r) == effectEntry[r] = "running"

(* EventProjector.finalize closes every entry still in progress. *)
Unfinished(r) == effectEntry[r] \in {"running", "blocked"}

FinalizeTurn(t, s) ==
    LET open == {r \in Requests : asked[r] = projector /\ Unfinished(r)} IN
    /\ Goto(t, "finalizing")
    /\ status' = [status EXCEPT ![t] = s]
    /\ cancel' = [cancel EXCEPT ![t] = "no"]
    /\ callbackEntry' = [r \in Requests |->
                            IF r \in open /\ callbackEntry[r] = "open"
                            THEN "cancelled" ELSE callbackEntry[r]]
    /\ effectEntry' = [r \in Requests |-> IF r \in open THEN "ended" ELSE effectEntry[r]]
    /\ sent' = [sent EXCEPT !.effects = @ \cup open]
    /\ UNCHANGED <<controller, current, core, asked, records, task, landed>>

ActCompletes(t) ==
    /\ pc[t] = "acting" /\ cancel[t] = "no"
    /\ \A r \in Requests : asked[r] = t =>
            core[r] \in Answers /\ effectEntry[r] = "ended"
    /\ FinalizeTurn(t, "completed")

(* Mutant: the except clause does not record the failure. *)
ActUnwoundSilently(t) ==
    /\ pc[t] = "unwinding"
    /\ FinalizeTurn(t, IF cancel[t] = "no" THEN "completed" ELSE "interrupted")

ActUnwound(t) ==
    /\ pc[t] = "unwinding"
    /\ FinalizeTurn(t, IF cancel[t] = "no" THEN status[t] ELSE "interrupted")

SettleTurn(t) ==
    /\ Runs(t, "finalizing")
    /\ Goto(t, "settled")
    /\ RejectRecords(callbacks)
    /\ core' = RejectedCore(callbacks)
    /\ completed' = completed \cup {t}
    /\ UNCHANGED <<execution, sessionExecution, activeTurn, activeTask, projector,
                   closed, cancel, status, current, asked, table, entries, task,
                   sent, landed>>

GoIdle(t) ==
    /\ Runs(t, "settled")
    /\ Goto(t, "idling")
    /\ activeTurn' = None
    /\ projector' = None
    /\ sessionExecution' = None
    /\ sent' = [sent EXCEPT !.status = "idle"]
    /\ UNCHANGED <<execution, activeTask, completed, closed, cancel, status,
                   current, requests, task, landed>>

CompleteTurn(t) ==
    /\ Runs(t, "idling")
    /\ Goto(t, "completing")
    /\ execution' = Released(t)
    /\ sent' = [sent EXCEPT !.ended = @ \cup {t}]
    /\ UNCHANGED <<slots, cancel, status, current, requests, task, landed>>

(* The finally clause of _run_turn, reached normally or by an exception thrown
   into one of the awaits of _finalize_turn.                                  *)
EndTurn(t) ==
    /\ \/ Runs(t, "completing") /\ Goto(t, "done")
       \/ pc[t] \in Finishing /\ cancel[t] = "thrown" /\ Goto(t, "aborted")
    /\ cancel' = [cancel EXCEPT ![t] = "no"]
    /\ sessionExecution' = None
    /\ execution' = Released(t)
    /\ UNCHANGED <<activeTurn, activeTask, projector, completed, closed, status,
                   current, requests, task, sent, landed>>

-----------------------------------------------------------------------------
(* Requests of the client. *)

Interrupt(t) ==
    /\ "turn/interrupt" \in Methods
    /\ closed = "open"
    /\ activeTurn = t
    /\ IF activeTask = None
       THEN UNCHANGED <<cancel, future>>
       ELSE CancelTask(activeTask)
    /\ UNCHANGED <<controller, pc, status, current, core, asked, callbacks,
                   resolution, coreResolved, lock, entries, task, sent, landed>>

(* steer checks the expected turn, appends the message and waits for it to be
   saved; then it projects the message with whatever projector there is.     *)
Steer(h, t) ==
    /\ "turn/steer" \in Methods
    /\ Idle(h)
    /\ activeTurn = t
    /\ Suspend(h, "steer", t, None, None)
    /\ UNCHANGED <<controller, turnTask, requests, sent, landed>>

ProjectSteer(h) ==
    /\ task[h].op = "steer"
    /\ landed' = IF projector = None THEN landed
                 ELSE landed \cup {<<task[h].turn, projector>>}
    /\ Finish(h)
    /\ UNCHANGED <<controller, turnTask, requests, sent>>

(* Mutant: the record's lock is not taken. *)
AnswerableUnlocked(r) == r \in callbacks \ coreResolved /\ resolution[r] = None

(* answer_callback, under the record's resolution_lock.  An answer to a closed
   or already answered record changes nothing; nor does one whose public entry
   is frozen, since projecting it raises.                                     *)
Answerable(r) ==
    /\ r \in callbacks \ coreResolved
    /\ lock[r] = None
    /\ resolution[r] = None

AnswerCallback(h, r, a) ==
    /\ "callback/result" \in Methods
    /\ Idle(h)
    /\ Answerable(r)
    /\ IF asked[r] = projector
       THEN /\ callbackEntry[r] = "open"
            /\ callbackEntry' = [callbackEntry EXCEPT ![r] = "answered"]
            /\ effectEntry' = [effectEntry EXCEPT ![r] = "running"]
            /\ Suspend(h, "effect", None, r, a)
       ELSE /\ UNCHANGED entries
            /\ Suspend(h, "status", None, r, a)
    /\ lock' = [lock EXCEPT ![r] = h]
    /\ UNCHANGED <<controller, turnTask, core, asked, callbacks, resolution,
                   future, coreResolved, sent, landed>>

(* Mutant: the future is set before the resolution is recorded. *)
AnswerEffectEarly(h) ==
    /\ task[h].op = "effect"
    /\ Resume(h, "status")
    /\ future' = [future EXCEPT ![task[h].req] = task[h].ans]
    /\ UNCHANGED <<controller, turnTask, core, asked, table, coreResolved, entries,
                   sent, landed>>

(* The second projected update: the tool effect is running again. *)
AnswerEffect(h) ==
    /\ task[h].op = "effect"
    /\ Resume(h, "status")
    /\ sent' = [sent EXCEPT !.late = IF task[h].req \in sent.effects
                                     THEN @ \cup {task[h].req} ELSE @]
    /\ UNCHANGED <<controller, turnTask, requests, landed>>

(* Mutant: the status is sent whether or not a turn is active. *)
AnswerStatusAlways(h) ==
    /\ task[h].op = "status"
    /\ Resume(h, "settle")
    /\ sent' = [sent EXCEPT !.status = "running"]
    /\ UNCHANGED <<controller, turnTask, requests, landed>>

AnswerStatus(h) ==
    /\ task[h].op = "status" /\ activeTurn # None
    /\ Resume(h, "settle")
    /\ SendStatus("running")
    /\ UNCHANGED <<controller, turnTask, requests, landed>>

AnswerAccepted(h) ==
    LET r == task[h].req IN
    /\ \/ task[h].op = "settle"
       \/ task[h].op = "status" /\ activeTurn = None
    /\ resolution' = [resolution EXCEPT ![r] = task[h].ans]
    /\ future' = [future EXCEPT ![r] = IF @ = "pending" THEN task[h].ans ELSE @]
    /\ lock' = [lock EXCEPT ![r] = None]
    /\ Finish(h)
    /\ UNCHANGED <<controller, turnTask, core, asked, callbacks, coreResolved,
                   entries, sent, landed>>

RejectCallback(r) ==
    /\ "callback/result" \in Methods
    /\ closed = "open"
    /\ Answerable(r)
    /\ resolution' = [resolution EXCEPT ![r] = "error"]
    /\ RejectRecords({r})
    /\ core' = RejectedCore({r})
    /\ UNCHANGED <<controller, turnTask, asked, callbacks, lock, entries, task,
                   sent, landed>>

-----------------------------------------------------------------------------
(* Lifecycle operations (clear, compact, rewind): they reserve the execution,
   change the core, then reset the controller.                              *)

BeginLifecycle(h) ==
    /\ "lifecycle" \in Methods
    /\ Idle(h)
    /\ execution = None
    /\ execution' = h
    /\ Suspend(h, "lifecycle", None, None, None)
    /\ UNCHANGED <<slots, turnTask, requests, sent, landed>>

(* reset -> close: cancel the task that is still sending turn/completed. *)
CloseTurns(h) ==
    /\ task[h].op = "lifecycle"
    /\ ~TaskDone
    /\ CancelTask(activeTask)
    /\ Resume(h, "closing")
    /\ UNCHANGED <<controller, pc, status, current, core, asked, callbacks,
                   resolution, coreResolved, lock, entries, sent, landed>>

(* The controller forgets everything; the operation answers with a replacement
   state, idle, that the client adopts.                                       *)
ResetTurns(h) ==
    /\ task[h].op \in {"lifecycle", "closing"}
    /\ TaskDone
    /\ core' = RejectedCore(callbacks)
    /\ RejectRecords(callbacks)
    /\ callbacks' = {}
    /\ activeTurn' = None /\ activeTask' = None /\ projector' = None
    /\ sessionExecution' = None
    /\ execution' = IF execution \in {h, sessionExecution} THEN None ELSE execution
    /\ completed' = {}
    /\ sent' = [sent EXCEPT !.status = "idle"]
    /\ Finish(h)
    /\ UNCHANGED <<closed, turnTask, asked, resolution, lock, entries, landed>>

LifecycleFails(h) ==
    /\ task[h].op = "lifecycle"
    /\ execution' = Released(h)
    /\ Finish(h)
    /\ UNCHANGED <<slots, turnTask, requests, sent, landed>>

-----------------------------------------------------------------------------
(* The connection goes away: every request task is cancelled where it waits.
   Locks and lifecycle reservations are released by their context managers;
   a turn/start whose response was not yet written keeps its reservation.   *)

CancelRequests ==
    /\ task' = [h \in Handlers |-> IdleTask]
    /\ lock' = [r \in Requests |-> None]
    /\ execution' = IF execution \in Handlers THEN None ELSE execution

Disconnect ==
    /\ "disconnect" \in Methods
    /\ \E h \in Handlers : task[h].op # "idle"
    /\ CancelRequests
    /\ UNCHANGED <<slots, turnTask, core, asked, callbacks, resolution, future,
                   coreResolved, entries, sent, landed>>

(* Shutdown cancels the requests and the turn task, waits up to five seconds
   for it, and gives the reservation back whether or not it has ended.       *)
Shutdown ==
    /\ "shutdown" \in Methods
    /\ closed = "open"
    /\ closed' = "closing"
    /\ CancelRequests
    /\ IF activeTask = None
       THEN UNCHANGED <<cancel, future>>
       ELSE CancelTask(activeTask)
    /\ UNCHANGED <<sessionExecution, activeTurn, activeTask, projector, completed,
                   pc, status, current, core, asked, callbacks, resolution,
                   coreResolved, entries, sent, landed>>

FinishShutdown ==
    /\ closed = "closing"
    /\ closed' = "closed"
    /\ execution' = IF sessionExecution = None THEN execution
                    ELSE Released(sessionExecution)
    /\ sessionExecution' = None
    /\ RejectRecords(callbacks)
    /\ core' = RejectedCore(callbacks)
    /\ UNCHANGED <<activeTurn, activeTask, projector, completed, turnTask, asked,
                   table, entries, task, sent, landed>>

-----------------------------------------------------------------------------
TurnStep(t) ==
    \/ RunTurn(t) \/ AnnounceTurn(t) \/ EnterAct(t) \/ DieBeforeTry(t)
    \/ \E r \in Requests : OpenCallback(t, r) \/ ToolResult(t, r)
    \/ MarkBlocked(t) \/ DeliverCallback(t) \/ AwaitAnswer(t)
    \/ ReceiveAnswer(t) \/ SaveApproval(t) \/ ApprovalSaved(t)
    \/ ReceiveRejection(t) \/ ActCancelled(t) \/ ActCompletes(t) \/ ActUnwound(t)
    \/ SettleTurn(t) \/ GoIdle(t) \/ CompleteTurn(t) \/ EndTurn(t)

(* Steps nothing forces the turn to take: a tool asks, something raises. *)
TurnMay(t) ==
    \/ \E r \in Requests : AskCore(t, r) \/ RefuseRequest(t, r)
    \/ RequestFails(t) \/ ActFails(t)

HandlerStep(h) ==
    \/ AfterResponse(h) \/ ProjectSteer(h)
    \/ AnswerEffect(h) \/ AnswerStatus(h) \/ AnswerAccepted(h)
    \/ CloseTurns(h) \/ ResetTurns(h)

ClientStep ==
    \/ \E h \in Handlers, t \in Turns : TurnStart(h, t) \/ Steer(h, t)
    \/ \E t \in Turns : Interrupt(t) \/ FireLoop(t)
    \/ \E h \in Handlers, r \in Requests, a \in Answers : AnswerCallback(h, r, a)
    \/ \E r \in Requests : RejectCallback(r)
    \/ \E h \in Handlers : BeginLifecycle(h) \/ LifecycleFails(h)
    \/ Disconnect \/ Shutdown \/ FinishShutdown

Next ==
    \/ \E t \in Turns : TurnStep(t) \/ TurnMay(t)
    \/ \E h \in Handlers : HandlerStep(h)
    \/ ClientStep

Spec == Init /\ [][Next]_vars

(* The event loop runs every task that is ready; a client that was delivered a
   callback answers it as long as it stays open.                              *)
Fairness ==
    /\ \A t \in Turns : WF_vars(TurnStep(t))
    /\ \A h \in Handlers : WF_vars(HandlerStep(h))
    /\ \A r \in Requests :
         SF_vars(\E h \in Handlers, a \in Answers : AnswerCallback(h, r, a))

FairSpec == Spec /\ Fairness

-----------------------------------------------------------------------------
(* Properties *)

Live == InAct \cup Starting \cup {"unwinding"} \cup {"finalizing", "settled", "idling"}

(* A session has at most one active turn, and no lifecycle operation changes
   the core under it: two turn tasks are never both under way, and a turn task
   under way excludes a reserved lifecycle operation (SessionExecution).     *)
OneActiveTurn ==
    \A t \in Turns : pc[t] \in Live =>
        /\ \A u \in Turns : pc[u] \in Live => u = t
        /\ \A h \in Handlers : task[h].op \notin {"lifecycle", "closing"}

(* What the core is told is what the client was told was accepted: a request
   resolved with an answer is one whose record holds that same answer, even
   when answers, rejections, interrupts and finalization interleave.         *)
CoreGetsAcceptedAnswer ==
    \A r \in Requests : core[r] \in Answers => resolution[r] = core[r]

(* An accepted answer is final: a later, conflicting answer or rejection never
   replaces the resolution of a callback (answer_callback, reject_callback). *)
ResolutionIsFinal ==
    [][\A r \in Requests : resolution[r] # None => resolution'[r] = resolution[r]]_vars

(* Once turn/completed has been sent, nothing of the turn is left open: no tool
   waits on the core, no callback entry is open, no record can be resolved.  *)
EndedTurnIsClosed ==
    \A t \in sent.ended, r \in Requests : asked[r] = t =>
        /\ core[r] # "pending"
        /\ callbackEntry[r] # "open" /\ effectEntry[r] = "ended"
        /\ r \in callbacks => r \in coreResolved

(* The last status event agrees with the controller: with no active turn the
   session has been announced idle, so a late answer cannot leave clients
   showing a running session (_emit_status).                                  *)
IdleIsAnnounced ==
    activeTurn = None => sent.status = "idle"

(* A turn recorded as completed, rather than interrupted or failed, had every
   core request answered, and public history says so.                        *)
CompletedTurnWasAnswered ==
    \A t \in Turns, r \in Requests :
        t \in sent.ended /\ status[t] = "completed" /\ asked[r] = t =>
            core[r] \in Answers /\ callbackEntry[r] = "answered"

(* Every turn that starts reaches the end of its task, with a client that keeps
   answering: the session never stays busy (checked without interrupts,
   disconnection and shutdown, which can leave it busy: see README.md).  *)
StartedTurnEnds ==
    \A t \in Turns : pc[t] = "created" ~> t \in sent.ended /\ pc[t] \in Over /\ execution # t

(* Every request a tool waits on is eventually given an outcome. *)
AskedIsSettled ==
    \A r \in Requests : core[r] = "pending" ~> core[r] \notin {"none", "pending"}

-----------------------------------------------------------------------------
(* What the documentation says and the code does not ensure; each is refuted by
   a run of its own.  Line numbers are of docs/adr/0009-app-server-boundary.md. *)

(* 370: "Transport detachment only removes that connection's subscriptions and
   callback claims": a reserved turn still has the request that will start it. *)
ReservationHasOwner ==
    \A t \in Turns : pc[t] = "reserved" /\ closed = "open" =>
        \E h \in Handlers : task[h].op = "start" /\ task[h].turn = t

(* 206: "Steering and interruption include the expected turn identity so stale
   control requests fail instead of affecting a new turn."                    *)
SteerStaysInItsTurn == \A pair \in landed : pair[1] = pair[2]

(* 255: "A completed entry is immutable": no update of a tool effect is sent
   after the update that completed it.                                        *)
CompletedEntryIsImmutable == sent.late = {}
=============================================================================
