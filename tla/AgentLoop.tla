------------------------------ MODULE AgentLoop ------------------------------
(* One agent loop (vibe/core/agent_loop/_loop.py): the conversation it keeps, the
   turns it runs, the tool calls it executes concurrently and the permissions it
   asks for (agent_loop_hooks.py, tools/permissions.py, _request_broker.py).

   A turn is a generator that the turn controller iterates; between two events
   the controller handles the last one, and an interrupt may find it there.  Tool
   calls are tasks of their own.  A message is its role and its calls.         *)
EXTENDS Integers, FiniteSets, Sequences, FiniteSetsExt, SequencesExt

CONSTANTS
    Tools,       \* the tools the model may call
    MaxTurns,    \* bound: turns started
    MaxCalls,    \* bound: tool calls ever made
    MaxBatch,    \* bound: tool calls of an answer
    MaxExtras    \* bound: steered and injected messages, retries, compactions, clearings

ASSUME AgentAssumption == {MaxTurns, MaxCalls, MaxBatch, MaxExtras} \subseteq Nat

Calls == 1 .. MaxCalls

VARIABLES
    messages,   \* self.messages, without the system prompt
    pc,         \* where act() is
    call,       \* per call: its tool and where its task is
    lockq,      \* PermissionStore.lock: the holder first, then the waiters
    rules,      \* PermissionStore: the tools approved for the session
    loose,      \* the generator of a batch was dropped and is not closed yet
    reactive,   \* _reactive_recovery_used
    clear,      \* _pending_clear_context
    stop,       \* user_cancelled
    count,      \* turns, calls and extras so far
    answered,   \* history: the last turn ended by itself
    always,     \* history: the tools the user has approved for the session
    steered,    \* history: a message was steered
    mixed,      \* history: a message was steered between a call and its result
    abandoned   \* history: a turn ended while tool calls were running

vars == <<messages, pc, call, lockq, rules, loose, reactive, clear, stop, count,
          answered, always, steered, mixed, abandoned>>

User == [role |-> "user", calls |-> {}]
Summary == [role |-> "summary", calls |-> {}]
Assistant(cs) == [role |-> "assistant", calls |-> cs]
Result(c) == [role |-> "tool", calls |-> {c}]

Message ==
    {User, Summary} \cup {Assistant(cs) : cs \in SUBSET Calls} \cup {Result(c) : c \in Calls}

Done == [tool |-> "none", at |-> "done"]
Open == {"new", "wait", "asked", "run", "failing", "cancelled"}
Running == {c \in Calls : call[c].at \in Open}

TypeOK ==
    /\ messages \in Seq(Message)
    /\ pc \in {"idle", "before", "compact", "recompact", "call", "model", "batch",
               "cancelling", "saving", "hooks", "final"}
    /\ call \in [Calls -> [tool : Tools \cup {"none"}, at : Open \cup {"none", "done"}]]
    /\ lockq \in Seq(Calls) /\ rules \subseteq Tools /\ always \subseteq Tools
    /\ {loose, reactive, clear, stop, answered, steered, mixed, abandoned} \subseteq BOOLEAN
    /\ count \in [turns : 0 .. MaxTurns, calls : 0 .. MaxCalls, extras : 0 .. MaxExtras]

Init ==
    /\ messages = <<>> /\ pc = "idle" /\ lockq = <<>>
    /\ call = [c \in Calls |-> [tool |-> "none", at |-> "none"]]
    /\ rules = {} /\ always = {} /\ answered = FALSE
    /\ loose = FALSE /\ reactive = FALSE /\ clear = FALSE /\ stop = FALSE
    /\ steered = FALSE /\ mixed = FALSE /\ abandoned = FALSE
    /\ count = [turns |-> 0, calls |-> 0, extras |-> 0]

history == <<answered, always, steered, mixed, abandoned>>
batch == <<call, lockq, rules, loose>>
flags == <<reactive, clear, stop>>

-----------------------------------------------------------------------------
(* _fill_missing_tool_responses: the results that stand right after an answer are
   counted, and when they are fewer than its calls the missing ones are added
   behind them.                                                              *)
ResultsEnd(ms, i) ==
    Max({k \in i .. Len(ms) : \A j \in i + 1 .. k : ms[j].role = "tool"})

(* Mutants: nothing is missing once something was answered; one result stands for
   all that are missing.                                                     *)
MissingIfNone(ms, i) ==
    IF UNION {ms[k].calls : k \in i + 1 .. ResultsEnd(ms, i)} = {} THEN ms[i].calls ELSE {}
ResultsTogether(cs) == IF cs = {} THEN <<>> ELSE <<[role |-> "tool", calls |-> cs]>>

MissingAfter(ms, i) ==
    LET responded == UNION {ms[k].calls : k \in i + 1 .. ResultsEnd(ms, i)} IN
    IF Cardinality(responded) < Cardinality(ms[i].calls) THEN ms[i].calls \ responded ELSE {}

(* The results of calls, in the order of the calls. *)
NthCall(cs, k) == CHOOSE c \in cs : Cardinality({d \in cs : d <= c}) = k
Results(cs) == [k \in 1 .. Cardinality(cs) |-> Result(NthCall(cs, k))]

Filled(ms) ==
    LET Behind(k) == UNION {MissingAfter(ms, i) :
                               i \in {j \in 1 .. k : ms[j].role = "assistant" /\ ResultsEnd(ms, j) = k}}
    IN FlattenSeq([k \in DOMAIN ms |-> <<ms[k]>> \o Results(Behind(k))])

(* select_model_context: what the model gets starts at the last summary. *)
Context(ms) ==
    LET marks == {k \in DOMAIN ms : ms[k].role = "summary"} IN
    IF marks = {} THEN ms ELSE SubSeq(ms, Max(marks), Len(ms))

Extra == count.extras < MaxExtras /\ count' = [count EXCEPT !.extras = @ + 1]

-----------------------------------------------------------------------------
(* act and _conversation_loop. *)

(* Mutant: the history is not cleaned. *)
StartTurnUncleaned ==
    /\ pc = "idle" /\ count.turns < MaxTurns
    /\ count' = [count EXCEPT !.turns = @ + 1]
    /\ messages' = Append(messages, User)
    /\ pc' = "before" /\ reactive' = FALSE /\ stop' = FALSE
    /\ answered' = FALSE /\ UNCHANGED <<batch, clear, always, steered, mixed, abandoned>>

(* A turn starts: missing results are filled in and the prompt is appended. *)
StartTurn ==
    /\ pc = "idle" /\ count.turns < MaxTurns
    /\ count' = [count EXCEPT !.turns = @ + 1]
    /\ messages' = Append(Filled(messages), User)
    /\ pc' = "before" /\ reactive' = FALSE /\ stop' = FALSE
    /\ answered' = FALSE /\ UNCHANGED <<batch, clear, always, steered, mixed, abandoned>>

(* The middleware stops the turn, injects a message, compacts, or does nothing. *)
BeforeTurn ==
    /\ pc = "before" /\ stop' = FALSE
    /\ \/ pc' = "final" /\ UNCHANGED <<messages, count>>
       \/ pc' = "call" /\ UNCHANGED <<messages, count>>
       \/ pc' = "call" /\ Extra /\ messages' = Append(messages, User)
       \/ pc' = "compact" /\ Extra /\ messages' = Filled(messages)
    /\ UNCHANGED <<batch, reactive, clear, history>>

(* The summary arrives and becomes the new start of the context; or it fails. *)
Compacted ==
    /\ pc \in {"compact", "recompact"}
    /\ \/ /\ pc' = IF pc = "compact" THEN "call" ELSE "before"
          /\ messages' = Append(messages, Summary)
       \/ pc' = "final" /\ UNCHANGED messages
    /\ UNCHANGED <<batch, flags, count, history>>

CallModel ==
    /\ pc = "call" /\ pc' = "model"
    /\ UNCHANGED <<messages, batch, flags, count, history>>

NewCalls(n) == count.calls + 1 .. count.calls + n

(* The model answers without calling tools. *)
AnswerText ==
    /\ pc = "model" /\ pc' = "saving"
    /\ messages' = Append(messages, Assistant({}))
    /\ UNCHANGED <<batch, flags, count, history>>

(* It calls tools.  A call that cannot be resolved is answered at once; the rest
   become tasks, unless the queue of an earlier batch is still in place.      *)
AnswerCalls ==
    /\ pc = "model"
    /\ \E n \in 1 .. MaxBatch : \E tool \in [NewCalls(n) -> Tools], bad \in SUBSET NewCalls(n) :
          LET good == NewCalls(n) \ bad IN
          /\ count.calls + n <= MaxCalls /\ count' = [count EXCEPT !.calls = @ + n]
          /\ messages' = Append(messages, Assistant(NewCalls(n))) \o Results(bad)
          /\ pc' = IF good = {} THEN "saving" ELSE IF loose THEN "final" ELSE "batch"
          /\ call' = IF pc' # "batch" THEN call
                     ELSE [c \in Calls |-> IF c \in good THEN [tool |-> tool[c], at |-> "new"]
                                           ELSE call[c]]
    /\ UNCHANGED <<lockq, rules, loose, flags, history>>

(* The call fails (what has arrived is kept without its calls), or the answer is a
   refusal (kept with them).                                                 *)
ModelFails ==
    /\ pc = "model" /\ pc' = "final"
    /\ \/ messages' \in {messages, Append(messages, Assistant({}))} /\ UNCHANGED count
       \/ /\ count.calls < MaxCalls /\ count' = [count EXCEPT !.calls = @ + 1]
          /\ messages' = Append(messages, Assistant(NewCalls(1)))
    /\ UNCHANGED <<batch, flags, history>>

(* The context is too long: compacted once per turn, and tried again. *)
ContextTooLong ==
    /\ pc = "model"
    /\ IF reactive THEN /\ pc' = "final"
                        /\ UNCHANGED <<messages, reactive>>
       ELSE /\ pc' = "recompact" /\ reactive' = TRUE /\ messages' = Filled(messages)
    /\ UNCHANGED <<batch, clear, stop, count, history>>

(* _run_tools_concurrently: all the tasks are done. *)
BatchDone ==
    /\ pc = "batch" /\ Running = {}
    /\ pc' = "saving"
    /\ UNCHANGED <<messages, batch, flags, count, history>>

(* Mutant: the results of the tools are not sent to the model. *)
AfterSaveStopping ==
    /\ pc = "saving"
    /\ pc' = "hooks"
    /\ UNCHANGED <<messages, batch, flags, count, history>>

(* After the save: the context is cleared if that was asked for.  Else the plan
   the user has edited meanwhile is queued as a message (_drain_pending_injections),
   and the turn goes on if it was or the last message is a tool's, unless the user
   has cancelled a call.                                                     *)
AfterSave ==
    /\ pc = "saving"
    /\ \/ /\ clear /\ clear' = FALSE
          /\ messages' = <<User>> /\ pc' = "before" /\ UNCHANGED count
       \/ /\ ~clear /\ UNCHANGED <<messages, clear, count>>
          /\ pc' = IF stop THEN "final"
                   ELSE IF Last(messages).role = "tool" THEN "before" ELSE "hooks"
       \/ /\ ~clear /\ UNCHANGED clear
          /\ Extra /\ messages' = Append(messages, User)
          /\ pc' = IF stop THEN "final" ELSE "before"
    /\ UNCHANGED <<batch, reactive, stop, history>>

(* The post-agent hooks ask for another round, or the turn is over. *)
PostHooks ==
    /\ pc = "hooks"
    /\ \/ pc' = "before" /\ Extra /\ messages' = Append(messages, User) /\ UNCHANGED answered
       \/ pc' = "final" /\ answered' = TRUE /\ UNCHANGED <<messages, count>>
    /\ UNCHANGED <<batch, flags, always, steered, mixed, abandoned>>

Finish ==
    /\ pc = "final" /\ pc' = "idle"
    /\ UNCHANGED <<messages, batch, flags, count, history>>

(* inject_user_context for turn/steer: at any moment of a turn. *)
Steer ==
    /\ pc # "idle" /\ Extra
    /\ messages' = Append(messages, User)
    /\ steered' = TRUE
    /\ mixed' = (mixed \/ pc \in {"batch", "cancelling"})
    /\ UNCHANGED <<pc, batch, flags, answered, always, abandoned>>

-----------------------------------------------------------------------------
(* The task of a tool call. *)

Step(c, at) == call' = [call EXCEPT ![c].at = at]

Record(c) ==
    /\ messages' = Append(messages, Result(c))
    /\ call' = [call EXCEPT ![c] = Done]

loop == <<pc, loose, reactive, count, answered, steered, mixed, abandoned>>

(* The input is prepared and the pre-tool hooks run: the call is answered there;
   or it runs at once, because the user has switched permissions off; or it looks
   for permission.                                                           *)
PreTool(c) ==
    /\ call[c].at = "new"
    /\ \/ Record(c) /\ UNCHANGED lockq
       \/ Step(c, "run") /\ UNCHANGED <<messages, lockq>>
       \/ Step(c, "wait") /\ lockq' = Append(lockq, c) /\ UNCHANGED messages
    /\ UNCHANGED <<loop, rules, clear, stop, always>>

(* Mutant: permission is looked up before the lock is taken. *)
DecideEarly(c) ==
    /\ call[c].at = "wait"
    /\ \/ Step(c, "run") /\ UNCHANGED messages
       \/ Record(c)
       \/ call[c].tool \notin rules /\ Step(c, "asked") /\ UNCHANGED messages
    /\ lockq' = IF call'[c].at = "asked" THEN lockq ELSE Remove(lockq, c)
    /\ UNCHANGED <<loop, rules, clear, stop, always>>

(* _should_execute_tool, with the lock held: the configuration and the arguments
   allow the call or forbid it, or the user is asked, unless a rule of the session
   covers it; the lock is kept until the answer.                              *)
Decide(c) ==
    /\ call[c].at = "wait" /\ Head(lockq) = c
    /\ \/ Step(c, "run") /\ UNCHANGED messages
       \/ Record(c)
       \/ call[c].tool \notin rules /\ Step(c, "asked") /\ UNCHANGED messages
    /\ lockq' = IF call'[c].at = "asked" THEN lockq ELSE Tail(lockq)
    /\ UNCHANGED <<loop, rules, clear, stop, always>>

(* _request_approval of the turn controller: yes, yes for the session, or no; a
   no without feedback also cancels the turn's next round.                    *)
Approve(c) ==
    /\ pc = "batch" /\ call[c].at = "asked"
    /\ \/ UNCHANGED <<rules, always>>
       \/ rules' = rules \cup {call[c].tool} /\ always' = always \cup {call[c].tool}
    /\ Step(c, "run") /\ lockq' = Tail(lockq)
    /\ UNCHANGED <<loop, messages, clear, stop>>

Deny(c) ==
    /\ pc = "batch" /\ call[c].at = "asked"
    /\ Record(c) /\ lockq' = Tail(lockq)
    /\ stop' \in {stop, TRUE}
    /\ UNCHANGED <<loop, rules, clear, always>>

(* The tool and its hooks end; exit_plan_mode may ask for a cleared context. *)
ToolSucceeds(c) ==
    /\ call[c].at = "run" /\ Record(c)
    /\ \/ UNCHANGED <<clear, count>>
       \/ Extra /\ clear' = TRUE
    /\ UNCHANGED <<pc, loose, reactive, answered, steered, mixed, abandoned, lockq, rules, stop, always>>

(* The tool raises, and the hooks that see the failure begin. *)
ToolFails(c) ==
    /\ call[c].at = "run" /\ Step(c, "failing")
    /\ UNCHANGED <<loop, messages, lockq, rules, clear, stop, always>>

(* The hooks of a failed or a cancelled call end. *)
FailureRecorded(c) ==
    /\ call[c].at \in {"failing", "cancelled"} /\ Record(c)
    /\ UNCHANGED <<loop, lockq, rules, clear, stop, always>>

-----------------------------------------------------------------------------
(* Interrupts. *)

(* The tasks are cancelled: one in its pre-tool hooks, or in the hooks of its
   failure, ends without a result; the others still record theirs.            *)
CancelTasks ==
    /\ call' = [c \in Calls |->
                  CASE call[c].at \in {"new", "failing"} -> Done
                    [] call[c].at \in {"wait", "asked", "run"} -> [call[c] EXCEPT !.at = "cancelled"]
                    [] OTHER -> call[c]]
    /\ lockq' = <<>>

(* Mutant: cancelled tasks are not waited for. *)
InterruptInsideHasty ==
    /\ pc \in {"before", "compact", "recompact", "call", "model", "batch", "saving", "hooks"}
    /\ pc' = "final"
    /\ IF pc = "batch" THEN CancelTasks ELSE UNCHANGED <<call, lockq>>
    /\ UNCHANGED <<messages, rules, loose, flags, count, history>>

(* The interrupt finds the turn inside the generator; in a batch it cancels the
   tasks and waits for them.                                                 *)
InterruptInside ==
    /\ pc \in {"before", "compact", "recompact", "call", "model", "batch", "saving", "hooks"}
    /\ IF pc = "batch" THEN pc' = "cancelling" /\ CancelTasks
       ELSE pc' = "final" /\ UNCHANGED <<call, lockq>>
    /\ UNCHANGED <<messages, rules, loose, flags, count, history>>

TasksCancelled ==
    /\ pc = "cancelling" /\ Running = {}
    /\ pc' = "final"
    /\ UNCHANGED <<messages, batch, flags, count, history>>

(* It finds the controller handling an event of a batch (an approval, say): the
   generator is dropped, the turn is over, and only later does the event loop
   close what was dropped (CloseDropped).                                     *)
InterruptOutside ==
    /\ pc = "batch"
    /\ pc' = "idle" /\ loose' = TRUE
    /\ abandoned' = (abandoned \/ Running # {})
    /\ UNCHANGED <<messages, call, lockq, rules, flags, count, answered, always, steered, mixed>>

CloseDropped ==
    /\ loose /\ loose' = FALSE
    /\ CancelTasks
    /\ UNCHANGED <<messages, pc, rules, flags, count, history>>

-----------------------------------------------------------------------------
Next ==
    \/ StartTurn \/ BeforeTurn \/ Compacted \/ CallModel
    \/ AnswerText \/ AnswerCalls \/ ModelFails \/ ContextTooLong
    \/ BatchDone \/ AfterSave \/ PostHooks \/ Finish \/ Steer
    \/ InterruptInside \/ TasksCancelled \/ InterruptOutside \/ CloseDropped
    \/ \E c \in Calls :
          \/ PreTool(c) \/ Decide(c) \/ Approve(c) \/ Deny(c)
          \/ ToolSucceeds(c) \/ ToolFails(c) \/ FailureRecorded(c)

Spec == Init /\ [][Next]_vars

-----------------------------------------------------------------------------
(* Whatever was interrupted, failed, refused or compacted before, the model gets
   each of its calls with exactly one result in the run of results right behind
   the answer that made them, and every result stands in such a run, so that none
   comes without its call or a second time.  (Unless a message was steered into a
   running batch, or a turn was interrupted while its controller handled an
   event and calls were running: see the README.)                            *)
ContextWellFormed ==
    pc = "call" /\ ~mixed /\ ~abandoned =>
        LET sent == Context(messages) IN
        \A i \in DOMAIN sent :
            /\ sent[i].role = "assistant" =>
                  /\ ResultsEnd(sent, i) - i = Cardinality(sent[i].calls)
                  /\ UNION {sent[k].calls : k \in i + 1 .. ResultsEnd(sent, i)} = sent[i].calls
            /\ sent[i].role = "tool" =>
                  \E j \in 1 .. i - 1 :
                     sent[j].role = "assistant" /\ i <= ResultsEnd(sent, j)

(* Even with steering, no call the model made is sent back to it unanswered. *)
EveryCallAnswered ==
    pc = "call" /\ ~abandoned =>
        LET sent == Context(messages) IN
        \A i \in DOMAIN sent : \A c \in sent[i].calls :
            sent[i].role = "assistant" => \E k \in i + 1 .. Len(sent) : sent[k] = Result(c)

(* The user has at most one approval to answer at a time, and is not asked again
   about a tool that was approved for the session, also when calls of one batch
   ask for it concurrently.                                                  *)
AskedOnce ==
    LET asked == {c \in Calls : call[c].at = "asked"} IN
    Cardinality(asked) <= 1 /\ \A c \in asked : call[c].tool \notin always

(* A turn that ended by itself ended with an answer: nothing a tool returned is
   left without one.                                                         *)
AnsweredTurnIsAnswered ==
    answered /\ ~steered /\ ~abandoned => Last(messages) = Assistant({})

(* When no turn is running, no tool is. *)
NothingRunsBetweenTurns == pc \in {"idle", "final"} /\ ~abandoned => Running = {}
=============================================================================
