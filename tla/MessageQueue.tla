---------------------------- MODULE MessageQueue ----------------------------
(* The terminal's queue of what the user types while a turn, a shell line or a
   drain is under way (vibe/cli/textual_ui/message_queue.py), with the handlers
   of VibeApp that fill it, empty it and start what it holds.

   Everything runs on one event loop.  An action is what one task does between
   two awaits that suspend; where the drain goes on without suspending
   (DrainRuns) no other task takes a step.                                   *)
EXTENDS Integers, FiniteSets, Sequences, SequencesExt

CONSTANTS
    Prompts,     \* texts for the model
    Pictures,    \* the prompts that carry images
    Bashes,      \* lines that start with "!"
    Commands,    \* slash commands and deferred settings
    Flushing,    \* the commands that reset the conversation
    Reverting,   \* the commands whose discarding has something to undo
    Typed,       \* bound: what is typed in one behaviour, as a set of choices
    None

Items == Prompts \cup Bashes \cup Commands

ASSUME QueueAssumption ==
    /\ Pictures \subseteq Prompts
    /\ Flushing \subseteq Commands
    /\ Reverting \subseteq Commands
    /\ Prompts \cap Bashes = {} /\ Prompts \cap Commands = {} /\ Bashes \cap Commands = {}
    /\ Typed \subseteq SUBSET Items
    /\ None \notin Items

(* The handler of the app's message pump, and the side channel's task, which
   enqueues only commands.                                                   *)
Enqueuers == {"pump", "channel"}

(* A turn of the terminal's own task, or one the server started by itself. *)
Turns == {"task", "unsolicited"}

VARIABLES
    items,       \* MessageQueue._items
    paused,      \* MessageQueue._paused
    widgets,     \* QueueController._widgets, each named by its item
    header,      \* whether _header is set
    enabled,     \* _drain_enabled
    drain,       \* the drain task: where it is suspended and its locals
    enq,         \* the tasks that enqueue
    worker,      \* the worker of Ctrl+C
    agent,       \* the job the terminal knows of: a turn or a compaction
    closing,     \* the turns in _finalize_turn_ui: no longer known, no drain started yet
    bash,        \* whose shell line is running
    picker,      \* a picker hides the input
    sees,        \* the active model supports images
    overlooked,  \* history: a job ended without a look at what was queued, and no
                 \* handler has looked since
    outcome,     \* history: what became of each item
    entered,     \* history: prompts in the order they entered the queue
    said         \* history: queued prompts in the order they reached the server

vars == <<items, paused, widgets, header, enabled, drain, enq, worker, agent,
          closing, bash, overlooked, picker, sees, outcome, entered, said>>

queueVars == <<items, paused, widgets, header>>
jobVars   == <<agent, closing, bash, overlooked>>
uiVars    == <<picker, sees>>
history   == <<outcome, entered, said>>

NoDrain  == [pc |-> "off", pending |-> <<>>, item |-> None, widget |-> None]
Idle     == [pc |-> "idle", item |-> None, resume |-> FALSE]

(* Where the drain is between two statements and not suspended. *)
DrainRuns == drain.pc \in {"top", "consume", "flush", "bashwidget", "gate"}

(* Another task than the drain takes a step; after Shutdown the app exits. *)
LoopIsFree == enabled /\ ~DrainRuns

(* "over" is run, given back to the input, discarded on request, flushed by a
   command that resets the conversation, or refused with an error message; the
   others are what the user is not told: lost with a drain that died, dropped
   for want of a widget, or not sent because a turn began.                    *)
Outcomes == {"new", "accepted", "over", "lost", "dropped", "unsent"}

Pair == [item : Prompts, widget : Prompts]

TypeOK ==
    /\ items \in Seq(Items) /\ widgets \in Seq(Items)
    /\ paused \in BOOLEAN /\ header \in BOOLEAN /\ enabled \in BOOLEAN
    /\ drain.pc \in {"off", "ready", "top", "picker", "unhead", "consume", "flush",
                     "flushing", "flushgate", "bashwidget", "unbash", "bash", "uncmd",
                     "cmdturn", "cmdpicker", "gate", "inject", "tail", "turn"}
    /\ drain.pending \in Seq(Pair)
    /\ drain.item \in Items \cup {None} /\ drain.widget \in Items \cup {None}
    /\ enq \in [Enqueuers -> [pc : {"idle", "prepare", "header", "mount", "direct"},
                              item : Items \cup {None}, resume : BOOLEAN]]
    /\ worker \in [pc : {"idle", "discard", "remove"}, item : Items \cup {None}]
    /\ agent \in {"idle", "compact"} \cup Turns /\ closing \subseteq Turns
    /\ overlooked \in BOOLEAN
    /\ bash \in {"idle", "user", "drain"}
    /\ picker \in BOOLEAN /\ sees \in BOOLEAN
    /\ outcome \in [Items -> Outcomes]
    /\ entered \in Seq(Prompts) /\ said \in Seq(Prompts)

Init ==
    /\ items = <<>> /\ paused = FALSE /\ widgets = <<>> /\ header = FALSE
    /\ enabled = TRUE /\ drain = NoDrain
    /\ enq = [e \in Enqueuers |-> Idle]
    /\ worker = [pc |-> "idle", item |-> None]
    /\ agent = "idle" /\ closing = {} /\ bash = "idle" /\ overlooked = FALSE
    /\ picker = FALSE /\ sees \in BOOLEAN
    /\ \E typed \in Typed :
          outcome = [i \in Items |-> IF i \in typed THEN "new" ELSE "over"]
    /\ entered = <<>> /\ said = <<>>

-----------------------------------------------------------------------------
(* Shared operations. *)

(* start_drain_if_needed, for the queue and jobs as the caller leaves them. *)
DrainStarted(its, pause, turn, line) ==
    IF /\ enabled /\ drain.pc = "off"
       /\ its # <<>> /\ ~pause
       /\ turn = "idle" /\ line = "idle"
    THEN [NoDrain EXCEPT !.pc = "ready"]
    ELSE drain

IsBusy == agent # "idle" \/ bash # "idle" \/ drain.pc # "off"

Settle(is, how) == outcome' = [i \in Items |-> IF i \in is THEN how ELSE outcome[i]]

Names(pending) == [k \in DOMAIN pending |-> pending[k].item]
ItemsOf(pending) == Range(Names(pending))

Requeued(pending) ==
    /\ items' = Names(pending) \o items
    /\ widgets' = [k \in DOMAIN pending |-> pending[k].widget] \o widgets

(* The first part of enqueue_prompt, enqueue_bash and enqueue_command: the item
   is in the queue at once, its widget only after the header is mounted.     *)
AppendItem(e, i, resume) ==
    /\ items' = Append(items, i)
    /\ entered' = IF i \in Prompts THEN Append(entered, i) ELSE entered
    /\ header' = TRUE
    /\ IF header
       THEN /\ widgets' = Append(widgets, i)
            /\ enq' = [enq EXCEPT ![e] = [pc |-> "mount", item |-> i, resume |-> resume]]
       ELSE /\ enq' = [enq EXCEPT ![e] = [pc |-> "header", item |-> i, resume |-> resume]]
            /\ UNCHANGED widgets
    /\ UNCHANGED paused

(* What running a slash command may do: start a turn (/retry) or the task of a
   compaction (/compact), open a picker, change the model, or nothing of interest. *)
CommandEffect ==
    \/ UNCHANGED <<agent, picker, sees>>
    \/ agent = "idle" /\ agent' \in {"task", "compact"} /\ UNCHANGED <<picker, sees>>
    \/ ~picker /\ picker' = TRUE /\ UNCHANGED <<agent, sees>>
    \/ sees' = ~sees /\ UNCHANGED <<agent, picker>>

-----------------------------------------------------------------------------
(* Handlers of the terminal.  A picker takes the place of the input and the keys. *)

(* on_chat_input_container_submitted for something that goes to the queue. *)
SubmitQueued(i) ==
    /\ LoopIsFree
    /\ enq["pump"].pc = "idle" /\ ~picker /\ outcome[i] = "new"
    /\ paused \/ IsBusy
    /\ Settle({i}, "accepted")
    /\ IF i \in Prompts
       THEN /\ enq' = [enq EXCEPT !["pump"] =
                           [pc |-> "prepare", item |-> i, resume |-> paused]]
            /\ UNCHANGED <<queueVars, entered>>
       ELSE AppendItem("pump", i, paused)
    /\ UNCHANGED <<enabled, drain, worker, jobVars, uiVars, said>>

(* _enqueue_prompt_with_resources once the prompt is prepared. *)
PromptPrepared ==
    /\ LoopIsFree
    /\ enq["pump"].pc = "prepare"
    /\ AppendItem("pump", enq["pump"].item, enq["pump"].resume)
    /\ UNCHANGED <<enabled, drain, worker, jobVars, uiVars, outcome, said>>

(* _prepare_prompt_or_abort gives up: the text goes back into the input. *)
PromptAborted ==
    /\ LoopIsFree
    /\ enq["pump"].pc \in {"prepare", "direct"}
    /\ Settle({enq["pump"].item}, "over")
    /\ enq' = [enq EXCEPT !["pump"] = Idle]
    /\ UNCHANGED <<queueVars, enabled, drain, worker, jobVars, uiVars, entered, said>>

(* A picker's handler or a side-channel command defers a setting to the queue. *)
EnqueueCommand(e, c) ==
    /\ LoopIsFree
    /\ e = "pump" => picker
    /\ enq[e].pc = "idle" /\ outcome[c] = "new"
    /\ Settle({c}, "accepted")
    /\ AppendItem(e, c, FALSE)
    /\ UNCHANGED <<enabled, drain, worker, jobVars, uiVars, said>>

HeaderMounted(e) ==
    /\ LoopIsFree
    /\ enq[e].pc = "header"
    /\ widgets' = Append(widgets, enq[e].item)
    /\ enq' = [enq EXCEPT ![e].pc = "mount"]
    /\ UNCHANGED <<items, paused, header, enabled, drain, worker, jobVars, uiVars, history>>

(* Mutant: a queued command waits for somebody else to start the drain. *)
WidgetMountedOnly(e) ==
    /\ LoopIsFree
    /\ enq[e].pc = "mount"
    /\ paused' = (paused /\ ~enq[e].resume)
    /\ drain' = IF enq[e].resume THEN DrainStarted(items, paused', agent, bash) ELSE drain
    /\ overlooked' = (overlooked /\ ~enq[e].resume)
    /\ enq' = [enq EXCEPT ![e] = Idle]
    /\ UNCHANGED <<items, widgets, header, enabled, worker, agent, closing, bash, uiVars,
                   history>>

(* The widget is mounted.  A command starts the drain; a submission to a paused
   queue resumes it and starts the drain.                                    *)
WidgetMounted(e) ==
    /\ LoopIsFree
    /\ enq[e].pc = "mount"
    /\ paused' = (paused /\ ~enq[e].resume)
    /\ drain' = IF enq[e].item \in Commands \/ enq[e].resume
                THEN DrainStarted(items, paused', agent, bash) ELSE drain
    /\ overlooked' = (overlooked /\ enq[e].item \notin Commands /\ ~enq[e].resume)
    /\ enq' = [enq EXCEPT ![e] = Idle]
    /\ UNCHANGED <<items, widgets, header, enabled, worker, agent, closing, bash, uiVars,
                   history>>

(* Enter on an empty input resumes a paused queue. *)
ResumeQueue ==
    /\ LoopIsFree
    /\ enq["pump"].pc = "idle" /\ ~picker /\ paused
    /\ paused' = FALSE
    /\ drain' = DrainStarted(items, FALSE, agent, bash) /\ overlooked' = FALSE
    /\ UNCHANGED <<items, widgets, header, enabled, enq, worker, agent, closing, bash, uiVars,
                   history>>

(* _dispatch_idle_input: what is typed while nothing runs is run at once. *)
SubmitIdle(i) ==
    /\ LoopIsFree
    /\ enq["pump"].pc = "idle" /\ ~picker /\ outcome[i] = "new"
    /\ ~paused /\ ~IsBusy
    /\ \/ /\ i \in Prompts
          /\ enq' = [enq EXCEPT !["pump"] = [Idle EXCEPT !.pc = "direct", !.item = i]]
          /\ Settle({i}, "accepted")
          /\ UNCHANGED <<jobVars, uiVars>>
       \/ /\ i \in Bashes
          /\ bash' = "user" /\ Settle({i}, "over")
          /\ UNCHANGED <<enq, agent, closing, uiVars>>
       \/ /\ i \in Commands
          /\ CommandEffect /\ Settle({i}, "over")
          /\ UNCHANGED <<enq, closing, bash>>
    /\ UNCHANGED <<queueVars, enabled, drain, worker, overlooked, entered, said>>

(* _handle_user_message after its prompt is prepared and shown: no turn is
   started when one has begun meanwhile.                                     *)
DirectShown ==
    /\ LoopIsFree
    /\ enq["pump"].pc = "direct"
    /\ IF agent = "idle"
       THEN agent' = "task" /\ Settle({enq["pump"].item}, "over")
       ELSE Settle({enq["pump"].item}, "unsent") /\ UNCHANGED agent
    /\ enq' = [enq EXCEPT !["pump"] = Idle]
    /\ UNCHANGED <<queueVars, enabled, drain, worker, closing, bash, overlooked, uiVars,
                   entered, said>>

(* pop_last once the item is gone: the last widget, whichever it is by now. *)
PopWidget(left) ==
    IF widgets = <<>>
    THEN /\ header' = (header /\ left # <<>>)
         /\ worker' = [pc |-> "idle", item |-> None]
         /\ UNCHANGED widgets
    ELSE /\ widgets' = Front(widgets)
         /\ worker' = [pc |-> "remove", item |-> None]
         /\ UNCHANGED header

(* Ctrl+C: pop_last, in a worker.  Bound: one worker at a time, where the code lets
   them overlap (exclusive=False).                                           *)
PopLast ==
    /\ LoopIsFree
    /\ worker.pc = "idle" /\ ~picker /\ items # <<>>
    /\ LET i == Last(items) IN
       /\ items' = Front(items)
       /\ paused' = (paused /\ items' # <<>>)
       /\ Settle({i}, "over")
       /\ IF i \in Reverting
          THEN /\ worker' = [pc |-> "discard", item |-> i]
               /\ UNCHANGED <<widgets, header>>
          ELSE PopWidget(Front(items))
    /\ UNCHANGED <<enabled, drain, enq, jobVars, uiVars, entered, said>>

(* pop_last after on_discard. *)
Discarded ==
    /\ LoopIsFree
    /\ worker.pc = "discard"
    /\ PopWidget(items)
    /\ UNCHANGED <<items, paused, enabled, drain, enq, jobVars, uiVars, history>>

(* _remove_header_if_empty *)
WidgetRemoved ==
    /\ LoopIsFree
    /\ worker.pc = "remove"
    /\ header' = (header /\ items # <<>>)
    /\ worker' = [pc |-> "idle", item |-> None]
    /\ UNCHANGED <<items, paused, widgets, enabled, drain, enq, jobVars, uiVars, history>>

(* Escape: _try_interrupt pauses a queue that is not empty.  A job it interrupts
   ends by TurnStops or BashEnds.                                            *)
Escape ==
    /\ LoopIsFree
    /\ ~picker /\ items # <<>> /\ ~paused
    /\ paused' = TRUE
    /\ UNCHANGED <<items, widgets, header, enabled, drain, enq, worker, jobVars, uiVars, history>>
-----------------------------------------------------------------------------
(* The drain. *)

(* _drain's loop condition; the finally clause when it fails. *)
PickerPassed ==
    /\ drain' = [drain EXCEPT !.pc = IF header THEN "unhead" ELSE "consume"]
    /\ header' = FALSE

DrainTop ==
    /\ drain.pc \in {"ready", "top"}
    /\ IF enabled /\ items # <<>> /\ ~paused
       THEN IF picker
            THEN drain' = [drain EXCEPT !.pc = "picker"] /\ UNCHANGED header
            ELSE PickerPassed
       ELSE drain' = NoDrain /\ header' = (header /\ items # <<>>)
    /\ UNCHANGED <<items, paused, widgets, enabled, enq, worker, jobVars, uiVars, history>>

DrainUnblocked ==
    /\ drain.pc = "picker" /\ ~picker
    /\ PickerPassed
    /\ UNCHANGED <<items, paused, widgets, enabled, enq, worker, jobVars, uiVars, history>>

HeaderRemoved ==
    /\ drain.pc = "unhead"
    /\ drain' = [drain EXCEPT !.pc = "consume"]
    /\ UNCHANGED <<queueVars, enabled, enq, worker, jobVars, uiVars, history>>

(* _consume_until_bash_or_empty: one item off the queue, with the first widget. *)
HeadWidget == IF widgets = <<>> THEN None ELSE Head(widgets)

Take(kind) ==
    /\ drain.pc = "consume" /\ items # <<>> /\ ~paused
    /\ Head(items) \in kind
    /\ items' = Tail(items)
    /\ widgets' = IF widgets = <<>> THEN <<>> ELSE Tail(widgets)
    /\ UNCHANGED <<paused, header, enabled, enq, worker, jobVars, uiVars, entered, said>>

(* Mutants: the last prompt taken goes first; a widget of another kind, or none,
   is taken for the prompt's.                                                *)
TakePromptInFront ==
    /\ Take(Prompts)
    /\ IF HeadWidget \in Prompts
       THEN /\ drain' = [drain EXCEPT !.pending =
                            <<[item |-> Head(items), widget |-> HeadWidget]>> \o @]
            /\ UNCHANGED outcome
       ELSE Settle({Head(items)}, "dropped") /\ UNCHANGED drain

TakePromptBlindly ==
    /\ Take(Prompts)
    /\ drain' = [drain EXCEPT !.pending =
                    Append(@, [item |-> Head(items), widget |-> HeadWidget])]
    /\ UNCHANGED outcome

(* A prompt is kept for the next turn if its widget is a prompt's. *)
TakePrompt ==
    /\ Take(Prompts)
    /\ IF HeadWidget \in Prompts
       THEN /\ drain' = [drain EXCEPT !.pending =
                            Append(@, [item |-> Head(items), widget |-> HeadWidget])]
            /\ UNCHANGED outcome
       ELSE Settle({Head(items)}, "dropped") /\ UNCHANGED drain

TakeBash ==
    /\ Take(Bashes)
    /\ drain' = [drain EXCEPT !.pc = "flush", !.item = Head(items), !.widget = HeadWidget]
    /\ UNCHANGED outcome

(* A command that resets the conversation drops the prompts taken before it. *)
TakeCommand ==
    /\ Take(Commands)
    /\ LET reset == Head(items) \in Flushing IN
       /\ drain' = [drain EXCEPT !.pc = "uncmd", !.item = Head(items),
                                 !.pending = IF reset THEN <<>> ELSE @]
       /\ IF reset THEN Settle(ItemsOf(drain.pending), "over") ELSE UNCHANGED outcome

(* The end of _consume_until_bash_or_empty: run what was taken, or give it back
   to a queue paused meanwhile.                                              *)
StopConsuming ==
    /\ drain.pc = "consume" /\ (items = <<>> \/ paused)
    /\ IF drain.pending # <<>> /\ paused
       THEN Requeued(drain.pending) /\ drain' = [NoDrain EXCEPT !.pc = "top"]
       ELSE /\ drain' = [drain EXCEPT !.pc = IF @ = "consume" /\ drain.pending = <<>>
                                             THEN "top" ELSE "gate"]
            /\ UNCHANGED <<items, widgets>>
    /\ UNCHANGED <<paused, header, enabled, enq, worker, jobVars, uiVars, history>>

(* _gate_queued_images_for_vision *)
Refused(pending) == ~sees /\ ItemsOf(pending) \cap Pictures # {}

GiveBack ==
    /\ Requeued(drain.pending)
    /\ paused' = TRUE /\ header' = TRUE

(* Mutant: the prompts given back stay in the drain's hands. *)
FlushKeeping ==
    /\ drain.pc = "flush"
    /\ IF Refused(drain.pending)
       THEN GiveBack /\ drain' = [drain EXCEPT !.pc = "flushgate"]
       ELSE /\ drain' = [drain EXCEPT !.pc = IF drain.pending = <<>> THEN "bashwidget"
                                             ELSE "flushing"]
            /\ UNCHANGED queueVars
    /\ UNCHANGED <<enabled, enq, worker, jobVars, uiVars, history>>

(* _flush_pending_prompts, before a shell line. *)
Flush ==
    /\ drain.pc = "flush"
    /\ IF Refused(drain.pending)
       THEN GiveBack /\ drain' = [drain EXCEPT !.pc = "flushgate", !.pending = <<>>]
       ELSE /\ drain' = [drain EXCEPT !.pc = IF drain.pending = <<>> THEN "bashwidget"
                                             ELSE "flushing"]
            /\ UNCHANGED queueVars
    /\ UNCHANGED <<enabled, enq, worker, jobVars, uiVars, history>>

GateShown ==
    /\ drain.pc = "flushgate"
    /\ drain' = [drain EXCEPT !.pc = "bashwidget"]
    /\ UNCHANGED <<queueVars, enabled, enq, worker, jobVars, uiVars, history>>

(* The gate of _run_pending_as_llm_turn. *)
Gate ==
    /\ drain.pc = "gate"
    /\ IF Refused(drain.pending)
       THEN GiveBack /\ drain' = [NoDrain EXCEPT !.pc = "ready"]
       ELSE /\ drain' = [drain EXCEPT !.pc = IF Len(drain.pending) = 1 THEN "tail"
                                             ELSE "inject"]
            /\ UNCHANGED queueVars
    /\ UNCHANGED <<enabled, enq, worker, jobVars, uiVars, history>>

(* _inject_head_item: every prompt in front of a shell line, or all but the last
   one of a turn.  The server takes no context while a turn runs.            *)
Inject ==
    /\ drain.pc \in {"flushing", "inject"} /\ agent = "idle"
    /\ LET rest == Tail(drain.pending) IN
       drain' = [drain EXCEPT !.pending = rest,
                     !.pc = IF @ = "flushing" /\ rest = <<>> THEN "bashwidget"
                            ELSE IF @ = "inject" /\ Len(rest) = 1 THEN "tail" ELSE @]
    /\ Settle({Head(drain.pending).item}, "over")
    /\ said' = Append(said, Head(drain.pending).item)
    /\ UNCHANGED <<queueVars, enabled, enq, worker, jobVars, uiVars, entered>>

(* The drain ends: what it holds is gone. *)
DrainDies ==
    /\ Settle(ItemsOf(drain.pending) \cup ({drain.item} \ {None}), "lost")
    /\ drain' = NoDrain
    /\ header' = (header /\ items # <<>>)

(* An injection fails: "Queue drain crashed". *)
InjectFails ==
    /\ drain.pc \in {"flushing", "inject"}
    /\ DrainDies
    /\ UNCHANGED <<items, paused, widgets, enabled, enq, worker, jobVars, uiVars, entered, said>>

(* _run_bash, at once or after the widget is removed. *)
RunBash ==
    /\ bash' = "drain"
    /\ Settle({drain.item}, "over")
    /\ drain' = [drain EXCEPT !.pc = "bash", !.item = None, !.widget = None]

BashWidget ==
    /\ drain.pc = "bashwidget"
    /\ IF drain.widget = None
       THEN RunBash
       ELSE drain' = [drain EXCEPT !.pc = "unbash"] /\ UNCHANGED <<bash, outcome>>
    /\ UNCHANGED <<queueVars, enabled, enq, worker, agent, closing, overlooked, uiVars,
                   entered, said>>

StartBash ==
    /\ drain.pc = "unbash"
    /\ RunBash
    /\ UNCHANGED <<queueVars, enabled, enq, worker, agent, closing, overlooked, uiVars,
                   entered, said>>

DrainBashDone ==
    /\ drain.pc = "bash" /\ bash = "idle"
    /\ drain' = [drain EXCEPT !.pc = "consume"]
    /\ UNCHANGED <<queueVars, enabled, enq, worker, jobVars, uiVars, history>>

(* run_command, then _await_tail_turn and await_input_app. *)
RunCommand ==
    /\ drain.pc = "uncmd"
    /\ CommandEffect
    /\ Settle({drain.item}, "over")
    /\ drain' = [drain EXCEPT !.item = None,
                     !.pc = IF agent' \in {"task", "compact"} THEN "cmdturn"
                            ELSE IF picker' THEN "cmdpicker" ELSE "consume"]
    /\ UNCHANGED <<queueVars, enabled, enq, worker, closing, bash, overlooked, entered, said>>

OwnTurnOver == agent \notin {"task", "compact"} /\ "task" \notin closing

CommandTurnOver ==
    /\ drain.pc = "cmdturn" /\ OwnTurnOver
    /\ drain' = [drain EXCEPT !.pc = IF picker THEN "cmdpicker" ELSE "consume"]
    /\ UNCHANGED <<queueVars, enabled, enq, worker, jobVars, uiVars, history>>

CommandPickerClosed ==
    /\ drain.pc = "cmdpicker" /\ ~picker
    /\ drain' = [drain EXCEPT !.pc = "consume"]
    /\ UNCHANGED <<queueVars, enabled, enq, worker, jobVars, uiVars, history>>

(* _run_tail_prompt: the last prompt starts the turn.  If a turn runs by now the
   server refuses this one, whose task ends with an error message.           *)
StartTail ==
    /\ drain.pc = "tail"
    /\ LET i == Head(drain.pending).item IN
       IF agent = "idle"
       THEN /\ agent' = "task" /\ Settle({i}, "over") /\ said' = Append(said, i)
            /\ drain' = [NoDrain EXCEPT !.pc = "turn"]
       ELSE /\ Settle({i}, "over")
            /\ drain' = [NoDrain EXCEPT !.pc = "ready"]
            /\ UNCHANGED <<agent, said>>
    /\ UNCHANGED <<queueVars, enabled, enq, worker, closing, bash, overlooked, uiVars, entered>>

TailOver ==
    /\ drain.pc = "turn" /\ OwnTurnOver
    /\ drain' = [drain EXCEPT !.pc = "top"]
    /\ UNCHANGED <<queueVars, enabled, enq, worker, jobVars, uiVars, history>>

-----------------------------------------------------------------------------
(* Turns, shell lines, pickers. *)

TurnStops ==
    /\ LoopIsFree
    /\ agent \in Turns \ closing
    /\ closing' = closing \cup {agent} /\ agent' = "idle"
    /\ UNCHANGED <<queueVars, enabled, drain, enq, worker, bash, overlooked, uiVars, history>>

(* Mutant: only a turn of the terminal's own task starts the drain. *)
TurnClosedOwn(t) ==
    /\ LoopIsFree
    /\ t \in closing
    /\ closing' = closing \ {t}
    /\ drain' = IF t = "task" THEN DrainStarted(items, paused, agent, bash) ELSE drain
    /\ overlooked' = FALSE
    /\ UNCHANGED <<queueVars, enabled, enq, worker, agent, bash, uiVars, history>>

(* The end of _finalize_turn_ui. *)
TurnClosed(t) ==
    /\ LoopIsFree
    /\ t \in closing
    /\ closing' = closing \ {t}
    /\ drain' = DrainStarted(items, paused, agent, bash) /\ overlooked' = FALSE
    /\ UNCHANGED <<queueVars, enabled, enq, worker, agent, bash, uiVars, history>>

(* _auto_retry_incomplete_stream: the same task goes on with another turn. *)
TurnRetried ==
    /\ LoopIsFree
    /\ "task" \in closing
    /\ closing' = closing \ {"task"} /\ agent' = "task"
    /\ UNCHANGED <<queueVars, enabled, drain, enq, worker, bash, overlooked, uiVars, history>>

(* A job ends beside the drain and does not look at what is queued. *)
Overlooks == overlooked' = (overlooked \/ (drain.pc = "off" /\ items # <<>>))

(* begin_retry has nothing to retry any more, as a message or a new transcript has
   come in between (cancel_retry_presentation): the task ends.               *)
TurnNotRetried ==
    /\ LoopIsFree
    /\ "task" \in closing
    /\ closing' = closing \ {"task"} /\ Overlooks
    /\ UNCHANGED <<queueVars, enabled, drain, enq, worker, agent, bash, uiVars, history>>

(* The finally clause of _run_compact. *)
CompactEnds ==
    /\ LoopIsFree
    /\ agent = "compact" /\ agent' = "idle" /\ Overlooks
    /\ UNCHANGED <<queueVars, enabled, drain, enq, worker, closing, bash, uiVars, history>>

(* The server starts a turn by itself (a scheduled prompt). *)
UnsolicitedTurn ==
    /\ LoopIsFree
    /\ agent = "idle" /\ agent' = "unsolicited"
    /\ UNCHANGED <<queueVars, enabled, drain, enq, worker, closing, bash, overlooked, uiVars,
                   history>>

(* _handle_bash_command ends; only the user's own line starts the drain. *)
BashEnds ==
    /\ LoopIsFree
    /\ bash # "idle" /\ bash' = "idle"
    /\ drain' = IF bash = "user" THEN DrainStarted(items, paused, agent, "idle") ELSE drain
    /\ overlooked' = (overlooked /\ bash # "user")
    /\ UNCHANGED <<queueVars, enabled, enq, worker, agent, closing, uiVars, history>>

(* Escape before the line's task has run at all: the drain starts over. *)
BashCancelled ==
    /\ drain.pc = "bash" /\ bash = "drain"
    /\ bash' = "idle"
    /\ drain' = [NoDrain EXCEPT !.pc = "ready"]
    /\ UNCHANGED <<queueVars, enabled, enq, worker, agent, closing, overlooked, uiVars, history>>

(* A picker of the side channel, and the end of any picker. *)
SwitchPicker ==
    /\ LoopIsFree
    /\ picker' = ~picker
    /\ UNCHANGED <<queueVars, enabled, drain, enq, worker, jobVars, sees, history>>

Shutdown ==
    /\ LoopIsFree
    /\ enabled' = FALSE
    /\ DrainDies
    /\ UNCHANGED <<items, paused, widgets, enq, worker, jobVars, uiVars, entered, said>>

-----------------------------------------------------------------------------
UserActs ==
    \/ \E i \in Items : SubmitQueued(i) \/ SubmitIdle(i)
    \/ \E e \in Enqueuers : \E c \in Commands : EnqueueCommand(e, c)
    \/ PopLast \/ Escape \/ ResumeQueue \/ SwitchPicker \/ Shutdown

HandlerRuns ==
    \/ PromptPrepared \/ PromptAborted \/ DirectShown
    \/ \E e \in Enqueuers : HeaderMounted(e) \/ WidgetMounted(e)
    \/ Discarded \/ WidgetRemoved

DrainSteps ==
    \/ DrainTop \/ DrainUnblocked \/ HeaderRemoved
    \/ TakePrompt \/ TakeBash \/ TakeCommand \/ StopConsuming
    \/ Flush \/ GateShown \/ Gate \/ Inject \/ InjectFails
    \/ BashWidget \/ StartBash \/ DrainBashDone
    \/ RunCommand \/ CommandTurnOver \/ CommandPickerClosed
    \/ StartTail \/ TailOver

JobSteps ==
    \/ TurnStops \/ TurnRetried \/ TurnNotRetried \/ CompactEnds \/ UnsolicitedTurn
    \/ BashEnds \/ BashCancelled
    \/ \E t \in Turns : TurnClosed(t)

Next == UserActs \/ HandlerRuns \/ DrainSteps \/ JobSteps

Spec == Init /\ [][Next]_vars

-----------------------------------------------------------------------------
Entering == {enq[e].item : e \in {f \in Enqueuers : enq[f].pc \in {"prepare", "direct"}}}

Taken == ItemsOf(drain.pending) \cup ({drain.item} \ {None})

(* Whatever the drain, the handlers, Ctrl+C, the image gate and a pause do to each
   other, an accepted item is in exactly one place: not yet entered, in the
   queue, or in the drain's hands; so it is never run twice and never vanishes
   without one of the outcomes the code has (QueueController).               *)
HandledOnce ==
    /\ IsInjective(items) /\ IsInjective(Names(drain.pending))
    /\ drain.item \notin ItemsOf(drain.pending)
    /\ Range(items) \cap Taken = {} /\ Range(items) \cap Entering = {}
    /\ Taken \cap Entering = {}
    /\ Range(items) \cup Taken \cup Entering = {i \in Items : outcome[i] = "accepted"}

(* Queued prompts reach the server in the order they were queued, through every
   requeueing by a pause or the image gate (_requeue).                       *)
PromptsKeepOrder ==
    \A j, k \in DOMAIN said :
        j < k => \E m, n \in DOMAIN entered :
                    m < n /\ entered[m] = said[j] /\ entered[n] = said[k]

(* A shell line or command that waits in an unpaused queue. *)
SomethingWaits ==
    enabled /\ ~paused /\ \E k \in DOMAIN items : items[k] \notin Prompts

(* Something is under way: a drain, a job, or a handler that is entering an item. *)
SomethingRuns ==
    \/ drain.pc # "off" \/ agent # "idle" \/ closing # {} \/ bash # "idle"
    \/ \E e \in Enqueuers : enq[e].pc \in {"header", "mount"}

(* A queued shell line or command does not wait in an unpaused queue with nothing
   under way that will start a drain: every turn and line that ends looks at the
   queue, whoever began it (start_drain_if_needed and its callers).  It may wait
   after a drain crashed, and after a job that ends without a look, which is a
   compaction from the idle input or a turn whose retry fell through.        *)
WaitingItemIsDrained ==
    SomethingWaits /\ ~overlooked /\ (\A i \in Items : outcome[i] # "lost") => SomethingRuns

(* "The main queue drains when idle" (message_queue.py:552): what was put off while
   something ran does not wait once nothing does, unless a drain crashed.    *)
QueueDrainsWhenIdle ==
    SomethingWaits /\ (\A i \in Items : outcome[i] # "lost") => SomethingRuns

(* The controller "keeps the parallel list of pending widgets in lockstep with it",
   the queue (message_queue.py:186): a queued prompt finds a prompt's widget
   when it is taken and is not dropped.                                      *)
PromptHasWidget == \A i \in Prompts : outcome[i] # "dropped"
=============================================================================
