---------------------------- MODULE ConfigLayers ----------------------------
(* Layered configuration: ConfigOrchestrator with its builder and its TOML
   layers (vibe/core/config), the tasks that patch or reload it, the copies
   made for child sessions and previews, the synchronous rebuild of an agent
   switch, and others who write the same files.

   A layer is a file of fields; a layer later in Stack has priority.  A field
   is Unset where the file does not hold it.  A fingerprint is the number of
   the write that made the file.  Work on a file is done by a thread, so it is
   a step of its own between two steps of the event loop.                     *)
EXTENDS Integers, FiniteSets, Sequences, SequencesExt

CONSTANTS
    Root,        \* the orchestrator of the root session
    Copies,      \* orchestrators made by copy()
    Tasks,       \* calls of apply_patch and reload
    Stack,       \* the layers, lowest priority first
    Renewed,     \* layers whose __deepcopy__ makes a new lock
    Fields, Values, Unset,
    Patches,     \* patches that are applied: sets of operations
    Strategies,  \* of {"cancel", "replace"}
    Incoherent,  \* merged configurations the schema rejects
    Events,      \* of {"reload", "edit", "cancel", "error", "copy", "rebuild"}
    Edited,      \* the fields others change
    MaxEvents,   \* bound: events
    Builder,     \* the builder's lock, beside those of the layers
    Nobody       \* the holder of a lock that was copied while held

Layers == Range(Stack)
Owners == Copies \cup {Root}
Data == [Fields -> Values \cup {Unset}]
Operations == [layer : Layers, field : Fields, value : Values \cup {Unset}]

ASSUME ConfigAssumption ==
    /\ Stack \in Seq(Layers) /\ Stack # <<>> /\ IsInjective(Stack)
    /\ Root \notin Copies /\ Builder \notin Layers /\ Nobody \notin Tasks
    /\ Owners \cap {"editor", "orphan"} = {}
    /\ Unset \notin Values /\ Incoherent \subseteq Data
    /\ \A P \in Patches : P # {} /\ P \subseteq Operations
    /\ Strategies \subseteq {"cancel", "replace"}
    /\ Edited \subseteq Fields /\ MaxEvents \in Nat

VARIABLES
    store,    \* per layer: its file and the number of the write that made it
    writer,   \* history: who made each file
    author,   \* history: who put each field's value there
    cache,    \* per orchestrator and layer: data and fingerprint of _state
    config,   \* _config
    told,     \* history: the configuration a subscriber of the bus knows
    lock,     \* per orchestrator: each lock's holder, then its waiters
    bound,    \* the locks somebody had to wait for: bound to the event loop
    task,     \* per call: where it is and its locals
    shaken,   \* history: a build or write of this orchestrator did not end well
    live,     \* the orchestrators there are
    orphans,  \* writes whose task was cancelled while the thread was at work
    refused,  \* copy() has raised
    frozen,   \* the event loop waits for a thread that waits for the event loop
    events    \* events so far

vars == <<store, writer, author, cache, config, told, lock, bound, task, shaken,
          live, orphans, refused, frozen, events>>
files == <<store, writer, author, orphans>>
views == <<cache, config, told>>
outside == <<live, refused, frozen>>

NoPart == [at |-> "none", fp |-> 0, data |-> [f \in Fields |-> Unset]]
Ended(outcome) == [NoPart EXCEPT !.at = outcome]
NoSeen == [data |-> [f \in Fields |-> Unset], fp |-> 0]

NewTask == [pc |-> "idle", owner |-> Root, ops |-> {}, strategy |-> "cancel",
            before |-> [f \in Fields |-> Unset], part |-> [l \in Layers |-> NoPart],
            pos |-> 0, seen |-> NoSeen, got |-> [l \in Layers |-> NoSeen.data]]
DoneTask == [NewTask EXCEPT !.pc = "done"]

LayerState == [data : Data, fp : Nat]

(* A lock's queue holds each task once, and only tasks that wait for it or hold
   it; files are numbered by the writes that were made. *)
TypeOK ==
    /\ store \in [Layers -> LayerState]
    /\ writer \in [Layers -> Owners \cup {"editor", "orphan"}]
    /\ author \in [Layers -> [Fields -> Owners \cup {"editor", "orphan"}]]
    /\ cache \in [Owners -> [Layers -> LayerState]]
    /\ config \in [Owners -> Data] /\ told \in [Owners -> Data]
    /\ \A o \in Owners : \A k \in Layers \cup {Builder} :
          /\ lock[o][k] \in Seq(Tasks \cup {Nobody}) /\ IsInjective(lock[o][k])
          /\ \A t \in Range(lock[o][k]) \ {Nobody} :
                /\ task[t].owner = o
                /\ IF k = Builder THEN task[t].pc \in {"build", "load", "read"}
                   ELSE \/ task[t].pc \in {"load", "read"} /\ Stack[task[t].pos] = k
                        \/ task[t].part[k].at \in {"waiting", "writing", "written"}
    /\ bound \in [Owners -> SUBSET (Layers \cup {Builder})]
    /\ \A t \in Tasks :
          /\ task[t].pc \in {"idle", "layers", "build", "load", "read", "done"}
          /\ task[t].owner \in Owners /\ task[t].strategy \in {"cancel", "replace"}
          /\ task[t].ops \subseteq Operations /\ task[t].before \in Data
          /\ task[t].pos \in 0 .. Len(Stack) /\ task[t].seen \in LayerState
          /\ \A l \in Layers :
                /\ task[t].part[l].at \in {"none", "created", "waiting", "writing",
                                           "written", "ok", "failed"}
                /\ task[t].part[l].fp \in Nat /\ task[t].part[l].data \in Data
                /\ task[t].got[l] \in Data
    /\ shaken \in [Owners -> {"no", "yes", "mending"}]
    /\ live \subseteq Owners
    /\ orphans \subseteq [layer : Layers, data : Data, owner : Owners]
    /\ refused \in BOOLEAN /\ frozen \in BOOLEAN /\ events \in 0 .. MaxEvents

(***************************************************************************)
(* Merging and patching.                                                   *)
(***************************************************************************)

(* Every field has the value of the highest layer that holds it. *)
Merge(data) ==
    [f \in Fields |->
        LET holding == {i \in DOMAIN Stack : data[Stack[i]][f] # Unset}
        IN  IF holding = {} THEN Unset ELSE data[Stack[Max(holding)]][f]]

Coherent(c) == c \notin Incoherent

Patched(data, ops) ==
    [f \in Fields |-> IF \E op \in ops : op.field = f
                      THEN (CHOOSE op \in ops : op.field = f).value ELSE data[f]]

On(ops, l) == {op \in ops : op.layer = l}
Named(ops) == {op.field : op \in ops}

(* A field that is not there cannot be removed. *)
Applicable(data, ops) == \A op \in ops : op.value = Unset => data[op.field] # Unset

(***************************************************************************)
(* Locks: asyncio.Lock serves its waiters in order.  It binds itself to the *)
(* event loop when somebody has to wait.                                    *)
(***************************************************************************)

Holds(t, k) == LET q == lock[task[t].owner][k] IN q # <<>> /\ Head(q) = t

Joined(lk, o, k, t) == [lk EXCEPT ![o][k] = Append(@, t)]
Left(lk, o, k, t) == [lk EXCEPT ![o][k] = RemoveFirst(@, t)]
BoundBy(b, lk, o, k) == IF lk[o][k] = <<>> THEN b ELSE [b EXCEPT ![o] = @ \cup {k}]

(* No call of this orchestrator is under way. *)
Idle(o) == \A t \in Tasks : task[t].owner = o => task[t].pc \in {"idle", "done"}

Init ==
    /\ store = [l \in Layers |-> [data |-> [f \in Fields |-> Unset], fp |-> 0]]
    /\ writer = [l \in Layers |-> "editor"]
    /\ author = [l \in Layers |-> [f \in Fields |-> "editor"]]
    /\ cache = [o \in Owners |-> store]
    /\ config = [o \in Owners |-> [f \in Fields |-> Unset]] /\ told = config
    /\ lock = [o \in Owners |-> [k \in Layers \cup {Builder} |-> <<>>]]
    /\ bound = [o \in Owners |-> {}]
    /\ task = [t \in Tasks |-> NewTask]
    /\ shaken = [o \in Owners |-> "no"]
    /\ live = {Root} /\ orphans = {}
    /\ refused = FALSE /\ frozen = FALSE /\ events = 0

(* The event loop is not blocked; threads and others go on if it is. *)
LoopRuns == ~frozen

Happens(kind) == kind \in Events /\ events < MaxEvents /\ events' = events + 1

(***************************************************************************)
(* apply_patch: one child task per layer, then a reload.                    *)
(***************************************************************************)

(* The result is validated on the configuration of the moment; a rejected patch
   changes nothing. *)
BeginPatch(t) ==
    /\ LoopRuns /\ task[t].pc = "idle"
    /\ \E o \in live, P \in Patches, s \in Strategies :
          /\ Coherent(Patched(config[o], P))
          /\ task' = [task EXCEPT ![t] =
                [NewTask EXCEPT !.pc = "layers", !.owner = o, !.ops = P, !.strategy = s,
                    !.before = config[o],
                    !.part = [l \in Layers |-> IF On(P, l) = {} THEN NoPart
                                               ELSE [NoPart EXCEPT !.at = "created"]]]]
    /\ UNCHANGED <<files, views, lock, bound, shaken, outside, events>>

(* _apply_patch_to_layer takes the fingerprint, then waits for the lock. *)
StartPart(t, l) ==
    LET o == task[t].owner IN
    /\ LoopRuns /\ task[t].part[l].at = "created"
    /\ task' = [task EXCEPT ![t].part[l] = [@ EXCEPT !.at = "waiting", !.fp = cache[o][l].fp]]
    /\ lock' = Joined(lock, o, l, t) /\ bound' = BoundBy(bound, lock, o, l)
    /\ UNCHANGED <<files, views, shaken, outside, events>>

(* Mutant: a patch that cannot be applied keeps the lock. *)
ApplyPartHolding(t, l) ==
    LET o == task[t].owner
        ops == On(task[t].ops, l)
        current == task[t].strategy = "replace" \/ task[t].part[l].fp = cache[o][l].fp
    IN
    /\ LoopRuns /\ task[t].part[l].at = "waiting" /\ Holds(t, l)
    /\ IF current /\ Applicable(cache[o][l].data, ops)
       THEN task' = [task EXCEPT ![t].part[l] =
                        [@ EXCEPT !.at = "writing", !.data = Patched(cache[o][l].data, ops)]]
       ELSE task' = [task EXCEPT ![t].part[l] = Ended("failed")]
    /\ UNCHANGED <<lock, files, views, bound, shaken, outside, events>>

(* _handle_apply_patch up to the write, on the state found under the lock. *)
ApplyPart(t, l) ==
    LET o == task[t].owner
        ops == On(task[t].ops, l)
        current == task[t].strategy = "replace" \/ task[t].part[l].fp = cache[o][l].fp
    IN
    /\ LoopRuns /\ task[t].part[l].at = "waiting" /\ Holds(t, l)
    /\ IF current /\ Applicable(cache[o][l].data, ops)
       THEN /\ task' = [task EXCEPT ![t].part[l] =
                        [@ EXCEPT !.at = "writing", !.data = Patched(cache[o][l].data, ops)]]
            /\ UNCHANGED lock
       ELSE /\ task' = [task EXCEPT ![t].part[l] = Ended("failed")]
            /\ lock' = Left(lock, o, l, t)
    /\ UNCHANGED <<files, views, bound, shaken, outside, events>>

(* The file is made beside the old one and replaces it. *)
Replaced(l, data, who, named) ==
    /\ store' = [store EXCEPT ![l] = [data |-> data, fp |-> @.fp + 1]]
    /\ writer' = [writer EXCEPT ![l] = who]
    /\ author' = [author EXCEPT ![l] =
          [f \in Fields |-> IF f \in named \/ data[f] # store[l].data[f] THEN who ELSE @[f]]]

WritePart(t, l) ==
    /\ task[t].part[l].at = "writing"
    /\ Replaced(l, task[t].part[l].data, task[t].owner, Named(On(task[t].ops, l)))
    /\ task' = [task EXCEPT ![t].part[l] = [@ EXCEPT !.at = "written", !.fp = store[l].fp + 1]]
    /\ UNCHANGED <<orphans, views, lock, bound, shaken, outside, events>>

WriteFails(t, l) ==
    /\ LoopRuns /\ task[t].part[l].at = "writing" /\ Happens("error")
    /\ task' = [task EXCEPT ![t].part[l] = Ended("failed")]
    /\ lock' = Left(lock, task[t].owner, l, t)
    /\ UNCHANGED <<files, views, bound, shaken, outside>>

(* Mutant: the state gets the new fingerprint and keeps the old data. *)
PartSavedOldData(t, l) ==
    LET o == task[t].owner IN
    /\ LoopRuns /\ task[t].part[l].at = "written"
    /\ cache' = [cache EXCEPT ![o][l].fp = task[t].part[l].fp]
    /\ task' = [task EXCEPT ![t].part[l] = Ended("ok")]
    /\ lock' = Left(lock, o, l, t)
    /\ UNCHANGED <<files, config, told, bound, shaken, outside, events>>

(* The layer takes over what its thread wrote. *)
PartSaved(t, l) ==
    LET o == task[t].owner IN
    /\ LoopRuns /\ task[t].part[l].at = "written"
    /\ cache' = [cache EXCEPT ![o][l] = [data |-> task[t].part[l].data,
                                         fp |-> task[t].part[l].fp]]
    /\ task' = [task EXCEPT ![t].part[l] = Ended("ok")]
    /\ lock' = Left(lock, o, l, t)
    /\ UNCHANGED <<files, config, told, bound, shaken, outside, events>>

(* Mutant: a failure is raised before anything is reloaded. *)
LayersSettledRaising(t) ==
    LET o == task[t].owner
        failed == \E l \in Layers : task[t].part[l].at = "failed"
    IN
    /\ LoopRuns /\ task[t].pc = "layers"
    /\ \A l \in Layers : task[t].part[l].at \in {"none", "ok", "failed"}
    /\ task' = [task EXCEPT ![t] = IF failed THEN DoneTask ELSE [@ EXCEPT !.pc = "build"]]
    /\ lock' = IF failed THEN lock ELSE Joined(lock, o, Builder, t)
    /\ bound' = IF failed THEN bound ELSE BoundBy(bound, lock, o, Builder)
    /\ UNCHANGED <<files, views, shaken, outside, events>>

(* gather() returns: whatever became of the layers, everything is reloaded. *)
LayersSettled(t) ==
    LET o == task[t].owner IN
    /\ LoopRuns /\ task[t].pc = "layers"
    /\ \A l \in Layers : task[t].part[l].at \in {"none", "ok", "failed"}
    /\ task' = [task EXCEPT ![t] = [@ EXCEPT !.pc = "build"]]
    /\ lock' = Joined(lock, o, Builder, t) /\ bound' = BoundBy(bound, lock, o, Builder)
    /\ UNCHANGED <<files, views, shaken, outside, events>>

BeginReload(t) ==
    /\ LoopRuns /\ task[t].pc = "idle" /\ Happens("reload")
    /\ \E o \in live :
          /\ task' = [task EXCEPT ![t] = [@ EXCEPT !.pc = "build", !.owner = o]]
          /\ lock' = Joined(lock, o, Builder, t) /\ bound' = BoundBy(bound, lock, o, Builder)
    /\ UNCHANGED <<files, views, shaken, outside>>

(***************************************************************************)
(* build(force_load): the layers one after the other, under their locks.   *)
(***************************************************************************)

StartBuild(t) ==
    LET o == task[t].owner IN
    /\ LoopRuns /\ task[t].pc = "build" /\ Holds(t, Builder)
    /\ task' = [task EXCEPT ![t] = [@ EXCEPT !.pc = "load", !.pos = 1]]
    /\ lock' = Joined(lock, o, Stack[1], t) /\ bound' = BoundBy(bound, lock, o, Stack[1])
    /\ shaken' = [shaken EXCEPT ![o] = IF @ = "yes" THEN "mending" ELSE @]
    /\ UNCHANGED <<files, views, outside, events>>

StartRead(t) ==
    /\ LoopRuns /\ task[t].pc = "load" /\ Holds(t, Stack[task[t].pos])
    /\ task' = [task EXCEPT ![t] = [@ EXCEPT !.pc = "read", !.seen = store[Stack[task[t].pos]]]]
    /\ UNCHANGED <<files, views, lock, bound, shaken, outside, events>>

(* What the reader returns is what it saw: a later write is not noticed. *)
LayerRead(t) ==
    LET o == task[t].owner
        l == Stack[task[t].pos]
        next == Stack[task[t].pos + 1]
        free == Left(lock, o, l, t)
    IN
    /\ LoopRuns /\ task[t].pc = "read" /\ task[t].pos < Len(Stack)
    /\ cache' = [cache EXCEPT ![o][l] = task[t].seen]
    /\ task' = [task EXCEPT ![t] = [@ EXCEPT
          !.pc = "load", !.pos = task[t].pos + 1, !.seen = NoSeen,
          !.got = [task[t].got EXCEPT ![l] = task[t].seen.data]]]
    /\ lock' = Joined(free, o, next, t) /\ bound' = BoundBy(bound, free, o, next)
    /\ UNCHANGED <<files, config, told, shaken, outside, events>>

Released(t) == Left(Left(lock, task[t].owner, Stack[task[t].pos], t), task[t].owner, Builder, t)

(* The last layer: merge, validate, install, and tell the subscribers if a layer
   took its patch and something is different from when apply_patch began. *)
Installed(t) ==
    LET o == task[t].owner
        l == Stack[task[t].pos]
        merged == Merge([task[t].got EXCEPT ![l] = task[t].seen.data])
        success == \E k \in Layers : task[t].part[k].at = "ok"
    IN
    /\ LoopRuns /\ task[t].pc = "read" /\ task[t].pos = Len(Stack)
    /\ cache' = [cache EXCEPT ![o][l] = task[t].seen]
    /\ config' = IF Coherent(merged) THEN [config EXCEPT ![o] = merged] ELSE config
    /\ told' = IF Coherent(merged) /\ success /\ merged # task[t].before
               THEN [told EXCEPT ![o] = merged] ELSE told
    /\ task' = [task EXCEPT ![t] = DoneTask]
    /\ lock' = Released(t)
    /\ shaken' = [shaken EXCEPT ![o] = IF @ = "mending" THEN "no" ELSE @]
    /\ UNCHANGED <<files, bound, outside, events>>

(* capture_stable_file sees another file than the one it opened: the call fails
   with what it has written, and without its configuration. *)
ReadConflict(t) ==
    /\ LoopRuns /\ task[t].pc = "read" /\ store[Stack[task[t].pos]].fp # task[t].seen.fp
    /\ task' = [task EXCEPT ![t] = DoneTask]
    /\ lock' = Released(t)
    /\ shaken' = [shaken EXCEPT ![task[t].owner] = "yes"]
    /\ UNCHANGED <<files, views, bound, outside, events>>

(***************************************************************************)
(* What happens beside the calls.                                          *)
(***************************************************************************)

(* A request goes away with its connection: its tasks are cancelled at their
   await and let go of the locks.  A thread that is writing goes on.  What a thread
   has written and the layer has not taken over is nobody's from now on: the layer
   does not know of it, and its next write takes it back. *)
CancelTask(t) ==
    LET o == task[t].owner
        part == task[t].part
        unsaved == {l \in Layers : part[l].at = "written"}
    IN
    /\ LoopRuns /\ task[t].pc \notin {"idle", "done"} /\ Happens("cancel")
    /\ orphans' = orphans \cup
          {[layer |-> l, data |-> part[l].data, owner |-> o] :
              l \in {k \in Layers : part[k].at = "writing"}}
    /\ writer' = [l \in Layers |-> IF l \in unsaved /\ store[l].fp = part[l].fp
                                   THEN "orphan" ELSE writer[l]]
    /\ author' = [l \in Layers |-> [f \in Fields |->
          IF l \in unsaved /\ author[l][f] = o /\ f \in Named(On(task[t].ops, l))
          THEN "orphan" ELSE author[l][f]]]
    /\ task' = [task EXCEPT ![t] = DoneTask]
    /\ lock' = [lock EXCEPT ![o] = [k \in Layers \cup {Builder} |-> RemoveFirst(@[k], t)]]
    /\ shaken' = [shaken EXCEPT ![o] = "yes"]
    /\ UNCHANGED <<store, views, bound, outside>>

OrphanWrites ==
    \E w \in orphans :
        /\ orphans' = orphans \ {w}
        /\ Replaced(w.layer, w.data, "orphan", {})
        /\ UNCHANGED <<views, lock, bound, task, shaken, outside, events>>

(* The user's editor, or another process. *)
Edit(l) ==
    /\ Happens("edit")
    /\ \E f \in Edited, v \in Values \cup {Unset} :
          /\ store[l].data[f] # v
          /\ Replaced(l, [store[l].data EXCEPT ![f] = v], "editor", {f})
    /\ UNCHANGED <<orphans, views, lock, bound, task, shaken, outside>>

(* copy() for a child session: the layers are deep-copied with their state and,
   but for those with a __deepcopy__ of their own, with their locks.  A lock
   bound to the loop cannot be copied; one that is held stays held. *)
CopyOrchestrator(c) ==
    /\ LoopRuns /\ c \in Copies \ live /\ ~refused /\ Happens("copy")
    /\ LET shared == Layers \ Renewed IN
       IF bound[Root] \cap shared # {}
       THEN /\ refused' = TRUE
            /\ UNCHANGED <<live, views, lock, shaken>>
       ELSE /\ live' = live \cup {c}
            /\ cache' = [cache EXCEPT ![c] = cache[Root]]
            /\ config' = [config EXCEPT ![c] = config[Root]]
            /\ told' = [told EXCEPT ![c] = config[Root]]
            /\ lock' = [lock EXCEPT ![c] = [k \in Layers \cup {Builder} |->
                  IF k \in shared /\ lock[Root][k] # <<>> THEN <<Nobody>> ELSE <<>>]]
            /\ shaken' = [shaken EXCEPT ![c] = IF Idle(Root) THEN shaken[Root] ELSE "yes"]
            /\ UNCHANGED refused
    /\ UNCHANGED <<files, bound, task, frozen>>

(* An agent switch: rebuild() runs build() on a loop in another thread and blocks
   this one until it returns.  The build uses the cached data; it waits for ever
   for a lock a task of the blocked loop holds.  (A bound lock raises instead,
   which changes nothing here.) *)
Rebuild(o) ==
    LET path == <<Builder>> \o Stack
        held == {i \in DOMAIN path : lock[o][path[i]] # <<>>}
        merged == Merge([l \in Layers |-> cache[o][l].data])
    IN
    /\ LoopRuns /\ o \in live /\ Happens("rebuild")
    /\ \/ /\ held = {} /\ Coherent(merged)
          /\ config' = [config EXCEPT ![o] = merged]
          /\ UNCHANGED frozen
       \/ /\ held # {} /\ path[Min(held)] \notin bound[o]
          /\ frozen' = TRUE
          /\ UNCHANGED config
    /\ UNCHANGED <<files, cache, told, lock, bound, task, shaken, live, refused>>

Next ==
    \/ \E t \in Tasks :
          \/ BeginPatch(t) \/ BeginReload(t) \/ LayersSettled(t)
          \/ StartBuild(t) \/ StartRead(t) \/ LayerRead(t) \/ Installed(t)
          \/ ReadConflict(t) \/ CancelTask(t)
          \/ \E l \in Layers : \/ StartPart(t, l) \/ ApplyPart(t, l) \/ WritePart(t, l)
                               \/ WriteFails(t, l) \/ PartSaved(t, l)
    \/ OrphanWrites
    \/ \E l \in Layers : Edit(l)
    \/ \E c \in Copies : CopyOrchestrator(c)
    \/ \E o \in Owners : Rebuild(o)

Spec == Init /\ [][Next]_vars

(***************************************************************************)
(* Properties.                                                             *)
(***************************************************************************)

(* Patches of one orchestrator do not undo each other, although each writes the
   whole file from the state its layer has cached, and reloads and others'
   writes come in between: what a patch put into a file is changed by no other
   patch of this orchestrator that does not name it (_handle_apply_patch).  Both
   are patches that were not cancelled: the thread of a cancelled one writes as
   "orphan", over whatever it finds, and what it had written for its call is no
   longer its orchestrator's (see MutationsAreSerial). *)
OwnWritesSurvive ==
    [][\A l \in Layers, f \in Fields :
          /\ store'[l].data[f] # store[l].data[f]
          /\ author[l][f] \in Owners /\ writer'[l] = author[l][f]
          => \E t \in Tasks : WritePart(t, l) /\ f \in Named(On(task[t].ops, l))]_vars

(* layer.py:162: "Serialize all state mutations through a single lock": a patch
   that was cancelled while its thread was writing does not change what a later
   patch of its orchestrator put into the file under that lock. *)
MutationsAreSerial ==
    [][\A w \in orphans \ orphans', f \in Fields :
          store'[w.layer].data[f] # store[w.layer].data[f] =>
             author[w.layer][f] # w.owner]_vars

(* When no call is under way the configuration is the merge of the layers, if the
   schema accepts it, and a layer has cached the file if it wrote it last:
   however patches, reloads and builds overlapped, the last one saw everything
   (apply_patch, build).  It need not be after a failed read or a cancellation,
   until a build that began later is through. *)
ConfigIsCurrent ==
    \A o \in live : Idle(o) /\ shaken[o] = "no" =>
        /\ LET merged == Merge([l \in Layers |-> cache[o][l].data])
           IN  Coherent(merged) => config[o] = merged
        /\ \A l \in Layers : writer[l] = o => cache[o][l] = store[l]

(* orchestrator.py:90: copy() returns "an independent in-memory copy of this
   orchestrator": it does not raise. *)
CopyIsMade == ~refused

(* The copy made for a child session "stays functional"
   (test_orchestrator_deepcopies_and_stays_functional): none of its locks is held
   by a call it does not have. *)
CopyLocksAreFree ==
    \A c \in live, k \in Layers \cup {Builder} : Nobody \notin Range(lock[c][k])

(* types.py:22: a conflict is raised "when a backing store is modified externally
   during an optimistic config operation": a patch that is to be cancelled on a
   conflict replaces the file whose fingerprint it carries. *)
ConflictIsNoticed ==
    [][\A t \in Tasks, l \in Layers :
          WritePart(t, l) /\ task[t].strategy = "cancel" => task[t].part[l].fp = store[l].fp]_vars

(* types.py:47: an event is "emitted after a successfully applied change": with
   patches only, a subscriber knows the configuration when none is under way. *)
AppliedChangeIsTold == \A o \in live : Idle(o) => told[o] = config[o]

(* utils/concurrency.py:15: run_sync runs a coroutine "handling nested event
   loops". *)
NeverFrozen == ~frozen
=============================================================================
