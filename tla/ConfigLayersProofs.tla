-------------------------- MODULE ConfigLayersProofs --------------------------
(* Proofs about ConfigLayers, for any layers, fields, patches, copies and numbers
   of calls and events.

   The inductive invariant has six parts: Typed (types), Queues (who waits for a
   lock, and who has it), Calls (where a call can be), Own (a layer whose file its
   orchestrator wrote has that file cached, or a task is about to put it there),
   Kept (the same field by field) and Builds (what a build has read so far is
   cached, or another build will come).                                      *)
EXTENDS ConfigLayers, SequenceFacts

Keys == Layers \cup {Builder}

Part == [at : {"none", "created", "waiting", "writing", "written", "ok", "failed"},
         fp : Nat, data : Data]
Call == [pc : {"idle", "layers", "build", "load", "read", "done"}, owner : Owners,
         ops : SUBSET Operations, strategy : {"cancel", "replace"}, before : Data,
         part : [Layers -> Part], pos : 0 .. Len(Stack), seen : LayerState,
         got : [Layers -> Data]]

Typed ==
    /\ store \in [Layers -> LayerState]
    /\ writer \in [Layers -> Owners \cup {"editor", "orphan"}]
    /\ author \in [Layers -> [Fields -> Owners \cup {"editor", "orphan"}]]
    /\ cache \in [Owners -> [Layers -> LayerState]]
    /\ config \in [Owners -> Data] /\ told \in [Owners -> Data]
    /\ bound \in [Owners -> SUBSET Keys]
    /\ task \in [Tasks -> Call]
    /\ shaken \in [Owners -> {"no", "yes", "mending"}]
    /\ live \subseteq Owners /\ orphans \subseteq [layer : Layers, data : Data, owner : Owners]
    /\ refused \in BOOLEAN /\ frozen \in BOOLEAN /\ events \in 0 .. MaxEvents

(* Whether a call, by its record, waits for a lock or has it. *)
Wants(r, k) ==
    IF k = Builder THEN r.pc \in {"build", "load", "read"}
    ELSE \/ r.pc \in {"load", "read"} /\ Stack[r.pos] = k
         \/ r.part[k].at \in {"waiting", "writing", "written"}

(* Whether it has it, and has gone on. *)
Has(r, k) ==
    IF k = Builder THEN r.pc \in {"load", "read"}
    ELSE \/ r.pc = "read" /\ Stack[r.pos] = k
         \/ r.part[k].at \in {"writing", "written"}

Queues ==
    /\ lock \in [Owners -> [Keys -> Seq(Tasks \cup {Nobody})]]
    /\ \A o \in Owners, k \in Keys :
          /\ IsInjective(lock[o][k])
          /\ \A t \in Range(lock[o][k]) \ {Nobody} : task[t].owner = o /\ Wants(task[t], k)
    /\ \A t \in Tasks, k \in Keys :
          /\ Wants(task[t], k) => t \in Range(lock[task[t].owner][k])
          /\ Has(task[t], k) => Head(lock[task[t].owner][k]) = t

Calls ==
    /\ Root \in live
    /\ \A t \in Tasks :
          /\ task[t].owner \in live
          /\ task[t].pc # "layers" =>
                \A l \in Layers : task[t].part[l].at \in {"none", "ok", "failed"}
          /\ task[t].pc \in {"load", "read"} => task[t].pos \in 1 .. Len(Stack)

Unsaved(o, l) == {t \in Tasks : task[t].owner = o /\ task[t].part[l].at = "written"}

Own ==
    /\ \A l \in Layers : writer[l] \in live \cup {"editor", "orphan"}
    /\ \A t \in Tasks, l \in Layers :
          task[t].part[l].at = "written" /\ writer[l] = task[t].owner =>
             store[l] = [data |-> task[t].part[l].data, fp |-> task[t].part[l].fp]
    /\ \A o \in Owners, l \in Layers : writer[l] = o => cache[o][l] = store[l] \/ Unsaved(o, l) # {}
    /\ \A t \in Tasks :
          task[t].pc = "read" /\ writer[Stack[task[t].pos]] = task[t].owner =>
             task[t].seen = store[Stack[task[t].pos]]

AuthorsLive == \A l \in Layers, f \in Fields : author[l][f] \in live \cup {"editor", "orphan"}
DraftsKeep ==
    \A t \in Tasks, l \in Layers, f \in Fields :
       /\ task[t].part[l].at \in {"writing", "written"} /\ f \notin Named(On(task[t].ops, l)) =>
             task[t].part[l].data[f] = cache[task[t].owner][l].data[f]
       /\ task[t].part[l].at = "written" /\ author[l][f] = task[t].owner =>
             task[t].part[l].data[f] = store[l].data[f]
CachesKeep ==
    \A o \in Owners, l \in Layers, f \in Fields : author[l][f] = o =>
       \/ cache[o][l].data[f] = store[l].data[f]
       \/ \E t \in Unsaved(o, l) : f \in Named(On(task[t].ops, l))
ReadsKeep ==
    \A t \in Tasks, f \in Fields :
       task[t].pc = "read" /\ author[Stack[task[t].pos]][f] = task[t].owner =>
          task[t].seen.data[f] = store[Stack[task[t].pos]].data[f]
Kept == AuthorsLive /\ DraftsKeep /\ CachesKeep /\ ReadsKeep

(* The merge of what an orchestrator has cached. *)
Merged(o) == Merge([l \in Layers |-> cache[o][l].data])

Builds ==
    /\ \A t \in Tasks : task[t].pc \in {"load", "read"} =>
          \/ shaken[task[t].owner] = "yes"
          \/ \E u \in Tasks : task[u].owner = task[t].owner /\ task[u].pc \in {"layers", "build"}
          \/ \A i \in 1 .. task[t].pos - 1 :
                task[t].got[Stack[i]] = cache[task[t].owner][Stack[i]].data
    /\ \A o \in live : Idle(o) /\ shaken[o] = "no" /\ Coherent(Merged(o)) =>
          config[o] = Merged(o)

IInv == Typed /\ Queues /\ Calls /\ Own /\ Kept /\ Builds

-----------------------------------------------------------------------------
(* The constants, merging and patching. *)

(* The stack lists layers. *)
LEMMA StackFacts ==
    /\ \A i \in 1 .. Len(Stack) : Stack[i] \in Layers
    /\ \A l \in Layers : \E i \in 1 .. Len(Stack) : Stack[i] = l
    /\ \A i, j \in 1 .. Len(Stack) : Stack[i] = Stack[j] => i = j
    /\ Len(Stack) \in Nat /\ 1 \in 1 .. Len(Stack) /\ DOMAIN Stack = 1 .. Len(Stack)
    /\ \A l \in Layers : l # Builder
  <1>1. Len(Stack) \in Nat /\ Len(Stack) # 0 /\ DOMAIN Stack = 1 .. Len(Stack)
    BY ConfigAssumption
  <1> QED BY <1>1, ConfigAssumption DEF IsInjective, Layers, Range

(* A merged configuration is one: of the layers that hold a field there is a
   highest.                                                                  *)
LEMMA MergeType == ASSUME NEW d \in [Layers -> Data] PROVE Merge(d) \in Data
  <1> SUFFICES ASSUME NEW f \in Fields PROVE Merge(d)[f] \in Values \cup {Unset}
    BY DEF Merge, Data
  <1>1. PICK holding : holding = {i \in DOMAIN Stack : d[Stack[i]][f] # Unset} OBVIOUS
  <1>2. Merge(d)[f] = IF holding = {} THEN Unset ELSE d[Stack[Max(holding)]][f]
    BY <1>1 DEF Merge
  <1>3. ASSUME holding # {} PROVE d[Stack[Max(holding)]][f] \in Values \cup {Unset}
    <2>1. Len(Stack) \in Nat /\ holding \subseteq 0 .. Len(Stack) BY <1>1, StackFacts
    <2>2. Max(holding) \in holding BY <2>1, <1>3, NatMax
    <2>3. Stack[Max(holding)] \in Layers BY <2>2, <1>1, StackFacts
    <2> QED BY <2>3 DEF Data
  <1> QED BY <1>2, <1>3

(* A patched file holds data of the right type. *)
LEMMA PatchedType ==
    ASSUME NEW d \in Data, NEW ops \in SUBSET Operations
    PROVE  /\ Patched(d, ops) \in Data
           /\ \A f \in Fields : f \notin Named(ops) => Patched(d, ops)[f] = d[f]
  <1>1. ASSUME NEW f \in Fields PROVE Patched(d, ops)[f] \in Values \cup {Unset}
    <2>1. CASE \E op \in ops : op.field = f
      <3>1. (CHOOSE op \in ops : op.field = f) \in Operations BY <2>1
      <3> QED BY <3>1, <2>1 DEF Patched, Operations
    <2>2. CASE ~\E op \in ops : op.field = f BY <2>2 DEF Patched, Data
    <2> QED BY <2>1, <2>2
  <1>2. Patched(d, ops) \in Data BY <1>1 DEF Patched, Data
  <1> QED BY <1>2 DEF Patched, Named

(* The operations of a patch on one layer. *)
LEMMA OnType == ASSUME NEW ops \in SUBSET Operations, NEW l PROVE On(ops, l) \in SUBSET Operations
  BY DEF On

-----------------------------------------------------------------------------
(* The locks. *)

(* Only one call has gone on with a lock. *)
LEMMA OneHolder ==
    ASSUME Queues, NEW t \in Tasks, NEW u \in Tasks, NEW k \in Keys,
           task[t].owner = task[u].owner, Has(task[t], k), Has(task[u], k)
    PROVE  t = u
  BY DEF Queues

(* Who waits for a lock and finds itself at the head has it alone. *)
LEMMA HolderHasIt ==
    ASSUME Queues, NEW t \in Tasks, NEW u \in Tasks, NEW k \in Keys,
           task[t].owner = task[u].owner, Holds(t, k), Has(task[u], k)
    PROVE  t = u
  BY DEF Queues, Holds

(* A call moves: each lock of its orchestrator stays as it is, or the call joins
   those who wait, or it leaves.                                             *)
LEMMA QueuesMove ==
    ASSUME Queues, Typed, NEW t \in Tasks, NEW o \in Owners,
           \A u \in Tasks \ {t} : task'[u] = task[u],
           task'[t].owner = o \/ \A k \in Keys : ~Wants(task'[t], k) /\ ~Has(task'[t], k),
           task[t].owner = o \/ \A k \in Keys : ~Wants(task[t], k),
           lock' \in [Owners -> [Keys -> Seq(Tasks \cup {Nobody})]],
           \A p \in Owners \ {o} : lock'[p] = lock[p],
           \A k \in Keys :
              \/ /\ lock'[o][k] = lock[o][k] /\ (Wants(task'[t], k) <=> Wants(task[t], k))
                 /\ Has(task'[t], k) => Head(lock[o][k]) = t
              \/ /\ lock'[o][k] = Append(lock[o][k], t)
                 /\ ~Wants(task[t], k) /\ Wants(task'[t], k) /\ ~Has(task'[t], k)
              \/ /\ lock'[o][k] = RemoveFirst(lock[o][k], t)
                 /\ ~Wants(task'[t], k) /\ ~Has(task'[t], k)
    PROVE  Queues'
  <1> DEFINE S == Tasks \cup {Nobody}
  <1>0. t # Nobody BY ConfigAssumption
  <1>1. \A p \in Owners, k \in Keys : lock[p][k] \in Seq(S) /\ IsInjective(lock[p][k])
    BY DEF Queues
  <1>2. ASSUME NEW p \in Owners, NEW k \in Keys, t \in Range(lock[p][k])
        PROVE  p = task[t].owner /\ Wants(task[t], k)
    BY <1>0, <1>2 DEF Queues
  <1>3. ASSUME NEW k \in Keys
        PROVE  /\ IsInjective(lock'[o][k])
               /\ \A u \in Tasks \ {t} : u \in Range(lock'[o][k]) <=> u \in Range(lock[o][k])
               /\ t \in Range(lock'[o][k]) <=> Wants(task'[t], k)
               /\ Has(task'[t], k) => Head(lock'[o][k]) = t
               /\ \A u \in Tasks \ {t} : u \in Range(lock[o][k]) /\ Head(lock[o][k]) = u =>
                     Head(lock'[o][k]) = u
    <2>0. lock[o][k] \in Seq(S) /\ IsInjective(lock[o][k]) BY <1>1
    <2>1. ASSUME lock'[o][k] = lock[o][k], Wants(task'[t], k) <=> Wants(task[t], k),
                 Has(task'[t], k) => Head(lock[o][k]) = t
          PROVE  <1>3!2
      <3>1. t \in Range(lock[o][k]) <=> Wants(task[t], k) BY <1>2 DEF Queues
      <3> QED BY <3>1, <2>0, <2>1
    <2>2. ASSUME lock'[o][k] = Append(lock[o][k], t),
                 ~Wants(task[t], k), Wants(task'[t], k), ~Has(task'[t], k)
          PROVE  <1>3!2
      <3>1. t \in S \ Range(lock[o][k]) BY <1>2, <2>2
      <3>2. /\ IsInjective(lock'[o][k]) /\ Range(lock'[o][k]) = Range(lock[o][k]) \cup {t}
            /\ lock[o][k] # <<>> => Head(lock'[o][k]) = Head(lock[o][k])
        BY <3>1, <2>0, <2>2, JoinQueue
      <3>3. \A u \in Range(lock[o][k]) : lock[o][k] # <<>> BY <2>0 DEF Range
      <3> QED BY <3>2, <3>3, <2>2
    <2>3. ASSUME lock'[o][k] = RemoveFirst(lock[o][k], t), ~Wants(task'[t], k), ~Has(task'[t], k)
          PROVE  <1>3!2
      <3>2. /\ IsInjective(lock'[o][k]) /\ Range(lock'[o][k]) = Range(lock[o][k]) \ {t}
            /\ lock[o][k] # <<>> /\ Head(lock[o][k]) # t =>
                  Head(lock'[o][k]) = Head(lock[o][k])
        BY <2>0, <2>3, LeaveQueue
      <3>3. \A u \in Range(lock[o][k]) : lock[o][k] # <<>> BY <2>0 DEF Range
      <3> QED BY <3>2, <3>3, <2>3
    <2> QED BY <2>1, <2>2, <2>3
  <1>4. ASSUME NEW p \in Owners, NEW k \in Keys
        PROVE  /\ IsInjective(lock'[p][k])
               /\ \A u \in Range(lock'[p][k]) \ {Nobody} : task'[u].owner = p /\ Wants(task'[u], k)
    <2>1. CASE p = o
      <3>1. ASSUME NEW u \in Range(lock'[o][k]) \ {Nobody}
            PROVE  task'[u].owner = o /\ Wants(task'[u], k)
        <4>0. u \in Tasks
          <5>1. lock'[o][k] \in Seq(S) OBVIOUS
          <5> QED BY <5>1 DEF Range
        <4>1. CASE u = t BY <4>1, <1>3
        <4>2. CASE u # t
          <5>1. u \in Range(lock[o][k]) /\ task'[u] = task[u] BY <4>0, <4>2, <1>3
          <5> QED BY <5>1 DEF Queues
        <4> QED BY <4>1, <4>2
      <3> QED BY <2>1, <1>3, <3>1
    <2>2. CASE p # o
      <3>1. lock'[p][k] = lock[p][k] BY <2>2
      <3>2. ASSUME NEW u \in Range(lock[p][k]) \ {Nobody}
            PROVE  task'[u].owner = p /\ Wants(task'[u], k)
        <4>1. u # t BY <1>2, <2>2
        <4>2. u \in Tasks
          <5>1. lock[p][k] \in Seq(S) BY <1>1
          <5> QED BY <5>1 DEF Range
        <4>3. task'[u] = task[u] BY <4>1, <4>2
        <4>4. task[u].owner = p /\ Wants(task[u], k) BY DEF Queues
        <4> QED BY <4>3, <4>4
      <3> QED BY <3>1, <3>2, <1>1
    <2> QED BY <2>1, <2>2
  <1>5. ASSUME NEW u \in Tasks, NEW k \in Keys
        PROVE  /\ Wants(task'[u], k) => u \in Range(lock'[task'[u].owner][k])
               /\ Has(task'[u], k) => Head(lock'[task'[u].owner][k]) = u
    <2>1. CASE u = t BY <2>1, <1>3
    <2>2. CASE u # t
      <3>1. /\ task'[u] = task[u] /\ task[u].owner \in Owners
            /\ Wants(task[u], k) => u \in Range(lock[task[u].owner][k])
            /\ Has(task[u], k) => Wants(task[u], k) /\ Head(lock[task[u].owner][k]) = u
        BY ZenonT(60), <2>2 DEF Queues, Typed, Call, Wants, Has
      <3>2. CASE task[u].owner = o BY <3>1, <3>2, <2>2, <1>3
      <3>3. CASE task[u].owner # o BY <3>1, <3>3
      <3> QED BY <3>2, <3>3
    <2> QED BY <2>1, <2>2
  <1> QED BY <1>4, <1>5 DEF Queues

-----------------------------------------------------------------------------
(* The files, what is cached of them, and the calls. *)

(* A part of a patch moves: nothing else of the call does. *)
PartMoved(t, l, p) ==
    /\ task' \in [Tasks -> Call]
    /\ \A u \in Tasks \ {t} : task'[u] = task[u]
    /\ task'[t].part[l] = p
    /\ \A k \in Layers \ {l} : task'[t].part[k] = task[t].part[k]
    /\ task'[t].pc = task[t].pc /\ task'[t].owner = task[t].owner
    /\ task'[t].ops = task[t].ops /\ task'[t].pos = task[t].pos
    /\ task'[t].seen = task[t].seen /\ task'[t].got = task[t].got

(* A call moves one of its parts and leaves its others. *)
LEMMA PartMoves ==
    ASSUME Typed, NEW t \in Tasks, NEW l \in Layers, NEW p \in Part,
           task' = [task EXCEPT ![t].part[l] = p]
    PROVE  PartMoved(t, l, p)
  <1>1. PICK q : q = [task[t].part EXCEPT ![l] = p] OBVIOUS
  <1>2. PICK r : r = [task[t] EXCEPT !.part = q] OBVIOUS
  <1>3. task[t] \in Call /\ task \in [Tasks -> Call] BY DEF Typed
  <1>4. q \in [Layers -> Part] /\ q[l] = p /\ \A k \in Layers \ {l} : q[k] = task[t].part[k]
    BY <1>1, <1>3 DEF Call
  <1>5. /\ r \in Call /\ r.part = q /\ r.pc = task[t].pc /\ r.owner = task[t].owner
        /\ r.ops = task[t].ops /\ r.pos = task[t].pos /\ r.seen = task[t].seen
        /\ r.got = task[t].got
    BY <1>2, <1>3, <1>4 DEF Call
  <1>6. task' = [task EXCEPT ![t] = r] BY <1>1, <1>2, <1>3
  <1>7. task'[t] = r BY <1>6, <1>3
  <1> QED BY <1>3, <1>4, <1>5, <1>6, <1>7 DEF PartMoved

(* A step of a call that touches neither files nor caches, writes nothing yet and
   takes a part neither into nor out of "written".                           *)
LEMMA FilesRest ==
    ASSUME IInv, UNCHANGED <<store, writer, author, cache>>, live \subseteq live',
           NEW t \in Tasks, \A u \in Tasks \ {t} : task'[u] = task[u],
           \A l \in Layers :
              \/ /\ task'[t].part[l] = task[t].part[l] /\ task'[t].ops = task[t].ops
                 /\ task'[t].owner = task[t].owner
              \/ /\ task[t].part[l].at # "written" /\ task'[t].part[l].at # "written"
                 /\ task'[t].part[l].at = "writing" =>
                       \A f \in Fields \ Named(On(task'[t].ops, l)) :
                          task'[t].part[l].data[f] = cache[task'[t].owner][l].data[f],
           task'[t].pc = "read" =>
              \/ task'[t].seen = store[Stack[task'[t].pos]]
              \/ /\ task[t].pc = "read" /\ task'[t].seen = task[t].seen
                 /\ task'[t].pos = task[t].pos /\ task'[t].owner = task[t].owner
    PROVE  Own' /\ Kept'
  <1> USE DEF IInv
  <1>1. \A o \in Owners, l \in Layers, u \in Tasks :
           u \in Unsaved(o, l)' <=> u \in Unsaved(o, l)
    BY DEF Unsaved
  <1>2. \A l \in Layers, u \in Tasks : task'[u].part[l].at = "written" =>
           task'[u].part[l] = task[u].part[l] /\ task'[u].ops = task[u].ops
                                             /\ task'[u].owner = task[u].owner
    OBVIOUS
  <1>3. Own'
    <2>1. \A l \in Layers : writer'[l] \in live' \cup {"editor", "orphan"} BY DEF Own
    <2>2. \A u \in Tasks, l \in Layers :
             task'[u].part[l].at = "written" /\ writer'[l] = task'[u].owner =>
                store'[l] = [data |-> task'[u].part[l].data, fp |-> task'[u].part[l].fp]
      BY <1>2 DEF Own
    <2>3. \A o \in Owners, l \in Layers :
             writer'[l] = o => cache'[o][l] = store'[l] \/ Unsaved(o, l)' # {}
      BY <1>1 DEF Own, Unsaved
    <2>4. \A u \in Tasks :
             task'[u].pc = "read" /\ writer'[Stack[task'[u].pos]] = task'[u].owner =>
                task'[u].seen = store'[Stack[task'[u].pos]]
      BY DEF Own
    <2> QED BY <2>1, <2>2, <2>3, <2>4 DEF Own
  <1>4. Kept'
    <2>1. \A l \in Layers, f \in Fields : author'[l][f] \in live' \cup {"editor", "orphan"}
      BY DEF Kept, AuthorsLive
    <2>2. ASSUME NEW u \in Tasks, NEW l \in Layers, NEW f \in Fields
          PROVE  /\ task'[u].part[l].at \in {"writing", "written"}
                    /\ f \notin Named(On(task'[u].ops, l)) =>
                      task'[u].part[l].data[f] = cache'[task'[u].owner][l].data[f]
                 /\ task'[u].part[l].at = "written" /\ author'[l][f] = task'[u].owner =>
                      task'[u].part[l].data[f] = store'[l].data[f]
      <3>1. CASE task'[u].part[l] = task[u].part[l] /\ task'[u].ops = task[u].ops
                 /\ task'[u].owner = task[u].owner
        BY <3>1 DEF Kept, DraftsKeep
      <3>2. CASE u = t /\ task'[u].part[l].at # "written"
                 /\ (task'[u].part[l].at = "writing" =>
                       \A g \in Fields \ Named(On(task'[u].ops, l)) :
                          task'[u].part[l].data[g] = cache[task'[u].owner][l].data[g])
        BY <3>2
      <3> QED BY <3>1, <3>2
    <2>3. ASSUME NEW o \in Owners, NEW l \in Layers, NEW f \in Fields, author'[l][f] = o
          PROVE  \/ cache'[o][l].data[f] = store'[l].data[f]
                 \/ \E u \in Unsaved(o, l)' : f \in Named(On(task'[u].ops, l))
      <3>1. CASE cache[o][l].data[f] = store[l].data[f] BY <3>1
      <3>2. ASSUME NEW u \in Unsaved(o, l), f \in Named(On(task[u].ops, l))
            PROVE  u \in Unsaved(o, l)' /\ f \in Named(On(task'[u].ops, l))
        <4>1. u \in Tasks /\ u \in Unsaved(o, l)' BY <1>1 DEF Unsaved
        <4>2. task'[u].part[l].at = "written" BY <4>1 DEF Unsaved
        <4> QED BY <4>1, <4>2, <1>2, <3>2
      <3>3. \/ cache[o][l].data[f] = store[l].data[f]
            \/ \E u \in Unsaved(o, l) : f \in Named(On(task[u].ops, l))
        BY <2>3 DEF Kept, CachesKeep
      <3> QED BY <3>1, <3>2, <3>3
    <2>4. \A u \in Tasks, f \in Fields :
             task'[u].pc = "read" /\ author'[Stack[task'[u].pos]][f] = task'[u].owner =>
                task'[u].seen.data[f] = store'[Stack[task'[u].pos]].data[f]
      BY DEF Kept, ReadsKeep
    <2> QED BY <2>1, <2>2, <2>3, <2>4 DEF Kept, AuthorsLive, DraftsKeep, CachesKeep, ReadsKeep
  <1> QED BY <1>3, <1>4

(* Somebody else writes a file: what an orchestrator still has the authorship of
   is as it was.                                                             *)
LEMMA OthersWrite ==
    ASSUME IInv, UNCHANGED <<task, cache, live>>,
           NEW l \in Layers, NEW data \in Data, NEW named \in SUBSET Fields,
           NEW who \in {"editor", "orphan"}, Replaced(l, data, who, named)
    PROVE  Own' /\ Kept'
  <1> USE DEF IInv
  <1>0. who \notin Owners /\ live \subseteq Owners /\ \A t \in Tasks : task[t].owner \in Owners
    BY ConfigAssumption DEF Typed, Call
  <1>1. /\ \A k \in Layers \ {l} : /\ store'[k] = store[k] /\ writer'[k] = writer[k]
                                   /\ author'[k] = author[k]
        /\ writer'[l] = who /\ store'[l].data = data
        /\ \A f \in Fields : author'[l][f] =
              IF f \in named \/ data[f] # store[l].data[f] THEN who ELSE author[l][f]
    BY DEF Replaced, Typed
  <1>2. \A k \in Layers, f \in Fields : author'[k][f] \in Owners =>
           author'[k][f] = author[k][f] /\ store'[k].data[f] = store[k].data[f]
    BY <1>0, <1>1
  <1>3. \A k \in Layers : writer'[k] \in Owners =>
           writer'[k] = writer[k] /\ store'[k] = store[k]
    BY <1>0, <1>1
  <1>4. \A o, k : Unsaved(o, k)' = Unsaved(o, k) BY DEF Unsaved
  <1>5. \A t \in Tasks : task[t].pc = "read" => Stack[task[t].pos] \in Layers
    BY StackFacts DEF Calls
  <1>6. Own'
    <2>1. \A k \in Layers : writer'[k] \in live \cup {"editor", "orphan"} BY <1>1 DEF Own
    <2> QED BY <2>1, <1>0, <1>3, <1>4, <1>5 DEF Own
  <1>7. Kept'
    <2>1. \A k \in Layers, f \in Fields : author'[k][f] \in live \cup {"editor", "orphan"}
      BY <1>1 DEF Kept, AuthorsLive
    <2>2. \A t \in Tasks, k \in Layers, f \in Fields :
             task[t].part[k].at = "written" /\ author'[k][f] = task[t].owner =>
                task[t].part[k].data[f] = store'[k].data[f]
      BY <1>0, <1>2 DEF Kept, DraftsKeep
    <2>3. \A o \in Owners, k \in Layers, f \in Fields : author'[k][f] = o =>
             \/ cache[o][k].data[f] = store'[k].data[f]
             \/ \E t \in Unsaved(o, k) : f \in Named(On(task[t].ops, k))
      BY <1>2 DEF Kept, CachesKeep
    <2>4. \A t \in Tasks, f \in Fields :
             task[t].pc = "read" /\ author'[Stack[task[t].pos]][f] = task[t].owner =>
                task[t].seen.data[f] = store'[Stack[task[t].pos]].data[f]
      BY <1>0, <1>2, <1>5 DEF Kept, ReadsKeep
    <2> QED BY <2>1, <2>2, <2>3, <2>4, <1>4 DEF Kept, AuthorsLive, DraftsKeep, CachesKeep, ReadsKeep
  <1> QED BY <1>6, <1>7

(* Who reads a layer, or writes it, is the only one of its orchestrator to do so. *)
LEMMA OneAtLayer ==
    ASSUME IInv, NEW t \in Tasks, NEW l \in Layers, Has(task[t], l),
           NEW u \in Tasks, Has(task[u], l), task[u].owner = task[t].owner
    PROVE  u = t
  <1>1. l \in Keys BY DEF Keys
  <1> QED BY <1>1, OneHolder DEF IInv

(* A layer is loaded with what its reader saw. *)
LEMMA SeenTaken ==
    ASSUME IInv, NEW t \in Tasks, task[t].pc = "read",
           NEW l \in Layers, l = Stack[task[t].pos], NEW o \in Owners, o = task[t].owner,
           UNCHANGED <<store, writer, author, live>>,
           cache' = [cache EXCEPT ![o][l] = task[t].seen],
           \A u \in Tasks \ {t} : task'[u] = task[u],
           task'[t].pc # "read",
           \A k \in Layers : task'[t].part[k].at \in {"none", "ok", "failed"}
    PROVE  Own' /\ Kept'
  <1> USE DEF IInv
  <1>1. /\ cache'[o][l] = task[t].seen
        /\ \A p \in Owners, k \in Layers : p # o \/ k # l => cache'[p][k] = cache[p][k]
    BY DEF Typed
  <1>2. \A k \in Layers : task[t].part[k].at \in {"none", "ok", "failed"} BY DEF Calls
  <1>3. \A p, k : Unsaved(p, k)' = {u \in Tasks : task'[u].owner = p /\ task'[u].part[k].at = "written"}
    BY DEF Unsaved
  <1>4. \A p \in Owners, k \in Layers, u \in Tasks : u \in Unsaved(p, k)' <=> u \in Unsaved(p, k)
    BY <1>2, <1>3 DEF Unsaved
  <1>5. ASSUME NEW u \in Tasks, NEW k \in Layers, task'[u].part[k].at \in {"writing", "written"}
        PROVE  /\ u # t /\ task'[u] = task[u] /\ task[u].owner \in Owners
               /\ cache'[task[u].owner][k] = cache[task[u].owner][k]
    <2>1. u # t /\ task'[u] = task[u] /\ task[u].owner \in Owners BY <1>5 DEF Typed, Call
    <2>2. task[u].owner # o \/ k # l
      <3>1. Has(task[t], l) BY StackFacts DEF Has
      <3>2. k = l => Has(task[u], l) BY <1>5, <2>1, StackFacts DEF Has
      <3> QED BY <2>1, <3>1, <3>2, OneAtLayer
    <2> QED BY <2>1, <2>2, <1>1
  <1>6. Own'
    <2>1. \A u \in Tasks, k \in Layers :
             task'[u].part[k].at = "written" /\ writer[k] = task'[u].owner =>
                store[k] = [data |-> task'[u].part[k].data, fp |-> task'[u].part[k].fp]
      BY <1>5 DEF Own
    <2>2. \A p \in Owners, k \in Layers :
             writer[k] = p => cache'[p][k] = store[k] \/ Unsaved(p, k)' # {}
      BY <1>1, <1>4 DEF Own, Unsaved
    <2>3. \A u \in Tasks : task'[u].pc = "read" /\ writer[Stack[task'[u].pos]] = task'[u].owner =>
                              task'[u].seen = store[Stack[task'[u].pos]]
      BY DEF Own
    <2> QED BY <2>1, <2>2, <2>3 DEF Own
  <1>7. Kept'
    <2>1. ASSUME NEW u \in Tasks, NEW k \in Layers, NEW f \in Fields,
                 task'[u].part[k].at \in {"writing", "written"}
          PROVE  /\ f \notin Named(On(task'[u].ops, k)) =>
                      task'[u].part[k].data[f] = cache'[task'[u].owner][k].data[f]
                 /\ task'[u].part[k].at = "written" /\ author[k][f] = task'[u].owner =>
                      task'[u].part[k].data[f] = store[k].data[f]
      <3>1. task'[u] = task[u] /\ cache'[task[u].owner][k] = cache[task[u].owner][k]
        BY <2>1, <1>5
      <3>2. task[u].part[k].at \in {"writing", "written"} BY <2>1, <3>1
      <3> QED BY <3>1, <3>2 DEF Kept, DraftsKeep
    <2>2. ASSUME NEW p \in Owners, NEW k \in Layers, NEW f \in Fields, author[k][f] = p
          PROVE  \/ cache'[p][k].data[f] = store[k].data[f]
                 \/ \E u \in Unsaved(p, k)' : f \in Named(On(task'[u].ops, k))
      <3>1. CASE p = o /\ k = l
        <4>1. task[t].seen.data[f] = store[l].data[f] BY <3>1, <2>2 DEF Kept, ReadsKeep
        <4> QED BY <4>1, <3>1, <1>1
      <3>2. CASE p # o \/ k # l
        <4>1. \/ cache[p][k].data[f] = store[k].data[f]
              \/ \E u \in Unsaved(p, k) : f \in Named(On(task[u].ops, k))
          BY <2>2 DEF Kept, CachesKeep
        <4>2. \A u \in Unsaved(p, k) : u \in Unsaved(p, k)' /\ task'[u] = task[u]
          BY <1>2, <1>4 DEF Unsaved
        <4> QED BY <4>1, <4>2, <3>2, <1>1
      <3> QED BY <3>1, <3>2
    <2>3. \A u \in Tasks, f \in Fields :
             task'[u].pc = "read" /\ author[Stack[task'[u].pos]][f] = task'[u].owner =>
                task'[u].seen.data[f] = store[Stack[task'[u].pos]].data[f]
      BY DEF Kept, ReadsKeep
    <2>4. AuthorsLive' BY DEF Kept, AuthorsLive
    <2>5. DraftsKeep' BY <2>1 DEF DraftsKeep
    <2>6. CachesKeep' BY <2>2 DEF CachesKeep
    <2>7. ReadsKeep' BY <2>3 DEF ReadsKeep
    <2> QED BY <2>4, <2>5, <2>6, <2>7 DEF Kept
  <1> QED BY <1>6, <1>7

(* A layer takes over what its thread wrote. *)
LEMMA SavedTaken ==
    ASSUME IInv, NEW t \in Tasks, NEW l \in Layers, PartSaved(t, l)
    PROVE  Own' /\ Kept'
  <1> USE DEF IInv
  <1> DEFINE o == task[t].owner
             p == task[t].part[l]
  <1>0. /\ task[t].part[l].at = "written" /\ o \in Owners /\ Ended("ok") \in Part
        /\ Ended("ok").at = "ok"
    BY DEF PartSaved, Typed, Call, Ended, NoPart, Part, Data
  <1>1. /\ cache'[o][l] = [data |-> p.data, fp |-> p.fp]
        /\ \A q \in Owners, k \in Layers : q # o \/ k # l => cache'[q][k] = cache[q][k]
        /\ UNCHANGED <<store, writer, author, live>>
    BY <1>0 DEF PartSaved, Typed, files, outside
  <1>2. /\ \A u \in Tasks \ {t} : task'[u] = task[u]
        /\ task'[t].part[l].at = "ok"
        /\ \A k \in Layers \ {l} : task'[t].part[k] = task[t].part[k]
        /\ task'[t].pc = task[t].pc /\ task'[t].owner = task[t].owner /\ task'[t].ops = task[t].ops
        /\ task'[t].pos = task[t].pos /\ task'[t].seen = task[t].seen
    <2>1. task' = [task EXCEPT ![t].part[l] = Ended("ok")] BY DEF PartSaved
    <2>2. PartMoved(t, l, Ended("ok")) BY <1>0, <2>1, PartMoves
    <2> QED BY <1>0, <2>2 DEF PartMoved
  <1>3. task[t].pc = "layers" BY <1>0 DEF Calls
  <1>4. ASSUME NEW u \in Tasks, NEW k \in Layers, task'[u].part[k].at \in {"writing", "written"}
        PROVE  /\ task'[u].part[k] = task[u].part[k] /\ task'[u].ops = task[u].ops
               /\ task'[u].owner = task[u].owner /\ task[u].owner \in Owners
               /\ task[u].owner # o \/ k # l
    <2>1. /\ task'[u].part[k] = task[u].part[k] /\ task'[u].ops = task[u].ops
          /\ task'[u].owner = task[u].owner /\ (u # t \/ k # l)
      BY <1>2, <1>4
    <2>2. task[u].owner \in Owners BY DEF Typed, Call
    <2>3. ASSUME task[u].owner = o, k = l PROVE FALSE
      <3>1. Has(task[t], l) /\ Has(task[u], l) BY <1>0, <1>4, <2>1, <2>3, StackFacts DEF Has
      <3> QED BY <3>1, <2>1, <2>3, OneAtLayer
    <2> QED BY <2>1, <2>2, <2>3
  <1>5. ASSUME NEW q \in Owners, NEW k \in Layers, q # o \/ k # l
        PROVE  \A u \in Tasks : u \in Unsaved(q, k) => u \in Unsaved(q, k)' /\ task'[u].ops = task[u].ops
    BY <1>2, <1>5 DEF Unsaved
  <1> HIDE DEF o, p
  <1>6. Own'
    <2>1. ASSUME NEW u \in Tasks, NEW k \in Layers,
                 task'[u].part[k].at = "written", writer[k] = task'[u].owner
          PROVE  store[k] = [data |-> task'[u].part[k].data, fp |-> task'[u].part[k].fp]
      <3>1. task'[u].part[k] = task[u].part[k] /\ task'[u].owner = task[u].owner BY <2>1, <1>4
      <3> QED BY <2>1, <3>1 DEF Own
    <2>2. ASSUME NEW q \in Owners, NEW k \in Layers, writer[k] = q
          PROVE  cache'[q][k] = store[k] \/ Unsaved(q, k)' # {}
      <3>1. CASE q = o /\ k = l
        <4>1. store[l] = [data |-> p.data, fp |-> p.fp] BY <3>1, <2>2, <1>0 DEF Own, o, p
        <4> QED BY <4>1, <3>1, <1>1
      <3>2. CASE q # o \/ k # l
        <4>1. cache[q][k] = store[k] \/ \E u \in Tasks : u \in Unsaved(q, k)
          BY <2>2 DEF Own, Unsaved
        <4> QED BY <4>1, <3>2, <1>1, <1>5
      <3> QED BY <3>1, <3>2
    <2>3. \A u \in Tasks : task'[u].pc = "read" /\ writer[Stack[task'[u].pos]] = task'[u].owner =>
                              task'[u].seen = store[Stack[task'[u].pos]]
      BY <1>2, <1>3 DEF Own
    <2> QED BY <2>1, <2>2, <2>3, <1>1 DEF Own
  <1>7. Kept'
    <2>1. ASSUME NEW u \in Tasks, NEW k \in Layers, NEW f \in Fields,
                 task'[u].part[k].at \in {"writing", "written"}
          PROVE  /\ f \notin Named(On(task'[u].ops, k)) =>
                      task'[u].part[k].data[f] = cache'[task'[u].owner][k].data[f]
                 /\ task'[u].part[k].at = "written" /\ author[k][f] = task'[u].owner =>
                      task'[u].part[k].data[f] = store[k].data[f]
      <3>1. /\ task'[u].part[k] = task[u].part[k] /\ task'[u].ops = task[u].ops
            /\ task'[u].owner = task[u].owner /\ task[u].owner \in Owners
            /\ task[u].owner # o \/ k # l
        BY <2>1, <1>4
      <3>2. cache'[task[u].owner][k] = cache[task[u].owner][k] BY <3>1, <1>1
      <3>3. task[u].part[k].at \in {"writing", "written"} BY <2>1, <3>1
      <3> QED BY <3>1, <3>2, <3>3 DEF Kept, DraftsKeep
    <2>2. ASSUME NEW q \in Owners, NEW k \in Layers, NEW f \in Fields, author[k][f] = q
          PROVE  \/ cache'[q][k].data[f] = store[k].data[f]
                 \/ \E u \in Unsaved(q, k)' : f \in Named(On(task'[u].ops, k))
      <3>1. CASE q = o /\ k = l
        <4>1. p.data[f] = store[l].data[f] BY <3>1, <2>2, <1>0 DEF Kept, DraftsKeep, o, p
        <4> QED BY <4>1, <3>1, <1>1
      <3>2. CASE q # o \/ k # l
        <4>1. \/ cache[q][k].data[f] = store[k].data[f]
              \/ \E u \in Unsaved(q, k) : f \in Named(On(task[u].ops, k))
          BY <2>2 DEF Kept, CachesKeep
        <4>2. \A u \in Unsaved(q, k) : u \in Tasks BY DEF Unsaved
        <4> QED BY <4>1, <4>2, <3>2, <1>1, <1>5
      <3> QED BY <3>1, <3>2
    <2>3. \A u \in Tasks, f \in Fields :
             task'[u].pc = "read" /\ author[Stack[task'[u].pos]][f] = task'[u].owner =>
                task'[u].seen.data[f] = store[Stack[task'[u].pos]].data[f]
      BY <1>2, <1>3 DEF Kept, ReadsKeep
    <2>4. AuthorsLive' BY <1>1 DEF Kept, AuthorsLive
    <2>5. DraftsKeep' BY <2>1, <1>1 DEF DraftsKeep
    <2>6. CachesKeep' BY <2>2, <1>1 DEF CachesKeep
    <2>7. ReadsKeep' BY <2>3, <1>1 DEF ReadsKeep
    <2> QED BY <2>4, <2>5, <2>6, <2>7 DEF Kept
  <1> QED BY <1>6, <1>7

(* A thread writes a file for its patch: by then the part is that of the layer's
   only writer, and has kept what is cached of the fields it does not name.  *)
LEMMA PartWritten ==
    ASSUME IInv, NEW t \in Tasks, NEW l \in Layers, WritePart(t, l)
    PROVE  /\ Own' /\ Kept'
           /\ PartMoved(t, l, [task[t].part[l] EXCEPT !.at = "written", !.fp = store[l].fp + 1])
  <1> USE DEF IInv
  <1>0. /\ task[t].part[l].at = "writing" /\ task[t].owner \in Owners /\ task[t] \in Call
        /\ task[t].part[l] \in Part /\ task[t].pc = "layers" /\ store[l].fp \in Nat
        /\ store[l] \in LayerState
        /\ UNCHANGED <<cache, live>>
    BY ZenonT(60) DEF WritePart, Typed, Call, Calls, LayerState, views, outside
  <1>1. PICK p : p = [task[t].part[l] EXCEPT !.at = "written", !.fp = store[l].fp + 1] OBVIOUS
  <1>2. /\ p \in Part /\ p.at = "written" /\ p.fp = store[l].fp + 1
        /\ p.data = task[t].part[l].data
    <2>1. store[l].fp + 1 \in Nat BY <1>0
    <2> QED BY <2>1, <1>0, <1>1 DEF Part
  <1>3. PartMoved(t, l, p)
    <2>1. task' = [task EXCEPT ![t].part[l] = p] BY <1>1 DEF WritePart
    <2> QED BY <2>1, <1>2, PartMoves
  <1>4. PICK o \in Owners : o = task[t].owner BY <1>0
  <1>5. /\ store'[l] = [data |-> p.data, fp |-> p.fp] /\ writer'[l] = o
        /\ \A k \in Layers \ {l} : /\ store'[k] = store[k] /\ writer'[k] = writer[k]
                                   /\ author'[k] = author[k]
        /\ \A f \in Fields : author'[l][f] =
              IF f \in Named(On(task[t].ops, l)) \/ p.data[f] # store[l].data[f]
              THEN o ELSE author[l][f]
    BY <1>0, <1>2, <1>4 DEF WritePart, Replaced, Typed
  <1>6. ASSUME NEW u \in Tasks, u # t, Has(task[u], l) PROVE task[u].owner # o
    <2>1. Has(task[t], l) BY <1>0, StackFacts DEF Has
    <2> QED BY <2>1, <1>4, <1>6, OneAtLayer
  <1>7. ASSUME NEW u \in Tasks, u # t
        PROVE  /\ task'[u] = task[u] /\ task[u].owner \in Owners
               /\ task[u].part[l].at \in {"writing", "written"} => task[u].owner # o
               /\ task[u].pc = "read" => Stack[task[u].pos] \in Layers
               /\ task[u].pc = "read" /\ Stack[task[u].pos] = l => task[u].owner # o
    <2>1. task[u].part[l].at \in {"writing", "written"} => Has(task[u], l)
      BY StackFacts DEF Has
    <2>2. task[u].pc = "read" /\ Stack[task[u].pos] = l => Has(task[u], l)
      BY StackFacts DEF Has
    <2>3. task'[u] = task[u] /\ task[u].owner \in Owners BY <1>3, <1>7 DEF PartMoved, Typed, Call
    <2>4. task[u].pc = "read" => Stack[task[u].pos] \in Layers BY StackFacts DEF Calls
    <2> QED BY <2>1, <2>2, <2>3, <2>4, <1>6, <1>7
  <1>8. /\ task'[t].part[l] = p /\ task'[t].ops = task[t].ops /\ task'[t].owner = o
        /\ task'[t].pc = "layers"
        /\ \A k \in Layers \ {l} : task'[t].part[k] = task[t].part[k]
    BY <1>0, <1>3, <1>4 DEF PartMoved
  <1>9. t \in Unsaved(o, l)' BY <1>8, <1>2 DEF Unsaved
  <1>10. ASSUME NEW q \in Owners, NEW k \in Layers, NEW u \in Unsaved(q, k)
         PROVE  u \in Unsaved(q, k)' /\ task'[u].ops = task[u].ops
    BY <1>0, <1>2, <1>4, <1>7, <1>8 DEF Unsaved
  <1>11. \A f \in Fields \ Named(On(task[t].ops, l)) : p.data[f] = cache[o][l].data[f]
    BY <1>0, <1>2, <1>4 DEF Kept, DraftsKeep
  <1>12. Own'
    <2>1. \A k \in Layers : writer'[k] \in live' \cup {"editor", "orphan"}
      BY <1>0, <1>4, <1>5 DEF Own, Calls
    <2>2. ASSUME NEW u \in Tasks, NEW k \in Layers,
                 task'[u].part[k].at = "written", writer'[k] = task'[u].owner
          PROVE  store'[k] = [data |-> task'[u].part[k].data, fp |-> task'[u].part[k].fp]
      <3>1. CASE u = t /\ k = l BY <3>1, <1>5, <1>8
      <3>2. CASE u = t /\ k # l BY SMTT(30), <3>2, <2>2, <1>4, <1>5, <1>8 DEF Own
      <3>3. CASE u # t
        <4>1. task'[u] = task[u] /\ k # l BY <3>3, <2>2, <1>5, <1>7
        <4>2. store'[k] = store[k] /\ writer'[k] = writer[k] BY <4>1, <1>5
        <4>3. task[u].part[k].at = "written" /\ writer[k] = task[u].owner
          BY <4>1, <4>2, <2>2
        <4> QED BY <4>1, <4>2, <4>3 DEF Own
      <3> QED BY <3>1, <3>2, <3>3
    <2>3. ASSUME NEW q \in Owners, NEW k \in Layers, writer'[k] = q
          PROVE  cache'[q][k] = store'[k] \/ Unsaved(q, k)' # {}
      <3>1. CASE k = l BY <3>1, <2>3, <1>5, <1>9
      <3>2. CASE k # l
        <4>1. cache[q][k] = store[k] \/ \E u : u \in Unsaved(q, k) BY <3>2, <2>3, <1>5 DEF Own
        <4> QED BY <4>1, <3>2, <1>0, <1>5, <1>10
      <3> QED BY <3>1, <3>2
    <2>4. ASSUME NEW u \in Tasks, task'[u].pc = "read",
                 writer'[Stack[task'[u].pos]] = task'[u].owner
          PROVE  task'[u].seen = store'[Stack[task'[u].pos]]
      <3>1. u # t BY <2>4, <1>8
      <3>2. task'[u] = task[u] /\ Stack[task[u].pos] \in Layers \ {l} BY <3>1, <2>4, <1>5, <1>7
      <3> QED BY <3>2, <2>4, <1>5 DEF Own
    <2> QED BY <2>1, <2>2, <2>3, <2>4 DEF Own
  <1>13. Kept'
    <2>1. \A k \in Layers, f \in Fields : author'[k][f] \in live' \cup {"editor", "orphan"}
      <3>1. ASSUME NEW k \in Layers, NEW f \in Fields
            PROVE  author'[k][f] \in live' \cup {"editor", "orphan"}
        <4>1. author[k][f] \in live \cup {"editor", "orphan"} /\ o \in live /\ live' = live
          BY <1>0, <1>4 DEF Kept, AuthorsLive, Calls
        <4> QED BY <4>1, <1>5
      <3> QED BY <3>1
    <2>2. ASSUME NEW u \in Tasks, NEW k \in Layers, NEW f \in Fields,
                 task'[u].part[k].at \in {"writing", "written"}
          PROVE  /\ f \notin Named(On(task'[u].ops, k)) =>
                      task'[u].part[k].data[f] = cache'[task'[u].owner][k].data[f]
                 /\ task'[u].part[k].at = "written" /\ author'[k][f] = task'[u].owner =>
                      task'[u].part[k].data[f] = store'[k].data[f]
      <3>1. CASE u = t /\ k = l BY <3>1, <1>0, <1>5, <1>8, <1>11
      <3>2. CASE u = t /\ k # l
        <4>1. task[t].part[k].at \in {"writing", "written"} BY <3>2, <2>2, <1>8
        <4>2. /\ f \notin Named(On(task[t].ops, k)) =>
                      task[t].part[k].data[f] = cache[task[t].owner][k].data[f]
              /\ task[t].part[k].at = "written" /\ author[k][f] = task[t].owner =>
                      task[t].part[k].data[f] = store[k].data[f]
          BY <4>1 DEF Kept, DraftsKeep
        <4> QED BY <4>1, <4>2, <3>2, <1>0, <1>4, <1>5, <1>8
      <3>3. CASE u # t /\ k # l
        <4>1. task'[u] = task[u] BY <3>3, <1>7
        <4> QED BY <4>1, <3>3, <2>2, <1>0, <1>5 DEF Kept, DraftsKeep
      <3>4. CASE u # t /\ k = l
        <4>1. task'[u] = task[u] /\ task[u].owner # o BY <3>4, <2>2, <1>7
        <4>2. author'[l][f] = task[u].owner =>
                 author[l][f] = task[u].owner /\ store'[l].data[f] = store[l].data[f]
          BY <4>1, <1>5
        <4>3. /\ f \notin Named(On(task[u].ops, k)) =>
                      task[u].part[k].data[f] = cache[task[u].owner][k].data[f]
              /\ task[u].part[k].at = "written" /\ author[k][f] = task[u].owner =>
                      task[u].part[k].data[f] = store[k].data[f]
          BY <4>1, <2>2 DEF Kept, DraftsKeep
        <4> QED BY <4>1, <4>2, <4>3, <3>4, <1>0
      <3> QED BY <3>1, <3>2, <3>3, <3>4
    <2>3. ASSUME NEW q \in Owners, NEW k \in Layers, NEW f \in Fields, author'[k][f] = q
          PROVE  \/ cache'[q][k].data[f] = store'[k].data[f]
                 \/ \E u \in Unsaved(q, k)' : f \in Named(On(task'[u].ops, k))
      <3>1. CASE k = l /\ q = o
        <4>1. CASE f \in Named(On(task[t].ops, l)) BY <4>1, <3>1, <1>8, <1>9
        <4>2. CASE f \notin Named(On(task[t].ops, l)) BY <4>2, <3>1, <1>0, <1>5, <1>11
        <4> QED BY <4>1, <4>2
      <3>2. CASE k # l \/ q # o
        <4>1. author[k][f] = q /\ store'[k].data[f] = store[k].data[f] BY <3>2, <2>3, <1>5
        <4>2. \/ cache[q][k].data[f] = store[k].data[f]
              \/ \E u \in Unsaved(q, k) : f \in Named(On(task[u].ops, k))
          BY <4>1 DEF Kept, CachesKeep
        <4> QED BY <4>1, <4>2, <1>0, <1>10
      <3> QED BY <3>1, <3>2
    <2>4. ASSUME NEW u \in Tasks, NEW f \in Fields, task'[u].pc = "read",
                 author'[Stack[task'[u].pos]][f] = task'[u].owner
          PROVE  task'[u].seen.data[f] = store'[Stack[task'[u].pos]].data[f]
      <3>1. u # t BY <2>4, <1>8
      <3>2. task'[u] = task[u] /\ Stack[task[u].pos] \in Layers BY <3>1, <2>4, <1>7
      <3>3. PICK k \in Layers : k = Stack[task[u].pos] BY <3>2
      <3>4. task[u].owner # o \/ k # l BY <3>1, <3>2, <3>3, <2>4, <1>7
      <3>5. author[k][f] = task[u].owner /\ store'[k].data[f] = store[k].data[f]
        BY <3>2, <3>3, <3>4, <2>4, <1>5
      <3> QED BY <3>2, <3>3, <3>5, <2>4 DEF Kept, ReadsKeep
    <2> QED BY <2>1, <2>2, <2>3, <2>4 DEF Kept, AuthorsLive, DraftsKeep, CachesKeep, ReadsKeep
  <1> QED BY <1>1, <1>3, <1>12, <1>13

(* A call is cancelled: what it wrote and did not save is nobody's any more. *)
LEMMA CancelledLosesAuthorship ==
    ASSUME IInv, NEW t \in Tasks, CancelTask(t)
    PROVE  Own' /\ Kept'
  <1> USE DEF IInv
  <1>1. /\ \A u \in Tasks \ {t} : task'[u] = task[u]
        /\ task'[t].pc = "done" /\ \A l \in Layers : task'[t].part[l].at = "none"
        /\ UNCHANGED <<store, cache, live>>
    BY DEF CancelTask, Typed, DoneTask, NewTask, NoPart, views, outside
  <1>2. \A u \in Tasks : task[u].owner \in Owners /\ task[u].owner \notin {"editor", "orphan"}
    BY ConfigAssumption DEF Typed, Call
  <1>3. ASSUME NEW q \in Owners, NEW l \in Layers, writer'[l] = q
        PROVE  /\ writer[l] = q
               /\ q = task[t].owner => ~(task[t].part[l].at = "written"
                                           /\ store[l].fp = task[t].part[l].fp)
    <2>1. q # "orphan" BY ConfigAssumption
    <2>2. writer'[l] = IF /\ l \in {k \in Layers : task[t].part[k].at = "written"}
                          /\ store[l].fp = task[t].part[l].fp
                       THEN "orphan" ELSE writer[l]
      BY DEF CancelTask
    <2> QED BY <2>1, <2>2, <1>3
  <1>4. ASSUME NEW q \in Owners, NEW l \in Layers, NEW f \in Fields, author'[l][f] = q
        PROVE  /\ author[l][f] = q
               /\ ~(q = task[t].owner /\ task[t].part[l].at = "written"
                                      /\ f \in Named(On(task[t].ops, l)))
    <2>1. q # "orphan" BY ConfigAssumption
    <2>2. author'[l][f] = IF /\ l \in {k \in Layers : task[t].part[k].at = "written"}
                             /\ author[l][f] = task[t].owner /\ f \in Named(On(task[t].ops, l))
                          THEN "orphan" ELSE author[l][f]
      BY DEF CancelTask
    <2> QED BY <2>1, <2>2, <1>4
  <1>5. \A q, l : \A u \in Tasks \ {t} : u \in Unsaved(q, l) => u \in Unsaved(q, l)'
    BY <1>1 DEF Unsaved
  <1>6. Own'
    <2>1. ASSUME NEW l \in Layers PROVE writer'[l] \in live' \cup {"editor", "orphan"}
      <3>1. writer'[l] = writer[l] \/ writer'[l] = "orphan" BY DEF CancelTask
      <3> QED BY <3>1, <1>1 DEF Own
    <2>2. ASSUME NEW u \in Tasks, NEW l \in Layers,
                 task'[u].part[l].at = "written", writer'[l] = task'[u].owner
          PROVE  store'[l] = [data |-> task'[u].part[l].data, fp |-> task'[u].part[l].fp]
      <3>1. u # t /\ task'[u] = task[u] BY <2>2, <1>1
      <3>2. writer[l] = task[u].owner BY <3>1, <2>2, <1>2, <1>3
      <3> QED BY <3>1, <3>2, <2>2, <1>1 DEF Own
    <2>3. ASSUME NEW q \in Owners, NEW l \in Layers, writer'[l] = q
          PROVE  cache'[q][l] = store'[l] \/ Unsaved(q, l)' # {}
      <3>1. writer[l] = q BY <2>3, <1>3
      <3>2. t \notin Unsaved(q, l)
        <4> SUFFICES ASSUME t \in Unsaved(q, l) PROVE FALSE OBVIOUS
        <4>1. task[t].owner = q /\ task[t].part[l].at = "written" BY DEF Unsaved
        <4>2. store[l] = [data |-> task[t].part[l].data, fp |-> task[t].part[l].fp]
          BY <4>1, <3>1 DEF Own
        <4>3. store[l].fp = task[t].part[l].fp BY <4>2
        <4> QED BY <4>1, <4>3, <2>3, <1>3
      <3>3. cache[q][l] = store[l] \/ \E u \in Tasks : u \in Unsaved(q, l)
        BY <3>1 DEF Own, Unsaved
      <3> QED BY <3>2, <3>3, <1>1, <1>5
    <2>4. ASSUME NEW u \in Tasks, task'[u].pc = "read",
                 writer'[Stack[task'[u].pos]] = task'[u].owner
          PROVE  task'[u].seen = store'[Stack[task'[u].pos]]
      <3>1. u # t /\ task'[u] = task[u] BY <2>4, <1>1
      <3>2. PICK l \in Layers : l = Stack[task[u].pos] BY <3>1, <2>4, StackFacts DEF Calls
      <3>3. writer[l] = task[u].owner BY <3>1, <3>2, <2>4, <1>2, <1>3
      <3> QED BY <3>1, <3>2, <3>3, <2>4, <1>1 DEF Own
    <2> QED BY <2>1, <2>2, <2>3, <2>4 DEF Own
  <1>7. Kept'
    <2>1. ASSUME NEW l \in Layers, NEW f \in Fields
          PROVE  author'[l][f] \in live' \cup {"editor", "orphan"}
      <3>1. author'[l][f] = author[l][f] \/ author'[l][f] = "orphan" BY DEF CancelTask
      <3> QED BY <3>1, <1>1 DEF Kept, AuthorsLive
    <2>2. ASSUME NEW u \in Tasks, NEW l \in Layers, NEW f \in Fields,
                 task'[u].part[l].at \in {"writing", "written"}
          PROVE  /\ f \notin Named(On(task'[u].ops, l)) =>
                      task'[u].part[l].data[f] = cache'[task'[u].owner][l].data[f]
                 /\ task'[u].part[l].at = "written" /\ author'[l][f] = task'[u].owner =>
                      task'[u].part[l].data[f] = store'[l].data[f]
      <3>1. u # t /\ task'[u] = task[u] BY <2>2, <1>1
      <3>2. author'[l][f] = task[u].owner => author[l][f] = task[u].owner BY <1>2, <1>4
      <3> QED BY <3>1, <3>2, <2>2, <1>1 DEF Kept, DraftsKeep
    <2>3. ASSUME NEW q \in Owners, NEW l \in Layers, NEW f \in Fields, author'[l][f] = q
          PROVE  \/ cache'[q][l].data[f] = store'[l].data[f]
                 \/ \E u \in Unsaved(q, l)' : f \in Named(On(task'[u].ops, l))
      <3>1. /\ author[l][f] = q
            /\ t \in Unsaved(q, l) => f \notin Named(On(task[t].ops, l))
        BY <2>3, <1>4 DEF Unsaved
      <3>2. \/ cache[q][l].data[f] = store[l].data[f]
            \/ \E u \in Unsaved(q, l) : f \in Named(On(task[u].ops, l))
        BY <3>1 DEF Kept, CachesKeep
      <3>3. ASSUME NEW u \in Unsaved(q, l), f \in Named(On(task[u].ops, l))
            PROVE  u \in Unsaved(q, l)' /\ task'[u] = task[u]
        <4>1. u \in Tasks /\ u # t BY <3>1, <3>3 DEF Unsaved
        <4> QED BY <4>1, <1>1, <1>5
      <3> QED BY <3>2, <3>3, <1>1
    <2>4. ASSUME NEW u \in Tasks, NEW f \in Fields, task'[u].pc = "read",
                 author'[Stack[task'[u].pos]][f] = task'[u].owner
          PROVE  task'[u].seen.data[f] = store'[Stack[task'[u].pos]].data[f]
      <3>1. u # t /\ task'[u] = task[u] BY <2>4, <1>1
      <3>2. PICK l \in Layers : l = Stack[task[u].pos] BY <3>1, <2>4, StackFacts DEF Calls
      <3>3. author[l][f] = task[u].owner BY <3>1, <3>2, <2>4, <1>2, <1>4
      <3> QED BY <3>1, <3>2, <3>3, <2>4, <1>1 DEF Kept, ReadsKeep
    <2> QED BY <2>1, <2>2, <2>3, <2>4 DEF Kept, AuthorsLive, DraftsKeep, CachesKeep, ReadsKeep
  <1> QED BY <1>6, <1>7

(* A copy is made: it has written nothing, and its calls are still to come. *)
LEMMA CopyOwnsNothing ==
    ASSUME IInv, NEW c \in Copies \ live, UNCHANGED <<store, writer, author, task>>,
           live' = live \cup {c}, cache' = [cache EXCEPT ![c] = cache[Root]]
    PROVE  Own' /\ Kept'
  <1> USE DEF IInv
  <1>1. /\ c \in Owners /\ c \notin {"editor", "orphan"}
        /\ \A q \in Owners \ {c} : cache'[q] = cache[q]
        /\ \A u \in Tasks : task[u].owner \in Owners \ {c}
    BY ConfigAssumption DEF Owners, Typed, Calls, Call
  <1>2. \A l \in Layers : writer[l] # c /\ \A f \in Fields : author[l][f] # c
    BY <1>1 DEF Own, Kept, AuthorsLive
  <1>3. \A q, l : Unsaved(q, l)' = Unsaved(q, l) BY DEF Unsaved
  <1>4. Own' BY <1>1, <1>2, <1>3 DEF Own
  <1>5. Kept'
    <2>1. \A l \in Layers, f \in Fields : author'[l][f] \in live' \cup {"editor", "orphan"}
      BY DEF Kept, AuthorsLive
    <2>2. \A u \in Tasks, l \in Layers, f \in Fields :
             /\ task[u].part[l].at \in {"writing", "written"} /\ f \notin Named(On(task[u].ops, l)) =>
                   task[u].part[l].data[f] = cache'[task[u].owner][l].data[f]
             /\ task[u].part[l].at = "written" /\ author[l][f] = task[u].owner =>
                   task[u].part[l].data[f] = store[l].data[f]
      BY <1>1 DEF Kept, DraftsKeep
    <2>3. \A q \in Owners, l \in Layers, f \in Fields : author[l][f] = q =>
             \/ cache'[q][l].data[f] = store[l].data[f]
             \/ \E u \in Unsaved(q, l) : f \in Named(On(task[u].ops, l))
      BY <1>1, <1>2 DEF Kept, CachesKeep
    <2>4. \A u \in Tasks, f \in Fields :
             task[u].pc = "read" /\ author[Stack[task[u].pos]][f] = task[u].owner =>
                task[u].seen.data[f] = store[Stack[task[u].pos]].data[f]
      BY DEF Kept, ReadsKeep
    <2> QED BY <2>1, <2>2, <2>3, <2>4, <1>3 DEF Kept, AuthorsLive, DraftsKeep, CachesKeep, ReadsKeep
  <1> QED BY <1>4, <1>5

(* A step that changes neither caches nor configurations, lets no build begin or
   go on to the next layer, and lets no call end.                            *)
LEMMA BuildsRest ==
    ASSUME IInv, UNCHANGED <<cache, config, shaken, live>>,
           NEW t \in Tasks, \A u \in Tasks \ {t} : task'[u] = task[u],
           task[t].pc \in {"layers", "build"} => task'[t].pc \in {"layers", "build"},
           task'[t].pc \in {"load", "read"} =>
              /\ task[t].pc \in {"load", "read"} /\ task'[t].pos = task[t].pos
              /\ task'[t].got = task[t].got,
           \/ task[t].pc \in {"idle", "done"}
           \/ task'[t].pc \notin {"idle", "done"} /\ task'[t].owner = task[t].owner
    PROVE  Builds'
  <1> USE DEF IInv
  <1>1. ASSUME NEW u \in Tasks, task'[u].pc \in {"load", "read"}
        PROVE  \/ shaken'[task'[u].owner] = "yes"
               \/ \E v \in Tasks : task'[v].owner = task'[u].owner /\ task'[v].pc \in {"layers", "build"}
               \/ \A i \in 1 .. task'[u].pos - 1 :
                     task'[u].got[Stack[i]] = cache'[task'[u].owner][Stack[i]].data
    <2>1. /\ task[u].pc \in {"load", "read"} /\ task'[u].pos = task[u].pos
          /\ task'[u].got = task[u].got /\ task'[u].owner = task[u].owner
      BY <1>1
    <2>2. ASSUME NEW v \in Tasks, task[v].owner = task[u].owner, task[v].pc \in {"layers", "build"}
          PROVE  task'[v].owner = task'[u].owner /\ task'[v].pc \in {"layers", "build"}
      BY <2>1, <2>2
    <2>3. \/ shaken[task[u].owner] = "yes"
          \/ \E v \in Tasks : task[v].owner = task[u].owner /\ task[v].pc \in {"layers", "build"}
          \/ \A i \in 1 .. task[u].pos - 1 :
                task[u].got[Stack[i]] = cache[task[u].owner][Stack[i]].data
      BY <2>1 DEF Builds
    <2> QED BY <2>1, <2>2, <2>3
  <1>2. ASSUME NEW o \in live, Idle(o)' PROVE Idle(o)
    BY <1>2 DEF Idle
  <1>3. \A o : Merged(o)' = Merged(o) BY DEF Merged
  <1>4. \A o \in live' : Idle(o)' /\ shaken'[o] = "no" /\ Coherent(Merged(o)') =>
           config'[o] = Merged(o)'
    BY <1>2, <1>3 DEF Builds
  <1> QED BY <1>1, <1>4 DEF Builds, Coherent

(* Joining and leaving a lock of one orchestrator. *)
LockType == [Owners -> [Keys -> Seq(Tasks \cup {Nobody})]]

(* A call joins one lock, behind those that have it or wait. *)
LEMMA JoinedOne ==
    ASSUME NEW lk \in LockType, NEW o \in Owners, NEW k \in Keys, NEW t \in Tasks
    PROVE  /\ Joined(lk, o, k, t) \in LockType
           /\ Joined(lk, o, k, t)[o][k] = Append(lk[o][k], t)
           /\ \A j \in Keys \ {k} : Joined(lk, o, k, t)[o][j] = lk[o][j]
           /\ \A p \in Owners \ {o} : Joined(lk, o, k, t)[p] = lk[p]
  <1>1. Append(lk[o][k], t) \in Seq(Tasks \cup {Nobody}) BY DEF LockType
  <1> QED BY <1>1 DEF Joined, LockType

(* A call leaves one lock. *)
LEMMA LeftOne ==
    ASSUME NEW lk \in LockType, NEW o \in Owners, NEW k \in Keys, NEW t \in Tasks,
           IsInjective(lk[o][k])
    PROVE  /\ Left(lk, o, k, t) \in LockType
           /\ Left(lk, o, k, t)[o][k] = RemoveFirst(lk[o][k], t)
           /\ \A j \in Keys \ {k} : Left(lk, o, k, t)[o][j] = lk[o][j]
           /\ \A p \in Owners \ {o} : Left(lk, o, k, t)[p] = lk[p]
  <1>1. lk[o][k] \in Seq(Tasks \cup {Nobody}) BY DEF LockType
  <1>2. RemoveFirst(lk[o][k], t) \in Seq(Tasks \cup {Nobody}) BY <1>1, LeaveQueue
  <1> QED BY <1>2 DEF Left, LockType

(* Which locks are bound to the event loop, by type. *)
LEMMA BoundByType ==
    ASSUME NEW b \in [Owners -> SUBSET Keys], NEW lk, NEW o \in Owners, NEW k \in Keys
    PROVE  BoundBy(b, lk, o, k) \in [Owners -> SUBSET Keys]
  BY DEF BoundBy

(* A part joins its layer's lock, keeps its place, or leaves it. *)
LEMMA PartQueues ==
    ASSUME IInv, NEW t \in Tasks, NEW l \in Layers, NEW p \in Part, PartMoved(t, l, p),
           task[t].pc = "layers",
           \/ /\ task[t].part[l].at \in {"created"} /\ p.at = "waiting"
              /\ lock' = Joined(lock, task[t].owner, l, t)
           \/ /\ task[t].part[l].at \in {"waiting", "writing"} /\ p.at \in {"writing", "written"}
              /\ Head(lock[task[t].owner][l]) = t /\ lock' = lock
           \/ p.at \in {"ok", "failed"} /\ lock' = Left(lock, task[t].owner, l, t)
    PROVE  Queues'
  <1> USE DEF IInv
  <1>1. PICK o \in Owners : o = task[t].owner BY DEF Typed, Call
  <1>2. /\ l \in Keys /\ l # Builder /\ lock \in LockType /\ IsInjective(lock[o][l])
        /\ \A k \in Keys \ {l} : k = Builder \/ k \in Layers \ {l}
    BY StackFacts DEF Keys, LockType, Queues
  <1>3. /\ \A u \in Tasks \ {t} : task'[u] = task[u]
        /\ task'[t].owner = o /\ task'[t].pc = "layers" /\ task'[t].part[l] = p
        /\ \A k \in Layers \ {l} : task'[t].part[k] = task[t].part[k]
    BY <1>1 DEF PartMoved
  <1>4. \A k \in Keys \ {l} :
           /\ Wants(task'[t], k) <=> Wants(task[t], k)
           /\ Has(task'[t], k) => Head(lock[o][k]) = t
    <2>1. \A k \in Keys \ {l} : Has(task'[t], k) <=> Has(task[t], k)
      BY <1>2, <1>3 DEF Has
    <2>2. \A k \in Keys \ {l} : Wants(task'[t], k) <=> Wants(task[t], k)
      BY <1>2, <1>3 DEF Wants
    <2> QED BY <2>1, <2>2, <1>1 DEF Queues
  <1>5. /\ Wants(task[t], l) <=> task[t].part[l].at \in {"waiting", "writing", "written"}
        /\ Wants(task'[t], l) <=> p.at \in {"waiting", "writing", "written"}
        /\ Has(task'[t], l) <=> p.at \in {"writing", "written"}
    BY <1>2, <1>3 DEF Wants, Has
  <1>6. /\ lock' \in LockType /\ \A q \in Owners \ {o} : lock'[q] = lock[q]
        /\ \A k \in Keys \ {l} : lock'[o][k] = lock[o][k]
        /\ \/ /\ lock'[o][l] = lock[o][l] /\ (Wants(task'[t], l) <=> Wants(task[t], l))
              /\ Has(task'[t], l) => Head(lock[o][l]) = t
           \/ /\ lock'[o][l] = Append(lock[o][l], t)
              /\ ~Wants(task[t], l) /\ Wants(task'[t], l) /\ ~Has(task'[t], l)
           \/ /\ lock'[o][l] = RemoveFirst(lock[o][l], t)
              /\ ~Wants(task'[t], l) /\ ~Has(task'[t], l)
    <2>1. CASE /\ task[t].part[l].at \in {"created"} /\ p.at = "waiting"
               /\ lock' = Joined(lock, task[t].owner, l, t)
      <3>1. lock' = Joined(lock, o, l, t) BY <2>1, <1>1
      <3>2. /\ lock' \in LockType /\ lock'[o][l] = Append(lock[o][l], t)
            /\ \A k \in Keys \ {l} : lock'[o][k] = lock[o][k]
            /\ \A q \in Owners \ {o} : lock'[q] = lock[q]
        BY <3>1, <1>2, JoinedOne
      <3> QED BY <3>2, <2>1, <1>5
    <2>2. CASE /\ task[t].part[l].at \in {"waiting", "writing"} /\ p.at \in {"writing", "written"}
               /\ Head(lock[task[t].owner][l]) = t /\ lock' = lock
      BY <2>2, <1>1, <1>2, <1>5
    <2>3. CASE p.at \in {"ok", "failed"} /\ lock' = Left(lock, task[t].owner, l, t)
      <3>1. lock' = Left(lock, o, l, t) BY <2>3, <1>1
      <3>2. /\ lock' \in LockType /\ lock'[o][l] = RemoveFirst(lock[o][l], t)
            /\ \A k \in Keys \ {l} : lock'[o][k] = lock[o][k]
            /\ \A q \in Owners \ {o} : lock'[q] = lock[q]
        BY <3>1, <1>2, LeftOne
      <3> QED BY <3>2, <2>3, <1>5
    <2> QED BY <2>1, <2>2, <2>3
  <1>7. \A k \in Keys :
           \/ /\ lock'[o][k] = lock[o][k] /\ (Wants(task'[t], k) <=> Wants(task[t], k))
              /\ Has(task'[t], k) => Head(lock[o][k]) = t
           \/ /\ lock'[o][k] = Append(lock[o][k], t)
              /\ ~Wants(task[t], k) /\ Wants(task'[t], k) /\ ~Has(task'[t], k)
           \/ /\ lock'[o][k] = RemoveFirst(lock[o][k], t)
              /\ ~Wants(task'[t], k) /\ ~Has(task'[t], k)
    BY <1>4, <1>6
  <1> QED BY <1>1, <1>3, <1>6, <1>7, QueuesMove DEF LockType

-----------------------------------------------------------------------------
(* IInv is inductive: the steps of a part of a patch. *)

(* A part that ended. *)
LEMMA EndedType == Ended("failed") \in Part /\ Ended("failed").at = "failed"
                   /\ Ended("ok") \in Part /\ Ended("ok").at = "ok"
  BY DEF Ended, NoPart, Part, Data

(* The count of events stays within its bound. *)
LEMMA EventsType == ASSUME Typed, NEW kind, Happens(kind) PROVE events' \in 0 .. MaxEvents
  BY ConfigAssumption DEF Typed, Happens

(* What is the same for every step of a part. *)
LEMMA PartRest ==
    ASSUME IInv, NEW t \in Tasks, NEW l \in Layers, NEW p \in Part, PartMoved(t, l, p),
           task[t].pc = "layers", UNCHANGED outside
    PROVE  /\ Calls' /\ task' \in [Tasks -> Call]
           /\ UNCHANGED <<cache, config, shaken>> => Builds'
           /\ UNCHANGED <<store, writer, author, cache>> /\ task[t].part[l].at # "written"
                 /\ p.at \notin {"writing", "written"} => Own' /\ Kept'
  <1>1. /\ \A u \in Tasks \ {t} : task'[u] = task[u]
        /\ task'[t].owner = task[t].owner /\ task'[t].pc = "layers" /\ task'[t].ops = task[t].ops
        /\ task'[t].part[l] = p /\ \A k \in Layers \ {l} : task'[t].part[k] = task[t].part[k]
        /\ UNCHANGED live /\ task' \in [Tasks -> Call]
    BY DEF PartMoved, outside
  <1>2. Calls' BY <1>1 DEF IInv, Calls
  <1>3. UNCHANGED <<cache, config, shaken>> => Builds' BY <1>1, BuildsRest
  <1>4. ASSUME UNCHANGED <<store, writer, author, cache>>, task[t].part[l].at # "written",
               p.at \notin {"writing", "written"}
        PROVE  Own' /\ Kept'
    BY <1>1, <1>4, FilesRest
  <1> QED BY <1>1, <1>2, <1>3, <1>4

(* What the invariant says of a call, in the form the steps need it. *)
LEMMA CallFacts ==
    ASSUME IInv, NEW t \in Tasks
    PROVE  /\ task[t] \in Call /\ task[t].owner \in Owners /\ task[t].owner \in live
           /\ task[t].ops \in SUBSET Operations
           /\ \A l \in Layers : /\ task[t].part[l] \in Part
                                /\ cache[task[t].owner][l] \in LayerState
                                /\ cache[task[t].owner][l].data \in Data
                                /\ cache[task[t].owner][l].fp \in Nat
                                /\ task[t].part[l].at \notin {"none", "ok", "failed"} =>
                                      task[t].pc = "layers"
           /\ task[t].pc \in {"load", "read"} =>
                 task[t].pos \in 1 .. Len(Stack) /\ Stack[task[t].pos] \in Layers
  <1>1. /\ task[t] \in Call /\ task[t].owner \in Owners /\ task[t].ops \in SUBSET Operations
        /\ \A l \in Layers : task[t].part[l] \in Part
    BY DEF IInv, Typed, Call
  <1>2. ASSUME NEW l \in Layers
        PROVE  /\ cache[task[t].owner][l] \in LayerState
               /\ cache[task[t].owner][l].data \in Data
               /\ cache[task[t].owner][l].fp \in Nat
    <2>1. cache[task[t].owner][l] \in LayerState BY <1>1 DEF IInv, Typed
    <2> QED BY <2>1 DEF LayerState
  <1>3. /\ task[t].owner \in live
        /\ \A l \in Layers : task[t].part[l].at \notin {"none", "ok", "failed"} =>
              task[t].pc = "layers"
        /\ task[t].pc \in {"load", "read"} => task[t].pos \in 1 .. Len(Stack)
    BY DEF IInv, Calls
  <1> QED BY <1>1, <1>2, <1>3, StackFacts

(* A part joins the lock of its layer. *)
LEMMA StartPartKeeps == ASSUME IInv, NEW t \in Tasks, NEW l \in Layers, StartPart(t, l) PROVE IInv'
  <1>1. /\ task[t].part[l].at = "created" /\ task[t].pc = "layers" /\ task[t].part[l] \in Part
        /\ task[t].owner \in Owners /\ cache[task[t].owner][l].fp \in Nat
    BY CallFacts DEF StartPart
  <1>2. PICK p : p = [task[t].part[l] EXCEPT !.at = "waiting", !.fp = cache[task[t].owner][l].fp]
    OBVIOUS
  <1>3. p \in Part /\ p.at = "waiting" BY <1>1, <1>2 DEF Part
  <1>4. PartMoved(t, l, p)
    <2>1. task' = [task EXCEPT ![t].part[l] = p] BY <1>2 DEF StartPart
    <2> QED BY <2>1, <1>3, PartMoves DEF IInv
  <1>5. /\ UNCHANGED <<store, writer, author, cache, config, shaken>> /\ UNCHANGED outside
        /\ lock' = Joined(lock, task[t].owner, l, t)
    BY DEF StartPart, files, views
  <1>6. Queues' BY <1>1, <1>3, <1>4, <1>5, PartQueues
  <1>7. Calls' /\ Builds' /\ Own' /\ Kept' /\ task' \in [Tasks -> Call]
    BY <1>1, <1>3, <1>4, <1>5, PartRest
  <1>8. Typed'
    <2>1. bound' \in [Owners -> SUBSET Keys]
      <3>1. l \in Keys /\ bound \in [Owners -> SUBSET Keys] BY DEF Keys, IInv, Typed
      <3> QED BY <3>1, <1>1, BoundByType DEF StartPart
    <2> QED BY <2>1, <1>7 DEF StartPart, IInv, Typed, files, views, outside
  <1> QED BY <1>6, <1>7, <1>8 DEF IInv

(* A part that has the lock computes the data, or finds a conflict. *)
LEMMA ApplyPartKeeps == ASSUME IInv, NEW t \in Tasks, NEW l \in Layers, ApplyPart(t, l) PROVE IInv'
  <1> PICK o \in Owners : o = task[t].owner BY DEF IInv, Typed, Call
  <1>1. /\ task[t].part[l].at = "waiting" /\ task[t].pc = "layers" /\ task[t].part[l] \in Part
        /\ task[t].ops \in SUBSET Operations /\ Holds(t, l) /\ cache[o][l].data \in Data
        /\ UNCHANGED <<store, writer, author, cache, config, shaken>> /\ UNCHANGED outside
        /\ UNCHANGED <<files, views, bound, events>>
    <2>1. task[t].part[l].at = "waiting" /\ Holds(t, l) BY DEF ApplyPart
    <2>2. UNCHANGED <<files, views, bound, shaken, outside, events>> BY DEF ApplyPart
    <2>3. UNCHANGED <<store, writer, author, cache, config, shaken>> BY <2>2 DEF files, views
    <2> QED BY <2>1, <2>2, <2>3, CallFacts
  <1>2. Head(lock[o][l]) = t BY <1>1 DEF Holds
  <1>3. CASE task' = [task EXCEPT ![t].part[l] = [@ EXCEPT !.at = "writing",
                        !.data = Patched(cache[o][l].data, On(task[t].ops, l))]]
             /\ UNCHANGED lock
    <2>1. PICK p : p = [task[t].part[l] EXCEPT !.at = "writing",
                           !.data = Patched(cache[o][l].data, On(task[t].ops, l))]
      OBVIOUS
    <2>2. /\ Patched(cache[o][l].data, On(task[t].ops, l)) \in Data
          /\ \A f \in Fields : f \notin Named(On(task[t].ops, l)) =>
                Patched(cache[o][l].data, On(task[t].ops, l))[f] = cache[o][l].data[f]
      BY <1>1, OnType, PatchedType
    <2>3. p \in Part /\ p.at = "writing" /\ p.data = Patched(cache[o][l].data, On(task[t].ops, l))
      BY <2>1, <2>2, <1>1 DEF Part
    <2>4. PartMoved(t, l, p)
      <3>1. task' = [task EXCEPT ![t].part[l] = p] BY <2>1, <1>3
      <3> QED BY <3>1, <2>3, PartMoves DEF IInv
    <2>5. Queues' BY <1>1, <1>2, <1>3, <2>3, <2>4, PartQueues
    <2>6. Calls' /\ Builds' /\ task' \in [Tasks -> Call] BY <1>1, <2>4, <2>3, PartRest
    <2>7. Own' /\ Kept'
      <3>1. /\ \A u \in Tasks \ {t} : task'[u] = task[u]
            /\ task'[t].owner = o /\ task'[t].pc = "layers" /\ task'[t].ops = task[t].ops
            /\ task'[t].part[l] = p /\ \A k \in Layers \ {l} : task'[t].part[k] = task[t].part[k]
        BY <1>1, <2>4 DEF PartMoved
      <3>2. \A f \in Fields \ Named(On(task'[t].ops, l)) :
               task'[t].part[l].data[f] = cache[task'[t].owner][l].data[f]
        BY <3>1, <2>2, <2>3
      <3>3. UNCHANGED live BY <1>1 DEF outside
      <3>4. \A k \in Layers :
               \/ /\ task'[t].part[k] = task[t].part[k] /\ task'[t].ops = task[t].ops
                  /\ task'[t].owner = task[t].owner
               \/ /\ task[t].part[k].at # "written" /\ task'[t].part[k].at # "written"
                  /\ task'[t].part[k].at = "writing" =>
                        \A f \in Fields \ Named(On(task'[t].ops, k)) :
                           task'[t].part[k].data[f] = cache[task'[t].owner][k].data[f]
        BY <3>1, <3>2, <2>3, <1>1
      <3> QED BY <3>1, <3>3, <3>4, <1>1, FilesRest
    <2> QED BY <2>5, <2>6, <2>7, <1>1 DEF IInv, Typed, files, views, outside
  <1>4. CASE task' = [task EXCEPT ![t].part[l] = Ended("failed")] /\ lock' = Left(lock, o, l, t)
    <2>1. PartMoved(t, l, Ended("failed")) BY <1>4, EndedType, PartMoves DEF IInv
    <2>2. Queues' BY <2>1, <1>1, <1>4, EndedType, PartQueues
    <2>3. Calls' /\ Builds' /\ Own' /\ Kept' /\ task' \in [Tasks -> Call]
      BY <2>1, <1>1, EndedType, PartRest
    <2> QED BY <2>2, <2>3, <1>1 DEF IInv, Typed, files, views, outside
  <1> QED BY <1>3, <1>4 DEF ApplyPart

(* The thread of a part fails to write. *)
LEMMA WriteFailsKeeps == ASSUME IInv, NEW t \in Tasks, NEW l \in Layers, WriteFails(t, l) PROVE IInv'
  <1>1. /\ task[t].part[l].at = "writing" /\ task[t].pc = "layers"
        /\ UNCHANGED <<store, writer, author, cache, config, shaken>> /\ UNCHANGED outside
        /\ UNCHANGED <<files, views, bound>>
        /\ events' \in 0 .. MaxEvents
    <2>1. task[t].part[l].at = "writing" BY DEF WriteFails
    <2>2. UNCHANGED <<files, views, bound, shaken, outside>> BY DEF WriteFails
    <2>3. UNCHANGED <<store, writer, author, cache, config, shaken>> BY <2>2 DEF files, views
    <2>4. events' \in 0 .. MaxEvents BY EventsType DEF WriteFails, IInv
    <2> QED BY <2>1, <2>2, <2>3, <2>4, CallFacts
  <1>2. PartMoved(t, l, Ended("failed")) BY EndedType, PartMoves DEF IInv, WriteFails
  <1>3. Queues' BY <1>1, <1>2, EndedType, PartQueues DEF WriteFails
  <1>4. Calls' /\ Builds' /\ Own' /\ Kept' /\ task' \in [Tasks -> Call]
    BY <1>1, <1>2, EndedType, PartRest
  <1> QED BY <1>1, <1>3, <1>4 DEF IInv, Typed, files, views, outside

(* The thread of a part replaces the file. *)
LEMMA WritePartKeeps == ASSUME IInv, NEW t \in Tasks, NEW l \in Layers, WritePart(t, l) PROVE IInv'
  <1>1. PICK p : p = [task[t].part[l] EXCEPT !.at = "written", !.fp = store[l].fp + 1] OBVIOUS
  <1>2. Own' /\ Kept' /\ PartMoved(t, l, p) BY <1>1, PartWritten
  <1>3. /\ task[t].part[l].at = "writing" /\ task[t].pc = "layers" /\ task[t].part[l] \in Part
        /\ task[t].part[l].data \in Data /\ store[l].fp + 1 \in Nat
        /\ UNCHANGED <<orphans, views, lock, bound, shaken, outside, events>>
        /\ UNCHANGED <<cache, config, shaken>>
    <2>1. task[t].part[l].at = "writing" BY DEF WritePart
    <2>2. UNCHANGED <<orphans, views, lock, bound, shaken, outside, events>> BY DEF WritePart
    <2>3. UNCHANGED <<cache, config, shaken>> BY <2>2 DEF views
    <2>4. task[t].part[l] \in Part /\ task[t].pc = "layers" BY <2>1, CallFacts
    <2>5. task[t].part[l].data \in Data BY <2>4 DEF Part
    <2>6. store[l] \in LayerState BY DEF IInv, Typed
    <2>7. store[l].fp + 1 \in Nat BY <2>6 DEF LayerState
    <2> QED BY <2>1, <2>2, <2>3, <2>4, <2>5, <2>7
  <1>4. p \in Part /\ p.at = "written" BY <1>1, <1>3 DEF Part
  <1>5. Queues'
    <2>1. Head(lock[task[t].owner][l]) = t
      <3>1. l \in Keys /\ Has(task[t], l) BY <1>3, StackFacts DEF Has, Keys
      <3> QED BY <3>1 DEF IInv, Queues
    <2> QED BY <1>2, <1>3, <1>4, <2>1, PartQueues
  <1>6. Calls' /\ Builds' /\ task' \in [Tasks -> Call] BY <1>2, <1>3, <1>4, PartRest
  <1>7. Typed'
    <2>1. /\ store' \in [Layers -> LayerState]
          /\ writer' \in [Layers -> Owners \cup {"editor", "orphan"}]
          /\ author' \in [Layers -> [Fields -> Owners \cup {"editor", "orphan"}]]
      BY <1>3, CallFacts DEF WritePart, Replaced, IInv, Typed, LayerState
    <2> QED BY <2>1, <1>3, <1>6 DEF IInv, Typed, views, outside
  <1> QED BY <1>2, <1>5, <1>6, <1>7 DEF IInv

(* The layer takes over what its part wrote and gives the lock up. *)
LEMMA PartSavedKeeps == ASSUME IInv, NEW t \in Tasks, NEW l \in Layers, PartSaved(t, l) PROVE IInv'
  <1>1. Own' /\ Kept' BY SavedTaken
  <1>2. /\ task[t].part[l].at = "written" /\ task[t].pc = "layers" /\ task[t].part[l] \in Part
        /\ task[t].owner \in Owners
        /\ UNCHANGED <<files, config, told, bound, shaken, outside, events>>
        /\ cache' = [cache EXCEPT ![task[t].owner][l] = [data |-> task[t].part[l].data,
                                                         fp |-> task[t].part[l].fp]]
        /\ lock' = Left(lock, task[t].owner, l, t)
    <2>1. task[t].part[l].at = "written" BY DEF PartSaved
    <2> QED BY <2>1, CallFacts DEF PartSaved
  <1>3. PartMoved(t, l, Ended("ok")) BY EndedType, PartMoves DEF IInv, PartSaved
  <1>4. Queues' BY <1>2, <1>3, EndedType, PartQueues
  <1>5. Calls' /\ task' \in [Tasks -> Call] BY <1>2, <1>3, EndedType, PartRest
  <1>6. Typed'
    <2>1. [data |-> task[t].part[l].data, fp |-> task[t].part[l].fp] \in LayerState
      BY <1>2 DEF Part, LayerState
    <2>2. cache' \in [Owners -> [Layers -> LayerState]] BY <2>1, <1>2 DEF IInv, Typed
    <2> QED BY <2>2, <1>2, <1>5 DEF IInv, Typed, files, outside
  <1>7. Builds'
    <2>1. /\ \A u \in Tasks \ {t} : task'[u] = task[u]
          /\ task'[t].owner = task[t].owner /\ task'[t].pc = "layers"
      BY <1>2, <1>3 DEF PartMoved
    <2>2. \A o \in Owners \ {task[t].owner} : cache'[o] = cache[o] BY <1>2 DEF IInv, Typed
    <2>3. UNCHANGED <<shaken, config, live>> BY <1>2 DEF outside
    <2>4. ASSUME NEW u \in Tasks, task'[u].pc \in {"load", "read"}
          PROVE  \/ shaken'[task'[u].owner] = "yes"
                 \/ \E v \in Tasks : task'[v].owner = task'[u].owner /\ task'[v].pc \in {"layers", "build"}
                 \/ \A i \in 1 .. task'[u].pos - 1 :
                       task'[u].got[Stack[i]] = cache'[task'[u].owner][Stack[i]].data
      <3>1. u # t /\ task'[u] = task[u] BY <2>1, <2>4
      <3>2. CASE task[u].owner = task[t].owner BY <3>1, <3>2, <2>1
      <3>3. CASE task[u].owner # task[t].owner
        <4>1. cache'[task[u].owner] = cache[task[u].owner] BY <3>3, <2>2, CallFacts
        <4>2. \/ shaken[task[u].owner] = "yes"
              \/ \E v \in Tasks : task[v].owner = task[u].owner /\ task[v].pc \in {"layers", "build"}
              \/ \A i \in 1 .. task[u].pos - 1 :
                    task[u].got[Stack[i]] = cache[task[u].owner][Stack[i]].data
          BY <3>1, <2>4 DEF IInv, Builds
        <4>3. \A v \in Tasks : task[v].owner = task[u].owner => task'[v] = task[v] BY <3>3, <2>1
        <4> QED BY <4>1, <4>2, <4>3, <3>1, <2>3
      <3> QED BY <3>2, <3>3
    <2>5. ASSUME NEW o \in live', Idle(o)', shaken'[o] = "no", Coherent(Merged(o)')
          PROVE  config'[o] = Merged(o)'
      <3>1. o # task[t].owner BY <2>1, <2>5 DEF Idle
      <3>2. Idle(o) BY <3>1, <2>1, <2>5 DEF Idle
      <3>3. o \in live /\ o \in Owners BY <2>3 DEF IInv, Typed
      <3>4. cache'[o] = cache[o] BY <3>1, <3>3, <2>2
      <3>5. Merged(o)' = Merged(o) BY <3>4 DEF Merged
      <3> QED BY <3>2, <3>3, <3>5, <2>3, <2>5 DEF IInv, Builds
    <2> QED BY <2>4, <2>5 DEF Builds, Coherent
  <1> QED BY <1>1, <1>4, <1>5, <1>6, <1>7 DEF IInv

-----------------------------------------------------------------------------
(* IInv is inductive: the steps of a call. *)

(* The record of a call that has just begun. *)
LEMMA NewCallType ==
    /\ NewTask \in Call /\ DoneTask \in Call /\ DoneTask.pc = "done" /\ DoneTask.owner = Root
    /\ NewTask.pc = "idle" /\ NewTask.owner = Root /\ NewTask.pos = 0 /\ NoPart \in Part
    /\ NoPart.at = "none"
    /\ \A l \in Layers : DoneTask.part[l].at = "none" /\ NewTask.part[l].at = "none"
  <1>1. /\ NoPart \in Part /\ NoPart.at = "none" /\ NoSeen \in LayerState /\ NoSeen.data \in Data
        /\ [f \in Fields |-> Unset] \in Data /\ Root \in Owners /\ 0 \in 0 .. Len(Stack)
    BY StackFacts DEF NoPart, Part, Data, NoSeen, LayerState, Owners
  <1>2. NewTask \in Call BY <1>1 DEF NewTask, Call
  <1>3. NewTask.pc = "idle" /\ NewTask.owner = Root /\ NewTask.pos = 0
        /\ \A l \in Layers : NewTask.part[l].at = "none"
    BY <1>1 DEF NewTask
  <1>4. /\ DoneTask \in Call /\ DoneTask.pc = "done" /\ DoneTask.owner = Root
        /\ \A l \in Layers : DoneTask.part[l].at = "none"
    BY <1>2, <1>3 DEF DoneTask, Call
  <1> QED BY <1>1, <1>2, <1>3, <1>4

(* A call joins the lock of the builder. *)
LEMMA BuilderQueue ==
    ASSUME IInv, NEW t \in Tasks, NEW o \in Owners,
           \A u \in Tasks \ {t} : task'[u] = task[u],
           task'[t].pc = "build", task'[t].owner = o,
           \A l \in Layers : task[t].part[l].at \in {"none", "ok", "failed"},
           \A l \in Layers : task'[t].part[l].at \in {"none", "ok", "failed"},
           task[t].pc \in {"idle", "layers"}, task[t].owner = o \/ task[t].pc = "idle",
           lock' = Joined(lock, o, Builder, t)
    PROVE  Queues'
  <1>1. Builder \in Keys /\ lock \in LockType /\ \A k \in Keys \ {Builder} : k \in Layers
    BY DEF Keys, LockType, IInv, Queues
  <1>2. /\ lock' \in LockType /\ lock'[o][Builder] = Append(lock[o][Builder], t)
        /\ \A k \in Keys \ {Builder} : lock'[o][k] = lock[o][k]
        /\ \A q \in Owners \ {o} : lock'[q] = lock[q]
    BY <1>1, JoinedOne
  <1>3. /\ \A k \in Keys : ~Wants(task[t], k) /\ ~Has(task'[t], k)
        /\ \A k \in Keys \ {Builder} : ~Wants(task'[t], k)
        /\ Wants(task'[t], Builder)
    BY <1>1, StackFacts DEF Wants, Has
  <1>4. \A k \in Keys :
           \/ /\ lock'[o][k] = lock[o][k] /\ (Wants(task'[t], k) <=> Wants(task[t], k))
              /\ Has(task'[t], k) => Head(lock[o][k]) = t
           \/ /\ lock'[o][k] = Append(lock[o][k], t)
              /\ ~Wants(task[t], k) /\ Wants(task'[t], k) /\ ~Has(task'[t], k)
           \/ /\ lock'[o][k] = RemoveFirst(lock[o][k], t)
              /\ ~Wants(task'[t], k) /\ ~Has(task'[t], k)
    BY <1>1, <1>2, <1>3
  <1>5. Typed /\ Queues BY DEF IInv
  <1>6. task[t].owner = o \/ \A k \in Keys : ~Wants(task[t], k) BY <1>3
  <1> QED BY <1>2, <1>4, <1>5, <1>6, QueuesMove DEF LockType

(* A call ends, and lets go of its locks. *)
LEMMA EndQueues ==
    ASSUME IInv, NEW t \in Tasks, task' = [task EXCEPT ![t] = DoneTask],
           NEW o \in Owners, o = task[t].owner,
           lock' \in LockType, \A q \in Owners \ {o} : lock'[q] = lock[q],
           \A k \in Keys : \/ lock'[o][k] = lock[o][k] /\ ~Wants(task[t], k)
                           \/ lock'[o][k] = RemoveFirst(lock[o][k], t)
    PROVE  Queues'
  <1>1. task'[t] = DoneTask /\ \A u \in Tasks \ {t} : task'[u] = task[u]
    BY DEF IInv, Typed
  <1>2. \A k \in Keys : ~Wants(task'[t], k) /\ ~Has(task'[t], k)
    <2>1. \A k \in Keys : k = Builder \/ k \in Layers BY DEF Keys
    <2> QED BY <2>1, <1>1, NewCallType DEF Wants, Has
  <1>3. \A k \in Keys :
           \/ /\ lock'[o][k] = lock[o][k] /\ (Wants(task'[t], k) <=> Wants(task[t], k))
              /\ Has(task'[t], k) => Head(lock[o][k]) = t
           \/ /\ lock'[o][k] = Append(lock[o][k], t)
              /\ ~Wants(task[t], k) /\ Wants(task'[t], k) /\ ~Has(task'[t], k)
           \/ /\ lock'[o][k] = RemoveFirst(lock[o][k], t)
              /\ ~Wants(task'[t], k) /\ ~Has(task'[t], k)
    BY <1>2
  <1> QED BY <1>1, <1>2, <1>3, QueuesMove DEF IInv, LockType

(* The locks a call has let go of when a build is through. *)
LEMMA ReleasedQueues ==
    ASSUME IInv, NEW t \in Tasks, task[t].pc = "read",
           task' = [task EXCEPT ![t] = DoneTask], lock' = Released(t)
    PROVE  Queues'
  <1>1. PICK o \in Owners : o = task[t].owner BY CallFacts
  <1>2. PICK l \in Layers : l = Stack[task[t].pos] BY CallFacts
  <1>3. /\ l \in Keys /\ Builder \in Keys /\ l # Builder /\ lock \in LockType
        /\ IsInjective(lock[o][l]) /\ IsInjective(lock[o][Builder])
    BY StackFacts DEF Keys, IInv, Queues, LockType
  <1>4. PICK free : free = Left(lock, o, l, t) OBVIOUS
  <1>5. /\ free \in LockType /\ free[o][l] = RemoveFirst(lock[o][l], t)
        /\ \A k \in Keys \ {l} : free[o][k] = lock[o][k]
        /\ \A q \in Owners \ {o} : free[q] = lock[q]
    BY <1>3, <1>4, LeftOne
  <1>6. lock' = Left(free, o, Builder, t) BY <1>1, <1>2, <1>4 DEF Released
  <1>7. IsInjective(free[o][Builder]) /\ free[o][Builder] = lock[o][Builder] BY <1>3, <1>5
  <1>8. /\ lock' \in LockType /\ lock'[o][Builder] = RemoveFirst(free[o][Builder], t)
        /\ \A k \in Keys \ {Builder} : lock'[o][k] = free[o][k]
        /\ \A q \in Owners \ {o} : lock'[q] = free[q]
    BY <1>3, <1>5, <1>6, <1>7, LeftOne
  <1>9. \A k \in Keys \ {l, Builder} : ~Wants(task[t], k)
    <2>1. \A k \in Layers : task[t].part[k].at \in {"none", "ok", "failed"}
      BY DEF IInv, Calls
    <2> QED BY <2>1, <1>2 DEF Wants, Keys
  <1>10. \A k \in Keys : \/ lock'[o][k] = lock[o][k] /\ ~Wants(task[t], k)
                         \/ lock'[o][k] = RemoveFirst(lock[o][k], t)
    BY <1>3, <1>5, <1>7, <1>8, <1>9
  <1>11. lock' \in LockType /\ \A q \in Owners \ {o} : lock'[q] = lock[q] BY <1>5, <1>8
  <1> QED BY <1>1, <1>10, <1>11, EndQueues

(* A call ends without its build: its orchestrator is shaken. *)
LEMMA EndsShaken ==
    ASSUME IInv, NEW t \in Tasks, task' = [task EXCEPT ![t] = DoneTask],
           shaken' = [shaken EXCEPT ![task[t].owner] = "yes"],
           UNCHANGED <<cache, config, live>>
    PROVE  Calls' /\ Builds' /\ task' \in [Tasks -> Call]
  <1> USE DEF IInv
  <1>1. PICK o \in Owners : o = task[t].owner BY CallFacts
  <1>2. /\ task'[t] = DoneTask /\ \A u \in Tasks \ {t} : task'[u] = task[u]
        /\ task'[t].pc = "done" /\ task'[t].owner = Root
        /\ \A l \in Layers : task'[t].part[l].at = "none"
        /\ task' \in [Tasks -> Call]
    BY NewCallType DEF Typed
  <1>3. shaken'[o] = "yes" /\ \A q \in Owners \ {o} : shaken'[q] = shaken[q] BY <1>1 DEF Typed
  <1>4. Calls' BY <1>2 DEF Calls
  <1>5. ASSUME NEW u \in Tasks, task'[u].pc \in {"load", "read"}
        PROVE  \/ shaken'[task'[u].owner] = "yes"
               \/ \E v \in Tasks : task'[v].owner = task'[u].owner /\ task'[v].pc \in {"layers", "build"}
               \/ \A i \in 1 .. task'[u].pos - 1 :
                     task'[u].got[Stack[i]] = cache'[task'[u].owner][Stack[i]].data
    <2>1. u # t /\ task'[u] = task[u] /\ task[u].owner \in Owners BY <1>2, <1>5, CallFacts
    <2>2. CASE task[u].owner = o BY <2>1, <2>2, <1>3
    <2>3. CASE task[u].owner # o
      <3>1. \A v \in Tasks : task[v].owner = task[u].owner => task'[v] = task[v]
        BY <1>1, <1>2, <2>3
      <3>2. \/ shaken[task[u].owner] = "yes"
            \/ \E v \in Tasks : task[v].owner = task[u].owner /\ task[v].pc \in {"layers", "build"}
            \/ \A i \in 1 .. task[u].pos - 1 :
                  task[u].got[Stack[i]] = cache[task[u].owner][Stack[i]].data
        BY <2>1, <1>5 DEF Builds
      <3>3. shaken'[task[u].owner] = shaken[task[u].owner] BY <2>1, <2>3, <1>3
      <3> QED BY <3>1, <3>2, <3>3, <2>1
    <2> QED BY <2>2, <2>3
  <1>6. ASSUME NEW q \in live', Idle(q)', shaken'[q] = "no", Coherent(Merged(q)')
        PROVE  config'[q] = Merged(q)'
    <2>1. q \in Owners /\ q # o /\ q \in live BY <1>3, <1>6 DEF Typed
    <2>2. Idle(q)
      <3>1. ASSUME NEW u \in Tasks, task[u].owner = q PROVE task[u].pc \in {"idle", "done"}
        <4>1. u # t BY <1>1, <2>1, <3>1
        <4>2. task'[u] = task[u] BY <4>1, <1>2
        <4> QED BY <4>2, <3>1, <1>6 DEF Idle
      <3> QED BY <3>1 DEF Idle
    <2>3. Merged(q)' = Merged(q) BY DEF Merged
    <2>4. shaken[q] = "no" BY <2>1, <1>3, <1>6
    <2> QED BY <2>1, <2>2, <2>3, <2>4, <1>6 DEF Builds
  <1> QED BY <1>2, <1>4, <1>5, <1>6 DEF Builds, Coherent

(* A build finds a file changed while it was read, and fails. *)
LEMMA ReadConflictKeeps == ASSUME IInv, NEW t \in Tasks, ReadConflict(t) PROVE IInv'
  <1>1. /\ task[t].pc = "read" /\ task' = [task EXCEPT ![t] = DoneTask] /\ lock' = Released(t)
        /\ shaken' = [shaken EXCEPT ![task[t].owner] = "yes"]
        /\ UNCHANGED <<files, views, bound, outside, events>>
    BY DEF ReadConflict
  <1>2. Queues' BY <1>1, ReleasedQueues
  <1>3. UNCHANGED <<store, writer, author, cache, config, live>>
    BY <1>1 DEF files, views, outside
  <1>4. Calls' /\ Builds' /\ task' \in [Tasks -> Call] BY <1>1, <1>3, EndsShaken
  <1>5. Own' /\ Kept'
    <2>1. /\ task'[t] = DoneTask /\ \A u \in Tasks \ {t} : task'[u] = task[u]
          /\ \A l \in Layers : task[t].part[l].at \in {"none", "ok", "failed"}
      BY <1>1 DEF IInv, Typed, Calls
    <2>2. /\ task'[t].pc # "read" /\ \A l \in Layers : task[t].part[l].at # "written"
          /\ \A l \in Layers : task'[t].part[l].at \notin {"written", "writing"}
      BY <2>1, NewCallType
    <2> QED BY <1>3, <2>1, <2>2, FilesRest
  <1>6. Typed'
    <2>1. shaken' \in [Owners -> {"no", "yes", "mending"}] BY <1>1 DEF IInv, Typed
    <2> QED BY <1>1, <1>4, <2>1 DEF IInv, Typed, files, views, outside
  <1> QED BY <1>2, <1>4, <1>5, <1>6 DEF IInv

(* A call is cancelled wherever it is; its threads go on. *)
LEMMA CancelTaskKeeps == ASSUME IInv, NEW t \in Tasks, CancelTask(t) PROVE IInv'
  <1>1. PICK o \in Owners : o = task[t].owner BY CallFacts
  <1>2. /\ task' = [task EXCEPT ![t] = DoneTask]
        /\ lock' = [lock EXCEPT ![o] = [k \in Keys |-> RemoveFirst(@[k], t)]]
        /\ shaken' = [shaken EXCEPT ![task[t].owner] = "yes"]
        /\ UNCHANGED <<store, views, bound, outside>>
        /\ Happens("cancel")
    BY <1>1 DEF CancelTask, Keys
  <1>3. Queues'
    <2>1. lock \in LockType /\ \A k \in Keys : IsInjective(lock[o][k])
      BY DEF IInv, Queues, LockType
    <2>2. /\ \A k \in Keys : lock'[o][k] = RemoveFirst(lock[o][k], t)
          /\ \A q \in Owners \ {o} : lock'[q] = lock[q]
      BY <1>2, <2>1 DEF LockType
    <2>3. \A k \in Keys : RemoveFirst(lock[o][k], t) \in Seq(Tasks \cup {Nobody})
      <3>1. \A k \in Keys : lock[o][k] \in Seq(Tasks \cup {Nobody}) BY <2>1 DEF LockType
      <3> QED BY <3>1, <2>1, LeaveQueue
    <2>4. lock' \in LockType BY <1>2, <2>1, <2>3 DEF LockType
    <2> QED BY <1>1, <1>2, <2>2, <2>4, EndQueues
  <1>4. UNCHANGED <<cache, config, live>> BY <1>2 DEF views, outside
  <1>5. Calls' /\ Builds' /\ task' \in [Tasks -> Call] BY <1>2, <1>4, EndsShaken
  <1>6. Own' /\ Kept' BY CancelledLosesAuthorship
  <1>7. Typed'
    <2>1. shaken' \in [Owners -> {"no", "yes", "mending"}] BY <1>2 DEF IInv, Typed
    <2>2. writer' \in [Layers -> Owners \cup {"editor", "orphan"}]
      BY DEF IInv, Typed, CancelTask
    <2>3. author' \in [Layers -> [Fields -> Owners \cup {"editor", "orphan"}]]
      BY DEF IInv, Typed, CancelTask
    <2>4. orphans' \subseteq [layer : Layers, data : Data, owner : Owners]
      <3>1. \A l \in Layers : task[t].part[l].data \in Data BY CallFacts DEF Part
      <3>2. {[layer |-> l, data |-> task[t].part[l].data, owner |-> task[t].owner] :
                l \in {k \in Layers : task[t].part[k].at = "writing"}}
                \subseteq [layer : Layers, data : Data, owner : Owners]
        BY <1>1, <3>1
      <3>3. orphans \subseteq [layer : Layers, data : Data, owner : Owners] BY DEF IInv, Typed
      <3> QED BY <3>2, <3>3 DEF CancelTask
    <2>5. events' \in 0 .. MaxEvents BY <1>2, EventsType DEF IInv
    <2> QED BY <1>2, <1>5, <2>1, <2>2, <2>3, <2>4, <2>5 DEF IInv, Typed, views, outside
  <1> QED BY <1>3, <1>5, <1>6, <1>7 DEF IInv

(* A patch begins with the operations grouped by layer. *)
LEMMA BeginPatchKeeps == ASSUME IInv, NEW t \in Tasks, BeginPatch(t) PROVE IInv'
  <1>1. PICK o \in live, P \in Patches, s \in Strategies :
           /\ Coherent(Patched(config[o], P))
           /\ task' = [task EXCEPT ![t] =
              [NewTask EXCEPT !.pc = "layers", !.owner = o, !.ops = P, !.strategy = s,
                  !.before = config[o],
                  !.part = [l \in Layers |-> IF On(P, l) = {} THEN NoPart
                                             ELSE [NoPart EXCEPT !.at = "created"]]]]
    BY DEF BeginPatch
  <1>2. PICK r : r = [NewTask EXCEPT !.pc = "layers", !.owner = o, !.ops = P, !.strategy = s,
                  !.before = config[o],
                  !.part = [l \in Layers |-> IF On(P, l) = {} THEN NoPart
                                             ELSE [NoPart EXCEPT !.at = "created"]]]
    OBVIOUS
  <1>3. /\ o \in Owners /\ P \in SUBSET Operations /\ config[o] \in Data
        /\ s \in {"cancel", "replace"}
    BY ConfigAssumption DEF IInv, Typed
  <1>4. [NoPart EXCEPT !.at = "created"] \in Part /\ [NoPart EXCEPT !.at = "created"].at = "created"
    BY NewCallType DEF Part
  <1>5. /\ r \in Call /\ r.pc = "layers" /\ r.owner = o
        /\ \A l \in Layers : r.part[l].at \in {"none", "created"}
    BY <1>2, <1>3, <1>4, NewCallType DEF Call
  <1>6. /\ task'[t] = r /\ \A u \in Tasks \ {t} : task'[u] = task[u]
        /\ task' \in [Tasks -> Call]
    BY <1>1, <1>2, <1>5 DEF IInv, Typed
  <1>7. /\ task[t].pc = "idle" /\ \A l \in Layers : task[t].part[l].at \in {"none", "ok", "failed"}
        /\ UNCHANGED <<files, views, lock, bound, shaken, outside, events>>
        /\ UNCHANGED <<store, writer, author, cache, config, live>>
    BY DEF BeginPatch, IInv, Calls, files, views, outside
  <1>8. Queues'
    <2>1. \A k \in Keys : ~Wants(task'[t], k) /\ ~Has(task'[t], k) /\ ~Wants(task[t], k)
      BY <1>5, <1>6, <1>7 DEF Wants, Has, Keys
    <2>2. lock' \in [Owners -> [Keys -> Seq(Tasks \cup {Nobody})]] BY <1>7 DEF IInv, Queues
    <2> QED BY <1>3, <1>6, <1>7, <2>1, <2>2, QueuesMove DEF IInv
  <1>9. Calls' BY <1>5, <1>6, <1>7 DEF IInv, Calls
  <1>10. Own' /\ Kept'
    <2>1. \A l \in Layers : /\ task[t].part[l].at # "written" /\ task'[t].part[l].at # "written"
                            /\ task'[t].part[l].at # "writing"
      BY <1>5, <1>6, <1>7
    <2>2. /\ UNCHANGED <<store, writer, author, cache>> /\ live \subseteq live'
          /\ task'[t].pc # "read"
      BY <1>5, <1>6, <1>7
    <2> QED BY <1>6, <2>1, <2>2, FilesRest
  <1>11. Builds'
    <2>1. cache' = cache /\ config' = config /\ shaken' = shaken /\ live' = live BY <1>7
    <2>2. /\ task[t].pc \in {"layers", "build"} => task'[t].pc \in {"layers", "build"}
          /\ task'[t].pc \notin {"load", "read"} /\ task[t].pc \in {"idle", "done"}
          /\ \A u \in Tasks \ {t} : task'[u] = task[u]
      BY <1>5, <1>6, <1>7
    <2> QED BY <2>1, <2>2, BuildsRest
  <1> QED BY <1>6, <1>7, <1>8, <1>9, <1>10, <1>11 DEF IInv, Typed, files, views, outside

(* A call moves with its record. *)
LEMMA CallMoves ==
    ASSUME IInv, NEW t \in Tasks, NEW r \in Call, task' = [task EXCEPT ![t] = r]
    PROVE  /\ task' \in [Tasks -> Call] /\ \A u \in Tasks \ {t} : task'[u] = task[u]
           /\ task'[t] = r
  BY DEF IInv, Typed

(* What is the same for the calls that come to the builder. *)
LEMMA ToBuilder ==
    ASSUME IInv, NEW t \in Tasks, NEW o \in live,
           task' \in [Tasks -> Call], \A u \in Tasks \ {t} : task'[u] = task[u],
           task'[t].pc = "build", task'[t].owner = o, task'[t].part = task[t].part,
           task[t].pc \in {"idle", "layers"}, task[t].owner = o \/ task[t].pc = "idle",
           \A l \in Layers : task[t].part[l].at \in {"none", "ok", "failed"},
           lock' = Joined(lock, o, Builder, t), bound' = BoundBy(bound, lock, o, Builder),
           UNCHANGED <<files, views, shaken, outside>>, events' \in 0 .. MaxEvents
    PROVE  IInv'
  <1>1. o \in Owners /\ Builder \in Keys BY DEF IInv, Typed, Keys
  <1>2. UNCHANGED <<store, writer, author, cache, config, live>> BY DEF files, views, outside
  <1>3. Queues' BY <1>1, BuilderQueue
  <1>4. Calls' BY <1>2 DEF IInv, Calls
  <1>5. Own' /\ Kept'
    <2>1. \A l \in Layers : /\ task[t].part[l].at # "written" /\ task'[t].part[l].at # "written"
                            /\ task'[t].part[l].at # "writing"
      OBVIOUS
    <2>2. /\ UNCHANGED <<store, writer, author, cache>> /\ live \subseteq live'
          /\ task'[t].pc # "read"
      BY <1>2
    <2> QED BY <2>1, <2>2, FilesRest
  <1>6. Builds'
    <2>1. cache' = cache /\ config' = config /\ shaken' = shaken /\ live' = live BY <1>2
    <2>2. /\ task[t].pc \in {"layers", "build"} => task'[t].pc \in {"layers", "build"}
          /\ task'[t].pc \notin {"load", "read"}
          /\ \/ task[t].pc \in {"idle", "done"}
             \/ task'[t].pc \notin {"idle", "done"} /\ task'[t].owner = task[t].owner
      OBVIOUS
    <2> QED BY <2>1, <2>2, BuildsRest
  <1>7. bound' \in [Owners -> SUBSET Keys] BY <1>1, BoundByType DEF IInv, Typed
  <1> QED BY <1>3, <1>4, <1>5, <1>6, <1>7 DEF IInv, Typed, files, views, outside

(* A reload joins the builder's lock. *)
LEMMA BeginReloadKeeps == ASSUME IInv, NEW t \in Tasks, BeginReload(t) PROVE IInv'
  <1>1. PICK o \in live : /\ task' = [task EXCEPT ![t] = [@ EXCEPT !.pc = "build", !.owner = o]]
                          /\ lock' = Joined(lock, o, Builder, t)
                          /\ bound' = BoundBy(bound, lock, o, Builder)
    BY DEF BeginReload
  <1>2. task[t].pc = "idle" /\ UNCHANGED <<files, views, shaken, outside>> /\ o \in Owners
    BY DEF BeginReload, IInv, Typed
  <1>3. /\ task' \in [Tasks -> Call] /\ \A u \in Tasks \ {t} : task'[u] = task[u]
        /\ task'[t].pc = "build" /\ task'[t].owner = o /\ task'[t].part = task[t].part
    <2>1. PICK r : r = [task[t] EXCEPT !.pc = "build", !.owner = o] OBVIOUS
    <2>2. task[t] \in Call BY CallFacts
    <2>3. r \in Call /\ r.pc = "build" /\ r.owner = o /\ r.part = task[t].part
      BY <2>1, <2>2, <1>2 DEF Call
    <2>4. task' = [task EXCEPT ![t] = r] BY <1>1, <2>1
    <2> QED BY <2>3, <2>4, CallMoves
  <1>4. \A l \in Layers : task[t].part[l].at \in {"none", "ok", "failed"}
    BY <1>2 DEF IInv, Calls
  <1>5. events' \in 0 .. MaxEvents BY EventsType DEF BeginReload, IInv
  <1> QED BY <1>1, <1>2, <1>3, <1>4, <1>5, ToBuilder

(* All parts of a patch have ended: it joins the builder's lock. *)
LEMMA LayersSettledKeeps == ASSUME IInv, NEW t \in Tasks, LayersSettled(t) PROVE IInv'
  <1>1. PICK o \in live : o = task[t].owner BY CallFacts
  <1>2. /\ task[t].pc = "layers" /\ task' = [task EXCEPT ![t] = [@ EXCEPT !.pc = "build"]]
        /\ \A l \in Layers : task[t].part[l].at \in {"none", "ok", "failed"}
        /\ lock' = Joined(lock, o, Builder, t) /\ bound' = BoundBy(bound, lock, o, Builder)
        /\ UNCHANGED <<files, views, shaken, outside>>
    BY <1>1 DEF LayersSettled
  <1>3. /\ task' \in [Tasks -> Call] /\ \A u \in Tasks \ {t} : task'[u] = task[u]
        /\ task'[t].pc = "build" /\ task'[t].owner = o /\ task'[t].part = task[t].part
    <2>1. PICK r : r = [task[t] EXCEPT !.pc = "build"] OBVIOUS
    <2>2. task[t] \in Call BY CallFacts
    <2>3. r \in Call /\ r.pc = "build" /\ r.owner = o /\ r.part = task[t].part
      BY <2>1, <2>2, <1>1 DEF Call
    <2>4. task' = [task EXCEPT ![t] = r] BY <1>2, <2>1
    <2> QED BY <2>3, <2>4, CallMoves
  <1>4. events' \in 0 .. MaxEvents BY DEF LayersSettled, IInv, Typed
  <1> QED BY <1>1, <1>2, <1>3, <1>4, ToBuilder

(* A build begins, with nothing read: it is the only one. *)
LEMMA StartBuildKeeps == ASSUME IInv, NEW t \in Tasks, StartBuild(t) PROVE IInv'
  <1>1. PICK o \in Owners : o = task[t].owner BY CallFacts
  <1>2. PICK l \in Layers : l = Stack[1] BY StackFacts
  <1>3. /\ task[t].pc = "build" /\ Holds(t, Builder)
        /\ task' = [task EXCEPT ![t] = [@ EXCEPT !.pc = "load", !.pos = 1]]
        /\ lock' = Joined(lock, o, l, t) /\ bound' = BoundBy(bound, lock, o, l)
        /\ shaken' = [shaken EXCEPT ![o] = IF @ = "yes" THEN "mending" ELSE @]
        /\ UNCHANGED <<files, views, outside, events>>
    BY <1>1, <1>2 DEF StartBuild
  <1>4. 1 \in 0 .. Len(Stack) /\ 1 \in 1 .. Len(Stack) BY StackFacts
  <1>5. /\ task' \in [Tasks -> Call] /\ \A u \in Tasks \ {t} : task'[u] = task[u]
        /\ task'[t].pc = "load" /\ task'[t].pos = 1 /\ task'[t].owner = o
        /\ task'[t].part = task[t].part
    <2>1. PICK r : r = [task[t] EXCEPT !.pc = "load", !.pos = 1] OBVIOUS
    <2>2. task[t] \in Call BY CallFacts
    <2>3. r \in Call /\ r.pc = "load" /\ r.pos = 1 /\ r.owner = o /\ r.part = task[t].part
      BY <2>1, <2>2, <1>1, <1>4 DEF Call
    <2>4. task' = [task EXCEPT ![t] = r] BY <1>3, <2>1
    <2> QED BY <2>3, <2>4, CallMoves
  <1>6. UNCHANGED <<store, writer, author, cache, config, live>>
    BY <1>3 DEF files, views, outside
  <1>7. \A k \in Layers : task[t].part[k].at \in {"none", "ok", "failed"}
    BY <1>3 DEF IInv, Calls
  <1>8. l \in Keys /\ Builder \in Keys /\ l # Builder BY StackFacts DEF Keys
  <1>9. Queues'
    <2>1. lock \in LockType BY DEF IInv, Queues, LockType
    <2>2. /\ lock' \in LockType /\ lock'[o][l] = Append(lock[o][l], t)
          /\ \A k \in Keys \ {l} : lock'[o][k] = lock[o][k]
          /\ \A q \in Owners \ {o} : lock'[q] = lock[q]
      BY <1>3, <1>8, <2>1, JoinedOne
    <2>3. /\ ~Wants(task[t], l) /\ Wants(task'[t], l) /\ ~Has(task'[t], l)
          /\ Wants(task[t], Builder) /\ Wants(task'[t], Builder) /\ Head(lock[o][Builder]) = t
      BY <1>1, <1>2, <1>3, <1>5, <1>7, <1>8 DEF Wants, Has, Holds
    <2>4. \A k \in Keys \ {l, Builder} : /\ ~Wants(task[t], k) /\ ~Wants(task'[t], k)
                                         /\ ~Has(task'[t], k)
      BY <1>2, <1>3, <1>5, <1>7 DEF Wants, Has, Keys
    <2>5. \A k \in Keys :
             \/ /\ lock'[o][k] = lock[o][k] /\ (Wants(task'[t], k) <=> Wants(task[t], k))
                /\ Has(task'[t], k) => Head(lock[o][k]) = t
             \/ /\ lock'[o][k] = Append(lock[o][k], t)
                /\ ~Wants(task[t], k) /\ Wants(task'[t], k) /\ ~Has(task'[t], k)
             \/ /\ lock'[o][k] = RemoveFirst(lock[o][k], t)
                /\ ~Wants(task'[t], k) /\ ~Has(task'[t], k)
      BY <1>8, <2>2, <2>3, <2>4
    <2>6. /\ Typed /\ Queues /\ task[t].owner = o /\ task'[t].owner = o
          /\ \A u \in Tasks \ {t} : task'[u] = task[u]
          /\ lock' \in [Owners -> [Keys -> Seq(Tasks \cup {Nobody})]]
          /\ \A q \in Owners \ {o} : lock'[q] = lock[q]
      BY <1>1, <1>5, <2>2 DEF IInv, LockType
    <2> QED BY <2>5, <2>6, QueuesMove
  <1>10. Calls'
    <2>1. /\ task'[t].owner \in live' /\ task'[t].pos \in 1 .. Len(Stack)
          /\ \A k \in Layers : task'[t].part[k].at \in {"none", "ok", "failed"}
      BY <1>1, <1>4, <1>5, <1>6, <1>7, CallFacts
    <2> QED BY <2>1, <1>5, <1>6 DEF IInv, Calls
  <1>11. Own' /\ Kept'
    <2>1. \A k \in Layers : /\ task[t].part[k].at # "written" /\ task'[t].part[k].at # "written"
                            /\ task'[t].part[k].at # "writing"
      BY <1>5, <1>7
    <2> QED BY <1>5, <1>6, <2>1, FilesRest
  <1>12. Builds'
    <2>1. ASSUME NEW u \in Tasks, task[u].pc \in {"load", "read"} PROVE task[u].owner # o /\ u # t
      <3>1. u # t BY <1>3, <2>1
      <3>2. Has(task[u], Builder) BY <2>1 DEF Has
      <3> QED BY <1>1, <1>3, <1>8, <3>1, <3>2, HolderHasIt DEF IInv
    <2>2. ASSUME NEW u \in Tasks, task'[u].pc \in {"load", "read"}
          PROVE  \/ shaken'[task'[u].owner] = "yes"
                 \/ \E v \in Tasks : task'[v].owner = task'[u].owner /\ task'[v].pc \in {"layers", "build"}
                 \/ \A i \in 1 .. task'[u].pos - 1 :
                       task'[u].got[Stack[i]] = cache'[task'[u].owner][Stack[i]].data
      <3>1. CASE u = t BY <3>1, <1>5
      <3>2. CASE u # t
        <4>1. task'[u] = task[u] /\ task[u].owner # o /\ task[u].owner \in Owners
          BY <3>2, <2>1, <2>2, <1>5, CallFacts
        <4>2. shaken'[task[u].owner] = shaken[task[u].owner]
          BY <4>1, <1>3 DEF IInv, Typed
        <4>3. \A v \in Tasks : task[v].owner = task[u].owner => task'[v] = task[v]
          BY <4>1, <1>1, <1>5
        <4>4. \/ shaken[task[u].owner] = "yes"
              \/ \E v \in Tasks : task[v].owner = task[u].owner /\ task[v].pc \in {"layers", "build"}
              \/ \A i \in 1 .. task[u].pos - 1 :
                    task[u].got[Stack[i]] = cache[task[u].owner][Stack[i]].data
          BY <2>2, <4>1 DEF IInv, Builds
        <4> QED BY <4>1, <4>2, <4>3, <4>4, <1>6
      <3> QED BY <3>1, <3>2
    <2>3. ASSUME NEW q \in live', Idle(q)', shaken'[q] = "no", Coherent(Merged(q)')
          PROVE  config'[q] = Merged(q)'
      <3>1. q # o BY <1>5, <2>3 DEF Idle
      <3>2. Idle(q) BY <3>1, <1>1, <1>5, <2>3 DEF Idle
      <3>3. q \in live /\ q \in Owners BY <1>6 DEF IInv, Typed
      <3>4. shaken[q] = "no" BY <3>1, <3>3, <2>3, <1>3 DEF IInv, Typed
      <3>5. Merged(q)' = Merged(q) BY <1>6 DEF Merged
      <3> QED BY <3>2, <3>3, <3>4, <3>5, <1>6, <2>3 DEF IInv, Builds
    <2> QED BY <2>2, <2>3 DEF Builds, Coherent
  <1>13. Typed'
    <2>1. bound' \in [Owners -> SUBSET Keys] BY <1>3, <1>8, BoundByType DEF IInv, Typed
    <2>2. shaken' \in [Owners -> {"no", "yes", "mending"}] BY <1>3 DEF IInv, Typed
    <2> QED BY <1>3, <1>5, <2>1, <2>2 DEF IInv, Typed, files, views, outside
  <1> QED BY <1>9, <1>10, <1>11, <1>12, <1>13 DEF IInv

(* The reader begins, with the file as it is. *)
LEMMA StartReadKeeps == ASSUME IInv, NEW t \in Tasks, StartRead(t) PROVE IInv'
  <1>1. PICK o \in Owners : o = task[t].owner BY CallFacts
  <1>2. /\ task[t].pc = "load" /\ Holds(t, Stack[task[t].pos])
        /\ task' = [task EXCEPT ![t] = [@ EXCEPT !.pc = "read", !.seen = store[Stack[task[t].pos]]]]
        /\ UNCHANGED <<files, views, lock, bound, shaken, outside, events>>
    BY DEF StartRead
  <1>3. PICK l \in Layers : l = Stack[task[t].pos] BY <1>2, CallFacts
  <1>4. /\ task' \in [Tasks -> Call] /\ \A u \in Tasks \ {t} : task'[u] = task[u]
        /\ task'[t].pc = "read" /\ task'[t].seen = store[l] /\ task'[t].owner = o
        /\ task'[t].part = task[t].part /\ task'[t].pos = task[t].pos
        /\ task'[t].got = task[t].got /\ task'[t].ops = task[t].ops
    <2>1. PICK r : r = [task[t] EXCEPT !.pc = "read", !.seen = store[l]] OBVIOUS
    <2>2. task[t] \in Call /\ store[l] \in LayerState BY CallFacts DEF IInv, Typed
    <2>3. /\ r \in Call /\ r.pc = "read" /\ r.seen = store[l] /\ r.owner = o
          /\ r.part = task[t].part /\ r.pos = task[t].pos /\ r.got = task[t].got
          /\ r.ops = task[t].ops
      BY <2>1, <2>2, <1>1 DEF Call
    <2>4. task' = [task EXCEPT ![t] = r] BY <1>2, <1>3, <2>1
    <2> QED BY <2>3, <2>4, CallMoves
  <1>5. UNCHANGED <<store, writer, author, cache, config, live, lock, shaken>>
    BY <1>2 DEF files, views, outside
  <1>6. Queues'
    <2>1. Head(lock[o][l]) = t BY <1>1, <1>2, <1>3 DEF Holds
    <2>2. l \in Keys /\ l # Builder BY StackFacts DEF Keys
    <2>3. ASSUME NEW k \in Keys
          PROVE  /\ Wants(task'[t], k) <=> Wants(task[t], k)
                 /\ Has(task'[t], k) => Has(task[t], k) \/ k = l
      BY <1>2, <1>3, <1>4 DEF Wants, Has
    <2>4. \A k \in Keys : Has(task[t], k) => Head(lock[o][k]) = t BY <1>1 DEF IInv, Queues
    <2>5. \A k \in Keys :
             \/ /\ lock'[o][k] = lock[o][k] /\ (Wants(task'[t], k) <=> Wants(task[t], k))
                /\ Has(task'[t], k) => Head(lock[o][k]) = t
             \/ /\ lock'[o][k] = Append(lock[o][k], t)
                /\ ~Wants(task[t], k) /\ Wants(task'[t], k) /\ ~Has(task'[t], k)
             \/ /\ lock'[o][k] = RemoveFirst(lock[o][k], t)
                /\ ~Wants(task'[t], k) /\ ~Has(task'[t], k)
      BY <1>5, <2>1, <2>3, <2>4
    <2>6. /\ Typed /\ Queues /\ task[t].owner = o /\ task'[t].owner = o
          /\ \A u \in Tasks \ {t} : task'[u] = task[u]
          /\ lock' \in [Owners -> [Keys -> Seq(Tasks \cup {Nobody})]]
          /\ \A q \in Owners \ {o} : lock'[q] = lock[q]
      BY <1>1, <1>4, <1>5 DEF IInv, Queues
    <2> QED BY <2>5, <2>6, QueuesMove
  <1>7. Calls'
    <2>1. task[t].pos \in 1 .. Len(Stack) BY <1>2, CallFacts
    <2> QED BY <2>1, <1>1, <1>2, <1>4, <1>5 DEF IInv, Calls
  <1>8. Own' /\ Kept'
    <2>1. \A k \in Layers : /\ task'[t].part[k] = task[t].part[k] /\ task'[t].ops = task[t].ops
                            /\ task'[t].owner = task[t].owner
      BY <1>1, <1>4
    <2>2. task'[t].seen = store[Stack[task'[t].pos]] BY <1>3, <1>4
    <2> QED BY <1>4, <1>5, <2>1, <2>2, FilesRest
  <1>9. Builds'
    <2>1. /\ task[t].pc \notin {"layers", "build"} /\ task[t].pc \in {"load", "read"}
          /\ task'[t].pos = task[t].pos /\ task'[t].got = task[t].got
          /\ task'[t].pc \notin {"idle", "done"} /\ task'[t].owner = task[t].owner
      BY <1>1, <1>2, <1>4
    <2> QED BY <2>1, <1>4, <1>5, BuildsRest
  <1>10. Typed' BY <1>2, <1>4 DEF IInv, Typed, files, views, outside
  <1> QED BY <1>6, <1>7, <1>8, <1>9, <1>10 DEF IInv

(* What a build does to its own orchestrator is nothing to the builds of others. *)
LEMMA OthersBuild ==
    ASSUME IInv, NEW t \in Tasks, NEW o \in Owners, o = task[t].owner,
           task[t].pc \in {"load", "read"},
           \A u \in Tasks \ {t} : task'[u] = task[u], live' = live,
           \A q \in Owners \ {o} : cache'[q] = cache[q] /\ config'[q] = config[q]
                                                        /\ shaken'[q] = shaken[q]
    PROVE  /\ \A u \in Tasks \ {t} : task'[u].pc \in {"load", "read"} =>
                 \/ shaken'[task'[u].owner] = "yes"
                 \/ \E v \in Tasks : task'[v].owner = task'[u].owner /\ task'[v].pc \in {"layers", "build"}
                 \/ \A i \in 1 .. task'[u].pos - 1 :
                       task'[u].got[Stack[i]] = cache'[task'[u].owner][Stack[i]].data
           /\ \A q \in live' \ {o} : Idle(q)' /\ shaken'[q] = "no" /\ Coherent(Merged(q)') =>
                 config'[q] = Merged(q)'
  <1>1. ASSUME NEW u \in Tasks \ {t}, task'[u].pc \in {"load", "read"}
        PROVE  \/ shaken'[task'[u].owner] = "yes"
               \/ \E v \in Tasks : task'[v].owner = task'[u].owner /\ task'[v].pc \in {"layers", "build"}
               \/ \A i \in 1 .. task'[u].pos - 1 :
                     task'[u].got[Stack[i]] = cache'[task'[u].owner][Stack[i]].data
    <2>1. task'[u] = task[u] /\ task[u].owner \in Owners BY CallFacts
    <2>2. task[u].owner # o
      <3>1. Has(task[u], Builder) /\ Has(task[t], Builder) /\ Builder \in Keys
        BY <2>1, <1>1 DEF Has, Keys
      <3> QED BY <3>1, OneHolder DEF IInv
    <2>3. \A v \in Tasks : task[v].owner = task[u].owner => task'[v] = task[v] BY <2>2
    <2>4. \/ shaken[task[u].owner] = "yes"
          \/ \E v \in Tasks : task[v].owner = task[u].owner /\ task[v].pc \in {"layers", "build"}
          \/ \A i \in 1 .. task[u].pos - 1 :
                task[u].got[Stack[i]] = cache[task[u].owner][Stack[i]].data
      BY <1>1, <2>1 DEF IInv, Builds
    <2>5. /\ shaken'[task[u].owner] = shaken[task[u].owner]
          /\ cache'[task[u].owner] = cache[task[u].owner]
      BY <2>1, <2>2
    <2> QED BY <2>1, <2>3, <2>4, <2>5
  <1>2. ASSUME NEW q \in live' \ {o}, Idle(q)', shaken'[q] = "no", Coherent(Merged(q)')
        PROVE  config'[q] = Merged(q)'
    <2>1. q \in live /\ q \in Owners BY DEF IInv, Typed
    <2>2. Idle(q)
      <3>1. ASSUME NEW u \in Tasks, task[u].owner = q PROVE task[u].pc \in {"idle", "done"}
        <4>1. task'[u] = task[u] BY <3>1
        <4> QED BY <4>1, <3>1, <1>2 DEF Idle
      <3> QED BY <3>1 DEF Idle
    <2>3. cache'[q] = cache[q] /\ config'[q] = config[q] /\ shaken'[q] = shaken[q] BY <2>1
    <2>4. Merged(q)' = Merged(q) BY <2>3 DEF Merged
    <2> QED BY <2>1, <2>2, <2>3, <2>4, <1>2 DEF IInv, Builds
  <1> QED BY <1>1, <1>2 DEF Coherent

(* A layer is read: the build goes on to the next one. *)
LEMMA LayerReadKeeps == ASSUME IInv, NEW t \in Tasks, LayerRead(t) PROVE IInv'
  <1>1. PICK o \in Owners : o = task[t].owner BY CallFacts
  <1>2. /\ task[t].pc = "read" /\ task[t].pos < Len(Stack)
        /\ task[t].pos \in 1 .. Len(Stack) /\ Len(Stack) \in Nat
    BY CallFacts, StackFacts DEF LayerRead
  <1>3. PICK p \in 1 .. Len(Stack) : p = task[t].pos BY <1>2
  <1>4. p + 1 \in 1 .. Len(Stack) /\ p + 1 \in 0 .. Len(Stack) BY <1>2, <1>3
  <1>5. PICK l \in Layers : l = Stack[p] BY StackFacts
  <1>6. PICK n \in Layers : n = Stack[p + 1] BY <1>4, StackFacts
  <1>7. l # n
    <2>1. p # p + 1 BY <1>2
    <2> QED BY <2>1, <1>4, <1>5, <1>6, StackFacts
  <1>8. PICK free : free = Left(lock, o, l, t) OBVIOUS
  <1>9. /\ cache' = [cache EXCEPT ![o][l] = task[t].seen]
        /\ task' = [task EXCEPT ![t] = [@ EXCEPT
              !.pc = "load", !.pos = task[t].pos + 1, !.seen = NoSeen,
              !.got = [task[t].got EXCEPT ![l] = task[t].seen.data]]]
        /\ lock' = Joined(free, o, n, t) /\ bound' = BoundBy(bound, free, o, n)
        /\ UNCHANGED <<files, config, told, shaken, outside, events>>
    BY <1>1, <1>3, <1>5, <1>6, <1>8 DEF LayerRead
  <1>10. task[t] \in Call /\ task[t].seen \in LayerState /\ task[t].seen.data \in Data
    BY CallFacts DEF Call, LayerState
  <1>11. /\ task' \in [Tasks -> Call] /\ \A u \in Tasks \ {t} : task'[u] = task[u]
         /\ task'[t].pc = "load" /\ task'[t].pos = p + 1 /\ task'[t].owner = o
         /\ task'[t].part = task[t].part
         /\ task'[t].got[l] = task[t].seen.data
         /\ \A k \in Layers \ {l} : task'[t].got[k] = task[t].got[k]
    <2>1. PICK g : g = [task[t].got EXCEPT ![l] = task[t].seen.data] OBVIOUS
    <2>2. /\ g \in [Layers -> Data] /\ g[l] = task[t].seen.data
          /\ \A k \in Layers \ {l} : g[k] = task[t].got[k]
      BY <2>1, <1>10 DEF Call
    <2>3. PICK r : r = [task[t] EXCEPT !.pc = "load", !.pos = task[t].pos + 1, !.seen = NoSeen,
                                       !.got = [task[t].got EXCEPT ![l] = task[t].seen.data]]
      OBVIOUS
    <2>4. NoSeen \in LayerState BY DEF NoSeen, LayerState, Data
    <2>5. /\ r \in Call /\ r.pc = "load" /\ r.pos = p + 1 /\ r.owner = o /\ r.got = g
          /\ r.part = task[t].part
      BY <2>1, <2>2, <2>3, <2>4, <1>1, <1>3, <1>4, <1>10 DEF Call
    <2>6. task' = [task EXCEPT ![t] = r] BY <1>9, <2>3
    <2> QED BY <2>2, <2>5, <2>6, CallMoves
  <1>12. UNCHANGED <<store, writer, author, config, live, shaken>> BY <1>9 DEF files, outside
  <1>13. \A k \in Layers : task[t].part[k].at \in {"none", "ok", "failed"}
    BY <1>2 DEF IInv, Calls
  <1>14. l \in Keys /\ n \in Keys /\ Builder \in Keys /\ l # Builder /\ n # Builder
    BY StackFacts DEF Keys
  <1>15. /\ lock \in LockType /\ IsInjective(lock[o][l])
    BY <1>14 DEF IInv, Queues, LockType
  <1>16. /\ free \in LockType /\ free[o][l] = RemoveFirst(lock[o][l], t)
         /\ \A k \in Keys \ {l} : free[o][k] = lock[o][k]
         /\ \A q \in Owners \ {o} : free[q] = lock[q]
    BY <1>8, <1>14, <1>15, LeftOne
  <1>17. Queues'
    <2>1. /\ lock' \in LockType /\ lock'[o][n] = Append(free[o][n], t)
          /\ \A k \in Keys \ {n} : lock'[o][k] = free[o][k]
          /\ \A q \in Owners \ {o} : lock'[q] = free[q]
      BY <1>9, <1>14, <1>16, JoinedOne
    <2>2. /\ ~Wants(task[t], n) /\ Wants(task'[t], n) /\ ~Has(task'[t], n)
          /\ ~Wants(task'[t], l) /\ ~Has(task'[t], l)
          /\ Wants(task[t], Builder) /\ Wants(task'[t], Builder) /\ Has(task[t], Builder)
      BY <1>2, <1>3, <1>5, <1>6, <1>7, <1>11, <1>13, <1>14 DEF Wants, Has
    <2>3. \A k \in Keys \ {l, n, Builder} : /\ ~Wants(task[t], k) /\ ~Wants(task'[t], k)
                                            /\ ~Has(task'[t], k)
      BY <1>3, <1>5, <1>6, <1>11, <1>13 DEF Wants, Has, Keys
    <2>4. Head(lock[o][Builder]) = t BY <1>1, <1>14, <2>2 DEF IInv, Queues
    <2>5. /\ lock'[o][n] = Append(lock[o][n], t) /\ lock'[o][l] = RemoveFirst(lock[o][l], t)
          /\ \A k \in Keys \ {l, n} : lock'[o][k] = lock[o][k]
          /\ \A q \in Owners \ {o} : lock'[q] = lock[q]
      BY <2>1, <1>7, <1>14, <1>16
    <2>6. \A k \in Keys :
             \/ /\ lock'[o][k] = lock[o][k] /\ (Wants(task'[t], k) <=> Wants(task[t], k))
                /\ Has(task'[t], k) => Head(lock[o][k]) = t
             \/ /\ lock'[o][k] = Append(lock[o][k], t)
                /\ ~Wants(task[t], k) /\ Wants(task'[t], k) /\ ~Has(task'[t], k)
             \/ /\ lock'[o][k] = RemoveFirst(lock[o][k], t)
                /\ ~Wants(task'[t], k) /\ ~Has(task'[t], k)
      BY <1>14, <2>2, <2>3, <2>4, <2>5
    <2>7. /\ Typed /\ Queues /\ task[t].owner = o /\ task'[t].owner = o
          /\ \A u \in Tasks \ {t} : task'[u] = task[u]
          /\ lock' \in [Owners -> [Keys -> Seq(Tasks \cup {Nobody})]]
          /\ \A q \in Owners \ {o} : lock'[q] = lock[q]
      BY <1>1, <1>11, <2>1, <2>5 DEF IInv, LockType
    <2> QED BY <2>6, <2>7, QueuesMove
  <1>18. Calls'
    <2>1. /\ task'[t].owner \in live' /\ task'[t].pos \in 1 .. Len(Stack)
          /\ \A k \in Layers : task'[t].part[k].at \in {"none", "ok", "failed"}
      BY <1>1, <1>4, <1>11, <1>12, <1>13, CallFacts
    <2> QED BY <2>1, <1>11, <1>12 DEF IInv, Calls
  <1>19. Own' /\ Kept'
    <2>1. /\ task'[t].pc # "read"
          /\ \A k \in Layers : task'[t].part[k].at \in {"none", "ok", "failed"}
      BY <1>11, <1>13
    <2> QED BY <2>1, <1>1, <1>2, <1>3, <1>5, <1>9, <1>11, <1>12, SeenTaken
  <1>20. Builds'
    <2>1. /\ cache'[o][l] = task[t].seen /\ \A k \in Layers \ {l} : cache'[o][k] = cache[o][k]
          /\ \A q \in Owners \ {o} : cache'[q] = cache[q]
      BY <1>9 DEF IInv, Typed
    <2>2. /\ \A u \in Tasks \ {t} : task'[u].pc \in {"load", "read"} =>
                \/ shaken'[task'[u].owner] = "yes"
                \/ \E v \in Tasks : task'[v].owner = task'[u].owner /\ task'[v].pc \in {"layers", "build"}
                \/ \A i \in 1 .. task'[u].pos - 1 :
                      task'[u].got[Stack[i]] = cache'[task'[u].owner][Stack[i]].data
          /\ \A q \in live' \ {o} : Idle(q)' /\ shaken'[q] = "no" /\ Coherent(Merged(q)') =>
                config'[q] = Merged(q)'
      BY <1>1, <1>2, <1>11, <1>12, <2>1, OthersBuild
    <2>3. \/ shaken'[o] = "yes"
          \/ \E v \in Tasks : task'[v].owner = o /\ task'[v].pc \in {"layers", "build"}
          \/ \A i \in 1 .. task'[t].pos - 1 : task'[t].got[Stack[i]] = cache'[o][Stack[i]].data
      <3>1. CASE shaken[o] = "yes" BY <3>1, <1>12
      <3>2. ASSUME NEW v \in Tasks, task[v].owner = o, task[v].pc \in {"layers", "build"}
            PROVE  task'[v].owner = o /\ task'[v].pc \in {"layers", "build"}
        <4>1. v # t BY <1>2, <3>2
        <4> QED BY <4>1, <3>2, <1>11
      <3>3. CASE \A i \in 1 .. p - 1 : task[t].got[Stack[i]] = cache[o][Stack[i]].data
        <4>1. ASSUME NEW i \in 1 .. p PROVE task'[t].got[Stack[i]] = cache'[o][Stack[i]].data
          <5>1. CASE i = p BY <5>1, <1>5, <1>11, <2>1
          <5>2. CASE i # p
            <6>1. i \in 1 .. p - 1 /\ i \in 1 .. Len(Stack) BY <5>2, <1>2
            <6>2. Stack[i] \in Layers \ {l} BY <5>2, <6>1, <1>5, StackFacts
            <6> QED BY <6>1, <6>2, <3>3, <1>11, <2>1
          <5> QED BY <5>1, <5>2
        <4>2. task'[t].pos - 1 = p BY <1>2, <1>11
        <4> QED BY <4>1, <4>2
      <3>4. \/ shaken[o] = "yes"
            \/ \E v \in Tasks : task[v].owner = o /\ task[v].pc \in {"layers", "build"}
            \/ \A i \in 1 .. p - 1 : task[t].got[Stack[i]] = cache[o][Stack[i]].data
        BY <1>1, <1>2, <1>3 DEF IInv, Builds
      <3> QED BY <3>1, <3>2, <3>3, <3>4
    <2>4. ~Idle(o)' BY <1>11 DEF Idle
    <2>5. \A u \in Tasks : task'[u].pc \in {"load", "read"} =>
             \/ shaken'[task'[u].owner] = "yes"
             \/ \E v \in Tasks : task'[v].owner = task'[u].owner /\ task'[v].pc \in {"layers", "build"}
             \/ \A i \in 1 .. task'[u].pos - 1 :
                   task'[u].got[Stack[i]] = cache'[task'[u].owner][Stack[i]].data
      BY <2>2, <2>3, <1>11
    <2>6. \A q \in live' : Idle(q)' /\ shaken'[q] = "no" /\ Coherent(Merged(q)') =>
             config'[q] = Merged(q)'
      BY <2>2, <2>4
    <2> QED BY <2>5, <2>6 DEF Builds, Coherent
  <1>21. Typed'
    <2>1. bound' \in [Owners -> SUBSET Keys] BY <1>9, <1>14, BoundByType DEF IInv, Typed
    <2>2. cache' \in [Owners -> [Layers -> LayerState]] BY <1>9, <1>10 DEF IInv, Typed
    <2> QED BY <1>9, <1>11, <2>1, <2>2 DEF IInv, Typed, files, outside
  <1> QED BY <1>17, <1>18, <1>19, <1>20, <1>21 DEF IInv

(* The last layer is read: the configuration is the merge of what the build has
   read, and that is what is cached unless another build will come.          *)
LEMMA InstalledKeeps == ASSUME IInv, NEW t \in Tasks, Installed(t) PROVE IInv'
  <1>1. PICK o \in Owners : o = task[t].owner BY CallFacts
  <1>2. task[t].pc = "read" /\ task[t].pos = Len(Stack) BY DEF Installed
  <1>3. PICK l \in Layers : l = Stack[task[t].pos] BY <1>2, CallFacts
  <1>4. PICK d : d = [task[t].got EXCEPT ![l] = task[t].seen.data] OBVIOUS
  <1>5. /\ cache' = [cache EXCEPT ![o][l] = task[t].seen]
        /\ config' = IF Coherent(Merge(d)) THEN [config EXCEPT ![o] = Merge(d)] ELSE config
        /\ told' = told \/ told' = [told EXCEPT ![o] = Merge(d)]
        /\ task' = [task EXCEPT ![t] = DoneTask] /\ lock' = Released(t)
        /\ shaken' = [shaken EXCEPT ![o] = IF @ = "mending" THEN "no" ELSE @]
        /\ UNCHANGED <<files, bound, outside, events>>
    BY <1>1, <1>3, <1>4 DEF Installed
  <1>6. /\ task[t] \in Call /\ task[t].seen \in LayerState /\ task[t].seen.data \in Data
        /\ task[t].got \in [Layers -> Data]
    BY CallFacts DEF Call, LayerState
  <1>7. d \in [Layers -> Data] /\ d[l] = task[t].seen.data
        /\ \A k \in Layers \ {l} : d[k] = task[t].got[k]
    BY <1>4, <1>6
  <1>8. Merge(d) \in Data BY <1>7, MergeType
  <1>9. /\ task'[t] = DoneTask /\ \A u \in Tasks \ {t} : task'[u] = task[u]
        /\ task'[t].pc = "done" /\ task'[t].owner = Root
        /\ \A k \in Layers : task'[t].part[k].at = "none"
        /\ task' \in [Tasks -> Call]
    BY <1>5, NewCallType DEF IInv, Typed
  <1>10. UNCHANGED <<store, writer, author, live>> BY <1>5 DEF files, outside
  <1>11. Queues' BY <1>2, <1>5, ReleasedQueues
  <1>12. Calls' BY <1>9, <1>10 DEF IInv, Calls
  <1>13. Own' /\ Kept'
    <2>1. /\ task'[t].pc # "read"
          /\ \A k \in Layers : task'[t].part[k].at \in {"none", "ok", "failed"}
      BY <1>9
    <2> QED BY <2>1, <1>1, <1>2, <1>3, <1>5, <1>9, <1>10, SeenTaken
  <1>14. /\ cache'[o][l] = task[t].seen /\ \A k \in Layers \ {l} : cache'[o][k] = cache[o][k]
         /\ Coherent(Merge(d)) => config'[o] = Merge(d)
         /\ \A q \in Owners \ {o} : cache'[q] = cache[q] /\ config'[q] = config[q]
                                                         /\ shaken'[q] = shaken[q]
         /\ shaken[o] = "yes" => shaken'[o] = "yes"
    BY <1>5 DEF IInv, Typed
  <1>15. Builds'
    <2>1. /\ \A u \in Tasks \ {t} : task'[u].pc \in {"load", "read"} =>
                \/ shaken'[task'[u].owner] = "yes"
                \/ \E v \in Tasks : task'[v].owner = task'[u].owner /\ task'[v].pc \in {"layers", "build"}
                \/ \A i \in 1 .. task'[u].pos - 1 :
                      task'[u].got[Stack[i]] = cache'[task'[u].owner][Stack[i]].data
          /\ \A q \in live' \ {o} : Idle(q)' /\ shaken'[q] = "no" /\ Coherent(Merged(q)') =>
                config'[q] = Merged(q)'
      BY <1>1, <1>2, <1>9, <1>10, <1>14, OthersBuild
    <2>2. ASSUME Idle(o)', shaken'[o] = "no", Coherent(Merged(o)')
          PROVE  config'[o] = Merged(o)'
      <3>1. ~\E v \in Tasks : task[v].owner = o /\ task[v].pc \in {"layers", "build"}
        <4> SUFFICES ASSUME NEW v \in Tasks, task[v].owner = o, task[v].pc \in {"layers", "build"}
                     PROVE  FALSE
          OBVIOUS
        <4>1. task'[v] = task[v] BY <1>2, <1>9
        <4> QED BY <4>1, <2>2 DEF Idle
      <3>2. \A i \in 1 .. task[t].pos - 1 : task[t].got[Stack[i]] = cache[o][Stack[i]].data
        BY <3>1, <1>1, <1>2, <1>14, <2>2 DEF IInv, Builds
      <3>3. ASSUME NEW k \in Layers PROVE d[k] = cache'[o][k].data
        <4>1. CASE k = l BY <4>1, <1>7, <1>14
        <4>2. CASE k # l
          <5>1. PICK i \in 1 .. Len(Stack) : Stack[i] = k BY StackFacts
          <5>2. i # Len(Stack) BY <4>2, <5>1, <1>2, <1>3
          <5>3. i \in 1 .. task[t].pos - 1 BY <5>2, <1>2, StackFacts
          <5>4. task[t].got[k] = cache[o][k].data BY <5>1, <5>3, <3>2
          <5> QED BY <5>4, <4>2, <1>7, <1>14
        <4> QED BY <4>1, <4>2
      <3>4. d = [k \in Layers |-> cache'[o][k].data] BY <3>3, <1>7
      <3>5. Merged(o)' = Merge(d) BY <3>4 DEF Merged
      <3>6. Coherent(Merge(d)) BY <3>5, <2>2 DEF Coherent
      <3> QED BY <3>5, <3>6, <1>14
    <2>3. \A u \in Tasks : task'[u].pc \in {"load", "read"} =>
             \/ shaken'[task'[u].owner] = "yes"
             \/ \E v \in Tasks : task'[v].owner = task'[u].owner /\ task'[v].pc \in {"layers", "build"}
             \/ \A i \in 1 .. task'[u].pos - 1 :
                   task'[u].got[Stack[i]] = cache'[task'[u].owner][Stack[i]].data
      BY <2>1, <1>9
    <2>4. \A q \in live' : Idle(q)' /\ shaken'[q] = "no" /\ Coherent(Merged(q)') =>
             config'[q] = Merged(q)'
      BY <2>1, <2>2
    <2> QED BY <2>3, <2>4 DEF Builds, Coherent
  <1>16. Typed'
    <2>1. cache' \in [Owners -> [Layers -> LayerState]] BY <1>5, <1>6 DEF IInv, Typed
    <2>2. config' \in [Owners -> Data] /\ told' \in [Owners -> Data]
      BY <1>5, <1>8 DEF IInv, Typed
    <2>3. shaken' \in [Owners -> {"no", "yes", "mending"}] BY <1>5 DEF IInv, Typed
    <2> QED BY <1>5, <1>9, <2>1, <2>2, <2>3 DEF IInv, Typed, files, outside
  <1> QED BY <1>11, <1>12, <1>13, <1>15, <1>16 DEF IInv

-----------------------------------------------------------------------------
(* IInv is inductive: what happens beside the calls. *)

(* The calls, the locks and the caches are left alone. *)
LEMMA BesideCalls ==
    ASSUME IInv, UNCHANGED <<cache, lock, task, shaken, live, config>>
    PROVE  Queues' /\ Calls' /\ Builds'
  <1>1. Queues' BY DEF IInv, Queues
  <1>2. Calls' BY DEF IInv, Calls
  <1>3. \A q : Merged(q)' = Merged(q) /\ (Idle(q)' <=> Idle(q)) BY DEF Merged, Idle
  <1>4. Builds' BY <1>3 DEF IInv, Builds, Coherent
  <1> QED BY <1>1, <1>2, <1>4

(* A file is replaced by another one. *)
LEMMA ReplacedType ==
    ASSUME Typed, NEW l \in Layers, NEW data \in Data, NEW named,
           NEW who \in Owners \cup {"editor", "orphan"}, Replaced(l, data, who, named)
    PROVE  /\ store' \in [Layers -> LayerState]
           /\ writer' \in [Layers -> Owners \cup {"editor", "orphan"}]
           /\ author' \in [Layers -> [Fields -> Owners \cup {"editor", "orphan"}]]
  <1>1. store[l] \in LayerState BY DEF Typed
  <1>2. store[l].fp + 1 \in Nat BY <1>1 DEF LayerState
  <1>3. [data |-> data, fp |-> store[l].fp + 1] \in LayerState BY <1>2 DEF LayerState
  <1>4. store' \in [Layers -> LayerState] BY <1>3 DEF Typed, Replaced
  <1>5. writer' \in [Layers -> Owners \cup {"editor", "orphan"}] BY DEF Typed, Replaced
  <1>6. author' \in [Layers -> [Fields -> Owners \cup {"editor", "orphan"}]]
    BY DEF Typed, Replaced
  <1> QED BY <1>4, <1>5, <1>6

(* The thread of a cancelled part writes its file. *)
LEMMA OrphanWritesKeeps == ASSUME IInv, OrphanWrites PROVE IInv'
  <1>1. PICK w \in orphans :
           /\ orphans' = orphans \ {w} /\ Replaced(w.layer, w.data, "orphan", {})
           /\ UNCHANGED <<views, lock, bound, task, shaken, outside, events>>
    BY DEF OrphanWrites
  <1>2. w.layer \in Layers /\ w.data \in Data BY DEF IInv, Typed
  <1>3. UNCHANGED <<cache, lock, task, shaken, live, config>> BY <1>1 DEF views, outside
  <1>4. Queues' /\ Calls' /\ Builds' BY <1>3, BesideCalls
  <1>5. Own' /\ Kept' BY <1>1, <1>2, <1>3, OthersWrite
  <1>6. Typed' BY <1>1, <1>2, ReplacedType DEF IInv, Typed, views, outside
  <1> QED BY <1>4, <1>5, <1>6 DEF IInv

(* A file is edited by hand. *)
LEMMA EditKeeps == ASSUME IInv, NEW l \in Layers, Edit(l) PROVE IInv'
  <1>1. PICK f \in Edited, v \in Values \cup {Unset} :
           Replaced(l, [store[l].data EXCEPT ![f] = v], "editor", {f})
    BY DEF Edit
  <1>2. /\ UNCHANGED <<orphans, views, lock, bound, task, shaken, outside>>
        /\ events' \in 0 .. MaxEvents
    BY EventsType DEF Edit, IInv
  <1>3. f \in Fields /\ [store[l].data EXCEPT ![f] = v] \in Data
    BY ConfigAssumption DEF IInv, Typed, LayerState, Data
  <1>4. UNCHANGED <<cache, lock, task, shaken, live, config>> BY <1>2 DEF views, outside
  <1>5. Queues' /\ Calls' /\ Builds' BY <1>4, BesideCalls
  <1>6. Own' /\ Kept' BY <1>1, <1>3, <1>4, OthersWrite
  <1>7. Typed' BY <1>1, <1>2, <1>3, ReplacedType DEF IInv, Typed, views, outside
  <1> QED BY <1>5, <1>6, <1>7 DEF IInv

(* A step that leaves files and caches alone. *)
LEMMA FilesSame ==
    ASSUME IInv, UNCHANGED <<store, writer, author, cache, task, live>> PROVE Own' /\ Kept'
  <1>1. \A q, l : Unsaved(q, l)' = Unsaved(q, l) BY DEF Unsaved
  <1>2. Own' BY <1>1 DEF IInv, Own
  <1>3. Kept' BY <1>1 DEF IInv, Kept, AuthorsLive, DraftsKeep, CachesKeep, ReadsKeep
  <1> QED BY <1>2, <1>3

(* A copy is made: it has no calls, and a lock that was held has a holder that is
   nobody.                                                                   *)
LEMMA CopyKeeps == ASSUME IInv, NEW c \in Copies, CopyOrchestrator(c) PROVE IInv'
  <1>1. /\ c \in Copies \ live /\ c \in Owners /\ c # Root /\ Root \in Owners /\ Root \in live
        /\ UNCHANGED <<files, bound, task, frozen>> /\ events' \in 0 .. MaxEvents
    BY EventsType DEF CopyOrchestrator, IInv, Calls, Owners
  <1>2. CASE /\ refused' = TRUE /\ UNCHANGED <<live, views, lock, shaken>>
    <2>1. UNCHANGED <<store, writer, author, cache, lock, task, shaken, live, config>>
      BY <1>1, <1>2 DEF files, views
    <2>2. Queues' /\ Calls' /\ Builds' BY <2>1, BesideCalls
    <2>3. Own' /\ Kept' BY <2>1, FilesSame
    <2>4. Typed' BY <1>1, <1>2 DEF IInv, Typed, files, views
    <2> QED BY <2>2, <2>3, <2>4 DEF IInv
  <1>3. ASSUME NEW shared,
               /\ live' = live \cup {c}
               /\ cache' = [cache EXCEPT ![c] = cache[Root]]
               /\ config' = [config EXCEPT ![c] = config[Root]]
               /\ told' = [told EXCEPT ![c] = config[Root]]
               /\ lock' = [lock EXCEPT ![c] = [k \in Layers \cup {Builder} |->
                     IF k \in shared /\ lock[Root][k] # <<>> THEN <<Nobody>> ELSE <<>>]]
               /\ shaken' = [shaken EXCEPT ![c] = IF Idle(Root) THEN shaken[Root] ELSE "yes"]
               /\ UNCHANGED refused
        PROVE  IInv'
    <2>1. /\ \A u \in Tasks : task'[u] = task[u] /\ task[u].owner \in Owners \ {c}
          /\ task' = task
      BY <1>1, CallFacts
    <2>2. /\ lock' \in LockType
          /\ \A k \in Keys : lock'[c][k] = <<Nobody>> \/ lock'[c][k] = <<>>
          /\ \A q \in Owners \ {c} : lock'[q] = lock[q]
      <3>1. lock \in LockType BY DEF IInv, Queues, LockType
      <3>2. <<Nobody>> \in Seq(Tasks \cup {Nobody}) /\ <<>> \in Seq(Tasks \cup {Nobody}) OBVIOUS
      <3> QED BY <1>1, <1>3, <3>1, <3>2 DEF LockType, Keys
    <2>3. Queues'
      <3>1. ASSUME NEW k \in Keys
            PROVE  IsInjective(lock'[c][k]) /\ Range(lock'[c][k]) \subseteq {Nobody}
        <4>1. IsInjective(<<Nobody>>) /\ Range(<<Nobody>>) \subseteq {Nobody}
          BY DEF IsInjective, Range
        <4>2. IsInjective(<<>>) /\ Range(<<>>) \subseteq {Nobody} BY DEF IsInjective, Range
        <4> QED BY <4>1, <4>2, <2>2
      <3>2. ASSUME NEW q \in Owners, NEW k \in Keys
            PROVE  /\ IsInjective(lock'[q][k])
                   /\ \A u \in Range(lock'[q][k]) \ {Nobody} : task'[u].owner = q /\ Wants(task'[u], k)
        <4>1. CASE q = c BY <4>1, <3>1
        <4>2. CASE q # c BY <4>2, <2>1, <2>2 DEF IInv, Queues
        <4> QED BY <4>1, <4>2
      <3>3. ASSUME NEW u \in Tasks, NEW k \in Keys
            PROVE  /\ Wants(task'[u], k) => u \in Range(lock'[task'[u].owner][k])
                   /\ Has(task'[u], k) => Head(lock'[task'[u].owner][k]) = u
        BY <2>1, <2>2 DEF IInv, Queues
      <3> QED BY <2>2, <3>2, <3>3 DEF Queues, LockType
    <2>4. Calls' BY <1>3, <2>1 DEF IInv, Calls
    <2>5. Own' /\ Kept'
      <3>1. UNCHANGED <<store, writer, author, task>> BY <1>1 DEF files
      <3> QED BY <3>1, <1>1, <1>3, CopyOwnsNothing
    <2>6. /\ \A q \in Owners \ {c} : cache'[q] = cache[q] /\ config'[q] = config[q]
                                                          /\ shaken'[q] = shaken[q]
          /\ cache'[c] = cache[Root] /\ config'[c] = config[Root]
          /\ shaken'[c] = IF Idle(Root) THEN shaken[Root] ELSE "yes"
      BY <1>1, <1>3 DEF IInv, Typed
    <2>7. Builds'
      <3>1. ASSUME NEW u \in Tasks, task'[u].pc \in {"load", "read"}
            PROVE  \/ shaken'[task'[u].owner] = "yes"
                   \/ \E v \in Tasks : task'[v].owner = task'[u].owner /\ task'[v].pc \in {"layers", "build"}
                   \/ \A i \in 1 .. task'[u].pos - 1 :
                         task'[u].got[Stack[i]] = cache'[task'[u].owner][Stack[i]].data
        BY <3>1, <2>1, <2>6 DEF IInv, Builds
      <3>2. ASSUME NEW q \in live', Idle(q)', shaken'[q] = "no", Coherent(Merged(q)')
            PROVE  config'[q] = Merged(q)'
        <4>1. CASE q = c
          <5>1. Merged(q)' = Merged(Root) BY <4>1, <2>6 DEF Merged
          <5>2. Idle(Root) /\ shaken[Root] = "no" BY <4>1, <2>6, <3>2
          <5> QED BY <5>1, <5>2, <4>1, <3>2, <2>6, <1>1 DEF IInv, Builds
        <4>2. CASE q # c
          <5>1. q \in live /\ q \in Owners BY <4>2, <1>3 DEF IInv, Typed
          <5>2. Merged(q)' = Merged(q) BY <5>1, <4>2, <2>6 DEF Merged
          <5>3. Idle(q) BY <2>1, <3>2 DEF Idle
          <5> QED BY <5>1, <5>2, <5>3, <4>2, <3>2, <2>6 DEF IInv, Builds
        <4> QED BY <4>1, <4>2
      <3> QED BY <3>1, <3>2 DEF Builds, Coherent
    <2>8. Typed'
      <3>1. cache' \in [Owners -> [Layers -> LayerState]] BY <1>1, <1>3 DEF IInv, Typed
      <3>2. config' \in [Owners -> Data] /\ told' \in [Owners -> Data]
        BY <1>1, <1>3 DEF IInv, Typed
      <3>3. shaken' \in [Owners -> {"no", "yes", "mending"}] BY <1>1, <1>3 DEF IInv, Typed
      <3>4. live' \subseteq Owners BY <1>1, <1>3 DEF IInv, Typed
      <3> QED BY <1>1, <1>3, <3>1, <3>2, <3>3, <3>4 DEF IInv, Typed, files
    <2> QED BY <2>3, <2>4, <2>5, <2>7, <2>8 DEF IInv
  <1> QED BY <1>2, <1>3 DEF CopyOrchestrator

(* An agent switch merges what is cached and installs it at once, or blocks. *)
LEMMA RebuildKeeps == ASSUME IInv, NEW o \in Owners, Rebuild(o) PROVE IInv'
  <1>1. /\ config' = config \/ config' = [config EXCEPT ![o] = Merged(o)]
        /\ UNCHANGED <<files, cache, told, lock, bound, task, shaken, live, refused>>
        /\ frozen' = frozen \/ frozen' = TRUE
        /\ events' \in 0 .. MaxEvents
    BY EventsType DEF Rebuild, Merged, IInv
  <1>2. Merged(o) \in Data
    <2>1. [l \in Layers |-> cache[o][l].data] \in [Layers -> Data]
      BY DEF IInv, Typed, LayerState
    <2> QED BY <2>1, MergeType DEF Merged
  <1>3. UNCHANGED <<store, writer, author>> BY <1>1 DEF files
  <1>4. Queues' /\ Calls' BY <1>1 DEF IInv, Queues, Calls
  <1>5. Own' /\ Kept' BY <1>1, <1>3, FilesSame
  <1>6. Builds'
    <2>1. \A q : Merged(q)' = Merged(q) /\ (Idle(q)' <=> Idle(q)) BY <1>1 DEF Merged, Idle
    <2>2. \A q \in live : config'[q] = config[q] \/ config'[q] = Merged(q)
      BY <1>1 DEF IInv, Typed
    <2> QED BY <2>1, <2>2, <1>1 DEF IInv, Builds, Coherent
  <1>7. Typed' BY <1>1, <1>2 DEF IInv, Typed, files
  <1> QED BY <1>4, <1>5, <1>6, <1>7 DEF IInv

-----------------------------------------------------------------------------
(* The initial states, and every step. *)

(* The invariant holds of freshly loaded layers. *)
LEMMA InitIInv == Init => IInv
  <1> SUFFICES ASSUME Init PROVE IInv OBVIOUS
  <1>0. PICK empty : empty = [f \in Fields |-> Unset] OBVIOUS
  <1>1. empty \in Data /\ Root \in Owners /\ NewTask \in Call /\ NewTask.pc = "idle"
        /\ NewTask.owner = Root /\ \A l \in Layers : NewTask.part[l].at = "none"
    BY <1>0, NewCallType DEF Data, Owners
  <1>2. store = [l \in Layers |-> [data |-> empty, fp |-> 0]] BY <1>0 DEF Init
  <1>3. store \in [Layers -> LayerState] /\ \A l \in Layers : store[l].data = empty
    BY <1>1, <1>2 DEF LayerState
  <1>4. Typed
    <2>1. config \in [Owners -> Data] /\ told \in [Owners -> Data] BY <1>0, <1>1 DEF Init
    <2>2. 0 \in 0 .. MaxEvents BY ConfigAssumption
    <2> QED BY <1>1, <1>3, <2>1, <2>2 DEF Init, Typed
  <1>5. Queues
    <2>1. lock \in LockType /\ \A o \in Owners, k \in Keys : lock[o][k] = <<>>
      BY DEF Init, LockType, Keys
    <2>2. IsInjective(<<>>) /\ Range(<<>>) = {} BY DEF IsInjective, Range
    <2>3. \A t \in Tasks, k \in Keys : ~Wants(task[t], k) /\ ~Has(task[t], k)
      BY <1>1 DEF Init, Wants, Has, Keys
    <2> QED BY <2>1, <2>2, <2>3 DEF Queues, LockType
  <1>6. Calls BY <1>1 DEF Init, Calls
  <1>7. Own
    <2>1. \A o \in Owners, l \in Layers : cache[o][l] = store[l] BY DEF Init
    <2> QED BY <2>1, <1>1 DEF Init, Own
  <1>8. Kept
    <2>1. \A o \in Owners, l \in Layers : cache[o][l] = store[l] BY DEF Init
    <2> QED BY <2>1, <1>1 DEF Init, Kept, AuthorsLive, DraftsKeep, CachesKeep, ReadsKeep
  <1>9. Builds
    <2>1. ASSUME NEW o \in Owners PROVE config[o] = Merged(o)
      <3>1. PICK d : d = [l \in Layers |-> cache[o][l].data] OBVIOUS
      <3>2. \A l \in Layers : d[l] = empty BY <3>1, <1>3 DEF Init
      <3>3. ASSUME NEW f \in Fields PROVE Merge(d)[f] = Unset
        <4>1. \A i \in DOMAIN Stack : d[Stack[i]][f] = Unset BY <3>2, <1>0, StackFacts
        <4>2. {i \in DOMAIN Stack : d[Stack[i]][f] # Unset} = {} BY <4>1
        <4> QED BY <4>2 DEF Merge
      <3>4. Merge(d) = [f \in Fields |-> Unset] BY <3>3 DEF Merge
      <3> QED BY <3>1, <3>4 DEF Merged, Init
    <2> QED BY <2>1, <1>1, <1>4 DEF Init, Builds, Typed
  <1> QED BY <1>4, <1>5, <1>6, <1>7, <1>8, <1>9 DEF IInv

(* Every step keeps the invariant. *)
LEMMA StepIInv == IInv /\ [Next]_vars => IInv'
  <1> SUFFICES ASSUME IInv, [Next]_vars PROVE IInv' OBVIOUS
  <1>1. ASSUME NEW t \in Tasks, BeginPatch(t) PROVE IInv' BY <1>1, BeginPatchKeeps
  <1>2. ASSUME NEW t \in Tasks, BeginReload(t) PROVE IInv' BY <1>2, BeginReloadKeeps
  <1>3. ASSUME NEW t \in Tasks, LayersSettled(t) PROVE IInv' BY <1>3, LayersSettledKeeps
  <1>4. ASSUME NEW t \in Tasks, StartBuild(t) PROVE IInv' BY <1>4, StartBuildKeeps
  <1>5. ASSUME NEW t \in Tasks, StartRead(t) PROVE IInv' BY <1>5, StartReadKeeps
  <1>6. ASSUME NEW t \in Tasks, LayerRead(t) PROVE IInv' BY <1>6, LayerReadKeeps
  <1>7. ASSUME NEW t \in Tasks, Installed(t) PROVE IInv' BY <1>7, InstalledKeeps
  <1>8. ASSUME NEW t \in Tasks, ReadConflict(t) PROVE IInv' BY <1>8, ReadConflictKeeps
  <1>9. ASSUME NEW t \in Tasks, CancelTask(t) PROVE IInv' BY <1>9, CancelTaskKeeps
  <1>10. ASSUME NEW t \in Tasks, NEW l \in Layers, StartPart(t, l) PROVE IInv'
    BY <1>10, StartPartKeeps
  <1>11. ASSUME NEW t \in Tasks, NEW l \in Layers, ApplyPart(t, l) PROVE IInv'
    BY <1>11, ApplyPartKeeps
  <1>12. ASSUME NEW t \in Tasks, NEW l \in Layers, WritePart(t, l) PROVE IInv'
    BY <1>12, WritePartKeeps
  <1>13. ASSUME NEW t \in Tasks, NEW l \in Layers, WriteFails(t, l) PROVE IInv'
    BY <1>13, WriteFailsKeeps
  <1>14. ASSUME NEW t \in Tasks, NEW l \in Layers, PartSaved(t, l) PROVE IInv'
    BY <1>14, PartSavedKeeps
  <1>15. CASE OrphanWrites BY <1>15, OrphanWritesKeeps
  <1>16. ASSUME NEW l \in Layers, Edit(l) PROVE IInv' BY <1>16, EditKeeps
  <1>17. ASSUME NEW c \in Copies, CopyOrchestrator(c) PROVE IInv' BY <1>17, CopyKeeps
  <1>18. ASSUME NEW o \in Owners, Rebuild(o) PROVE IInv' BY <1>18, RebuildKeeps
  <1>19. CASE UNCHANGED vars
    <2>1. /\ UNCHANGED <<cache, lock, task, shaken, live, config>>
          /\ UNCHANGED <<store, writer, author, cache, task, live>>
      BY <1>19 DEF vars
    <2>2. Typed' BY <1>19 DEF vars, IInv, Typed
    <2> QED BY <2>1, <2>2, BesideCalls, FilesSame DEF IInv
  <1> QED BY <1>1, <1>2, <1>3, <1>4, <1>5, <1>6, <1>7, <1>8, <1>9, <1>10, <1>11, <1>12,
             <1>13, <1>14, <1>15, <1>16, <1>17, <1>18, <1>19 DEF Next

(* The invariant holds of every reachable state: locks are served in order and
   only to calls that wait for them, what an orchestrator wrote it has cached or
   is about to, and a build caches what it has read.                          *)
THEOREM IInvHolds == Spec => []IInv
  BY InitIInv, StepIInv, PTL DEF Spec

-----------------------------------------------------------------------------
(* What follows. *)

(* The invariant gives the types. *)
LEMMA IInvType == IInv => TypeOK
  <1> SUFFICES ASSUME IInv PROVE TypeOK OBVIOUS
  <1>1. ASSUME NEW o \in Owners, NEW k \in Layers \cup {Builder}
        PROVE  /\ lock[o][k] \in Seq(Tasks \cup {Nobody}) /\ IsInjective(lock[o][k])
               /\ \A t \in Range(lock[o][k]) \ {Nobody} :
                     /\ task[t].owner = o
                     /\ IF k = Builder THEN task[t].pc \in {"build", "load", "read"}
                        ELSE \/ task[t].pc \in {"load", "read"} /\ Stack[task[t].pos] = k
                             \/ task[t].part[k].at \in {"waiting", "writing", "written"}
    BY DEF IInv, Queues, Wants, Keys
  <1>2. ASSUME NEW t \in Tasks
        PROVE  /\ task[t].pc \in {"idle", "layers", "build", "load", "read", "done"}
               /\ task[t].owner \in Owners /\ task[t].strategy \in {"cancel", "replace"}
               /\ task[t].ops \subseteq Operations /\ task[t].before \in Data
               /\ task[t].pos \in 0 .. Len(Stack) /\ task[t].seen \in LayerState
               /\ \A l \in Layers :
                     /\ task[t].part[l].at \in {"none", "created", "waiting", "writing",
                                                "written", "ok", "failed"}
                     /\ task[t].part[l].fp \in Nat /\ task[t].part[l].data \in Data
                     /\ task[t].got[l] \in Data
    <2>1. task[t] \in Call /\ \A l \in Layers : task[t].part[l] \in Part BY CallFacts
    <2>2. \A l \in Layers :
             /\ task[t].part[l].at \in {"none", "created", "waiting", "writing",
                                        "written", "ok", "failed"}
             /\ task[t].part[l].fp \in Nat /\ task[t].part[l].data \in Data
      BY <2>1 DEF Part
    <2> QED BY <2>1, <2>2 DEF Call
  <1>3. Typed BY DEF IInv
  <1> QED BY <1>1, <1>2, <1>3 DEF TypeOK, Typed, Keys

(* The types, and the locks: each queue holds a call once, and only calls of its
   orchestrator that wait for it or hold it.                                 *)
THEOREM TypeCorrect == Spec => []TypeOK
  BY IInvHolds, IInvType, PTL

(* The invariant gives the first property. *)
LEMMA IInvCurrent == IInv => ConfigIsCurrent
  <1> SUFFICES ASSUME IInv, NEW o \in live, Idle(o), shaken[o] = "no"
               PROVE  /\ Coherent(Merged(o)) => config[o] = Merged(o)
                      /\ \A l \in Layers : writer[l] = o => cache[o][l] = store[l]
    BY DEF ConfigIsCurrent, Merged
  <1>1. Coherent(Merged(o)) => config[o] = Merged(o) BY DEF IInv, Builds
  <1>2. ASSUME NEW l \in Layers, writer[l] = o PROVE cache[o][l] = store[l]
    <2>1. o \in Owners BY DEF IInv, Typed
    <2>2. Unsaved(o, l) = {}
      <3> SUFFICES ASSUME NEW t \in Unsaved(o, l) PROVE FALSE OBVIOUS
      <3>1. t \in Tasks /\ task[t].owner = o /\ task[t].part[l].at = "written" BY DEF Unsaved
      <3>2. task[t].pc = "layers" BY <3>1, CallFacts
      <3> QED BY <3>1, <3>2 DEF Idle
    <2> QED BY <2>1, <2>2, <1>2 DEF IInv, Own
  <1> QED BY <1>1, <1>2

(* However patches, reloads and builds overlap: with no call under way, the
   configuration is the merge of what is cached, and what an orchestrator wrote
   last it has cached (apply_patch, build).                                   *)
THEOREM ConfigurationIsCurrent == Spec => []ConfigIsCurrent
  BY IInvHolds, IInvCurrent, PTL

(* A step that writes keeps what calls wrote and have not finished. *)
LEMMA WriteKeepsOwn ==
    ASSUME IInv, NEW t \in Tasks, NEW l \in Layers, WritePart(t, l), NEW f \in Fields,
           f \notin Named(On(task[t].ops, l)), author[l][f] = task[t].owner
    PROVE  store'[l].data[f] = store[l].data[f]
  <1>1. /\ task[t].part[l].at = "writing" /\ task[t].owner \in Owners
        /\ store'[l].data = task[t].part[l].data
    BY CallFacts DEF WritePart, Replaced, IInv, Typed
  <1>2. PICK o \in Owners : o = task[t].owner BY <1>1
  <1>3. task[t].part[l].data[f] = cache[o][l].data[f] BY <1>1, <1>2 DEF IInv, Kept, DraftsKeep
  <1>4. ASSUME NEW u \in Unsaved(o, l) PROVE FALSE
    <2>1. u \in Tasks /\ task[u].owner = o /\ task[u].part[l].at = "written" BY DEF Unsaved
    <2>2. Has(task[t], l) /\ Has(task[u], l) BY <1>1, <2>1, StackFacts DEF Has
    <2>3. u = t BY <1>2, <2>1, <2>2, OneAtLayer
    <2> QED BY <1>1, <2>1, <2>3
  <1>5. cache[o][l].data[f] = store[l].data[f] BY <1>2, <1>4 DEF IInv, Kept, CachesKeep
  <1> QED BY <1>1, <1>3, <1>5

(* The file of a layer is changed by a patch, by the thread of a cancelled one or
   by others, and by nothing else.                                           *)
LEMMA WhoWrites ==
    ASSUME IInv, [Next]_vars, NEW l \in Layers, store'[l] # store[l]
    PROVE  \/ \E t \in Tasks : WritePart(t, l) /\ writer'[l] = task[t].owner
           \/ writer'[l] \in {"editor", "orphan"}
  <1>1. /\ store \in [Layers -> LayerState]
        /\ writer \in [Layers -> Owners \cup {"editor", "orphan"}]
    BY DEF IInv, Typed
  <1>2. ASSUME NEW k \in Layers, NEW data, NEW who, NEW named, Replaced(k, data, who, named)
        PROVE  k = l /\ writer'[l] = who
    BY <1>1, <1>2 DEF Replaced
  <1>3. CASE UNCHANGED store BY <1>3
  <1>4. ASSUME NEW t \in Tasks, NEW k \in Layers, WritePart(t, k)
        PROVE  WritePart(t, l) /\ writer'[l] = task[t].owner
    <2>1. Replaced(k, task[t].part[k].data, task[t].owner, Named(On(task[t].ops, k)))
      BY <1>4 DEF WritePart
    <2>2. k = l /\ writer'[l] = task[t].owner BY <1>2, <2>1
    <2> QED BY <1>4, <2>2
  <1>5. CASE OrphanWrites
    <2>1. PICK w \in orphans : Replaced(w.layer, w.data, "orphan", {})
      BY <1>5 DEF OrphanWrites
    <2>2. w.layer \in Layers BY DEF IInv, Typed
    <2> QED BY <1>2, <2>1, <2>2
  <1>6. ASSUME NEW k \in Layers, Edit(k) PROVE writer'[l] = "editor"
    <2>1. PICK f \in Edited, v \in Values \cup {Unset} :
             Replaced(k, [store[k].data EXCEPT ![f] = v], "editor", {f})
      BY <1>6 DEF Edit
    <2> QED BY <1>2, <2>1
  <1>7. ASSUME NEW t \in Tasks,
               \/ BeginPatch(t) \/ BeginReload(t) \/ LayersSettled(t)
               \/ StartBuild(t) \/ StartRead(t) \/ LayerRead(t) \/ Installed(t)
               \/ ReadConflict(t) \/ CancelTask(t)
        PROVE  UNCHANGED store
    BY <1>7 DEF BeginPatch, BeginReload, LayersSettled, StartBuild, StartRead, LayerRead,
                Installed, ReadConflict, CancelTask, files
  <1>8. ASSUME NEW t \in Tasks, NEW k \in Layers,
               \/ StartPart(t, k) \/ ApplyPart(t, k) \/ WriteFails(t, k) \/ PartSaved(t, k)
        PROVE  UNCHANGED store
    BY <1>8 DEF StartPart, ApplyPart, WriteFails, PartSaved, files
  <1>9. ASSUME NEW c \in Copies, CopyOrchestrator(c) PROVE UNCHANGED store
    BY <1>9 DEF CopyOrchestrator, files
  <1>10. ASSUME NEW o \in Owners, Rebuild(o) PROVE UNCHANGED store
    BY <1>10 DEF Rebuild, files
  <1>11. CASE Next BY <1>3, <1>4, <1>5, <1>6, <1>7, <1>8, <1>9, <1>10, <1>11 DEF Next
  <1>12. CASE UNCHANGED vars BY <1>3, <1>12 DEF vars
  <1> QED BY <1>11, <1>12

(* A field that an orchestrator's patch put into a file keeps its value when
   another of its patches, that does not name it, writes the whole file from what
   is cached: what changes it and leaves the file the orchestrator's is a patch
   that names it (_handle_apply_patch).  The thread of a cancelled patch leaves
   the file an orphan's, and what a cancelled patch had written is not its
   orchestrator's any more: of these the theorem says nothing.                *)
THEOREM PatchesDoNotUndoEachOther == Spec => OwnWritesSurvive
  <1>1. IInv /\ [Next]_vars =>
           [\A l \in Layers, f \in Fields :
               /\ store'[l].data[f] # store[l].data[f]
               /\ author[l][f] \in Owners /\ writer'[l] = author[l][f]
               => \E t \in Tasks : WritePart(t, l) /\ f \in Named(On(task[t].ops, l))]_vars
    <2> SUFFICES ASSUME IInv, [Next]_vars, NEW l \in Layers, NEW f \in Fields,
                        store'[l].data[f] # store[l].data[f],
                        author[l][f] \in Owners, writer'[l] = author[l][f]
                 PROVE  \E t \in Tasks : WritePart(t, l) /\ f \in Named(On(task[t].ops, l))
      OBVIOUS
    <2>1. writer'[l] \notin {"editor", "orphan"} BY ConfigAssumption
    <2>2. PICK t \in Tasks : WritePart(t, l) /\ writer'[l] = task[t].owner
      BY <2>1, WhoWrites
    <2>3. f \in Named(On(task[t].ops, l)) BY <2>2, WriteKeepsOwn
    <2> QED BY <2>2, <2>3
  <1> QED BY <1>1, IInvHolds, PTL DEF Spec, OwnWritesSurvive
===============================================================================
