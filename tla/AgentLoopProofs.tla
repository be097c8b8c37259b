--------------------------- MODULE AgentLoopProofs ---------------------------
(* Proofs about AgentLoop, for any tools and bounds: what the permission lock
   orders, that no tool runs between two turns, and, in the second half, what the
   conversation it sends to the model looks like.                             *)
EXTENDS AgentLoop, SequenceFacts, SequenceTheorems, FiniteSetTheorems, TLAPS

Waits(c) == call[c].at \in {"wait", "asked"}
Queued(c) == \E i \in DOMAIN lockq : lockq[i] = c
InOrder(q) == \A i, j \in DOMAIN q : q[i] = q[j] => i = j

(* The tasks of the calls: an identity is used once.  *)
Calling ==
    /\ call \in [Calls -> [tool : Tools \cup {"none"}, at : Open \cup {"none", "done"}]]
    /\ count.calls \in Nat
    /\ count \in [turns : Nat, calls : Nat, extras : Nat]
    /\ \A c \in Calls : c > count.calls => call[c].at = "none"

(* The lock: exactly the calls that wait for it or for the user are in its queue,
   once each; the user is asked for its holder, about a tool without a rule; what
   the user approved for the session is a rule.                               *)
Locking ==
    /\ lockq \in Seq(Calls) /\ InOrder(lockq)
    /\ \A c \in Calls : Waits(c) <=> Queued(c)
    /\ \A c \in Calls : call[c].at = "asked" => Head(lockq) = c /\ call[c].tool \notin rules
    /\ always \subseteq rules

(* Tools run inside a batch, unless one was abandoned. *)
Batching == Running # {} /\ ~abandoned => pc \in {"batch", "cancelling"}

IInv == Calling /\ Locking /\ Batching

-----------------------------------------------------------------------------
(* The queue of the lock. *)

(* Whoever begins to wait is behind the others and moves nobody. *)
LEMMA AppendKeepsOrder ==
    ASSUME NEW S, NEW q \in Seq(S), NEW c \in S, InOrder(q), \A i \in DOMAIN q : q[i] # c
    PROVE  /\ Append(q, c) \in Seq(S) /\ InOrder(Append(q, c))
           /\ \A x : (\E i \in DOMAIN Append(q, c) : Append(q, c)[i] = x)
                         <=> (x = c \/ \E i \in DOMAIN q : q[i] = x)
           /\ q # <<>> => Head(Append(q, c)) = Head(q)
  <1> DEFINE r == Append(q, c)
  <1>1. /\ r \in Seq(S) /\ Len(r) = Len(q) + 1
        /\ \A i \in 1 .. Len(q) : r[i] = q[i]
        /\ r[Len(q) + 1] = c
    BY AppendProperties
  <1>2. DOMAIN q = 1 .. Len(q) /\ DOMAIN r = 1 .. Len(r) /\ Len(q) \in Nat
    BY <1>1, LenProperties
  <1>3. q # <<>> => Len(q) # 0 BY EmptySeq
  <1>4. Head(q) = q[1] /\ Head(r) = r[1] BY <1>1
  <1> HIDE DEF r
  <1>5. InOrder(r) BY <1>1, <1>2 DEF InOrder
  <1>6. \A x : (\E i \in DOMAIN r : r[i] = x) <=> (x = c \/ \E i \in DOMAIN q : q[i] = x)
    BY <1>1, <1>2
  <1>7. q # <<>> => Head(r) = Head(q) BY <1>1, <1>2, <1>3, <1>4
  <1> QED BY <1>1, <1>5, <1>6, <1>7 DEF r

(* The holder leaves; nobody else does. *)
LEMMA TailKeepsOrder ==
    ASSUME NEW S, NEW q \in Seq(S), q # <<>>, InOrder(q)
    PROVE  /\ Tail(q) \in Seq(S) /\ InOrder(Tail(q))
           /\ \A x : (\E i \in DOMAIN Tail(q) : Tail(q)[i] = x)
                         <=> (x # Head(q) /\ \E i \in DOMAIN q : q[i] = x)
  <1> DEFINE r == Tail(q)
  <1>1. /\ r \in Seq(S) /\ Len(r) = Len(q) - 1
        /\ \A i \in 1 .. Len(r) : r[i] = q[i + 1]
    BY HeadTailProperties
  <1>2. DOMAIN q = 1 .. Len(q) /\ DOMAIN r = 1 .. Len(r) /\ Len(q) \in Nat
    BY <1>1, LenProperties
  <1>3. Len(q) # 0 BY EmptySeq
  <1>4. Head(q) = q[1] OBVIOUS
  <1> HIDE DEF r
  <1>5. InOrder(r) BY <1>1, <1>2 DEF InOrder
  <1>6. ASSUME NEW x
        PROVE  (\E i \in DOMAIN r : r[i] = x) <=> (x # Head(q) /\ \E i \in DOMAIN q : q[i] = x)
    <2>1. ASSUME NEW i \in DOMAIN r, r[i] = x
          PROVE  x # Head(q) /\ \E j \in DOMAIN q : q[j] = x
      <3>1. i + 1 \in DOMAIN q /\ q[i + 1] = x /\ 1 \in DOMAIN q /\ i + 1 # 1
        BY <1>1, <1>2, <1>3, <2>1
      <3> QED BY <3>1, <1>4 DEF InOrder
    <2>2. ASSUME x # Head(q), NEW i \in DOMAIN q, q[i] = x
          PROVE  \E j \in DOMAIN r : r[j] = x
      <3>1. i - 1 \in DOMAIN r /\ r[i - 1] = x
        BY <1>1, <1>2, <1>3, <1>4, <2>2
      <3> QED BY <3>1
    <2> QED BY <2>1, <2>2
  <1> QED BY <1>1, <1>5, <1>6 DEF r

-----------------------------------------------------------------------------
(* IInv is inductive. *)

(* A task of a call moves on, or ends with a result: nobody else's does, and no
   call begins to run.                                                       *)
LEMMA TaskMoves ==
    ASSUME Calling, Batching, NEW c \in Calls, call[c].at \in Open, NEW at,
           (at = "done" /\ Record(c)) \/ (at \in Open /\ Step(c, at)),
           count' = count \/ Extra, UNCHANGED <<pc, abandoned>>
    PROVE  /\ Calling' /\ Batching'
           /\ call'[c].at = at /\ (at \in Open => call'[c].tool = call[c].tool)
           /\ \A d \in Calls \ {c} : call'[d] = call[d]
  <1>1. /\ call' \in [Calls -> [tool : Tools \cup {"none"}, at : Open \cup {"none", "done"}]]
        /\ call'[c].at = at /\ (at \in Open => call'[c].tool = call[c].tool)
        /\ \A d \in Calls \ {c} : call'[d] = call[d]
    BY SMTT(30) DEF Calling, Record, Step, Done, Open
  <1>2. /\ count' \in [turns : Nat, calls : Nat, extras : Nat]
        /\ count'.calls = count.calls
    BY DEF Calling, Extra
  <1>3. c <= count.calls
    BY AgentAssumption DEF Calling, Calls, Open
  <1>4. Calling' BY <1>1, <1>2, <1>3 DEF Calling, Calls
  <1>5. Running' \subseteq Running BY <1>1 DEF Running
  <1>6. Batching' BY <1>5 DEF Batching
  <1> QED BY <1>1, <1>4, <1>6

(* A task that does not wait moves to a place where it does not wait. *)
LEMMA OutsideLock ==
    ASSUME Locking, NEW c \in Calls, ~Waits(c), ~Waits(c)',
           \A d \in Calls \ {c} : call'[d] = call[d],
           UNCHANGED <<lockq, rules, always>>
    PROVE  Locking'
  <1>1. \A d \in Calls : Waits(d)' <=> Queued(d)'
    BY DEF Locking, Waits, Queued
  <1>2. \A d \in Calls : call'[d].at = "asked"
                             => Head(lockq') = d /\ call'[d].tool \notin rules'
    BY DEF Locking, Waits
  <1> QED BY <1>1, <1>2 DEF Locking, InOrder

(* The holder of the lock releases it; what the user approved is a rule. *)
LEMMA Releases ==
    ASSUME Locking, NEW c \in Calls, Waits(c), Head(lockq) = c, ~Waits(c)',
           \A d \in Calls \ {c} : call'[d] = call[d],
           lockq' = Tail(lockq), always' \subseteq rules'
    PROVE  Locking'
  <1>1. lockq \in Seq(Calls) /\ lockq # <<>> /\ InOrder(lockq)
    BY EmptySeq DEF Locking, Queued
  <1>2. /\ Tail(lockq) \in Seq(Calls) /\ InOrder(Tail(lockq))
        /\ \A d : (\E i \in DOMAIN Tail(lockq) : Tail(lockq)[i] = d)
                      <=> (d # Head(lockq) /\ \E i \in DOMAIN lockq : lockq[i] = d)
    BY <1>1, TailKeepsOrder, Zenon
  <1>3. ASSUME NEW d \in Calls
        PROVE  Waits(d)' <=> Queued(d)'
    <2>1. Queued(d)' <=> (d # c /\ Queued(d)) BY <1>2 DEF Queued
    <2>2. Waits(d)' <=> (d # c /\ Waits(d)) BY DEF Waits
    <2>3. Waits(d) <=> Queued(d) BY DEF Locking
    <2> QED BY <2>1, <2>2, <2>3
  <1>4. \A d \in Calls : call'[d].at # "asked"
    BY DEF Locking, Waits
  <1>5. lockq' \in Seq(Calls) /\ InOrder(lockq') BY <1>2, Zenon DEF InOrder
  <1> QED BY <1>3, <1>4, <1>5 DEF Locking, InOrder

(* Cancelling the tasks empties the queue, and nothing begins to run. *)
LEMMA Cancels ==
    ASSUME IInv, CancelTasks, UNCHANGED <<rules, always, count>>
    PROVE  Calling' /\ Locking' /\ Running' \subseteq Running
  <1>1. /\ call' \in [Calls -> [tool : Tools \cup {"none"}, at : Open \cup {"none", "done"}]]
        /\ \A c \in Calls :
              /\ call'[c].at \notin {"wait", "asked"}
              /\ call'[c].at \in Open => call[c].at \in Open
              /\ call[c].at = "none" => call'[c].at = "none"
    BY DEF IInv, Calling, CancelTasks, Open, Done
  <1>2. Calling' BY <1>1 DEF IInv, Calling
  <1>3. lockq' = <<>> BY DEF CancelTasks
  <1>4. lockq' \in Seq(Calls) /\ DOMAIN lockq' = {} BY <1>3, EmptySeq
  <1>5. Locking' BY <1>1, <1>4 DEF IInv, Locking, InOrder, Waits, Queued
  <1>6. Running' \subseteq Running BY <1>1 DEF Running
  <1> QED BY <1>2, <1>5, <1>6

(* The turn moves on, and leaves its batch only when nothing runs. *)
LEMMA TurnMoves ==
    ASSUME IInv, UNCHANGED <<call, lockq, rules, always, abandoned>>,
           count' \in [turns : Nat, calls : Nat, extras : Nat], count.calls <= count'.calls,
           \/ pc \notin {"batch", "cancelling"}
           \/ Running = {}
           \/ pc' = pc
    PROVE  IInv'
  <1>1. Calling' BY AgentAssumption DEF IInv, Calling, Calls
  <1>2. Locking' BY DEF IInv, Locking, Waits, Queued, InOrder
  <1>3. Batching' BY DEF IInv, Batching, Running
  <1> QED BY <1>1, <1>2, <1>3 DEF IInv

(* A fresh loop: no call, nobody at the lock. *)
LEMMA InitIInv == Init => IInv
  <1> SUFFICES ASSUME Init PROVE IInv OBVIOUS
  <1>1. Calling BY AgentAssumption DEF Init, Calling, Calls
  <1>2. lockq = <<>> /\ lockq \in Seq(Calls) /\ DOMAIN lockq = {} BY EmptySeq DEF Init
  <1>3. Locking BY <1>2 DEF Init, Locking, InOrder, Waits, Queued
  <1>4. Batching BY DEF Init, Batching, Running, Open
  <1> QED BY <1>1, <1>3, <1>4 DEF IInv

(* Every step keeps it: one case per action, those that leave the tasks of the
   calls alone together.                                                     *)
LEMMA StepIInv == IInv /\ [Next]_vars => IInv'
  <1> SUFFICES ASSUME IInv, [Next]_vars PROVE IInv' OBVIOUS
  <1> USE DEF history, batch, flags, loop
  <1>0. /\ Calling /\ Locking /\ Batching
        /\ count \in [turns : Nat, calls : Nat, extras : Nat]
    BY DEF IInv, Calling
  <1>1. CASE StartTurn \/ BeforeTurn \/ Compacted \/ CallModel \/ AnswerText \/ ModelFails
    <2>1. pc \notin {"batch", "cancelling"}
      BY <1>1 DEF StartTurn, BeforeTurn, Compacted, CallModel, AnswerText, ModelFails
    <2>2. UNCHANGED <<call, lockq, rules, always, abandoned>>
      BY <1>1 DEF StartTurn, BeforeTurn, Compacted, CallModel, AnswerText, ModelFails
    <2>3. /\ count' \in [turns : Nat, calls : Nat, extras : Nat]
          /\ count.calls <= count'.calls
      BY <1>0, <1>1
         DEF StartTurn, BeforeTurn, Compacted, CallModel, AnswerText, ModelFails, Extra
    <2> QED BY <2>1, <2>2, <2>3, TurnMoves
  <1>2. CASE ContextTooLong \/ AfterSave \/ PostHooks \/ Finish
    <2>1. pc \notin {"batch", "cancelling"}
      BY <1>2 DEF ContextTooLong, AfterSave, PostHooks, Finish
    <2>2. UNCHANGED <<call, lockq, rules, always, abandoned>>
      BY <1>2 DEF ContextTooLong, AfterSave, PostHooks, Finish
    <2>3. /\ count' \in [turns : Nat, calls : Nat, extras : Nat]
          /\ count.calls <= count'.calls
      BY <1>0, <1>2 DEF ContextTooLong, AfterSave, PostHooks, Finish, Extra
    <2> QED BY <2>1, <2>2, <2>3, TurnMoves
  <1>3. CASE BatchDone \/ TasksCancelled \/ Steer
    <2>1. Running = {} \/ pc' = pc BY <1>3 DEF BatchDone, TasksCancelled, Steer
    <2>2. UNCHANGED <<call, lockq, rules, always, abandoned>>
      BY <1>3 DEF BatchDone, TasksCancelled, Steer
    <2>3. /\ count' \in [turns : Nat, calls : Nat, extras : Nat]
          /\ count.calls <= count'.calls
      BY <1>0, <1>3 DEF BatchDone, TasksCancelled, Steer, Extra
    <2> QED BY <2>1, <2>2, <2>3, TurnMoves
  <1>4. CASE AnswerCalls
    <2>1. PICK n \in 1 .. MaxBatch :
             \E tool \in [NewCalls(n) -> Tools], bad \in SUBSET NewCalls(n) :
                LET good == NewCalls(n) \ bad IN
                /\ count.calls + n <= MaxCalls /\ count' = [count EXCEPT !.calls = @ + n]
                /\ pc' = IF good = {} THEN "saving" ELSE IF loose THEN "final" ELSE "batch"
                /\ call' = IF pc' # "batch" THEN call
                           ELSE [c \in Calls |-> IF c \in good THEN [tool |-> tool[c], at |-> "new"]
                                                 ELSE call[c]]
      BY ZenonT(60), <1>4 DEF AnswerCalls
    <2>2. PICK tool \in [NewCalls(n) -> Tools], bad \in SUBSET NewCalls(n) :
                LET good == NewCalls(n) \ bad IN
                /\ count.calls + n <= MaxCalls /\ count' = [count EXCEPT !.calls = @ + n]
                /\ pc' = IF good = {} THEN "saving" ELSE IF loose THEN "final" ELSE "batch"
                /\ call' = IF pc' # "batch" THEN call
                           ELSE [c \in Calls |-> IF c \in good THEN [tool |-> tool[c], at |-> "new"]
                                                 ELSE call[c]]
      BY <2>1
    <2>3. pc = "model" /\ UNCHANGED <<lockq, rules, always, abandoned>>
      BY <1>4 DEF AnswerCalls
    <2>4. /\ count' \in [turns : Nat, calls : Nat, extras : Nat]
          /\ count'.calls = count.calls + n /\ count.calls \in Nat /\ n \in Nat
      BY <1>0, <2>2, AgentAssumption
    <2>5. CASE pc' # "batch"
      <3>1. call' = call BY <2>2, <2>5
      <3> QED BY <2>3, <2>4, <3>1, TurnMoves
    <2>6. CASE pc' = "batch"
      <3>1. call' = [c \in Calls |-> IF c \in NewCalls(n) \ bad THEN [tool |-> tool[c], at |-> "new"]
                                     ELSE call[c]]
        BY <2>2, <2>6
      <3>2. \A c \in NewCalls(n) : c \in Int /\ c > count.calls /\ c <= count'.calls
        BY <2>4 DEF NewCalls
      <3>3. \A c \in Calls : c \in Int BY AgentAssumption DEF Calls
      <3>4. Calling' BY <1>0, <2>4, <3>1, <3>2, <3>3 DEF Calling, Open
      <3>5. \A c \in Calls : Waits(c)' <=> Waits(c)
        BY <1>0, <3>1, <3>2 DEF Calling, Waits
      <3>6. \A c \in Calls : call'[c].at = "asked" => call'[c] = call[c]
        BY <3>1
      <3>7. Locking' BY <1>0, <2>3, <3>5, <3>6 DEF Locking, Queued, InOrder
      <3>8. Batching' BY <2>6 DEF Batching
      <3> QED BY <3>4, <3>7, <3>8 DEF IInv
    <2> QED BY <2>5, <2>6
  <1>5. CASE InterruptInside
    <2>1. CASE pc = "batch"
      <3>1. Calling' /\ Locking' BY <1>5, <2>1, Cancels DEF InterruptInside
      <3>2. pc' = "cancelling" BY <1>5, <2>1 DEF InterruptInside
      <3> QED BY <3>1, <3>2 DEF IInv, Batching
    <2>2. CASE pc # "batch"
      <3>1. pc \notin {"batch", "cancelling"} BY <1>5, <2>2 DEF InterruptInside
      <3>2. UNCHANGED <<call, lockq, rules, always, abandoned, count>>
        BY <1>5, <2>2 DEF InterruptInside
      <3> QED BY <1>0, <3>1, <3>2, TurnMoves
    <2> QED BY <2>1, <2>2
  <1>6. CASE InterruptOutside
    <2>1. Calling' BY <1>0, <1>6 DEF InterruptOutside, Calling
    <2>2. Locking' BY <1>0, <1>6 DEF InterruptOutside, Locking, Waits, Queued, InOrder
    <2>3. Batching' BY <1>6 DEF InterruptOutside, Batching, Running
    <2> QED BY <2>1, <2>2, <2>3 DEF IInv
  <1>7. CASE CloseDropped
    <2>1. Calling' /\ Locking' /\ Running' \subseteq Running
      BY <1>7, Cancels DEF CloseDropped
    <2>2. Batching' BY <1>0, <1>7, <2>1 DEF CloseDropped, Batching
    <2> QED BY <2>1, <2>2 DEF IInv
  <1>8. ASSUME NEW c \in Calls, PreTool(c)
        PROVE  IInv'
    <2>0. /\ call[c].at = "new" /\ UNCHANGED <<pc, abandoned, count, rules, always>>
          /\ call[c].at \in Open /\ ~Waits(c)
      BY <1>8 DEF PreTool, Open, Waits
    <2>1. CASE Record(c) /\ UNCHANGED lockq
      <3>1. /\ Calling' /\ Batching' /\ call'[c].at = "done"
            /\ \A d \in Calls \ {c} : call'[d] = call[d]
        BY <1>0, <2>0, <2>1, TaskMoves
      <3>2. Locking' BY <1>0, <2>0, <2>1, <3>1, OutsideLock DEF Waits
      <3> QED BY <3>1, <3>2 DEF IInv
    <2>2. CASE Step(c, "wait") /\ lockq' = Append(lockq, c)
      <3>1. "wait" \in Open BY DEF Open
      <3>2. /\ Calling' /\ Batching' /\ call'[c].at = "wait"
            /\ \A d \in Calls \ {c} : call'[d] = call[d]
        BY <1>0, <2>0, <2>2, <3>1, TaskMoves
      <3>3. lockq \in Seq(Calls) /\ InOrder(lockq) /\ \A i \in DOMAIN lockq : lockq[i] # c
        BY <1>0, <2>0 DEF Locking, Queued
      <3>4. /\ Append(lockq, c) \in Seq(Calls) /\ InOrder(Append(lockq, c))
            /\ \A d : (\E i \in DOMAIN Append(lockq, c) : Append(lockq, c)[i] = d)
                          <=> (d = c \/ \E i \in DOMAIN lockq : lockq[i] = d)
            /\ lockq # <<>> => Head(Append(lockq, c)) = Head(lockq)
        BY <3>3, AppendKeepsOrder, Zenon
      <3>5. ASSUME NEW d \in Calls
            PROVE  Waits(d)' <=> Queued(d)'
        <4>1. Queued(d)' <=> (d = c \/ Queued(d)) BY <2>2, <3>4 DEF Queued
        <4>2. Waits(d)' <=> (d = c \/ Waits(d)) BY <3>2 DEF Waits
        <4>3. Waits(d) <=> Queued(d) BY <1>0 DEF Locking
        <4> QED BY <4>1, <4>2, <4>3
      <3>6. ASSUME NEW d \in Calls, call'[d].at = "asked"
            PROVE  Head(lockq') = d /\ call'[d].tool \notin rules'
        <4>1. call'[d] = call[d] /\ call[d].at = "asked" BY <3>2, <3>6
        <4>2. lockq # <<>> BY <1>0, <4>1, EmptySeq DEF Locking, Waits, Queued
        <4> QED BY <1>0, <2>0, <2>2, <3>4, <4>1, <4>2 DEF Locking
      <3>7. lockq' \in Seq(Calls) /\ InOrder(lockq') BY <2>2, <3>4, Zenon DEF InOrder
      <3>8. Locking' BY <1>0, <2>0, <3>5, <3>6, <3>7 DEF Locking, InOrder
      <3> QED BY <3>2, <3>8 DEF IInv
    <2>3. CASE Step(c, "run") /\ UNCHANGED lockq
      <3>1. "run" \in Open BY DEF Open
      <3>2. /\ Calling' /\ Batching' /\ call'[c].at = "run"
            /\ \A d \in Calls \ {c} : call'[d] = call[d]
        BY <1>0, <2>0, <2>3, <3>1, TaskMoves
      <3>3. Locking' BY <1>0, <2>0, <2>3, <3>2, OutsideLock DEF Waits
      <3> QED BY <3>2, <3>3 DEF IInv
    <2> QED BY <1>8, <2>1, <2>2, <2>3 DEF PreTool
  <1>9. ASSUME NEW c \in Calls, Decide(c)
        PROVE  IInv'
    <2>0. /\ call[c].at = "wait" /\ Head(lockq) = c
          /\ UNCHANGED <<pc, abandoned, count, rules, always>>
          /\ call[c].at \in Open /\ Waits(c) /\ {"run", "asked"} \subseteq Open
      BY <1>9 DEF Decide, Open, Waits
    <2>1. ASSUME NEW at \in {"run", "done"},
                 (at = "done" /\ Record(c)) \/ (at \in Open /\ Step(c, at))
          PROVE  IInv'
      <3>1. /\ Calling' /\ Batching' /\ call'[c].at = at
            /\ \A d \in Calls \ {c} : call'[d] = call[d]
        BY <1>0, <2>0, <2>1, TaskMoves
      <3>2. lockq' = Tail(lockq) BY <1>9, <3>1 DEF Decide
      <3>3. ~Waits(c)' BY <3>1 DEF Waits
      <3>4. always' \subseteq rules' BY <1>0, <2>0 DEF Locking
      <3>5. Locking' BY <1>0, <2>0, <3>1, <3>2, <3>3, <3>4, Releases
      <3> QED BY <3>1, <3>5 DEF IInv
    <2>2. CASE call[c].tool \notin rules /\ Step(c, "asked")
      <3>1. /\ Calling' /\ Batching' /\ call'[c].at = "asked" /\ call'[c].tool = call[c].tool
            /\ \A d \in Calls \ {c} : call'[d] = call[d]
        BY <1>0, <2>0, <2>2, TaskMoves
      <3>2. lockq' = lockq BY <1>9, <3>1 DEF Decide
      <3>3. \A d \in Calls : Waits(d)' <=> Waits(d) BY <2>0, <3>1 DEF Waits
      <3>4. \A d \in Calls : Waits(d)' <=> Queued(d)'
        BY <1>0, <3>2, <3>3 DEF Locking, Queued
      <3>5. \A d \in Calls : call'[d].at = "asked"
                                 => Head(lockq') = d /\ call'[d].tool \notin rules'
        BY <1>0, <2>0, <2>2, <3>1, <3>2 DEF Locking
      <3>6. Locking' BY <1>0, <2>0, <3>2, <3>4, <3>5 DEF Locking, InOrder
      <3> QED BY <3>1, <3>6 DEF IInv
    <2>3. Record(c) \/ Step(c, "run") \/ (call[c].tool \notin rules /\ Step(c, "asked"))
      BY <1>9 DEF Decide
    <2> QED BY <2>0, <2>1, <2>2, <2>3
  <1>10. ASSUME NEW c \in Calls, Approve(c) \/ Deny(c)
         PROVE  IInv'
    <2>0. /\ call[c].at = "asked" /\ call[c].at \in Open /\ Waits(c) /\ "run" \in Open
          /\ UNCHANGED <<pc, abandoned, count>> /\ lockq' = Tail(lockq)
      BY <1>10 DEF Approve, Deny, Open, Waits, loop
    <2>1. PICK at \in {"run", "done"} :
             (at = "done" /\ Record(c)) \/ (at \in Open /\ Step(c, at))
      BY <1>10, <2>0 DEF Approve, Deny
    <2>2. /\ Calling' /\ Batching' /\ call'[c].at = at
          /\ \A d \in Calls \ {c} : call'[d] = call[d]
      BY <1>0, <2>0, <2>1, TaskMoves
    <2>3. Head(lockq) = c BY <1>0, <2>0 DEF Locking
    <2>4. always' \subseteq rules' BY <1>0, <1>10 DEF Approve, Deny, Locking
    <2>5. ~Waits(c)' BY <2>2 DEF Waits
    <2>6. Locking' BY <1>0, <2>0, <2>2, <2>3, <2>4, <2>5, Releases
    <2> QED BY <2>2, <2>6 DEF IInv
  <1>11. ASSUME NEW c \in Calls, ToolSucceeds(c) \/ ToolFails(c) \/ FailureRecorded(c)
         PROVE  IInv'
    <2>0. /\ call[c].at \in Open /\ ~Waits(c) /\ "failing" \in Open
          /\ UNCHANGED <<pc, abandoned, lockq, rules, always>>
          /\ count' = count \/ Extra
      BY <1>11 DEF ToolSucceeds, ToolFails, FailureRecorded, Open, Waits, loop
    <2>1. PICK at \in {"failing", "done"} :
             (at = "done" /\ Record(c)) \/ (at \in Open /\ Step(c, at))
      BY <1>11, <2>0 DEF ToolSucceeds, ToolFails, FailureRecorded
    <2>2. /\ Calling' /\ Batching' /\ call'[c].at = at
          /\ \A d \in Calls \ {c} : call'[d] = call[d]
      BY <1>0, <2>0, <2>1, TaskMoves
    <2>3. Locking' BY <1>0, <2>0, <2>2, OutsideLock DEF Waits
    <2> QED BY <2>2, <2>3 DEF IInv
  <1>12. CASE UNCHANGED vars
    BY <1>0, <1>12 DEF vars, IInv, Calling, Locking, Batching, Running, Waits, Queued, InOrder
  <1> QED
    BY <1>1, <1>2, <1>3, <1>4, <1>5, <1>6, <1>7, <1>8, <1>9, <1>10, <1>11, <1>12 DEF Next

-----------------------------------------------------------------------------
(* The strengthening holds in every reachable state. *)
THEOREM IInvHolds == Spec => []IInv
  <1>1. Init => IInv BY InitIInv
  <1>2. IInv /\ [Next]_vars => IInv' BY StepIInv
  <1> QED BY <1>1, <1>2, PTL DEF Spec

(* Of the calls that run concurrently at most one asks the user, and never about a
   tool the user has approved for the session: whoever asks is at the head of the
   lock's queue, and looks at the rules only there.                          *)
THEOREM AskingIsOrdered == Spec => []AskedOnce
  <1>1. IInv => AskedOnce
    <2> SUFFICES ASSUME IInv PROVE AskedOnce OBVIOUS
    <2> DEFINE asked == {c \in Calls : call[c].at = "asked"}
    <2>1. \A c \in asked : c = Head(lockq) /\ call[c].tool \notin always
      BY DEF IInv, Locking
    <2>2. asked = {} \/ asked = {Head(lockq)} BY <2>1
    <2>3. Cardinality(asked) \in {0, 1}
      BY <2>2, FS_EmptySet, FS_Singleton
    <2> HIDE DEF asked
    <2>4. Cardinality(asked) <= 1 BY <2>3
    <2> QED BY <2>1, <2>4 DEF AskedOnce, asked
  <1> QED BY <1>1, IInvHolds, PTL

(* When no turn is running no tool is, unless the generator of a batch was dropped
   while its calls ran.                                                      *)
THEOREM NoToolWithoutTurn == Spec => []NothingRunsBetweenTurns
  <1>1. IInv => NothingRunsBetweenTurns
    BY DEF IInv, Batching, NothingRunsBetweenTurns
  <1> QED BY <1>1, IInvHolds, PTL

-----------------------------------------------------------------------------
(* Proofs about the conversation AgentLoop keeps: whatever is rejected, cancelled,
   interrupted, steered or fails, the model is called with a result for each call.
   The parts: where results stand, what filling in the missing ones does
   (_backfill_missing_tool_responses), what a new message does, what a step does. *)

(* Only results stand between the message at i and the result at k. *)
RightBehind(ms, i, k) ==
    k \in DOMAIN ms /\ i < k /\ \A m \in i + 1 .. k : ms[m].role = "tool"
(* Where the answers of the model stand. *)
Asking(ms) == {i \in DOMAIN ms : ms[i].role = "assistant"}

(* The results right behind an answer are those of its calls; each stands there once;
   no result stands anywhere else.                                           *)
OwnResults(ms) == \A i \in Asking(ms), k \in DOMAIN ms : RightBehind(ms, i, k) =>
                     \E c \in ms[i].calls : ms[k] = Result(c)
Once(ms) == \A i \in Asking(ms), k, l \in DOMAIN ms :
               RightBehind(ms, i, k) /\ RightBehind(ms, i, l) /\ ms[k] = ms[l] => k = l
Placed(ms) == \A k \in DOMAIN ms : ms[k].role = "tool" => \E i \in Asking(ms) : RightBehind(ms, i, k)
(* Every call of the answer at i has its result behind it; and right behind it. *)
AnsweredAt(ms, i) == \A c \in ms[i].calls : \E k \in i + 1 .. Len(ms) : ms[k] = Result(c)
FullAt(ms, i) == \A c \in ms[i].calls : \E k \in DOMAIN ms : RightBehind(ms, i, k) /\ ms[k] = Result(c)

-----------------------------------------------------------------------------
(* Messages differ by their roles; a result is that of one call. *)
LEMMA MessageFacts ==
    /\ User \in Message /\ Summary \in Message
    /\ User.role # "tool" /\ Summary.role # "tool" /\ User.role # "assistant" /\ Summary.role # "assistant"
    /\ \A cs \in SUBSET Calls : Assistant(cs) \in Message
    /\ \A cs : Assistant(cs).role = "assistant" /\ Assistant(cs).calls = cs
    /\ \A c \in Calls : Result(c) \in Message
    /\ \A c : Result(c).role = "tool" /\ Result(c).calls = {c}
    /\ \A c, d : Result(c) = Result(d) => c = d
    /\ \A x \in Message : x.calls \subseteq Calls
  <1>1. \A c, d : Result(c) = Result(d) => c = d
    <2>1. ASSUME NEW c, NEW d, Result(c) = Result(d) PROVE c = d
      <3>1. Result(c).calls = {c} /\ Result(d).calls = {d} BY DEF Result
      <3> QED BY <2>1, <3>1
    <2> QED BY <2>1
  <1>2. \A x \in Message : x.calls \subseteq Calls
    BY DEF Message, User, Summary, Assistant, Result
  <1>3. \A cs : Assistant(cs).role = "assistant" /\ Assistant(cs).calls = cs BY DEF Assistant
  <1>4. \A c : Result(c).role = "tool" /\ Result(c).calls = {c} BY DEF Result
  <1>5. User.role # "tool" /\ Summary.role # "tool" /\ User.role # "assistant" /\ Summary.role # "assistant"
    BY DEF User, Summary
  <1> QED BY <1>1, <1>2, <1>3, <1>4, <1>5 DEF Message

(* The results that stand right behind a message reach as far as ResultsEnd says. *)
LEMMA EndOfResults ==
    ASSUME NEW ms \in Seq(Message), NEW i \in 1 .. Len(ms)
    PROVE  /\ ResultsEnd(ms, i) \in i .. Len(ms)
           /\ \A k : RightBehind(ms, i, k) <=> k \in i + 1 .. ResultsEnd(ms, i)
  <1>1. PICK n \in Nat : n = Len(ms) OBVIOUS
  <1>2. PICK T : T = {k \in i .. Len(ms) : \A j \in i + 1 .. k : ms[j].role = "tool"} OBVIOUS
  <1>3. i \in T /\ T \subseteq 0 .. n BY <1>1, <1>2
  <1>4. Max(T) \in T /\ \A y \in T : y <= Max(T) BY <1>3, NatMax
  <1>5. PICK e \in T : e = Max(T) BY <1>4
  <1>6. ResultsEnd(ms, i) = e BY <1>2, <1>5 DEF ResultsEnd
  <1>7. e \in i .. Len(ms) /\ \A j \in i + 1 .. e : ms[j].role = "tool" BY <1>2, <1>5
  <1>8. DOMAIN ms = 1 .. n BY <1>1
  <1>9. ASSUME NEW k, RightBehind(ms, i, k) PROVE k \in i + 1 .. e
    <2>1. k \in T BY <1>1, <1>2, <1>8, <1>9 DEF RightBehind
    <2> QED BY <2>1, <1>4, <1>5, <1>7, <1>8, <1>9 DEF RightBehind
  <1>10. ASSUME NEW k \in i + 1 .. e PROVE RightBehind(ms, i, k)
    <2>1. k \in 1 .. n /\ i < k /\ i + 1 .. k \subseteq i + 1 .. e BY <1>1, <1>7
    <2> QED BY <2>1, <1>7, <1>8 DEF RightBehind
  <1> QED BY <1>6, <1>7, <1>9, <1>10

(* Results has one result for each call. *)
LEMMA ResultsOf ==
    ASSUME NEW cs \in SUBSET Calls
    PROVE  /\ Cardinality(cs) \in Nat
           /\ Results(cs) \in Seq(Message) /\ Len(Results(cs)) = Cardinality(cs)
           /\ \A j \in 1 .. Cardinality(cs) : \E c \in cs : Results(cs)[j] = Result(c)
           /\ \A c \in cs : \E j \in 1 .. Cardinality(cs) : Results(cs)[j] = Result(c)
           /\ \A j, k \in 1 .. Cardinality(cs) : Results(cs)[j] = Results(cs)[k] => j = k
  <1>1. IsFiniteSet(cs) /\ cs \subseteq Nat
    <2>1. IsFiniteSet(Calls) /\ Calls \subseteq Nat BY SMTT(30), AgentAssumption, FS_Interval DEF Calls
    <2> QED BY <2>1, FS_Subset
  <1>2. Cardinality(cs) \in Nat BY <1>1, FS_CardinalityType
  <1>3. PICK n \in Nat : n = Cardinality(cs) BY <1>2
  <1>4. PICK upto : upto = [c \in cs |-> {d \in cs : d <= c}] OBVIOUS
  <1>5. PICK g : g = [c \in cs |-> Cardinality(upto[c])] OBVIOUS
  <1>6. \A c \in cs : upto[c] \subseteq cs /\ c \in upto[c] /\ IsFiniteSet(upto[c])
    <2>1. \A c \in cs : upto[c] \subseteq cs /\ c \in upto[c] BY <1>1, <1>4
    <2> QED BY <2>1, <1>1, FS_Subset
  <1>7. \A c \in cs : g[c] \in 1 .. n
    <2>1. ASSUME NEW c \in cs PROVE g[c] \in 1 .. n
      <3>1. Cardinality(upto[c]) <= n BY <1>1, <1>3, <1>6, FS_Subset
      <3>2. Cardinality(upto[c]) \in Nat /\ Cardinality(upto[c]) # 0
        BY <1>6, FS_CardinalityType, FS_EmptySet
      <3> QED BY <1>5, <3>1, <3>2
    <2> QED BY <2>1
  <1>8. \A c, d \in cs : c < d => g[c] < g[d]
    <2>1. ASSUME NEW c \in cs, NEW d \in cs, c < d PROVE g[c] < g[d]
      <3>1. upto[c] \subseteq upto[d] /\ upto[c] # upto[d]
        <4>1. upto[c] = {x \in cs : x <= c} /\ upto[d] = {x \in cs : x <= d} BY <1>4
        <4>2. c \in Nat /\ d \in Nat /\ \A x \in cs : x \in Nat BY <1>1
        <4>3. d \in upto[d] /\ d \notin upto[c] BY <4>1, <4>2, <2>1
        <4>4. \A x \in cs : x <= c => x <= d BY <4>2, <2>1
        <4>5. \A x : (x \in upto[c] <=> x \in cs /\ x <= c) /\ (x \in upto[d] <=> x \in cs /\ x <= d)
          BY <4>1
        <4> QED BY <4>3, <4>4, <4>5
      <3>2. Cardinality(upto[c]) <= Cardinality(upto[d])
            /\ Cardinality(upto[c]) # Cardinality(upto[d])
        BY <1>6, <3>1, FS_Subset
      <3>3. g[c] \in Nat /\ g[d] \in Nat /\ g[c] <= g[d] /\ g[c] # g[d] BY <1>5, <1>7, <3>2
      <3> QED BY <3>3
    <2> QED BY <2>1
  <1>9. \A c, d \in cs : g[c] = g[d] => c = d
    <2>1. ASSUME NEW c \in cs, NEW d \in cs, c # d PROVE g[c] # g[d]
      <3>1. c < d \/ d < c BY <1>1, <2>1
      <3>2. g[c] \in Nat /\ g[d] \in Nat BY <1>7
      <3> QED BY <1>8, <3>1, <3>2
    <2> QED BY <2>1
  <1>10. \A k \in 1 .. n : \E c \in cs : g[c] = k
    <2>1. g \in [cs -> 1 .. n] BY <1>5, <1>7
    <2>2. g \in Injection(cs, 1 .. n) BY <2>1, <1>9 DEF Injection, IsInjective
    <2>3. IsFiniteSet(1 .. n) /\ Cardinality(1 .. n) = n BY FS_Interval
    <2>4. g \in Surjection(cs, 1 .. n) BY <2>2, <2>3, <1>3, FS_Injection
    <2> QED BY <2>4 DEF Surjection
  <1>11. PICK f : f = [k \in 1 .. n |-> NthCall(cs, k)] OBVIOUS
  <1>12. \A k \in 1 .. n : f[k] \in cs /\ g[f[k]] = k
    <2>1. ASSUME NEW k \in 1 .. n PROVE f[k] \in cs /\ g[f[k]] = k
      <3>1. \A c \in cs : g[c] = Cardinality({d \in cs : d <= c}) BY <1>4, <1>5
      <3>2. f[k] = CHOOSE c \in cs : Cardinality({d \in cs : d <= c}) = k BY <1>11 DEF NthCall
      <3>3. \E c \in cs : Cardinality({d \in cs : d <= c}) = k BY <1>10, <3>1
      <3>4. f[k] \in cs /\ Cardinality({d \in cs : d <= f[k]}) = k BY <3>2, <3>3
      <3> QED BY <3>1, <3>4
    <2> QED BY <2>1
  <1>13. PICK r : r = Results(cs) OBVIOUS
  <1>14. \A k \in 1 .. n : r[k] = Result(f[k]) /\ f[k] \in cs
    BY <1>3, <1>11, <1>12, <1>13 DEF Results
  <1>15. r \in Seq(Message) /\ Len(r) = n
    <2>1. \A k \in 1 .. n : r[k] \in Message BY <1>14, MessageFacts
    <2>2. r = [k \in 1 .. n |-> r[k]] BY <1>3, <1>13 DEF Results
    <2> QED BY <2>1, <2>2
  <1>16. \A c \in cs : \E j \in 1 .. n : r[j] = Result(c)
    <2>1. ASSUME NEW c \in cs PROVE \E j \in 1 .. n : r[j] = Result(c)
      <3>1. g[c] \in 1 .. n /\ f[g[c]] = c BY <1>7, <1>9, <1>12
      <3> QED BY <3>1, <1>14
    <2> QED BY <2>1
  <1>17. \A j, k \in 1 .. n : r[j] = r[k] => j = k
    <2>1. \A j, k \in 1 .. n : r[j] = r[k] => f[j] = f[k] BY <1>14, MessageFacts
    <2> QED BY <2>1, <1>12
  <1> QED BY <1>2, <1>3, <1>13, <1>14, <1>15, <1>16, <1>17

-----------------------------------------------------------------------------
(* Filled, the conversation with the missing results added. *)

(* The calls Filled answers right behind the message at k. *)
MissingBehind(ms, k) ==
    UNION {MissingAfter(ms, i) : i \in {j \in 1 .. k : ms[j].role = "assistant" /\ ResultsEnd(ms, j) = k}}

(* The messages of ms, each with the results added right behind it: where. *)
Spread(ms, f, off) ==
    /\ off \in [0 .. Len(ms) -> Nat] /\ off[0] = 0 /\ Len(f) = off[Len(ms)]
    /\ \A k \in 1 .. Len(ms) :
          /\ off[k] = off[k - 1] + 1 + Cardinality(MissingBehind(ms, k))
          /\ f[off[k - 1] + 1] = ms[k]
          /\ \A j \in 1 .. Cardinality(MissingBehind(ms, k)) :
                f[off[k - 1] + 1 + j] = Results(MissingBehind(ms, k))[j]

(* Only calls of the message itself can be missing. *)
LEMMA MissingOwn ==
    ASSUME NEW ms \in Seq(Message), NEW k \in 1 .. Len(ms)
    PROVE  MissingBehind(ms, k) \in SUBSET Calls
  <1>1. ASSUME NEW i \in 1 .. k PROVE MissingAfter(ms, i) \subseteq Calls
    <2>1. i \in 1 .. Len(ms) /\ ms[i] \in Message OBVIOUS
    <2>2. ms[i].calls \subseteq Calls BY <2>1, MessageFacts
    <2> QED BY <2>2 DEF MissingAfter
  <1> QED BY <1>1 DEF MissingBehind

(* What Filled computes. *)
LEMMA FilledIs ==
    ASSUME NEW ms \in Seq(Message)
    PROVE  /\ Filled(ms) \in Seq(Message)
           /\ \E off : Spread(ms, Filled(ms), off)
  <1>1. PICK n \in Nat : n = Len(ms) OBVIOUS
  <1>2. DOMAIN ms = 1 .. n BY <1>1
  <1>3. PICK ss : ss = [k \in 1 .. n |-> <<ms[k]>> \o Results(MissingBehind(ms, k))] OBVIOUS
  <1>4. ASSUME NEW k \in 1 .. n
        PROVE  /\ ss[k] \in Seq(Message) /\ Len(ss[k]) = 1 + Cardinality(MissingBehind(ms, k))
               /\ Cardinality(MissingBehind(ms, k)) \in Nat
               /\ ss[k][1] = ms[k]
               /\ \A j \in 1 .. Cardinality(MissingBehind(ms, k)) :
                     ss[k][1 + j] = Results(MissingBehind(ms, k))[j]
    <2>1. PICK m \in Message : m = ms[k] BY <1>1
    <2>2. MissingBehind(ms, k) \in SUBSET Calls BY <1>1, MissingOwn
    <2>3. /\ Results(MissingBehind(ms, k)) \in Seq(Message)
          /\ Len(Results(MissingBehind(ms, k))) = Cardinality(MissingBehind(ms, k))
          /\ Cardinality(MissingBehind(ms, k)) \in Nat
      BY <2>2, ResultsOf
    <2>4. PICK r \in Seq(Message) : r = Results(MissingBehind(ms, k)) BY <2>3
    <2>5. ss[k] = <<m>> \o r BY <1>3, <2>1, <2>4
    <2>6. <<m>> \in Seq(Message) /\ Len(<<m>>) = 1 /\ <<m>>[1] = m OBVIOUS
    <2>7. /\ <<m>> \o r \in Seq(Message) /\ Len(<<m>> \o r) = 1 + Len(r)
          /\ (<<m>> \o r)[1] = m
          /\ \A j \in 1 .. Len(r) : (<<m>> \o r)[1 + j] = r[j]
      <3>1. PICK a \in Seq(Message) : a = <<m>> /\ Len(a) = 1 /\ a[1] = m BY <2>6
      <3>2. /\ a \o r \in Seq(Message) /\ Len(a \o r) = Len(a) + Len(r)
            /\ \A i \in 1 .. Len(a) : (a \o r)[i] = a[i]
            /\ \A i \in 1 .. Len(r) : (a \o r)[Len(a) + i] = r[i]
        BY RowFacts
      <3> QED BY <3>1, <3>2
    <2> QED BY <2>1, <2>3, <2>4, <2>5, <2>7
  <1>5. Filled(ms) = FlattenSeq(ss) BY <1>2, <1>3 DEF Filled, MissingBehind
  <1>6. CASE n = 0
    <2>1. ss = <<>> /\ Len(ss) = 0 BY <1>3, <1>6
    <2>2. FlattenSeq(ss) = <<>> BY <2>1 DEF FlattenSeq
    <2>3. <<>> \in Seq(Message) /\ Len(<<>>) = 0 OBVIOUS
    <2>4. PICK off : off = [i \in 0 .. 0 |-> 0] OBVIOUS
    <2>5. off \in [0 .. 0 -> Nat] /\ off[0] = 0 BY <2>4
    <2>6. Spread(ms, <<>>, off) BY <1>1, <1>6, <2>3, <2>5 DEF Spread, Laid
    <2> QED BY <1>5, <2>2, <2>3, <2>6
  <1>7. CASE n >= 1
    <2>1. ss \in Seq(Seq(Message)) /\ n = Len(ss)
      <3>1. ss \in [1 .. n -> Seq(Message)]
        <4>1. \A k \in 1 .. n : ss[k] \in Seq(Message) BY <1>4
        <4>2. ss = [k \in 1 .. n |-> ss[k]] BY <1>3
        <4> QED BY <4>1, <4>2
      <3>2. \A x \in [1 .. n -> Seq(Message)] : x \in Seq(Seq(Message)) /\ Len(x) = n OBVIOUS
      <3> QED BY <3>1, <3>2, Zenon
    <2>2. FlattenSeq(ss) \in Seq(Message) BY <1>7, <2>1, Flattened
    <2>3. PICK off : Laid(ss, n, FlattenSeq(ss), off) BY <1>7, <2>1, Flattened
    <2>4. PICK f : f = FlattenSeq(ss) OBVIOUS
    <2>5. ASSUME NEW k \in 1 .. n
          PROVE /\ off[k] = off[k - 1] + 1 + Cardinality(MissingBehind(ms, k))
                /\ f[off[k - 1] + 1] = ms[k]
                /\ \A j \in 1 .. Cardinality(MissingBehind(ms, k)) :
                      f[off[k - 1] + 1 + j] = Results(MissingBehind(ms, k))[j]
      <3>1. off[k - 1] \in Nat /\ off[k] = off[k - 1] + Len(ss[k]) BY <2>3 DEF Laid
      <3>2. PICK c \in Nat : c = Cardinality(MissingBehind(ms, k)) BY <1>4
      <3>3. Len(ss[k]) = 1 + c BY <1>4, <3>2
      <3>4. \A j \in 1 .. Len(ss[k]) : f[off[k - 1] + j] = ss[k][j] BY <2>3, <2>4 DEF Laid
      <3>5. f[off[k - 1] + 1] = ms[k] BY <1>4, <3>3, <3>4
      <3>6. ASSUME NEW j \in 1 .. c PROVE f[off[k - 1] + 1 + j] = Results(MissingBehind(ms, k))[j]
        <4>1. 1 + j \in 1 .. Len(ss[k]) /\ off[k - 1] + 1 + j = off[k - 1] + (1 + j)
          BY <3>1, <3>3
        <4>2. f[off[k - 1] + (1 + j)] = ss[k][1 + j] BY <4>1, <3>4
        <4>3. ss[k][1 + j] = Results(MissingBehind(ms, k))[j]
          <5>1. j \in 1 .. Cardinality(MissingBehind(ms, k)) BY <3>2
          <5> QED BY <5>1, <1>4, Zenon
        <4> QED BY <4>1, <4>2, <4>3
      <3>7. off[k] = off[k - 1] + 1 + Cardinality(MissingBehind(ms, k)) BY <3>1, <3>2, <3>3
      <3>8. \A j \in 1 .. Cardinality(MissingBehind(ms, k)) :
               f[off[k - 1] + 1 + j] = Results(MissingBehind(ms, k))[j]
        BY <3>2, <3>6, Zenon
      <3> QED BY <3>5, <3>7, <3>8, Zenon
    <2>6. Spread(ms, f, off) BY <1>1, <2>3, <2>4, <2>5 DEF Spread, Laid
    <2> QED BY <1>5, <2>2, <2>4, <2>6
  <1> QED BY <1>6, <1>7

(* The place p is in the block of the message at k: the message and what is added. *)
InBlock(off, k, p) == off[k - 1] < p /\ p <= off[k]

(* The blocks of Filled: a message and the results added behind it. *)
LEMMA BlockFacts ==
    ASSUME NEW ms \in Seq(Message), NEW f \in Seq(Message), NEW off, Spread(ms, f, off)
    PROVE  /\ \A p \in 1 .. Len(f) : \E k \in 1 .. Len(ms) : InBlock(off, k, p)
           /\ \A k \in 1 .. Len(ms) : \A p \in 1 .. Len(f) : InBlock(off, k, p) =>
                 \/ p = off[k - 1] + 1 /\ f[p] = ms[k]
                 \/ \E j \in 1 .. Cardinality(MissingBehind(ms, k)) :
                       p = off[k - 1] + 1 + j /\ f[p] = Results(MissingBehind(ms, k))[j]
           /\ \A k \in 1 .. Len(ms) : \A i \in 1 .. k - 1 : off[i] <= off[k - 1]
           /\ \A k \in 1 .. Len(ms) : off[k] <= Len(f) /\ off[k - 1] \in Nat /\ off[k] \in Nat
                                      /\ off[k - 1] < off[k]
  <1>1. PICK n \in Nat : n = Len(ms) OBVIOUS
  <1>2. /\ off \in [0 .. n -> Nat] /\ off[0] = 0 /\ Len(f) = off[n]
        /\ \A k \in 1 .. n :
              /\ off[k] = off[k - 1] + 1 + Cardinality(MissingBehind(ms, k))
              /\ f[off[k - 1] + 1] = ms[k]
              /\ \A j \in 1 .. Cardinality(MissingBehind(ms, k)) :
                    f[off[k - 1] + 1 + j] = Results(MissingBehind(ms, k))[j]
    BY <1>1 DEF Spread
  <1>3. \A k \in 1 .. n : Cardinality(MissingBehind(ms, k)) \in Nat
    BY <1>1, MissingOwn, ResultsOf
  <1>4. \A k \in 1 .. n : off[k - 1] \in Nat /\ off[k] \in Nat /\ off[k - 1] < off[k]
    <2>1. ASSUME NEW k \in 1 .. n PROVE off[k - 1] \in Nat /\ off[k] \in Nat /\ off[k - 1] < off[k]
      <3>1. off[k - 1] \in Nat /\ off[k] \in Nat BY <1>2
      <3>2. PICK c \in Nat : c = Cardinality(MissingBehind(ms, k)) BY <1>3
      <3>3. off[k] = off[k - 1] + 1 + Cardinality(MissingBehind(ms, k)) BY <1>2
      <3> QED BY <3>1, <3>2, <3>3
    <2> QED BY <2>1, Zenon
  <1>5. CASE n = 0
    <2>1. 1 .. Len(f) = {} /\ 1 .. Len(ms) = {} BY <1>1, <1>2, <1>5
    <2> QED BY <2>1, Zenon
  <1>6. CASE n >= 1
    <2>1. \A i \in 1 .. n : off[i - 1] < off[i] BY <1>4
    <2>2. /\ \A p \in 1 .. off[n] : \E k \in 1 .. n : off[k - 1] < p /\ p <= off[k]
          /\ \A k \in 0 .. n : \A i \in 0 .. k : off[i] <= off[k]
      BY <1>2, <1>6, <2>1, Blocks
    <2>3. ASSUME NEW k \in 1 .. n, NEW p \in 1 .. Len(f), InBlock(off, k, p)
          PROVE  \/ p = off[k - 1] + 1 /\ f[p] = ms[k]
                 \/ \E j \in 1 .. Cardinality(MissingBehind(ms, k)) :
                       p = off[k - 1] + 1 + j /\ f[p] = Results(MissingBehind(ms, k))[j]
      <3>1. PICK c \in Nat : c = Cardinality(MissingBehind(ms, k)) BY <1>3
      <3>2. PICK o \in Nat : o = off[k - 1] BY <1>4
      <3>3. o < p /\ p <= o + 1 + c BY <2>3, <1>2, <3>1, <3>2 DEF InBlock
      <3>4. CASE p = o + 1
        <4>1. f[off[k - 1] + 1] = ms[k] BY <1>2
        <4> QED BY <3>2, <3>4, <4>1
      <3>5. CASE p # o + 1
        <4>1. PICK j \in 1 .. c : p = o + 1 + j
          <5>1. p - o - 1 \in 1 .. c /\ p = o + 1 + (p - o - 1) BY <3>3, <3>5
          <5> QED BY <5>1
        <4>2. j \in 1 .. Cardinality(MissingBehind(ms, k)) BY <3>1
        <4>3. f[off[k - 1] + 1 + j] = Results(MissingBehind(ms, k))[j] BY <1>2, <4>2
        <4> QED BY <4>1, <4>2, <4>3, <3>2
      <3> QED BY <3>4, <3>5
    <2>4. \A p \in 1 .. Len(f) : \E k \in 1 .. n : InBlock(off, k, p) BY <1>2, <2>2 DEF InBlock
    <2>5. ASSUME NEW k \in 1 .. n, NEW i \in 1 .. k - 1 PROVE off[i] <= off[k - 1]
      <3>1. k - 1 \in 0 .. n /\ i \in 0 .. k - 1 OBVIOUS
      <3> QED BY <3>1, <2>2
    <2>6. \A k \in 1 .. n : off[k] <= Len(f)
      <3>1. \A k \in 1 .. n : k \in 0 .. n /\ n \in 0 .. n OBVIOUS
      <3> QED BY <3>1, <1>2, <2>2
    <2> QED BY <1>1, <1>4, <2>3, <2>4, <2>5, <2>6
  <1> QED BY <1>5, <1>6

(* Only the message that the results stand behind can miss some there. *)
LEMMA MissingOfAsker ==
    ASSUME NEW ms \in Seq(Message), NEW i \in Asking(ms), NEW k \in 1 .. Len(ms),
           k = i \/ RightBehind(ms, i, k)
    PROVE  MissingBehind(ms, k) = IF ResultsEnd(ms, i) = k THEN MissingAfter(ms, i) ELSE {}
  <1>1. i \in 1 .. Len(ms) /\ ms[i].role = "assistant" /\ i <= k
    <2>1. i \in DOMAIN ms /\ DOMAIN ms = 1 .. Len(ms) /\ ms[i].role = "assistant" BY DEF Asking
    <2> QED BY <2>1 DEF RightBehind
  <1>2. ASSUME NEW j \in 1 .. k, ms[j].role = "assistant", ResultsEnd(ms, j) = k PROVE j = i
    <2>1. j \in 1 .. Len(ms) OBVIOUS
    <2>2. j = k \/ RightBehind(ms, j, k)
      <3>1. k \in j + 1 .. k \/ j = k OBVIOUS
      <3> QED BY <3>1, <1>2, <2>1, EndOfResults
    <2>3. CASE j < i
      <3>1. i \in j + 1 .. k BY <1>1, <2>3
      <3> QED BY <3>1, <1>1, <2>2, <2>3 DEF RightBehind
    <2>4. CASE i < j
      <3>1. j \in i + 1 .. k /\ k # i BY <1>1, <2>4
      <3> QED BY <3>1, <1>2 DEF RightBehind
    <2> QED BY <1>1, <2>3, <2>4
  <1>3. PICK A : A = {j \in 1 .. k : ms[j].role = "assistant" /\ ResultsEnd(ms, j) = k} OBVIOUS
  <1>4. A = IF ResultsEnd(ms, i) = k THEN {i} ELSE {}
    <2>1. A \subseteq {i} BY <1>2, <1>3
    <2>2. i \in A <=> ResultsEnd(ms, i) = k BY <1>1, <1>3
    <2> QED BY <2>1, <2>2
  <1>5. MissingBehind(ms, k) = UNION {MissingAfter(ms, j) : j \in A} BY <1>3 DEF MissingBehind
  <1> QED BY <1>4, <1>5

(* Right behind a message of Filled stand the blocks of what stood right behind it. *)
LEMMA FilledBehind ==
    ASSUME NEW ms \in Seq(Message), NEW f \in Seq(Message), NEW off, Spread(ms, f, off),
           NEW i \in Asking(ms), NEW a, a = off[i - 1] + 1, NEW p \in 1 .. Len(f)
    PROVE  RightBehind(f, a, p) <=>
              a < p /\ \E k \in 1 .. Len(ms) : (k = i \/ RightBehind(ms, i, k)) /\ InBlock(off, k, p)
  <1>1. i \in 1 .. Len(ms) /\ ms[i].role = "assistant"
    <2>1. i \in DOMAIN ms /\ DOMAIN ms = 1 .. Len(ms) /\ ms[i].role = "assistant" BY DEF Asking
    <2> QED BY <2>1
  <1>2. DOMAIN f = 1 .. Len(f) /\ DOMAIN ms = 1 .. Len(ms) OBVIOUS
  <1>3. /\ \A q \in 1 .. Len(f) : \E k \in 1 .. Len(ms) : InBlock(off, k, q)
        /\ \A k \in 1 .. Len(ms) : \A q \in 1 .. Len(f) : InBlock(off, k, q) =>
                 \/ q = off[k - 1] + 1 /\ f[q] = ms[k]
                 \/ \E j \in 1 .. Cardinality(MissingBehind(ms, k)) :
                       q = off[k - 1] + 1 + j /\ f[q] = Results(MissingBehind(ms, k))[j]
        /\ \A k \in 1 .. Len(ms) : \A l \in 1 .. k - 1 : off[l] <= off[k - 1]
        /\ \A k \in 1 .. Len(ms) : off[k] <= Len(f) /\ off[k - 1] \in Nat /\ off[k] \in Nat
                                      /\ off[k - 1] < off[k]
    BY BlockFacts
  <1>4. a \in 1 .. Len(f) /\ off[i - 1] \in Nat /\ off[i] \in Nat /\ a <= off[i]
    <2>1. off[i] <= Len(f) /\ off[i - 1] \in Nat /\ off[i] \in Nat /\ off[i - 1] < off[i]
      BY <1>1, <1>3
    <2> QED BY <2>1
  <1>5. ASSUME NEW k \in 1 .. Len(ms), k < i, NEW q \in 1 .. Len(f), InBlock(off, k, q)
        PROVE  q < a
    <2>1. k \in 1 .. i - 1 BY <1>1, <1>5
    <2>2. off[k] <= off[i - 1] /\ off[k] \in Nat BY <1>1, <1>3, <2>1
    <2> QED BY <1>4, <1>5, <2>2 DEF InBlock
  <1>6. ASSUME RightBehind(f, a, p)
        PROVE  a < p /\ \E k \in 1 .. Len(ms) :
                           (k = i \/ RightBehind(ms, i, k)) /\ InBlock(off, k, p)
    <2>1. a < p /\ \A q \in a + 1 .. p : f[q].role = "tool" BY <1>6 DEF RightBehind
    <2>2. PICK k \in 1 .. Len(ms) : InBlock(off, k, p) BY <1>3
    <2>3. ~(k < i) BY <1>5, <2>1, <2>2, <1>4
    <2>4. ASSUME k # i, NEW m \in i + 1 .. k PROVE ms[m].role = "tool"
      <3>1. m \in 1 .. Len(ms) /\ i \in 1 .. m - 1 /\ m <= k BY <1>1
      <3>2. PICK o \in Nat : o = off[m - 1] BY <1>3, <3>1
      <3>3. a <= o
        <4>1. off[i] <= off[m - 1] BY <1>3, <3>1
        <4> QED BY <4>1, <1>4, <3>2
      <3>4. o < p
        <4>1. CASE m = k BY <4>1, <2>2, <3>2 DEF InBlock
        <4>2. CASE m # k
          <5>1. m \in 1 .. k - 1 BY <3>1, <4>2
          <5>2. off[m] <= off[k - 1] /\ off[k - 1] \in Nat /\ off[m] \in Nat BY <1>3, <3>1, <5>1
          <5>3. off[m - 1] < off[m] BY <1>3, <3>1
          <5>4. o < off[m] BY <5>3, <3>2, <5>2
          <5> QED BY <2>2, <3>2, <5>2, <5>4 DEF InBlock
        <4> QED BY <4>1, <4>2
      <3>5. o + 1 \in a + 1 .. p /\ o + 1 \in 1 .. Len(f) BY SMTT(30), <1>4, <3>3, <3>4
      <3>6. f[o + 1].role = "tool" BY <2>1, <3>5
      <3>7. InBlock(off, m, o + 1)
        <4>1. off[m - 1] < off[m] /\ off[m] \in Nat BY <1>3, <3>1
        <4> QED BY <3>2, <4>1 DEF InBlock
      <3>8. \/ f[o + 1] = ms[m]
            \/ \E j \in 1 .. Cardinality(MissingBehind(ms, m)) : o + 1 = off[m - 1] + 1 + j
        BY <1>3, <3>1, <3>5, <3>7
      <3>9. ~ \E j \in 1 .. Cardinality(MissingBehind(ms, m)) : o + 1 = off[m - 1] + 1 + j
        BY SMTT(30), <3>2
      <3> QED BY <3>6, <3>8, <3>9
    <2>5. k = i \/ RightBehind(ms, i, k)
      <3>1. k # i => i < k /\ k \in DOMAIN ms BY <2>3, <1>1, <1>2
      <3> QED BY <2>4, <3>1 DEF RightBehind
    <2> QED BY <2>1, <2>2, <2>5
  <1>7. ASSUME a < p, NEW k \in 1 .. Len(ms), k = i \/ RightBehind(ms, i, k), InBlock(off, k, p)
        PROVE  RightBehind(f, a, p)
    <2>1. ASSUME NEW q \in a + 1 .. p PROVE f[q].role = "tool"
      <3>1. q \in 1 .. Len(f) /\ a < q /\ q <= p BY SMTT(30), <1>4
      <3>2. PICK m \in 1 .. Len(ms) : InBlock(off, m, q) BY <1>3, <3>1
      <3>3. ~(m < i) BY <1>5, <3>1, <3>2, <1>4
      <3>4. ~(k < m)
        <4>1. ASSUME k < m PROVE FALSE
          <5>1. k \in 1 .. m - 1 BY <4>1
          <5>2. off[k] <= off[m - 1] /\ off[k] \in Nat /\ off[m - 1] \in Nat BY <1>3, <5>1
          <5> QED BY <5>2, <3>1, <3>2, <1>7 DEF InBlock
        <4> QED BY <4>1
      <3>5. \/ q = off[m - 1] + 1 /\ f[q] = ms[m]
            \/ \E j \in 1 .. Cardinality(MissingBehind(ms, m)) :
                       q = off[m - 1] + 1 + j /\ f[q] = Results(MissingBehind(ms, m))[j]
        BY <1>3, <3>1, <3>2
      <3>6. CASE q = off[m - 1] + 1 /\ f[q] = ms[m]
        <4>1. m # i BY <3>6, <3>1
        <4>2. m \in i + 1 .. k BY <4>1, <3>3, <3>4, <1>1
        <4>3. k # i BY <4>2, <1>1
        <4> QED BY <3>6, <4>2, <4>3, <1>7 DEF RightBehind
      <3>7. ASSUME NEW j \in 1 .. Cardinality(MissingBehind(ms, m)),
                   f[q] = Results(MissingBehind(ms, m))[j]
            PROVE  f[q].role = "tool"
        <4>1. MissingBehind(ms, m) \in SUBSET Calls BY MissingOwn
        <4>2. PICK c \in MissingBehind(ms, m) : Results(MissingBehind(ms, m))[j] = Result(c)
          BY <4>1, ResultsOf
        <4> QED BY <3>7, <4>2, MessageFacts
      <3> QED BY <3>5, <3>6, <3>7
    <2> QED BY <1>2, <1>7, <2>1 DEF RightBehind
  <1> QED BY <1>6, <1>7

(* A copy of the result at k; the j-th of the results added behind the message at i. *)
Copies(ms, f, off, i, p) ==
    \E k \in 1 .. Len(ms) : RightBehind(ms, i, k) /\ p = off[k - 1] + 1 /\ f[p] = ms[k]
Adds(ms, f, off, i, p) ==
    \E j \in 1 .. Cardinality(MissingAfter(ms, i)) :
       p = off[ResultsEnd(ms, i) - 1] + 1 + j /\ f[p] = Results(MissingAfter(ms, i))[j]

(* So right behind a message of Filled stand the results that stood there, and those
   that were missing.                                                        *)
LEMMA FilledStands ==
    ASSUME NEW ms \in Seq(Message), NEW f \in Seq(Message), NEW off, Spread(ms, f, off),
           NEW i \in Asking(ms), NEW a, a = off[i - 1] + 1, NEW p \in 1 .. Len(f)
    PROVE  RightBehind(f, a, p) <=> Copies(ms, f, off, i, p) \/ Adds(ms, f, off, i, p)
  <1>1. i \in 1 .. Len(ms)
    <2>1. i \in DOMAIN ms /\ DOMAIN ms = 1 .. Len(ms) BY DEF Asking
    <2> QED BY <2>1
  <1>2. PICK e \in i .. Len(ms) : e = ResultsEnd(ms, i) BY <1>1, EndOfResults
  <1>3. PICK X \in SUBSET Calls : X = MissingAfter(ms, i)
    <2>1. ms[i] \in Message BY <1>1
    <2>2. ms[i].calls \subseteq Calls BY <2>1, MessageFacts
    <2> QED BY <2>2 DEF MissingAfter
  <1>4. PICK c \in Nat : c = Cardinality(X) BY ResultsOf
  <1>5. RightBehind(f, a, p) <=>
            a < p /\ \E k \in 1 .. Len(ms) : (k = i \/ RightBehind(ms, i, k)) /\ InBlock(off, k, p)
    BY FilledBehind
  <1>6. /\ \A k \in 1 .. Len(ms) : InBlock(off, k, p) =>
                 \/ p = off[k - 1] + 1 /\ f[p] = ms[k]
                 \/ \E j \in 1 .. Cardinality(MissingBehind(ms, k)) :
                       p = off[k - 1] + 1 + j /\ f[p] = Results(MissingBehind(ms, k))[j]
        /\ \A k \in 1 .. Len(ms) : \A l \in 1 .. k - 1 : off[l] <= off[k - 1]
        /\ \A k \in 1 .. Len(ms) : off[k] <= Len(f) /\ off[k - 1] \in Nat /\ off[k] \in Nat
                                      /\ off[k - 1] < off[k]
    BY BlockFacts
  <1>7. \A k \in 1 .. Len(ms) : k = i \/ RightBehind(ms, i, k) =>
            MissingBehind(ms, k) = IF e = k THEN X ELSE {}
    BY <1>2, <1>3, MissingOfAsker
  <1>8. ASSUME RightBehind(f, a, p) PROVE Copies(ms, f, off, i, p) \/ Adds(ms, f, off, i, p)
    <2>1. PICK k \in 1 .. Len(ms) : a < p /\ (k = i \/ RightBehind(ms, i, k)) /\ InBlock(off, k, p)
      BY <1>5, <1>8
    <2>2. CASE p = off[k - 1] + 1 /\ f[p] = ms[k]
      <3>1. k # i
        <4>1. ASSUME k = i PROVE FALSE
          <5>1. a = p BY <2>2, <4>1
          <5>2. off[i - 1] \in Nat BY <1>1, <1>6
          <5> QED BY <5>1, <5>2, <2>1
        <4> QED BY <4>1
      <3> QED BY <3>1, <2>1, <2>2 DEF Copies
    <2>3. ASSUME NEW j \in 1 .. Cardinality(MissingBehind(ms, k)),
                 p = off[k - 1] + 1 + j /\ f[p] = Results(MissingBehind(ms, k))[j]
          PROVE  Adds(ms, f, off, i, p)
      <3>1. e = k
        <4>1. Cardinality({}) = 0 BY FS_EmptySet
        <4>2. MissingBehind(ms, k) # {}
          <5>1. ASSUME MissingBehind(ms, k) = {} PROVE FALSE
            <6>1. Cardinality(MissingBehind(ms, k)) = 0 BY <4>1, <5>1
            <6>2. j \in 1 .. 0 BY <6>1
            <6> QED BY <6>2
          <5> QED BY <5>1
        <4> QED BY <4>2, <1>7, <2>1
      <3>2. MissingBehind(ms, k) = X BY <3>1, <1>7, <2>1
      <3> QED BY <1>2, <1>3, <2>3, <3>1, <3>2, Zenon DEF Adds
    <2> QED BY <2>1, <2>2, <2>3, <1>6
  <1>9. \A k \in 1 .. Len(ms) : i < k => a <= off[k - 1]
    <2>1. ASSUME NEW k \in 1 .. Len(ms), i < k PROVE a <= off[k - 1]
      <3>1. i \in 1 .. k - 1 BY <1>1, <2>1
      <3>2. off[i] <= off[k - 1] /\ off[k - 1] \in Nat BY <1>6, <3>1
      <3>3. off[i - 1] < off[i] /\ off[i - 1] \in Nat /\ off[i] \in Nat BY <1>1, <1>6
      <3> QED BY <3>2, <3>3
    <2> QED BY <2>1
  <1>10. ASSUME Copies(ms, f, off, i, p) PROVE RightBehind(f, a, p)
    <2>1. PICK k \in 1 .. Len(ms) : RightBehind(ms, i, k) /\ p = off[k - 1] + 1
      BY <1>10 DEF Copies
    <2>2. i < k BY <2>1 DEF RightBehind
    <2>3. a <= off[k - 1] /\ off[k - 1] \in Nat /\ off[k] \in Nat /\ off[k - 1] < off[k]
      BY <1>6, <1>9, <2>2
    <2>4. off[i - 1] \in Nat BY <1>1, <1>6
    <2>5. a < p /\ InBlock(off, k, p) BY SMTT(30), <2>1, <2>3, <2>4 DEF InBlock
    <2> QED BY <1>5, <2>1, <2>5
  <1>11. ASSUME Adds(ms, f, off, i, p) PROVE RightBehind(f, a, p)
    <2>1. PICK j \in 1 .. c : p = off[e - 1] + 1 + j BY <1>2, <1>3, <1>4, <1>11 DEF Adds
    <2>2. e \in 1 .. Len(ms) /\ (e = i \/ RightBehind(ms, i, e))
      <3>1. e = i \/ e \in i + 1 .. e BY <1>1, <1>2
      <3> QED BY <3>1, <1>1, <1>2, EndOfResults
    <2>3. off[e] = off[e - 1] + 1 + c
      <3>1. MissingBehind(ms, e) = X BY <1>7, <2>2
      <3> QED BY <2>2, <3>1, <1>4 DEF Spread
    <2>4. off[e - 1] \in Nat BY <1>6, <2>2
    <2>5. InBlock(off, e, p) BY SMTT(30), <2>1, <2>3, <2>4 DEF InBlock
    <2>6. a < p
      <3>1. CASE e = i BY <2>1, <2>4, <3>1
      <3>2. CASE e # i
        <4>1. i < e BY <1>1, <1>2, <3>2
        <4>2. a <= off[e - 1] BY <1>9, <2>2, <4>1
        <4>3. off[i - 1] \in Nat BY <1>1, <1>6
        <4> QED BY <4>2, <4>3, <2>1, <2>4
      <3> QED BY <3>1, <3>2
    <2> QED BY <1>5, <2>2, <2>5, <2>6
  <1> QED BY <1>8, <1>10, <1>11

(* The messages of Filled that call are copies; its results are copies or added. *)
LEMMA FilledPlaces ==
    ASSUME NEW ms \in Seq(Message), NEW f \in Seq(Message), NEW off, Spread(ms, f, off)
    PROVE  /\ \A p \in Asking(f) : \E i \in Asking(ms) : p = off[i - 1] + 1
           /\ \A k \in 1 .. Len(ms) : off[k - 1] + 1 \in 1 .. Len(f) /\ f[off[k - 1] + 1] = ms[k]
           /\ \A i \in Asking(ms) : \A j \in 1 .. Cardinality(MissingAfter(ms, i)) :
                 LET p == off[ResultsEnd(ms, i) - 1] + 1 + j IN
                 p \in 1 .. Len(f) /\ f[p] = Results(MissingAfter(ms, i))[j]
           /\ \A p \in 1 .. Len(f) : f[p].role = "tool" =>
                 \/ \E k \in 1 .. Len(ms) : p = off[k - 1] + 1 /\ ms[k].role = "tool" /\ f[p] = ms[k]
                 \/ \E i \in Asking(ms) : Adds(ms, f, off, i, p)
  <1>1. /\ \A p \in 1 .. Len(f) : \E k \in 1 .. Len(ms) : InBlock(off, k, p)
        /\ \A k \in 1 .. Len(ms) : \A p \in 1 .. Len(f) : InBlock(off, k, p) =>
                 \/ p = off[k - 1] + 1 /\ f[p] = ms[k]
                 \/ \E j \in 1 .. Cardinality(MissingBehind(ms, k)) :
                       p = off[k - 1] + 1 + j /\ f[p] = Results(MissingBehind(ms, k))[j]
        /\ \A k \in 1 .. Len(ms) : \A l \in 1 .. k - 1 : off[l] <= off[k - 1]
        /\ \A k \in 1 .. Len(ms) : off[k] <= Len(f) /\ off[k - 1] \in Nat /\ off[k] \in Nat
                                      /\ off[k - 1] < off[k]
    BY BlockFacts
  <1>2. DOMAIN ms = 1 .. Len(ms) /\ DOMAIN f = 1 .. Len(f) OBVIOUS
  <1>3. ASSUME NEW k \in 1 .. Len(ms)
        PROVE  off[k - 1] + 1 \in 1 .. Len(f) /\ f[off[k - 1] + 1] = ms[k]
    <2>1. off[k] <= Len(f) /\ off[k - 1] \in Nat /\ off[k] \in Nat /\ off[k - 1] < off[k] BY <1>1
    <2>2. Len(f) \in Nat OBVIOUS
    <2>3. f[off[k - 1] + 1] = ms[k] BY DEF Spread
    <2> QED BY <2>1, <2>2, <2>3
  <1>4. ASSUME NEW k \in 1 .. Len(ms), NEW j \in 1 .. Cardinality(MissingBehind(ms, k))
        PROVE  Results(MissingBehind(ms, k))[j].role = "tool"
    <2>1. MissingBehind(ms, k) \in SUBSET Calls BY MissingOwn
    <2>2. PICK c \in MissingBehind(ms, k) : Results(MissingBehind(ms, k))[j] = Result(c)
          BY <2>1, ResultsOf
    <2> QED BY <2>2, MessageFacts
  <1>5. ASSUME NEW p \in Asking(f) PROVE \E i \in Asking(ms) : p = off[i - 1] + 1
    <2>1. p \in 1 .. Len(f) /\ f[p].role = "assistant" BY <1>2 DEF Asking
    <2>2. PICK k \in 1 .. Len(ms) : InBlock(off, k, p) BY <1>1, <2>1
    <2>3. p = off[k - 1] + 1 /\ f[p] = ms[k] BY <1>1, <1>4, <2>1, <2>2
    <2> QED BY <1>2, <2>1, <2>3 DEF Asking
  <1>6. ASSUME NEW i \in Asking(ms)
        PROVE  /\ ResultsEnd(ms, i) \in 1 .. Len(ms)
               /\ MissingBehind(ms, ResultsEnd(ms, i)) = MissingAfter(ms, i)
    <2>1. i \in 1 .. Len(ms) BY <1>2 DEF Asking
    <2>2. PICK e \in i .. Len(ms) : e = ResultsEnd(ms, i) BY <2>1, EndOfResults
    <2>3. e \in 1 .. Len(ms) /\ (e = i \/ RightBehind(ms, i, e))
      <3>1. e = i \/ e \in i + 1 .. e BY <2>1, <2>2
      <3> QED BY <3>1, <2>1, <2>2, EndOfResults
    <2> QED BY <2>2, <2>3, MissingOfAsker
  <1>7. ASSUME NEW i \in Asking(ms), NEW j \in 1 .. Cardinality(MissingAfter(ms, i)),
               NEW p, p = off[ResultsEnd(ms, i) - 1] + 1 + j
        PROVE  p \in 1 .. Len(f) /\ f[p] = Results(MissingAfter(ms, i))[j]
    <2>1. PICK e \in 1 .. Len(ms) : e = ResultsEnd(ms, i) BY <1>6
    <2>2. MissingBehind(ms, e) = MissingAfter(ms, i) BY <2>1, <1>6
    <2>3. MissingBehind(ms, e) \in SUBSET Calls BY MissingOwn
    <2>4. PICK c \in Nat : c = Cardinality(MissingBehind(ms, e)) BY <2>3, ResultsOf
    <2>5. off[e] = off[e - 1] + 1 + c BY <2>4 DEF Spread
    <2>6. f[off[e - 1] + 1 + j] = Results(MissingBehind(ms, e))[j] BY <2>2 DEF Spread
    <2>7. j \in 1 .. c BY <2>2, <2>4
    <2>8. off[e] <= Len(f) /\ off[e - 1] \in Nat /\ Len(f) \in Nat BY <1>1
    <2>9. p \in 1 .. Len(f) BY SMTT(30), <1>7, <2>1, <2>5, <2>7, <2>8
    <2> QED BY <2>9, <2>6, <2>1, <2>2, <1>7, Zenon
  <1>8. ASSUME NEW p \in 1 .. Len(f), f[p].role = "tool"
        PROVE  \/ \E k \in 1 .. Len(ms) : p = off[k - 1] + 1 /\ ms[k].role = "tool" /\ f[p] = ms[k]
               \/ \E i \in Asking(ms) : Adds(ms, f, off, i, p)
    <2>1. PICK k \in 1 .. Len(ms) : InBlock(off, k, p) BY <1>1
    <2>2. CASE p = off[k - 1] + 1 /\ f[p] = ms[k] BY <2>2, <1>8
    <2>3. ASSUME NEW j \in 1 .. Cardinality(MissingBehind(ms, k)),
                 p = off[k - 1] + 1 + j /\ f[p] = Results(MissingBehind(ms, k))[j]
          PROVE  \E i \in Asking(ms) : Adds(ms, f, off, i, p)
      <3>1. Cardinality({}) = 0 BY FS_EmptySet
      <3>2. MissingBehind(ms, k) # {}
        <4>1. ASSUME MissingBehind(ms, k) = {} PROVE FALSE
          <5>1. Cardinality(MissingBehind(ms, k)) = 0 BY <3>1, <4>1
          <5>2. j \in 1 .. 0 BY <5>1
          <5> QED BY <5>2
        <4> QED BY <4>1
      <3>3. PICK i \in 1 .. k : ms[i].role = "assistant" /\ ResultsEnd(ms, i) = k
        BY <3>2 DEF MissingBehind
      <3>4. i \in Asking(ms) BY <3>3, <1>2 DEF Asking
      <3>5. MissingBehind(ms, k) = MissingAfter(ms, i) BY <1>6, <3>3, <3>4
      <3> QED BY <2>3, <3>3, <3>4, <3>5, Zenon DEF Adds
    <2> QED BY <1>1, <2>1, <2>2, <2>3
  <1> QED BY <1>3, <1>5, <1>7, <1>8

(* What may be missing behind an answer: calls of its own; none of those that are
   answered there; and all the others, if every result there is its own.     *)
LEMMA MissingFacts ==
    ASSUME NEW ms \in Seq(Message), NEW i \in Asking(ms)
    PROVE  /\ MissingAfter(ms, i) \in SUBSET Calls /\ MissingAfter(ms, i) \subseteq ms[i].calls
           /\ \A c \in MissingAfter(ms, i) : \A k : RightBehind(ms, i, k) => ms[k] # Result(c)
           /\ OwnResults(ms) => \A c \in ms[i].calls :
                 c \in MissingAfter(ms, i) \/ \E k : RightBehind(ms, i, k) /\ ms[k] = Result(c)
  <1>1. i \in 1 .. Len(ms) /\ DOMAIN ms = 1 .. Len(ms)
    <2>1. i \in DOMAIN ms /\ DOMAIN ms = 1 .. Len(ms) BY DEF Asking
    <2> QED BY <2>1
  <1>2. PICK R : R = UNION {ms[k].calls : k \in i + 1 .. ResultsEnd(ms, i)} OBVIOUS
  <1>3. PICK cs \in SUBSET Calls : cs = ms[i].calls
    <2>1. ms[i] \in Message BY <1>1
    <2> QED BY <2>1, MessageFacts
  <1>4. MissingAfter(ms, i) = IF Cardinality(R) < Cardinality(cs) THEN cs \ R ELSE {}
    BY <1>2, <1>3 DEF MissingAfter
  <1>5. \A k : RightBehind(ms, i, k) <=> k \in i + 1 .. ResultsEnd(ms, i) BY <1>1, EndOfResults
  <1>6. ASSUME NEW c \in MissingAfter(ms, i), NEW k, RightBehind(ms, i, k), ms[k] = Result(c)
        PROVE  FALSE
    <2>1. c \in ms[k].calls BY <1>6, MessageFacts
    <2>2. c \in R BY <1>2, <1>5, <1>6, <2>1
    <2> QED BY <1>4, <2>2
  <1>7. ASSUME OwnResults(ms), NEW c \in cs, c \notin MissingAfter(ms, i)
        PROVE  \E k : RightBehind(ms, i, k) /\ ms[k] = Result(c)
    <2>1. ASSUME NEW d \in R PROVE d \in cs /\ \E k : RightBehind(ms, i, k) /\ ms[k] = Result(d)
      <3>1. PICK k \in i + 1 .. ResultsEnd(ms, i) : d \in ms[k].calls BY <1>2
      <3>2. RightBehind(ms, i, k) BY <1>5
      <3>3. k \in DOMAIN ms BY <3>2 DEF RightBehind
      <3>4. PICK x \in cs : ms[k] = Result(x) BY <1>3, <1>7, <3>2, <3>3 DEF OwnResults
      <3>5. d = x BY <3>1, <3>4, MessageFacts
      <3> QED BY <3>2, <3>4, <3>5
    <2>2. IsFiniteSet(cs)
      <3>1. IsFiniteSet(Calls) BY AgentAssumption, FS_Interval DEF Calls
      <3> QED BY <3>1, FS_Subset
    <2>3. R \in SUBSET cs BY <2>1
    <2>4. /\ Cardinality(R) <= Cardinality(cs) /\ IsFiniteSet(R)
          /\ Cardinality(cs) = Cardinality(R) => cs = R
      BY <2>2, <2>3, FS_Subset
    <2>5. Cardinality(R) \in Nat /\ Cardinality(cs) \in Nat BY <2>2, <2>4, FS_CardinalityType
    <2>6. c \in R
      <3>1. CASE Cardinality(R) < Cardinality(cs) BY <3>1, <1>4, <1>7
      <3>2. CASE Cardinality(R) = Cardinality(cs) BY <3>2, <2>4
      <3> QED BY <3>1, <3>2, <2>4, <2>5
    <2> QED BY <2>1, <2>6
  <1>8. MissingAfter(ms, i) \subseteq cs BY <1>4
  <1> QED BY <1>3, <1>6, <1>7, <1>8

(* What _fill_missing_tool_responses makes of a conversation: every call of every
   answer has its result right behind it, and what was in order still is.    *)
LEMMA FilledFacts ==
    ASSUME NEW ms \in Seq(Message)
    PROVE  /\ Filled(ms) \in Seq(Message)
           /\ OwnResults(ms) /\ Once(ms) =>
                 /\ OwnResults(Filled(ms)) /\ Once(Filled(ms))
                 /\ \A i \in Asking(Filled(ms)) : FullAt(Filled(ms), i)
                 /\ Placed(ms) => Placed(Filled(ms))
  <1>1. Filled(ms) \in Seq(Message) BY FilledIs
  <1> SUFFICES ASSUME OwnResults(ms), Once(ms)
               PROVE  /\ OwnResults(Filled(ms)) /\ Once(Filled(ms))
                      /\ \A i \in Asking(Filled(ms)) : FullAt(Filled(ms), i)
                      /\ Placed(ms) => Placed(Filled(ms))
    BY <1>1
  <1>2. PICK f \in Seq(Message) : f = Filled(ms) BY <1>1
  <1>3. PICK off : Spread(ms, f, off) BY <1>2, FilledIs
  <1>4. DOMAIN f = 1 .. Len(f) /\ DOMAIN ms = 1 .. Len(ms) OBVIOUS
  <1>5. /\ \A p \in Asking(f) : \E i \in Asking(ms) : p = off[i - 1] + 1
        /\ \A k \in 1 .. Len(ms) : off[k - 1] + 1 \in 1 .. Len(f) /\ f[off[k - 1] + 1] = ms[k]
        /\ \A i \in Asking(ms) : \A j \in 1 .. Cardinality(MissingAfter(ms, i)) :
                 LET p == off[ResultsEnd(ms, i) - 1] + 1 + j IN
                 p \in 1 .. Len(f) /\ f[p] = Results(MissingAfter(ms, i))[j]
        /\ \A p \in 1 .. Len(f) : f[p].role = "tool" =>
                 \/ \E k \in 1 .. Len(ms) : p = off[k - 1] + 1 /\ ms[k].role = "tool" /\ f[p] = ms[k]
                 \/ \E i \in Asking(ms) : Adds(ms, f, off, i, p)
    BY <1>3, FilledPlaces
  <1>6. ASSUME NEW p \in Asking(f)
        PROVE  \E i \in Asking(ms) :
                  /\ p = off[i - 1] + 1 /\ f[p] = ms[i]
                  /\ \A q \in 1 .. Len(f) :
                        RightBehind(f, p, q) <=> Copies(ms, f, off, i, q) \/ Adds(ms, f, off, i, q)
    <2>1. PICK i \in Asking(ms) : p = off[i - 1] + 1 BY <1>5
    <2>2. i \in 1 .. Len(ms) BY <1>4 DEF Asking
    <2>3. f[p] = ms[i] BY <1>5, <2>1, <2>2
    <2> QED BY <1>3, <2>1, <2>3, FilledStands
  <1>7. ASSUME NEW i \in Asking(ms), NEW q, Adds(ms, f, off, i, q)
        PROVE  \E c \in MissingAfter(ms, i) : f[q] = Result(c)
    <2>1. PICK j \in 1 .. Cardinality(MissingAfter(ms, i)) : f[q] = Results(MissingAfter(ms, i))[j]
      BY <1>7 DEF Adds
    <2>2. MissingAfter(ms, i) \in SUBSET Calls BY MissingFacts
    <2> QED BY <2>1, <2>2, ResultsOf
  <1>8. OwnResults(f)
    <2>1. ASSUME NEW p \in Asking(f), NEW q \in DOMAIN f, RightBehind(f, p, q)
          PROVE  \E c \in f[p].calls : f[q] = Result(c)
      <3>1. PICK i \in Asking(ms) :
               f[p] = ms[i] /\ (Copies(ms, f, off, i, q) \/ Adds(ms, f, off, i, q))
        BY <1>4, <1>6, <2>1
      <3>2. CASE Copies(ms, f, off, i, q) BY <3>1, <3>2, <1>4 DEF Copies, OwnResults
      <3>3. CASE Adds(ms, f, off, i, q) BY <3>1, <3>3, <1>7, MissingFacts
      <3> QED BY <3>1, <3>2, <3>3
    <2> QED BY <2>1 DEF OwnResults
  <1>9. Once(f)
    <2>1. ASSUME NEW p \in Asking(f), NEW q \in DOMAIN f, NEW r \in DOMAIN f,
                 RightBehind(f, p, q), RightBehind(f, p, r), f[q] = f[r]
          PROVE  q = r
      <3>1. PICK i \in Asking(ms) :
               /\ Copies(ms, f, off, i, q) \/ Adds(ms, f, off, i, q)
               /\ Copies(ms, f, off, i, r) \/ Adds(ms, f, off, i, r)
        BY <1>4, <1>6, <2>1
      <3>2. CASE Copies(ms, f, off, i, q) /\ Copies(ms, f, off, i, r)
        BY <3>2, <2>1, <1>4 DEF Copies, Once
      <3>3. ASSUME NEW x, NEW y, Copies(ms, f, off, i, x), Adds(ms, f, off, i, y), f[x] = f[y]
            PROVE  FALSE
        <4>1. PICK k : RightBehind(ms, i, k) /\ f[x] = ms[k] BY <3>3 DEF Copies
        <4>2. PICK c \in MissingAfter(ms, i) : f[y] = Result(c) BY <3>3, <1>7
        <4>3. ms[k] = Result(c) BY <3>3, <4>1, <4>2
        <4>4. \A d \in MissingAfter(ms, i) : \A l : RightBehind(ms, i, l) => ms[l] # Result(d)
          BY MissingFacts
        <4> QED BY <4>1, <4>3, <4>4
      <3>4. CASE Adds(ms, f, off, i, q) /\ Adds(ms, f, off, i, r)
        <4>1. PICK j \in 1 .. Cardinality(MissingAfter(ms, i)) :
                 q = off[ResultsEnd(ms, i) - 1] + 1 + j /\ f[q] = Results(MissingAfter(ms, i))[j]
          BY <3>4 DEF Adds
        <4>2. PICK k \in 1 .. Cardinality(MissingAfter(ms, i)) :
                 r = off[ResultsEnd(ms, i) - 1] + 1 + k /\ f[r] = Results(MissingAfter(ms, i))[k]
          BY <3>4 DEF Adds
        <4>3. MissingAfter(ms, i) \in SUBSET Calls BY MissingFacts
        <4>4. j = k BY <2>1, <4>1, <4>2, <4>3, ResultsOf
        <4> QED BY <4>1, <4>2, <4>4
      <3> QED BY <2>1, <3>1, <3>2, <3>3, <3>4
    <2> QED BY <2>1 DEF Once
  <1>10. ASSUME NEW p \in Asking(f), NEW c \in f[p].calls
         PROVE  \E q \in DOMAIN f : RightBehind(f, p, q) /\ f[q] = Result(c)
    <2>1. PICK i \in Asking(ms) :
                  /\ f[p] = ms[i]
                  /\ \A q \in 1 .. Len(f) :
                        RightBehind(f, p, q) <=> Copies(ms, f, off, i, q) \/ Adds(ms, f, off, i, q)
      BY <1>6
    <2>2. CASE c \in MissingAfter(ms, i)
      <3>1. MissingAfter(ms, i) \in SUBSET Calls BY MissingFacts
      <3>2. PICK j \in 1 .. Cardinality(MissingAfter(ms, i)) : Results(MissingAfter(ms, i))[j] = Result(c)
        BY <2>2, <3>1, ResultsOf
      <3>3. PICK q : q = off[ResultsEnd(ms, i) - 1] + 1 + j OBVIOUS
      <3>4. q \in 1 .. Len(f) /\ f[q] = Results(MissingAfter(ms, i))[j] BY <1>5, <3>3
      <3>5. Adds(ms, f, off, i, q) BY <3>3, <3>4 DEF Adds
      <3> QED BY <1>4, <2>1, <3>2, <3>4, <3>5
    <2>3. CASE c \notin MissingAfter(ms, i)
      <3>1. PICK k : RightBehind(ms, i, k) /\ ms[k] = Result(c) BY <2>1, <2>3, MissingFacts
      <3>2. k \in 1 .. Len(ms) BY <1>4, <3>1 DEF RightBehind
      <3>3. PICK q \in 1 .. Len(f) : q = off[k - 1] + 1 /\ f[q] = ms[k] BY <1>5, <3>2
      <3>4. Copies(ms, f, off, i, q) BY <3>1, <3>2, <3>3 DEF Copies
      <3> QED BY <1>4, <2>1, <3>1, <3>3, <3>4
    <2> QED BY <2>2, <2>3
  <1>11. ASSUME Placed(ms), NEW q \in DOMAIN f, f[q].role = "tool"
         PROVE  \E p \in Asking(f) : RightBehind(f, p, q)
    <2>1. PICK i \in Asking(ms) : Copies(ms, f, off, i, q) \/ Adds(ms, f, off, i, q)
      <3>1. q \in 1 .. Len(f) BY <1>4
      <3>2. ASSUME NEW k \in 1 .. Len(ms), q = off[k - 1] + 1, ms[k].role = "tool", f[q] = ms[k]
            PROVE  \E i \in Asking(ms) : Copies(ms, f, off, i, q)
        <4>1. PICK i \in Asking(ms) : RightBehind(ms, i, k) BY <1>4, <1>11, <3>2 DEF Placed
        <4> QED BY <3>2, <4>1 DEF Copies
      <3> QED BY <1>5, <1>11, <3>1, <3>2
    <2>2. i \in 1 .. Len(ms) /\ ms[i].role = "assistant" BY <1>4 DEF Asking
    <2>3. PICK p \in 1 .. Len(f) : p = off[i - 1] + 1 /\ f[p] = ms[i] BY <1>5, <2>2
    <2>4. p \in Asking(f) BY <1>4, <2>2, <2>3 DEF Asking
    <2>5. RightBehind(f, p, q) BY <1>3, <1>4, <2>1, <2>3, FilledStands
    <2> QED BY <2>4, <2>5
  <1> QED BY <1>2, <1>8, <1>9, <1>10, <1>11 DEF FullAt, Placed

-----------------------------------------------------------------------------
(* The conversation grows. *)

(* ns is ms and perhaps more. *)
Extends(ns, ms) == Len(ms) <= Len(ns) /\ \A k \in 1 .. Len(ms) : ns[k] = ms[k]

(* In a longer conversation everything that stood stands where it did. *)
LEMMA LongerKeeps ==
    ASSUME NEW ms \in Seq(Message), NEW ns \in Seq(Message), Extends(ns, ms)
    PROVE  /\ \A i, k \in 1 .. Len(ms) : RightBehind(ns, i, k) <=> RightBehind(ms, i, k)
           /\ \A i \in 1 .. Len(ms) : i \in Asking(ns) <=> i \in Asking(ms)
           /\ \A i \in Asking(ms) : /\ AnsweredAt(ms, i) => AnsweredAt(ns, i)
                                    /\ FullAt(ms, i) => FullAt(ns, i)
                                    /\ i \in Asking(ns) /\ ns[i] = ms[i]
  <1>1. /\ DOMAIN ms = 1 .. Len(ms) /\ DOMAIN ns = 1 .. Len(ns) /\ Len(ms) \in Nat /\ Len(ns) \in Nat
        /\ Len(ms) <= Len(ns) /\ \A k \in 1 .. Len(ms) : ns[k] = ms[k]
    BY DEF Extends
  <1>2. ASSUME NEW i \in 1 .. Len(ms), NEW k \in 1 .. Len(ms)
        PROVE  RightBehind(ns, i, k) <=> RightBehind(ms, i, k)
    <2>1. k \in DOMAIN ms /\ k \in DOMAIN ns BY <1>1
    <2>2. \A m \in i + 1 .. k : ns[m] = ms[m] BY <1>1
    <2> QED BY <2>1, <2>2 DEF RightBehind
  <1>3. \A i \in 1 .. Len(ms) : i \in Asking(ns) <=> i \in Asking(ms) BY <1>1 DEF Asking
  <1>4. ASSUME NEW i \in Asking(ms)
        PROVE  /\ AnsweredAt(ms, i) => AnsweredAt(ns, i)
               /\ FullAt(ms, i) => FullAt(ns, i)
               /\ i \in Asking(ns) /\ ns[i] = ms[i]
    <2>1. i \in 1 .. Len(ms) /\ ns[i] = ms[i] BY <1>1 DEF Asking
    <2>2. AnsweredAt(ms, i) => AnsweredAt(ns, i)
      <3>1. \A k \in i + 1 .. Len(ms) : k \in i + 1 .. Len(ns) /\ ns[k] = ms[k] BY <1>1, <2>1
      <3> QED BY <2>1, <3>1 DEF AnsweredAt
    <2>3. FullAt(ms, i) => FullAt(ns, i)
      <3>1. \A k \in DOMAIN ms : k \in DOMAIN ns /\ ns[k] = ms[k] BY <1>1
      <3>2. \A k \in DOMAIN ms : RightBehind(ms, i, k) => RightBehind(ns, i, k) BY <1>1, <1>2, <2>1
      <3> QED BY <2>1, <3>1, <3>2 DEF FullAt
    <2> QED BY <1>3, <2>1, <2>2, <2>3
  <1> QED BY <1>2, <1>3, <1>4

(* Somebody speaks who is not a tool, and with an answer come the results of calls of
   its own that are known at once.                                           *)
Speaks(ns, ms, cs) ==
    /\ Extends(ns, ms) /\ Len(ns) = Len(ms) + 1 + Cardinality(cs)
    /\ ns[Len(ms) + 1].role # "tool"
    /\ cs \in SUBSET Calls /\ cs \subseteq ns[Len(ms) + 1].calls
    /\ cs # {} => ns[Len(ms) + 1].role = "assistant"
    /\ \A j \in 1 .. Cardinality(cs) : ns[Len(ms) + 1 + j] = Results(cs)[j]

(* Then no result stands where none should, and those of cs are there. *)
LEMMA SpeakingKeeps ==
    ASSUME NEW ms \in Seq(Message), NEW ns \in Seq(Message), NEW cs, Speaks(ns, ms, cs)
    PROVE  /\ OwnResults(ms) => OwnResults(ns)
           /\ Once(ms) => Once(ns)
           /\ Placed(ms) => Placed(ns)
           /\ Asking(ns) \subseteq Asking(ms) \cup {Len(ms) + 1}
           /\ \A j \in Len(ms) + 2 .. Len(ns) : ns[j].role = "tool" /\ \E c \in cs : ns[j] = Result(c)
           /\ \A c \in cs : \E j \in Len(ms) + 2 .. Len(ns) : ns[j] = Result(c)
  <1>1. PICK n \in Nat : n = Len(ms) OBVIOUS
  <1>2. cs \in SUBSET Calls BY DEF Speaks
  <1>3. PICK m \in Nat : m = Cardinality(cs) BY <1>2, ResultsOf
  <1>4. /\ DOMAIN ms = 1 .. n /\ DOMAIN ns = 1 .. n + 1 + m /\ Len(ns) = n + 1 + m
        /\ Extends(ns, ms) /\ \A k \in 1 .. n : ns[k] = ms[k]
        /\ ns[n + 1].role # "tool" /\ cs \subseteq ns[n + 1].calls
        /\ cs # {} => ns[n + 1].role = "assistant"
        /\ \A j \in 1 .. m : ns[n + 1 + j] = Results(cs)[j]
    BY <1>1, <1>3 DEF Speaks, Extends
  <1>5. \A i, k \in 1 .. n : RightBehind(ns, i, k) <=> RightBehind(ms, i, k)
    BY <1>1, <1>4, LongerKeeps
  <1>6. \A i \in 1 .. n : i \in Asking(ns) <=> i \in Asking(ms) BY <1>1, <1>4, LongerKeeps
  <1>7. \A j \in 1 .. m : \E c \in cs : ns[n + 1 + j] = Result(c)
    <2>1. \A j \in 1 .. m : \E c \in cs : Results(cs)[j] = Result(c) BY <1>2, <1>3, ResultsOf
    <2>2. ASSUME NEW j \in 1 .. m PROVE \E c \in cs : ns[n + 1 + j] = Result(c)
      <3>1. ns[n + 1 + j] = Results(cs)[j] BY <1>4
      <3> QED BY <2>1, <3>1
    <2> QED BY <2>2
  <1>8. ASSUME NEW k \in n + 2 .. n + 1 + m
        PROVE  /\ ns[k].role = "tool" /\ \E c \in cs : ns[k] = Result(c)
               /\ ns[k] = Results(cs)[k - n - 1] /\ k - n - 1 \in 1 .. m
    <2>1. PICK j \in 1 .. m : k = n + 1 + j
      <3>1. k - n - 1 \in 1 .. m /\ k = n + 1 + (k - n - 1) OBVIOUS
      <3> QED BY <3>1
    <2>2. ns[k] = Results(cs)[j] /\ j = k - n - 1 BY <1>4, <2>1
    <2>3. PICK c \in cs : ns[k] = Result(c) BY <1>7, <2>1
    <2>4. ns[k].role = "tool" BY <2>3, MessageFacts
    <2> QED BY <2>2, <2>3, <2>4
  <1>9. ASSUME NEW i \in Asking(ns) PROVE i \in Asking(ms) \/ i = n + 1
    <2>1. i \in 1 .. n + 1 + m /\ ns[i].role = "assistant" BY <1>4 DEF Asking
    <2>2. i \notin n + 2 .. n + 1 + m BY <1>8, <2>1
    <2>3. i \in 1 .. n \/ i = n + 1 BY <2>1, <2>2
    <2> QED BY <1>6, <2>3
  <1>10. ASSUME NEW i \in Asking(ns), NEW k \in DOMAIN ns, RightBehind(ns, i, k)
         PROVE  \/ /\ i \in Asking(ms) /\ k \in DOMAIN ms /\ RightBehind(ms, i, k)
                   /\ ns[i] = ms[i] /\ ns[k] = ms[k]
                \/ i = n + 1 /\ k \in n + 2 .. n + 1 + m
    <2>1. i < k /\ \A l \in i + 1 .. k : ns[l].role = "tool" BY <1>10 DEF RightBehind
    <2>2. k \in 1 .. n + 1 + m BY <1>4
    <2>3. CASE i = n + 1 BY <2>1, <2>2, <2>3
    <2>4. CASE i \in Asking(ms)
      <3>1. i \in 1 .. n BY <1>4, <2>4 DEF Asking
      <3>2. k \in 1 .. n
        <4>1. ASSUME k \notin 1 .. n PROVE FALSE
          <5>1. n + 1 \in i + 1 .. k BY <2>2, <3>1, <4>1
          <5> QED BY <5>1, <2>1, <1>4
        <4> QED BY <4>1
      <3> QED BY <1>4, <1>5, <1>10, <2>4, <3>1, <3>2
    <2> QED BY <1>9, <2>3, <2>4
  <1>11. ASSUME OwnResults(ms) PROVE OwnResults(ns)
    <2>1. ASSUME NEW i \in Asking(ns), NEW k \in DOMAIN ns, RightBehind(ns, i, k)
          PROVE  \E c \in ns[i].calls : ns[k] = Result(c)
      <3>1. CASE i = n + 1 /\ k \in n + 2 .. n + 1 + m BY <3>1, <1>4, <1>8
      <3>2. CASE /\ i \in Asking(ms) /\ k \in DOMAIN ms /\ RightBehind(ms, i, k)
                 /\ ns[i] = ms[i] /\ ns[k] = ms[k]
        BY <3>2, <1>11 DEF OwnResults
      <3> QED BY <1>10, <2>1, <3>1, <3>2
    <2> QED BY <2>1 DEF OwnResults
  <1>12. ASSUME Once(ms) PROVE Once(ns)
    <2>1. ASSUME NEW i \in Asking(ns), NEW k \in DOMAIN ns, NEW l \in DOMAIN ns,
                 RightBehind(ns, i, k), RightBehind(ns, i, l), ns[k] = ns[l]
          PROVE  k = l
      <3>1. CASE i = n + 1
        <4>1. ~(i \in Asking(ms)) BY <3>1, <1>4 DEF Asking
        <4>2. k \in n + 2 .. n + 1 + m /\ l \in n + 2 .. n + 1 + m BY <1>10, <2>1, <4>1
        <4>3. Results(cs)[k - n - 1] = Results(cs)[l - n - 1] BY <1>8, <2>1, <4>2
        <4>4. k - n - 1 = l - n - 1 BY <1>2, <1>3, <1>8, <4>2, <4>3, ResultsOf
        <4> QED BY <4>2, <4>4
      <3>2. CASE i # n + 1
        <4>1. /\ i \in Asking(ms) /\ k \in DOMAIN ms /\ RightBehind(ms, i, k) /\ ns[k] = ms[k]
              /\ l \in DOMAIN ms /\ RightBehind(ms, i, l) /\ ns[l] = ms[l]
          BY <1>10, <2>1, <3>2
        <4> QED BY <4>1, <1>12, <2>1 DEF Once
      <3> QED BY <3>1, <3>2
    <2> QED BY <2>1 DEF Once
  <1>13. ASSUME Placed(ms) PROVE Placed(ns)
    <2>1. ASSUME NEW k \in DOMAIN ns, ns[k].role = "tool"
          PROVE  \E i \in Asking(ns) : RightBehind(ns, i, k)
      <3>1. k \in 1 .. n + 1 + m BY <1>4
      <3>2. CASE k \in 1 .. n
        <4>1. PICK i \in Asking(ms) : RightBehind(ms, i, k)
          BY <1>4, <1>13, <2>1, <3>2 DEF Placed
        <4>2. i \in 1 .. n BY <1>4 DEF Asking
        <4> QED BY <1>5, <1>6, <3>2, <4>1, <4>2
      <3>3. CASE k \in n + 2 .. n + 1 + m
        <4>1. cs # {} BY <1>8, <3>3
        <4>2. n + 1 \in Asking(ns) BY <1>4, <4>1 DEF Asking
        <4>3. \A l \in n + 1 + 1 .. k : ns[l].role = "tool" BY <1>8, <3>3
        <4>4. RightBehind(ns, n + 1, k) BY <3>3, <4>3 DEF RightBehind
        <4> QED BY <4>2, <4>4
      <3>4. CASE k = n + 1 BY <3>4, <2>1, <1>4
      <3> QED BY <3>1, <3>2, <3>3, <3>4
    <2> QED BY <2>1 DEF Placed
  <1>14. \A c \in cs : \E j \in n + 2 .. n + 1 + m : ns[j] = Result(c)
    <2>1. ASSUME NEW c \in cs PROVE \E j \in n + 2 .. n + 1 + m : ns[j] = Result(c)
      <3>1. PICK j \in 1 .. m : Results(cs)[j] = Result(c) BY <1>2, <1>3, ResultsOf
      <3>2. n + 1 + j \in n + 2 .. n + 1 + m /\ ns[n + 1 + j] = Result(c) BY <1>4, <3>1
      <3> QED BY <3>2
    <2> QED BY <2>1
  <1> QED BY <1>1, <1>4, <1>8, <1>9, <1>11, <1>12, <1>13, <1>14

(* A message at the end. *)
LEMMA AppendSpeaks ==
    ASSUME NEW ms \in Seq(Message), NEW x \in Message, x.role # "tool"
    PROVE  /\ Append(ms, x) \in Seq(Message) /\ Speaks(Append(ms, x), ms, {})
           /\ Len(Append(ms, x)) = Len(ms) + 1 /\ Append(ms, x)[Len(ms) + 1] = x
  <1>1. PICK ns : ns = Append(ms, x) OBVIOUS
  <1>2. /\ ns \in Seq(Message) /\ Len(ns) = Len(ms) + 1 /\ ns[Len(ms) + 1] = x
        /\ \A k \in 1 .. Len(ms) : ns[k] = ms[k] /\ Len(ms) \in Nat
    BY <1>1
  <1>3. Cardinality({}) = 0 BY FS_EmptySet
  <1>4. Extends(ns, ms) BY <1>2 DEF Extends
  <1>5. Speaks(ns, ms, {}) BY <1>2, <1>3, <1>4 DEF Speaks
  <1> QED BY <1>1, <1>2, <1>5

(* An answer with the results that are known at once. *)
Answering(ms, cs, bad) == Append(ms, Assistant(cs)) \o Results(bad)

(* It is the answer's author who speaks. *)
LEMMA AnswerSpeaks ==
    ASSUME NEW ms \in Seq(Message), NEW cs \in SUBSET Calls, NEW bad \in SUBSET cs,
           NEW ns, ns = Answering(ms, cs, bad)
    PROVE  /\ ns \in Seq(Message) /\ Speaks(ns, ms, bad) /\ ns[Len(ms) + 1] = Assistant(cs)
           /\ Len(ns) = Len(ms) + 1 + Cardinality(bad) /\ Cardinality(bad) \in Nat
  <1>1. PICK x \in Message : x = Assistant(cs) BY MessageFacts
  <1>2. PICK a \in Seq(Message) : a = Append(ms, x)
    <2>1. Append(ms, x) \in Seq(Message) OBVIOUS
    <2> QED BY <2>1
  <1>3. Len(a) = Len(ms) + 1 /\ a[Len(ms) + 1] = x /\ \A k \in 1 .. Len(ms) : a[k] = ms[k] BY <1>2
  <1>4. bad \in SUBSET Calls OBVIOUS
  <1>5. PICK r \in Seq(Message) : r = Results(bad) /\ Len(r) = Cardinality(bad) BY <1>4, ResultsOf
  <1>6. ns = a \o r BY <1>1, <1>2, <1>5 DEF Answering
  <1>7. /\ a \o r \in Seq(Message) /\ Len(a \o r) = Len(a) + Len(r)
        /\ \A i \in 1 .. Len(a) : (a \o r)[i] = a[i]
        /\ \A i \in 1 .. Len(r) : (a \o r)[Len(a) + i] = r[i]
    BY RowFacts
  <1>8. Len(ms) \in Nat /\ Len(r) \in Nat OBVIOUS
  <1>9. /\ \A k \in 1 .. Len(ms) : ns[k] = ms[k]
        /\ ns[Len(ms) + 1] = x
        /\ \A j \in 1 .. Len(r) : ns[Len(ms) + 1 + j] = r[j]
        /\ Len(ns) = Len(ms) + 1 + Len(r)
    BY <1>3, <1>6, <1>7, <1>8
  <1>10. Extends(ns, ms) BY <1>8, <1>9 DEF Extends
  <1>11. x.role = "assistant" /\ x.calls = cs BY <1>1, MessageFacts
  <1>12. Speaks(ns, ms, bad) BY <1>4, <1>5, <1>9, <1>10, <1>11 DEF Speaks
  <1> QED BY <1>1, <1>5, <1>6, <1>7, <1>8, <1>9, <1>12

(* The result of a call of the last answer, that has none yet. *)
LEMMA RecordKeeps ==
    ASSUME NEW ms \in Seq(Message), NEW c \in Calls, NEW L \in Asking(ms),
           \A i \in Asking(ms) : i <= L,
           c \in ms[L].calls, \A k \in L + 1 .. Len(ms) : ms[k] # Result(c),
           OwnResults(ms), Once(ms), NEW ns, ns = Append(ms, Result(c))
    PROVE  /\ ns \in Seq(Message) /\ Extends(ns, ms) /\ Asking(ns) = Asking(ms)
           /\ Len(ns) = Len(ms) + 1 /\ ns[Len(ms) + 1] = Result(c)
           /\ OwnResults(ns) /\ Once(ns)
           /\ Placed(ms) /\ (\A k \in L + 1 .. Len(ms) : ms[k].role = "tool") => Placed(ns)
  <1>1. PICK n \in Nat : n = Len(ms) OBVIOUS
  <1>2. PICK x \in Message : x = Result(c) /\ x.role = "tool" BY MessageFacts
  <1>3. /\ ns \in Seq(Message) /\ Len(ns) = n + 1 /\ ns[n + 1] = x
        /\ \A k \in 1 .. n : ns[k] = ms[k]
    BY <1>1, <1>2
  <1>4. DOMAIN ns = 1 .. n + 1 /\ DOMAIN ms = 1 .. n BY <1>1, <1>3
  <1>5. Extends(ns, ms) BY <1>1, <1>3 DEF Extends
  <1>6. /\ \A i, k \in 1 .. n : RightBehind(ns, i, k) <=> RightBehind(ms, i, k)
        /\ \A i \in 1 .. n : i \in Asking(ns) <=> i \in Asking(ms)
    BY <1>1, <1>3, <1>5, LongerKeeps
  <1>7. Asking(ns) = Asking(ms)
    <2>1. n + 1 \notin Asking(ns) BY <1>2, <1>3 DEF Asking
    <2>2. \A i \in Asking(ns) : i \in 1 .. n BY <1>4, <2>1 DEF Asking
    <2>3. \A i \in Asking(ms) : i \in 1 .. n BY <1>4 DEF Asking
    <2> QED BY <1>6, <2>2, <2>3
  <1>8. L \in 1 .. n /\ ns[L] = ms[L] /\ ms[L].role = "assistant" BY <1>3, <1>4 DEF Asking
  <1>9. ASSUME NEW i \in Asking(ns), NEW k \in DOMAIN ns, RightBehind(ns, i, k)
        PROVE  \/ /\ i \in Asking(ms) /\ k \in DOMAIN ms /\ RightBehind(ms, i, k)
                  /\ ns[i] = ms[i] /\ ns[k] = ms[k]
               \/ i = L /\ k = n + 1
    <2>1. i < k /\ \A l \in i + 1 .. k : ns[l].role = "tool" BY <1>9 DEF RightBehind
    <2>2. i \in Asking(ms) /\ i \in 1 .. n /\ i <= L BY <1>4, <1>7 DEF Asking
    <2>3. CASE k \in 1 .. n BY <1>3, <1>4, <1>6, <1>9, <2>2, <2>3
    <2>4. CASE k = n + 1
      <3>1. ~(i < L)
        <4>1. ASSUME i < L PROVE FALSE
          <5>1. L \in i + 1 .. k BY <1>8, <2>2, <2>4, <4>1
          <5> QED BY <5>1, <2>1, <1>8
        <4> QED BY <4>1
      <3> QED BY <1>8, <2>2, <2>4, <3>1
    <2>5. k \in 1 .. n + 1 BY <1>4
    <2>6. k \in 1 .. n \/ k = n + 1 BY <2>5
    <2> QED BY <2>3, <2>4, <2>6, Zenon
  <1>10. OwnResults(ns)
    <2>1. ASSUME NEW i \in Asking(ns), NEW k \in DOMAIN ns, RightBehind(ns, i, k)
          PROVE  \E d \in ns[i].calls : ns[k] = Result(d)
      <3>1. CASE i = L /\ k = n + 1 BY <3>1, <1>2, <1>3, <1>8
      <3>2. CASE /\ i \in Asking(ms) /\ k \in DOMAIN ms /\ RightBehind(ms, i, k)
                 /\ ns[i] = ms[i] /\ ns[k] = ms[k]
        BY <3>2 DEF OwnResults
      <3> QED BY <1>9, <2>1, <3>1, <3>2
    <2> QED BY <2>1 DEF OwnResults
  <1>11. Once(ns)
    <2>1. ASSUME NEW i \in Asking(ns), NEW k \in DOMAIN ns, NEW l \in DOMAIN ns,
                 RightBehind(ns, i, k), RightBehind(ns, i, l), ns[k] = ns[l]
          PROVE  k = l
      <3>1. ASSUME NEW y \in DOMAIN ns, NEW z \in DOMAIN ns, ns[y] = ns[z],
                   RightBehind(ms, i, y), y \in DOMAIN ms, ns[y] = ms[y], i = L, z = n + 1
            PROVE  FALSE
        <4>1. y \in L + 1 .. n BY <1>4, <1>8, <3>1 DEF RightBehind
        <4> QED BY <4>1, <1>1, <1>2, <1>3, <3>1
      <3>2. \/ k \in DOMAIN ms /\ RightBehind(ms, i, k) /\ ns[k] = ms[k]
            \/ i = L /\ k = n + 1
        BY <1>9, <2>1
      <3>3. \/ l \in DOMAIN ms /\ RightBehind(ms, i, l) /\ ns[l] = ms[l]
            \/ i = L /\ l = n + 1
        BY <1>9, <2>1
      <3>4. i \in Asking(ms) BY <1>7
      <3>5. CASE /\ k \in DOMAIN ms /\ RightBehind(ms, i, k) /\ ns[k] = ms[k]
                 /\ l \in DOMAIN ms /\ RightBehind(ms, i, l) /\ ns[l] = ms[l]
        BY <3>4, <3>5, <2>1 DEF Once
      <3> QED BY <2>1, <3>1, <3>2, <3>3, <3>5
    <2> QED BY <2>1 DEF Once
  <1>12. ASSUME Placed(ms), \A k \in L + 1 .. Len(ms) : ms[k].role = "tool" PROVE Placed(ns)
    <2>1. ASSUME NEW k \in DOMAIN ns, ns[k].role = "tool"
          PROVE  \E i \in Asking(ns) : RightBehind(ns, i, k)
      <3>1. CASE k \in 1 .. n
        <4>1. PICK i \in Asking(ms) : RightBehind(ms, i, k)
          BY <1>3, <1>4, <1>12, <2>1, <3>1 DEF Placed
        <4>2. i \in 1 .. n BY <1>4 DEF Asking
        <4> QED BY <1>6, <3>1, <4>1, <4>2
      <3>2. CASE k = n + 1
        <4>1. \A l \in L + 1 .. k : ns[l].role = "tool" BY <1>1, <1>2, <1>3, <1>8, <1>12, <3>2
        <4>2. RightBehind(ns, L, k) BY <1>8, <3>2, <4>1 DEF RightBehind
        <4> QED BY <1>7, <4>2
      <3> QED BY <1>4, <3>1, <3>2
    <2> QED BY <2>1 DEF Placed
  <1> QED BY <1>1, <1>2, <1>3, <1>5, <1>7, <1>10, <1>11, <1>12

-----------------------------------------------------------------------------
(* What the model gets. *)

(* With each of its calls answered once, the results right behind an answer are as
   many as its calls.                                                        *)
LEMMA AnsweredInFull ==
    ASSUME NEW ms \in Seq(Message), NEW i \in Asking(ms), OwnResults(ms), Once(ms), FullAt(ms, i)
    PROVE  /\ ResultsEnd(ms, i) - i = Cardinality(ms[i].calls)
           /\ UNION {ms[k].calls : k \in i + 1 .. ResultsEnd(ms, i)} = ms[i].calls
  <1>1. i \in 1 .. Len(ms) /\ DOMAIN ms = 1 .. Len(ms)
    <2>1. i \in DOMAIN ms /\ DOMAIN ms = 1 .. Len(ms) BY DEF Asking
    <2> QED BY <2>1
  <1>2. PICK e \in i .. Len(ms) : e = ResultsEnd(ms, i) BY <1>1, EndOfResults
  <1>3. \A k : RightBehind(ms, i, k) <=> k \in i + 1 .. e BY <1>1, <1>2, EndOfResults
  <1>4. PICK cs : cs = ms[i].calls OBVIOUS
  <1>5. \A k \in i + 1 .. e : \E c \in cs : ms[k] = Result(c)
    BY <1>1, <1>3, <1>4 DEF OwnResults, RightBehind
  <1>6. \A k, l \in i + 1 .. e : ms[k] = ms[l] => k = l BY <1>1, <1>3 DEF Once, RightBehind
  <1>7. \A c \in cs : \E k \in i + 1 .. e : ms[k] = Result(c) BY <1>3, <1>4 DEF FullAt
  <1>8. PICK b : b = [k \in i + 1 .. e |-> CHOOSE c \in cs : ms[k] = Result(c)] OBVIOUS
  <1>9. \A k \in i + 1 .. e : b[k] \in cs /\ ms[k] = Result(b[k]) BY <1>5, <1>8
  <1>10. b \in [i + 1 .. e -> cs] BY <1>8, <1>9
  <1>11. \A k, l \in i + 1 .. e : b[k] = b[l] => k = l BY <1>6, <1>9
  <1>12. ASSUME NEW c \in cs PROVE \E k \in i + 1 .. e : b[k] = c
    <2>1. PICK k \in i + 1 .. e : ms[k] = Result(c) BY <1>7
    <2>2. Result(b[k]) = Result(c) BY <1>9, <2>1
    <2>3. b[k] = c BY <2>2, MessageFacts
    <2> QED BY <2>3
  <1>13. b \in Bijection(i + 1 .. e, cs)
    BY <1>10, <1>11, <1>12 DEF Bijection, Injection, Surjection, IsInjective
  <1>14. IsFiniteSet(i + 1 .. e) /\ Cardinality(i + 1 .. e) = e - i
    <2>1. PICK q \in Int : q = i + 1 BY <1>1
    <2>2. e \in Int /\ i \in Int /\ i <= e BY <1>1, <1>2
    <2>3. IsFiniteSet(q .. e) /\ Cardinality(q .. e) = IF q > e THEN 0 ELSE e - q + 1
      BY <2>2, FS_Interval
    <2>4. (IF q > e THEN 0 ELSE e - q + 1) = e - i BY <2>1, <2>2
    <2> QED BY <2>1, <2>3, <2>4
  <1>15. ExistsBijection(i + 1 .. e, cs) BY <1>13 DEF ExistsBijection
  <1>16. Cardinality(cs) = e - i BY <1>14, <1>15, FS_Bijection
  <1>17. \A k \in i + 1 .. e : ms[k].calls = {b[k]} BY <1>9, MessageFacts
  <1>18. UNION {ms[k].calls : k \in i + 1 .. e} = cs BY <1>9, <1>12, <1>17
  <1> QED BY <1>2, <1>4, <1>16, <1>18

(* The model gets the conversation from a message on: the first or a summary. *)
LEMMA ContextIs ==
    ASSUME NEW ms \in Seq(Message)
    PROVE  /\ Context(ms) \in Seq(Message)
           /\ \E d \in Nat : /\ Len(Context(ms)) + d = Len(ms)
                             /\ \A k \in 1 .. Len(Context(ms)) : Context(ms)[k] = ms[d + k]
                             /\ d # 0 => d + 1 \in 1 .. Len(ms) /\ ms[d + 1].role = "summary"
  <1>1. PICK marks : marks = {k \in DOMAIN ms : ms[k].role = "summary"} OBVIOUS
  <1>2. CASE marks = {}
    <2>1. Context(ms) = ms BY <1>1, <1>2 DEF Context
    <2>2. 0 \in Nat /\ Len(ms) + 0 = Len(ms) /\ \A k \in 1 .. Len(ms) : ms[k] = ms[0 + k] OBVIOUS
    <2> QED BY <2>1, <2>2
  <1>3. CASE marks # {}
    <2>1. PICK n \in Nat : n = Len(ms) OBVIOUS
    <2>2. marks \subseteq 0 .. n BY <1>1, <2>1
    <2>3. PICK s \in marks : s = Max(marks) BY <1>3, <2>1, <2>2, NatMax
    <2>4. s \in 1 .. n /\ ms[s].role = "summary" BY <1>1, <2>1, <2>3
    <2>5. Context(ms) = SubSeq(ms, s, Len(ms)) BY <1>1, <1>3, <2>3 DEF Context
    <2>6. PICK t : t = SubSeq(ms, s, Len(ms)) OBVIOUS
    <2>7. t \in Seq(Message) /\ Len(t) = n - s + 1 /\ \A k \in 1 .. n - s + 1 : t[k] = ms[s - 1 + k]
      <3>1. t = [k \in 1 .. n - s + 1 |-> ms[s - 1 + k]]
        <4>1. t = [k \in 1 .. n - s + 1 |-> ms[s + k - 1]] BY <2>1, <2>6, <2>4
        <4>2. \A k \in 1 .. n - s + 1 : s + k - 1 = s - 1 + k BY <2>4
        <4> QED BY <4>1, <4>2
      <3>2. \A k \in 1 .. n - s + 1 : s - 1 + k \in 1 .. n /\ ms[s - 1 + k] \in Message BY <2>1, <2>4
      <3>3. n - s + 1 \in Nat BY <2>1, <2>4
      <3> QED BY <3>1, <3>2, <3>3
    <2>8. s - 1 \in Nat /\ Len(t) + (s - 1) = Len(ms) BY <2>1, <2>4, <2>7
    <2>9. s - 1 + 1 = s BY <2>4
    <2> QED BY <2>1, <2>4, <2>5, <2>6, <2>7, <2>8, <2>9
  <1> QED BY <1>2, <1>3

(* What is in order in the conversation is in what the model gets of it. *)
LEMMA SentFacts ==
    ASSUME NEW ms \in Seq(Message), OwnResults(ms), Once(ms), Placed(ms),
           \A i \in Asking(ms) : FullAt(ms, i)
    PROVE  /\ OwnResults(Context(ms)) /\ Once(Context(ms)) /\ Placed(Context(ms))
           /\ \A i \in Asking(Context(ms)) : FullAt(Context(ms), i)
  <1>1. PICK t \in Seq(Message) : t = Context(ms) BY ContextIs
  <1>2. PICK d \in Nat : /\ Len(t) + d = Len(ms)
                         /\ \A k \in 1 .. Len(t) : t[k] = ms[d + k]
                         /\ d # 0 => d + 1 \in 1 .. Len(ms) /\ ms[d + 1].role = "summary"
    BY <1>1, ContextIs
  <1>3. /\ DOMAIN t = 1 .. Len(t) /\ DOMAIN ms = 1 .. Len(ms) /\ Len(t) \in Nat /\ Len(ms) \in Nat
    OBVIOUS
  <1>4. \A k \in 1 .. Len(t) : d + k \in 1 .. Len(ms) /\ d + k \in DOMAIN ms BY <1>2, <1>3
  <1>5. ASSUME NEW i \in 1 .. Len(t), NEW k \in 1 .. Len(t)
        PROVE  RightBehind(t, i, k) <=> RightBehind(ms, d + i, d + k)
    <2>1. i < k <=> d + i < d + k OBVIOUS
    <2>2. ASSUME NEW m \in d + i + 1 .. d + k
          PROVE  m - d \in i + 1 .. k /\ t[m - d] = ms[m]
      <3>1. m - d \in i + 1 .. k /\ m - d \in 1 .. Len(t) /\ d + (m - d) = m OBVIOUS
      <3> QED BY <3>1, <1>2
    <2>3. ASSUME NEW m \in i + 1 .. k
          PROVE  d + m \in d + i + 1 .. d + k /\ t[m] = ms[d + m]
      <3>1. d + m \in d + i + 1 .. d + k /\ m \in 1 .. Len(t) OBVIOUS
      <3> QED BY <3>1, <1>2
    <2>4. (\A m \in i + 1 .. k : t[m].role = "tool") <=> (\A m \in d + i + 1 .. d + k : ms[m].role = "tool")
      BY ZenonT(60), <2>2, <2>3
    <2> QED BY <1>3, <1>4, <2>1, <2>4 DEF RightBehind
  <1>6. ASSUME NEW i \in Asking(t)
        PROVE  i \in 1 .. Len(t) /\ d + i \in Asking(ms) /\ t[i] = ms[d + i]
    <2>1. i \in 1 .. Len(t) /\ t[i].role = "assistant" BY <1>3 DEF Asking
    <2> QED BY <1>2, <1>4, <2>1 DEF Asking
  <1>7. OwnResults(t)
    <2>1. ASSUME NEW i \in Asking(t), NEW k \in DOMAIN t, RightBehind(t, i, k)
          PROVE  \E c \in t[i].calls : t[k] = Result(c)
      <3>1. k \in 1 .. Len(t) /\ t[k] = ms[d + k] BY <1>2, <1>3
      <3>2. RightBehind(ms, d + i, d + k) BY <1>5, <1>6, <2>1, <3>1
      <3> QED BY <1>4, <1>6, <3>1, <3>2 DEF OwnResults
    <2> QED BY <2>1 DEF OwnResults
  <1>8. Once(t)
    <2>1. ASSUME NEW i \in Asking(t), NEW k \in DOMAIN t, NEW l \in DOMAIN t,
                 RightBehind(t, i, k), RightBehind(t, i, l), t[k] = t[l]
          PROVE  k = l
      <3>1. k \in 1 .. Len(t) /\ t[k] = ms[d + k] /\ l \in 1 .. Len(t) /\ t[l] = ms[d + l]
        BY <1>2, <1>3
      <3>2. RightBehind(ms, d + i, d + k) /\ RightBehind(ms, d + i, d + l)
        BY <1>5, <1>6, <2>1, <3>1
      <3>3. d + k = d + l BY <1>4, <1>6, <2>1, <3>1, <3>2 DEF Once
      <3> QED BY <3>1, <3>3
    <2> QED BY <2>1 DEF Once
  <1>9. ASSUME NEW k \in DOMAIN t, t[k].role = "tool"
        PROVE  \E i \in Asking(t) : RightBehind(t, i, k)
    <2>1. k \in 1 .. Len(t) /\ t[k] = ms[d + k] BY <1>2, <1>3
    <2>2. PICK j \in Asking(ms) : RightBehind(ms, j, d + k) BY <1>4, <1>9, <2>1 DEF Placed
    <2>3. j \in 1 .. Len(ms) /\ ms[j].role = "assistant" BY <1>3 DEF Asking
    <2>4. j < d + k /\ \A m \in j + 1 .. d + k : ms[m].role = "tool" BY <2>2 DEF RightBehind
    <2>5. d < j
      <3>1. ASSUME j <= d PROVE FALSE
        <4>1. d # 0 BY <2>3, <3>1
        <4>2. ms[d + 1].role = "summary" BY <1>2, <4>1
        <4>3. d + 1 \in j + 1 .. d + k BY <2>1, <2>3, <3>1
        <4> QED BY <4>2, <4>3, <2>4
      <3> QED BY <3>1, <2>3
    <2>6. PICK i \in 1 .. Len(t) : j = d + i
      <3>1. j - d \in 1 .. Len(t) /\ j = d + (j - d) BY <1>2, <1>3, <2>3, <2>5
      <3> QED BY <3>1
    <2>7. i \in Asking(t) BY <1>2, <1>3, <2>3, <2>6 DEF Asking
    <2>8. RightBehind(t, i, k) BY <1>5, <2>1, <2>2, <2>6
    <2> QED BY <2>7, <2>8
  <1>10. ASSUME NEW i \in Asking(t), NEW c \in t[i].calls
         PROVE  \E k \in DOMAIN t : RightBehind(t, i, k) /\ t[k] = Result(c)
    <2>1. FullAt(ms, d + i) /\ c \in ms[d + i].calls BY <1>6
    <2>2. PICK l \in DOMAIN ms : RightBehind(ms, d + i, l) /\ ms[l] = Result(c) BY <2>1 DEF FullAt
    <2>3. l \in 1 .. Len(ms) /\ d + i < l BY <1>3, <2>2 DEF RightBehind
    <2>4. PICK k \in 1 .. Len(t) : l = d + k
      <3>1. l - d \in 1 .. Len(t) /\ l = d + (l - d) BY <1>2, <1>3, <1>6, <2>3
      <3> QED BY <3>1
    <2>5. RightBehind(t, i, k) /\ t[k] = Result(c) BY <1>2, <1>5, <1>6, <2>2, <2>4
    <2> QED BY <1>3, <2>5
  <1> QED BY <1>1, <1>7, <1>8, <1>9, <1>10 DEF Placed, FullAt

-----------------------------------------------------------------------------
(* Answers that have their results. *)

(* The results right behind an answer are its own, each stands there once, and (while
   nothing was steered into a batch) no result stands anywhere else.         *)
Tidy(ms, mx) == OwnResults(ms) /\ Once(ms) /\ (~mx => Placed(ms))
(* Every call of the answer at i has its result. *)
Served(ms, mx, i) == AnsweredAt(ms, i) /\ (~mx => FullAt(ms, i))

(* The answer at L is the last one and its batch runs: the calls in run have no
   result yet, and, if it was not cancelled, all the others have theirs.     *)
LastAsk(ms, mx, L, run, all) ==
    /\ L \in Asking(ms) /\ \A i \in Asking(ms) : i <= L
    /\ \A i \in Asking(ms) \ {L} : Served(ms, mx, i)
    /\ \A c \in run : c \in ms[L].calls /\ \A k \in L + 1 .. Len(ms) : ms[k] # Result(c)
    /\ ~mx => \A k \in L + 1 .. Len(ms) : ms[k].role = "tool"
    /\ all => \A c \in ms[L].calls : c \in run \/ \E k \in L + 1 .. Len(ms) : ms[k] = Result(c)

(* Where somebody speaks, answers that were served are; so is one without calls, or
   whose calls are all answered at once.                                     *)
LEMMA SpeakingServes ==
    ASSUME NEW ms \in Seq(Message), NEW ns \in Seq(Message), NEW cs, Speaks(ns, ms, cs),
           NEW mx, NEW my, ~my => ~mx, Tidy(ms, mx)
    PROVE  /\ Tidy(ns, my)
           /\ \A i \in Asking(ms) : Served(ms, mx, i) => Served(ns, my, i)
           /\ Asking(ns) \subseteq Asking(ms) \cup {Len(ms) + 1}
           /\ ns[Len(ms) + 1].calls \subseteq cs => Served(ns, my, Len(ms) + 1)
  <1>1. Extends(ns, ms) BY DEF Speaks
  <1>2. /\ OwnResults(ms) => OwnResults(ns)
        /\ Once(ms) => Once(ns)
        /\ Placed(ms) => Placed(ns)
        /\ Asking(ns) \subseteq Asking(ms) \cup {Len(ms) + 1}
        /\ \A j \in Len(ms) + 2 .. Len(ns) : ns[j].role = "tool" /\ \E c \in cs : ns[j] = Result(c)
        /\ \A c \in cs : \E j \in Len(ms) + 2 .. Len(ns) : ns[j] = Result(c)
    BY SpeakingKeeps
  <1>3. Tidy(ns, my) BY <1>2 DEF Tidy
  <1>4. \A i \in Asking(ms) : /\ AnsweredAt(ms, i) => AnsweredAt(ns, i)
                              /\ FullAt(ms, i) => FullAt(ns, i)
    BY <1>1, LongerKeeps
  <1>5. \A i \in Asking(ms) : Served(ms, mx, i) => Served(ns, my, i) BY <1>4 DEF Served
  <1>6. ASSUME ns[Len(ms) + 1].calls \subseteq cs PROVE Served(ns, my, Len(ms) + 1)
    <2>1. PICK n \in Nat : n = Len(ms) OBVIOUS
    <2>2. ASSUME NEW c \in ns[n + 1].calls
          PROVE  \E j \in n + 2 .. Len(ns) : ns[j] = Result(c) /\ RightBehind(ns, n + 1, j)
      <3>1. PICK j \in n + 2 .. Len(ns) : ns[j] = Result(c) BY <1>2, <1>6, <2>1, <2>2
      <3>2. j \in DOMAIN ns /\ n + 1 < j BY <2>1
      <3>3. \A l \in n + 1 + 1 .. j : ns[l].role = "tool" BY <1>2, <2>1
      <3>4. RightBehind(ns, n + 1, j) BY <3>2, <3>3 DEF RightBehind
      <3> QED BY <3>1, <3>4
    <2>3. AnsweredAt(ns, n + 1)
      <3>1. \A j : j \in n + 2 .. Len(ns) => j \in n + 1 + 1 .. Len(ns) OBVIOUS
      <3> QED BY <2>2, <3>1 DEF AnsweredAt
    <2>4. FullAt(ns, n + 1)
      <3>1. \A j : j \in n + 2 .. Len(ns) => j \in DOMAIN ns OBVIOUS
      <3> QED BY <2>2, <3>1 DEF FullAt
    <2> QED BY <2>1, <2>3, <2>4 DEF Served
  <1> QED BY <1>2, <1>3, <1>5, <1>6

(* What stands behind an answer stands later. *)
LEMMA FullIsServed ==
    ASSUME NEW ms \in Seq(Message), NEW i \in Asking(ms), FullAt(ms, i), NEW mx
    PROVE  Served(ms, mx, i)
  <1>1. i \in 1 .. Len(ms) /\ DOMAIN ms = 1 .. Len(ms)
    <2>1. i \in DOMAIN ms /\ DOMAIN ms = 1 .. Len(ms) BY DEF Asking
    <2> QED BY <2>1
  <1>2. \A k : RightBehind(ms, i, k) => k \in i + 1 .. Len(ms) BY <1>1 DEF RightBehind
  <1> QED BY <1>2 DEF FullAt, AnsweredAt, Served

(* Filling in what is missing serves every answer. *)
LEMMA FillingServes ==
    ASSUME NEW ms \in Seq(Message), NEW mx, Tidy(ms, mx)
    PROVE  /\ Filled(ms) \in Seq(Message) /\ Tidy(Filled(ms), mx)
           /\ \A i \in Asking(Filled(ms)) : Served(Filled(ms), mx, i)
  <1>1. /\ Filled(ms) \in Seq(Message) /\ OwnResults(Filled(ms)) /\ Once(Filled(ms))
        /\ \A i \in Asking(Filled(ms)) : FullAt(Filled(ms), i)
        /\ Placed(ms) => Placed(Filled(ms))
    BY FilledFacts DEF Tidy
  <1>2. \A i \in Asking(Filled(ms)) : Served(Filled(ms), mx, i) BY <1>1, FullIsServed
  <1> QED BY <1>1, <1>2 DEF Tidy

(* When nothing runs any more, and nothing was cancelled, the batch is served. *)
LEMMA BatchServed ==
    ASSUME NEW ms \in Seq(Message), NEW mx, NEW L, LastAsk(ms, mx, L, {}, TRUE)
    PROVE  \A i \in Asking(ms) : Served(ms, mx, i)
  <1>1. /\ L \in Asking(ms) /\ \A i \in Asking(ms) \ {L} : Served(ms, mx, i)
        /\ ~mx => \A k \in L + 1 .. Len(ms) : ms[k].role = "tool"
        /\ \A c \in ms[L].calls : \E k \in L + 1 .. Len(ms) : ms[k] = Result(c)
    BY DEF LastAsk
  <1>2. L \in 1 .. Len(ms) /\ DOMAIN ms = 1 .. Len(ms)
    <2>1. L \in DOMAIN ms /\ DOMAIN ms = 1 .. Len(ms) BY <1>1 DEF Asking
    <2> QED BY <2>1
  <1>3. AnsweredAt(ms, L) BY <1>1 DEF AnsweredAt
  <1>4. ASSUME ~mx PROVE FullAt(ms, L)
    <2>1. ASSUME NEW k \in L + 1 .. Len(ms) PROVE k \in DOMAIN ms /\ RightBehind(ms, L, k)
      <3>1. k \in DOMAIN ms /\ L < k /\ \A m \in L + 1 .. k : ms[m].role = "tool"
        BY <1>1, <1>2, <1>4
      <3> QED BY <3>1 DEF RightBehind
    <2> QED BY <1>1, <2>1 DEF FullAt
  <1> QED BY <1>1, <1>3, <1>4 DEF Served

(* A message steered into a running batch. *)
LEMMA SteeringKeepsAsk ==
    ASSUME NEW ms \in Seq(Message), NEW ns \in Seq(Message), Speaks(ns, ms, {}),
           ns[Len(ms) + 1] = User, NEW mx, Tidy(ms, mx), NEW L, NEW run, NEW all,
           LastAsk(ms, mx, L, run, all)
    PROVE  LastAsk(ns, TRUE, L, run, all)
  <1>1. PICK n \in Nat : n = Len(ms) OBVIOUS
  <1>2. Extends(ns, ms) /\ Len(ns) = n + 1 /\ \A k \in 1 .. n : ns[k] = ms[k]
    <2>1. Cardinality({}) = 0 BY FS_EmptySet
    <2> QED BY <1>1, <2>1 DEF Speaks, Extends
  <1>3. L \in Asking(ms) /\ L \in 1 .. n
    <2>1. L \in Asking(ms) BY DEF LastAsk
    <2> QED BY <1>1, <2>1 DEF Asking
  <1>4. Asking(ns) = Asking(ms) /\ ns[L] = ms[L]
    <2>1. Asking(ns) \subseteq Asking(ms) \cup {n + 1} BY <1>1, SpeakingKeeps
    <2>2. n + 1 \notin Asking(ns) BY <1>1, MessageFacts DEF Asking
    <2>3. Asking(ms) \subseteq Asking(ns) BY <1>2, LongerKeeps
    <2> QED BY <1>2, <1>3, <2>1, <2>2, <2>3
  <1>5. \A i \in Asking(ms) : Served(ms, mx, i) => Served(ns, TRUE, i) BY SpeakingServes
  <1>6. \A c : User # Result(c)
    <2>1. ASSUME NEW c PROVE User # Result(c)
      <3>1. User.role # "tool" /\ Result(c).role = "tool" BY MessageFacts
      <3> QED BY <3>1
    <2> QED BY <2>1
  <1>7. \A k \in L + 1 .. Len(ns) : (k \in L + 1 .. n /\ ns[k] = ms[k]) \/ ns[k] = User
    BY <1>1, <1>2, <1>3
  <1>8. \A k \in L + 1 .. n : k \in L + 1 .. Len(ns) /\ ns[k] = ms[k] BY <1>2, <1>3
  <1>9. /\ \A i \in Asking(ms) : i <= L
        /\ \A i \in Asking(ms) \ {L} : Served(ms, mx, i)
        /\ \A c \in run : c \in ms[L].calls /\ \A k \in L + 1 .. n : ms[k] # Result(c)
        /\ all => \A c \in ms[L].calls : c \in run \/ \E k \in L + 1 .. n : ms[k] = Result(c)
    BY <1>1 DEF LastAsk
  <1>10. \A i \in Asking(ns) \ {L} : Served(ns, TRUE, i) BY <1>4, <1>5, <1>9
  <1>11. \A c \in run : c \in ns[L].calls /\ \A k \in L + 1 .. Len(ns) : ns[k] # Result(c)
    BY <1>4, <1>6, <1>7, <1>9
  <1>12. all => \A c \in ns[L].calls : c \in run \/ \E k \in L + 1 .. Len(ns) : ns[k] = Result(c)
    BY <1>4, <1>8, <1>9
  <1> QED BY <1>3, <1>4, <1>9, <1>10, <1>11, <1>12 DEF LastAsk

(* The result of a running call arrives. *)
LEMMA RecordServes ==
    ASSUME NEW ms \in Seq(Message), NEW c \in Calls, NEW mx, Tidy(ms, mx),
           NEW L, NEW run, NEW all, LastAsk(ms, mx, L, run, all), c \in run,
           NEW ns, ns = Append(ms, Result(c))
    PROVE  /\ ns \in Seq(Message) /\ Tidy(ns, mx) /\ LastAsk(ns, mx, L, run \ {c}, all)
           /\ Len(ns) = Len(ms) + 1 /\ ns[Len(ms) + 1] = Result(c)
  <1>1. PICK n \in Nat : n = Len(ms) OBVIOUS
  <1>2. /\ L \in Asking(ms) /\ \A i \in Asking(ms) : i <= L
        /\ \A i \in Asking(ms) \ {L} : Served(ms, mx, i)
        /\ \A d \in run : d \in ms[L].calls /\ \A k \in L + 1 .. n : ms[k] # Result(d)
        /\ ~mx => \A k \in L + 1 .. n : ms[k].role = "tool"
        /\ all => \A d \in ms[L].calls : d \in run \/ \E k \in L + 1 .. n : ms[k] = Result(d)
    BY <1>1 DEF LastAsk
  <1>3. /\ ns \in Seq(Message) /\ Extends(ns, ms) /\ Asking(ns) = Asking(ms)
        /\ Len(ns) = n + 1 /\ ns[n + 1] = Result(c)
        /\ OwnResults(ns) /\ Once(ns)
        /\ Placed(ms) /\ (\A k \in L + 1 .. n : ms[k].role = "tool") => Placed(ns)
    BY <1>1, <1>2, RecordKeeps DEF Tidy
  <1>4. Tidy(ns, mx) BY <1>2, <1>3 DEF Tidy
  <1>5. L \in 1 .. n /\ \A k \in 1 .. n : ns[k] = ms[k]
    <2>1. L \in 1 .. n BY <1>1, <1>2 DEF Asking
    <2> QED BY <1>1, <1>3, <2>1 DEF Extends
  <1>6. ns[L] = ms[L] BY <1>5
  <1>7. \A i \in Asking(ns) \ {L} : Served(ns, mx, i)
    <2>1. \A i \in Asking(ms) : /\ AnsweredAt(ms, i) => AnsweredAt(ns, i)
                                /\ FullAt(ms, i) => FullAt(ns, i)
      BY <1>3, LongerKeeps
    <2> QED BY <1>2, <1>3, <2>1 DEF Served
  <1>8. \A k \in L + 1 .. Len(ns) : (k \in L + 1 .. n /\ ns[k] = ms[k]) \/ ns[k] = Result(c)
    BY <1>1, <1>3, <1>5
  <1>9. \A k \in L + 1 .. n : k \in L + 1 .. Len(ns) /\ ns[k] = ms[k] BY <1>3, <1>5
  <1>10. \A d \in run \ {c} : d \in ns[L].calls /\ \A k \in L + 1 .. Len(ns) : ns[k] # Result(d)
    <2>1. ASSUME NEW d \in run \ {c}, NEW k \in L + 1 .. Len(ns) PROVE ns[k] # Result(d)
      <3>1. CASE ns[k] = Result(c) BY <3>1, MessageFacts
      <3>2. CASE k \in L + 1 .. n /\ ns[k] = ms[k] BY <3>2, <1>2
      <3> QED BY <1>8, <3>1, <3>2
    <2> QED BY <1>2, <1>6, <2>1
  <1>11. ~mx => \A k \in L + 1 .. Len(ns) : ns[k].role = "tool"
    <2>1. Result(c).role = "tool" BY MessageFacts
    <2> QED BY <1>2, <1>8, <2>1
  <1>12. ASSUME all, NEW d \in ns[L].calls
         PROVE  d \in run \ {c} \/ \E k \in L + 1 .. Len(ns) : ns[k] = Result(d)
    <2>1. CASE d = c
      <3>1. n + 1 \in L + 1 .. Len(ns) BY <1>3, <1>5
      <3> QED BY <2>1, <3>1, <1>3
    <2>2. CASE d # c BY <2>2, <1>2, <1>6, <1>9, <1>12
    <2> QED BY <2>1, <2>2
  <1>13. LastAsk(ns, mx, L, run \ {c}, all)
    BY <1>2, <1>3, <1>7, <1>10, <1>11, <1>12 DEF LastAsk
  <1> QED BY <1>1, <1>3, <1>4, <1>13

(* The model has called tools: its answer is the last, and its batch runs. *)
LEMMA AnswerAsks ==
    ASSUME NEW ms \in Seq(Message), NEW ns \in Seq(Message), NEW bad, Speaks(ns, ms, bad),
           NEW mx, Tidy(ms, mx), \A i \in Asking(ms) : Served(ms, mx, i),
           ns[Len(ms) + 1].role = "assistant", NEW run, run = ns[Len(ms) + 1].calls \ bad
    PROVE  LastAsk(ns, mx, Len(ms) + 1, run, TRUE)
  <1>1. PICK n \in Nat : n = Len(ms) OBVIOUS
  <1>2. PICK L \in Nat : L = n + 1 OBVIOUS
  <1>3. /\ Asking(ns) \subseteq Asking(ms) \cup {L}
        /\ \A j \in n + 2 .. Len(ns) : ns[j].role = "tool" /\ \E c \in bad : ns[j] = Result(c)
        /\ \A c \in bad : \E j \in n + 2 .. Len(ns) : ns[j] = Result(c)
    BY <1>1, <1>2, SpeakingKeeps
  <1>4. \A i \in Asking(ms) : Served(ms, mx, i) => Served(ns, mx, i) BY SpeakingServes
  <1>5. \A i \in Asking(ms) : i \in 1 .. n BY <1>1 DEF Asking
  <1>6. L \in Asking(ns)
    <2>1. Cardinality(bad) \in Nat BY ResultsOf DEF Speaks
    <2>2. L \in 1 .. Len(ns) BY <1>1, <1>2, <2>1 DEF Speaks
    <2> QED BY <1>1, <1>2, <2>2 DEF Asking
  <1>7. L + 1 .. Len(ns) = n + 2 .. Len(ns) BY <1>2
  <1>8. \A i \in Asking(ns) : i <= L
    <2>1. \A i \in 1 .. n : i <= L BY <1>2
    <2>2. L <= L BY <1>2
    <2> QED BY <1>3, <1>5, <2>1, <2>2
  <1>9. \A i \in Asking(ns) \ {L} : Served(ns, mx, i) BY <1>3, <1>4
  <1>10. ASSUME NEW c \in run
         PROVE  c \in ns[L].calls /\ \A k \in L + 1 .. Len(ns) : ns[k] # Result(c)
    <2>1. c \in ns[L].calls /\ c \notin bad BY <1>1, <1>2
    <2>2. ASSUME NEW k \in n + 2 .. Len(ns) PROVE ns[k] # Result(c)
      <3>1. PICK d \in bad : ns[k] = Result(d) BY <1>3
      <3> QED BY <2>1, <3>1, MessageFacts
    <2> QED BY <1>7, <2>1, <2>2
  <1>11. \A k \in L + 1 .. Len(ns) : ns[k].role = "tool" BY <1>3, <1>7
  <1>12. \A c \in ns[L].calls : c \in run \/ \E k \in L + 1 .. Len(ns) : ns[k] = Result(c)
    BY <1>1, <1>2, <1>3, <1>7
  <1>13. LastAsk(ns, mx, L, run, TRUE)
    BY <1>6, <1>8, <1>9, <1>10, <1>11, <1>12 DEF LastAsk
  <1> QED BY <1>1, <1>2, <1>13

-----------------------------------------------------------------------------
(* The invariant of the conversation, and its steps. *)

(* Where the answers before are all served. *)
Active == {"before", "compact", "recompact", "call", "model", "saving", "hooks"}
InBatch == {"batch", "cancelling"}

(* The conversation is tidy, and served wherever the model may be called next.  *)
Sound == ~abandoned =>
    /\ Tidy(messages, mixed)
    /\ pc \in Active => \A i \in Asking(messages) : Served(messages, mixed, i)

(* A batch belongs to the last answer, and is not one that was dropped. *)
Asked == pc \in InBatch =>
    ~loose /\ (~abandoned => \E L : LastAsk(messages, mixed, L, Running, pc = "batch"))

(* The last message on the way to the end of a turn. *)
Finishing ==
    /\ answered => pc \in {"final", "idle"}
    /\ ~abandoned /\ ~steered =>
          /\ pc = "batch" => Running # {} \/ Last(messages).role = "tool"
          /\ pc = "saving" => Last(messages).role = "tool" \/ Last(messages) = Assistant({})
          /\ pc = "hooks" \/ answered => Last(messages) = Assistant({})

(* With IInv and TInv it is inductive. *)
CInv == messages \in Seq(Message) /\ Sound /\ Asked /\ Finishing

-----------------------------------------------------------------------------
(* The conversation stays as it is. *)
LEMMA QuietSteps ==
    ASSUME CInv, UNCHANGED <<messages, mixed>>, ~abandoned' => ~abandoned,
           pc' \in Active => pc \in Active
    PROVE  messages' \in Seq(Message) /\ Sound'
  <1>1. messages' \in Seq(Message) BY DEF CInv
  <1>2. Sound' BY DEF CInv, Sound
  <1> QED BY <1>1, <1>2

(* A message is added that is not a tool's. *)
LEMMA SpeakingSteps ==
    ASSUME CInv, NEW x \in Message, x.role # "tool", messages' = Append(messages, x),
           ~abandoned' => ~abandoned, ~mixed' => ~mixed,
           pc' \in Active => pc \in Active /\ x.calls = {}
    PROVE  messages' \in Seq(Message) /\ Sound' /\ Last(messages') = x
  <1>1. PICK ms \in Seq(Message) : ms = messages BY DEF CInv
  <1>2. PICK ns : ns = messages' OBVIOUS
  <1>3. /\ ns \in Seq(Message) /\ Speaks(ns, ms, {})
        /\ Len(ns) = Len(ms) + 1 /\ ns[Len(ms) + 1] = x
    BY <1>1, <1>2, AppendSpeaks
  <1>4. Last(messages') = x BY <1>2, <1>3 DEF Last
  <1>5. ASSUME ~abandoned' PROVE Tidy(messages', mixed')
    <2>1. Tidy(ms, mixed) BY <1>1, <1>5 DEF CInv, Sound
    <2>2. Tidy(ns, mixed') BY <1>3, <2>1, SpeakingServes
    <2> QED BY <1>2, <2>2
  <1>6. ASSUME ~abandoned', pc' \in Active, NEW i \in Asking(messages')
        PROVE  Served(messages', mixed', i)
    <2>1. Tidy(ms, mixed) /\ \A j \in Asking(ms) : Served(ms, mixed, j)
      BY <1>1, <1>6 DEF CInv, Sound
    <2>2. /\ \A j \in Asking(ms) : Served(ms, mixed, j) => Served(ns, mixed', j)
          /\ Asking(ns) \subseteq Asking(ms) \cup {Len(ms) + 1}
          /\ ns[Len(ms) + 1].calls \subseteq {} => Served(ns, mixed', Len(ms) + 1)
      BY <1>3, <2>1, SpeakingServes
    <2>3. ns[Len(ms) + 1].calls \subseteq {} BY <1>3, <1>6
    <2> QED BY <1>2, <1>6, <2>1, <2>2, <2>3
  <1>7. Sound' BY <1>5, <1>6 DEF Sound
  <1> QED BY <1>2, <1>3, <1>4, <1>7

(* What is missing is filled in. *)
LEMMA FillingSteps ==
    ASSUME CInv, messages' = Filled(messages), ~abandoned' => ~abandoned, mixed' = mixed
    PROVE  messages' \in Seq(Message) /\ Sound'
  <1>1. PICK ms \in Seq(Message) : ms = messages BY DEF CInv
  <1>2. messages' = Filled(ms) BY <1>1
  <1>3. messages' \in Seq(Message) BY <1>2, FilledFacts
  <1>4. ASSUME ~abandoned'
        PROVE  Tidy(messages', mixed') /\ \A i \in Asking(messages') : Served(messages', mixed', i)
    <2>1. Tidy(ms, mixed) BY <1>1, <1>4 DEF CInv, Sound
    <2>2. Tidy(Filled(ms), mixed) /\ \A i \in Asking(Filled(ms)) : Served(Filled(ms), mixed, i)
      BY <2>1, FillingServes
    <2> QED BY <1>2, <2>2
  <1> QED BY <1>3, <1>4 DEF Sound

(* A task moves on. *)
LEMMA TaskKeepsConversation ==
    ASSUME CInv, Calling, NEW c \in Calls, call[c].at \in Open, NEW at \in Open, Step(c, at),
           UNCHANGED <<messages, pc, loose, answered, steered, mixed, abandoned>>
    PROVE  CInv'
  <1>1. \A d \in Calls : call'[d].at \in Open <=> call[d].at \in Open BY DEF Step, Calling
  <1>2. Running' = Running BY <1>1 DEF Running
  <1>3. messages' \in Seq(Message) /\ Sound' BY QuietSteps DEF CInv
  <1>4. Asked' BY <1>2 DEF CInv, Asked
  <1>5. Finishing' BY <1>2 DEF CInv, Finishing
  <1> QED BY <1>3, <1>4, <1>5 DEF CInv

(* A task ends with its result: in a batch it is one the last answer waits for. *)
LEMMA RecordKeepsConversation ==
    ASSUME CInv, IInv, NEW c \in Calls, call[c].at \in Open, Record(c),
           UNCHANGED <<pc, loose, answered, steered, mixed, abandoned>>
    PROVE  CInv'
  <1>1. PICK ms \in Seq(Message) : ms = messages BY DEF CInv
  <1>2. PICK ns : ns = messages' OBVIOUS
  <1>3. ns = Append(ms, Result(c)) BY <1>1, <1>2 DEF Record
  <1>4. ns \in Seq(Message)
    <2>1. PICK x \in Message : x = Result(c) BY MessageFacts
    <2>2. Append(ms, x) \in Seq(Message) OBVIOUS
    <2> QED BY <1>3, <2>1, <2>2
  <1>5. Running' = Running \ {c}
    <2>1. /\ call'[c].at = "done" /\ \A d \in Calls \ {c} : call'[d] = call[d]
      BY DEF Record, Done, IInv, Calling
    <2>2. "done" \notin Open BY DEF Open
    <2> QED BY <2>1, <2>2 DEF Running
  <1>6. CASE abandoned
    <2>1. Sound' BY <1>6 DEF Sound
    <2>2. Asked' BY <1>6 DEF CInv, Asked
    <2>3. Finishing' BY <1>6 DEF CInv, Finishing
    <2> QED BY <1>2, <1>4, <2>1, <2>2, <2>3 DEF CInv
  <1>7. CASE ~abandoned
    <2>1. c \in Running BY DEF Running
    <2>2. pc \in InBatch BY <1>7, <2>1 DEF IInv, Batching, InBatch
    <2>3. Tidy(ms, mixed) BY <1>1, <1>7 DEF CInv, Sound
    <2>4. PICK L : LastAsk(ms, mixed, L, Running, pc = "batch")
      BY <1>1, <1>7, <2>2 DEF CInv, Asked
    <2>5. /\ Tidy(ns, mixed) /\ LastAsk(ns, mixed, L, Running \ {c}, pc = "batch")
          /\ Len(ns) = Len(ms) + 1 /\ ns[Len(ms) + 1] = Result(c)
      <3>1. PICK all : all = (pc = "batch") OBVIOUS
      <3>2. PICK run : run = Running OBVIOUS
      <3>3. LastAsk(ms, mixed, L, run, all) /\ c \in run BY <2>1, <2>4, <3>1, <3>2
      <3>4. /\ Tidy(ns, mixed) /\ LastAsk(ns, mixed, L, run \ {c}, all)
            /\ Len(ns) = Len(ms) + 1 /\ ns[Len(ms) + 1] = Result(c)
        BY <1>3, <2>3, <3>3, RecordServes
      <3> QED BY <3>1, <3>2, <3>4
    <2>6. pc \notin Active /\ pc \notin {"final", "idle", "saving", "hooks"}
      BY <2>2 DEF InBatch, Active
    <2>7. Sound' BY <1>2, <2>5, <2>6 DEF Sound
    <2>8. Asked'
      <3>1. ~loose BY <2>2 DEF CInv, Asked
      <3> QED BY <1>2, <1>5, <2>5, <3>1 DEF Asked
    <2>9. Finishing'
      <3>1. ~answered BY <2>6 DEF CInv, Finishing
      <3>2. Last(messages').role = "tool" BY <1>2, <2>5, MessageFacts DEF Last
      <3> QED BY <2>6, <3>1, <3>2 DEF Finishing
    <2> QED BY <1>2, <1>4, <2>7, <2>8, <2>9 DEF CInv
  <1> QED BY <1>6, <1>7

(* A conversation begins empty. *)
LEMMA InitConversation == Init => CInv
  <1> SUFFICES ASSUME Init PROVE CInv OBVIOUS
  <1>1. messages = <<>> BY DEF Init
  <1>2. PICK ms \in Seq(Message) : ms = messages /\ Len(ms) = 0
    <2>1. <<>> \in Seq(Message) /\ Len(<<>>) = 0 OBVIOUS
    <2> QED BY <1>1, <2>1
  <1>3. DOMAIN ms = {}
    <2>1. DOMAIN ms = 1 .. 0 BY <1>2
    <2> QED BY <2>1
  <1>4. Asking(ms) = {} BY <1>3 DEF Asking
  <1>5. Tidy(ms, mixed) BY <1>3, <1>4 DEF Tidy, OwnResults, Once, Placed
  <1>6. Sound BY <1>2, <1>4, <1>5 DEF Sound
  <1>7. pc = "idle" /\ ~answered BY DEF Init
  <1>8. Asked /\ Finishing BY <1>7 DEF Asked, Finishing, InBatch
  <1> QED BY <1>2, <1>6, <1>8 DEF CInv

(* A turn starts on a served conversation. *)
LEMMA StartKeepsConversation == CInv /\ StartTurn => CInv'
  <1> SUFFICES ASSUME CInv, StartTurn PROVE CInv' OBVIOUS
  <1>1. /\ messages' = Append(Filled(messages), User) /\ pc' = "before" /\ ~answered'
        /\ UNCHANGED <<mixed, abandoned>>
    BY DEF StartTurn, history
  <1>2. PICK ms \in Seq(Message) : ms = messages BY DEF CInv
  <1>3. PICK fs \in Seq(Message) : fs = Filled(ms) BY FilledFacts
  <1>4. PICK ns : ns = messages' OBVIOUS
  <1>5. User \in Message /\ User.role # "tool" /\ User.calls = {} BY MessageFacts DEF User
  <1>6. /\ ns \in Seq(Message) /\ Speaks(ns, fs, {})
        /\ Len(ns) = Len(fs) + 1 /\ ns[Len(fs) + 1] = User
    BY <1>1, <1>2, <1>3, <1>4, <1>5, AppendSpeaks
  <1>7. ASSUME ~abandoned'
        PROVE  Tidy(ns, mixed') /\ \A i \in Asking(ns) : Served(ns, mixed', i)
    <2>1. Tidy(ms, mixed) BY <1>1, <1>2, <1>7 DEF CInv, Sound
    <2>2. Tidy(fs, mixed) /\ \A i \in Asking(fs) : Served(fs, mixed, i) BY <1>3, <2>1, FillingServes
    <2>3. /\ Tidy(ns, mixed)
          /\ \A i \in Asking(fs) : Served(fs, mixed, i) => Served(ns, mixed, i)
          /\ Asking(ns) \subseteq Asking(fs) \cup {Len(fs) + 1}
          /\ ns[Len(fs) + 1].calls \subseteq {} => Served(ns, mixed, Len(fs) + 1)
      BY <1>6, <2>2, SpeakingServes
    <2> QED BY <1>1, <1>5, <1>6, <2>2, <2>3
  <1>8. Sound' BY <1>4, <1>7 DEF Sound
  <1>9. Asked' /\ Finishing' BY <1>1 DEF Asked, Finishing, InBatch
  <1> QED BY <1>4, <1>6, <1>8, <1>9 DEF CInv

(* New calls are calls. *)
LEMMA NewCallsAre ==
    ASSUME Calling, NEW n \in Nat, count.calls + n <= MaxCalls
    PROVE  NewCalls(n) \in SUBSET Calls
  <1>1. count.calls \in Nat BY DEF Calling
  <1> QED BY <1>1, AgentAssumption DEF NewCalls, Calls

(* The model calls tools. *)
LEMMA AnswerKeepsConversation == CInv /\ IInv /\ AnswerCalls => CInv'
  <1> SUFFICES ASSUME CInv, IInv, AnswerCalls PROVE CInv' OBVIOUS
  <1>1. PICK n \in 1 .. MaxBatch :
             \E tool \in [NewCalls(n) -> Tools], bad \in SUBSET NewCalls(n) :
                LET good == NewCalls(n) \ bad IN
                /\ count.calls + n <= MaxCalls /\ count' = [count EXCEPT !.calls = @ + n]
                /\ messages' = Append(messages, Assistant(NewCalls(n))) \o Results(bad)
                /\ pc' = IF good = {} THEN "saving" ELSE IF loose THEN "final" ELSE "batch"
                /\ call' = IF pc' # "batch" THEN call
                           ELSE [c \in Calls |-> IF c \in good THEN [tool |-> tool[c], at |-> "new"]
                                                 ELSE call[c]]
    BY DEF AnswerCalls
  <1>2. PICK tool \in [NewCalls(n) -> Tools], bad \in SUBSET NewCalls(n) :
                LET good == NewCalls(n) \ bad IN
                /\ count.calls + n <= MaxCalls /\ count' = [count EXCEPT !.calls = @ + n]
                /\ messages' = Append(messages, Assistant(NewCalls(n))) \o Results(bad)
                /\ pc' = IF good = {} THEN "saving" ELSE IF loose THEN "final" ELSE "batch"
                /\ call' = IF pc' # "batch" THEN call
                           ELSE [c \in Calls |-> IF c \in good THEN [tool |-> tool[c], at |-> "new"]
                                                 ELSE call[c]]
    BY <1>1
  <1>3. pc = "model" /\ UNCHANGED <<loose, answered, steered, mixed, abandoned>>
    BY DEF AnswerCalls, history
  <1>4. PICK cs \in SUBSET Calls : cs = NewCalls(n)
    <2>1. n \in Nat /\ Calling BY AgentAssumption DEF IInv
    <2>2. count.calls + n <= MaxCalls BY <1>2
    <2> QED BY <2>1, <2>2, NewCallsAre
  <1>5. cs # {}
    <2>1. count.calls \in Nat /\ n \in Nat /\ n >= 1 BY AgentAssumption DEF IInv, Calling
    <2>2. count.calls + 1 \in NewCalls(n) BY <2>1 DEF NewCalls
    <2> QED BY <1>4, <2>2
  <1>6. PICK ms \in Seq(Message) : ms = messages BY DEF CInv
  <1>7. PICK ns : ns = messages' OBVIOUS
  <1>8. ns = Answering(ms, cs, bad) /\ bad \in SUBSET cs
    BY <1>2, <1>4, <1>6, <1>7 DEF Answering
  <1>9. /\ ns \in Seq(Message) /\ Speaks(ns, ms, bad) /\ ns[Len(ms) + 1] = Assistant(cs)
        /\ Len(ns) = Len(ms) + 1 + Cardinality(bad) /\ Cardinality(bad) \in Nat
    BY ZenonT(60), <1>8, AnswerSpeaks
  <1>10. ns[Len(ms) + 1].role = "assistant" /\ ns[Len(ms) + 1].calls = cs BY <1>9, MessageFacts
  <1>11. ~answered BY <1>3 DEF CInv, Finishing
  <1>12. /\ pc' \in {"saving", "final", "batch"}
         /\ pc' = "saving" => cs \ bad = {}
         /\ pc' = "batch" => ~loose /\ cs \ bad # {}
    BY <1>2, <1>4
  <1>13. ASSUME ~abandoned' PROVE Tidy(ms, mixed) /\ \A i \in Asking(ms) : Served(ms, mixed, i)
    <2>1. ~abandoned /\ pc \in Active BY <1>3, <1>13 DEF Active
    <2> QED BY <1>6, <2>1 DEF CInv, Sound
  <1>14. Sound'
    <2>1. ASSUME ~abandoned' PROVE Tidy(ns, mixed)
      <3>1. Tidy(ms, mixed) BY <1>13, <2>1
      <3> QED BY <1>9, <3>1, SpeakingServes
    <2>2. ASSUME ~abandoned', pc' \in Active PROVE \A i \in Asking(ns) : Served(ns, mixed, i)
      <3>1. cs \subseteq bad BY <1>12, <2>2 DEF Active
      <3>2. Tidy(ms, mixed) /\ \A i \in Asking(ms) : Served(ms, mixed, i) BY <1>13, <2>2
      <3>3. /\ \A i \in Asking(ms) : Served(ms, mixed, i) => Served(ns, mixed, i)
            /\ Asking(ns) \subseteq Asking(ms) \cup {Len(ms) + 1}
            /\ ns[Len(ms) + 1].calls \subseteq bad => Served(ns, mixed, Len(ms) + 1)
        BY <1>9, <3>2, SpeakingServes
      <3> QED BY <1>10, <3>1, <3>2, <3>3
    <2> QED BY <1>3, <1>7, <2>1, <2>2 DEF Sound
  <1>15. ASSUME ~abandoned', pc' = "batch" PROVE Running' = cs \ bad
    <2>1. Running = {} BY <1>3, <1>15 DEF IInv, Batching
    <2>2. call' = [c \in Calls |-> IF c \in cs \ bad THEN [tool |-> tool[c], at |-> "new"] ELSE call[c]]
      BY <1>2, <1>4, <1>15
    <2>3. \A c \in Calls : call'[c].at \in Open <=> c \in cs \ bad
      <3>1. ASSUME NEW c \in Calls, c \in cs \ bad PROVE call'[c].at \in Open
        BY <2>2, <3>1 DEF Open
      <3>2. ASSUME NEW c \in Calls, c \notin cs \ bad PROVE call'[c].at \notin Open
        <4>1. call'[c] = call[c] BY <2>2, <3>2
        <4> QED BY <2>1, <4>1 DEF Running
      <3> QED BY <3>1, <3>2
    <2> QED BY <2>3 DEF Running
  <1>16. Asked'
    <2>1. ASSUME ~abandoned', pc' = "batch" PROVE \E L : LastAsk(ns, mixed, L, Running', TRUE)
      <3>1. PICK run : run = cs \ bad OBVIOUS
      <3>2. LastAsk(ns, mixed, Len(ms) + 1, run, TRUE)
        BY <1>9, <1>10, <1>13, <2>1, <3>1, AnswerAsks
      <3> QED BY <1>15, <2>1, <3>1, <3>2
    <2> QED BY <1>3, <1>7, <1>12, <2>1 DEF Asked, InBatch
  <1>17. Finishing'
    <2>1. ASSUME pc' = "saving" PROVE Last(messages').role = "tool"
      <3>1. PICK c \in bad : TRUE BY <1>5, <1>12, <2>1
      <3>2. /\ \A j \in Len(ms) + 2 .. Len(ns) : ns[j].role = "tool"
            /\ \E j \in Len(ms) + 2 .. Len(ns) : ns[j] = Result(c)
        BY <1>9, <3>1, SpeakingKeeps
      <3>3. Len(ns) \in Len(ms) + 2 .. Len(ns)
        <4>1. Len(ms) \in Nat /\ Len(ns) \in Nat BY <1>9
        <4> QED BY <3>2, <4>1
      <3> QED BY <1>7, <3>2, <3>3 DEF Last
    <2> QED BY <1>3, <1>11, <1>12, <1>15, <2>1 DEF Finishing
  <1> QED BY <1>7, <1>9, <1>14, <1>16, <1>17 DEF CInv

(* Every step keeps the conversation in order: one case per action. *)
LEMMA StepConversation == CInv /\ IInv /\ [Next]_vars => CInv'
  <1> SUFFICES ASSUME CInv, IInv, [Next]_vars PROVE CInv' OBVIOUS
  <1> USE DEF history, batch, flags, loop
  <1>0. /\ Calling /\ Batching
        /\ User \in Message /\ Summary \in Message /\ User.role # "tool" /\ Summary.role # "tool"
        /\ User.calls = {} /\ Summary.calls = {}
        /\ answered => pc \in {"final", "idle"}
    BY MessageFacts DEF IInv, CInv, Finishing, User, Summary
  <1>1. ASSUME messages' \in Seq(Message) /\ Sound', ~answered',
               pc' \notin {"batch", "cancelling", "saving", "hooks"}
        PROVE  CInv'
    BY <1>1 DEF CInv, Asked, Finishing, InBatch
  <1>2. CASE StartTurn BY <1>2, StartKeepsConversation
  <1>3. CASE BeforeTurn
    <2>0. /\ pc = "before" /\ pc' \in {"final", "call", "compact"} /\ ~answered'
          /\ UNCHANGED <<abandoned, mixed>> /\ pc \in Active
      BY <1>0, <1>3 DEF BeforeTurn, Active
    <2>1. CASE messages' = messages
      <3>1. messages' \in Seq(Message) /\ Sound' BY <2>0, <2>1, QuietSteps
      <3> QED BY <1>1, <2>0, <3>1
    <2>2. CASE messages' = Append(messages, User)
      <3>1. messages' \in Seq(Message) /\ Sound' BY <1>0, <2>0, <2>2, SpeakingSteps
      <3> QED BY <1>1, <2>0, <3>1
    <2>3. CASE messages' = Filled(messages)
      <3>1. messages' \in Seq(Message) /\ Sound' BY <2>0, <2>3, FillingSteps
      <3> QED BY <1>1, <2>0, <3>1
    <2> QED BY <1>3, <2>1, <2>2, <2>3 DEF BeforeTurn
  <1>4. CASE Compacted
    <2>0. /\ pc' \in {"final", "call", "before"} /\ ~answered'
          /\ UNCHANGED <<abandoned, mixed>> /\ pc \in Active
      BY <1>0, <1>4 DEF Compacted, Active
    <2>1. CASE messages' = messages
      <3>1. messages' \in Seq(Message) /\ Sound' BY <2>0, <2>1, QuietSteps
      <3> QED BY <1>1, <2>0, <3>1
    <2>2. CASE messages' = Append(messages, Summary)
      <3>1. messages' \in Seq(Message) /\ Sound' BY <1>0, <2>0, <2>2, SpeakingSteps
      <3> QED BY <1>1, <2>0, <3>1
    <2> QED BY <1>4, <2>1, <2>2 DEF Compacted
  <1>5. CASE CallModel \/ TasksCancelled \/ InterruptOutside
    <2>0. /\ pc' \in {"model", "final", "idle"} /\ ~answered'
          /\ UNCHANGED <<messages, mixed>>
          /\ pc' \in Active => pc \in Active
      BY <1>0, <1>5 DEF CallModel, TasksCancelled, InterruptOutside, Active
    <2>1. ~abandoned' => ~abandoned
      <3>1. CASE CallModel BY <3>1 DEF CallModel
      <3>2. CASE TasksCancelled BY <3>2 DEF TasksCancelled
      <3>3. CASE InterruptOutside BY <3>3 DEF InterruptOutside
      <3> QED BY <1>5, <3>1, <3>2, <3>3
    <2>2. messages' \in Seq(Message) /\ Sound' BY <2>0, <2>1, QuietSteps
    <2> QED BY <1>1, <2>0, <2>2
  <1>6. CASE AnswerText
    <2>0. /\ pc' = "saving" /\ pc \in Active /\ ~answered' /\ UNCHANGED <<abandoned, mixed, steered>>
          /\ messages' = Append(messages, Assistant({}))
      BY <1>0, <1>6 DEF AnswerText, Active
    <2>1. PICK x \in Message : x = Assistant({}) /\ x.role # "tool" /\ x.calls = {}
      <3>1. Assistant({}) \in Message BY MessageFacts
      <3>2. Assistant({}).role # "tool" /\ Assistant({}).calls = {} BY DEF Assistant
      <3> QED BY <3>1, <3>2
    <2>2. messages' \in Seq(Message) /\ Sound' /\ Last(messages') = x
      BY <2>0, <2>1, SpeakingSteps
    <2>3. Asked' BY <2>0 DEF Asked, InBatch
    <2>4. Finishing' BY <2>0, <2>1, <2>2 DEF Finishing
    <2> QED BY <2>2, <2>3, <2>4 DEF CInv
  <1>7. CASE AnswerCalls BY <1>7, AnswerKeepsConversation
  <1>8. CASE ModelFails
    <2>0. /\ pc' = "final" /\ ~answered' /\ UNCHANGED <<abandoned, mixed>> /\ pc' \notin Active
      BY <1>0, <1>8 DEF ModelFails, Active
    <2>1. CASE messages' = messages
      <3>1. messages' \in Seq(Message) /\ Sound' BY <2>0, <2>1, QuietSteps
      <3> QED BY <1>1, <2>0, <3>1
    <2>2. ASSUME NEW cs \in SUBSET Calls, messages' = Append(messages, Assistant(cs)) PROVE CInv'
      <3>1. PICK x \in Message : x = Assistant(cs) /\ x.role # "tool"
        <4>1. Assistant(cs) \in Message BY MessageFacts
        <4>2. Assistant(cs).role # "tool" BY DEF Assistant
        <4> QED BY <4>1, <4>2
      <3>2. messages' \in Seq(Message) /\ Sound' BY <2>0, <2>2, <3>1, SpeakingSteps
      <3> QED BY <1>1, <2>0, <3>2
    <2>3. CASE messages' = Append(messages, Assistant(NewCalls(1))) /\ count.calls < MaxCalls
      <3>1. count.calls \in Nat BY <1>0 DEF Calling
      <3>2. count.calls + 1 <= MaxCalls BY <2>3, <3>1, AgentAssumption
      <3>3. 1 \in Nat OBVIOUS
      <3>4. NewCalls(1) \in SUBSET Calls BY <1>0, <3>2, <3>3, NewCallsAre
      <3> QED BY <2>2, <2>3, <3>4
    <2>4. {} \in SUBSET Calls OBVIOUS
    <2> QED BY <1>8, <2>1, <2>2, <2>3, <2>4 DEF ModelFails
  <1>9. CASE ContextTooLong
    <2>0. /\ pc' \in {"final", "recompact"} /\ ~answered' /\ UNCHANGED <<abandoned, mixed>>
          /\ pc \in Active
      BY <1>0, <1>9 DEF ContextTooLong, Active
    <2>1. CASE messages' = messages
      <3>1. messages' \in Seq(Message) /\ Sound' BY <2>0, <2>1, QuietSteps
      <3> QED BY <1>1, <2>0, <3>1
    <2>2. CASE messages' = Filled(messages)
      <3>1. messages' \in Seq(Message) /\ Sound' BY <2>0, <2>2, FillingSteps
      <3> QED BY <1>1, <2>0, <3>1
    <2> QED BY <1>9, <2>1, <2>2 DEF ContextTooLong
  <1>10. CASE BatchDone
    <2>0. /\ pc = "batch" /\ pc' = "saving" /\ Running = {} /\ ~answered'
          /\ UNCHANGED <<messages, abandoned, mixed, steered>>
      BY <1>0, <1>10 DEF BatchDone
    <2>1. PICK ms \in Seq(Message) : ms = messages BY DEF CInv
    <2>2. ASSUME ~abandoned'
          PROVE  Tidy(ms, mixed) /\ \A i \in Asking(ms) : Served(ms, mixed, i)
      <3>1. Tidy(ms, mixed) BY <2>0, <2>1, <2>2 DEF CInv, Sound
      <3>2. PICK L : LastAsk(ms, mixed, L, Running, pc = "batch")
        BY <2>0, <2>1, <2>2 DEF CInv, Asked, InBatch
      <3>3. PICK all : all = (pc = "batch") OBVIOUS
      <3>4. all = TRUE BY <2>0, <3>3
      <3>5. LastAsk(ms, mixed, L, {}, TRUE) BY <2>0, <3>2, <3>3, <3>4
      <3> QED BY <3>1, <3>5, BatchServed
    <2>3. Sound' BY <2>0, <2>1, <2>2 DEF Sound
    <2>4. Asked' BY <2>0 DEF Asked, InBatch
    <2>5. Finishing' BY <2>0 DEF CInv, Finishing
    <2> QED BY <2>0, <2>1, <2>3, <2>4, <2>5 DEF CInv
  <1>11. CASE AfterSave
    <2>0. /\ pc = "saving" /\ pc' \in {"before", "final", "hooks"} /\ ~answered'
          /\ UNCHANGED <<abandoned, mixed, steered, answered>> /\ pc \in Active
      BY <1>0, <1>11 DEF AfterSave, Active
    <2>1. CASE messages' = <<User>> /\ pc' = "before"
      <3>1. PICK ns \in Seq(Message) : ns = <<User>> /\ Len(ns) = 1 /\ ns[1] = User
        <4>1. PICK x \in Message : x = User BY <1>0
        <4>2. <<x>> \in Seq(Message) /\ Len(<<x>>) = 1 /\ <<x>>[1] = x OBVIOUS
        <4> QED BY <4>1, <4>2
      <3>2. \A k \in DOMAIN ns : ns[k].role = "user"
        <4>1. DOMAIN ns = 1 .. 1 BY <3>1
        <4>2. \A k \in DOMAIN ns : k = 1 BY <4>1
        <4> QED BY <3>1, <4>2 DEF User
      <3>3. Asking(ns) = {} /\ Placed(ns) BY <3>2 DEF Asking, Placed
      <3>4. Tidy(ns, mixed) BY <3>3 DEF Tidy, OwnResults, Once
      <3>5. Sound' BY <2>0, <2>1, <3>1, <3>3, <3>4 DEF Sound
      <3> QED BY <1>1, <2>0, <2>1, <3>1, <3>5
    <2>2. CASE messages' = Append(messages, User) /\ pc' # "hooks"
      <3>1. messages' \in Seq(Message) /\ Sound' BY <1>0, <2>0, <2>2, SpeakingSteps
      <3> QED BY <1>1, <2>0, <2>2, <3>1
    <2>3. CASE messages' = messages /\ (pc' = "hooks" => Last(messages).role # "tool")
      <3>1. messages' \in Seq(Message) /\ Sound' BY <2>0, <2>3, QuietSteps
      <3>2. Asked' BY <2>0 DEF Asked, InBatch
      <3>3. Finishing' BY <2>0, <2>3 DEF CInv, Finishing
      <3> QED BY <3>1, <3>2, <3>3 DEF CInv
    <2> QED BY <1>11, <2>1, <2>2, <2>3 DEF AfterSave
  <1>12. CASE PostHooks
    <2>0. /\ pc = "hooks" /\ pc' \in {"before", "final"}
          /\ UNCHANGED <<abandoned, mixed, steered>> /\ pc \in Active
      BY <1>12 DEF PostHooks, Active
    <2>1. CASE messages' = Append(messages, User) /\ pc' = "before" /\ answered' = answered
      <3>1. messages' \in Seq(Message) /\ Sound' BY <1>0, <2>0, <2>1, SpeakingSteps
      <3> QED BY <1>0, <1>1, <2>0, <2>1, <3>1
    <2>2. CASE messages' = messages /\ pc' = "final"
      <3>1. messages' \in Seq(Message) /\ Sound' BY <2>0, <2>2, QuietSteps
      <3>2. Asked' BY <2>2 DEF Asked, InBatch
      <3>3. Finishing' BY <2>0, <2>2 DEF CInv, Finishing
      <3> QED BY <3>1, <3>2, <3>3 DEF CInv
    <2> QED BY <1>12, <2>1, <2>2 DEF PostHooks
  <1>13. CASE Finish
    <2>0. /\ pc = "final" /\ pc' = "idle" /\ pc' \notin Active
          /\ UNCHANGED <<messages, answered, abandoned, mixed, steered>>
      BY <1>13 DEF Finish, Active
    <2>1. messages' \in Seq(Message) /\ Sound' BY <2>0, QuietSteps
    <2>2. Asked' BY <2>0 DEF Asked, InBatch
    <2>3. Finishing' BY <2>0 DEF CInv, Finishing
    <2> QED BY <2>1, <2>2, <2>3 DEF CInv
  <1>14. CASE Steer
    <2>0. /\ messages' = Append(messages, User) /\ steered'
          /\ ~mixed' => ~mixed
          /\ UNCHANGED <<pc, call, loose, answered, abandoned>>
          /\ pc \in InBatch => mixed'
      BY <1>14 DEF Steer, InBatch
    <2>1. messages' \in Seq(Message) /\ Sound' BY <1>0, <2>0, SpeakingSteps
    <2>2. Finishing' BY <1>0, <2>0 DEF Finishing
    <2>3. ASSUME pc \in InBatch, ~abandoned
          PROVE  \E L : LastAsk(messages', mixed', L, Running, pc = "batch")
      <3>1. PICK ms \in Seq(Message) : ms = messages BY DEF CInv
      <3>2. PICK ns : ns = messages' OBVIOUS
      <3>3. /\ ns \in Seq(Message) /\ Speaks(ns, ms, {}) /\ ns[Len(ms) + 1] = User
        <4>1. PICK x \in Message : x = User /\ x.role # "tool" BY <1>0
        <4>2. ns = Append(ms, x) BY <2>0, <3>1, <3>2, <4>1
        <4> QED BY <4>1, <4>2, AppendSpeaks
      <3>4. Tidy(ms, mixed) BY <2>3, <3>1 DEF CInv, Sound
      <3>5. PICK all : all = (pc = "batch") OBVIOUS
      <3>6. PICK L : LastAsk(ms, mixed, L, Running, all)
        BY <2>3, <3>1, <3>5 DEF CInv, Asked
      <3>7. LastAsk(ns, TRUE, L, Running, all) BY <3>3, <3>4, <3>6, SteeringKeepsAsk
      <3>8. LastAsk(ns, mixed', L, Running, all) BY <2>0, <2>3, <3>7 DEF LastAsk, Served
      <3> QED BY <3>2, <3>5, <3>8
    <2>4. Running' = Running BY <2>0 DEF Running
    <2>5. Asked'
      <3>1. ASSUME pc' \in InBatch PROVE ~loose' BY <2>0, <3>1 DEF CInv, Asked
      <3>2. ASSUME pc' \in InBatch, ~abandoned'
            PROVE  \E L : LastAsk(messages', mixed', L, Running', pc' = "batch")
        BY <2>0, <2>3, <2>4, <3>2
      <3> QED BY <3>1, <3>2 DEF Asked
    <2> QED BY <2>1, <2>2, <2>5 DEF CInv
  <1>15. CASE InterruptInside
    <2>0. /\ ~answered' /\ pc' \in {"cancelling", "final"} /\ pc' \notin Active
          /\ UNCHANGED <<messages, loose, abandoned, mixed, steered>>
      BY <1>0, <1>15 DEF InterruptInside, Active
    <2>1. messages' \in Seq(Message) /\ Sound' BY <2>0, QuietSteps
    <2>2. Finishing' BY <2>0 DEF Finishing
    <2>3. CASE pc = "batch"
      <3>1. CancelTasks /\ pc' = "cancelling" /\ UNCHANGED <<rules, always, count>>
        BY <1>15, <2>3 DEF InterruptInside
      <3>2. Running' \subseteq Running BY <3>1, Cancels
      <3>3. ASSUME ~abandoned
            PROVE  \E L : LastAsk(messages, mixed, L, Running', FALSE)
        <4>1. PICK L : LastAsk(messages, mixed, L, Running, pc = "batch")
          BY <2>3, <3>3 DEF CInv, Asked, InBatch
        <4>2. LastAsk(messages, mixed, L, Running', FALSE) BY <3>2, <4>1 DEF LastAsk
        <4> QED BY <4>2
      <3>4. Asked'
        <4>1. ~loose' BY <2>0, <2>3 DEF CInv, Asked, InBatch
        <4>2. (pc' = "batch") = FALSE BY <3>1
        <4>3. ~abandoned' => \E L : LastAsk(messages', mixed', L, Running', pc' = "batch")
          BY <2>0, <3>3, <4>2
        <4> QED BY <4>1, <4>3 DEF Asked
      <3> QED BY <2>1, <2>2, <3>4 DEF CInv
    <2>4. CASE pc # "batch"
      <3>1. pc' = "final" BY <1>15, <2>4 DEF InterruptInside
      <3> QED BY <1>1, <2>0, <2>1, <3>1
    <2> QED BY <2>3, <2>4
  <1>16. CASE CloseDropped
    <2>0. /\ loose /\ UNCHANGED <<pc, messages, answered, abandoned, mixed, steered>>
      BY <1>16 DEF CloseDropped
    <2>1. pc \notin InBatch BY <2>0 DEF CInv, Asked
    <2>2. messages' \in Seq(Message) /\ Sound' BY <2>0, QuietSteps
    <2>3. Asked' BY <2>0, <2>1 DEF Asked
    <2>4. Finishing' BY <2>0, <2>1 DEF CInv, Finishing, InBatch
    <2> QED BY <2>2, <2>3, <2>4 DEF CInv
  <1>17. ASSUME NEW c \in Calls,
                \/ PreTool(c) \/ Decide(c) \/ Approve(c) \/ Deny(c)
                \/ ToolSucceeds(c) \/ ToolFails(c) \/ FailureRecorded(c)
         PROVE  CInv'
    <2>0. /\ call[c].at \in Open /\ UNCHANGED <<pc, loose, answered, steered, mixed, abandoned>>
      BY <1>17 DEF PreTool, Decide, Approve, Deny, ToolSucceeds, ToolFails, FailureRecorded, Open
    <2>1. CASE Record(c) BY <2>0, <2>1, RecordKeepsConversation
    <2>2. ASSUME NEW at \in Open, Step(c, at), UNCHANGED messages PROVE CInv'
      BY <1>0, <2>0, <2>2, TaskKeepsConversation
    <2>3. {"run", "wait", "asked", "failing"} \subseteq Open BY DEF Open
    <2> QED
      BY <1>17, <2>1, <2>2, <2>3
         DEF PreTool, Decide, Approve, Deny, ToolSucceeds, ToolFails, FailureRecorded
  <1>18. CASE UNCHANGED vars
    BY <1>18 DEF vars, CInv, Sound, Asked, Finishing, Running
  <1> QED
    BY <1>2, <1>3, <1>4, <1>5, <1>6, <1>7, <1>8, <1>9, <1>10, <1>11, <1>12, <1>13, <1>14, <1>15,
       <1>16, <1>17, <1>18 DEF Next

-----------------------------------------------------------------------------
(* Types. *)

(* A task is that of a tool. *)
Tooled == \A c \in Calls : call[c].at \in Open => call[c].tool \in Tools

(* The values of the other variables. *)
Places == {"idle", "before", "compact", "recompact", "call", "model", "batch",
           "cancelling", "saving", "hooks", "final"}
Flags == {loose, reactive, clear, stop, answered, steered, mixed, abandoned} \subseteq BOOLEAN
Counts == count \in [turns : 0 .. MaxTurns, calls : 0 .. MaxCalls, extras : 0 .. MaxExtras]

TInv == pc \in Places /\ Flags /\ Counts /\ Tooled /\ rules \subseteq Tools /\ always \subseteq Tools

(* The session begins with such values. *)
LEMMA InitTypes == Init => TInv
  <1> SUFFICES ASSUME Init PROVE TInv OBVIOUS
  <1>1. Counts BY AgentAssumption DEF Init, Counts
  <1>2. Tooled BY DEF Init, Tooled, Open
  <1> QED BY <1>1, <1>2 DEF Init, TInv, Flags, Places

(* Extras are counted up to their bound. *)
LEMMA ExtraCounts == Counts /\ Extra => Counts'
  BY AgentAssumption DEF Counts, Extra

(* Every step keeps them: those of the turn, its batches, and the tasks. *)
LEMMA StepTypes == TInv /\ IInv /\ [Next]_vars => TInv'
  <1> SUFFICES ASSUME TInv, IInv, [Next]_vars PROVE TInv' OBVIOUS
  <1> USE DEF history, batch, flags, loop
  <1>0. pc \in Places /\ Flags /\ Counts /\ Tooled /\ rules \subseteq Tools /\ always \subseteq Tools /\ Calling
    BY DEF TInv, IInv
  <1>1. ASSUME UNCHANGED <<call, rules, always>>, pc' \in Places, Flags', Counts'
        PROVE  TInv'
    BY <1>0, <1>1 DEF TInv, Tooled
  <1>2. CASE StartTurn \/ BeforeTurn \/ Compacted \/ CallModel \/ AnswerText \/ ModelFails
    <2>1. UNCHANGED <<call, rules, always>> /\ pc' \in Places
      BY <1>0, <1>2 DEF StartTurn, BeforeTurn, Compacted, CallModel, AnswerText, ModelFails, Places
    <2>2. Flags'
      BY <1>0, <1>2 DEF StartTurn, BeforeTurn, Compacted, CallModel, AnswerText, ModelFails, Flags
    <2>3. Counts'
      <3>1. CASE StartTurn BY <1>0, <3>1, AgentAssumption DEF StartTurn, Counts
      <3>2. CASE BeforeTurn BY <1>0, <3>2, ExtraCounts DEF BeforeTurn, Counts
      <3>3. CASE ModelFails BY <1>0, <3>3, AgentAssumption DEF ModelFails, Counts
      <3>4. CASE Compacted \/ CallModel \/ AnswerText
        BY <1>0, <3>4 DEF Compacted, CallModel, AnswerText, Counts
      <3> QED BY <1>2, <3>1, <3>2, <3>3, <3>4
    <2> QED BY <1>1, <2>1, <2>2, <2>3
  <1>3. CASE ContextTooLong \/ BatchDone \/ AfterSave \/ PostHooks \/ Finish \/ Steer \/ TasksCancelled
    <2>1. UNCHANGED <<call, rules, always>> /\ pc' \in Places
      BY <1>0, <1>3
         DEF ContextTooLong, BatchDone, AfterSave, PostHooks, Finish, Steer, TasksCancelled, Places
    <2>2. Flags'
      BY <1>0, <1>3
         DEF ContextTooLong, BatchDone, AfterSave, PostHooks, Finish, Steer, TasksCancelled, Flags
    <2>3. Counts'
      <3>1. CASE Extra BY <1>0, <3>1, ExtraCounts
      <3>2. CASE UNCHANGED count BY <1>0, <3>2 DEF Counts
      <3> QED
        BY <1>3, <3>1, <3>2
           DEF ContextTooLong, BatchDone, AfterSave, PostHooks, Finish, Steer, TasksCancelled
    <2> QED BY <1>1, <2>1, <2>2, <2>3
  <1>4. CASE AnswerCalls
    <2>0. PICK n \in 1 .. MaxBatch : \E tool \in [NewCalls(n) -> Tools], bad \in SUBSET NewCalls(n) :
                LET good == NewCalls(n) \ bad IN
                /\ count.calls + n <= MaxCalls /\ count' = [count EXCEPT !.calls = @ + n]
                /\ pc' = IF good = {} THEN "saving" ELSE IF loose THEN "final" ELSE "batch"
                /\ call' = IF pc' # "batch" THEN call
                           ELSE [c \in Calls |-> IF c \in good THEN [tool |-> tool[c], at |-> "new"]
                                                 ELSE call[c]]
      BY ZenonT(60), <1>4 DEF AnswerCalls
    <2>1. PICK tool \in [NewCalls(n) -> Tools] : \E bad \in SUBSET NewCalls(n) :
                LET good == NewCalls(n) \ bad IN
                /\ count.calls + n <= MaxCalls /\ count' = [count EXCEPT !.calls = @ + n]
                /\ pc' = IF good = {} THEN "saving" ELSE IF loose THEN "final" ELSE "batch"
                /\ call' = IF pc' # "batch" THEN call
                           ELSE [c \in Calls |-> IF c \in good THEN [tool |-> tool[c], at |-> "new"]
                                                 ELSE call[c]]
      BY <2>0
    <2>2. pc' \in Places BY <2>1 DEF Places
    <2>3. Flags' /\ UNCHANGED <<rules, always>> BY <1>0, <1>4 DEF AnswerCalls, Flags
    <2>4. Counts' BY <1>0, <2>1, AgentAssumption DEF Counts
    <2>5. Tooled'
      <3>1. ASSUME NEW c \in Calls PROVE call'[c] = call[c] \/ call'[c].tool \in Tools
        BY <2>1
      <3> QED BY <1>0, <3>1 DEF Tooled
    <2> QED BY <1>0, <2>2, <2>3, <2>4, <2>5 DEF TInv
  <1>5. CASE InterruptInside \/ InterruptOutside \/ CloseDropped
    <2>1. UNCHANGED <<rules, always, count>> /\ pc' \in Places
      BY <1>0, <1>5 DEF InterruptInside, InterruptOutside, CloseDropped, Places
    <2>2. Flags'
      BY <1>0, <1>5 DEF InterruptInside, InterruptOutside, CloseDropped, Flags
    <2>3. CASE CancelTasks
      <3>1. ASSUME NEW c \in Calls, call'[c].at \in Open PROVE call'[c].tool \in Tools
        BY <1>0, <2>3, <3>1 DEF CancelTasks, Tooled, Calling, Open, Done
      <3> QED BY <1>0, <2>1, <2>2, <3>1 DEF TInv, Tooled, Counts
    <2>4. CASE UNCHANGED call BY <1>0, <1>1, <2>1, <2>2, <2>4 DEF Counts
    <2> QED BY <1>5, <2>3, <2>4 DEF InterruptInside, InterruptOutside, CloseDropped
  <1>6. ASSUME NEW c \in Calls,
               \/ PreTool(c) \/ Decide(c) \/ Approve(c) \/ Deny(c)
               \/ ToolSucceeds(c) \/ ToolFails(c) \/ FailureRecorded(c)
        PROVE  TInv'
    <2>1. pc' \in Places /\ call[c].at \in Open
      BY <1>0, <1>6
         DEF PreTool, Decide, Approve, Deny, ToolSucceeds, ToolFails, FailureRecorded, Open
    <2>2. Flags'
      <3>1. CASE PreTool(c) \/ Decide(c) \/ Approve(c) \/ ToolFails(c) \/ FailureRecorded(c)
        BY <1>0, <3>1 DEF PreTool, Decide, Approve, ToolFails, FailureRecorded, Flags
      <3>2. CASE Deny(c) BY <1>0, <3>2 DEF Deny, Flags
      <3>3. CASE ToolSucceeds(c) BY <1>0, <3>3 DEF ToolSucceeds, Flags
      <3> QED BY <1>6, <3>1, <3>2, <3>3
    <2>3. Counts'
      <3>1. CASE Extra BY <1>0, <3>1, ExtraCounts
      <3>2. CASE UNCHANGED count BY <1>0, <3>2 DEF Counts
      <3> QED
        BY <1>6, <3>1, <3>2
           DEF PreTool, Decide, Approve, Deny, ToolSucceeds, ToolFails, FailureRecorded
    <2>4. call[c].tool \in Tools BY <1>0, <2>1 DEF Tooled
    <2>5. rules' \subseteq Tools /\ always' \subseteq Tools
      BY <1>0, <1>6, <2>4
         DEF PreTool, Decide, Approve, Deny, ToolSucceeds, ToolFails, FailureRecorded
    <2>6. Tooled'
      <3>1. (\E at : Step(c, at)) \/ Record(c)
        BY <1>6 DEF PreTool, Decide, Approve, Deny, ToolSucceeds, ToolFails, FailureRecorded
      <3>2. CASE Record(c) BY <1>0, <3>2 DEF Record, Done, Tooled, Calling, Open
      <3>3. ASSUME NEW at, Step(c, at) PROVE Tooled'
        BY <1>0, <2>4, <3>3 DEF Step, Tooled, Calling
      <3> QED BY <3>1, <3>2, <3>3
    <2> QED BY <2>1, <2>2, <2>3, <2>5, <2>6 DEF TInv
  <1>7. CASE UNCHANGED vars
    BY <1>0, <1>1, <1>7 DEF vars, Flags, Counts
  <1> QED BY <1>2, <1>3, <1>4, <1>5, <1>6, <1>7 DEF Next

-----------------------------------------------------------------------------
(* The conversation keeps its order: the inductive invariant behind what follows. *)
THEOREM ConversationHolds == Spec => [](IInv /\ CInv /\ TInv)
  <1>1. Init => IInv /\ CInv /\ TInv BY InitIInv, InitConversation, InitTypes
  <1>2. (IInv /\ CInv /\ TInv) /\ [Next]_vars => (IInv /\ CInv /\ TInv)'
    BY StepIInv, StepConversation, StepTypes
  <1> QED BY <1>1, <1>2, PTL DEF Spec

(* The variables of the loop keep their types: every message is one, a task is that
   of a tool, the counters stay within their bounds.                         *)
THEOREM TypeCorrect == Spec => []TypeOK
  <1>1. IInv /\ CInv /\ TInv => TypeOK
    BY DEF IInv, CInv, TInv, TypeOK, Places, Flags, Counts, Calling, Locking
  <1> QED BY <1>1, ConversationHolds, PTL

(* When the model is called, and nothing was steered into a batch, every call has
   exactly one result among those right behind its answer, and no result stands
   behind anything else.                                                     *)
THEOREM ContextIsWellFormed == Spec => []ContextWellFormed
  <1>1. IInv /\ CInv /\ TInv => ContextWellFormed
    <2> SUFFICES ASSUME CInv, pc = "call", ~mixed, ~abandoned, NEW i \in DOMAIN Context(messages)
                 PROVE  /\ Context(messages)[i].role = "assistant" =>
                              /\ ResultsEnd(Context(messages), i) - i
                                     = Cardinality(Context(messages)[i].calls)
                              /\ UNION {Context(messages)[k].calls :
                                           k \in i + 1 .. ResultsEnd(Context(messages), i)}
                                     = Context(messages)[i].calls
                        /\ Context(messages)[i].role = "tool" =>
                              \E j \in 1 .. i - 1 :
                                 /\ Context(messages)[j].role = "assistant"
                                 /\ i <= ResultsEnd(Context(messages), j)
      BY DEF ContextWellFormed
    <2>1. PICK ms \in Seq(Message) : ms = messages BY DEF CInv
    <2>2. /\ OwnResults(ms) /\ Once(ms) /\ Placed(ms)
          /\ \A j \in Asking(ms) : FullAt(ms, j)
      BY <2>1 DEF CInv, Sound, Tidy, Served, Active
    <2>3. PICK t \in Seq(Message) : t = Context(ms) BY ContextIs
    <2>4. /\ OwnResults(t) /\ Once(t) /\ Placed(t)
          /\ \A j \in Asking(t) : FullAt(t, j)
      BY <2>2, <2>3, SentFacts
    <2>5. ASSUME t[i].role = "assistant"
          PROVE  /\ ResultsEnd(t, i) - i = Cardinality(t[i].calls)
                 /\ UNION {t[k].calls : k \in i + 1 .. ResultsEnd(t, i)} = t[i].calls
      <3>1. i \in Asking(t) BY <2>1, <2>3, <2>5 DEF Asking
      <3> QED BY <2>4, <3>1, AnsweredInFull
    <2>6. ASSUME t[i].role = "tool"
          PROVE  \E j \in 1 .. i - 1 : t[j].role = "assistant" /\ i <= ResultsEnd(t, j)
      <3>1. PICK j \in Asking(t) : RightBehind(t, j, i) BY <2>1, <2>3, <2>4, <2>6 DEF Placed
      <3>2. j \in 1 .. Len(t) /\ i \in 1 .. Len(t) /\ j < i /\ t[j].role = "assistant"
        <4>1. DOMAIN t = 1 .. Len(t) OBVIOUS
        <4> QED BY <3>1, <4>1 DEF Asking, RightBehind
      <3>3. j \in 1 .. i - 1 BY <3>2
      <3>4. PICK e \in j .. Len(t) : e = ResultsEnd(t, j) BY <3>2, EndOfResults
      <3>5. i \in j + 1 .. e BY <3>1, <3>2, <3>4, EndOfResults
      <3>6. i <= e BY <3>5
      <3> QED BY <3>2, <3>3, <3>4, <3>6
    <2> QED BY <2>1, <2>3, <2>5, <2>6
  <1> QED BY <1>1, ConversationHolds, PTL

(* When the model is called, every call in its context has a result after it, also
   when the user steered, rejected, interrupted or a tool failed before.     *)
THEOREM CallsAreAnswered == Spec => []EveryCallAnswered
  <1>1. IInv /\ CInv /\ TInv => EveryCallAnswered
    <2> SUFFICES ASSUME CInv, pc = "call", ~abandoned, NEW i \in DOMAIN Context(messages),
                        NEW c \in Context(messages)[i].calls,
                        Context(messages)[i].role = "assistant"
                 PROVE  \E k \in i + 1 .. Len(Context(messages)) : Context(messages)[k] = Result(c)
      BY DEF EveryCallAnswered
    <2>1. PICK ms \in Seq(Message) : ms = messages BY DEF CInv
    <2>2. \A j \in Asking(ms) : AnsweredAt(ms, j)
      BY <2>1 DEF CInv, Sound, Served, Active
    <2>3. PICK t \in Seq(Message) : t = Context(ms) BY ContextIs
    <2>4. PICK d \in Nat : Len(t) + d = Len(ms) /\ \A k \in 1 .. Len(t) : t[k] = ms[d + k]
      BY <2>3, ContextIs
    <2>5. i \in 1 .. Len(t) /\ t[i] = ms[d + i] BY <2>1, <2>3, <2>4
    <2>6. d + i \in 1 .. Len(ms) BY <2>4, <2>5
    <2>7. d + i \in Asking(ms) BY <2>1, <2>3, <2>5, <2>6 DEF Asking
    <2>8. PICK l \in d + i + 1 .. Len(ms) : ms[l] = Result(c)
      BY <2>1, <2>2, <2>3, <2>5, <2>7 DEF AnsweredAt
    <2>9. PICK k \in i + 1 .. Len(t) : l = d + k
      <3>1. l - d \in i + 1 .. Len(t) /\ l = d + (l - d) BY <2>4, <2>5, <2>8
      <3> QED BY <3>1
    <2>10. t[k] = Result(c)
      <3>1. k \in 1 .. Len(t) BY <2>5, <2>9
      <3> QED BY <3>1, <2>4, <2>8, <2>9
    <2> QED BY <2>1, <2>3, <2>9, <2>10
  <1> QED BY <1>1, ConversationHolds, PTL

(* A turn that ended as answered has an answer without calls as its last message. *)
THEOREM TurnsEndWithAnAnswer == Spec => []AnsweredTurnIsAnswered
  <1>1. IInv /\ CInv /\ TInv => AnsweredTurnIsAnswered
    BY DEF CInv, Finishing, AnsweredTurnIsAnswered
  <1> QED BY <1>1, ConversationHolds, PTL
=============================================================================
