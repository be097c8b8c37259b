------------------------- MODULE MessageQueueProofs -------------------------
(* Proofs about MessageQueue, for any items and however much is typed.

   What the proofs follow is the line: the prompts in the drain's hands, then what
   is in the queue.  A prompt that the drain takes, and one it gives back, leave
   the line as it is; everything else takes something out of it, or puts
   something at its end.  So its order is that of entering, and an item that is
   accepted is in the line once, or about to enter it, or the one the drain runs. *)
EXTENDS MessageQueue, SequenceFacts

Places == {"off", "ready", "top", "picker", "unhead", "consume", "flush", "flushing",
           "flushgate", "bashwidget", "unbash", "bash", "uncmd", "cmdturn", "cmdpicker",
           "gate", "inject", "tail", "turn"}

Drains == [pc : Places, pending : Seq(Pair),
           item : Items \cup {None}, widget : Items \cup {None}]

(* What the drain has in its hands, by where it is. *)
Fits(pc, pending, item) ==
    /\ pc \notin {"consume", "flush", "flushing", "gate", "inject", "tail", "uncmd",
                  "cmdturn", "cmdpicker"} => pending = <<>>
    /\ pc \in {"flushing", "gate"} => pending # <<>>
    /\ pc = "tail" => Len(pending) = 1
    /\ pc = "inject" => Len(pending) >= 2
    /\ IF pc \in {"flush", "flushing", "flushgate", "bashwidget", "unbash", "uncmd"}
       THEN item \in Bashes \cup Commands ELSE item = None

Handful(d) == d \in Drains /\ Fits(d.pc, d.pending, d.item)

Shape ==
    /\ Handful(drain)
    /\ enq["channel"].pc \notin {"prepare", "direct"}
    /\ \A e \in Enqueuers : enq[e].pc # "idle" => enq[e].item \in Items
    /\ enq["pump"].pc \in {"prepare", "direct"} => enq["pump"].item \in Prompts

Line == Names(drain.pending) \o items

Before(i, j) == \E m, n \in DOMAIN entered : m < n /\ entered[m] = i /\ entered[n] = j

Lined ==
    /\ IsInjective(Line)
    /\ \A j, k \in DOMAIN Line :
          j < k /\ Line[j] \in Prompts /\ Line[k] \in Prompts => Before(Line[j], Line[k])
    /\ \A s \in Range(said), x \in Range(Line) \cap Prompts : Before(s, x)
    /\ \A j, k \in DOMAIN said : j < k => Before(said[j], said[k])
    /\ Range(said) \cup (Range(Line) \cap Prompts) \subseteq Range(entered)

Accepted == {i \in Items : outcome[i] = "accepted"}

Placed ==
    /\ drain.item \notin Range(Line) /\ drain.item \notin Entering
    /\ Entering \cap Range(Line) = {}
    /\ Range(Line) \cup ({drain.item} \ {None}) \cup Entering = Accepted

(* A shell line that no command follows and no resumption does not start a drain
   when it is entered: so something is under way that will, or a job ended that
   overlooked it.                                                            *)
Started ==
    /\ bash = "drain" => drain.pc = "bash" \/ ~enabled
    /\ (/\ enabled /\ ~paused /\ ~overlooked
        /\ \E k \in DOMAIN items : items[k] \notin Prompts
        /\ \A i \in Items : outcome[i] # "lost")
       => \/ drain.pc # "off" \/ agent # "idle" \/ closing # {} \/ bash # "idle"
          \/ \E e \in Enqueuers : /\ enq[e].pc \in {"header", "mount"}
                                  /\ enq[e].item \in Commands \/ enq[e].resume

IInv == TypeOK /\ Shape /\ Lined /\ Placed /\ Started

-----------------------------------------------------------------------------
(* The line. *)

(* The names of what a drain has pending, in their order. *)
LEMMA NamesFacts ==
    ASSUME NEW p \in Seq(Pair)
    PROVE  /\ Names(p) \in Seq(Prompts) /\ Names(p) \in Seq(Items) /\ Len(Names(p)) = Len(p)
           /\ p = <<>> => Names(p) = <<>> /\ ItemsOf(p) = {}
           /\ p # <<>> => /\ Names(p) # <<>> /\ Head(Names(p)) = Head(p).item
                          /\ Head(p).item \in Prompts
                          /\ Names(Tail(p)) = Tail(Names(p))
           /\ \A x \in Pair : Names(Append(p, x)) = Append(Names(p), x.item)
           /\ ItemsOf(p) \subseteq Prompts
  <1>1. PICK q : q = Names(p) OBVIOUS
  <1>2. /\ q = [k \in 1 .. Len(p) |-> p[k].item] /\ Len(p) \in Nat
        /\ \A k \in 1 .. Len(p) : p[k] \in Pair /\ p[k].item \in Prompts
    <2>1. DOMAIN p = 1 .. Len(p) /\ Len(p) \in Nat OBVIOUS
    <2>2. q = [k \in 1 .. Len(p) |-> p[k].item] BY <1>1, <2>1 DEF Names
    <2>3. \A k \in 1 .. Len(p) : p[k] \in Pair OBVIOUS
    <2>4. \A x \in Pair : x.item \in Prompts BY DEF Pair
    <2> QED BY <2>1, <2>2, <2>3, <2>4
  <1>3. q \in Seq(Prompts) /\ q \in Seq(Items) /\ Len(q) = Len(p) BY <1>2 DEF Items
  <1>4. ASSUME p = <<>> PROVE q = <<>> /\ Range(q) = {}
    <2>1. q = <<>> BY <1>3, <1>4
    <2> QED BY <2>1 DEF Range
  <1>5. ASSUME p # <<>>
        PROVE  /\ q # <<>> /\ Head(q) = Head(p).item /\ Head(p).item \in Prompts
               /\ Names(Tail(p)) = Tail(q)
    <2>1. Len(p) >= 1 /\ q # <<>> BY <1>2, <1>3, <1>5
    <2>2. Head(q) = Head(p).item /\ Head(p).item \in Prompts BY <1>2, <2>1
    <2>3. PICK r : r = Tail(p) OBVIOUS
    <2>4. /\ Len(r) = Len(p) - 1 /\ r \in Seq(Pair)
          /\ \A k \in 1 .. Len(r) : r[k] = p[k + 1]
      BY <2>1, <2>3
    <2>5. Names(r) = [k \in 1 .. Len(p) - 1 |-> p[k + 1].item]
      <3>1. DOMAIN r = 1 .. Len(p) - 1 BY <2>4
      <3>2. Names(r) = [k \in 1 .. Len(p) - 1 |-> r[k].item] BY <3>1 DEF Names
      <3>3. \A k \in 1 .. Len(p) - 1 : r[k].item = p[k + 1].item BY <2>4
      <3> QED BY <3>2, <3>3
    <2>6. Tail(q) = [k \in 1 .. Len(p) - 1 |-> p[k + 1].item]
      <3>1. PICK s : s = Tail(q) OBVIOUS
      <3>2. s \in Seq(Prompts) /\ Len(s) = Len(p) - 1 BY <3>1, <1>3, <2>1
      <3>3. \A k \in 1 .. Len(p) - 1 : s[k] = q[k + 1] /\ k + 1 \in 1 .. Len(p)
        BY <3>1, <1>2, <1>3, <2>1
      <3>4. \A k \in 1 .. Len(p) - 1 : s[k] = p[k + 1].item BY <3>3, <1>2
      <3>5. s = [k \in 1 .. Len(p) - 1 |-> s[k]] BY <3>2
      <3> QED BY <3>1, <3>4, <3>5
    <2> QED BY <2>1, <2>2, <2>3, <2>5, <2>6
  <1>6. ASSUME NEW x \in Pair PROVE Names(Append(p, x)) = Append(q, x.item)
    <2>1. PICK r : r = Append(p, x) OBVIOUS
    <2>2. /\ r \in Seq(Pair) /\ Len(r) = Len(p) + 1 /\ r[Len(p) + 1] = x
          /\ \A k \in 1 .. Len(p) : r[k] = p[k]
      BY <2>1
    <2>3. PICK n : n = Names(r) OBVIOUS
    <2>4. n = [k \in 1 .. Len(p) + 1 |-> r[k].item] BY <2>2, <2>3 DEF Names
    <2>5. PICK a : a = Append(q, x.item) OBVIOUS
    <2>6. /\ a \in Seq(Prompts) /\ Len(a) = Len(p) + 1 /\ a[Len(p) + 1] = x.item
          /\ \A k \in 1 .. Len(p) : a[k] = p[k].item
      BY <1>2, <1>3, <2>5 DEF Pair
    <2>7. \A k \in 1 .. Len(p) + 1 : a[k] = r[k].item BY <1>2, <2>2, <2>6
    <2>8. a = [k \in 1 .. Len(p) + 1 |-> r[k].item] BY <2>6, <2>7
    <2> QED BY <2>1, <2>3, <2>4, <2>5, <2>8
  <1>7. ItemsOf(p) = Range(q) /\ Range(q) \subseteq Prompts
    BY <1>1, <1>3 DEF ItemsOf, Range
  <1> QED BY <1>1, <1>3, <1>4, <1>5, <1>6, <1>7

(* The line is a sequence of items: what the drain has in its hands, then the queue. *)
LEMMA LineFacts ==
    ASSUME TypeOK, Shape
    PROVE  /\ drain.pending \in Seq(Pair) /\ Names(drain.pending) \in Seq(Items)
           /\ items \in Seq(Items) /\ Line \in Seq(Items)
           /\ Range(Line) = ItemsOf(drain.pending) \cup Range(items)
           /\ Range(Line) \subseteq Items /\ None \notin Items
           /\ IsInjective(Line) =>
                 /\ IsInjective(items) /\ IsInjective(Names(drain.pending))
                 /\ Range(items) \cap ItemsOf(drain.pending) = {}
  <1>1. drain.pending \in Seq(Pair) /\ items \in Seq(Items) BY DEF TypeOK
  <1>2. Names(drain.pending) \in Seq(Items) BY <1>1, NamesFacts
  <1>3. /\ Line \in Seq(Items) /\ Range(Line) = Range(Names(drain.pending)) \cup Range(items)
        /\ IsInjective(Line) =>
              /\ IsInjective(items) /\ IsInjective(Names(drain.pending))
              /\ Range(Names(drain.pending)) \cap Range(items) = {}
    BY <1>1, <1>2, RowFacts DEF Line
  <1>4. Range(Line) \subseteq Items BY <1>3 DEF Range
  <1> QED BY <1>1, <1>2, <1>3, <1>4, QueueAssumption DEF ItemsOf

(* The line stays, or something leaves it. *)
LEMMA LinedThins ==
    ASSUME IInv, Line' \in Seq(Items), Line' = Line \/ Thinned(Line', Line),
           UNCHANGED <<entered, said>>
    PROVE  Lined'
  <1>1. CASE Line' = Line BY <1>1 DEF IInv, Lined, Before
  <1>2. CASE Thinned(Line', Line)
    <2>1. PICK a : a = Line' OBVIOUS
    <2>2. PICK b : b = Line OBVIOUS
    <2>3. a \in Seq(Items) /\ b \in Seq(Items) /\ Thinned(a, b)
      BY <1>2, <2>1, <2>2, LineFacts DEF IInv
    <2>4. /\ Range(a) \subseteq Range(b) /\ (IsInjective(b) => IsInjective(a))
          /\ \A j, k \in 1 .. Len(a) : j < k =>
                \E m, n \in 1 .. Len(b) : m < n /\ a[j] = b[m] /\ a[k] = b[n]
      BY <2>3, ThinnedKeeps
    <2>5. DOMAIN a = 1 .. Len(a) /\ DOMAIN b = 1 .. Len(b) BY <2>3
    <2>6. \A i, j : Before(i, j)' <=> Before(i, j) BY DEF Before
    <2>7. ASSUME NEW j \in DOMAIN a, NEW k \in DOMAIN a, j < k, a[j] \in Prompts, a[k] \in Prompts
          PROVE  Before(a[j], a[k])
      <3>0. j \in 1 .. Len(a) /\ k \in 1 .. Len(a) BY <2>5
      <3>1. PICK m \in 1 .. Len(b), n \in 1 .. Len(b) : m < n /\ a[j] = b[m] /\ a[k] = b[n]
        BY <2>4, <2>7, <3>0
      <3>2. Before(b[m], b[n]) BY <3>1, <2>2, <2>5, <2>7 DEF IInv, Lined
      <3> QED BY <3>1, <3>2
    <2>8. /\ \A s \in Range(said), x \in Range(a) \cap Prompts : Before(s, x)
          /\ Range(said) \cup (Range(a) \cap Prompts) \subseteq Range(entered)
          /\ IsInjective(a)
      BY <2>2, <2>4 DEF IInv, Lined
    <2>9. \A j, k \in DOMAIN said : j < k => Before(said[j], said[k]) BY DEF IInv, Lined
    <2> QED BY <2>1, <2>6, <2>7, <2>8, <2>9 DEF Lined
  <1> QED BY <1>1, <1>2

(* Something joins the line at its end. *)
LEMMA LinedJoins ==
    ASSUME IInv, NEW i \in Items, i \notin Range(Line), Line' = Append(Line, i),
           entered' = IF i \in Prompts THEN Append(entered, i) ELSE entered, said' = said
    PROVE  Lined'
  <1>1. PICK a : a = Line' OBVIOUS
  <1>2. PICK b : b = Line OBVIOUS
  <1>3. /\ b \in Seq(Items) /\ IsInjective(b) /\ i \notin Range(b) /\ a = Append(b, i)
        /\ entered \in Seq(Prompts) /\ said \in Seq(Prompts)
    BY <1>1, <1>2, LineFacts DEF IInv, Lined, TypeOK
  <1>4. /\ a \in Seq(Items) /\ Len(a) = Len(b) + 1 /\ Len(b) \in Nat /\ a[Len(b) + 1] = i
        /\ \A k \in 1 .. Len(b) : a[k] = b[k]
        /\ DOMAIN a = 1 .. Len(b) + 1 /\ DOMAIN b = 1 .. Len(b)
    BY <1>3
  <1>5. IsInjective(a) /\ Range(a) = Range(b) \cup {i} BY <1>3, JoinQueue
  <1>6. /\ \A x, y : Before(x, y) => Before(x, y)'
        /\ i \in Prompts => \A x \in Range(entered) : Before(x, i)'
        /\ Range(entered) \subseteq Range(entered')
        /\ i \in Prompts => i \in Range(entered')
    <2>1. CASE i \notin Prompts BY <2>1 DEF Before
    <2>2. CASE i \in Prompts
      <3>1. PICK e : e = entered' OBVIOUS
      <3>2. /\ e = Append(entered, i) /\ Len(e) = Len(entered) + 1 /\ e[Len(entered) + 1] = i
            /\ \A k \in 1 .. Len(entered) : e[k] = entered[k]
            /\ DOMAIN e = 1 .. Len(entered) + 1 /\ DOMAIN entered = 1 .. Len(entered)
            /\ Len(entered) \in Nat
        BY <2>2, <3>1, <1>3
      <3>3. ASSUME NEW x, NEW y, Before(x, y) PROVE Before(x, y)'
        BY <3>1, <3>2, <3>3 DEF Before
      <3>4. ASSUME NEW x \in Range(entered) PROVE Before(x, i)'
        <4>1. PICK k \in 1 .. Len(entered) : entered[k] = x BY <3>2 DEF Range
        <4>2. k \in DOMAIN e /\ Len(entered) + 1 \in DOMAIN e /\ k < Len(entered) + 1 BY <3>2
        <4> QED BY <3>1, <3>2, <4>1, <4>2 DEF Before
      <3>5. Range(entered) \subseteq Range(e) /\ i \in Range(e) BY <3>2 DEF Range
      <3> QED BY <3>1, <3>3, <3>4, <3>5
    <2> QED BY <2>1, <2>2
  <1>7. ASSUME NEW j \in DOMAIN a, NEW k \in DOMAIN a, j < k, a[j] \in Prompts, a[k] \in Prompts
        PROVE  Before(a[j], a[k])'
    <2>1. j \in 1 .. Len(b) /\ a[j] = b[j] BY <1>4, <1>7
    <2>2. CASE k \in 1 .. Len(b)
      <3>1. Before(b[j], b[k]) BY <2>1, <2>2, <1>2, <1>4, <1>7 DEF IInv, Lined
      <3> QED BY <3>1, <2>1, <2>2, <1>4, <1>6
    <2>3. CASE k = Len(b) + 1
      <3>1. b[j] \in Range(b) \cap Prompts BY <2>1, <1>4, <1>7 DEF Range
      <3>2. b[j] \in Range(entered) BY <3>1, <1>2 DEF IInv, Lined
      <3> QED BY <3>2, <2>1, <2>3, <1>4, <1>6, <1>7
    <2> QED BY <2>2, <2>3, <1>4
  <1>8. ASSUME NEW s \in Range(said), NEW x \in Range(a) \cap Prompts PROVE Before(s, x)'
    <2>1. CASE x \in Range(b)
      <3>1. Before(s, x) BY <2>1, <1>2 DEF IInv, Lined
      <3> QED BY <3>1, <1>6
    <2>2. CASE x = i
      <3>1. s \in Range(entered) BY DEF IInv, Lined
      <3> QED BY <3>1, <2>2, <1>6
    <2> QED BY <2>1, <2>2, <1>5
  <1>9. /\ \A j, k \in DOMAIN said : j < k => Before(said[j], said[k])'
        /\ Range(said) \cup (Range(a) \cap Prompts) \subseteq Range(entered')
    <2>1. \A j, k \in DOMAIN said : j < k => Before(said[j], said[k]) BY DEF IInv, Lined
    <2>2. Range(said) \cup (Range(b) \cap Prompts) \subseteq Range(entered)
      BY <1>2 DEF IInv, Lined
    <2> QED BY <2>1, <2>2, <1>5, <1>6
  <1> QED BY <1>1, <1>5, <1>7, <1>8, <1>9 DEF Lined

(* The first in the line is said. *)
LEMMA LinedSaid ==
    ASSUME IInv, Line # <<>>, Head(Line) \in Prompts, Line' = Tail(Line),
           said' = Append(said, Head(Line)), entered' = entered
    PROVE  Lined'
  <1>1. PICK a : a = Line' OBVIOUS
  <1>2. PICK b : b = Line OBVIOUS
  <1>3. PICK h : h = Head(Line) OBVIOUS
  <1>4. /\ b \in Seq(Items) /\ IsInjective(b) /\ a = Tail(b) /\ b # <<>> /\ h = b[1]
        /\ h \in Prompts /\ said \in Seq(Prompts)
    BY <1>1, <1>2, <1>3, LineFacts DEF IInv, Lined, TypeOK
  <1>5. a \in Seq(Items) /\ b \in Seq(Items) /\ Thinned(a, b) BY <1>4, TailThins
  <1>6. /\ Range(a) \subseteq Range(b) /\ IsInjective(a)
        /\ \A j, k \in 1 .. Len(a) : j < k =>
              \E m, n \in 1 .. Len(b) : m < n /\ a[j] = b[m] /\ a[k] = b[n]
    <2>1. /\ Range(a) \subseteq Range(b) /\ (IsInjective(b) => IsInjective(a))
          /\ \A j, k \in 1 .. Len(a) : j < k =>
                \E m, n \in 1 .. Len(b) : m < n /\ a[j] = b[m] /\ a[k] = b[n]
      BY <1>5, ThinnedKeeps
    <2> QED BY <2>1, <1>4
  <1>7. /\ DOMAIN a = 1 .. Len(a) /\ DOMAIN b = 1 .. Len(b) /\ Len(b) \in Nat
        /\ Len(a) = Len(b) - 1 /\ \A k \in 1 .. Len(a) : a[k] = b[k + 1]
        /\ 1 \in 1 .. Len(b)
    BY <1>4, <1>5
  <1>8. \A i, j : Before(i, j)' <=> Before(i, j) BY DEF Before
  <1>9. ASSUME NEW x \in Range(a) \cap Prompts PROVE Before(h, x)
    <2>1. PICK k \in 1 .. Len(a) : x = a[k] BY <1>7 DEF Range
    <2>2. x = b[k + 1] /\ k + 1 \in 1 .. Len(b) /\ 1 < k + 1 BY <2>1, <1>7
    <2> QED BY <2>2, <1>2, <1>4, <1>7, <1>9 DEF IInv, Lined
  <1>10. /\ said' \in Seq(Prompts) /\ Len(said') = Len(said) + 1 /\ said'[Len(said) + 1] = h
         /\ \A k \in 1 .. Len(said) : said'[k] = said[k]
         /\ Len(said) \in Nat /\ DOMAIN said = 1 .. Len(said)
         /\ DOMAIN said' = 1 .. Len(said) + 1
    BY <1>3, <1>4
  <1>11. Range(said') = Range(said) \cup {h}
    <2>1. \A k \in 1 .. Len(said) : k \in 1 .. Len(said) + 1 BY <1>10
    <2> QED BY <2>1, <1>10 DEF Range
  <1>12. h \in Range(b) BY <1>4, <1>7 DEF Range
  <1>13. ASSUME NEW j \in DOMAIN a, NEW k \in DOMAIN a, j < k, a[j] \in Prompts, a[k] \in Prompts
         PROVE  Before(a[j], a[k])
    <2>0. j \in 1 .. Len(a) /\ k \in 1 .. Len(a) BY <1>7
    <2>1. PICK m \in 1 .. Len(b), n \in 1 .. Len(b) : m < n /\ a[j] = b[m] /\ a[k] = b[n]
      BY <1>6, <1>13, <2>0
    <2>2. Before(b[m], b[n]) BY <2>1, <1>2, <1>7, <1>13 DEF IInv, Lined
    <2> QED BY <2>1, <2>2
  <1>14. ASSUME NEW s \in Range(said'), NEW x \in Range(a) \cap Prompts PROVE Before(s, x)
    BY <1>2, <1>6, <1>9, <1>11 DEF IInv, Lined
  <1>15. ASSUME NEW j \in DOMAIN said', NEW k \in DOMAIN said', j < k
         PROVE  Before(said'[j], said'[k])
    <2>1. j \in 1 .. Len(said) /\ said'[j] = said[j] BY <1>10, <1>15
    <2>2. CASE k \in 1 .. Len(said) BY <2>1, <2>2, <1>10, <1>15 DEF IInv, Lined
    <2>3. CASE k = Len(said) + 1
      <3>1. said[j] \in Range(said) BY <2>1, <1>10 DEF Range
      <3>2. Before(said[j], h) BY <3>1, <1>2, <1>4, <1>12 DEF IInv, Lined
      <3> QED BY <3>2, <2>1, <2>3, <1>10
    <2> QED BY <2>2, <2>3, <1>10
  <1>16. Range(said') \cup (Range(a) \cap Prompts) \subseteq Range(entered)
    BY <1>2, <1>4, <1>6, <1>11, <1>12 DEF IInv, Lined
  <1> QED BY <1>1, <1>6, <1>8, <1>13, <1>14, <1>15, <1>16 DEF Lined

-----------------------------------------------------------------------------
(* Where accepted items are. *)

Held(d) == {d.item} \ {None}

(* Only the pump enters items that are in no line yet. *)
LEMMA EnteringIs ==
    ASSUME Shape
    PROVE  Entering = IF enq["pump"].pc \in {"prepare", "direct"} THEN {enq["pump"].item} ELSE {}
  BY DEF Shape, Entering, Enqueuers

(* Settling a list of items changes what became of these and of no others. *)
LEMMA SettleFacts ==
    ASSUME TypeOK, NEW is, NEW how \in Outcomes, Settle(is, how)
    PROVE  /\ outcome' \in [Items -> Outcomes]
           /\ how = "accepted" => Accepted' = Accepted \cup (is \cap Items)
           /\ how # "accepted" => Accepted' = Accepted \ is
  <1>1. outcome' \in [Items -> Outcomes] BY DEF TypeOK, Settle
  <1>2. \A i \in Items : outcome'[i] = IF i \in is THEN how ELSE outcome[i] BY DEF Settle
  <1> QED BY <1>1, <1>2 DEF Accepted

(* Types of what no other part of the invariant is about. *)
Rest ==
    /\ widgets \in Seq(Items) /\ paused \in BOOLEAN /\ header \in BOOLEAN
    /\ enabled \in BOOLEAN
    /\ worker \in [pc : {"idle", "discard", "remove"}, item : Items \cup {None}]
    /\ agent \in {"idle", "compact"} \cup Turns /\ closing \subseteq Turns
    /\ overlooked \in BOOLEAN /\ bash \in {"idle", "user", "drain"}
    /\ picker \in BOOLEAN /\ sees \in BOOLEAN

Handlers == [Enqueuers -> [pc : {"idle", "prepare", "header", "mount", "direct"},
                           item : Items \cup {None}, resume : BOOLEAN]]

(* The variables beside the line have their types. *)
LEMMA RestTyped == ASSUME IInv PROVE Rest /\ enq \in Handlers /\ Handful(drain)
  BY DEF IInv, TypeOK, Shape, Rest, Handlers

(* The type of the next state, from the types of what the step assigns. *)
LEMMA Typing ==
    ASSUME Rest', enq' \in Handlers, Handful(drain'), items' \in Seq(Items),
           outcome' \in [Items -> Outcomes], entered' \in Seq(Prompts), said' \in Seq(Prompts)
    PROVE  TypeOK'
  <1>1. /\ drain'.pc \in Places /\ drain'.pending \in Seq(Pair)
        /\ drain'.item \in Items \cup {None} /\ drain'.widget \in Items \cup {None}
    BY DEF Handful, Drains
  <1> QED BY <1>1 DEF TypeOK, Rest, Handlers, Places

(* A drain in another place, with the same things in its hands. *)
LEMMA Moved ==
    ASSUME NEW d \in Drains, NEW p \in Places, NEW r, r = [d EXCEPT !.pc = p]
    PROVE  /\ r \in Drains /\ r.pc = p /\ r.pending = d.pending /\ r.item = d.item
           /\ r.widget = d.widget
  BY DEF Drains

(* A drain with nothing in its hands. *)
LEMMA Fresh ==
    ASSUME NEW p \in {"off", "ready", "top", "turn"}, NEW r, r = [NoDrain EXCEPT !.pc = p]
    PROVE  Handful(r) /\ r.pc = p /\ r.pending = <<>> /\ r.item = None
  <1>1. r = [pc |-> p, pending |-> <<>>, item |-> None, widget |-> None] BY DEF NoDrain
  <1>2. <<>> \in Seq(Pair) /\ p \in Places BY DEF Places
  <1>3. PICK e : e = <<>> OBVIOUS
  <1>4. r = [pc |-> p, pending |-> e, item |-> None, widget |-> None] /\ e \in Seq(Pair)
    BY <1>1, <1>2, <1>3
  <1>5. PICK n : n = None OBVIOUS
  <1>6. PICK s : s = [pc |-> p, pending |-> e, item |-> n, widget |-> n] OBVIOUS
  <1>7. s \in Drains BY <1>2, <1>4, <1>5, <1>6 DEF Drains
  <1>8. r \in Drains BY <1>4, <1>5, <1>6, <1>7
  <1> QED BY <1>1, <1>8 DEF Handful, Fits

(* Without a drain nothing is in its hands. *)
LEMMA NoDrainFacts ==
    Handful(NoDrain) /\ NoDrain.pc = "off" /\ NoDrain.pending = <<>> /\ NoDrain.item = None
  <1>1. PICK r : r = NoDrain OBVIOUS
  <1>2. r = [NoDrain EXCEPT !.pc = "off"] BY <1>1 DEF NoDrain
  <1> QED BY <1>1, <1>2, Fresh

(* The drain that a handler starts, or finds running. *)
LEMMA DrainStartedFacts ==
    ASSUME IInv, NEW its, NEW pause \in BOOLEAN, NEW turn, NEW line,
           NEW d, d = DrainStarted(its, pause, turn, line)
    PROVE  /\ Handful(d) /\ d.pending = drain.pending /\ d.item = drain.item
           /\ d = drain \/ d.pc = "ready"
           /\ \/ d.pc # "off" \/ ~enabled \/ its = <<>> \/ pause
              \/ turn # "idle" \/ line # "idle"
  <1>1. Handful(drain) BY RestTyped
  <1>2. CASE /\ enabled /\ drain.pc = "off"
             /\ its # <<>> /\ ~pause
             /\ turn = "idle" /\ line = "idle"
    <2>1. d = [NoDrain EXCEPT !.pc = "ready"] BY <1>2 DEF DrainStarted
    <2>2. Handful(d) /\ d.pc = "ready" /\ d.pending = <<>> /\ d.item = None BY <2>1, Fresh
    <2>3. drain.pending = <<>> /\ drain.item = None BY <1>1, <1>2 DEF Handful, Fits
    <2> QED BY <1>2, <2>2, <2>3
  <1>3. CASE ~ (/\ enabled /\ drain.pc = "off"
                /\ its # <<>> /\ ~pause
                /\ turn = "idle" /\ line = "idle")
    <2>1. d = drain BY <1>3 DEF DrainStarted
    <2>2. \/ drain.pc # "off" \/ ~enabled \/ its = <<>> \/ pause
          \/ turn # "idle" \/ line # "idle"
      BY <1>3, <2>1
    <2> QED BY <1>1, <2>1, <2>2
  <1> QED BY <1>2, <1>3

(* A step that leaves the line, what enters it and what became of each item. *)
LEMMA Quiet ==
    ASSUME IInv, UNCHANGED <<items, outcome, entered, said, enq>>, Rest', Handful(drain'),
           drain'.pending = drain.pending, drain'.item = drain.item, Started'
    PROVE  IInv'
  <1>1. Line' = Line BY DEF Line, Names
  <1>2. Lined' BY <1>1 DEF IInv, Lined, Before
  <1>3. Entering' = Entering BY DEF Entering
  <1>4. Placed' BY <1>1, <1>3 DEF IInv, Placed, Accepted
  <1>5. TypeOK'
    <2>1. /\ items \in Seq(Items) /\ outcome \in [Items -> Outcomes]
          /\ entered \in Seq(Prompts) /\ said \in Seq(Prompts)
      BY DEF IInv, TypeOK
    <2>2. enq' \in Handlers BY RestTyped
    <2> QED BY <2>1, <2>2, Typing
  <1>6. Shape'
    <2>1. /\ enq["channel"].pc \notin {"prepare", "direct"}
          /\ \A e \in Enqueuers : enq[e].pc # "idle" => enq[e].item \in Items
          /\ enq["pump"].pc \in {"prepare", "direct"} => enq["pump"].item \in Prompts
      BY DEF IInv, Shape
    <2> QED BY <2>1 DEF Shape, Handful
  <1> QED BY <1>2, <1>4, <1>5, <1>6 DEF IInv

(* A drain that has not ended serves what waits. *)
LEMMA Serving ==
    ASSUME drain'.pc # "off" \/ ~enabled' \/ paused' \/ items' = <<>>,
           bash' = "drain" => drain'.pc = "bash" \/ ~enabled'
    PROVE  Started'
  <1>1. items' = <<>> => DOMAIN items' = {} OBVIOUS
  <1> QED BY <1>1 DEF Started

(* A handler that leaves the queue and its own task alone: the drain stays, or is
   started.                                                                  *)
LEMMA HandlerKeeps ==
    ASSUME IInv, UNCHANGED <<items, outcome, entered, said, enq, enabled>>, Rest',
           drain' = drain \/ drain' = DrainStarted(items, paused', agent', bash'),
           bash' = "drain" => bash = "drain",
           \/ paused' \/ items = <<>> \/ (overlooked' /\ bash' = bash)
           \/ drain' = DrainStarted(items, paused', agent', bash')
           \/ /\ paused' = paused /\ overlooked' = overlooked
              /\ agent # "idle" \/ closing # {} => agent' # "idle" \/ closing' # {}
              /\ bash' = "idle" => bash # "user"
    PROVE  IInv'
  <1>1. PICK d : d = drain' OBVIOUS
  <1>2. Handful(drain) BY RestTyped
  <1>3. ASSUME d = DrainStarted(items, paused', agent', bash')
        PROVE  /\ Handful(d) /\ d.pending = drain.pending /\ d.item = drain.item
               /\ d = drain \/ drain.pc = "off"
               /\ d = drain \/ d.pc = "ready"
               /\ \/ d.pc # "off" \/ ~enabled \/ items = <<>> \/ paused'
                  \/ agent' # "idle" \/ bash' # "idle"
    <2>1. paused' \in BOOLEAN BY DEF Rest
    <2>2. PICK x : x = paused' OBVIOUS
    <2>3. PICK y : y = agent' OBVIOUS
    <2>4. PICK z : z = bash' OBVIOUS
    <2>5. d = DrainStarted(items, x, y, z) /\ x \in BOOLEAN BY <2>1, <2>2, <2>3, <2>4, <1>3
    <2>6. Handful(d) /\ d.pending = drain.pending /\ d.item = drain.item
      BY ZenonT(60), <2>5, DrainStartedFacts
    <2>7. d = drain \/ d.pc = "ready" BY <2>5, DrainStartedFacts
    <2>8. d.pc # "off" \/ ~enabled \/ items = <<>> \/ x \/ y # "idle" \/ z # "idle"
      BY <2>5, DrainStartedFacts
    <2>9. d = drain \/ drain.pc = "off" BY <2>5 DEF DrainStarted
    <2> QED BY <2>2, <2>3, <2>4, <2>6, <2>7, <2>8, <2>9
  <1>4. /\ Handful(d) /\ d.pending = drain.pending /\ d.item = drain.item
        /\ d = drain \/ drain.pc = "off"
        /\ d = drain \/ d.pc = "ready"
    <2>1. CASE d = drain BY <2>1, <1>2
    <2>2. CASE d = DrainStarted(items, paused', agent', bash') BY <2>2, <1>3
    <2> QED BY <1>1, <2>1, <2>2
  <1>5. bash' = "drain" => d.pc = "bash" \/ ~enabled BY <1>4 DEF IInv, Started
  <1>6. ASSUME enabled', ~paused', ~overlooked',
               \E k \in DOMAIN items' : items'[k] \notin Prompts,
               \A i \in Items : outcome'[i] # "lost"
        PROVE  \/ drain'.pc # "off" \/ agent' # "idle" \/ closing' # {} \/ bash' # "idle"
               \/ \E f \in Enqueuers : /\ enq'[f].pc \in {"header", "mount"}
                                       /\ enq'[f].item \in Commands \/ enq'[f].resume
    <2>1. items # <<>> BY <1>6
    <2>2. CASE d = DrainStarted(items, paused', agent', bash') BY <2>1, <2>2, <1>1, <1>3, <1>6
    <2>3. CASE /\ paused' = paused /\ overlooked' = overlooked
               /\ agent # "idle" \/ closing # {} => agent' # "idle" \/ closing' # {}
               /\ bash' = "idle" => bash # "user"
      <3>1. /\ bash = "drain" => drain.pc = "bash" \/ ~enabled
            /\ \/ drain.pc # "off" \/ agent # "idle" \/ closing # {} \/ bash # "idle"
               \/ \E f \in Enqueuers : /\ enq[f].pc \in {"header", "mount"}
                                       /\ enq[f].item \in Commands \/ enq[f].resume
        BY <2>3, <1>6 DEF IInv, Started
      <3>2. bash \in {"idle", "user", "drain"} BY DEF IInv, TypeOK
      <3> QED BY <3>1, <3>2, <2>3, <1>1, <1>4, <1>6
    <2> QED BY <2>2, <2>3, <1>1, <1>6
  <1>7. Started' BY <1>1, <1>5, <1>6 DEF Started
  <1> QED BY <1>1, <1>4, <1>7, Quiet

-----------------------------------------------------------------------------
(* IInv is inductive: the handlers that leave the line alone. *)

(* Escape pauses a queue that is not empty. *)
LEMMA EscapeKeeps == ASSUME IInv, Escape PROVE IInv'
  <1>1. UNCHANGED <<items, widgets, header, enabled, drain, enq, worker, agent, closing,
                    overlooked, bash, picker, sees, outcome, entered, said>> /\ paused' = TRUE
    BY DEF Escape, jobVars, uiVars, history
  <1>2. Rest' BY <1>1, RestTyped DEF Rest
  <1> QED BY <1>1, <1>2, HandlerKeeps

(* A picker opens or closes. *)
LEMMA SwitchPickerKeeps == ASSUME IInv, SwitchPicker PROVE IInv'
  <1>1. /\ UNCHANGED <<items, paused, widgets, header, enabled, drain, enq, worker, agent,
                       closing, overlooked, bash, sees, outcome, entered, said>>
        /\ picker' \in BOOLEAN
    BY DEF SwitchPicker, queueVars, jobVars, history, IInv, TypeOK
  <1>2. Rest' BY <1>1, RestTyped DEF Rest
  <1>3. bash \in {"idle", "user", "drain"} BY DEF IInv, TypeOK
  <1> QED BY <1>1, <1>2, <1>3, HandlerKeeps

(* The user lets the queue go on. *)
LEMMA ResumeQueueKeeps == ASSUME IInv, ResumeQueue PROVE IInv'
  <1>1. /\ UNCHANGED <<items, widgets, header, enabled, enq, worker, agent, closing, bash,
                       picker, sees, outcome, entered, said>>
        /\ overlooked' = FALSE /\ paused' = FALSE
        /\ drain' = DrainStarted(items, paused', agent', bash')
    BY DEF ResumeQueue, jobVars, uiVars, history
  <1>2. Rest' BY <1>1, RestTyped DEF Rest
  <1> QED BY <1>1, <1>2, HandlerKeeps

(* The worker of Ctrl+C takes the widget away. *)
LEMMA WorkerKeeps == ASSUME IInv, Discarded \/ WidgetRemoved PROVE IInv'
  <1>1. /\ UNCHANGED <<items, paused, enabled, drain, enq, agent, closing, overlooked, bash,
                       picker, sees, outcome, entered, said>>
        /\ worker'.pc \in {"idle", "remove"} /\ worker'.item = None
        /\ worker' \in [pc : {"idle", "discard", "remove"}, item : Items \cup {None}]
        /\ widgets' = widgets \/ (widgets # <<>> /\ widgets' = Front(widgets))
        /\ header' \in BOOLEAN
    <2>1. header \in BOOLEAN BY DEF IInv, TypeOK
    <2>2. CASE Discarded
      <3>1. /\ UNCHANGED <<items, paused, enabled, drain, enq, agent, closing, overlooked, bash,
                           picker, sees, outcome, entered, said>>
            /\ PopWidget(items)
        BY <2>2 DEF Discarded, jobVars, uiVars, history
      <3>2. header' \in BOOLEAN BY <2>1, <3>1 DEF PopWidget
      <3>3. worker' = [pc |-> "idle", item |-> None] \/ worker' = [pc |-> "remove", item |-> None]
        BY <3>1 DEF PopWidget
      <3>4. widgets' = widgets \/ (widgets # <<>> /\ widgets' = Front(widgets))
        BY <3>1 DEF PopWidget
      <3> QED BY <3>1, <3>2, <3>3, <3>4
    <2>3. CASE WidgetRemoved BY <2>1, <2>3 DEF WidgetRemoved, jobVars, uiVars, history
    <2> QED BY <2>2, <2>3
  <1>2. widgets' \in Seq(Items)
    <2>1. widgets \in Seq(Items) BY DEF IInv, TypeOK
    <2>2. CASE widgets # <<>> /\ widgets' = Front(widgets)
      BY <2>1, <2>2 DEF Front
    <2> QED BY <2>1, <2>2, <1>1
  <1>3. Rest' BY <1>1, <1>2, RestTyped DEF Rest
  <1>4. bash \in {"idle", "user", "drain"} BY DEF IInv, TypeOK
  <1> QED BY <1>1, <1>3, <1>4, HandlerKeeps

(* A turn begins or stops beside the drain. *)
LEMMA TurnKeeps ==
    ASSUME IInv, TurnStops \/ TurnRetried \/ UnsolicitedTurn PROVE IInv'
  <1>1. /\ UNCHANGED <<items, paused, widgets, header, enabled, drain, enq, worker, bash,
                       overlooked, picker, sees, outcome, entered, said>>
        /\ agent' # "idle" \/ closing' # {}
        /\ agent' \in {"idle", "compact"} \cup Turns /\ closing' \subseteq Turns
    <2>1. agent \in {"idle", "compact"} \cup Turns /\ closing \subseteq Turns BY DEF IInv, TypeOK
    <2>2. CASE TurnStops BY <2>1, <2>2 DEF TurnStops, queueVars, uiVars, history
    <2>3. CASE TurnRetried BY <2>1, <2>3 DEF TurnRetried, queueVars, uiVars, history, Turns
    <2>4. CASE UnsolicitedTurn
      BY <2>1, <2>4 DEF UnsolicitedTurn, queueVars, uiVars, history, Turns
    <2> QED BY <2>2, <2>3, <2>4
  <1>2. Rest' BY <1>1, RestTyped DEF Rest
  <1>3. bash \in {"idle", "user", "drain"} BY DEF IInv, TypeOK
  <1> QED BY <1>1, <1>2, <1>3, HandlerKeeps

(* The handler of a closed turn starts a drain if one is needed. *)
LEMMA TurnClosedKeeps == ASSUME IInv, NEW t \in Turns, TurnClosed(t) PROVE IInv'
  <1>1. /\ UNCHANGED <<items, paused, widgets, header, enabled, enq, worker, agent, bash,
                       picker, sees, outcome, entered, said>>
        /\ closing' \subseteq Turns /\ overlooked' = FALSE
        /\ drain' = DrainStarted(items, paused', agent', bash')
    BY DEF TurnClosed, queueVars, uiVars, history, IInv, TypeOK
  <1>2. Rest' BY <1>1, RestTyped DEF Rest
  <1> QED BY <1>1, <1>2, HandlerKeeps

(* A shell line ends, and its handler starts a drain if one is needed. *)
LEMMA BashEndsKeeps == ASSUME IInv, BashEnds PROVE IInv'
  <1>1. /\ UNCHANGED <<items, paused, widgets, header, enabled, enq, worker, agent, closing,
                       picker, sees, outcome, entered, said>>
        /\ bash # "idle" /\ bash' = "idle"
        /\ bash = "user" => drain' = DrainStarted(items, paused', agent', bash')
        /\ bash # "user" => drain' = drain /\ overlooked' = overlooked
        /\ overlooked' \in BOOLEAN
    BY DEF BashEnds, queueVars, uiVars, history, IInv, TypeOK
  <1>2. Rest' BY <1>1, RestTyped DEF Rest
  <1> QED BY <1>1, <1>2, HandlerKeeps

(* A compaction ends, or a turn that is not retried: neither looks at the queue. *)
LEMMA OverlooksKeeps == ASSUME IInv, CompactEnds \/ TurnNotRetried PROVE IInv'
  <1>1. /\ UNCHANGED <<items, paused, widgets, header, enabled, drain, enq, worker, bash,
                       picker, sees, outcome, entered, said>>
        /\ agent' \in {"idle", "compact"} \cup Turns /\ closing' \subseteq Turns
        /\ overlooked' = (overlooked \/ (drain.pc = "off" /\ items # <<>>))
    <2>1. agent \in {"idle", "compact"} \cup Turns /\ closing \subseteq Turns
      BY DEF IInv, TypeOK
    <2>2. CASE CompactEnds
      BY <2>1, <2>2 DEF CompactEnds, Overlooks, queueVars, uiVars, history
    <2>3. CASE TurnNotRetried
      BY <2>1, <2>3 DEF TurnNotRetried, Overlooks, queueVars, uiVars, history
    <2> QED BY <2>2, <2>3
  <1>2. overlooked \in BOOLEAN BY DEF IInv, TypeOK
  <1>3. Rest' BY <1>1, <1>2, RestTyped DEF Rest
  <1>4. CASE drain.pc = "off"
    <2>1. items = <<>> \/ overlooked' BY <1>1, <1>4
    <2> QED BY <2>1, <1>1, <1>3, HandlerKeeps
  <1>5. CASE drain.pc # "off"
    <2>1. bash' = "drain" => drain'.pc = "bash" \/ ~enabled'
      BY <1>1 DEF IInv, Started
    <2>2. Started' BY <2>1, <1>1, <1>5, Serving
    <2>3. Handful(drain') BY <1>1, RestTyped
    <2> QED BY <2>2, <2>3, <1>1, <1>3, Quiet
  <1> QED BY <1>4, <1>5

(* The header is mounted, and the item gets its widget. *)
LEMMA HeaderMountedKeeps ==
    ASSUME IInv, NEW e \in Enqueuers, HeaderMounted(e) PROVE IInv'
  <1>1. /\ UNCHANGED <<items, paused, header, enabled, drain, worker, agent, closing,
                       overlooked, bash, picker, sees, outcome, entered, said>>
        /\ enq[e].pc = "header" /\ widgets' = Append(widgets, enq[e].item)
        /\ enq' = [enq EXCEPT ![e].pc = "mount"]
    BY DEF HeaderMounted, jobVars, uiVars, history
  <1>2. /\ enq'[e].pc = "mount" /\ enq'[e].item = enq[e].item /\ enq'[e].resume = enq[e].resume
        /\ \A f \in Enqueuers \ {e} : enq'[f] = enq[f]
        /\ enq' \in [Enqueuers -> [pc : {"idle", "prepare", "header", "mount", "direct"},
                                   item : Items \cup {None}, resume : BOOLEAN]]
        /\ enq[e].item \in Items
    BY <1>1 DEF IInv, TypeOK, Shape
  <1>3. Shape' BY <1>1, <1>2 DEF IInv, Shape, Enqueuers
  <1>4. TypeOK' BY <1>1, <1>2 DEF IInv, TypeOK
  <1>5. Entering' = Entering
    BY <1>1, <1>2, <1>3, EnteringIs DEF IInv, Entering, Enqueuers
  <1>6. Lined' /\ Placed'
    <2>1. Line' = Line BY <1>1 DEF Line
    <2> QED BY <1>1, <1>5, <2>1 DEF IInv, Lined, Before, Placed, Accepted
  <1>7. Started' BY <1>1, <1>2 DEF IInv, Started
  <1> QED BY <1>3, <1>4, <1>6, <1>7 DEF IInv

-----------------------------------------------------------------------------
(* IInv is inductive: the steps of the drain that leave the line alone. *)

(* A step of the drain that leaves the line alone. *)
LEMMA DrainKeeps ==
    ASSUME IInv, UNCHANGED <<items, paused, outcome, entered, said, enq, enabled>>, Rest',
           NEW p \in Places \ {"off"}, drain' = [drain EXCEPT !.pc = p],
           Fits(p, drain.pending, drain.item),
           bash' = "drain" => bash = "drain" /\ drain.pc # "bash"
    PROVE  IInv'
  <1>1. PICK d : d = drain' OBVIOUS
  <1>2. drain \in Drains BY RestTyped DEF Handful
  <1>3. d \in Drains /\ d.pc = p /\ d.pending = drain.pending /\ d.item = drain.item
    BY <1>1, <1>2, Moved
  <1>4. Handful(d) BY <1>3 DEF Handful
  <1>5. bash' = "drain" => ~enabled' BY DEF IInv, Started
  <1>6. Started' BY <1>1, <1>3, <1>5, Serving
  <1> QED BY <1>1, <1>3, <1>4, <1>6, Quiet

(* The drain goes back to the top of its loop. *)
LEMMA DrainRestarts ==
    ASSUME IInv, UNCHANGED <<items, paused, outcome, entered, said, enq, enabled>>, Rest',
           NEW p \in {"off", "ready"}, drain' = [NoDrain EXCEPT !.pc = p],
           drain.pending = <<>>, drain.item = None, bash' # "drain" \/ ~enabled,
           p = "off" => ~enabled \/ paused \/ items = <<>>
    PROVE  IInv'
  <1>1. PICK d : d = drain' OBVIOUS
  <1>2. Handful(d) /\ d.pc = p /\ d.pending = <<>> /\ d.item = None BY <1>1, Fresh
  <1>3. Started' BY <1>1, <1>2, Serving
  <1> QED BY <1>1, <1>2, <1>3, Quiet

(* The drain looks at what is next, or ends with nothing left. *)
LEMMA DrainTopKeeps == ASSUME IInv, DrainTop PROVE IInv'
  <1>1. /\ UNCHANGED <<items, paused, widgets, enabled, enq, worker, agent, closing,
                       overlooked, bash, picker, sees, outcome, entered, said>>
        /\ drain.pc \in {"ready", "top"}
        /\ \/ \E p \in {"picker", "unhead", "consume"} : drain' = [drain EXCEPT !.pc = p]
           \/ drain' = NoDrain /\ (~enabled \/ items = <<>> \/ paused)
    <2>1. \/ drain' = [drain EXCEPT !.pc = "picker"]
          \/ drain' = [drain EXCEPT !.pc = IF header THEN "unhead" ELSE "consume"]
          \/ drain' = NoDrain /\ (~enabled \/ items = <<>> \/ paused)
      BY DEF DrainTop, PickerPassed
    <2>2. \E p \in {"unhead", "consume"} : p = IF header THEN "unhead" ELSE "consume"
      OBVIOUS
    <2>3. /\ UNCHANGED <<items, paused, widgets, enabled, enq, worker, agent, closing,
                         overlooked, bash, picker, sees, outcome, entered, said>>
          /\ drain.pc \in {"ready", "top"}
      BY DEF DrainTop, jobVars, uiVars, history
    <2> QED BY <2>1, <2>2, <2>3
  <1>2. header' \in BOOLEAN
    <2>1. header \in BOOLEAN BY DEF IInv, TypeOK
    <2> QED BY <2>1 DEF DrainTop, PickerPassed
  <1>3. Rest' BY <1>1, <1>2, RestTyped DEF Rest
  <1>4. drain.pending = <<>> /\ drain.item = None BY <1>1, RestTyped DEF Handful, Fits
  <1>5. bash = "drain" => ~enabled BY <1>1 DEF IInv, Started
  <1>6. ASSUME NEW p \in {"picker", "unhead", "consume"}, drain' = [drain EXCEPT !.pc = p]
        PROVE  IInv'
    <2>1. Fits(p, drain.pending, drain.item) /\ p \in Places \ {"off"} BY <1>4 DEF Fits, Places
    <2> QED BY <2>1, <1>1, <1>3, <1>6, DrainKeeps
  <1>7. CASE drain' = NoDrain /\ (~enabled \/ items = <<>> \/ paused)
    <2>1. drain' = [NoDrain EXCEPT !.pc = "off"] BY <1>7 DEF NoDrain
    <2> QED BY <2>1, <1>1, <1>3, <1>4, <1>5, <1>7, DrainRestarts
  <1> QED BY <1>1, <1>6, <1>7

(* What the drain waited for is over. *)
LEMMA DrainWaitedKeeps ==
    ASSUME IInv,
           \/ DrainUnblocked \/ HeaderRemoved \/ GateShown \/ DrainBashDone
           \/ CommandTurnOver \/ CommandPickerClosed \/ TailOver
    PROVE  IInv'
  <1>1. /\ UNCHANGED <<items, paused, widgets, enabled, enq, worker, agent, closing,
                       overlooked, bash, picker, sees, outcome, entered, said>>
        /\ header' \in BOOLEAN
        /\ bash = "drain" => drain.pc # "bash"
        /\ \E p \in {"unhead", "consume", "bashwidget", "cmdpicker", "top"} :
              drain' = [drain EXCEPT !.pc = p] /\ Fits(p, drain.pending, drain.item)
    <2>1. header \in BOOLEAN /\ Fits(drain.pc, drain.pending, drain.item)
      BY RestTyped DEF Rest, Handful
    <2>2. CASE DrainUnblocked
      <3>1. PICK p \in {"unhead", "consume"} : p = IF header THEN "unhead" ELSE "consume"
        OBVIOUS
      <3>2. drain.pc = "picker" /\ drain' = [drain EXCEPT !.pc = p]
        BY <2>2, <3>1 DEF DrainUnblocked, PickerPassed
      <3>3. Fits(p, drain.pending, drain.item) BY <2>1, <3>2 DEF Fits
      <3> QED BY <2>2, <3>2, <3>3 DEF DrainUnblocked, PickerPassed, jobVars, uiVars, history
    <2>3. CASE HeaderRemoved
      <3>1. Fits("consume", drain.pending, drain.item) BY <2>1, <2>3 DEF Fits, HeaderRemoved
      <3> QED BY <2>1, <2>3, <3>1 DEF HeaderRemoved, queueVars, jobVars, uiVars, history
    <2>4. CASE GateShown
      <3>1. Fits("bashwidget", drain.pending, drain.item) BY <2>1, <2>4 DEF Fits, GateShown
      <3> QED BY <2>1, <2>4, <3>1 DEF GateShown, queueVars, jobVars, uiVars, history
    <2>5. CASE DrainBashDone
      <3>1. Fits("consume", drain.pending, drain.item) BY <2>1, <2>5 DEF Fits, DrainBashDone
      <3> QED BY <2>1, <2>5, <3>1 DEF DrainBashDone, queueVars, jobVars, uiVars, history
    <2>6. CASE CommandTurnOver
      <3>1. PICK p \in {"cmdpicker", "consume"} : p = IF picker THEN "cmdpicker" ELSE "consume"
        OBVIOUS
      <3>2. drain.pc = "cmdturn" /\ drain' = [drain EXCEPT !.pc = p]
        BY <2>6, <3>1 DEF CommandTurnOver
      <3>3. Fits(p, drain.pending, drain.item) BY <2>1, <3>2 DEF Fits
      <3> QED BY <2>1, <2>6, <3>2, <3>3 DEF CommandTurnOver, queueVars, jobVars, uiVars, history
    <2>7. CASE CommandPickerClosed
      <3>1. Fits("consume", drain.pending, drain.item)
        BY <2>1, <2>7 DEF Fits, CommandPickerClosed
      <3> QED BY <2>1, <2>7, <3>1 DEF CommandPickerClosed, queueVars, jobVars, uiVars, history
    <2>8. CASE TailOver
      <3>1. Fits("top", drain.pending, drain.item) BY <2>1, <2>8 DEF Fits, TailOver
      <3> QED BY <2>1, <2>8, <3>1 DEF TailOver, queueVars, jobVars, uiVars, history
    <2> QED BY <2>2, <2>3, <2>4, <2>5, <2>6, <2>7, <2>8
  <1>2. Rest' BY <1>1, RestTyped DEF Rest
  <1>3. PICK p \in {"unhead", "consume", "bashwidget", "cmdpicker", "top"} :
              drain' = [drain EXCEPT !.pc = p] /\ Fits(p, drain.pending, drain.item)
    BY <1>1
  <1>4. p \in Places \ {"off"} BY DEF Places
  <1> QED BY <1>1, <1>2, <1>3, <1>4, DrainKeeps

(* The shell line of the drain is cancelled. *)
LEMMA BashCancelledKeeps == ASSUME IInv, BashCancelled PROVE IInv'
  <1>1. /\ UNCHANGED <<items, paused, widgets, header, enabled, enq, worker, agent, closing,
                       overlooked, picker, sees, outcome, entered, said>>
        /\ drain.pc = "bash" /\ bash' = "idle" /\ drain' = [NoDrain EXCEPT !.pc = "ready"]
    BY DEF BashCancelled, queueVars, uiVars, history
  <1>2. Rest' BY <1>1, RestTyped DEF Rest
  <1>3. drain.pending = <<>> /\ drain.item = None BY <1>1, RestTyped DEF Handful, Fits
  <1> QED BY <1>1, <1>2, <1>3, DrainRestarts

-----------------------------------------------------------------------------
(* What a step does to the line. *)

(* Empty hands add nothing to the line. *)
LEMMA EmptyHands ==
    ASSUME NEW p, p = <<>>
    PROVE  Names(p) = <<>> /\ ItemsOf(p) = {}
  <1>1. p \in Seq(Pair) OBVIOUS
  <1> QED BY <1>1, NamesFacts

(* The first of the queue is taken off it and out of the line. *)
LEMMA LineTail ==
    ASSUME IInv, items # <<>>, items' = Tail(items), drain'.pending = drain.pending
    PROVE  /\ Line' \in Seq(Items) /\ Thinned(Line', Line)
           /\ Range(Line') = Range(Line) \ {Head(items)}
           /\ Head(items) \in Range(Line) /\ items' \in Seq(Items)
  <1>1. PICK a : a = Names(drain.pending) OBVIOUS
  <1>2. PICK q : q = items OBVIOUS
  <1>3. /\ a \in Seq(Items) /\ q \in Seq(Items) /\ q # <<>> /\ IsInjective(q)
        /\ Range(a) \cap Range(q) = {}
    BY <1>1, <1>2, LineFacts DEF IInv, Lined, ItemsOf
  <1>4. /\ Tail(q) \in Seq(Items) /\ Range(Tail(q)) = Range(q) \ {Head(q)}
        /\ Thinned(Tail(q), q)
    BY <1>3, EndsLeave, TailThins
  <1>5. Line = a \o q /\ Line' = a \o Tail(q)
    <2>1. Names(drain'.pending) = a BY <1>1
    <2> QED BY <2>1, <1>1, <1>2 DEF Line
  <1>6. /\ Range(a \o q) = Range(a) \cup Range(q)
        /\ Range(a \o Tail(q)) = Range(a) \cup Range(Tail(q))
        /\ a \o Tail(q) \in Seq(Items)
    BY <1>3, <1>4, RowFacts
  <1>7. Thinned(a \o Tail(q), a \o q) BY <1>3, <1>4, RowThins
  <1>8. Head(q) \in Range(q)
    <2>1. Head(q) = q[1] /\ 1 \in DOMAIN q BY <1>3
    <2> QED BY <2>1 DEF Range
  <1> QED BY <1>2, <1>3, <1>4, <1>5, <1>6, <1>7, <1>8

(* The last of the queue is taken off it. *)
LEMMA LineFront ==
    ASSUME IInv, items # <<>>, items' = Front(items), drain'.pending = drain.pending
    PROVE  /\ Line' \in Seq(Items) /\ Thinned(Line', Line)
           /\ Range(Line') = Range(Line) \ {Last(items)}
           /\ Last(items) \in Range(Line) /\ items' \in Seq(Items)
           /\ \A k \in DOMAIN items' : k \in DOMAIN items /\ items'[k] = items[k]
  <1>1. PICK a : a = Names(drain.pending) OBVIOUS
  <1>2. PICK q : q = items OBVIOUS
  <1>3. /\ a \in Seq(Items) /\ q \in Seq(Items) /\ q # <<>> /\ IsInjective(q)
        /\ Range(a) \cap Range(q) = {}
    BY <1>1, <1>2, LineFacts DEF IInv, Lined, ItemsOf
  <1>4. PICK f : f = SubSeq(q, 1, Len(q) - 1) OBVIOUS
  <1>5. f \in Seq(Items) /\ Range(f) = Range(q) \ {q[Len(q)]} /\ Thinned(f, q)
    BY <1>3, <1>4, EndsLeave, TailThins
  <1>6. items' = f /\ Last(items) = q[Len(q)] BY <1>2, <1>4 DEF Front, Last
  <1>7. Line = a \o q /\ Line' = a \o f
    <2>1. Names(drain'.pending) = a BY <1>1
    <2> QED BY <2>1, <1>1, <1>2, <1>6 DEF Line
  <1>8. /\ Range(a \o q) = Range(a) \cup Range(q)
        /\ Range(a \o f) = Range(a) \cup Range(f)
        /\ a \o f \in Seq(Items)
    BY <1>3, <1>5, RowFacts
  <1>9. Thinned(a \o f, a \o q) BY <1>3, <1>5, RowThins
  <1>10. Last(items) \in Range(q)
    <2>1. Len(q) \in DOMAIN q BY <1>3
    <2> QED BY <2>1, <1>6 DEF Range
  <1>11. \A k \in DOMAIN f : k \in DOMAIN q /\ f[k] = q[k]
    <2>1. PICK n \in Nat : n = Len(q) BY <1>3
    <2>2. n >= 1 /\ DOMAIN q = 1 .. n BY <2>1, <1>3
    <2>3. f = SubSeq(q, 1, n - 1) BY <1>4, <2>1
    <2>4. Len(f) = n - 1 BY <2>1, <2>2, <2>3
    <2>5. DOMAIN f = 1 .. n - 1 BY <2>4, <1>5
    <2>6. \A k \in 1 .. n - 1 : f[k] = q[k] BY <2>1, <2>2, <2>3, <1>3
    <2> QED BY <2>2, <2>5, <2>6
  <1> QED BY <1>2, <1>3, <1>5, <1>6, <1>7, <1>8, <1>9, <1>10, <1>11

(* What the drain has in its hands is gone. *)
LEMMA LineLosesHands ==
    ASSUME IInv, items' = items, drain'.pending = <<>>
    PROVE  /\ Line' \in Seq(Items) /\ Thinned(Line', Line)
           /\ Range(Line') = Range(Line) \ ItemsOf(drain.pending)
           /\ ItemsOf(drain.pending) \subseteq Range(Line)
  <1>1. PICK a : a = Names(drain.pending) OBVIOUS
  <1>2. PICK q : q = items OBVIOUS
  <1>3. /\ a \in Seq(Items) /\ q \in Seq(Items) /\ Range(a) \cap Range(q) = {}
        /\ Range(Line) = Range(a) \cup Range(q) /\ ItemsOf(drain.pending) = Range(a)
    BY <1>1, <1>2, LineFacts DEF IInv, Lined, ItemsOf
  <1>4. Thinned(q, q) BY <1>3, ThinnedSelf
  <1>5. Thinned(q, a \o q) BY <1>3, <1>4, RowThins
  <1>6. Line = a \o q /\ Line' = <<>> \o q
    <2>1. Names(drain'.pending) = <<>> BY EmptyHands
    <2> QED BY <2>1, <1>1, <1>2 DEF Line
  <1>7. <<>> \o q = q BY <1>3
  <1> QED BY <1>3, <1>5, <1>6, <1>7

(* What it has goes back in front of the queue. *)
LEMMA LineGivenBack ==
    ASSUME IInv, Requeued(drain.pending), drain'.pending = <<>>
    PROVE  Line' = Line /\ items' \in Seq(Items) /\ widgets' \in Seq(Items)
  <1>1. PICK p : p = drain.pending OBVIOUS
  <1>2. /\ p \in Seq(Pair) /\ Names(p) \in Seq(Items) /\ items \in Seq(Items)
        /\ widgets \in Seq(Items)
    BY <1>1, LineFacts DEF IInv, TypeOK
  <1>3. items' = Names(p) \o items /\ widgets' = [k \in DOMAIN p |-> p[k].widget] \o widgets
    BY <1>1 DEF Requeued
  <1>4. items' \in Seq(Items) BY <1>2, <1>3
  <1>5. Line' = Line
    <2>1. Names(drain'.pending) = <<>> BY EmptyHands
    <2>2. Line' = <<>> \o items' BY <2>1 DEF Line
    <2>3. <<>> \o items' = items' BY <1>4
    <2> QED BY <2>2, <2>3, <1>1, <1>3 DEF Line
  <1>6. widgets' \in Seq(Items)
    <2>1. DOMAIN p = 1 .. Len(p) /\ Len(p) \in Nat BY <1>2
    <2>2. PICK w : w = [k \in 1 .. Len(p) |-> p[k].widget] OBVIOUS
    <2>3. \A k \in 1 .. Len(p) : p[k].widget \in Items
      <3>1. \A k \in 1 .. Len(p) : p[k] \in Pair BY <1>2
      <3>2. \A x \in Pair : x.widget \in Items BY DEF Pair, Items
      <3> QED BY <3>1, <3>2
    <2>4. w \in Seq(Items) BY <2>1, <2>2, <2>3
    <2> QED BY <2>1, <2>2, <2>4, <1>2, <1>3
  <1> QED BY <1>4, <1>5, <1>6

(* The first of the line is said. *)
LEMMA LineSaid ==
    ASSUME IInv, items' = items, drain.pending # <<>>, drain'.pending = Tail(drain.pending)
    PROVE  /\ Line # <<>> /\ Head(Line) = Head(drain.pending).item /\ Head(Line) \in Prompts
           /\ Line' = Tail(Line) /\ Line' \in Seq(Items)
           /\ Thinned(Line', Line) /\ Range(Line') = Range(Line) \ {Head(Line)}
           /\ Head(Line) \in Range(Line)
  <1>1. PICK a : a = Names(drain.pending) OBVIOUS
  <1>2. PICK q : q = items OBVIOUS
  <1>3. /\ a \in Seq(Items) /\ q \in Seq(Items) /\ Line = a \o q /\ a # <<>>
        /\ Head(a) = Head(drain.pending).item /\ Head(a) \in Prompts
        /\ Names(Tail(drain.pending)) = Tail(a) /\ IsInjective(Line) /\ Line \in Seq(Items)
    <2>1. drain.pending \in Seq(Pair) BY LineFacts DEF IInv
    <2>2. /\ a # <<>> /\ Head(a) = Head(drain.pending).item /\ Head(a) \in Prompts
          /\ Names(Tail(drain.pending)) = Tail(a)
      BY <2>1, <1>1, NamesFacts
    <2> QED BY <2>2, <1>1, <1>2, LineFacts DEF IInv, Lined, Line
  <1>4. a \o q # <<>> /\ Head(a \o q) = Head(a) /\ Tail(a \o q) = Tail(a) \o q
    <2>1. Len(a) \in Nat /\ Len(a) >= 1 /\ Len(q) \in Nat BY <1>3
    <2>2. PICK c : c = a \o q OBVIOUS
    <2>3. /\ c \in Seq(Items) /\ Len(c) = Len(a) + Len(q)
          /\ \A i \in 1 .. Len(a) : c[i] = a[i]
          /\ \A i \in 1 .. Len(q) : c[Len(a) + i] = q[i]
      BY <2>2, <1>3, RowFacts
    <2>4. c # <<>> /\ Head(c) = Head(a) BY <2>1, <2>3, <1>3
    <2>5. PICK b : b = Tail(a) OBVIOUS
    <2>6. b \in Seq(Items) /\ Len(b) = Len(a) - 1 /\ \A i \in 1 .. Len(a) - 1 : b[i] = a[i + 1]
      BY <2>1, <2>5, <1>3
    <2>7. PICK d : d = b \o q OBVIOUS
    <2>8. /\ d \in Seq(Items) /\ Len(d) = Len(b) + Len(q)
          /\ \A i \in 1 .. Len(b) : d[i] = b[i]
          /\ \A i \in 1 .. Len(q) : d[Len(b) + i] = q[i]
      <3>1. b \in Seq(Items) /\ q \in Seq(Items) BY <2>6, <1>3
      <3> QED BY <3>1, <2>7, RowFacts
    <2>9. PICK t : t = Tail(c) OBVIOUS
    <2>10. t \in Seq(Items) /\ Len(t) = Len(c) - 1 /\ \A i \in 1 .. Len(c) - 1 : t[i] = c[i + 1]
      BY <2>3, <2>4, <2>9
    <2>11. Len(t) = Len(d) BY <2>1, <2>3, <2>6, <2>8, <2>10
    <2>12. ASSUME NEW i \in 1 .. Len(t) PROVE t[i] = d[i]
      <3>1. t[i] = c[i + 1] /\ i \in Nat /\ i <= Len(a) + Len(q) - 1
        BY <2>1, <2>3, <2>10
      <3>2. CASE i <= Len(a) - 1
        <4>1. d[i] = b[i] /\ b[i] = a[i + 1] BY <3>1, <3>2, <2>1, <2>6, <2>8
        <4>2. c[i + 1] = a[i + 1] BY <3>1, <3>2, <2>1, <2>3
        <4> QED BY <3>1, <4>1, <4>2
      <3>3. CASE i > Len(a) - 1
        <4>0. i - (Len(a) - 1) \in 1 .. Len(q) BY <3>1, <3>3, <2>1
        <4>1. PICK k \in 1 .. Len(q) : k = i - (Len(a) - 1) BY <4>0
        <4>2. i = Len(b) + k /\ i + 1 = Len(a) + k BY <4>1, <3>1, <2>1, <2>6
        <4> QED BY <3>1, <4>1, <4>2, <2>3, <2>8
      <3> QED BY <3>1, <3>2, <3>3, <2>1
    <2>13. t = d BY <2>8, <2>10, <2>11, <2>12
    <2> QED BY <2>2, <2>4, <2>5, <2>7, <2>9, <2>13
  <1>5. Line' = Tail(a) \o q
    <2>1. Names(drain'.pending) = Tail(a) BY <1>3
    <2> QED BY <2>1, <1>2 DEF Line
  <1>6. Line # <<>> /\ Line' = Tail(Line) /\ Head(Line) = Head(a) BY <1>3, <1>4, <1>5
  <1>7. PICK l : l = Line OBVIOUS
  <1>8. /\ Tail(l) \in Seq(Items) /\ Range(Tail(l)) = Range(l) \ {Head(l)}
        /\ Thinned(Tail(l), l)
    BY <1>3, <1>6, <1>7, EndsLeave, TailThins
  <1>9. Head(l) \in Range(l)
    <2>1. Head(l) = l[1] /\ 1 \in DOMAIN l BY <1>3, <1>6, <1>7
    <2> QED BY <2>1 DEF Range
  <1> QED BY <1>3, <1>6, <1>7, <1>8, <1>9

-----------------------------------------------------------------------------
(* IInv is inductive: the steps of the drain that take, run or give back. *)

(* A step of the drain takes some items out of the line; one of them may be what
   it runs next, and what it ran is settled.                                 *)
LEMMA DrainActs ==
    ASSUME IInv, UNCHANGED <<enq, entered>>, Rest', Handful(drain'), items' \in Seq(Items),
           outcome' \in [Items -> Outcomes], said' \in Seq(Prompts), Lined', Started',
           NEW gone \in SUBSET Range(Line), Range(Line') = Range(Line) \ gone,
           drain'.item = None \/ drain'.item = drain.item \/ drain'.item \in gone,
           Accepted' = Accepted \ ((gone \cup {drain.item}) \ {drain'.item})
    PROVE  IInv'
  <1>1. TypeOK'
    <2>1. entered' \in Seq(Prompts) BY DEF IInv, TypeOK
    <2>2. enq' \in Handlers BY RestTyped
    <2> QED BY <2>1, <2>2, Typing
  <1>2. Shape'
    <2>1. /\ enq["channel"].pc \notin {"prepare", "direct"}
          /\ \A e \in Enqueuers : enq[e].pc # "idle" => enq[e].item \in Items
          /\ enq["pump"].pc \in {"prepare", "direct"} => enq["pump"].item \in Prompts
      BY DEF IInv, Shape
    <2> QED BY <2>1 DEF Shape, Handful
  <1>3. Entering' = Entering BY DEF Entering
  <1>4. Placed'
    <2>1. PICK l : l = Range(Line) OBVIOUS
    <2>2. PICK m : m = Range(Line') OBVIOUS
    <2>3. PICK i : i = drain'.item OBVIOUS
    <2>4. l \subseteq Items /\ None \notin Items BY <2>1, LineFacts DEF IInv
    <2>5. /\ drain.item \notin l /\ drain.item \notin Entering /\ Entering \cap l = {}
          /\ l \cup ({drain.item} \ {None}) \cup Entering = Accepted
      BY <2>1 DEF IInv, Placed
    <2>6. m = l \ gone /\ gone \subseteq l BY <2>1, <2>2
    <2>7. None \notin Entering
      <3>1. Entering \subseteq Accepted /\ Accepted \subseteq Items BY <2>5 DEF Accepted
      <3> QED BY <3>1, <2>4
    <2>8. i = None \/ i = drain.item \/ i \in gone BY <2>3
    <2>9. i \notin m /\ i \notin Entering /\ Entering \cap m = {}
      BY <2>4, <2>5, <2>6, <2>7, <2>8
    <2>10. m \cup ({i} \ {None}) \cup Entering = Accepted \ ((gone \cup {drain.item}) \ {i})
      BY <2>4, <2>5, <2>6, <2>7, <2>8
    <2> QED BY <2>2, <2>3, <2>9, <2>10, <1>3 DEF Placed
  <1> QED BY <1>1, <1>2, <1>4 DEF IInv

(* What became of each item keeps its type when some are settled. *)
LEMMA SettledTyped ==
    ASSUME IInv, NEW is, NEW how \in Outcomes \ {"accepted"}, Settle(is, how)
    PROVE  outcome' \in [Items -> Outcomes] /\ Accepted' = Accepted \ is
  BY SettleFacts DEF IInv

(* Where the drain is tells what it has in its hands. *)
LEMMA Hands ==
    ASSUME IInv
    PROVE  /\ drain \in Drains /\ drain.pending \in Seq(Pair)
           /\ Fits(drain.pc, drain.pending, drain.item)
           /\ bash = "drain" => drain.pc = "bash" \/ ~enabled
           /\ outcome \in [Items -> Outcomes] /\ said \in Seq(Prompts) /\ items \in Seq(Items)
  BY RestTyped, LineFacts DEF Handful, IInv, Started, TypeOK

(* What is the same for everything the drain takes off the queue. *)
LEMMA TakeChanges ==
    ASSUME IInv, NEW kind, Take(kind)
    PROVE  /\ UNCHANGED <<paused, header, enabled, enq, worker, agent, closing, overlooked, bash,
                          picker, sees, entered, said>>
           /\ drain.pc = "consume" /\ items # <<>> /\ Head(items) \in kind
           /\ items' = Tail(items) /\ drain.item = None
           /\ Head(items) \in Items /\ HeadWidget \in Items \cup {None} /\ Rest'
           /\ bash' = "drain" => ~enabled'
  <1>1. /\ UNCHANGED <<paused, header, enabled, enq, worker, agent, closing, overlooked, bash,
                       picker, sees, entered, said>>
        /\ drain.pc = "consume" /\ items # <<>> /\ Head(items) \in kind
        /\ items' = Tail(items)
        /\ widgets' = IF widgets = <<>> THEN <<>> ELSE Tail(widgets)
    BY DEF Take, jobVars, uiVars
  <1>2. drain.item = None /\ (bash = "drain" => ~enabled) BY <1>1, Hands DEF Fits
  <1>3. widgets \in Seq(Items) /\ items \in Seq(Items) BY DEF IInv, TypeOK
  <1>4. widgets' \in Seq(Items)
    <2>1. CASE widgets = <<>>
      <3>1. widgets' = widgets BY <2>1, <1>1
      <3> QED BY <3>1, <1>3
    <2>2. CASE widgets # <<>> BY <2>2, <1>1, <1>3
    <2> QED BY <2>1, <2>2
  <1>5. Head(items) \in Items BY <1>1, <1>3
  <1>6. HeadWidget \in Items \cup {None}
    <2>1. CASE widgets = <<>> BY <2>1 DEF HeadWidget
    <2>2. CASE widgets # <<>>
      <3>1. Head(widgets) \in Items BY <2>2, <1>3
      <3> QED BY <3>1, <2>2 DEF HeadWidget
    <2> QED BY <2>1, <2>2
  <1>7. Rest' BY <1>1, <1>4, RestTyped DEF Rest
  <1> QED BY <1>1, <1>2, <1>5, <1>6, <1>7

(* A prompt is taken behind those the drain has, or dropped for want of its widget. *)
LEMMA TakePromptKeeps == ASSUME IInv, TakePrompt PROVE IInv'
  <1>1. Take(Prompts) BY DEF TakePrompt
  <1>2. /\ UNCHANGED <<paused, header, enabled, enq, worker, agent, closing, overlooked, bash,
                       picker, sees, entered, said>>
        /\ drain.pc = "consume" /\ items # <<>> /\ Head(items) \in Prompts
        /\ items' = Tail(items) /\ drain.item = None /\ Rest'
        /\ bash' = "drain" => ~enabled'
    BY <1>1, TakeChanges
  <1>3. items' \in Seq(Items) BY <1>2, Hands
  <1>4. CASE HeadWidget \in Prompts
    <2>1. PICK x : x = [item |-> Head(items), widget |-> HeadWidget] OBVIOUS
    <2>2. x \in Pair /\ x.item = Head(items) BY <2>1, <1>2, <1>4 DEF Pair
    <2>3. PICK p : p = Append(drain.pending, x) OBVIOUS
    <2>4. p \in Seq(Pair) /\ Names(p) = Append(Names(drain.pending), Head(items))
      BY <2>2, <2>3, Hands, NamesFacts
    <2>5. PICK d : d = drain' OBVIOUS
    <2>6. d = [drain EXCEPT !.pending = p] /\ UNCHANGED outcome
      BY <1>4, <2>1, <2>3, <2>5 DEF TakePrompt
    <2>7. d \in Drains /\ d.pc = "consume" /\ d.pending = p /\ d.item = None
      BY <1>2, <2>4, <2>6, Hands DEF Drains
    <2>8. Handful(d) BY <2>7 DEF Handful, Fits
    <2>9. Line' = Line
      <3>1. Names(drain.pending) \in Seq(Items) BY LineFacts DEF IInv
      <3>2. Append(Names(drain.pending), Head(items)) \o Tail(items)
               = Names(drain.pending) \o items
        BY <3>1, <1>2, Hands, RowMoves
      <3>3. Names(drain'.pending) = Append(Names(drain.pending), Head(items))
        BY <2>4, <2>5, <2>7
      <3> QED BY <3>2, <3>3, <1>2 DEF Line
    <2>10. Lined'
      <3>1. Line' \in Seq(Items) BY <2>9, LineFacts DEF IInv
      <3> QED BY <3>1, <2>9, <1>2, LinedThins
    <2>11. Started' BY <1>2, <2>5, <2>7, Serving
    <2>12. /\ Range(Line') = Range(Line) \ {} /\ drain'.item = None /\ drain.item = None
           /\ Accepted' = Accepted \ (({} \cup {drain.item}) \ {drain'.item})
      BY <2>5, <2>6, <2>7, <2>9, <1>2 DEF Accepted
    <2>13. /\ outcome' \in [Items -> Outcomes] /\ said' \in Seq(Prompts)
           /\ {} \in SUBSET Range(Line) /\ Handful(drain')
      BY <1>2, <2>5, <2>6, <2>8, Hands
    <2> QED BY <1>2, <1>3, <2>10, <2>11, <2>12, <2>13, DrainActs
  <1>5. CASE HeadWidget \notin Prompts
    <2>1. UNCHANGED drain /\ Settle({Head(items)}, "dropped") BY <1>5 DEF TakePrompt
    <2>2. /\ Line' \in Seq(Items) /\ Thinned(Line', Line)
          /\ Range(Line') = Range(Line) \ {Head(items)} /\ Head(items) \in Range(Line)
      BY <1>2, <2>1, LineTail
    <2>3. Lined' BY <2>2, <1>2, LinedThins
    <2>4. outcome' \in [Items -> Outcomes] /\ Accepted' = Accepted \ {Head(items)}
      BY <2>1, SettledTyped DEF Outcomes
    <2>5. None \notin Accepted BY QueueAssumption DEF Accepted
    <2>6. /\ drain'.item = None /\ {Head(items)} \in SUBSET Range(Line)
          /\ Accepted' = Accepted \ (({Head(items)} \cup {drain.item}) \ {drain'.item})
      BY <2>1, <2>2, <2>4, <2>5, <1>2
    <2>7. Started' BY <1>2, <2>1, Serving
    <2>8. said' \in Seq(Prompts) /\ Handful(drain') BY <1>2, <2>1, Hands, RestTyped
    <2> QED BY <1>2, <1>3, <2>2, <2>3, <2>4, <2>6, <2>7, <2>8, DrainActs
  <1> QED BY <1>4, <1>5

(* A shell line is taken, to be run after the prompts before it. *)
LEMMA TakeBashKeeps == ASSUME IInv, TakeBash PROVE IInv'
  <1>1. Take(Bashes) BY DEF TakeBash
  <1>2. /\ UNCHANGED <<paused, header, enabled, enq, worker, agent, closing, overlooked, bash,
                       picker, sees, entered, said>>
        /\ drain.pc = "consume" /\ items # <<>> /\ Head(items) \in Bashes
        /\ items' = Tail(items) /\ drain.item = None /\ Rest'
        /\ Head(items) \in Items /\ HeadWidget \in Items \cup {None}
        /\ bash' = "drain" => ~enabled'
    BY <1>1, TakeChanges
  <1>3. items' \in Seq(Items) BY <1>2, Hands
  <1>4. PICK d : d = drain' OBVIOUS
  <1>5. PICK h : h = Head(items) OBVIOUS
  <1>6. d = [drain EXCEPT !.pc = "flush", !.item = h, !.widget = HeadWidget]
        /\ UNCHANGED outcome
    BY <1>4, <1>5 DEF TakeBash
  <1>7. d \in Drains /\ d.pc = "flush" /\ d.pending = drain.pending /\ d.item = h
    BY <1>2, <1>5, <1>6, Hands DEF Drains, Places
  <1>8. Handful(d) BY <1>2, <1>5, <1>7 DEF Handful, Fits
  <1>9. /\ Line' \in Seq(Items) /\ Thinned(Line', Line)
        /\ Range(Line') = Range(Line) \ {h} /\ h \in Range(Line)
    BY <1>2, <1>4, <1>5, <1>7, LineTail
  <1>10. Lined' BY <1>2, <1>9, LinedThins
  <1>11. Started' BY <1>2, <1>4, <1>7, Serving
  <1>12. None \notin Accepted BY QueueAssumption DEF Accepted
  <1>13. /\ drain'.item \in {h} /\ {h} \in SUBSET Range(Line)
         /\ Accepted' = Accepted \ (({h} \cup {drain.item}) \ {drain'.item})
    <2>1. Accepted' = Accepted BY <1>6 DEF Accepted
    <2> QED BY <2>1, <1>2, <1>4, <1>7, <1>9, <1>12
  <1>14. outcome' \in [Items -> Outcomes] /\ said' \in Seq(Prompts) /\ Handful(drain')
    BY <1>2, <1>4, <1>6, <1>8, Hands
  <1> QED BY <1>2, <1>3, <1>9, <1>10, <1>11, <1>13, <1>14, DrainActs

(* A command is taken; one that resets the conversation drops the prompts before it. *)
LEMMA TakeCommandKeeps == ASSUME IInv, TakeCommand PROVE IInv'
  <1>1. Take(Commands) BY DEF TakeCommand
  <1>2. /\ UNCHANGED <<paused, header, enabled, enq, worker, agent, closing, overlooked, bash,
                       picker, sees, entered, said>>
        /\ drain.pc = "consume" /\ items # <<>> /\ Head(items) \in Commands
        /\ items' = Tail(items) /\ drain.item = None /\ Rest'
        /\ Head(items) \in Items /\ HeadWidget \in Items \cup {None}
        /\ bash' = "drain" => ~enabled'
    BY <1>1, TakeChanges
  <1>3. items' \in Seq(Items) BY <1>2, Hands
  <1>4. PICK d : d = drain' OBVIOUS
  <1>5. PICK h : h = Head(items) OBVIOUS
  <1>6. PICK p : p = IF h \in Flushing THEN <<>> ELSE drain.pending OBVIOUS
  <1>7. /\ d = [drain EXCEPT !.pc = "uncmd", !.item = h, !.pending = p]
        /\ IF h \in Flushing THEN Settle(ItemsOf(drain.pending), "over") ELSE UNCHANGED outcome
    BY <1>4, <1>5, <1>6 DEF TakeCommand
  <1>8. p \in Seq(Pair) BY <1>6, Hands
  <1>9. d \in Drains /\ d.pc = "uncmd" /\ d.pending = p /\ d.item = h
    BY <1>2, <1>5, <1>7, <1>8, Hands DEF Drains, Places
  <1>10. Handful(d) BY <1>2, <1>5, <1>9 DEF Handful, Fits
  <1>11. None \notin Accepted BY QueueAssumption DEF Accepted
  <1>12. PICK gone : gone = IF h \in Flushing THEN ItemsOf(drain.pending) \cup {h} ELSE {h}
    OBVIOUS
  <1>13. /\ Line' \in Seq(Items) /\ Thinned(Line', Line)
         /\ Range(Line') = Range(Line) \ gone /\ h \in gone /\ gone \subseteq Range(Line)
         /\ h \notin ItemsOf(drain.pending)
    <2>1. PICK a : a = Names(drain.pending) OBVIOUS
    <2>2. PICK q : q = items OBVIOUS
    <2>3. /\ a \in Seq(Items) /\ q \in Seq(Items) /\ q # <<>> /\ IsInjective(q)
          /\ Range(a) \cap Range(q) = {} /\ Line = a \o q
          /\ Range(Line) = Range(a) \cup Range(q) /\ ItemsOf(drain.pending) = Range(a)
      BY <1>2, <2>1, <2>2, LineFacts DEF IInv, Lined, ItemsOf, Line
    <2>4. /\ Tail(q) \in Seq(Items) /\ Range(Tail(q)) = Range(q) \ {h}
          /\ Thinned(Tail(q), q)
      BY <2>2, <2>3, <1>5, EndsLeave, TailThins
    <2>5. h \in Range(q)
      <3>1. h = q[1] /\ 1 \in DOMAIN q BY <1>5, <2>2, <2>3
      <3> QED BY <3>1 DEF Range
    <2>6. CASE h \in Flushing
      <3>1. Names(drain'.pending) = <<>> BY <2>6, <1>4, <1>6, <1>9, EmptyHands
      <3>2. Line' = <<>> \o Tail(q) BY <3>1, <1>2, <2>2 DEF Line
      <3>3. Line' = Tail(q) BY <3>2, <2>4
      <3>4. Thinned(Tail(q), a \o q) BY <2>3, <2>4, RowThins
      <3> QED BY <3>3, <3>4, <2>3, <2>4, <2>5, <2>6, <1>12
    <2>7. CASE h \notin Flushing
      <3>1. drain'.pending = drain.pending BY <2>7, <1>4, <1>6, <1>9
      <3>2. /\ Line' \in Seq(Items) /\ Thinned(Line', Line)
            /\ Range(Line') = Range(Line) \ {h}
        BY <3>1, <1>2, <1>5, LineTail
      <3> QED BY <3>2, <2>3, <2>5, <2>7, <1>12
    <2> QED BY <2>6, <2>7
  <1>14. Lined' BY <1>2, <1>13, LinedThins
  <1>15. Started' BY <1>2, <1>4, <1>9, Serving
  <1>16. /\ outcome' \in [Items -> Outcomes]
         /\ Accepted' = Accepted \ ((gone \cup {drain.item}) \ {drain'.item})
    <2>1. CASE h \in Flushing
      <3>1. /\ outcome' \in [Items -> Outcomes]
            /\ Accepted' = Accepted \ ItemsOf(drain.pending)
        BY <2>1, <1>7, SettledTyped DEF Outcomes
      <3> QED BY <3>1, <2>1, <1>2, <1>4, <1>9, <1>11, <1>12, <1>13
    <2>2. CASE h \notin Flushing
      <3>1. outcome' \in [Items -> Outcomes] /\ Accepted' = Accepted
        BY <2>2, <1>7, Hands DEF Accepted
      <3> QED BY <3>1, <2>2, <1>2, <1>4, <1>9, <1>11, <1>12
    <2> QED BY <2>1, <2>2
  <1>17. said' \in Seq(Prompts) /\ Handful(drain') /\ drain'.item \in gone
    BY <1>2, <1>4, <1>9, <1>10, <1>13, Hands
  <1> QED BY <1>2, <1>3, <1>13, <1>14, <1>15, <1>16, <1>17, DrainActs

(* The prompts go back to the queue, and the drain is left with no more than a
   shell line.                                                               *)
LEMMA BackKeeps ==
    ASSUME IInv, UNCHANGED <<enq, entered, said, outcome, enabled, bash>>,
           Requeued(drain.pending), NEW d, d = drain', Handful(d), d.pending = <<>>,
           d.item = drain.item, d.pc # "off", drain.pc # "bash",
           UNCHANGED <<worker, agent, closing, overlooked, picker, sees>>,
           paused' \in BOOLEAN, header' \in BOOLEAN
    PROVE  IInv'
  <1>1. Line' = Line /\ items' \in Seq(Items) /\ widgets' \in Seq(Items)
    BY LineGivenBack
  <1>2. Line' \in Seq(Items) BY <1>1, LineFacts DEF IInv
  <1>3. Lined' BY <1>1, <1>2, LinedThins
  <1>4. Rest' BY <1>1, RestTyped DEF Rest
  <1>5. Started' BY Serving, Hands
  <1>6. /\ Range(Line') = Range(Line) \ {} /\ {} \in SUBSET Range(Line)
        /\ drain'.item = drain.item
        /\ Accepted' = Accepted \ (({} \cup {drain.item}) \ {drain'.item})
    BY <1>1 DEF Accepted
  <1>7. outcome' \in [Items -> Outcomes] /\ said' \in Seq(Prompts) /\ Handful(drain') BY Hands
  <1> QED BY <1>1, <1>3, <1>4, <1>5, <1>6, <1>7, DrainActs

(* The drain stops taking: it says what it has, or gives it back to a paused queue. *)
LEMMA StopConsumingKeeps == ASSUME IInv, StopConsuming PROVE IInv'
  <1>1. /\ UNCHANGED <<paused, header, enabled, enq, worker, agent, closing, overlooked, bash,
                       picker, sees, outcome, entered, said>>
        /\ drain.pc = "consume"
    BY DEF StopConsuming, jobVars, uiVars, history
  <1>2. drain.item = None /\ paused \in BOOLEAN /\ header \in BOOLEAN
    BY <1>1, Hands, RestTyped DEF Fits, Rest
  <1>3. CASE drain.pending # <<>> /\ paused
    <2>1. Requeued(drain.pending) /\ drain' = [NoDrain EXCEPT !.pc = "top"]
      BY <1>3 DEF StopConsuming
    <2>2. PICK d : d = drain' OBVIOUS
    <2>3. Handful(d) /\ d.pc = "top" /\ d.pending = <<>> /\ d.item = None
      BY <2>1, <2>2, Fresh
    <2> QED BY <2>1, <2>2, <2>3, <1>1, <1>2, BackKeeps
  <1>4. CASE ~(drain.pending # <<>> /\ paused)
    <2>1. PICK p \in {"top", "gate"} :
             p = IF drain.pc = "consume" /\ drain.pending = <<>> THEN "top" ELSE "gate"
      OBVIOUS
    <2>2. drain' = [drain EXCEPT !.pc = p] /\ UNCHANGED <<items, widgets>>
      BY <1>4, <2>1 DEF StopConsuming
    <2>3. Fits(p, drain.pending, drain.item) BY <2>1, <1>1, <1>2 DEF Fits
    <2>4. Rest' BY <1>1, <2>2, RestTyped DEF Rest
    <2>5. p \in Places \ {"off"} BY DEF Places
    <2> QED BY <1>1, <2>2, <2>3, <2>4, <2>5, DrainKeeps
  <1> QED BY <1>3, <1>4

(* Before a shell line the prompts are said, or given back if they are refused. *)
LEMMA FlushKeeps == ASSUME IInv, Flush PROVE IInv'
  <1>1. /\ UNCHANGED <<enabled, enq, worker, agent, closing, overlooked, bash,
                       picker, sees, outcome, entered, said>>
        /\ drain.pc = "flush"
    BY DEF Flush, jobVars, uiVars, history
  <1>2. drain.item \in Bashes \cup Commands BY <1>1, Hands DEF Fits
  <1>3. CASE Refused(drain.pending)
    <2>1. PICK e : e = <<>> OBVIOUS
    <2>2. /\ Requeued(drain.pending) /\ paused' = TRUE /\ header' = TRUE
          /\ drain' = [drain EXCEPT !.pc = "flushgate", !.pending = e]
      BY <1>3, <2>1 DEF Flush, GiveBack
    <2>3. PICK d : d = drain' OBVIOUS
    <2>4. e \in Seq(Pair) BY <2>1
    <2>5. d \in Drains /\ d.pc = "flushgate" /\ d.pending = e /\ d.item = drain.item
      BY <2>2, <2>3, <2>4, Hands DEF Drains, Places
    <2>6. Handful(d) BY <2>1, <2>5, <1>2 DEF Handful, Fits
    <2> QED BY <1>1, <2>1, <2>2, <2>3, <2>5, <2>6, BackKeeps
  <1>4. CASE ~Refused(drain.pending)
    <2>1. PICK p \in {"bashwidget", "flushing"} :
             p = IF drain.pending = <<>> THEN "bashwidget" ELSE "flushing"
      OBVIOUS
    <2>2. drain' = [drain EXCEPT !.pc = p] /\ UNCHANGED <<items, paused, widgets, header>>
      BY <1>4, <2>1 DEF Flush, queueVars
    <2>3. Fits(p, drain.pending, drain.item) BY <2>1, <1>2 DEF Fits
    <2>4. Rest' BY <1>1, <2>2, RestTyped DEF Rest
    <2>5. p \in Places \ {"off"} BY DEF Places
    <2> QED BY <1>1, <2>2, <2>3, <2>4, <2>5, DrainKeeps
  <1> QED BY <1>3, <1>4

(* The drain waits until the session is free, or gives back what it has. *)
LEMMA GateKeeps == ASSUME IInv, Gate PROVE IInv'
  <1>1. /\ UNCHANGED <<enabled, enq, worker, agent, closing, overlooked, bash,
                       picker, sees, outcome, entered, said>>
        /\ drain.pc = "gate"
    BY DEF Gate, jobVars, uiVars, history
  <1>2. drain.item = None /\ drain.pending # <<>> BY <1>1, Hands DEF Fits
  <1>3. CASE Refused(drain.pending)
    <2>1. /\ Requeued(drain.pending) /\ paused' = TRUE /\ header' = TRUE
          /\ drain' = [NoDrain EXCEPT !.pc = "ready"]
      BY <1>3 DEF Gate, GiveBack
    <2>2. PICK d : d = drain' OBVIOUS
    <2>3. Handful(d) /\ d.pc = "ready" /\ d.pending = <<>> /\ d.item = None
      BY <2>1, <2>2, Fresh
    <2> QED BY <1>1, <1>2, <2>1, <2>2, <2>3, BackKeeps
  <1>4. CASE ~Refused(drain.pending)
    <2>1. PICK p \in {"tail", "inject"} : p = IF Len(drain.pending) = 1 THEN "tail" ELSE "inject"
      OBVIOUS
    <2>2. drain' = [drain EXCEPT !.pc = p] /\ UNCHANGED <<items, paused, widgets, header>>
      BY <1>4, <2>1 DEF Gate, queueVars
    <2>3. Fits(p, drain.pending, drain.item)
      <3>1. PICK n \in Nat : n = Len(drain.pending) BY Hands
      <3>2. n # 0 BY <3>1, <1>2, Hands
      <3>3. ASSUME n # 1 PROVE n >= 2 BY <3>2, <3>3
      <3>4. p = "tail" => n = 1 BY <2>1, <3>1
      <3>5. p = "inject" => n >= 2 BY <2>1, <3>1, <3>3
      <3> QED BY <3>1, <3>4, <3>5, <1>2 DEF Fits
    <2>4. Rest' BY <1>1, <2>2, RestTyped DEF Rest
    <2>5. p \in Places \ {"off"} BY DEF Places
    <2> QED BY <1>1, <2>2, <2>3, <2>4, <2>5, DrainKeeps
  <1> QED BY <1>3, <1>4

(* What is said was the drain's first prompt. *)
LEMMA SaidKeeps ==
    ASSUME IInv, UNCHANGED <<items, enq, entered, enabled>>, bash' = bash, Rest',
           drain.pending # <<>>, drain.pc # "bash",
           NEW d, d = drain', Handful(d), d.pending = Tail(drain.pending), d.item = drain.item,
           d.pc # "off", Settle({Head(drain.pending).item}, "over"),
           said' = Append(said, Head(drain.pending).item) \/ said' = said
    PROVE  IInv'
  <1>1. PICK h : h = Head(drain.pending).item OBVIOUS
  <1>2. /\ Line # <<>> /\ Head(Line) = h /\ h \in Prompts /\ Line' = Tail(Line)
        /\ Line' \in Seq(Items) /\ Thinned(Line', Line)
        /\ Range(Line') = Range(Line) \ {h} /\ h \in Range(Line)
    BY <1>1, LineSaid
  <1>3. Lined'
    <2>1. CASE said' = said BY <2>1, <1>2, LinedThins
    <2>2. CASE said' = Append(said, h) BY <2>2, <1>2, LinedSaid
    <2> QED BY <2>1, <2>2, <1>1
  <1>4. outcome' \in [Items -> Outcomes] /\ Accepted' = Accepted \ {h}
    BY <1>1, SettledTyped DEF Outcomes
  <1>5. said' \in Seq(Prompts)
    <2>1. said \in Seq(Prompts) BY Hands
    <2>2. Append(said, h) \in Seq(Prompts) BY <2>1, <1>2
    <2> QED BY <2>1, <2>2, <1>1
  <1>6. Started' BY Serving, Hands
  <1>7. drain.item \notin Range(Line) BY DEF IInv, Placed
  <1>8. /\ drain'.item = drain.item /\ {h} \in SUBSET Range(Line)
        /\ Accepted' = Accepted \ (({h} \cup {drain.item}) \ {drain'.item})
    BY <1>2, <1>4, <1>7
  <1>9. items' \in Seq(Items) /\ Handful(drain') BY Hands
  <1> QED BY <1>2, <1>3, <1>4, <1>5, <1>6, <1>8, <1>9, DrainActs

(* The prompts go into the running turn one by one. *)
LEMMA InjectKeeps == ASSUME IInv, Inject PROVE IInv'
  <1>1. /\ UNCHANGED <<items, paused, widgets, header, enabled, enq, worker, agent, closing,
                       overlooked, bash, picker, sees, entered>>
        /\ drain.pc \in {"flushing", "inject"}
        /\ Settle({Head(drain.pending).item}, "over")
        /\ said' = Append(said, Head(drain.pending).item)
    BY DEF Inject, queueVars, jobVars, uiVars
  <1>2. PICK rest : rest = Tail(drain.pending) OBVIOUS
  <1>3. PICK p : p = IF drain.pc = "flushing" /\ rest = <<>> THEN "bashwidget"
                     ELSE IF drain.pc = "inject" /\ Len(rest) = 1 THEN "tail" ELSE drain.pc
    OBVIOUS
  <1>4. PICK d : d = drain' OBVIOUS
  <1>5. d = [drain EXCEPT !.pending = rest, !.pc = p] BY <1>2, <1>3, <1>4 DEF Inject
  <1>6. Len(drain.pending) \in Nat /\ drain.pending \in Seq(Pair) BY Hands
  <1>7. drain.pending # <<>> /\ (drain.pc = "inject" => Len(drain.pending) >= 2)
    BY <1>1, <1>6, Hands DEF Fits
  <1>8. rest \in Seq(Pair) /\ Len(rest) = Len(drain.pending) - 1 BY <1>2, <1>6, <1>7
  <1>9. p \in Places /\ p # "off" BY <1>1, <1>3 DEF Places
  <1>10. d \in Drains /\ d.pc = p /\ d.pending = rest /\ d.item = drain.item
    BY <1>5, <1>8, <1>9, Hands DEF Drains
  <1>11. Fits(p, rest, drain.item)
    <2>1. CASE drain.pc = "flushing"
      <3>1. drain.item \in Bashes \cup Commands BY <2>1, Hands DEF Fits
      <3>2. p = IF rest = <<>> THEN "bashwidget" ELSE "flushing" BY <2>1, <1>3
      <3> QED BY <3>1, <3>2 DEF Fits
    <2>2. CASE drain.pc = "inject"
      <3>1. drain.item = None BY <2>2, Hands DEF Fits
      <3>2. p = IF Len(rest) = 1 THEN "tail" ELSE "inject" BY <2>2, <1>3
      <3>3. Len(rest) = 1 \/ Len(rest) >= 2
        <4>1. PICK n \in Nat : n = Len(drain.pending) BY <1>6
        <4>2. PICK m \in Int : m = Len(rest) BY <4>1, <1>8
        <4>3. n >= 2 /\ m = n - 1 BY <4>1, <4>2, <2>2, <1>7, <1>8
        <4>4. m = 1 \/ m >= 2 BY <4>3
        <4> QED BY <4>2, <4>4
      <3> QED BY <3>1, <3>2, <3>3 DEF Fits
    <2> QED BY <2>1, <2>2, <1>1
  <1>12. Handful(d) BY <1>10, <1>11 DEF Handful
  <1>13. Rest' BY <1>1, RestTyped DEF Rest
  <1> QED BY <1>1, <1>2, <1>4, <1>7, <1>9, <1>10, <1>12, <1>13, SaidKeeps

(* The last of the prompts begins a turn, or is not sent if one runs already. *)
LEMMA StartTailKeeps == ASSUME IInv, StartTail PROVE IInv'
  <1>1. /\ UNCHANGED <<items, paused, widgets, header, enabled, enq, worker, closing, overlooked,
                       bash, picker, sees, entered>>
        /\ drain.pc = "tail" /\ Settle({Head(drain.pending).item}, "over")
        /\ \/ /\ agent' = "task" /\ said' = Append(said, Head(drain.pending).item)
              /\ drain' = [NoDrain EXCEPT !.pc = "turn"]
           \/ /\ agent' = agent /\ said' = said
              /\ drain' = [NoDrain EXCEPT !.pc = "ready"]
    BY DEF StartTail, queueVars, uiVars
  <1>2. drain.item = None /\ Len(drain.pending) = 1 /\ drain.pending \in Seq(Pair)
    BY <1>1, Hands DEF Fits
  <1>3. drain.pending # <<>> /\ Tail(drain.pending) = <<>>
    <2>1. PICK q : q = drain.pending OBVIOUS
    <2>2. q \in Seq(Pair) /\ Len(q) = 1 BY <2>1, <1>2
    <2>3. q # <<>>
      <3> SUFFICES ASSUME q = <<>> PROVE FALSE OBVIOUS
      <3>1. Len(q) = 0 OBVIOUS
      <3> QED BY <3>1, <2>2
    <2>4. PICK r : r = Tail(q) OBVIOUS
    <2>5. r \in Seq(Pair) /\ Len(r) = Len(q) - 1 BY <2>2, <2>3, <2>4
    <2>6. Len(r) = 0 BY <2>2, <2>5
    <2>7. r = <<>> BY <2>5, <2>6
    <2> QED BY <2>1, <2>3, <2>4, <2>7
  <1>4. PICK d : d = drain' OBVIOUS
  <1>5. Handful(d) /\ d.pc \in {"turn", "ready"} /\ d.pending = <<>> /\ d.item = None
    <2>1. d = [NoDrain EXCEPT !.pc = "turn"] \/ d = [NoDrain EXCEPT !.pc = "ready"]
      BY <1>1, <1>4
    <2> QED BY <2>1, Fresh
  <1>6. Rest' BY <1>1, RestTyped DEF Rest, Turns
  <1> QED BY <1>1, <1>2, <1>3, <1>4, <1>5, <1>6, SaidKeeps

(* The drain dies with what it holds. *)
LEMMA DyingKeeps ==
    ASSUME IInv, DrainDies, UNCHANGED <<items, paused, widgets, enq, worker, agent, closing,
                                        overlooked, bash, picker, sees, entered, said>>,
           \/ enabled' = FALSE
           \/ /\ enabled' = enabled /\ drain.pc # "bash"
              /\ drain.pending # <<>>
    PROVE  IInv'
  <1>1. /\ Settle(ItemsOf(drain.pending) \cup ({drain.item} \ {None}), "lost")
        /\ drain' = NoDrain /\ header' = (header /\ items # <<>>)
    BY DEF DrainDies
  <1>2. PICK d : d = drain' OBVIOUS
  <1>3. Handful(d) /\ d.pc = "off" /\ d.pending = <<>> /\ d.item = None
    BY <1>1, <1>2, NoDrainFacts
  <1>4. PICK gone : gone = ItemsOf(drain.pending) OBVIOUS
  <1>5. /\ Line' \in Seq(Items) /\ Thinned(Line', Line)
        /\ Range(Line') = Range(Line) \ gone /\ gone \subseteq Range(Line)
    BY <1>2, <1>3, <1>4, LineLosesHands
  <1>6. Lined' BY <1>5, LinedThins
  <1>7. /\ outcome' \in [Items -> Outcomes]
        /\ Accepted' = Accepted \ (gone \cup ({drain.item} \ {None}))
    BY <1>1, <1>4, SettledTyped DEF Outcomes
  <1>8. None \notin Accepted BY QueueAssumption DEF Accepted
  <1>9. /\ drain'.item = None
        /\ Accepted' = Accepted \ ((gone \cup {drain.item}) \ {drain'.item})
    BY <1>2, <1>3, <1>7, <1>8
  <1>10. Rest'
    <2>1. enabled' \in BOOLEAN /\ header' \in BOOLEAN
      <3>1. enabled \in BOOLEAN /\ header \in BOOLEAN BY RestTyped DEF Rest
      <3>2. enabled' \in BOOLEAN BY <3>1
      <3>3. header' \in BOOLEAN BY <3>1, <1>1
      <3> QED BY <3>2, <3>3
    <2> QED BY <2>1, RestTyped DEF Rest
  <1>11. Started'
    <2>1. CASE enabled' = FALSE BY <2>1 DEF Started
    <2>2. CASE enabled' = enabled /\ drain.pc # "bash" /\ drain.pending # <<>>
      <3>1. \E i \in Items : outcome'[i] = "lost"
        <4>1. drain.pending \in Seq(Pair) BY Hands
        <4>2. Names(drain.pending) # <<>> /\ Names(drain.pending) \in Seq(Items)
          BY <4>1, <2>2, NamesFacts
        <4>3. 1 \in DOMAIN Names(drain.pending) BY <4>2
        <4>4. PICK i : i \in gone BY <4>3, <1>4 DEF ItemsOf, Range
        <4>5. i \in Items BY <4>4, <1>5, LineFacts DEF IInv
        <4>6. outcome'[i] = "lost" BY <1>1, <1>4, <4>4, <4>5 DEF Settle
        <4> QED BY <4>5, <4>6
      <3>2. bash' = "drain" => ~enabled' BY <2>2, Hands
      <3> QED BY <3>1, <3>2 DEF Started
    <2> QED BY <2>1, <2>2
  <1>12. items' \in Seq(Items) /\ said' \in Seq(Prompts) /\ Handful(drain')
    BY <1>2, <1>3, Hands
  <1> QED BY <1>5, <1>6, <1>7, <1>9, <1>10, <1>11, <1>12, DrainActs

(* The server refuses a prompt, and the drain dies with the others. *)
LEMMA InjectFailsKeeps == ASSUME IInv, InjectFails PROVE IInv'
  <1>1. /\ UNCHANGED <<items, paused, widgets, enabled, enq, worker, agent, closing, overlooked,
                       bash, picker, sees, entered, said>>
        /\ drain.pc \in {"flushing", "inject"} /\ DrainDies
    BY DEF InjectFails, jobVars, uiVars
  <1>2. drain.pending # <<>>
    <2>1. drain.pc = "inject" => Len(drain.pending) >= 2 BY Hands DEF Fits
    <2>2. drain.pc = "flushing" => drain.pending # <<>> BY Hands DEF Fits
    <2>3. drain.pending = <<>> => Len(drain.pending) = 0 OBVIOUS
    <2> QED BY <2>1, <2>2, <2>3, <1>1
  <1> QED BY <1>1, <1>2, DyingKeeps

(* The terminal closes, and the drain with it. *)
LEMMA ShutdownKeeps == ASSUME IInv, Shutdown PROVE IInv'
  <1>1. /\ UNCHANGED <<items, paused, widgets, enq, worker, agent, closing, overlooked,
                       bash, picker, sees, entered, said>>
        /\ enabled' = FALSE /\ DrainDies
    BY DEF Shutdown, jobVars, uiVars
  <1> QED BY <1>1, DyingKeeps

(* What the drain runs is settled. *)
LEMMA RunKeeps ==
    ASSUME IInv, UNCHANGED <<items, enq, entered, said, enabled>>, Rest',
           NEW d, d = drain', Handful(d), d.pending = drain.pending, d.item = None,
           d.pc # "off", bash' = "drain" => d.pc = "bash" \/ ~enabled,
           Settle({drain.item}, "over")
    PROVE  IInv'
  <1>1. Line' = Line
    <2>1. Names(drain'.pending) = Names(drain.pending) OBVIOUS
    <2> QED BY <2>1 DEF Line
  <1>2. Line' \in Seq(Items) BY <1>1, LineFacts DEF IInv
  <1>3. Lined' BY <1>1, <1>2, LinedThins
  <1>4. outcome' \in [Items -> Outcomes] /\ Accepted' = Accepted \ {drain.item}
    BY SettledTyped DEF Outcomes
  <1>5. None \notin Accepted BY QueueAssumption DEF Accepted
  <1>6. /\ drain'.item = None /\ {} \in SUBSET Range(Line) /\ Range(Line') = Range(Line) \ {}
        /\ Accepted' = Accepted \ (({} \cup {drain.item}) \ {drain'.item})
    BY <1>1, <1>4, <1>5
  <1>7. Started' BY Serving
  <1>8. items' \in Seq(Items) /\ said' \in Seq(Prompts) /\ Handful(drain') BY Hands
  <1> QED BY <1>3, <1>4, <1>6, <1>7, <1>8, DrainActs

(* A shell line is run and settled. *)
LEMMA RunBashKeeps ==
    ASSUME IInv, RunBash, drain.pc \in {"bashwidget", "unbash"},
           UNCHANGED <<items, paused, widgets, header, enabled, enq, worker, agent, closing,
                       overlooked, picker, sees, entered, said>>
    PROVE  IInv'
  <1>1. PICK n : n = None OBVIOUS
  <1>2. PICK d : d = drain' OBVIOUS
  <1>3. /\ bash' = "drain" /\ Settle({drain.item}, "over")
        /\ d = [drain EXCEPT !.pc = "bash", !.item = n, !.widget = n]
    BY <1>1, <1>2 DEF RunBash
  <1>4. d \in Drains /\ d.pc = "bash" /\ d.pending = drain.pending /\ d.item = n
    BY <1>1, <1>3, Hands DEF Drains, Places
  <1>5. drain.pending = <<>> BY Hands DEF Fits
  <1>6. Handful(d) BY <1>1, <1>4, <1>5 DEF Handful, Fits
  <1>7. Rest' BY <1>3, RestTyped DEF Rest
  <1> QED BY <1>1, <1>2, <1>3, <1>4, <1>6, <1>7, RunKeeps

(* The shell line's widget is there. *)
LEMMA BashWidgetKeeps == ASSUME IInv, BashWidget PROVE IInv'
  <1>1. /\ UNCHANGED <<items, paused, widgets, header, enabled, enq, worker, agent, closing,
                       overlooked, picker, sees, entered, said>>
        /\ drain.pc = "bashwidget"
    BY DEF BashWidget, queueVars, uiVars
  <1>2. CASE drain.widget = None
    <2>1. RunBash BY <1>2 DEF BashWidget
    <2> QED BY <2>1, <1>1, RunBashKeeps
  <1>3. CASE drain.widget # None
    <2>1. drain' = [drain EXCEPT !.pc = "unbash"] /\ UNCHANGED <<bash, outcome>>
      BY <1>3 DEF BashWidget
    <2>2. Fits("unbash", drain.pending, drain.item) BY <1>1, Hands DEF Fits
    <2>3. Rest' BY <1>1, <2>1, RestTyped DEF Rest
    <2>4. "unbash" \in Places \ {"off"} BY DEF Places
    <2> QED BY <1>1, <2>1, <2>2, <2>3, <2>4, DrainKeeps
  <1> QED BY <1>2, <1>3

(* The shell line begins. *)
LEMMA StartBashKeeps == ASSUME IInv, StartBash PROVE IInv'
  <1>1. /\ UNCHANGED <<items, paused, widgets, header, enabled, enq, worker, agent, closing,
                       overlooked, picker, sees, entered, said>>
        /\ drain.pc = "unbash" /\ RunBash
    BY DEF StartBash, queueVars, uiVars
  <1> QED BY <1>1, RunBashKeeps

(* What a command does leaves a running turn running. *)
LEMMA CommandEffectFacts ==
    ASSUME IInv, CommandEffect
    PROVE  /\ agent' \in {"idle", "compact"} \cup Turns
           /\ picker' \in BOOLEAN /\ sees' \in BOOLEAN
           /\ agent # "idle" => agent' # "idle"
  <1>1. agent \in {"idle", "compact"} \cup Turns /\ picker \in BOOLEAN /\ sees \in BOOLEAN
    BY RestTyped DEF Rest
  <1>2. CASE UNCHANGED <<agent, picker, sees>> BY <1>1, <1>2
  <1>3. CASE agent = "idle" /\ agent' \in {"task", "compact"} /\ UNCHANGED <<picker, sees>>
    BY <1>1, <1>3 DEF Turns
  <1>4. CASE ~picker /\ picker' = TRUE /\ UNCHANGED <<agent, sees>> BY <1>1, <1>4
  <1>5. CASE sees' = ~sees /\ UNCHANGED <<agent, picker>> BY <1>1, <1>5
  <1> QED BY <1>2, <1>3, <1>4, <1>5 DEF CommandEffect

(* A command is run. *)
LEMMA RunCommandKeeps == ASSUME IInv, RunCommand PROVE IInv'
  <1>1. /\ UNCHANGED <<items, paused, widgets, header, enabled, enq, worker, closing,
                       overlooked, bash, entered, said>>
        /\ drain.pc = "uncmd" /\ CommandEffect /\ Settle({drain.item}, "over")
    BY DEF RunCommand, queueVars
  <1>2. PICK n : n = None OBVIOUS
  <1>3. PICK d : d = drain' OBVIOUS
  <1>4. PICK p \in {"cmdturn", "cmdpicker", "consume"} :
           p = IF agent' \in {"task", "compact"} THEN "cmdturn"
               ELSE IF picker' THEN "cmdpicker" ELSE "consume"
    OBVIOUS
  <1>5. d = [drain EXCEPT !.item = n, !.pc = p] BY <1>2, <1>3, <1>4 DEF RunCommand
  <1>6. d \in Drains /\ d.pc = p /\ d.pending = drain.pending /\ d.item = n
    BY <1>2, <1>5, Hands DEF Drains, Places
  <1>7. Handful(d) BY <1>2, <1>6 DEF Handful, Fits
  <1>8. Rest' BY <1>1, CommandEffectFacts, RestTyped DEF Rest
  <1>9. bash' = "drain" => ~enabled BY <1>1, Hands
  <1> QED BY <1>1, <1>2, <1>3, <1>6, <1>7, <1>8, <1>9, RunKeeps

-----------------------------------------------------------------------------
(* IInv is inductive: the handlers that put something in the line, or do not. *)

(* An accepted item joins the line at its end, and its handler will start the
   drain if nobody else does. *)
LEMMA AppendKeeps ==
    ASSUME IInv, NEW e \in Enqueuers, NEW i \in Items, NEW resume \in BOOLEAN,
           AppendItem(e, i, resume),
           UNCHANGED <<enabled, drain, worker, agent, closing, overlooked, bash, picker, sees,
                       said>>,
           outcome' \in [Items -> Outcomes], Accepted' = Accepted \cup {i},
           (\A j \in Items : outcome'[j] # "lost") => (\A j \in Items : outcome[j] # "lost"),
           \/ enq[e].pc = "idle" /\ i \notin Accepted
           \/ enq[e].pc = "prepare" /\ enq[e].item = i,
           i \in Bashes => paused \/ agent # "idle" \/ bash # "idle" \/ drain.pc # "off"
    PROVE  IInv'
  <1>1. /\ items' = Append(items, i) /\ header' = TRUE /\ paused' = paused
        /\ entered' = IF i \in Prompts THEN Append(entered, i) ELSE entered
        /\ widgets' = Append(widgets, i) \/ widgets' = widgets
        /\ \E p \in {"header", "mount"} :
              enq' = [enq EXCEPT ![e] = [pc |-> p, item |-> i, resume |-> resume]]
    BY DEF AppendItem
  <1>2. /\ items \in Seq(Items) /\ widgets \in Seq(Items) /\ entered \in Seq(Prompts)
        /\ said \in Seq(Prompts) /\ enq \in Handlers
    BY RestTyped DEF IInv, TypeOK
  <1>3. PICK p \in {"header", "mount"} :
              enq' = [enq EXCEPT ![e] = [pc |-> p, item |-> i, resume |-> resume]]
    BY <1>1
  <1>4. /\ enq' \in Handlers /\ enq'[e].pc = p /\ enq'[e].item = i /\ enq'[e].resume = resume
        /\ \A f \in Enqueuers \ {e} : enq'[f] = enq[f]
    <2>1. PICK r : r = [pc |-> p, item |-> i, resume |-> resume] OBVIOUS
    <2>2. /\ r \in [pc : {"idle", "prepare", "header", "mount", "direct"},
                    item : Items \cup {None}, resume : BOOLEAN]
          /\ r.pc = p /\ r.item = i /\ r.resume = resume
      BY <2>1
    <2>3. enq' = [enq EXCEPT ![e] = r] BY <2>1, <1>3
    <2> QED BY <2>2, <2>3, <1>2 DEF Handlers
  <1>5. Shape'
    <2>1. /\ enq["channel"].pc \notin {"prepare", "direct"} /\ Handful(drain)
          /\ \A f \in Enqueuers : enq[f].pc # "idle" => enq[f].item \in Items
          /\ enq["pump"].pc \in {"prepare", "direct"} => enq["pump"].item \in Prompts
      BY DEF IInv, Shape
    <2>2. /\ enq'["channel"].pc \notin {"prepare", "direct"}
          /\ \A f \in Enqueuers : enq'[f].pc # "idle" => enq'[f].item \in Items
          /\ enq'["pump"].pc \in {"prepare", "direct"} => enq'["pump"].item \in Prompts
      BY <2>1, <1>4 DEF Enqueuers
    <2> QED BY <2>1, <2>2 DEF Shape, Handful
  <1>6. Entering = IF enq["pump"].pc \in {"prepare", "direct"} THEN {enq["pump"].item} ELSE {}
    BY EnteringIs DEF IInv
  <1>7. Entering' = IF enq'["pump"].pc \in {"prepare", "direct"}
                    THEN {enq'["pump"].item} ELSE {}
    BY <1>5 DEF Shape, Entering, Enqueuers
  <1>8. /\ drain.item \notin Range(Line) /\ drain.item \notin Entering
        /\ Entering \cap Range(Line) = {}
        /\ Range(Line) \cup ({drain.item} \ {None}) \cup Entering = Accepted
    BY DEF IInv, Placed
  <1>9. enq["channel"].pc \notin {"prepare", "direct"} BY DEF IInv, Shape
  <1>10. i # None BY QueueAssumption
  <1>11. i \notin Range(Line) /\ i # drain.item /\ Entering' = Entering \ {i}
    <2>1. CASE e = "channel"
      <3>1. i \notin Accepted BY <2>1, <1>9
      <3>2. enq'["pump"] = enq["pump"] BY <2>1, <1>4 DEF Enqueuers
      <3>3. Entering' = Entering BY <3>2, <1>6, <1>7
      <3> QED BY <3>1, <3>3, <1>8, <1>10
    <2>2. CASE e = "pump"
      <3>1. Entering' = {} BY <2>2, <1>4, <1>7
      <3>2. CASE enq[e].pc = "idle" /\ i \notin Accepted
        <4>1. Entering = {} BY <3>2, <2>2, <1>6
        <4> QED BY <4>1, <3>1, <3>2, <1>8, <1>10
      <3>3. CASE enq[e].pc = "prepare" /\ enq[e].item = i
        <4>1. Entering = {i} BY <3>3, <2>2, <1>6
        <4> QED BY <4>1, <3>1, <1>8
      <3> QED BY <3>2, <3>3
    <2> QED BY <2>1, <2>2 DEF Enqueuers
  <1>12. Line' = Append(Line, i)
    <2>1. PICK a : a = Names(drain.pending) OBVIOUS
    <2>2. a \in Seq(Items) BY <2>1, LineFacts DEF IInv
    <2>3. a \o Append(items, i) = Append(a \o items, i) BY <2>2, <1>2, RowJoins
    <2> QED BY <2>1, <2>3, <1>1 DEF Line
  <1>13. Range(Line') = Range(Line) \cup {i}
    <2>1. PICK l : l = Line OBVIOUS
    <2>2. l \in Seq(Items) /\ IsInjective(l) /\ i \in Items \ Range(l)
      BY <2>1, <1>11, LineFacts DEF IInv, Lined
    <2>3. Range(Append(l, i)) = Range(l) \cup {i} BY <2>2, JoinQueue
    <2> QED BY <2>1, <2>3, <1>12
  <1>14. Lined' BY <1>1, <1>11, <1>12, LinedJoins
  <1>15. Placed'
    <2>1. PICK m : m = Range(Line') OBVIOUS
    <2>2. m = Range(Line) \cup {i} BY <2>1, <1>13
    <2>3. drain.item \notin m /\ drain.item \notin Entering' /\ Entering' \cap m = {}
      BY <2>2, <1>8, <1>11
    <2>4. m \cup ({drain.item} \ {None}) \cup Entering' = Accepted'
      BY <2>2, <1>8, <1>11
    <2> QED BY <2>1, <2>3, <2>4 DEF Placed
  <1>16. TypeOK'
    <2>1. widgets' \in Seq(Items)
      <3>1. Append(widgets, i) \in Seq(Items) BY <1>2
      <3> QED BY <3>1, <1>1, <1>2
    <2>2. Rest' BY <2>1, <1>1, RestTyped DEF Rest
    <2>3. entered' \in Seq(Prompts)
      <3>1. CASE i \in Prompts BY <3>1, <1>1, <1>2
      <3>2. CASE i \notin Prompts BY <3>2, <1>1, <1>2
      <3> QED BY <3>1, <3>2
    <2>4. items' \in Seq(Items) /\ said' \in Seq(Prompts) BY <1>1, <1>2
    <2>5. Handful(drain') BY RestTyped
    <2> QED BY <2>2, <2>3, <2>4, <2>5, <1>4, Typing
  <1>17. Started'
    <2>1. bash' = "drain" => drain'.pc = "bash" \/ ~enabled' BY DEF IInv, Started
    <2>2. ASSUME enabled', ~paused', ~overlooked',
                 \E k \in DOMAIN items' : items'[k] \notin Prompts,
                 \A j \in Items : outcome'[j] # "lost"
          PROVE  \/ drain'.pc # "off" \/ agent' # "idle" \/ closing' # {} \/ bash' # "idle"
                 \/ \E f \in Enqueuers : /\ enq'[f].pc \in {"header", "mount"}
                                         /\ enq'[f].item \in Commands \/ enq'[f].resume
      <3>1. PICK k \in DOMAIN items' : items'[k] \notin Prompts BY <2>2
      <3>2. CASE i \in Commands BY <3>2, <1>4
      <3>3. CASE i \in Bashes BY <3>3, <2>2, <1>1
      <3>4. CASE i \in Prompts
        <4>1. k \in DOMAIN items /\ items[k] = items'[k]
          <5>1. DOMAIN items' = 1 .. Len(items) + 1 /\ items'[Len(items) + 1] = i
            BY <1>1, <1>2
          <5>2. k \in 1 .. Len(items) BY <5>1, <3>1, <3>4, <1>2
          <5> QED BY <5>2, <1>1, <1>2
        <4>2. \/ drain.pc # "off" \/ agent # "idle" \/ closing # {} \/ bash # "idle"
              \/ \E f \in Enqueuers : /\ enq[f].pc \in {"header", "mount"}
                                      /\ enq[f].item \in Commands \/ enq[f].resume
          BY <4>1, <3>1, <2>2, <1>1 DEF IInv, Started
        <4>3. \A f \in Enqueuers : enq[f].pc \in {"header", "mount"} => enq'[f] = enq[f]
          BY <1>4
        <4> QED BY <4>2, <4>3
      <3> QED BY <3>2, <3>3, <3>4 DEF Items
    <2> QED BY <2>1, <2>2 DEF Started
  <1> QED BY <1>5, <1>14, <1>15, <1>16, <1>17 DEF IInv

(* An item just typed is in no line and in nobody's hands. *)
LEMMA NewItem ==
    ASSUME IInv, NEW i \in Items, outcome[i] = "new", NEW how \in Outcomes \ {"lost"},
           Settle({i}, how)
    PROVE  /\ i \notin Accepted /\ outcome' \in [Items -> Outcomes]
           /\ how = "accepted" => Accepted' = Accepted \cup {i}
           /\ how # "accepted" => Accepted' = Accepted
           /\ (\A j \in Items : outcome'[j] # "lost") => (\A j \in Items : outcome[j] # "lost")
  <1>1. i \notin Accepted BY DEF Accepted
  <1>2. /\ outcome' \in [Items -> Outcomes]
        /\ how = "accepted" => Accepted' = Accepted \cup ({i} \cap Items)
        /\ how # "accepted" => Accepted' = Accepted \ {i}
    BY SettleFacts DEF IInv
  <1>3. \A j \in Items : outcome'[j] = IF j = i THEN how ELSE outcome[j] BY DEF Settle
  <1> QED BY <1>1, <1>2, <1>3

(* A command is put in the queue. *)
LEMMA EnqueueCommandKeeps ==
    ASSUME IInv, NEW e \in Enqueuers, NEW c \in Commands, EnqueueCommand(e, c) PROVE IInv'
  <1>1. /\ UNCHANGED <<enabled, drain, worker, agent, closing, overlooked, bash, picker, sees,
                       said>>
        /\ enq[e].pc = "idle" /\ outcome[c] = "new" /\ Settle({c}, "accepted")
        /\ AppendItem(e, c, FALSE)
    BY DEF EnqueueCommand, jobVars, uiVars
  <1>2. c \in Items /\ c \notin Bashes BY QueueAssumption DEF Items
  <1>3. /\ c \notin Accepted /\ outcome' \in [Items -> Outcomes]
        /\ Accepted' = Accepted \cup {c}
        /\ (\A j \in Items : outcome'[j] # "lost") => (\A j \in Items : outcome[j] # "lost")
    BY <1>1, <1>2, NewItem DEF Outcomes
  <1> QED BY <1>1, <1>2, <1>3, AppendKeeps

(* A prepared prompt is put in the queue. *)
LEMMA PromptPreparedKeeps == ASSUME IInv, PromptPrepared PROVE IInv'
  <1>1. PICK i : i = enq["pump"].item OBVIOUS
  <1>2. PICK resume : resume = enq["pump"].resume OBVIOUS
  <1>3. PICK e \in Enqueuers : e = "pump" BY DEF Enqueuers
  <1>4. /\ UNCHANGED <<enabled, drain, worker, agent, closing, overlooked, bash, picker, sees,
                       outcome, said>>
        /\ enq[e].pc = "prepare" /\ AppendItem(e, i, resume)
    BY <1>1, <1>2, <1>3 DEF PromptPrepared, jobVars, uiVars
  <1>5. resume \in BOOLEAN BY <1>2, RestTyped DEF Handlers, Enqueuers
  <1>6. i \in Prompts BY <1>1, <1>3, <1>4 DEF IInv, Shape
  <1>7. i \in Items /\ i \notin Bashes BY <1>6, QueueAssumption DEF Items
  <1>8. i \in Accepted
    <2>1. i \in Entering BY <1>1, <1>3, <1>4, EnteringIs DEF IInv
    <2> QED BY <2>1 DEF IInv, Placed
  <1>9. outcome' \in [Items -> Outcomes] /\ Accepted' = Accepted \cup {i}
    BY <1>4, <1>8, Hands DEF Accepted
  <1> QED BY <1>1, <1>3, <1>4, <1>5, <1>7, <1>9, AppendKeeps

(* The pump's handler takes up a prompt, or is done with it. *)
LEMMA PumpKeeps ==
    ASSUME IInv, UNCHANGED <<items, paused, widgets, header, enabled, drain, worker, closing,
                             overlooked, bash, picker, sees, entered, said>>,
           agent' \in {"idle", "compact"} \cup Turns, agent # "idle" => agent' # "idle",
           NEW r, enq' = [enq EXCEPT !["pump"] = r],
           r \in [pc : {"idle", "prepare", "header", "mount", "direct"},
                  item : Items \cup {None}, resume : BOOLEAN],
           outcome' \in [Items -> Outcomes],
           (\A j \in Items : outcome'[j] # "lost") => (\A j \in Items : outcome[j] # "lost"),
           \/ /\ enq["pump"].pc = "idle" /\ r.pc \in {"prepare", "direct"}
              /\ r.item \in Prompts /\ r.item \notin Accepted
              /\ Accepted' = Accepted \cup {r.item}
           \/ /\ enq["pump"].pc \in {"prepare", "direct"} /\ r.pc = "idle"
              /\ Accepted' = Accepted \ {enq["pump"].item}
    PROVE  IInv'
  <1>1. /\ enq' \in Handlers /\ enq'["pump"] = r /\ enq'["channel"] = enq["channel"]
    BY RestTyped DEF Handlers, Enqueuers
  <1>2. Shape'
    <2>1. /\ enq["channel"].pc \notin {"prepare", "direct"} /\ Handful(drain)
          /\ \A f \in Enqueuers : enq[f].pc # "idle" => enq[f].item \in Items
      BY DEF IInv, Shape
    <2>2. /\ enq'["channel"].pc \notin {"prepare", "direct"}
          /\ \A f \in Enqueuers : enq'[f].pc # "idle" => enq'[f].item \in Items
          /\ enq'["pump"].pc \in {"prepare", "direct"} => enq'["pump"].item \in Prompts
      BY <2>1, <1>1 DEF Enqueuers, Items
    <2> QED BY <2>1, <2>2 DEF Shape, Handful
  <1>3. Entering = IF enq["pump"].pc \in {"prepare", "direct"} THEN {enq["pump"].item} ELSE {}
    BY EnteringIs DEF IInv
  <1>4. Entering' = IF r.pc \in {"prepare", "direct"} THEN {r.item} ELSE {}
    BY <1>1, <1>2 DEF Shape, Entering, Enqueuers
  <1>5. Line' = Line BY DEF Line
  <1>6. Line' \in Seq(Items) BY <1>5, LineFacts DEF IInv
  <1>7. Lined' BY <1>5, <1>6, LinedThins
  <1>8. Placed'
    <2>1. PICK l : l = Range(Line) OBVIOUS
    <2>2. /\ drain.item \notin l /\ drain.item \notin Entering /\ Entering \cap l = {}
          /\ l \cup ({drain.item} \ {None}) \cup Entering = Accepted
      BY <2>1 DEF IInv, Placed
    <2>3. None \notin Prompts BY QueueAssumption DEF Items
    <2>4. CASE /\ enq["pump"].pc = "idle" /\ r.pc \in {"prepare", "direct"}
               /\ r.item \in Prompts /\ r.item \notin Accepted
               /\ Accepted' = Accepted \cup {r.item}
      <3>1. Entering = {} /\ Entering' = {r.item} BY <2>4, <1>3, <1>4
      <3> QED BY <3>1, <2>1, <2>2, <2>3, <2>4, <1>5 DEF Placed
    <2>5. CASE /\ enq["pump"].pc \in {"prepare", "direct"} /\ r.pc = "idle"
               /\ Accepted' = Accepted \ {enq["pump"].item}
      <3>1. Entering = {enq["pump"].item} /\ Entering' = {} BY <2>5, <1>3, <1>4
      <3>2. Accepted' = l \cup ({drain.item} \ {None}) BY <3>1, <2>2, <2>5
      <3> QED BY <3>1, <3>2, <2>1, <2>2, <1>5 DEF Placed
    <2> QED BY <2>4, <2>5
  <1>9. TypeOK'
    <2>1. Rest' BY RestTyped DEF Rest
    <2>2. Handful(drain') BY RestTyped
    <2>3. items' \in Seq(Items) /\ said' \in Seq(Prompts) /\ entered' \in Seq(Prompts)
      BY DEF IInv, TypeOK
    <2> QED BY <2>1, <2>2, <2>3, <1>1, Typing
  <1>10. Started'
    <2>1. \A f \in Enqueuers : enq[f].pc \in {"header", "mount"} => enq'[f] = enq[f]
      BY <1>1 DEF Enqueuers
    <2> QED BY <2>1 DEF IInv, Started
  <1> QED BY <1>2, <1>7, <1>8, <1>9, <1>10 DEF IInv

(* An item is typed while the queue is in use. *)
LEMMA SubmitQueuedKeeps == ASSUME IInv, NEW i \in Items, SubmitQueued(i) PROVE IInv'
  <1>1. /\ UNCHANGED <<enabled, drain, worker, agent, closing, overlooked, bash, picker, sees,
                       said>>
        /\ enq["pump"].pc = "idle" /\ outcome[i] = "new" /\ Settle({i}, "accepted")
        /\ paused \/ agent # "idle" \/ bash # "idle" \/ drain.pc # "off"
    BY DEF SubmitQueued, IsBusy, jobVars, uiVars
  <1>2. /\ i \notin Accepted /\ outcome' \in [Items -> Outcomes]
        /\ Accepted' = Accepted \cup {i}
        /\ (\A j \in Items : outcome'[j] # "lost") => (\A j \in Items : outcome[j] # "lost")
    BY <1>1, NewItem DEF Outcomes
  <1>3. paused \in BOOLEAN /\ agent \in {"idle", "compact"} \cup Turns BY RestTyped DEF Rest
  <1>4. CASE i \in Prompts
    <2>1. PICK r : r = [pc |-> "prepare", item |-> i, resume |-> paused] OBVIOUS
    <2>2. /\ r \in [pc : {"idle", "prepare", "header", "mount", "direct"},
                    item : Items \cup {None}, resume : BOOLEAN]
          /\ r.pc = "prepare" /\ r.item = i
      BY <2>1, <1>3
    <2>3. /\ enq' = [enq EXCEPT !["pump"] = r]
          /\ UNCHANGED <<items, paused, widgets, header, entered>>
      BY <1>4, <2>1 DEF SubmitQueued, queueVars
    <2> QED BY <1>1, <1>2, <1>3, <1>4, <2>2, <2>3, PumpKeeps
  <1>5. CASE i \notin Prompts
    <2>1. AppendItem("pump", i, paused) BY <1>5 DEF SubmitQueued
    <2>2. "pump" \in Enqueuers BY DEF Enqueuers
    <2> QED BY <2>1, <2>2, <1>1, <1>2, <1>3, AppendKeeps
  <1> QED BY <1>4, <1>5

(* A prompt that is given up, or shown, is settled. *)
LEMMA PromptSettledKeeps == ASSUME IInv, PromptAborted \/ DirectShown PROVE IInv'
  <1>1. /\ UNCHANGED <<items, paused, widgets, header, enabled, drain, worker, closing,
                       overlooked, bash, picker, sees, entered, said>>
        /\ enq["pump"].pc \in {"prepare", "direct"} /\ enq' = [enq EXCEPT !["pump"] = Idle]
        /\ \E how \in {"over", "unsent"} : Settle({enq["pump"].item}, how)
        /\ agent' = agent \/ agent' = "task"
    <2>1. CASE PromptAborted
      BY <2>1 DEF PromptAborted, queueVars, jobVars, uiVars
    <2>2. CASE DirectShown BY <2>2 DEF DirectShown, queueVars, uiVars
    <2> QED BY <2>1, <2>2
  <1>2. PICK how \in {"over", "unsent"} : Settle({enq["pump"].item}, how) BY <1>1
  <1>3. outcome' \in [Items -> Outcomes] /\ Accepted' = Accepted \ {enq["pump"].item}
    BY <1>2, SettledTyped DEF Outcomes
  <1>4. (\A j \in Items : outcome'[j] # "lost") => (\A j \in Items : outcome[j] # "lost")
    <2>1. \A j \in Items : outcome'[j] = IF j \in {enq["pump"].item} THEN how ELSE outcome[j]
      BY <1>2 DEF Settle
    <2>2. enq["pump"].item \in Accepted
      <3>1. enq["pump"].item \in Entering BY <1>1, EnteringIs DEF IInv
      <3> QED BY <3>1 DEF IInv, Placed
    <2>3. outcome[enq["pump"].item] = "accepted" BY <2>2 DEF Accepted
    <2> QED BY <2>1, <2>3
  <1>5. PICK r : r = Idle OBVIOUS
  <1>6. /\ r \in [pc : {"idle", "prepare", "header", "mount", "direct"},
                  item : Items \cup {None}, resume : BOOLEAN]
        /\ r.pc = "idle"
    BY <1>5 DEF Idle
  <1>7. agent' \in {"idle", "compact"} \cup Turns /\ (agent # "idle" => agent' # "idle")
    BY <1>1, RestTyped DEF Rest, Turns
  <1> QED BY <1>1, <1>3, <1>4, <1>5, <1>6, <1>7, PumpKeeps

(* An item is typed while nothing runs. *)
LEMMA SubmitIdleKeeps == ASSUME IInv, NEW i \in Items, SubmitIdle(i) PROVE IInv'
  <1>1. /\ UNCHANGED <<items, paused, widgets, header, enabled, drain, worker, overlooked,
                       entered, said>>
        /\ enq["pump"].pc = "idle" /\ outcome[i] = "new"
    BY DEF SubmitIdle, queueVars
  <1>2. CASE /\ i \in Prompts
             /\ enq' = [enq EXCEPT !["pump"] = [Idle EXCEPT !.pc = "direct", !.item = i]]
             /\ Settle({i}, "accepted")
             /\ UNCHANGED <<jobVars, uiVars>>
    <2>1. PICK r : r = [Idle EXCEPT !.pc = "direct", !.item = i] OBVIOUS
    <2>2. r = [pc |-> "direct", item |-> i, resume |-> FALSE] BY <2>1 DEF Idle
    <2>3. /\ r \in [pc : {"idle", "prepare", "header", "mount", "direct"},
                    item : Items \cup {None}, resume : BOOLEAN]
          /\ r.pc = "direct" /\ r.item = i
      BY <2>2
    <2>4. /\ i \notin Accepted /\ outcome' \in [Items -> Outcomes]
          /\ Accepted' = Accepted \cup {i}
          /\ (\A j \in Items : outcome'[j] # "lost") => (\A j \in Items : outcome[j] # "lost")
      BY <1>1, <1>2, NewItem DEF Outcomes
    <2>5. agent \in {"idle", "compact"} \cup Turns BY RestTyped DEF Rest
    <2>6. UNCHANGED <<agent, closing, overlooked, bash, picker, sees>> BY <1>2 DEF jobVars, uiVars
    <2> QED BY <1>1, <1>2, <2>1, <2>3, <2>4, <2>5, <2>6, PumpKeeps
  <1>3. ASSUME UNCHANGED <<enq, closing>>, Settle({i}, "over"), Rest',
               agent # "idle" => agent' # "idle", bash' = bash \/ bash' = "user"
        PROVE  IInv'
    <2>1. /\ i \notin Accepted /\ outcome' \in [Items -> Outcomes] /\ Accepted' = Accepted
          /\ (\A j \in Items : outcome'[j] # "lost") => (\A j \in Items : outcome[j] # "lost")
      <3>1. "over" \in Outcomes \ {"lost"} BY DEF Outcomes
      <3>2. i \notin Accepted /\ outcome' \in [Items -> Outcomes]
        BY <3>1, <1>1, <1>3, NewItem
      <3>3. Accepted' = Accepted BY <3>1, <1>1, <1>3, NewItem
      <3>4. (\A j \in Items : outcome'[j] # "lost") => (\A j \in Items : outcome[j] # "lost")
        BY <3>1, <1>1, <1>3, NewItem
      <3> QED BY <3>2, <3>3, <3>4
    <2>2. Line' = Line BY <1>1 DEF Line
    <2>3. Line' \in Seq(Items) BY <2>2, LineFacts DEF IInv
    <2>4. Lined' BY <2>2, <2>3, <1>1, LinedThins
    <2>5. Started' BY <2>1, <1>1, <1>3 DEF IInv, Started
    <2>6. /\ drain'.item = drain.item /\ {} \in SUBSET Range(Line)
          /\ Range(Line') = Range(Line) \ {}
          /\ Accepted' = Accepted \ (({} \cup {drain.item}) \ {drain'.item})
      BY <2>1, <2>2, <1>1
    <2>7. items' \in Seq(Items) /\ said' \in Seq(Prompts) /\ Handful(drain')
      BY <1>1, Hands, RestTyped
    <2> QED BY <1>1, <1>3, <2>1, <2>4, <2>5, <2>6, <2>7, DrainActs
  <1>4. CASE /\ i \in Bashes
             /\ bash' = "user" /\ Settle({i}, "over")
             /\ UNCHANGED <<enq, agent, closing, uiVars>>
    <2>1. Rest' BY <1>1, <1>4, RestTyped DEF Rest, uiVars
    <2> QED BY <2>1, <1>3, <1>4
  <1>5. CASE /\ i \in Commands
             /\ CommandEffect /\ Settle({i}, "over")
             /\ UNCHANGED <<enq, closing, bash>>
    <2>1. /\ agent' \in {"idle", "compact"} \cup Turns /\ picker' \in BOOLEAN /\ sees' \in BOOLEAN
          /\ agent # "idle" => agent' # "idle"
      BY <1>5, CommandEffectFacts
    <2>2. Rest' BY <2>1, <1>1, <1>5, RestTyped DEF Rest
    <2> QED BY <2>1, <2>2, <1>3, <1>5
  <1> QED BY <1>2, <1>4, <1>5 DEF SubmitIdle

(* Ctrl+C takes the last item out of the line. *)
LEMMA PopLastKeeps == ASSUME IInv, PopLast PROVE IInv'
  <1>1. /\ UNCHANGED <<enabled, drain, enq, agent, closing, overlooked, bash, picker, sees,
                       entered, said>>
        /\ items # <<>> /\ items' = Front(items) /\ paused' = (paused /\ items' # <<>>)
        /\ Settle({Last(items)}, "over")
        /\ IF Last(items) \in Reverting
           THEN /\ worker' = [pc |-> "discard", item |-> Last(items)]
                /\ UNCHANGED <<widgets, header>>
           ELSE PopWidget(Front(items))
    BY DEF PopLast, jobVars, uiVars
  <1>2. /\ Line' \in Seq(Items) /\ Thinned(Line', Line)
        /\ Range(Line') = Range(Line) \ {Last(items)}
        /\ Last(items) \in Range(Line) /\ items' \in Seq(Items)
        /\ \A k \in DOMAIN items' : k \in DOMAIN items /\ items'[k] = items[k]
    BY <1>1, LineFront
  <1>3. Lined' BY <1>1, <1>2, LinedThins
  <1>4. outcome' \in [Items -> Outcomes] /\ Accepted' = Accepted \ {Last(items)}
    BY <1>1, SettledTyped DEF Outcomes
  <1>5. Last(items) \in Items BY <1>2, LineFacts DEF IInv
  <1>6. Rest'
    <2>1. header \in BOOLEAN /\ paused \in BOOLEAN /\ widgets \in Seq(Items)
      BY RestTyped DEF Rest
    <2>2. header' \in BOOLEAN
      <3>1. CASE Last(items) \in Reverting BY <3>1, <2>1, <1>1
      <3>2. CASE Last(items) \notin Reverting BY <3>2, <2>1, <1>1 DEF PopWidget
      <3> QED BY <3>1, <3>2
    <2>3. paused' \in BOOLEAN BY <2>1, <1>1
    <2>4. worker' \in [pc : {"idle", "discard", "remove"}, item : Items \cup {None}]
      BY <1>1, <1>5 DEF PopWidget
    <2>5. widgets' \in Seq(Items)
      <3>1. widgets' = widgets \/ (widgets # <<>> /\ widgets' = Front(widgets))
        BY <1>1 DEF PopWidget
      <3>2. CASE widgets # <<>> /\ widgets' = Front(widgets) BY <2>1, <3>2 DEF Front
      <3> QED BY <3>1, <3>2, <2>1
    <2> QED BY <2>2, <2>3, <2>4, <2>5, <1>1, RestTyped DEF Rest
  <1>7. drain.item \notin Range(Line) BY DEF IInv, Placed
  <1>8. /\ drain'.item = drain.item /\ {Last(items)} \in SUBSET Range(Line)
        /\ Accepted' = Accepted \ (({Last(items)} \cup {drain.item}) \ {drain'.item})
    BY <1>1, <1>2, <1>4, <1>7
  <1>9. Started'
    <2>1. bash' = "drain" => drain'.pc = "bash" \/ ~enabled' BY <1>1 DEF IInv, Started
    <2>2. ASSUME enabled', ~paused', ~overlooked',
                 \E k \in DOMAIN items' : items'[k] \notin Prompts,
                 \A j \in Items : outcome'[j] # "lost"
          PROVE  \/ drain'.pc # "off" \/ agent' # "idle" \/ closing' # {} \/ bash' # "idle"
                 \/ \E f \in Enqueuers : /\ enq'[f].pc \in {"header", "mount"}
                                         /\ enq'[f].item \in Commands \/ enq'[f].resume
      <3>1. items' # <<>> BY <2>2
      <3>2. ~paused BY <3>1, <2>2, <1>1
      <3>3. \E k \in DOMAIN items : items[k] \notin Prompts BY <2>2, <1>2
      <3>4. \A j \in Items : outcome[j] # "lost"
        <4>1. Last(items) \in Accepted BY <1>2 DEF IInv, Placed
        <4>2. outcome[Last(items)] = "accepted" BY <4>1 DEF Accepted
        <4>3. \A j \in Items : outcome'[j] = IF j \in {Last(items)} THEN "over" ELSE outcome[j]
          BY <1>1 DEF Settle
        <4> QED BY <4>2, <4>3, <2>2
      <3> QED BY <3>2, <3>3, <3>4, <2>2, <1>1 DEF IInv, Started
    <2> QED BY <2>1, <2>2 DEF Started
  <1>10. said' \in Seq(Prompts) /\ Handful(drain') BY <1>1, Hands, RestTyped
  <1> QED BY <1>1, <1>2, <1>3, <1>4, <1>6, <1>8, <1>9, <1>10, DrainActs

(* A handler is through: it starts the drain if it should. *)
LEMMA WidgetMountedKeeps ==
    ASSUME IInv, NEW e \in Enqueuers, WidgetMounted(e) PROVE IInv'
  <1>1. /\ UNCHANGED <<items, widgets, header, enabled, worker, agent, closing, bash,
                       picker, sees, outcome, entered, said>>
        /\ enq[e].pc = "mount" /\ paused' = (paused /\ ~enq[e].resume)
        /\ overlooked' = (overlooked /\ enq[e].item \notin Commands /\ ~enq[e].resume)
        /\ enq' = [enq EXCEPT ![e] = Idle]
        /\ drain' = IF enq[e].item \in Commands \/ enq[e].resume
                    THEN DrainStarted(items, paused', agent, bash) ELSE drain
    BY DEF WidgetMounted, jobVars, uiVars, history
  <1>2. enq \in Handlers /\ paused \in BOOLEAN /\ Handful(drain) BY RestTyped DEF Rest
  <1>3. enq[e].resume \in BOOLEAN BY <1>2 DEF Handlers
  <1>4. /\ paused' \in BOOLEAN /\ (paused' => paused) /\ (enq[e].resume => ~paused')
        /\ (~enq[e].resume => paused' = paused)
    BY <1>1, <1>2, <1>3
  <1>5. PICK d : d = drain' OBVIOUS
  <1>6. PICK x : x = paused' OBVIOUS
  <1>7. ASSUME enq[e].item \in Commands \/ enq[e].resume
        PROVE  /\ Handful(d) /\ d.pending = drain.pending /\ d.item = drain.item
               /\ d = drain \/ d.pc = "ready"
               /\ d = drain \/ drain.pc = "off"
               /\ d.pc # "off" \/ ~enabled \/ items = <<>> \/ x \/ agent # "idle" \/ bash # "idle"
    <2>1. d = DrainStarted(items, x, agent, bash) /\ x \in BOOLEAN
      BY <1>1, <1>4, <1>5, <1>6, <1>7
    <2>2. Handful(d) /\ d.pending = drain.pending /\ d.item = drain.item
      BY <2>1, DrainStartedFacts
    <2>3. d = drain \/ d.pc = "ready" BY <2>1, DrainStartedFacts
    <2>4. d.pc # "off" \/ ~enabled \/ items = <<>> \/ x \/ agent # "idle" \/ bash # "idle"
      BY <2>1, DrainStartedFacts
    <2>5. d = drain \/ drain.pc = "off" BY <2>1 DEF DrainStarted
    <2> QED BY <2>2, <2>3, <2>4, <2>5
  <1>8. ~(enq[e].item \in Commands \/ enq[e].resume) => d = drain BY <1>1, <1>5
  <1>9. /\ Handful(d) /\ d.pending = drain.pending /\ d.item = drain.item
        /\ d = drain \/ d.pc = "ready"
        /\ d = drain \/ drain.pc = "off"
    <2>1. CASE enq[e].item \in Commands \/ enq[e].resume BY <2>1, <1>7
    <2>2. CASE ~(enq[e].item \in Commands \/ enq[e].resume) BY <2>2, <1>2, <1>8
    <2> QED BY <2>1, <2>2
  <1>10. PICK r : r = Idle OBVIOUS
  <1>11. /\ r \in [pc : {"idle", "prepare", "header", "mount", "direct"},
                   item : Items \cup {None}, resume : BOOLEAN]
         /\ r.pc = "idle"
    BY <1>10 DEF Idle
  <1>12. enq' \in Handlers /\ enq'[e] = r /\ \A f \in Enqueuers \ {e} : enq'[f] = enq[f]
    BY <1>1, <1>2, <1>10, <1>11 DEF Handlers
  <1>13. Shape'
    <2>1. /\ enq["channel"].pc \notin {"prepare", "direct"}
          /\ \A f \in Enqueuers : enq[f].pc # "idle" => enq[f].item \in Items
          /\ enq["pump"].pc \in {"prepare", "direct"} => enq["pump"].item \in Prompts
      BY DEF IInv, Shape
    <2>2. /\ enq'["channel"].pc \notin {"prepare", "direct"}
          /\ \A f \in Enqueuers : enq'[f].pc # "idle" => enq'[f].item \in Items
          /\ enq'["pump"].pc \in {"prepare", "direct"} => enq'["pump"].item \in Prompts
      BY <2>1, <1>11, <1>12 DEF Enqueuers
    <2>3. Handful(drain') BY <1>5, <1>9
    <2> QED BY <2>2, <2>3 DEF Shape, Handful
  <1>14. Entering' = Entering
    <2>1. /\ enq["pump"].pc \in {"prepare", "direct"} => enq'["pump"] = enq["pump"]
          /\ enq["pump"].pc \notin {"prepare", "direct"}
                => enq'["pump"].pc \notin {"prepare", "direct"}
      BY <1>1, <1>11, <1>12 DEF Enqueuers
    <2>2. Entering = IF enq["pump"].pc \in {"prepare", "direct"} THEN {enq["pump"].item} ELSE {}
      BY EnteringIs DEF IInv
    <2>3. Entering' = IF enq'["pump"].pc \in {"prepare", "direct"}
                      THEN {enq'["pump"].item} ELSE {}
      BY <1>13 DEF Shape, Entering, Enqueuers
    <2> QED BY <2>1, <2>2, <2>3
  <1>15. Lined' /\ Placed'
    <2>1. Names(drain'.pending) = Names(drain.pending) BY <1>5, <1>9
    <2>2. Line' = Line BY <2>1, <1>1 DEF Line
    <2>3. Line' \in Seq(Items) BY <2>2, LineFacts DEF IInv
    <2>4. Lined' BY <2>2, <2>3, <1>1, LinedThins
    <2>5. drain'.item = drain.item BY <1>5, <1>9
    <2>6. Placed' BY <2>2, <2>5, <1>1, <1>14 DEF IInv, Placed, Accepted
    <2> QED BY <2>4, <2>6
  <1>16. TypeOK'
    <2>1. Rest'
      <3>1. overlooked \in BOOLEAN BY RestTyped DEF Rest
      <3>2. overlooked' \in BOOLEAN BY <3>1, <1>1
      <3> QED BY <3>2, <1>1, <1>4, RestTyped DEF Rest
    <2>2. Handful(drain') BY <1>5, <1>9
    <2>3. /\ items' \in Seq(Items) /\ said' \in Seq(Prompts) /\ entered' \in Seq(Prompts)
          /\ outcome' \in [Items -> Outcomes]
      BY <1>1 DEF IInv, TypeOK
    <2> QED BY <2>1, <2>2, <2>3, <1>12, Typing
  <1>17. Started'
    <2>1. bash' = "drain" => drain'.pc = "bash" \/ ~enabled'
      BY <1>1, <1>5, <1>9 DEF IInv, Started
    <2>2. ASSUME enabled', ~paused', ~overlooked',
                 \E k \in DOMAIN items' : items'[k] \notin Prompts,
                 \A i \in Items : outcome'[i] # "lost"
          PROVE  \/ drain'.pc # "off" \/ agent' # "idle" \/ closing' # {} \/ bash' # "idle"
                 \/ \E f \in Enqueuers : /\ enq'[f].pc \in {"header", "mount"}
                                         /\ enq'[f].item \in Commands \/ enq'[f].resume
      <3>1. items # <<>> BY <2>2, <1>1
      <3>2. CASE enq[e].item \in Commands \/ enq[e].resume
        BY <3>1, <3>2, <2>2, <1>1, <1>5, <1>6, <1>7
      <3>3. CASE ~(enq[e].item \in Commands \/ enq[e].resume)
        <4>1. ~paused /\ ~overlooked /\ d = drain BY <3>3, <2>2, <1>1, <1>3, <1>4, <1>8
        <4>2. \/ drain.pc # "off" \/ agent # "idle" \/ closing # {} \/ bash # "idle"
              \/ \E f \in Enqueuers : /\ enq[f].pc \in {"header", "mount"}
                                      /\ enq[f].item \in Commands \/ enq[f].resume
          BY <4>1, <2>2, <1>1 DEF IInv, Started
        <4>3. \A f \in Enqueuers :
                 enq[f].item \in Commands \/ enq[f].resume => enq'[f] = enq[f]
          BY <3>3, <1>12
        <4> QED BY <4>1, <4>2, <4>3, <1>1, <1>5
      <3> QED BY <3>2, <3>3
    <2> QED BY <2>1, <2>2 DEF Started
  <1> QED BY <1>13, <1>15, <1>16, <1>17 DEF IInv

-----------------------------------------------------------------------------
(* IInv is inductive. *)

(* The invariant holds of an empty queue. *)
LEMMA InitIInv == ASSUME Init PROVE IInv
  <1>1. /\ items = <<>> /\ paused = FALSE /\ widgets = <<>> /\ header = FALSE
        /\ enabled = TRUE /\ drain = NoDrain
        /\ enq = [e \in Enqueuers |-> Idle]
        /\ worker = [pc |-> "idle", item |-> None]
        /\ agent = "idle" /\ closing = {} /\ bash = "idle" /\ overlooked = FALSE
        /\ picker = FALSE /\ sees \in BOOLEAN
        /\ entered = <<>> /\ said = <<>>
        /\ outcome \in [Items -> {"new", "over"}]
    BY DEF Init
  <1>2. Handful(drain) /\ drain.pc = "off" /\ drain.pending = <<>> /\ drain.item = None
    BY <1>1, NoDrainFacts
  <1>3. /\ drain.pc \in Places /\ drain.pending \in Seq(Pair)
        /\ drain.item \in Items \cup {None} /\ drain.widget \in Items \cup {None}
    BY <1>2 DEF Handful, Drains
  <1>4. \A e \in Enqueuers : enq[e].pc = "idle" /\ enq[e].item = None /\ enq[e].resume = FALSE
    BY <1>1 DEF Idle
  <1>5. enq \in [Enqueuers -> [pc : {"idle", "prepare", "header", "mount", "direct"},
                               item : Items \cup {None}, resume : BOOLEAN]]
    BY <1>1 DEF Idle
  <1>6. TypeOK
    <2>1. items \in Seq(Items) /\ widgets \in Seq(Items) /\ entered \in Seq(Prompts)
          /\ said \in Seq(Prompts)
      BY <1>1
    <2>2. outcome \in [Items -> Outcomes] BY <1>1 DEF Outcomes
    <2>3. worker \in [pc : {"idle", "discard", "remove"}, item : Items \cup {None}] BY <1>1
    <2> QED BY <2>1, <2>2, <2>3, <1>1, <1>3, <1>5 DEF TypeOK, Places
  <1>7. Shape BY <1>2, <1>4 DEF Shape, Enqueuers
  <1>8. Line = <<>>
    <2>1. Names(drain.pending) = <<>> BY <1>2, EmptyHands
    <2> QED BY <2>1, <1>1 DEF Line
  <1>9. Range(Line) = {} /\ DOMAIN Line = {} /\ Range(said) = {} /\ DOMAIN said = {}
    <2>1. DOMAIN Line = {} /\ DOMAIN said = {} BY <1>1, <1>8
    <2> QED BY <2>1 DEF Range
  <1>10. Lined BY <1>9 DEF Lined, IsInjective
  <1>11. Entering = {} BY <1>4 DEF Entering
  <1>12. Accepted = {} BY <1>1 DEF Accepted
  <1>13. Placed BY <1>2, <1>9, <1>11, <1>12 DEF Placed
  <1>14. Started
    <2>1. DOMAIN items = {} BY <1>1
    <2> QED BY <2>1, <1>1 DEF Started
  <1> QED BY <1>6, <1>7, <1>10, <1>13, <1>14 DEF IInv

(* Every step keeps the invariant. *)
LEMMA StepIInv == ASSUME IInv, [Next]_vars PROVE IInv'
  <1>1. CASE UserActs
    <2>1. ASSUME NEW i \in Items, SubmitQueued(i) PROVE IInv' BY <2>1, SubmitQueuedKeeps
    <2>2. ASSUME NEW i \in Items, SubmitIdle(i) PROVE IInv' BY <2>2, SubmitIdleKeeps
    <2>3. ASSUME NEW e \in Enqueuers, NEW c \in Commands, EnqueueCommand(e, c) PROVE IInv'
      BY <2>3, EnqueueCommandKeeps
    <2>4. CASE PopLast BY <2>4, PopLastKeeps
    <2>5. CASE Escape BY <2>5, EscapeKeeps
    <2>6. CASE ResumeQueue BY <2>6, ResumeQueueKeeps
    <2>7. CASE SwitchPicker BY <2>7, SwitchPickerKeeps
    <2>8. CASE Shutdown BY <2>8, ShutdownKeeps
    <2> QED BY <1>1, <2>1, <2>2, <2>3, <2>4, <2>5, <2>6, <2>7, <2>8 DEF UserActs
  <1>2. CASE HandlerRuns
    <2>1. CASE PromptPrepared BY <2>1, PromptPreparedKeeps
    <2>2. CASE PromptAborted \/ DirectShown BY <2>2, PromptSettledKeeps
    <2>3. ASSUME NEW e \in Enqueuers, HeaderMounted(e) PROVE IInv' BY <2>3, HeaderMountedKeeps
    <2>4. ASSUME NEW e \in Enqueuers, WidgetMounted(e) PROVE IInv' BY <2>4, WidgetMountedKeeps
    <2>5. CASE Discarded \/ WidgetRemoved BY <2>5, WorkerKeeps
    <2> QED BY <1>2, <2>1, <2>2, <2>3, <2>4, <2>5 DEF HandlerRuns
  <1>3. CASE DrainSteps
    <2>1. CASE DrainTop BY <2>1, DrainTopKeeps
    <2>2. CASE \/ DrainUnblocked \/ HeaderRemoved \/ GateShown \/ DrainBashDone
               \/ CommandTurnOver \/ CommandPickerClosed \/ TailOver
      BY <2>2, DrainWaitedKeeps
    <2>3. CASE TakePrompt BY <2>3, TakePromptKeeps
    <2>4. CASE TakeBash BY <2>4, TakeBashKeeps
    <2>5. CASE TakeCommand BY <2>5, TakeCommandKeeps
    <2>6. CASE StopConsuming BY <2>6, StopConsumingKeeps
    <2>7. CASE Flush BY <2>7, FlushKeeps
    <2>8. CASE Gate BY <2>8, GateKeeps
    <2>9. CASE Inject BY <2>9, InjectKeeps
    <2>10. CASE InjectFails BY <2>10, InjectFailsKeeps
    <2>11. CASE BashWidget BY <2>11, BashWidgetKeeps
    <2>12. CASE StartBash BY <2>12, StartBashKeeps
    <2>13. CASE RunCommand BY <2>13, RunCommandKeeps
    <2>14. CASE StartTail BY <2>14, StartTailKeeps
    <2> QED
      BY <1>3, <2>1, <2>2, <2>3, <2>4, <2>5, <2>6, <2>7, <2>8, <2>9, <2>10, <2>11, <2>12,
         <2>13, <2>14
      DEF DrainSteps
  <1>4. CASE JobSteps
    <2>1. CASE TurnStops \/ TurnRetried \/ UnsolicitedTurn BY <2>1, TurnKeeps
    <2>2. CASE BashEnds BY <2>2, BashEndsKeeps
    <2>3. CASE BashCancelled BY <2>3, BashCancelledKeeps
    <2>4. ASSUME NEW t \in Turns, TurnClosed(t) PROVE IInv' BY <2>4, TurnClosedKeeps
    <2>5. CASE CompactEnds \/ TurnNotRetried BY <2>5, OverlooksKeeps
    <2> QED BY <1>4, <2>1, <2>2, <2>3, <2>4, <2>5 DEF JobSteps
  <1>5. CASE UNCHANGED vars
    <2>1. UNCHANGED <<items, paused, widgets, header, enabled, drain, enq, worker, agent,
                      closing, overlooked, bash, picker, sees, outcome, entered, said>>
      BY <1>5 DEF vars
    <2>2. Rest' BY <2>1, RestTyped DEF Rest
    <2>3. bash \in {"idle", "user", "drain"} BY DEF IInv, TypeOK
    <2> QED BY <2>1, <2>2, <2>3, HandlerKeeps
  <1> QED BY <1>1, <1>2, <1>3, <1>4, <1>5 DEF Next

-----------------------------------------------------------------------------
(* The invariant holds in every state that the terminal reaches. *)
THEOREM IInvHolds == Spec => []IInv
  <1> QED BY InitIInv, StepIInv, PTL DEF Spec

(* Every part of the state keeps its shape, for any items: the types that
   QueueController and MessageQueue rely on.                                 *)
THEOREM TypeCorrect == Spec => []TypeOK
  <1>1. IInv => TypeOK BY DEF IInv
  <1> QED BY <1>1, IInvHolds, PTL

(* An item in the line is there once, and not settled. *)
LEMMA IInvHandledOnce == ASSUME IInv PROVE HandledOnce
  <1>1. /\ Range(Line) = ItemsOf(drain.pending) \cup Range(items)
        /\ IsInjective(items) /\ IsInjective(Names(drain.pending))
        /\ Range(items) \cap ItemsOf(drain.pending) = {}
    BY LineFacts DEF IInv, Lined
  <1>2. /\ drain.item \notin Range(Line) /\ drain.item \notin Entering
        /\ Entering \cap Range(Line) = {}
        /\ Range(Line) \cup ({drain.item} \ {None}) \cup Entering = Accepted
    BY DEF IInv, Placed
  <1>3. PICK p : p = ItemsOf(drain.pending) OBVIOUS
  <1>4. PICK q : q = Range(items) OBVIOUS
  <1>5. PICK h : h = {drain.item} \ {None} OBVIOUS
  <1>6. /\ drain.item \notin p /\ q \cap (p \cup h) = {} /\ q \cap Entering = {}
        /\ (p \cup h) \cap Entering = {} /\ q \cup (p \cup h) \cup Entering = Accepted
    BY <1>1, <1>2, <1>3, <1>4, <1>5
  <1> QED BY <1>1, <1>3, <1>4, <1>5, <1>6 DEF HandledOnce, Taken, Accepted

(* Whatever is typed, paused, popped, refused by the image gate or interrupted,
   an accepted item is in one place only, once, until it gets an outcome: so it
   is not run twice and does not vanish (QueueController).                   *)
THEOREM ItemsAreHandledOnce == Spec => []HandledOnce
  <1>1. IInv => HandledOnce BY IInvHandledOnce
  <1> QED BY <1>1, IInvHolds, PTL

(* What was said and what is in line is in the order of entering. *)
LEMMA IInvKeepsOrder == ASSUME IInv PROVE PromptsKeepOrder
  BY DEF IInv, Lined, Before, PromptsKeepOrder

(* Queued prompts reach the server in the order in which they were queued,
   however often a pause or the image gate puts them back (_requeue).        *)
THEOREM QueuedPromptsKeepTheirOrder == Spec => []PromptsKeepOrder
  <1>1. IInv => PromptsKeepOrder BY IInvKeepsOrder
  <1> QED BY <1>1, IInvHolds, PTL

(* What waits has a drain, a pause, or somebody who will start one. *)
LEMMA IInvDrains == ASSUME IInv PROVE WaitingItemIsDrained
  BY DEF IInv, Started, WaitingItemIsDrained, SomethingWaits, SomethingRuns

(* A shell line or a command in a queue that is not paused does not wait for
   nothing: a drain is under way, or a turn, a shell line or a handler that will
   start one (the callers of start_drain_if_needed).  Outside are what was left
   behind by a drain that crashed, and what a compaction from the idle input or a
   turn whose retry fell through did not look at.                            *)
THEOREM WaitingItemsAreDrained == Spec => []WaitingItemIsDrained
  <1>1. IInv => WaitingItemIsDrained BY IInvDrains
  <1> QED BY <1>1, IInvHolds, PTL
===============================================================================
