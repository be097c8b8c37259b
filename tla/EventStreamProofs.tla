------------------------- MODULE EventStreamProofs -------------------------
(* Proofs about EventStream, for any tasks, queue sizes and numbers of events and
   connections: nothing that is numbered is lost, repeated or reordered on its way
   to the client, an open callback is on its way, and the client's projection never
   goes back.                                                                *)
EXTENDS EventStream, SequenceFacts, SequenceTheorems, FiniteSetTheorems

Actors == Sources \cup {"attach", "stream"}
Kinds == {"event", "callback", "resumed", "read", "conflict"}

(* The types but the numbers, and the limits. *)
Framed ==
    /\ watermark \in Nat
    /\ spc \in [Sources -> {"idle", "enter", "lock", "put", "send", "stray"}]
    /\ next \in [Sources -> {"nothing", "event", "callback"}]
    /\ lockq \in Seq(Actors)
    /\ subscribed \in BOOLEAN /\ failed \in BOOLEAN /\ told \in BOOLEAN
    /\ Len(queue) <= QueueSize /\ Len(wire) <= WireSize /\ Len(incoming) <= IncomingSize
    /\ fpc \in {"none", "new", "get", "send", "closing", "failing"}
    /\ conn \in {"up", "stopping", "closing", "down"}
    /\ routing \in {"none", "attaching", "attached"}
    /\ apc \in {"idle", "open", "lock", "refuse", "read", "respond", "drain", "redeliver"}
    /\ cpc \in {"lost", "resume", "pump", "resync", "gone", "dead"}
    /\ req \in {"none", "resume", "read"}
    /\ cb \in {"none", "open", "closed"}

(* Room is kept for the updates that are projected and not yet numbered. *)
Budget == watermark + Cardinality({u \in Sources : next[u] = "event"}) <= MaxEvents

(* No number anywhere is ahead of the watermark. *)
Numbered ==
    /\ item \in [Sources -> 0 .. watermark]
    /\ queue \in Seq(-1 .. watermark)
    /\ pending \in Seq(1 .. watermark) /\ batch \in Seq(1 .. watermark)
    /\ wire \in Seq([kind : Kinds, id : 0 .. watermark])
    /\ incoming \in Seq([kind : {"event", "callback"}, id : 0 .. watermark])
    /\ fitem \in 0 .. watermark /\ after \in 0 .. watermark
    /\ snapshot \in 0 .. watermark /\ view \in 0 .. watermark
    /\ reply \in -1 .. watermark /\ projection \in -1 .. watermark
    /\ lost \subseteq -1 .. watermark

(* The lock: who publishes, attaches or closes the stream is in its queue once,
   and who works under it is the first; the tasks are in the order of their events. *)
Queued(a) == a \in Range(lockq)
Alive == fpc \in {"new", "get", "send"}
InLine == {"enter", "lock", "put"}
Before(q, a, b) == \E i, j \in DOMAIN q : i < j /\ q[i] = a /\ q[j] = b
InOrder(q, it) ==
    \A s, t \in Sources : Before(q, s, t) /\ it[s] > 0 /\ it[t] > 0 => it[s] < it[t]
Locked ==
    /\ IsInjective(lockq)
    /\ \A s \in Sources : Queued(s) <=> spc[s] \in InLine
    /\ \A s \in Sources : spc[s] = "put" => Holds(s) /\ item[s] \in {Callback, projection}
    /\ Queued("attach") <=> apc \in {"lock", "read"}
    /\ apc = "read" => Holds("attach") /\ ~subscribed
    /\ Queued("stream") => subscribed
    /\ fpc \in {"closing", "failing"} => Queued("stream")
    /\ Alive => subscribed /\ ~Queued("stream")
    /\ InOrder(lockq, item)

(* The attachment is answered once, and the stream of the connection begins with it. *)
Of(q, kinds) == {i \in DOMAIN q : q[i].kind \in kinds}
Sent(kinds) == Of(wire, kinds)
Attachment == {"open", "lock", "read", "refuse", "respond"}
Connected ==
    /\ conn # "up" => apc = "idle" /\ reply = Broken /\ ~Alive
    /\ apc # "idle" => req # "resume"
    /\ req = "resume" \/ apc \in Attachment =>
          cpc \in {"resume", "gone"} /\ Sent({"resumed", "conflict"}) = {}
    /\ Alive => req # "resume" /\ apc \in {"idle", "respond", "drain", "redeliver"}
    /\ Alive => routing \in {"attaching", "attached"}
    /\ conn \in {"closing", "down"} => routing = "none"
    /\ apc \in Attachment \cup {"drain"} => routing = "attaching"
    /\ routing = "attaching" /\ conn = "up" => apc \notin {"idle", "redeliver"}
    /\ conn = "down" => wire = <<>> /\ \A s \in Sources : spc[s] # "send"

(* The client waits for one snapshot at a time, and none takes it back. *)
Awaited ==
    /\ apc = "respond" => view <= snapshot
    /\ \A i \in Sent({"resumed"}) :
          cpc \notin {"pump", "resync"} /\ wire[i].id = snapshot /\ view <= snapshot
    /\ cpc \in {"pump", "resume", "lost"} => req # "read" /\ reply = Broken /\ Sent({"read"}) = {}
    /\ req = "read" => reply = Broken /\ Sent({"read"}) = {}
    /\ reply # Broken => Sent({"read"}) = {} /\ view <= reply
    /\ \A i, j \in Sent({"read"}) : i = j
    /\ \A i, j \in Sent({"resumed"}) : i = j
    /\ \A i \in Sent({"read"}) : view <= wire[i].id

(* A part of the way, with the last number before it and its own last number: what is
   not older than `floor' is what is between them, in order.                 *)
Carries(q, floor, a, b) ==
    /\ a <= b
    /\ \A i \in DOMAIN q : q[i] <= floor \/ q[i] \in a + 1 .. b
    /\ \A n \in a + 1 .. b : \E i \in DOMAIN q : q[i] = n
    /\ \A i, j \in DOMAIN q : i < j /\ q[i] > floor /\ q[j] > floor => q[i] < q[j]

(* The last event that went through the lock into the queue. *)
Through ==
    IF \E s \in Sources : spc[s] = "put" /\ item[s] # Callback THEN projection - 1 ELSE projection

(* What NothingLost says, part by part. *)
Steady == Served /\ lost = {}
Chain ==
    /\ projection # Broken
    /\ \A s \in Sources : spc[s] = "send" => item[s] <= Base
    /\ \E b, c \in 0 .. watermark :
          /\ Carries(Ids(incoming), Base, Base, b) /\ Carries(Ids(wire), Base, b, c)
          /\ Carries(InHand, Base, c, after)
          /\ Carries(queue, Base, after, Through) /\ Carries(InLock, Base, Through, watermark)
Held ==
    /\ fpc = "send" => routing = "attached"
    /\ routing = "attached" => pending = <<>> /\ batch = <<>>
    /\ apc = "drain" <=> batch # <<>>
    /\ cpc = "resume" /\ Alive => view <= snapshot
Stream == Held /\ (Alive /\ cpc = "resync" => lost # {}) /\ (Steady => Chain)

(* While a callback is open nothing is missing behind the entry that opened it, so
   that what follows does not break the projection with the callback in the queue. *)
Publishes(n) == \E s \in Sources : Queued(s) /\ item[s] = n
Asked == next[Turn] = "callback" /\ Queued(Turn)
Unbroken ==
    /\ next[Turn] = "callback" => item[Turn] > 0
    /\ cb = "open" /\ Asked /\ (Alive \/ Before(lockq, "attach", Turn)) =>
          \A n \in item[Turn] .. watermark : Publishes(n)
    /\ cb = "open" /\ ~Asked /\ Alive =>
          projection = Broken \/ \A n \in Through + 1 .. watermark : Publishes(n)

(* An open callback that is published is known or on its way, also while the client
   waits for a snapshot.                                                     *)
Asks(q) == \E i \in DOMAIN q : q[i] = Message("callback", Callback)
Coming ==
    /\ spc[Turn] = "idle" => next[Turn] # "callback"
    /\ cb = "none" => next[Turn] # "callback" /\ (spc[Turn] # "idle" => item[Turn] # Callback)
    /\ cb = "open" /\ Alive /\ cpc \in {"resume", "pump", "resync"} /\ next[Turn] # "callback" =>
          \/ told \/ Asks(incoming) \/ Asks(wire)
          \/ fpc = "send" /\ fitem = Callback
          \/ Callback \in Range(queue)
          \/ spc[Turn] \in {"enter", "lock", "put", "send"} /\ item[Turn] = Callback
          \/ apc \in {"respond", "drain", "redeliver"}

IInv == Framed /\ Budget /\ Numbered /\ Locked /\ Connected /\ Awaited /\ Stream /\ Unbroken /\ Coming

-----------------------------------------------------------------------------
(* Queues. *)

(* What is left of the first m of a queue: some of them, in their order. *)
Kept(k, q, m, some) ==
    /\ \E g \in [1 .. Len(k) -> 1 .. m] :
          /\ \A i \in 1 .. Len(k) : k[i] = q[g[i]]
          /\ \A i, j \in 1 .. Len(k) : i < j => g[i] < g[j]
    /\ \A i \in 1 .. Len(k) : k[i] \notin some
    /\ \A j \in 1 .. m : q[j] \notin some => \E i \in 1 .. Len(k) : k[i] = q[j]
    /\ m >= 1 /\ q[1] \notin some => Len(k) >= 1 /\ k[1] = q[1]

(* One more stays or leaves. *)
LEMMA KeptGrows ==
    ASSUME NEW S, NEW q \in Seq(S), NEW some, NEW m \in 0 .. Len(q) - 1, NEW k \in Seq(S),
           Kept(k, q, m, some), NEW l,
           l = IF q[m + 1] \in some THEN k ELSE Append(k, q[m + 1])
    PROVE  l \in Seq(S) /\ Kept(l, q, m + 1, some)
  <1>1. PICK g \in [1 .. Len(k) -> 1 .. m] :
           /\ \A i \in 1 .. Len(k) : k[i] = q[g[i]]
           /\ \A i, j \in 1 .. Len(k) : i < j => g[i] < g[j]
    BY DEF Kept
  <1>2. m + 1 \in 1 .. Len(q) /\ q[m + 1] \in S OBVIOUS
  <1>3. CASE q[m + 1] \in some
    <2>1. l = k /\ g \in [1 .. Len(l) -> 1 .. m + 1] BY <1>3
    <2>2. \A j \in 1 .. m + 1 : q[j] \notin some => j \in 1 .. m BY <1>3
    <2>3. \A j \in 1 .. m + 1 : q[j] \notin some => \E i \in 1 .. Len(l) : l[i] = q[j]
      BY <2>1, <2>2 DEF Kept
    <2>4. m + 1 >= 1 /\ q[1] \notin some => Len(l) >= 1 /\ l[1] = q[1]
      <3>1. m = 0 => q[1] \in some BY <1>3
      <3> QED BY <2>1, <3>1 DEF Kept
    <2>5. \A i \in 1 .. Len(l) : l[i] \notin some BY <2>1 DEF Kept
    <2>6. \E h \in [1 .. Len(l) -> 1 .. m + 1] :
             /\ \A i \in 1 .. Len(l) : l[i] = q[h[i]]
             /\ \A i, j \in 1 .. Len(l) : i < j => h[i] < h[j]
      BY <1>1, <2>1
    <2> QED BY <2>1, <2>3, <2>4, <2>5, <2>6 DEF Kept
  <1>4. CASE q[m + 1] \notin some
    <2>1. /\ l = Append(k, q[m + 1]) /\ l \in Seq(S) /\ Len(l) = Len(k) + 1
          /\ \A i \in 1 .. Len(k) : l[i] = k[i]
          /\ l[Len(k) + 1] = q[m + 1]
      BY <1>2, <1>4
    <2>2. PICK h : h = [i \in 1 .. Len(l) |-> IF i = Len(l) THEN m + 1 ELSE g[i]] OBVIOUS
    <2>3. h \in [1 .. Len(l) -> 1 .. m + 1] BY <2>1, <2>2
    <2>4. \A i \in 1 .. Len(l) : l[i] = q[h[i]] BY <1>1, <2>1, <2>2
    <2>5. ASSUME NEW i \in 1 .. Len(l), NEW j \in 1 .. Len(l), i < j PROVE h[i] < h[j]
      <3>1. i \in 1 .. Len(k) /\ h[i] = g[i] /\ g[i] \in 1 .. m BY <1>1, <2>1, <2>2, <2>5
      <3>2. CASE j = Len(l) BY <2>2, <3>1, <3>2
      <3>3. CASE j # Len(l)
        <4>1. j \in 1 .. Len(k) /\ h[j] = g[j] BY <2>1, <2>2, <3>3
        <4> QED BY <1>1, <2>5, <3>1, <4>1
      <3> QED BY <3>2, <3>3
    <2>6. \A i \in 1 .. Len(l) : l[i] \notin some BY <1>4, <2>1 DEF Kept
    <2>7. \A j \in 1 .. m + 1 : q[j] \notin some => \E i \in 1 .. Len(l) : l[i] = q[j]
      BY <2>1 DEF Kept
    <2>8. q[1] \notin some => Len(l) >= 1 /\ l[1] = q[1] BY <2>1, <1>1 DEF Kept
    <2> QED BY <2>1, <2>3, <2>4, <2>5, <2>6, <2>7, <2>8 DEF Kept
  <1> QED BY <1>3, <1>4

(* Those that stay keep their order, and the first stays the first. *)
LEMMA WithoutFacts ==
    ASSUME NEW S, NEW q \in Seq(S), NEW some
    PROVE  /\ Without(q, some) \in Seq(S) /\ Thinned(Without(q, some), q)
           /\ Range(Without(q, some)) = Range(q) \ some
           /\ q # <<>> /\ Head(q) \notin some =>
                 Without(q, some) # <<>> /\ Head(Without(q, some)) = Head(q)
  <1>1. PICK n \in Nat : n = Len(q) OBVIOUS
  <1>2. PICK F : F = [i \in 1 .. n |-> [w \in Seq(S) |-> IF q[i] \in some THEN w ELSE Append(w, q[i])]]
    OBVIOUS
  <1>3. Steps(F, n, Seq(S))
    <2>1. ASSUME NEW i \in 1 .. n, NEW w \in Seq(S) PROVE F[i][w] \in Seq(S)
      <3>1. q[i] \in S BY <1>1
      <3>2. (IF q[i] \in some THEN w ELSE Append(w, q[i])) \in Seq(S) BY <3>1
      <3> QED BY <1>2, <3>2
    <2> QED BY <2>1 DEF Steps
  <1>4. <<>> \in Seq(S) OBVIOUS
  <1>5. PICK f \in [0 .. n -> Seq(S)] : f[0] = <<>> /\ \A i \in 1 .. n : f[i] = F[i][f[i - 1]]
    <2>1. PICK f : Iterated(f, F, n, <<>>, Seq(S)) BY <1>3, <1>4, Iterates
    <2> QED BY <2>1 DEF Iterated
  <1> DEFINE D(g) == [i \in 0 .. Len(q) |-> IF i = 0 THEN <<>>
                         ELSE IF q[i] \in some THEN g[i - 1] ELSE Append(g[i - 1], q[i])]
             kept == CHOOSE g : g = D(g)
  <1>6. f = D(f)
    <2>1. ASSUME NEW i \in 0 .. n PROVE f[i] = D(f)[i]
      <3>1. CASE i = 0 BY <1>1, <1>5, <3>1
      <3>2. CASE i # 0
        <4>1. i \in 1 .. n /\ f[i - 1] \in Seq(S) BY <3>2
        <4>2. F[i][f[i - 1]] = IF q[i] \in some THEN f[i - 1] ELSE Append(f[i - 1], q[i])
          BY <4>1, <1>2
        <4> QED BY <4>1, <4>2, <1>1, <1>5
      <3> QED BY <3>1, <3>2
    <2>2. f = [i \in 0 .. n |-> f[i]] OBVIOUS
    <2>3. D(f) = [i \in 0 .. n |-> D(f)[i]] BY <1>1
    <2> HIDE DEF D
    <2> QED BY <2>1, <2>2, <2>3
  <1>7. kept = D(kept)
    <2> HIDE DEF D
    <2> QED BY <1>6
  <1>8. PICK g : g = kept OBVIOUS
  <1>9. Without(q, some) = g[n] BY <1>1, <1>8 DEF Without
  <1>10. g = [i \in 0 .. n |-> IF i = 0 THEN <<>>
                ELSE IF q[i] \in some THEN g[i - 1] ELSE Append(g[i - 1], q[i])]
    BY ZenonT(60), <1>1, <1>7, <1>8
  <1> HIDE DEF kept, D
  <1>11. PICK T : T = {m \in 0 .. n : g[m] \in Seq(S) /\ Kept(g[m], q, m, some)} OBVIOUS
  <1>12. 0 \in T
    <2>1. g[0] = <<>> BY <1>10
    <2>2. PICK h : h = [i \in 1 .. 0 |-> 1] OBVIOUS
    <2>3. h \in [1 .. Len(<<>>) -> 1 .. 0] BY <2>2
    <2>4. Len(<<>>) = 0 /\ 1 .. 0 = {} OBVIOUS
    <2>5. Kept(<<>>, q, 0, some)
      <3>1. \A i \in 1 .. Len(<<>>) : i \in {} BY <2>4
      <3>2. \A i \in 1 .. 0 : i \in {} BY <2>4
      <3>3. ~(0 >= 1) OBVIOUS
      <3> QED BY <2>3, <3>1, <3>2, <3>3 DEF Kept
    <2>6. 0 \in 0 .. n OBVIOUS
    <2> QED BY <1>4, <1>11, <2>1, <2>5, <2>6
  <1>13. ASSUME NEW m \in 0 .. n - 1, m \in T PROVE m + 1 \in T
    <2>1. PICK k \in 1 .. n : k = m + 1 OBVIOUS
    <2>2. k - 1 = m /\ k # 0 /\ k \in 0 .. n BY <2>1
    <2>3. g[k] = IF q[k] \in some THEN g[m] ELSE Append(g[m], q[k]) BY <1>10, <2>2
    <2>4. g[m] \in Seq(S) /\ Kept(g[m], q, m, some) BY <1>11, <1>13
    <2>5. g[k] \in Seq(S) /\ Kept(g[k], q, k, some)
      BY <1>1, <2>1, <2>3, <2>4, KeptGrows
    <2> QED BY <1>11, <2>1, <2>2, <2>5
  <1>14. n \in T
    <2>1. \A m \in 0 .. n : m \in T BY <1>12, <1>13, CountUp
    <2> QED BY <2>1
  <1>15. PICK w \in Seq(S) : w = Without(q, some) /\ Kept(w, q, Len(q), some)
    BY <1>1, <1>9, <1>11, <1>14
  <1>16. Thinned(w, q) BY <1>15 DEF Kept, Thinned
  <1>17. Range(w) = Range(q) \ some
    <2>1. DOMAIN w = 1 .. Len(w) /\ DOMAIN q = 1 .. Len(q) OBVIOUS
    <2>2. \A i \in 1 .. Len(w) : \E j \in 1 .. Len(q) : w[i] = q[j] BY <1>15 DEF Kept
    <2>3. \A i \in 1 .. Len(w) : w[i] \notin some BY <1>15 DEF Kept
    <2>4. \A j \in 1 .. Len(q) : q[j] \notin some => \E i \in 1 .. Len(w) : w[i] = q[j]
      BY <1>15 DEF Kept
    <2> QED BY <2>1, <2>2, <2>3, <2>4 DEF Range
  <1>18. q # <<>> /\ Head(q) \notin some => w # <<>> /\ Head(w) = Head(q)
    <2>1. ASSUME q # <<>>, Head(q) \notin some PROVE w # <<>> /\ Head(w) = Head(q)
      <3>1. Len(q) >= 1 /\ Head(q) = q[1] BY <2>1
      <3>2. Len(w) >= 1 /\ w[1] = q[1] BY <1>15, <2>1, <3>1 DEF Kept
      <3> QED BY <3>1, <3>2
    <2> QED BY <2>1
  <1> QED BY <1>15, <1>16, <1>17, <1>18

-----------------------------------------------------------------------------
(* Parts of the way. *)

LEMMA CarriesNothing ==
    ASSUME NEW f \in Int, NEW a \in Int
    PROVE  Carries(<<>>, f, a, a)
  <1>1. DOMAIN <<>> = {} OBVIOUS
  <1>2. a + 1 .. a = {} OBVIOUS
  <1> QED BY <1>1, <1>2 DEF Carries

(* The next number, or an old one, joins at the end. *)
LEMMA CarriesNext ==
    ASSUME NEW q \in Seq(Int), NEW f \in Int, NEW a \in Int, NEW b \in Int, f <= a,
           Carries(q, f, a, b)
    PROVE  /\ Carries(Append(q, b + 1), f, a, b + 1)
           /\ \A x \in Int : x <= f => Carries(Append(q, x), f, a, b)
  <1>1. ASSUME NEW x \in Int, NEW r, r = Append(q, x)
        PROVE  /\ r \in Seq(Int) /\ DOMAIN r = 1 .. Len(q) + 1 /\ r[Len(q) + 1] = x
               /\ \A i \in 1 .. Len(q) : r[i] = q[i]
    BY <1>1
  <1>2. DOMAIN q = 1 .. Len(q) /\ Len(q) \in Nat /\ \A i \in 1 .. Len(q) : q[i] \in Int OBVIOUS
  <1>3. Carries(Append(q, b + 1), f, a, b + 1)
    <2>1. PICK r : r = Append(q, b + 1) OBVIOUS
    <2>2. /\ DOMAIN r = 1 .. Len(q) + 1 /\ r[Len(q) + 1] = b + 1
          /\ \A i \in 1 .. Len(q) : r[i] = q[i]
      BY <1>1, <2>1
    <2>3. \A i \in DOMAIN r : r[i] <= f \/ r[i] \in a + 1 .. b + 1 BY <1>2, <2>2 DEF Carries
    <2>4. \A n \in a + 1 .. b + 1 : \E i \in DOMAIN r : r[i] = n BY <1>2, <2>2 DEF Carries
    <2>5. ASSUME NEW i \in DOMAIN r, NEW j \in DOMAIN r, i < j, r[i] > f, r[j] > f
          PROVE  r[i] < r[j]
      <3>1. i \in 1 .. Len(q) /\ r[i] = q[i] /\ r[i] \in a + 1 .. b BY <1>2, <2>2, <2>5 DEF Carries
      <3>2. CASE j = Len(q) + 1 BY <2>2, <3>1, <3>2
      <3>3. CASE j # Len(q) + 1
        <4>1. j \in 1 .. Len(q) /\ r[j] = q[j] BY <2>2, <3>3
        <4> QED BY <1>2, <2>5, <3>1, <4>1 DEF Carries
      <3> QED BY <3>2, <3>3
    <2>6. a <= b + 1 BY DEF Carries
    <2> QED BY <2>1, <2>3, <2>4, <2>5, <2>6 DEF Carries
  <1>4. ASSUME NEW x \in Int, x <= f PROVE Carries(Append(q, x), f, a, b)
    <2>1. PICK r : r = Append(q, x) OBVIOUS
    <2>2. /\ DOMAIN r = 1 .. Len(q) + 1 /\ r[Len(q) + 1] = x
          /\ \A i \in 1 .. Len(q) : r[i] = q[i]
      BY <1>1, <2>1
    <2>3. \A i \in DOMAIN r : r[i] <= f \/ r[i] \in a + 1 .. b BY <1>2, <1>4, <2>2 DEF Carries
    <2>4. \A n \in a + 1 .. b : \E i \in DOMAIN r : r[i] = n BY <1>2, <2>2 DEF Carries
    <2>5. ASSUME NEW i \in DOMAIN r, NEW j \in DOMAIN r, i < j, r[i] > f, r[j] > f
          PROVE  r[i] < r[j]
      <3>1. i \in 1 .. Len(q) /\ j \in 1 .. Len(q) BY <1>2, <1>4, <2>2, <2>5
      <3> QED BY <1>2, <2>2, <2>5, <3>1 DEF Carries
    <2> QED BY <2>1, <2>3, <2>4, <2>5 DEF Carries
  <1> QED BY <1>3, <1>4

(* What leaves at the head is old or the next. *)
LEMMA CarriesFirst ==
    ASSUME NEW q \in Seq(Int), q # <<>>, NEW f \in Int, NEW a \in Int, NEW b \in Int, f <= a,
           Carries(q, f, a, b)
    PROVE  \/ Head(q) <= f /\ Carries(Tail(q), f, a, b)
           \/ Head(q) = a + 1 /\ a + 1 <= b /\ Carries(Tail(q), f, a + 1, b)
  <1>1. PICK r : r = Tail(q) OBVIOUS
  <1>2. /\ DOMAIN q = 1 .. Len(q) /\ Len(q) \in Nat /\ Len(q) >= 1 /\ Head(q) = q[1]
        /\ \A i \in 1 .. Len(q) : q[i] \in Int
        /\ DOMAIN r = 1 .. Len(q) - 1 /\ \A i \in 1 .. Len(q) - 1 : r[i] = q[i + 1]
    BY <1>1
  <1>3. a <= b /\ 1 \in DOMAIN q /\ \A i \in DOMAIN q : q[i] <= f \/ q[i] \in a + 1 .. b
    BY <1>2 DEF Carries
  <1>14. \A i \in DOMAIN r : i + 1 \in DOMAIN q /\ r[i] = q[i + 1] BY <1>2
  <1>4. \A i, j \in DOMAIN r : i < j /\ r[i] > f /\ r[j] > f => r[i] < r[j]
    <2>1. ASSUME NEW i \in DOMAIN r, NEW j \in DOMAIN r, i < j, r[i] > f, r[j] > f
          PROVE  r[i] < r[j]
      <3>1. i + 1 \in DOMAIN q /\ j + 1 \in DOMAIN q /\ i + 1 < j + 1 BY <1>2, <2>1, SMTT(30)
      <3> QED BY <1>2, <2>1, <3>1 DEF Carries
    <2> QED BY <2>1
  <1>5. CASE q[1] <= f
    <2>1. \A i \in DOMAIN r : r[i] <= f \/ r[i] \in a + 1 .. b BY <1>3, <1>14
    <2>2. ASSUME NEW n \in a + 1 .. b PROVE \E i \in DOMAIN r : r[i] = n
      <3>1. PICK i \in DOMAIN q : q[i] = n BY DEF Carries
      <3>2. i # 1 BY <1>5, <3>1
      <3>3. i - 1 \in DOMAIN r /\ r[i - 1] = n BY <1>2, <3>1, <3>2
      <3> QED BY <3>3
    <2> QED BY <1>1, <1>2, <1>3, <1>4, <1>5, <2>1, <2>2 DEF Carries
  <1>6. CASE q[1] > f
    <2>1. q[1] \in a + 1 .. b
      <3>1. q[1] \in Int BY <1>2, <1>3
      <3>2. ~(q[1] <= f) BY <1>6, <3>1
      <3> QED BY <1>3, <3>2
    <2>2. PICK k \in DOMAIN q : q[k] = a + 1
      <3>1. a + 1 \in a + 1 .. b BY <2>1
      <3> QED BY <3>1 DEF Carries
    <2>3. k = 1
      <3>1. CASE k > 1
        <4>1. q[1] < q[k]
          <5>1. q[k] > f /\ 1 < k BY <1>2, <2>2, <3>1
          <5> QED BY <1>3, <1>6, <5>1 DEF Carries
        <4> QED BY <2>1, <2>2, <4>1
      <3> QED BY <1>2, <3>1
    <2>4. \A i \in DOMAIN q : i > 1 => q[i] <= f \/ q[i] \in a + 1 + 1 .. b
      <3>1. ASSUME NEW i \in DOMAIN q, i > 1, q[i] > f PROVE q[i] \in a + 1 + 1 .. b
        <4>1. q[1] < q[i] BY <1>2, <1>3, <1>6, <3>1 DEF Carries
        <4>2. q[i] \in a + 1 .. b BY <1>2, <3>1 DEF Carries
        <4> QED BY <2>2, <2>3, <4>1, <4>2
      <3> QED BY <1>2, <3>1
    <2>5. ASSUME NEW i \in DOMAIN r PROVE r[i] <= f \/ r[i] \in a + 1 + 1 .. b
      <3>1. i + 1 \in DOMAIN q /\ i + 1 > 1 /\ r[i] = q[i + 1] BY <1>2, <1>14
      <3> QED BY <2>4, <3>1
    <2>6. ASSUME NEW n \in a + 1 + 1 .. b PROVE \E i \in DOMAIN r : r[i] = n
      <3>1. n \in a + 1 .. b /\ n # a + 1 OBVIOUS
      <3>2. PICK i \in DOMAIN q : q[i] = n BY <3>1 DEF Carries
      <3>3. i # 1 BY <2>2, <2>3, <3>1, <3>2
      <3>4. i - 1 \in DOMAIN r /\ r[i - 1] = n BY <1>2, <3>2, <3>3
      <3> QED BY <3>4
    <2>7. a + 1 <= b BY <2>1
    <2> QED BY <1>1, <1>2, <1>4, <2>2, <2>3, <2>5, <2>6, <2>7 DEF Carries
  <1> QED BY <1>2, <1>5, <1>6

(* The floor may rise to what has been reached. *)
LEMMA CarriesRises ==
    ASSUME NEW q \in Seq(Int), NEW f \in Int, NEW g \in Int, NEW a \in Int, NEW b \in Int,
           f <= g, g <= a, Carries(q, f, a, b)
    PROVE  Carries(q, g, a, b)
  <1>1. \A i \in DOMAIN q : q[i] \in Int OBVIOUS
  <1> QED BY <1>1 DEF Carries

(* Two parts in a row. *)
LEMMA CarriesOn ==
    ASSUME NEW p \in Seq(Int), NEW q \in Seq(Int), NEW f \in Int, NEW a \in Int, NEW b \in Int,
           NEW c \in Int, f <= a, Carries(p, f, a, b), Carries(q, f, b, c)
    PROVE  Carries(p \o q, f, a, c)
  <1>1. PICK r : r = p \o q OBVIOUS
  <1>2. PICK m \in Nat : m = Len(p) OBVIOUS
  <1>3. PICK n \in Nat : n = Len(q) OBVIOUS
  <1>4. /\ DOMAIN p = 1 .. m /\ DOMAIN q = 1 .. n /\ DOMAIN r = 1 .. m + n
        /\ \A i \in 1 .. m : r[i] = p[i] /\ p[i] \in Int
        /\ \A i \in 1 .. n : r[m + i] = q[i] /\ q[i] \in Int
    BY <1>1, <1>2, <1>3
  <1>5. a <= b /\ b <= c BY DEF Carries
  <1>11. /\ \A i \in 1 .. m : p[i] <= f \/ p[i] \in a + 1 .. b
         /\ \A i, j \in 1 .. m : i < j /\ p[i] > f /\ p[j] > f => p[i] < p[j]
    BY <1>4 DEF Carries
  <1>12. /\ \A i \in 1 .. n : q[i] <= f \/ q[i] \in b + 1 .. c
         /\ \A i, j \in 1 .. n : i < j /\ q[i] > f /\ q[j] > f => q[i] < q[j]
    BY <1>4 DEF Carries
  <1>6. \A i \in 1 .. m + n : i \in 1 .. m \/ (i - m \in 1 .. n /\ m + (i - m) = i) OBVIOUS
  <1>7. \A i \in 1 .. m + n : r[i] \in Int /\ (i \notin 1 .. m => r[i] = q[i - m] /\ i - m \in 1 .. n)
    BY <1>4, <1>6
  <1>8. ASSUME NEW i \in 1 .. m + n PROVE r[i] <= f \/ r[i] \in a + 1 .. c
    <2>1. CASE i \in 1 .. m
      <3>1. r[i] = p[i] /\ (p[i] <= f \/ p[i] \in a + 1 .. b) BY <1>4, <1>11, <2>1
      <3> QED BY <1>5, <3>1
    <2>2. CASE i \notin 1 .. m
      <3>1. r[i] = q[i - m] /\ (q[i - m] <= f \/ q[i - m] \in b + 1 .. c) BY <1>7, <1>12, <2>2
      <3> QED BY <1>5, <3>1
    <2> QED BY <2>1, <2>2
  <1>9. ASSUME NEW x \in a + 1 .. c PROVE \E i \in 1 .. m + n : r[i] = x
    <2>1. CASE x <= b
      <3>1. x \in a + 1 .. b BY <1>5, <2>1
      <3>2. PICK i \in 1 .. m : p[i] = x BY <1>4, <3>1 DEF Carries
      <3> QED BY <1>4, <3>2
    <2>2. CASE ~(x <= b)
      <3>1. x \in b + 1 .. c BY <2>2, <1>5
      <3>2. PICK i \in 1 .. n : q[i] = x BY <1>4, <3>1 DEF Carries
      <3>3. m + i \in 1 .. m + n /\ r[m + i] = x BY <1>4, <3>2
      <3> QED BY <3>3
    <2> QED BY <2>1, <2>2
  <1>10. ASSUME NEW i \in 1 .. m + n, NEW j \in 1 .. m + n, i < j, r[i] > f, r[j] > f
         PROVE  r[i] < r[j]
    <2>1. CASE j \in 1 .. m
      <3>1. i \in 1 .. m BY <2>1, <1>10
      <3> QED BY <1>4, <1>10, <2>1, <3>1 DEF Carries
    <2>2. CASE j \notin 1 .. m /\ i \in 1 .. m
      <3>1. r[i] \in a + 1 .. b
        <4>1. r[i] = p[i] /\ (p[i] <= f \/ p[i] \in a + 1 .. b) BY <1>4, <1>11, <2>2
        <4>2. r[i] \in Int BY <1>7
        <4> QED BY <1>10, <4>1, <4>2
      <3>2. r[j] \in b + 1 .. c
        <4>1. r[j] = q[j - m] /\ (q[j - m] <= f \/ q[j - m] \in b + 1 .. c) BY <1>7, <1>12, <2>2
        <4>2. r[j] \in Int BY <1>7
        <4> QED BY <1>10, <4>1, <4>2
      <3> QED BY <3>1, <3>2
    <2>3. CASE j \notin 1 .. m /\ i \notin 1 .. m
      <3>1. i - m < j - m BY <1>10
      <3>2. /\ r[i] = q[i - m] /\ i - m \in 1 .. n
            /\ r[j] = q[j - m] /\ j - m \in 1 .. n
        BY <1>7, <2>3
      <3> QED BY <1>10, <1>12, <3>1, <3>2
    <2> QED BY <2>1, <2>2, <2>3
  <1>13. a <= c BY <1>5
  <1>15. DOMAIN r = 1 .. m + n BY <1>4
  <1> QED BY <1>1, <1>8, <1>9, <1>10, <1>13, <1>15 DEF Carries

(* The IDs of what is on a part of the way: one leaves at the head, one joins. *)
Items(q, it) == [i \in DOMAIN q |-> IF q[i] \in Sources THEN it[q[i]] ELSE Broken]
Messages == [kind : Kinds, id : 0 .. MaxEvents]

LEMMA ItemsFacts ==
    ASSUME NEW q \in Seq(Actors), NEW it \in [Sources -> Int]
    PROVE  /\ Items(q, it) \in Seq(Int) /\ Len(Items(q, it)) = Len(q)
           /\ q # <<>> =>
                 /\ Items(q, it) # <<>> /\ Items(Tail(q), it) = Tail(Items(q, it))
                 /\ Head(Items(q, it)) = IF Head(q) \in Sources THEN it[Head(q)] ELSE Broken
           /\ \A t \in Actors, u \in [Sources -> Int] :
                 (\A i \in DOMAIN q : q[i] \in Sources => u[q[i]] = it[q[i]])
                 => Items(Append(q, t), u) = Append(Items(q, it), IF t \in Sources THEN u[t] ELSE Broken)
  <1>1. PICK n \in Nat : n = Len(q) OBVIOUS
  <1>2. PICK r : r = Items(q, it) OBVIOUS
  <1>3. DOMAIN q = 1 .. n /\ \A i \in 1 .. n : q[i] \in Actors BY <1>1
  <1>4. Broken \in Int BY DEF Broken
  <1>5. r \in [1 .. n -> Int] /\ \A i \in 1 .. n : r[i] = IF q[i] \in Sources THEN it[q[i]] ELSE Broken
    BY <1>2, <1>3, <1>4 DEF Items
  <1>6. r \in Seq(Int) /\ Len(r) = n BY <1>5, SeqDef
  <1>7. ASSUME q # <<>>
        PROVE  /\ r # <<>> /\ Items(Tail(q), it) = Tail(r)
               /\ Head(r) = IF Head(q) \in Sources THEN it[Head(q)] ELSE Broken
    <2>1. n >= 1 /\ r # <<>> /\ Head(q) = q[1] /\ Head(r) = r[1] /\ 1 \in 1 .. n BY <1>1, <1>6, <1>7
    <2>2. PICK m \in Nat : m = n - 1 BY <2>1
    <2>3. PICK v : v = Tail(q) OBVIOUS
    <2>4. PICK w : w = Tail(r) OBVIOUS
    <2>5. v \in Seq(Actors) /\ Len(v) = m /\ \A i \in 1 .. m : v[i] = q[i + 1]
      BY <1>1, <1>7, <2>2, <2>3
    <2>6. w \in Seq(Int) /\ Len(w) = m /\ \A i \in 1 .. m : w[i] = r[i + 1]
      BY <1>6, <2>1, <2>2, <2>4
    <2>7. PICK x : x = Items(v, it) OBVIOUS
    <2>8. DOMAIN v = 1 .. m /\ \A i \in 1 .. m : v[i] \in Actors BY <2>5
    <2>9. x \in [1 .. m -> Int] /\ \A i \in 1 .. m : x[i] = IF v[i] \in Sources THEN it[v[i]] ELSE Broken
      BY <2>7, <2>8, <1>4 DEF Items
    <2>10. x \in Seq(Int) /\ Len(x) = m BY <2>9, SeqDef
    <2>11. \A i \in 1 .. m : i + 1 \in 1 .. n BY <2>2
    <2>12. \A i \in 1 .. m : x[i] = w[i] BY <1>5, <2>5, <2>6, <2>9, <2>11
    <2>13. x = w BY <2>6, <2>10, <2>12, SeqEqual
    <2> QED BY <1>5, <2>1, <2>3, <2>4, <2>7, <2>13
  <1>8. ASSUME NEW t \in Actors, NEW u \in [Sources -> Int],
               \A i \in DOMAIN q : q[i] \in Sources => u[q[i]] = it[q[i]]
        PROVE  Items(Append(q, t), u) = Append(r, IF t \in Sources THEN u[t] ELSE Broken)
    <2>1. PICK y \in Int : y = IF t \in Sources THEN u[t] ELSE Broken BY <1>4
    <2>2. PICK v : v = Append(q, t) OBVIOUS
    <2>3. PICK w : w = Append(r, y) OBVIOUS
    <2>4. PICK m \in Nat : m = n + 1 OBVIOUS
    <2>5. v \in Seq(Actors) /\ Len(v) = m /\ v[m] = t /\ \A i \in 1 .. n : v[i] = q[i]
      BY <1>1, <2>2, <2>4
    <2>6. w \in Seq(Int) /\ Len(w) = m /\ w[m] = y /\ \A i \in 1 .. n : w[i] = r[i]
      BY <1>6, <2>1, <2>3, <2>4
    <2>7. PICK x : x = Items(v, u) OBVIOUS
    <2>8. DOMAIN v = 1 .. m /\ \A i \in 1 .. m : v[i] \in Actors BY <2>5
    <2>9. x \in [1 .. m -> Int] /\ \A i \in 1 .. m : x[i] = IF v[i] \in Sources THEN u[v[i]] ELSE Broken
      BY <2>7, <2>8, <1>4 DEF Items
    <2>10. x \in Seq(Int) /\ Len(x) = m BY <2>9, SeqDef
    <2>11. \A i \in 1 .. n : x[i] = w[i]
      <3>1. ASSUME NEW i \in 1 .. n PROVE x[i] = w[i]
        <4>1. i \in 1 .. m /\ i \in DOMAIN q BY <2>4, <1>3
        <4>2. x[i] = IF q[i] \in Sources THEN u[q[i]] ELSE Broken BY <4>1, <2>5, <2>9
        <4>3. w[i] = IF q[i] \in Sources THEN it[q[i]] ELSE Broken BY <1>5, <2>6
        <4> QED BY <4>1, <4>2, <4>3, <1>8
      <3> QED BY <3>1
    <2>12. x[m] = y
      <3>1. m \in 1 .. m BY <2>4
      <3> QED BY <2>1, <2>5, <2>9, <3>1
    <2>13. \A i \in 1 .. m : x[i] = w[i] BY <2>4, <2>6, <2>11, <2>12
    <2>14. x = w BY <2>6, <2>10, <2>13, SeqEqual
    <2> QED BY <2>1, <2>2, <2>3, <2>7, <2>14
  <1> QED BY <1>1, <1>2, <1>6, <1>7, <1>8

LEMMA IdsFacts ==
    ASSUME NEW q \in Seq(Messages)
    PROVE  /\ Ids(q) \in Seq(Int) /\ Len(Ids(q)) = Len(q)
           /\ q # <<>> => /\ Ids(q) # <<>> /\ Ids(Tail(q)) = Tail(Ids(q))
                          /\ Head(Ids(q)) = IdOf(Head(q))
           /\ \A m \in Messages : Ids(Append(q, m)) = Append(Ids(q), IdOf(m)) /\ IdOf(m) \in Int
  <1>1. PICK n \in Nat : n = Len(q) OBVIOUS
  <1>2. PICK r : r = Ids(q) OBVIOUS
  <1>3. \A m \in Messages : IdOf(m) \in Int
    <2>1. Broken \in Int /\ Callback \in Int BY DEF Broken, Callback
    <2>2. \A m \in Messages : m.id \in Int
      <3>1. \A m \in Messages : m.id \in 0 .. MaxEvents BY DEF Messages
      <3>2. MaxEvents \in Nat BY SizeAssumption
      <3> QED BY <3>1, <3>2
    <2> QED BY <2>1, <2>2 DEF IdOf
  <1>4. DOMAIN q = 1 .. n /\ \A i \in 1 .. n : q[i] \in Messages BY <1>1
  <1>5. r \in [1 .. n -> Int] /\ \A i \in 1 .. n : r[i] = IdOf(q[i])
    <2>1. r = [i \in 1 .. n |-> IdOf(q[i])] BY <1>2, <1>4 DEF Ids, IdOf
    <2> QED BY <1>3, <1>4, <2>1
  <1>6. r \in Seq(Int) /\ Len(r) = n BY <1>5, SeqDef
  <1>7. ASSUME q # <<>>
        PROVE  r # <<>> /\ Ids(Tail(q)) = Tail(r) /\ Head(r) = IdOf(Head(q))
    <2>1. n >= 1 /\ r # <<>> /\ Head(q) = q[1] /\ Head(r) = r[1] /\ 1 \in 1 .. n BY <1>1, <1>6, <1>7
    <2>2. PICK m \in Nat : m = n - 1 BY <2>1
    <2>3. PICK v : v = Tail(q) OBVIOUS
    <2>4. PICK w : w = Tail(r) OBVIOUS
    <2>5. v \in Seq(Messages) /\ Len(v) = m /\ \A i \in 1 .. m : v[i] = q[i + 1]
      BY <1>1, <1>7, <2>2, <2>3
    <2>6. w \in Seq(Int) /\ Len(w) = m /\ \A i \in 1 .. m : w[i] = r[i + 1]
      BY <1>6, <2>1, <2>2, <2>4
    <2>7. PICK x : x = Ids(v) OBVIOUS
    <2>8. DOMAIN v = 1 .. m /\ \A i \in 1 .. m : v[i] \in Messages BY <2>5
    <2>9. x = [i \in 1 .. m |-> IdOf(v[i])] BY <2>7, <2>8 DEF Ids, IdOf
    <2>10. x \in [1 .. m -> Int] BY <1>3, <2>8, <2>9
    <2>11. x \in Seq(Int) /\ Len(x) = m BY <2>10, SeqDef
    <2>12. \A i \in 1 .. m : i + 1 \in 1 .. n BY <2>2
    <2>13. \A i \in 1 .. m : x[i] = w[i] BY <1>5, <2>5, <2>6, <2>9, <2>12
    <2>14. x = w BY <2>6, <2>11, <2>13, SeqEqual
    <2> QED BY <1>5, <2>1, <2>3, <2>4, <2>7, <2>14
  <1>8. ASSUME NEW t \in Messages PROVE Ids(Append(q, t)) = Append(r, IdOf(t))
    <2>1. PICK y \in Int : y = IdOf(t) BY <1>3
    <2>2. PICK v : v = Append(q, t) OBVIOUS
    <2>3. PICK w : w = Append(r, y) OBVIOUS
    <2>4. PICK m \in Nat : m = n + 1 OBVIOUS
    <2>5. v \in Seq(Messages) /\ Len(v) = m /\ v[m] = t /\ \A i \in 1 .. n : v[i] = q[i]
      BY <1>1, <2>2, <2>4
    <2>6. w \in Seq(Int) /\ Len(w) = m /\ w[m] = y /\ \A i \in 1 .. n : w[i] = r[i]
      BY <1>6, <2>1, <2>3, <2>4
    <2>7. PICK x : x = Ids(v) OBVIOUS
    <2>8. DOMAIN v = 1 .. m /\ \A i \in 1 .. m : v[i] \in Messages BY <2>5
    <2>9. x = [i \in 1 .. m |-> IdOf(v[i])] BY <2>7, <2>8 DEF Ids, IdOf
    <2>10. x \in [1 .. m -> Int] BY <1>3, <2>8, <2>9
    <2>11. x \in Seq(Int) /\ Len(x) = m BY <2>10, SeqDef
    <2>12. \A i \in 1 .. n : x[i] = w[i]
      <3>1. ASSUME NEW i \in 1 .. n PROVE x[i] = w[i]
        <4>1. i \in 1 .. m BY <2>4
        <4> QED BY <4>1, <1>5, <2>5, <2>6, <2>9
      <3> QED BY <3>1
    <2>13. x[m] = y
      <3>1. m \in 1 .. m BY <2>4
      <3> QED BY <2>1, <2>5, <2>9, <3>1
    <2>14. \A i \in 1 .. m : x[i] = w[i] BY <2>4, <2>6, <2>12, <2>13
    <2>15. x = w BY <2>6, <2>11, <2>14, SeqEqual
    <2> QED BY <2>1, <2>2, <2>3, <2>7, <2>15
  <1> QED BY <1>1, <1>2, <1>3, <1>6, <1>7, <1>8

-----------------------------------------------------------------------------
(* The lock's queue: the first leaves, somebody joins, some are cancelled. *)

LEMMA BeforeThins ==
    ASSUME NEW q \in Seq(Actors), NEW r \in Seq(Actors), Thinned(r, q), NEW a, NEW b, Before(r, a, b)
    PROVE  Before(q, a, b)
  <1>1. DOMAIN q = 1 .. Len(q) /\ DOMAIN r = 1 .. Len(r) OBVIOUS
  <1>2. PICK i, j \in 1 .. Len(r) : i < j /\ r[i] = a /\ r[j] = b BY <1>1 DEF Before
  <1>4. \A k, l \in 1 .. Len(r) : k < l => \E m, n \in 1 .. Len(q) : m < n /\ r[k] = q[m] /\ r[l] = q[n]
    BY ThinnedKeeps
  <1>3. \E m, n \in 1 .. Len(q) : m < n /\ r[i] = q[m] /\ r[j] = q[n] BY <1>2, <1>4
  <1> QED BY <1>1, <1>2, <1>3 DEF Before

LEMMA LockTail ==
    ASSUME NEW q \in Seq(Actors), q # <<>>, IsInjective(q)
    PROVE  /\ Tail(q) \in Seq(Actors) /\ IsInjective(Tail(q))
           /\ Range(Tail(q)) = Range(q) \ {Head(q)}
           /\ Head(q) \in Range(q)
           /\ \A a, b : Before(Tail(q), a, b) => Before(q, a, b)
           /\ \A a \in Range(q) : a # Head(q) => Before(q, Head(q), a)
  <1>1. Tail(q) \in Seq(Actors) /\ Range(Tail(q)) = Range(q) \ {Head(q)} BY EndsLeave
  <1>2. Thinned(Tail(q), q) BY TailThins
  <1>3. IsInjective(Tail(q)) BY <1>1, <1>2, ThinnedKeeps
  <1>4. \A a, b : Before(Tail(q), a, b) => Before(q, a, b) BY <1>1, <1>2, BeforeThins
  <1>5. DOMAIN q = 1 .. Len(q) /\ Len(q) \in Nat /\ 1 \in 1 .. Len(q) /\ Head(q) = q[1] OBVIOUS
  <1>6. Head(q) \in Range(q) BY <1>5 DEF Range
  <1>7. ASSUME NEW a \in Range(q), a # Head(q) PROVE Before(q, Head(q), a)
    <2>1. PICK i \in 1 .. Len(q) : q[i] = a BY <1>5 DEF Range
    <2>2. 1 < i BY <1>5, <1>7, <2>1
    <2> QED BY <1>5, <2>1, <2>2 DEF Before
  <1> QED BY <1>1, <1>3, <1>4, <1>6, <1>7

LEMMA LockJoin ==
    ASSUME NEW q \in Seq(Actors), IsInjective(q), NEW t \in Actors \ Range(q)
    PROVE  /\ Append(q, t) \in Seq(Actors) /\ IsInjective(Append(q, t))
           /\ Range(Append(q, t)) = Range(q) \cup {t}
           /\ Append(q, t) # <<>> /\ (q # <<>> => Head(Append(q, t)) = Head(q))
           /\ \A a, b : Before(Append(q, t), a, b) <=> Before(q, a, b) \/ (a \in Range(q) /\ b = t)
  <1>1. PICK r : r = Append(q, t) OBVIOUS
  <1>2. /\ r \in Seq(Actors) /\ IsInjective(r) /\ Range(r) = Range(q) \cup {t}
        /\ q # <<>> => Head(r) = Head(q)
    BY <1>1, JoinQueue
  <1>3. /\ DOMAIN q = 1 .. Len(q) /\ Len(q) \in Nat /\ DOMAIN r = 1 .. Len(q) + 1
        /\ r[Len(q) + 1] = t /\ r # <<>> /\ \A i \in 1 .. Len(q) : r[i] = q[i]
    BY <1>1
  <1>4. ASSUME NEW a, NEW b PROVE Before(r, a, b) <=> Before(q, a, b) \/ (a \in Range(q) /\ b = t)
    <2>1. ASSUME Before(r, a, b) PROVE Before(q, a, b) \/ (a \in Range(q) /\ b = t)
      <3>1. PICK i, j \in 1 .. Len(q) + 1 : i < j /\ r[i] = a /\ r[j] = b BY <1>3, <2>1 DEF Before
      <3>2. i \in 1 .. Len(q) /\ q[i] = a BY <1>3, <3>1
      <3>3. CASE j = Len(q) + 1
        <4>1. a \in Range(q) BY <1>3, <3>2 DEF Range
        <4> QED BY <1>3, <3>1, <3>3, <4>1
      <3>4. CASE j # Len(q) + 1
        <4>1. j \in 1 .. Len(q) /\ q[j] = b BY <1>3, <3>1, <3>4
        <4> QED BY <1>3, <3>1, <3>2, <4>1 DEF Before
      <3> QED BY <3>3, <3>4
    <2>2. ASSUME Before(q, a, b) PROVE Before(r, a, b)
      <3>1. PICK i, j \in 1 .. Len(q) : i < j /\ q[i] = a /\ q[j] = b BY <1>3, <2>2 DEF Before
      <3>2. i \in DOMAIN r /\ j \in DOMAIN r /\ r[i] = a /\ r[j] = b BY <1>3, <3>1
      <3> QED BY <3>1, <3>2 DEF Before
    <2>3. ASSUME a \in Range(q), b = t PROVE Before(r, a, b)
      <3>1. PICK i \in 1 .. Len(q) : q[i] = a BY <1>3, <2>3 DEF Range
      <3>2. i \in DOMAIN r /\ r[i] = a /\ Len(q) + 1 \in DOMAIN r /\ i < Len(q) + 1 BY <1>3, <3>1
      <3> QED BY <1>3, <2>3, <3>2 DEF Before
    <2> QED BY <2>1, <2>2, <2>3
  <1> QED BY <1>1, <1>2, <1>3, <1>4

LEMMA LockWithout ==
    ASSUME NEW q \in Seq(Actors), IsInjective(q), NEW some
    PROVE  /\ Without(q, some) \in Seq(Actors) /\ IsInjective(Without(q, some))
           /\ Range(Without(q, some)) = Range(q) \ some
           /\ q # <<>> /\ Head(q) \notin some =>
                 Without(q, some) # <<>> /\ Head(Without(q, some)) = Head(q)
           /\ \A a, b : Before(Without(q, some), a, b) => Before(q, a, b)
  <1>1. /\ Without(q, some) \in Seq(Actors) /\ Thinned(Without(q, some), q)
        /\ Range(Without(q, some)) = Range(q) \ some
        /\ q # <<>> /\ Head(q) \notin some =>
              Without(q, some) # <<>> /\ Head(Without(q, some)) = Head(q)
    BY WithoutFacts
  <1>2. IsInjective(Without(q, some)) BY <1>1, ThinnedKeeps
  <1>3. \A a, b : Before(Without(q, some), a, b) => Before(q, a, b) BY <1>1, BeforeThins
  <1> QED BY <1>1, <1>2, <1>3

-----------------------------------------------------------------------------
(* What a task does next. *)

(* The updates that wait for their number can be counted. *)
LEMMA Waiting ==
    ASSUME NEW s \in Sources,
           NEW f \in [Sources -> {"nothing", "event", "callback"}],
           NEW g \in [Sources -> {"nothing", "event", "callback"}],
           \A t \in Sources \ {s} : g[t] = f[t]
    PROVE  /\ Cardinality({u \in Sources : f[u] = "event"}) \in Nat
           /\ Cardinality({u \in Sources : g[u] = "event"}) =
                 Cardinality({u \in Sources : f[u] = "event"})
                   + (IF g[s] = "event" THEN 1 ELSE 0) - (IF f[s] = "event" THEN 1 ELSE 0)
  <1>1. IsFiniteSet(Sources)
    <2>1. IsFiniteSet({Turn}) /\ IsFiniteSet(Requests) BY FS_Singleton, SizeAssumption
    <2> QED BY <2>1, FS_Union DEF Sources
  <1>2. PICK A : A = {u \in Sources : f[u] = "event"} OBVIOUS
  <1>3. PICK B : B = {u \in Sources : g[u] = "event"} OBVIOUS
  <1>4. PICK C : C = A \ {s} OBVIOUS
  <1>5. A \subseteq Sources /\ C \subseteq Sources BY <1>2, <1>4
  <1>6. IsFiniteSet(A) /\ IsFiniteSet(C) BY <1>1, <1>5, FS_Subset
  <1>7. A = IF f[s] = "event" THEN C \cup {s} ELSE C BY <1>2, <1>4
  <1>8. B = IF g[s] = "event" THEN C \cup {s} ELSE C BY <1>2, <1>3, <1>4
  <1>9. Cardinality(C \cup {s}) = Cardinality(C) + 1 BY <1>4, <1>6, FS_AddElement
  <1>10. Cardinality(C) \in Nat BY <1>6, FS_CardinalityType
  <1>11. PICK c \in Nat : c = Cardinality(C) BY <1>10
  <1>12. Cardinality(A) = IF f[s] = "event" THEN c + 1 ELSE c BY <1>7, <1>9, <1>11
  <1>13. Cardinality(B) = IF g[s] = "event" THEN c + 1 ELSE c BY <1>8, <1>9, <1>11
  <1> QED BY <1>2, <1>3, <1>11, <1>12, <1>13

(* Its publication is over: it is idle, or it waits for the lock with the next. *)
Freed(s, locks) ==
    /\ next[s] = "nothing" /\ spc' = [spc EXCEPT ![s] = "idle"] /\ lockq' = locks
    /\ watermark' = watermark /\ item' = item /\ next' = next
Joined(s, locks, then) ==
    /\ spc' \in [Sources -> {"idle", "enter", "lock", "put", "send", "stray"}]
    /\ spc'[s] \in {"enter", "lock"} /\ \A t \in Sources \ {s} : spc'[t] = spc[t]
    /\ lockq' = Append(locks, s)
    /\ next' \in [Sources -> {"nothing", "event", "callback"}] /\ item' \in [Sources -> 0 .. watermark']
    /\ next'[s] = then /\ \A t \in Sources \ {s} : next'[t] = next[t] /\ item'[t] = item[t]
    /\ \/ item'[s] = watermark + 1 /\ watermark' = watermark + 1
       \/ item'[s] = Callback /\ watermark' = watermark /\ next[s] = "callback"

LEMMA FinishFacts ==
    ASSUME Framed, Budget, Numbered, NEW s \in Sources, NEW locks, Finish(s, locks)
    PROVE  /\ Budget' /\ watermark' \in {watermark, watermark + 1}
           /\ Freed(s, locks) \/ (next[s] # "nothing" /\ Joined(s, locks, "nothing"))
  <1>1. CASE next[s] = "nothing" /\ spc' = [spc EXCEPT ![s] = "idle"]
    <2>1. lockq' = locks /\ watermark' = watermark /\ item' = item /\ next' = next BY <1>1 DEF Finish
    <2> QED BY <1>1, <2>1 DEF Freed, Budget
  <1>2. CASE next[s] # "nothing"
    <2>1. /\ watermark' = IF next[s] = "event" THEN watermark + 1 ELSE watermark
          /\ item' = [item EXCEPT ![s] = IF next[s] = "event" THEN watermark + 1 ELSE Callback]
          /\ next' = [next EXCEPT ![s] = "nothing"]
          /\ spc' = [spc EXCEPT ![s] = IF locks = <<>> THEN "enter" ELSE "lock"]
          /\ lockq' = Append(locks, s)
      BY <1>2 DEF Finish
    <2>2. /\ watermark \in Nat /\ next \in [Sources -> {"nothing", "event", "callback"}]
          /\ spc \in [Sources -> {"idle", "enter", "lock", "put", "send", "stray"}]
          /\ item \in [Sources -> 0 .. watermark]
      BY DEF Framed, Numbered
    <2>3. next' \in [Sources -> {"nothing", "event", "callback"}] BY <2>1, <2>2
    <2>4. Budget'
      <3>1. /\ Cardinality({u \in Sources : next[u] = "event"}) \in Nat
            /\ Cardinality({u \in Sources : next'[u] = "event"}) =
                  Cardinality({u \in Sources : next[u] = "event"})
                    + (IF next'[s] = "event" THEN 1 ELSE 0) - (IF next[s] = "event" THEN 1 ELSE 0)
        <4>1. \A t \in Sources \ {s} : next'[t] = next[t] BY <2>1, <2>2
        <4>2. PICK g \in [Sources -> {"nothing", "event", "callback"}] : g = next' BY <2>3
        <4> QED BY <2>2, <4>1, <4>2, Waiting
      <3>5. next'[s] = "nothing" BY <2>1, <2>2
      <3>2. watermark + Cardinality({u \in Sources : next[u] = "event"}) <= MaxEvents BY DEF Budget
      <3>3. MaxEvents \in Nat BY SizeAssumption
      <3>4. watermark' + Cardinality({u \in Sources : next'[u] = "event"}) <= MaxEvents
        BY <2>1, <2>2, <3>1, <3>2, <3>3, <3>5
      <3> QED BY <3>4 DEF Budget
    <2>5. Joined(s, locks, "nothing")
      <3>1. item' \in [Sources -> 0 .. watermark'] BY <2>1, <2>2 DEF Callback
      <3>2. spc' \in [Sources -> {"idle", "enter", "lock", "put", "send", "stray"}] BY <2>1, <2>2
      <3>3. spc'[s] \in {"enter", "lock"} /\ \A t \in Sources \ {s} : spc'[t] = spc[t] BY <2>1, <2>2
      <3>4. next'[s] = "nothing" /\ \A t \in Sources \ {s} : next'[t] = next[t] /\ item'[t] = item[t]
        BY <2>1, <2>2
      <3>5. \/ item'[s] = watermark + 1 /\ watermark' = watermark + 1
            \/ item'[s] = Callback /\ watermark' = watermark /\ next[s] = "callback"
        BY <1>2, <2>1, <2>2
      <3> QED BY <2>1, <2>3, <3>1, <3>2, <3>3, <3>4, <3>5 DEF Joined
    <2> QED BY <1>2, <2>1, <2>4, <2>5
  <1> QED BY <1>1, <1>2 DEF Finish

LEMMA BeginFacts ==
    ASSUME Framed, Budget, Numbered, NEW s \in Sources, NEW then \in {"nothing", "event", "callback"},
           Begin(s, then)
    PROVE  /\ Budget' /\ watermark' = watermark + 1 /\ item'[s] = watermark + 1 /\ spc[s] = "idle"
           /\ Joined(s, lockq, then)
  <1>1. /\ spc[s] = "idle"
        /\ watermark + Cardinality({u \in Sources : next[u] = "event"})
             + (IF then = "event" THEN 2 ELSE 1) <= MaxEvents
        /\ watermark' = watermark + 1
        /\ item' = [item EXCEPT ![s] = watermark + 1]
        /\ next' = [next EXCEPT ![s] = then]
        /\ spc' = [spc EXCEPT ![s] = IF lockq = <<>> THEN "enter" ELSE "lock"]
        /\ lockq' = Append(lockq, s)
    BY DEF Begin
  <1>2. /\ watermark \in Nat /\ next \in [Sources -> {"nothing", "event", "callback"}]
        /\ spc \in [Sources -> {"idle", "enter", "lock", "put", "send", "stray"}]
        /\ item \in [Sources -> 0 .. watermark]
    BY DEF Framed, Numbered
  <1>3. next' \in [Sources -> {"nothing", "event", "callback"}] BY <1>1, <1>2
  <1>4. Budget'
    <2>1. /\ Cardinality({u \in Sources : next[u] = "event"}) \in Nat
          /\ Cardinality({u \in Sources : next'[u] = "event"}) =
                Cardinality({u \in Sources : next[u] = "event"})
                  + (IF next'[s] = "event" THEN 1 ELSE 0) - (IF next[s] = "event" THEN 1 ELSE 0)
      <3>1. \A t \in Sources \ {s} : next'[t] = next[t] BY <1>1, <1>2
      <3> QED BY <1>2, <1>3, <3>1, Waiting
    <2>4. next'[s] = then BY <1>1, <1>2
    <2>2. MaxEvents \in Nat BY SizeAssumption
    <2>3. watermark' + Cardinality({u \in Sources : next'[u] = "event"}) <= MaxEvents
      BY <1>1, <1>2, <2>1, <2>2, <2>4
    <2> QED BY <2>3 DEF Budget
  <1>5. item' \in [Sources -> 0 .. watermark'] BY <1>1, <1>2
  <1>6. spc' \in [Sources -> {"idle", "enter", "lock", "put", "send", "stray"}] BY <1>1, <1>2
  <1>7. spc'[s] \in {"enter", "lock"} /\ \A t \in Sources \ {s} : spc'[t] = spc[t] BY <1>1, <1>2
  <1>8. next'[s] = then /\ \A t \in Sources \ {s} : next'[t] = next[t] /\ item'[t] = item[t]
    BY <1>1, <1>2
  <1>9. item'[s] = watermark + 1 BY <1>1, <1>2
  <1>10. Joined(s, lockq, then) BY <1>1, <1>3, <1>5, <1>6, <1>7, <1>8, <1>9 DEF Joined
  <1> QED BY <1>1, <1>4, <1>9, <1>10

-----------------------------------------------------------------------------
(* Types and numbers. *)

LEMMA SeqWidens ==
    ASSUME NEW S, NEW T, S \subseteq T, NEW q \in Seq(S)
    PROVE  q \in Seq(T)
  OBVIOUS


(* The numbers after a step that may number one more event. *)
Widened ==
    /\ watermark' \in Nat /\ watermark <= watermark'
    /\ spc' \in [Sources -> {"idle", "enter", "lock", "put", "send", "stray"}]
    /\ next' \in [Sources -> {"nothing", "event", "callback"}]
    /\ item' \in [Sources -> 0 .. watermark'] /\ lockq' \in Seq(Actors)
    /\ queue \in Seq(-1 .. watermark')
    /\ pending \in Seq(1 .. watermark') /\ batch \in Seq(1 .. watermark')
    /\ wire \in Seq([kind : Kinds, id : 0 .. watermark'])
    /\ incoming \in Seq([kind : {"event", "callback"}, id : 0 .. watermark'])
    /\ fitem \in 0 .. watermark' /\ after \in 0 .. watermark'
    /\ snapshot \in 0 .. watermark' /\ view \in 0 .. watermark'
    /\ reply \in -1 .. watermark' /\ projection \in -1 .. watermark'
    /\ lost \subseteq -1 .. watermark'

(* A task that joins the lock's queue, or does not. *)
LEMMA FinishTypes ==
    ASSUME Framed, Budget, Numbered, NEW s \in Sources, NEW locks \in Seq(Actors),
           \/ Finish(s, locks)
           \/ \E then \in {"nothing", "event", "callback"} : locks = lockq /\ Begin(s, then)
    PROVE  Budget' /\ Widened
  <1>1. Budget' /\ (Freed(s, locks) \/ \E then : Joined(s, locks, then))
    BY FinishFacts, BeginFacts
  <1>2. watermark' \in Nat /\ watermark <= watermark'
    BY <1>1 DEF Freed, Joined, Framed
  <1>3. /\ spc' \in [Sources -> {"idle", "enter", "lock", "put", "send", "stray"}]
        /\ next' \in [Sources -> {"nothing", "event", "callback"}]
        /\ item' \in [Sources -> 0 .. watermark']
    BY <1>1 DEF Freed, Joined, Framed, Numbered
  <1>4. lockq' \in Seq(Actors)
    <2>1. s \in Actors BY DEF Actors
    <2>2. lockq' = locks \/ lockq' = Append(locks, s) BY <1>1 DEF Freed, Joined
    <2> QED BY <2>1, <2>2
  <1>5. watermark \in Nat /\ 0 .. watermark \subseteq 0 .. watermark' BY <1>2 DEF Framed
  <1>6. -1 .. watermark \subseteq -1 .. watermark' /\ 1 .. watermark \subseteq 1 .. watermark' BY <1>2, <1>5
  <1>7. queue \in Seq(-1 .. watermark') BY <1>6, SeqWidens DEF Numbered
  <1>8. pending \in Seq(1 .. watermark') /\ batch \in Seq(1 .. watermark') BY <1>6, SeqWidens DEF Numbered
  <1>9. wire \in Seq([kind : Kinds, id : 0 .. watermark'])
    <2>1. [kind : Kinds, id : 0 .. watermark] \subseteq [kind : Kinds, id : 0 .. watermark'] BY <1>5
    <2> QED BY <2>1, SeqWidens DEF Numbered
  <1>10. incoming \in Seq([kind : {"event", "callback"}, id : 0 .. watermark'])
    <2>1. [kind : {"event", "callback"}, id : 0 .. watermark] \subseteq
             [kind : {"event", "callback"}, id : 0 .. watermark']
      BY <1>5
    <2> QED BY <2>1, SeqWidens DEF Numbered
  <1>11. /\ fitem \in 0 .. watermark' /\ after \in 0 .. watermark'
         /\ snapshot \in 0 .. watermark' /\ view \in 0 .. watermark'
         /\ reply \in -1 .. watermark' /\ projection \in -1 .. watermark'
         /\ lost \subseteq -1 .. watermark'
    BY <1>5, <1>6 DEF Numbered
  <1> QED BY <1>1, <1>2, <1>3, <1>4, <1>7, <1>8, <1>9, <1>10, <1>11 DEF Widened

LEMMA TypedStep ==
    ASSUME Framed, Budget, Numbered, Locked, Stream, Next
    PROVE  Framed' /\ Budget' /\ Numbered'
  <1> USE SizeAssumption
  <1>1. lockq # <<>> => Tail(lockq) \in Seq(Actors) BY DEF Framed
  <1>2. \A a \in Actors : Append(lockq, a) \in Seq(Actors) BY DEF Framed
  <1>3. "attach" \in Actors /\ "stream" \in Actors /\ Sources \subseteq Actors BY DEF Actors
  <1>4. queue # <<>> => /\ Tail(queue) \in Seq(-1 .. watermark) /\ Head(queue) \in -1 .. watermark
                        /\ Len(Tail(queue)) <= QueueSize
    BY SMTT(30) DEF Framed, Numbered
  <1>5. \A id \in 0 .. watermark, kind \in Kinds :
           HasRoom(wire, WireSize) =>
              /\ Append(wire, Message(kind, id)) \in Seq([kind : Kinds, id : 0 .. watermark])
              /\ Len(Append(wire, Message(kind, id))) <= WireSize
    BY DEF Framed, Numbered, HasRoom, Message
  <1>6. \A x \in 0 .. watermark : \E kind \in Kinds : Notification(x) = Message(kind, x)
    BY DEF Notification, Kinds
  <1>12. ASSUME Budget', Widened,
                UNCHANGED <<subscribed, forwarderVars, conn, routing, attachVars, reply,
                            clientVars, bounds>>,
                queue' \in Seq(-1 .. watermark') /\ Len(queue') <= QueueSize,
                wire' \in Seq([kind : Kinds, id : 0 .. watermark']) /\ Len(wire') <= WireSize,
                projection' \in -1 .. watermark', pending' \in Seq(1 .. watermark'),
                lost' \subseteq -1 .. watermark', cb' \in {"none", "open", "closed"}
         PROVE  Framed' /\ Budget' /\ Numbered'
    <2>3. /\ subscribed' = subscribed /\ failed' = failed /\ fpc' = fpc /\ conn' = conn
          /\ routing' = routing /\ apc' = apc /\ cpc' = cpc /\ req' = req /\ told' = told
          /\ incoming' = incoming
      BY <1>12 DEF forwarderVars, attachVars, clientVars
    <2>4. /\ watermark' \in Nat /\ lockq' \in Seq(Actors)
          /\ spc' \in [Sources -> {"idle", "enter", "lock", "put", "send", "stray"}]
          /\ next' \in [Sources -> {"nothing", "event", "callback"}]
      BY <1>12 DEF Widened
    <2>1. Framed' BY <1>12, <2>3, <2>4 DEF Framed
    <2>2. Numbered' BY <1>12 DEF Widened, Numbered, forwarderVars, attachVars, clientVars
    <2> QED BY <1>12, <2>1, <2>2
  <1>7. ASSUME NEW s \in Sources, Project(s) PROVE Framed' /\ Budget' /\ Numbered'
    <2>1. PICK then \in {"nothing", "event"} : Begin(s, then) BY <1>7 DEF Project
    <2>2. UNCHANGED <<subscribed, projection, queue, forwarderVars, conn, routing, pending,
                   attachVars, reply, wire, clientVars, lost, bounds, cb>>
      BY <1>7, <2>1 DEF Project, Begin
    <2>3. lockq \in Seq(Actors) BY DEF Framed
    <2>4. Budget' /\ Widened BY <2>1, <2>3, FinishTypes
    <2> QED BY <1>12, <2>1, <2>2, <2>4 DEF Widened, Framed
  <1>8. ASSUME Ask PROVE Framed' /\ Budget' /\ Numbered'
    <2>1. Begin(Turn, "callback") /\ cb' = "open" /\ Turn \in Sources BY <1>8 DEF Ask, Sources
    <2>2. UNCHANGED <<subscribed, projection, queue, forwarderVars, conn, routing, pending,
                   attachVars, reply, wire, clientVars, lost, bounds>>
      BY <2>1 DEF Begin
    <2>3. lockq \in Seq(Actors) BY DEF Framed
    <2>4. Budget' /\ Widened BY <2>1, <2>3, FinishTypes
    <2> QED BY <1>12, <2>1, <2>2, <2>4 DEF Widened, Framed
  <1>9. ASSUME NEW s \in Sources, SendStray(s) \/ SendDirect(s) PROVE Framed' /\ Budget' /\ Numbered'
    <2>1. Finish(s, lockq) /\ lockq \in Seq(Actors) BY <1>9 DEF SendStray, SendDirect, Framed
    <2>2. UNCHANGED <<subscribed, projection, queue, forwarderVars, conn, routing, pending,
                   attachVars, reply, clientVars, cb, lost, bounds>>
      BY <1>9 DEF SendStray, SendDirect
    <2>3. wire' = wire \/ (HasRoom(wire, WireSize) /\ wire' = Append(wire, Notification(item[s])))
      BY <1>9 DEF SendStray, SendDirect
    <2>4. wire' \in Seq([kind : Kinds, id : 0 .. watermark']) /\ Len(wire') <= WireSize
      <3>1. CASE wire' = wire BY <2>1, <3>1, FinishTypes DEF Widened, Framed
      <3>2. CASE HasRoom(wire, WireSize) /\ wire' = Append(wire, Notification(item[s]))
        <4>1. item[s] \in 0 .. watermark BY DEF Numbered
        <4>2. wire' \in Seq([kind : Kinds, id : 0 .. watermark]) /\ Len(wire') <= WireSize
          BY <1>5, <1>6, <3>2, <4>1
        <4>3. watermark <= watermark' /\ watermark' \in Nat /\ watermark \in Nat
          BY <2>1, FinishTypes DEF Widened, Framed
        <4>4. [kind : Kinds, id : 0 .. watermark] \subseteq [kind : Kinds, id : 0 .. watermark'] BY <4>3
        <4> QED BY <4>2, <4>4, SeqWidens
      <3> QED BY <2>3, <3>1, <3>2
    <2>5. Budget' /\ Widened BY <2>1, FinishTypes
    <2> QED BY <1>12, <2>2, <2>4, <2>5 DEF Widened, Framed
  <1>10. \A s \in Sources : item[s] \in 0 .. watermark BY DEF Numbered
  <1>11. \A s \in Sources : \A q : q = queue \/ (HasRoom(queue, QueueSize) /\ q = Append(queue, item[s])) \/ q = <<Closed>> =>
            q \in Seq(-1 .. watermark) /\ Len(q) <= QueueSize
    <2>1. ASSUME NEW s \in Sources, HasRoom(queue, QueueSize), NEW q, q = Append(queue, item[s])
          PROVE  q \in Seq(-1 .. watermark) /\ Len(q) <= QueueSize
      <3>1. item[s] \in -1 .. watermark /\ queue \in Seq(-1 .. watermark) BY <1>10 DEF Numbered
      <3> QED BY <2>1, <3>1 DEF HasRoom
    <2>2. ASSUME NEW q, q = <<Closed>> PROVE q \in Seq(-1 .. watermark) /\ Len(q) <= QueueSize
      <3>1. Closed \in -1 .. watermark BY DEF Closed, Broken, Framed
      <3> QED BY <2>2, <3>1
    <2> QED BY <2>1, <2>2 DEF Numbered, Framed
  <1>13. \A w \in Nat : watermark <= w =>
            /\ \A q \in Seq(-1 .. watermark) : q \in Seq(-1 .. w)
            /\ \A q \in Seq(1 .. watermark) : q \in Seq(1 .. w)
    <2>1. ASSUME NEW w \in Nat, watermark <= w
          PROVE  /\ \A q \in Seq(-1 .. watermark) : q \in Seq(-1 .. w)
                 /\ \A q \in Seq(1 .. watermark) : q \in Seq(1 .. w)
      <3>1. -1 .. watermark \subseteq -1 .. w /\ 1 .. watermark \subseteq 1 .. w
        BY <2>1 DEF Framed
      <3> QED BY <3>1, SeqWidens
    <2> QED BY <2>1
  <1>14. ASSUME NEW s \in Sources, Put(s) PROVE Framed' /\ Budget' /\ Numbered'
    <2>1. lockq # <<>> BY <1>14 DEF Put, Locked, Holds
    <2>2. Budget' /\ Widened BY <1>1, <1>14, <2>1, FinishTypes DEF Put
    <2>3. queue' \in Seq(-1 .. watermark') /\ Len(queue') <= QueueSize
      BY <1>11, <1>13, <1>14, <2>2 DEF Put, Widened
    <2>4. UNCHANGED <<subscribed, projection, forwarderVars, conn, routing, pending,
                   attachVars, reply, wire, clientVars, cb, lost, bounds>>
      BY <1>14 DEF Put
    <2> QED BY <1>12, <2>2, <2>3, <2>4 DEF Widened, Framed
  <1>15. ASSUME UNCHANGED <<watermark, item, next>>, lockq' \in Seq(Actors),
                spc' \in [Sources -> {"idle", "enter", "lock", "put", "send", "stray"}]
         PROVE  Budget' /\ Widened
    <2>1. Budget' BY <1>15 DEF Budget
    <2>2. watermark' \in Nat /\ watermark <= watermark' BY <1>15 DEF Framed
    <2> QED BY <1>15, <2>1, <2>2 DEF Widened, Framed, Numbered
  <1>16. ASSUME NEW s \in Sources, NEW pc \in {"put", "send"}, spc' = [spc EXCEPT ![s] = pc]
         PROVE  spc' \in [Sources -> {"idle", "enter", "lock", "put", "send", "stray"}]
    BY <1>16 DEF Framed
  <1>17. ASSUME NEW s \in Sources, Publish(s) PROVE Framed' /\ Budget' /\ Numbered'
    <2>1. lockq # <<>> /\ lockq \in Seq(Actors) /\ Tail(lockq) \in Seq(Actors)
      BY <1>1, <1>17 DEF Publish, Holds, Framed
    <2>2. /\ UNCHANGED <<subscribed, forwarderVars, conn, routing, attachVars, reply, wire,
                         clientVars, cb, bounds>>
          /\ lost' \subseteq -1 .. watermark
      <3>4. queue \in Seq(-1 .. watermark) /\ lost \subseteq -1 .. watermark BY DEF Numbered
      <3>6. PICK N : N = -1 .. watermark OBVIOUS
      <3>5. \A i \in DOMAIN queue : queue[i] \in N
        <4>1. queue \in Seq(N) BY <3>4, <3>6
        <4> QED BY <4>1
      <3>1. {queue[i] : i \in DOMAIN queue} \subseteq -1 .. watermark /\ lost \subseteq -1 .. watermark
        BY <3>4, <3>5, <3>6
      <3>2. lost' = lost \/ lost' = lost \cup {queue[i] : i \in DOMAIN queue} BY <1>17 DEF Publish
      <3>3. lost' \subseteq -1 .. watermark BY <3>1, <3>2
      <3> QED BY <1>17, <3>3 DEF Publish
    <2>3. ASSUME Route(s, Tail(lockq))
          PROVE  Budget' /\ Widened /\ pending' \in Seq(1 .. watermark)
      <3>1. pending \in Seq(1 .. watermark) /\ item[s] \in 0 .. watermark BY DEF Numbered
      <3>2. pending' = pending \/ (item[s] # Callback /\ pending' = Append(pending, item[s]))
        BY <2>3 DEF Route
      <3>6. item[s] # Callback => item[s] \in 1 .. watermark BY <3>1 DEF Callback
      <3>3. pending' \in Seq(1 .. watermark)
        <4>1. PICK N : N = 1 .. watermark OBVIOUS
        <4>2. pending \in Seq(N) /\ (item[s] # Callback => item[s] \in N) BY <3>1, <3>6, <4>1
        <4>3. pending' \in Seq(N) BY <3>2, <4>2
        <4> QED BY <4>1, <4>3
      <3>4. CASE Finish(s, Tail(lockq)) BY <2>1, <3>3, <3>4, FinishTypes
      <3>5. CASE ~Finish(s, Tail(lockq))
        <4>1. spc' = [spc EXCEPT ![s] = "send"] /\ lockq' = Tail(lockq) /\ UNCHANGED <<watermark, item, next>>
          BY <2>3, <3>5 DEF Route
        <4> QED BY <1>15, <1>16, <2>1, <3>3, <4>1
      <3> QED BY <3>4, <3>5
    <2>4. ASSUME Enqueue(s)
          PROVE  Budget' /\ Widened /\ queue' \in Seq(-1 .. watermark) /\ Len(queue') <= QueueSize
      <3>1. CASE HasRoom(queue, QueueSize)
        <4>1. queue' = Append(queue, item[s]) /\ Finish(s, Tail(lockq)) BY <2>4, <3>1 DEF Enqueue
        <4> QED BY <1>11, <2>1, <3>1, <4>1, FinishTypes
      <3>2. CASE ~HasRoom(queue, QueueSize)
        <4>1. /\ spc' = [spc EXCEPT ![s] = "put"] /\ lockq' = lockq /\ queue' = queue
              /\ UNCHANGED <<watermark, item, next>>
          BY <2>4, <3>2 DEF Enqueue
        <4> QED BY <1>11, <1>15, <1>16, <2>1, <4>1
      <3> QED BY <3>1, <3>2
    <2>5. /\ Budget' /\ Widened /\ pending' \in Seq(1 .. watermark) /\ projection' \in -1 .. watermark
          /\ queue' \in Seq(-1 .. watermark) /\ Len(queue') <= QueueSize
      <3>1. pending \in Seq(1 .. watermark) /\ item[s] \in 0 .. watermark /\ projection \in -1 .. watermark
        BY DEF Numbered
      <3>2. CASE Route(s, Tail(lockq)) /\ UNCHANGED <<projection, queue>>
        BY <1>11, <2>3, <3>1, <3>2
      <3>3. CASE /\ projection' = (IF item[s] = Callback THEN projection ELSE item[s])
                 /\ Enqueue(s) /\ UNCHANGED pending
        BY <2>4, <3>1, <3>3
      <3>4. CASE projection' = Broken /\ queue' = <<Closed>> /\ Route(s, Tail(lockq))
        <4>1. Broken \in -1 .. watermark BY DEF Broken, Framed
        <4> QED BY <1>11, <2>3, <3>1, <3>4, <4>1
      <3> QED BY <1>17, <3>2, <3>3, <3>4 DEF Publish
    <2>6. watermark' \in Nat /\ watermark <= watermark' BY <2>5 DEF Widened
    <2>7. queue' \in Seq(-1 .. watermark') /\ pending' \in Seq(1 .. watermark') BY <1>13, <2>5, <2>6
    <2>8. projection' \in -1 .. watermark' /\ lost' \subseteq -1 .. watermark' BY <2>2, <2>5, <2>6, SMTT(30) DEF Framed
    <2>9. wire' \in Seq([kind : Kinds, id : 0 .. watermark']) /\ Len(wire') <= WireSize
      BY <2>2, <2>5 DEF Widened, Framed
    <2> QED BY <1>12, <2>2, <2>5, <2>7, <2>8, <2>9 DEF Framed
  <1>18. ASSUME NEW f \in [Sources -> {"nothing", "event", "callback"}],
                \A u \in Sources : f[u] = "event" => next[u] = "event"
         PROVE  watermark + Cardinality({u \in Sources : f[u] = "event"}) <= MaxEvents
    <2>1. PICK A : A = {u \in Sources : next[u] = "event"} OBVIOUS
    <2>2. PICK B : B = {u \in Sources : f[u] = "event"} OBVIOUS
    <2>3. B \subseteq A /\ A \subseteq Sources BY <1>18, <2>1, <2>2
    <2>4. IsFiniteSet(Sources)
      <3>1. IsFiniteSet({Turn}) /\ IsFiniteSet(Requests) BY FS_Singleton
      <3> QED BY <3>1, FS_Union DEF Sources
    <2>5. IsFiniteSet(A) BY <2>3, <2>4, FS_Subset
    <2>6. Cardinality(B) <= Cardinality(A) /\ Cardinality(A) \in Nat /\ Cardinality(B) \in Nat
      BY <2>3, <2>5, FS_Subset, FS_CardinalityType
    <2> QED BY <2>1, <2>2, <2>6 DEF Budget, Framed
  <1>19. ASSUME Interrupt PROVE Framed' /\ Budget' /\ Numbered'
    <2>1. Without(lockq, {Turn}) \in Seq(Actors) BY LockWithout DEF Framed, Locked
    <2>2. item[Turn] \in 0 .. watermark BY DEF Numbered, Sources
    <2>3. next' \in [Sources -> {"nothing", "event", "callback"}] /\ \A u \in Sources : next'[u] = "event" => next[u] = "event"
      BY <1>19 DEF Interrupt, Framed
    <2>4. Budget' BY <1>18, <1>19, <2>3 DEF Interrupt, Budget
    <2>5. Framed' BY <1>19, <2>1, <2>3 DEF Interrupt, Framed, forwarderVars, attachVars, clientVars
    <2>7. lost' \subseteq -1 .. watermark
      <3>1. PICK N : N = -1 .. watermark OBVIOUS
      <3>2. lost \subseteq N /\ item[Turn] \in N BY <2>2, <3>1 DEF Numbered, Framed
      <3>3. lost' \subseteq N BY <1>19, <3>2 DEF Interrupt
      <3> QED BY <3>1, <3>3
    <2>6. Numbered' BY <1>19, <2>7 DEF Interrupt, Numbered, forwarderVars, attachVars, clientVars
    <2> QED BY <2>4, <2>5, <2>6
  <1>20. ASSUME Leave PROVE Framed' /\ Budget' /\ Numbered'
    <2>1. Budget' BY <1>20 DEF Leave, Budget, sourceVars
    <2>8. Framed' BY <1>5, <1>20 DEF Leave, Framed, forwarderVars, attachVars, clientVars, bounds, sourceVars
    <2>9. Numbered' BY <1>5, <1>20 DEF Leave, Numbered, forwarderVars, attachVars, clientVars, bounds, sourceVars
    <2> QED BY <2>1, <2>8, <2>9
  <1>21. ASSUME StartForwarder PROVE Framed' /\ Budget' /\ Numbered'
    <2>1. Budget' BY <1>21 DEF StartForwarder, Budget, sourceVars
    <2>8. Framed' BY <1>5, <1>21 DEF StartForwarder, Framed, forwarderVars, attachVars, clientVars, bounds, sourceVars
    <2>9. Numbered' BY <1>5, <1>21 DEF StartForwarder, Numbered, forwarderVars, attachVars, clientVars, bounds, sourceVars
    <2> QED BY <2>1, <2>8, <2>9
  <1>22. ASSUME TakeEvent PROVE Framed' /\ Budget' /\ Numbered'
    <2>1. Budget' BY <1>22 DEF TakeEvent, Budget, sourceVars
    <2>2. PICK x : x = Head(queue) /\ x \in -1 .. watermark /\ queue # <<>> BY <1>4, <1>22 DEF TakeEvent
    <2>3. queue' \in Seq(-1 .. watermark) /\ Len(queue') <= QueueSize BY <1>4, <1>22, <2>2 DEF TakeEvent
    <2>4. lockq' \in Seq(Actors) /\ fpc' \in {"get", "send", "closing", "failing"}
      BY <1>2, <1>3, <1>22, <2>2 DEF TakeEvent, EndStream, Forward, Framed
    <2>5. fitem' \in 0 .. watermark /\ after' \in 0 .. watermark
      <3>1. fitem \in 0 .. watermark /\ after \in 0 .. watermark BY DEF Numbered
      <3>2. \/ fitem' = fitem /\ after' = after
            \/ x \in 0 .. watermark /\ after' \in {x, after} /\ fitem' \in {x, fitem}
        BY <1>22, <2>2, <3>1 DEF TakeEvent, EndStream, Forward, Callback
      <3> QED BY <3>1, <3>2
    <2>6. pending' \in Seq(1 .. watermark)
      <3>1. PICK N : N = 1 .. watermark OBVIOUS
      <3>2. pending' = pending \/ (x \in N /\ pending' = Append(pending, x))
        BY <1>22, <2>2, <3>1, SMTT(30) DEF TakeEvent, EndStream, Forward, Framed, Callback
      <3>3. pending \in Seq(N) BY <3>1 DEF Numbered
      <3>4. pending' \in Seq(N) BY <3>2, <3>3
      <3> QED BY <3>1, <3>4
    <2>7. UNCHANGED <<sourceVars, subscribed, projection, failed, conn, routing, attachVars,
                   reply, wire, clientVars, cb, lost, bounds>>
      BY <1>22 DEF TakeEvent
    <2>8. Framed' BY <2>3, <2>4, <2>7 DEF Framed, forwarderVars, attachVars, clientVars, bounds, sourceVars
    <2>9. Numbered' BY <2>3, <2>5, <2>6, <2>7 DEF Numbered, forwarderVars, attachVars, clientVars, bounds, sourceVars, TakeEvent
    <2> QED BY <2>1, <2>8, <2>9
  <1>23. ASSUME ForwardSent PROVE Framed' /\ Budget' /\ Numbered'
    <2>1. Budget' BY <1>23 DEF ForwardSent, Budget, sourceVars
    <2>2. wire' \in Seq([kind : Kinds, id : 0 .. watermark]) /\ Len(wire') <= WireSize
      BY <1>5, <1>6, <1>23 DEF ForwardSent, Framed, Numbered, Kinds
    <2>8. Framed' BY <1>5, <1>23, <2>2 DEF ForwardSent, Framed, forwarderVars, attachVars, clientVars, bounds, sourceVars
    <2>9. Numbered' BY <1>5, <1>23, <2>2 DEF ForwardSent, Numbered, forwarderVars, attachVars, clientVars, bounds, sourceVars
    <2> QED BY <2>1, <2>8, <2>9
  <1>24. ASSUME CloseStream PROVE Framed' /\ Budget' /\ Numbered'
    <2>1. Budget' BY <1>24 DEF CloseStream, Budget, sourceVars
    <2>2. lockq' \in Seq(Actors) BY <1>1, <1>24 DEF CloseStream, Holds
    <2>3. failed' \in BOOLEAN BY <1>24 DEF CloseStream, Framed
    <2>4. /\ subscribed' \in BOOLEAN /\ fpc' = "none"
          /\ UNCHANGED <<sourceVars, projection, queue, fitem, after, conn, routing, pending,
                         attachVars, reply, wire, clientVars, cb, lost, bounds>>
      BY <1>24 DEF CloseStream
    <2>8. Framed' BY <2>2, <2>3, <2>4 DEF Framed, forwarderVars, attachVars, clientVars, bounds, sourceVars
    <2>9. Numbered' BY <1>5, <1>24, <2>2 DEF CloseStream, Numbered, forwarderVars, attachVars, clientVars, bounds, sourceVars
    <2> QED BY <2>1, <2>8, <2>9
  <1>25. ASSUME ServeResume PROVE Framed' /\ Budget' /\ Numbered'
    <2>1. Budget' BY <1>25 DEF ServeResume, Budget, sourceVars
    <2>8. Framed' BY <1>5, <1>25 DEF ServeResume, Framed, forwarderVars, attachVars, clientVars, bounds, sourceVars
    <2>9. Numbered' BY <1>5, <1>25 DEF ServeResume, Numbered, forwarderVars, attachVars, clientVars, bounds, sourceVars
    <2> QED BY <2>1, <2>8, <2>9
  <1>26. ASSUME Subscribe PROVE Framed' /\ Budget' /\ Numbered'
    <2>1. Budget' BY <1>26 DEF Subscribe, Budget, sourceVars
    <2>2. lockq' \in Seq(Actors) /\ apc' \in {"lock", "refuse", "read"}
      <3>1. <<"attach">> \in Seq(Actors) /\ Tail(<<"attach">>) \in Seq(Actors) BY <1>3
      <3>2. lockq \in Seq(Actors) BY DEF Framed
      <3> QED BY <1>1, <1>2, <1>3, <1>26, <3>1, <3>2 DEF Subscribe, Entered, Holds
    <2>8. Framed' BY <1>5, <1>26, <2>2 DEF Subscribe, Framed, forwarderVars, attachVars, clientVars, bounds, sourceVars
    <2>9. Numbered' BY <1>5, <1>26, <2>2 DEF Subscribe, Numbered, forwarderVars, attachVars, clientVars, bounds, sourceVars
    <2> QED BY <2>1, <2>8, <2>9
  <1>27. ASSUME Subscribed PROVE Framed' /\ Budget' /\ Numbered'
    <2>1. Budget' BY <1>27 DEF Subscribed, Budget, sourceVars
    <2>2. lockq' \in Seq(Actors) BY <1>1, <1>27 DEF Subscribed, Locked, Holds
    <2>3. pending' \in Seq(1 .. watermark) BY <1>27, WithoutFacts DEF Subscribed, Numbered
    <2>4. queue' \in Seq(-1 .. watermark) /\ Len(queue') <= QueueSize BY <1>27 DEF Subscribed
    <2>8. Framed' BY <1>5, <1>27, <2>2, <2>3, <2>4 DEF Subscribed, Framed, forwarderVars, attachVars, clientVars, bounds, sourceVars
    <2>5. watermark \in 0 .. watermark /\ watermark \in -1 .. watermark BY DEF Framed
    <2>6. {} \subseteq -1 .. watermark OBVIOUS
    <2>9. Numbered' BY <1>27, <2>3, <2>4, <2>5, <2>6 DEF Subscribed, Numbered, forwarderVars, attachVars, clientVars, bounds, sourceVars
    <2> QED BY <2>1, <2>8, <2>9
  <1>28. ASSUME Refuse PROVE Framed' /\ Budget' /\ Numbered'
    <2>1. Budget' BY <1>28 DEF Refuse, Budget, sourceVars
    <2>2. wire' \in Seq([kind : Kinds, id : 0 .. watermark]) /\ Len(wire') <= WireSize
      BY <1>5, <1>6, <1>28 DEF Refuse, Framed, Numbered, Kinds
    <2>8. Framed' BY <1>5, <1>28, <2>2 DEF Refuse, Framed, forwarderVars, attachVars, clientVars, bounds, sourceVars
    <2>9. Numbered' BY <1>5, <1>28, <2>2, SMTT(30) DEF Refuse, Numbered, forwarderVars, attachVars, clientVars, bounds, sourceVars
    <2> QED BY <2>1, <2>8, <2>9
  <1>29. ASSUME Respond PROVE Framed' /\ Budget' /\ Numbered'
    <2>1. Budget' BY <1>29 DEF Respond, Budget, sourceVars
    <2>2. wire' \in Seq([kind : Kinds, id : 0 .. watermark]) /\ Len(wire') <= WireSize
      BY <1>5, <1>6, <1>29 DEF Respond, Framed, Numbered, Kinds
    <2>3. /\ pending' \in Seq(1 .. watermark) /\ batch' \in Seq(1 .. watermark)
          /\ apc' \in {"idle", "drain", "redeliver"} /\ routing' \in {"none", "attaching", "attached"}
      <3>1. PICK N : N = 1 .. watermark OBVIOUS
      <3>2. pending \in Seq(N) /\ batch \in Seq(N) /\ <<>> \in Seq(N) BY <3>1 DEF Numbered
      <3>3. pending' \in Seq(N) /\ batch' \in Seq(N)
        BY <1>29, <3>1, <3>2 DEF Respond, FinishAttachment
      <3>4. apc' \in {"idle", "drain", "redeliver"} /\ routing' \in {"none", "attaching", "attached"}
        BY <1>29 DEF Respond, FinishAttachment, Framed
      <3> QED BY <3>1, <3>3, <3>4
    <2>8. Framed' BY <1>5, <1>29, <2>2, <2>3 DEF Respond, Framed, forwarderVars, attachVars, clientVars, bounds, sourceVars
    <2>9. Numbered' BY <1>5, <1>29, <2>2, <2>3 DEF Respond, Numbered, forwarderVars, attachVars, clientVars, bounds, sourceVars
    <2> QED BY <2>1, <2>8, <2>9
  <1>30. ASSUME Drain PROVE Framed' /\ Budget' /\ Numbered'
    <2>1. Budget' BY <1>30 DEF Drain, Budget, sourceVars
    <2>4. batch # <<>> BY <1>30 DEF Drain, Stream, Held
    <2>5. Head(batch) \in 0 .. watermark /\ Tail(batch) \in Seq(1 .. watermark)
      <3>1. PICK N : N = 1 .. watermark OBVIOUS
      <3>2. batch \in Seq(N) BY <3>1 DEF Numbered
      <3>3. Head(batch) \in N /\ Tail(batch) \in Seq(N) BY <2>4, <3>2
      <3>4. Head(batch) \in 0 .. watermark BY <3>1, <3>3 DEF Framed
      <3> QED BY <3>1, <3>3, <3>4
    <2>2. wire' \in Seq([kind : Kinds, id : 0 .. watermark]) /\ Len(wire') <= WireSize
      BY <1>5, <1>6, <1>30, <2>5 DEF Drain, Framed, Numbered, Kinds
    <2>3. /\ pending' \in Seq(1 .. watermark) /\ batch' \in Seq(1 .. watermark)
          /\ apc' \in {"idle", "drain", "redeliver"} /\ routing' \in {"none", "attaching", "attached"}
      <3>1. PICK N : N = 1 .. watermark OBVIOUS
      <3>2. pending \in Seq(N) /\ batch \in Seq(N) /\ <<>> \in Seq(N) BY <3>1 DEF Numbered
      <3>3. pending' \in Seq(N) /\ batch' \in Seq(N)
        BY <1>30, <2>5, <3>1, <3>2 DEF Drain, FinishAttachment
      <3>4. apc' \in {"idle", "drain", "redeliver"} /\ routing' \in {"none", "attaching", "attached"}
        BY <1>30 DEF Drain, FinishAttachment, Framed
      <3> QED BY <3>1, <3>3, <3>4
    <2>6. UNCHANGED <<sourceVars, lockq, subscribed, projection, queue, forwarderVars, conn,
                   snapshot, reply, clientVars, cb, lost, bounds>>
      BY <1>30 DEF Drain
    <2>8. Framed' BY <2>2, <2>3, <2>6 DEF Framed, forwarderVars, attachVars, clientVars, bounds, sourceVars
    <2>9. Numbered' BY <1>5, <1>30, <2>4, <2>5, <2>2, <2>3 DEF Drain, Numbered, forwarderVars, attachVars, clientVars, bounds, sourceVars
    <2> QED BY <2>1, <2>8, <2>9
  <1>31. ASSUME Redeliver PROVE Framed' /\ Budget' /\ Numbered'
    <2>1. Budget' BY <1>31 DEF Redeliver, Budget, sourceVars
    <2>2. wire' \in Seq([kind : Kinds, id : 0 .. watermark]) /\ Len(wire') <= WireSize
      BY <1>5, <1>6, <1>31 DEF Redeliver, Framed, Numbered, Kinds, Callback
    <2>8. Framed' BY <1>5, <1>31, <2>2 DEF Redeliver, Framed, forwarderVars, attachVars, clientVars, bounds, sourceVars
    <2>9. Numbered' BY <1>5, <1>31, <2>2 DEF Redeliver, Numbered, forwarderVars, attachVars, clientVars, bounds, sourceVars
    <2> QED BY <2>1, <2>8, <2>9
  <1>32. ASSUME ServeRead PROVE Framed' /\ Budget' /\ Numbered'
    <2>1. Budget' BY <1>32 DEF ServeRead, Budget, sourceVars
    <2>8. Framed' BY <1>5, <1>32 DEF ServeRead, Framed, forwarderVars, attachVars, clientVars, bounds, sourceVars
    <2>2. watermark \in -1 .. watermark BY DEF Framed
    <2>9. Numbered' BY <1>32, <2>2 DEF ServeRead, Numbered, forwarderVars, attachVars, clientVars, bounds, sourceVars
    <2> QED BY <2>1, <2>8, <2>9
  <1>33. ASSUME SendRead PROVE Framed' /\ Budget' /\ Numbered'
    <2>1. Budget' BY <1>33 DEF SendRead, Budget, sourceVars
    <2>2. wire' \in Seq([kind : Kinds, id : 0 .. watermark]) /\ Len(wire') <= WireSize
      <3>1. reply \in 0 .. watermark BY <1>33 DEF SendRead, Numbered, Broken, Framed
      <3> QED BY <1>5, <1>33, <3>1 DEF SendRead, Kinds
    <2>8. Framed' BY <1>5, <1>33, <2>2 DEF SendRead, Framed, forwarderVars, attachVars, clientVars, bounds, sourceVars
    <2>3. Broken \in -1 .. watermark BY DEF Framed, Broken
    <2>9. Numbered' BY <1>33, <2>2, <2>3 DEF SendRead, Numbered, forwarderVars, attachVars, clientVars, bounds, sourceVars
    <2> QED BY <2>1, <2>8, <2>9
  <1>34. ASSUME Detached PROVE Framed' /\ Budget' /\ Numbered'
    <2>1. Budget' BY <1>34 DEF Detached, Budget, sourceVars
    <2>8. Framed' BY <1>5, <1>34 DEF Detached, Framed, forwarderVars, attachVars, clientVars, bounds, sourceVars
    <2>9. Numbered' BY <1>5, <1>34 DEF Detached, Numbered, forwarderVars, attachVars, clientVars, bounds, sourceVars
    <2> QED BY <2>1, <2>8, <2>9
  <1>35. ASSUME CloseTransport PROVE Framed' /\ Budget' /\ Numbered'
    <2>1. Budget' BY <1>35 DEF CloseTransport, Budget, sourceVars
    <2>2. Len(<<>>) = 0 /\ WireSize >= 0 /\ IncomingSize >= 0 OBVIOUS
    <2>3. spc' \in [Sources -> {"idle", "enter", "lock", "put", "send", "stray"}]
      BY <1>35 DEF CloseTransport, Framed
    <2>4. /\ wire' = <<>> /\ incoming' = <<>> /\ req' = "none" /\ failed' \in BOOLEAN /\ conn' = "down"
          /\ cpc' \in {"dead", "lost"}
          /\ UNCHANGED <<watermark, item, next, lockq, subscribed, projection, queue, fpc, fitem,
                         after, routing, pending, attachVars, reply, view, told, cb, lost, bounds>>
      BY <1>35 DEF CloseTransport
    <2>8. Framed' BY <2>2, <2>3, <2>4 DEF Framed, forwarderVars, attachVars, clientVars, bounds, sourceVars
    <2>9. Numbered' BY <1>5, <1>35 DEF CloseTransport, Numbered, forwarderVars, attachVars, clientVars, bounds, sourceVars
    <2> QED BY <2>1, <2>8, <2>9
  <1>36. ASSUME Connect PROVE Framed' /\ Budget' /\ Numbered'
    <2>1. Budget' BY <1>36 DEF Connect, Budget, sourceVars
    <2>8. Framed' BY <1>5, <1>36 DEF Connect, Framed, forwarderVars, attachVars, clientVars, bounds, sourceVars
    <2>9. Numbered' BY <1>5, <1>36 DEF Connect, Numbered, forwarderVars, attachVars, clientVars, bounds, sourceVars
    <2> QED BY <2>1, <2>8, <2>9
  <1>37. ASSUME Receive PROVE Framed' /\ Budget' /\ Numbered'
    <2>1. Budget' BY <1>37 DEF Receive, Budget, sourceVars
    <2>2. PICK m : m = Head(wire) /\ m \in [kind : Kinds, id : 0 .. watermark] /\ wire # <<>>
      <3>1. PICK M : M = [kind : Kinds, id : 0 .. watermark] OBVIOUS
      <3>2. wire \in Seq(M) /\ wire # <<>> BY <1>37, <3>1 DEF Receive, Numbered
      <3>3. Head(wire) \in M BY <3>2
      <3> QED BY <3>1, <3>2, <3>3
    <2>3. wire' \in Seq([kind : Kinds, id : 0 .. watermark]) /\ Len(wire') <= WireSize
      <3>1. PICK M : M = [kind : Kinds, id : 0 .. watermark] OBVIOUS
      <3>2. wire \in Seq(M) /\ wire' = Tail(wire) BY <1>37, <3>1 DEF Receive, Numbered
      <3>3. wire' \in Seq(M) /\ Len(wire') <= Len(wire) BY <2>2, <3>2
      <3> QED BY <3>1, <3>2, <3>3 DEF Framed
    <2>4. /\ incoming' \in Seq([kind : {"event", "callback"}, id : 0 .. watermark])
          /\ Len(incoming') <= IncomingSize
      <3>1. PICK M : M = [kind : {"event", "callback"}, id : 0 .. watermark] OBVIOUS
      <3>2. incoming \in Seq(M) /\ Len(incoming) <= IncomingSize BY <3>1 DEF Framed, Numbered
      <3>3. \/ incoming' = incoming
            \/ m \in M /\ Len(incoming) < IncomingSize /\ incoming' = Append(incoming, m)
        BY <1>37, <2>2, <3>1 DEF Receive, HasRoom
      <3>4. incoming' \in Seq(M) /\ Len(incoming') <= IncomingSize BY <3>2, <3>3
      <3> QED BY <3>1, <3>4
    <2>5. cpc' \in {cpc, "pump", "dead"} /\ view' \in {view, m.id} /\ m.id \in 0 .. watermark
      BY <1>37, <2>2 DEF Receive
    <2>6. UNCHANGED <<sourceVars, lockq, subscribed, projection, queue, forwarderVars, conn,
                   routing, pending, attachVars, reply, req, told, cb, lost, bounds>>
      BY <1>37 DEF Receive
    <2>8. Framed' BY <2>3, <2>4, <2>5, <2>6 DEF Framed, forwarderVars, attachVars, clientVars, bounds, sourceVars
    <2>9. Numbered' BY <2>3, <2>4, <2>5, <2>6 DEF Numbered, forwarderVars, attachVars, clientVars, bounds, sourceVars
    <2> QED BY <2>1, <2>8, <2>9
  <1>38. ASSUME Consume PROVE Framed' /\ Budget' /\ Numbered'
    <2>1. Budget' BY <1>38 DEF Consume, Budget, sourceVars
    <2>2. /\ incoming # <<>> /\ incoming' \in Seq([kind : {"event", "callback"}, id : 0 .. watermark])
          /\ Len(incoming') <= IncomingSize /\ Head(incoming).id \in 0 .. watermark
      <3>1. PICK M : M = [kind : {"event", "callback"}, id : 0 .. watermark] OBVIOUS
      <3>2. incoming \in Seq(M) /\ Len(incoming) <= IncomingSize BY <3>1 DEF Framed, Numbered
      <3>3. incoming # <<>> /\ incoming' = Tail(incoming) BY <1>38 DEF Consume
      <3>4. incoming' \in Seq(M) /\ Len(incoming') <= Len(incoming) /\ Head(incoming) \in M BY <3>2, <3>3
      <3> QED BY <3>1, <3>2, <3>3, <3>4
    <2>3. view' \in 0 .. watermark BY <1>38, <2>2 DEF Consume, Advanced, Numbered
    <2>4. cpc' \in {cpc, "resync"} /\ req' \in {req, "read"} /\ told' \in {told, TRUE}
      BY <1>38 DEF Consume
    <2>5. UNCHANGED <<sourceVars, lockq, subscribed, projection, queue, forwarderVars, conn,
                   routing, pending, attachVars, reply, wire, cb, lost, bounds>>
      BY <1>38 DEF Consume
    <2>6. Len(incoming') <= IncomingSize BY <2>2
    <2>7. cpc' \in {"lost", "resume", "pump", "resync", "gone", "dead"} BY <2>4 DEF Framed
    <2>10. req' \in {"none", "resume", "read"} /\ told' \in BOOLEAN BY <2>4 DEF Framed
    <2>8. Framed' BY <2>5, <2>6, <2>7, <2>10 DEF Framed, forwarderVars, attachVars, clientVars, bounds, sourceVars
    <2>9. Numbered' BY <2>2, <2>3, <2>5 DEF Numbered, forwarderVars, attachVars, clientVars, bounds, sourceVars
    <2> QED BY <2>1, <2>8, <2>9
  <1>39. ASSUME Detach PROVE Framed' /\ Budget' /\ Numbered'
    <2>1. /\ next' \in [Sources -> {"nothing", "event", "callback"}]
          /\ \A u \in Sources : next'[u] = "event" => next[u] = "event"
          /\ spc' \in [Sources -> {"idle", "enter", "lock", "put", "send", "stray"}]
      BY <1>39 DEF Detach, Framed
    <2>2. Budget' BY <1>18, <1>39, <2>1 DEF Detach, Budget
    <2>3. lockq' \in Seq(Actors)
      <3>1. \A some : Without(lockq, some) \in Seq(Actors) BY LockWithout DEF Framed, Locked
      <3>2. \E some : lockq' \in {Without(lockq, some), Append(Without(lockq, some), "stream")}
        BY <1>39 DEF Detach
      <3> QED BY <1>3, <3>1, <3>2
    <2>4. lost' \subseteq -1 .. watermark
      <3>1. PICK N : N = -1 .. watermark OBVIOUS
      <3>2. lost \subseteq N /\ \A s \in Sources : item[s] \in N BY <3>1 DEF Numbered, Framed
      <3>3. fitem \in N
        <4>1. fitem \in 0 .. watermark /\ watermark \in Nat BY DEF Numbered, Framed
        <4> QED BY <3>1, <4>1
      <3>4. Requests \subseteq Sources BY DEF Sources
      <3>5. lost' \subseteq N BY <1>39, <3>2, <3>3, <3>4 DEF Detach
      <3> QED BY <3>1, <3>5
    <2>5. /\ conn' = "stopping" /\ fpc' = "none" /\ apc' = "idle" /\ batch' = <<>> /\ reply' = Broken
          /\ UNCHANGED <<watermark, item, subscribed, projection, queue, fitem, after, failed,
                         routing, pending, snapshot, wire, clientVars, cb, bounds>>
      BY <1>39 DEF Detach
    <2>6. Framed' BY <2>1, <2>3, <2>5 DEF Framed, clientVars
    <2>7. Broken \in -1 .. watermark /\ <<>> \in Seq(1 .. watermark) BY DEF Broken, Framed
    <2>8. Numbered' BY <2>4, <2>5, <2>7 DEF Numbered, clientVars
    <2> QED BY <2>2, <2>6, <2>8
  <1> QED
    BY <1>7, <1>8, <1>9, <1>14, <1>17, <1>19, <1>20, <1>21, <1>22, <1>23, <1>24, <1>25, <1>26, <1>27,
       <1>28, <1>29, <1>30, <1>31, <1>32, <1>33, <1>34, <1>35, <1>36, <1>37, <1>38, <1>39
    DEF Next, Publishing, Forwarding, Attaching, Reading, Detaching, Client

-----------------------------------------------------------------------------
(* The lock. *)

(* What leaving and joining the lock's queue does to it. *)
Relocked(s, locks) ==
    /\ IsInjective(lockq') /\ InOrder(lockq', item')
    /\ \A t \in Sources : t \in Range(lockq') <=> spc'[t] \in InLine
    /\ \A t \in Sources : spc'[t] = "put" => t # s /\ spc[t] = "put" /\ item'[t] = item[t]
    /\ \A a \in {"attach", "stream"} : a \in Range(lockq') <=> a \in Range(locks)
    /\ locks # <<>> => lockq' # <<>> /\ Head(lockq') = Head(locks)

LEMMA FinishLocks ==
    ASSUME Framed, Budget, Numbered, NEW s \in Sources, NEW locks \in Seq(Actors),
           \/ Finish(s, locks)
           \/ \E then \in {"nothing", "event", "callback"} : locks = lockq /\ Begin(s, then)
           \/ UNCHANGED <<watermark, item, next>> /\ lockq' = locks /\ spc' = [spc EXCEPT ![s] = "send"],
           IsInjective(locks), s \notin Range(locks), InOrder(locks, item),
           \A t \in Sources \ {s} : t \in Range(locks) <=> spc[t] \in InLine
    PROVE  Relocked(s, locks)
  <1>1. /\ spc \in [Sources -> {"idle", "enter", "lock", "put", "send", "stray"}]
        /\ item \in [Sources -> 0 .. watermark] /\ watermark \in Nat
    BY DEF Framed, Numbered
  <1>2. CASE \/ Freed(s, locks)
             \/ UNCHANGED <<watermark, item, next>> /\ lockq' = locks /\ spc' = [spc EXCEPT ![s] = "send"]
    <2>1. lockq' = locks /\ item' = item /\ spc'[s] \in {"idle", "send"}
      BY <1>1, <1>2 DEF Freed
    <2>2. \A t \in Sources \ {s} : spc'[t] = spc[t] BY <1>1, <1>2 DEF Freed
    <2>3. \A t \in Sources : t \in Range(lockq') <=> spc'[t] \in InLine BY <2>1, <2>2 DEF InLine
    <2>4. \A t \in Sources : spc'[t] = "put" => t # s /\ spc[t] = "put" /\ item'[t] = item[t]
      BY <2>1, <2>2
    <2> QED BY <2>1, <2>3, <2>4 DEF Relocked
  <1>3. CASE \E then : Joined(s, locks, then)
    <2>1. /\ spc'[s] \in {"enter", "lock"} /\ \A t \in Sources \ {s} : spc'[t] = spc[t] /\ item'[t] = item[t]
          /\ lockq' = Append(locks, s) /\ item'[s] \in {watermark + 1, Callback}
      BY <1>3 DEF Joined
    <2>2. s \in Actors \ Range(locks) BY DEF Actors
    <2>3. PICK q : q = lockq' OBVIOUS
    <2>4. /\ IsInjective(q) /\ Range(q) = Range(locks) \cup {s}
          /\ q # <<>> /\ (locks # <<>> => Head(q) = Head(locks))
          /\ \A a, b : Before(q, a, b) <=> Before(locks, a, b) \/ (a \in Range(locks) /\ b = s)
      BY <2>1, <2>2, <2>3, LockJoin
    <2>5. \A t \in Sources : t \in Range(q) <=> spc'[t] \in InLine
      BY <2>1, <2>4 DEF InLine
    <2>6. \A t \in Sources : spc'[t] = "put" => t # s /\ spc[t] = "put" /\ item'[t] = item[t] BY <2>1
    <2>7. \A a \in {"attach", "stream"} : a \in Range(q) <=> a \in Range(locks)
      BY <2>4, SizeAssumption DEF Sources
    <2>8. ASSUME NEW t \in Sources, NEW u \in Sources, Before(q, t, u), item'[t] > 0, item'[u] > 0
          PROVE  item'[t] < item'[u]
      <3>1. CASE Before(locks, t, u)
        <4>1. t \in Range(locks) /\ u \in Range(locks) BY <3>1 DEF Before, Range
        <4>2. item'[t] = item[t] /\ item'[u] = item[u] BY <2>1, <4>1
        <4> QED BY <2>8, <3>1, <4>2 DEF InOrder
      <3>2. CASE t \in Range(locks) /\ u = s
        <4>1. item'[t] = item[t] /\ item[t] \in 0 .. watermark BY <1>1, <2>1, <3>2
        <4>2. item'[u] = watermark + 1 BY <2>1, <2>8, <3>2 DEF Callback
        <4> QED BY <1>1, <4>1, <4>2
      <3> QED BY <2>4, <2>8, <3>1, <3>2
    <2>9. InOrder(q, item') BY <2>8 DEF InOrder
    <2> QED BY <2>3, <2>4, <2>5, <2>6, <2>7, <2>9 DEF Relocked
  <1> QED BY <1>2, <1>3, FinishFacts, BeginFacts

LEMMA LockedStep ==
    ASSUME Framed, Budget, Numbered, Locked, Connected, Next
    PROVE  Locked'
  <1>1. lockq \in Seq(Actors) /\ IsInjective(lockq) /\ InOrder(lockq, item) BY DEF Framed, Locked
  <1>2. lockq # <<>> =>
           /\ Tail(lockq) \in Seq(Actors) /\ IsInjective(Tail(lockq)) /\ Head(lockq) \in Range(lockq)
           /\ Range(Tail(lockq)) = Range(lockq) \ {Head(lockq)} /\ InOrder(Tail(lockq), item)
    BY <1>1, LockTail DEF InOrder
  <1>3. ASSUME NEW s \in Sources, NEW locks, Relocked(s, locks),
               \A a \in {"attach", "stream"} : a \in Range(locks) <=> Queued(a),
               UNCHANGED <<subscribed, fpc, apc>>,
               \A t \in Sources : spc'[t] = "put" => Head(locks) = t /\ locks # <<>> /\ projection' = projection,
               apc = "read" => locks # <<>> /\ Head(locks) = "attach"
        PROVE  Locked'
    <2>1. \A a \in {"attach", "stream"} : Queued(a)' <=> Queued(a) BY <1>3 DEF Relocked, Queued
    <2>2. \A t \in Sources : Queued(t)' <=> spc'[t] \in InLine BY <1>3 DEF Relocked, Queued
    <2>3. \A t \in Sources : spc'[t] = "put" => Holds(t)' /\ item'[t] \in {Callback, projection'}
      BY <1>3 DEF Relocked, Holds, Locked
    <2>4. apc = "read" => Holds("attach")' BY <1>3 DEF Relocked, Holds
    <2>5. IsInjective(lockq') /\ InOrder(lockq', item') BY <1>3 DEF Relocked
    <2> QED BY <1>3, <2>1, <2>2, <2>3, <2>4, <2>5 DEF Locked, Alive, Callback
  <1>4. "attach" \notin Sources /\ "stream" \notin Sources BY SizeAssumption DEF Sources
  <1>5. ASSUME NEW s \in Sources, Project(s) \/ (Ask /\ s = Turn) PROVE Locked'
    <2>1. PICK then \in {"nothing", "event", "callback"} : Begin(s, then) BY <1>5 DEF Project, Ask
    <2>2. s \notin Range(lockq) BY <2>1 DEF Begin, Locked, Queued, InLine
    <2>3. \A t \in Sources \ {s} : t \in Range(lockq) <=> spc[t] \in InLine BY DEF Locked, Queued
    <2>4. Relocked(s, lockq) BY <1>1, <2>1, <2>2, <2>3, FinishLocks
    <2>5. UNCHANGED <<subscribed, fpc, apc, projection>> BY <2>1 DEF Begin, forwarderVars, attachVars
    <2> QED BY <1>3, <2>4, <2>5 DEF Relocked, Locked, Holds, Queued
  <1>6. ASSUME NEW s \in Sources, SendStray(s) \/ SendDirect(s) PROVE Locked'
    <2>1. Finish(s, lockq) /\ spc[s] \in {"stray", "send"} BY <1>6 DEF SendStray, SendDirect
    <2>2. s \notin Range(lockq) BY <2>1 DEF Locked, Queued, InLine
    <2>3. \A t \in Sources \ {s} : t \in Range(lockq) <=> spc[t] \in InLine BY DEF Locked, Queued
    <2>4. Relocked(s, lockq) BY <1>1, <2>1, <2>2, <2>3, FinishLocks
    <2>5. UNCHANGED <<subscribed, fpc, apc, projection>>
      BY <1>6 DEF SendStray, SendDirect, forwarderVars, attachVars
    <2> QED BY <1>3, <2>4, <2>5 DEF Relocked, Locked, Holds, Queued
  <1>7. ASSUME NEW s \in Sources, Holds(s), UNCHANGED <<subscribed, fpc, apc>>,
               \/ Finish(s, Tail(lockq))
               \/ UNCHANGED <<watermark, item, next>> /\ lockq' = Tail(lockq) /\ spc' = [spc EXCEPT ![s] = "send"]
        PROVE  Locked'
    <2>1. lockq # <<>> /\ Head(lockq) = s BY <1>7 DEF Holds
    <2>2. /\ s \notin Range(Tail(lockq))
          /\ \A t \in Sources \ {s} : t \in Range(Tail(lockq)) <=> spc[t] \in InLine
      BY <1>2, <2>1 DEF Locked, Queued
    <2>3. Relocked(s, Tail(lockq)) BY <1>2, <1>7, <2>1, <2>2, FinishLocks
    <2>4. \A t \in Sources : spc'[t] # "put" BY <2>1, <2>3 DEF Relocked, Locked, Holds
    <2>5. apc # "read" BY <1>4, <2>1 DEF Locked, Holds
    <2>6. \A a \in {"attach", "stream"} : a \in Range(Tail(lockq)) <=> Queued(a) BY <1>2, <1>4, <2>1 DEF Queued
    <2> QED BY <1>3, <1>7, <2>3, <2>4, <2>5, <2>6
  <1>8. ASSUME NEW s \in Sources, Put(s) PROVE Locked'
    <2>1. Holds(s) BY <1>8 DEF Put, Locked
    <2> QED BY <1>7, <1>8, <2>1 DEF Put, forwarderVars, attachVars
  <1>9. ASSUME NEW s \in Sources, Publish(s) PROVE Locked'
    <2>1. Holds(s) /\ spc[s] \in {"enter", "lock"} /\ UNCHANGED <<subscribed, fpc, apc>>
      BY <1>9 DEF Publish, forwarderVars, attachVars
    <2>2. CASE spc' = [spc EXCEPT ![s] = "put"] /\ UNCHANGED <<watermark, item, next, lockq>>
      <3>1. spc \in [Sources -> {"idle", "enter", "lock", "put", "send", "stray"}] BY DEF Framed
      <3>2. spc'[s] = "put" /\ \A t \in Sources \ {s} : spc'[t] = spc[t] BY <2>2, <3>1
      <3>3. \A t \in Sources : spc'[t] \in InLine <=> spc[t] \in InLine BY <2>1, <3>2 DEF InLine
      <3>4. \A t \in Sources : spc'[t] = "put" => t = s BY <2>1, <3>2 DEF Locked, Holds
      <3>5. item[s] \in {Callback, projection'}
        <4>1. CASE Route(s, Tail(lockq))
          <5>1. spc'[s] # "put" BY <3>1, <4>1, <2>1 DEF Route, Finish
          <5> QED BY <3>2, <5>1
        <4> QED BY <1>9, <4>1 DEF Publish
      <3>6. Queued(s) BY <2>1 DEF Locked, InLine
      <3> QED BY <2>1, <2>2, <3>2, <3>3, <3>4, <3>5 DEF Locked, Queued, Holds, Alive
    <2>3. CASE ~(spc' = [spc EXCEPT ![s] = "put"] /\ UNCHANGED <<watermark, item, next, lockq>>)
      <3>1. \/ Finish(s, Tail(lockq))
            \/ UNCHANGED <<watermark, item, next>> /\ lockq' = Tail(lockq) /\ spc' = [spc EXCEPT ![s] = "send"]
        BY <1>9, <2>3 DEF Publish, Route, Enqueue
      <3> QED BY <1>7, <2>1, <3>1
    <2> QED BY <2>2, <2>3
  <1>10. ASSUME UNCHANGED <<lockq, item, subscribed, projection>>,
                \A u \in Sources : (spc'[u] \in InLine <=> spc[u] \in InLine) /\ (spc'[u] = "put" <=> spc[u] = "put"),
                apc' = apc \/ (apc \notin {"lock", "read"} /\ apc' \notin {"lock", "read"}),
                fpc' = fpc \/ (Alive /\ fpc' \in {"get", "send"})
         PROVE  Locked'
    <2>1. /\ \A a : Queued(a)' <=> Queued(a)
          /\ \A a : Holds(a)' <=> Holds(a)
      BY <1>10 DEF Queued, Holds
    <2>2. Alive' <=> Alive BY <1>10 DEF Alive
    <2> QED BY <1>10, <2>1, <2>2 DEF Locked
  <1>11. ASSUME \/ Leave \/ StartForwarder \/ ForwardSent \/ ServeResume \/ Refuse \/ Respond \/ Drain
                \/ Redeliver \/ ServeRead \/ SendRead \/ Detached \/ Connect \/ Receive \/ Consume
         PROVE  Locked'
    <2>1. UNCHANGED <<lockq, spc, item, subscribed, projection>>
      BY <1>11 DEF Leave, StartForwarder, ForwardSent, ServeResume, Refuse, Respond, Drain, Redeliver,
         ServeRead, SendRead, Detached, Connect, Receive, Consume, sourceVars
    <2>2. apc' = apc \/ (apc \notin {"lock", "read"} /\ apc' \notin {"lock", "read"})
      BY <1>11 DEF Leave, StartForwarder, ForwardSent, ServeResume, Refuse, Respond, Drain, Redeliver,
         ServeRead, SendRead, Detached, Connect, Receive, Consume, attachVars, FinishAttachment
    <2>3. fpc' = fpc \/ (Alive /\ fpc' \in {"get", "send"})
      BY <1>11 DEF Leave, StartForwarder, ForwardSent, ServeResume, Refuse, Respond, Drain, Redeliver,
         ServeRead, SendRead, Detached, Connect, Receive, Consume, forwarderVars, Alive
    <2> QED BY <1>10, <2>1, <2>2, <2>3
  <1>12. ASSUME CloseTransport PROVE Locked'
    <2>1. \A u \in Sources : (spc'[u] \in InLine <=> spc[u] \in InLine) /\ (spc'[u] = "put" <=> spc[u] = "put")
      BY <1>12 DEF CloseTransport, InLine
    <2> QED BY <1>10, <1>12, <2>1 DEF CloseTransport, attachVars
  <1>13. ASSUME Interrupt PROVE Locked'
    <2>1. Turn \in Sources /\ spc \in [Sources -> {"idle", "enter", "lock", "put", "send", "stray"}]
      BY DEF Sources, Framed
    <2>2. /\ spc'[Turn] = "idle" /\ \A t \in Sources \ {Turn} : spc'[t] = spc[t]
          /\ lockq' = Without(lockq, {Turn})
          /\ UNCHANGED <<item, subscribed, projection, fpc, apc>>
      BY <1>13, <2>1 DEF Interrupt, forwarderVars, attachVars
    <2>3. /\ IsInjective(lockq') /\ Range(lockq') = Range(lockq) \ {Turn}
          /\ lockq # <<>> /\ Head(lockq) # Turn => lockq' # <<>> /\ Head(lockq') = Head(lockq)
          /\ \A a, b : Before(lockq', a, b) => Before(lockq, a, b)
      BY <1>1, <2>2, LockWithout
    <2>4. \A a : Queued(a)' <=> Queued(a) /\ a # Turn BY <2>3 DEF Queued
    <2>5. \A a : a # Turn /\ Holds(a) => Holds(a)' BY <2>3 DEF Holds
    <2>6. InOrder(lockq', item') BY <2>2, <2>3, <1>1 DEF InOrder
    <2>7. \A t \in Sources : Queued(t)' <=> spc'[t] \in InLine BY <2>2, <2>4 DEF Locked, InLine
    <2> QED BY <1>4, <2>1, <2>2, <2>3, <2>4, <2>5, <2>6, <2>7 DEF Locked, Alive
  <1>14. ASSUME TakeEvent PROVE Locked'
    <2>1. UNCHANGED <<item, spc, subscribed, projection, apc>> /\ fpc = "get"
      BY <1>14 DEF TakeEvent, sourceVars, attachVars
    <2>2. CASE lockq' = lockq /\ fpc' \in {"get", "send"}
      BY <1>10, <2>1, <2>2 DEF Alive
    <2>3. CASE lockq' = Append(lockq, "stream") /\ fpc' \in {"closing", "failing"}
      <3>1. Alive /\ subscribed /\ ~Queued("stream") BY <2>1 DEF Locked, Alive
      <3>2. "stream" \in Actors \ Range(lockq) BY <3>1 DEF Actors, Queued
      <3>3. /\ IsInjective(lockq') /\ Range(lockq') = Range(lockq) \cup {"stream"}
            /\ lockq' # <<>> /\ (lockq # <<>> => Head(lockq') = Head(lockq))
            /\ \A a, b : Before(lockq', a, b) <=> Before(lockq, a, b) \/ (a \in Range(lockq) /\ b = "stream")
        BY <1>1, <2>3, <3>2, LockJoin
      <3>4. \A a : Queued(a)' <=> Queued(a) \/ a = "stream" BY <3>3 DEF Queued
      <3>5. \A a : Holds(a) => Holds(a)' BY <3>3 DEF Holds
      <3>6. InOrder(lockq', item') BY <1>1, <1>4, <2>1, <3>3 DEF InOrder
      <3>7. ~Alive' BY <2>3 DEF Alive
      <3> QED BY <1>4, <2>1, <3>1, <3>3, <3>4, <3>5, <3>6, <3>7 DEF Locked
    <2> QED BY <1>14, <2>2, <2>3 DEF TakeEvent, EndStream, Forward
  <1>15. ASSUME NEW a \in {"attach", "stream"}, Holds(a), lockq' = Tail(lockq), UNCHANGED <<spc, item>>
         PROVE  /\ IsInjective(lockq') /\ InOrder(lockq', item')
                /\ \A b : Queued(b)' <=> Queued(b) /\ b # a
                /\ \A u \in Sources : (Queued(u)' <=> spc'[u] \in InLine) /\ spc'[u] # "put"
    <2>1. lockq # <<>> /\ Head(lockq) = a BY <1>15 DEF Holds
    <2>2. \A b : Queued(b)' <=> Queued(b) /\ b # a BY <1>2, <1>15, <2>1 DEF Queued
    <2>3. \A u \in Sources : spc[u] # "put" BY <1>4, <2>1 DEF Locked, Holds
    <2> QED BY <1>2, <1>4, <1>15, <2>1, <2>2, <2>3 DEF Locked
  <1>16. ASSUME CloseStream PROVE Locked'
    <2>1. /\ Holds("stream") /\ lockq' = Tail(lockq) /\ subscribed' = FALSE /\ fpc' = "none"
          /\ UNCHANGED <<spc, item, projection, apc>>
      BY <1>16 DEF CloseStream, sourceVars, attachVars
    <2>2. /\ IsInjective(lockq') /\ InOrder(lockq', item')
          /\ \A b : Queued(b)' <=> Queued(b) /\ b # "stream"
          /\ \A u \in Sources : (Queued(u)' <=> spc'[u] \in InLine) /\ spc'[u] # "put"
      BY <1>15, <2>1
    <2>3. apc # "read" BY <2>1 DEF Locked, Holds
    <2>4. ~Alive' BY <2>1 DEF Alive
    <2> QED BY <2>1, <2>2, <2>3, <2>4 DEF Locked
  <1>17. ASSUME Subscribed PROVE Locked'
    <2>1. /\ apc = "read" /\ lockq' = Tail(lockq) /\ subscribed' = TRUE /\ fpc' = "new" /\ apc' = "respond"
          /\ UNCHANGED <<spc, item>>
      BY <1>17 DEF Subscribed, sourceVars
    <2>2. Holds("attach") /\ ~Queued("stream") BY <2>1 DEF Locked
    <2>3. /\ IsInjective(lockq') /\ InOrder(lockq', item')
          /\ \A b : Queued(b)' <=> Queued(b) /\ b # "attach"
          /\ \A u \in Sources : (Queued(u)' <=> spc'[u] \in InLine) /\ spc'[u] # "put"
      BY <1>15, <2>1, <2>2
    <2> QED BY <2>1, <2>2, <2>3 DEF Locked
  <1>18. ASSUME Subscribe PROVE Locked'
    <2>1. UNCHANGED <<spc, item, subscribed, projection, fpc>> /\ apc \in {"open", "lock"}
      BY <1>18 DEF Subscribe, sourceVars, forwarderVars
    <2>2. ~Alive BY <2>1 DEF Connected
    <2>3. CASE apc = "open" /\ apc' \in {"lock", "read"} /\ lockq' = Append(lockq, "attach")
               /\ (apc' = "read" => lockq = <<>> /\ ~subscribed)
      <3>1. "attach" \in Actors \ Range(lockq) BY <2>3 DEF Actors, Queued, Locked
      <3>2. /\ IsInjective(lockq') /\ Range(lockq') = Range(lockq) \cup {"attach"}
            /\ lockq' # <<>> /\ (lockq # <<>> => Head(lockq') = Head(lockq))
            /\ \A a, b : Before(lockq', a, b) <=> Before(lockq, a, b) \/ (a \in Range(lockq) /\ b = "attach")
        BY <1>1, <2>3, <3>1, LockJoin
      <3>3. \A a : Queued(a)' <=> Queued(a) \/ a = "attach" BY <3>2 DEF Queued
      <3>4. \A a : Holds(a) => Holds(a)' BY <3>2 DEF Holds
      <3>5. InOrder(lockq', item') BY <1>1, <1>4, <2>1, <3>2 DEF InOrder
      <3>6. apc' = "read" => Holds("attach")'
        <4>1. lockq = <<>> => Head(Append(lockq, "attach")) = "attach" OBVIOUS
        <4> QED BY <2>3, <3>2, <4>1 DEF Holds
      <3> QED BY <1>4, <2>1, <2>2, <2>3, <3>2, <3>3, <3>4, <3>5, <3>6 DEF Locked, Alive
    <2>4. CASE apc = "open" /\ apc' = "refuse" /\ lockq' = <<>> /\ lockq = <<>>
      BY <1>10, <2>1, <2>4
    <2>5. CASE apc = "lock" /\ Holds("attach") /\ apc' = "refuse" /\ lockq' = Tail(lockq)
      <3>1. /\ IsInjective(lockq') /\ InOrder(lockq', item')
            /\ \A b : Queued(b)' <=> Queued(b) /\ b # "attach"
            /\ \A u \in Sources : (Queued(u)' <=> spc'[u] \in InLine) /\ spc'[u] # "put"
        BY <1>15, <2>1, <2>5
      <3> QED BY <2>1, <2>5, <3>1 DEF Locked, Alive
    <2>6. CASE apc = "lock" /\ Holds("attach") /\ apc' = "read" /\ lockq' = lockq /\ ~subscribed
      <3>1. (\A a : Queued(a)' <=> Queued(a)) /\ (\A a : Holds(a)' <=> Holds(a))
        BY <2>6 DEF Queued, Holds
      <3> QED BY <2>1, <2>6, <3>1 DEF Locked, Alive
    <2>7. lockq = <<>> => Append(lockq, "attach") = <<"attach">> /\ Tail(<<"attach">>) = <<>> OBVIOUS
    <2> QED BY <1>18, <2>3, <2>4, <2>5, <2>6, <2>7 DEF Subscribe, Entered
  <1>19. ASSUME Detach PROVE Locked'
    <2>1. /\ fpc' = "none" /\ apc' = "idle" /\ UNCHANGED <<item, subscribed, projection>>
          /\ \A s \in Sources : spc'[s] = IF s \in Requests THEN "idle" ELSE spc[s]
      BY <1>19 DEF Detach
    <2>2. \A s \in Sources : s \in Requests \/ s = Turn BY DEF Sources
    <2>3. PICK some, q : q = Without(lockq, some) /\ Requests \cup {"attach"} \subseteq some
                /\ some \subseteq Requests \cup {"attach", "stream"}
                /\ \/ lockq' = q
                   \/ "stream" \in some /\ Alive /\ lockq' = Append(q, "stream")
      <3>1. PICK both : both = Requests \cup {"attach", "stream"} OBVIOUS
      <3>2. PICK one : one = Requests \cup {"attach"} OBVIOUS
      <3>3. \/ lockq' = Without(lockq, both) \/ lockq' = Without(lockq, one)
            \/ fpc \in {"get", "send"} /\ lockq' = Append(Without(lockq, both), "stream")
        BY <1>19, <3>1, <3>2 DEF Detach
      <3>4. Requests \cup {"attach"} \subseteq both /\ both \subseteq Requests \cup {"attach", "stream"}
        BY <3>1
      <3>5. Requests \cup {"attach"} \subseteq one /\ one \subseteq Requests \cup {"attach", "stream"}
        BY <3>2
      <3>6. CASE lockq' = Without(lockq, both) BY <3>4, <3>6
      <3>7. CASE lockq' = Without(lockq, one) BY <3>5, <3>7
      <3>8. CASE fpc \in {"get", "send"} /\ lockq' = Append(Without(lockq, both), "stream")
        <4>1. "stream" \in both /\ Alive BY <3>1, <3>8 DEF Alive
        <4> QED BY <3>4, <3>8, <4>1
      <3> QED BY <3>3, <3>6, <3>7, <3>8
    <2>4. /\ q \in Seq(Actors) /\ IsInjective(q) /\ Range(q) = Range(lockq) \ some
          /\ lockq # <<>> /\ Head(lockq) \notin some => q # <<>> /\ Head(q) = Head(lockq)
          /\ \A a, b : Before(q, a, b) => Before(lockq, a, b)
      BY <1>1, <2>3, LockWithout
    <2>5. /\ IsInjective(lockq') /\ Range(lockq') \subseteq Range(q) \cup {"stream"}
          /\ Range(q) \subseteq Range(lockq') /\ ("stream" \in Range(lockq') => subscribed)
          /\ q # <<>> => lockq' # <<>> /\ Head(lockq') = Head(q)
          /\ \A a, b : Before(lockq', a, b) => Before(q, a, b) \/ b = "stream"
      <3>1. CASE lockq' = q BY <2>4, <3>1 DEF Locked, Queued
      <3>2. CASE "stream" \in some /\ Alive /\ lockq' = Append(q, "stream")
        <4>1. "stream" \in Actors \ Range(q) BY <2>4, <3>2 DEF Actors
        <4> QED BY <2>4, <3>2, <4>1, LockJoin DEF Locked
      <3> QED BY <2>3, <3>1, <3>2
    <2>6. \A s \in Sources : s \in some <=> s \in Requests BY <1>4, <2>3
    <2>7. \A s \in Sources : Queued(s)' <=> spc'[s] \in InLine
      <3>1. \A s \in Sources : s \in Range(lockq') <=> s \in Range(q) BY <1>4, <2>5
      <3>2. \A s \in Sources : s \in Range(q) <=> Queued(s) /\ s \notin Requests BY <2>4, <2>6 DEF Queued
      <3> QED BY <2>1, <3>1, <3>2 DEF Queued, Locked, InLine
    <2>8. \A s \in Sources : spc'[s] = "put" => Holds(s)' /\ item'[s] \in {Callback, projection'}
      <3>1. ASSUME NEW s \in Sources, spc'[s] = "put" PROVE Holds(s)' /\ item'[s] \in {Callback, projection'}
        <4>1. s \notin Requests /\ spc[s] = "put" BY <2>1, <3>1
        <4>2. Holds(s) /\ item[s] \in {Callback, projection} BY <4>1 DEF Locked
        <4>3. Head(lockq) \notin some BY <2>6, <4>1, <4>2 DEF Holds
        <4> QED BY <2>1, <2>4, <2>5, <4>2, <4>3 DEF Holds, Callback
      <3> QED BY <3>1
    <2>9. InOrder(lockq', item') BY <1>1, <1>4, <2>1, <2>4, <2>5 DEF InOrder
    <2>10. ~Queued("attach")' /\ ~Alive' BY <2>1, <2>3, <2>4, <2>5 DEF Queued, Alive
    <2> QED BY <2>1, <2>5, <2>7, <2>8, <2>9, <2>10 DEF Locked, Queued, Alive
  <1> QED
    BY <1>5, <1>6, <1>8, <1>9, <1>11, <1>12, <1>13, <1>14, <1>16, <1>17, <1>18, <1>19
    DEF Next, Publishing, Forwarding, Attaching, Reading, Detaching, Client, Sources

-----------------------------------------------------------------------------
(* What a step puts on the transport, takes from it, or leaves there. *)
Puts(kind, id) == wire' = Append(wire, Message(kind, id))

LEMMA WireFacts ==
    ASSUME Framed, Numbered
    PROVE  /\ \A kind \in Kinds, id \in 0 .. watermark : \A kinds :
                 Puts(kind, id) =>
                    /\ kind \notin kinds => Sent(kinds)' = Sent(kinds)
                    /\ Sent(kinds)' \subseteq Sent(kinds) \cup {Len(wire) + 1}
                    /\ wire'[Len(wire) + 1] = Message(kind, id)
                    /\ \A i \in Sent(kinds) : wire'[i] = wire[i]
           /\ wire # <<>> => \A kinds :
                 /\ wire' = Tail(wire) =>
                       \A i \in Sent(kinds)' : i \in Nat \ {0} /\ i + 1 \in Sent(kinds) /\ wire'[i] = wire[i + 1]
                 /\ Head(wire).kind \in kinds => 1 \in Sent(kinds) /\ Head(wire) = wire[1]
           /\ \A kinds : wire' = <<>> => Sent(kinds)' = {}
           /\ \A kinds : wire' = wire => Sent(kinds)' = Sent(kinds)
  <1>1. PICK M : M = [kind : Kinds, id : 0 .. watermark] OBVIOUS
  <1>2. wire \in Seq(M) BY <1>1 DEF Numbered
  <1>3. \A kind \in Kinds, id \in 0 .. watermark : Message(kind, id) \in M /\ Message(kind, id).kind = kind
    BY <1>1 DEF Message
  <1>4. ASSUME NEW kind \in Kinds, NEW id \in 0 .. watermark, NEW kinds, Puts(kind, id)
        PROVE  /\ kind \notin kinds => Sent(kinds)' = Sent(kinds)
               /\ Sent(kinds)' \subseteq Sent(kinds) \cup {Len(wire) + 1}
               /\ wire'[Len(wire) + 1] = Message(kind, id)
               /\ \A i \in Sent(kinds) : wire'[i] = wire[i]
    <2>1. PICK m \in M : m = Message(kind, id) /\ m.kind = kind BY <1>3
    <2>2. PICK w : w = wire' OBVIOUS
    <2>3. w = Append(wire, m) /\ Sent(kinds)' = Of(w, kinds) /\ Sent(kinds) = Of(wire, kinds)
      BY <1>4, <2>1, <2>2 DEF Puts, Sent
    <2>4. /\ m.kind \notin kinds => Of(w, kinds) = Of(wire, kinds)
          /\ Of(w, kinds) \subseteq Of(wire, kinds) \cup {Len(wire) + 1}
          /\ w[Len(wire) + 1] = m
          /\ \A i \in Of(wire, kinds) : w[i] = wire[i]
      <3>1. DOMAIN wire = 1 .. Len(wire) /\ Len(wire) \in Nat BY <1>2
      <3>2. DOMAIN w = 1 .. Len(wire) + 1 /\ w[Len(wire) + 1] = m /\ \A i \in 1 .. Len(wire) : w[i] = wire[i]
        BY <1>2, <2>1, <2>3
      <3> QED BY <3>1, <3>2 DEF Of
    <2> QED BY <2>1, <2>2, <2>3, <2>4
  <1>5. ASSUME wire # <<>>, NEW kinds
        PROVE  /\ wire' = Tail(wire) =>
                     \A i \in Sent(kinds)' : i \in Nat \ {0} /\ i + 1 \in Sent(kinds) /\ wire'[i] = wire[i + 1]
               /\ Head(wire).kind \in kinds => 1 \in Sent(kinds) /\ Head(wire) = wire[1]
    <2>1. PICK w : w = wire' OBVIOUS
    <2>2. Sent(kinds)' = Of(w, kinds) /\ Sent(kinds) = Of(wire, kinds) BY <2>1 DEF Sent
    <2>3. /\ wire' = Tail(wire) => \A i \in Of(w, kinds) :
                i \in Nat \ {0} /\ i + 1 \in Of(wire, kinds) /\ w[i] = wire[i + 1]
          /\ Head(wire).kind \in kinds => 1 \in Of(wire, kinds) /\ Head(wire) = wire[1]
      <3>1. DOMAIN wire = 1 .. Len(wire) /\ Len(wire) \in Nat BY <1>2
      <3>2. Head(wire) = wire[1] /\ 1 \in 1 .. Len(wire) BY <1>2, <1>5
      <3>3. wire' = Tail(wire) =>
               DOMAIN w = 1 .. Len(wire) - 1 /\ \A i \in 1 .. Len(wire) - 1 : w[i] = wire[i + 1]
        BY <1>2, <1>5, <2>1
      <3> QED BY <3>1, <3>2, <3>3 DEF Of
    <2> QED BY <2>1, <2>2, <2>3
  <1>6. \A kinds : wire' = <<>> => Sent(kinds)' = {} BY DEF Sent, Of
  <1>7. \A kinds : wire' = wire => Sent(kinds)' = Sent(kinds) BY DEF Sent
  <1> QED BY <1>4, <1>5, <1>6, <1>7

LEMMA ConnectedStep ==
    ASSUME Framed, Numbered, Locked, Connected, Stream, Next
    PROVE  Connected'
  <1>1. PICK bad : bad = {"resumed", "conflict"} OBVIOUS
  <1>2. ASSUME NEW s \in Sources, Project(s) \/ (Ask /\ s = Turn) \/ Put(s) \/ SendStray(s) \/ Publish(s) \/ SendDirect(s)
        PROVE  Connected'
    <2>1. UNCHANGED <<conn, apc, reply, fpc, req, cpc, routing>>
      BY <1>2 DEF Project, Ask, Begin, Put, SendStray, Publish, SendDirect, forwarderVars, attachVars, clientVars
    <2>2. Sent(bad)' = Sent(bad)
      <3>1. CASE wire' = wire BY <3>1, WireFacts
      <3>2. CASE SendDirect(s)
        <4>1. item[s] \in 0 .. watermark BY DEF Numbered
        <4>2. PICK kind \in {"event", "callback"} : Puts(kind, item[s])
          BY <3>2 DEF SendDirect, Puts, Notification
        <4>3. kind \in Kinds /\ kind \notin bad BY <1>1 DEF Kinds
        <4> QED BY <4>1, <4>2, <4>3, WireFacts
      <3> QED BY <1>2, <3>1, <3>2 DEF Project, Ask, Begin, Put, SendStray, Publish
    <2>3. conn = "down" => wire' = <<>> /\ \A u \in Sources : spc'[u] # "send"
      <3>1. ASSUME conn = "down" PROVE wire' = <<>> /\ \A u \in Sources : spc'[u] # "send"
        <4>1. wire = <<>> /\ (\A u \in Sources : spc[u] # "send") /\ routing = "none"
          BY <3>1 DEF Connected
        <4>2. ~SendDirect(s) BY <4>1 DEF SendDirect
        <4>3. wire' = wire BY <1>2, <4>2 DEF Project, Ask, Begin, Put, SendStray, Publish
        <4>4. spc \in [Sources -> {"idle", "enter", "lock", "put", "send", "stray"}] BY DEF Framed
        <4>5. \E pc \in {"idle", "enter", "lock", "put"} : spc' = [spc EXCEPT ![s] = pc]
          BY <1>2, <4>1, <4>2 DEF Project, Ask, Begin, Put, SendStray, Publish, Route, Enqueue, Finish
        <4> QED BY <4>1, <4>3, <4>4, <4>5
      <3> QED BY <3>1
    <2> QED BY <1>1, <2>1, <2>2, <2>3 DEF Connected, Alive
  <1>3. UNCHANGED wire => Sent(bad)' = Sent(bad) BY WireFacts
  <1>4. \A kind \in Kinds \ bad, id \in 0 .. watermark : Puts(kind, id) => Sent(bad)' = Sent(bad)
    BY WireFacts
  <1>5. ASSUME Interrupt PROVE Connected'
    BY <1>1, <1>3, <1>5 DEF Interrupt, Connected, Framed, Locked, forwarderVars, attachVars, clientVars, sourceVars, Attachment, Alive
  <1>6. ASSUME Leave PROVE Connected'
    BY <1>1, <1>3, <1>6 DEF Leave, Connected, Framed, Locked, forwarderVars, attachVars, clientVars, sourceVars, Attachment, Alive
  <1>7. ASSUME StartForwarder PROVE Connected'
    BY <1>1, <1>3, <1>7 DEF StartForwarder, Connected, Framed, Locked, forwarderVars, attachVars, clientVars, sourceVars, Attachment, Alive
  <1>8. ASSUME TakeEvent PROVE Connected'
    BY <1>1, <1>3, <1>8 DEF TakeEvent, EndStream, Forward, Connected, Framed, Locked, forwarderVars, attachVars, clientVars, sourceVars, Attachment, Alive
  <1>9. ASSUME CloseStream PROVE Connected'
    BY <1>1, <1>3, <1>9 DEF CloseStream, Connected, Framed, Locked, forwarderVars, attachVars, clientVars, sourceVars, Attachment, Alive
  <1>10. ASSUME ServeResume PROVE Connected'
    BY <1>1, <1>3, <1>10 DEF ServeResume, Connected, Framed, Locked, forwarderVars, attachVars, clientVars, sourceVars, Attachment, Alive
  <1>11. ASSUME Subscribe PROVE Connected'
    BY <1>1, <1>3, <1>11 DEF Subscribe, Entered, Connected, Framed, Locked, forwarderVars, attachVars, clientVars, sourceVars, Attachment, Alive
  <1>12. ASSUME Subscribed PROVE Connected'
    BY <1>1, <1>3, <1>12 DEF Subscribed, Connected, Framed, Locked, forwarderVars, attachVars, clientVars, sourceVars, Attachment, Alive
  <1>13. ASSUME ServeRead PROVE Connected'
    BY <1>1, <1>3, <1>13 DEF ServeRead, Connected, Framed, Locked, forwarderVars, attachVars, clientVars, sourceVars, Attachment, Alive
  <1>14. ASSUME Detach PROVE Connected'
    BY <1>1, <1>3, <1>14 DEF Detach, Connected, Framed, Locked, forwarderVars, attachVars, clientVars, sourceVars, Attachment, Alive
  <1>15. ASSUME Detached PROVE Connected'
    BY <1>1, <1>3, <1>15 DEF Detached, Connected, Framed, Locked, forwarderVars, attachVars, clientVars, sourceVars, Attachment, Alive
  <1>16. ASSUME Consume PROVE Connected'
    BY <1>1, <1>3, <1>16 DEF Consume, Connected, Framed, Locked, forwarderVars, attachVars, clientVars, sourceVars, Attachment, Alive
  <1>17. ASSUME ForwardSent PROVE Connected'
    <2>1. fitem \in 0 .. watermark BY <1>17 DEF ForwardSent, Numbered, Framed, Callback, Broken
    <2>2. \E kind \in {"event", "callback"} : Puts(kind, fitem) BY <1>17 DEF ForwardSent, Puts, Notification
    <2>3. Sent(bad)' = Sent(bad) BY <1>1, <1>4, <2>1, <2>2 DEF Kinds
    <2> QED BY <1>1, <1>17, <2>3 DEF ForwardSent, Connected, Framed, Locked, forwarderVars, attachVars, clientVars, sourceVars, Attachment, Alive
  <1>18. ASSUME Drain PROVE Connected'
    <2>1. Head(batch) \in 0 .. watermark
      <3>1. batch # <<>> BY <1>18 DEF Drain, Stream, Held
      <3>2. PICK N : N = 1 .. watermark OBVIOUS
      <3>3. batch \in Seq(N) BY <3>2 DEF Numbered
      <3>4. Head(batch) \in N BY <3>1, <3>3
      <3> QED BY <3>2, <3>4 DEF Framed
    <2>2. \E kind \in {"event", "callback"} : Puts(kind, Head(batch)) BY <1>18 DEF Drain, Puts, Notification
    <2>3. Sent(bad)' = Sent(bad) BY <1>1, <1>4, <2>1, <2>2 DEF Kinds
    <2> QED BY <1>1, <1>18, <2>3 DEF Drain, FinishAttachment, Connected, Framed, Locked, forwarderVars, attachVars, clientVars, sourceVars, Attachment, Alive
  <1>19. ASSUME Redeliver PROVE Connected'
    <2>1. Callback \in 0 .. watermark BY <1>19 DEF Redeliver, Numbered, Framed, Callback, Broken
    <2>2. \E kind \in {"callback"} : Puts(kind, Callback) BY <1>19 DEF Redeliver, Puts, Notification
    <2>3. Sent(bad)' = Sent(bad) BY <1>1, <1>4, <2>1, <2>2 DEF Kinds
    <2> QED BY <1>1, <1>19, <2>3 DEF Redeliver, Connected, Framed, Locked, forwarderVars, attachVars, clientVars, sourceVars, Attachment, Alive
  <1>20. ASSUME SendRead PROVE Connected'
    <2>1. reply \in 0 .. watermark BY <1>20 DEF SendRead, Numbered, Framed, Callback, Broken
    <2>2. \E kind \in {"read"} : Puts(kind, reply) BY <1>20 DEF SendRead, Puts, Notification
    <2>3. Sent(bad)' = Sent(bad) BY <1>1, <1>4, <2>1, <2>2 DEF Kinds
    <2> QED BY <1>1, <1>20, <2>3 DEF SendRead, Connected, Framed, Locked, forwarderVars, attachVars, clientVars, sourceVars, Attachment, Alive
  <1>21. ASSUME Refuse PROVE Connected'
    BY <1>1, <1>21 DEF Refuse, Connected, Framed, Locked, forwarderVars, attachVars, clientVars, sourceVars, Attachment, Alive
  <1>22. ASSUME Respond PROVE Connected'
    BY <1>1, <1>22 DEF Respond, FinishAttachment, Connected, Framed, Locked, forwarderVars, attachVars, clientVars, sourceVars, Attachment, Alive
  <1>23. ASSUME CloseTransport PROVE Connected'
    <2>1. wire' = <<>> /\ Sent(bad)' = {}
      <3>1. wire' = <<>> BY <1>23 DEF CloseTransport, Connected
      <3> QED BY <3>1, WireFacts
    <2>2. spc \in [Sources -> {"idle", "enter", "lock", "put", "send", "stray"}] BY DEF Framed
    <2> QED BY <1>1, <1>23, <2>1, <2>2 DEF CloseTransport, Connected, Framed, Locked, forwarderVars, attachVars, clientVars, sourceVars, Attachment, Alive
  <1>24. ASSUME Connect PROVE Connected'
    <2>1. wire' = <<>> /\ Sent(bad)' = {}
      <3>1. wire' = <<>> BY <1>24 DEF Connect, Connected
      <3> QED BY <3>1, WireFacts
    <2>2. spc \in [Sources -> {"idle", "enter", "lock", "put", "send", "stray"}] BY DEF Framed
    <2> QED BY <1>1, <1>24, <2>1, <2>2 DEF Connect, Connected, Framed, Locked, forwarderVars, attachVars, clientVars, sourceVars, Attachment, Alive
  <1>25. ASSUME Receive PROVE Connected'
    <2>1. wire # <<>> /\ wire' = Tail(wire) BY <1>25 DEF Receive
    <2>2. \A i \in Sent(bad)' : i + 1 \in Sent(bad) BY <2>1, WireFacts
    <2>3. Head(wire).kind \in bad => Sent(bad) # {} BY <2>1, WireFacts
    <2>4. Sent(bad) = {} => Sent(bad)' = {} BY <2>2
    <2>5. req' = "resume" \/ apc' \in Attachment => cpc' \in {"resume", "gone"} /\ Sent(bad)' = {}
      <3>1. ASSUME req' = "resume" \/ apc' \in Attachment PROVE cpc' \in {"resume", "gone"} /\ Sent(bad)' = {}
        <4>1. cpc \in {"resume", "gone"} /\ Sent(bad) = {}
          BY <1>1, <1>25, <3>1 DEF Receive, Connected, attachVars
        <4>2. Head(wire).kind \notin bad BY <2>3, <4>1
        <4> QED BY <1>1, <1>25, <2>4, <4>1, <4>2 DEF Receive
      <3> QED BY <3>1
    <2> QED BY <1>1, <1>25, <2>1, <2>5 DEF Receive, Connected, Framed, Locked, forwarderVars, attachVars, sourceVars, Attachment, Alive
  <1> QED
    BY <1>2, <1>5, <1>6, <1>7, <1>8, <1>9, <1>10, <1>11, <1>12, <1>13, <1>14, <1>15, <1>16, <1>17, <1>18, <1>19, <1>20, <1>21, <1>22, <1>23, <1>24, <1>25
    DEF Next, Publishing, Forwarding, Attaching, Reading, Detaching, Client, Sources

(* What the client may do with what is on the transport, or a message that is no
   snapshot and joins it.                                                     *)
LEMMA AwaitedStep ==
    ASSUME Framed, Numbered, Connected, Awaited, Stream, Next
    PROVE  Awaited'
  <1>1. PICK old : old = {"read"} OBVIOUS
  <1>2. PICK new : new = {"resumed"} OBVIOUS
  <1>3. PICK bad : bad = {"resumed", "conflict"} OBVIOUS
  <1>4. \A i : i \in Sent(new) => i \in Sent(bad) BY <1>2, <1>3 DEF Sent, Of
  <1>5. /\ watermark \in Nat /\ view \in 0 .. watermark /\ snapshot \in 0 .. watermark
        /\ reply \in -1 .. watermark /\ Broken = -1
    BY DEF Framed, Numbered, Broken
  <1>6. /\ apc = "respond" => view <= snapshot
        /\ \A i \in Sent(new) : cpc \notin {"pump", "resync"} /\ wire[i].id = snapshot /\ view <= snapshot
        /\ cpc \in {"pump", "resume", "lost"} => req # "read" /\ reply = Broken /\ Sent(old) = {}
        /\ req = "read" => reply = Broken /\ Sent(old) = {}
        /\ reply # Broken => Sent(old) = {} /\ view <= reply
        /\ \A i, j \in Sent(old) : i = j
        /\ \A i, j \in Sent(new) : i = j
        /\ \A i \in Sent(old) : view <= wire[i].id
    BY <1>1, <1>2 DEF Awaited
  <1>7. /\ req = "resume" \/ apc \in Attachment => cpc \in {"resume", "gone"} /\ Sent(new) = {}
        /\ conn # "up" => apc = "idle" /\ reply = Broken
        /\ conn = "down" => wire = <<>>
    BY <1>3, <1>4 DEF Connected
  <1>8. ASSUME /\ apc' = "respond" => view' <= snapshot'
               /\ \A i \in Sent(new)' : cpc' \notin {"pump", "resync"} /\ wire'[i].id = snapshot' /\ view' <= snapshot'
               /\ cpc' \in {"pump", "resume", "lost"} => req' # "read" /\ reply' = Broken /\ Sent(old)' = {}
               /\ req' = "read" => reply' = Broken /\ Sent(old)' = {}
               /\ reply' # Broken => Sent(old)' = {} /\ view' <= reply'
               /\ \A i, j \in Sent(old)' : i = j
               /\ \A i, j \in Sent(new)' : i = j
               /\ \A i \in Sent(old)' : view' <= wire'[i].id
        PROVE  Awaited'
    BY <1>1, <1>2, <1>8 DEF Awaited, Broken
  <1>9. \A kinds : UNCHANGED wire => Sent(kinds)' = Sent(kinds) BY WireFacts
  <1>10. \A kind \in Kinds, id \in 0 .. watermark : Puts(kind, id) =>
            /\ kind # "read" => Sent(old)' = Sent(old)
            /\ kind # "resumed" => Sent(new)' = Sent(new)
            /\ \A i \in Sent(old) : wire'[i] = wire[i]
            /\ \A i \in Sent(new) : wire'[i] = wire[i]
            /\ Sent(new)' \subseteq Sent(new) \cup {Len(wire) + 1}
            /\ Sent(old)' \subseteq Sent(old) \cup {Len(wire) + 1}
            /\ wire'[Len(wire) + 1].id = id
    <2>1. ASSUME NEW kind \in Kinds, NEW id \in 0 .. watermark, Puts(kind, id)
          PROVE  \A kinds :
                    /\ kind \notin kinds => Sent(kinds)' = Sent(kinds)
                    /\ Sent(kinds)' \subseteq Sent(kinds) \cup {Len(wire) + 1}
                    /\ wire'[Len(wire) + 1] = Message(kind, id)
                    /\ \A i \in Sent(kinds) : wire'[i] = wire[i]
      BY <2>1, WireFacts
    <2>2. \A kind, id : Message(kind, id).id = id BY DEF Message
    <2> QED BY <1>1, <1>2, <2>1, <2>2
  <1>11. ASSUME UNCHANGED <<view, snapshot, cpc, req, reply>>, apc' = apc \/ apc' # "respond",
                \/ UNCHANGED wire
                \/ \E kind \in Kinds \ {"read", "resumed"}, id \in 0 .. watermark : Puts(kind, id)
         PROVE  Awaited'
    <2>1. /\ Sent(old)' = Sent(old) /\ Sent(new)' = Sent(new)
          /\ \A i \in Sent(old) : wire'[i] = wire[i]
          /\ \A i \in Sent(new) : wire'[i] = wire[i]
      BY <1>9, <1>10, <1>11
    <2> QED BY <1>6, <1>8, <1>11, <2>1
  <1>12. ASSUME NEW s \in Sources, Project(s) \/ (Ask /\ s = Turn) \/ Put(s) \/ SendStray(s) \/ Publish(s)
         PROVE  Awaited'
    BY <1>11, <1>12 DEF Project, Ask, Begin, Put, SendStray, Publish, attachVars, clientVars
  <1>13. ASSUME NEW s \in Sources, SendDirect(s) PROVE Awaited'
    <2>1. item[s] \in 0 .. watermark BY DEF Numbered
    <2>2. \E kind \in {"event", "callback"} : Puts(kind, item[s])
      BY <1>13 DEF SendDirect, Puts, Notification
    <2>3. UNCHANGED <<view, snapshot, cpc, req, reply, apc>> BY <1>13 DEF SendDirect, attachVars, clientVars
    <2> QED BY <1>11, <2>1, <2>2, <2>3 DEF Kinds
  <1>14. ASSUME ForwardSent PROVE Awaited'
    <2>1. fitem \in 0 .. watermark BY DEF Numbered
    <2>2. \E kind \in {"event", "callback"} : Puts(kind, fitem)
      BY <1>14 DEF ForwardSent, Puts, Notification
    <2>3. UNCHANGED <<view, snapshot, cpc, req, reply, apc>> BY <1>14 DEF ForwardSent, attachVars, clientVars
    <2> QED BY <1>11, <2>1, <2>2, <2>3 DEF Kinds
  <1>15. ASSUME Drain PROVE Awaited'
    <2>1. Head(batch) \in 0 .. watermark
      <3>1. batch # <<>> BY <1>15 DEF Drain, Stream, Held
      <3>2. PICK N : N = 1 .. watermark OBVIOUS
      <3>3. batch \in Seq(N) BY <3>2 DEF Numbered
      <3>4. Head(batch) \in N BY <3>1, <3>3
      <3> QED BY <3>2, <3>4 DEF Framed
    <2>2. \E kind \in {"event", "callback"} : Puts(kind, Head(batch))
      BY <1>15 DEF Drain, Puts, Notification
    <2>3. UNCHANGED <<view, snapshot, cpc, req, reply>> /\ apc' # "respond"
      BY <1>15 DEF Drain, FinishAttachment, attachVars, clientVars
    <2> QED BY <1>11, <2>1, <2>2, <2>3 DEF Kinds
  <1>16. ASSUME Redeliver PROVE Awaited'
    <2>1. Puts("callback", Callback) /\ Callback \in 0 .. watermark
      BY <1>5, <1>16 DEF Redeliver, Puts, Callback
    <2>2. UNCHANGED <<view, snapshot, cpc, req, reply>> /\ apc' # "respond"
      BY <1>16 DEF Redeliver, clientVars
    <2> QED BY <1>11, <2>1, <2>2 DEF Kinds
  <1>17. ASSUME Refuse PROVE Awaited'
    <2>1. Puts("conflict", 0) /\ 0 \in 0 .. watermark BY <1>5, <1>17 DEF Refuse, Puts
    <2>2. UNCHANGED <<view, snapshot, cpc, req, reply>> /\ apc' # "respond"
      BY <1>17 DEF Refuse, clientVars
    <2> QED BY <1>11, <2>1, <2>2 DEF Kinds
  <1>18. ASSUME \/ Interrupt \/ StartForwarder \/ TakeEvent \/ CloseStream \/ ServeResume \/ Subscribe \/ Detached
         PROVE  Awaited'
    <2>1. UNCHANGED <<view, snapshot, cpc, reply, wire>>
      BY <1>18 DEF Interrupt, StartForwarder, TakeEvent, CloseStream, ServeResume, Subscribe, Detached,
         attachVars, clientVars
    <2>2. req' = req \/ req' = "none"
      BY <1>18 DEF Interrupt, StartForwarder, TakeEvent, CloseStream, ServeResume, Subscribe, Detached,
         attachVars, clientVars
    <2>3. apc' = apc \/ apc' # "respond"
      BY <1>18 DEF Interrupt, StartForwarder, TakeEvent, CloseStream, ServeResume, Subscribe, Entered,
         Detached, attachVars, clientVars
    <2> QED BY <1>6, <1>8, <1>9, <2>1, <2>2, <2>3
  <1>19. ASSUME Detach \/ Leave PROVE Awaited'
    <2>1. /\ UNCHANGED <<view, snapshot, req, wire>> /\ reply' \in {reply, Broken}
          /\ cpc' \in {cpc, "gone"} /\ (apc' = apc \/ apc' = "idle")
      BY <1>19 DEF Detach, Leave, attachVars, clientVars
    <2> QED BY <1>6, <1>8, <1>9, <2>1
  <1>20. ASSUME CloseTransport PROVE Awaited'
    <2>1. /\ UNCHANGED <<view, snapshot, reply, apc>> /\ req' = "none" /\ reply = Broken /\ apc = "idle"
          /\ wire' = <<>>
      BY <1>7, <1>20 DEF CloseTransport, attachVars
    <2>2. Sent(old)' = {} /\ Sent(new)' = {} BY <2>1, WireFacts
    <2> QED BY <1>6, <1>8, <2>1, <2>2
  <1>21. ASSUME Connect PROVE Awaited'
    <2>1. /\ UNCHANGED <<view, snapshot, reply, apc, wire>> /\ req' = "resume" /\ reply = Broken /\ apc = "idle"
          /\ wire = <<>>
      BY <1>7, <1>21 DEF Connect, attachVars
    <2>2. Sent(old)' = {} /\ Sent(new)' = {} BY <2>1, WireFacts
    <2> QED BY <1>6, <1>8, <2>1, <2>2
  <1>22. ASSUME Subscribed PROVE Awaited'
    <2>1. UNCHANGED <<view, cpc, req, reply, wire>> /\ snapshot' = watermark /\ apc = "read"
      BY <1>22 DEF Subscribed, clientVars
    <2>2. Sent(new) = {} BY <1>7, <2>1 DEF Attachment
    <2> QED BY <1>5, <1>6, <1>8, <1>9, <2>1, <2>2
  <1>23. ASSUME Respond PROVE Awaited'
    <2>1. /\ UNCHANGED <<view, snapshot, cpc, req, reply>> /\ apc = "respond" /\ apc' # "respond"
          /\ Puts("resumed", snapshot)
      BY <1>23 DEF Respond, FinishAttachment, Puts, clientVars
    <2>2. Sent(new) = {} /\ cpc \in {"resume", "gone"} BY <1>7, <2>1 DEF Attachment
    <2>3. /\ Sent(old)' = Sent(old) /\ Sent(new)' \subseteq {Len(wire) + 1}
          /\ \A i \in Sent(old) : wire'[i] = wire[i]
          /\ wire'[Len(wire) + 1].id = snapshot
      BY <1>5, <1>10, <2>1, <2>2 DEF Kinds
    <2>4. \A i \in Sent(new)' : wire'[i].id = snapshot BY <2>3
    <2>5. \A i, j \in Sent(new)' : i = j BY <2>3
    <2> QED BY <1>6, <1>8, <2>1, <2>2, <2>3, <2>4, <2>5
  <1>24. ASSUME ServeRead PROVE Awaited'
    <2>1. /\ UNCHANGED <<view, snapshot, cpc, wire, apc>> /\ req = "read" /\ req' = "none" /\ reply' = watermark
      BY <1>24 DEF ServeRead, attachVars
    <2> QED BY <1>5, <1>6, <1>8, <1>9, <2>1
  <1>25. ASSUME SendRead PROVE Awaited'
    <2>1. /\ UNCHANGED <<view, snapshot, cpc, req, apc>> /\ reply # Broken /\ reply' = Broken
          /\ Puts("read", reply)
      BY <1>25 DEF SendRead, Puts, attachVars, clientVars
    <2>2. reply \in 0 .. watermark BY <1>5, <2>1
    <2>3. /\ Sent(new)' = Sent(new) /\ Sent(old)' \subseteq {Len(wire) + 1}
          /\ \A i \in Sent(new) : wire'[i] = wire[i]
          /\ wire'[Len(wire) + 1].id = reply
      BY <1>6, <1>10, <2>1, <2>2 DEF Kinds
    <2>4. \A i \in Sent(old)' : view' <= wire'[i].id BY <1>6, <2>1, <2>3
    <2>5. \A i, j \in Sent(old)' : i = j BY <2>3
    <2>6. cpc \notin {"pump", "resume", "lost"} /\ req # "read" BY <1>6, <2>1
    <2> QED BY <1>6, <1>8, <2>1, <2>3, <2>4, <2>5, <2>6
  <1>26. ASSUME Receive PROVE Awaited'
    <2>1. PICK m : m = Head(wire) OBVIOUS
    <2>2. /\ wire # <<>> /\ wire' = Tail(wire) /\ UNCHANGED <<snapshot, req, reply, apc>>
          /\ \/ m.kind \in {"event", "callback"} /\ UNCHANGED <<cpc, view>>
             \/ m.kind = "resumed" /\ cpc = "resume" /\ cpc' = "pump" /\ view' = m.id
             \/ m.kind = "read" /\ cpc = "resync" /\ cpc' = "pump" /\ view' = m.id
             \/ m.kind = "conflict" /\ cpc' = "dead" /\ UNCHANGED view
      BY <1>26, <2>1 DEF Receive, attachVars
    <2>3. /\ \A i \in Sent(old)' : i \in Nat \ {0} /\ i + 1 \in Sent(old) /\ wire'[i] = wire[i + 1]
          /\ \A i \in Sent(new)' : i \in Nat \ {0} /\ i + 1 \in Sent(new) /\ wire'[i] = wire[i + 1]
          /\ m.kind = "read" => 1 \in Sent(old) /\ m = wire[1]
          /\ m.kind = "resumed" => 1 \in Sent(new) /\ m = wire[1]
      BY <1>1, <1>2, <2>1, <2>2, WireFacts
    <2>4. /\ \A i, j \in Sent(old)' : i = j
          /\ \A i, j \in Sent(new)' : i = j
      <3>1. ASSUME NEW i \in Sent(old)', NEW j \in Sent(old)' PROVE i = j
        <4>1. i + 1 = j + 1 /\ i \in Nat /\ j \in Nat BY <1>6, <2>3
        <4> QED BY <4>1
      <3>2. ASSUME NEW i \in Sent(new)', NEW j \in Sent(new)' PROVE i = j
        <4>1. i + 1 = j + 1 /\ i \in Nat /\ j \in Nat BY <1>6, <2>3
        <4> QED BY <4>1
      <3> QED BY <3>1, <3>2
    <2>5. Sent(old) = {} => Sent(old)' = {} BY <2>3
    <2>6. Sent(new) = {} => Sent(new)' = {} BY <2>3
    <2>7. CASE m.kind \in {"event", "callback"} /\ UNCHANGED <<cpc, view>>
      <3>1. ASSUME NEW i \in Sent(new)'
            PROVE  cpc' \notin {"pump", "resync"} /\ wire'[i].id = snapshot' /\ view' <= snapshot'
        <4>1. i + 1 \in Sent(new) /\ wire'[i] = wire[i + 1] BY <2>3
        <4>2. cpc \notin {"pump", "resync"} /\ wire[i + 1].id = snapshot /\ view <= snapshot BY <1>6, <4>1
        <4> QED BY <2>2, <2>7, <4>1, <4>2
      <3>2. \A i \in Sent(old)' : view' <= wire'[i].id BY <1>6, <2>3, <2>7
      <3> QED BY <1>6, <1>8, <2>2, <2>4, <2>5, <2>7, <3>1, <3>2
    <2>8. CASE m.kind = "conflict" /\ cpc' = "dead" /\ UNCHANGED view
      <3>1. ASSUME NEW i \in Sent(new)'
            PROVE  cpc' \notin {"pump", "resync"} /\ wire'[i].id = snapshot' /\ view' <= snapshot'
        <4>1. i + 1 \in Sent(new) /\ wire'[i] = wire[i + 1] BY <2>3
        <4>2. cpc \notin {"pump", "resync"} /\ wire[i + 1].id = snapshot /\ view <= snapshot BY <1>6, <4>1
        <4> QED BY <2>2, <2>8, <4>1, <4>2
      <3>2. \A i \in Sent(old)' : view' <= wire'[i].id BY <1>6, <2>3, <2>8
      <3> QED BY <1>6, <1>8, <2>2, <2>4, <2>5, <2>8, <3>1, <3>2
    <2>9. CASE m.kind = "resumed" /\ cpc = "resume" /\ cpc' = "pump" /\ view' = m.id
      <3>1. Sent(new)' = {}
        <4>1. \A i \in Sent(new)' : i + 1 = 1 /\ i \in Nat \ {0} BY <1>6, <2>3, <2>9
        <4> QED BY <4>1
      <3>2. apc # "respond" /\ Sent(old)' = {} BY <1>6, <1>7, <2>3, <2>5, <2>9 DEF Attachment
      <3> QED BY <1>6, <1>8, <2>2, <2>9, <3>1, <3>2
    <2>10. CASE m.kind = "read" /\ cpc = "resync" /\ cpc' = "pump" /\ view' = m.id
      <3>1. Sent(old)' = {}
        <4>1. \A i \in Sent(old)' : i + 1 = 1 /\ i \in Nat \ {0} BY <1>6, <2>3, <2>10
        <4> QED BY <4>1
      <3>2. apc # "respond" BY <1>7, <2>10 DEF Attachment
      <3>3. req # "read" /\ reply = Broken BY <1>6, <2>3, <2>10
      <3>4. Sent(new)' = {} BY <1>6, <2>6, <2>10
      <3> QED BY <1>6, <1>8, <2>2, <2>10, <3>1, <3>2, <3>3, <3>4
    <2> QED BY <2>2, <2>7, <2>8, <2>9, <2>10
  <1>27. ASSUME Consume PROVE Awaited'
    <2>1. /\ UNCHANGED <<snapshot, reply, apc, wire>> /\ cpc = "pump"
          /\ \/ cpc' = cpc /\ req' = req
             \/ cpc' = "resync" /\ req' = "read"
      BY <1>27 DEF Consume, attachVars
    <2>2. Sent(old) = {} /\ Sent(new) = {} /\ apc # "respond" /\ reply = Broken
      BY <1>6, <1>7, <2>1 DEF Attachment
    <2> QED BY <1>6, <1>8, <1>9, <2>1, <2>2
  <1> QED
    BY <1>12, <1>13, <1>14, <1>15, <1>16, <1>17, <1>18, <1>19, <1>20, <1>21, <1>22, <1>23, <1>24, <1>25,
       <1>26, <1>27
    DEF Next, Publishing, Forwarding, Attaching, Reading, Detaching, Client, Sources

-----------------------------------------------------------------------------
(* The way of an event: what a step moves from one part to the next. *)

(* What a snapshot shows is on no part of the way any more. *)
LEMMA CarriesOld ==
    ASSUME NEW q \in Seq(Int), NEW f \in Int, \A i \in DOMAIN q : q[i] <= f
    PROVE  Carries(q, f, f, f)
  <1>1. f + 1 .. f = {} /\ \A i \in DOMAIN q : q[i] \in Int /\ ~(q[i] > f) OBVIOUS
  <1> QED BY <1>1 DEF Carries

(* The notifications in hand: the forwarder's, then those held back. *)
LEMMA RowOfThree ==
    ASSUME NEW b \in Seq(Int), NEW p \in Seq(Int), NEW x \in Seq(Int)
    PROVE  /\ x \o b \o p \in Seq(Int) /\ x \o <<>> \o <<>> = x /\ <<>> \o <<>> \o p = p
           /\ x \o <<>> \o p = x \o p \o <<>>
           /\ \A e \in Int : x \o b \o Append(p, e) = Append(x \o b \o p, e)
           /\ b # <<>> => /\ <<>> \o b \o p # <<>> /\ Head(<<>> \o b \o p) = Head(b)
                          /\ <<>> \o Tail(b) \o p = Tail(<<>> \o b \o p)
  <1>1. <<>> \in Seq(Int) /\ x \o b \in Seq(Int) BY EmptySeq
  <1>2. x \o <<>> = x /\ <<>> \o p = p /\ <<>> \o b = b /\ <<>> \o <<>> = <<>> BY <1>1, ConcatEmptySeq
  <1>3. x \o p \o <<>> = x \o p
    <2>1. x \o p \in Seq(Int) OBVIOUS
    <2> QED BY <2>1, ConcatEmptySeq
  <1>4. \A e \in Int : x \o b \o Append(p, e) = Append(x \o b \o p, e) BY <1>1, RowJoins
  <1>5. ASSUME b # <<>>
        PROVE  b \o p # <<>> /\ Head(b \o p) = Head(b) /\ <<>> \o Tail(b) \o p = Tail(b \o p)
    <2>1. PICK r : r = b \o p OBVIOUS
    <2>2. PICK t : t = Tail(b) OBVIOUS
    <2>3. t \in Seq(Int) /\ Len(t) = Len(b) - 1 /\ \A i \in 1 .. Len(t) : t[i] = b[i + 1]
      BY <1>5, <2>2
    <2>4. r \in Seq(Int) /\ Len(r) = Len(b) + Len(p) /\ Len(b) \in Nat /\ Len(p) \in Nat /\ Len(b) >= 1
      BY <1>5, <2>1
    <2>5. r # <<>> /\ Head(r) = Head(b)
      <3>1. r[1] = b[1] BY <2>1, <2>4
      <3> QED BY <1>5, <2>4, <3>1
    <2>6. t \o p = Tail(r)
      <3>1. PICK y : y = t \o p OBVIOUS
      <3>2. PICK z : z = Tail(r) OBVIOUS
      <3>3. /\ y \in Seq(Int) /\ Len(y) = Len(t) + Len(p)
            /\ z \in Seq(Int) /\ Len(z) = Len(r) - 1 /\ \A i \in 1 .. Len(z) : z[i] = r[i + 1]
        <4>1. y \in Seq(Int) /\ Len(y) = Len(t) + Len(p) BY <2>3, <3>1, RowFacts
        <4>2. z \in Seq(Int) /\ Len(z) = Len(r) - 1 /\ \A i \in 1 .. Len(z) : z[i] = r[i + 1]
          BY <2>4, <2>5, <3>2
        <4> QED BY <4>1, <4>2
      <3>4. ASSUME NEW i \in 1 .. Len(y) PROVE y[i] = z[i]
        <4>1. y[i] = IF i <= Len(t) THEN t[i] ELSE p[i - Len(t)] BY <2>3, <3>1, <3>3, ConcatProperties, ZenonT(60)
        <4>2. z[i] = r[i + 1] /\ i + 1 \in 1 .. Len(b) + Len(p) BY <2>3, <2>4, <3>3
        <4>3. r[i + 1] = IF i + 1 <= Len(b) THEN b[i + 1] ELSE p[i + 1 - Len(b)]
          BY <2>1, <4>2, ConcatProperties
        <4>4. i - Len(t) = i + 1 - Len(b) BY <2>3, <2>4
        <4> QED BY <2>3, <2>4, <4>1, <4>2, <4>3, <4>4
      <3>6. Len(y) = Len(z) BY <2>3, <2>4, <3>3
      <3>5. y = z BY <3>3, <3>4, <3>6, SeqEqual
      <3> QED BY <3>1, <3>2, <3>5
    <2>7. <<>> \o t = t BY <2>3, ConcatEmptySeq
    <2> QED BY <2>1, <2>2, <2>5, <2>6, <2>7
  <1>6. x \o b \o p \in Seq(Int) BY <1>1, RowFacts
  <1>7. <<>> \o b \o p = b \o p BY <1>2
  <1>8. x \o <<>> \o <<>> = x /\ <<>> \o <<>> \o p = p /\ x \o <<>> \o p = x \o p \o <<>> BY <1>2, <1>3
  <1>9. b # <<>> => /\ <<>> \o b \o p # <<>> /\ Head(<<>> \o b \o p) = Head(b)
                    /\ <<>> \o Tail(b) \o p = Tail(<<>> \o b \o p)
    BY <1>5, <1>7
  <1> QED BY <1>4, <1>6, <1>8, <1>9

(* The publications that wait for the lock, when the one that is over goes on. *)
LEMMA LockCarries ==
    ASSUME Framed, Numbered, NEW s \in Sources, NEW locks \in Seq(Actors), s \notin Range(locks),
           Freed(s, locks) \/ \E then : Joined(s, locks, then),
           NEW f \in Nat, NEW a \in Int, f <= a, Carries(Items(locks, item), f, a, watermark)
    PROVE  Carries(InLock', f, a, watermark')
  <1>1. InLock' = Items(lockq', item') BY DEF InLock, Items
  <1>2. watermark \in Nat /\ item \in [Sources -> Int] BY DEF Framed, Numbered
  <1>3. CASE Freed(s, locks) BY <1>1, <1>3 DEF Freed
  <1>4. CASE ~Freed(s, locks)
    <2>1. PICK then : Joined(s, locks, then) BY <1>4
    <2>2. /\ lockq' = Append(locks, s)
          /\ \/ item'[s] = watermark + 1 /\ watermark' = watermark + 1
             \/ item'[s] = Callback /\ watermark' = watermark
      BY <2>1 DEF Joined
    <2>3. watermark' \in Nat BY <1>2, <2>2
    <2>4. item' \in [Sources -> Int] BY <2>1, <2>3 DEF Joined
    <2>5. \A i \in DOMAIN locks : locks[i] \in Sources => item'[locks[i]] = item[locks[i]]
      <3>1. \A i \in DOMAIN locks : locks[i] # s BY DEF Range
      <3> QED BY <2>1, <3>1 DEF Joined
    <2>6. s \in Actors BY DEF Actors
    <2>7. Items(locks, item) \in Seq(Int) /\ Items(Append(locks, s), item') = Append(Items(locks, item), item'[s])
      BY <1>2, <2>4, <2>5, <2>6, ItemsFacts, SMTT(30)
    <2>8. Callback \in Int /\ Callback <= f BY DEF Callback
    <2>9. /\ Carries(Append(Items(locks, item), watermark + 1), f, a, watermark + 1)
          /\ Carries(Append(Items(locks, item), Callback), f, a, watermark)
      BY <1>2, <2>7, <2>8, CarriesNext
    <2> QED BY <1>1, <2>2, <2>7, <2>9
  <1> QED BY <1>3, <1>4

(* The parts of the way are rows of numbers. *)
LEMMA Parts ==
    ASSUME Framed, Budget, Numbered
    PROVE  /\ incoming \in Seq(Messages) /\ wire \in Seq(Messages)
           /\ Ids(incoming) \in Seq(Int) /\ Ids(wire) \in Seq(Int) /\ InHand \in Seq(Int)
           /\ batch \in Seq(Int) /\ pending \in Seq(Int)
           /\ queue \in Seq(Int) /\ InLock = Items(lockq, item) /\ InLock \in Seq(Int)
           /\ Base \in 0 .. watermark /\ Through \in Int /\ watermark <= MaxEvents
  <1>1. watermark \in Nat /\ MaxEvents \in Nat BY SizeAssumption DEF Framed
  <1>2. watermark <= MaxEvents
    <2>1. IsFiniteSet(Sources)
      <3>1. IsFiniteSet({Turn}) /\ IsFiniteSet(Requests) BY FS_Singleton, SizeAssumption
      <3> QED BY <3>1, FS_Union DEF Sources
    <2>2. PICK A : A = {u \in Sources : next[u] = "event"} OBVIOUS
    <2>3. A \subseteq Sources BY <2>2
    <2>4. Cardinality(A) \in Nat BY <2>1, <2>3, FS_Subset, FS_CardinalityType
    <2> QED BY <1>1, <2>2, <2>4 DEF Budget
  <1>3. 0 .. watermark \subseteq 0 .. MaxEvents BY <1>1, <1>2
  <1>4. incoming \in Seq(Messages)
    <2>1. [kind : {"event", "callback"}, id : 0 .. watermark] \subseteq Messages
      BY <1>3 DEF Messages, Kinds
    <2> QED BY <2>1, SeqWidens DEF Numbered
  <1>5. wire \in Seq(Messages)
    <2>1. [kind : Kinds, id : 0 .. watermark] \subseteq Messages BY <1>3 DEF Messages
    <2> QED BY <2>1, SeqWidens DEF Numbered
  <1>6. 1 .. watermark \subseteq Int /\ -1 .. watermark \subseteq Int OBVIOUS
  <1>7. batch \in Seq(Int) /\ pending \in Seq(Int) /\ queue \in Seq(Int) BY <1>6, SeqWidens DEF Numbered
  <1>8. InHand \in Seq(Int)
    <2>1. <<fitem>> \in Seq(Int) /\ <<>> \in Seq(Int) BY DEF Numbered
    <2>2. PICK x \in Seq(Int) : x = IF fpc = "send" THEN <<fitem>> ELSE <<>> BY <2>1
    <2> QED BY <1>7, <2>2, RowOfThree DEF InHand
  <1>9. InLock = Items(lockq, item) /\ InLock \in Seq(Int)
    <2>1. lockq \in Seq(Actors) /\ item \in [Sources -> Int] BY DEF Framed, Numbered
    <2>2. InLock = Items(lockq, item) BY DEF InLock, Items
    <2> QED BY <2>1, <2>2, ItemsFacts
  <1>10. Base \in 0 .. watermark /\ Through \in Int BY <1>1 DEF Base, Through, Numbered
  <1>11. Ids(incoming) \in Seq(Int) /\ Ids(wire) \in Seq(Int) BY <1>4, <1>5, IdsFacts
  <1> QED BY <1>2, <1>4, <1>5, <1>7, <1>8, <1>9, <1>10, <1>11


(* What is held back and who holds it. *)
LEMMA HeldStep ==
    ASSUME Framed, Numbered, Connected, Stream, Next
    PROVE  Held'
  <1>1. /\ fpc = "send" => routing = "attached"
        /\ routing = "attached" => pending = <<>> /\ batch = <<>>
        /\ apc = "drain" <=> batch # <<>>
        /\ cpc = "resume" /\ Alive => view <= snapshot
    BY DEF Stream, Held
  <1>2. ASSUME UNCHANGED <<routing, batch, apc, cpc, snapshot, view>>,
               fpc' \in {fpc, "get", "none", "closing", "failing"}, fpc' = "get" => Alive,
               pending' = pending \/ routing # "attached"
        PROVE  Held'
    BY <1>1, <1>2 DEF Held, Alive
  <1>3. ASSUME NEW s \in Sources, Project(s) \/ (Ask /\ s = Turn) \/ Put(s) \/ SendStray(s) \/ SendDirect(s)
        PROVE  Held'
    <2>1. UNCHANGED <<routing, batch, apc, cpc, snapshot, view, fpc, pending>>
      BY <1>3 DEF Project, Ask, Begin, Put, SendStray, SendDirect, forwarderVars, attachVars, clientVars
    <2> QED BY <1>2, <2>1 DEF Alive
  <1>4. ASSUME NEW s \in Sources, Publish(s) PROVE Held'
    <2>1. UNCHANGED <<routing, batch, apc, cpc, snapshot, view, fpc>> /\ (pending' = pending \/ routing # "attached")
      BY <1>4 DEF Publish, Route, forwarderVars, attachVars, clientVars
    <2> QED BY <1>2, <2>1 DEF Alive
  <1>5. ASSUME Interrupt \/ StartForwarder \/ ForwardSent \/ CloseStream \/ ServeRead \/ SendRead PROVE Held'
    <2>1. /\ UNCHANGED <<routing, batch, apc, cpc, snapshot, view, pending>>
          /\ fpc' = fpc \/ fpc' = "none" \/ (fpc' = "get" /\ Alive)
      BY <1>5 DEF Interrupt, StartForwarder, ForwardSent, CloseStream, ServeRead, SendRead, forwarderVars,
         attachVars, clientVars, Alive
    <2> QED BY <1>2, <2>1 DEF Alive
  <1>6. ASSUME TakeEvent PROVE Held'
    <2>1. UNCHANGED <<routing, batch, apc, cpc, snapshot, view>> /\ fpc = "get"
      BY <1>6 DEF TakeEvent, attachVars, clientVars
    <2>2. \/ fpc' \in {"get", "closing", "failing"} /\ (pending' = pending \/ routing # "attached")
          \/ fpc' = "send" /\ routing = "attached" /\ pending' = pending
      BY <1>6, <2>1 DEF TakeEvent, EndStream, Forward
    <2> QED BY <1>1, <1>2, <2>1, <2>2 DEF Held, Alive
  <1>7. ASSUME ServeResume PROVE Held'
    <2>1. fpc # "send" BY <1>7 DEF ServeResume, Connected, Alive
    <2> QED BY <1>1, <1>7, <2>1 DEF ServeResume, Held, forwarderVars, clientVars, Alive
  <1>8. ASSUME Subscribe PROVE Held'
    <2>1. UNCHANGED <<routing, batch, cpc, snapshot, view, fpc, pending>> /\ apc # "drain" /\ apc' # "drain"
      BY <1>8 DEF Subscribe, Entered, forwarderVars, clientVars
    <2> QED BY <1>1, <2>1 DEF Held, Alive
  <1>9. ASSUME Subscribed PROVE Held'
    <2>1. UNCHANGED <<routing, batch, cpc, view>> /\ apc = "read" /\ apc' = "respond" /\ fpc' = "new"
            /\ snapshot' = watermark
      BY <1>9 DEF Subscribed, clientVars
    <2>2. routing = "attaching" BY <2>1 DEF Connected, Attachment
    <2>3. view <= watermark BY DEF Numbered
    <2> QED BY <1>1, <2>1, <2>2, <2>3 DEF Held
  <1>10. ASSUME Refuse PROVE Held'
    <2>1. ~Alive BY <1>10 DEF Refuse, Connected
    <2> QED BY <1>1, <1>10, <2>1 DEF Refuse, Held, forwarderVars, clientVars, Alive
  <1>11. ASSUME Respond \/ Drain \/ Redeliver PROVE Held'
    <2>1. UNCHANGED <<cpc, snapshot, view, fpc>>
      BY <1>11 DEF Respond, Drain, Redeliver, forwarderVars, clientVars
    <2>2. batch' # <<>> <=> apc' = "drain"
      <3>1. Len(batch) > 1 => Tail(batch) # <<>>
        <4>1. PICK N : N = 1 .. watermark OBVIOUS
        <4>2. batch \in Seq(N) BY <4>1 DEF Numbered
        <4>3. Len(batch) > 1 => Len(Tail(batch)) = Len(batch) - 1 BY <4>2
        <4>4. Len(batch) \in Int /\ Len(<<>>) = 0 BY <4>2
        <4>5. ASSUME Len(batch) > 1, Tail(batch) = <<>> PROVE FALSE
          <5>1. 0 = Len(batch) - 1 BY <4>3, <4>4, <4>5
          <5> QED BY <4>4, <4>5, <5>1
        <4> QED BY <4>5
      <3> QED BY <1>1, <1>11, <3>1 DEF Respond, Drain, Redeliver, FinishAttachment
    <2>3. fpc = "send" => routing' = "attached"
      BY <1>1, <1>11 DEF Respond, Drain, Redeliver, FinishAttachment
    <2>4. routing' = "attached" => pending' = <<>> /\ batch' = <<>>
      BY <1>1, <1>11 DEF Respond, Drain, Redeliver, FinishAttachment, Connected, Attachment
    <2> QED BY <1>1, <2>1, <2>2, <2>3, <2>4 DEF Held, Alive
  <1>12. ASSUME Detach \/ Detached \/ CloseTransport \/ Connect PROVE Held'
    <2>1. ~Alive' /\ (routing' = "attached" => routing = "attached" /\ pending' = pending)
      BY <1>12 DEF Detach, Detached, CloseTransport, Connect, Connected, forwarderVars, Alive
    <2>2. (batch' = <<>> /\ apc' # "drain") \/ UNCHANGED <<batch, apc>>
      BY <1>12 DEF Detach, Detached, CloseTransport, Connect, attachVars
    <2> QED BY <1>1, <2>1, <2>2 DEF Held, Alive
  <1>13. ASSUME Leave \/ Receive \/ Consume PROVE Held'
    <2>1. UNCHANGED <<routing, batch, apc, snapshot, fpc, pending>> /\ (cpc' = "resume" => cpc = "resume" /\ view' = view)
      BY <1>13 DEF Leave, Receive, Consume, forwarderVars, attachVars
    <2> QED BY <1>1, <2>1 DEF Held, Alive
  <1> QED
    BY <1>3, <1>4, <1>5, <1>6, <1>7, <1>8, <1>9, <1>10, <1>11, <1>12, <1>13
    DEF Next, Publishing, Forwarding, Attaching, Reading, Detaching, Client, Sources


(* As long as nothing is lost, every part of the way begins where the one before it ends. *)
LEMMA ChainStep ==
    ASSUME Framed, Budget, Numbered, Locked, Connected, Awaited, Stream, Next,
           Framed', Budget', Numbered', Steady'
    PROVE  Chain'
  <1>1. /\ fpc = "send" => routing = "attached"
        /\ routing = "attached" => pending = <<>> /\ batch = <<>>
        /\ apc = "drain" <=> batch # <<>>
        /\ Alive /\ cpc = "resync" => lost # {}
        /\ Steady => Chain
    BY DEF Stream, Held
  <1>2. /\ incoming \in Seq(Messages) /\ wire \in Seq(Messages)
        /\ Ids(incoming) \in Seq(Int) /\ Ids(wire) \in Seq(Int) /\ InHand \in Seq(Int)
        /\ batch \in Seq(Int) /\ pending \in Seq(Int)
        /\ queue \in Seq(Int) /\ InLock = Items(lockq, item) /\ InLock \in Seq(Int)
        /\ Base \in 0 .. watermark /\ Through \in Int /\ watermark <= MaxEvents
    BY Parts
  <1>3. Base' \in 0 .. watermark' /\ Through' \in Int /\ after' \in 0 .. watermark' /\ watermark' \in Nat
    <2>1. Base' \in 0 .. watermark' /\ after' \in 0 .. watermark' /\ watermark' \in Nat
      BY DEF Base, Numbered, Framed
    <2>2. projection' \in -1 .. watermark' BY DEF Numbered
    <2>3. Through' \in {projection' - 1, projection'} BY DEF Through
    <2>4. Through' \in Int BY <2>1, <2>2, <2>3
    <2> QED BY <2>1, <2>4
  <1>4. ASSUME NEW b \in Int, NEW c \in Int, projection' # Broken,
               \A s \in Sources : spc'[s] = "send" => item'[s] <= Base',
               Carries(Ids(incoming)', Base', Base', b), Carries(Ids(wire)', Base', b, c),
               Carries(InHand', Base', c, after'),
               Carries(queue', Base', after', Through'), Carries(InLock', Base', Through', watermark')
        PROVE  Chain'
    <2>1. Base' <= b /\ b <= c /\ c <= after' /\ after' <= Through' /\ Through' <= watermark'
      BY <1>4 DEF Carries
    <2>2. b \in 0 .. watermark' /\ c \in 0 .. watermark' BY <1>3, <2>1
    <2> QED BY <1>4, <2>2 DEF Chain
  <1>5. ASSUME Steady
        PROVE  /\ projection # Broken /\ subscribed /\ \A s \in Sources : spc[s] = "send" => item[s] <= Base
               /\ Carries(queue, Base, after, Through) /\ Carries(InLock, Base, Through, watermark)
               /\ Base <= after /\ after <= Through /\ Through <= watermark /\ Base <= Through
               /\ \E b, c \in 0 .. watermark :
                    /\ Carries(Ids(incoming), Base, Base, b) /\ Carries(Ids(wire), Base, b, c)
                    /\ Carries(InHand, Base, c, after)
                    /\ Base <= b /\ b <= c /\ c <= after
    <2>1. Chain /\ subscribed BY <1>1, <1>5 DEF Steady, Served
    <2>2. PICK b, c \in 0 .. watermark :
                /\ Carries(Ids(incoming), Base, Base, b) /\ Carries(Ids(wire), Base, b, c)
                /\ Carries(InHand, Base, c, after)
                /\ Carries(queue, Base, after, Through) /\ Carries(InLock, Base, Through, watermark)
      BY <2>1 DEF Chain
    <2>3. Base <= b /\ b <= c /\ c <= after /\ after <= Through /\ Through <= watermark
      BY <2>2 DEF Carries
    <2>4. after \in Int /\ watermark \in Int BY DEF Numbered, Framed
    <2>5. Base <= after /\ Base <= Through BY <1>2, <2>3, <2>4
    <2> QED BY <2>1, <2>2, <2>3, <2>5 DEF Chain
  <1>6. ASSUME NEW s \in Sources, Holds(s), spc[s] # "put"
        PROVE  (\A t \in Sources : spc[t] # "put") /\ Through = projection
    <2>1. \A t \in Sources : spc[t] # "put" BY <1>6 DEF Locked, Holds
    <2> QED BY <2>1 DEF Through
  <1>7. ASSUME projection' = projection,
               \A t \in Sources : spc'[t] = "put" /\ item'[t] # Callback <=> spc[t] = "put" /\ item[t] # Callback
        PROVE  Through' = Through
    BY <1>7 DEF Through
  <1>8. ASSUME NEW s \in Sources, Holds(s)
        PROVE  Tail(lockq) \in Seq(Actors) /\ s \notin Range(Tail(lockq))
    <2>1. lockq \in Seq(Actors) /\ lockq # <<>> /\ Head(lockq) = s /\ IsInjective(lockq)
      BY <1>8 DEF Framed, Locked, Holds
    <2> QED BY <2>1, LockTail
  <1>9. ASSUME NEW s \in Sources, Holds(s), Steady
        PROVE  \/ item[s] <= Base /\ Carries(Items(Tail(lockq), item), Base, Through, watermark)
               \/ item[s] = Through + 1 /\ Carries(Items(Tail(lockq), item), Base, Through + 1, watermark)
    <2>1. lockq \in Seq(Actors) /\ lockq # <<>> /\ Head(lockq) = s /\ item \in [Sources -> Int]
      BY <1>9 DEF Framed, Holds, Numbered
    <2>2. /\ InLock # <<>> /\ Items(Tail(lockq), item) = Tail(InLock) /\ Head(InLock) = item[s]
      BY <1>2, <2>1, ItemsFacts
    <2>3. Carries(InLock, Base, Through, watermark) /\ Base <= Through BY <1>5, <1>9
    <2>4. watermark \in Int /\ Base \in Int BY <1>2 DEF Framed
    <2>5. \/ Head(InLock) <= Base /\ Carries(Tail(InLock), Base, Through, watermark)
          \/ Head(InLock) = Through + 1 /\ Carries(Tail(InLock), Base, Through + 1, watermark)
      <3>1. PICK r \in Seq(Int) : r = InLock BY <1>2
      <3>2. PICK a \in Int : a = Through BY <1>2
      <3> QED BY <2>2, <2>3, <2>4, <3>1, <3>2, CarriesFirst
    <2> QED BY <2>2, <2>5
  <1> DEFINE Same == UNCHANGED <<incoming, cpc, view, snapshot, conn, subscribed, fpc, fitem, batch>>
  <1>10. ASSUME Same, lost' = {} => lost = {}
         PROVE  /\ Steady /\ Base' = Base /\ Ids(incoming)' = Ids(incoming)
                /\ pending' = pending => InHand' = InHand
                /\ wire' = wire => Ids(wire)' = Ids(wire)
    BY <1>10 DEF Steady, Served, Base, InHand
  <1>11. ASSUME NEW s \in Sources, NEW locks \in Seq(Actors), s \notin Range(locks),
                Freed(s, locks) \/ \E then : Joined(s, locks, then)
         PROVE  /\ \A t \in Sources \ {s} : spc'[t] = spc[t] /\ item'[t] = item[t]
                /\ spc'[s] \in {"idle", "enter", "lock"}
                /\ \A a \in Int : Base <= a /\ Carries(Items(locks, item), Base, a, watermark)
                      => Carries(InLock', Base, a, watermark')
    <2>1. \A t \in Sources \ {s} : spc'[t] = spc[t] /\ item'[t] = item[t]
      BY <1>11 DEF Freed, Joined, Framed
    <2>2. spc'[s] \in {"idle", "enter", "lock"}
      BY <1>11 DEF Freed, Joined, Framed
    <2>3. Base \in Nat BY <1>2 DEF Framed
    <2> QED BY <1>11, <2>1, <2>2, <2>3, LockCarries
  <1>12. ASSUME NEW s \in Sources, NEW then \in {"nothing", "event", "callback"}, Begin(s, then) PROVE Chain'
    <2>1. /\ Same /\ UNCHANGED <<projection, queue, pending, wire, after>> /\ lost' = lost
      BY <1>12 DEF Begin, forwarderVars, attachVars, clientVars
    <2>2. spc[s] = "idle" /\ Joined(s, lockq, then) BY <1>12, BeginFacts
    <2>3. lockq \in Seq(Actors) /\ s \notin Range(lockq) BY <2>2 DEF Locked, Queued, InLine, Framed
    <2>4. /\ Steady /\ Base' = Base /\ Ids(incoming)' = Ids(incoming) /\ InHand' = InHand
          /\ Ids(wire)' = Ids(wire)
      BY <1>10, <2>1
    <2>5. PICK b, c \in 0 .. watermark :
             /\ Carries(Ids(incoming), Base, Base, b) /\ Carries(Ids(wire), Base, b, c)
             /\ Carries(InHand, Base, c, after) /\ Base <= b /\ b <= c /\ c <= after
      BY <1>5, <2>4
    <2>6. /\ \A t \in Sources \ {s} : spc'[t] = spc[t] /\ item'[t] = item[t]
          /\ spc'[s] \in {"idle", "enter", "lock"}
          /\ \A a \in Int : Base <= a /\ Carries(Items(lockq, item), Base, a, watermark)
                => Carries(InLock', Base, a, watermark')
      BY <1>11, <2>2, <2>3
    <2>7. Through' = Through BY <1>7, <2>1, <2>2, <2>6
    <2>8. Base <= Through BY <1>5, <2>4
    <2>9. Carries(InLock', Base, Through, watermark') BY <1>2, <1>5, <2>4, <2>6, <2>8
    <2>10. \A t \in Sources : spc'[t] = "send" => item'[t] <= Base' BY <1>5, <2>4, <2>6
    <2>11. projection' # Broken BY <1>5, <2>1, <2>4
    <2> QED BY <1>4, <1>5, <2>1, <2>4, <2>5, <2>7, <2>9, <2>10, <2>11
  <1>20. ASSUME NEW x \in 0 .. watermark
         PROVE  /\ wire' = Append(wire, Notification(x)) => Ids(wire)' = Append(Ids(wire), x)
                /\ Notification(x) \in Messages
    <2>1. Notification(x) \in Messages /\ IdOf(Notification(x)) = x
      <3>1. x \in 0 .. MaxEvents BY <1>2, SizeAssumption DEF Framed
      <3> QED BY <3>1 DEF Notification, Message, Messages, Kinds, IdOf
    <2> QED BY <1>2, <2>1, IdsFacts
  <1>21. ASSUME NEW e \in Int, pending' = Append(pending, e), batch' = batch, fpc' = "send" <=> fpc = "send",
                fpc = "send" => fitem' = fitem
         PROVE  InHand' = Append(InHand, e)
    <2>1. PICK x \in Seq(Int) : x = IF fpc = "send" THEN <<fitem>> ELSE <<>>
      <3>1. <<fitem>> \in Seq(Int) /\ <<>> \in Seq(Int) BY DEF Numbered
      <3> QED BY <3>1
    <2>2. InHand = x \o batch \o pending /\ InHand' = x \o batch \o pending'
      BY <1>21, <2>1 DEF InHand
    <2>3. x \o batch \o Append(pending, e) = Append(x \o batch \o pending, e)
      <3>1. PICK y \in Seq(Int) : y = x \o batch BY <1>2, RowFacts
      <3>2. PICK z \in Seq(Int) : z = pending BY <1>2
      <3>3. y \o Append(z, e) = Append(y \o z, e) BY RowJoins
      <3> QED BY <3>1, <3>2, <3>3
    <2> QED BY <1>21, <2>2, <2>3
  <1>13. ASSUME NEW s \in Sources, SendStray(s) \/ SendDirect(s) PROVE Chain'
    <2>1. Same /\ UNCHANGED <<projection, queue, pending, after>> /\ lost' = lost
      BY <1>13 DEF SendStray, SendDirect, forwarderVars, attachVars, clientVars
    <2>2. /\ spc[s] \in {"stray", "send"} /\ Finish(s, lockq)
          /\ wire' = wire \/ (spc[s] = "send" /\ wire' = Append(wire, Notification(item[s])))
      BY <1>13 DEF SendStray, SendDirect
    <2>3. lockq \in Seq(Actors) /\ s \notin Range(lockq) BY <2>2 DEF Locked, Queued, InLine, Framed
    <2>4. /\ Steady /\ Base' = Base /\ Ids(incoming)' = Ids(incoming) /\ InHand' = InHand
          /\ wire' = wire => Ids(wire)' = Ids(wire)
      BY <1>10, <2>1
    <2>5. PICK b, c \in 0 .. watermark :
             /\ Carries(Ids(incoming), Base, Base, b) /\ Carries(Ids(wire), Base, b, c)
             /\ Carries(InHand, Base, c, after) /\ Base <= b /\ b <= c /\ c <= after
      BY <1>5, <2>4
    <2>6. /\ \A t \in Sources \ {s} : spc'[t] = spc[t] /\ item'[t] = item[t]
          /\ spc'[s] \in {"idle", "enter", "lock"}
          /\ \A a \in Int : Base <= a /\ Carries(Items(lockq, item), Base, a, watermark)
                => Carries(InLock', Base, a, watermark')
      BY <1>11, <2>2, <2>3, FinishFacts
    <2>7. Through' = Through BY <1>7, <2>1, <2>2, <2>6
    <2>9. Carries(InLock', Base, Through, watermark') BY <1>2, <1>5, <2>4, <2>6
    <2>10. \A t \in Sources : spc'[t] = "send" => item'[t] <= Base' BY <1>5, <2>4, <2>6
    <2>11. projection' # Broken BY <1>5, <2>1, <2>4
    <2>12. Carries(Ids(wire)', Base, b, c)
      <3>1. CASE wire' = wire BY <2>4, <2>5, <3>1
      <3>2. CASE spc[s] = "send" /\ wire' = Append(wire, Notification(item[s]))
        <4>1. item[s] \in 0 .. watermark /\ item[s] <= Base BY <1>5, <2>4, <3>2 DEF Numbered
        <4>2. Ids(wire)' = Append(Ids(wire), item[s]) BY <1>2, <1>20, <3>2, <4>1
        <4>3. item[s] \in Int /\ Base \in Int BY <1>2, <4>1
        <4> QED BY <1>2, <2>5, <4>1, <4>2, <4>3, CarriesNext, SMTT(30)
      <3> QED BY <2>2, <3>1, <3>2
    <2> QED BY <1>4, <1>5, <2>1, <2>4, <2>5, <2>7, <2>9, <2>10, <2>11, <2>12
  <1>14. ASSUME NEW s \in Sources, Put(s) PROVE Chain'
    <2>1. Same /\ UNCHANGED <<projection, wire, pending, after>> /\ lost' = lost
      BY <1>14 DEF Put, forwarderVars, attachVars, clientVars
    <2>2. spc[s] = "put" /\ queue' = Append(queue, item[s]) /\ Finish(s, Tail(lockq))
      BY <1>14 DEF Put
    <2>3. Holds(s) /\ item[s] \in {Callback, projection} /\ \A t \in Sources \ {s} : spc[t] # "put"
      BY <2>2 DEF Locked, Holds
    <2>4. /\ Steady /\ Base' = Base /\ Ids(incoming)' = Ids(incoming) /\ InHand' = InHand
          /\ Ids(wire)' = Ids(wire)
      BY <1>10, <2>1
    <2>5. PICK b, c \in 0 .. watermark :
             /\ Carries(Ids(incoming), Base, Base, b) /\ Carries(Ids(wire), Base, b, c)
             /\ Carries(InHand, Base, c, after) /\ Base <= b /\ b <= c /\ c <= after
      BY <1>5, <2>4
    <2>6. /\ \A t \in Sources \ {s} : spc'[t] = spc[t] /\ item'[t] = item[t]
          /\ spc'[s] \in {"idle", "enter", "lock"}
          /\ \A a \in Int : Base <= a /\ Carries(Items(Tail(lockq), item), Base, a, watermark)
                => Carries(InLock', Base, a, watermark')
      BY <1>8, <1>11, <2>2, <2>3, FinishFacts
    <2>7. Through' = projection BY <2>1, <2>3, <2>6 DEF Through
    <2>8. Through = IF item[s] = Callback THEN projection ELSE projection - 1 BY <2>2, <2>3 DEF Through
    <2>9. item[s] \in 0 .. watermark /\ projection \in -1 .. watermark /\ watermark \in Nat
      BY DEF Numbered, Framed
    <2>10. Carries(queue', Base, after, Through') /\ Carries(InLock', Base, Through', watermark')
      <3>1. \/ item[s] <= Base /\ Carries(Items(Tail(lockq), item), Base, Through, watermark)
            \/ item[s] = Through + 1 /\ Carries(Items(Tail(lockq), item), Base, Through + 1, watermark)
        BY <1>9, <2>3, <2>4
      <3>2. Base <= after /\ Carries(queue, Base, after, Through) /\ Base <= Through BY <1>5, <2>4
      <3>3. PICK t \in Int : t = Through BY <1>2
      <3>4. /\ item[s] <= Base => Carries(Append(queue, item[s]), Base, after, t)
            /\ Carries(Append(queue, t + 1), Base, after, t + 1)
        <4>1. after \in Int /\ Base \in Int /\ item[s] \in Int BY <1>2, <2>9 DEF Numbered
        <4> QED BY <1>2, <3>2, <3>3, <4>1, CarriesNext
      <3>5. CASE item[s] = Callback
        <4>1. Through' = t /\ item[s] <= Base BY <1>2, <2>7, <2>8, <3>3, <3>5 DEF Callback
        <4>2. item[s] # t + 1 BY <1>2, <3>2, <3>3, <3>5, <4>1 DEF Callback
        <4> QED BY <2>2, <2>6, <3>1, <3>2, <3>3, <3>4, <4>1, <4>2
      <3>6. CASE item[s] # Callback
        <4>1. t = projection - 1 /\ item[s] = projection BY <2>3, <2>8, <3>3, <3>6
        <4>2. Through' = t + 1 /\ item[s] = t + 1 BY <2>7, <2>9, <4>1
        <4>3. ~(item[s] <= Base) BY <1>2, <3>2, <3>3, <4>2
        <4>4. Base <= t + 1 BY <1>2, <3>2, <3>3
        <4> QED BY <2>2, <2>6, <3>1, <3>3, <3>4, <4>2, <4>3, <4>4
      <3> QED BY <3>5, <3>6
    <2>11. \A t \in Sources : spc'[t] = "send" => item'[t] <= Base' BY <1>5, <2>4, <2>6
    <2>12. projection' # Broken BY <1>5, <2>1, <2>4
    <2> QED BY <1>4, <2>1, <2>4, <2>5, <2>10, <2>11, <2>12
  <1>15. ASSUME NEW s \in Sources, Publish(s) PROVE Chain'
    <2>1. /\ Same /\ UNCHANGED <<wire, after, routing, subscribed>> /\ (lost' = {} => lost = {})
          /\ Holds(s) /\ spc[s] \in {"enter", "lock"}
      BY <1>15 DEF Publish, forwarderVars, attachVars, clientVars
    <2>2. (\A t \in Sources : spc[t] # "put") /\ Through = projection BY <1>6, <2>1
    <2>3. Tail(lockq) \in Seq(Actors) /\ s \notin Range(Tail(lockq)) BY <1>8, <2>1
    <2>4. /\ Steady /\ Base' = Base /\ Ids(incoming)' = Ids(incoming)
          /\ pending' = pending => InHand' = InHand
          /\ Ids(wire)' = Ids(wire)
      BY <1>10, <2>1
    <2>5. PICK b, c \in 0 .. watermark :
             /\ Carries(Ids(incoming), Base, Base, b) /\ Carries(Ids(wire), Base, b, c)
             /\ Carries(InHand, Base, c, after) /\ Base <= b /\ b <= c /\ c <= after
      BY <1>5, <2>4
    <2>6. \/ item[s] <= Base /\ Carries(Items(Tail(lockq), item), Base, Through, watermark)
          \/ item[s] = Through + 1 /\ Carries(Items(Tail(lockq), item), Base, Through + 1, watermark)
      BY <1>9, <2>1, <2>4
    <2>7. /\ projection # Broken /\ subscribed /\ Base <= after /\ after <= Through /\ Base <= Through
          /\ Carries(queue, Base, after, Through) /\ \A t \in Sources : spc[t] = "send" => item[t] <= Base
      BY <1>5, <2>4
    <2>8. /\ item[s] \in 0 .. watermark /\ projection \in -1 .. watermark /\ watermark \in Nat
          /\ after \in 0 .. watermark
      BY DEF Numbered, Framed
    <2>9. ASSUME Finish(s, Tail(lockq))
          PROVE  /\ \A t \in Sources \ {s} : spc'[t] = spc[t] /\ item'[t] = item[t]
                 /\ spc'[s] \in {"idle", "enter", "lock"}
                 /\ \A a \in Int : Base <= a /\ Carries(Items(Tail(lockq), item), Base, a, watermark)
                       => Carries(InLock', Base, a, watermark')
      BY <1>11, <2>3, <2>9, FinishFacts
    <2>10. CASE Ignored(s) /\ Route(s, Tail(lockq)) /\ UNCHANGED <<projection, queue>>
      <3>1. item[s] # Callback /\ item[s] <= projection BY <2>7, <2>10 DEF Ignored
      <3>2. item[s] <= Base /\ Carries(Items(Tail(lockq), item), Base, Through, watermark)
        BY <2>2, <2>6, <2>8, <3>1
      <3>3. Carries(InHand', Base, c, after)
        <4>1. CASE pending' = pending BY <2>4, <2>5, <4>1
        <4>2. CASE pending' # pending
          <5>1. pending' = Append(pending, item[s]) BY <2>10, <4>2 DEF Route
          <5>2. InHand' = Append(InHand, item[s])
            <6>1. item[s] \in Int BY <2>8
            <6> QED BY <1>21, <2>1, <5>1, <6>1
          <5>3. item[s] \in Int /\ Base \in Int /\ c \in Int /\ after \in Int /\ Base <= c
            BY <1>2, <2>5, <2>8
          <5> QED BY <1>2, <2>5, <3>2, <5>2, <5>3, CarriesNext
        <4> QED BY <4>1, <4>2
      <3>4. CASE Finish(s, Tail(lockq))
        <4>1. Through' = Through BY <2>2, <2>9, <2>10, <3>4, <1>7
        <4>2. Carries(InLock', Base, Through, watermark') BY <1>2, <2>7, <2>9, <3>2, <3>4
        <4>3. \A t \in Sources : spc'[t] = "send" => item'[t] <= Base' BY <2>4, <2>7, <2>9, <3>4
        <4> QED BY <1>4, <2>1, <2>4, <2>5, <2>7, <2>10, <3>3, <4>1, <4>2, <4>3
      <3>5. CASE ~Finish(s, Tail(lockq))
        <4>1. spc' = [spc EXCEPT ![s] = "send"] /\ lockq' = Tail(lockq) /\ UNCHANGED <<watermark, item, next>>
          BY <2>10, <3>5 DEF Route
        <4>2. (\A t \in Sources \ {s} : spc'[t] = spc[t]) /\ spc'[s] = "send" BY <4>1 DEF Framed
        <4>3. Through' = Through BY <1>7, <2>2, <2>10, <4>2
        <4>4. InLock' = Items(Tail(lockq), item) BY <4>1 DEF InLock, Items
        <4>5. \A t \in Sources : spc'[t] = "send" => item'[t] <= Base' BY <2>4, <2>7, <3>2, <4>1, <4>2
        <4> QED BY <1>4, <2>1, <2>4, <2>5, <2>7, <2>10, <3>2, <3>3, <4>1, <4>3, <4>4, <4>5
      <3> QED BY <3>4, <3>5
    <2>11. CASE /\ ~Ignored(s) /\ item[s] \in {Callback, projection + 1}
                /\ projection' = (IF item[s] = Callback THEN projection ELSE item[s])
                /\ Enqueue(s) /\ UNCHANGED pending
      <3>1. InHand' = InHand /\ projection' # Broken BY <2>4, <2>7, <2>8, <2>11 DEF Broken
      <3>2. PICK t \in Int : t = Through BY <1>2
      <3>3. /\ item[s] <= Base => Carries(Append(queue, item[s]), Base, after, t)
            /\ Carries(Append(queue, t + 1), Base, after, t + 1)
        <4>1. after \in Int /\ Base \in Int /\ item[s] \in Int BY <1>2, <2>8
        <4> QED BY <1>2, <2>7, <3>2, <4>1, CarriesNext
      <3>4. CASE HasRoom(queue, QueueSize)
        <4>1. queue' = Append(queue, item[s]) /\ Finish(s, Tail(lockq)) BY <2>11, <3>4 DEF Enqueue
        <4>2. Through' = projection' BY <2>2, <2>9, <4>1 DEF Through
        <4>3. \A u \in Sources : spc'[u] = "send" => item'[u] <= Base' BY <2>4, <2>7, <2>9, <4>1
        <4>4. Carries(queue', Base, after, Through') /\ Carries(InLock', Base, Through', watermark')
          <5>1. CASE item[s] = Callback
            <6>1. item[s] <= Base /\ Through' = t /\ item[s] # t + 1
              <7>1. projection >= 0 BY <2>7, <2>8 DEF Broken
              <7> QED BY <1>2, <2>2, <2>7, <2>11, <3>2, <4>2, <5>1, <7>1 DEF Callback
            <6> QED BY <2>6, <2>7, <2>9, <3>2, <3>3, <4>1, <6>1
          <5>2. CASE item[s] # Callback
            <6>1. item[s] = t + 1 /\ Through' = t + 1 BY <2>2, <2>11, <3>2, <4>2, <5>2
            <6>2. ~(item[s] <= Base) /\ Base <= t + 1 BY <1>2, <2>7, <3>2, <6>1, SMTT(30)
            <6> QED BY <2>6, <2>9, <3>2, <3>3, <4>1, <6>1, <6>2
          <5> QED BY <5>1, <5>2
        <4> QED BY <1>4, <2>1, <2>4, <2>5, <3>1, <4>3, <4>4
      <3>5. CASE ~HasRoom(queue, QueueSize)
        <4>1. spc' = [spc EXCEPT ![s] = "put"] /\ UNCHANGED <<watermark, item, next, lockq, queue>>
          BY <2>11, <3>5 DEF Enqueue
        <4>2. (\A u \in Sources \ {s} : spc'[u] = spc[u]) /\ spc'[s] = "put" BY <4>1 DEF Framed
        <4>3. Through' = Through
          <5>1. CASE item[s] = Callback
            <6>1. Through' = projection' BY <2>2, <4>1, <4>2, <5>1 DEF Through
            <6> QED BY <2>2, <2>11, <5>1, <6>1
          <5>2. CASE item[s] # Callback
            <6>1. Through' = projection' - 1 BY <4>1, <4>2, <5>2 DEF Through
            <6> QED BY <2>2, <2>8, <2>11, <5>2, <6>1
          <5> QED BY <5>1, <5>2
        <4>4. InLock' = InLock BY <4>1 DEF InLock
        <4>5. \A u \in Sources : spc'[u] = "send" => item'[u] <= Base' BY <2>4, <2>7, <4>1, <4>2
        <4> QED BY <1>4, <1>5, <2>1, <2>4, <2>5, <2>7, <3>1, <4>1, <4>3, <4>4, <4>5
      <3> QED BY <3>4, <3>5
    <2>12. item[s] <= projection + 1
      <3>1. CASE item[s] <= Base BY <1>2, <2>2, <2>7, <2>8, <3>1, SMTT(30)
      <3>2. CASE item[s] = Through + 1 BY <2>2, <2>8, <3>2
      <3> QED BY <2>6, <3>1, <3>2
    <2>13. ~(item[s] > projection + 1) BY <2>8, <2>12
    <2> QED BY <1>15, <2>10, <2>11, <2>13 DEF Publish
  <1>16. ASSUME TakeEvent PROVE Chain'
    <2>1. /\ UNCHANGED <<incoming, cpc, view, snapshot, conn, subscribed, batch, wire, routing, spc, item, lockq,
                         projection, watermark>>
          /\ lost' = lost /\ fpc = "get" /\ queue # <<>> /\ queue' = Tail(queue)
      <3>1. lockq' = lockq
        <4>1. fpc' \notin {"closing", "failing"} BY DEF Steady, Served
        <4> QED BY <1>16, <4>1 DEF TakeEvent, EndStream, Forward
      <3> QED BY <1>16, <3>1 DEF TakeEvent, sourceVars, attachVars, clientVars
    <2>2. PICK x : x = Head(queue) OBVIOUS
    <2>3. /\ x \in Callback .. after + 1 /\ after' = IF x = after + 1 THEN x ELSE after
          /\ IF x \in 1 .. after THEN UNCHANGED <<fpc, fitem, pending>> ELSE Forward(x)
      <3>1. fpc' \notin {"closing", "failing"} BY DEF Steady, Served
      <3> QED BY <1>16, <2>2, <3>1 DEF TakeEvent, EndStream
    <2>4. Steady /\ Base' = Base /\ Ids(incoming)' = Ids(incoming) /\ Ids(wire)' = Ids(wire) /\ Alive
      BY <2>1 DEF Steady, Served, Base, Alive
    <2>5. PICK b, c \in 0 .. watermark :
             /\ Carries(Ids(incoming), Base, Base, b) /\ Carries(Ids(wire), Base, b, c)
             /\ Carries(InHand, Base, c, after) /\ Base <= b /\ b <= c /\ c <= after
      BY <1>5, <2>4
    <2>6. after \in Nat /\ watermark \in Nat /\ Base \in Int /\ c \in Int /\ Base <= c /\ Base <= after
      BY <1>2, <1>5, <2>4, <2>5 DEF Numbered, Framed
    <2>7. \/ x <= Base /\ Carries(Tail(queue), Base, after, Through)
          \/ x = after + 1 /\ Carries(Tail(queue), Base, after + 1, Through)
      <3>1. PICK q \in Seq(Int) : q = queue BY <1>2
      <3>2. PICK t \in Int : t = Through BY <1>2
      <3>3. Carries(q, Base, after, t) /\ q # <<>> BY <1>5, <2>1, <2>4, <3>1, <3>2
      <3>4. \/ Head(q) <= Base /\ Carries(Tail(q), Base, after, t)
            \/ Head(q) = after + 1 /\ Carries(Tail(q), Base, after + 1, t)
        BY <2>6, <3>3, CarriesFirst
      <3> QED BY <2>2, <3>1, <3>2, <3>4
    <2>8. x \in Int /\ x >= 0 /\ x <= after + 1 BY <2>3, <2>6 DEF Callback
    <2>9. Carries(queue', Base, after', Through)
      <3>1. CASE x = after + 1 BY <2>1, <2>3, <2>6, <2>7, <3>1
      <3>2. CASE x # after + 1 BY <2>1, <2>3, <2>7, <3>2
      <3> QED BY <3>1, <3>2
    <2>10. Carries(Append(InHand, x), Base, c, after') /\ (x # after + 1 => Carries(InHand, Base, c, after'))
      <3>1. /\ Carries(Append(InHand, after + 1), Base, c, after + 1)
            /\ x <= Base => Carries(Append(InHand, x), Base, c, after)
        BY <1>2, <2>5, <2>6, <2>8, CarriesNext
      <3>2. CASE x = after + 1 BY <2>3, <3>1, <3>2
      <3>3. CASE x # after + 1 BY <2>3, <2>5, <2>7, <3>1, <3>3
      <3> QED BY <3>2, <3>3
    <2>11. InHand' = Append(InHand, x) \/ (InHand' = InHand /\ x # after + 1)
      <3>1. CASE x \in 1 .. after
        <4>1. InHand' = InHand BY <2>1, <2>3, <3>1 DEF InHand
        <4>2. x # after + 1 BY <2>6, <3>1
        <4> QED BY <4>1, <4>2
      <3>2. CASE x \notin 1 .. after
        <4>1. /\ fpc' = IF routing = "attached" THEN "send" ELSE "get"
              /\ fitem' = x
              /\ pending' = IF routing = "attaching" /\ x # Callback THEN Append(pending, x) ELSE pending
          BY <2>3, <3>2 DEF Forward
        <4>2. routing \in {"attaching", "attached"} BY <2>4 DEF Connected
        <4>3. CASE routing = "attached"
          <5>1. fpc' = "send" /\ fitem' = x /\ pending' = <<>> /\ batch' = <<>> /\ pending = <<>> /\ batch = <<>>
            BY <1>1, <2>1, <4>1, <4>3
          <5>2. InHand = <<>> \o <<>> \o <<>> /\ InHand' = <<x>> \o <<>> \o <<>>
            BY <2>1, <5>1 DEF InHand
          <5>3. InHand = <<>> /\ InHand' = <<x>>
            <6>1. <<>> \in Seq(Int) /\ <<x>> \in Seq(Int) BY <2>8
            <6> QED BY <5>2, <6>1, RowOfThree
          <5> QED BY <5>3
        <4>4. CASE routing = "attaching" /\ x # Callback
          <5>1. fpc' = "get" /\ pending' = Append(pending, x) BY <4>1, <4>4
          <5> QED BY <1>21, <2>1, <2>8, <5>1
        <4>5. CASE routing = "attaching" /\ x = Callback
          <5>1. fpc' = "get" /\ pending' = pending BY <4>1, <4>5
          <5>2. InHand' = InHand BY <2>1, <5>1 DEF InHand
          <5>3. x # after + 1 BY <2>6, <4>5 DEF Callback
          <5> QED BY <5>2, <5>3
        <4> QED BY <4>2, <4>3, <4>4, <4>5
      <3> QED BY <3>1, <3>2
    <2>12. Carries(InHand', Base, c, after') BY <2>10, <2>11
    <2>13. Through' = Through /\ InLock' = InLock BY <2>1 DEF Through, InLock
    <2>14. \A t \in Sources : spc'[t] = "send" => item'[t] <= Base' BY <1>5, <2>1, <2>4
    <2> QED BY <1>4, <1>5, <2>1, <2>4, <2>5, <2>9, <2>12, <2>13, <2>14
  <1>17. ASSUME StartForwarder \/ ServeRead \/ Redeliver \/ SendRead \/ Respond PROVE Chain'
    <2>1. /\ UNCHANGED <<incoming, cpc, view, snapshot, conn, subscribed, spc, item, lockq, projection, queue,
                         watermark, after, lost>>
          /\ fpc \in {"new", "get", "send"} /\ (fpc' = "send" <=> fpc = "send") /\ fitem' = fitem
      <3>1. fpc' \in {"new", "get", "send"} BY DEF Steady, Served
      <3>2. UNCHANGED <<incoming, cpc, view, snapshot, conn, subscribed, spc, item, lockq, projection, queue,
                        watermark, after, lost, fitem>>
        BY <1>17 DEF StartForwarder, ServeRead, Redeliver, SendRead, Respond, sourceVars, forwarderVars,
           attachVars, clientVars
      <3>3. fpc' = fpc \/ (fpc = "new" /\ fpc' = "get")
        BY <1>17 DEF StartForwarder, ServeRead, Redeliver, SendRead, Respond, forwarderVars
      <3> QED BY <3>1, <3>2, <3>3
    <2>2. Steady /\ Base' = Base /\ Ids(incoming)' = Ids(incoming) BY <2>1 DEF Steady, Served, Base
    <2>3. InHand' = InHand
      <3>1. CASE UNCHANGED <<batch, pending>> BY <2>1, <3>1 DEF InHand
      <3>2. CASE Respond
        <4>1. batch = <<>> BY <1>1, <3>2 DEF Respond
        <4>2. \/ batch' = pending /\ pending' = <<>>
              \/ batch' = batch /\ pending' = pending
          BY <3>2, <4>1 DEF Respond, FinishAttachment
        <4>3. PICK x \in Seq(Int) : x = IF fpc = "send" THEN <<fitem>> ELSE <<>>
          <5>1. <<fitem>> \in Seq(Int) /\ <<>> \in Seq(Int) BY DEF Numbered
          <5> QED BY <5>1
        <4>4. InHand = x \o batch \o pending /\ InHand' = x \o batch' \o pending'
          BY <2>1, <4>3 DEF InHand
        <4>5. x \o <<>> \o pending = x \o pending \o <<>> BY <1>2, RowOfThree
        <4> QED BY <4>1, <4>2, <4>4, <4>5
      <3> QED BY <1>17, <3>1, <3>2 DEF StartForwarder, ServeRead, Redeliver, SendRead, attachVars
    <2>4. PICK b, c \in 0 .. watermark :
             /\ Carries(Ids(incoming), Base, Base, b) /\ Carries(Ids(wire), Base, b, c)
             /\ Carries(InHand, Base, c, after) /\ Base <= b /\ b <= c /\ c <= after
      BY <1>5, <2>2
    <2>5. \/ wire' = wire
          \/ \E kind \in {"resumed", "read", "callback"}, id \in 0 .. watermark :
                wire' = Append(wire, Message(kind, id))
      <3>1. Callback \in 0 .. watermark /\ snapshot \in 0 .. watermark BY DEF Callback, Framed, Numbered
      <3>2. reply # Broken => reply \in 0 .. watermark BY DEF Broken, Numbered
      <3> QED BY <1>17, <3>1, <3>2 DEF StartForwarder, ServeRead, Redeliver, SendRead, Respond
    <2>6. Carries(Ids(wire)', Base, b, c)
      <3>1. CASE wire' = wire BY <2>4, <3>1
      <3>2. CASE wire' # wire
        <4>1. PICK kind \in {"resumed", "read", "callback"}, id \in 0 .. watermark :
                 wire' = Append(wire, Message(kind, id))
          BY <2>5, <3>2
        <4>2. Message(kind, id) \in Messages /\ IdOf(Message(kind, id)) \in {Broken, Callback}
          <5>1. id \in 0 .. MaxEvents BY <1>2, SizeAssumption DEF Framed
          <5> QED BY <5>1 DEF Message, Messages, Kinds, IdOf
        <4>3. PICK x \in {Broken, Callback} : Ids(wire)' = Append(Ids(wire), x)
          BY <1>2, <4>1, <4>2, IdsFacts
        <4>4. x \in Int /\ x <= Base /\ Base \in Int /\ Base <= b BY <1>2, <2>4 DEF Broken, Callback
        <4> QED BY <1>2, <2>4, <4>3, <4>4, CarriesNext
      <3> QED BY <3>1, <3>2
    <2>7. Through' = Through /\ InLock' = InLock BY <2>1 DEF Through, InLock
    <2>8. \A t \in Sources : spc'[t] = "send" => item'[t] <= Base' BY <1>5, <2>1, <2>2
    <2> QED BY <1>4, <1>5, <2>1, <2>2, <2>3, <2>4, <2>6, <2>7, <2>8
  <1>18. ASSUME ForwardSent \/ Drain PROVE Chain'
    <2>1. /\ UNCHANGED <<incoming, cpc, view, snapshot, conn, subscribed, spc, item, lockq, projection, queue,
                         watermark, after, lost>>
          /\ fpc \in {"new", "get", "send"}
      <3>1. fpc' \in {"new", "get", "send"} BY DEF Steady, Served
      <3> QED BY <1>18, <3>1 DEF ForwardSent, Drain, sourceVars, forwarderVars, attachVars, clientVars
    <2>2. Steady /\ Base' = Base /\ Ids(incoming)' = Ids(incoming) BY <2>1 DEF Steady, Served, Base
    <2>3. PICK x \in 0 .. watermark :
             /\ wire' = Append(wire, Notification(x)) /\ InHand # <<>> /\ Head(InHand) = x /\ InHand' = Tail(InHand)
      <3>1. CASE ForwardSent
        <4>1. fpc = "send" /\ fpc' = "get" /\ UNCHANGED <<batch, pending>> /\ fitem \in 0 .. watermark
          BY <3>1 DEF ForwardSent, attachVars, Numbered
        <4>2. batch = <<>> /\ pending = <<>> BY <1>1, <4>1
        <4>3. InHand = <<fitem>> \o <<>> \o <<>> /\ InHand' = <<>> \o <<>> \o <<>> BY <4>1, <4>2 DEF InHand
        <4>4. <<fitem>> \in Seq(Int) /\ <<>> \in Seq(Int) BY <4>1
        <4>5. InHand = <<fitem>> /\ InHand' = <<>> BY <4>3, <4>4, RowOfThree
        <4>6. Head(<<fitem>>) = fitem /\ Tail(<<fitem>>) = <<>> /\ <<fitem>> # <<>> OBVIOUS
        <4> QED BY <3>1, <4>1, <4>5, <4>6 DEF ForwardSent
      <3>2. CASE Drain
        <4>1. /\ apc = "drain" /\ wire' = Append(wire, Notification(Head(batch))) /\ fpc' = fpc
              /\ IF Len(batch) > 1 THEN batch' = Tail(batch) /\ UNCHANGED <<apc, routing, pending>>
                                   ELSE FinishAttachment
          BY <3>2 DEF Drain, forwarderVars
        <4>2. batch # <<>> /\ fpc # "send" BY <1>1, <4>1
        <4>3. Head(batch) \in 0 .. watermark
          <5>1. PICK N : N = 1 .. watermark OBVIOUS
          <5>2. batch \in Seq(N) BY <5>1 DEF Numbered
          <5>3. Head(batch) \in N BY <4>2, <5>2
          <5> QED BY <5>1, <5>3 DEF Framed
        <4>4. InHand = <<>> \o batch \o pending /\ InHand' = <<>> \o batch' \o pending'
          BY <4>1, <4>2 DEF InHand
        <4>5. /\ <<>> \o batch \o pending # <<>> /\ Head(<<>> \o batch \o pending) = Head(batch)
              /\ <<>> \o Tail(batch) \o pending = Tail(<<>> \o batch \o pending)
          <5>1. <<>> \in Seq(Int) OBVIOUS
          <5>2. PICK b \in Seq(Int) : b = batch BY <1>2
          <5>3. PICK p \in Seq(Int) : p = pending BY <1>2
          <5>4. b # <<>> => /\ <<>> \o b \o p # <<>> /\ Head(<<>> \o b \o p) = Head(b)
                            /\ <<>> \o Tail(b) \o p = Tail(<<>> \o b \o p)
            BY <5>1, RowOfThree
          <5> QED BY <4>2, <5>2, <5>3, <5>4
        <4>6. <<>> \o batch' \o pending' = <<>> \o Tail(batch) \o pending
          <5>1. CASE batch' = Tail(batch) /\ pending' = pending BY <5>1
          <5>2. CASE ~(Len(batch) > 1)
            <6>1. Tail(batch) = <<>>
              <7>1. PICK b \in Seq(Int) : b = batch BY <1>2
              <7>2. PICK t \in Seq(Int) : t = Tail(b) /\ Len(t) = Len(b) - 1
                <8>1. b # <<>> BY <4>2, <7>1
                <8> QED BY <8>1, HeadTailProperties
              <7>3. Len(b) \in Nat /\ Len(t) \in Nat /\ ~(Len(b) > 1) BY <5>2, <7>1
              <7>4. Len(t) = 0 BY <7>2, <7>3
              <7>5. t = <<>> BY <7>4, EmptySeq
              <7> QED BY <7>1, <7>2, <7>5
            <6>2. \/ batch' = pending /\ pending' = <<>>
                  \/ batch' = <<>> /\ pending' = pending
              BY <4>1, <5>2 DEF FinishAttachment
            <6>3. <<>> \o pending \o <<>> = <<>> \o <<>> \o pending
              <7>1. <<>> \in Seq(Int) OBVIOUS
              <7> QED BY <1>2, <7>1, RowOfThree
            <6> QED BY <6>1, <6>2, <6>3
          <5> QED BY <4>1, <5>1, <5>2
        <4> QED BY <4>1, <4>3, <4>4, <4>5, <4>6
      <3> QED BY <1>18, <3>1, <3>2
    <2>4. PICK b, c \in 0 .. watermark :
             /\ Carries(Ids(incoming), Base, Base, b) /\ Carries(Ids(wire), Base, b, c)
             /\ Carries(InHand, Base, c, after) /\ Base <= b /\ b <= c /\ c <= after
      BY <1>5, <2>2
    <2>5. Ids(wire)' = Append(Ids(wire), x) BY <1>20, <2>3
    <2>6. PICK d \in Int : Carries(Ids(wire)', Base, b, d) /\ Carries(InHand', Base, d, after)
      <3>1. /\ Base \in Int /\ b \in Int /\ c \in Int /\ after \in Int /\ x \in Int /\ Base <= c
        BY <1>2, <2>3, <2>4 DEF Numbered
      <3>2. \/ x <= Base /\ Carries(InHand', Base, c, after)
            \/ x = c + 1 /\ Carries(InHand', Base, c + 1, after)
        <4>1. PICK q \in Seq(Int) : q = InHand BY <1>2
        <4>2. \/ Head(q) <= Base /\ Carries(Tail(q), Base, c, after)
              \/ Head(q) = c + 1 /\ Carries(Tail(q), Base, c + 1, after)
          BY <2>3, <2>4, <3>1, <4>1, CarriesFirst
        <4> QED BY <2>3, <4>1, <4>2
      <3>3. /\ Carries(Append(Ids(wire), c + 1), Base, b, c + 1)
            /\ x <= Base => Carries(Append(Ids(wire), x), Base, b, c)
        BY <1>2, <2>4, <3>1, CarriesNext
      <3>4. c + 1 \in Int BY <3>1
      <3> QED BY <2>5, <3>1, <3>2, <3>3, <3>4
    <2>7. Through' = Through /\ InLock' = InLock BY <2>1 DEF Through, InLock
    <2>8. \A t \in Sources : spc'[t] = "send" => item'[t] <= Base' BY <1>5, <2>1, <2>2
    <2> QED BY <1>4, <1>5, <2>1, <2>2, <2>4, <2>6, <2>7, <2>8
  <1>19. ASSUME Receive PROVE Chain'
    <2>1. PICK m : m = Head(wire) OBVIOUS
    <2>2. /\ UNCHANGED <<snapshot, conn, subscribed, fpc, fitem, batch, pending, spc, item, lockq, projection, queue,
                         watermark, after, lost>>
          /\ wire # <<>> /\ wire' = Tail(wire) /\ cpc' \in {"resume", "pump"}
      BY <1>19 DEF Receive, sourceVars, forwarderVars, attachVars, Steady, Served
    <2>3. /\ \/ m.kind \in {"event", "callback"} /\ incoming' = Append(incoming, m) /\ UNCHANGED <<cpc, view>>
             \/ /\ m.kind \notin {"event", "callback"} /\ incoming' = incoming
                /\ cpc = "resume" /\ cpc' = "pump" /\ view' = snapshot
      <3>1. Alive BY <2>2 DEF Steady, Served, Alive
      <3>2. m.kind = "read" => cpc # "resync"
        <4>1. lost = {} BY <2>2 DEF Steady
        <4> QED BY <1>1, <3>1, <4>1
      <3>3. m.kind = "resumed" => m.id = snapshot
        <4>1. PICK new : new = {"resumed"} OBVIOUS
        <4>2. m.kind \in new => 1 \in Sent(new) /\ m = wire[1] BY <2>1, <2>2, WireFacts
        <4> QED BY <4>1, <4>2 DEF Awaited
      <3> QED BY <1>19, <2>1, <2>2, <3>2, <3>3 DEF Receive
    <2>4. Steady /\ Base' = Base
      <3>1. Served' BY DEF Steady
      <3>2. cpc \in {"resume", "pump"} BY <2>2, <2>3
      <3>3. Served /\ lost = {} BY <2>2, <3>1, <3>2 DEF Served, Steady
      <3> QED BY <2>2, <2>3, <3>3 DEF Steady, Base
    <2>5. PICK b, c \in 0 .. watermark :
             /\ Carries(Ids(incoming), Base, Base, b) /\ Carries(Ids(wire), Base, b, c)
             /\ Carries(InHand, Base, c, after) /\ Base <= b /\ b <= c /\ c <= after
      BY <1>5, <2>4
    <2>6. m \in Messages /\ Ids(wire) # <<>> /\ Ids(wire)' = Tail(Ids(wire)) /\ Head(Ids(wire)) = IdOf(m)
      BY <1>2, <2>1, <2>2, IdsFacts, SMTT(30)
    <2>7. IdOf(m) \in Int BY <1>2, <2>6, IdsFacts
    <2>8. Base \in Int /\ b \in Int /\ c \in Int /\ Base >= 0 BY <1>2, <2>5
    <2>9. \/ IdOf(m) <= Base /\ Carries(Ids(wire)', Base, b, c)
          \/ IdOf(m) = b + 1 /\ Carries(Ids(wire)', Base, b + 1, c)
      <3>1. PICK q \in Seq(Int) : q = Ids(wire) BY <1>2
      <3>2. \/ Head(q) <= Base /\ Carries(Tail(q), Base, b, c)
            \/ Head(q) = b + 1 /\ Carries(Tail(q), Base, b + 1, c)
        BY <2>5, <2>6, <2>8, <3>1, CarriesFirst
      <3> QED BY <2>6, <3>1, <3>2
    <2>10. PICK d \in Int : Carries(Ids(incoming)', Base, Base, d) /\ Carries(Ids(wire)', Base, d, c)
      <3>1. CASE m.kind \in {"event", "callback"} /\ incoming' = Append(incoming, m)
        <4>1. Ids(incoming)' = Append(Ids(incoming), IdOf(m)) BY <1>2, <2>6, <3>1, IdsFacts
        <4>2. /\ Carries(Append(Ids(incoming), b + 1), Base, Base, b + 1)
              /\ IdOf(m) <= Base => Carries(Append(Ids(incoming), IdOf(m)), Base, Base, b)
          BY <1>2, <2>5, <2>7, <2>8, CarriesNext
        <4>3. b + 1 \in Int BY <2>8
        <4> QED BY <2>8, <2>9, <4>1, <4>2, <4>3
      <3>2. CASE m.kind \notin {"event", "callback"} /\ incoming' = incoming
        <4>1. IdOf(m) # b + 1 BY <2>5, <2>8, <3>2 DEF IdOf, Broken
        <4> QED BY <2>5, <2>8, <2>9, <3>2, <4>1
      <3> QED BY <2>3, <3>1, <3>2
    <2>11. Through' = Through /\ InLock' = InLock /\ InHand' = InHand BY <2>2 DEF Through, InLock, InHand
    <2>12. \A t \in Sources : spc'[t] = "send" => item'[t] <= Base' BY <1>5, <2>2, <2>4
    <2> QED BY <1>4, <1>5, <2>2, <2>4, <2>5, <2>8, <2>10, <2>11, <2>12
  <1>22. ASSUME Consume PROVE Chain'
    <2>1. PICK m : m = Head(incoming) OBVIOUS
    <2>2. /\ UNCHANGED <<snapshot, conn, subscribed, fpc, fitem, batch, pending, spc, item, lockq, projection, queue,
                         watermark, after, lost, wire>>
          /\ incoming # <<>> /\ incoming' = Tail(incoming) /\ cpc = "pump" /\ cpc' = "pump"
          /\ \/ m.kind = "callback" /\ view' = view
             \/ m.kind = "event" /\ m.id <= view + 1 /\ view' = Advanced(m.id)
      <3>1. cpc' # "resync" BY DEF Steady, Served
      <3> QED BY <1>22, <2>1, <3>1 DEF Consume, sourceVars, forwarderVars, attachVars
    <2>3. Steady /\ Base = view /\ Base' = view' BY <2>2 DEF Steady, Served, Base
    <2>4. PICK b, c \in 0 .. watermark :
             /\ Carries(Ids(incoming), Base, Base, b) /\ Carries(Ids(wire), Base, b, c)
             /\ Carries(InHand, Base, c, after) /\ Base <= b /\ b <= c /\ c <= after
      BY <1>5, <2>3
    <2>5. /\ m \in Messages /\ Ids(incoming) # <<>> /\ Ids(incoming)' = Tail(Ids(incoming))
          /\ Head(Ids(incoming)) = IdOf(m)
      BY <1>2, <2>1, <2>2, IdsFacts, SMTT(30)
    <2>6. /\ Base \in Nat /\ b \in Int /\ c \in Int /\ after \in Int /\ Through \in Int /\ watermark \in Int
          /\ IdOf(m) \in Int
      <3>1. watermark \in Nat /\ Base \in Nat /\ after \in Int BY <1>2 DEF Framed, Numbered
      <3>2. IdOf(m) \in Int BY <1>2, <2>5, IdsFacts
      <3> QED BY <1>2, <2>4, <3>1, <3>2
    <2>7. \/ IdOf(m) <= Base /\ Carries(Ids(incoming)', Base, Base, b)
          \/ IdOf(m) = Base + 1 /\ Carries(Ids(incoming)', Base, Base + 1, b) /\ Base + 1 <= b
      <3>1. PICK q \in Seq(Int) : q = Ids(incoming) BY <1>2
      <3>2. \/ Head(q) <= Base /\ Carries(Tail(q), Base, Base, b)
            \/ Head(q) = Base + 1 /\ Base + 1 <= b /\ Carries(Tail(q), Base, Base + 1, b)
        BY <2>4, <2>5, <2>6, <3>1, CarriesFirst
      <3> QED BY <2>5, <3>1, <3>2
    <2>8. Through' = Through /\ InLock' = InLock /\ InHand' = InHand /\ Ids(wire)' = Ids(wire)
      BY <2>2 DEF Through, InLock, InHand
    <2>9. CASE IdOf(m) <= Base
      <3>1. Base' = Base BY <2>2, <2>3, <2>6, <2>9 DEF IdOf, Advanced
      <3>2. \A t \in Sources : spc'[t] = "send" => item'[t] <= Base' BY <1>5, <2>2, <2>3, <3>1
      <3>3. Carries(Ids(incoming)', Base, Base, b) BY <2>6, <2>7, <2>9
      <3> QED BY <1>4, <1>5, <2>2, <2>3, <2>4, <2>8, <3>1, <3>2, <3>3
    <2>10. CASE IdOf(m) = Base + 1
      <3>1. Base' = Base + 1
        <4>1. m.kind = "event" /\ m.id = view + 1 BY <2>2, <2>3, <2>6, <2>10 DEF IdOf, Callback
        <4> QED BY <2>2, <2>3, <4>1 DEF Advanced
      <3>2. PICK g \in Int : g = Base + 1 /\ Base <= g /\ g <= b BY <2>6, <2>7, <2>10
      <3>3. g <= c /\ g <= after /\ g <= Through
        <4>1. after <= Through BY <1>5, <2>3
        <4> QED BY <2>4, <2>6, <3>2, <4>1
      <3>4. Carries(Ids(incoming)', g, g, b)
        <4>1. Carries(Ids(incoming)', Base, g, b) BY <2>6, <2>7, <2>10, <3>2
        <4>2. Ids(incoming)' \in Seq(Int) BY <1>2, <2>5
        <4> QED BY <2>6, <3>2, <4>1, <4>2, CarriesRises
      <3>5. Carries(Ids(wire), g, b, c) BY <1>2, <2>4, <2>6, <3>2, CarriesRises
      <3>6. Carries(InHand, g, c, after) BY <1>2, <2>4, <2>6, <3>2, <3>3, CarriesRises
      <3>7. Carries(queue, g, after, Through) BY <1>2, <1>5, <2>3, <2>6, <3>2, <3>3, CarriesRises
      <3>8. Carries(InLock, g, Through, watermark) BY <1>2, <1>5, <2>3, <2>6, <3>2, <3>3, CarriesRises, SMTT(30)
      <3>9. \A t \in Sources : spc'[t] = "send" => item'[t] <= Base'
        <4>1. \A t \in Sources : item[t] \in Int BY DEF Numbered
        <4> QED BY <1>5, <2>2, <2>3, <2>6, <3>1, <4>1
      <3>10. projection' # Broken /\ Base' = g /\ queue' = queue /\ after' = after /\ watermark' = watermark
        BY <1>5, <2>2, <2>3, <3>1, <3>2
      <3> QED BY <1>4, <2>6, <2>8, <3>4, <3>5, <3>6, <3>7, <3>8, <3>9, <3>10
    <2> QED BY <2>7, <2>9, <2>10
  <1>23. ASSUME Subscribed PROVE Chain'
    <2>1. /\ apc = "read" /\ snapshot' = watermark /\ projection' = watermark /\ after' = watermark
          /\ queue' = <<>> /\ fpc' = "new" /\ lockq' = Tail(lockq)
          /\ UNCHANGED <<watermark, spc, item, conn, cpc, view, incoming, wire>>
      BY <1>23 DEF Subscribed, sourceVars, clientVars
    <2>2. Base' = watermark /\ watermark \in Nat
      <3>1. cpc \in {"resume", "gone"} BY <2>1 DEF Connected, Attachment
      <3>2. cpc' = "resume" BY <2>1, <3>1 DEF Steady, Served
      <3> QED BY <2>1, <3>2 DEF Base, Framed
    <2>3. Through' = watermark
      <3>1. Holds("attach") BY <2>1 DEF Locked
      <3>2. \A s \in Sources : s # "attach" BY SizeAssumption DEF Sources
      <3>3. \A s \in Sources : spc[s] # "put" BY <3>1, <3>2 DEF Locked, Holds
      <3> QED BY <2>1, <3>3 DEF Through
    <2>4. /\ incoming' \in Seq(Messages) /\ wire' \in Seq(Messages)
          /\ Ids(incoming)' \in Seq(Int) /\ Ids(wire)' \in Seq(Int) /\ InHand' \in Seq(Int)
          /\ InLock' \in Seq(Int) /\ queue' \in Seq(Int)
      <3>1. \A q \in Seq(Messages) : Ids(q) \in Seq(Int) BY IdsFacts
      <3>2. batch' \in Seq(Int) /\ pending' \in Seq(Int) /\ fitem' \in Int
        <4>1. PICK N : N = 1 .. watermark' OBVIOUS
        <4>2. batch' \in Seq(N) /\ pending' \in Seq(N) /\ fitem' \in 0 .. watermark' /\ N \subseteq Int
          BY <4>1 DEF Numbered
        <4>3. fitem' \in Int BY <4>2
        <4> QED BY <4>2, <4>3, SeqWidens
      <3>3. InHand' = <<>> \o batch' \o pending' BY <2>1 DEF InHand
      <3>4. <<>> \in Seq(Int) OBVIOUS
      <3>5. InHand' \in Seq(Int)
        <4>1. PICK b \in Seq(Int) : b = batch' BY <3>2
        <4>2. PICK p \in Seq(Int) : p = pending' BY <3>2
        <4>3. <<>> \o b \o p \in Seq(Int) BY <3>4, RowOfThree
        <4> QED BY <3>3, <4>1, <4>2, <4>3
      <3>6. InLock' \in Seq(Int)
        <4>1. lockq' \in Seq(Actors) /\ item' \in [Sources -> Int] BY DEF Framed, Numbered
        <4>2. InLock' = Items(lockq', item') BY DEF InLock, Items
        <4> QED BY <4>1, <4>2, ItemsFacts
      <3> QED BY <1>2, <2>1, <3>1, <3>4, <3>5, <3>6
    <2>5. \A i \in DOMAIN Ids(incoming)' : Ids(incoming)'[i] <= watermark
      <3>1. PICK M : M = [kind : {"event", "callback"}, id : 0 .. watermark] OBVIOUS
      <3>2. incoming \in Seq(M) BY <3>1 DEF Numbered
      <3>3. \A i \in DOMAIN incoming : incoming[i].id <= watermark
        <4>1. \A i \in DOMAIN incoming : incoming[i] \in M BY <3>2
        <4>2. \A m \in M : m.id <= watermark BY <2>2, <3>1
        <4> QED BY <4>1, <4>2
      <3> QED BY <2>1, <2>2, <3>3 DEF Ids, IdOf, Callback, Broken
    <2>6. \A i \in DOMAIN Ids(wire)' : Ids(wire)'[i] <= watermark
      <3>1. PICK M : M = [kind : Kinds, id : 0 .. watermark] OBVIOUS
      <3>2. wire \in Seq(M) BY <3>1 DEF Numbered
      <3>3. \A i \in DOMAIN wire : wire[i].id <= watermark
        <4>1. \A i \in DOMAIN wire : wire[i] \in M BY <3>2
        <4>2. \A m \in M : m.id <= watermark BY <2>2, <3>1
        <4> QED BY <4>1, <4>2
      <3> QED BY <2>1, <2>2, <3>3 DEF Ids, IdOf, Callback, Broken
    <2>7. \A i \in DOMAIN InHand' : InHand'[i] <= watermark
      <3>1. PICK N : N = 1 .. watermark OBVIOUS
      <3>2. batch' \in Seq(N) /\ pending' \in Seq(N) BY <2>1, <3>1 DEF Numbered
      <3>3. InHand' = <<>> \o batch' \o pending' BY <2>1 DEF InHand
      <3>4. <<>> \in Seq(N) OBVIOUS
      <3>5. InHand' \in Seq(N)
        <4>1. <<>> \o batch' \in Seq(N) BY <3>2, <3>4, RowFacts
        <4> QED BY <3>2, <3>3, <4>1, RowFacts
      <3>6. \A i \in DOMAIN InHand' : InHand'[i] \in N BY <3>5
      <3> QED BY <2>2, <3>1, <3>6
    <2>8. \A i \in DOMAIN InLock' : InLock'[i] <= watermark
      <3>1. \A s \in Sources : item'[s] <= watermark BY <2>1, <2>2 DEF Numbered
      <3> QED BY <2>2, <3>1 DEF InLock, Broken
    <2>9. \A i \in DOMAIN queue' : queue'[i] <= watermark
      <3>1. DOMAIN queue' = {} BY <2>1
      <3> QED BY <3>1
    <2>10. /\ Carries(Ids(incoming)', watermark, watermark, watermark)
           /\ Carries(Ids(wire)', watermark, watermark, watermark)
           /\ Carries(InHand', watermark, watermark, watermark)
           /\ Carries(queue', watermark, watermark, watermark)
           /\ Carries(InLock', watermark, watermark, watermark)
      <3>1. watermark \in Int BY <2>2
      <3> QED BY <2>4, <2>5, <2>6, <2>7, <2>8, <2>9, <3>1, CarriesOld
    <2>11. \A s \in Sources : spc'[s] = "send" => item'[s] <= Base' BY <2>1, <2>2 DEF Numbered
    <2>12. projection' # Broken /\ watermark \in Int BY <2>1, <2>2 DEF Broken
    <2> QED BY <1>4, <2>1, <2>2, <2>3, <2>10, <2>11, <2>12
  <1>24. ASSUME \/ Interrupt \/ Leave \/ CloseStream \/ ServeResume \/ Subscribe \/ Refuse \/ Detach
                \/ Detached \/ CloseTransport \/ Connect
         PROVE  FALSE
    <2>1. conn' = "up" /\ Alive' /\ lost' = {} /\ cpc' \in {"resume", "pump"} BY DEF Steady, Served, Alive
    <2>2. ~Interrupt /\ ~Leave /\ ~CloseStream /\ ~Detach /\ ~Detached /\ ~CloseTransport
      BY <2>1 DEF Interrupt, Leave, CloseStream, Detach, Detached, CloseTransport, Alive
    <2>3. ServeResume \/ Subscribe \/ Refuse \/ Connect => fpc' = fpc /\ ~Alive
      BY DEF ServeResume, Subscribe, Refuse, Connect, Connected, forwarderVars
    <2> QED BY <1>24, <2>1, <2>2, <2>3 DEF Alive
  <1>25. ASSUME NEW s \in Sources, Project(s) PROVE Chain'
    BY <1>12, <1>25 DEF Project
  <1>26. ASSUME Ask PROVE Chain'
    BY <1>12, <1>26 DEF Ask, Sources
  <1> QED
    BY <1>13, <1>14, <1>15, <1>16, <1>17, <1>18, <1>19, <1>22, <1>23, <1>24, <1>25, <1>26
    DEF Next, Publishing, Forwarding, Attaching, Reading, Detaching, Client

(* A client that is served and has lost nothing never misses a number. *)
LEMMA StreamStep ==
    ASSUME Framed, Budget, Numbered, Locked, Connected, Awaited, Stream, Next
    PROVE  Stream'
  <1>1. Framed' /\ Budget' /\ Numbered' BY TypedStep
  <1>2. Held' BY HeldStep
  <1>3. Steady' => Chain' BY <1>1, ChainStep
  <1>4. ASSUME Alive', cpc' = "resync", lost' = {} PROVE FALSE
    <2>1. CASE cpc = "resync"
      <3>1. ~Subscribed BY <2>1 DEF Subscribed, Connected, Attachment
      <3>2. lost = {} /\ Alive
        <4>1. Alive
          <5>1. fpc' = fpc \/ fpc' \in {"none", "closing", "failing"} \/ (fpc \in {"new", "get", "send"})
            BY <3>1 DEF Next, Publishing, Forwarding, Attaching, Reading, Detaching, Client, Project, Ask, Begin,
               SendStray, Interrupt, Leave, Publish, Put, SendDirect, StartForwarder, TakeEvent, ForwardSent,
               CloseStream, ServeResume, Subscribe, Refuse, Respond, Drain, Redeliver, ServeRead, SendRead,
               Detach, Detached, CloseTransport, Connect, Receive, Consume, forwarderVars
          <5> QED BY <1>4, <5>1 DEF Alive
        <4>2. lost \subseteq lost'
          BY <3>1 DEF Next, Publishing, Forwarding, Attaching, Reading, Detaching, Client, Project, Ask, Begin,
             SendStray, Interrupt, Leave, Publish, Put, SendDirect, StartForwarder, TakeEvent, ForwardSent,
             CloseStream, ServeResume, Subscribe, Refuse, Respond, Drain, Redeliver, ServeRead, SendRead,
             Detach, Detached, CloseTransport, Connect, Receive, Consume
        <4> QED BY <1>4, <4>1, <4>2
      <3> QED BY <2>1, <3>2 DEF Stream
    <2>2. CASE cpc # "resync"
      <3>1. Consume
        BY <1>4, <2>2 DEF Next, Publishing, Forwarding, Attaching, Reading, Detaching, Client, Project, Ask,
           Begin, SendStray, Interrupt, Leave, Publish, Put, SendDirect, StartForwarder, TakeEvent, ForwardSent,
           CloseStream, ServeResume, Subscribe, Subscribed, Refuse, Respond, Drain, Redeliver, ServeRead,
           SendRead, Detach, Detached, CloseTransport, Connect, Receive, clientVars
      <3>2. /\ cpc = "pump" /\ fpc' = fpc /\ conn' = conn /\ subscribed' = subscribed /\ lost' = lost
            /\ incoming # <<>> /\ Head(incoming).kind = "event" /\ Head(incoming).id > view + 1
        BY <1>4, <2>2, <3>1 DEF Consume, forwarderVars
      <3>3. Alive /\ conn = "up" /\ subscribed BY <1>4, <3>2 DEF Alive, Connected, Locked
      <3>4. Chain /\ Base = view BY <1>4, <3>2, <3>3 DEF Stream, Steady, Served, Alive, Base
      <3>5. PICK b \in 0 .. watermark : Carries(Ids(incoming), Base, Base, b) BY <3>4 DEF Chain
      <3>6. /\ Ids(incoming) \in Seq(Int) /\ Ids(incoming) # <<>> /\ Base \in Int /\ b \in Int
            /\ Head(Ids(incoming)) = Head(incoming).id
        <4>1. incoming \in Seq(Messages) /\ Ids(incoming) \in Seq(Int) /\ Base \in 0 .. watermark BY Parts
        <4>2. Ids(incoming) # <<>> /\ Head(Ids(incoming)) = IdOf(Head(incoming)) BY <3>2, <4>1, IdsFacts
        <4> QED BY <3>2, <4>1, <4>2 DEF IdOf
      <3>7. Head(Ids(incoming)) <= Base \/ Head(Ids(incoming)) = Base + 1
        <4>1. PICK q \in Seq(Int) : q = Ids(incoming) BY <3>6
        <4>2. Head(q) <= Base \/ Head(q) = Base + 1 BY <3>5, <3>6, <4>1, CarriesFirst
        <4> QED BY <4>1, <4>2
      <3> QED BY <3>2, <3>4, <3>6, <3>7
    <2> QED BY <2>1, <2>2
  <1> QED BY <1>2, <1>3, <1>4 DEF Stream

(* Nothing is missing behind the entry that opened a callback. *)
LEMMA UnbrokenStep ==
    ASSUME Framed, Budget, Numbered, Locked, Connected, Unbroken, Next
    PROVE  Unbroken'
  <1>1. /\ next[Turn] = "callback" => item[Turn] > 0
        /\ cb = "open" /\ Asked /\ (Alive \/ Before(lockq, "attach", Turn)) =>
              \A n \in item[Turn] .. watermark : Publishes(n)
        /\ cb = "open" /\ ~Asked /\ Alive =>
              projection = Broken \/ \A n \in Through + 1 .. watermark : Publishes(n)
    BY DEF Unbroken
  <1>2. /\ Turn \in Sources /\ "attach" \notin Sources /\ "stream" \notin Sources
        /\ watermark \in Nat /\ projection \in -1 .. watermark /\ Through \in Int
        /\ \A s \in Sources : item[s] \in 0 .. watermark
    <2>1. projection \in -1 .. watermark /\ \A s \in Sources : item[s] \in 0 .. watermark BY DEF Numbered
    <2>2. watermark \in Nat BY DEF Framed
    <2> QED BY <2>1, <2>2, SizeAssumption DEF Sources, Through
  <1>3. ASSUME UNCHANGED <<cb, item, watermark>>, next'[Turn] = next[Turn],
               \A s \in Sources : Queued(s)' <=> Queued(s), Alive' => Alive,
               Before(lockq', "attach", Turn) => Before(lockq, "attach", Turn),
               Alive' => projection' = Broken \/ (projection # Broken /\ Through' = Through)
        PROVE  Unbroken'
    <2>1. Asked' <=> Asked BY <1>2, <1>3 DEF Asked
    <2>2. \A n : Publishes(n) => Publishes(n)' BY <1>3 DEF Publishes
    <2> QED BY <1>1, <1>3, <2>1, <2>2 DEF Unbroken, Broken
  <1>4. ASSUME NEW s \in Sources, NEW locks \in Seq(Actors), Range(locks) = Range(lockq) \ {s}, IsInjective(locks),
               \/ Freed(s, locks)
               \/ \E then : Joined(s, locks, then)
               \/ lockq' = locks /\ UNCHANGED <<watermark, item, next>>
        PROVE  /\ \A t \in Sources \ {s} : (Queued(t)' <=> Queued(t)) /\ item'[t] = item[t] /\ next'[t] = next[t]
               /\ \A k \in Int : (\A n \in k .. watermark : Publishes(n)) /\ (~Queued(s) \/ item[s] < k)
                     => \A n \in k .. watermark' : Publishes(n)'
               /\ \A a, b : Before(lockq', a, b) => Before(locks, a, b) \/ b = s
    <2>1. s \in Actors \ Range(locks) BY <1>4 DEF Actors
    <2>2. /\ \A t \in Sources \ {s} : item'[t] = item[t] /\ next'[t] = next[t]
          /\ lockq' \in {locks, Append(locks, s)}
          /\ watermark' = watermark
                \/ (watermark' = watermark + 1 /\ item'[s] = watermark' /\ lockq' = Append(locks, s))
      BY <1>4 DEF Freed, Joined
    <2>3. /\ Range(Append(locks, s)) = Range(locks) \cup {s}
          /\ \A a, b : Before(Append(locks, s), a, b) => Before(locks, a, b) \/ b = s
      BY <1>4, <2>1, LockJoin
    <2>4. \A t \in Sources \ {s} : Queued(t)' <=> Queued(t) BY <1>4, <2>2, <2>3 DEF Queued
    <2>5. ASSUME NEW k \in Int, \A n \in k .. watermark : Publishes(n), ~Queued(s) \/ item[s] < k,
                 NEW n \in k .. watermark'
          PROVE  Publishes(n)'
      <3>1. CASE n \in k .. watermark
        <4>1. PICK t \in Sources : Queued(t) /\ item[t] = n BY <2>5, <3>1 DEF Publishes
        <4>2. t # s BY <1>2, <2>5, <3>1, <4>1
        <4> QED BY <2>2, <2>4, <4>1, <4>2 DEF Publishes
      <3>2. CASE n \notin k .. watermark
        <4>1. n = watermark' /\ item'[s] = watermark' /\ lockq' = Append(locks, s) BY <1>2, <2>2, <3>2
        <4>2. Queued(s)' BY <2>3, <4>1 DEF Queued
        <4> QED BY <4>1, <4>2 DEF Publishes
      <3> QED BY <3>1, <3>2
    <2> QED BY <2>2, <2>3, <2>4, <2>5
  <1>5. ASSUME NEW s \in Sources, NEW locks \in Seq(Actors), Range(locks) = Range(lockq) \ {s}, IsInjective(locks),
               \/ Freed(s, locks)
               \/ \E then \in {"nothing", "event"} : Joined(s, locks, then)
               \/ lockq' = locks /\ UNCHANGED <<watermark, item, next>>,
               cb' = cb, Alive' = Alive,
               \A a, b : Before(locks, a, b) => Before(lockq, a, b),
               ~Queued(s) \/ Holds(s),
               Alive => \/ projection' = Broken
                        \/ /\ projection # Broken
                           /\ \/ Through' = Through /\ (~Queued(s) \/ item[s] <= Through)
                              \/ Through' = Through + 1 /\ item[s] = Through'
        PROVE  Unbroken'
    <2>1. /\ \A t \in Sources \ {s} : (Queued(t)' <=> Queued(t)) /\ item'[t] = item[t] /\ next'[t] = next[t]
          /\ \A k \in Int : (\A n \in k .. watermark : Publishes(n)) /\ (~Queued(s) \/ item[s] < k)
                => \A n \in k .. watermark' : Publishes(n)'
          /\ \A a, b : Before(lockq', a, b) => Before(locks, a, b) \/ b = s
      BY <1>4, <1>5
    <2>2. ~(next'[s] = "callback" /\ Queued(s)')
      <3>1. CASE Freed(s, locks) BY <3>1 DEF Freed
      <3>2. CASE \E then \in {"nothing", "event"} : Joined(s, locks, then) BY <3>2 DEF Joined
      <3>3. CASE lockq' = locks BY <1>5, <3>3 DEF Queued
      <3> QED BY <1>5, <3>1, <3>2, <3>3
    <2>3. next'[Turn] = "callback" => item'[Turn] > 0
      <3>1. CASE s = Turn
        <4>1. next'[Turn] = "callback" => next' = next /\ item' = item BY <1>5, <3>1 DEF Freed, Joined
        <4> QED BY <1>1, <4>1
      <3>2. CASE s # Turn BY <1>1, <1>2, <2>1, <3>2
      <3> QED BY <3>1, <3>2
    <2>4. ASSUME cb' = "open", Asked', Alive' \/ Before(lockq', "attach", Turn), NEW n \in item'[Turn] .. watermark'
          PROVE  Publishes(n)'
      <3>1. s # Turn BY <2>2, <2>4 DEF Asked
      <3>2. Asked /\ item'[Turn] = item[Turn] BY <1>2, <2>1, <2>4, <3>1 DEF Asked
      <3>3. Alive \/ Before(lockq, "attach", Turn) BY <1>5, <2>1, <2>4, <3>1
      <3>4. \A m \in item[Turn] .. watermark : Publishes(m) BY <1>1, <1>5, <2>4, <3>2, <3>3
      <3>5. ~Queued(s) \/ item[s] < item[Turn]
        <4>1. ASSUME Queued(s) PROVE item[s] < item[Turn]
          <5>1. item[Turn] > 0 BY <1>1, <3>2 DEF Asked
          <5>2. Before(lockq, s, Turn)
            <6>1. lockq \in Seq(Actors) /\ lockq # <<>> /\ Head(lockq) = s /\ IsInjective(lockq)
              BY <1>5, <4>1 DEF Holds, Framed, Locked
            <6>2. Turn \in Range(lockq) /\ Turn # Head(lockq) BY <3>1, <3>2, <6>1 DEF Asked, Queued
            <6> QED BY <6>1, <6>2, LockTail
          <5>3. item[s] > 0 => item[s] < item[Turn] BY <1>2, <5>1, <5>2 DEF Locked, InOrder
          <5> QED BY <1>2, <5>1, <5>3
        <4> QED BY <4>1
      <3> QED BY <1>2, <2>1, <2>4, <3>2, <3>4, <3>5
    <2>5. ASSUME cb' = "open", ~Asked', Alive', projection' # Broken, NEW n \in Through' + 1 .. watermark'
          PROVE  Publishes(n)'
      <3>1. /\ projection # Broken /\ Alive /\ cb = "open"
            /\ \/ Through' = Through /\ (~Queued(s) \/ item[s] <= Through)
               \/ Through' = Through + 1 /\ item[s] = Through'
        BY <1>5, <2>5
      <3>2. PICK k \in Int : k = Through' + 1 BY <1>2, <3>1
      <3>3. ~Queued(s) \/ item[s] < k BY <1>2, <3>1, <3>2
      <3>4. \A m \in k .. watermark : Publishes(m)
        <4>1. CASE ~Asked
          <5>1. \A m \in Through + 1 .. watermark : Publishes(m) BY <1>1, <3>1, <4>1
          <5>2. k .. watermark \subseteq Through + 1 .. watermark BY <1>2, <3>1, <3>2
          <5> QED BY <5>1, <5>2
        <4>2. CASE Asked
          <5>1. s = Turn BY <1>2, <2>1, <2>5, <4>2 DEF Asked
          <5>2. \A m \in item[s] .. watermark : Publishes(m) BY <1>1, <3>1, <4>2, <5>1
          <5>3. Queued(s) BY <4>2, <5>1 DEF Asked
          <5>4. k .. watermark \subseteq item[s] .. watermark BY <1>2, <3>2, <3>3, <5>3
          <5> QED BY <5>2, <5>4
        <4> QED BY <4>1, <4>2
      <3> QED BY <2>1, <2>5, <3>2, <3>3, <3>4
    <2> QED BY <2>3, <2>4, <2>5 DEF Unbroken
  <1>6. /\ lockq \in Seq(Actors) /\ IsInjective(lockq)
        /\ spc \in [Sources -> {"idle", "enter", "lock", "put", "send", "stray"}]
        /\ \A t \in Sources : spc[t] = "put" => Holds(t) /\ item[t] \in {Callback, projection}
        /\ \A t \in Sources : Queued(t) <=> spc[t] \in InLine
    BY DEF Framed, Locked
  <1>7. lockq # <<>> =>
           /\ Tail(lockq) \in Seq(Actors) /\ IsInjective(Tail(lockq))
           /\ Range(Tail(lockq)) = Range(lockq) \ {Head(lockq)}
           /\ \A a, b : Before(Tail(lockq), a, b) => Before(lockq, a, b)
    BY <1>6, LockTail
  <1>8. ASSUME NEW s \in Sources, \A t \in Sources \ {s} : spc'[t] = spc[t] /\ item'[t] = item[t], spc'[s] # "put"
        PROVE  /\ spc[s] # "put" /\ projection' = projection => Through' = Through
               /\ Holds(s) => Through' = projection' /\ (spc[s] # "put" => Through = projection)
    <2>1. (\E t \in Sources : spc'[t] = "put" /\ item'[t] # Callback) =>
             \E t \in Sources \ {s} : spc[t] = "put" /\ item[t] # Callback
      BY <1>8
    <2>2. (\E t \in Sources \ {s} : spc[t] = "put" /\ item[t] # Callback) =>
             \E t \in Sources : spc'[t] = "put" /\ item'[t] # Callback
      BY <1>8
    <2>3. Holds(s) => \A t \in Sources \ {s} : spc[t] # "put" BY <1>6 DEF Holds
    <2>4. Through' = IF \E t \in Sources : spc'[t] = "put" /\ item'[t] # Callback
                     THEN projection' - 1 ELSE projection'
      BY DEF Through, Callback
    <2>5. spc[s] # "put" /\ projection' = projection => Through' = Through
      BY <2>1, <2>2, <2>4 DEF Through
    <2>6. Holds(s) => Through' = projection' BY <2>1, <2>3, <2>4
    <2>7. Holds(s) /\ spc[s] # "put" => Through = projection BY <2>3 DEF Through
    <2> QED BY <2>5, <2>6, <2>7
  <1>9. ASSUME NEW s \in Sources, NEW locks, Freed(s, locks) \/ \E then : Joined(s, locks, then)
        PROVE  spc'[s] # "put" /\ \A t \in Sources \ {s} : spc'[t] = spc[t] /\ item'[t] = item[t]
    BY <1>6, <1>9 DEF Freed, Joined
  <1>10. ASSUME NEW s \in Sources, spc[s] \notin InLine, UNCHANGED <<cb, fpc, projection>>,
                Freed(s, lockq) \/ \E then \in {"nothing", "event"} : Joined(s, lockq, then)
         PROVE  Unbroken'
    <2>1. ~Queued(s) /\ spc[s] # "put" BY <1>6, <1>10 DEF InLine
    <2>2. Through' = Through BY <1>8, <1>9, <1>10, <2>1
    <2>3. Range(lockq) = Range(lockq) \ {s} BY <2>1 DEF Queued
    <2>4. Alive' = Alive BY <1>10 DEF Alive
    <2>5. Alive => \/ projection' = Broken
                   \/ /\ projection # Broken
                      /\ \/ Through' = Through /\ (~Queued(s) \/ item[s] <= Through)
                         \/ Through' = Through + 1 /\ item[s] = Through'
      BY <1>10, <2>1, <2>2
    <2> QED BY <1>5, <1>6, <1>10, <2>1, <2>3, <2>4, <2>5
  <1>11. ASSUME NEW s \in Sources, Project(s) PROVE Unbroken'
    <2>1. PICK then \in {"nothing", "event"} : Begin(s, then) BY <1>11 DEF Project
    <2>2. Joined(s, lockq, then) /\ spc[s] = "idle" BY <2>1, BeginFacts
    <2>3. UNCHANGED <<cb, fpc, projection>> BY <1>11, <2>1 DEF Project, Begin, forwarderVars
    <2> QED BY <1>10, <2>2, <2>3 DEF InLine
  <1>12. ASSUME NEW s \in Sources, SendDirect(s) \/ SendStray(s) PROVE Unbroken'
    <2>1. Finish(s, lockq) /\ spc[s] \in {"send", "stray"} /\ UNCHANGED <<cb, fpc, projection>>
      BY <1>12 DEF SendDirect, SendStray, forwarderVars
    <2>2. Freed(s, lockq) \/ Joined(s, lockq, "nothing") BY <2>1, FinishFacts
    <2> QED BY <1>10, <2>1, <2>2 DEF InLine
  <1>13. ASSUME Ask PROVE Unbroken'
    <2>1. Begin(Turn, "callback") BY <1>13 DEF Ask
    <2>2. /\ Joined(Turn, lockq, "callback") /\ watermark' = watermark + 1 /\ item'[Turn] = watermark + 1
          /\ spc[Turn] = "idle"
      BY <1>2, <2>1, BeginFacts
    <2>3. Turn \in Actors \ Range(lockq) BY <1>2, <1>6, <2>2 DEF Actors, Queued, InLine
    <2>4. Queued(Turn)' BY <1>6, <2>2, <2>3, LockJoin DEF Joined, Queued
    <2>5. Asked' BY <2>2, <2>4 DEF Asked, Joined
    <2>6. \A n \in item'[Turn] .. watermark' : Publishes(n)' BY <1>2, <2>2, <2>4 DEF Publishes
    <2>7. item'[Turn] > 0 BY <1>2, <2>2
    <2> QED BY <2>5, <2>6, <2>7 DEF Unbroken
  <1>14. ASSUME NEW s \in Sources, Holds(s), UNCHANGED <<cb, fpc>>,
                \/ Finish(s, Tail(lockq))
                \/ UNCHANGED <<watermark, item, next>> /\ lockq' = Tail(lockq) /\ spc' = [spc EXCEPT ![s] = "send"],
                Alive => \/ projection' = Broken
                         \/ /\ projection # Broken
                            /\ \/ projection' = Through /\ item[s] <= Through
                               \/ projection' = Through + 1 /\ item[s] = projection'
         PROVE  Unbroken'
    <2>1. lockq # <<>> /\ Head(lockq) = s BY <1>14 DEF Holds
    <2>2. \/ Freed(s, Tail(lockq)) \/ Joined(s, Tail(lockq), "nothing")
          \/ lockq' = Tail(lockq) /\ UNCHANGED <<watermark, item, next>> /\ spc' = [spc EXCEPT ![s] = "send"]
      BY <1>14, FinishFacts
    <2>3. spc'[s] # "put" /\ \A t \in Sources \ {s} : spc'[t] = spc[t] /\ item'[t] = item[t]
      <3>1. CASE Freed(s, Tail(lockq)) \/ Joined(s, Tail(lockq), "nothing") BY <1>9, <3>1
      <3>2. CASE UNCHANGED <<watermark, item, next>> /\ spc' = [spc EXCEPT ![s] = "send"] BY <1>6, <3>2
      <3> QED BY <2>2, <3>1, <3>2
    <2>4. Through' = projection' BY <1>8, <1>14, <2>3
    <2>5. Alive' = Alive BY <1>14 DEF Alive
    <2>6. Alive => \/ projection' = Broken
                   \/ /\ projection # Broken
                      /\ \/ Through' = Through /\ (~Queued(s) \/ item[s] <= Through)
                         \/ Through' = Through + 1 /\ item[s] = Through'
      BY <1>14, <2>4
    <2>7. /\ Tail(lockq) \in Seq(Actors) /\ IsInjective(Tail(lockq))
          /\ Range(Tail(lockq)) = Range(lockq) \ {s}
          /\ \A a, b : Before(Tail(lockq), a, b) => Before(lockq, a, b)
      BY <1>7, <2>1
    <2>8. \/ Freed(s, Tail(lockq))
          \/ \E then \in {"nothing", "event"} : Joined(s, Tail(lockq), then)
          \/ lockq' = Tail(lockq) /\ UNCHANGED <<watermark, item, next>>
      BY <2>2
    <2> QED BY <1>5, <1>14, <2>5, <2>6, <2>7, <2>8
  <1>15. ASSUME NEW s \in Sources, Put(s) PROVE Unbroken'
    <2>1. /\ spc[s] = "put" /\ Finish(s, Tail(lockq)) /\ UNCHANGED <<cb, fpc, projection>>
      BY <1>15 DEF Put, forwarderVars
    <2>2. Holds(s) /\ item[s] \in {Callback, projection} BY <1>6, <2>1
    <2>3. \A t \in Sources : spc[t] = "put" => t = s BY <1>6, <2>2 DEF Holds
    <2>4. Through = IF item[s] # Callback THEN projection - 1 ELSE projection
      BY <2>1, <2>3 DEF Through
    <2>5. projection' = Broken \/ /\ projection # Broken
                                  /\ \/ projection' = Through /\ item[s] <= Through
                                     \/ projection' = Through + 1 /\ item[s] = projection'
      BY <1>2, <2>1, <2>2, <2>4 DEF Broken, Callback
    <2> QED BY <1>14, <2>1, <2>2, <2>5
  <1>16. ASSUME NEW s \in Sources, Publish(s) PROVE Unbroken'
    <2>1. Holds(s) /\ spc[s] \in {"enter", "lock"} /\ UNCHANGED <<cb, fpc, subscribed>>
      BY <1>16 DEF Publish, forwarderVars
    <2>2. Through = projection
      <3>1. \A t \in Sources : spc[t] # "put" BY <1>6, <2>1 DEF Holds
      <3> QED BY <3>1 DEF Through
    <2>3. Alive => subscribed BY DEF Locked
    <2>4. CASE Ignored(s) /\ Route(s, Tail(lockq)) /\ UNCHANGED <<projection, queue>>
      <3>1. Alive => \/ projection' = Broken
                     \/ projection # Broken /\ projection' = Through /\ item[s] <= Through
        BY <1>2, <2>2, <2>3, <2>4 DEF Ignored, Callback, Broken
      <3> QED BY <1>14, <2>1, <2>4, <3>1 DEF Route
    <2>5. CASE /\ ~Ignored(s) /\ item[s] \in {Callback, projection + 1}
               /\ projection' = IF item[s] = Callback THEN projection ELSE item[s]
               /\ Enqueue(s)
      <3>1. projection # Broken /\ projection \in Nat /\ item[s] \in Nat
        BY <1>2, <2>5 DEF Ignored, Broken
      <3>2. CASE Finish(s, Tail(lockq))
        <4>1. \/ projection' = Through /\ item[s] <= Through
              \/ projection' = Through + 1 /\ item[s] = projection'
          BY <2>2, <2>5, <3>1 DEF Callback
        <4> QED BY <1>14, <2>1, <3>1, <3>2, <4>1
      <3>3. CASE spc' = [spc EXCEPT ![s] = "put"] /\ UNCHANGED <<watermark, item, next, lockq, queue>>
        <4>1. spc'[s] = "put" /\ \A t \in Sources \ {s} : spc'[t] = spc[t] BY <1>6, <3>3
        <4>2. \A t \in Sources : spc'[t] = "put" => t = s BY <1>6, <2>1, <4>1 DEF Holds
        <4>3. Through' = IF item[s] # Callback THEN projection' - 1 ELSE projection'
          BY <3>3, <4>1, <4>2 DEF Through, Callback
        <4>4. Through' = Through BY <2>2, <2>5, <3>1, <4>3
        <4> QED BY <1>3, <2>1, <3>1, <3>3, <4>4 DEF Queued, Alive
      <3> QED BY <2>5, <3>2, <3>3 DEF Enqueue
    <2>6. CASE projection' = Broken /\ Route(s, Tail(lockq))
      BY <1>14, <2>1, <2>6 DEF Route
    <2> QED BY <1>16, <2>4, <2>5, <2>6 DEF Publish
  <1>17. ASSUME UNCHANGED <<cb, item, watermark, next, spc, projection>>, Alive' => Alive,
                \A s \in Sources : Queued(s)' <=> Queued(s),
                Before(lockq', "attach", Turn) => Before(lockq, "attach", Turn)
         PROVE  Unbroken'
    <2>1. Through' = Through BY <1>17 DEF Through, Callback
    <2> QED BY <1>3, <1>17, <2>1 DEF Broken
  <1>18. ASSUME \/ Leave \/ StartForwarder \/ ForwardSent \/ ServeResume \/ Refuse \/ Respond \/ Drain
                \/ Redeliver \/ ServeRead \/ SendRead \/ Detached \/ Connect \/ Receive \/ Consume
         PROVE  Unbroken'
    <2>1. UNCHANGED <<cb, item, watermark, next, spc, projection, lockq>>
      BY <1>18 DEF Leave, StartForwarder, ForwardSent, ServeResume, Refuse, Respond, Drain, Redeliver,
         ServeRead, SendRead, Detached, Connect, Receive, Consume, sourceVars
    <2>2. Alive' => Alive
      BY <1>18 DEF Leave, StartForwarder, ForwardSent, ServeResume, Refuse, Respond, Drain, Redeliver,
         ServeRead, SendRead, Detached, Connect, Receive, Consume, forwarderVars, Alive
    <2> QED BY <1>17, <2>1, <2>2 DEF Queued
  <1>19. ASSUME CloseTransport PROVE Unbroken'
    <2>1. /\ UNCHANGED <<cb, item, watermark, next, projection, lockq, fpc>>
          /\ spc' = [s \in Sources |-> IF spc[s] = "send" THEN "stray" ELSE spc[s]]
      BY <1>19 DEF CloseTransport
    <2>2. \A s \in Sources : spc'[s] = "put" <=> spc[s] = "put" BY <2>1
    <2>3. Through' = Through BY <2>1, <2>2 DEF Through, Callback
    <2> QED BY <1>3, <2>1, <2>3 DEF Queued, Alive, Broken
  <1>20. ASSUME Interrupt PROVE Unbroken'
    <2>1. cb' # "open" /\ next'[Turn] = "nothing"
      <3>1. next' = [next EXCEPT ![Turn] = "nothing"] /\ cb' = IF cb = "open" THEN "closed" ELSE cb
        BY <1>20 DEF Interrupt
      <3>2. next \in [Sources -> {"nothing", "event", "callback"}] BY DEF Framed
      <3> QED BY <1>2, <3>1, <3>2
    <2> QED BY <2>1 DEF Unbroken
  <1>21. ASSUME NEW a \in {"attach", "stream"}, ~Queued(a)
         PROVE  /\ \A s \in Sources : s \in Range(Append(lockq, a)) <=> Queued(s)
                /\ Before(Append(lockq, a), "attach", Turn) => Before(lockq, "attach", Turn)
    <2>1. a \in Actors \ Range(lockq) BY <1>21 DEF Actors, Queued
    <2>2. /\ Range(Append(lockq, a)) = Range(lockq) \cup {a}
          /\ \A x, y : Before(Append(lockq, a), x, y) <=> Before(lockq, x, y) \/ (x \in Range(lockq) /\ y = a)
      BY <1>6, <2>1, LockJoin
    <2> QED BY <1>2, <2>2 DEF Queued
  <1>22. ASSUME NEW a \in {"attach", "stream"}, Holds(a)
         PROVE  /\ \A s \in Sources : s \in Range(Tail(lockq)) <=> Queued(s)
                /\ Before(Tail(lockq), "attach", Turn) => Before(lockq, "attach", Turn)
                /\ \A s \in Sources : spc[s] # "put"
    <2>1. lockq # <<>> /\ Head(lockq) = a BY <1>22 DEF Holds
    <2>2. \A s \in Sources : spc[s] # "put" BY <1>2, <1>6, <2>1 DEF Holds
    <2> QED BY <1>2, <1>7, <2>1, <2>2 DEF Queued
  <1>23. ASSUME TakeEvent PROVE Unbroken'
    <2>1. UNCHANGED <<cb, item, watermark, next, spc, projection>> /\ fpc = "get" /\ Alive
      BY <1>23 DEF TakeEvent, sourceVars, Alive
    <2>2. lockq' = lockq \/ lockq' = Append(lockq, "stream")
      BY <1>23 DEF TakeEvent, EndStream, Forward
    <2>3. ~Queued("stream") BY <2>1 DEF Locked
    <2>4. /\ \A s \in Sources : Queued(s)' <=> Queued(s)
          /\ Before(lockq', "attach", Turn) => Before(lockq, "attach", Turn)
      BY <1>21, <2>2, <2>3 DEF Queued
    <2> QED BY <1>17, <2>1, <2>4
  <1>24. ASSUME CloseStream PROVE Unbroken'
    <2>1. /\ UNCHANGED <<cb, item, watermark, next, spc, projection>> /\ ~Alive'
          /\ Holds("stream") /\ lockq' = Tail(lockq)
      BY <1>24 DEF CloseStream, sourceVars, Alive
    <2>2. /\ \A s \in Sources : Queued(s)' <=> Queued(s)
          /\ Before(lockq', "attach", Turn) => Before(lockq, "attach", Turn)
      BY <1>22, <2>1 DEF Queued
    <2> QED BY <1>17, <2>1, <2>2
  <1>25. ASSUME Subscribe PROVE Unbroken'
    <2>1. UNCHANGED <<cb, item, watermark, next, spc, projection, fpc>>
      BY <1>25 DEF Subscribe, sourceVars, forwarderVars
    <2>2. \/ lockq' = lockq
          \/ apc = "open" /\ lockq' = Append(lockq, "attach")
          \/ Holds("attach") /\ lockq' = Tail(lockq)
      <3>1. lockq = <<>> => <<"attach">> = Append(lockq, "attach") /\ Tail(<<"attach">>) = lockq OBVIOUS
      <3> QED BY <1>25, <3>1 DEF Subscribe, Entered
    <2>3. apc = "open" => ~Queued("attach") BY DEF Locked
    <2>4. /\ \A s \in Sources : Queued(s)' <=> Queued(s)
          /\ Before(lockq', "attach", Turn) => Before(lockq, "attach", Turn)
      BY <1>21, <1>22, <2>2, <2>3 DEF Queued
    <2> QED BY <1>17, <2>1, <2>4 DEF Alive
  <1>26. ASSUME Subscribed PROVE Unbroken'
    <2>1. /\ UNCHANGED <<cb, item, watermark, next, spc>> /\ projection' = watermark
          /\ apc = "read" /\ lockq' = Tail(lockq)
      BY <1>26 DEF Subscribed, sourceVars
    <2>2. Holds("attach") BY <2>1 DEF Locked
    <2>3. (\A s \in Sources : Queued(s)' <=> Queued(s)) /\ \A s \in Sources : spc[s] # "put"
      BY <1>22, <2>1, <2>2 DEF Queued
    <2>4. Through' = watermark' BY <2>1, <2>3 DEF Through, Callback
    <2>5. (Asked' <=> Asked) /\ \A n : Publishes(n) => Publishes(n)'
      BY <1>2, <2>1, <2>3 DEF Asked, Publishes
    <2>6. Asked => Before(lockq, "attach", Turn)
      <3>1. lockq # <<>> /\ Head(lockq) = "attach" /\ Turn # "attach" BY <1>2, <2>2 DEF Holds
      <3>2. \A a \in Range(lockq) : a # Head(lockq) => Before(lockq, Head(lockq), a)
        BY <1>6, <3>1, LockTail
      <3> QED BY <3>1, <3>2 DEF Asked, Queued
    <2>7. Through' + 1 .. watermark' = {} BY <1>2, <2>1, <2>4
    <2> QED BY <1>1, <2>1, <2>5, <2>6, <2>7 DEF Unbroken
  <1>27. ASSUME Detach PROVE Unbroken'
    <2>1. /\ UNCHANGED <<cb, item, watermark>> /\ ~Alive'
          /\ next' = [s \in Sources |-> IF s \in Requests THEN "nothing" ELSE next[s]]
      BY <1>27 DEF Detach, Alive
    <2>2. next'[Turn] = next[Turn] BY <1>2, <2>1, SizeAssumption
    <2>3. Queued("attach")' => FALSE
      <3>1. Locked' BY LockedStep
      <3>2. apc' = "idle" BY <1>27 DEF Detach
      <3> QED BY <3>1, <3>2 DEF Locked
    <2>4. ~Before(lockq', "attach", Turn) BY <2>3 DEF Before, Queued, Range
    <2> QED BY <1>1, <2>1, <2>2, <2>4 DEF Unbroken
  <1> QED
    BY <1>11, <1>12, <1>13, <1>15, <1>16, <1>18, <1>19, <1>20, <1>23, <1>24, <1>25, <1>26, <1>27
    DEF Next, Publishing, Forwarding, Attaching, Reading, Detaching, Client, Sources

-----------------------------------------------------------------------------
(* An open callback is on its way. *)

LEMMA AsksFacts ==
    ASSUME NEW S, NEW q \in Seq(S)
    PROVE  /\ \A m \in S : Asks(q) \/ m = Message("callback", Callback) <=> Asks(Append(q, m))
           /\ q # <<>> => Head(q) \in S /\ (Asks(q) => Head(q) = Message("callback", Callback) \/ Asks(Tail(q)))
  <1>1. DOMAIN q = 1 .. Len(q) /\ Len(q) \in Nat OBVIOUS
  <1>2. ASSUME NEW m \in S
        PROVE  Asks(q) \/ m = Message("callback", Callback) <=> Asks(Append(q, m))
    <2>1. PICK r : r = Append(q, m) OBVIOUS
    <2>2. /\ DOMAIN r = 1 .. Len(q) + 1 /\ r[Len(q) + 1] = m
          /\ \A i \in 1 .. Len(q) : r[i] = q[i]
      BY <2>1
    <2>3. 1 .. Len(q) + 1 = 1 .. Len(q) \cup {Len(q) + 1} BY <1>1
    <2>4. Asks(r) <=> Asks(q) \/ m = Message("callback", Callback) BY <1>1, <2>2, <2>3 DEF Asks
    <2> QED BY <2>1, <2>4
  <1>3. ASSUME q # <<>>, Asks(q), Head(q) # Message("callback", Callback) PROVE Asks(Tail(q))
    <2>1. PICK r : r = Tail(q) OBVIOUS
    <2>2. /\ Len(r) = Len(q) - 1 /\ DOMAIN r = 1 .. Len(r) /\ \A i \in 1 .. Len(r) : r[i] = q[i + 1]
          /\ Head(q) = q[1]
      BY <1>3, <2>1
    <2>3. PICK i \in 1 .. Len(q) : q[i] = Message("callback", Callback) BY <1>1, <1>3 DEF Asks
    <2>4. i # 1 BY <1>3, <2>2, <2>3
    <2>5. i - 1 \in 1 .. Len(r) /\ i - 1 + 1 = i BY <1>1, <2>2, <2>3, <2>4
    <2>6. r[i - 1] = Message("callback", Callback) BY <2>2, <2>3, <2>5
    <2> QED BY <2>1, <2>2, <2>5, <2>6 DEF Asks
  <1>4. q # <<>> => Head(q) \in S OBVIOUS
  <1> QED BY <1>2, <1>3, <1>4

(* What the callback that is open and published waits for. *)
Underway ==
    \/ told \/ Asks(incoming) \/ Asks(wire)
    \/ fpc = "send" /\ fitem = Callback
    \/ Callback \in Range(queue)
    \/ spc[Turn] \in {"enter", "lock", "put", "send"} /\ item[Turn] = Callback
    \/ apc \in {"respond", "drain", "redeliver"}
Due == cb = "open" /\ Alive /\ cpc \in {"resume", "pump", "resync"} /\ next[Turn] # "callback"

LEMMA ComingStep ==
    ASSUME Framed, Budget, Numbered, Locked, Connected, Unbroken, Coming, Next
    PROVE  Coming'
  <1>1. /\ spc[Turn] = "idle" => next[Turn] # "callback"
        /\ cb = "none" => next[Turn] # "callback" /\ (spc[Turn] # "idle" => item[Turn] # Callback)
        /\ Due => Underway
    BY DEF Coming, Due, Underway
  <1>2. /\ Turn \in Sources /\ watermark \in Nat /\ projection \in -1 .. watermark
        /\ \A s \in Sources : item[s] \in 0 .. watermark
        /\ spc \in [Sources -> {"idle", "enter", "lock", "put", "send", "stray"}]
        /\ next \in [Sources -> {"nothing", "event", "callback"}]
    BY DEF Framed, Numbered, Sources
  <1>3. ASSUME /\ spc'[Turn] = "idle" => next'[Turn] # "callback"
               /\ cb' = "none" => next'[Turn] # "callback" /\ (spc'[Turn] # "idle" => item'[Turn] # Callback),
               Due' => Underway'
        PROVE  Coming'
    BY <1>3 DEF Coming, Due, Underway
  <1>4. PICK S : S = [kind : Kinds, id : 0 .. watermark] OBVIOUS
  <1>5. wire \in Seq(S) /\ incoming \in Seq(S)
    <2>1. [kind : {"event", "callback"}, id : 0 .. watermark] \subseteq S BY <1>4 DEF Kinds
    <2>2. wire \in Seq(S) BY <1>4 DEF Numbered
    <2>3. incoming \in Seq([kind : {"event", "callback"}, id : 0 .. watermark]) BY DEF Numbered
    <2> QED BY <2>1, <2>2, <2>3, SeqWidens
  <1>6. ASSUME NEW x \in 0 .. watermark, wire' = Append(wire, Notification(x))
        PROVE  (Asks(wire) => Asks(wire')) /\ (x = Callback => Asks(wire'))
    <2>1. Notification(x) \in S /\ (x = Callback => Notification(x) = Message("callback", Callback))
      BY <1>4 DEF Notification, Message, Kinds, Callback
    <2> QED BY <1>5, <1>6, <2>1, AsksFacts
  <1>7. ASSUME NEW kind \in Kinds, NEW x \in 0 .. watermark, Puts(kind, x)
        PROVE  (Asks(wire) => Asks(wire')) /\ (kind = "callback" /\ x = Callback => Asks(wire'))
    <2>1. Message(kind, x) \in S BY <1>4 DEF Message
    <2> QED BY <1>5, <1>7, <2>1, AsksFacts DEF Puts
  <1>8. queue \in Seq(Int) BY Parts
  <1>9. ASSUME NEW x \in Int
        PROVE  Range(Append(queue, x)) = Range(queue) \cup {x}
    <2>1. PICK r : r = Append(queue, x) OBVIOUS
    <2>2. /\ DOMAIN r = 1 .. Len(queue) + 1 /\ r[Len(queue) + 1] = x /\ Len(queue) \in Nat
          /\ DOMAIN queue = 1 .. Len(queue) /\ \A i \in 1 .. Len(queue) : r[i] = queue[i]
      BY <1>8, <2>1
    <2>3. 1 .. Len(queue) + 1 = 1 .. Len(queue) \cup {Len(queue) + 1} BY <2>2
    <2>4. Range(r) = Range(queue) \cup {x} BY <2>2, <2>3 DEF Range
    <2> QED BY <2>1, <2>4
  <1>10. ASSUME NEW s \in Sources, NEW locks, Finish(s, locks)
         PROVE  /\ s # Turn => UNCHANGED <<spc[Turn], item[Turn], next[Turn]>>
                /\ s = Turn /\ next[Turn] = "callback" => spc'[Turn] \in {"enter", "lock"} /\ item'[Turn] = Callback
                /\ spc'[Turn] = "idle" => next'[Turn] # "callback"
                /\ cb = "none" => next'[Turn] # "callback" /\ (spc'[Turn] # "idle" => item'[Turn] # Callback)
    <2>1. /\ s # Turn => UNCHANGED <<spc[Turn], item[Turn], next[Turn]>>
          /\ s = Turn /\ next[Turn] = "callback" => spc'[Turn] \in {"enter", "lock"} /\ item'[Turn] = Callback
      <3>1. Freed(s, locks) \/ (next[s] # "nothing" /\ Joined(s, locks, "nothing")) BY <1>10, FinishFacts
      <3>2. CASE Freed(s, locks) BY <1>2, <3>2 DEF Freed
      <3>3. CASE next[s] # "nothing" /\ Joined(s, locks, "nothing")
        <4>1. spc'[s] \in {"enter", "lock"} /\ \A t \in Sources \ {s} : UNCHANGED <<spc[t], item[t], next[t]>>
          BY <3>3 DEF Joined
        <4>2. next[s] = "callback" => item'[s] = Callback
          <5>1. item' = [item EXCEPT ![s] = IF next[s] = "event" THEN watermark + 1 ELSE Callback]
            BY <1>10, <3>3 DEF Finish
          <5>2. item \in [Sources -> 0 .. watermark] BY DEF Numbered
          <5> QED BY <5>1, <5>2
        <4> QED BY <1>2, <4>1, <4>2
      <3> QED BY <3>1, <3>2, <3>3
    <2>2. CASE s # Turn BY <1>1, <2>1, <2>2
    <2>3. CASE s = Turn
      <3>1. Freed(Turn, locks) \/ (next[Turn] # "nothing" /\ Joined(Turn, locks, "nothing"))
        BY <1>10, <2>3, FinishFacts
      <3>2. next'[Turn] = "nothing" BY <3>1 DEF Freed, Joined
      <3>3. cb = "none" => (spc'[Turn] # "idle" => item'[Turn] # Callback)
        <4>1. CASE Freed(Turn, locks) BY <1>2, <4>1 DEF Freed
        <4>2. CASE next[Turn] # "nothing" /\ Joined(Turn, locks, "nothing")
          <5>1. cb = "none" => item'[Turn] = watermark + 1 BY <1>1, <4>2 DEF Joined
          <5> QED BY <1>2, <5>1 DEF Callback
        <4> QED BY <3>1, <4>1, <4>2
      <3> QED BY <2>1, <2>3, <3>2, <3>3
    <2> QED BY <2>2, <2>3
  <1>11. ASSUME NEW s \in Sources, NEW locks, Finish(s, locks), UNCHANGED <<cb, told, incoming, fpc, fitem, cpc, apc>>,
                Due => /\ Asks(wire) => Asks(wire')
                       /\ Callback \in Range(queue) => Callback \in Range(queue')
                       /\ s = Turn /\ spc[Turn] \in {"enter", "lock", "put", "send"} /\ item[Turn] = Callback =>
                             Underway'
         PROVE  Coming'
    <2>1. ASSUME Due' PROVE Underway'
      <3>1. CASE s = Turn /\ next[Turn] = "callback" BY <1>10, <1>11, <3>1 DEF Underway, Callback
      <3>2. CASE s # Turn \/ next[Turn] # "callback"
        <4>1. Due BY <1>10, <1>11, <2>1, <3>2 DEF Due, Alive
        <4>2. Underway BY <1>1, <4>1
        <4>3. Asks(incoming) => Asks(incoming') BY <1>11
        <4>4. s # Turn => UNCHANGED <<spc[Turn], item[Turn]>> BY <1>10, <1>11
        <4> QED BY <1>11, <4>1, <4>2, <4>3, <4>4 DEF Underway, Callback
      <3> QED BY <3>1, <3>2
    <2> QED BY <1>3, <1>10, <1>11, <2>1
  <1>12. ASSUME NEW s \in Sources, Project(s) PROVE Coming'
    <2>1. PICK then \in {"nothing", "event"} : Begin(s, then) BY <1>12 DEF Project
    <2>2. Joined(s, lockq, then) /\ spc[s] = "idle" /\ item'[s] = watermark + 1 BY <2>1, BeginFacts
    <2>3. UNCHANGED <<cb, told, incoming, wire, queue, fpc, fitem, cpc, apc>>
      BY <1>12, <2>1 DEF Project, Begin, forwarderVars, clientVars, attachVars
    <2>4. CASE s = Turn
      <3>1. next'[Turn] = then /\ spc'[Turn] \in {"enter", "lock"} BY <2>2, <2>4 DEF Joined
      <3>2. item'[Turn] # Callback BY <1>2, <2>2, <2>4 DEF Callback
      <3>3. Due' => Due /\ Underway BY <1>1, <2>2, <2>3, <2>4 DEF Due, Alive
      <3>4. Underway => Underway' BY <2>2, <2>3, <2>4 DEF Underway, Callback
      <3> QED BY <1>3, <3>1, <3>2, <3>3, <3>4
    <2>5. CASE s # Turn
      <3>1. UNCHANGED <<spc[Turn], item[Turn], next[Turn]>> BY <1>2, <2>2, <2>5 DEF Joined
      <3>2. Due' => Due BY <2>3, <3>1 DEF Due, Alive
      <3>3. Underway => Underway' BY <2>3, <3>1 DEF Underway, Callback
      <3> QED BY <1>1, <1>3, <2>3, <3>1, <3>2, <3>3
    <2> QED BY <2>4, <2>5
  <1>13. ASSUME Ask PROVE Coming'
    <2>1. Begin(Turn, "callback") /\ cb' = "open" BY <1>13 DEF Ask
    <2>2. next'[Turn] = "callback" /\ spc'[Turn] # "idle" BY <1>2, <2>1, BeginFacts DEF Joined
    <2> QED BY <1>3, <2>1, <2>2 DEF Due
  <1>14. ASSUME NEW s \in Sources, SendDirect(s) PROVE Coming'
    <2>1. /\ Finish(s, lockq) /\ spc[s] = "send" /\ wire' = Append(wire, Notification(item[s]))
          /\ UNCHANGED <<cb, told, incoming, queue, fpc, fitem, cpc, apc>>
      BY <1>14 DEF SendDirect, forwarderVars, clientVars, attachVars
    <2>2. (Asks(wire) => Asks(wire')) /\ (item[s] = Callback => Asks(wire')) BY <1>2, <1>6, <2>1
    <2> QED BY <1>11, <2>1, <2>2 DEF Underway
  <1>15. ASSUME NEW s \in Sources, SendStray(s) PROVE Coming'
    <2>1. /\ Finish(s, lockq) /\ spc[s] = "stray"
          /\ UNCHANGED <<cb, told, incoming, queue, fpc, fitem, cpc, apc, wire>>
      BY <1>15 DEF SendStray, forwarderVars, clientVars, attachVars
    <2> QED BY <1>11, <2>1
  <1>16. ASSUME NEW s \in Sources, Put(s) PROVE Coming'
    <2>1. /\ Finish(s, Tail(lockq)) /\ queue' = Append(queue, item[s])
          /\ UNCHANGED <<cb, told, incoming, fpc, fitem, cpc, apc, wire>>
      BY <1>16 DEF Put, forwarderVars, clientVars, attachVars
    <2>2. Range(queue') = Range(queue) \cup {item[s]} BY <1>2, <1>9, <2>1
    <2> QED BY <1>11, <2>1, <2>2 DEF Underway, Callback
  <1>17. ASSUME NEW s \in Sources, Publish(s) PROVE Coming'
    <2>1. /\ Holds(s) /\ spc[s] \in {"enter", "lock"}
          /\ UNCHANGED <<cb, told, incoming, fpc, fitem, cpc, apc, wire, routing, conn>>
      BY <1>17 DEF Publish, forwarderVars, clientVars, attachVars
    <2>2. Due => subscribed /\ conn = "up" /\ routing \in {"attaching", "attached"}
      BY DEF Due, Locked, Connected
    <2>3. Due /\ routing = "attaching" => apc \in {"respond", "drain"} BY <2>2 DEF Due, Connected
    <2>4. ASSUME Due, projection # Broken, item[s] > projection + 1 PROVE FALSE
      <3>1. Through = projection
        <4>1. \A t \in Sources : spc[t] # "put" BY <2>1 DEF Holds, Locked
        <4> QED BY <4>1 DEF Through
      <3>2. \A n \in projection + 1 .. watermark : Publishes(n)
        BY <2>4, <3>1 DEF Unbroken, Due, Asked
      <3>3. projection + 1 \in projection + 1 .. watermark /\ projection \in Nat
        BY <1>2, <2>4 DEF Broken
      <3>4. PICK t \in Sources : Queued(t) /\ item[t] = projection + 1 BY <3>2, <3>3 DEF Publishes
      <3>5. Before(lockq, s, t)
        <4>1. lockq \in Seq(Actors) /\ lockq # <<>> /\ Head(lockq) = s /\ IsInjective(lockq)
          BY <2>1 DEF Holds, Framed, Locked
        <4>2. t \in Range(lockq) /\ t # Head(lockq) BY <1>2, <2>4, <3>4, <4>1 DEF Queued
        <4> QED BY <4>1, <4>2, LockTail
      <3>6. InOrder(lockq, item) BY DEF Locked
      <3>7. item[s] > 0 /\ item[t] > 0 BY <1>2, <2>4, <3>3, <3>4
      <3>8. item[s] < item[t] BY <3>5, <3>6, <3>7 DEF InOrder
      <3> QED BY <1>2, <2>4, <3>4, <3>8
    <2>5. CASE Finish(s, Tail(lockq))
      <3>1. Due => (Callback \in Range(queue) => Callback \in Range(queue'))
        <4>1. CASE queue' = queue BY <4>1
        <4>2. CASE queue' = Append(queue, item[s]) BY <1>2, <1>9, <4>2
        <4>3. CASE ~Ignored(s) /\ item[s] > projection + 1 BY <2>4, <4>3 DEF Ignored
        <4> QED BY <1>17, <4>1, <4>2, <4>3 DEF Publish, Enqueue
      <3>2. Due /\ item[s] = Callback => (apc \in {"respond", "drain"} \/ Callback \in Range(queue'))
        <4>1. CASE Ignored(s) /\ Route(s, Tail(lockq))
          <5>1. spc'[s] # "send"
            <6>1. Freed(s, Tail(lockq)) \/ Joined(s, Tail(lockq), "nothing") BY <2>5, FinishFacts
            <6> QED BY <1>2, <6>1 DEF Freed, Joined
          <5>2. routing # "attached" BY <1>2, <4>1, <5>1 DEF Route, Finish
          <5> QED BY <2>2, <2>3, <5>2
        <4>2. CASE queue' = Append(queue, item[s]) BY <1>2, <1>9, <4>2 DEF Callback
        <4>3. CASE ~Ignored(s) /\ item[s] > projection + 1 BY <2>4, <4>3 DEF Ignored
        <4>4. CASE spc' = [spc EXCEPT ![s] = "put"]
          <5>1. Freed(s, Tail(lockq)) \/ Joined(s, Tail(lockq), "nothing") BY <2>5, FinishFacts
          <5> QED BY <1>2, <4>4, <5>1 DEF Freed, Joined
        <4> QED BY <1>17, <4>1, <4>2, <4>3, <4>4 DEF Publish, Enqueue
      <3> QED BY <1>11, <2>1, <2>5, <3>1, <3>2 DEF Underway, Callback
    <2>6. CASE /\ spc' = [spc EXCEPT ![s] = "send"] \/ spc' = [spc EXCEPT ![s] = "put"]
               /\ UNCHANGED <<watermark, item, next>>
      <3>1. spc'[s] \in {"send", "put"} /\ \A t \in Sources \ {s} : spc'[t] = spc[t] BY <1>2, <2>6
      <3>2. Due' => Due BY <2>1, <2>6 DEF Due, Alive
      <3>3. Due => (Callback \in Range(queue) => Callback \in Range(queue'))
        <4>1. CASE queue' = queue BY <4>1
        <4>2. CASE queue' = Append(queue, item[s]) BY <1>2, <1>9, <4>2
        <4>3. CASE ~Ignored(s) /\ item[s] > projection + 1 BY <2>4, <4>3 DEF Ignored
        <4> QED BY <1>17, <4>1, <4>2, <4>3 DEF Publish, Enqueue
      <3>4. Due /\ Underway => Underway'
        BY <1>2, <2>1, <2>6, <3>1, <3>3 DEF Underway, Callback
      <3>5. spc[Turn] = "idle" <=> spc'[Turn] = "idle" BY <1>2, <2>1, <3>1
      <3> QED BY <1>1, <1>3, <2>1, <2>6, <3>2, <3>4, <3>5 DEF Callback
    <2> QED BY <1>17, <2>5, <2>6 DEF Publish, Route, Enqueue
  <1>18. ASSUME Interrupt PROVE Coming'
    <2>1. /\ spc' = [spc EXCEPT ![Turn] = "idle"] /\ next' = [next EXCEPT ![Turn] = "nothing"]
          /\ cb' = IF cb = "open" THEN "closed" ELSE cb
      BY <1>18 DEF Interrupt
    <2>2. spc'[Turn] = "idle" /\ next'[Turn] = "nothing" /\ cb' # "open" BY <1>2, <2>1
    <2> QED BY <1>3, <2>2 DEF Due
  <1>19. ASSUME spc'[Turn] = spc[Turn] \/ {spc[Turn], spc'[Turn]} \subseteq {"send", "stray"},
                item' = item, next'[Turn] = next[Turn], cb' = cb, Due' => Underway'
         PROVE  Coming'
    BY <1>1, <1>3, <1>19 DEF Callback
  <1>20. ASSUME TakeEvent PROVE Coming'
    <2>1. /\ UNCHANGED <<spc, item, next, cb, cpc, told, incoming, wire, apc, routing>>
          /\ fpc = "get" /\ queue # <<>> /\ queue' = Tail(queue)
      BY <1>20 DEF TakeEvent, sourceVars, attachVars, clientVars
    <2>2. ASSUME Due' PROVE Underway'
      <3>1. Due /\ Underway BY <1>1, <2>1, <2>2 DEF Due, Alive
      <3>2. /\ Head(queue) \in Callback .. after + 1
            /\ (Head(queue) \in 1 .. after /\ fpc' = fpc) \/ Forward(Head(queue))
        BY <1>20, <2>2 DEF TakeEvent, Due, Alive, EndStream
      <3>3. CASE Head(queue) = Callback
        <4>1. Forward(Head(queue)) BY <3>2, <3>3 DEF Callback
        <4>2. CASE routing = "attached" BY <3>3, <4>1, <4>2 DEF Forward, Underway, Callback
        <4>3. CASE routing # "attached"
          <5>1. apc \in {"respond", "drain"} BY <3>1, <4>3 DEF Due, Connected
          <5> QED BY <2>1, <5>1 DEF Underway
        <4> QED BY <4>2, <4>3
      <3>4. CASE Head(queue) # Callback
        <4>1. Range(queue) \subseteq Range(Tail(queue)) \cup {Head(queue)}
          <5>1. PICK r : r = Tail(queue) OBVIOUS
          <5>2. /\ Len(r) = Len(queue) - 1 /\ DOMAIN r = 1 .. Len(r) /\ \A i \in 1 .. Len(r) : r[i] = queue[i + 1]
                /\ Head(queue) = queue[1] /\ DOMAIN queue = 1 .. Len(queue) /\ Len(queue) \in Nat
            BY <1>8, <2>1, <5>1
          <5>3. ASSUME NEW i \in 1 .. Len(queue), i # 1 PROVE queue[i] \in Range(r)
            <6>1. i - 1 \in 1 .. Len(r) /\ i - 1 + 1 = i BY <5>2, <5>3
            <6>2. r[i - 1] = queue[i] BY <5>2, <6>1
            <6> QED BY <5>2, <6>1, <6>2 DEF Range
          <5> QED BY <5>1, <5>2, <5>3 DEF Range
        <4>2. Callback \in Range(queue) => Callback \in Range(queue') BY <2>1, <3>4, <4>1
        <4> QED BY <2>1, <3>1, <4>2 DEF Underway, Callback
      <3> QED BY <3>3, <3>4
    <2> QED BY <1>19, <2>1, <2>2
  <1>21. ASSUME ForwardSent PROVE Coming'
    <2>1. /\ UNCHANGED <<spc, item, next, cb, cpc, told, incoming, queue, apc>> /\ fpc = "send"
          /\ wire' = Append(wire, Notification(fitem))
      BY <1>21 DEF ForwardSent, sourceVars, attachVars, clientVars
    <2>2. fitem \in 0 .. watermark BY DEF Numbered
    <2>3. (Asks(wire) => Asks(wire')) /\ (fitem = Callback => Asks(wire')) BY <1>6, <2>1, <2>2
    <2>4. Due' => Due BY <2>1 DEF Due, Alive
    <2> QED BY <1>1, <1>19, <2>1, <2>3, <2>4 DEF Underway, Callback
  <1>22. ASSUME StartForwarder \/ ServeRead \/ SendRead PROVE Coming'
    <2>1. /\ UNCHANGED <<spc, item, next, cb, cpc, told, incoming, queue, apc, fitem>>
          /\ fpc' = fpc \/ (fpc = "new" /\ fpc' = "get")
      BY <1>22 DEF StartForwarder, ServeRead, SendRead, sourceVars, forwarderVars, attachVars, clientVars
    <2>2. Asks(wire) => Asks(wire')
      <3>1. reply # Broken => reply \in 0 .. watermark BY DEF Numbered, Broken
      <3>2. wire' = wire \/ (reply # Broken /\ Puts("read", reply))
        BY <1>22 DEF StartForwarder, ServeRead, SendRead, Puts
      <3> QED BY <1>7, <3>1, <3>2 DEF Kinds
    <2>3. Due' => Due BY <2>1 DEF Due, Alive
    <2> QED BY <1>1, <1>19, <2>1, <2>2, <2>3 DEF Underway, Callback
  <1>23. ASSUME Subscribed \/ Respond \/ Drain PROVE Coming'
    <2>1. UNCHANGED <<spc, item, next, cb>>
      BY <1>23 DEF Subscribed, Respond, Drain, sourceVars
    <2>2. cb = "open" => apc' \in {"respond", "drain", "redeliver"}
      BY <1>23 DEF Subscribed, Respond, Drain, FinishAttachment
    <2> QED BY <1>19, <2>1, <2>2 DEF Due, Underway
  <1>24. ASSUME Redeliver PROVE Coming'
    <2>1. UNCHANGED <<spc, item, next, cb>> /\ Puts("callback", Callback)
      BY <1>24 DEF Redeliver, sourceVars, Puts
    <2>2. Callback \in 0 .. watermark BY <1>2 DEF Callback
    <2>3. Asks(wire') BY <1>7, <2>1, <2>2 DEF Kinds
    <2> QED BY <1>19, <2>1, <2>3 DEF Underway
  <1>25. ASSUME Leave \/ ServeResume \/ Subscribe \/ Refuse \/ CloseStream \/ Detached \/ Connect PROVE Coming'
    <2>1. UNCHANGED <<spc, item, next, cb>>
      BY <1>25 DEF Leave, ServeResume, Subscribe, Refuse, CloseStream, Detached, Connect, sourceVars
    <2>2. ~Due'
      <3>1. Alive => conn = "up" /\ req # "resume" /\ apc \in {"idle", "respond", "drain", "redeliver"}
        BY DEF Connected
      <3> QED BY <1>25, <3>1 DEF Leave, ServeResume, Subscribe, Refuse, CloseStream, Detached, Connect,
            forwarderVars, Due, Alive
    <2> QED BY <1>19, <2>1, <2>2
  <1>26. ASSUME Detach \/ CloseTransport PROVE Coming'
    <2>1. UNCHANGED <<item, cb>> /\ ~Due'
      <3>1. Alive => conn = "up" BY DEF Connected
      <3> QED BY <1>26, <3>1 DEF Detach, CloseTransport, Due, Alive
    <2>2. next'[Turn] = next[Turn]
      BY <1>2, <1>26, SizeAssumption DEF Detach, CloseTransport
    <2>3. spc'[Turn] = spc[Turn] \/ (spc[Turn] = "send" /\ spc'[Turn] = "stray")
      BY <1>2, <1>26, SizeAssumption DEF Detach, CloseTransport
    <2> QED BY <1>19, <2>1, <2>2, <2>3
  <1>27. ASSUME Receive PROVE Coming'
    <2>1. /\ UNCHANGED <<spc, item, next, cb, told, queue, apc, fpc, fitem>>
          /\ wire # <<>> /\ wire' = Tail(wire)
      BY <1>27 DEF Receive, sourceVars, forwarderVars, attachVars
    <2>2. Head(wire) \in S /\ (Asks(wire) => Head(wire) = Message("callback", Callback) \/ Asks(wire'))
      BY <1>5, <2>1, AsksFacts
    <2>3. Due' => Due BY <1>27, <2>1 DEF Receive, Due, Alive
    <2>4. CASE Head(wire).kind \in {"event", "callback"}
      <3>1. incoming' = Append(incoming, Head(wire)) BY <1>27, <2>4 DEF Receive
      <3>2. Asks(incoming) \/ Head(wire) = Message("callback", Callback) => Asks(incoming')
        BY <1>5, <2>2, <3>1, AsksFacts
      <3> QED BY <1>1, <1>19, <2>1, <2>2, <2>3, <3>2 DEF Underway, Callback
    <2>5. CASE Head(wire).kind \notin {"event", "callback"}
      <3>1. incoming' = incoming BY <1>27, <2>5 DEF Receive
      <3>2. Head(wire) # Message("callback", Callback) BY <2>5 DEF Message
      <3> QED BY <1>1, <1>19, <2>1, <2>2, <2>3, <3>1, <3>2 DEF Underway, Callback
    <2> QED BY <2>4, <2>5
  <1>28. ASSUME Consume PROVE Coming'
    <2>1. /\ UNCHANGED <<spc, item, next, cb, wire, queue, apc, fpc, fitem>>
          /\ incoming # <<>> /\ incoming' = Tail(incoming) /\ cpc = "pump"
      BY <1>28 DEF Consume, sourceVars, forwarderVars, attachVars
    <2>2. Asks(incoming) => Head(incoming) = Message("callback", Callback) \/ Asks(incoming')
      BY <1>5, <2>1, AsksFacts
    <2>3. Due' => Due BY <2>1 DEF Due, Alive
    <2>4. told' \/ (told' = told /\ Head(incoming).kind # "callback") BY <1>28 DEF Consume
    <2>5. Head(incoming).kind # "callback" => Head(incoming) # Message("callback", Callback) BY DEF Message
    <2> QED BY <1>1, <1>19, <2>1, <2>2, <2>3, <2>4, <2>5 DEF Underway, Callback
  <1> QED
    BY <1>12, <1>13, <1>14, <1>15, <1>16, <1>17, <1>18, <1>20, <1>21, <1>22, <1>23, <1>24, <1>25, <1>26, <1>27, <1>28
    DEF Next, Publishing, Forwarding, Attaching, Reading, Detaching, Client, Sources

-----------------------------------------------------------------------------
(* The invariant. *)

LEMMA InitInvariant ==
    ASSUME Init
    PROVE  IInv
  <1>1. /\ MaxEvents \in Nat /\ QueueSize \in Nat \ {0} /\ WireSize \in Nat \ {0} /\ IncomingSize \in Nat \ {0}
        /\ IsFiniteSet(Requests) /\ Turn \notin Requests
    BY SizeAssumption
  <1>2. /\ watermark = 0 /\ queue = <<>> /\ wire = <<>> /\ incoming = <<>> /\ lockq = <<>>
        /\ pending = <<>> /\ batch = <<>> /\ Len(<<>>) = 0 /\ DOMAIN <<>> = {} /\ Range(<<>>) = {}
    BY DEF Init, Range
  <1>3. /\ \A S : <<>> \in Seq(S) /\ IsInjective(<<>>)
    BY EmptySeq DEF IsInjective
  <1>4. \A s \in Sources : spc[s] = "idle" /\ item[s] = 0 /\ next[s] = "nothing" BY DEF Init
  <1>5. Framed
    <2>1. /\ spc \in [Sources -> {"idle", "enter", "lock", "put", "send", "stray"}]
          /\ next \in [Sources -> {"nothing", "event", "callback"}]
      BY DEF Init
    <2>2. lockq \in Seq(Actors) BY <1>2, <1>3
    <2>3. Len(queue) <= QueueSize /\ Len(wire) <= WireSize /\ Len(incoming) <= IncomingSize BY <1>1, <1>2
    <2> QED BY <2>1, <2>2, <2>3 DEF Init, Framed
  <1>6. Budget
    <2>1. {u \in Sources : next[u] = "event"} = {} BY <1>4
    <2> QED BY <1>1, <1>2, <2>1, FS_EmptySet DEF Budget
  <1>7. Numbered
    <2>1. item \in [Sources -> 0 .. 0] BY DEF Init
    <2> QED BY <1>2, <1>3, <2>1 DEF Init, Numbered, Broken
  <1>8. Locked
    <2>1. \A a : ~Queued(a) BY <1>2 DEF Queued
    <2>2. InOrder(lockq, item) BY <1>2 DEF InOrder, Before
    <2> QED BY <1>2, <1>3, <1>4, <2>1, <2>2 DEF Init, Locked, InLine, Alive
  <1>9. Connected BY <1>2 DEF Init, Connected, Attachment, Sent, Of
  <1>10. Awaited
    <2>1. \A kinds : Sent(kinds) = {} BY <1>2 DEF Sent, Of
    <2> QED BY <2>1 DEF Init, Awaited
  <1>11. Stream
    <2>1. Held BY DEF Init, Held
    <2>2. Base = 0 /\ Through = 0 /\ after = 0 BY <1>4 DEF Init, Base, Through
    <2>3. Ids(incoming) = <<>> /\ Ids(wire) = <<>> /\ InLock = <<>> BY <1>2 DEF Ids, InLock
    <2>4. InHand = <<>>
      <3>1. <<>> \o <<>> = <<>> OBVIOUS
      <3> QED BY <3>1 DEF Init, InHand
    <2>5. Carries(<<>>, 0, 0, 0) BY CarriesNothing
    <2>6. Chain
      <3>1. 0 \in 0 .. watermark BY <1>2
      <3> QED BY <1>2, <1>4, <2>2, <2>3, <2>4, <2>5, <3>1 DEF Init, Chain, Broken
    <2> QED BY <2>1, <2>6 DEF Init, Stream
  <1>12. Unbroken /\ Coming BY <1>4 DEF Init, Unbroken, Coming, Sources
  <1> QED BY <1>5, <1>6, <1>7, <1>8, <1>9, <1>10, <1>11, <1>12 DEF IInv

LEMMA NextInvariant ==
    ASSUME IInv, [Next]_vars
    PROVE  IInv'
  <1>1. CASE Next
    <2>1. Framed' /\ Budget' /\ Numbered' BY <1>1, TypedStep DEF IInv
    <2>2. Locked' BY <1>1, LockedStep DEF IInv
    <2>3. Connected' BY <1>1, ConnectedStep DEF IInv
    <2>4. Awaited' BY <1>1, AwaitedStep DEF IInv
    <2>5. Stream' BY <1>1, StreamStep DEF IInv
    <2>6. Unbroken' BY <1>1, UnbrokenStep DEF IInv
    <2>7. Coming' BY <1>1, ComingStep DEF IInv
    <2> QED BY <2>1, <2>2, <2>3, <2>4, <2>5, <2>6, <2>7 DEF IInv
  <1>2. CASE UNCHANGED vars
    <2>1. /\ UNCHANGED <<watermark, spc, item, next, lockq, subscribed, projection, queue>>
          /\ UNCHANGED <<fpc, fitem, after, failed, conn, routing, pending, apc, snapshot, batch, reply, wire>>
          /\ UNCHANGED <<incoming, cpc, req, view, told, cb, lost>>
      BY <1>2 DEF vars, sourceVars, forwarderVars, attachVars, clientVars
    <2>2. Framed' /\ Budget' /\ Numbered' BY <2>1 DEF IInv, Framed, Budget, Numbered
    <2>3. Locked' BY <2>1 DEF IInv, Locked, Queued, Holds, Alive, Callback
    <2>4. Connected' BY <2>1 DEF IInv, Connected, Sent, Of, Alive
    <2>5. Awaited' BY <2>1 DEF IInv, Awaited, Sent, Of
    <2>6. Stream'
      <3>1. Held' BY <2>1 DEF IInv, Stream, Held, Alive
      <3>2. Steady' = Steady /\ (Alive' <=> Alive) BY <2>1 DEF Steady, Served, Alive
      <3>3. /\ Ids(incoming)' = Ids(incoming) /\ Ids(wire)' = Ids(wire) /\ InHand' = InHand
            /\ InLock' = InLock /\ Base' = Base /\ Through' = Through
        BY <2>1 DEF Ids, IdOf, InHand, InLock, Base, Through, Callback, Broken
      <3>4. Chain => Chain' BY <2>1, <3>3 DEF Chain, Broken, Carries
      <3> QED BY <2>1, <3>1, <3>2, <3>4 DEF IInv, Stream
    <2>7. Unbroken'
      <3>1. (Asked' <=> Asked) /\ (Alive' <=> Alive) /\ Through' = Through /\ \A n : Publishes(n)' <=> Publishes(n)
        BY <2>1 DEF Asked, Queued, Alive, Through, Publishes, Callback
      <3> QED BY <2>1, <3>1 DEF IInv, Unbroken, Broken
    <2>8. Coming' BY <2>1 DEF IInv, Coming, Alive, Asks, Message, Callback
    <2> QED BY <2>2, <2>3, <2>4, <2>5, <2>6, <2>7, <2>8 DEF IInv
  <1> QED BY <1>1, <1>2

LEMMA IInvHolds == Spec => []IInv
  <1> QED BY InitInvariant, NextInvariant, PTL DEF Spec

-----------------------------------------------------------------------------
(* What it says. *)

LEMMA InvariantTypes ==
    ASSUME IInv
    PROVE  TypeOK
  <1>1. Framed /\ Budget /\ Numbered BY DEF IInv
  <1>2. watermark \in Nat /\ watermark <= MaxEvents /\ MaxEvents \in Nat
    BY <1>1, Parts, SizeAssumption DEF Framed
  <1>3. /\ 0 .. watermark \subseteq 0 .. MaxEvents /\ -1 .. watermark \subseteq -1 .. MaxEvents
        /\ 1 .. watermark \subseteq 1 .. MaxEvents
    BY <1>2
  <1>4. item \in [Sources -> 0 .. MaxEvents] BY <1>1, <1>3 DEF Numbered
  <1>5. lockq \in Seq(Sources \cup {"attach", "stream"}) BY <1>1 DEF Framed, Actors
  <1>6. queue \in Seq(-1 .. MaxEvents) BY <1>1, <1>3, SeqWidens DEF Numbered
  <1>7. pending \in Seq(1 .. MaxEvents) /\ batch \in Seq(1 .. MaxEvents) BY <1>1, <1>3, SeqWidens DEF Numbered
  <1>8. wire \in Seq([kind : {"event", "callback", "resumed", "read", "conflict"}, id : 0 .. MaxEvents])
    <2>1. [kind : Kinds, id : 0 .. watermark] \subseteq
             [kind : {"event", "callback", "resumed", "read", "conflict"}, id : 0 .. MaxEvents]
      BY <1>3 DEF Kinds
    <2> QED BY <1>1, <2>1, SeqWidens DEF Numbered
  <1>9. incoming \in Seq([kind : {"event", "callback"}, id : 0 .. MaxEvents])
    <2>1. [kind : {"event", "callback"}, id : 0 .. watermark] \subseteq
             [kind : {"event", "callback"}, id : 0 .. MaxEvents]
      BY <1>3
    <2> QED BY <1>1, <2>1, SeqWidens DEF Numbered
  <1> QED BY <1>1, <1>2, <1>3, <1>4, <1>5, <1>6, <1>7, <1>8, <1>9, SMTT(30) DEF Framed, Numbered, TypeOK

(* The types and the limits of every queue, and no more events than there are,
   whatever tasks publish and however the client comes and goes.             *)
THEOREM TypeCorrect == Spec => []TypeOK
  <1> QED BY IInvHolds, InvariantTypes, PTL

LEMMA InvariantDelivers ==
    ASSUME IInv
    PROVE  NothingLost
  <1>1. SUFFICES ASSUME Served, lost = {}
                 PROVE  LET new == {i \in DOMAIN Pipeline : Pipeline[i] > Base} IN
                        /\ {Pipeline[i] : i \in new} = Base + 1 .. watermark
                        /\ \A i, j \in new : i < j => Pipeline[i] < Pipeline[j]
    BY DEF NothingLost
  <1>2. Framed /\ Budget /\ Numbered /\ Chain BY <1>1 DEF IInv, Stream, Steady
  <1>3. PICK w \in Nat, f \in Nat, a \in Int, t \in Int : w = watermark /\ f = Base /\ a = after /\ t = Through
    <2>1. watermark \in Nat /\ Base \in 0 .. watermark /\ after \in 0 .. watermark /\ Through \in Int
      BY <1>2, Parts DEF Framed, Numbered
    <2> QED BY <2>1
  <1>4. PICK p1 \in Seq(Int), p2 \in Seq(Int), p3 \in Seq(Int), p4 \in Seq(Int), p5 \in Seq(Int) :
           p1 = Ids(incoming) /\ p2 = Ids(wire) /\ p3 = InHand /\ p4 = queue /\ p5 = InLock
    BY <1>2, Parts
  <1>5. PICK b, c \in 0 .. w :
           /\ Carries(p1, f, f, b) /\ Carries(p2, f, b, c) /\ Carries(p3, f, c, a)
           /\ Carries(p4, f, a, t) /\ Carries(p5, f, t, w)
    BY <1>2, <1>3, <1>4 DEF Chain
  <1>6. b \in Int /\ c \in Int OBVIOUS
  <1>7. ASSUME NEW p \in Seq(Int), NEW q \in Seq(Int), NEW x \in Int, NEW y \in Int,
               Carries(p, f, f, x), Carries(q, f, x, y)
        PROVE  p \o q \in Seq(Int) /\ Carries(p \o q, f, f, y)
    <2>1. Carries(p \o q, f, f, y)
      <3>1. f \in Int /\ f <= f OBVIOUS
      <3> QED BY <1>7, <3>1, CarriesOn
    <2> QED BY <2>1
  <1>8. p1 \o p2 \in Seq(Int) /\ Carries(p1 \o p2, f, f, c) BY <1>5, <1>6, <1>7
  <1>9. p1 \o p2 \o p3 \in Seq(Int) /\ Carries(p1 \o p2 \o p3, f, f, a) BY <1>5, <1>6, <1>7, <1>8
  <1>10. p1 \o p2 \o p3 \o p4 \in Seq(Int) /\ Carries(p1 \o p2 \o p3 \o p4, f, f, t)
    BY <1>5, <1>7, <1>9
  <1>11. w \in Int OBVIOUS
  <1>12. Carries(p1 \o p2 \o p3 \o p4 \o p5, f, f, w) BY <1>5, <1>7, <1>10, <1>11
  <1>13. p1 \o p2 \o p3 \o p4 \o p5 \in Seq(Int) BY <1>10
  <1>14. PICK q \in Seq(Int) : q = Pipeline /\ Carries(q, f, f, w) BY <1>4, <1>12, <1>13 DEF Pipeline
  <1>15. /\ \A i \in DOMAIN q : q[i] \in Int /\ (q[i] <= f \/ q[i] \in f + 1 .. w)
         /\ \A n \in f + 1 .. w : \E i \in DOMAIN q : q[i] = n
         /\ \A i, j \in DOMAIN q : i < j /\ q[i] > f /\ q[j] > f => q[i] < q[j]
    BY <1>14 DEF Carries
  <1>16. {q[i] : i \in {k \in DOMAIN q : q[k] > f}} = f + 1 .. w BY <1>15, SMTT(30)
  <1> QED BY <1>3, <1>14, <1>15, <1>16, SMTT(30)

(* As long as nothing numbered was dropped, the events between the client's projection
   and the session's watermark are on their way, once each and in order, through the
   lock, the queue, the forwarder, what an attachment holds back, the transport and the
   client's own queue.                                                       *)
THEOREM EventsAreNotLost == Spec => []NothingLost
  <1> QED BY IInvHolds, InvariantDelivers, PTL

LEMMA InvariantAsks ==
    ASSUME IInv
    PROVE  OpenCallbackIsOnItsWay
  <1>1. SUFFICES ASSUME Served, cb = "open", next[Turn] # "callback"
                 PROVE  \/ told
                        \/ Callback \in {Pipeline[i] : i \in DOMAIN Pipeline}
                        \/ apc \in {"respond", "drain", "redeliver"}
                        \/ spc[Turn] = "send" /\ item[Turn] = Callback
    BY DEF OpenCallbackIsOnItsWay
  <1>2. Framed /\ Budget /\ Numbered /\ Locked BY DEF IInv
  <1>3. Underway BY <1>1 DEF IInv, Coming, Served, Alive, Underway
  <1>4. PICK p1 \in Seq(Int), p2 \in Seq(Int), p3 \in Seq(Int), p4 \in Seq(Int), p5 \in Seq(Int) :
           p1 = Ids(incoming) /\ p2 = Ids(wire) /\ p3 = InHand /\ p4 = queue /\ p5 = InLock
    BY <1>2, Parts
  <1>5. PICK r12 \in Seq(Int) : r12 = p1 \o p2 /\ Range(r12) = Range(p1) \cup Range(p2) BY RowFacts
  <1>6. PICK r13 \in Seq(Int) : r13 = r12 \o p3 /\ Range(r13) = Range(r12) \cup Range(p3) BY RowFacts
  <1>7. PICK r14 \in Seq(Int) : r14 = r13 \o p4 /\ Range(r14) = Range(r13) \cup Range(p4) BY RowFacts
  <1>8. PICK r15 \in Seq(Int) : r15 = r14 \o p5 /\ Range(r15) = Range(r14) \cup Range(p5) BY RowFacts
  <1>9. Range(r15) = {Pipeline[i] : i \in DOMAIN Pipeline} BY <1>4, <1>5, <1>6, <1>7, <1>8 DEF Pipeline, Range
  <1>10. Range(p1) \cup Range(p2) \cup Range(p3) \cup Range(p4) \cup Range(p5) =
            {Pipeline[i] : i \in DOMAIN Pipeline}
    BY <1>5, <1>6, <1>7, <1>8, <1>9
  <1>11. ASSUME NEW q \in Seq(Messages), Asks(q) PROVE Callback \in Range(Ids(q))
    <2>1. PICK i \in DOMAIN q : q[i] = Message("callback", Callback) BY <1>11 DEF Asks
    <2>2. i \in DOMAIN Ids(q) /\ Ids(q)[i] = Callback BY <2>1 DEF Ids, IdOf, Message
    <2> QED BY <2>2 DEF Range
  <1>12. incoming \in Seq(Messages) /\ wire \in Seq(Messages) BY <1>2, Parts
  <1>13. Asks(incoming) => Callback \in Range(p1) BY <1>4, <1>11, <1>12
  <1>14. Asks(wire) => Callback \in Range(p2) BY <1>4, <1>11, <1>12
  <1>15. fpc = "send" /\ fitem = Callback => Callback \in Range(p3)
    <2>1. SUFFICES ASSUME fpc = "send", fitem = Callback PROVE Callback \in Range(p3) OBVIOUS
    <2>2. batch \in Seq(Int) /\ pending \in Seq(Int) BY <1>2, Parts
    <2>3. PICK x \in Seq(Int) : x = <<fitem>> /\ Callback \in Range(x)
      <3>1. <<fitem>> \in Seq(Int) /\ 1 \in DOMAIN <<fitem>> /\ <<fitem>>[1] = fitem BY <1>2 DEF Numbered
      <3> QED BY <2>1, <3>1 DEF Range
    <2>4. p3 = x \o batch \o pending BY <1>4, <2>1, <2>3 DEF InHand
    <2>5. PICK y \in Seq(Int) : y = x \o batch /\ Range(y) = Range(x) \cup Range(batch) BY <2>2, RowFacts
    <2>6. Range(y \o pending) = Range(y) \cup Range(pending) BY <2>2, RowFacts
    <2> QED BY <2>3, <2>4, <2>5, <2>6
  <1>16. spc[Turn] \in {"enter", "lock", "put"} /\ item[Turn] = Callback => Callback \in Range(p5)
    <2>1. SUFFICES ASSUME spc[Turn] \in {"enter", "lock", "put"}, item[Turn] = Callback
                   PROVE  Callback \in Range(InLock)
      BY <1>4
    <2>2. Turn \in Sources BY DEF Sources
    <2>3. Queued(Turn) BY <1>2, <2>1, <2>2 DEF Locked, InLine
    <2>4. PICK i \in DOMAIN lockq : lockq[i] = Turn BY <2>3 DEF Queued, Range
    <2>5. i \in DOMAIN InLock /\ InLock[i] = Callback BY <2>1, <2>2, <2>4 DEF InLock
    <2> QED BY <2>5 DEF Range
  <1> QED BY <1>3, <1>4, <1>10, <1>13, <1>14, <1>15, <1>16 DEF Underway

(* While a client is served, a callback that is open and published is known to it, on
   its way to it, or delivered again by the attachment under way.            *)
THEOREM OpenCallbacksArrive == Spec => []OpenCallbackIsOnItsWay
  <1> QED BY IInvHolds, InvariantAsks, PTL

LEMMA ViewRises ==
    ASSUME IInv, [Next]_vars
    PROVE  view' >= view
  <1>1. Framed /\ Budget /\ Numbered /\ Awaited BY DEF IInv
  <1>2. view \in Nat BY <1>1 DEF Framed, Numbered
  <1>3. ASSUME Receive PROVE view' >= view
    <2>1. wire # <<>> /\ Head(wire) = wire[1] /\ 1 \in DOMAIN wire
      <3>1. wire # <<>> BY <1>3 DEF Receive
      <3>2. wire \in Seq(Messages) BY <1>1, Parts
      <3> QED BY <3>1, <3>2
    <2>2. CASE view' = view BY <1>2, <2>2
    <2>3. CASE Head(wire).kind = "resumed" /\ view' = Head(wire).id
      <3>1. 1 \in Sent({"resumed"}) BY <2>1, <2>3 DEF Sent, Of
      <3>2. view <= wire[1].id BY <1>1, <3>1 DEF Awaited
      <3>3. wire[1].id \in Int BY <1>1, <3>1 DEF Awaited, Numbered
      <3> QED BY <1>2, <2>1, <2>3, <3>2, <3>3
    <2>4. CASE Head(wire).kind = "read" /\ view' = Head(wire).id
      <3>1. 1 \in Sent({"read"}) BY <2>1, <2>4 DEF Sent, Of
      <3>2. view <= wire[1].id BY <1>1, <3>1 DEF Awaited
      <3>3. wire[1].id \in Int
        <4>1. wire \in Seq(Messages) BY <1>1, Parts
        <4>2. wire[1] \in Messages BY <2>1, <4>1
        <4>3. MaxEvents \in Nat BY SizeAssumption
        <4> QED BY <4>2, <4>3 DEF Messages
      <3> QED BY <1>2, <2>1, <2>4, <3>2, <3>3
    <2> QED BY <1>3, <2>2, <2>3, <2>4 DEF Receive
  <1>4. ASSUME Consume PROVE view' >= view
    <2>1. view' = view \/ \E x : view' = Advanced(x) BY <1>4 DEF Consume
    <2> QED BY <1>2, <2>1 DEF Advanced
  <1>5. CASE UNCHANGED vars BY <1>2, <1>5 DEF vars, clientVars
  <1>6. CASE Next /\ ~Receive /\ ~Consume
    <2>1. view' = view
      BY <1>6 DEF Next, Publishing, Forwarding, Attaching, Reading, Detaching, Client, Project, Ask, Begin,
         SendStray, Interrupt, Leave, Publish, Put, SendDirect, StartForwarder, TakeEvent, ForwardSent,
         CloseStream, ServeResume, Subscribe, Subscribed, Refuse, Respond, Drain, Redeliver, ServeRead,
         SendRead, Detach, Detached, CloseTransport, Connect, clientVars
    <2> QED BY <1>2, <2>1
  <1> QED BY <1>3, <1>4, <1>5, <1>6

(* No snapshot, late event or new connection takes the client's projection back. *)
THEOREM ViewGoesForward == Spec => ViewNeverGoesBack
  <1>1. IInv /\ [Next]_vars => [view' >= view]_vars BY ViewRises
  <1> QED BY <1>1, IInvHolds, PTL DEF Spec, ViewNeverGoesBack
=============================================================================
