-------------------------- MODULE SessionLogProofs --------------------------
(* Proofs about SessionLog, for any sessions, savers, messages and faults: the log
   of a session is the conversation written to it last, or holds it when a write
   failed, the metadata the next save relies on says what the log holds, and what was
   taken out does not come back.                                             *)
EXTENDS SessionLog, SequenceFacts, SequenceTheorems

(* The types, with no message that is not made yet. *)
Made == 1 .. made
Counts == [total : Nat, fp : 0 .. made]
Jobs == [pc : {"idle", "wait", "read", "log", "replace", "done"}, kind : {"save", "patch"},
         dir : Sessions \cup {None}, snap : Seq(Made), old : Counts \cup {None}, orphan : BOOLEAN]
Typed ==
    /\ up \in BOOLEAN /\ cur \in Sessions /\ patches \in 0 .. MaxPatches
    /\ made \in 0 .. MaxMessages /\ moved \in BOOLEAN /\ faults \in Seq(Faults)
    /\ conv \in Seq(Made) /\ task \in [Savers -> Jobs] /\ lockq \in Seq(Savers)
    /\ log \in [Sessions -> Seq(0 .. made)] /\ meta \in [Sessions -> Counts \cup {None}]
    /\ wrote \in [Sessions -> Seq(Made)] /\ acked \in [Sessions -> Seq(Made)]
    /\ removed \in [Sessions -> SUBSET Made]

(* What a task works with.  A save that was not cancelled has the conversation as it is. *)
Saves(s) == task[s].kind = "save" /\ task[s].pc # "idle" /\ ~task[s].orphan
Works(s) ==
    /\ task[s].pc # "idle" => task[s].dir \in Sessions
    /\ task[s].pc \in {"log", "replace"} => task[s].old # None
    /\ task[s].pc = "log" => task[s].kind = "save"
    /\ Saves(s) => task[s].dir = cur /\ task[s].snap = conv
Working ==
    /\ \A s \in Savers : Works(s)
    /\ ~up => conv = <<>> /\ \A s \in Savers : task[s] = NoTask

(* Unless a save was cancelled, who works on the files is alone: what it has read is
   what is there.                                                            *)
Calm == "cancel" \notin Range(faults)
Known(d) == IF meta[d] = None THEN NoMetadata ELSE meta[d]
Active(s) == task[s].pc \in {"read", "log", "replace", "done"}
Locks(s) ==
    /\ ~task[s].orphan
    /\ s \in Range(lockq) <=> task[s].pc # "idle"
    /\ Active(s) => lockq # <<>> /\ Head(lockq) = s
    /\ task[s].pc = "log" => task[s].old = Known(task[s].dir)
    /\ task[s].kind = "patch" /\ task[s].pc # "idle" => meta[task[s].dir] # None
    /\ task[s].kind = "patch" /\ task[s].pc = "replace" => task[s].old = meta[task[s].dir]
Locked == Calm => IsInjective(lockq) /\ \A s \in Savers : Locks(s)

(* A message both have is no later in the first, and when it is in the same place, what
   comes before it is the same too: it was only ever edited at its end.        *)
Elder(x, y) ==
    \A i \in DOMAIN x, j \in DOMAIN y : x[i] = y[j] => i <= j /\ (i = j => \A k \in 1 .. i : x[k] = y[k])

(* As long as nothing failed. *)
Written(s) == task[s].pc = "replace" /\ task[s].kind = "save"
Matches(d) ==
    IF meta[d] = None THEN log[d] = <<>>
    ELSE meta[d].total = Len(log[d]) /\ (log[d] # <<>> => meta[d].fp = Last(log[d]))
Counted ==
    faults = <<>> =>
        /\ log = wrote /\ IsInjective(conv) /\ \A d \in Sessions : IsInjective(log[d])
        /\ Elder(log[cur], conv)
        /\ \A s \in Savers : Written(s) => log[task[s].dir] = task[s].snap
        /\ \A d \in Sessions : (\A s \in Savers : ~(Written(s) /\ task[s].dir = d)) => Matches(d)

(* Whatever failed: what the log of a session holds, and how much of the conversation
   it holds when the boundary is where the metadata says.                     *)
Whole(d) == Torn \notin Range(log[d])
Bounded ==
    /\ meta[cur] # None /\ meta[cur].total \in 1 .. Len(conv)
    /\ conv[meta[cur].total] = meta[cur].fp
Holding ==
    Plain =>
        /\ \A d \in Sessions : Whole(d) => Thinned(wrote[d], log[d])
        /\ Whole(cur) /\ Bounded => Thinned(SubSeq(conv, 1, meta[cur].total), log[cur])
        /\ \A s \in Savers : Written(s) /\ Whole(cur) => Thinned(conv, log[cur])

(* What comes back.  A message taken out by a save may come back only through the log, and
   the log has of what was ever saved only what the metadata stands for: the conversation
   x of the last save that replaced it.  Where a sequence as long as x has the last
   message of x, that is not because half of it is missing.                   *)
Begin(q, i) == {q[k] : k \in 1 .. i}
Ends(x, q) ==
    x # <<>> => \A j \in DOMAIN q : j >= Len(x) /\ q[j] = x[Len(x)] => Range(x) \subseteq Begin(q, j)
Traced(q, l) ==
    /\ \A i \in DOMAIN q, j \in DOMAIN l : j >= i /\ q[i] = l[j] => Begin(q, i) \subseteq Begin(l, j)
    /\ \A i, j \in DOMAIN q : i < j /\ q[i] = q[j] => Begin(q, j) \subseteq Range(l)
Taken(d) == removed[d] \cup Range(acked[d])
Finished(s) == task[s].pc = "done" /\ task[s].kind = "save"
Fits(d, x) ==
    IF meta[d] = None THEN x = <<>> /\ Taken(d) = {}
    ELSE Len(x) = meta[d].total /\ (x # <<>> => meta[d].fp = x[Len(x)])
Current(x) ==
    /\ Ends(x, conv) /\ Range(conv) \cap Taken(cur) \subseteq Range(x)
    /\ \A s \in Savers : Finished(s) => meta[cur] # None /\ x = conv
Recorded(d, x) ==
    /\ Fits(d, x)
    /\ Range(log[d]) \cap Taken(d) \subseteq Range(x) /\ removed[d] \cap Range(x) = {}
    /\ Whole(d) => Ends(x, log[d])
    /\ d = cur => Current(x)
Gone ==
    /\ repeated \in BOOLEAN
    /\ Plain /\ ~repeated =>
          /\ \A d \in Sessions : \E x \in Seq(Made) : Recorded(d, x)
          /\ Whole(cur) => Traced(conv, log[cur])
          /\ \A s \in Savers : Written(s) => Range(log[cur]) \cap Taken(cur) \subseteq Range(conv)

IInv == Typed /\ Working /\ Locked /\ Counted /\ Holding /\ Gone

-----------------------------------------------------------------------------
(* Facts about the sequences. *)

LEMMA SeqWidens ==
    ASSUME NEW S, NEW T, S \subseteq T, NEW q \in Seq(S)
    PROVE  q \in Seq(T)
  OBVIOUS

(* A sequence is its elements. *)
LEMMA SameElements ==
    ASSUME NEW S, NEW T, NEW x \in Seq(S), NEW y \in Seq(T), Len(x) = Len(y),
           \A i \in 1 .. Len(x) : x[i] = y[i]
    PROVE  x = y
  OBVIOUS

(* What a prefix is. *)
LEMMA PrefixFacts ==
    ASSUME NEW S, NEW q \in Seq(S), NEW k \in 0 .. Len(q)
    PROVE  /\ SubSeq(q, 1, k) \in Seq(S) /\ Len(SubSeq(q, 1, k)) = k
           /\ \A i \in 1 .. k : SubSeq(q, 1, k)[i] = q[i]
           /\ IsInjective(q) => IsInjective(SubSeq(q, 1, k))
  <1>1. \A i \in 1 .. k : q[i] \in S OBVIOUS
  <1>2. PICK p : p = SubSeq(q, 1, k) OBVIOUS
  <1>3. p \in Seq(S) /\ Len(p) = k /\ \A i \in 1 .. k : p[i] = q[i]
    BY <1>1, <1>2, SubSeqProperties
  <1>4. DOMAIN p = 1 .. k /\ DOMAIN q = 1 .. Len(q) BY <1>3
  <1>5. IsInjective(q) => IsInjective(p) BY <1>3, <1>4 DEF IsInjective
  <1> QED BY <1>2, <1>3, <1>5

(* What follows a prefix. *)
LEMMA RestFacts ==
    ASSUME NEW S, NEW q \in Seq(S), NEW k \in 0 .. Len(q)
    PROVE  /\ SubSeq(q, k + 1, Len(q)) \in Seq(S) /\ Len(SubSeq(q, k + 1, Len(q))) = Len(q) - k
           /\ \A i \in 1 .. Len(q) - k : SubSeq(q, k + 1, Len(q))[i] = q[k + i]
  <1>1. \A i \in k + 1 .. Len(q) : q[i] \in S OBVIOUS
  <1>2. PICK p : p = SubSeq(q, k + 1, Len(q)) OBVIOUS
  <1>3. p \in Seq(S) /\ Len(p) = (IF k + 1 <= Len(q) THEN Len(q) - (k + 1) + 1 ELSE 0)
        /\ \A i \in 1 .. Len(q) - (k + 1) + 1 : p[i] = q[k + 1 + i - 1]
    BY <1>1, <1>2, SubSeqProperties
  <1>4. Len(p) = Len(q) - k BY <1>3
  <1>5. \A i \in 1 .. Len(q) - k : p[i] = q[k + i] BY <1>3
  <1> QED BY <1>2, <1>3, <1>4, <1>5

(* A sequence that another begins like is completed by what the other goes on with. *)
LEMMA Completes ==
    ASSUME NEW S, NEW T, NEW x \in Seq(T), NEW q \in Seq(S), S \subseteq T, Len(x) <= Len(q),
           \A i \in 1 .. Len(x) : x[i] = q[i]
    PROVE  x \o SubSeq(q, Len(x) + 1, Len(q)) = q
  <1>1. Len(x) \in 0 .. Len(q) OBVIOUS
  <1>2. PICK r : r = SubSeq(q, Len(x) + 1, Len(q)) OBVIOUS
  <1>3. r \in Seq(S) /\ Len(r) = Len(q) - Len(x) /\ \A i \in 1 .. Len(q) - Len(x) : r[i] = q[Len(x) + i]
    BY <1>1, <1>2, RestFacts
  <1>4. r \in Seq(T) BY <1>3, SeqWidens
  <1>5. PICK y : y = x \o r OBVIOUS
  <1>6. /\ y \in Seq(T) /\ Len(y) = Len(x) + Len(r)
        /\ \A i \in 1 .. Len(x) : y[i] = x[i]
        /\ \A i \in 1 .. Len(r) : y[Len(x) + i] = r[i]
    BY <1>4, <1>5, RowFacts
  <1>7. Len(y) = Len(q) BY <1>3, <1>6
  <1>8. ASSUME NEW i \in 1 .. Len(y) PROVE y[i] = q[i]
    <2>1. CASE i <= Len(x) BY <1>6, <2>1
    <2>2. CASE i > Len(x)
      <3>1. PICK j : j = i - Len(x) OBVIOUS
      <3>2. j \in 1 .. Len(r) /\ i = Len(x) + j BY <1>3, <1>6, <2>2, <3>1
      <3> QED BY <1>3, <1>6, <3>2
    <2> QED BY <2>1, <2>2
  <1>9. y = q BY <1>6, <1>7, <1>8, SameElements
  <1> QED BY <1>2, <1>5, <1>9

(* q with a message in place of its last one; with one before its last one. *)
Replaced(q, m, z) ==
    Len(z) = Len(q) /\ (\A i \in 1 .. Len(q) - 1 : z[i] = q[i]) /\ z[Len(q)] = m
Inserted(q, m, z) ==
    /\ Len(z) = Len(q) + 1 /\ \A i \in 1 .. Len(q) - 1 : z[i] = q[i]
    /\ z[Len(q)] = m /\ z[Len(q) + 1] = q[Len(q)]

LEMMA EndFacts ==
    ASSUME NEW S, NEW q \in Seq(S), q # <<>>, NEW m \in S
    PROVE  /\ Len(q) >= 1 /\ Last(q) = q[Len(q)] /\ Last(q) \in S
           /\ Append(Front(q), m) \in Seq(S) /\ Replaced(q, m, Append(Front(q), m))
           /\ Front(q) \o <<m, Last(q)>> \in Seq(S) /\ Inserted(q, m, Front(q) \o <<m, Last(q)>>)
  <1>1. PICK n : n = Len(q) OBVIOUS
  <1>2. n \in Nat /\ n >= 1 /\ n - 1 \in 0 .. n BY <1>1
  <1>3. Last(q) = q[n] /\ q[n] \in S BY <1>1, <1>2 DEF Last
  <1>4. PICK f : f = Front(q) OBVIOUS
  <1>5. f = SubSeq(q, 1, n - 1) BY <1>1, <1>4 DEF Front
  <1>6. f \in Seq(S) /\ Len(f) = n - 1 /\ \A i \in 1 .. n - 1 : f[i] = q[i]
    BY <1>1, <1>2, <1>5, PrefixFacts
  <1>7. PICK x : x = Append(f, m) OBVIOUS
  <1>8. x \in Seq(S) /\ Len(x) = n /\ (\A i \in 1 .. n - 1 : x[i] = q[i]) /\ x[n] = m
    <2>1. x \in Seq(S) /\ Len(x) = Len(f) + 1 /\ (\A i \in 1 .. Len(f) : x[i] = f[i]) /\ x[Len(f) + 1] = m
      BY <1>6, <1>7, AppendProperties
    <2> QED BY <2>1, <1>2, <1>6
  <1>9. PICK r : r = <<m, q[n]>> OBVIOUS
  <1>10. r \in Seq(S) /\ Len(r) = 2 /\ r[1] = m /\ r[2] = q[n] BY <1>3, <1>9
  <1>11. PICK y : y = f \o r OBVIOUS
  <1>12. /\ y \in Seq(S) /\ Len(y) = Len(f) + Len(r)
         /\ \A i \in 1 .. Len(f) : y[i] = f[i]
         /\ \A i \in 1 .. Len(r) : y[Len(f) + i] = r[i]
    <2>1. f \in Seq(S) /\ r \in Seq(S) BY <1>6, <1>10
    <2> QED BY <2>1, <1>11, RowFacts
  <1>13. /\ Len(y) = n + 1 /\ \A i \in 1 .. n - 1 : y[i] = q[i]
         /\ y[n] = m /\ y[n + 1] = q[n]
    <2>1. 1 \in 1 .. Len(r) /\ 2 \in 1 .. Len(r) BY <1>10
    <2>2. y[Len(f) + 1] = m /\ y[Len(f) + 2] = q[n] BY <1>10, <1>12, <2>1
    <2>3. Len(f) + 1 = n /\ Len(f) + 2 = n + 1 BY <1>2, <1>6
    <2> QED BY <1>2, <1>6, <1>10, <1>12, <2>2, <2>3
  <1>14. Append(Front(q), m) = x /\ Front(q) \o <<m, Last(q)>> = y BY <1>3, <1>4, <1>7, <1>9, <1>11
  <1>15. Replaced(q, m, x) BY <1>1, <1>8 DEF Replaced
  <1>16. Inserted(q, m, y) BY <1>1, <1>13 DEF Inserted
  <1> QED BY <1>1, <1>2, <1>3, <1>8, <1>12, <1>14, <1>15, <1>16

(* What begins a thinner sequence, and what is followed by more. *)
LEMMA PrefixThins ==
    ASSUME NEW S, NEW T, NEW a \in Seq(S), NEW b \in Seq(T), Thinned(a, b), NEW k \in 0 .. Len(a)
    PROVE  Thinned(SubSeq(a, 1, k), b)
  <1>1. PICK g \in [1 .. Len(a) -> 1 .. Len(b)] :
           /\ \A i \in 1 .. Len(a) : a[i] = b[g[i]]
           /\ \A i, j \in 1 .. Len(a) : i < j => g[i] < g[j]
    BY DEF Thinned
  <1>2. PICK p : p = SubSeq(a, 1, k) OBVIOUS
  <1>3. p \in Seq(S) /\ Len(p) = k /\ \A i \in 1 .. k : p[i] = a[i] BY <1>2, PrefixFacts
  <1>4. PICK h : h = [i \in 1 .. k |-> g[i]] OBVIOUS
  <1>5. 1 .. k \subseteq 1 .. Len(a) OBVIOUS
  <1>6. h \in [1 .. Len(p) -> 1 .. Len(b)] BY <1>1, <1>3, <1>4, <1>5
  <1>7. \A i \in 1 .. Len(p) : p[i] = b[h[i]] BY <1>1, <1>3, <1>4, <1>5
  <1>8. \A i, j \in 1 .. Len(p) : i < j => h[i] < h[j] BY <1>1, <1>3, <1>4, <1>5
  <1>9. Thinned(p, b) BY <1>6, <1>7, <1>8 DEF Thinned
  <1> QED BY <1>2, <1>9

LEMMA ThinsMore ==
    ASSUME NEW S, NEW T, NEW a \in Seq(S), NEW b \in Seq(T), NEW c \in Seq(T), Thinned(a, b)
    PROVE  Thinned(a, b \o c)
  <1>1. PICK g \in [1 .. Len(a) -> 1 .. Len(b)] :
           /\ \A i \in 1 .. Len(a) : a[i] = b[g[i]]
           /\ \A i, j \in 1 .. Len(a) : i < j => g[i] < g[j]
    BY DEF Thinned
  <1>2. PICK y : y = b \o c OBVIOUS
  <1>3. Len(y) = Len(b) + Len(c) /\ \A i \in 1 .. Len(b) : y[i] = b[i] BY <1>2, RowFacts
  <1>4. 1 .. Len(b) \subseteq 1 .. Len(y) BY <1>3
  <1>5. g \in [1 .. Len(a) -> 1 .. Len(y)] BY <1>1, <1>4
  <1>6. \A i \in 1 .. Len(a) : a[i] = y[g[i]] BY <1>1, <1>3
  <1>7. Thinned(a, y) BY <1>1, <1>5, <1>6 DEF Thinned
  <1> QED BY <1>2, <1>7

(* The same end after a thinner beginning. *)
LEMMA ThinsBefore ==
    ASSUME NEW S, NEW a \in Seq(S), NEW b \in Seq(S), NEW c \in Seq(S), Thinned(a, b)
    PROVE  Thinned(a \o c, b \o c)
  <1>1. PICK g \in [1 .. Len(a) -> 1 .. Len(b)] :
           /\ \A i \in 1 .. Len(a) : a[i] = b[g[i]]
           /\ \A i, j \in 1 .. Len(a) : i < j => g[i] < g[j]
    BY DEF Thinned
  <1>2. PICK x : x = a \o c OBVIOUS
  <1>3. PICK y : y = b \o c OBVIOUS
  <1>4. /\ Len(x) = Len(a) + Len(c) /\ Len(y) = Len(b) + Len(c)
        /\ \A i \in 1 .. Len(a) : x[i] = a[i]
        /\ \A i \in 1 .. Len(b) : y[i] = b[i]
        /\ \A i \in 1 .. Len(c) : x[Len(a) + i] = c[i] /\ y[Len(b) + i] = c[i]
    BY <1>2, <1>3, RowFacts
  <1>5. Len(a) \in Nat /\ Len(b) \in Nat /\ Len(c) \in Nat OBVIOUS
  <1>6. PICK h : h = [i \in 1 .. Len(x) |-> IF i <= Len(a) THEN g[i] ELSE Len(b) + (i - Len(a))]
    OBVIOUS
  <1>7. ASSUME NEW i \in 1 .. Len(x)
        PROVE  /\ i <= Len(a) => h[i] = g[i] /\ h[i] \in 1 .. Len(b)
               /\ i > Len(a) => h[i] = Len(b) + (i - Len(a)) /\ i - Len(a) \in 1 .. Len(c)
               /\ h[i] \in 1 .. Len(y) /\ x[i] = y[h[i]]
    <2>1. CASE i <= Len(a)
      <3>1. i \in 1 .. Len(a) /\ h[i] = g[i] BY <1>5, <1>6, <2>1
      <3>2. g[i] \in 1 .. Len(b) /\ a[i] = b[g[i]] BY <1>1, <3>1
      <3> QED BY <1>4, <1>5, <2>1, <3>1, <3>2
    <2>2. CASE i > Len(a)
      <3>1. PICK j : j = i - Len(a) OBVIOUS
      <3>2. j \in 1 .. Len(c) /\ i = Len(a) + j BY <1>4, <1>5, <2>2, <3>1
      <3>3. h[i] = Len(b) + j BY <1>5, <1>6, <2>2, <3>1
      <3>4. x[i] = c[j] /\ y[h[i]] = c[j] BY <1>4, <3>2, <3>3
      <3> QED BY <1>4, <1>5, <2>2, <3>1, <3>2, <3>3, <3>4, SMTT(30)
    <2> QED BY <1>5, <2>1, <2>2
  <1>8. h \in [1 .. Len(x) -> 1 .. Len(y)] BY <1>6, <1>7
  <1>9. ASSUME NEW i \in 1 .. Len(x), NEW j \in 1 .. Len(x), i < j PROVE h[i] < h[j]
    <2>1. CASE j <= Len(a)
      <3>1. i \in 1 .. Len(a) /\ j \in 1 .. Len(a) BY <1>5, <1>9, <2>1
      <3> QED BY <1>1, <1>7, <1>9, <2>1, <3>1
    <2>2. CASE j > Len(a) /\ i <= Len(a)
      <3>1. h[i] \in 1 .. Len(b) BY <1>7, <2>2
      <3>2. h[j] = Len(b) + (j - Len(a)) /\ j - Len(a) \in 1 .. Len(c) BY <1>7, <2>2
      <3> QED BY <1>5, <3>1, <3>2
    <2>3. CASE i > Len(a)
      <3>1. i \in Int /\ j \in Int /\ j > Len(a) BY <1>5, <1>9, <2>3
      <3>2. h[i] = Len(b) + (i - Len(a)) BY <1>7, <2>3
      <3>3. h[j] = Len(b) + (j - Len(a)) BY <1>7, <3>1
      <3> QED BY <1>5, <1>9, <3>1, <3>2, <3>3
    <2> QED BY <1>5, <2>1, <2>2, <2>3
  <1>10. Thinned(x, y)
    <2>1. \A i \in 1 .. Len(x) : x[i] = y[h[i]] BY <1>7
    <2>2. \A i, j \in 1 .. Len(x) : i < j => h[i] < h[j] BY <1>9
    <2> QED BY <1>8, <2>1, <2>2 DEF Thinned
  <1> QED BY <1>2, <1>3, <1>10

(* A thinner sequence is found by looking for its elements one after the other. *)
LEMMA ThinnedIsFound ==
    ASSUME NEW S, NEW a \in Seq(S), NEW b \in Seq(S), Thinned(a, b)
    PROVE  IsSubsequence(a, b)
  <1>1. PICK n \in Nat : n = Len(b) OBVIOUS
  <1>2. PICK l \in Nat : l = Len(a) OBVIOUS
  <1>3. PICK F : F = [k \in 1 .. n |-> [m \in 0 .. l |-> IF m < l /\ a[m + 1] = b[k] THEN m + 1 ELSE m]]
    OBVIOUS
  <1>4. PICK f \in [0 .. n -> 0 .. l] : f[0] = 0 /\ \A k \in 1 .. n : f[k] = F[k][f[k - 1]]
    <2>1. Steps(F, n, 0 .. l)
      <3>1. ASSUME NEW k \in 1 .. n, NEW m \in 0 .. l PROVE F[k][m] \in 0 .. l BY <1>3
      <3> QED BY <3>1 DEF Steps
    <2>2. 0 \in 0 .. l OBVIOUS
    <2>3. PICK f : Iterated(f, F, n, 0, 0 .. l) BY <2>1, <2>2, Iterates
    <2> QED BY <2>3 DEF Iterated
  <1> DEFINE D(g) == [k \in 0 .. Len(b) |-> IF k = 0 THEN 0
                         ELSE LET m == g[k - 1] IN
                              IF m < Len(a) /\ a[m + 1] = b[k] THEN m + 1 ELSE m]
             matched == CHOOSE g : g = D(g)
  <1>5. f = D(f)
    <2>1. ASSUME NEW k \in 0 .. n PROVE f[k] = D(f)[k]
      <3>1. CASE k = 0 BY <1>1, <1>4, <3>1
      <3>2. CASE k # 0
        <4>1. k \in 1 .. n /\ f[k - 1] \in 0 .. l BY <3>2
        <4>2. F[k][f[k - 1]] = IF f[k - 1] < l /\ a[f[k - 1] + 1] = b[k] THEN f[k - 1] + 1 ELSE f[k - 1]
          BY <4>1, <1>3
        <4> QED BY <4>1, <4>2, <1>1, <1>2, <1>4
      <3> QED BY <3>1, <3>2
    <2>2. f = [k \in 0 .. n |-> f[k]] OBVIOUS
    <2>3. D(f) = [k \in 0 .. n |-> D(f)[k]] BY <1>1
    <2> HIDE DEF D
    <2> QED BY <2>1, <2>2, <2>3
  <1>6. matched = D(matched)
    <2> HIDE DEF D
    <2> QED BY <1>5
  <1>7. PICK g : g = matched OBVIOUS
  <1>8. IsSubsequence(a, b) <=> g[n] = l BY <1>1, <1>2, <1>7 DEF IsSubsequence
  <1>9. g = [k \in 0 .. n |-> IF k = 0 THEN 0
                ELSE IF g[k - 1] < l /\ a[g[k - 1] + 1] = b[k] THEN g[k - 1] + 1 ELSE g[k - 1]]
    <2> HIDE DEF matched, D
    <2>1. g = D(g) BY <1>6, <1>7
    <2> QED BY <1>1, <1>2, <2>1, ZenonT(60) DEF D
  <1> HIDE DEF matched, D
  <1>10. PICK h \in [1 .. l -> 1 .. n] :
            /\ \A i \in 1 .. l : a[i] = b[h[i]]
            /\ \A i, j \in 1 .. l : i < j => h[i] < h[j]
    BY <1>1, <1>2 DEF Thinned
  <1>11. PICK T : T = {k \in 0 .. n : g[k] \in 0 .. l /\ \A i \in 1 .. l : h[i] <= k => i <= g[k]}
    OBVIOUS
  <1>12. 0 \in T
    <2>1. g[0] = 0 BY <1>9
    <2>2. \A i \in 1 .. l : ~(h[i] <= 0) BY <1>10
    <2> QED BY <1>11, <2>1, <2>2
  <1>13. ASSUME NEW c \in 0 .. n - 1, c \in T PROVE c + 1 \in T
    <2>1. PICK k \in 1 .. n : k = c + 1 OBVIOUS
    <2>2. k - 1 = c /\ k # 0 /\ k \in 0 .. n BY <2>1
    <2>3. PICK m \in 0 .. l : m = g[c] BY <1>11, <1>13
    <2>4. g[k] = IF m < l /\ a[m + 1] = b[k] THEN m + 1 ELSE m BY <1>9, <2>2, <2>3
    <2>5. g[k] \in 0 .. l /\ m <= g[k] BY <2>4
    <2>6. ASSUME NEW i \in 1 .. l, h[i] <= k PROVE i <= g[k]
      <3>1. h[i] \in 1 .. n BY <1>10
      <3>2. CASE h[i] <= c
        <4>1. i <= m BY <1>11, <1>13, <2>3, <3>2
        <4> QED BY <2>5, <4>1, SMTT(30)
      <3>3. CASE h[i] = k
        <4>1. i = 1 \/ (i - 1 \in 1 .. l /\ i - 1 <= m)
          <5>1. CASE i # 1
            <6>1. PICK j \in 1 .. l : j = i - 1 BY <5>1
            <6>2. h[j] < h[i] /\ h[j] \in 1 .. n BY <1>10, <6>1
            <6>3. h[j] <= c BY <2>1, <3>3, <6>2
            <6>4. j <= m BY <1>11, <1>13, <2>3, <6>3
            <6> QED BY <6>1, <6>4
          <5> QED BY <5>1
        <4>2. i <= m + 1 BY <4>1
        <4>3. CASE i <= m BY <2>5, <4>3, SMTT(30)
        <4>4. CASE i = m + 1
          <5>1. m < l /\ a[m + 1] = b[k] BY <1>10, <3>3, <4>4, SMTT(30)
          <5> QED BY <2>4, <4>4, <5>1
        <4> QED BY <4>2, <4>3, <4>4
      <3>4. PICK t \in Int : t = h[i] BY <3>1
      <3>5. c \in Int /\ k = c + 1 /\ t <= k BY <2>1, <2>6, <3>4
      <3>6. t <= c \/ t = k BY <3>4, <3>5
      <3>7. h[i] <= c \/ h[i] = k BY <3>4, <3>6
      <3> QED BY <3>2, <3>3, <3>7
    <2> QED BY <1>11, <2>1, <2>2, <2>5, <2>6
  <1>14. n \in T
    <2>1. \A k \in 0 .. n : k \in T BY <1>12, <1>13, CountUp
    <2> QED BY <2>1
  <1>15. g[n] = l
    <2>1. g[n] \in 0 .. l /\ \A i \in 1 .. l : h[i] <= n => i <= g[n] BY <1>11, <1>14
    <2>2. CASE l = 0 BY <2>1, <2>2
    <2>3. CASE l # 0
      <3>1. l \in 1 .. l /\ h[l] \in 1 .. n BY <1>10, <2>3
      <3>2. l <= g[n] BY <2>1, <3>1
      <3> QED BY <2>1, <3>2
    <2> QED BY <2>2, <2>3
  <1> QED BY <1>8, <1>15

(* Who leaves any queue leaves a queue. *)
LEMMA LeavesQueue ==
    ASSUME NEW S, NEW q \in Seq(S), NEW t
    PROVE  RemoveFirst(q, t) \in Seq(S)
  <1>1. CASE \E i \in 1 .. Len(q) : q[i] = t
    <2>1. PICK I : I = {i \in 1 .. Len(q) : q[i] = t} OBVIOUS
    <2>2. I \subseteq Nat /\ I # {} BY <1>1, <2>1
    <2>3. \E x \in I : \A y \in I : x <= y BY <2>2, NatMin
    <2>4. Min(I) \in I BY <2>3 DEF Min
    <2>5. SelectInSeq(q, LAMBDA v : v = t) = Min(I) BY <2>1, <2>2 DEF SelectInSeq
    <2>6. PICK i \in 1 .. Len(q) : i = Min(I) BY <2>1, <2>4
    <2>7. RemoveAt(q, i) \in Seq(S) BY <2>6, Skips
    <2> QED BY <1>1, <2>5, <2>6, <2>7 DEF RemoveFirst
  <1>2. CASE ~\E i \in 1 .. Len(q) : q[i] = t BY <1>2 DEF RemoveFirst
  <1> QED BY <1>1, <1>2

-----------------------------------------------------------------------------
(* What comes before what. *)

LEMMA ElderDomains ==
    ASSUME NEW S, NEW T, NEW x \in Seq(S), NEW y \in Seq(T)
    PROVE  Elder(x, y) <=> \A i \in 1 .. Len(x), j \in 1 .. Len(y) : x[i] = y[j] =>
              i <= j /\ (i = j => \A k \in 1 .. i : x[k] = y[k])
  <1>1. DOMAIN x = 1 .. Len(x) /\ DOMAIN y = 1 .. Len(y) OBVIOUS
  <1> QED BY <1>1 DEF Elder

(* z has what y has, no earlier, after the same beginning if in the same place. *)
LEMMA ElderKeeps ==
    ASSUME NEW S, NEW T, NEW x \in Seq(S), NEW y \in Seq(T), NEW z \in Seq(T), Elder(x, y),
           \A i \in 1 .. Len(x), j \in 1 .. Len(z) : x[i] = z[j] =>
              \E l \in 1 .. Len(y) : y[l] = z[j] /\ l <= j /\ (l = j => \A k \in 1 .. j : z[k] = y[k])
    PROVE  Elder(x, z)
  <1>1. ASSUME NEW i \in 1 .. Len(x), NEW j \in 1 .. Len(z), x[i] = z[j]
        PROVE  i <= j /\ (i = j => \A k \in 1 .. i : x[k] = z[k])
    <2>1. PICK l \in 1 .. Len(y) : y[l] = z[j] /\ l <= j /\ (l = j => \A k \in 1 .. j : z[k] = y[k])
      BY <1>1
    <2>2. i <= l /\ (i = l => \A k \in 1 .. i : x[k] = y[k]) BY <1>1, <2>1, ElderDomains
    <2>3. i <= j BY <2>1, <2>2
    <2>4. ASSUME i = j PROVE \A k \in 1 .. i : x[k] = z[k]
      <3>1. l = j /\ i = l BY <2>1, <2>2, <2>4
      <3> QED BY <2>1, <2>2, <2>4, <3>1
    <2> QED BY <2>3, <2>4
  <1> QED BY <1>1, ElderDomains

(* A conversation that is grown, edited at its end or rewound. *)
LEMMA ElderEdited ==
    ASSUME NEW n \in Nat, NEW x \in Seq(0 .. n), NEW y \in Seq(1 .. n), IsInjective(y), Elder(x, y),
           NEW m, m = n + 1
    PROVE  /\ Append(y, m) \in Seq(1 .. m) /\ IsInjective(Append(y, m)) /\ Elder(x, Append(y, m))
           /\ y # <<>> =>
                 LET z == Front(y) \o <<m, Last(y)>> IN
                 z \in Seq(1 .. m) /\ IsInjective(z) /\ Elder(x, z)
           /\ y # <<>> =>
                 LET z == Append(Front(y), m) IN
                 z \in Seq(1 .. m) /\ IsInjective(z) /\ Elder(x, z)
  <1>1. m \in Nat /\ m > n /\ 1 .. n \subseteq 1 .. m /\ m \in 1 .. m /\ m \notin 0 .. n BY DEF Elder
  <1>2. y \in Seq(1 .. m) BY <1>1, SeqWidens
  <1>3. DOMAIN y = 1 .. Len(y) /\ \A i, j \in 1 .. Len(y) : y[i] = y[j] => i = j
    BY SMTT(30) DEF IsInjective
  <1>4. (\A i \in 1 .. Len(y) : y[i] \in 1 .. n /\ y[i] # m) /\ (\A i \in 1 .. Len(x) : x[i] # m)
    BY <1>1, SMTT(30)
  <1>10. ASSUME y # <<>>
         PROVE  /\ Len(y) >= 1
                /\ Append(Front(y), m) \in Seq(1 .. m) /\ Replaced(y, m, Append(Front(y), m))
                /\ Front(y) \o <<m, Last(y)>> \in Seq(1 .. m)
                /\ Inserted(y, m, Front(y) \o <<m, Last(y)>>)
    <2>1. PICK N : N = 1 .. m OBVIOUS
    <2>2. PICK u : u = m OBVIOUS
    <2>3. y \in Seq(N) /\ u \in N BY <1>1, <1>2, <2>1, <2>2
    <2>4. /\ Len(y) >= 1 /\ Append(Front(y), u) \in Seq(N) /\ Replaced(y, u, Append(Front(y), u))
          /\ Front(y) \o <<u, Last(y)>> \in Seq(N)
          /\ Inserted(y, u, Front(y) \o <<u, Last(y)>>)
      BY <1>10, <2>3, EndFacts
    <2> QED BY <2>1, <2>2, <2>4
  <1>5. ASSUME NEW z \in Seq(1 .. m), z = Append(y, m)
        PROVE  IsInjective(z) /\ Elder(x, z)
    <2>1. Len(z) = Len(y) + 1 /\ (\A i \in 1 .. Len(y) : z[i] = y[i]) /\ z[Len(y) + 1] = m
      BY <1>1, <1>2, <1>5, AppendProperties
    <2>2. DOMAIN z = 1 .. Len(z) OBVIOUS
    <2>3. \A i \in 1 .. Len(z) : (i \in 1 .. Len(y) /\ z[i] = y[i]) \/ (i = Len(y) + 1 /\ z[i] = m)
      BY <2>1, SMTT(30)
    <2>4. IsInjective(z) BY <1>3, <1>4, <2>2, <2>3, SMTT(30) DEF IsInjective
    <2>5. ASSUME NEW i \in 1 .. Len(x), NEW j \in 1 .. Len(z), x[i] = z[j]
          PROVE  \E l \in 1 .. Len(y) : y[l] = z[j] /\ l <= j /\ (l = j => \A k \in 1 .. j : z[k] = y[k])
      <3>1. j \in 1 .. Len(y) /\ z[j] = y[j] BY <1>4, <2>3, <2>5
      <3>2. \A k \in 1 .. j : z[k] = y[k] BY <2>1, <3>1
      <3> QED BY <3>1, <3>2
    <2> QED BY <1>2, <2>4, <2>5, ElderKeeps
  <1>6. ASSUME y # <<>>, NEW z \in Seq(1 .. m), z = Front(y) \o <<m, Last(y)>>
        PROVE  IsInjective(z) /\ Elder(x, z)
    <2>1. PICK c \in Nat : c = Len(y) OBVIOUS
    <2>2. /\ c >= 1 /\ Len(z) = c + 1 /\ (\A i \in 1 .. c - 1 : z[i] = y[i])
          /\ z[c] = m /\ z[c + 1] = y[c]
      <3>1. /\ Len(y) >= 1 /\ Len(z) = Len(y) + 1 /\ (\A i \in 1 .. Len(y) - 1 : z[i] = y[i])
            /\ z[Len(y)] = m /\ z[Len(y) + 1] = y[Len(y)]
        BY <1>6, <1>10 DEF Inserted
      <3> QED BY <2>1, <3>1
    <2>3. DOMAIN z = 1 .. Len(z) OBVIOUS
    <2>4. \A i \in 1 .. Len(z) : \/ i \in 1 .. c - 1 /\ z[i] = y[i]
                                 \/ i = c /\ z[i] = m
                                 \/ i = c + 1 /\ z[i] = y[c]
      BY <2>1, <2>2, SMTT(30)
    <2>5. c \in 1 .. Len(y) /\ 1 .. c - 1 \subseteq 1 .. Len(y) BY <2>1, <2>2
    <2>6. ASSUME NEW i \in 1 .. Len(z), NEW j \in 1 .. Len(z), z[i] = z[j] PROVE i = j
      <3>1. CASE z[i] = m
        <4>1. i = c /\ j = c BY <1>4, <2>4, <2>5, <2>6, <3>1
        <4> QED BY <4>1
      <3>2. CASE z[i] # m
        <4>1. (i \in 1 .. c - 1 /\ z[i] = y[i]) \/ (i = c + 1 /\ z[i] = y[c]) BY <2>4, <3>2
        <4>2. (j \in 1 .. c - 1 /\ z[j] = y[j]) \/ (j = c + 1 /\ z[j] = y[c]) BY <2>4, <2>6, <3>2
        <4>3. c \notin 1 .. c - 1 BY <2>1
        <4> QED BY <1>3, <2>5, <2>6, <4>1, <4>2, <4>3
      <3> QED BY <3>1, <3>2
    <2>7. ASSUME NEW i \in 1 .. Len(x), NEW j \in 1 .. Len(z), x[i] = z[j]
          PROVE  \E l \in 1 .. Len(y) : y[l] = z[j] /\ l <= j /\ (l = j => \A k \in 1 .. j : z[k] = y[k])
      <3>1. CASE j \in 1 .. c - 1 /\ z[j] = y[j]
        <4>1. \A k \in 1 .. j : z[k] = y[k] BY <2>2, <3>1
        <4>2. j \in 1 .. Len(y) /\ j <= j /\ y[j] = z[j] BY <2>5, <3>1
        <4> QED BY <4>1, <4>2
      <3>2. CASE j = c + 1 /\ z[j] = y[c]
        <4>1. c <= j /\ c # j
          <5>1. c \in Int BY <2>1
          <5>2. j = c + 1 BY <3>2
          <5> QED BY <5>1, <5>2
        <4>2. c = j => \A k \in 1 .. j : z[k] = y[k] BY <4>1
        <4>3. y[c] = z[j] BY <3>2
        <4> QED BY <2>5, <4>1, <4>2, <4>3
      <3> QED BY <1>4, <2>4, <2>7, <3>1, <3>2
    <2> QED BY <1>2, <2>3, <2>6, <2>7, ElderKeeps, ZenonT(60) DEF IsInjective
  <1>7. ASSUME y # <<>>, NEW z \in Seq(1 .. m), z = Append(Front(y), m)
        PROVE  IsInjective(z) /\ Elder(x, z)
    <2>1. PICK c \in Nat : c = Len(y) OBVIOUS
    <2>2. c >= 1 /\ Len(z) = c /\ (\A i \in 1 .. c - 1 : z[i] = y[i]) /\ z[c] = m
      <3>1. /\ Len(y) >= 1 /\ Len(z) = Len(y) /\ (\A i \in 1 .. Len(y) - 1 : z[i] = y[i])
            /\ z[Len(y)] = m
        BY <1>7, <1>10 DEF Replaced
      <3> QED BY <2>1, <3>1
    <2>3. DOMAIN z = 1 .. Len(z) OBVIOUS
    <2>4. \A i \in 1 .. Len(z) : (i \in 1 .. c - 1 /\ z[i] = y[i]) \/ (i = c /\ z[i] = m)
      BY <2>1, <2>2, SMTT(30)
    <2>5. 1 .. c - 1 \subseteq 1 .. Len(y) BY <2>1, <2>2
    <2>6. IsInjective(z)
      <3>1. ASSUME NEW i \in 1 .. Len(z), NEW j \in 1 .. Len(z), z[i] = z[j] PROVE i = j
        <4>1. (i \in 1 .. Len(y) /\ z[i] = y[i]) \/ (i = c /\ z[i] = m) BY <2>4, <2>5
        <4>2. (j \in 1 .. Len(y) /\ z[j] = y[j]) \/ (j = c /\ z[j] = m) BY <2>4, <2>5
        <4> QED BY <1>3, <1>4, <3>1, <4>1, <4>2
      <3> QED BY <2>3, <3>1 DEF IsInjective
    <2>7. ASSUME NEW i \in 1 .. Len(x), NEW j \in 1 .. Len(z), x[i] = z[j]
          PROVE  \E l \in 1 .. Len(y) : y[l] = z[j] /\ l <= j /\ (l = j => \A k \in 1 .. j : z[k] = y[k])
      <3>1. j \in 1 .. c - 1 /\ z[j] = y[j] BY <1>4, <2>4, <2>7
      <3>2. \A k \in 1 .. j : z[k] = y[k] BY <2>2, <3>1
      <3>3. j \in 1 .. Len(y) /\ j <= j BY <2>5, <3>1, SMTT(30)
      <3> USE <3>3
      <3> WITNESS j \in 1 .. Len(y)
      <3> QED BY <3>1, <3>2
    <2> QED BY <1>2, <2>6, <2>7, ElderKeeps
  <1>8. Append(y, m) \in Seq(1 .. m) BY <1>1, <1>2, AppendProperties
  <1>9. y # <<>> => Front(y) \o <<m, Last(y)>> \in Seq(1 .. m) /\ Append(Front(y), m) \in Seq(1 .. m)
    BY <1>10
  <1> QED BY <1>5, <1>6, <1>7, <1>8, <1>9

LEMMA ElderRewound ==
    ASSUME NEW S, NEW T, NEW x \in Seq(S), NEW y \in Seq(T), Elder(x, y), NEW k \in 0 .. Len(y)
    PROVE  Elder(x, SubSeq(y, 1, k))
  <1>1. PICK z : z = SubSeq(y, 1, k) OBVIOUS
  <1>2. z \in Seq(T) /\ Len(z) = k /\ \A i \in 1 .. k : z[i] = y[i] BY <1>1, PrefixFacts
  <1>3. ASSUME NEW i \in 1 .. Len(x), NEW j \in 1 .. Len(z), x[i] = z[j]
        PROVE  \E l \in 1 .. Len(y) : y[l] = z[j] /\ l <= j /\ (l = j => \A m \in 1 .. j : z[m] = y[m])
    <2>1. j \in 1 .. Len(y) /\ y[j] = z[j] BY <1>2
    <2>2. \A m \in 1 .. j : z[m] = y[m] BY <1>2
    <2> QED BY <2>1, <2>2
  <1>4. Elder(x, z) BY <1>2, <1>3, ElderKeeps
  <1> QED BY <1>1, <1>4

(* A conversation without repetitions is its own elder; an empty one is anyone's. *)
LEMMA ElderSelf ==
    ASSUME NEW S, NEW x \in Seq(S)
    PROVE  (IsInjective(x) => Elder(x, x)) /\ Elder(<<>>, x)
  <1>1. DOMAIN x = 1 .. Len(x) /\ DOMAIN <<>> = {} OBVIOUS
  <1> QED BY <1>1 DEF IsInjective, Elder

-----------------------------------------------------------------------------
(* Types. *)

(* What is read from the metadata is not None. *)
LEMMA SomeMetadata ==
    ASSUME Typed
    PROVE  /\ NoMetadata \in Counts /\ None \notin Counts /\ 0 .. made \subseteq 0 .. MaxMessages
           /\ None \notin Sessions
           /\ \A d \in Sessions : Known(d) \in Counts /\ (meta[d] # None => Known(d) = meta[d])
  <1>1. Counts \subseteq [total : Nat, fp : Nat] BY DEF Typed, Counts
  <1>2. None \notin Counts /\ None \notin Sessions BY <1>1, LogAssumption
  <1>3. NoMetadata \in Counts BY DEF Typed, NoMetadata, Counts
  <1>4. 0 .. made \subseteq 0 .. MaxMessages BY LogAssumption DEF Typed
  <1>5. \A d \in Sessions : Known(d) \in Counts /\ (meta[d] # None => Known(d) = meta[d])
    BY <1>3 DEF Typed, Known
  <1> QED BY <1>2, <1>3, <1>4, <1>5

LEMMA TypedInit == Init => Typed
  <1> SUFFICES ASSUME Init PROVE Typed OBVIOUS
  <1>1. <<>> \in Seq(Made) /\ <<>> \in Seq(0 .. made) /\ <<>> \in Seq(Savers) /\ <<>> \in Seq(Faults)
    OBVIOUS
  <1>2. NoTask \in Jobs BY <1>1 DEF NoTask, Jobs
  <1>3. made = 0 /\ patches = 0 /\ 0 \in 0 .. MaxMessages /\ 0 \in 0 .. MaxPatches
    BY LogAssumption DEF Init
  <1> QED BY <1>1, <1>2, <1>3 DEF Init, Typed

(* The messages that are made may only become more. *)
LEMMA TypedMade ==
    ASSUME Typed, made < MaxMessages, made' = made + 1, conv' \in Seq(1 .. made'), moved' \in BOOLEAN,
           UNCHANGED <<up, cur, patches, task, lockq, disk, faults, history>>
    PROVE  Typed'
  <1>1. made \in Nat /\ made' \in 0 .. MaxMessages /\ Made \subseteq Made' /\ 0 .. made \subseteq (0 .. made)'
    BY LogAssumption, SMTT(30) DEF Typed, Made
  <1>2. Seq(Made) \subseteq Seq(Made') BY <1>1, SeqWidens
  <1>3. Seq(0 .. made) \subseteq Seq((0 .. made)') BY <1>1, SeqWidens
  <1>4. Counts \subseteq Counts' BY <1>1 DEF Counts
  <1>5. Jobs \subseteq Jobs' BY <1>2, <1>4 DEF Jobs
  <1>6. conv' \in Seq(Made') BY DEF Made
  <1>7. task' \in [Savers -> Jobs'] BY <1>5 DEF Typed
  <1>8. log' \in [Sessions -> Seq((0 .. made)')] BY <1>3 DEF Typed, disk
  <1>9. meta' \in [Sessions -> (Counts \cup {None})'] BY <1>4 DEF Typed, disk
  <1>10. wrote' \in [Sessions -> Seq(Made')] /\ acked' \in [Sessions -> Seq(Made')]
    BY <1>2 DEF Typed, history
  <1>11. removed' \in [Sessions -> SUBSET (Made')] BY <1>1 DEF Typed, history
  <1>12. /\ up' \in BOOLEAN /\ cur' \in Sessions /\ patches' \in 0 .. MaxPatches
         /\ moved' \in BOOLEAN /\ faults' \in Seq(Faults) /\ lockq' \in Seq(Savers)
    BY DEF Typed
  <1> QED BY <1>1, <1>6, <1>7, <1>8, <1>9, <1>10, <1>11, <1>12 DEF Typed

(* With the same messages made, the types are the same. *)
Steady ==
    /\ up' \in BOOLEAN /\ cur' \in Sessions /\ patches' \in 0 .. MaxPatches
    /\ made' = made /\ moved' = moved /\ faults' \in Seq(Faults)
    /\ conv' \in Seq(Made) /\ task' \in [Savers -> Jobs] /\ lockq' \in Seq(Savers)
    /\ log' \in [Sessions -> Seq(0 .. made)] /\ meta' \in [Sessions -> Counts \cup {None}]
    /\ wrote' \in [Sessions -> Seq(Made)] /\ acked' \in [Sessions -> Seq(Made)]
    /\ removed' \in [Sessions -> SUBSET Made]
LEMMA TypedSteady == ASSUME Typed, Steady PROVE Typed'
  <1>1. Made' = Made /\ Counts' = Counts BY DEF Steady, Made, Counts
  <1>2. Jobs' = Jobs BY <1>1 DEF Jobs
  <1>3. made' \in 0 .. MaxMessages /\ moved' \in BOOLEAN BY DEF Typed, Steady
  <1>4. (0 .. made)' = 0 .. made BY SMTT(30) DEF Steady
  <1> QED BY <1>1, <1>2, <1>3, <1>4 DEF Steady, Typed

(* The jobs a step may leave. *)
LEMMA JobFacts ==
    ASSUME Typed, NEW s \in Savers
    PROVE  /\ task[s] \in Jobs /\ NoTask \in Jobs
           /\ [task[s] EXCEPT !.pc = "read"] \in Jobs /\ [task[s] EXCEPT !.orphan = TRUE] \in Jobs
           /\ \A p \in {"replace", "done"} : [task[s] EXCEPT !.pc = p] \in Jobs
           /\ \A p \in {"replace", "done", "log"}, m \in Counts :
                 [task[s] EXCEPT !.old = m, !.pc = p] \in Jobs
           /\ \A p \in {"read", "wait"} :
                 /\ [NoTask EXCEPT !.pc = p, !.dir = cur, !.snap = conv] \in Jobs
                 /\ [NoTask EXCEPT !.pc = p, !.kind = "patch", !.dir = cur] \in Jobs
  <1>1. task[s] \in Jobs /\ cur \in Sessions /\ conv \in Seq(Made) /\ <<>> \in Seq(Made) BY DEF Typed
  <1>2. NoTask \in Jobs BY <1>1 DEF NoTask, Jobs
  <1>3. [task[s] EXCEPT !.pc = "read"] \in Jobs /\ [task[s] EXCEPT !.orphan = TRUE] \in Jobs
    BY <1>1 DEF Jobs
  <1>4. \A p \in {"replace", "done"} : [task[s] EXCEPT !.pc = p] \in Jobs BY <1>1 DEF Jobs
  <1>5. \A p \in {"replace", "done", "log"}, m \in Counts : [task[s] EXCEPT !.old = m, !.pc = p] \in Jobs
    BY <1>1 DEF Jobs
  <1>6. \A p \in {"read", "wait"} :
           /\ [NoTask EXCEPT !.pc = p, !.dir = cur, !.snap = conv] \in Jobs
           /\ [NoTask EXCEPT !.pc = p, !.kind = "patch", !.dir = cur] \in Jobs
    BY <1>1 DEF NoTask, Jobs
  <1> QED BY <1>1, <1>2, <1>3, <1>4, <1>5, <1>6

(* A fault is remembered. *)
LEMMA FaultFacts ==
    ASSUME Typed, NEW kind, Fault(kind)
    PROVE  faults' \in Seq(Faults) /\ faults' # <<>> /\ Range(faults') = Range(faults) \cup {kind}
  <1>1. faults \in Seq(Faults) /\ kind \in Faults /\ faults' = Append(faults, kind) BY DEF Typed, Fault
  <1>2. PICK q : q = faults' OBVIOUS
  <1>3. q \in Seq(Faults) /\ Len(q) = Len(faults) + 1 /\ (\A i \in 1 .. Len(faults) : q[i] = faults[i])
        /\ q[Len(faults) + 1] = kind
    BY <1>1, <1>2, AppendProperties
  <1>4. q # <<>> BY <1>1, <1>2
  <1>5. DOMAIN faults = 1 .. Len(faults) /\ DOMAIN q = 1 .. Len(faults) + 1 BY <1>1, <1>3
  <1>6. Range(q) = Range(faults) \cup {kind} BY <1>1, <1>3, <1>5, SMTT(30) DEF Range
  <1> QED BY <1>2, <1>3, <1>4, <1>6

(* What is appended comes after what was there, unless that ends in a torn line. *)
LEMMA ExtendedFacts ==
    ASSUME NEW n \in Nat, NEW x \in Seq(0 .. n), NEW y \in Seq(1 .. n)
    PROVE  /\ Extended(x, y) \in Seq(0 .. n) /\ y \in Seq(0 .. n)
           /\ x = <<>> \/ Last(x) # Torn => Extended(x, y) = x \o y
           /\ Torn \notin Range(Extended(x, y)) => Torn \notin Range(x) /\ Extended(x, y) = x \o y
  <1>1. PICK N : N = 0 .. n OBVIOUS
  <1>2. 1 .. n \subseteq N BY <1>1
  <1>3. x \in Seq(N) /\ y \in Seq(N) BY <1>1, <1>2, SeqWidens
  <1>4. x \o y \in Seq(N) /\ Range(x \o y) = Range(x) \cup Range(y) BY <1>3, RowFacts
  <1>5. CASE x # <<>> /\ Last(x) = Torn /\ y # <<>>
    <2>1. Tail(y) \in Seq(N) BY <1>3, <1>5, HeadTailProperties
    <2>2. PICK w : w = Tail(y) OBVIOUS
    <2>3. PICK z : z = x \o w OBVIOUS
    <2>4. w \in Seq(N) /\ x \in Seq(N) BY <1>3, <2>1, <2>2
    <2>5. z \in Seq(N) /\ Range(z) = Range(x) \cup Range(w) BY <2>3, <2>4, RowFacts
    <2>6. Len(x) \in DOMAIN x /\ x[Len(x)] = Torn BY <1>3, <1>5 DEF Last
    <2>7. Torn \in Range(x) BY <2>6 DEF Range
    <2>8. Extended(x, y) = z BY <1>5, <2>2, <2>3 DEF Extended
    <2> QED BY <1>1, <1>3, <1>5, <2>5, <2>7, <2>8
  <1>6. CASE ~(x # <<>> /\ Last(x) = Torn /\ y # <<>>)
    <2>1. Extended(x, y) = x \o y BY <1>6 DEF Extended
    <2> QED BY <1>1, <1>3, <1>4, <2>1
  <1> QED BY <1>5, <1>6

(* The lines an append adds. *)
LEMMA NewLinesFacts ==
    ASSUME NEW n \in Nat, NEW t, t.snap \in Seq(1 .. n), t.old.total \in Nat, Appends(t)
    PROVE  NewLines(t) \in Seq(1 .. n) /\ t.old.total \in 0 .. Len(t.snap)
  <1>1. PICK N : N = 1 .. n OBVIOUS
  <1>2. PICK q : q = t.snap OBVIOUS
  <1>3. PICK k : k = t.old.total OBVIOUS
  <1>4. q \in Seq(N) /\ k \in 0 .. Len(q) BY <1>1, <1>2, <1>3 DEF Appends
  <1>5. SubSeq(q, k + 1, Len(q)) \in Seq(N) BY <1>4, RestFacts
  <1> QED BY <1>1, <1>2, <1>3, <1>4, <1>5 DEF NewLines

(* A log after an append that stopped: torn, or what was there and some lines more. *)
Continues(l, x, n) ==
    Torn \notin Range(l) => Torn \notin Range(x) /\ \E z \in Seq(0 .. n) : l = x \o z
LEMMA StoppedFacts ==
    ASSUME NEW n \in Nat, NEW x \in Seq(0 .. n), NEW y \in Seq(1 .. n), NEW l \in Stopped(x, y)
    PROVE  l \in Seq(0 .. n) /\ Continues(l, x, n)
  <1>1. PICK N : N = 1 .. n OBVIOUS
  <1>2. PICK k \in 0 .. Len(y) - 1 :
           l = Extended(x, SubSeq(y, 1, k)) \/ l = Append(Extended(x, SubSeq(y, 1, k)), Torn)
    BY DEF Stopped
  <1>3. PICK z : z = SubSeq(y, 1, k) OBVIOUS
  <1>4. y \in Seq(N) /\ k \in 0 .. Len(y) BY <1>1, <1>2
  <1>5. z \in Seq(1 .. n) BY <1>1, <1>3, <1>4, PrefixFacts
  <1>6. PICK e : e = Extended(x, z) OBVIOUS
  <1>7. /\ e \in Seq(0 .. n) /\ z \in Seq(0 .. n)
        /\ Torn \notin Range(e) => Torn \notin Range(x) /\ e = x \o z
    BY <1>5, <1>6, ExtendedFacts
  <1>8. CASE l = e BY <1>7, <1>8 DEF Continues
  <1>9. CASE l = Append(e, Torn)
    <2>1. PICK M : M = 0 .. n OBVIOUS
    <2>2. PICK w : w = Torn OBVIOUS
    <2>3. e \in Seq(M) /\ w \in M BY <1>7, <2>1, <2>2 DEF Torn
    <2>4. l \in Seq(M) /\ Len(l) = Len(e) + 1 /\ l[Len(e) + 1] = w
      BY <1>9, <2>2, <2>3, AppendProperties
    <2>5. Len(e) + 1 \in DOMAIN l BY <2>3, <2>4
    <2>6. Torn \in Range(l) BY <2>2, <2>4, <2>5 DEF Range
    <2> QED BY <2>1, <2>4, <2>6 DEF Continues
  <1> QED BY <1>2, <1>3, <1>6, <1>8, <1>9

(* Without a torn line a log is a conversation. *)
LEMMA WholeFacts ==
    ASSUME NEW n \in Nat, NEW q \in Seq(0 .. n), Torn \notin Range(q)
    PROVE  q \in Seq(1 .. n)
  <1>1. DOMAIN q = 1 .. Len(q) OBVIOUS
  <1>2. ASSUME NEW i \in 1 .. Len(q) PROVE q[i] \in 1 .. n
    <2>1. PICK v \in 0 .. n : v = q[i] OBVIOUS
    <2>2. v \in Range(q) BY <1>1, <2>1 DEF Range
    <2>3. v # Torn BY <2>2
    <2> QED BY <2>1, <2>3 DEF Torn
  <1>3. PICK N : N = 1 .. n OBVIOUS
  <1>4. \A i \in 1 .. Len(q) : q[i] \in N BY <1>2, <1>3
  <1>5. q \in Seq(N) BY <1>4
  <1> QED BY <1>3, <1>5

(* Who gets the lock next goes on to read. *)
Woken(s, t) ==
    IF RemoveFirst(lockq, s) # <<>> /\ t = Head(RemoveFirst(lockq, s)) /\ task[t].pc = "wait"
    THEN [task[t] EXCEPT !.pc = "read"] ELSE task[t]

LEMMA ReleaseFacts ==
    ASSUME Typed, NEW s \in Savers, Release(s)
    PROVE  /\ task' \in [Savers -> Jobs] /\ lockq' \in Seq(Savers)
           /\ lockq' = RemoveFirst(lockq, s) /\ task'[s] = NoTask
           /\ \A t \in Savers \ {s} : task'[t] = Woken(s, t)
  <1>1. lockq' = RemoveFirst(lockq, s) BY DEF Release
  <1>2. task' = [t \in Savers |-> IF t = s THEN NoTask ELSE Woken(s, t)] BY DEF Release, Woken
  <1>3. \A t \in Savers : Woken(s, t) \in Jobs BY JobFacts DEF Woken
  <1>4. NoTask \in Jobs BY JobFacts
  <1>5. lockq' \in Seq(Savers) BY <1>1, LeavesQueue DEF Typed
  <1> QED BY <1>1, <1>2, <1>3, <1>4, <1>5

(* The metadata of a save. *)
LEMMA SavedMetadata ==
    ASSUME Typed, NEW s \in Savers, task[s].kind # "patch"
    PROVE  /\ NewMetadata(task[s]) \in Counts /\ NewMetadata(task[s]).total = Len(task[s].snap)
           /\ task[s].snap # <<>> => NewMetadata(task[s]).fp = Last(task[s].snap)
  <1>1. PICK q : q = task[s].snap OBVIOUS
  <1>2. q \in Seq(Made) /\ made \in Nat BY <1>1, LogAssumption DEF Typed, Jobs
  <1>3. Len(q) \in Nat /\ (q # <<>> => Last(q) \in Made)
    <2>1. q # <<>> => Len(q) \in 1 .. Len(q) BY <1>2
    <2> QED BY <1>2, <2>1 DEF Last
  <1>4. (IF q = <<>> THEN 0 ELSE Last(q)) \in 0 .. made BY <1>2, <1>3 DEF Made
  <1>5. NewMetadata(task[s]) = [total |-> Len(q), fp |-> IF q = <<>> THEN 0 ELSE Last(q)]
    BY <1>1 DEF NewMetadata
  <1> QED BY <1>1, <1>3, <1>4, <1>5 DEF Counts

LEMMA TypedNext == ASSUME Typed, Working, [Next]_vars PROVE Typed'
  <1> USE DEF disk, memory, history
  <1>0. /\ up \in BOOLEAN /\ cur \in Sessions /\ patches \in 0 .. MaxPatches
        /\ made \in 0 .. MaxMessages /\ moved \in BOOLEAN /\ faults \in Seq(Faults)
        /\ conv \in Seq(Made) /\ task \in [Savers -> Jobs] /\ lockq \in Seq(Savers)
        /\ log \in [Sessions -> Seq(0 .. made)] /\ meta \in [Sessions -> Counts \cup {None}]
        /\ wrote \in [Sessions -> Seq(Made)] /\ acked \in [Sessions -> Seq(Made)]
        /\ removed \in [Sessions -> SUBSET Made]
    BY DEF Typed
  <1>1. CASE NewMessage
    <2>1. made < MaxMessages /\ made' = made + 1 /\ made \in Nat BY <1>0, <1>1, LogAssumption DEF NewMessage
    <2>2. PICK N : N = 1 .. made' OBVIOUS
    <2>3. PICK m : m = made' OBVIOUS
    <2>4. 1 .. made \subseteq N /\ m \in N BY <2>1, <2>2, <2>3
    <2>5. conv \in Seq(N) BY <1>0, <2>4, SeqWidens DEF Made
    <2>6. Append(conv, m) \in Seq(N) BY <2>4, <2>5, AppendProperties
    <2>7. conv # <<>> => Append(Front(conv), m) \in Seq(N) /\ Front(conv) \o <<m, Last(conv)>> \in Seq(N)
      BY <2>4, <2>5, EndFacts
    <2>8. conv' \in Seq(N) BY <1>1, <2>3, <2>6, <2>7 DEF NewMessage, Converse
    <2>9. /\ moved' \in BOOLEAN
          /\ UNCHANGED <<up, cur, patches, task, lockq, disk, faults, history>>
      BY <1>0, <1>1 DEF NewMessage, Converse
    <2> QED BY <2>1, <2>2, <2>8, <2>9, TypedMade
  <1>2. CASE Rewind
    <2>1. PICK k \in 0 .. Len(conv) - 1 : Converse(SubSeq(conv, 1, k)) BY <1>2 DEF Rewind
    <2>2. k \in 0 .. Len(conv) BY <1>0, <2>1
    <2>3. conv' \in Seq(Made) BY <1>0, <2>1, <2>2, PrefixFacts DEF Converse
    <2>4. Steady BY <1>0, <1>2, <2>1, <2>3 DEF Rewind, Converse, Steady
    <2> QED BY <2>4, TypedSteady
  <1>3. CASE ResetSession
    <2>1. cur' \in Sessions /\ conv' \in {conv, <<>>} BY <1>3 DEF ResetSession
    <2>2. <<>> \in Seq(Made) OBVIOUS
    <2>3. conv' \in Seq(Made) BY <1>0, <2>1, <2>2
    <2>4. Steady BY <1>0, <1>3, <2>1, <2>3 DEF ResetSession, Steady
    <2> QED BY <2>4, TypedSteady
  <1>10. ASSUME NEW s \in Savers, task[s].pc = "log", Appends(task[s]),
                \E l \in Stopped(log[task[s].dir], NewLines(task[s])) : log' = [log EXCEPT ![task[s].dir] = l]
         PROVE  log' \in [Sessions -> Seq(0 .. made)]
    <2>1. PICK l \in Stopped(log[task[s].dir], NewLines(task[s])) : log' = [log EXCEPT ![task[s].dir] = l]
      BY <1>10
    <2>2. task[s].dir \in Sessions /\ task[s].old # None BY <1>10 DEF Working, Works
    <2>3. task[s].snap \in Seq(1 .. made) /\ task[s].old.total \in Nat
      BY <1>0, <2>2 DEF Jobs, Counts, Made
    <2>4. made \in Nat BY <1>0
    <2>5. NewLines(task[s]) \in Seq(1 .. made) BY <1>10, <2>3, <2>4, NewLinesFacts
    <2>6. log[task[s].dir] \in Seq(0 .. made) BY <1>0, <2>2
    <2>7. l \in Seq(0 .. made) BY <2>1, <2>4, <2>5, <2>6, StoppedFacts
    <2> QED BY <1>0, <2>1, <2>7
  <1>4. CASE Crash
    <2>1. faults' \in Seq(Faults) BY <1>4, FaultFacts DEF Crash
    <2>2. log' \in [Sessions -> Seq(0 .. made)] BY <1>0, <1>4, <1>10 DEF Crash
    <2>3. conv' \in Seq(Made) /\ lockq' \in Seq(Savers) BY <1>4 DEF Crash
    <2>4. task' \in [Savers -> Jobs]
      <3>1. NoTask \in Jobs
        <4>1. <<>> \in Seq(Made) OBVIOUS
        <4> QED BY <4>1 DEF NoTask, Jobs
      <3> QED BY <1>4, <3>1 DEF Crash
    <2>5. Steady BY <1>0, <1>4, <2>1, <2>2, <2>3, <2>4 DEF Crash, Steady
    <2> QED BY <2>5, TypedSteady
  <1>5. ASSUME NEW d \in Sessions, Load(d) PROVE cur' \in Sessions /\ conv' \in Seq(Made)
    <2>1. log[d] \in Seq(0 .. made) /\ Torn \notin Range(log[d]) BY <1>0, <1>5 DEF Load, Loadable
    <2>2. log[d] \in Seq(Made) BY <1>0, <2>1, WholeFacts DEF Made
    <2> QED BY <1>5, <2>2 DEF Load
  <1>6. CASE Restart
    <2>1. cur' \in Sessions /\ conv' \in Seq(Made)
      <3>1. CASE \E d \in Sessions : Load(d) BY <1>5, <3>1
      <3>2. CASE \E d \in Sessions : cur' = d /\ UNCHANGED conv BY <1>0, <3>2
      <3> QED BY <1>6, <3>1, <3>2 DEF Restart
    <2>2. Steady BY <1>0, <1>6, <2>1 DEF Restart, Steady
    <2> QED BY <2>2, TypedSteady
  <1>7. CASE Rebind
    <2>1. cur' \in Sessions /\ conv' \in Seq(Made) BY <1>5, <1>7 DEF Rebind
    <2>2. Steady BY <1>0, <1>7, <2>1 DEF Rebind, Steady
    <2> QED BY <2>2, TypedSteady
  <1>8. CASE UNCHANGED vars
    <2>1. Steady BY <1>0, <1>8 DEF vars, Steady
    <2> QED BY <2>1, TypedSteady
  <1>9. ASSUME NEW s \in Savers,
               \/ RequestSave(s) \/ PatchMetadata(s)
               \/ ReadMetadata(s) \/ WriteMessages(s) \/ ReplaceMetadata(s)
               \/ SaveReturns(s) \/ WriteFails(s) \/ CancelSave(s)
        PROVE  Typed'
    <2>0. /\ task[s] \in Jobs
          /\ task[s].pc # "idle" => task[s].dir \in Sessions
          /\ task[s].pc \in {"log", "replace"} => task[s].old \in Counts
      BY <1>0 DEF Working, Works, Jobs
    <2>1. CASE RequestSave(s)
      <3>1. PICK p \in {"read", "wait"} : p = Acquired(lockq, s) BY DEF Acquired
      <3>2. task' \in [Savers -> Jobs]
        <4>1. [NoTask EXCEPT !.pc = p, !.dir = cur, !.snap = conv] \in Jobs BY JobFacts
        <4> QED BY <1>0, <2>1, <3>1, <4>1 DEF RequestSave
      <3>3. lockq' \in Seq(Savers) BY <1>0, <2>1 DEF RequestSave
      <3>4. Steady BY <1>0, <2>1, <3>2, <3>3, SMTT(30) DEF RequestSave, Steady
      <3> QED BY <3>4, TypedSteady
    <2>2. CASE PatchMetadata(s)
      <3>1. PICK p \in {"read", "wait"} : p = Acquired(lockq, s) BY DEF Acquired
      <3>2. task' \in [Savers -> Jobs]
        <4>1. [NoTask EXCEPT !.pc = p, !.kind = "patch", !.dir = cur] \in Jobs BY JobFacts
        <4> QED BY <1>0, <2>2, <3>1, <4>1 DEF PatchMetadata
      <3>3. lockq' \in Seq(Savers) BY <1>0, <2>2 DEF PatchMetadata
      <3>4. patches' \in 0 .. MaxPatches BY <1>0, <2>2, LogAssumption, SMTT(30) DEF PatchMetadata
      <3>5. Steady BY <1>0, <2>2, <3>2, <3>3, <3>4 DEF PatchMetadata, Steady
      <3> QED BY <3>5, TypedSteady
    <2>3. CASE ReadMetadata(s)
      <3>1. PICK p \in {"replace", "done", "log"} :
               task' = [task EXCEPT ![s].old = Known(task[s].dir), ![s].pc = p]
        BY <2>3 DEF ReadMetadata, Known
      <3>2. Known(task[s].dir) \in Counts BY <2>0, <2>3, SomeMetadata DEF ReadMetadata
      <3>3. task' \in [Savers -> Jobs] BY <1>0, <2>0, <3>1, <3>2, JobFacts
      <3>4. Steady BY <1>0, <2>3, <3>3 DEF ReadMetadata, Steady
      <3> QED BY <3>4, TypedSteady
    <2>4. CASE WriteMessages(s)
      <3>1. task[s].pc = "log" /\ task[s].dir \in Sessions /\ task[s].snap \in Seq(Made)
        BY <2>0, <2>4 DEF WriteMessages, Jobs
      <3>2. made \in Nat /\ task[s].snap \in Seq(1 .. made) /\ task[s].old.total \in Nat
        BY <1>0, <2>0, <3>1 DEF Counts, Made
      <3>3. log[task[s].dir] \in Seq(0 .. made) BY <1>0, <3>1
      <3>4. Appends(task[s]) => Extended(log[task[s].dir], NewLines(task[s])) \in Seq(0 .. made)
        BY <3>2, <3>3, NewLinesFacts, ExtendedFacts
      <3>5. 1 .. made \subseteq 0 .. made BY <3>2
      <3>6. task[s].snap \in Seq(0 .. made) BY <3>2, <3>5, SeqWidens
      <3>7. log' \in [Sessions -> Seq(0 .. made)] BY <1>0, <2>4, <3>4, <3>6 DEF WriteMessages
      <3>8. wrote' \in [Sessions -> Seq(Made)] BY <1>0, <2>4, <3>1 DEF WriteMessages
      <3>9. task' \in [Savers -> Jobs] BY <1>0, <2>4, JobFacts DEF WriteMessages
      <3>10. Steady BY <1>0, <2>4, <3>7, <3>8, <3>9 DEF WriteMessages, Steady
      <3> QED BY <3>10, TypedSteady
    <2>5. CASE ReplaceMetadata(s)
      <3>1. NewMetadata(task[s]) \in Counts
        <4>1. CASE task[s].kind = "patch" BY <2>0, <2>5, <4>1 DEF ReplaceMetadata, NewMetadata
        <4> QED BY <4>1, SavedMetadata
      <3>2. meta' \in [Sessions -> Counts \cup {None}] BY <1>0, <2>0, <2>5, <3>1, SMTT(30) DEF ReplaceMetadata
      <3>3. task' \in [Savers -> Jobs] BY <1>0, <2>5, JobFacts DEF ReplaceMetadata
      <3>4. Steady BY <1>0, <2>5, <3>2, <3>3 DEF ReplaceMetadata, Steady
      <3> QED BY <3>4, TypedSteady
    <2>6. CASE SaveReturns(s)
      <3>1. task' \in [Savers -> Jobs] /\ lockq' \in Seq(Savers) BY <2>6, ReleaseFacts DEF SaveReturns
      <3>2. task[s].dir \in Sessions /\ task[s].snap \in Seq(Made) BY <2>0, <2>6 DEF SaveReturns, Jobs
      <3>3. acked' \in [Sessions -> Seq(Made)] BY <1>0, <2>6, <3>2 DEF SaveReturns
      <3>4. removed' \in [Sessions -> SUBSET Made]
        <4>1. ASSUME NEW d \in Sessions PROVE Range(acked[d]) \subseteq Made
          <5>1. acked[d] \in Seq(Made) BY <1>0
          <5>2. DOMAIN acked[d] = 1 .. Len(acked[d]) BY <5>1
          <5> QED BY <5>1, <5>2 DEF Range
        <4>2. ((removed[task[s].dir] \cup Range(acked[task[s].dir])) \ Range(task[s].snap)) \in SUBSET Made
          BY <1>0, <3>2, <4>1
        <4>3. \/ removed' = [removed EXCEPT ![task[s].dir] =
                        (@ \cup Range(acked[task[s].dir])) \ Range(task[s].snap)]
              \/ removed' = removed
          BY <2>6 DEF SaveReturns
        <4> QED BY <1>0, <3>2, <4>2, <4>3
      <3>5. Steady BY <1>0, <2>6, <3>1, <3>3, <3>4 DEF SaveReturns, Steady
      <3> QED BY <3>5, TypedSteady
    <2>7. CASE WriteFails(s)
      <3>1. task' \in [Savers -> Jobs] /\ lockq' \in Seq(Savers) BY <2>7, ReleaseFacts DEF WriteFails
      <3>2. faults' \in Seq(Faults) BY <2>7, FaultFacts DEF WriteFails
      <3>3. log' \in [Sessions -> Seq(0 .. made)] BY <1>0, <1>10, <2>7 DEF WriteFails
      <3>4. Steady BY <1>0, <2>7, <3>1, <3>2, <3>3 DEF WriteFails, Steady
      <3> QED BY <3>4, TypedSteady
    <2>8. CASE CancelSave(s)
      <3>1. faults' \in Seq(Faults) BY <2>8, FaultFacts DEF CancelSave
      <3>2. lockq' \in Seq(Savers)
        <4>1. lockq' = RemoveFirst(lockq, s) BY <2>8 DEF CancelSave
        <4> QED BY <1>0, <4>1, LeavesQueue
      <3>3. task' \in [Savers -> Jobs]
        <4>1. task' = [t \in Savers |->
                 IF t = s THEN IF task[s].pc = "wait" THEN NoTask ELSE [task[s] EXCEPT !.orphan = TRUE]
                 ELSE Woken(s, t)]
          BY <2>8 DEF CancelSave, Woken
        <4>2. \A t \in Savers : Woken(s, t) \in Jobs BY JobFacts DEF Woken
        <4>3. NoTask \in Jobs /\ [task[s] EXCEPT !.orphan = TRUE] \in Jobs BY JobFacts
        <4> QED BY <4>1, <4>2, <4>3
      <3>4. patches' \in 0 .. MaxPatches BY <1>0, <2>8, LogAssumption, SMTT(30) DEF CancelSave
      <3>5. Steady BY <1>0, <2>8, <3>1, <3>2, <3>3, <3>4 DEF CancelSave, Steady
      <3> QED BY <3>5, TypedSteady
    <2> QED BY <1>9, <2>1, <2>2, <2>3, <2>4, <2>5, <2>6, <2>7, <2>8
  <1> QED BY <1>1, <1>2, <1>3, <1>4, <1>6, <1>7, <1>8, <1>9 DEF Next

-----------------------------------------------------------------------------
(* What a task works with. *)

LEMMA WorkingInit == Init => Working
  BY DEF Init, Working, Works, Saves, NoTask

(* A task that does not move, while the conversation stays or it saves none of it; one
   that gets the lock; one that ends.                                        *)
LEMMA WorksOn ==
    ASSUME NEW s \in Savers, Works(s), task \in [Savers -> Jobs],
           \/ task'[s] = task[s] /\ (~Saves(s) \/ UNCHANGED <<cur, conv>>)
           \/ task'[s] = NoTask
           \/ task[s].pc = "wait" /\ task'[s] = [task[s] EXCEPT !.pc = "read"] /\ UNCHANGED <<cur, conv>>
    PROVE  Works(s)'
  <1>1. task[s] \in Jobs OBVIOUS
  <1>2. CASE task'[s] = task[s] /\ (~Saves(s) \/ UNCHANGED <<cur, conv>>)
    BY <1>2 DEF Works, Saves
  <1>3. CASE task'[s] = NoTask BY <1>3 DEF Works, Saves, NoTask
  <1>4. CASE task[s].pc = "wait" /\ task'[s] = [task[s] EXCEPT !.pc = "read"] /\ UNCHANGED <<cur, conv>>
    <2>1. /\ task'[s].pc = "read" /\ task'[s].kind = task[s].kind /\ task'[s].dir = task[s].dir
          /\ task'[s].snap = task[s].snap /\ task'[s].orphan = task[s].orphan
      BY <1>1, <1>4 DEF Jobs
    <2>2. task[s].pc # "idle" BY <1>4
    <2> QED BY <1>4, <2>1, <2>2 DEF Works, Saves
  <1> QED BY <1>2, <1>3, <1>4

LEMMA WokenWorks ==
    ASSUME NEW s \in Savers, NEW t \in Savers, Works(t), task \in [Savers -> Jobs],
           task'[t] = Woken(s, t), UNCHANGED <<cur, conv>>
    PROVE  Works(t)'
  <1>1. task'[t] = task[t] \/ (task[t].pc = "wait" /\ task'[t] = [task[t] EXCEPT !.pc = "read"])
    BY DEF Woken
  <1> QED BY <1>1, WorksOn

LEMMA WorkingNext == ASSUME Typed, Working, [Next]_vars PROVE Working'
  <1> USE DEF disk, memory, history
  <1>1. task \in [Savers -> Jobs] /\ \A t \in Savers : Works(t) BY DEF Typed, Working
  <1>3. ~Busy => \A s \in Savers : ~Saves(s) BY DEF Busy, Saves
  <1>4. ASSUME up', \A t \in Savers : Works(t)' PROVE Working' BY <1>4 DEF Working
  <1>5. CASE NewMessage \/ Rewind \/ ResetSession
    <2>1. up' /\ ~Busy /\ UNCHANGED task
      BY <1>5 DEF NewMessage, Rewind, ResetSession, Converse
    <2> QED BY <1>1, <1>3, <1>4, <2>1, WorksOn
  <1>6. CASE Crash
    <2>1. up' = FALSE /\ conv' = <<>> /\ \A t \in Savers : task'[t] = NoTask BY <1>6 DEF Crash
    <2> QED BY <1>1, <2>1, WorksOn DEF Working
  <1>7. CASE Restart
    <2>1. up' /\ UNCHANGED task /\ \A t \in Savers : task[t] = NoTask BY <1>7 DEF Restart, Working
    <2> QED BY <1>1, <1>4, <2>1, WorksOn
  <1>8. CASE Rebind
    <2>1. up' /\ UNCHANGED task /\ \A t \in Savers : ~Saves(t) BY <1>8 DEF Rebind, Saves
    <2> QED BY <1>1, <1>4, <2>1, WorksOn
  <1>9. CASE UNCHANGED vars
    BY <1>9 DEF vars, Working, Works, Saves
  <1>10. ASSUME NEW s \in Savers,
               \/ RequestSave(s) \/ PatchMetadata(s)
               \/ ReadMetadata(s) \/ WriteMessages(s) \/ ReplaceMetadata(s)
               \/ SaveReturns(s) \/ WriteFails(s) \/ CancelSave(s)
        PROVE  Working'
    <2>0. task[s] \in Jobs /\ Works(s) /\ cur \in Sessions BY <1>1 DEF Typed
    <2>1. ASSUME up', UNCHANGED <<cur, conv>>, Works(s)', \A t \in Savers \ {s} : task'[t] = task[t]
          PROVE  Working'
      BY <1>1, <1>4, <2>1, WorksOn
    <2>2. CASE RequestSave(s)
      <3>1. task'[s] = [NoTask EXCEPT !.pc = Acquired(lockq, s), !.dir = cur, !.snap = conv]
        BY <1>1, <2>2 DEF RequestSave
      <3>2. Works(s)' BY <2>0, <2>2, <3>1 DEF RequestSave, Works, Saves, NoTask, Acquired
      <3> QED BY <1>1, <2>1, <2>2, <3>2 DEF RequestSave
    <2>3. CASE PatchMetadata(s)
      <3>1. task'[s] = [NoTask EXCEPT !.pc = Acquired(lockq, s), !.kind = "patch", !.dir = cur]
        BY <1>1, <2>3 DEF PatchMetadata
      <3>2. Works(s)' BY <2>0, <2>3, <3>1 DEF PatchMetadata, Works, Saves, NoTask, Acquired
      <3> QED BY <1>1, <2>1, <2>3, <3>2 DEF PatchMetadata
    <2>4. CASE ReadMetadata(s)
      <3>1. PICK p \in {"replace", "done", "log"} :
               /\ task' = [task EXCEPT ![s].old = Known(task[s].dir), ![s].pc = p]
               /\ task[s].kind = "patch" => p = "replace"
        BY <2>4 DEF ReadMetadata, Known
      <3>2. task[s].dir \in Sessions BY <2>0, <2>4 DEF ReadMetadata, Works
      <3>3. Known(task[s].dir) # None BY <3>2, SomeMetadata
      <3>4. /\ task'[s].pc = p /\ task'[s].old # None /\ task'[s].kind = task[s].kind
            /\ task'[s].dir = task[s].dir /\ task'[s].snap = task[s].snap
            /\ task'[s].orphan = task[s].orphan
        BY <1>1, <2>0, <3>1, <3>3 DEF Jobs
      <3>5. task[s].kind \in {"save", "patch"} BY <2>0 DEF Jobs
      <3>6. UNCHANGED <<cur, conv>> /\ task[s].pc = "read" BY <2>4 DEF ReadMetadata
      <3>7. Works(s)' BY <2>0, <3>1, <3>2, <3>4, <3>5, <3>6 DEF Works, Saves
      <3> QED BY <1>1, <2>1, <2>4, <3>1, <3>7 DEF ReadMetadata
    <2>5. CASE WriteMessages(s) \/ ReplaceMetadata(s)
      <3>1. PICK p \in {"replace", "done"} : task' = [task EXCEPT ![s].pc = p]
        BY <2>5 DEF WriteMessages, ReplaceMetadata
      <3>2. /\ task'[s].pc = p /\ task'[s].old = task[s].old /\ task'[s].kind = task[s].kind
            /\ task'[s].dir = task[s].dir /\ task'[s].snap = task[s].snap
            /\ task'[s].orphan = task[s].orphan
        BY <1>1, <2>0, <3>1 DEF Jobs
      <3>3. UNCHANGED <<cur, conv>> /\ task[s].pc \in {"log", "replace"} /\ up'
        BY <2>5 DEF WriteMessages, ReplaceMetadata
      <3>4. Works(s)' BY <2>0, <3>1, <3>2, <3>3 DEF Works, Saves
      <3>5. \A t \in Savers \ {s} : task'[t] = task[t] BY <1>1, <3>1
      <3> QED BY <2>1, <3>3, <3>4, <3>5
    <2>6. CASE SaveReturns(s) \/ WriteFails(s)
      <3>1. Release(s) /\ up' /\ UNCHANGED <<cur, conv>> BY <2>6 DEF SaveReturns, WriteFails, Fault
      <3>2. task'[s] = NoTask /\ \A t \in Savers \ {s} : task'[t] = Woken(s, t) BY <3>1, ReleaseFacts
      <3>3. Works(s)' BY <1>1, <3>2, WorksOn
      <3>4. \A t \in Savers \ {s} : Works(t)' BY <1>1, <3>1, <3>2, WokenWorks
      <3> QED BY <1>4, <3>1, <3>3, <3>4
    <2>7. CASE CancelSave(s)
      <3>1. up' /\ UNCHANGED <<cur, conv>> BY <2>7 DEF CancelSave, Fault
      <3>2. task' = [t \in Savers |->
                 IF t = s THEN IF task[s].pc = "wait" THEN NoTask ELSE [task[s] EXCEPT !.orphan = TRUE]
                 ELSE Woken(s, t)]
        BY <2>7 DEF CancelSave, Woken
      <3>3. \A t \in Savers \ {s} : task'[t] = Woken(s, t) BY <3>2
      <3>4. \A t \in Savers \ {s} : Works(t)' BY <1>1, <3>1, <3>3, WokenWorks
      <3>5. CASE task[s].pc = "wait"
        <4>1. task'[s] = NoTask BY <3>2, <3>5
        <4>2. Works(s)' BY <1>1, <4>1, WorksOn
        <4> QED BY <1>4, <3>1, <3>4, <4>2
      <3>6. CASE task[s].pc # "wait"
        <4>1. task'[s] = [task[s] EXCEPT !.orphan = TRUE] BY <3>2, <3>6
        <4>2. /\ task'[s].orphan = TRUE /\ task'[s].pc = task[s].pc /\ task'[s].kind = task[s].kind
              /\ task'[s].dir = task[s].dir /\ task'[s].old = task[s].old
          BY <2>0, <4>1 DEF Jobs
        <4>3. Works(s)' BY <2>0, <4>2 DEF Works, Saves
        <4> QED BY <1>4, <3>1, <3>4, <4>3
      <3> QED BY <3>5, <3>6
    <2> QED BY <1>10, <2>2, <2>3, <2>4, <2>5, <2>6, <2>7
  <1> QED BY <1>5, <1>6, <1>7, <1>8, <1>9, <1>10 DEF Next

-----------------------------------------------------------------------------
(* The lock, as long as no save is cancelled. *)

LEMMA LockedInit == Init => Locked
  <1> SUFFICES ASSUME Init PROVE Locked OBVIOUS
  <1>1. lockq = <<>> /\ \A s \in Savers : task[s] = NoTask BY DEF Init
  <1>2. IsInjective(<<>>) /\ Range(<<>>) = {}
    <2>1. DOMAIN <<>> = {} OBVIOUS
    <2> QED BY <2>1 DEF IsInjective, Range
  <1> QED BY <1>1, <1>2 DEF Locked, Locks, Active, NoTask

(* One task at most works on the files. *)
LEMMA Alone ==
    ASSUME Locked, Calm, NEW s \in Savers, NEW t \in Savers, Active(s), Active(t)
    PROVE  s = t
  BY DEF Locked, Locks

(* Once a save was cancelled, that remains so. *)
LEMMA CalmBefore == ASSUME Typed, [Next]_vars, Calm' PROVE Calm
  <1>1. ASSUME NEW kind, Fault(kind) PROVE Range(faults) \subseteq Range(faults')
    BY <1>1, FaultFacts
  <1>2. CASE UNCHANGED vars \/ NewMessage \/ Rewind \/ ResetSession \/ Restart \/ Rebind
    BY <1>2 DEF vars, NewMessage, Rewind, ResetSession, Restart, Rebind, Converse, Calm
  <1>3. CASE Crash BY <1>1, <1>3 DEF Crash, Calm
  <1>4. ASSUME NEW s \in Savers,
               \/ RequestSave(s) \/ PatchMetadata(s)
               \/ ReadMetadata(s) \/ WriteMessages(s) \/ ReplaceMetadata(s)
               \/ SaveReturns(s) \/ WriteFails(s) \/ CancelSave(s)
        PROVE  Calm
    <2>1. CASE WriteFails(s) \/ CancelSave(s) BY <1>1, <2>1 DEF WriteFails, CancelSave, Calm
    <2>2. CASE ~(WriteFails(s) \/ CancelSave(s))
      BY <1>4, <2>2 DEF RequestSave, PatchMetadata, ReadMetadata, WriteMessages, ReplaceMetadata,
                        SaveReturns, Calm
    <2> QED BY <2>1, <2>2
  <1> QED BY <1>2, <1>3, <1>4 DEF Next

(* The lock is where it was, and the task; one that ends gives it to the next. *)
LEMMA LocksOn ==
    ASSUME NEW s \in Savers, Locks(s), task'[s] = task[s], UNCHANGED <<lockq, meta>>
    PROVE  Locks(s)'
  BY DEF Locks, Active, Known

LEMMA LockPasses ==
    ASSUME Typed, Locked, Calm, NEW s \in Savers, Active(s), Release(s), UNCHANGED meta
    PROVE  IsInjective(lockq)' /\ \A t \in Savers : Locks(t)'
  <1>1. lockq \in Seq(Savers) /\ IsInjective(lockq) /\ lockq # <<>> /\ Head(lockq) = s
    BY DEF Typed, Locked, Locks
  <1>2. PICK rest : rest = RemoveFirst(lockq, s) OBVIOUS
  <1>3. rest \in Seq(Savers) /\ IsInjective(rest) /\ Range(rest) = Range(lockq) \ {s}
    BY <1>1, <1>2, LeaveQueue
  <1>4. lockq' = rest /\ task'[s] = NoTask /\ \A t \in Savers \ {s} : task'[t] = Woken(s, t)
    BY <1>2, ReleaseFacts
  <1>5. Locks(s)' BY <1>3, <1>4 DEF Locks, Active, NoTask
  <1>6. ASSUME NEW t \in Savers \ {s} PROVE Locks(t)'
    <2>1. Locks(t) /\ ~Active(t) BY Alone DEF Locked
    <2>2. task[t] \in Jobs BY DEF Typed
    <2>3. t \in Range(rest) <=> t \in Range(lockq) BY <1>3
    <2>4. CASE rest # <<>> /\ t = Head(rest) /\ task[t].pc = "wait"
      <3>1. task'[t] = [task[t] EXCEPT !.pc = "read"] BY <1>2, <1>4, <2>4 DEF Woken
      <3>2. /\ task'[t].pc = "read" /\ task'[t].orphan = task[t].orphan
            /\ task'[t].kind = task[t].kind /\ task'[t].dir = task[t].dir
        BY <2>2, <3>1 DEF Jobs
      <3> QED BY <1>4, <2>1, <2>3, <2>4, <3>2 DEF Locks
    <2>5. CASE ~(rest # <<>> /\ t = Head(rest) /\ task[t].pc = "wait")
      <3>1. task'[t] = task[t] BY <1>2, <1>4, <2>5 DEF Woken
      <3> QED BY <1>4, <2>1, <2>3, <3>1 DEF Locks, Active
    <2> QED BY <2>4, <2>5
  <1> QED BY <1>3, <1>4, <1>5, <1>6

(* Who asks for the lock. *)
LEMMA LockAsked ==
    ASSUME Typed, Locked, Calm, NEW s \in Savers, task[s].pc = "idle", UNCHANGED meta,
           lockq' = Append(lockq, s), \A t \in Savers \ {s} : task'[t] = task[t],
           task'[s].pc = Acquired(lockq, s), ~task'[s].orphan,
           task'[s].kind = "patch" => meta[task'[s].dir] # None
    PROVE  IsInjective(lockq)' /\ \A t \in Savers : Locks(t)'
  <1>1. lockq \in Seq(Savers) /\ IsInjective(lockq) /\ s \notin Range(lockq)
    BY DEF Typed, Locked, Locks
  <1>2. /\ lockq' \in Seq(Savers) /\ IsInjective(lockq') /\ Range(lockq') = Range(lockq) \cup {s}
        /\ lockq # <<>> => Head(lockq') = Head(lockq)
    BY <1>1, JoinQueue
  <1>3. lockq' # <<>> /\ (lockq = <<>> => Head(lockq') = s) BY <1>1
  <1>4. ASSUME NEW t \in Savers \ {s} PROVE Locks(t)'
    <2>1. Locks(t) /\ task'[t] = task[t] BY DEF Locked
    <2> QED BY <1>2, <1>3, <2>1 DEF Locks, Active, Known
  <1>5. Locks(s)'
    <2>1. task'[s].pc \in {"read", "wait"} /\ (task'[s].pc = "read" => lockq = <<>>)
      BY DEF Acquired
    <2> QED BY <1>2, <1>3, <2>1 DEF Locks, Active
  <1> QED BY <1>2, <1>4, <1>5

(* The holder goes on: nobody else works on the files. *)
LEMMA LockKept ==
    ASSUME Typed, Locked, Calm, NEW s \in Savers, Active(s), UNCHANGED lockq,
           \A t \in Savers \ {s} : task'[t] = task[t], Locks(s)',
           \A d \in Sessions : meta[d] # None => meta'[d] # None, Working
    PROVE  IsInjective(lockq)' /\ \A t \in Savers : Locks(t)'
  <1>1. ASSUME NEW t \in Savers \ {s} PROVE Locks(t)'
    <2>1. Locks(t) /\ ~Active(t) /\ task'[t] = task[t] BY Alone DEF Locked
    <2>2. task[t].pc # "idle" => task[t].dir \in Sessions BY DEF Working, Works
    <2> QED BY <2>1, <2>2 DEF Locks, Active
  <1> QED BY <1>1 DEF Locked

LEMMA LockedNext == ASSUME Typed, Working, Locked, [Next]_vars PROVE Locked'
  <1> SUFFICES ASSUME Calm' PROVE IsInjective(lockq)' /\ \A t \in Savers : Locks(t)' BY DEF Locked
  <1> USE DEF disk, memory, history
  <1>1. Calm /\ IsInjective(lockq) /\ \A t \in Savers : Locks(t) BY CalmBefore DEF Locked
  <1>2. task \in [Savers -> Jobs] /\ \A t \in Savers : Works(t) BY DEF Typed, Working
  <1>3. CASE UNCHANGED vars \/ NewMessage \/ Rewind \/ ResetSession \/ Restart \/ Rebind
    <2>1. UNCHANGED <<task, lockq, meta>>
      BY <1>3 DEF vars, NewMessage, Rewind, ResetSession, Restart, Rebind, Converse
    <2> QED BY <1>1, <2>1, LocksOn
  <1>4. CASE Crash
    <2>1. lockq' = <<>> /\ \A s \in Savers : task'[s] = NoTask BY <1>4 DEF Crash
    <2>2. IsInjective(<<>>) /\ Range(<<>>) = {}
      <3>1. DOMAIN <<>> = {} OBVIOUS
      <3> QED BY <3>1 DEF IsInjective, Range
    <2> QED BY <2>1, <2>2 DEF Locks, Active, NoTask
  <1>5. ASSUME NEW s \in Savers,
               \/ RequestSave(s) \/ PatchMetadata(s)
               \/ ReadMetadata(s) \/ WriteMessages(s) \/ ReplaceMetadata(s)
               \/ SaveReturns(s) \/ WriteFails(s) \/ CancelSave(s)
        PROVE  IsInjective(lockq)' /\ \A t \in Savers : Locks(t)'
    <2>0. task[s] \in Jobs /\ Works(s) /\ Locks(s) BY <1>1, <1>2
    <2>1. CASE RequestSave(s)
      <3>1. task' = [task EXCEPT ![s] = [NoTask EXCEPT !.pc = Acquired(lockq, s), !.dir = cur, !.snap = conv]]
            /\ task[s].pc = "idle" /\ lockq' = Append(lockq, s) /\ UNCHANGED meta
        BY <2>1 DEF RequestSave
      <3>2. task'[s].pc = Acquired(lockq, s) /\ ~task'[s].orphan /\ task'[s].kind = "save"
        BY <1>2, <3>1 DEF NoTask
      <3>3. \A t \in Savers \ {s} : task'[t] = task[t] BY <1>2, <3>1
      <3> QED BY <1>1, <3>1, <3>2, <3>3, LockAsked
    <2>2. CASE PatchMetadata(s)
      <3>1. task' = [task EXCEPT ![s] = [NoTask EXCEPT !.pc = Acquired(lockq, s), !.kind = "patch", !.dir = cur]]
            /\ task[s].pc = "idle" /\ lockq' = Append(lockq, s) /\ UNCHANGED meta /\ meta[cur] # None
        BY <2>2 DEF PatchMetadata
      <3>2. task'[s].pc = Acquired(lockq, s) /\ ~task'[s].orphan /\ task'[s].dir = cur
        BY <1>2, <3>1 DEF NoTask
      <3>3. \A t \in Savers \ {s} : task'[t] = task[t] BY <1>2, <3>1
      <3> QED BY <1>1, <3>1, <3>2, <3>3, LockAsked
    <2>3. CASE ReadMetadata(s)
      <3>1. PICK p \in {"replace", "done", "log"} :
               /\ task' = [task EXCEPT ![s].old = Known(task[s].dir), ![s].pc = p]
               /\ task[s].kind = "patch" => p = "replace"
        BY <2>3 DEF ReadMetadata, Known
      <3>2. /\ task'[s].pc = p /\ task'[s].old = Known(task[s].dir) /\ task'[s].kind = task[s].kind
            /\ task'[s].dir = task[s].dir /\ task'[s].orphan = task[s].orphan
        BY <1>2, <2>0, <3>1 DEF Jobs
      <3>3. task[s].pc = "read" /\ UNCHANGED <<lockq, meta>> BY <2>3 DEF ReadMetadata
      <3>4. task[s].dir \in Sessions BY <2>0, <3>3 DEF Works
      <3>5. meta[task[s].dir] # None => Known(task[s].dir) = meta[task[s].dir] BY DEF Known
      <3>6. Known(task[s].dir)' = Known(task[s].dir) BY <3>2, <3>3 DEF Known
      <3>7. Locks(s)' BY <2>0, <3>1, <3>2, <3>3, <3>5, <3>6 DEF Locks, Active
      <3>8. \A t \in Savers \ {s} : task'[t] = task[t] BY <1>2, <3>1
      <3> QED BY <1>1, <3>3, <3>7, <3>8, LockKept DEF Active
    <2>4. CASE WriteMessages(s)
      <3>1. task' = [task EXCEPT ![s].pc = "replace"] /\ task[s].pc = "log" /\ UNCHANGED <<lockq, meta>>
        BY <2>4 DEF WriteMessages
      <3>2. /\ task'[s].pc = "replace" /\ task'[s].kind = task[s].kind
            /\ task'[s].dir = task[s].dir /\ task'[s].orphan = task[s].orphan
        BY <1>2, <2>0, <3>1 DEF Jobs
      <3>3. task[s].kind = "save" BY <2>0, <3>1 DEF Works
      <3>4. Locks(s)' BY <2>0, <3>1, <3>2, <3>3 DEF Locks, Active
      <3>5. \A t \in Savers \ {s} : task'[t] = task[t] BY <1>2, <3>1
      <3> QED BY <1>1, <3>1, <3>4, <3>5, LockKept DEF Active
    <2>5. CASE ReplaceMetadata(s)
      <3>1. /\ task' = [task EXCEPT ![s].pc = "done"] /\ task[s].pc = "replace" /\ UNCHANGED lockq
            /\ meta' = [meta EXCEPT ![task[s].dir] = NewMetadata(task[s])]
        BY <2>5 DEF ReplaceMetadata
      <3>2. /\ task'[s].pc = "done" /\ task'[s].kind = task[s].kind
            /\ task'[s].dir = task[s].dir /\ task'[s].orphan = task[s].orphan
        BY <1>2, <2>0, <3>1 DEF Jobs
      <3>3. task[s].dir \in Sessions /\ task[s].old # None BY <2>0, <3>1 DEF Works
      <3>4. NewMetadata(task[s]) # None
        <4>1. CASE task[s].kind = "patch" BY <3>3, <4>1 DEF NewMetadata
        <4> QED BY <4>1, SavedMetadata, SomeMetadata
      <3>5. meta \in [Sessions -> Counts \cup {None}] BY DEF Typed
      <3>6. meta'[task[s].dir] # None /\ \A d \in Sessions : meta[d] # None => meta'[d] # None
        BY <3>1, <3>3, <3>4, <3>5
      <3>7. Locks(s)' BY <2>0, <3>1, <3>2, <3>6 DEF Locks, Active
      <3>8. \A t \in Savers \ {s} : task'[t] = task[t] BY <1>2, <3>1
      <3> QED BY <1>1, <3>1, <3>6, <3>7, <3>8, LockKept DEF Active
    <2>6. CASE SaveReturns(s)
      <3>1. Active(s) /\ Release(s) /\ UNCHANGED meta BY <2>6 DEF SaveReturns, Active
      <3> QED BY <1>1, <3>1, LockPasses
    <2>7. CASE WriteFails(s)
      <3>1. Active(s) /\ Release(s) /\ UNCHANGED meta BY <2>7 DEF WriteFails, Active
      <3> QED BY <1>1, <3>1, LockPasses
    <2>8. CASE CancelSave(s)
      <3>1. "cancel" \in Range(faults') BY <2>8, FaultFacts DEF CancelSave
      <3> QED BY <3>1 DEF Calm
    <2> QED BY <1>5, <2>1, <2>2, <2>3, <2>4, <2>5, <2>6, <2>7, <2>8
  <1> QED BY <1>3, <1>4, <1>5 DEF Next

-----------------------------------------------------------------------------
(* What the log and the metadata say, as long as nothing failed. *)

LEMMA CountedInit == Init => Counted
  <1> SUFFICES ASSUME Init PROVE Counted OBVIOUS
  <1>1. /\ conv = <<>> /\ log = wrote /\ cur \in Sessions
        /\ \A d \in Sessions : log[d] = <<>> /\ meta[d] = None
        /\ \A s \in Savers : task[s] = NoTask
    BY DEF Init
  <1>2. IsInjective(<<>>) /\ Elder(<<>>, <<>>)
    <2>1. DOMAIN <<>> = {} OBVIOUS
    <2> QED BY <2>1 DEF IsInjective, Elder
  <1> QED BY <1>1, <1>2 DEF Counted, Matches, Written, NoTask

(* The task goes on as it is about the files: it has written the log or has not. *)
Still(s) ==
    /\ Written(s)' <=> Written(s)
    /\ Written(s) => task'[s].dir = task[s].dir /\ task'[s].snap = task[s].snap

LEMMA CountedOn ==
    ASSUME Counted, faults = <<>>, UNCHANGED <<log, meta, wrote>>, IsInjective(conv'),
           Elder(log[cur'], conv'), \A s \in Savers : Still(s)
    PROVE  Counted'
  <1>1. \A d \in Sessions : Matches(d)' <=> Matches(d) BY DEF Matches
  <1>2. \A s \in Savers : Written(s)' => log'[task'[s].dir] = task'[s].snap
    BY DEF Counted, Still
  <1>3. ASSUME NEW d \in Sessions, \A s \in Savers : ~(Written(s)' /\ task'[s].dir = d)
        PROVE  Matches(d)'
    <2>1. \A s \in Savers : ~(Written(s) /\ task[s].dir = d) BY <1>3 DEF Still
    <2> QED BY <1>1, <2>1 DEF Counted
  <1> QED BY <1>2, <1>3 DEF Counted

(* Nothing that is loaded is torn or repeated. *)
LEMMA NothingFailed == faults = <<>> => Calm
  <1>1. DOMAIN <<>> = {} OBVIOUS
  <1> QED BY <1>1 DEF Calm, Range

(* A step that gets a task ready or ends one writes nothing. *)
LEMMA StillWaits ==
    ASSUME Typed, NEW s \in Savers, ~Written(s), NEW u \in Savers,
           RequestSave(s) \/ PatchMetadata(s) \/ ReadMetadata(s) \/ SaveReturns(s)
    PROVE  Still(u)
  <1>1. task \in [Savers -> Jobs] /\ task[s] \in Jobs /\ task[u] \in Jobs BY DEF Typed
  <1>2. CASE RequestSave(s)
    <2>1. task'[u] = IF u = s THEN [NoTask EXCEPT !.pc = Acquired(lockq, s), !.dir = cur, !.snap = conv]
                     ELSE task[u]
      BY <1>1, <1>2 DEF RequestSave
    <2> QED BY <2>1 DEF Still, Written, NoTask, Acquired
  <1>3. CASE PatchMetadata(s)
    <2>1. task'[u] = IF u = s THEN [NoTask EXCEPT !.pc = Acquired(lockq, s), !.kind = "patch", !.dir = cur]
                     ELSE task[u]
      BY <1>1, <1>3 DEF PatchMetadata
    <2> QED BY <2>1 DEF Still, Written, NoTask, Acquired
  <1>4. CASE ReadMetadata(s)
    <2>1. PICK p \in {"replace", "done", "log"} :
             /\ task' = [task EXCEPT ![s].old = Known(task[s].dir), ![s].pc = p]
             /\ p = "replace" => task[s].kind = "patch"
      BY <1>4 DEF ReadMetadata, Known
    <2>2. task'[s].pc = p /\ task'[s].kind = task[s].kind BY <1>1, <2>1 DEF Jobs
    <2>3. u # s => task'[u] = task[u] BY <1>1, <2>1
    <2> QED BY <2>1, <2>2, <2>3 DEF Still, Written
  <1>5. CASE SaveReturns(s)
    <2>1. Release(s) BY <1>5 DEF SaveReturns
    <2>2. task'[s] = NoTask /\ (u # s => task'[u] = Woken(s, u)) BY <2>1, ReleaseFacts
    <2>3. CASE u = s BY <2>2, <2>3 DEF Still, Written, NoTask
    <2>4. CASE u # s
      <3>1. CASE task'[u] = task[u] BY <3>1 DEF Still, Written
      <3>2. CASE task[u].pc = "wait" /\ task'[u] = [task[u] EXCEPT !.pc = "read"]
        <4>1. task'[u].pc = "read" BY <1>1, <3>2 DEF Jobs
        <4> QED BY <3>2, <4>1 DEF Still, Written
      <3> QED BY <2>2, <2>4, <3>1, <3>2 DEF Woken
    <2> QED BY <2>3, <2>4
  <1> QED BY <1>2, <1>3, <1>4, <1>5

(* What an append is based on: the lines that are there begin the conversation. *)
LEMMA AppendCompletes ==
    ASSUME Typed, Counted, faults = <<>>, Matches(cur), NEW t, t.old = Known(cur), t.snap = conv,
           Appends(t)
    PROVE  Extended(log[cur], NewLines(t)) = conv
  <1>1. PICK x : x = log[cur] OBVIOUS
  <1>2. PICK n : n = made OBVIOUS
  <1>3. n \in Nat /\ x \in Seq(0 .. n) /\ conv \in Seq(1 .. n)
    BY <1>1, <1>2, LogAssumption DEF Typed, Made
  <1>4. Elder(x, conv) BY <1>1 DEF Counted
  <1>5. t.old.total = Len(x) /\ (x # <<>> => t.old.fp = Last(x))
    <2>1. CASE meta[cur] = None BY <1>1, <2>1 DEF Matches, Known, NoMetadata
    <2>2. CASE meta[cur] # None BY <1>1, <2>2 DEF Matches, Known
    <2> QED BY <2>1, <2>2
  <1>6. Len(x) < Len(conv) /\ NewLines(t) = SubSeq(conv, Len(x) + 1, Len(conv))
    BY <1>5 DEF Appends, NewLines
  <1>7. x # <<>> => Len(x) \in 1 .. Len(x) /\ Last(x) = x[Len(x)] BY <1>3 DEF Last
  <1>8. x # <<>> => conv[Len(x)] = x[Len(x)]
    <2>1. ASSUME x # <<>> PROVE conv[Len(x)] = x[Len(x)]
      <3>1. Len(x) # 0 BY <1>7, <2>1
      <3>2. conv[t.old.total] = t.old.fp BY <1>5, <3>1 DEF Appends, BoundaryUnchanged
      <3> QED BY <1>5, <1>7, <2>1, <3>2
    <2> QED BY <2>1
  <1>9. \A i \in 1 .. Len(x) : x[i] = conv[i]
    <2>1. CASE x = <<>> BY <2>1
    <2>2. CASE x # <<>>
      <3>1. Len(x) \in 1 .. Len(x) /\ Len(x) \in 1 .. Len(conv) BY <1>3, <1>6, <1>7, <2>2
      <3>2. DOMAIN x = 1 .. Len(x) /\ DOMAIN conv = 1 .. Len(conv) BY <1>3
      <3>3. PICK c : c = Len(x) OBVIOUS
      <3>4. c \in DOMAIN x /\ c \in DOMAIN conv /\ x[c] = conv[c] BY <1>8, <2>2, <3>1, <3>2, <3>3
      <3>5. \A k \in 1 .. c : x[k] = conv[k] BY <1>4, <3>4 DEF Elder
      <3> QED BY <3>3, <3>5
    <2> QED BY <2>1, <2>2
  <1>10. x = <<>> \/ Last(x) # Torn
    <2>1. ASSUME x # <<>> PROVE Last(x) # Torn
      <3>1. PICK v \in 1 .. n : v = conv[Len(x)] BY <1>3, <1>6, <1>7, <2>1
      <3>2. v = Last(x) BY <1>7, <1>8, <2>1, <3>1
      <3> QED BY <1>3, <3>1, <3>2 DEF Torn
    <2> QED BY <2>1
  <1>11. NewLines(t) \in Seq(1 .. n)
    <2>1. t.snap \in Seq(1 .. n) /\ t.old.total \in Nat BY <1>3, <1>5
    <2> QED BY <1>3, <2>1, NewLinesFacts
  <1>12. Extended(x, NewLines(t)) = x \o NewLines(t) BY <1>3, <1>10, <1>11, ExtendedFacts
  <1>13. x \o SubSeq(conv, Len(x) + 1, Len(conv)) = conv
    <2>1. PICK N : N = 1 .. n OBVIOUS
    <2>2. PICK M : M = 0 .. n OBVIOUS
    <2>3. conv \in Seq(N) /\ x \in Seq(M) /\ N \subseteq M /\ Len(x) <= Len(conv)
      BY <1>3, <1>6, <2>1, <2>2
    <2> QED BY <1>9, <2>3, Completes
  <1> QED BY <1>1, <1>6, <1>12, <1>13

LEMMA CountedNext == ASSUME Typed, Working, Locked, Counted, [Next]_vars PROVE Counted'
  <1> SUFFICES ASSUME faults' = <<>> PROVE Counted' BY DEF Counted
  <1> USE DEF disk, memory, history
  <1>1. ASSUME NEW kind, Fault(kind) PROVE FALSE BY <1>1, FaultFacts
  <1>2. faults = <<>>
    <2>1. \/ faults' = faults \/ \E kind : Fault(kind)
      BY DEF Next, vars, NewMessage, Rewind, ResetSession, Restart, Rebind, Converse, Crash,
             RequestSave, PatchMetadata, ReadMetadata, WriteMessages, ReplaceMetadata, SaveReturns,
             WriteFails, CancelSave
    <2> QED BY <1>1, <2>1, SMTT(30)
  <1>3. Calm /\ (\A t \in Savers : Works(t) /\ Locks(t)) BY <1>2, NothingFailed DEF Working, Locked
  <1>4. /\ log = wrote /\ IsInjective(conv) /\ (\A d \in Sessions : IsInjective(log[d]))
        /\ Elder(log[cur], conv)
        /\ \A s \in Savers : Written(s) => log[task[s].dir] = task[s].snap
        /\ \A d \in Sessions : (\A s \in Savers : ~(Written(s) /\ task[s].dir = d)) => Matches(d)
    BY <1>2 DEF Counted
  <1>5. /\ task \in [Savers -> Jobs] /\ cur \in Sessions /\ conv \in Seq(Made) /\ made \in Nat
        /\ log \in [Sessions -> Seq(0 .. made)] /\ meta \in [Sessions -> Counts \cup {None}]
        /\ wrote \in [Sessions -> Seq(Made)]
    BY LogAssumption DEF Typed
  <1>6. UNCHANGED task => \A s \in Savers : Still(s) BY DEF Still, Written
  <1>7. CASE UNCHANGED vars
    BY <1>2, <1>4, <1>6, <1>7, CountedOn DEF vars
  <1>8. CASE NewMessage
    <2>1. PICK m : m = made' OBVIOUS
    <2>2. PICK n \in Nat : n = made BY <1>5
    <2>3. PICK x : x = log[cur] OBVIOUS
    <2>4. PICK y : y = conv OBVIOUS
    <2>5. m = n + 1 /\ x \in Seq(0 .. n) /\ y \in Seq(1 .. n) /\ IsInjective(y) /\ Elder(x, y)
      BY <1>4, <1>5, <1>8, <2>1, <2>2, <2>3, <2>4 DEF NewMessage, Made
    <2>6. /\ IsInjective(Append(y, m)) /\ Elder(x, Append(y, m))
          /\ y # <<>> => /\ IsInjective(Front(y) \o <<m, Last(y)>>) /\ Elder(x, Front(y) \o <<m, Last(y)>>)
                         /\ IsInjective(Append(Front(y), m)) /\ Elder(x, Append(Front(y), m))
      BY <2>5, ElderEdited
    <2>7. IsInjective(conv') /\ Elder(x, conv')
      BY <1>8, <2>1, <2>4, <2>6 DEF NewMessage, Converse
    <2>8. UNCHANGED <<log, meta, wrote, cur, task>> BY <1>8 DEF NewMessage, Converse
    <2> QED BY <1>2, <1>6, <2>3, <2>7, <2>8, CountedOn
  <1>9. CASE Rewind
    <2>1. PICK k \in 0 .. Len(conv) - 1 : Converse(SubSeq(conv, 1, k)) BY <1>9 DEF Rewind
    <2>2. k \in 0 .. Len(conv) BY <1>5, <2>1
    <2>3. IsInjective(conv') BY <1>4, <1>5, <2>1, <2>2, PrefixFacts DEF Converse
    <2>4. log[cur] \in Seq(0 .. made) BY <1>5
    <2>5. Elder(log[cur], conv') BY <1>4, <1>5, <2>1, <2>2, <2>4, ElderRewound DEF Converse
    <2>6. UNCHANGED <<log, meta, wrote, cur, task>> BY <2>1 DEF Converse
    <2> QED BY <1>2, <1>6, <2>3, <2>5, <2>6, CountedOn
  <1>10. IsInjective(<<>>)
    <2>1. DOMAIN <<>> = {} OBVIOUS
    <2> QED BY <2>1 DEF IsInjective
  <1>11. \A d \in Sessions : log[d] \in Seq(0 .. made) /\ Elder(<<>>, conv) /\ Elder(<<>>, <<>>)
                             /\ Elder(log[d], log[d])
    <2>1. Elder(<<>>, conv) BY <1>5, ElderSelf
    <2>2. Elder(<<>>, <<>>)
      <3>1. DOMAIN <<>> = {} OBVIOUS
      <3> QED BY <3>1 DEF Elder
    <2>3. ASSUME NEW d \in Sessions PROVE log[d] \in Seq(0 .. made) /\ Elder(log[d], log[d])
      <3>1. log[d] \in Seq(0 .. made) /\ IsInjective(log[d]) BY <1>4, <1>5
      <3> QED BY <3>1, ElderSelf
    <2> QED BY <2>1, <2>2, <2>3
  <1>12. CASE ResetSession
    <2>1. log[cur'] = <<>> /\ conv' \in {conv, <<>>} /\ cur' \in Sessions BY <1>12 DEF ResetSession
    <2>2. IsInjective(conv') /\ Elder(log[cur'], conv') BY <1>4, <1>10, <1>11, <2>1
    <2>3. UNCHANGED <<log, meta, wrote, task>> BY <1>12 DEF ResetSession
    <2> QED BY <1>2, <1>6, <2>2, <2>3, CountedOn
  <1>13. ASSUME NEW d \in Sessions, Load(d) PROVE IsInjective(conv') /\ Elder(log[cur'], conv')
    BY <1>4, <1>11, <1>13 DEF Load
  <1>14. CASE Restart
    <2>1. UNCHANGED <<log, meta, wrote, task>> BY <1>14 DEF Restart
    <2>2. CASE \E d \in Sessions : Load(d) BY <1>2, <1>6, <1>13, <2>1, <2>2, CountedOn
    <2>3. CASE \E d \in Sessions : log[d] = <<>> /\ cur' = d /\ UNCHANGED conv
      <3>1. IsInjective(conv') /\ Elder(log[cur'], conv') BY <1>4, <1>11, <2>3
      <3> QED BY <1>2, <1>6, <2>1, <3>1, CountedOn
    <2> QED BY <1>14, <2>2, <2>3 DEF Restart
  <1>15. CASE Rebind
    <2>1. UNCHANGED <<log, meta, wrote, task>> BY <1>15 DEF Rebind
    <2>2. IsInjective(conv') /\ Elder(log[cur'], conv') BY <1>13, <1>15 DEF Rebind
    <2> QED BY <1>2, <1>6, <2>1, <2>2, CountedOn
  <1>16. CASE Crash BY <1>1, <1>16 DEF Crash
  <1>17. ASSUME NEW s \in Savers,
               \/ RequestSave(s) \/ PatchMetadata(s)
               \/ ReadMetadata(s) \/ WriteMessages(s) \/ ReplaceMetadata(s)
               \/ SaveReturns(s) \/ WriteFails(s) \/ CancelSave(s)
        PROVE  Counted'
    <2>0. task[s] \in Jobs /\ Works(s) /\ Locks(s) BY <1>3, <1>5
    <2>1. CASE RequestSave(s) \/ PatchMetadata(s) \/ ReadMetadata(s) \/ SaveReturns(s)
      <3>1. ~Written(s)
        BY <2>1 DEF RequestSave, PatchMetadata, ReadMetadata, SaveReturns, Written
      <3>2. \A t \in Savers : Still(t) BY <2>1, <3>1, StillWaits
      <3>3. UNCHANGED <<log, meta, wrote, cur, conv>>
        BY <2>1 DEF RequestSave, PatchMetadata, ReadMetadata, SaveReturns
      <3> QED BY <1>2, <1>4, <3>2, <3>3, CountedOn
    <2>2. CASE WriteMessages(s)
      <3>1. /\ task[s].pc = "log" /\ task' = [task EXCEPT ![s].pc = "replace"]
            /\ UNCHANGED <<cur, conv, meta>> /\ wrote' = [wrote EXCEPT ![task[s].dir] = task[s].snap]
            /\ log' = [log EXCEPT ![task[s].dir] =
                  IF Appends(task[s]) THEN Extended(@, NewLines(task[s])) ELSE task[s].snap]
        BY <2>2 DEF WriteMessages
      <3>2. task[s].dir = cur /\ task[s].snap = conv /\ task[s].old = Known(cur)
        BY <2>0, <3>1 DEF Works, Saves, Locks
      <3>3. \A t \in Savers : ~Written(t)
        <4>1. ASSUME NEW t \in Savers, Written(t) PROVE FALSE
          <5>1. Active(s) /\ Active(t) BY <3>1, <4>1 DEF Active, Written
          <5>2. s = t BY <1>3, <5>1, Alone
          <5> QED BY <3>1, <4>1, <5>2 DEF Written
        <4> QED BY <4>1
      <3>4. \A d \in Sessions : Matches(d) BY <1>4, <3>3
      <3>5. Appends(task[s]) => Extended(log[cur], NewLines(task[s])) = conv
        BY <1>2, <1>5, <3>2, <3>4, AppendCompletes
      <3>6. log' = [log EXCEPT ![cur] = conv] /\ wrote' = [wrote EXCEPT ![cur] = conv]
        BY <3>1, <3>2, <3>5
      <3>7. log' = wrote' /\ log'[cur] = conv /\ \A d \in Sessions \ {cur} : log'[d] = log[d]
        BY <1>4, <1>5, <3>6
      <3>8. IsInjective(conv') /\ \A d \in Sessions : IsInjective(log'[d]) BY <1>4, <3>1, <3>7
      <3>9. Elder(log'[cur'], conv') BY <1>4, <1>5, <3>1, <3>7, ElderSelf
      <3>10. /\ task'[s].pc = "replace" /\ task'[s].kind = task[s].kind
             /\ task'[s].dir = task[s].dir /\ task'[s].snap = task[s].snap
        BY <1>5, <2>0, <3>1 DEF Jobs
      <3>11. task[s].kind = "save" BY <2>0, <3>1 DEF Works
      <3>12. \A t \in Savers \ {s} : task'[t] = task[t] BY <1>5, <3>1
      <3>13. Written(s)' /\ \A t \in Savers \ {s} : ~Written(t)'
        BY <3>3, <3>10, <3>11, <3>12 DEF Written
      <3>14. \A t \in Savers : Written(t)' => log'[task'[t].dir] = task'[t].snap
        BY <3>2, <3>7, <3>10, <3>13
      <3>15. ASSUME NEW d \in Sessions, \A t \in Savers : ~(Written(t)' /\ task'[t].dir = d)
             PROVE  Matches(d)'
        <4>1. d # cur BY <3>2, <3>10, <3>13, <3>15
        <4> QED BY <3>1, <3>4, <3>7, <4>1 DEF Matches
      <3> QED BY <3>7, <3>8, <3>9, <3>14, <3>15 DEF Counted
    <2>3. CASE ReplaceMetadata(s)
      <3>1. /\ task[s].pc = "replace" /\ task' = [task EXCEPT ![s].pc = "done"]
            /\ UNCHANGED <<cur, conv, log, wrote>>
            /\ meta' = [meta EXCEPT ![task[s].dir] = NewMetadata(task[s])]
        BY <2>3 DEF ReplaceMetadata
      <3>2. /\ task'[s].pc = "done" /\ task'[s].dir = task[s].dir /\ task[s].dir \in Sessions
            /\ \A t \in Savers \ {s} : task'[t] = task[t]
        BY <1>5, <2>0, <3>1 DEF Jobs, Works
      <3>3. \A t \in Savers \ {s} : ~Written(t)
        <4>1. ASSUME NEW t \in Savers, Written(t) PROVE s = t
          <5>1. Active(s) /\ Active(t) BY <3>1, <4>1 DEF Active, Written
          <5> QED BY <1>3, <5>1, Alone
        <4> QED BY <4>1
      <3>4. \A t \in Savers : ~Written(t)' BY <3>2, <3>3 DEF Written
      <3>5. ASSUME NEW d \in Sessions PROVE Matches(d)'
        <4>1. CASE task[s].kind = "patch"
          <5>1. task[s].old = meta[task[s].dir] BY <2>0, <3>1, <4>1 DEF Locks
          <5>2. meta' = meta BY <1>5, <3>1, <4>1, <5>1 DEF NewMetadata
          <5>3. ~Written(s) BY <4>1 DEF Written
          <5>4. Matches(d) BY <1>4, <3>3, <5>3
          <5> QED BY <3>1, <5>2, <5>4 DEF Matches
        <4>2. CASE task[s].kind # "patch" /\ d = task[s].dir
          <5>1. task[s].kind = "save" BY <2>0, <4>2 DEF Jobs
          <5>2. log[d] = task[s].snap BY <1>4, <3>1, <4>2, <5>1 DEF Written
          <5>3. /\ NewMetadata(task[s]) \in Counts /\ NewMetadata(task[s]).total = Len(task[s].snap)
                /\ task[s].snap # <<>> => NewMetadata(task[s]).fp = Last(task[s].snap)
            BY <4>2, SavedMetadata
          <5>4. meta'[d] = NewMetadata(task[s]) BY <1>5, <3>1, <4>2
          <5>5. meta'[d] # None BY <5>3, <5>4, SomeMetadata
          <5> QED BY <3>1, <5>2, <5>3, <5>4, <5>5 DEF Matches
        <4>3. CASE d # task[s].dir
          <5>1. Matches(d) BY <1>4, <3>3, <4>3
          <5>2. meta'[d] = meta[d] BY <1>5, <3>1, <4>3
          <5> QED BY <3>1, <5>1, <5>2 DEF Matches
        <4> QED BY <4>1, <4>2, <4>3
      <3> QED BY <1>4, <3>1, <3>4, <3>5 DEF Counted
    <2>4. CASE WriteFails(s) \/ CancelSave(s) BY <1>1, <2>4 DEF WriteFails, CancelSave
    <2> QED BY <1>17, <2>1, <2>2, <2>3, <2>4
  <1> QED BY <1>7, <1>8, <1>9, <1>12, <1>14, <1>15, <1>16, <1>17 DEF Next

-----------------------------------------------------------------------------
(* What a log holds, whatever failed. *)

LEMMA HoldingInit == Init => Holding
  <1> SUFFICES ASSUME Init PROVE Holding OBVIOUS
  <1>1. /\ cur \in Sessions /\ \A s \in Savers : task[s] = NoTask
        /\ \A d \in Sessions : log[d] = <<>> /\ meta[d] = None /\ wrote[d] = <<>>
    BY DEF Init
  <1>2. Thinned(<<>>, <<>>)
    <2>1. <<>> \in Seq({}) OBVIOUS
    <2> QED BY <2>1, ThinnedSelf
  <1> QED BY <1>1, <1>2 DEF Holding, Bounded, Written, NoTask

(* The files stay as they are; the conversation is still held up to the boundary. *)
LEMMA HoldingOn ==
    ASSUME Holding, Plain, UNCHANGED <<log, meta, wrote>>,
           Whole(cur)' /\ Bounded' => Thinned(SubSeq(conv, 1, meta[cur].total), log[cur])',
           \A s \in Savers : Written(s)' => Written(s) /\ UNCHANGED <<cur, conv>>
    PROVE  Holding'
  <1>1. \A d \in Sessions : Whole(d)' => Thinned(wrote[d], log[d])' BY DEF Holding, Whole
  <1>2. \A s \in Savers : Written(s)' /\ Whole(cur)' => Thinned(conv, log[cur])' BY DEF Holding, Whole
  <1> QED BY <1>1, <1>2 DEF Holding

(* The conversation is held up to the boundary: it stays so when its rest changes. *)
LEMMA BoundaryStays ==
    ASSUME Typed, Holding, Plain, UNCHANGED <<log, meta, wrote, cur>>, NEW n \in Nat,
           conv' \in Seq(1 .. n),
           Bounded' => /\ meta[cur].total <= Len(conv)
                       /\ \A i \in 1 .. meta[cur].total : conv'[i] = conv[i]
    PROVE  Whole(cur)' /\ Bounded' => Thinned(SubSeq(conv, 1, meta[cur].total), log[cur])'
  <1> SUFFICES ASSUME Whole(cur)', Bounded' PROVE Thinned(SubSeq(conv', 1, meta[cur].total), log[cur])
    OBVIOUS
  <1>1. PICK k : k = meta[cur].total OBVIOUS
  <1>2. k \in 1 .. Len(conv') /\ meta[cur] # None /\ conv'[k] = meta[cur].fp BY <1>1 DEF Bounded
  <1>3. k <= Len(conv) /\ \A i \in 1 .. k : conv'[i] = conv[i] BY <1>1
  <1>4. conv \in Seq(Made) /\ cur \in Sessions BY DEF Typed
  <1>5. k \in 1 .. Len(conv) /\ k \in 1 .. k BY <1>2, <1>3, <1>4
  <1>6. Bounded /\ Whole(cur) BY <1>1, <1>2, <1>3, <1>5 DEF Bounded, Whole
  <1>7. Thinned(SubSeq(conv, 1, k), log[cur]) BY <1>1, <1>6 DEF Holding
  <1>8. SubSeq(conv', 1, k) = SubSeq(conv, 1, k)
    <2>1. PICK N : N = 1 .. n OBVIOUS
    <2>2. PICK x : x = SubSeq(conv', 1, k) OBVIOUS
    <2>3. PICK y : y = SubSeq(conv, 1, k) OBVIOUS
    <2>4. PICK c \in Seq(N) : c = conv' BY <2>1
    <2>5. k \in 0 .. Len(c) /\ k \in 0 .. Len(conv) BY <1>2, <1>5, <2>4
    <2>6. x \in Seq(N) /\ Len(x) = k /\ \A i \in 1 .. k : x[i] = c[i]
      BY <2>2, <2>4, <2>5, PrefixFacts
    <2>7. y \in Seq(Made) /\ Len(y) = k /\ \A i \in 1 .. k : y[i] = conv[i]
      BY <1>4, <2>3, <2>5, PrefixFacts
    <2>8. x = y BY <1>3, <2>4, <2>6, <2>7, SameElements
    <2> QED BY <2>2, <2>3, <2>8
  <1> QED BY <1>1, <1>7, <1>8

(* What a log still holds after more lines. *)
Longer(d) == Torn \notin Range(log'[d]) => Whole(d) /\ \E z \in Seq(0 .. made) : log'[d] = log[d] \o z

LEMMA LongerHolds ==
    ASSUME Typed, NEW d \in Sessions, Longer(d), NEW S, NEW a \in Seq(S), Whole(d) => Thinned(a, log[d]),
           Torn \notin Range(log'[d])
    PROVE  Thinned(a, log'[d])
  <1>1. PICK z \in Seq(0 .. made) : log'[d] = log[d] \o z BY DEF Longer
  <1>2. log[d] \in Seq(0 .. made) /\ Thinned(a, log[d]) BY DEF Typed, Longer
  <1> QED BY <1>1, <1>2, ThinsMore

(* An append that stops half way. *)
LEMMA StopsLonger ==
    ASSUME Typed, Working, NEW s \in Savers, task[s].pc = "log", Appends(task[s]),
           NEW l \in Stopped(log[task[s].dir], NewLines(task[s])), log' = [log EXCEPT ![task[s].dir] = l]
    PROVE  \A d \in Sessions : Longer(d)
  <1>1. PICK c \in Sessions : c = task[s].dir BY DEF Working, Works
  <1>2. task[s].snap \in Seq(1 .. made) /\ task[s].old.total \in Nat /\ made \in Nat
    <2>1. task[s] \in Jobs BY DEF Typed
    <2>2. task[s].old # None BY DEF Working, Works
    <2>3. task[s].snap \in Seq(Made) /\ task[s].old \in Counts BY <2>1, <2>2 DEF Jobs
    <2>4. made \in Nat BY LogAssumption DEF Typed
    <2> QED BY <2>3, <2>4 DEF Counts, Made
  <1>3. NewLines(task[s]) \in Seq(1 .. made) BY <1>2, NewLinesFacts
  <1>4. log \in [Sessions -> Seq(0 .. made)] BY DEF Typed
  <1>5. log[c] \in Seq(0 .. made) /\ l \in Stopped(log[c], NewLines(task[s])) BY <1>1, <1>4
  <1>6. Torn \notin Range(l) => Torn \notin Range(log[c]) /\ \E z \in Seq(0 .. made) : l = log[c] \o z
    <2>1. PICK n \in Nat : n = made BY <1>2
    <2>2. PICK x : x = log[c] OBVIOUS
    <2>3. PICK y : y = NewLines(task[s]) OBVIOUS
    <2>4. x \in Seq(0 .. n) /\ y \in Seq(1 .. n) /\ l \in Stopped(x, y)
      BY <1>3, <1>5, <2>1, <2>2, <2>3
    <2>5. Continues(l, x, n) BY <2>4, StoppedFacts
    <2> QED BY <2>1, <2>2, <2>5 DEF Continues
  <1>7. Longer(c)
    <2>1. log'[c] = l BY <1>1, <1>4
    <2> QED BY <1>6, <2>1 DEF Longer, Whole
  <1>8. ASSUME NEW d \in Sessions, d # c PROVE Longer(d)
    <2>1. log'[d] = log[d] BY <1>1, <1>4, <1>8
    <2>2. log[d] \o <<>> = log[d] /\ <<>> \in Seq(0 .. made)
      <3>1. log[d] \in Seq(0 .. made) BY <1>4
      <3> QED BY <3>1, ConcatEmptySeq
    <2>3. Torn \notin Range(log'[d]) => Whole(d) BY <2>1 DEF Whole
    <2> QED BY <2>1, <2>2, <2>3 DEF Longer
  <1> QED BY <1>7, <1>8

LEMMA StaysLonger == ASSUME Typed, UNCHANGED log, NEW d \in Sessions PROVE Longer(d)
  <1>1. log[d] \in Seq(0 .. made) BY DEF Typed
  <1>2. log[d] \o <<>> = log[d] /\ <<>> \in Seq(0 .. made) BY <1>1, ConcatEmptySeq
  <1> QED BY <1>2 DEF Longer, Whole

(* What is written holds the whole conversation. *)
LEMMA WritingHolds ==
    ASSUME Typed, Holding, Plain, NEW t, t.old = Known(cur), t.snap = conv, NEW l,
           l = IF Appends(t) THEN Extended(log[cur], NewLines(t)) ELSE conv, Torn \notin Range(l)
    PROVE  Thinned(conv, l)
  <1>1. PICK n : n = made OBVIOUS
  <1>2. PICK x : x = log[cur] OBVIOUS
  <1>3. n \in Nat /\ x \in Seq(0 .. n) /\ conv \in Seq(1 .. n) /\ cur \in Sessions
    BY <1>1, <1>2, LogAssumption DEF Typed, Made
  <1>4. CASE ~Appends(t) BY <1>3, <1>4, ThinnedSelf
  <1>5. CASE Appends(t)
    <2>1. PICK N : N = 0 .. n OBVIOUS
    <2>2. PICK k : k = t.old.total OBVIOUS
    <2>3. k \in Nat /\ Known(cur) \in Counts BY <1>3, <2>2, SomeMetadata DEF Counts
    <2>4. NewLines(t) \in Seq(1 .. n) /\ k \in 0 .. Len(conv) BY <1>3, <1>5, <2>2, <2>3, NewLinesFacts
    <2>5. PICK y : y = NewLines(t) OBVIOUS
    <2>6. Torn \notin Range(x) /\ l = x \o y /\ y \in Seq(N)
      BY <1>2, <1>3, <1>5, <2>1, <2>4, <2>5, ExtendedFacts
    <2>7. 1 .. n \subseteq N BY <2>1
    <2>8. conv \in Seq(N) /\ x \in Seq(N) BY <1>3, <2>1, <2>7, SeqWidens
    <2>9. CASE k = 0
      <3>1. y = SubSeq(conv, 1, Len(conv)) BY <2>2, <2>5, <2>9 DEF NewLines
      <3>2. SubSeq(conv, 1, Len(conv)) = conv
        <4>1. Len(conv) \in 0 .. Len(conv) BY <1>3
        <4>2. PICK z : z = SubSeq(conv, 1, Len(conv)) OBVIOUS
        <4>3. z \in Seq(N) /\ Len(z) = Len(conv) /\ \A i \in 1 .. Len(conv) : z[i] = conv[i]
          BY <2>8, <4>1, <4>2, PrefixFacts
        <4>4. z = conv BY <2>8, <4>3, SameElements
        <4> QED BY <4>2, <4>4
      <3>3. Thinned(conv, y) BY <2>8, <3>1, <3>2, ThinnedSelf
      <3>4. Thinned(conv, x \o y) BY <2>6, <2>8, <3>3, RowThins
      <3> QED BY <2>6, <3>4
    <2>10. CASE k # 0
      <3>1. conv[k] = t.old.fp BY <1>5, <2>2, <2>10 DEF Appends, BoundaryUnchanged
      <3>2. meta[cur] # None /\ t.old = meta[cur]
        <4>1. CASE meta[cur] = None BY <2>2, <2>10, <4>1 DEF Known, NoMetadata
        <4> QED BY <4>1 DEF Known
      <3>3. k \in 1 .. Len(conv) BY <2>4, <2>10
      <3>4. Bounded /\ Whole(cur) BY <1>2, <2>2, <2>6, <3>1, <3>2, <3>3 DEF Bounded, Whole
      <3>5. PICK p : p = SubSeq(conv, 1, k) OBVIOUS
      <3>6. Thinned(p, x) BY <1>2, <2>2, <3>2, <3>4, <3>5 DEF Holding
      <3>7. p \in Seq(N) /\ Len(p) = k /\ \A i \in 1 .. k : p[i] = conv[i]
        BY <2>4, <2>8, <3>5, PrefixFacts
      <3>8. Thinned(p \o y, x \o y) BY <2>6, <2>8, <3>6, <3>7, ThinsBefore
      <3>9. p \o y = conv
        <4>1. y = SubSeq(conv, Len(p) + 1, Len(conv)) BY <2>2, <2>5, <3>7 DEF NewLines
        <4>2. Len(p) <= Len(conv) /\ \A i \in 1 .. Len(p) : p[i] = conv[i] BY <3>3, <3>7
        <4> QED BY <2>8, <3>7, <4>1, <4>2, Completes
      <3> QED BY <2>6, <3>8, <3>9
    <2> QED BY <2>9, <2>10
  <1> QED BY <1>4, <1>5

LEMMA HoldingNext == ASSUME Typed, Working, Locked, Holding, [Next]_vars PROVE Holding'
  <1> SUFFICES ASSUME Plain' PROVE Holding' BY DEF Holding
  <1> USE DEF disk, memory, history
  <1>1. Plain
    <2>1. ~moved'  /\ Calm' BY SMTT(30) DEF Plain, Calm
    <2>2. moved' = moved \/ moved' = TRUE
      BY DEF Next, vars, NewMessage, Rewind, ResetSession, Restart, Rebind, Converse, Crash,
             RequestSave, PatchMetadata, ReadMetadata, WriteMessages, ReplaceMetadata, SaveReturns,
             WriteFails, CancelSave
    <2> QED BY <2>1, <2>2, CalmBefore DEF Plain, Calm
  <1>2. Calm /\ (\A t \in Savers : Works(t) /\ Locks(t)) BY <1>1 DEF Working, Locked, Plain, Calm
  <1>3. /\ \A d \in Sessions : Whole(d) => Thinned(wrote[d], log[d])
        /\ Whole(cur) /\ Bounded => Thinned(SubSeq(conv, 1, meta[cur].total), log[cur])
        /\ \A s \in Savers : Written(s) /\ Whole(cur) => Thinned(conv, log[cur])
    BY <1>1 DEF Holding
  <1>4. /\ task \in [Savers -> Jobs] /\ cur \in Sessions /\ conv \in Seq(Made) /\ made \in Nat
        /\ log \in [Sessions -> Seq(0 .. made)] /\ meta \in [Sessions -> Counts \cup {None}]
        /\ wrote \in [Sessions -> Seq(Made)]
    BY LogAssumption DEF Typed
  <1>5. ~Busy => \A s \in Savers : ~Written(s)
    BY <1>2 DEF Busy, Written, Locks
  <1>6. CASE UNCHANGED vars
    <2>1. \A s \in Savers : Written(s)' => Written(s) BY <1>6 DEF vars, Written
    <2>2. Bounded' => Bounded BY <1>6 DEF vars, Bounded
    <2>3. Whole(cur)' => Whole(cur) BY <1>6 DEF vars, Whole
    <2> QED BY <1>1, <1>3, <1>6, <2>1, <2>2, <2>3, HoldingOn DEF vars
  <1>7. CASE NewMessage
    <2>1. made' = made + 1 /\ ~Busy /\ UNCHANGED <<log, meta, wrote, cur, task>>
      BY <1>7 DEF NewMessage, Converse
    <2>2. \A s \in Savers : ~Written(s)' BY <1>5, <2>1 DEF Written
    <2>3. ~moved' BY DEF Plain
    <2>4. \/ conv' = Append(conv, made')
          \/ conv # <<>> /\ conv' = Append(Front(conv), made')
      BY <1>7, <2>3 DEF NewMessage, Converse
    <2>5. PICK n \in Nat : n = made' BY <1>4, <2>1
    <2>6. PICK N : N = 1 .. n OBVIOUS
    <2>7. n \in N /\ Made \subseteq N BY <1>4, <2>1, <2>5, <2>6 DEF Made
    <2>8. conv \in Seq(N) BY <1>4, <2>7, SeqWidens
    <2>9. PICK q \in Seq(N) : q = conv BY <2>8
    <2>10. PICK c : c = conv' OBVIOUS
    <2>11. /\ c \in Seq(N) /\ Len(c) >= 1 /\ c[Len(c)] = n /\ Len(c) - 1 <= Len(q)
           /\ \A i \in 1 .. Len(c) - 1 : c[i] = q[i]
      <3>1. CASE c = Append(q, n)
        <4>1. /\ c \in Seq(N) /\ Len(c) = Len(q) + 1 /\ (\A i \in 1 .. Len(q) : c[i] = q[i])
              /\ c[Len(q) + 1] = n
          BY <2>7, <2>9, <3>1, AppendProperties
        <4> QED BY <4>1
      <3>2. CASE q # <<>> /\ c = Append(Front(q), n)
        <4>1. Len(q) >= 1 /\ c \in Seq(N) /\ Replaced(q, n, c) BY <2>7, <2>9, <3>2, EndFacts
        <4> QED BY <4>1 DEF Replaced
      <3> QED BY <2>4, <2>5, <2>9, <2>10, <3>1, <3>2
    <2>12. Bounded' => meta[cur].total <= Len(conv) /\ \A i \in 1 .. meta[cur].total : conv'[i] = conv[i]
      <3>1. ASSUME Bounded' PROVE meta[cur].total <= Len(q) /\ \A i \in 1 .. meta[cur].total : c[i] = q[i]
        <4>1. PICK k : k = meta[cur].total OBVIOUS
        <4>2. meta[cur] # None /\ k \in 1 .. Len(c) /\ c[k] = meta[cur].fp
          BY <2>1, <2>10, <3>1, <4>1 DEF Bounded
        <4>3. meta[cur].fp \in 0 .. made
          <5>1. meta[cur] \in Counts BY <1>4, <4>2
          <5> QED BY <5>1 DEF Counts
        <4>4. k # Len(c) BY <1>4, <2>1, <2>5, <2>11, <4>2, <4>3
        <4>5. k \in 1 .. Len(c) - 1 BY <2>11, <4>2, <4>4
        <4>6. k <= Len(q) /\ \A i \in 1 .. k : i \in 1 .. Len(c) - 1 BY <2>11, <4>5
        <4> QED BY <2>11, <4>1, <4>6
      <3> QED BY <2>9, <2>10, <3>1
    <2>13. Whole(cur)' /\ Bounded' => Thinned(SubSeq(conv, 1, meta[cur].total), log[cur])'
      <3>1. conv' \in Seq(1 .. n) BY <2>6, <2>10, <2>11
      <3> QED BY <1>1, <2>1, <2>12, <3>1, BoundaryStays
    <2> QED BY <1>1, <2>1, <2>2, <2>13, HoldingOn
  <1>8. CASE Rewind
    <2>1. PICK k \in 0 .. Len(conv) - 1 : Converse(SubSeq(conv, 1, k)) BY <1>8 DEF Rewind
    <2>2. conv' = SubSeq(conv, 1, k) /\ ~Busy /\ UNCHANGED <<log, meta, wrote, cur, task>>
      BY <2>1 DEF Converse
    <2>3. k \in 0 .. Len(conv) BY <1>4, <2>1
    <2>4. conv' \in Seq(Made) /\ Len(conv') = k /\ \A i \in 1 .. k : conv'[i] = conv[i]
      BY <1>4, <2>2, <2>3, PrefixFacts
    <2>5. Bounded' => meta[cur].total <= Len(conv) /\ \A i \in 1 .. meta[cur].total : conv'[i] = conv[i]
      BY <2>2, <2>3, <2>4 DEF Bounded
    <2>6. conv' \in Seq(1 .. made) BY <2>4 DEF Made
    <2>7. Whole(cur)' /\ Bounded' => Thinned(SubSeq(conv, 1, meta[cur].total), log[cur])'
      BY <1>1, <1>4, <2>2, <2>5, <2>6, BoundaryStays
    <2>8. \A s \in Savers : ~Written(s)' BY <1>5, <2>2 DEF Written
    <2> QED BY <1>1, <2>2, <2>7, <2>8, HoldingOn
  <1>9. CASE ResetSession
    <2>1. meta[cur'] = None /\ ~Busy /\ UNCHANGED <<log, meta, wrote, task>> BY <1>9 DEF ResetSession
    <2>2. ~Bounded' BY <2>1 DEF Bounded
    <2>3. \A s \in Savers : ~Written(s)' BY <1>5, <2>1 DEF Written
    <2> QED BY <1>1, <2>1, <2>2, <2>3, HoldingOn
  <1>10. ASSUME NEW d \in Sessions, Load(d), UNCHANGED <<log, meta>>, Bounded', Whole(cur)'
         PROVE  Thinned(SubSeq(conv, 1, meta[cur].total), log[cur])'
    <2>1. PICK q \in Seq(0 .. made) : q = log[d] BY <1>4
    <2>2. conv' = q /\ log'[cur'] = q BY <1>10, <2>1 DEF Load
    <2>3. PICK k : k = meta'[cur'].total OBVIOUS
    <2>4. k \in 0 .. Len(q) BY <1>10, <2>2, <2>3 DEF Bounded
    <2>5. Thinned(q, q) BY ThinnedSelf
    <2>6. Thinned(SubSeq(q, 1, k), q) BY <2>4, <2>5, PrefixThins
    <2> QED BY <2>2, <2>3, <2>6
  <1>11. CASE Restart
    <2>1. UNCHANGED <<log, meta, wrote, task>> /\ \A s \in Savers : task[s] = NoTask
      BY <1>11 DEF Restart, Working
    <2>2. \A s \in Savers : ~Written(s)' BY <2>1 DEF Written, NoTask
    <2>3. CASE \E d \in Sessions : Load(d) BY <1>1, <1>10, <2>1, <2>2, <2>3, HoldingOn
    <2>4. CASE \E d \in Sessions : meta[d] = None /\ cur' = d
      <3>1. ~Bounded' BY <2>1, <2>4 DEF Bounded
      <3> QED BY <1>1, <2>1, <2>2, <3>1, HoldingOn
    <2> QED BY <1>11, <2>3, <2>4 DEF Restart
  <1>12. CASE Rebind
    <2>1. UNCHANGED <<log, meta, wrote, task>> BY <1>12 DEF Rebind
    <2>2. \A s \in Savers : ~Written(s)' BY <1>12, <2>1 DEF Written, Rebind
    <2>3. \E d \in Sessions : Load(d) BY <1>12 DEF Rebind
    <2> QED BY <1>1, <1>10, <2>1, <2>2, <2>3, HoldingOn
  <1>13. ASSUME \A d \in Sessions : Longer(d), UNCHANGED wrote, NEW d \in Sessions, Whole(d)'
         PROVE  Thinned(wrote[d], log[d])'
    <2>1. wrote[d] \in Seq(Made) /\ Torn \notin Range(log'[d]) BY <1>4, <1>13 DEF Whole
    <2> QED BY <1>3, <1>13, <2>1, LongerHolds
  <1>14. CASE Crash
    <2>1. /\ UNCHANGED <<meta, wrote, cur>> /\ conv' = <<>> /\ \A t \in Savers : task'[t] = NoTask
      BY <1>14 DEF Crash
    <2>2. \A d \in Sessions : Longer(d) BY <1>14, StopsLonger, StaysLonger DEF Crash
    <2>3. ~Bounded' BY <2>1 DEF Bounded
    <2>4. \A t \in Savers : ~Written(t)' BY <2>1 DEF Written, NoTask
    <2>5. \A d \in Sessions : Whole(d)' => Thinned(wrote[d], log[d])' BY <1>13, <2>1, <2>2
    <2> QED BY <2>3, <2>4, <2>5 DEF Holding
  <1>15. ASSUME NEW s \in Savers,
               \/ RequestSave(s) \/ PatchMetadata(s)
               \/ ReadMetadata(s) \/ WriteMessages(s) \/ ReplaceMetadata(s)
               \/ SaveReturns(s) \/ WriteFails(s) \/ CancelSave(s)
        PROVE  Holding'
    <2>0. task[s] \in Jobs /\ Works(s) /\ Locks(s) BY <1>2, <1>4
    <2>1. CASE RequestSave(s) \/ PatchMetadata(s) \/ ReadMetadata(s) \/ SaveReturns(s)
      <3>1. ~Written(s)
        BY <2>1 DEF RequestSave, PatchMetadata, ReadMetadata, SaveReturns, Written
      <3>2. \A t \in Savers : Still(t) BY <2>1, <3>1, StillWaits
      <3>3. UNCHANGED <<log, meta, wrote, cur, conv>>
        BY <2>1 DEF RequestSave, PatchMetadata, ReadMetadata, SaveReturns
      <3>4. \A t \in Savers : Written(t)' => Written(t) BY <3>2 DEF Still
      <3>5. (Bounded' => Bounded) /\ (Whole(cur)' => Whole(cur)) BY <3>3 DEF Bounded, Whole
      <3> QED BY <1>1, <1>3, <3>3, <3>4, <3>5, HoldingOn
    <2>2. CASE WriteMessages(s)
      <3>1. /\ task[s].pc = "log" /\ UNCHANGED <<cur, conv, meta>>
            /\ wrote' = [wrote EXCEPT ![task[s].dir] = task[s].snap]
            /\ log' = [log EXCEPT ![task[s].dir] =
                  IF Appends(task[s]) THEN Extended(@, NewLines(task[s])) ELSE task[s].snap]
        BY <2>2 DEF WriteMessages
      <3>2. task[s].dir = cur /\ task[s].snap = conv /\ task[s].old = Known(cur)
        BY <2>0, <3>1 DEF Works, Saves, Locks
      <3>3. PICK l : l = IF Appends(task[s]) THEN Extended(log[cur], NewLines(task[s])) ELSE conv OBVIOUS
      <3>4. log' = [log EXCEPT ![cur] = l] /\ wrote' = [wrote EXCEPT ![cur] = conv]
        BY <3>1, <3>2, <3>3
      <3>5. log'[cur] = l /\ wrote'[cur] = conv
            /\ \A d \in Sessions \ {cur} : log'[d] = log[d] /\ wrote'[d] = wrote[d]
        BY <1>4, <3>4
      <3>6. Torn \notin Range(l) => Thinned(conv, l) BY <1>1, <3>2, <3>3, WritingHolds
      <3>7. Whole(cur)' => Thinned(conv', log'[cur']) BY <3>1, <3>5, <3>6 DEF Whole
      <3>8. ASSUME NEW d \in Sessions, Whole(d)' PROVE Thinned(wrote'[d], log'[d])
        <4>1. CASE d = cur BY <3>1, <3>5, <3>7, <3>8, <4>1 DEF Whole
        <4>2. CASE d # cur BY <1>3, <3>5, <3>8, <4>2 DEF Whole
        <4> QED BY <4>1, <4>2
      <3>9. ASSUME Whole(cur)', Bounded' PROVE Thinned(SubSeq(conv, 1, meta[cur].total), log[cur])'
        <4>1. PICK k : k = meta'[cur'].total OBVIOUS
        <4>2. k \in 1 .. Len(conv) BY <3>1, <3>9, <4>1 DEF Bounded
        <4>3. k \in 0 .. Len(conv) BY <1>4, <4>2
        <4>4. log' \in [Sessions -> Seq((0 .. made)')] BY TypedNext DEF Typed
        <4>5. log'[cur] \in Seq((0 .. made)') BY <1>4, <4>4
        <4>6. Thinned(conv, log'[cur]) BY <3>1, <3>7, <3>9
        <4>7. Thinned(SubSeq(conv, 1, k), log'[cur]) BY <1>4, <4>3, <4>5, <4>6, PrefixThins
        <4> QED BY <3>1, <4>1, <4>7
      <3> QED BY <3>7, <3>8, <3>9 DEF Holding
    <2>3. CASE ReplaceMetadata(s)
      <3>1. /\ task[s].pc = "replace" /\ task' = [task EXCEPT ![s].pc = "done"]
            /\ UNCHANGED <<cur, conv, log, wrote>>
            /\ meta' = [meta EXCEPT ![task[s].dir] = NewMetadata(task[s])]
        BY <2>3 DEF ReplaceMetadata
      <3>2. /\ task'[s].pc = "done" /\ task[s].dir \in Sessions
            /\ \A t \in Savers \ {s} : task'[t] = task[t]
        BY <1>4, <2>0, <3>1 DEF Jobs, Works
      <3>3. ASSUME NEW t \in Savers, Written(t)' PROVE Written(t)
        BY <3>2, <3>3 DEF Written
      <3>4. CASE task[s].kind = "patch"
        <4>1. task[s].old = meta[task[s].dir] BY <2>0, <3>1, <3>4 DEF Locks
        <4>2. meta' = meta BY <1>4, <3>1, <3>4, <4>1 DEF NewMetadata
        <4>3. (Bounded' => Bounded) /\ (Whole(cur)' => Whole(cur)) BY <3>1, <4>2 DEF Bounded, Whole
        <4> QED BY <1>1, <1>3, <3>1, <3>3, <4>2, <4>3, HoldingOn
      <3>5. CASE task[s].kind # "patch"
        <4>1. task[s].kind = "save" /\ task[s].dir = cur /\ task[s].snap = conv
          BY <2>0, <3>1, <3>5 DEF Jobs, Works, Saves, Locks
        <4>2. meta'[cur] = NewMetadata(task[s]) /\ NewMetadata(task[s]).total = Len(conv)
          BY <1>4, <3>1, <3>5, <4>1, SavedMetadata
        <4>3. Whole(cur) => Thinned(conv, log[cur]) BY <1>3, <3>1, <4>1 DEF Written
        <4>4. Whole(cur)' <=> Whole(cur) BY <3>1 DEF Whole
        <4>5. ASSUME Whole(cur)' PROVE Thinned(SubSeq(conv, 1, meta[cur].total), log[cur])'
          <5>1. Len(conv) \in 0 .. Len(conv) /\ log[cur] \in Seq(0 .. made) BY <1>4
          <5>2. Thinned(SubSeq(conv, 1, Len(conv)), log[cur])
            BY <1>4, <4>3, <4>4, <4>5, <5>1, PrefixThins
          <5> QED BY <3>1, <4>2, <5>2
        <4>6. \A d \in Sessions : Whole(d)' => Thinned(wrote[d], log[d])' BY <1>3, <3>1 DEF Whole
        <4>7. Whole(cur)' => Thinned(conv, log[cur])' BY <3>1, <4>3, <4>4
        <4> QED BY <4>5, <4>6, <4>7 DEF Holding
      <3> QED BY <3>4, <3>5
    <2>4. CASE WriteFails(s)
      <3>1. UNCHANGED <<cur, conv, meta, wrote>> /\ Release(s) BY <2>4 DEF WriteFails
      <3>2. \A d \in Sessions : Longer(d) BY <2>4, StopsLonger, StaysLonger DEF WriteFails
      <3>3. ASSUME NEW t \in Savers, Written(t)' PROVE Written(t)
        <4>1. task'[s] = NoTask /\ (t # s => task'[t] = Woken(s, t)) BY <3>1, ReleaseFacts
        <4>2. t # s BY <3>3, <4>1 DEF Written, NoTask
        <4>3. task[t] \in Jobs BY <1>4
        <4>4. CASE task'[t] = task[t] BY <3>3, <4>4 DEF Written
        <4>5. CASE task'[t] = [task[t] EXCEPT !.pc = "read"]
          <5>1. task'[t].pc = "read" BY <4>3, <4>5 DEF Jobs
          <5> QED BY <3>3, <5>1 DEF Written
        <4> QED BY <4>1, <4>2, <4>4, <4>5 DEF Woken
      <3>4. \A d \in Sessions : Whole(d)' => Thinned(wrote[d], log[d])' BY <1>13, <3>1, <3>2
      <3>5. ASSUME NEW t \in Savers, Written(t)', Whole(cur)' PROVE Thinned(conv, log[cur])'
        <4>1. Whole(cur) => Thinned(conv, log[cur]) BY <1>3, <3>3, <3>5
        <4>2. Torn \notin Range(log'[cur]) BY <3>1, <3>5 DEF Whole
        <4>3. Thinned(conv, log'[cur]) BY <1>4, <3>2, <4>1, <4>2, LongerHolds
        <4> QED BY <3>1, <4>3
      <3>6. ASSUME Whole(cur)', Bounded' PROVE Thinned(SubSeq(conv, 1, meta[cur].total), log[cur])'
        <4>1. Bounded /\ Torn \notin Range(log'[cur]) BY <3>1, <3>6 DEF Bounded, Whole
        <4>2. PICK k : k = meta[cur].total OBVIOUS
        <4>3. k \in 0 .. Len(conv) BY <1>4, <4>1, <4>2 DEF Bounded
        <4>4. SubSeq(conv, 1, k) \in Seq(Made) BY <1>4, <4>3, PrefixFacts
        <4>5. Whole(cur) => Thinned(SubSeq(conv, 1, k), log[cur]) BY <1>3, <4>1, <4>2
        <4>6. Thinned(SubSeq(conv, 1, k), log'[cur]) BY <1>4, <3>2, <4>1, <4>4, <4>5, LongerHolds
        <4> QED BY <3>1, <4>2, <4>6
      <3> QED BY <3>4, <3>5, <3>6 DEF Holding
    <2>5. CASE CancelSave(s)
      <3>1. "cancel" \in Range(faults') BY <2>5, FaultFacts DEF CancelSave
      <3> QED BY <3>1 DEF Plain
    <2> QED BY <1>15, <2>1, <2>2, <2>3, <2>4, <2>5
  <1> QED BY <1>6, <1>7, <1>8, <1>9, <1>11, <1>12, <1>14, <1>15 DEF Next

-----------------------------------------------------------------------------
(* What was taken out does not come back. *)

LEMMA BeginFacts ==
    ASSUME NEW S, NEW q \in Seq(S)
    PROVE  /\ Begin(q, Len(q)) = Range(q) /\ Range(q) \subseteq S
           /\ \A i \in 1 .. Len(q) : q[i] \in Range(q)
           /\ \A j \in 0 .. Len(q) : Begin(q, j) \subseteq Range(q)
           /\ \A i, j \in 0 .. Len(q) : i <= j => Begin(q, i) \subseteq Begin(q, j)
  <1>1. DOMAIN q = 1 .. Len(q) /\ \A i \in 1 .. Len(q) : q[i] \in S OBVIOUS
  <1>2. Range(q) = {q[i] : i \in 1 .. Len(q)} BY <1>1 DEF Range
  <1>3. \A j \in 0 .. Len(q) : 1 .. j \subseteq 1 .. Len(q) OBVIOUS
  <1>4. \A i, j \in 0 .. Len(q) : i <= j => 1 .. i \subseteq 1 .. j OBVIOUS
  <1> QED BY <1>1, <1>2, <1>3, <1>4 DEF Begin

(* The same beginning. *)
LEMMA BeginSame ==
    ASSUME NEW q, NEW r, NEW j \in Nat, \A k \in 1 .. j : q[k] = r[k]
    PROVE  Begin(q, j) = Begin(r, j)
  BY DEF Begin

(* An edited conversation: a beginning of the old one, and at the end perhaps a message
   that is new.                                                              *)
Regrown(q, r, m) ==
    \A j \in 1 .. Len(r) : \/ j <= Len(q) /\ \A k \in 1 .. j : r[k] = q[k]
                           \/ j = Len(r) /\ r[j] = m

LEMMA RegrownEnds ==
    ASSUME NEW S, NEW x \in Seq(S), NEW q \in Seq(S), NEW r \in Seq(S), NEW m, Regrown(q, r, m),
           m \notin Range(x), Ends(x, q)
    PROVE  Ends(x, r)
  <1> SUFFICES ASSUME x # <<>>, NEW j \in DOMAIN r, j >= Len(x), r[j] = x[Len(x)]
               PROVE  Range(x) \subseteq Begin(r, j)
    BY DEF Ends
  <1>1. Len(x) \in 1 .. Len(x) /\ j \in 1 .. Len(r) /\ j \in Nat OBVIOUS
  <1>2. r[j] # m BY <1>1, BeginFacts
  <1>3. j <= Len(q) /\ \A k \in 1 .. j : r[k] = q[k] BY <1>1, <1>2 DEF Regrown
  <1>4. j \in DOMAIN q /\ q[j] = r[j] BY <1>1, <1>3
  <1>5. Range(x) \subseteq Begin(q, j) BY <1>4 DEF Ends
  <1> QED BY <1>1, <1>3, <1>5, BeginSame

LEMMA RegrownTraced ==
    ASSUME NEW S, NEW q \in Seq(S), NEW r \in Seq(S), NEW l \in Seq(S), NEW m, Regrown(q, r, m),
           m \notin Range(q), m \notin Range(l), Traced(q, l)
    PROVE  Traced(r, l)
  <1>1. DOMAIN r = 1 .. Len(r) /\ DOMAIN q = 1 .. Len(q) /\ DOMAIN l = 1 .. Len(l) OBVIOUS
  <1>2. ASSUME NEW j \in 1 .. Len(r), r[j] # m \/ j < Len(r)
        PROVE  j \in DOMAIN q /\ r[j] = q[j] /\ r[j] # m /\ Begin(r, j) = Begin(q, j)
    <2>1. j <= Len(q) /\ \A k \in 1 .. j : r[k] = q[k] BY <1>2 DEF Regrown
    <2>2. j \in 1 .. j /\ j \in Nat /\ j \in 1 .. Len(q) BY <2>1
    <2>3. r[j] = q[j] /\ q[j] \in Range(q) BY <2>1, <2>2, BeginFacts
    <2> QED BY <1>1, <2>1, <2>2, <2>3, BeginSame
  <1>3. ASSUME NEW i \in DOMAIN r, NEW j \in DOMAIN l, j >= i, r[i] = l[j]
        PROVE  Begin(r, i) \subseteq Begin(l, j)
    <2>1. i \in 1 .. Len(r) /\ l[j] \in Range(l) BY <1>1, BeginFacts
    <2>2. r[i] # m BY <1>3, <2>1
    <2> QED BY <1>2, <1>3, <2>1, <2>2 DEF Traced
  <1>4. ASSUME NEW i \in DOMAIN r, NEW j \in DOMAIN r, i < j, r[i] = r[j]
        PROVE  Begin(r, j) \subseteq Range(l)
    <2>1. i \in 1 .. Len(r) /\ j \in 1 .. Len(r) /\ i < Len(r) BY <1>1, <1>4
    <2>2. i \in DOMAIN q /\ r[i] = q[i] /\ r[i] # m BY <1>2, <2>1
    <2>3. j \in DOMAIN q /\ r[j] = q[j] /\ Begin(r, j) = Begin(q, j) BY <1>2, <1>4, <2>1, <2>2
    <2> QED BY <1>4, <2>2, <2>3 DEF Traced
  <1> QED BY <1>3, <1>4 DEF Traced

(* The conversation that was loaded, or written as a whole. *)
LEMMA TracedSelf == ASSUME NEW S, NEW q \in Seq(S) PROVE Traced(q, q)
  <1>1. DOMAIN q = 1 .. Len(q) OBVIOUS
  <1>2. ASSUME NEW i \in DOMAIN q, NEW j \in DOMAIN q, j >= i PROVE Begin(q, i) \subseteq Begin(q, j)
    <2>1. i \in 0 .. Len(q) /\ j \in 0 .. Len(q) BY <1>1
    <2> QED BY <1>2, <2>1, BeginFacts
  <1>3. ASSUME NEW j \in DOMAIN q PROVE Begin(q, j) \subseteq Range(q)
    <2>1. j \in 0 .. Len(q) BY <1>1
    <2> QED BY <2>1, BeginFacts
  <1> QED BY <1>2, <1>3 DEF Traced

LEMMA EndsSelf == ASSUME NEW S, NEW q \in Seq(S) PROVE Ends(q, q)
  <1> SUFFICES ASSUME q # <<>>, NEW j \in DOMAIN q, j >= Len(q) PROVE Range(q) \subseteq Begin(q, j)
    BY DEF Ends
  <1>1. j = Len(q) OBVIOUS
  <1> QED BY <1>1, BeginFacts

LEMMA TracedEnds == ASSUME NEW S, NEW q \in Seq(S), NEW l \in Seq(S), Traced(q, l) PROVE Ends(q, l)
  <1> SUFFICES ASSUME q # <<>>, NEW j \in DOMAIN l, j >= Len(q), l[j] = q[Len(q)]
               PROVE  Range(q) \subseteq Begin(l, j)
    BY DEF Ends
  <1>1. Len(q) \in DOMAIN q OBVIOUS
  <1>2. Begin(q, Len(q)) \subseteq Begin(l, j) BY <1>1 DEF Traced
  <1> QED BY <1>2, BeginFacts

(* A log with more lines: those the conversation q has after its first n. *)
Continued(q, l, n, p) ==
    /\ Len(l) <= Len(p) /\ n + (Len(p) - Len(l)) <= Len(q)
    /\ \A j \in 1 .. Len(l) : p[j] = l[j]
    /\ \A i \in 1 .. Len(p) - Len(l) : p[Len(l) + i] = q[n + i]

Kept(l, p, j) == j \in DOMAIN l /\ p[j] = l[j] /\ Begin(p, j) = Begin(l, j)
Added(q, l, n, p, j) ==
    \E k \in DOMAIN q : /\ p[j] = q[k] /\ k >= n /\ Range(l) \subseteq Begin(p, j)
                        /\ Begin(q, k) \subseteq Begin(p, j)

(* What the conversation has up to a line that was added, the log has up to there. *)
LEMMA ContinuedBegins ==
    ASSUME NEW S, NEW q \in Seq(S), NEW l \in Seq(S), NEW p \in Seq(S), NEW n \in 0 .. Len(q),
           Continued(q, l, n, p), Begin(q, n) \subseteq Range(l), NEW j \in DOMAIN p
    PROVE  /\ Range(l) \subseteq Range(p)
           /\ Kept(l, p, j) \/ Added(q, l, n, p, j)
  <1>1. /\ DOMAIN p = 1 .. Len(p) /\ DOMAIN q = 1 .. Len(q) /\ DOMAIN l = 1 .. Len(l)
        /\ Len(p) \in Nat /\ Len(q) \in Nat /\ Len(l) \in Nat
    OBVIOUS
  <1>2. Len(l) <= Len(p) /\ \A k \in 1 .. Len(l) : p[k] = l[k] BY DEF Continued
  <1>3. Begin(p, Len(l)) = Range(l)
    <2>1. Begin(p, Len(l)) = Begin(l, Len(l)) BY <1>1, <1>2, BeginSame
    <2> QED BY <2>1, BeginFacts
  <1>4. Range(l) \subseteq Range(p)
    <2>1. Len(l) \in 0 .. Len(p) BY <1>1, <1>2
    <2> QED BY <1>3, <2>1, BeginFacts
  <1>5. CASE j <= Len(l)
    <2>1. j \in 1 .. Len(l) /\ j \in Nat BY <1>1, <1>5
    <2>2. \A k \in 1 .. j : k \in 1 .. Len(l) BY <2>1
    <2>3. Begin(p, j) = Begin(l, j) BY <1>2, <2>1, <2>2, BeginSame
    <2> QED BY <1>1, <1>2, <1>4, <2>1, <2>3 DEF Kept
  <1>6. CASE j > Len(l)
    <2>1. PICK i : i = j - Len(l) OBVIOUS
    <2>2. i \in 1 .. Len(p) - Len(l) /\ j = Len(l) + i /\ i \in Nat BY <1>1, <1>6, <2>1
    <2>3. /\ n + (Len(p) - Len(l)) <= Len(q)
          /\ \A k \in 1 .. Len(p) - Len(l) : p[Len(l) + k] = q[n + k]
      BY DEF Continued
    <2>4. p[j] = q[n + i] /\ n + i \in 1 .. Len(q) BY <1>1, <2>2, <2>3
    <2>5. Range(l) \subseteq Begin(p, j)
      <3>1. Len(l) \in 0 .. Len(p) /\ j \in 0 .. Len(p) /\ Len(l) <= j BY <1>1, <1>2, <2>2
      <3> QED BY <1>3, <3>1, BeginFacts
    <2>6. ASSUME NEW k \in 1 .. n + i PROVE q[k] \in Begin(p, j)
      <3>1. CASE k <= n
        <4>1. k \in 1 .. n BY <2>2, <3>1
        <4>2. q[k] \in Begin(q, n) BY <4>1 DEF Begin
        <4> QED BY <2>5, <4>2
      <3>2. CASE k > n
        <4>1. PICK h : h = k - n OBVIOUS
        <4>2. h \in 1 .. Len(p) - Len(l) /\ k = n + h /\ Len(l) + h \in 1 .. j BY <1>1, <2>2, <3>2, <4>1
        <4>3. q[k] = p[Len(l) + h] BY <2>3, <4>2
        <4> QED BY <4>2, <4>3 DEF Begin
      <3> QED BY <3>1, <3>2, <2>2
    <2>7. Begin(q, n + i) \subseteq Begin(p, j)
      <3>1. PICK m : m = n + i OBVIOUS
      <3>2. \A k \in 1 .. m : q[k] \in Begin(p, j) BY <2>6, <3>1
      <3>3. \A v \in Begin(q, m) : v \in Begin(p, j) BY <3>2 DEF Begin
      <3> QED BY <3>1, <3>3
    <2>8. Added(q, l, n, p, j)
      <3>1. PICK k \in DOMAIN q : k = n + i BY <1>1, <2>4
      <3>2. p[j] = q[k] /\ k >= n /\ Begin(q, k) \subseteq Begin(p, j) BY <2>2, <2>4, <2>7, <3>1
      <3> QED BY <2>5, <3>2 DEF Added
    <2> QED BY <1>4, <2>8
  <1> QED BY <1>1, <1>5, <1>6

LEMMA EndsGrows ==
    ASSUME NEW S, NEW q \in Seq(S), NEW l \in Seq(S), NEW p \in Seq(S), NEW x \in Seq(S),
           Len(x) \in 0 .. Len(q), Continued(q, l, Len(x), p), Begin(q, Len(x)) \subseteq Range(l),
           Ends(x, l), Ends(x, q)
    PROVE  Ends(x, p)
  <1> SUFFICES ASSUME x # <<>>, NEW j \in DOMAIN p, j >= Len(x), p[j] = x[Len(x)]
               PROVE  Range(x) \subseteq Begin(p, j)
    BY DEF Ends
  <1>1. PICK n \in 0 .. Len(q) : n = Len(x) OBVIOUS
  <1>2. Continued(q, l, n, p) /\ Begin(q, n) \subseteq Range(l) BY <1>1
  <1>3. Kept(l, p, j) \/ Added(q, l, n, p, j) BY <1>2, ContinuedBegins
  <1>4. CASE Kept(l, p, j) BY <1>4 DEF Ends, Kept
  <1>5. CASE Added(q, l, n, p, j)
    <2>1. PICK k \in DOMAIN q : p[j] = q[k] /\ k >= n /\ Begin(q, k) \subseteq Begin(p, j)
      BY <1>5 DEF Added
    <2>2. Range(x) \subseteq Begin(q, k) BY <1>1, <2>1 DEF Ends
    <2> QED BY <2>1, <2>2
  <1> QED BY <1>3, <1>4, <1>5

LEMMA TracedGrows ==
    ASSUME NEW S, NEW q \in Seq(S), NEW l \in Seq(S), NEW p \in Seq(S), NEW n \in 0 .. Len(q),
           Continued(q, l, n, p), Begin(q, n) \subseteq Range(l), Traced(q, l)
    PROVE  Traced(q, p)
  <1>1. ASSUME NEW i \in DOMAIN q, NEW j \in DOMAIN p, j >= i, q[i] = p[j]
        PROVE  Begin(q, i) \subseteq Begin(p, j)
    <2>1. CASE Kept(l, p, j) BY <1>1, <2>1 DEF Traced, Kept
    <2>2. CASE Added(q, l, n, p, j)
      <3>1. PICK k \in DOMAIN q :
               p[j] = q[k] /\ Range(l) \subseteq Begin(p, j) /\ Begin(q, k) \subseteq Begin(p, j)
        BY <2>2 DEF Added
      <3>2. k \in 1 .. Len(q) /\ i \in 1 .. Len(q) /\ q[i] = q[k] BY <1>1, <3>1
      <3>3. CASE i <= k
        <4>1. i \in 0 .. Len(q) /\ k \in 0 .. Len(q) BY <3>2
        <4>2. Begin(q, i) \subseteq Begin(q, k) BY <3>3, <4>1, BeginFacts
        <4> QED BY <3>1, <4>2
      <3>4. CASE k < i
        <4>1. Begin(q, i) \subseteq Range(l) BY <3>1, <3>2, <3>4 DEF Traced
        <4> QED BY <3>1, <4>1
      <3> QED BY <3>2, <3>3, <3>4
    <2>3. Kept(l, p, j) \/ Added(q, l, n, p, j) BY ContinuedBegins
    <2> QED BY <2>1, <2>2, <2>3
  <1>2. ASSUME NEW i \in DOMAIN q, NEW j \in DOMAIN q, i < j, q[i] = q[j]
        PROVE  Begin(q, j) \subseteq Range(p)
    <2>1. Begin(q, j) \subseteq Range(l) BY <1>2 DEF Traced
    <2>2. Range(l) \subseteq Range(p)
      <3>1. CASE p = <<>>
        <4>1. Len(p) = 0 /\ Len(l) \in Nat BY <3>1
        <4>2. Len(l) = 0 BY <4>1 DEF Continued
        <4>3. DOMAIN l = {} BY <4>2
        <4> QED BY <4>3 DEF Range
      <3>2. CASE p # <<>>
        <4>1. 1 \in DOMAIN p BY <3>2
        <4> QED BY <4>1, ContinuedBegins
      <3> QED BY <3>1, <3>2
    <2> QED BY <2>1, <2>2
  <1> QED BY <1>1, <1>2 DEF Traced

(* What an append leaves, that comes to its end or stops. *)
Piece(z, q, m) ==
    m + Len(z) <= Len(q) /\ \A i \in 1 .. Len(z) : z[i] = q[m + i]
Grown(l, x, q, m) ==
    /\ Range(l) \subseteq Range(x) \cup Range(q) \cup {Torn}
    /\ Torn \notin Range(l) => Torn \notin Range(x) /\ Continued(q, x, m, l)

LEMMA PieceGrows ==
    ASSUME NEW n \in Nat, NEW x \in Seq(0 .. n), NEW q \in Seq(1 .. n), NEW m \in 0 .. Len(q),
           NEW z \in Seq(1 .. n), Piece(z, q, m)
    PROVE  Grown(Extended(x, z), x, q, m)
  <1>1. PICK N : N = 0 .. n OBVIOUS
  <1>2. 1 .. n \subseteq N BY <1>1
  <1>3. x \in Seq(N) /\ z \in Seq(N) /\ q \in Seq(N) BY <1>1, <1>2, SeqWidens
  <1>4. Range(z) \subseteq Range(q)
    <2>1. ASSUME NEW i \in DOMAIN z PROVE z[i] \in Range(q)
      <3>1. i \in 1 .. Len(z) BY <1>3, <2>1
      <3>2. m + Len(z) <= Len(q) BY DEF Piece
      <3>3. Len(z) \in Nat /\ Len(q) \in Nat /\ m \in Nat BY <1>3
      <3>4. m + i \in 1 .. Len(q) BY <3>1, <3>2, <3>3, SMTT(40)
      <3>5. DOMAIN q = 1 .. Len(q) BY <1>3
      <3>6. z[i] = q[m + i] BY <3>1 DEF Piece
      <3> QED BY <3>4, <3>5, <3>6 DEF Range
    <2> QED BY <2>1 DEF Range
  <1>5. Range(Extended(x, z)) \subseteq Range(x) \cup Range(z)
    <2>1. CASE x # <<>> /\ Last(x) = Torn /\ z # <<>>
      <3>1. PICK w : w = Tail(z) OBVIOUS
      <3>2. w \in Seq(N) BY <1>3, <2>1, <3>1, HeadTailProperties
      <3>3. Range(x \o w) = Range(x) \cup Range(w) BY <1>3, <3>2, RowFacts
      <3>4. Range(w) \subseteq Range(z) BY <1>3, <2>1, <3>1, SMTT(30) DEF Range
      <3>5. Extended(x, z) = x \o w BY <2>1, <3>1 DEF Extended
      <3> QED BY <3>3, <3>4, <3>5
    <2>2. CASE ~(x # <<>> /\ Last(x) = Torn /\ z # <<>>)
      <3>1. Extended(x, z) = x \o z BY <2>2 DEF Extended
      <3> QED BY <1>3, <3>1, RowFacts
    <2> QED BY <2>1, <2>2
  <1>6. ASSUME Torn \notin Range(Extended(x, z))
        PROVE  Torn \notin Range(x) /\ Continued(q, x, m, Extended(x, z))
    <2>1. PICK p : p = x \o z OBVIOUS
    <2>2. Torn \notin Range(x) /\ Extended(x, z) = p BY <1>6, <2>1, ExtendedFacts
    <2>3. /\ Len(p) = Len(x) + Len(z)
          /\ \A i \in 1 .. Len(x) : p[i] = x[i]
          /\ \A i \in 1 .. Len(z) : p[Len(x) + i] = z[i]
      BY <1>3, <2>1, RowFacts
    <2>4. Len(x) \in Nat /\ Len(z) \in Nat BY <1>3
    <2>5. Len(x) <= Len(p) /\ Len(p) - Len(x) = Len(z) BY <2>3, <2>4
    <2>6. Continued(q, x, m, p) BY <2>3, <2>5 DEF Continued, Piece
    <2> QED BY <2>2, <2>6
  <1> QED BY <1>4, <1>5, <1>6 DEF Grown

LEMMA AppendGrows ==
    ASSUME NEW n \in Nat, NEW x \in Seq(0 .. n), NEW t, t.snap \in Seq(1 .. n), t.old.total \in Nat,
           Appends(t), NEW l, l = Extended(x, NewLines(t)) \/ l \in Stopped(x, NewLines(t))
    PROVE  Grown(l, x, t.snap, t.old.total)
  <1>1. PICK q : q = t.snap OBVIOUS
  <1>2. PICK m : m = t.old.total OBVIOUS
  <1>3. PICK y : y = NewLines(t) OBVIOUS
  <1>4. q \in Seq(1 .. n) /\ m \in 0 .. Len(q) /\ y \in Seq(1 .. n) BY <1>1, <1>2, <1>3, NewLinesFacts
  <1>5. PICK N : N = 1 .. n OBVIOUS
  <1>6. Len(y) = Len(q) - m /\ \A i \in 1 .. Len(y) : y[i] = q[m + i]
    <2>1. q \in Seq(N) /\ y = SubSeq(q, m + 1, Len(q)) BY <1>1, <1>2, <1>3, <1>4, <1>5 DEF NewLines
    <2> QED BY <1>4, <2>1, RestFacts
  <1>7. CASE l = Extended(x, y)
    <2>1. Piece(y, q, m) BY <1>4, <1>6 DEF Piece
    <2> QED BY <1>1, <1>2, <1>4, <1>7, <2>1, PieceGrows
  <1>8. CASE l \in Stopped(x, y)
    <2>1. PICK k \in 0 .. Len(y) - 1 :
             l = Extended(x, SubSeq(y, 1, k)) \/ l = Append(Extended(x, SubSeq(y, 1, k)), Torn)
      BY <1>8 DEF Stopped
    <2>2. PICK z : z = SubSeq(y, 1, k) OBVIOUS
    <2>3. k \in 0 .. Len(y) /\ y \in Seq(N) BY <1>4, <1>5, <2>1
    <2>4. z \in Seq(N) /\ Len(z) = k /\ \A i \in 1 .. k : z[i] = y[i] BY <2>2, <2>3, PrefixFacts
    <2>5. Piece(z, q, m)
      <3>1. Len(y) \in Nat /\ Len(q) \in Nat /\ m \in Nat /\ k \in Nat /\ k <= Len(y) BY <1>4, <2>3
      <3>2. m + k <= Len(q) BY <1>6, <3>1
      <3>3. ASSUME NEW i \in 1 .. k PROVE z[i] = q[m + i]
        <4>1. i \in 1 .. Len(y) BY <3>1
        <4> QED BY <1>6, <2>4, <4>1
      <3> QED BY <2>4, <3>2, <3>3 DEF Piece
    <2>6. PICK e : e = Extended(x, z) OBVIOUS
    <2>7. Grown(e, x, q, m) BY <1>4, <1>5, <2>4, <2>5, <2>6, PieceGrows
    <2>8. CASE l = Append(e, Torn)
      <3>1. PICK M : M = 0 .. n OBVIOUS
      <3>2. PICK w : w = Torn OBVIOUS
      <3>3. z \in Seq(1 .. n) BY <1>5, <2>4
      <3>4. e \in Seq(0 .. n) BY <2>6, <3>3, ExtendedFacts
      <3>5. e \in Seq(M) /\ w \in M BY <3>1, <3>2, <3>4 DEF Torn
      <3>6. l \in Seq(M) /\ Len(l) = Len(e) + 1 /\ (\A i \in 1 .. Len(e) : l[i] = e[i]) /\ l[Len(e) + 1] = w
        BY <2>8, <3>2, <3>5, AppendProperties
      <3>7. DOMAIN l = 1 .. Len(e) + 1 /\ DOMAIN e = 1 .. Len(e) /\ Len(e) \in Nat BY <3>5, <3>6
      <3>8. Torn \in Range(l)
        <4>1. Len(e) + 1 \in DOMAIN l BY <3>7
        <4> QED BY <3>2, <3>6, <4>1 DEF Range
      <3>9. Range(l) \subseteq Range(e) \cup {Torn}
        <4>1. ASSUME NEW i \in DOMAIN l PROVE l[i] \in Range(e) \cup {Torn}
          <5>1. CASE i = Len(e) + 1 BY <3>2, <3>6, <5>1
          <5>2. CASE i # Len(e) + 1
            <6>1. i \in 1 .. Len(e) BY <3>7, <5>2
            <6> QED BY <3>6, <3>7, <6>1 DEF Range
          <5> QED BY <5>1, <5>2
        <4> QED BY <4>1 DEF Range
      <3> QED BY <1>1, <1>2, <2>7, <3>8, <3>9 DEF Grown
    <2> QED BY <1>1, <1>2, <2>1, <2>2, <2>6, <2>7, <2>8
  <1> QED BY <1>3, <1>7, <1>8

(* The boundary agrees: what the metadata stands for is in the conversation, and in the
   log as far as it is whole.                                                *)
LEMMA BoundaryAgrees ==
    ASSUME Typed, Holding, Plain, NEW x \in Seq(Made), Recorded(cur, x),
           Known(cur).total <= Len(conv), BoundaryUnchanged(conv, Known(cur))
    PROVE  /\ Len(x) = Known(cur).total /\ Len(x) \in 0 .. Len(conv)
           /\ Range(x) \subseteq Begin(conv, Len(x)) /\ Range(x) \subseteq Range(conv)
           /\ Whole(cur) => Begin(conv, Len(x)) \subseteq Range(log[cur])
           /\ x # <<>> => meta[cur] # None /\ conv[Len(x)] = meta[cur].fp
  <1>1. cur \in Sessions /\ conv \in Seq(Made) /\ log[cur] \in Seq(0 .. made) BY DEF Typed
  <1>2. Known(cur) \in Counts /\ (meta[cur] # None => Known(cur) = meta[cur]) BY <1>1, SomeMetadata
  <1>3. Len(x) = Known(cur).total
    <2>1. CASE meta[cur] = None BY <2>1 DEF Recorded, Fits, Known, NoMetadata
    <2>2. CASE meta[cur] # None BY <1>2, <2>2 DEF Recorded, Fits
    <2> QED BY <2>1, <2>2
  <1>4. PICK n : n = Len(x) OBVIOUS
  <1>5. n \in 0 .. Len(conv) BY <1>1, <1>3, <1>4
  <1>6. CASE n = 0
    <2>1. x = <<>> /\ DOMAIN x = {}
      <3>1. Len(x) = 0 BY <1>4, <1>6
      <3>2. x = <<>> BY <3>1, EmptySeq
      <3> QED BY <3>2
    <2>2. Range(x) = {} BY <2>1 DEF Range
    <2>3. 1 .. n = {} BY <1>6
    <2>4. Begin(conv, n) = {} BY <2>3 DEF Begin
    <2> QED BY <1>3, <1>4, <1>5, <2>1, <2>2, <2>4
  <1>7. CASE n # 0
    <2>1. meta[cur] # None
      <3>1. CASE meta[cur] = None BY <1>3, <1>4, <1>7, <3>1 DEF Known, NoMetadata
      <3> QED BY <3>1
    <2>2. x # <<>> /\ meta[cur].fp = x[n] /\ meta[cur].total = n
      BY <1>2, <1>3, <1>4, <1>7, <2>1 DEF Recorded, Fits
    <2>3. conv[n] = meta[cur].fp BY <1>2, <1>3, <1>4, <1>7, <2>1 DEF BoundaryUnchanged
    <2>4. n \in DOMAIN conv /\ n \in 1 .. Len(conv) BY <1>1, <1>5, <1>7
    <2>5. Range(x) \subseteq Begin(conv, n) BY <1>4, <2>2, <2>3, <2>4 DEF Recorded, Current, Ends
    <2>6. Begin(conv, n) \subseteq Range(conv) BY <1>1, <1>5, BeginFacts
    <2>7. ASSUME Whole(cur) PROVE Begin(conv, n) \subseteq Range(log[cur])
      <3>1. Bounded BY <2>1, <2>2, <2>3, <2>4 DEF Bounded
      <3>2. PICK p : p = SubSeq(conv, 1, n) OBVIOUS
      <3>3. Thinned(p, log[cur]) BY <2>2, <2>7, <3>1, <3>2 DEF Holding
      <3>4. p \in Seq(Made) /\ Len(p) = n /\ \A i \in 1 .. n : p[i] = conv[i]
        BY <1>1, <1>5, <3>2, PrefixFacts
      <3>5. PICK M : M = 0 .. made OBVIOUS
      <3>6. Made \subseteq M BY <3>5 DEF Made
      <3>7. p \in Seq(M) /\ log[cur] \in Seq(M) BY <1>1, <3>4, <3>5, <3>6, SeqWidens
      <3>8. Range(p) \subseteq Range(log[cur]) BY <3>3, <3>7, ThinnedKeeps
      <3>9. Begin(p, n) = Begin(conv, n)
        <4>1. n \in Nat BY <1>5
        <4> QED BY <3>4, <4>1, BeginSame
      <3>10. Begin(p, n) = Range(p) BY <3>4, BeginFacts
      <3> QED BY <3>8, <3>9, <3>10
    <2> QED BY <1>3, <1>4, <1>5, <2>1, <2>3, <2>5, <2>6, <2>7
  <1> QED BY <1>6, <1>7

(* What a step leaves: the other sessions as they were, the one at hand with x.  *)
Elsewhere(c) ==
    \A d \in Sessions \ {c} : /\ log'[d] = log[d] /\ meta'[d] = meta[d]
                              /\ removed'[d] = removed[d] /\ acked'[d] = acked[d]

LEMMA GoneBy ==
    ASSUME Gone, Plain, ~repeated, repeated' = FALSE, Seq(Made) \subseteq Seq(Made'),
           NEW c \in Sessions, c = cur', Elsewhere(c), NEW x \in Seq(Made'), Recorded(c, x)',
           Torn \notin Range(log'[c]) => Traced(conv', log'[c]),
           NEW T, T = removed'[c] \cup Range(acked'[c]),
           \A s \in Savers : Written(s)' => Range(log'[c]) \cap T \subseteq Range(conv')
    PROVE  Gone'
  <1>1. ASSUME NEW d \in Sessions PROVE \E z \in Seq(Made') : Recorded(d, z)'
    <2>1. CASE d = c BY <2>1
    <2>2. CASE d # c
      <3>1. PICK z \in Seq(Made) : Recorded(d, z) BY DEF Gone
      <3>2. Recorded(d, z)' BY <2>2, <3>1 DEF Recorded, Fits, Taken, Whole, Elsewhere
      <3> QED BY <3>1, <3>2
    <2> QED BY <2>1, <2>2
  <1>2. Whole(cur)' => Traced(conv, log[cur])' BY DEF Whole
  <1>3. \A s \in Savers : Written(s)' => (Range(log[cur]) \cap Taken(cur) \subseteq Range(conv))'
    BY DEF Taken
  <1> QED BY <1>1, <1>2, <1>3 DEF Gone

(* Nothing saved is at hand while nothing is saved: the conversation is edited, or it is
   that of another session.                                                  *)
Resting == \A s \in Savers : ~Written(s) /\ ~Finished(s)
LEMMA ConversationGone ==
    ASSUME Gone, Plain, ~repeated, repeated' = FALSE, Seq(Made) \subseteq Seq(Made'),
           UNCHANGED <<log, meta, removed, acked>>, Resting',
           NEW c \in Sessions, c = cur', NEW x \in Seq(Made), Recorded(c, x),
           Ends(x, conv'), Range(conv') \cap Taken(c) \subseteq Range(x),
           Whole(c) => Traced(conv', log[c])
    PROVE  Gone'
  <1>1. Elsewhere(c) BY DEF Elsewhere
  <1>2. \A s \in Savers : ~Written(s)' /\ ~Finished(s)' BY DEF Resting
  <1>3. Fits(c, x)' BY DEF Recorded, Fits, Taken
  <1>4. Current(x)' BY <1>2 DEF Current, Taken
  <1>5. Recorded(c, x)' BY <1>3, <1>4 DEF Recorded, Taken, Whole
  <1>6. PICK T : T = removed'[c] \cup Range(acked'[c]) OBVIOUS
  <1> QED BY <1>1, <1>2, <1>5, <1>6, GoneBy DEF Whole

(* Nothing is left of the conversation, or all of it. *)
LEMMA NothingTraced ==
    ASSUME NEW S, NEW x \in Seq(S), NEW l
    PROVE  Traced(<<>>, l) /\ Ends(x, <<>>) /\ Range(<<>>) = {}
  <1>1. DOMAIN <<>> = {} OBVIOUS
  <1> QED BY <1>1 DEF Traced, Ends, Range
Remains ==
    /\ conv' \in {conv, <<>>}
    /\ \A s \in Savers : /\ Written(s)' => conv' = conv
                         /\ Finished(s)' => Finished(s) /\ conv' = conv
LEMMA StayGone ==
    ASSUME Typed, Gone, Plain, ~repeated, UNCHANGED <<log, meta, removed, acked, repeated, cur, made>>,
           Remains, \A s \in Savers : Written(s)' => Written(s)
    PROVE  Gone'
  <1>1. PICK c \in Sessions : c = cur BY DEF Typed
  <1>2. PICK x \in Seq(Made) : Recorded(c, x) BY DEF Gone
  <1>3. Current(x) BY <1>1, <1>2 DEF Recorded
  <1>4. Elsewhere(c) /\ c = cur' /\ Made' = Made BY <1>1 DEF Elsewhere, Made
  <1>5. Ends(x, conv') /\ Range(conv') \cap Taken(c) \subseteq Range(x)
    BY <1>1, <1>3, NothingTraced DEF Remains, Current
  <1>6. \A s \in Savers : Finished(s)' => meta[c] # None /\ x = conv'
    BY <1>1, <1>3 DEF Remains, Current
  <1>7. Current(x)' BY <1>4, <1>5, <1>6 DEF Current, Taken
  <1>8. Recorded(c, x)' BY <1>2, <1>7 DEF Recorded, Fits, Taken, Whole
  <1>9. Torn \notin Range(log'[c]) => Traced(conv', log'[c])
    BY <1>1, <1>2, NothingTraced DEF Gone, Remains, Whole
  <1>10. PICK T : T = removed'[c] \cup Range(acked'[c]) OBVIOUS
  <1>11. \A s \in Savers : Written(s)' => Range(log'[c]) \cap T \subseteq Range(conv')
    BY <1>1, <1>10 DEF Gone, Remains, Taken
  <1>12. Seq(Made) \subseteq Seq(Made') /\ x \in Seq(Made') BY <1>4
  <1>13. repeated' = FALSE BY DEF Gone
  <1> QED BY <1>4, <1>8, <1>9, <1>10, <1>11, <1>12, <1>13, GoneBy

(* The log at hand grows. *)
Grows(l) ==
    /\ log' = [log EXCEPT ![cur] = l]
    /\ Known(cur).total <= Len(conv) /\ BoundaryUnchanged(conv, Known(cur))
    /\ Grown(l, log[cur], conv, Known(cur).total)
LEMMA GrowGone ==
    ASSUME Typed, Holding, Gone, Plain, ~repeated, UNCHANGED <<meta, removed, acked, repeated, cur, made>>,
           Remains, NEW l \in Seq(0 .. made), Grows(l)
    PROVE  Gone'
  <1>1. PICK c \in Sessions : c = cur BY DEF Typed
  <1>2. PICK x \in Seq(Made) : Recorded(c, x) BY DEF Gone
  <1>3. Current(x) BY <1>1, <1>2 DEF Recorded
  <1>4. log'[c] = l /\ Elsewhere(c) /\ c = cur' /\ Made' = Made
    BY <1>1 DEF Grows, Elsewhere, Made, Typed
  <1>5. PICK n : n = Len(x) OBVIOUS
  <1>6. /\ n = Known(c).total /\ n \in 0 .. Len(conv) /\ Range(x) \subseteq Range(conv)
        /\ Whole(c) => Begin(conv, n) \subseteq Range(log[c])
    BY <1>1, <1>2, <1>5, BoundaryAgrees DEF Grows
  <1>7. /\ Range(l) \subseteq Range(log[c]) \cup Range(conv) \cup {Torn}
        /\ Torn \notin Range(l) => Whole(c) /\ Continued(conv, log[c], n, l)
    BY <1>1, <1>6 DEF Grows, Grown, Whole
  <1>8. Torn \notin Taken(c)
    <2>1. removed[c] \in SUBSET Made /\ acked[c] \in Seq(Made) BY DEF Typed
    <2>2. Range(acked[c]) \subseteq Made BY <2>1, BeginFacts
    <2>3. Torn \notin Made BY DEF Torn, Made
    <2> QED BY <2>1, <2>2, <2>3 DEF Taken
  <1>9. Range(log[c]) \cap Taken(c) \subseteq Range(x) /\ Range(conv) \cap Taken(c) \subseteq Range(x)
    BY <1>1, <1>2, <1>3 DEF Recorded, Current
  <1>10. Range(l) \cap Taken(c) \subseteq Range(x) BY <1>7, <1>8, <1>9
  <1>11. ASSUME Torn \notin Range(l) PROVE Ends(x, l) /\ Traced(conv, l)
    <2>1. PICK S : S = 0 .. made OBVIOUS
    <2>2. Made \subseteq S BY <2>1 DEF Made
    <2>3. conv \in Seq(S) /\ x \in Seq(S) BY <2>2, SeqWidens DEF Typed
    <2>4. log[c] \in Seq(S) /\ l \in Seq(S) BY <2>1 DEF Typed
    <2>5. PICK k : k = log[c] OBVIOUS
    <2>6. k \in Seq(S) /\ Whole(c) /\ Continued(conv, k, n, l) /\ Begin(conv, n) \subseteq Range(k)
      BY <1>6, <1>7, <1>11, <2>4, <2>5
    <2>7. Ends(x, k) /\ Ends(x, conv) BY <1>2, <1>3, <2>5, <2>6 DEF Recorded, Current
    <2>8. Traced(conv, k) BY <1>1, <2>5, <2>6 DEF Gone
    <2>9. Ends(x, l) BY <1>5, <1>6, <2>3, <2>4, <2>6, <2>7, EndsGrows
    <2>10. Traced(conv, l) BY <1>6, <2>3, <2>4, <2>6, <2>8, TracedGrows
    <2> QED BY <2>9, <2>10
  <1>12. Ends(x, conv') /\ Range(conv') \cap Taken(c) \subseteq Range(x)
    BY <1>1, <1>3, NothingTraced DEF Remains, Current
  <1>13. \A s \in Savers : Finished(s)' => meta[c] # None /\ x = conv'
    BY <1>1, <1>3 DEF Remains, Current
  <1>14. Current(x)' BY <1>4, <1>12, <1>13 DEF Current, Taken
  <1>15. Fits(c, x)' BY <1>2 DEF Recorded, Fits, Taken
  <1>16. Recorded(c, x)' BY <1>2, <1>4, <1>10, <1>11, <1>14, <1>15 DEF Recorded, Taken, Whole
  <1>17. Torn \notin Range(log'[c]) => Traced(conv', log'[c])
    BY <1>4, <1>11, NothingTraced DEF Remains
  <1>18. PICK T : T = removed'[c] \cup Range(acked'[c]) OBVIOUS
  <1>19. \A s \in Savers : Written(s)' => Range(log'[c]) \cap T \subseteq Range(conv')
    BY <1>4, <1>6, <1>10, <1>18 DEF Remains, Taken
  <1>20. Seq(Made) \subseteq Seq(Made') /\ x \in Seq(Made') BY <1>4
  <1>21. repeated' = FALSE BY DEF Gone
  <1> QED BY <1>4, <1>16, <1>17, <1>18, <1>19, <1>20, <1>21, GoneBy

(* The metadata stands for the conversation as it is. *)
Adopts(m) ==
    /\ meta' = [meta EXCEPT ![cur] = m]
    /\ m.total = Len(conv) /\ (conv # <<>> => m.fp = conv[Len(conv)])
LEMMA AdoptGone ==
    ASSUME Typed, Gone, Plain, ~repeated, UNCHANGED <<log, removed, acked, repeated, cur, conv, made>>,
           NEW m \in Counts, Adopts(m), Range(log[cur]) \cap Taken(cur) \subseteq Range(conv)
    PROVE  Gone'
  <1>1. PICK c \in Sessions : c = cur BY DEF Typed
  <1>2. PICK x \in Seq(Made) : Recorded(c, x) BY DEF Gone
  <1>3. PICK q \in Seq(Made) : q = conv BY DEF Typed
  <1>4. meta'[c] = m /\ Elsewhere(c) /\ c = cur' /\ Made' = Made
    BY <1>1 DEF Adopts, Elsewhere, Made, Typed
  <1>5. meta'[c] # None BY <1>4, SomeMetadata
  <1>6. removed[c] \cap Range(q) = {}
    <2>1. Range(q) \cap Taken(c) \subseteq Range(x) /\ removed[c] \cap Range(x) = {}
      BY <1>1, <1>2, <1>3 DEF Recorded, Current
    <2> QED BY <2>1 DEF Taken
  <1>7. Whole(c) => Traced(q, log[c]) BY <1>1, <1>3 DEF Gone
  <1>8. Torn \notin Range(log[c]) => Ends(q, log[c])
    <2>1. PICK S : S = 0 .. made OBVIOUS
    <2>2. Made \subseteq S BY <2>1 DEF Made
    <2>3. q \in Seq(S) BY <2>2, SeqWidens
    <2>4. log[c] \in Seq(S) BY <2>1 DEF Typed
    <2> QED BY <1>7, <2>3, <2>4, TracedEnds DEF Whole
  <1>9. Fits(c, q)' BY <1>3, <1>4, <1>5 DEF Adopts, Fits
  <1>10. Ends(q, q) BY EndsSelf
  <1>11. Current(q)' BY <1>3, <1>4, <1>5, <1>10 DEF Current
  <1>12. Range(log[c]) \cap Taken(c) \subseteq Range(q) BY <1>1, <1>3
  <1>13. (Range(log[c]) \cap Taken(c) \subseteq Range(q) /\ removed[c] \cap Range(q) = {})'
    BY <1>6, <1>12 DEF Taken
  <1>14. Recorded(c, q)' BY <1>8, <1>9, <1>11, <1>13 DEF Recorded, Whole
  <1>15. Torn \notin Range(log'[c]) => Traced(conv', log'[c]) BY <1>3, <1>7 DEF Whole
  <1>16. PICK T : T = removed'[c] \cup Range(acked'[c]) OBVIOUS
  <1>17. \A s \in Savers : Written(s)' => Range(log'[c]) \cap T \subseteq Range(conv')
    BY <1>3, <1>12, <1>16 DEF Taken
  <1>18. Seq(Made) \subseteq Seq(Made') /\ q \in Seq(Made') BY <1>4
  <1>19. repeated' = FALSE BY DEF Gone
  <1> QED BY <1>4, <1>14, <1>15, <1>16, <1>17, <1>18, <1>19, GoneBy, ZenonT(60)

(* A save is done: what it took out is what was saved before and is not there any more. *)
LEMMA ReturnGone ==
    ASSUME Typed, Gone, Plain, ~repeated, UNCHANGED <<log, meta, repeated, cur, conv, made>>,
           NEW s \in Savers, Finished(s), acked' = [acked EXCEPT ![cur] = conv],
           removed' = [removed EXCEPT ![cur] = (@ \cup Range(acked[cur])) \ Range(conv)], Resting'
    PROVE  Gone'
  <1>1. PICK c \in Sessions : c = cur BY DEF Typed
  <1>2. PICK x \in Seq(Made) : Recorded(c, x) BY DEF Gone
  <1>3. meta[c] # None /\ x = conv /\ Current(x) BY <1>1, <1>2 DEF Recorded, Current
  <1>4. /\ acked'[c] = conv /\ removed'[c] = Taken(c) \ Range(conv)
        /\ Elsewhere(c) /\ c = cur' /\ Made' = Made
    BY <1>1 DEF Elsewhere, Made, Taken, Typed
  <1>5. \A t \in Savers : ~Written(t)' /\ ~Finished(t)' BY DEF Resting
  <1>6. removed'[c] \cup Range(acked'[c]) \subseteq Taken(c) \cup Range(x) BY <1>3, <1>4
  <1>7. Range(log[c]) \cap Taken(c) \subseteq Range(x) BY <1>2 DEF Recorded
  <1>8. (Range(log[c]) \cap Taken(c) \subseteq Range(x))' BY <1>6, <1>7 DEF Taken
  <1>9. (removed[c] \cap Range(x) = {})' BY <1>3, <1>4
  <1>10. Fits(c, x)' BY <1>2, <1>3 DEF Recorded, Fits
  <1>11. Current(x)' BY <1>3, <1>5 DEF Current
  <1>12. Recorded(c, x)' BY <1>2, <1>8, <1>9, <1>10, <1>11 DEF Recorded, Whole
  <1>13. Torn \notin Range(log'[c]) => Traced(conv', log'[c]) BY <1>1 DEF Gone, Whole
  <1>14. PICK T : T = removed'[c] \cup Range(acked'[c]) OBVIOUS
  <1>15. Seq(Made) \subseteq Seq(Made') /\ x \in Seq(Made') BY <1>4
  <1>16. repeated' = FALSE BY DEF Gone
  <1> QED BY <1>4, <1>5, <1>12, <1>13, <1>14, <1>15, <1>16, GoneBy

LEMMA GoneInit == Init => Gone
  <1> SUFFICES ASSUME Init PROVE Gone OBVIOUS
  <1>1. /\ conv = <<>> /\ repeated = FALSE /\ \A s \in Savers : task[s] = NoTask
        /\ \A d \in Sessions : log[d] = <<>> /\ meta[d] = None /\ acked[d] = <<>> /\ removed[d] = {}
    BY DEF Init
  <1>2. cur \in Sessions BY DEF Init
  <1>3. <<>> \in Seq(Made) /\ Range(<<>>) = {} /\ Ends(<<>>, <<>>) /\ Traced(<<>>, <<>>)
    <2>1. <<>> \in Seq(Made) OBVIOUS
    <2> QED BY <2>1, NothingTraced
  <1>4. \A s \in Savers : ~Written(s) /\ ~Finished(s) BY <1>1 DEF Written, Finished, NoTask
  <1>5. Current(<<>>) BY <1>1, <1>3, <1>4 DEF Current
  <1>6. ASSUME NEW d \in Sessions PROVE Recorded(d, <<>>)
    BY <1>1, <1>3, <1>5 DEF Recorded, Fits, Taken
  <1>7. Traced(conv, log[cur]) BY <1>1, <1>2, <1>3
  <1> QED BY <1>1, <1>3, <1>4, <1>6, <1>7 DEF Gone

(* The conversation is edited at its end. *)
LEMMA EditGone ==
    ASSUME Typed, Gone, Plain, ~repeated, repeated' = FALSE,
           UNCHANGED <<log, meta, removed, acked, cur>>, Resting',
           NEW n \in Nat, n = made + 1, made' \in {made, n}, conv' \in Seq(0 .. n), Regrown(conv, conv', n)
    PROVE  Gone'
  <1>1. PICK c \in Sessions : c = cur BY DEF Typed
  <1>2. PICK x \in Seq(Made) : Recorded(c, x) BY DEF Gone
  <1>3. PICK r : r = conv' OBVIOUS
  <1>4. PICK q : q = conv OBVIOUS
  <1>5. PICK l : l = log[c] OBVIOUS
  <1>6. PICK S : S = 0 .. n OBVIOUS
  <1>7. made \in Nat /\ Made \subseteq S /\ 0 .. made \subseteq S /\ n \notin 0 .. made /\ n \notin Made
    BY <1>6, LogAssumption, SMTT(30) DEF Typed, Made
  <1>8. q \in Seq(Made) /\ l \in Seq(0 .. made) BY <1>4, <1>5 DEF Typed
  <1>9. x \in Seq(S) /\ q \in Seq(S) /\ l \in Seq(S) /\ r \in Seq(S) BY <1>3, <1>6, <1>7, <1>8, SeqWidens
  <1>10. n \notin Range(x) /\ n \notin Range(q) /\ n \notin Range(l)
    <2>1. Range(x) \subseteq Made /\ Range(q) \subseteq Made BY <1>8, BeginFacts
    <2>2. PICK M : M = 0 .. made OBVIOUS
    <2>3. Range(l) \subseteq M BY <1>8, <2>2, BeginFacts
    <2> QED BY <1>7, <2>1, <2>2, <2>3
  <1>11. Regrown(q, r, n) BY <1>3, <1>4
  <1>12. Ends(x, r)
    <2>1. Ends(x, q) BY <1>1, <1>2, <1>4 DEF Recorded, Current
    <2> QED BY <1>9, <1>10, <1>11, <2>1, RegrownEnds
  <1>13. ASSUME Whole(c) PROVE Traced(r, l)
    <2>1. Traced(q, l) BY <1>1, <1>4, <1>5, <1>13 DEF Gone
    <2> QED BY <1>9, <1>10, <1>11, <2>1, RegrownTraced
  <1>14. n \notin Taken(c)
    <2>1. removed[c] \in SUBSET Made /\ acked[c] \in Seq(Made) BY DEF Typed
    <2>2. Range(acked[c]) \subseteq Made BY <2>1, BeginFacts
    <2> QED BY <1>7, <2>1, <2>2 DEF Taken
  <1>15. Range(r) \subseteq Range(q) \cup {n}
    <2>1. DOMAIN r = 1 .. Len(r) /\ DOMAIN q = 1 .. Len(q) /\ Len(q) \in Nat BY <1>9, SMTT(30)
    <2>2. ASSUME NEW i \in DOMAIN r PROVE r[i] \in Range(q) \cup {n}
      <3>1. CASE i <= Len(q) /\ \A k \in 1 .. i : r[k] = q[k]
        <4>1. i \in 1 .. i /\ i \in DOMAIN q BY <2>1, <3>1
        <4>2. r[i] = q[i] BY <3>1, <4>1
        <4> QED BY <4>1, <4>2 DEF Range
      <3>2. CASE r[i] = n BY <3>2
      <3> QED BY <1>11, <2>1, <3>1, <3>2 DEF Regrown
    <2> QED BY <2>2 DEF Range
  <1>16. Range(r) \cap Taken(c) \subseteq Range(x)
    <2>1. Range(q) \cap Taken(c) \subseteq Range(x) BY <1>1, <1>2, <1>4 DEF Recorded, Current
    <2> QED BY <1>14, <1>15, <2>1
  <1>17. Seq(Made) \subseteq Seq(Made')
    <2>1. Made \subseteq Made' BY <1>7 DEF Made
    <2> QED BY <2>1, SeqWidens
  <1> QED BY <1>1, <1>2, <1>3, <1>5, <1>12, <1>13, <1>16, <1>17, ConversationGone

(* The conversation is the one that is loaded. *)
LEMMA LoadGone ==
    ASSUME Typed, Gone, Plain, ~repeated, UNCHANGED <<log, meta, removed, acked, repeated, made>>,
           Resting', NEW d \in Sessions, Load(d)
    PROVE  Gone'
  <1>1. PICK x \in Seq(Made) : Recorded(d, x) BY DEF Gone
  <1>2. cur' = d /\ conv' = log[d] /\ Whole(d) BY DEF Load, Loadable, Whole
  <1>3. Ends(x, conv') /\ Range(conv') \cap Taken(d) \subseteq Range(x) BY <1>1, <1>2 DEF Recorded
  <1>4. Traced(conv', log[d])
    <2>1. PICK q \in Seq(0 .. made) : q = log[d] BY DEF Typed
    <2>2. Traced(q, q) BY TracedSelf
    <2> QED BY <1>2, <2>1, <2>2
  <1>5. Made' = Made /\ repeated' = FALSE BY DEF Made, Gone
  <1> QED BY <1>1, <1>2, <1>3, <1>4, <1>5, ConversationGone

(* It goes on in a session that has nothing yet. *)
LEMMA FreshGone ==
    ASSUME Typed, Gone, Plain, ~repeated, repeated' = FALSE,
           UNCHANGED <<log, meta, removed, acked, made>>, Resting',
           NEW d \in Sessions, cur' = d, meta[d] = None, log[d] = <<>>, conv' \in Seq(Made), IsInjective(conv')
    PROVE  Gone'
  <1>1. PICK x \in Seq(Made) : Recorded(d, x) BY DEF Gone
  <1>2. x = <<>> /\ Taken(d) = {} BY <1>1 DEF Recorded, Fits
  <1>3. Ends(x, conv') /\ Range(conv') \cap Taken(d) \subseteq Range(x) BY <1>2 DEF Ends
  <1>4. Traced(conv', log[d])
    <2>1. DOMAIN log[d] = {} OBVIOUS
    <2>2. ASSUME NEW i \in DOMAIN conv', NEW j \in DOMAIN conv', i < j, conv'[i] = conv'[j] PROVE FALSE
      <3>1. i = j BY <2>2 DEF IsInjective
      <3>2. i \in 1 .. Len(conv') OBVIOUS
      <3> QED BY <2>2, <3>1, <3>2
    <2> QED BY <2>1, <2>2 DEF Traced
  <1>5. Made' = Made BY DEF Made
  <1> QED BY <1>1, <1>3, <1>4, <1>5, ConversationGone

(* What a save has left to do when others get ready, read or let go of the lock. *)
LEMMA StaysFinished ==
    ASSUME Typed, NEW s \in Savers, NEW u \in Savers, Finished(u)',
           \/ RequestSave(s) \/ PatchMetadata(s) \/ WriteMessages(s)
           \/ ReadMetadata(s) /\ task'[s].pc # "done"
           \/ ReplaceMetadata(s) /\ task[s].kind = "patch"
           \/ Release(s)
    PROVE  Finished(u) /\ (Release(s) => u # s)
  <1>1. task \in [Savers -> Jobs] /\ task[s] \in Jobs /\ task[u] \in Jobs BY DEF Typed
  <1>2. CASE RequestSave(s)
    <2>1. task'[u] = IF u = s THEN [NoTask EXCEPT !.pc = Acquired(lockq, s), !.dir = cur, !.snap = conv]
                     ELSE task[u]
      BY <1>1, <1>2 DEF RequestSave
    <2>2. u # s BY <2>1 DEF Finished, NoTask, Acquired
    <2> QED BY <2>1, <2>2 DEF Finished
  <1>3. CASE PatchMetadata(s)
    <2>1. task'[u] = IF u = s THEN [NoTask EXCEPT !.pc = Acquired(lockq, s), !.kind = "patch", !.dir = cur]
                     ELSE task[u]
      BY <1>1, <1>3 DEF PatchMetadata
    <2>2. u # s BY <2>1 DEF Finished, NoTask, Acquired
    <2> QED BY <2>1, <2>2 DEF Finished
  <1>4. CASE WriteMessages(s)
    <2>1. task' = [task EXCEPT ![s].pc = "replace"] BY <1>4 DEF WriteMessages
    <2>2. task'[s].pc = "replace" /\ \A t \in Savers \ {s} : task'[t] = task[t] BY <1>1, <2>1 DEF Jobs
    <2> QED BY <2>2 DEF Finished
  <1>5. CASE ReadMetadata(s) /\ task'[s].pc # "done"
    <2>1. PICK m, p : task' = [task EXCEPT ![s].old = m, ![s].pc = p] BY <1>5 DEF ReadMetadata
    <2>2. \A t \in Savers \ {s} : task'[t] = task[t] BY <1>1, <2>1
    <2> QED BY <1>5, <2>2 DEF Finished
  <1>6. CASE ReplaceMetadata(s) /\ task[s].kind = "patch"
    <2>1. task' = [task EXCEPT ![s].pc = "done"] BY <1>6 DEF ReplaceMetadata
    <2>2. task'[s].kind = "patch" /\ \A t \in Savers \ {s} : task'[t] = task[t]
      BY <1>1, <1>6, <2>1 DEF Jobs
    <2> QED BY <2>2 DEF Finished
  <1>7. ASSUME Release(s) PROVE Finished(u) /\ u # s
    <2>1. task'[s] = NoTask /\ (u # s => task'[u] = Woken(s, u)) BY <1>7, ReleaseFacts
    <2>2. u # s BY <2>1 DEF Finished, NoTask
    <2>3. CASE task'[u] = task[u] BY <2>2, <2>3 DEF Finished
    <2>4. CASE task'[u] = [task[u] EXCEPT !.pc = "read"]
      <3>1. task'[u].pc = "read" BY <1>1, <2>4 DEF Jobs
      <3> QED BY <3>1 DEF Finished
    <2> QED BY <2>1, <2>2, <2>3, <2>4 DEF Woken
  <1> QED BY <1>2, <1>3, <1>4, <1>5, <1>6, <1>7

LEMMA ReleasesWritten ==
    ASSUME Typed, NEW s \in Savers, Release(s), NEW u \in Savers, Written(u)'
    PROVE  Written(u) /\ u # s
  <1>1. task'[s] = NoTask /\ (u # s => task'[u] = Woken(s, u)) /\ task[u] \in Jobs
    BY ReleaseFacts DEF Typed
  <1>2. u # s BY <1>1 DEF Written, NoTask
  <1>3. CASE task'[u] = task[u] BY <1>2, <1>3 DEF Written
  <1>4. CASE task'[u] = [task[u] EXCEPT !.pc = "read"]
    <2>1. task'[u].pc = "read" BY <1>1, <1>4 DEF Jobs
    <2> QED BY <2>1 DEF Written
  <1> QED BY <1>1, <1>2, <1>3, <1>4 DEF Woken

(* What a save of the session at hand writes. *)
LEMMA LinesGone ==
    ASSUME Typed, Holding, Gone, Plain, ~repeated,
           UNCHANGED <<meta, removed, acked, repeated, cur, made>>, Remains,
           NEW t, t.snap = conv, t.old = Known(cur), Appends(t), NEW l,
           l = Extended(log[cur], NewLines(t)) \/ l \in Stopped(log[cur], NewLines(t)),
           log' = [log EXCEPT ![cur] = l]
    PROVE  Gone'
  <1>1. PICK n : n = made OBVIOUS
  <1>2. PICK x : x = log[cur] OBVIOUS
  <1>3. cur \in Sessions /\ n \in Nat /\ x \in Seq(0 .. n) /\ t.snap \in Seq(1 .. n)
    BY <1>1, <1>2, LogAssumption DEF Typed, Made
  <1>4. Known(cur) \in Counts BY <1>3, SomeMetadata
  <1>5. t.old.total \in Nat BY <1>4 DEF Counts
  <1>6. Grown(l, x, t.snap, t.old.total) BY <1>2, <1>3, <1>5, AppendGrows
  <1>7. NewLines(t) \in Seq(1 .. n) BY <1>3, <1>5, NewLinesFacts
  <1>8. l \in Seq(0 .. n) BY <1>2, <1>3, <1>7, ExtendedFacts, StoppedFacts
  <1>9. Grows(l)
    <2>1. Len(conv) \in Nat BY DEF Typed
    <2>2. Known(cur).total <= Len(conv) /\ BoundaryUnchanged(conv, Known(cur))
      BY <1>5, <2>1 DEF Appends
    <2> QED BY <1>2, <1>6, <2>2 DEF Grows
  <1> QED BY <1>1, <1>8, <1>9, GrowGone

(* The log is replaced by the conversation. *)
Overwrites == log' = [log EXCEPT ![cur] = conv]
LEMMA OverwriteGone ==
    ASSUME Typed, Gone, Plain, ~repeated,
           UNCHANGED <<meta, removed, acked, repeated, cur, conv, made>>,
           \A s \in Savers : Finished(s)' => Finished(s), Overwrites
    PROVE  Gone'
  <1>1. PICK c \in Sessions : c = cur BY DEF Typed
  <1>2. PICK x \in Seq(Made) : Recorded(c, x) BY DEF Gone
  <1>3. Current(x) BY <1>1, <1>2 DEF Recorded
  <1>4. log'[c] = conv /\ Elsewhere(c) /\ c = cur' /\ Made' = Made
    BY <1>1 DEF Overwrites, Elsewhere, Made, Typed
  <1>5. Current(x)' BY <1>3 DEF Current, Taken
  <1>6. Fits(c, x)' BY <1>2 DEF Recorded, Fits, Taken
  <1>7. Ends(x, conv) /\ Range(conv) \cap Taken(c) \subseteq Range(x) BY <1>1, <1>3 DEF Current
  <1>8. Recorded(c, x)' BY <1>2, <1>4, <1>5, <1>6, <1>7 DEF Recorded, Taken
  <1>9. Traced(conv', log'[c]) BY <1>4, TracedSelf DEF Typed
  <1>10. PICK T : T = removed'[c] \cup Range(acked'[c]) OBVIOUS
  <1>11. \A s \in Savers : Written(s)' => Range(log'[c]) \cap T \subseteq Range(conv') BY <1>4
  <1>12. Seq(Made) \subseteq Seq(Made') /\ x \in Seq(Made') BY <1>4
  <1>13. repeated' = FALSE BY DEF Gone
  <1> QED BY <1>4, <1>8, <1>9, <1>10, <1>11, <1>12, <1>13, GoneBy

(* A session that began with a message twice is not forgotten. *)
LEMMA RepeatedStays ==
    ASSUME Gone, [Next]_vars
    PROVE  repeated' \in BOOLEAN /\ (repeated => repeated') /\ (~ResetSession => repeated' = repeated)
  <1>1. repeated \in BOOLEAN BY DEF Gone
  <1>2. CASE ResetSession BY <1>1, <1>2 DEF ResetSession
  <1>3. CASE ~ResetSession
    <2>1. repeated' = repeated
      BY <1>3, ZenonT(60) DEF history, Next, vars, NewMessage, Rewind, Restart, Rebind, Converse, Crash,
             RequestSave, PatchMetadata, ReadMetadata, WriteMessages, ReplaceMetadata, SaveReturns,
             WriteFails, CancelSave
    <2>2. repeated' \in BOOLEAN /\ (repeated => repeated') BY <1>1, <2>1, ZenonT(30)
    <2> QED BY <2>1, <2>2, ZenonT(30)
  <1> QED BY <1>2, <1>3

LEMMA GoneNext == ASSUME Typed, Working, Locked, Holding, Gone, [Next]_vars PROVE Gone'
  <1>0. repeated' \in BOOLEAN /\ (repeated => repeated') /\ (~ResetSession => repeated' = repeated)
    BY RepeatedStays
  <1> SUFFICES ASSUME Plain', ~repeated' PROVE Gone' BY <1>0 DEF Gone
  <1> USE DEF disk, memory, history
  <1>1. Plain /\ ~repeated /\ repeated' = FALSE
    <2>1. ~moved'  /\ Calm' BY SMTT(30) DEF Plain, Calm
    <2>2. moved' = moved \/ moved' = TRUE
      BY DEF Next, vars, NewMessage, Rewind, ResetSession, Restart, Rebind, Converse, Crash,
             RequestSave, PatchMetadata, ReadMetadata, WriteMessages, ReplaceMetadata, SaveReturns,
             WriteFails, CancelSave
    <2>3. Plain BY <2>1, <2>2, CalmBefore DEF Plain, Calm
    <2> QED BY <1>0, <2>3
  <1>2. Calm /\ (\A t \in Savers : Works(t) /\ Locks(t)) BY <1>1 DEF Working, Locked, Plain, Calm
  <1>3. /\ task \in [Savers -> Jobs] /\ cur \in Sessions /\ conv \in Seq(Made) /\ made \in Nat
        /\ log \in [Sessions -> Seq(0 .. made)] /\ meta \in [Sessions -> Counts \cup {None}]
    BY LogAssumption DEF Typed
  <1>4. ~Busy /\ UNCHANGED task => Resting'
    BY <1>2 DEF Busy, Resting, Written, Finished, Locks
  <1>5. CASE UNCHANGED vars
    <2>1. Remains /\ \A s \in Savers : Written(s)' => Written(s)
      BY <1>5 DEF vars, Remains, Written, Finished
    <2> QED BY <1>1, <1>5, <2>1, StayGone DEF vars
  <1>6. CASE NewMessage
    <2>1. made' = made + 1 /\ ~Busy /\ UNCHANGED <<log, meta, removed, acked, cur, task>>
      BY <1>6 DEF NewMessage, Converse
    <2>2. ~moved' BY DEF Plain
    <2>3. \/ conv' = Append(conv, made')
          \/ conv # <<>> /\ conv' = Append(Front(conv), made')
      BY <1>6, <2>2 DEF NewMessage, Converse
    <2>4. PICK n \in Nat : n = made' BY <1>3, <2>1
    <2>5. PICK N : N = 0 .. n OBVIOUS
    <2>6. n \in N /\ Made \subseteq N BY <1>3, <2>1, <2>4, <2>5 DEF Made
    <2>7. conv \in Seq(N) BY <1>3, <2>6, SeqWidens
    <2>8. PICK q \in Seq(N) : q = conv BY <2>7
    <2>9. PICK c : c = conv' OBVIOUS
    <2>10. /\ c \in Seq(N) /\ Len(c) >= 1 /\ c[Len(c)] = n /\ Len(c) - 1 <= Len(q)
           /\ \A i \in 1 .. Len(c) - 1 : c[i] = q[i]
      <3>1. CASE c = Append(q, n)
        <4>1. /\ c \in Seq(N) /\ Len(c) = Len(q) + 1 /\ (\A i \in 1 .. Len(q) : c[i] = q[i])
              /\ c[Len(q) + 1] = n
          BY <2>6, <2>8, <3>1, AppendProperties
        <4> QED BY <4>1
      <3>2. CASE q # <<>> /\ c = Append(Front(q), n)
        <4>1. Len(q) >= 1 /\ c \in Seq(N) /\ Replaced(q, n, c) BY <2>6, <2>8, <3>2, EndFacts
        <4> QED BY <4>1 DEF Replaced
      <3> QED BY <2>3, <2>4, <2>8, <2>9, <3>1, <3>2
    <2>11. Regrown(q, c, n)
      <3>1. ASSUME NEW j \in 1 .. Len(c), j # Len(c) PROVE j <= Len(q) /\ \A k \in 1 .. j : c[k] = q[k]
        <4>1. j <= Len(q) /\ \A k \in 1 .. j : k \in 1 .. Len(c) - 1 BY <2>8, <2>10, <3>1
        <4> QED BY <2>10, <4>1
      <3> QED BY <2>10, <3>1 DEF Regrown
    <2>12. conv' \in Seq(0 .. n) /\ Regrown(conv, conv', n) BY <2>5, <2>8, <2>9, <2>10, <2>11
    <2> QED BY <1>1, <1>4, <2>1, <2>4, <2>12, EditGone
  <1>7. CASE Rewind
    <2>1. PICK k \in 0 .. Len(conv) - 1 : Converse(SubSeq(conv, 1, k)) BY <1>7 DEF Rewind
    <2>2. conv' = SubSeq(conv, 1, k) /\ ~Busy /\ UNCHANGED <<log, meta, removed, acked, cur, task>>
      BY <2>1 DEF Converse
    <2>3. k \in 0 .. Len(conv) BY <1>3, <2>1
    <2>4. conv' \in Seq(Made) /\ Len(conv') = k /\ \A i \in 1 .. k : conv'[i] = conv[i]
      BY <1>3, <2>2, <2>3, PrefixFacts
    <2>5. PICK n \in Nat : n = made + 1 BY <1>3
    <2>6. Regrown(conv, conv', n)
      <3>1. ASSUME NEW j \in 1 .. k PROVE j <= Len(conv) /\ \A i \in 1 .. j : conv'[i] = conv[i]
        <4>1. j <= Len(conv) /\ \A i \in 1 .. j : i \in 1 .. k BY <1>3, <2>3
        <4> QED BY <2>4, <4>1
      <3> QED BY <2>4, <3>1 DEF Regrown
    <2>7. conv' \in Seq(0 .. n)
      <3>1. PICK N : N = 0 .. n OBVIOUS
      <3>2. Made \subseteq N BY <1>3, <2>5, <3>1 DEF Made
      <3> QED BY <2>4, <3>1, <3>2, SeqWidens
    <2>8. made' = made BY <1>7 DEF Rewind
    <2> QED BY <1>1, <1>4, <2>2, <2>5, <2>6, <2>7, <2>8, EditGone
  <1>8. CASE ResetSession
    <2>1. PICK d \in Sessions : meta[d] = None /\ log[d] = <<>> /\ cur' = d BY <1>8 DEF ResetSession
    <2>2. ~Busy /\ UNCHANGED <<log, meta, removed, acked, made, task>> /\ conv' \in {conv, <<>>}
      BY <1>8 DEF ResetSession
    <2>3. IsInjective(conv')
      <3>1. repeated' = (repeated \/ ~IsInjective(conv')) BY <1>8 DEF ResetSession
      <3> QED BY <3>1
    <2>4. conv' \in Seq(Made)
      <3>1. <<>> \in Seq(Made) OBVIOUS
      <3> QED BY <1>3, <2>2, <3>1
    <2> QED BY <1>1, <1>4, <2>1, <2>2, <2>3, <2>4, FreshGone
  <1>9. CASE Crash
    <2>1. /\ UNCHANGED <<meta, removed, acked, repeated, cur, made>> /\ conv' = <<>>
          /\ \A t \in Savers : task'[t] = NoTask
      BY <1>9 DEF Crash
    <2>2. \A t \in Savers : ~Written(t)' /\ ~Finished(t)' BY <2>1 DEF Written, Finished, NoTask
    <2>3. Remains BY <2>1, <2>2 DEF Remains
    <2>4. CASE UNCHANGED log BY <1>1, <2>1, <2>2, <2>3, <2>4, StayGone
    <2>5. ASSUME NEW s \in Savers, task[s].pc = "log", Appends(task[s]),
                 NEW l \in Stopped(log[task[s].dir], NewLines(task[s])),
                 log' = [log EXCEPT ![task[s].dir] = l]
          PROVE  Gone'
      <3>1. task[s].dir = cur /\ task[s].snap = conv /\ task[s].old = Known(cur)
        BY <1>2, <2>5 DEF Works, Saves, Locks
      <3>2. log' = [log EXCEPT ![cur] = l] /\ l \in Stopped(log[cur], NewLines(task[s])) BY <2>5, <3>1
      <3> QED BY <1>1, <2>1, <2>3, <2>5, <3>1, <3>2, LinesGone
    <2> QED BY <1>9, <2>4, <2>5 DEF Crash
  <1>10. CASE Restart
    <2>1. UNCHANGED <<log, meta, removed, acked, repeated, made, task>> /\ conv = <<>>
          /\ \A s \in Savers : task[s] = NoTask
      BY <1>10 DEF Restart, Working
    <2>2. Resting' BY <2>1 DEF Resting, Written, Finished, NoTask
    <2>3. CASE \E d \in Sessions : Load(d) BY <1>1, <2>1, <2>2, <2>3, LoadGone
    <2>4. ASSUME NEW d \in Sessions, meta[d] = None, log[d] = <<>>, cur' = d, UNCHANGED conv PROVE Gone'
      <3>1. conv' = <<>> BY <2>1, <2>4
      <3>2. IsInjective(conv')
        <4>1. DOMAIN <<>> = {} OBVIOUS
        <4> QED BY <3>1, <4>1 DEF IsInjective
      <3>3. conv' \in Seq(Made) BY <1>3, <2>4
      <3> QED BY <1>1, <2>1, <2>2, <2>4, <3>2, <3>3, FreshGone
    <2> QED BY <1>10, <2>3, <2>4 DEF Restart
  <1>11. CASE Rebind
    <2>1. UNCHANGED <<log, meta, removed, acked, repeated, made, task>> BY <1>11 DEF Rebind
    <2>2. Resting' BY <1>11, <2>1 DEF Resting, Written, Finished, Rebind
    <2>3. \E d \in Sessions : Load(d) BY <1>11 DEF Rebind
    <2> QED BY <1>1, <2>1, <2>2, <2>3, LoadGone
  <1>12. ASSUME NEW s \in Savers,
               \/ RequestSave(s) \/ PatchMetadata(s)
               \/ ReadMetadata(s) \/ WriteMessages(s) \/ ReplaceMetadata(s)
               \/ SaveReturns(s) \/ WriteFails(s) \/ CancelSave(s)
        PROVE  Gone'
    <2>0. task[s] \in Jobs /\ Works(s) /\ Locks(s) BY <1>2, <1>3
    <2>1. UNCHANGED <<repeated, cur, conv, made>> \/ CancelSave(s)
      BY <1>12 DEF RequestSave, PatchMetadata, ReadMetadata, WriteMessages, ReplaceMetadata,
                   SaveReturns, WriteFails
    <2>2. PICK x \in Seq(Made) : Recorded(cur, x) BY <1>1, <1>3 DEF Gone
    <2>3. CASE RequestSave(s) \/ PatchMetadata(s)
      <3>1. UNCHANGED <<log, meta, removed, acked, repeated, cur, conv, made>> /\ ~Written(s)
        BY <2>3 DEF RequestSave, PatchMetadata, Written
      <3>2. \A t \in Savers : Still(t) BY <2>3, <3>1, StillWaits
      <3>3. \A t \in Savers : Written(t)' => Written(t) BY <3>2 DEF Still
      <3>4. Remains BY <2>3, <3>1, StaysFinished DEF Remains
      <3> QED BY <1>1, <3>1, <3>3, <3>4, StayGone
    <2>4. CASE ReadMetadata(s)
      <3>1. UNCHANGED <<log, meta, removed, acked, repeated, cur, conv, made>> /\ ~Written(s)
        BY <2>4 DEF ReadMetadata, Written
      <3>2. \A t \in Savers : Still(t) BY <2>4, <3>1, StillWaits
      <3>3. \A t \in Savers : Written(t)' => Written(t) BY <3>2 DEF Still
      <3>4. CASE task'[s].pc # "done"
        <4>1. Remains BY <2>4, <3>1, <3>4, StaysFinished DEF Remains
        <4> QED BY <1>1, <3>1, <3>3, <4>1, StayGone
      <3>5. CASE task'[s].pc = "done"
        <4>1. /\ task[s].pc = "read" /\ task[s].kind # "patch" /\ meta[task[s].dir] # None
              /\ Len(task[s].snap) = meta[task[s].dir].total
              /\ BoundaryUnchanged(task[s].snap, meta[task[s].dir])
          <5>1. PICK p : p = IF task[s].kind = "patch" THEN "replace"
                             ELSE IF /\ meta[task[s].dir] # None
                                     /\ Len(task[s].snap) = meta[task[s].dir].total
                                     /\ BoundaryUnchanged(task[s].snap, meta[task[s].dir])
                                  THEN "done" ELSE "log"
            OBVIOUS
          <5>2. task[s].pc = "read" /\ task' = [task EXCEPT ![s].old = Known(task[s].dir), ![s].pc = p]
            BY <2>4, <5>1 DEF ReadMetadata, Known
          <5>3. task'[s].pc = p BY <1>3, <2>0, <5>2 DEF Jobs
          <5> QED BY <3>5, <5>1, <5>2, <5>3
        <4>2. task[s].dir = cur /\ task[s].snap = conv
          BY <2>0, <4>1 DEF Jobs, Works, Saves, Locks
        <4>3. PICK m \in Counts : m = meta[cur] BY <1>3, <4>1, <4>2
        <4>4. m = Known(cur) /\ m.total = Len(conv) /\ BoundaryUnchanged(conv, m)
          BY <4>1, <4>2, <4>3 DEF Known
        <4>5. /\ Len(x) = Len(conv) /\ Range(x) \subseteq Range(conv)
              /\ x # <<>> => conv[Len(x)] = meta[cur].fp
          <5>1. Len(conv) \in Nat BY <1>3
          <5>2. Known(cur).total <= Len(conv) BY <4>4, <5>1
          <5> QED BY <1>1, <2>2, <4>4, <5>2, BoundaryAgrees
        <4>6. conv # <<>> => m.fp = conv[Len(conv)]
          <5>1. conv # <<>> => x # <<>> BY <1>3, <4>5
          <5> QED BY <4>3, <4>5, <5>1
        <4>7. Range(log[cur]) \cap Taken(cur) \subseteq Range(conv) BY <2>2, <4>5 DEF Recorded
        <4>8. Adopts(m)
          <5>1. meta' = [meta EXCEPT ![cur] = m] BY <1>3, <3>1, <4>3
          <5> QED BY <4>4, <4>6, <5>1 DEF Adopts
        <4> QED BY <1>1, <3>1, <4>7, <4>8, AdoptGone
      <3> QED BY <3>4, <3>5
    <2>5. CASE WriteMessages(s)
      <3>1. /\ task[s].pc = "log" /\ UNCHANGED <<meta, removed, acked, repeated, cur, conv, made>>
            /\ log' = [log EXCEPT ![task[s].dir] =
                  IF Appends(task[s]) THEN Extended(@, NewLines(task[s])) ELSE task[s].snap]
        BY <2>5 DEF WriteMessages
      <3>2. task[s].dir = cur /\ task[s].snap = conv /\ task[s].old = Known(cur)
        BY <2>0, <3>1 DEF Works, Saves, Locks
      <3>3. \A t \in Savers : Finished(t)' => Finished(t) BY <2>5, StaysFinished
      <3>4. Remains BY <3>1, <3>3 DEF Remains
      <3>5. CASE Appends(task[s])
        <4>1. PICK l : l = Extended(log[cur], NewLines(task[s])) OBVIOUS
        <4>2. log' = [log EXCEPT ![cur] = l] BY <3>1, <3>2, <3>5, <4>1
        <4> QED BY <1>1, <3>1, <3>2, <3>4, <3>5, <4>1, <4>2, LinesGone
      <3>6. CASE ~Appends(task[s])
        <4>1. Overwrites BY <3>1, <3>2, <3>6 DEF Overwrites
        <4> QED BY <1>1, <3>1, <3>3, <4>1, OverwriteGone
      <3> QED BY <3>5, <3>6
    <2>6. CASE ReplaceMetadata(s)
      <3>1. /\ task[s].pc = "replace" /\ task' = [task EXCEPT ![s].pc = "done"]
            /\ UNCHANGED <<cur, conv, log, made, removed, acked, repeated>>
            /\ meta' = [meta EXCEPT ![task[s].dir] = NewMetadata(task[s])]
        BY <2>6 DEF ReplaceMetadata
      <3>2. CASE task[s].kind = "patch"
        <4>1. task[s].dir \in Sessions /\ task[s].old = meta[task[s].dir]
          BY <2>0, <3>1, <3>2 DEF Works, Locks
        <4>2. meta' = meta BY <1>3, <3>1, <3>2, <4>1 DEF NewMetadata
        <4>3. \A t \in Savers : Finished(t)' => Finished(t) BY <2>6, <3>2, StaysFinished
        <4>4. task'[s].pc = "done" /\ \A t \in Savers \ {s} : task'[t] = task[t]
          BY <1>3, <2>0, <3>1 DEF Jobs
        <4>5. \A t \in Savers : Written(t)' => Written(t) BY <4>4 DEF Written
        <4>6. Remains BY <3>1, <4>3 DEF Remains
        <4> QED BY <1>1, <3>1, <4>2, <4>5, <4>6, StayGone
      <3>3. CASE task[s].kind # "patch"
        <4>1. task[s].kind = "save" /\ task[s].dir = cur /\ task[s].snap = conv
          BY <2>0, <3>1, <3>3 DEF Jobs, Works, Saves, Locks
        <4>2. PICK m : m = NewMetadata(task[s]) OBVIOUS
        <4>3. m \in Counts /\ m.total = Len(conv) /\ (conv # <<>> => m.fp = conv[Len(conv)])
          BY <3>3, <4>1, <4>2, SavedMetadata DEF Last
        <4>4. Range(log[cur]) \cap Taken(cur) \subseteq Range(conv)
          BY <1>1, <3>1, <4>1 DEF Gone, Written
        <4>5. Adopts(m) BY <3>1, <4>1, <4>2, <4>3 DEF Adopts
        <4> QED BY <1>1, <3>1, <4>3, <4>4, <4>5, AdoptGone
      <3> QED BY <3>2, <3>3
    <2>7. CASE SaveReturns(s)
      <3>1. /\ task[s].pc = "done" /\ Release(s) /\ UNCHANGED <<log, meta, cur, conv, made, repeated>>
            /\ IF task[s].kind = "save" /\ ~task[s].orphan
               THEN /\ acked' = [acked EXCEPT ![task[s].dir] = task[s].snap]
                    /\ removed' = [removed EXCEPT ![task[s].dir] =
                          (@ \cup Range(acked[task[s].dir])) \ Range(task[s].snap)]
               ELSE UNCHANGED <<acked, removed>>
        BY <2>7 DEF SaveReturns
      <3>2. \A t \in Savers : Written(t)' => Written(t) BY <3>1, ReleasesWritten
      <3>3. \A t \in Savers : Finished(t)' => Finished(t) BY <3>1, StaysFinished
      <3>4. CASE task[s].kind = "save"
        <4>1. task[s].dir = cur /\ task[s].snap = conv /\ ~task[s].orphan
          BY <2>0, <3>1, <3>4 DEF Works, Saves, Locks
        <4>2. ASSUME NEW t \in Savers, Written(t)' \/ Finished(t)' PROVE FALSE
          <5>1. t # s /\ (Written(t) \/ Finished(t)) BY <3>1, <4>2, ReleasesWritten, StaysFinished
          <5>2. Active(t) /\ Active(s) BY <3>1, <5>1 DEF Active, Written, Finished
          <5> QED BY <1>2, <5>1, <5>2, Alone
        <4>3. Resting' BY <4>2 DEF Resting
        <4>4. Finished(s) BY <3>1, <3>4 DEF Finished
        <4>5. /\ acked' = [acked EXCEPT ![cur] = conv]
              /\ removed' = [removed EXCEPT ![cur] = (@ \cup Range(acked[cur])) \ Range(conv)]
          BY <3>1, <3>4, <4>1
        <4> QED BY <1>1, <3>1, <4>3, <4>4, <4>5, ReturnGone
      <3>5. CASE task[s].kind # "save"
        <4>1. UNCHANGED <<acked, removed>> BY <3>1, <3>5
        <4>2. Remains BY <3>1, <3>3 DEF Remains
        <4> QED BY <1>1, <3>1, <3>2, <4>1, <4>2, StayGone
      <3> QED BY <3>4, <3>5
    <2>8. CASE WriteFails(s)
      <3>1. UNCHANGED <<cur, conv, made, meta, removed, acked, repeated>> /\ Release(s)
        BY <2>8 DEF WriteFails
      <3>2. \A t \in Savers : Written(t)' => Written(t) BY <3>1, ReleasesWritten
      <3>3. \A t \in Savers : Finished(t)' => Finished(t) BY <3>1, StaysFinished
      <3>4. Remains BY <3>1, <3>3 DEF Remains
      <3>5. CASE task[s].pc = "log" /\ Appends(task[s])
        <4>1. PICK l \in Stopped(log[task[s].dir], NewLines(task[s])) :
                 log' = [log EXCEPT ![task[s].dir] = l]
          BY <2>8, <3>5 DEF WriteFails
        <4>2. task[s].dir = cur /\ task[s].snap = conv /\ task[s].old = Known(cur)
          BY <2>0, <3>5 DEF Works, Saves, Locks
        <4>3. log' = [log EXCEPT ![cur] = l] /\ l \in Stopped(log[cur], NewLines(task[s]))
          BY <4>1, <4>2
        <4> QED BY <1>1, <3>1, <3>4, <3>5, <4>2, <4>3, LinesGone
      <3>6. CASE ~(task[s].pc = "log" /\ Appends(task[s]))
        <4>1. UNCHANGED log BY <2>8, <3>6 DEF WriteFails
        <4> QED BY <1>1, <3>1, <3>2, <3>4, <4>1, StayGone
      <3> QED BY <3>5, <3>6
    <2>9. CASE CancelSave(s)
      <3>1. "cancel" \in Range(faults') BY <2>9, FaultFacts DEF CancelSave
      <3> QED BY <3>1 DEF Plain
    <2> QED BY <1>12, <2>3, <2>4, <2>5, <2>6, <2>7, <2>8, <2>9
  <1> QED BY <1>5, <1>6, <1>7, <1>8, <1>9, <1>10, <1>11, <1>12 DEF Next

-----------------------------------------------------------------------------
(* The invariant holds, and what it says of the runs' properties. *)

LEMMA IInvHolds == Spec => []IInv
  <1>1. Init => IInv BY TypedInit, WorkingInit, LockedInit, CountedInit, HoldingInit, GoneInit DEF IInv
  <1>2. IInv /\ [Next]_vars => IInv'
    BY TypedNext, WorkingNext, LockedNext, CountedNext, HoldingNext, GoneNext DEF IInv
  <1> QED BY <1>1, <1>2, PTL DEF Spec

LEMMA InvariantTypes == ASSUME IInv PROVE TypeOK
  <1>1. Typed BY DEF IInv
  <1>2. Made \subseteq Messages /\ 0 .. made \subseteq Messages \cup {Torn}
    BY <1>1, LogAssumption, SMTT(30) DEF Typed, Made, Messages, Torn
  <1>3. 0 .. made \subseteq Messages \cup {0} BY <1>2 DEF Torn
  <1>4. Counts \subseteq Metadata BY <1>3 DEF Counts, Metadata
  <1>5. ASSUME NEW q \in Seq(Made) PROVE q \in Seq(Messages) BY <1>2, SeqWidens
  <1>6. ASSUME NEW q \in Seq(0 .. made) PROVE q \in Seq(Messages \cup {Torn}) BY <1>2, SeqWidens
  <1>7. ASSUME NEW s \in Savers
        PROVE  /\ task[s].pc \in {"idle", "wait", "read", "log", "replace", "done"}
               /\ task[s].kind \in {"save", "patch"} /\ task[s].dir \in Sessions \cup {None}
               /\ task[s].snap \in Seq(Messages)
               /\ task[s].old \in Metadata \cup {None} /\ task[s].orphan \in BOOLEAN
    <2>1. task[s] \in Jobs BY <1>1 DEF Typed
    <2>2. task[s].snap \in Seq(Made) BY <2>1 DEF Jobs
    <2> QED BY <1>4, <1>5, <2>1, <2>2 DEF Jobs
  <1>8. DOMAIN task = Savers BY <1>1 DEF Typed
  <1>9. log \in [Sessions -> Seq(Messages \cup {Torn})] BY <1>1, <1>6 DEF Typed
  <1>10. meta \in [Sessions -> Metadata \cup {None}] BY <1>1, <1>4 DEF Typed
  <1>11. /\ wrote \in [Sessions -> Seq(Messages)] /\ acked \in [Sessions -> Seq(Messages)]
         /\ conv \in Seq(Messages)
    BY <1>1, <1>5 DEF Typed
  <1>12. removed \in [Sessions -> SUBSET Messages] /\ repeated \in BOOLEAN
    BY <1>1, <1>2 DEF Typed, IInv, Gone
  <1>13. /\ up \in BOOLEAN /\ cur \in Sessions /\ patches \in 0 .. MaxPatches /\ lockq \in Seq(Savers)
         /\ made \in 0 .. MaxMessages /\ moved \in BOOLEAN /\ faults \in Seq(Faults)
    BY <1>1 DEF Typed
  <1> QED BY <1>7, <1>8, <1>9, <1>10, <1>11, <1>12, <1>13 DEF TypeOK

(* Every state of the files, of the conversation and of the tasks that save has the
   declared types, and nothing names a message that was never made.          *)
THEOREM TypeCorrect == Spec => []TypeOK
  <1> QED BY IInvHolds, InvariantTypes, PTL

LEMMA InvariantCounts == ASSUME IInv PROVE MetadataMatchesLog
  <1>1. SUFFICES ASSUME faults = <<>>, \A s \in Savers : task[s].pc = "idle", NEW d \in Sessions
                 PROVE  Matches(d)
    BY DEF MetadataMatchesLog, Matches
  <1>2. \A s \in Savers : ~Written(s) BY <1>1 DEF Written
  <1> QED BY <1>1, <1>2 DEF IInv, Counted

(* When nothing is being saved and nothing failed, the metadata counts the messages of
   the log and names its last one, so the append shortcut of _save_interaction_sync
   starts from a boundary that is there, whatever saves and patches came before.  *)
THEOREM MetadataCountsTheLog == Spec => []MetadataMatchesLog
  <1> QED BY IInvHolds, InvariantCounts, PTL

LEMMA InvariantKeeps == ASSUME IInv PROVE LogHoldsConversation
  <1>1. SUFFICES ASSUME NEW d \in Sessions
                 PROVE  /\ faults = <<>> => log[d] = wrote[d]
                        /\ Plain /\ Torn \notin Range(log[d]) => IsSubsequence(wrote[d], log[d])
    BY DEF LogHoldsConversation
  <1>2. faults = <<>> => log[d] = wrote[d] BY DEF IInv, Counted
  <1>3. ASSUME Plain, Torn \notin Range(log[d]) PROVE IsSubsequence(wrote[d], log[d])
    <2>1. Thinned(wrote[d], log[d]) BY <1>3 DEF IInv, Holding, Whole
    <2>2. PICK S : S = 0 .. made OBVIOUS
    <2>3. Made \subseteq S BY <2>2 DEF IInv, Typed, Made
    <2>4. wrote[d] \in Seq(Made) /\ log[d] \in Seq(S) BY <2>2 DEF IInv, Typed
    <2>5. wrote[d] \in Seq(S) BY <2>3, <2>4, SeqWidens
    <2> QED BY <2>1, <2>4, <2>5, ThinnedIsFound
  <1> QED BY <1>2, <1>3

(* As long as nothing failed the log is the conversation written to it last, whatever was
   edited, rewound or regrown between two saves; and over any crashes and failed writes,
   a log that can be read still holds that conversation, in order.           *)
THEOREM LogsHoldTheConversation == Spec => []LogHoldsConversation
  <1> QED BY IInvHolds, InvariantKeeps, PTL

LEMMA InvariantGone == ASSUME IInv PROVE RewoundStaysGone
  <1>1. SUFFICES ASSUME Plain, ~repeated, NEW d \in Sessions PROVE removed[d] \cap Range(log[d]) = {}
    BY DEF RewoundStaysGone
  <1>2. PICK x \in Seq(Made) : Recorded(d, x) BY <1>1 DEF IInv, Gone
  <1>3. Range(log[d]) \cap removed[d] \subseteq Range(x) /\ removed[d] \cap Range(x) = {}
    BY <1>2 DEF Recorded, Taken
  <1> QED BY <1>3

(* What a completed save took out of a session, after a rewind or because the last message
   was replaced, does not come back into its log: not through appends that stop half way,
   nor when such a log is loaded and the conversation goes on from there.     *)
THEOREM WhatIsRewoundStaysGone == Spec => []RewoundStaysGone
  <1> QED BY IInvHolds, InvariantGone, PTL
=============================================================================
