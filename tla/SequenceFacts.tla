---------------------------- MODULE SequenceFacts ----------------------------
(* Facts about the sequences the models keep: queues that hold each element once,
   which somebody joins at the end and leaves from any place; and sequences of
   sequences laid end to end.                                                 *)
EXTENDS Integers, FiniteSets, Sequences, SequencesExt, WellFoundedInduction, TLAPS

(* Every set of natural numbers that is not empty has a least element: what an
   induction over a length rests on.                                         *)
LEMMA NatMin ==
    ASSUME NEW T, T \subseteq Nat, T # {}
    PROVE  \E x \in T : \A y \in T : x <= y
  <1> DEFINE R == OpToRel(<, Nat)
  <1>1. IsWellFoundedOn(R, Nat) BY NatLessThanWellFounded
  <1>2. PICK x \in T : \A y \in T : ~(<<y, x>> \in R)
    <2> HIDE DEF R
    <2> QED BY <1>1, WFMin
  <1>3. \A z, y \in Nat : y < z => <<y, z>> \in R BY DEF OpToRel
  <1> HIDE DEF R
  <1>4. ASSUME NEW y \in T PROVE x <= y
    <2>1. x \in Nat /\ y \in Nat OBVIOUS
    <2>2. ~(y < x) BY <1>2, <1>3, <2>1
    <2> QED BY <2>1, <2>2
  <1> QED BY <1>4

(* A set of natural numbers up to a bound that is not empty has a greatest element. *)
LEMMA NatMax ==
    ASSUME NEW n \in Nat, NEW T, T \subseteq 0 .. n, T # {}
    PROVE  Max(T) \in T /\ \A y \in T : y <= Max(T)
  <1>1. PICK U : U = {m \in Nat : \E i \in T : m = n - i} OBVIOUS
  <1>2. \A i \in T : n - i \in U BY <1>1
  <1>3. PICK u \in U : \A v \in U : u <= v
    <2>1. U \subseteq Nat /\ U # {} BY <1>1, <1>2
    <2> QED BY <2>1, NatMin
  <1>4. PICK x \in T : u = n - x BY <1>1
  <1>5. ASSUME NEW y \in T PROVE x >= y
    <2>1. n - x <= n - y BY <1>2, <1>3, <1>4
    <2> QED BY <2>1
  <1>6. \E m \in T : \A y \in T : m >= y BY <1>5
  <1>7. Max(T) \in T /\ \A y \in T : Max(T) >= y BY <1>6 DEF Max
  <1> QED BY <1>7

(* RemoveAt leaves a gap at its position: what is before it stays, what is after
   it moves up.                                                              *)
LEMMA Skips ==
    ASSUME NEW S, NEW q \in Seq(S), NEW i \in 1 .. Len(q)
    PROVE  /\ RemoveAt(q, i) \in Seq(S)
           /\ Len(RemoveAt(q, i)) = Len(q) - 1
           /\ \A j \in 1 .. Len(q) - 1 : RemoveAt(q, i)[j] = IF j < i THEN q[j] ELSE q[j + 1]
  <1>0. Len(q) \in Nat /\ i \in Nat OBVIOUS
  <1>1. PICK a : a = SubSeq(q, 1, i - 1) OBVIOUS
  <1>2. PICK b : b = SubSeq(q, i + 1, Len(q)) OBVIOUS
  <1>3. a \in Seq(S) /\ Len(a) = i - 1 BY <1>1
  <1>4. \A j \in 1 .. i - 1 : a[j] = q[j] BY <1>1
  <1>5. b \in Seq(S) /\ Len(b) = Len(q) - i BY <1>2
  <1>6. \A j \in 1 .. Len(q) - i : b[j] = q[i + j] BY <1>2
  <1>7. RemoveAt(q, i) = a \o b BY <1>1, <1>2 DEF RemoveAt
  <1>8. a \o b \in Seq(S) /\ Len(a \o b) = Len(a) + Len(b) BY <1>3, <1>5
  <1>9. Len(a \o b) = Len(q) - 1 BY <1>0, <1>3, <1>5, <1>8
  <1>10. ASSUME NEW j \in 1 .. Len(q) - 1
         PROVE  (a \o b)[j] = IF j < i THEN q[j] ELSE q[j + 1]
    <2>1. CASE j < i
      <3>1. j \in 1 .. Len(a) BY <2>1, <1>0, <1>3
      <3>2. (a \o b)[j] = a[j] BY <3>1, <1>3, <1>5
      <3>3. a[j] = q[j] BY <2>1, <1>0, <1>4
      <3> QED BY <3>2, <3>3, <2>1
    <2>2. CASE ~(j < i)
      <3>1. PICK k : k = j - i + 1 OBVIOUS
      <3>2. k \in 1 .. Len(b) /\ Len(a) + k = j /\ i + k = j + 1
        BY <2>2, <1>0, <1>3, <1>5, <3>1
      <3>3. (a \o b)[Len(a) + k] = b[k] BY <3>2, <1>3, <1>5
      <3>4. k \in 1 .. Len(q) - i BY <3>2, <1>5
      <3>5. b[k] = q[i + k] BY <3>4, <1>6
      <3> QED BY <3>2, <3>3, <3>5, <2>2
    <2> QED BY <2>1, <2>2
  <1> QED BY <1>7, <1>8, <1>9, <1>10

(* In a queue that holds each element once, the first occurrence of an element is
   the one there is.                                                         *)
LEMMA FirstOf ==
    ASSUME NEW S, NEW q \in Seq(S), IsInjective(q), NEW i \in 1 .. Len(q)
    PROVE  RemoveFirst(q, q[i]) = RemoveAt(q, i)
  <1>1. SelectInSeq(q, LAMBDA v : v = q[i]) = i
    <2>1. {j \in 1 .. Len(q) : q[j] = q[i]} = {i} BY DEF IsInjective
    <2> QED BY <2>1 DEF SelectInSeq, Min
  <1> QED BY <1>1 DEF RemoveFirst

(* A queue with a gap holds each element once, all of them but the one taken out,
   and has the same head if that one was not it.                             *)
LEMMA GapInjective ==
    ASSUME NEW S, NEW q \in Seq(S), IsInjective(q), NEW i \in 1 .. Len(q), NEW r \in Seq(S),
           Len(r) = Len(q) - 1,
           \A j \in 1 .. Len(q) - 1 : r[j] = IF j < i THEN q[j] ELSE q[j + 1]
    PROVE  /\ IsInjective(r) /\ Range(r) = Range(q) \ {q[i]}
           /\ q[1] # q[i] => r # <<>> /\ Head(r) = Head(q)
  <1>0. Len(q) \in Nat /\ DOMAIN r = 1 .. Len(q) - 1 /\ DOMAIN q = 1 .. Len(q) OBVIOUS
  <1>1. \A m, n \in 1 .. Len(q) : q[m] = q[n] => m = n BY SMTT(30) DEF IsInjective
  <1>2. IsInjective(r)
    <2> SUFFICES ASSUME NEW j \in 1 .. Len(q) - 1, NEW k \in 1 .. Len(q) - 1, r[j] = r[k]
                 PROVE  j = k
      BY <1>0 DEF IsInjective
    <2>1. CASE j < i /\ k < i BY <1>0, <1>1, <2>1
    <2>2. CASE j < i /\ k >= i BY <1>0, <1>1, <2>2
    <2>3. CASE j >= i /\ k < i BY <1>0, <1>1, <2>3
    <2>4. CASE j >= i /\ k >= i BY <1>0, <1>1, <2>4
    <2> QED BY <1>0, <2>1, <2>2, <2>3, <2>4
  <1>3. ASSUME NEW x \in Range(r) PROVE x \in Range(q) \ {q[i]}
    <2> PICK j \in 1 .. Len(q) - 1 : r[j] = x BY <1>0 DEF Range
    <2>1. CASE j < i BY <1>0, <1>1, <2>1 DEF Range
    <2>2. CASE j >= i
      <3>1. j + 1 \in 1 .. Len(q) /\ j + 1 # i /\ r[j] = q[j + 1] BY <1>0, <2>2
      <3> QED BY <3>1, <1>0, <1>1 DEF Range
    <2> QED BY <2>1, <2>2, <1>0
  <1>4. ASSUME NEW x \in Range(q) \ {q[i]} PROVE x \in Range(r)
    <2> PICK j \in 1 .. Len(q) : q[j] = x BY <1>0 DEF Range
    <2>1. CASE j < i
      <3>1. j \in 1 .. Len(q) - 1 /\ r[j] = q[j] BY <2>1, <1>0
      <3> QED BY <3>1, <1>0 DEF Range
    <2>2. CASE j > i
      <3>1. j - 1 \in 1 .. Len(q) - 1 /\ r[j - 1] = q[j] BY <2>2, <1>0
      <3> QED BY <3>1, <1>0 DEF Range
    <2> QED BY <2>1, <2>2, <1>0
  <1>5. ASSUME q[1] # q[i] PROVE r # <<>> /\ Head(r) = Head(q)
    <2>1. i > 1 /\ Len(q) > 1 BY <1>5, <1>0
    <2>2. r[1] = q[1] /\ Len(r) > 0 BY <2>1, <1>0
    <2> QED BY <2>1, <2>2
  <1> QED BY <1>2, <1>3, <1>4, <1>5

(* Who leaves a queue (deque.remove of an asyncio.Lock's waiters) is gone from it,
   the others are not, and the head is the same if it was not the one.       *)
LEMMA LeaveQueue ==
    ASSUME NEW S, NEW q \in Seq(S), IsInjective(q), NEW t
    PROVE  /\ RemoveFirst(q, t) \in Seq(S)
           /\ IsInjective(RemoveFirst(q, t))
           /\ Range(RemoveFirst(q, t)) = Range(q) \ {t}
           /\ q # <<>> /\ Head(q) # t =>
                 RemoveFirst(q, t) # <<>> /\ Head(RemoveFirst(q, t)) = Head(q)
  <1>1. CASE \A i \in 1 .. Len(q) : q[i] # t
    <2>1. RemoveFirst(q, t) = q BY <1>1 DEF RemoveFirst
    <2> QED BY <2>1, <1>1 DEF Range
  <1>2. CASE \E i \in 1 .. Len(q) : q[i] = t
    <2> PICK i \in 1 .. Len(q) : q[i] = t BY <1>2
    <2>1. RemoveFirst(q, t) = RemoveAt(q, i) BY FirstOf
    <2>2. /\ RemoveAt(q, i) \in Seq(S)
          /\ IsInjective(RemoveAt(q, i)) /\ Range(RemoveAt(q, i)) = Range(q) \ {q[i]}
          /\ q[1] # q[i] => RemoveAt(q, i) # <<>> /\ Head(RemoveAt(q, i)) = Head(q)
      BY SMTT(30), Skips, GapInjective
    <2> QED BY <2>1, <2>2
  <1> QED BY <1>1, <1>2

(* Who joins a queue is in it once, behind the head.                           *)
LEMMA JoinQueue ==
    ASSUME NEW S, NEW q \in Seq(S), IsInjective(q), NEW t \in S \ Range(q)
    PROVE  /\ Append(q, t) \in Seq(S)
           /\ IsInjective(Append(q, t))
           /\ Range(Append(q, t)) = Range(q) \cup {t}
           /\ q # <<>> => Head(Append(q, t)) = Head(q)
  <1>1. /\ Append(q, t) \in Seq(S) /\ Len(Append(q, t)) = Len(q) + 1
        /\ \A j \in 1 .. Len(q) : Append(q, t)[j] = q[j]
        /\ Append(q, t)[Len(q) + 1] = t
    OBVIOUS
  <1>2. PICK r : r = Append(q, t) OBVIOUS
  <1>3. \A j \in 1 .. Len(q) : q[j] # t BY DEF Range
  <1>4. IsInjective(r) BY <1>1, <1>2, <1>3 DEF IsInjective
  <1>5. Range(r) = Range(q) \cup {t} BY <1>1, <1>2 DEF Range
  <1> QED BY <1>1, <1>2, <1>4, <1>5

-----------------------------------------------------------------------------
(* Some elements of a sequence, in their order. *)
Thinned(a, b) ==
    \E g \in [1 .. Len(a) -> 1 .. Len(b)] :
       /\ \A i \in 1 .. Len(a) : a[i] = b[g[i]]
       /\ \A i, j \in 1 .. Len(a) : i < j => g[i] < g[j]

(* What is true of any two elements in their order stays true. *)
LEMMA ThinnedKeeps ==
    ASSUME NEW S, NEW a \in Seq(S), NEW b \in Seq(S), Thinned(a, b)
    PROVE  /\ Range(a) \subseteq Range(b)
           /\ IsInjective(b) => IsInjective(a)
           /\ \A j, k \in 1 .. Len(a) : j < k =>
                 \E m, n \in 1 .. Len(b) : m < n /\ a[j] = b[m] /\ a[k] = b[n]
  <1>1. PICK g \in [1 .. Len(a) -> 1 .. Len(b)] :
           /\ \A i \in 1 .. Len(a) : a[i] = b[g[i]]
           /\ \A i, j \in 1 .. Len(a) : i < j => g[i] < g[j]
    BY DEF Thinned
  <1>2. /\ DOMAIN a = 1 .. Len(a) /\ DOMAIN b = 1 .. Len(b)
        /\ Len(a) \in Nat /\ Len(b) \in Nat
    OBVIOUS
  <1>3. Range(a) \subseteq Range(b) BY <1>1, <1>2 DEF Range
  <1>4. ASSUME IsInjective(b) PROVE IsInjective(a)
    <2> SUFFICES ASSUME NEW i \in 1 .. Len(a), NEW j \in 1 .. Len(a), a[i] = a[j] PROVE i = j
      BY <1>2 DEF IsInjective
    <2>1. g[i] = g[j] BY <1>1, <1>2, <1>4 DEF IsInjective
    <2>2. i \in Int /\ j \in Int /\ g[i] \in Int BY <1>2
    <2>3. ~(i < j) /\ ~(j < i) BY <2>1, <2>2, <1>1
    <2> QED BY <2>2, <2>3
  <1> QED BY <1>1, <1>3, <1>4

(* Two sequences in a row. *)
LEMMA RowFacts ==
    ASSUME NEW S, NEW a \in Seq(S), NEW b \in Seq(S)
    PROVE  /\ a \o b \in Seq(S) /\ Len(a \o b) = Len(a) + Len(b)
           /\ \A i \in 1 .. Len(a) : (a \o b)[i] = a[i]
           /\ \A i \in 1 .. Len(b) : (a \o b)[Len(a) + i] = b[i]
           /\ Range(a \o b) = Range(a) \cup Range(b)
           /\ IsInjective(a \o b) =>
                 IsInjective(a) /\ IsInjective(b) /\ Range(a) \cap Range(b) = {}
  <1>1. PICK c : c = a \o b OBVIOUS
  <1>2. /\ c \in Seq(S) /\ Len(c) = Len(a) + Len(b) /\ Len(a) \in Nat /\ Len(b) \in Nat
        /\ \A i \in 1 .. Len(a) : c[i] = a[i]
        /\ DOMAIN a = 1 .. Len(a) /\ DOMAIN b = 1 .. Len(b) /\ DOMAIN c = 1 .. Len(c)
    BY <1>1
  <1>3. ASSUME NEW i \in 1 .. Len(b) PROVE c[Len(a) + i] = b[i] BY <1>1, <1>2
  <1>4. Range(c) = Range(a) \cup Range(b)
    <2>1. ASSUME NEW i \in 1 .. Len(c) PROVE c[i] \in Range(a) \cup Range(b)
      <3>1. CASE i <= Len(a) BY <3>1, <1>2 DEF Range
      <3>2. CASE i > Len(a)
        <4>1. PICK j \in 1 .. Len(b) : i = Len(a) + j
          <5>1. i - Len(a) \in 1 .. Len(b) /\ i = Len(a) + (i - Len(a)) BY <3>2, <1>2
          <5> QED BY <5>1
        <4> QED BY <4>1, <1>2, <1>3 DEF Range
      <3> QED BY <3>1, <3>2, <1>2
    <2>2. ASSUME NEW i \in 1 .. Len(a) PROVE a[i] \in Range(c)
      <3>1. i \in 1 .. Len(c) BY <1>2
      <3> QED BY <3>1, <1>2 DEF Range
    <2>3. ASSUME NEW i \in 1 .. Len(b) PROVE b[i] \in Range(c)
      <3>1. Len(a) + i \in 1 .. Len(c) BY <1>2
      <3> QED BY <3>1, <1>2, <1>3 DEF Range
    <2> QED BY <2>1, <2>2, <2>3, <1>2 DEF Range
  <1>5. ASSUME IsInjective(c)
        PROVE  IsInjective(a) /\ IsInjective(b) /\ Range(a) \cap Range(b) = {}
    <2>0. \A i, j \in 1 .. Len(c) : c[i] = c[j] => i = j BY <1>2, <1>5 DEF IsInjective
    <2>1. \A i \in 1 .. Len(a) : i \in 1 .. Len(c) BY <1>2
    <2>2. \A i \in 1 .. Len(b) : Len(a) + i \in 1 .. Len(c) BY <1>2
    <2>3. IsInjective(a) BY <2>0, <2>1, <1>2 DEF IsInjective
    <2>4. ASSUME NEW i \in 1 .. Len(b), NEW j \in 1 .. Len(b), b[i] = b[j] PROVE i = j
      <3>1. Len(a) + i = Len(a) + j BY <2>0, <2>2, <2>4, <1>3
      <3> QED BY <3>1, <1>2
    <2>5. ASSUME NEW i \in 1 .. Len(a), NEW j \in 1 .. Len(b), a[i] = b[j] PROVE FALSE
      <3>1. i = Len(a) + j BY <2>0, <2>1, <2>2, <2>5, <1>2, <1>3
      <3> QED BY <3>1, <1>2
    <2> QED BY <2>3, <2>4, <2>5, <1>2 DEF IsInjective, Range
  <1> QED BY <1>1, <1>2, <1>3, <1>4, <1>5

(* What taking an element at an end leaves is thinner. *)
LEMMA TailThins ==
    ASSUME NEW S, NEW q \in Seq(S), q # <<>>
    PROVE  Thinned(Tail(q), q) /\ Thinned(SubSeq(q, 1, Len(q) - 1), q)
  <1>1. PICK r : r = Tail(q) OBVIOUS
  <1>2. Len(q) \in Nat /\ Len(q) >= 1 /\ Len(r) = Len(q) - 1
        /\ \A i \in 1 .. Len(r) : r[i] = q[i + 1]
    BY <1>1
  <1>3. Thinned(r, q)
    <2>1. PICK g : g = [i \in 1 .. Len(r) |-> i + 1] OBVIOUS
    <2>2. g \in [1 .. Len(r) -> 1 .. Len(q)] BY <2>1, <1>2
    <2>3. \A i \in 1 .. Len(r) : r[i] = q[g[i]] BY <2>1, <1>2
    <2>4. \A i, j \in 1 .. Len(r) : i < j => g[i] < g[j] BY <2>1, <1>2
    <2> QED BY <2>2, <2>3, <2>4 DEF Thinned
  <1>4. PICK f : f = SubSeq(q, 1, Len(q) - 1) OBVIOUS
  <1>5. Len(f) = Len(q) - 1 /\ \A i \in 1 .. Len(f) : f[i] = q[i] BY <1>2, <1>4
  <1>6. Thinned(f, q)
    <2>1. PICK g : g = [i \in 1 .. Len(f) |-> i] OBVIOUS
    <2>2. g \in [1 .. Len(f) -> 1 .. Len(q)] BY <2>1, <1>2, <1>5
    <2>3. \A i \in 1 .. Len(f) : f[i] = q[g[i]] BY <2>1, <1>5
    <2>4. \A i, j \in 1 .. Len(f) : i < j => g[i] < g[j] BY <2>1
    <2> QED BY <2>2, <2>3, <2>4 DEF Thinned
  <1> QED BY <1>1, <1>3, <1>4, <1>6

(* What follows in a row may be thinned, and what comes before dropped. *)
LEMMA RowThins ==
    ASSUME NEW S, NEW a \in Seq(S), NEW b \in Seq(S), NEW c \in Seq(S), Thinned(c, b)
    PROVE  Thinned(a \o c, a \o b) /\ Thinned(c, a \o b)
  <1>1. PICK g \in [1 .. Len(c) -> 1 .. Len(b)] :
           /\ \A i \in 1 .. Len(c) : c[i] = b[g[i]]
           /\ \A i, j \in 1 .. Len(c) : i < j => g[i] < g[j]
    BY DEF Thinned
  <1>2. PICK x : x = a \o c OBVIOUS
  <1>3. PICK y : y = a \o b OBVIOUS
  <1>4. /\ Len(a) \in Nat /\ Len(b) \in Nat /\ Len(c) \in Nat
        /\ Len(x) = Len(a) + Len(c) /\ Len(y) = Len(a) + Len(b)
        /\ \A i \in 1 .. Len(a) : x[i] = a[i] /\ y[i] = a[i]
        /\ \A i \in 1 .. Len(c) : x[Len(a) + i] = c[i]
        /\ \A i \in 1 .. Len(b) : y[Len(a) + i] = b[i]
    BY <1>2, <1>3, RowFacts
  <1>5. Thinned(c, y)
    <2>1. PICK h : h = [i \in 1 .. Len(c) |-> Len(a) + g[i]] OBVIOUS
    <2>2. h \in [1 .. Len(c) -> 1 .. Len(y)] BY <2>1, <1>1, <1>4
    <2>3. \A i \in 1 .. Len(c) : c[i] = y[h[i]] BY <2>1, <1>1, <1>4
    <2>4. ASSUME NEW i \in 1 .. Len(c), NEW j \in 1 .. Len(c), i < j PROVE h[i] < h[j]
      <3>1. /\ g[i] < g[j] /\ g[i] \in 1 .. Len(b) /\ g[j] \in 1 .. Len(b)
            /\ h[i] = Len(a) + g[i] /\ h[j] = Len(a) + g[j]
        BY <2>1, <2>4, <1>1
      <3> QED BY <3>1, <1>4
    <2> QED BY <2>2, <2>3, <2>4 DEF Thinned
  <1>6. Thinned(x, y)
    <2>1. PICK h : h = [i \in 1 .. Len(x) |-> IF i <= Len(a) THEN i ELSE Len(a) + g[i - Len(a)]]
      OBVIOUS
    <2>2. ASSUME NEW i \in 1 .. Len(x)
          PROVE  /\ h[i] \in 1 .. Len(y) /\ x[i] = y[h[i]]
                 /\ i > Len(a) => i - Len(a) \in 1 .. Len(c)
      <3>1. CASE i <= Len(a) BY <3>1, <2>1, <1>4
      <3>2. CASE i > Len(a)
        <4>1. PICK k \in 1 .. Len(c) : k = i - Len(a) BY <3>2, <1>4
        <4>2. i = Len(a) + k /\ h[i] = Len(a) + g[k] BY <4>1, <3>2, <2>1, <1>4
        <4>3. x[i] = c[k] /\ c[k] = b[g[k]] /\ g[k] \in 1 .. Len(b) BY <4>2, <1>1, <1>4
        <4>4. y[h[i]] = b[g[k]] /\ h[i] \in 1 .. Len(y) BY <4>2, <4>3, <1>4
        <4> QED BY <4>1, <4>3, <4>4
      <3> QED BY <3>1, <3>2, <1>4
    <2>3. h \in [1 .. Len(x) -> 1 .. Len(y)] BY <2>1, <2>2
    <2>4. ASSUME NEW i \in 1 .. Len(x), NEW j \in 1 .. Len(x), i < j PROVE h[i] < h[j]
      <3>1. CASE j <= Len(a) BY <3>1, <2>4, <2>1, <1>4
      <3>2. CASE j > Len(a)
        <4>1. j - Len(a) \in 1 .. Len(c) /\ g[j - Len(a)] \in 1 .. Len(b) BY <3>2, <2>2, <1>1
        <4>2. CASE i <= Len(a) BY <4>1, <4>2, <3>2, <2>1, <1>4
        <4>3. CASE i > Len(a)
          <5>1. i - Len(a) \in 1 .. Len(c) /\ i - Len(a) < j - Len(a) BY <4>3, <2>2, <2>4, <1>4
          <5>2. g[i - Len(a)] < g[j - Len(a)] /\ g[i - Len(a)] \in 1 .. Len(b)
            BY <4>1, <5>1, <1>1
          <5> QED BY <4>1, <4>3, <5>2, <3>2, <2>1, <1>4
        <4> QED BY <4>2, <4>3, <1>4
      <3> QED BY <3>1, <3>2, <1>4
    <2> QED BY <2>2, <2>3, <2>4 DEF Thinned
  <1> QED BY <1>2, <1>3, <1>5, <1>6

(* The first of what follows in a row goes over to what comes before. *)
LEMMA RowMoves ==
    ASSUME NEW S, NEW a \in Seq(S), NEW q \in Seq(S), q # <<>>
    PROVE  Append(a, Head(q)) \o Tail(q) = a \o q
  <1>1. PICK x : x = Append(a, Head(q)) \o Tail(q) OBVIOUS
  <1>2. PICK y : y = a \o q OBVIOUS
  <1>3. x \in Seq(S) /\ y \in Seq(S) /\ Len(x) = Len(y) BY <1>1, <1>2
  <1>4. ASSUME NEW i \in 1 .. Len(x) PROVE x[i] = y[i] BY <1>1, <1>2
  <1>5. x = y BY <1>3, <1>4
  <1> QED BY <1>1, <1>2, <1>5

(* A sequence is as thin as itself. *)
LEMMA ThinnedSelf == ASSUME NEW S, NEW q \in Seq(S) PROVE Thinned(q, q)
  <1>1. PICK g : g = [i \in 1 .. Len(q) |-> i] OBVIOUS
  <1>2. g \in [1 .. Len(q) -> 1 .. Len(q)] BY <1>1
  <1>3. \A i \in 1 .. Len(q) : q[i] = q[g[i]] BY <1>1
  <1>4. \A i, j \in 1 .. Len(q) : i < j => g[i] < g[j] BY <1>1
  <1> QED BY <1>2, <1>3, <1>4 DEF Thinned

(* What an end of a queue leaves holds all the others. *)
LEMMA EndsLeave ==
    ASSUME NEW S, NEW q \in Seq(S), q # <<>>, IsInjective(q)
    PROVE  /\ Tail(q) \in Seq(S) /\ Range(Tail(q)) = Range(q) \ {Head(q)}
           /\ SubSeq(q, 1, Len(q) - 1) \in Seq(S)
           /\ Range(SubSeq(q, 1, Len(q) - 1)) = Range(q) \ {q[Len(q)]}
  <1>0. Len(q) \in Nat /\ Len(q) >= 1 /\ 1 \in 1 .. Len(q) /\ Len(q) \in 1 .. Len(q) OBVIOUS
  <1>1. PICK r : r = Tail(q) OBVIOUS
  <1>2. /\ r \in Seq(S) /\ Len(r) = Len(q) - 1
        /\ \A j \in 1 .. Len(q) - 1 : r[j] = IF j < 1 THEN q[j] ELSE q[j + 1]
    BY <1>0, <1>1
  <1>3. Range(r) = Range(q) \ {q[1]} BY <1>0, <1>2, GapInjective
  <1>4. PICK f : f = SubSeq(q, 1, Len(q) - 1) OBVIOUS
  <1>5. /\ f \in Seq(S) /\ Len(f) = Len(q) - 1
        /\ \A j \in 1 .. Len(q) - 1 : f[j] = q[j]
    <2>0. Len(q) \in Nat /\ Len(q) >= 1 OBVIOUS
    <2>1. Len(f) = Len(q) - 1
      <3>1. PICK n \in Nat : n = Len(q) BY <2>0
      <3>2. n >= 1 BY <2>0, <3>1
      <3>3. f = SubSeq(q, 1, n - 1) BY <1>4, <3>1
      <3>4. Len(f) = n - 1 BY <3>1, <3>2, <3>3
      <3> QED BY <3>1, <3>4
    <2>3. \A j \in 1 .. Len(q) - 1 : f[j] = q[j] BY <2>0, <1>4
    <2>2. f \in Seq(S) BY <2>0, <1>4
    <2> QED BY <2>1, <2>2, <2>3
  <1>6. \A j \in 1 .. Len(q) - 1 : f[j] = IF j < Len(q) THEN q[j] ELSE q[j + 1]
    BY <1>0, <1>5
  <1>7. Range(f) = Range(q) \ {q[Len(q)]} BY SMTT(30), <1>0, <1>5, <1>6, GapInjective
  <1> QED BY SMTT(30), <1>1, <1>2, <1>3, <1>4, <1>5, <1>7

(* What joins the second of a row joins the row. *)
LEMMA RowJoins ==
    ASSUME NEW S, NEW a \in Seq(S), NEW q \in Seq(S), NEW t \in S
    PROVE  a \o Append(q, t) = Append(a \o q, t)
  <1>1. PICK x : x = a \o Append(q, t) OBVIOUS
  <1>2. PICK y : y = Append(a \o q, t) OBVIOUS
  <1>3. x \in Seq(S) /\ y \in Seq(S) /\ Len(x) = Len(y) BY <1>1, <1>2
  <1>4. ASSUME NEW i \in 1 .. Len(x) PROVE x[i] = y[i] BY <1>1, <1>2
  <1>5. x = y BY <1>3, <1>4
  <1> QED BY <1>1, <1>2, <1>5

-----------------------------------------------------------------------------
(* Sequences laid end to end. *)

(* Induction up to a bound, over a set. *)
LEMMA UpTo ==
    ASSUME NEW n \in Nat, NEW T, n >= 1 => 1 \in T,
           \A m \in 1 .. n - 1 : m \in T => m + 1 \in T
    PROVE  \A m \in 1 .. n : m \in T
  <1> SUFFICES ASSUME NEW k \in 1 .. n, k \notin T PROVE FALSE OBVIOUS
  <1>1. PICK B : B = {m \in 1 .. n : m \notin T} OBVIOUS
  <1>2. k \in B /\ B \subseteq Nat /\ B # {} BY <1>1
  <1>3. PICK b \in B : \A y \in B : b <= y BY <1>2, NatMin
  <1>4. b \in 1 .. n /\ b \notin T /\ n >= 1 BY <1>1, <1>3
  <1>5. CASE b = 1 BY <1>4, <1>5
  <1>6. CASE b # 1
    <2>1. b - 1 \in 1 .. n - 1 /\ b - 1 \in 1 .. n /\ b - 1 + 1 = b BY <1>4, <1>6
    <2>2. b - 1 \notin B BY <1>3, <2>1, <1>4
    <2>3. b - 1 \in T BY <1>1, <2>1, <2>2
    <2>4. b - 1 + 1 \in T BY <2>1, <2>3
    <2> QED BY <1>4, <2>1, <2>4
  <1> QED BY <1>5, <1>6

(* The same from zero. *)
LEMMA CountUp ==
    ASSUME NEW n \in Nat, NEW T, 0 \in T, \A m \in 0 .. n - 1 : m \in T => m + 1 \in T
    PROVE  \A m \in 0 .. n : m \in T
  <1>1. n >= 1 => 1 \in T
    <2>1. ASSUME n >= 1 PROVE 1 \in T
      <3>1. 0 \in 0 .. n - 1 /\ 0 + 1 = 1 BY <2>1
      <3> QED BY <3>1
    <2> QED BY <2>1
  <1>2. \A m \in 1 .. n - 1 : m \in T => m + 1 \in T OBVIOUS
  <1>3. \A m \in 1 .. n : m \in T BY <1>1, <1>2, UpTo
  <1> QED BY <1>3

(* F[i][x] is what the i-th of n steps makes of x; g[i] what i steps make of v. *)
Steps(F, n, V) == \A i \in 1 .. n : \A x \in V : F[i][x] \in V
Iterated(g, F, n, v, V) ==
    g \in [0 .. n -> V] /\ g[0] = v /\ \A i \in 1 .. n : g[i] = F[i][g[i - 1]]

(* There is such a g for any number of steps. *)
LEMMA Iterates ==
    ASSUME NEW n \in Nat, NEW V, NEW v \in V, NEW F, Steps(F, n, V)
    PROVE  \E g : Iterated(g, F, n, v, V)
  <1>1. PICK T : T = {m \in 0 .. n : \E g \in [0 .. m -> V] :
                         g[0] = v /\ \A i \in 1 .. m : g[i] = F[i][g[i - 1]]} OBVIOUS
  <1>2. 0 \in T
    <2>1. PICK g : g = [i \in 0 .. 0 |-> v] OBVIOUS
    <2>2. g \in [0 .. 0 -> V] /\ g[0] = v /\ \A i \in 1 .. 0 : g[i] = F[i][g[i - 1]] BY <2>1
    <2> QED BY <1>1, <2>2
  <1>3. ASSUME NEW m \in 0 .. n - 1, m \in T PROVE m + 1 \in T
    <2>1. PICK g \in [0 .. m -> V] : g[0] = v /\ \A i \in 1 .. m : g[i] = F[i][g[i - 1]]
      BY <1>1, <1>3
    <2>2. PICK k \in 1 .. n : k = m + 1 OBVIOUS
    <2>3. PICK h : h = [i \in 0 .. k |-> IF i = k THEN F[k][g[m]] ELSE g[i]] OBVIOUS
    <2>4. g[m] \in V BY <2>1
    <2>5. F[k][g[m]] \in V BY <2>2, <2>4 DEF Steps
    <2>6. h \in [0 .. k -> V] /\ h[0] = v /\ h[k] = F[k][g[m]] /\ \A i \in 0 .. m : h[i] = g[i]
      BY <2>1, <2>2, <2>3, <2>5
    <2>7. ASSUME NEW i \in 1 .. k PROVE h[i] = F[i][h[i - 1]]
      <3>1. CASE i = k
        <4>1. i - 1 = m /\ m \in 0 .. m BY <3>1, <2>2
        <4> QED BY <3>1, <4>1, <2>6
      <3>2. CASE i # k
        <4>1. i \in 1 .. m /\ i \in 0 .. m /\ i - 1 \in 0 .. m BY <3>2, <2>2
        <4> QED BY <4>1, <2>1, <2>6
      <3> QED BY <3>1, <3>2
    <2> QED BY <1>1, <2>2, <2>6, <2>7
  <1>4. \A m \in 0 .. n : m \in T BY <1>2, <1>3, CountUp
  <1>5. n \in T BY <1>4
  <1> QED BY <1>1, <1>5 DEF Iterated

(* The first m sequences of ss joined one by one: g[i] is what the first i give. *)
Joins(g, m, ss, S) ==
    /\ g \in [1 .. m -> Seq(S)] /\ g[1] = ss[1]
    /\ \A i \in 2 .. m : g[i] = g[i - 1] \o ss[i]

(* They can be joined, however many there are. *)
LEMMA JoinsExist ==
    ASSUME NEW S, NEW n \in Nat, n >= 1, NEW ss, \A i \in 1 .. n : ss[i] \in Seq(S)
    PROVE  \E g : Joins(g, n, ss, S)
  <1>1. PICK T : T = {m \in 1 .. n : \E g : Joins(g, m, ss, S)} OBVIOUS
  <1>2. 1 \in T
    <2>1. PICK a \in Seq(S) : a = ss[1] OBVIOUS
    <2>2. PICK g : g = [i \in 1 .. 1 |-> a] OBVIOUS
    <2>3. g \in [1 .. 1 -> Seq(S)] /\ g[1] = ss[1] BY <2>1, <2>2
    <2>4. Joins(g, 1, ss, S) BY <2>3 DEF Joins
    <2> QED BY <1>1, <2>4
  <1>3. ASSUME NEW m \in 1 .. n - 1, m \in T PROVE m + 1 \in T
    <2>1. PICK g : Joins(g, m, ss, S) BY <1>1, <1>3
    <2>2. PICK k \in 1 .. n : k = m + 1 OBVIOUS
    <2>3. m \in 1 .. m /\ g[m] \in Seq(S) /\ ss[k] \in Seq(S) BY <2>1 DEF Joins
    <2>4. PICK c \in Seq(S) : c = g[m] \o ss[k]
      <3>1. PICK a \in Seq(S) : a = g[m] BY <2>3
      <3>2. PICK b \in Seq(S) : b = ss[k] BY <2>3
      <3>3. a \o b \in Seq(S) OBVIOUS
      <3> QED BY <3>1, <3>2, <3>3
    <2>5. PICK h : h = [i \in 1 .. k |-> IF i = k THEN c ELSE g[i]] OBVIOUS
    <2>6. h \in [1 .. k -> Seq(S)] /\ h[k] = c /\ \A i \in 1 .. m : h[i] = g[i]
      BY <2>1, <2>2, <2>5 DEF Joins
    <2>7. h[1] = ss[1] BY <2>1, <2>6 DEF Joins
    <2>8. ASSUME NEW i \in 2 .. k PROVE h[i] = h[i - 1] \o ss[i]
      <3>1. CASE i = k
        <4>1. i - 1 = m BY <3>1, <2>2
        <4> QED BY <3>1, <4>1, <2>3, <2>4, <2>6
      <3>2. CASE i # k
        <4>1. i \in 2 .. m /\ i \in 1 .. m /\ i - 1 \in 1 .. m BY <3>2, <2>2
        <4> QED BY <4>1, <2>1, <2>6 DEF Joins
      <3> QED BY <3>1, <3>2
    <2>9. Joins(h, k, ss, S) BY <2>6, <2>7, <2>8 DEF Joins
    <2> QED BY <1>1, <2>2, <2>9
  <1>4. \A m \in 1 .. n : m \in T BY <1>2, <1>3, UpTo
  <1> QED BY <1>1, <1>4

(* FlattenSeq is the last of the joins. *)
LEMMA FlattenIs ==
    ASSUME NEW S, NEW ss \in Seq(Seq(S)), NEW n \in Nat, n = Len(ss), n >= 1
    PROVE  \E g : Joins(g, n, ss, S) /\ FlattenSeq(ss) = g[n]
  <1>1. \A i \in 1 .. n : ss[i] \in Seq(S) OBVIOUS
  <1>2. PICK h : Joins(h, n, ss, S) BY <1>1, JoinsExist
  <1> DEFINE D(g) == [i \in 1 .. Len(ss) |-> IF i = 1 THEN ss[i] ELSE g[i - 1] \o ss[i]]
             flatten == CHOOSE f : f = D(f)
  <1>3. h = D(h)
    <2>1. ASSUME NEW i \in 1 .. n PROVE h[i] = D(h)[i]
      <3>1. CASE i = 1 BY <1>2, <3>1 DEF Joins
      <3>2. CASE i # 1
        <4>1. i \in 2 .. n BY <3>2
        <4> QED BY <4>1, <1>2, <3>2 DEF Joins
      <3> QED BY <3>1, <3>2
    <2>2. h = [i \in 1 .. n |-> h[i]] BY <1>2 DEF Joins
    <2>3. D(h) = [i \in 1 .. n |-> D(h)[i]] OBVIOUS
    <2> HIDE DEF D
    <2> QED BY <2>1, <2>2, <2>3
  <1>4. flatten = D(flatten)
    <2> HIDE DEF D
    <2> QED BY <1>3
  <1>5. PICK g : g = flatten OBVIOUS
  <1>6. FlattenSeq(ss) = g[n] BY <1>5 DEF FlattenSeq
  <1>7. g = [i \in 1 .. n |-> IF i = 1 THEN ss[i] ELSE g[i - 1] \o ss[i]] BY ZenonT(60), <1>4, <1>5
  <1> HIDE DEF flatten, D
  <1>8. g[1] = ss[1] BY <1>7
  <1>9. ASSUME NEW i \in 2 .. n PROVE g[i] = g[i - 1] \o ss[i]
    <2>1. i \in 1 .. n /\ i # 1 OBVIOUS
    <2> QED BY <2>1, <1>7
  <1>10. g = h
    <2>1. PICK T : T = {m \in 1 .. n : g[m] = h[m]} OBVIOUS
    <2>2. 1 \in T BY <1>2, <1>8, <2>1 DEF Joins
    <2>3. ASSUME NEW m \in 1 .. n - 1, m \in T PROVE m + 1 \in T
      <3>1. PICK k \in 2 .. n : k = m + 1 OBVIOUS
      <3>2. k - 1 = m BY <3>1
      <3>3. g[k] = g[m] \o ss[k] /\ h[k] = h[m] \o ss[k] BY <1>2, <1>9, <3>2 DEF Joins
      <3>4. g[m] = h[m] BY <2>1, <2>3
      <3>5. g[k] = h[k] BY <3>3, <3>4
      <3>6. k \in T BY <2>1, <3>5
      <3> QED BY <3>1, <3>6
    <2>4. \A m \in 1 .. n : m \in T BY <2>2, <2>3, UpTo
    <2>5. \A m \in 1 .. n : g[m] = h[m] BY <2>1, <2>4
    <2>6. h = [i \in 1 .. n |-> h[i]] BY <1>2 DEF Joins
    <2>7. g = [i \in 1 .. n |-> g[i]] BY <1>7
    <2> QED BY <2>5, <2>6, <2>7
  <1> QED BY <1>2, <1>6, <1>10

(* f holds n sequences end to end: the i-th ends at off[i], and its elements stand
   behind off[i - 1].                                                         *)
Laid(ss, n, f, off) ==
    /\ off \in [0 .. n -> Nat] /\ off[0] = 0 /\ Len(f) = off[n]
    /\ \A i \in 1 .. n : off[i] = off[i - 1] + Len(ss[i])
    /\ \A i \in 1 .. n : \A j \in 1 .. Len(ss[i]) : f[off[i - 1] + j] = ss[i][j]

(* FlattenSeq lays the sequences of a sequence end to end. *)
LEMMA Flattened ==
    ASSUME NEW S, NEW ss \in Seq(Seq(S)), NEW n \in Nat, n = Len(ss), n >= 1
    PROVE  FlattenSeq(ss) \in Seq(S) /\ \E off : Laid(ss, n, FlattenSeq(ss), off)
  <1>1. PICK g : Joins(g, n, ss, S) /\ FlattenSeq(ss) = g[n] BY FlattenIs
  <1>2. \A i \in 1 .. n : ss[i] \in Seq(S) /\ g[i] \in Seq(S)
    <2>1. \A i \in 1 .. n : ss[i] \in Seq(S) OBVIOUS
    <2>2. \A i \in 1 .. n : g[i] \in Seq(S) BY <1>1, Zenon DEF Joins
    <2> QED BY <2>1, <2>2
  <1>3. PICK off : off = [i \in 0 .. n |-> IF i = 0 THEN 0 ELSE Len(g[i])] OBVIOUS
  <1>4. off \in [0 .. n -> Nat] /\ off[0] = 0 /\ \A i \in 1 .. n : off[i] = Len(g[i])
    BY <1>2, <1>3
  <1>5. ASSUME NEW i \in 1 .. n PROVE off[i] = off[i - 1] + Len(ss[i])
    <2>1. CASE i = 1
      <3>1. Len(ss[1]) \in Nat BY <1>2
      <3> QED BY <3>1, <2>1, <1>1, <1>4 DEF Joins
    <2>2. CASE i # 1
      <3>1. i \in 2 .. n /\ i - 1 \in 1 .. n BY <2>2
      <3>2. g[i] = g[i - 1] \o ss[i] /\ g[i - 1] \in Seq(S) /\ ss[i] \in Seq(S)
        BY <3>1, <1>1, <1>2 DEF Joins
      <3>3. Len(g[i]) = Len(g[i - 1]) + Len(ss[i]) BY <3>2
      <3> QED BY <3>1, <3>3, <1>4
    <2> QED BY <2>1, <2>2
  <1>6. PICK V : V = {m \in 1 .. n : \A i \in 1 .. m : \A j \in 1 .. Len(ss[i]) :
                      /\ off[i - 1] + j \in 1 .. Len(g[m])
                      /\ g[m][off[i - 1] + j] = ss[i][j]} OBVIOUS
  <1>7. 1 \in V
    <2>1. ASSUME NEW i \in 1 .. 1, NEW j \in 1 .. Len(ss[i])
          PROVE  off[i - 1] + j \in 1 .. Len(g[1]) /\ g[1][off[i - 1] + j] = ss[i][j]
      <3>1. i = 1 /\ i - 1 = 0 OBVIOUS
      <3>2. off[i - 1] + j = j BY <3>1, <1>4
      <3> QED BY <3>1, <3>2, <1>1 DEF Joins
    <2> QED BY <1>6, <2>1
  <1>8. ASSUME NEW m \in 1 .. n - 1, m \in V PROVE m + 1 \in V
    <2>1. PICK k \in 2 .. n : k = m + 1 OBVIOUS
    <2>2. k - 1 = m /\ k \in 1 .. n /\ m \in 1 .. n BY <2>1
    <2>3. PICK a \in Seq(S) : a = g[m] BY <1>2, <2>2
    <2>4. PICK b \in Seq(S) : b = ss[k] BY <1>2, <2>2
    <2>5. off[m] = Len(a) BY <1>4, <2>2, <2>3
    <2>6. g[k] = a \o b BY <2>2, <2>3, <2>4, <1>1 DEF Joins
    <2>7. /\ Len(a) \in Nat /\ Len(b) \in Nat /\ Len(a \o b) = Len(a) + Len(b)
          /\ \A x \in 1 .. Len(a) : (a \o b)[x] = a[x]
          /\ \A x \in 1 .. Len(b) : (a \o b)[Len(a) + x] = b[x]
      OBVIOUS
    <2>8. ASSUME NEW i \in 1 .. k, NEW j \in 1 .. Len(ss[i])
          PROVE  /\ off[i - 1] + j \in 1 .. Len(a \o b)
                 /\ (a \o b)[off[i - 1] + j] = ss[i][j]
      <3>1. CASE i = k
        <4>1. off[i - 1] = Len(a) /\ j \in 1 .. Len(b) /\ ss[i] = b BY <3>1, <2>2, <2>4, <2>5
        <4>2. Len(a) + j \in 1 .. Len(a) + Len(b) BY <4>1, <2>7
        <4> QED BY <4>1, <4>2, <2>7
      <3>2. CASE i # k
        <4>1. i \in 1 .. m BY <3>2, <2>1
        <4>2. off[i - 1] + j \in 1 .. Len(a) /\ a[off[i - 1] + j] = ss[i][j]
          BY <4>1, <1>6, <1>8, <2>3
        <4> QED BY SMTT(30), <4>2, <2>7
      <3> QED BY <3>1, <3>2
    <2>9. k \in V BY <1>6, <2>2, <2>6, <2>8, Zenon
    <2> QED BY <2>1, <2>9
  <1>9. n \in V
    <2>1. \A m \in 1 .. n : m \in V BY <1>7, <1>8, UpTo
    <2> QED BY <2>1
  <1>10. \A i \in 1 .. n : \A j \in 1 .. Len(ss[i]) : g[n][off[i - 1] + j] = ss[i][j] BY <1>6, <1>9
  <1>11. g[n] \in Seq(S) /\ Len(g[n]) = off[n] BY <1>2, <1>4
  <1>12. Laid(ss, n, g[n], off) BY <1>4, <1>5, <1>10, <1>11 DEF Laid
  <1> QED BY <1>1, <1>11, <1>12

(* When none of them is empty, every place is in one, and they are in their order. *)
LEMMA Blocks ==
    ASSUME NEW n \in Nat, n >= 1, NEW off \in [0 .. n -> Nat], off[0] = 0,
           \A i \in 1 .. n : off[i - 1] < off[i]
    PROVE  /\ \A p \in 1 .. off[n] : \E k \in 1 .. n : off[k - 1] < p /\ p <= off[k]
           /\ \A k \in 0 .. n : \A i \in 0 .. k : off[i] <= off[k]
  <1>1. PICK T : T = {m \in 1 .. n : \A p \in 1 .. off[m] :
                         \E k \in 1 .. n : off[k - 1] < p /\ p <= off[k]} OBVIOUS
  <1>2. 1 \in T
    <2>1. ASSUME NEW p \in 1 .. off[1] PROVE \E k \in 1 .. n : off[k - 1] < p /\ p <= off[k]
      <3>1. 1 \in 1 .. n /\ off[1 - 1] < p /\ p <= off[1] OBVIOUS
      <3> QED BY <3>1
    <2> QED BY <1>1, <2>1
  <1>3. ASSUME NEW m \in 1 .. n - 1, m \in T PROVE m + 1 \in T
    <2>1. PICK k \in 1 .. n : k = m + 1 OBVIOUS
    <2>2. ASSUME NEW p \in 1 .. off[k] PROVE \E i \in 1 .. n : off[i - 1] < p /\ p <= off[i]
      <3>1. CASE p \in 1 .. off[m] BY <3>1, <1>1, <1>3
      <3>2. CASE p \notin 1 .. off[m]
        <4>1. k - 1 = m /\ off[m] \in Nat /\ off[k] \in Nat BY <2>1
        <4>2. off[k - 1] < p /\ p <= off[k] BY <4>1, <3>2
        <4> QED BY <4>2
      <3> QED BY <3>1, <3>2
    <2> QED BY <1>1, <2>1, <2>2
  <1>4. n \in T
    <2>1. \A m \in 1 .. n : m \in T BY <1>2, <1>3, UpTo
    <2> QED BY <2>1
  <1>5. PICK V : V = {m \in 1 .. n : \A i \in 0 .. m : off[i] <= off[m]} OBVIOUS
  <1>6. 1 \in V
    <2>1. off[1 - 1] < off[1] /\ off[1] \in Nat OBVIOUS
    <2>2. \A i \in 0 .. 1 : off[i] <= off[1]
      <3>1. ASSUME NEW i \in 0 .. 1 PROVE off[i] <= off[1]
        <4>1. i = 0 \/ i = 1 OBVIOUS
        <4> QED BY <4>1, <2>1
      <3> QED BY <3>1
    <2> QED BY <1>5, <2>2
  <1>7. ASSUME NEW m \in 1 .. n - 1, m \in V PROVE m + 1 \in V
    <2>1. PICK k \in 1 .. n : k = m + 1 OBVIOUS
    <2>2. off[m] < off[k] /\ off[m] \in Nat /\ off[k] \in Nat
      <3>1. k - 1 = m BY <2>1
      <3> QED BY <3>1
    <2>3. ASSUME NEW i \in 0 .. k PROVE off[i] <= off[k]
      <3>1. CASE i = k BY <3>1, <2>2
      <3>2. CASE i # k
        <4>1. i \in 0 .. m /\ off[i] \in Nat BY <3>2, <2>1
        <4>2. off[i] <= off[m] BY <4>1, <1>5, <1>7
        <4> QED BY SMTT(30), <4>1, <4>2, <2>2
      <3> QED BY <3>1, <3>2
    <2> QED BY <1>5, <2>1, <2>3
  <1>8. \A m \in 1 .. n : m \in V BY <1>6, <1>7, UpTo
  <1>9. ASSUME NEW k \in 0 .. n, NEW i \in 0 .. k PROVE off[i] <= off[k]
    <2>1. CASE k = 0
      <3>1. i = 0 BY <2>1
      <3> QED BY <3>1, <2>1
    <2>2. CASE k # 0
      <3>1. k \in 1 .. n BY <2>2
      <3> QED BY <3>1, <1>5, <1>8
    <2> QED BY <2>1, <2>2
  <1> QED BY <1>1, <1>4, <1>9
=============================================================================
