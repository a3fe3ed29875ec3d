-------------------------- MODULE StateStoreProofs --------------------------
(***************************************************************************)
(* Proofs about the state store of a node: the tasks of the uploader, what *)
(* the tables, the syncs and the barriers know of them, and how the epochs *)
(* of the databases go through it.                                         *)
(*                                                                         *)
(* First the operators the uploader is built from (sequences, Keep,        *)
(* FlattenSeq, NewestFirst); then the uploader alone, with its variables   *)
(* as parameters so that a step that touches only some of them can be      *)
(* split; then the node, whose inductive invariant is NodeOK.              *)
(***************************************************************************)
EXTENDS StateStoreNode, TLAPS, FiniteSetTheorems, WellFoundedInduction

IsSeq(s) == \E S : s \in Seq(S)

\* A nonempty set of natural numbers has a least element.
LEMMA LeastNumber ==
  ASSUME NEW T, T \subseteq Nat, T # {}
  PROVE  \E n \in T : \A m \in T : n <= m
<1> DEFINE R == OpToRel(<, Nat)
<1>1. IsWellFoundedOn(R, Nat)
  BY NatLessThanWellFounded
<1>2. PICK n \in T : \A m \in T : ~(<<m, n>> \in R)
  BY <1>1, WFMin, Zenon
<1>3. \A m \in T : ~(m < n)
  BY <1>2 DEF OpToRel
<1> HIDE DEF R
<1> QED BY <1>3

\* The positions of a sequence.
LEMMA SeqDomain ==
  ASSUME NEW s, IsSeq(s)
  PROVE  Len(s) \in Nat /\ DOMAIN s = 1..Len(s) /\ s = [k \in 1..Len(s) |-> s[k]]
<1>1. PICK S : s \in Seq(S)
  BY DEF IsSeq
<1> QED BY <1>1

\* The places and elements of a sequence with one more element at its end.
LEMMA SeqAppend ==
  ASSUME NEW s, IsSeq(s), NEW x
  PROVE  /\ IsSeq(Append(s, x)) /\ Len(Append(s, x)) = Len(s) + 1
         /\ Append(s, x)[Len(s) + 1] = x /\ \A k \in 1..Len(s) : Append(s, x)[k] = s[k]
         /\ s \o <<x>> = Append(s, x) /\ s \o <<>> = s
<1>1. PICK S : s \in Seq(S)
  BY DEF IsSeq
<1> DEFINE R == S \cup {x}
<1>2. s \in Seq(R) /\ x \in R
  BY <1>1
<1> HIDE DEF R
<1>3. Append(s, x) \in Seq(R) /\ Len(Append(s, x)) = Len(s) + 1
  BY <1>2
<1> QED BY <1>2, <1>3 DEF IsSeq

\* The places and elements of a sequence without its first element.
LEMMA SeqTail ==
  ASSUME NEW s, IsSeq(s), s # <<>>
  PROVE  /\ IsSeq(Tail(s)) /\ Len(Tail(s)) = Len(s) - 1 /\ Len(s) \in Nat /\ Len(s) > 0 /\ Head(s) = s[1]
         /\ \A k \in 1..Len(Tail(s)) : Tail(s)[k] = s[k + 1] /\ k + 1 \in 1..Len(s)
<1>1. PICK S : s \in Seq(S)
  BY DEF IsSeq
<1> QED BY <1>1 DEF IsSeq

\* A function on 1..n is a sequence of length n.
LEMMA SeqMap ==
  ASSUME NEW n \in Nat, NEW r, r = [k \in 1..n |-> r[k]]
  PROVE  IsSeq(r) /\ Len(r) = n /\ DOMAIN r = 1..n
<1> DEFINE S == {r[k] : k \in 1..n}
<1>1. r \in [1..n -> S]
  OBVIOUS
<1> HIDE DEF S
<1>2. r \in Seq(S) /\ Len(r) = n
  BY <1>1
<1> QED BY <1>2 DEF IsSeq


\* The places and elements of the concatenation of two sequences.
LEMMA SeqConcat ==
  ASSUME NEW s, NEW r, IsSeq(s), IsSeq(r)
  PROVE  /\ IsSeq(s \o r) /\ Len(s \o r) = Len(s) + Len(r) /\ DOMAIN (s \o r) = 1..(Len(s) + Len(r))
         /\ \A k \in 1..Len(s) : (s \o r)[k] = s[k] /\ k \in 1..(Len(s) + Len(r))
         /\ \A k \in 1..Len(r) : (s \o r)[Len(s) + k] = r[k] /\ Len(s) + k \in 1..(Len(s) + Len(r))
         /\ \A k \in 1..(Len(s) + Len(r)) :
              k \in 1..Len(s) \/ (k - Len(s) \in 1..Len(r) /\ k = Len(s) + (k - Len(s)))
<1>1. PICK S : s \in Seq(S)
  BY DEF IsSeq
<1>2. PICK R : r \in Seq(R)
  BY DEF IsSeq
<1> DEFINE Q == S \cup R
<1>3. s \in Seq(Q) /\ r \in Seq(Q)
  BY <1>1, <1>2
<1> HIDE DEF Q
<1>4. s \o r \in Seq(Q) /\ Len(s \o r) = Len(s) + Len(r)
  BY <1>3
<1>5. Len(s) \in Nat /\ Len(r) \in Nat
  BY <1>3
<1>6. IsSeq(s \o r)
  BY <1>4 DEF IsSeq
<1>7. \A k \in 1..(Len(s) + Len(r)) : (s \o r)[k] = IF k <= Len(s) THEN s[k] ELSE r[k - Len(s)]
  BY <1>3, <1>5
<1>8. DOMAIN (s \o r) = 1..(Len(s) + Len(r))
  BY <1>4
<1>9. \A k \in 1..Len(s) : (s \o r)[k] = s[k] /\ k \in 1..(Len(s) + Len(r))
  BY <1>5, <1>7
<1>10. \A k \in 1..Len(r) : (s \o r)[Len(s) + k] = r[k] /\ Len(s) + k \in 1..(Len(s) + Len(r))
  BY <1>5, <1>7
<1>11. \A k \in 1..(Len(s) + Len(r)) :
          k \in 1..Len(s) \/ (k - Len(s) \in 1..Len(r) /\ k = Len(s) + (k - Len(s)))
  BY <1>5
<1> QED BY <1>4, <1>6, <1>8, <1>9, <1>10, <1>11

\* The places of s that Keep keeps, in their order, when it has gone through n of them.
Kept(s, I, n, r) ==
  /\ IsSeq(r)
  /\ \E f \in [1..Len(r) -> I \cap 1..n] :
       /\ \A j, k \in 1..Len(r) : j < k => f[j] < f[k]
       /\ \A k \in 1..Len(r) : r[k] = s[f[k]]
       /\ \A m \in I \cap 1..n : \E k \in 1..Len(r) : f[k] = m

KeepRounds(s, I, f, N) ==
  [n \in 0..N |-> IF n = 0 THEN <<>>
                  ELSE IF n \in I THEN Append(f[n - 1], s[n]) ELSE f[n - 1]]

\* The recursive function in Keep exists: the rounds up to N of the retain loop.
LEMMA KeepRoundsExist ==
  ASSUME NEW s, NEW I, NEW N \in Nat
  PROVE  \E f : f = KeepRounds(s, I, f, N)
<1> DEFINE T == {n \in Nat : ~ \E f : f = KeepRounds(s, I, f, n)}
<1> SUFFICES ASSUME T # {} PROVE FALSE
  OBVIOUS
<1>1. PICK n \in T : \A m \in T : n <= m
  <2>1. T \subseteq Nat
    OBVIOUS
  <2> HIDE DEF T
  <2> QED BY <2>1, LeastNumber
<1>2. n # 0
  <2>1. CASE n = 0
    <3> DEFINE g == [k \in 0..0 |-> <<>>]
    <3>1. g = KeepRounds(s, I, g, 0)
      BY DEF KeepRounds
    <3> HIDE DEF g
    <3> QED BY <3>1, <2>1, <1>1
  <2> QED BY <2>1
<1>3. n - 1 \in Nat /\ n - 1 \notin T
  BY <1>1, <1>2
<1>4. PICK f : f = KeepRounds(s, I, f, n - 1)
  BY <1>3
<1> DEFINE last == IF n \in I THEN Append(f[n - 1], s[n]) ELSE f[n - 1]
<1> DEFINE g == [k \in 0..n |-> IF k = n THEN last ELSE f[k]]
<1>5. \A k \in 0..n : g[k] = KeepRounds(s, I, g, n)[k]
  <2> SUFFICES ASSUME NEW k \in 0..n PROVE g[k] = KeepRounds(s, I, g, n)[k]
    OBVIOUS
  <2>1. CASE k = n
    <3>1. n - 1 \in 0..n /\ n - 1 # n /\ g[n - 1] = f[n - 1] /\ g[n] = last /\ n \in 0..n
      BY <1>2
    <3> HIDE DEF g
    <3> QED BY <2>1, <3>1, <1>2 DEF KeepRounds
  <2>2. CASE k # n
    <3>1. k \in 0..(n - 1) /\ g[k] = f[k]
      BY <2>2
    <3>2. k # 0 => k - 1 \in 0..n /\ k - 1 # n /\ g[k - 1] = f[k - 1]
      BY <2>2
    <3>3. f[k] = IF k = 0 THEN <<>> ELSE IF k \in I THEN Append(f[k - 1], s[k]) ELSE f[k - 1]
      BY <3>1, <1>4 DEF KeepRounds
    <3> HIDE DEF g
    <3> QED BY <3>1, <3>2, <3>3 DEF KeepRounds
  <2> QED BY <2>1, <2>2
<1>6. g = KeepRounds(s, I, g, n)
  <2>1. g = [k \in 0..n |-> g[k]] /\ KeepRounds(s, I, g, n) = [k \in 0..n |-> KeepRounds(s, I, g, n)[k]]
    BY DEF KeepRounds
  <2> HIDE DEF g
  <2> QED BY <2>1, <1>5
<1> HIDE DEF g
<1> QED BY <1>1, <1>6

\* Keep returns what its last round has.
LEMMA KeepLoop ==
  ASSUME NEW s, NEW I, Len(s) \in Nat
  PROVE  \E f : f = KeepRounds(s, I, f, Len(s)) /\ Keep(s, I) = f[Len(s)]
<1> DEFINE P(f) == f = KeepRounds(s, I, f, Len(s))
<1>1. Keep(s, I) = (CHOOSE f : P(f))[Len(s)]
  BY DEF Keep, KeepRounds
<1>2. \E f : P(f)
  BY KeepRoundsExist
<1> HIDE DEF P
<1>3. P(CHOOSE f : P(f))
  BY <1>2
<1> QED BY <1>1, <1>3 DEF P

\* One more element that stays, and one that does not.
LEMMA KeptAppend ==
  ASSUME NEW s, NEW I, NEW n \in Nat, NEW r, Kept(s, I, n, r), n + 1 \in I
  PROVE  Kept(s, I, n + 1, Append(r, s[n + 1]))
<1>1. IsSeq(r) /\ Len(r) \in Nat
  BY SeqDomain DEF Kept
<1>2. PICK f \in [1..Len(r) -> I \cap 1..n] :
         /\ \A j, k \in 1..Len(r) : j < k => f[j] < f[k]
         /\ \A k \in 1..Len(r) : r[k] = s[f[k]]
         /\ \A m \in I \cap 1..n : \E k \in 1..Len(r) : f[k] = m
  BY DEF Kept
<1> DEFINE q == Append(r, s[n + 1])
           g == [k \in 1..(Len(r) + 1) |-> IF k = Len(r) + 1 THEN n + 1 ELSE f[k]]
<1>3. /\ IsSeq(q) /\ Len(q) = Len(r) + 1
      /\ q[Len(r) + 1] = s[n + 1] /\ \A k \in 1..Len(r) : q[k] = r[k]
  BY <1>1, SeqAppend
<1> HIDE DEF q
<1>4. \A k \in 1..Len(r) : f[k] \in I /\ f[k] \in 1..n
  BY <1>2
<1>5. \A k \in 1..(Len(r) + 1) : k \in 1..Len(r) \/ k = Len(r) + 1
  BY <1>1
<1>6. /\ g[Len(r) + 1] = n + 1 /\ \A k \in 1..Len(r) : g[k] = f[k] /\ k \in 1..(Len(r) + 1)
      /\ Len(r) + 1 \in 1..(Len(r) + 1) /\ g = [k \in 1..(Len(r) + 1) |-> g[k]]
  BY <1>1
<1> HIDE DEF g
<1>7. \A k \in 1..(Len(r) + 1) : g[k] \in I \cap 1..(n + 1)
  <2>0. \A m \in 1..n : m \in 1..(n + 1)
    OBVIOUS
  <2>1. \A k \in 1..Len(r) : g[k] \in I \cap 1..(n + 1)
    BY <1>4, <1>6, <2>0
  <2>2. g[Len(r) + 1] \in I \cap 1..(n + 1)
    BY <1>6
  <2> QED BY <2>1, <2>2, <1>5
<1>8. g \in [1..Len(q) -> I \cap 1..(n + 1)]
  BY <1>3, <1>6, <1>7
<1>9. \A j, k \in 1..(Len(r) + 1) : j < k => g[j] < g[k]
  <2> SUFFICES ASSUME NEW j \in 1..(Len(r) + 1), NEW k \in 1..(Len(r) + 1), j < k
               PROVE  g[j] < g[k]
    OBVIOUS
  <2>1. j \in 1..Len(r) /\ g[j] = f[j] /\ f[j] \in 1..n
    BY <1>1, <1>4, <1>6
  <2>2. CASE k = Len(r) + 1
    BY <2>1, <2>2, <1>6
  <2>3. CASE k \in 1..Len(r)
    BY <2>1, <2>3, <1>2, <1>6
  <2> QED BY <1>5, <2>2, <2>3
<1>10. \A k \in 1..(Len(r) + 1) : q[k] = s[g[k]]
  BY <1>2, <1>3, <1>5, <1>6
<1>11. \A m \in I \cap 1..(n + 1) : \E k \in 1..(Len(r) + 1) : g[k] = m
  <2> SUFFICES ASSUME NEW m \in I \cap 1..(n + 1) PROVE \E k \in 1..(Len(r) + 1) : g[k] = m
    OBVIOUS
  <2>1. CASE m = n + 1
    BY <1>6, <2>1
  <2>2. CASE m # n + 1
    <3>1. m \in I \cap 1..n
      BY <2>2
    <3> QED BY <3>1, <1>2, <1>6
  <2> QED BY <2>1, <2>2
<1>12. Kept(s, I, n + 1, q)
  <2>1. \E h \in [1..Len(q) -> I \cap 1..(n + 1)] :
           /\ \A j, k \in 1..Len(q) : j < k => h[j] < h[k]
           /\ \A k \in 1..Len(q) : q[k] = s[h[k]]
           /\ \A m \in I \cap 1..(n + 1) : \E k \in 1..Len(q) : h[k] = m
    <3> WITNESS g \in [1..Len(q) -> I \cap 1..(n + 1)]
    <3>1. 1..Len(q) = 1..(Len(r) + 1)
      BY <1>3
    <3> QED BY <3>1, <1>9, <1>10, <1>11
  <2> QED BY <1>3, <2>1 DEF Kept
<1> QED BY <1>12 DEF q

\* A round that skips the element at place n + 1.
LEMMA KeptSkip ==
  ASSUME NEW s, NEW I, NEW n \in Nat, NEW r, Kept(s, I, n, r), n + 1 \notin I
  PROVE  Kept(s, I, n + 1, r)
<1>1. I \cap 1..(n + 1) = I \cap 1..n
  OBVIOUS
<1> QED BY <1>1 DEF Kept

\* Keep keeps the elements at the places of I, each once and in their order.
LEMMA KeepIs ==
  ASSUME NEW s, IsSeq(s), NEW I
  PROVE  Kept(s, I, Len(s), Keep(s, I))
<1>1. Len(s) \in Nat
  BY SeqDomain
<1>2. PICK f : f = KeepRounds(s, I, f, Len(s)) /\ Keep(s, I) = f[Len(s)]
  BY <1>1, KeepLoop
<1> DEFINE T == {n \in 0..Len(s) : ~Kept(s, I, n, f[n])}
<1> SUFFICES ASSUME T # {} PROVE FALSE
  BY <1>1, <1>2
<1>3. PICK n \in T : \A m \in T : n <= m
  <2>1. T \subseteq Nat
    OBVIOUS
  <2> HIDE DEF T
  <2> QED BY <2>1, LeastNumber
<1>4. CASE n = 0
  <2>1. f[0] = <<>>
    BY <1>1, <1>2 DEF KeepRounds
  <2>2. <<>> \in Seq({}) /\ Len(<<>>) = 0
    OBVIOUS
  <2>3. IsSeq(<<>>) /\ Len(<<>>) = 0
    BY <2>2 DEF IsSeq
  <2>4. [k \in {} |-> k] \in [1..0 -> I \cap 1..0] /\ 1..0 = {}
    OBVIOUS
  <2>5. Kept(s, I, 0, <<>>)
    BY <2>3, <2>4 DEF Kept
  <2> QED BY <1>3, <1>4, <2>1, <2>5
<1>5. CASE n # 0
  <2>1. n - 1 \in Nat /\ n - 1 \in 0..Len(s) /\ n - 1 \notin T /\ (n - 1) + 1 = n /\ n \in 0..Len(s)
    BY <1>1, <1>3, <1>5
  <2>2. Kept(s, I, n - 1, f[n - 1])
    BY <2>1
  <2>3. f[n] = IF n \in I THEN Append(f[n - 1], s[n]) ELSE f[n - 1]
    BY <1>2, <1>5, <2>1 DEF KeepRounds
  <2>4. Kept(s, I, (n - 1) + 1, f[n])
    BY <2>1, <2>2, <2>3, KeptAppend, KeptSkip
  <2> QED BY <1>3, <2>1, <2>4
<1> QED BY <1>4, <1>5

\* The elements of the sequences of ss, up to the n-th.
Elements(ss, n, r) ==
  /\ IsSeq(r)
  /\ \A k \in DOMAIN r : \E m \in 1..n : \E j \in DOMAIN ss[m] : r[k] = ss[m][j]
  /\ \A m \in 1..n : \A j \in DOMAIN ss[m] : \E k \in DOMAIN r : r[k] = ss[m][j]

FlattenRounds(ss, f, N) ==
  [i \in 1..N |-> IF i = 1 THEN ss[i] ELSE f[i - 1] \o ss[i]]

\* The recursive function in FlattenSeq exists.
LEMMA FlattenRoundsExist ==
  ASSUME NEW ss, NEW N \in Nat
  PROVE  \E f : f = FlattenRounds(ss, f, N)
<1> DEFINE T == {n \in Nat : ~ \E f : f = FlattenRounds(ss, f, n)}
<1> SUFFICES ASSUME T # {} PROVE FALSE
  OBVIOUS
<1>1. PICK n \in T : \A m \in T : n <= m
  <2>1. T \subseteq Nat
    OBVIOUS
  <2> HIDE DEF T
  <2> QED BY <2>1, LeastNumber
<1>2. n # 0
  <2>1. CASE n = 0
    <3> DEFINE g == [k \in 1..0 |-> <<>>]
    <3>1. g = FlattenRounds(ss, g, 0)
      BY DEF FlattenRounds
    <3> HIDE DEF g
    <3> QED BY <3>1, <2>1, <1>1
  <2> QED BY <2>1
<1>3. n - 1 \in Nat /\ n - 1 \notin T
  BY <1>1, <1>2
<1>4. PICK f : f = FlattenRounds(ss, f, n - 1)
  BY <1>3
<1> DEFINE last == IF n = 1 THEN ss[n] ELSE f[n - 1] \o ss[n]
<1> DEFINE g == [k \in 1..n |-> IF k = n THEN last ELSE f[k]]
<1>5. \A k \in 1..n : g[k] = FlattenRounds(ss, g, n)[k]
  <2> SUFFICES ASSUME NEW k \in 1..n PROVE g[k] = FlattenRounds(ss, g, n)[k]
    OBVIOUS
  <2>1. CASE k = n
    <3>1. (n # 1 => n - 1 \in 1..n /\ n - 1 # n /\ g[n - 1] = f[n - 1]) /\ g[n] = last /\ n \in 1..n
      BY <1>2
    <3> HIDE DEF g
    <3> QED BY <2>1, <3>1, <1>2 DEF FlattenRounds
  <2>2. CASE k # n
    <3>1. k \in 1..(n - 1) /\ g[k] = f[k]
      BY <2>2
    <3>2. k # 1 => k - 1 \in 1..n /\ k - 1 # n /\ g[k - 1] = f[k - 1]
      BY <2>2
    <3>3. f[k] = IF k = 1 THEN ss[k] ELSE f[k - 1] \o ss[k]
      BY <3>1, <1>4 DEF FlattenRounds
    <3> HIDE DEF g
    <3> QED BY <3>1, <3>2, <3>3 DEF FlattenRounds
  <2> QED BY <2>1, <2>2
<1>6. g = FlattenRounds(ss, g, n)
  <2>1. g = [k \in 1..n |-> g[k]] /\ FlattenRounds(ss, g, n) = [k \in 1..n |-> FlattenRounds(ss, g, n)[k]]
    BY DEF FlattenRounds
  <2> HIDE DEF g
  <2> QED BY <2>1, <1>5
<1> HIDE DEF g
<1> QED BY <1>1, <1>6

\* FlattenSeq returns what its last round has.
LEMMA FlattenLoop ==
  ASSUME NEW ss, Len(ss) \in Nat \ {0}
  PROVE  \E f : f = FlattenRounds(ss, f, Len(ss)) /\ FlattenSeq(ss) = f[Len(ss)]
<1> DEFINE P(f) == f = FlattenRounds(ss, f, Len(ss))
<1>1. FlattenSeq(ss) = (CHOOSE f : P(f))[Len(ss)]
  BY DEF FlattenSeq, FlattenRounds
<1>2. \E f : P(f)
  BY FlattenRoundsExist
<1> HIDE DEF P
<1>3. P(CHOOSE f : P(f))
  BY <1>2
<1> QED BY <1>1, <1>3 DEF P

\* One more round of FlattenSeq adds the elements of one more sequence.
LEMMA ElementsConcat ==
  ASSUME NEW ss, NEW n \in Nat, NEW r, Elements(ss, n, r), IsSeq(ss[n + 1])
  PROVE  Elements(ss, n + 1, r \o ss[n + 1])
<1> DEFINE x == ss[n + 1]
           q == r \o ss[n + 1]
<1>0. IsSeq(r)
  BY DEF Elements
<1>1. /\ Len(r) \in Nat /\ DOMAIN r = 1..Len(r)
      /\ Len(x) \in Nat /\ DOMAIN x = 1..Len(x)
  BY <1>0, SeqDomain
<1>2. /\ IsSeq(q) /\ DOMAIN q = 1..(Len(r) + Len(x))
      /\ \A k \in DOMAIN r : q[k] = r[k] /\ k \in DOMAIN q
      /\ \A k \in DOMAIN x : q[Len(r) + k] = x[k] /\ Len(r) + k \in DOMAIN q
      /\ \A k \in DOMAIN q : k \in DOMAIN r \/ (k - Len(r) \in DOMAIN x /\ k = Len(r) + (k - Len(r)))
  <2>1. /\ IsSeq(q) /\ DOMAIN q = 1..(Len(r) + Len(x))
        /\ \A k \in 1..Len(r) : q[k] = r[k] /\ k \in 1..(Len(r) + Len(x))
        /\ \A k \in 1..Len(x) : q[Len(r) + k] = x[k] /\ Len(r) + k \in 1..(Len(r) + Len(x))
        /\ \A k \in 1..(Len(r) + Len(x)) :
             k \in 1..Len(r) \/ (k - Len(r) \in 1..Len(x) /\ k = Len(r) + (k - Len(r)))
    BY <1>0, SeqConcat
  <2> HIDE DEF q, x
  <2> QED BY <2>1, <1>1
<1>3. \A m \in 1..(n + 1) : m \in 1..n \/ m = n + 1
  OBVIOUS
<1>4. \A m \in 1..n : m \in 1..(n + 1)
  OBVIOUS
<1>5. n + 1 \in 1..(n + 1)
  OBVIOUS
<1> HIDE DEF q
<1>6. \A k \in DOMAIN q : \E m \in 1..(n + 1) : \E j \in DOMAIN ss[m] : q[k] = ss[m][j]
  <2> SUFFICES ASSUME NEW k \in DOMAIN q
               PROVE  \E m \in 1..(n + 1) : \E j \in DOMAIN ss[m] : q[k] = ss[m][j]
    OBVIOUS
  <2>1. CASE k \in DOMAIN r
    <3>1. PICK m \in 1..n : \E j \in DOMAIN ss[m] : r[k] = ss[m][j]
      BY <2>1 DEF Elements
    <3> QED BY <2>1, <3>1, <1>2, <1>4
  <2>2. CASE k \notin DOMAIN r
    <3>1. k - Len(r) \in DOMAIN ss[n + 1] /\ q[k] = ss[n + 1][k - Len(r)]
      BY <2>2, <1>2
    <3> QED BY <3>1, <1>5
  <2> QED BY <2>1, <2>2
<1>7. \A m \in 1..(n + 1) : \A j \in DOMAIN ss[m] : \E k \in DOMAIN q : q[k] = ss[m][j]
  <2> SUFFICES ASSUME NEW m \in 1..(n + 1), NEW j \in DOMAIN ss[m]
               PROVE  \E k \in DOMAIN q : q[k] = ss[m][j]
    OBVIOUS
  <2>1. CASE m \in 1..n
    <3>1. PICK k \in DOMAIN r : r[k] = ss[m][j]
      BY <2>1 DEF Elements
    <3> QED BY <3>1, <1>2
  <2>2. CASE m = n + 1
    BY <2>2, <1>2
  <2> QED BY <2>1, <2>2, <1>3
<1> QED BY <1>2, <1>6, <1>7 DEF Elements, q

\* FlattenSeq holds the elements of all sequences and no others.
LEMMA FlattenIs ==
  ASSUME NEW ss, IsSeq(ss), \A k \in 1..Len(ss) : IsSeq(ss[k])
  PROVE  Elements(ss, Len(ss), FlattenSeq(ss))
<1>1. Len(ss) \in Nat /\ DOMAIN ss = 1..Len(ss)
  BY SeqDomain
<1>2. CASE Len(ss) = 0
  <2>1. FlattenSeq(ss) = ss
    BY <1>2 DEF FlattenSeq
  <2>2. DOMAIN ss = {} /\ 1..Len(ss) = {}
    BY <1>1, <1>2
  <2> QED BY <2>1, <2>2 DEF Elements
<1>3. CASE Len(ss) # 0
  <2>1. PICK f : f = FlattenRounds(ss, f, Len(ss)) /\ FlattenSeq(ss) = f[Len(ss)]
    BY <1>1, <1>3, FlattenLoop
  <2> DEFINE T == {n \in 1..Len(ss) : ~Elements(ss, n, f[n])}
  <2> SUFFICES ASSUME T # {} PROVE FALSE
    BY <1>1, <1>3, <2>1
  <2>2. PICK n \in T : \A m \in T : n <= m
    <3>1. T \subseteq Nat
      OBVIOUS
    <3> HIDE DEF T
    <3> QED BY <3>1, LeastNumber
  <2>3. CASE n = 1
    <3>1. f[1] = ss[1]
      BY <1>1, <1>3, <2>1 DEF FlattenRounds
    <3>2. 1..1 = {1} /\ IsSeq(ss[1])
      BY <1>1, <1>3
    <3>3. Elements(ss, 1, ss[1])
      BY <3>2 DEF Elements
    <3> QED BY <2>2, <2>3, <3>1, <3>3
  <2>4. CASE n # 1
    <3>1. n - 1 \in Nat /\ n - 1 \in 1..Len(ss) /\ n - 1 \notin T /\ (n - 1) + 1 = n /\ n \in 1..Len(ss)
      BY <1>1, <2>2, <2>4
    <3>2. Elements(ss, n - 1, f[n - 1])
      BY <3>1
    <3>3. f[n] = f[n - 1] \o ss[n]
      BY <2>1, <2>4, <3>1 DEF FlattenRounds
    <3>4. Elements(ss, (n - 1) + 1, f[n - 1] \o ss[(n - 1) + 1])
      BY <3>1, <3>2, ElementsConcat
    <3> QED BY <2>2, <3>1, <3>3, <3>4
  <2> QED BY <2>3, <2>4
<1> QED BY <1>2, <1>3

-----------------------------------------------------------------------------
\* Finite sets

\* A finite set of numbers has a largest one.
LEMMA FiniteMax ==
  ASSUME NEW S, IsFiniteSet(S), S # {}, S \subseteq Nat
  PROVE  Max(S) \in S /\ \A y \in S : y <= Max(S)
<1> DEFINE Big(R) == \E x \in R : \A y \in R : x >= y
           T == {n \in Nat : \E R \in SUBSET Nat : /\ IsFiniteSet(R) /\ Cardinality(R) = n
                                                  /\ R # {} /\ ~Big(R)}
<1>1. T = {}
  <2> SUFFICES ASSUME T # {} PROVE FALSE
    OBVIOUS
  <2>1. PICK n \in T : \A m \in T : n <= m
    <3>1. T \subseteq Nat
      OBVIOUS
    <3> HIDE DEF T
    <3> QED BY <3>1, LeastNumber
  <2>2. PICK R \in SUBSET Nat : IsFiniteSet(R) /\ Cardinality(R) = n /\ R # {} /\ ~Big(R)
    BY <2>1
  <2>3. PICK x : x \in R
    BY <2>2
  <2>4. IsFiniteSet(R \ {x}) /\ Cardinality(R \ {x}) = n - 1 /\ n \in Nat
    BY <2>2, <2>3, FS_RemoveElement
  <2>5. CASE R \ {x} = {}
    BY <2>2, <2>3, <2>5
  <2>6. CASE R \ {x} # {}
    <3>1. n - 1 \in Nat
      BY <2>4, FS_CardinalityType
    <3>2. n - 1 \notin T
      BY <2>1, <2>4, <3>1
    <3>3. Big(R \ {x})
      BY <2>2, <2>4, <2>6, <3>1, <3>2
    <3>4. PICK z \in R \ {x} : \A y \in R \ {x} : z >= y
      BY <3>3
    <3>5. (IF z >= x THEN z ELSE x) \in R /\ \A y \in R : (IF z >= x THEN z ELSE x) >= y
      BY <2>2, <2>3, <3>4
    <3> QED BY <2>2, <3>5
  <2> QED BY <2>5, <2>6
<1>2. Big(S)
  <2>1. Cardinality(S) \in Nat
    BY FS_CardinalityType
  <2> QED BY <1>1, <2>1
<1>3. Max(S) \in S /\ \A y \in S : Max(S) >= y
  BY <1>2 DEF Max
<1> QED BY <1>3

\* The image of a finite set, when it is a set of numbers.
LEMMA FiniteIds ==
  ASSUME NEW S, IsFiniteSet(S)
  PROVE  IsFiniteSet({x.id : x \in S})
<1> DEFINE f == [x \in S |-> x.id]
           R == {x.id : x \in S}
<1>1. f \in Surjection(S, R)
  BY DEF Surjection
<1> HIDE DEF f, R
<1>2. IsFiniteSet(R)
  BY <1>1, FS_Surjection
<1> QED BY <1>2 DEF R

\* f lists the records of S, the largest id first.
SortedList(S, f) ==
  /\ f \in [1..Cardinality(S) -> S]
  /\ \A j, k \in 1..Cardinality(S) : j < k => f[j].id > f[k].id

\* A list of tasks sorted by id, with the one of the smallest id put at its end.
LEMMA SortedListAppend ==
  ASSUME NEW S, IsFiniteSet(S), \A x \in S : x.id \in Nat,
         NEW x \in S, \A y \in S \ {x} : y.id > x.id, NEW f, SortedList(S \ {x}, f)
  PROVE  \E g : SortedList(S, g)
<1> DEFINE n == Cardinality(S \ {x})
<1>1. n \in Nat /\ Cardinality(S) = n + 1
  <2>1. IsFiniteSet(S \ {x}) /\ Cardinality(S \ {x}) = Cardinality(S) - 1
    BY FS_RemoveElement
  <2>2. Cardinality(S) \in Nat /\ Cardinality(S \ {x}) \in Nat
    BY <2>1, FS_CardinalityType
  <2> QED BY <2>1, <2>2
<1>2. /\ f \in [1..n -> S \ {x}]
      /\ \A j, k \in 1..n : j < k => f[j].id > f[k].id
  BY DEF SortedList
<1> HIDE DEF n
<1> DEFINE g == [k \in 1..(n + 1) |-> IF k = n + 1 THEN x ELSE f[k]]
<1>3. \A k \in 1..(n + 1) : k \in 1..n \/ k = n + 1
  BY <1>1
<1>4. /\ g[n + 1] = x /\ \A k \in 1..n : g[k] = f[k] /\ f[k] \in S \ {x}
      /\ g = [k \in 1..(n + 1) |-> g[k]]
  BY <1>1, <1>2
<1> HIDE DEF g
<1>5. \A k \in 1..(n + 1) : g[k] \in S
  BY <1>3, <1>4
<1>6. \A j, k \in 1..(n + 1) : j < k => g[j].id > g[k].id
  <2> SUFFICES ASSUME NEW j \in 1..(n + 1), NEW k \in 1..(n + 1), j < k
               PROVE  g[j].id > g[k].id
    OBVIOUS
  <2>1. j \in 1..n /\ g[j] = f[j] /\ f[j] \in S \ {x}
    BY <1>1, <1>4
  <2>2. CASE k = n + 1
    BY <2>1, <2>2, <1>4
  <2>3. CASE k \in 1..n
    BY <2>1, <2>3, <1>2, <1>4
  <2> QED BY <1>3, <2>2, <2>3
<1>7. SortedList(S, g)
  BY <1>1, <1>4, <1>5, <1>6 DEF SortedList
<1> QED BY <1>7

\* The tasks of a finite set, told apart by their ids, can be listed newest first.
LEMMA SortedListExists ==
  ASSUME NEW S0, IsFiniteSet(S0), \A x \in S0 : x.id \in Nat, \A x, y \in S0 : x.id = y.id => x = y
  PROVE  \E f : SortedList(S0, f)
<1> DEFINE T == {n \in Nat : \E S \in SUBSET S0 : IsFiniteSet(S) /\ Cardinality(S) = n
                                                  /\ ~ \E f : SortedList(S, f)}
<1>1. T = {}
  <2> SUFFICES ASSUME T # {} PROVE FALSE
    OBVIOUS
  <2>1. PICK n \in T : \A m \in T : n <= m
    <3>1. T \subseteq Nat
      OBVIOUS
    <3> HIDE DEF T
    <3> QED BY <3>1, LeastNumber
  <2>2. PICK S \in SUBSET S0 : IsFiniteSet(S) /\ Cardinality(S) = n /\ ~ \E f : SortedList(S, f)
    BY <2>1
  <2>3. CASE S = {}
    <3>1. Cardinality(S) = 0
      BY <2>3, FS_EmptySet
    <3>2. [k \in {} |-> k] \in [1..0 -> S] /\ 1..0 = {}
      OBVIOUS
    <3>3. SortedList(S, [k \in {} |-> k])
      BY <3>1, <3>2 DEF SortedList
    <3> QED BY <2>2, <3>3
  <2>4. CASE S # {}
    <3> DEFINE ids == {y.id : y \in S}
    <3>1. ids \subseteq Nat /\ ids # {}
      BY <2>4
    <3>2. PICK m \in ids : \A j \in ids : m <= j
      BY <3>1, LeastNumber
    <3>3. PICK x \in S : m = x.id
      BY <3>2
    <3>4. \A y \in S \ {x} : y.id > x.id
      <4> SUFFICES ASSUME NEW y \in S \ {x} PROVE y.id > x.id
        OBVIOUS
      <4>1. y.id \in ids /\ y.id # x.id /\ y.id \in Nat /\ x.id \in Nat
        BY <3>3
      <4> QED BY <4>1, <3>2, <3>3
    <3>5. IsFiniteSet(S \ {x}) /\ Cardinality(S \ {x}) = n - 1
      BY <2>2, FS_RemoveElement
    <3>6. n - 1 \in Nat /\ n \in Nat
      BY <3>5, FS_CardinalityType, <2>1
    <3>7. n - 1 \notin T
      BY <2>1, <3>6
    <3>8. S \ {x} \in SUBSET S0
      OBVIOUS
    <3>9. PICK f : SortedList(S \ {x}, f)
      BY <3>5, <3>6, <3>7, <3>8
    <3> QED BY <2>2, <3>4, <3>9, SortedListAppend
  <2> QED BY <2>3, <2>4
<1>2. Cardinality(S0) \in Nat
  BY FS_CardinalityType
<1> QED BY <1>1, <1>2

\* NewestFirst lists the inputs of the tasks it is given, and nothing else.
LEMMA NewestFirstIs ==
  ASSUME NEW S, IsFiniteSet(S), \A x \in S : x.id \in Nat, \A x, y \in S : x.id = y.id => x = y
  PROVE  /\ IsSeq(NewestFirst(S))
         /\ \A k \in DOMAIN NewestFirst(S) : \E x \in S : NewestFirst(S)[k] = x.input
         /\ \A x \in S : \E k \in DOMAIN NewestFirst(S) : NewestFirst(S)[k] = x.input
<1> DEFINE P(f) == /\ f \in [1..Cardinality(S) -> S]
                   /\ \A j, k \in 1..Cardinality(S) : j < k => f[j].id > f[k].id
           sorted == CHOOSE f : P(f)
<1>1. P(sorted)
  <2>1. \E f : P(f)
    BY SortedListExists DEF SortedList
  <2> HIDE DEF P
  <2> QED BY <2>1
<1>2. NewestFirst(S) = [k \in DOMAIN sorted |-> sorted[k].input]
  BY DEF NewestFirst
<1> HIDE DEF sorted
<1> DEFINE n == Cardinality(S)
<1>3. n \in Nat /\ IsFiniteSet(1..n) /\ Cardinality(1..n) = n
  <2>1. n \in Nat
    BY FS_CardinalityType
  <2> HIDE DEF n
  <2>2. IsFiniteSet(1..n) /\ Cardinality(1..n) = IF 1 > n THEN 0 ELSE n - 1 + 1
    BY <2>1, FS_Interval
  <2> QED BY <2>1, <2>2
<1>4. sorted \in Injection(1..n, S)
  <2>1. \A j, k \in 1..n : j # k => sorted[j] # sorted[k]
    <3> SUFFICES ASSUME NEW j \in 1..n, NEW k \in 1..n, j < k PROVE sorted[j] # sorted[k]
      BY <1>3
    <3>1. sorted[j].id > sorted[k].id /\ sorted[j] \in S /\ sorted[k] \in S
      BY <1>1
    <3> QED BY <3>1
  <2> QED BY <1>1, <2>1 DEF Injection, IsInjective
<1>5. sorted \in Surjection(1..n, S)
  BY <1>3, <1>4, FS_Injection
<1>6. DOMAIN sorted = 1..n /\ (\A k \in 1..n : sorted[k] \in S) /\ \A x \in S : \E k \in 1..n : sorted[k] = x
  BY <1>1, <1>5 DEF Surjection
<1>7. NewestFirst(S) = [k \in 1..n |-> NewestFirst(S)[k]] /\ \A k \in 1..n : NewestFirst(S)[k] = sorted[k].input
  BY <1>2, <1>6
<1>8. IsSeq(NewestFirst(S)) /\ DOMAIN NewestFirst(S) = 1..n
  BY <1>3, <1>7, SeqMap
<1> HIDE DEF P
<1> QED BY <1>6, <1>7, <1>8

-----------------------------------------------------------------------------
\* The uploader: what its parts know of each other.  The parts are parameters, so that the
\* invariants can be stated of the state in the middle of an event: tk for tasks, sp for
\* spilledData, sy for syncing, td for tableData, ue for unsyncEpochs, ins for instData.

TaskShape(x) ==
  /\ x = [id |-> x.id, input |-> x.input, tables |-> x.tables, sync |-> x.sync]
  /\ x.id \in Nat \ {0} /\ x.sync \in Nat

SyncShape(x) ==
  /\ x = [id |-> x.id, epoch |-> x.epoch, tables |-> x.tables, remaining |-> x.remaining,
          uploaded |-> x.uploaded]
  /\ x.id \in Nat \ {0} /\ x.epoch \in Nat /\ IsSeq(x.uploaded)

TableShape(x) ==
  /\ x = [unsync |-> x.unsync, spill |-> x.spill, stopped |-> x.stopped, syncing |-> x.syncing,
          synced |-> x.synced]
  /\ x.unsync \subseteq Nat /\ x.spill \subseteq Nat \X Nat

Shapes(tk, sp, sy, td, ue) ==
  /\ IsSeq(tk) /\ \A k \in DOMAIN tk : TaskShape(tk[k])
  /\ IsFiniteSet(sp) /\ \A s \in sp : TaskShape(s) /\ s.sync = 0
  /\ IsSeq(sy) /\ \A k \in DOMAIN sy : SyncShape(sy[k])
  /\ \A t \in DOMAIN td : TableShape(td[t])
  /\ \A u \in ue : u = [epoch |-> u.epoch, tables |-> u.tables] /\ u.epoch \in Nat

UniqueIds(tk, sp, sy) ==
  /\ \A j, k \in DOMAIN tk : j < k => tk[j].id < tk[k].id
  /\ \A j, k \in DOMAIN sy : j < k => sy[j].id < sy[k].id
  /\ \A s \in sp : \A k \in DOMAIN tk : s.id # tk[k].id
  /\ \A s, x \in sp : s.id = x.id => s = x

\* x is a spill task, on its way or uploaded, that no sync has taken yet.
IsSpill(x, tk, sp) == x \in sp \/ \E k \in DOMAIN tk : tk[k].sync = 0 /\ x = tk[k]

\* The tables of a spill task share the epoch u, and each of them knows the task.
SpillOf(x, u, td) ==
  /\ x.tables # {} /\ x.tables \subseteq u.tables
  /\ \A t \in x.tables : <<u.epoch, x.id>> \in td[t].spill

SpillsKnown(tk, sp, td, ue) ==
  \A x : IsSpill(x, tk, sp) => \E u \in ue : SpillOf(x, u, td)

\* Each table knows only spill tasks that exist, of its unsynced epochs, once each.
SpillsExist(tk, sp, td) ==
  \A t \in DOMAIN td : \A y \in td[t].spill :
    /\ y[1] \in td[t].unsync
    /\ \E x : IsSpill(x, tk, sp) /\ x.id = y[2] /\ t \in x.tables
    /\ \A z \in td[t].spill : y[2] = z[2] => y = z

SyncsKnown(tk, sy) ==
  /\ \A k \in DOMAIN sy :
       sy[k].remaining = {tk[j].id : j \in {j \in DOMAIN tk : tk[j].sync = sy[k].id}}
  /\ \A j \in DOMAIN tk : tk[j].sync # 0 => \E k \in DOMAIN sy : sy[k].id = tk[j].sync

EpochsKnown(td, ue) ==
  /\ \A u \in ue : \A t \in u.tables : t \in DOMAIN td /\ u.epoch \in td[t].unsync
  /\ \A t \in DOMAIN td : \A e \in td[t].unsync : \E u \in ue : u.epoch = e /\ t \in u.tables

UploaderOK(tk, sp, sy, td, ue) ==
  /\ Shapes(tk, sp, sy, td, ue)
  /\ UniqueIds(tk, sp, sy)
  /\ SpillsKnown(tk, sp, td, ue)
  /\ SpillsExist(tk, sp, td)
  /\ SyncsKnown(tk, sy)
  /\ EpochsKnown(td, ue)

\* Spill tasks are told apart by their ids, and from all other tasks.
LEMMA SpillById ==
  ASSUME NEW tk, NEW sp, NEW sy, NEW td, NEW ue, Shapes(tk, sp, sy, td, ue), UniqueIds(tk, sp, sy),
         NEW x, IsSpill(x, tk, sp)
  PROVE  /\ \A y : IsSpill(y, tk, sp) /\ x.id = y.id => x = y
         /\ \A k \in DOMAIN tk : tk[k].id = x.id => tk[k] = x /\ tk[k].sync = 0
         /\ TaskShape(x) /\ x.sync = 0
<1>1. Len(tk) \in Nat /\ DOMAIN tk = 1..Len(tk) /\ \A k \in DOMAIN tk : tk[k].id \in Nat
  BY SeqDomain DEF Shapes, TaskShape
<1>2. \A j, k \in DOMAIN tk : tk[j].id = tk[k].id => j = k
  <2> SUFFICES ASSUME NEW j \in DOMAIN tk, NEW k \in DOMAIN tk, tk[j].id = tk[k].id PROVE j = k
    OBVIOUS
  <2>1. j \in Nat /\ k \in Nat
    BY <1>1
  <2>2. ~(j < k) /\ ~(k < j)
    BY <1>1 DEF UniqueIds
  <2> QED BY <2>1, <2>2
<1>3. \A y : IsSpill(y, tk, sp) /\ x.id = y.id => x = y
  BY <1>2 DEF IsSpill, UniqueIds
<1>4. \A k \in DOMAIN tk : tk[k].id = x.id => tk[k] = x /\ tk[k].sync = 0
  BY <1>2 DEF IsSpill, UniqueIds
<1>5. TaskShape(x) /\ x.sync = 0
  BY DEF IsSpill, Shapes
<1> QED BY <1>3, <1>4, <1>5

\* TaskConsistency is part of what they know.
LEMMA KnownTasks ==
  ASSUME UploaderOK(tasks, spilledData, syncing, tableData, unsyncEpochs)
  PROVE  TaskConsistency
<1> USE DEF UploaderOK
<1>1. \A x : x \in spilledData \cup Spilling <=> IsSpill(x, tasks, spilledData)
  BY DEF Spilling, IsSpill
<1> DEFINE L == UNION {{<<x[2], t>> : x \in tableData[t].spill} : t \in DOMAIN tableData}
           R == UNION {{<<s.id, t>> : t \in s.tables} : s \in spilledData \cup Spilling}
<1>2. \A p : p \in L => p \in R
  <2> SUFFICES ASSUME NEW t \in DOMAIN tableData, NEW y \in tableData[t].spill
               PROVE  <<y[2], t>> \in R
    OBVIOUS
  <2>1. PICK x : IsSpill(x, tasks, spilledData) /\ x.id = y[2] /\ t \in x.tables
    BY DEF SpillsExist
  <2> QED BY <2>1, <1>1
<1>3. \A p : p \in R => p \in L
  <2> SUFFICES ASSUME NEW s, IsSpill(s, tasks, spilledData), NEW t \in s.tables
               PROVE  <<s.id, t>> \in L
    BY <1>1
  <2>1. PICK u \in unsyncEpochs : SpillOf(s, u, tableData)
    BY DEF SpillsKnown
  <2>2. t \in DOMAIN tableData
    BY <2>1 DEF SpillOf, EpochsKnown
  <2>3. <<u.epoch, s.id>> \in tableData[t].spill /\ <<u.epoch, s.id>>[2] = s.id
    BY <2>1 DEF SpillOf
  <2> QED BY <2>2, <2>3
<1>4. L = R
  BY <1>2, <1>3
<1> QED BY <1>4 DEF TaskConsistency, SyncsKnown

\* Two tables' data that agree where anything looks: the unsynced epochs and the spill tasks.
SameTable(x, y) == y.unsync = x.unsync /\ y.spill = x.spill /\ TableShape(y)

\* Tables without unsynced epochs may go.
TablesKept(td, td2) ==
  /\ \A t \in DOMAIN td2 : t \in DOMAIN td /\ SameTable(td[t], td2[t])
  /\ \A t \in DOMAIN td : td[t].unsync # {} => t \in DOMAIN td2

\* Answering syncs changes and removes tables, and what the uploader knows of tasks stays true.
LEMMA KeepTables ==
  ASSUME NEW tk, NEW sp, NEW sy, NEW td, NEW td2, NEW ue,
         UploaderOK(tk, sp, sy, td, ue), TablesKept(td, td2)
  PROVE  UploaderOK(tk, sp, sy, td2, ue)
<1> USE DEF UploaderOK
<1>1. Shapes(tk, sp, sy, td2, ue)
  BY DEF Shapes, TablesKept, SameTable
<1>2. EpochsKnown(td2, ue)
  <2>1. ASSUME NEW u \in ue, NEW t \in u.tables
        PROVE  t \in DOMAIN td2 /\ u.epoch \in td2[t].unsync
    BY DEF EpochsKnown, TablesKept, SameTable
  <2>2. ASSUME NEW t \in DOMAIN td2, NEW e \in td2[t].unsync
        PROVE  \E u \in ue : u.epoch = e /\ t \in u.tables
    BY DEF EpochsKnown, TablesKept, SameTable
  <2> QED BY <2>1, <2>2 DEF EpochsKnown
<1>3. SpillsKnown(tk, sp, td2, ue)
  <2> SUFFICES ASSUME NEW x, IsSpill(x, tk, sp)
               PROVE  \E u \in ue : SpillOf(x, u, td2)
    BY DEF SpillsKnown
  <2>1. PICK u \in ue : SpillOf(x, u, td)
    BY DEF SpillsKnown
  <2>2. \A t \in x.tables : t \in DOMAIN td2
    BY <1>2, <2>1 DEF SpillOf, EpochsKnown
  <2>3. SpillOf(x, u, td2)
    BY <2>1, <2>2 DEF SpillOf, TablesKept, SameTable
  <2> QED BY <2>3
<1>4. SpillsExist(tk, sp, td2)
  <2> SUFFICES ASSUME NEW t \in DOMAIN td2
               PROVE  \A y \in td2[t].spill :
                        /\ y[1] \in td2[t].unsync
                        /\ \E x : IsSpill(x, tk, sp) /\ x.id = y[2] /\ t \in x.tables
                        /\ \A z \in td2[t].spill : y[2] = z[2] => y = z
    BY DEF SpillsExist
  <2>1. t \in DOMAIN td /\ td2[t].unsync = td[t].unsync /\ td2[t].spill = td[t].spill
    BY DEF TablesKept, SameTable
  <2> QED BY <2>1 DEF SpillsExist
<1> QED BY <1>1, <1>2, <1>3, <1>4

\* start_epoch: the tables T get the epoch e, new tables are added.
LEMMA StartedEpoch ==
  ASSUME NEW tk, NEW sp, NEW sy, NEW td, NEW td2, NEW ue, UploaderOK(tk, sp, sy, td, ue),
         NEW e \in Nat, NEW T,
         DOMAIN td2 = DOMAIN td \cup T,
         \A t \in DOMAIN td2 :
           /\ TableShape(td2[t])
           /\ td2[t].unsync = (IF t \in DOMAIN td THEN td[t].unsync ELSE {}) \cup (IF t \in T THEN {e} ELSE {})
           /\ td2[t].spill = IF t \in DOMAIN td THEN td[t].spill ELSE {}
  PROVE  UploaderOK(tk, sp, sy, td2, ue \cup {[epoch |-> e, tables |-> T]})
<1> USE DEF UploaderOK
<1> DEFINE ue2 == ue \cup {[epoch |-> e, tables |-> T]}
<1>1. Shapes(tk, sp, sy, td2, ue2)
  BY DEF Shapes
<1>2. \A t \in DOMAIN td : td2[t].spill = td[t].spill /\ t \in DOMAIN td2
  OBVIOUS
<1>3. EpochsKnown(td2, ue2)
  <2>1. ASSUME NEW u \in ue2, NEW t \in u.tables
        PROVE  t \in DOMAIN td2 /\ u.epoch \in td2[t].unsync
    <3>1. CASE u \in ue
      BY <3>1 DEF EpochsKnown
    <3>2. CASE u = [epoch |-> e, tables |-> T]
      BY <3>2
    <3> QED BY <3>1, <3>2
  <2>2. ASSUME NEW t \in DOMAIN td2, NEW x \in td2[t].unsync
        PROVE  \E u \in ue2 : u.epoch = x /\ t \in u.tables
    <3>1. CASE t \in DOMAIN td /\ x \in td[t].unsync
      BY <3>1 DEF EpochsKnown
    <3>2. CASE ~(t \in DOMAIN td /\ x \in td[t].unsync)
      <4>1. t \in T /\ x = e
        BY <3>2
      <4>2. [epoch |-> e, tables |-> T] \in ue2
        OBVIOUS
      <4> QED BY <4>1, <4>2
    <3> QED BY <3>1, <3>2
  <2> HIDE DEF ue2
  <2> QED BY <2>1, <2>2 DEF EpochsKnown
<1>4. SpillsKnown(tk, sp, td2, ue2)
  <2> SUFFICES ASSUME NEW x, IsSpill(x, tk, sp)
               PROVE  \E u \in ue2 : SpillOf(x, u, td2)
    BY DEF SpillsKnown
  <2>1. PICK u \in ue : SpillOf(x, u, td)
    BY DEF SpillsKnown
  <2>2. \A t \in x.tables : t \in DOMAIN td
    BY <2>1 DEF SpillOf, EpochsKnown
  <2>3. SpillOf(x, u, td2)
    BY <2>1, <2>2, <1>2 DEF SpillOf
  <2> QED BY <2>3
<1>5. SpillsExist(tk, sp, td2)
  <2> SUFFICES ASSUME NEW t \in DOMAIN td2, td2[t].spill # {}
               PROVE  \A y \in td2[t].spill :
                        /\ y[1] \in td2[t].unsync
                        /\ \E x : IsSpill(x, tk, sp) /\ x.id = y[2] /\ t \in x.tables
                        /\ \A z \in td2[t].spill : y[2] = z[2] => y = z
    BY DEF SpillsExist
  <2>1. t \in DOMAIN td /\ td2[t].spill = td[t].spill /\ td[t].unsync \subseteq td2[t].unsync
    OBVIOUS
  <2> QED BY <2>1 DEF SpillsExist
<1> QED BY <1>1, <1>3, <1>4, <1>5

\* A spill: the task x of epoch u is started and the tables of x know it.
LEMMA SpilledTask ==
  ASSUME NEW tk, NEW sp, NEW sy, NEW td, NEW td2, NEW ue, UploaderOK(tk, sp, sy, td, ue),
         NEW x, TaskShape(x), x.sync = 0, x.tables # {}, NEW u \in ue, x.tables \subseteq u.tables,
         \A k \in DOMAIN tk : tk[k].id < x.id, \A s \in sp : s.id < x.id,
         DOMAIN td2 = DOMAIN td,
         \A t \in DOMAIN td :
           /\ TableShape(td2[t]) /\ td2[t].unsync = td[t].unsync
           /\ td2[t].spill = td[t].spill \cup (IF t \in x.tables THEN {<<u.epoch, x.id>>} ELSE {})
  PROVE  UploaderOK(Append(tk, x), sp, sy, td2, ue)
<1> USE DEF UploaderOK
<1> DEFINE tk2 == Append(tk, x)
           n == Len(tk)
<1>1. /\ n \in Nat /\ DOMAIN tk = 1..n
      /\ IsSeq(tk2) /\ DOMAIN tk2 = 1..(n + 1) /\ tk2[n + 1] = x /\ \A k \in 1..n : tk2[k] = tk[k]
  <2>1. IsSeq(tk)
    BY DEF Shapes
  <2>2. n \in Nat /\ DOMAIN tk = 1..n
    BY <2>1, SeqDomain
  <2>3. IsSeq(tk2) /\ Len(tk2) = n + 1 /\ tk2[n + 1] = x /\ \A k \in 1..n : tk2[k] = tk[k]
    BY <2>1, SeqAppend
  <2>4. DOMAIN tk2 = 1..(n + 1)
    BY <2>3, SeqDomain
  <2> QED BY <2>2, <2>3, <2>4
<1> HIDE DEF tk2, n
<1>2. /\ \A k \in DOMAIN tk2 : k = n + 1 \/ k \in DOMAIN tk
      /\ \A k \in DOMAIN tk : k \in DOMAIN tk2 /\ tk2[k] = tk[k] /\ k < n + 1
      /\ n + 1 \in DOMAIN tk2
  BY <1>1
<1>3. Shapes(tk2, sp, sy, td2, ue)
  BY <1>1, <1>2 DEF Shapes
<1>4. UniqueIds(tk2, sp, sy)
  <2>1. ASSUME NEW j \in DOMAIN tk2, NEW k \in DOMAIN tk2, j < k
        PROVE  tk2[j].id < tk2[k].id
    <3>1. j \in DOMAIN tk
      BY <2>1, <1>1
    <3>2. CASE k = n + 1
      BY <3>1, <3>2, <1>1, <1>2
    <3>3. CASE k \in DOMAIN tk
      BY <2>1, <3>1, <3>3, <1>2 DEF UniqueIds
    <3> QED BY <3>2, <3>3, <1>2
  <2>2. ASSUME NEW s \in sp, NEW k \in DOMAIN tk2
        PROVE  s.id # tk2[k].id
    <3>1. CASE k = n + 1
      BY <3>1, <1>1 DEF Shapes, TaskShape
    <3>2. CASE k \in DOMAIN tk
      BY <3>2, <1>2 DEF UniqueIds
    <3> QED BY <3>1, <3>2, <1>2
  <2> QED BY <2>1, <2>2 DEF UniqueIds
<1>5. \A y : IsSpill(y, tk2, sp) <=> IsSpill(y, tk, sp) \/ y = x
  BY <1>1, <1>2 DEF IsSpill
<1>6. EpochsKnown(td2, ue)
  BY DEF EpochsKnown
<1>7. SpillsKnown(tk2, sp, td2, ue)
  <2> SUFFICES ASSUME NEW y, IsSpill(y, tk2, sp) PROVE \E v \in ue : SpillOf(y, v, td2)
    BY DEF SpillsKnown
  <2>1. CASE IsSpill(y, tk, sp)
    <3>1. PICK v \in ue : SpillOf(y, v, td)
      BY <2>1 DEF SpillsKnown
    <3>2. \A t \in y.tables : t \in DOMAIN td
      BY <3>1 DEF SpillOf, EpochsKnown
    <3>3. SpillOf(y, v, td2)
      BY <3>1, <3>2 DEF SpillOf
    <3> QED BY <3>3
  <2>2. CASE y = x
    <3>1. \A t \in x.tables : t \in DOMAIN td
      BY DEF EpochsKnown
    <3>2. SpillOf(x, u, td2)
      BY <3>1 DEF SpillOf
    <3> QED BY <2>2, <3>2
  <2> QED BY <1>5, <2>1, <2>2
<1>8. SpillsExist(tk2, sp, td2)
  <2> SUFFICES ASSUME NEW t \in DOMAIN td, NEW y \in td2[t].spill
               PROVE  /\ y[1] \in td2[t].unsync
                      /\ \E z : IsSpill(z, tk2, sp) /\ z.id = y[2] /\ t \in z.tables
                      /\ \A z \in td2[t].spill : y[2] = z[2] => y = z
    BY DEF SpillsExist
  <2>1. ASSUME NEW z \in td[t].spill PROVE z[2] # x.id
    <3>1. PICK s : IsSpill(s, tk, sp) /\ s.id = z[2]
      BY DEF SpillsExist
    <3>2. s.id < x.id /\ s.id \in Nat /\ x.id \in Nat
      BY <3>1 DEF IsSpill, Shapes, TaskShape
    <3> QED BY <3>1, <3>2
  <2> DEFINE z == <<u.epoch, x.id>>
  <2>2. z[1] = u.epoch /\ z[2] = x.id
    OBVIOUS
  <2> HIDE DEF z
  <2>3. y \in td[t].spill \/ (y = z /\ t \in x.tables)
    BY DEF z
  <2>4. \A v \in td2[t].spill : v \in td[t].spill \/ v = z
    BY DEF z
  <2>5. CASE y \in td[t].spill
    <3>1. y[1] \in td2[t].unsync
      BY <2>5 DEF SpillsExist
    <3>2. \E v : IsSpill(v, tk2, sp) /\ v.id = y[2] /\ t \in v.tables
      BY <2>5, <1>5 DEF SpillsExist
    <3>3. \A v \in td2[t].spill : y[2] = v[2] => y = v
      BY <2>1, <2>2, <2>4, <2>5 DEF SpillsExist
    <3> QED BY <3>1, <3>2, <3>3
  <2>6. CASE y = z /\ t \in x.tables
    <3>1. y[1] \in td2[t].unsync
      BY <2>2, <2>6 DEF EpochsKnown
    <3>2. \E v : IsSpill(v, tk2, sp) /\ v.id = y[2] /\ t \in v.tables
      BY <2>2, <2>6, <1>5
    <3>3. \A v \in td2[t].spill : y[2] = v[2] => y = v
      BY <2>1, <2>2, <2>4, <2>6
    <3> QED BY <3>1, <3>2, <3>3
  <2> QED BY <2>3, <2>5, <2>6
<1>9. SyncsKnown(tk2, sy)
  <2>1. ASSUME NEW k \in DOMAIN sy
        PROVE  sy[k].remaining = {tk2[j].id : j \in {j \in DOMAIN tk2 : tk2[j].sync = sy[k].id}}
    <3>1. sy[k].id # 0
      BY DEF Shapes, SyncShape
    <3>2. \A j \in DOMAIN tk2 : tk2[j].sync = sy[k].id => j \in DOMAIN tk
      BY <3>1, <1>1, <1>2
    <3>3. {j \in DOMAIN tk2 : tk2[j].sync = sy[k].id} = {j \in DOMAIN tk : tk[j].sync = sy[k].id}
      BY <3>2, <1>2
    <3> QED BY <3>3, <1>2 DEF SyncsKnown
  <2>2. ASSUME NEW j \in DOMAIN tk2, tk2[j].sync # 0 PROVE \E k \in DOMAIN sy : sy[k].id = tk2[j].sync
    BY <2>2, <1>1, <1>2 DEF SyncsKnown
  <2> QED BY <2>1, <2>2 DEF SyncsKnown
<1> QED BY <1>3, <1>4, <1>6, <1>7, <1>8, <1>9 DEF tk2

\* The spill tasks that a sync of the tables T up to epoch e takes.
TakenIds(td, e, T) == {x[2] : x \in {y \in UNION {td[t].spill : t \in T} : y[1] <= e}}

\* What start_sync_epoch does to the tasks: the spills ids go over to the sync n, and if there is
\* anything to flush, one more task follows.
SyncTasks(tk, tk2, ids, n, flush, extra) ==
  /\ IsSeq(tk2)
  /\ DOMAIN tk2 = 1..(IF flush THEN Len(tk) + 1 ELSE Len(tk))
  /\ \A k \in 1..Len(tk) :
       /\ TaskShape(tk2[k])
       /\ tk2[k].id = tk[k].id /\ tk2[k].input = tk[k].input /\ tk2[k].tables = tk[k].tables
       /\ tk2[k].sync = IF tk[k].id \in ids THEN n ELSE tk[k].sync
  /\ flush => tk2[Len(tk) + 1] = extra

\* A spill task that is taken lies within T; one that is not keeps its epoch.
LEMMA TakenSpills ==
  ASSUME NEW tk, NEW sp, NEW sy, NEW td, NEW ue, UploaderOK(tk, sp, sy, td, ue),
         NEW e \in Nat, NEW T, T \subseteq DOMAIN td,
         \A u \in ue : u.epoch <= e /\ u.tables \cap T # {} => u.tables = T,
         NEW x, IsSpill(x, tk, sp), NEW u \in ue, SpillOf(x, u, td)
  PROVE  x.id \in TakenIds(td, e, T) <=> u.epoch <= e /\ u.tables = T
<1> USE DEF UploaderOK
<1>1. ASSUME x.id \in TakenIds(td, e, T) PROVE u.epoch <= e /\ u.tables = T
  <2>1. PICK t \in T : \E y \in td[t].spill : y[1] <= e /\ y[2] = x.id
    BY <1>1 DEF TakenIds
  <2>2. PICK y \in td[t].spill : y[1] <= e /\ y[2] = x.id
    BY <2>1
  <2>3. PICK z : IsSpill(z, tk, sp) /\ z.id = y[2] /\ t \in z.tables
    BY <2>2 DEF SpillsExist
  <2>4. z = x
    BY <2>2, <2>3, SpillById
  <2>5. <<u.epoch, x.id>> \in td[t].spill /\ t \in u.tables
    BY <2>3, <2>4 DEF SpillOf
  <2>6. y[2] = <<u.epoch, x.id>>[2] => y = <<u.epoch, x.id>>
    BY <2>5 DEF SpillsExist
  <2>7. y[1] = u.epoch
    BY <2>2, <2>6
  <2> QED BY <2>2, <2>5, <2>7
<1>2. ASSUME u.epoch <= e, u.tables = T PROVE x.id \in TakenIds(td, e, T)
  <2>1. PICK t : t \in x.tables
    BY DEF SpillOf
  <2>2. t \in T /\ <<u.epoch, x.id>> \in td[t].spill
    BY <1>2, <2>1 DEF SpillOf
  <2> QED BY <1>2, <2>2 DEF TakenIds
<1> QED BY <1>1, <1>2

\* The task ids a sync finds in its tables are spill tasks that exist.
LEMMA TakenAreSpills ==
  ASSUME NEW tk, NEW sp, NEW sy, NEW td, NEW ue, UploaderOK(tk, sp, sy, td, ue),
         NEW e \in Nat, NEW T, T \subseteq DOMAIN td, NEW id \in TakenIds(td, e, T)
  PROVE  \E x : IsSpill(x, tk, sp) /\ x.id = id
<1>1. PICK t \in T : \E y \in td[t].spill : y[2] = id
  BY DEF TakenIds
<1> QED BY <1>1 DEF SpillsExist, UploaderOK

\* What a sync of T up to e leaves of the spilled data and of the unsynced epochs, what it does to
\* the tables, and which tasks it waits for.
LeftSpills(sp, ids) == {x \in sp : x.id \notin ids}

LeftEpochs(ue, e, T) == {u \in ue : ~(u.tables = T /\ u.epoch <= e)}

LeftTables(td, td2, e, T) ==
  /\ DOMAIN td2 = DOMAIN td
  /\ \A t \in DOMAIN td :
       /\ TableShape(td2[t])
       /\ td2[t].unsync = IF t \in T THEN {x \in td[t].unsync : x > e} ELSE td[t].unsync
       /\ td2[t].spill = IF t \in T THEN {x \in td[t].spill : x[1] > e} ELSE td[t].spill

WaitsFor(sp, ids, flush, extra) ==
  (ids \ {x.id : x \in {y \in sp : y.id \in ids}}) \cup (IF flush THEN {extra.id} ELSE {})

\* The epochs that a sync of T up to e reaches are epochs of exactly T.
ReachesOnly(ue, e, T) == \A u \in ue : u.epoch <= e /\ u.tables \cap T # {} => u.tables = T

\* The ids of the sync s and of its flush task extra are new.
NewIds(tk, sp, sy, s, extra) ==
  /\ TaskShape(extra) /\ SyncShape(s) /\ extra.sync = s.id
  /\ \A k \in DOMAIN tk : tk[k].id < extra.id
  /\ \A x \in sp : x.id < extra.id
  /\ \A k \in DOMAIN sy : sy[k].id < s.id

\* start_sync_epoch before it answers: the new sync is s, and s.remaining is what it waits for.
LEMMA SyncStarted ==
  ASSUME NEW tk, NEW tk2, NEW sp, NEW sy, NEW td, NEW td2, NEW ue, UploaderOK(tk, sp, sy, td, ue),
         NEW e \in Nat, NEW T, T \subseteq DOMAIN td, ReachesOnly(ue, e, T),
         NEW flush \in BOOLEAN, NEW extra, NEW s, NewIds(tk, sp, sy, s, extra),
         SyncTasks(tk, tk2, TakenIds(td, e, T), s.id, flush, extra),
         s.remaining = WaitsFor(sp, TakenIds(td, e, T), flush, extra),
         LeftTables(td, td2, e, T)
  PROVE  UploaderOK(tk2, LeftSpills(sp, TakenIds(td, e, T)), Append(sy, s), td2, LeftEpochs(ue, e, T))
<1> USE DEF LeftSpills, LeftEpochs, LeftTables, WaitsFor, ReachesOnly, NewIds
<1> USE DEF UploaderOK
<1> DEFINE ids == TakenIds(td, e, T)
           n == Len(tk)
           m == Len(sy)
           sp2 == {x \in sp : x.id \notin ids}
           sy2 == Append(sy, s)
           ue2 == {u \in ue : ~(u.tables = T /\ u.epoch <= e)}
<1>1. n \in Nat /\ DOMAIN tk = 1..n /\ m \in Nat /\ DOMAIN sy = 1..m
  BY SeqDomain DEF Shapes
<1>2. IsSeq(sy2) /\ DOMAIN sy2 = 1..(m + 1) /\ sy2[m + 1] = s /\ \A k \in DOMAIN sy : sy2[k] = sy[k] /\ k \in DOMAIN sy2
  <2>1. IsSeq(sy)
    BY DEF Shapes
  <2>2. IsSeq(sy2) /\ Len(sy2) = m + 1 /\ sy2[m + 1] = s /\ \A k \in 1..m : sy2[k] = sy[k]
    BY <2>1, SeqAppend
  <2>3. DOMAIN sy2 = 1..(m + 1)
    BY <2>2, SeqDomain
  <2> QED BY <2>2, <2>3, <1>1
<1>3. \A k \in DOMAIN sy2 : k \in DOMAIN sy \/ k = m + 1
  BY <1>1, <1>2
<1>4. \A id \in ids : \E x : IsSpill(x, tk, sp) /\ x.id = id
  BY TakenAreSpills
<1>5. \A x : IsSpill(x, tk, sp) => TaskShape(x)
  BY SpillById
<1> HIDE DEF ids, n, m, sy2
<1>6. /\ IsSeq(tk2)
      /\ \A k \in DOMAIN tk2 : k \in DOMAIN tk \/ (flush /\ k = n + 1 /\ tk2[k] = extra)
      /\ \A k \in DOMAIN tk :
           /\ k \in DOMAIN tk2 /\ k < n + 1 /\ TaskShape(tk2[k])
           /\ tk2[k].id = tk[k].id /\ tk2[k].input = tk[k].input /\ tk2[k].tables = tk[k].tables
           /\ tk2[k].sync = IF tk[k].id \in ids THEN s.id ELSE tk[k].sync
      /\ flush => n + 1 \in DOMAIN tk2 /\ tk2[n + 1] = extra
  BY <1>1 DEF SyncTasks, ids, n
<1>7. Shapes(tk2, sp2, sy2, td2, ue2)
  <2>1. \A k \in DOMAIN tk2 : TaskShape(tk2[k])
    BY <1>6
  <2>2. IsFiniteSet(sp2)
    BY FS_Subset DEF Shapes
  <2>3. \A k \in DOMAIN sy2 : SyncShape(sy2[k])
    BY <1>2, <1>3 DEF Shapes
  <2>4. \A x \in sp2 : TaskShape(x) /\ x.sync = 0
    BY DEF Shapes
  <2>5. \A u \in ue2 : u = [epoch |-> u.epoch, tables |-> u.tables] /\ u.epoch \in Nat
    BY DEF Shapes
  <2> HIDE DEF sp2, ue2
  <2> QED BY <2>1, <2>2, <2>3, <2>4, <2>5, <1>2, <1>6 DEF Shapes
<1>8. UniqueIds(tk2, sp2, sy2)
  <2>1. ASSUME NEW j \in DOMAIN tk2, NEW k \in DOMAIN tk2, j < k
        PROVE  tk2[j].id < tk2[k].id
    <3>1. CASE j \in DOMAIN tk /\ k \in DOMAIN tk
      BY <2>1, <3>1, <1>6 DEF UniqueIds
    <3>2. CASE j \in DOMAIN tk /\ k = n + 1 /\ tk2[k] = extra
      BY <3>2, <1>6
    <3>3. j \in DOMAIN tk
      <4>1. j \in DOMAIN tk \/ j = n + 1
        BY <1>6
      <4>2. k <= n + 1 /\ k \in Nat /\ n \in Nat
        BY <1>1, <1>6
      <4> QED BY <2>1, <4>1, <4>2
    <3> QED BY <3>1, <3>2, <3>3, <1>6
  <2>2. ASSUME NEW x \in sp2, NEW k \in DOMAIN tk2
        PROVE  x.id # tk2[k].id
    <3>1. CASE tk2[k] = extra
      BY <3>1 DEF Shapes, TaskShape
    <3>2. CASE k \in DOMAIN tk
      BY <3>2, <1>6 DEF UniqueIds
    <3> QED BY <3>1, <3>2, <1>6
  <2>3. ASSUME NEW j \in DOMAIN sy2, NEW k \in DOMAIN sy2, j < k
        PROVE  sy2[j].id < sy2[k].id
    <3>1. j \in DOMAIN sy
      BY <2>3, <1>1, <1>2
    <3>2. CASE k \in DOMAIN sy
      BY <2>3, <3>1, <3>2, <1>2 DEF UniqueIds
    <3>3. CASE k = m + 1
      BY <3>1, <3>3, <1>2
    <3> QED BY <3>2, <3>3, <1>3
  <2>4. \A x, y \in sp2 : x.id = y.id => x = y
    BY DEF UniqueIds
  <2> QED BY <2>1, <2>2, <2>3, <2>4 DEF UniqueIds
\* The spill tasks that are left.
<1>9. \A k \in DOMAIN tk : tk[k].id \in ids => tk[k].sync = 0
  BY <1>4, SpillById
<1>10. s.id # 0 /\ s.id \in Nat
  BY DEF SyncShape
<1>11. \A x : IsSpill(x, tk2, sp2) => IsSpill(x, tk, sp) /\ x.id \notin ids
  <2> SUFFICES ASSUME NEW x, IsSpill(x, tk2, sp2) PROVE IsSpill(x, tk, sp) /\ x.id \notin ids
    OBVIOUS
  <2>1. CASE x \in sp2
    BY <2>1 DEF IsSpill
  <2>2. CASE x \notin sp2
    <3>1. PICK k \in DOMAIN tk2 : tk2[k].sync = 0 /\ x = tk2[k]
      BY <2>2 DEF IsSpill
    <3>2. tk2[k] # extra
      BY <3>1, <1>10
    <3>3. k \in DOMAIN tk /\ tk[k].id \notin ids /\ tk[k].sync = 0
      BY <3>1, <3>2, <1>6, <1>10
    <3>4. tk2[k] = tk[k]
      BY <3>3, <1>6 DEF Shapes, TaskShape
    <3> QED BY <3>1, <3>3, <3>4 DEF IsSpill
  <2> QED BY <2>1, <2>2
<1>12. \A x : IsSpill(x, tk, sp) /\ x.id \notin ids => IsSpill(x, tk2, sp2)
  <2> SUFFICES ASSUME NEW x, IsSpill(x, tk, sp), x.id \notin ids, x \notin sp PROVE IsSpill(x, tk2, sp2)
    BY DEF IsSpill
  <2>1. PICK k \in DOMAIN tk : tk[k].sync = 0 /\ x = tk[k]
    BY DEF IsSpill
  <2>2. tk2[k] = tk[k] /\ k \in DOMAIN tk2
    BY <2>1, <1>6 DEF Shapes, TaskShape
  <2> QED BY <2>1, <2>2 DEF IsSpill
<1>13. EpochsKnown(td2, ue2)
  <2>1. ASSUME NEW u \in ue2, NEW t \in u.tables
        PROVE  t \in DOMAIN td2 /\ u.epoch \in td2[t].unsync
    <3>1. t \in DOMAIN td /\ u.epoch \in td[t].unsync /\ u.epoch \in Nat
      BY DEF EpochsKnown, Shapes
    <3>2. t \in T => u.epoch > e
      BY <3>1
    <3> QED BY <3>1, <3>2
  <2>2. ASSUME NEW t \in DOMAIN td2, NEW x \in td2[t].unsync
        PROVE  \E u \in ue2 : u.epoch = x /\ t \in u.tables
    <3>1. t \in DOMAIN td /\ x \in td[t].unsync /\ (t \in T => x > e) /\ x \in Nat
      BY DEF Shapes, TableShape
    <3>2. PICK u \in ue : u.epoch = x /\ t \in u.tables
      BY <3>1 DEF EpochsKnown
    <3>3. u \in ue2
      BY <3>1, <3>2
    <3> QED BY <3>2, <3>3
  <2> HIDE DEF ue2
  <2> QED BY <2>1, <2>2 DEF EpochsKnown
<1>14. SpillsKnown(tk2, sp2, td2, ue2)
  <2> SUFFICES ASSUME NEW x, IsSpill(x, tk, sp), x.id \notin ids
               PROVE  \E u \in ue2 : SpillOf(x, u, td2)
    BY <1>11 DEF SpillsKnown
  <2>1. PICK u \in ue : SpillOf(x, u, td)
    BY DEF SpillsKnown
  <2>2. ~(u.epoch <= e /\ u.tables = T)
    BY <2>1, TakenSpills DEF ids
  <2>3. u \in ue2 /\ u.epoch \in Nat
    BY <2>2 DEF Shapes
  <2>4. \A t \in x.tables : t \in DOMAIN td /\ (t \in T => u.epoch > e)
    BY <2>1, <2>2, <2>3 DEF SpillOf, EpochsKnown
  <2>5. \A t \in x.tables : <<u.epoch, x.id>> \in td2[t].spill
    BY <2>1, <2>4 DEF SpillOf
  <2>6. SpillOf(x, u, td2)
    BY <2>1, <2>5 DEF SpillOf
  <2> QED BY <2>3, <2>6
<1>15. SpillsExist(tk2, sp2, td2)
  <2> SUFFICES ASSUME NEW t \in DOMAIN td, NEW y \in td2[t].spill
               PROVE  /\ y[1] \in td2[t].unsync
                      /\ \E x : IsSpill(x, tk2, sp2) /\ x.id = y[2] /\ t \in x.tables
                      /\ \A z \in td2[t].spill : y[2] = z[2] => y = z
    BY DEF SpillsExist
  <2>1. y \in td[t].spill /\ (t \in T => y[1] > e) /\ td2[t].spill \subseteq td[t].spill
    OBVIOUS
  <2>2. y[1] \in td[t].unsync /\ \A z \in td[t].spill : y[2] = z[2] => y = z
    BY <2>1 DEF SpillsExist
  <2>3. PICK x : IsSpill(x, tk, sp) /\ x.id = y[2] /\ t \in x.tables
    BY <2>1 DEF SpillsExist
  <2>4. PICK u \in ue : SpillOf(x, u, td)
    BY <2>3 DEF SpillsKnown
  <2>5. u.epoch = y[1]
    <3>1. <<u.epoch, x.id>> \in td[t].spill /\ <<u.epoch, x.id>>[2] = y[2]
      BY <2>3, <2>4 DEF SpillOf
    <3>2. y = <<u.epoch, x.id>>
      BY <2>2, <3>1
    <3> QED BY <3>2
  <2>6. u.epoch \in Nat /\ t \in u.tables
    BY <2>3, <2>4 DEF Shapes, SpillOf
  <2>7. x.id \notin ids
    BY <2>1, <2>3, <2>4, <2>5, <2>6, TakenSpills DEF ids
  <2> QED BY <2>1, <2>2, <2>3, <2>7, <1>12
<1>16. SyncsKnown(tk2, sy2)
  <2>1. ASSUME NEW k \in DOMAIN sy
        PROVE  sy2[k].remaining = {tk2[j].id : j \in {j \in DOMAIN tk2 : tk2[j].sync = sy2[k].id}}
    <3>1. sy2[k] = sy[k] /\ sy[k].id # 0 /\ sy[k].id # s.id
      BY <1>2, <1>10 DEF Shapes, SyncShape
    <3>2. \A j \in DOMAIN tk2 : tk2[j].sync = sy[k].id <=> j \in DOMAIN tk /\ tk[j].sync = sy[k].id
      BY <3>1, <1>6, <1>9
    <3>3. {j \in DOMAIN tk2 : tk2[j].sync = sy[k].id} = {j \in DOMAIN tk : tk[j].sync = sy[k].id}
      BY <3>2, <1>6
    <3>4. sy[k].remaining = {tk[j].id : j \in {j \in DOMAIN tk : tk[j].sync = sy[k].id}}
      BY DEF SyncsKnown
    <3> QED BY <3>1, <3>3, <3>4, <1>6
  <2>2. s.remaining = {tk2[j].id : j \in {j \in DOMAIN tk2 : tk2[j].sync = s.id}}
    <3> DEFINE R == {tk2[j].id : j \in {j \in DOMAIN tk2 : tk2[j].sync = s.id}}
    <3>1. ASSUME NEW id \in s.remaining PROVE id \in R
      <4>1. CASE flush /\ id = extra.id
        BY <4>1, <1>6
      <4>2. CASE id \in ids /\ \A y \in sp : y.id \in ids => y.id # id
        <5>1. PICK x : IsSpill(x, tk, sp) /\ x.id = id
          BY <4>2, <1>4
        <5>2. x \notin sp
          BY <4>2, <5>1
        <5>3. PICK k \in DOMAIN tk : tk[k].sync = 0 /\ x = tk[k]
          BY <5>1, <5>2 DEF IsSpill
        <5>4. k \in DOMAIN tk2 /\ tk2[k].id = id /\ tk2[k].sync = s.id
          BY <4>2, <5>1, <5>3, <1>6
        <5> QED BY <5>4
      <4>3. \/ flush /\ id = extra.id
            \/ id \in ids /\ id \notin {x.id : x \in {y \in sp : y.id \in ids}}
        BY DEF ids
      <4> QED BY <4>1, <4>2, <4>3
    <3>2. ASSUME NEW id \in R PROVE id \in s.remaining
      <4>1. PICK j \in DOMAIN tk2 : tk2[j].sync = s.id /\ id = tk2[j].id
        OBVIOUS
      <4>2. CASE flush /\ tk2[j] = extra
        BY <4>1, <4>2
      <4>3. CASE j \in DOMAIN tk
        <5>1. tk[j].id \in ids
          <6>1. tk[j].sync # s.id
            <7>1. tk[j].sync # 0 => \E k \in DOMAIN sy : sy[k].id = tk[j].sync
              BY <4>3 DEF SyncsKnown
            <7>2. \A k \in DOMAIN sy : sy[k].id # s.id
              BY <1>10 DEF Shapes, SyncShape
            <7> QED BY <7>1, <7>2, <1>10
          <6> QED BY <6>1, <4>1, <4>3, <1>6
        <5>2. \A y \in sp : y.id # tk[j].id
          BY <4>3 DEF UniqueIds
        <5>3. id \in ids /\ id \notin {x.id : x \in {y \in sp : y.id \in ids}}
          BY <5>1, <5>2, <4>1, <4>3, <1>6
        <5> QED BY <5>3 DEF ids
      <4> QED BY <4>1, <4>2, <4>3, <1>6
    <3> QED BY <3>1, <3>2
  <2>3. ASSUME NEW j \in DOMAIN tk2, tk2[j].sync # 0 PROVE \E k \in DOMAIN sy2 : sy2[k].id = tk2[j].sync
    <3>1. CASE tk2[j].sync = s.id
      <4>1. m + 1 \in DOMAIN sy2
        BY <1>1, <1>2
      <4> QED BY <3>1, <4>1, <1>2
    <3>2. CASE tk2[j].sync # s.id
      <4>1. j \in DOMAIN tk /\ tk2[j].sync = tk[j].sync
        BY <3>2, <1>6
      <4>2. PICK k \in DOMAIN sy : sy[k].id = tk[j].sync
        BY <2>3, <4>1 DEF SyncsKnown
      <4> QED BY <4>1, <4>2, <1>2
    <3> QED BY <3>1, <3>2
  <2>4. \A k \in DOMAIN sy2 :
           sy2[k].remaining = {tk2[j].id : j \in {j \in DOMAIN tk2 : tk2[j].sync = sy2[k].id}}
    <3> SUFFICES ASSUME NEW k \in DOMAIN sy2
                 PROVE  sy2[k].remaining = {tk2[j].id : j \in {j \in DOMAIN tk2 : tk2[j].sync = sy2[k].id}}
      OBVIOUS
    <3>1. CASE k \in DOMAIN sy
      BY <3>1, <2>1
    <3>2. CASE k = m + 1
      BY <3>2, <2>2, <1>2
    <3> QED BY <3>1, <3>2, <1>3
  <2> QED BY <2>3, <2>4 DEF SyncsKnown
<1> QED BY <1>7, <1>8, <1>13, <1>14, <1>15, <1>16 DEF ids, sy2

\* Some of the syncs go; no task belongs to one that goes.
SyncsLeft(tk, sy, sy2) ==
  \E f \in [DOMAIN sy2 -> DOMAIN sy] :
    /\ \A j, k \in DOMAIN sy2 : j < k => f[j] < f[k]
    /\ \A k \in DOMAIN sy2 : sy2[k] = sy[f[k]]
    /\ \A m \in DOMAIN sy : (\E k \in DOMAIN sy2 : f[k] = m)
                            \/ \A j \in DOMAIN tk : tk[j].sync # sy[m].id

\* Syncs that no task belongs to any more can be removed.
LEMMA SyncsGo ==
  ASSUME NEW tk, NEW sp, NEW sy, NEW sy2, NEW td, NEW ue, UploaderOK(tk, sp, sy, td, ue),
         IsSeq(sy2), SyncsLeft(tk, sy, sy2)
  PROVE  UploaderOK(tk, sp, sy2, td, ue)
<1> USE DEF UploaderOK
<1>1. PICK f \in [DOMAIN sy2 -> DOMAIN sy] :
         /\ \A j, k \in DOMAIN sy2 : j < k => f[j] < f[k]
         /\ \A k \in DOMAIN sy2 : sy2[k] = sy[f[k]]
         /\ \A m \in DOMAIN sy : (\E k \in DOMAIN sy2 : f[k] = m)
                                 \/ \A j \in DOMAIN tk : tk[j].sync # sy[m].id
  BY DEF SyncsLeft
<1>2. \A k \in DOMAIN sy2 : f[k] \in DOMAIN sy /\ sy2[k] = sy[f[k]]
  BY <1>1
<1>3. Shapes(tk, sp, sy2, td, ue)
  BY <1>2 DEF Shapes
<1>4. UniqueIds(tk, sp, sy2)
  BY <1>1, <1>2 DEF UniqueIds
<1>5. \A k \in DOMAIN sy2 :
        sy2[k].remaining = {tk[j].id : j \in {j \in DOMAIN tk : tk[j].sync = sy2[k].id}}
  BY <1>2 DEF SyncsKnown
<1>6. ASSUME NEW j \in DOMAIN tk, tk[j].sync # 0 PROVE \E k \in DOMAIN sy2 : sy2[k].id = tk[j].sync
  <2>1. PICK m \in DOMAIN sy : sy[m].id = tk[j].sync
    BY <1>6 DEF SyncsKnown
  <2>2. PICK k \in DOMAIN sy2 : f[k] = m
    BY <1>1, <2>1
  <2> QED BY <1>2, <2>1, <2>2
<1>7. SyncsKnown(tk, sy2)
  BY <1>5, <1>6 DEF SyncsKnown
<1> QED BY <1>3, <1>4, <1>7

\* A finished sync has no task left.
LEMMA FinishedHasNoTask ==
  ASSUME NEW tk, NEW sy, SyncsKnown(tk, sy), IsSeq(sy), NEW k \in DOMAIN sy, sy[k] \in Finished(sy)
  PROVE  \A j \in DOMAIN tk : tk[j].sync # sy[k].id
<1>1. PICK m \in DOMAIN sy : sy[k] = sy[m] /\ \A l \in 1..m : sy[l].remaining = {}
  BY DEF Finished
<1>2. m \in 1..m
  BY SeqDomain
<1>3. sy[k].remaining = {}
  BY <1>1, <1>2
<1> SUFFICES ASSUME NEW j \in DOMAIN tk, tk[j].sync = sy[k].id PROVE FALSE
  OBVIOUS
<1>4. sy[k].remaining = {tk[i].id : i \in {i \in DOMAIN tk : tk[i].sync = sy[k].id}}
  BY DEF SyncsKnown
<1>5. tk[j].id \in sy[k].remaining
  BY <1>4
<1> QED BY <1>3, <1>5

\* may_notify_sync_task leaves the syncs that are not finished.
LEMMA UnfinishedLeft ==
  ASSUME NEW tk, NEW sy, SyncsKnown(tk, sy), IsSeq(sy)
  PROVE  LET rest == Keep(sy, {k \in DOMAIN sy : sy[k] \notin Finished(sy)})
         IN  IsSeq(rest) /\ SyncsLeft(tk, sy, rest)
<1> DEFINE I == {k \in DOMAIN sy : sy[k] \notin Finished(sy)}
           rest == Keep(sy, I)
<1>1. Kept(sy, I, Len(sy), rest)
  BY KeepIs
<1>2. IsSeq(rest) /\ DOMAIN rest = 1..Len(rest) /\ DOMAIN sy = 1..Len(sy)
  <2>1. IsSeq(rest)
    BY <1>1 DEF Kept
  <2> HIDE DEF rest, I
  <2> QED BY <2>1, SeqDomain
<1>3. I \cap 1..Len(sy) = I
  BY <1>2
<1> HIDE DEF rest
<1> HIDE DEF I
<1>4a. PICK f \in [1..Len(rest) -> I \cap 1..Len(sy)] :
       /\ \A j, k \in 1..Len(rest) : j < k => f[j] < f[k]
       /\ \A k \in 1..Len(rest) : rest[k] = sy[f[k]]
       /\ \A m \in I \cap 1..Len(sy) : \E k \in 1..Len(rest) : f[k] = m
  BY <1>1 DEF Kept
<1>4. /\ f \in [DOMAIN rest -> I]
      /\ \A j, k \in DOMAIN rest : j < k => f[j] < f[k]
      /\ \A k \in DOMAIN rest : rest[k] = sy[f[k]]
      /\ \A m \in I : \E k \in DOMAIN rest : f[k] = m
  <2>1. 1..Len(rest) = DOMAIN rest
    BY <1>2
  <2> QED BY <2>1, <1>3, <1>4a
<1> USE DEF I
<1>5. f \in [DOMAIN rest -> DOMAIN sy]
  BY <1>4
<1>6. \A m \in DOMAIN sy : (\E k \in DOMAIN rest : f[k] = m) \/ \A j \in DOMAIN tk : tk[j].sync # sy[m].id
  BY <1>4, FinishedHasNoTask
<1>7. SyncsLeft(tk, sy, rest)
  BY <1>4, <1>5, <1>6 DEF SyncsLeft
<1> QED BY <1>2, <1>7 DEF rest

\* The first task is uploaded, a spill: it joins the spilled data.
LEMMA SpillUploaded ==
  ASSUME NEW tk, NEW sp, NEW sy, NEW td, NEW ue, UploaderOK(tk, sp, sy, td, ue),
         tk # <<>>, Head(tk).sync = 0
  PROVE  /\ UploaderOK(Tail(tk), sp \cup {Head(tk)}, sy, td, ue)
         /\ \A x : IsSpill(x, tk, sp) <=> IsSpill(x, Tail(tk), sp \cup {Head(tk)})
<1> USE DEF UploaderOK
<1> DEFINE n == Len(tk)
           tk2 == Tail(tk)
           x0 == Head(tk)
           sp2 == sp \cup {x0}
<1>1. /\ n \in Nat /\ n > 0 /\ DOMAIN tk = 1..n /\ x0 = tk[1] /\ IsSeq(tk2) /\ DOMAIN tk2 = 1..(n - 1)
      /\ \A k \in DOMAIN tk2 : tk2[k] = tk[k + 1] /\ k + 1 \in DOMAIN tk
  <2>1. IsSeq(tk)
    BY DEF Shapes
  <2>2. /\ IsSeq(tk2) /\ Len(tk2) = n - 1 /\ n \in Nat /\ n > 0 /\ x0 = tk[1]
        /\ \A k \in 1..Len(tk2) : tk2[k] = tk[k + 1] /\ k + 1 \in 1..n
    BY <2>1, SeqTail
  <2>3. DOMAIN tk = 1..n
    BY <2>1, SeqDomain
  <2>4. DOMAIN tk2 = 1..Len(tk2)
    BY <2>2, SeqDomain
  <2> QED BY <2>2, <2>3, <2>4
<1>2. 1 \in DOMAIN tk /\ tk[1].sync = 0 /\ TaskShape(tk[1])
  BY <1>1 DEF Shapes
<1> HIDE DEF tk2, n, x0
<1>3. \A k \in DOMAIN tk : k = 1 \/ (k - 1 \in DOMAIN tk2 /\ tk2[k - 1] = tk[k])
  <2> SUFFICES ASSUME NEW k \in DOMAIN tk, k # 1 PROVE k - 1 \in DOMAIN tk2 /\ tk2[k - 1] = tk[k]
    OBVIOUS
  <2>1. k - 1 \in DOMAIN tk2 /\ (k - 1) + 1 = k
    BY <1>1
  <2> QED BY <1>1, <2>1
<1>4. Shapes(tk2, sp2, sy, td, ue)
  <2>1. IsFiniteSet(sp2)
    BY FS_AddElement DEF Shapes
  <2> QED BY <1>1, <1>2, <2>1 DEF Shapes
<1>5. \A k \in DOMAIN tk2 : k \in Nat /\ 1 < k + 1 /\ tk[1].id < tk2[k].id
  <2> SUFFICES ASSUME NEW k \in DOMAIN tk2 PROVE k \in Nat /\ 1 < k + 1 /\ tk[1].id < tk2[k].id
    OBVIOUS
  <2>1. k \in Nat /\ 1 < k + 1 /\ k + 1 \in DOMAIN tk /\ tk2[k] = tk[k + 1]
    BY <1>1
  <2> QED BY <1>2, <2>1 DEF UniqueIds
<1>6. \A k \in DOMAIN tk2 : tk[1].id # tk2[k].id
  BY <1>1, <1>2, <1>5 DEF Shapes, TaskShape
<1>7. UniqueIds(tk2, sp2, sy)
  <2>1. ASSUME NEW j \in DOMAIN tk2, NEW k \in DOMAIN tk2, j < k
        PROVE  tk2[j].id < tk2[k].id
    <3>1. j + 1 < k + 1 /\ j + 1 \in DOMAIN tk /\ k + 1 \in DOMAIN tk
      BY <2>1, <1>1, <1>5
    <3>2. tk[j + 1].id < tk[k + 1].id
      BY <3>1 DEF UniqueIds
    <3> QED BY <3>2, <1>1
  <2>2. ASSUME NEW s \in sp2, NEW k \in DOMAIN tk2 PROVE s.id # tk2[k].id
    BY <1>1, <1>6 DEF UniqueIds
  <2>3. \A s, y \in sp2 : s.id = y.id => s = y
    BY <1>1, <1>2 DEF UniqueIds
  <2> QED BY <2>1, <2>2, <2>3 DEF UniqueIds
<1>8. \A x : IsSpill(x, tk, sp) <=> IsSpill(x, tk2, sp2)
  <2>1. ASSUME NEW x, IsSpill(x, tk, sp) PROVE IsSpill(x, tk2, sp2)
    BY <2>1, <1>1, <1>3 DEF IsSpill
  <2>2. ASSUME NEW x, IsSpill(x, tk2, sp2) PROVE IsSpill(x, tk, sp)
    BY <2>2, <1>1, <1>2 DEF IsSpill
  <2> QED BY <2>1, <2>2
<1>9. SyncsKnown(tk2, sy)
  <2>1. ASSUME NEW k \in DOMAIN sy
        PROVE  sy[k].remaining = {tk2[j].id : j \in {j \in DOMAIN tk2 : tk2[j].sync = sy[k].id}}
    <3>1. sy[k].id # 0 /\ sy[k].remaining = {tk[j].id : j \in {j \in DOMAIN tk : tk[j].sync = sy[k].id}}
      BY DEF Shapes, SyncShape, SyncsKnown
    <3>2. ASSUME NEW j \in DOMAIN tk, tk[j].sync = sy[k].id
          PROVE  \E i \in DOMAIN tk2 : tk2[i].sync = sy[k].id /\ tk2[i].id = tk[j].id
      BY <3>1, <3>2, <1>2, <1>3
    <3>3. ASSUME NEW i \in DOMAIN tk2, tk2[i].sync = sy[k].id
          PROVE  \E j \in DOMAIN tk : tk[j].sync = sy[k].id /\ tk2[i].id = tk[j].id
      BY <3>3, <1>1
    <3> QED BY <3>1, <3>2, <3>3
  <2>2. ASSUME NEW j \in DOMAIN tk2, tk2[j].sync # 0 PROVE \E k \in DOMAIN sy : sy[k].id = tk2[j].sync
    BY <2>2, <1>1 DEF SyncsKnown
  <2> QED BY <2>1, <2>2 DEF SyncsKnown
<1>10. SpillsKnown(tk2, sp2, td, ue) /\ SpillsExist(tk2, sp2, td)
  BY <1>8 DEF SpillsKnown, SpillsExist
<1> QED BY <1>4, <1>7, <1>8, <1>9, <1>10 DEF tk2, x0

\* The first task is uploaded, one of a sync: it no longer remains.
LEMMA SyncTaskUploaded ==
  ASSUME NEW tk, NEW sp, NEW sy, NEW sy2, NEW td, NEW ue, UploaderOK(tk, sp, sy, td, ue),
         tk # <<>>, Head(tk).sync # 0, IsSeq(sy2), DOMAIN sy2 = DOMAIN sy,
         \A k \in DOMAIN sy :
           /\ SyncShape(sy2[k]) /\ sy2[k].id = sy[k].id
           /\ sy2[k].remaining = IF sy[k].id = Head(tk).sync THEN sy[k].remaining \ {Head(tk).id}
                                 ELSE sy[k].remaining
  PROVE  /\ UploaderOK(Tail(tk), sp, sy2, td, ue)
         /\ \A x : IsSpill(x, tk, sp) <=> IsSpill(x, Tail(tk), sp)
<1> USE DEF UploaderOK
<1> DEFINE n == Len(tk)
           tk2 == Tail(tk)
           x0 == Head(tk)
<1>1. /\ n \in Nat /\ n > 0 /\ DOMAIN tk = 1..n /\ x0 = tk[1] /\ IsSeq(tk2) /\ DOMAIN tk2 = 1..(n - 1)
      /\ \A k \in DOMAIN tk2 : tk2[k] = tk[k + 1] /\ k + 1 \in DOMAIN tk
  <2>1. IsSeq(tk)
    BY DEF Shapes
  <2>2. /\ IsSeq(tk2) /\ Len(tk2) = n - 1 /\ n \in Nat /\ n > 0 /\ x0 = tk[1]
        /\ \A k \in 1..Len(tk2) : tk2[k] = tk[k + 1] /\ k + 1 \in 1..n
    BY <2>1, SeqTail
  <2>3. DOMAIN tk = 1..n
    BY <2>1, SeqDomain
  <2>4. DOMAIN tk2 = 1..Len(tk2)
    BY <2>2, SeqDomain
  <2> QED BY <2>2, <2>3, <2>4
<1>2. 1 \in DOMAIN tk /\ tk[1].sync # 0 /\ TaskShape(tk[1])
  BY <1>1 DEF Shapes
<1>a. \A k \in DOMAIN sy :
           /\ SyncShape(sy2[k]) /\ sy2[k].id = sy[k].id
           /\ sy2[k].remaining = IF sy[k].id = tk[1].sync THEN sy[k].remaining \ {tk[1].id}
                                 ELSE sy[k].remaining
  BY <1>1
<1> HIDE DEF tk2, n, x0
<1>3. \A k \in DOMAIN tk : k = 1 \/ (k - 1 \in DOMAIN tk2 /\ tk2[k - 1] = tk[k])
  <2> SUFFICES ASSUME NEW k \in DOMAIN tk, k # 1 PROVE k - 1 \in DOMAIN tk2 /\ tk2[k - 1] = tk[k]
    OBVIOUS
  <2>1. k - 1 \in DOMAIN tk2 /\ (k - 1) + 1 = k
    BY <1>1
  <2> QED BY <1>1, <2>1
<1>4. Shapes(tk2, sp, sy2, td, ue)
  BY <1>1, <1>2, <1>a DEF Shapes
<1>5. \A k \in DOMAIN tk2 : k \in Nat /\ 1 < k + 1 /\ tk[1].id < tk2[k].id
  <2> SUFFICES ASSUME NEW k \in DOMAIN tk2 PROVE k \in Nat /\ 1 < k + 1 /\ tk[1].id < tk2[k].id
    OBVIOUS
  <2>1. k \in Nat /\ 1 < k + 1 /\ k + 1 \in DOMAIN tk /\ tk2[k] = tk[k + 1]
    BY <1>1
  <2> QED BY <1>2, <2>1 DEF UniqueIds
<1>6. \A k \in DOMAIN tk2 : tk[1].id # tk2[k].id
  BY <1>1, <1>2, <1>5 DEF Shapes, TaskShape
<1>7. UniqueIds(tk2, sp, sy2)
  <2>1. ASSUME NEW j \in DOMAIN tk2, NEW k \in DOMAIN tk2, j < k
        PROVE  tk2[j].id < tk2[k].id
    <3>1. j + 1 < k + 1 /\ j + 1 \in DOMAIN tk /\ k + 1 \in DOMAIN tk
      BY <2>1, <1>1, <1>5
    <3>2. tk[j + 1].id < tk[k + 1].id
      BY <3>1 DEF UniqueIds
    <3> QED BY <3>2, <1>1
  <2>2. ASSUME NEW s \in sp, NEW k \in DOMAIN tk2 PROVE s.id # tk2[k].id
    BY <1>1, <1>6 DEF UniqueIds
  <2>3. \A j, k \in DOMAIN sy2 : j < k => sy2[j].id < sy2[k].id
    BY <1>a DEF UniqueIds
  <2> QED BY <2>1, <2>2, <2>3 DEF UniqueIds
<1>8. \A x : IsSpill(x, tk, sp) <=> IsSpill(x, tk2, sp)
  <2>1. ASSUME NEW x, IsSpill(x, tk, sp) PROVE IsSpill(x, tk2, sp)
    BY <2>1, <1>2, <1>3 DEF IsSpill
  <2>2. ASSUME NEW x, IsSpill(x, tk2, sp) PROVE IsSpill(x, tk, sp)
    BY <2>2, <1>1 DEF IsSpill
  <2> QED BY <2>1, <2>2
<1>9. SyncsKnown(tk2, sy2)
  <2>1. ASSUME NEW k \in DOMAIN sy
        PROVE  sy2[k].remaining = {tk2[j].id : j \in {j \in DOMAIN tk2 : tk2[j].sync = sy2[k].id}}
    <3> DEFINE R == {tk2[j].id : j \in {j \in DOMAIN tk2 : tk2[j].sync = sy2[k].id}}
    <3>1. sy[k].remaining = {tk[j].id : j \in {j \in DOMAIN tk : tk[j].sync = sy[k].id}}
      BY DEF SyncsKnown
    <3>2. ASSUME NEW id \in sy2[k].remaining PROVE id \in R
      <4>1. id \in sy[k].remaining /\ (sy[k].id = tk[1].sync => id # tk[1].id)
        BY <1>a
      <4>2. PICK j \in DOMAIN tk : tk[j].sync = sy[k].id /\ id = tk[j].id
        BY <3>1, <4>1
      <4>3. j # 1
        BY <4>1, <4>2
      <4>4. j - 1 \in DOMAIN tk2 /\ tk2[j - 1] = tk[j]
        BY <4>3, <1>3
      <4> QED BY <4>2, <4>4, <1>a
    <3>3. ASSUME NEW id \in R PROVE id \in sy2[k].remaining
      <4>1. PICK j \in DOMAIN tk2 : tk2[j].sync = sy[k].id /\ id = tk2[j].id
        BY <1>a
      <4>2. tk2[j] = tk[j + 1] /\ j + 1 \in DOMAIN tk
        BY <1>1
      <4>3. id \in sy[k].remaining
        BY <3>1, <4>1, <4>2
      <4> QED BY <4>1, <4>3, <1>6, <1>a
    <3> QED BY <3>2, <3>3
  <2>2. ASSUME NEW j \in DOMAIN tk2, tk2[j].sync # 0 PROVE \E k \in DOMAIN sy2 : sy2[k].id = tk2[j].sync
    <3>1. tk2[j] = tk[j + 1] /\ j + 1 \in DOMAIN tk
      BY <1>1
    <3>2. PICK k \in DOMAIN sy : sy[k].id = tk[j + 1].sync
      BY <2>2, <3>1 DEF SyncsKnown
    <3> QED BY <3>1, <3>2, <1>a
  <2> QED BY <2>1, <2>2 DEF SyncsKnown
<1>10. SpillsKnown(tk2, sp, td, ue) /\ SpillsExist(tk2, sp, td)
  BY <1>8 DEF SpillsKnown, SpillsExist
<1> QED BY <1>4, <1>7, <1>8, <1>9, <1>10 DEF tk2

\* Keep as a map of places.
LEMMA KeepFacts ==
  ASSUME NEW s, IsSeq(s), NEW I, I \subseteq DOMAIN s
  PROVE  /\ IsSeq(Keep(s, I))
         /\ \E f \in [DOMAIN Keep(s, I) -> DOMAIN s] :
              /\ \A j, k \in DOMAIN Keep(s, I) : j < k => f[j] < f[k]
              /\ \A k \in DOMAIN Keep(s, I) : f[k] \in I /\ Keep(s, I)[k] = s[f[k]]
              /\ \A m \in I : \E k \in DOMAIN Keep(s, I) : f[k] = m
<1> DEFINE r == Keep(s, I)
<1>1. Kept(s, I, Len(s), r)
  BY KeepIs
<1> HIDE DEF r
<1>2. IsSeq(r)
  BY <1>1 DEF Kept
<1>3. DOMAIN r = 1..Len(r) /\ DOMAIN s = 1..Len(s)
  BY <1>2, SeqDomain
<1>4. I \cap 1..Len(s) = I
  BY <1>3
<1>5. PICK f \in [1..Len(r) -> I \cap 1..Len(s)] :
       /\ \A j, k \in 1..Len(r) : j < k => f[j] < f[k]
       /\ \A k \in 1..Len(r) : r[k] = s[f[k]]
       /\ \A m \in I \cap 1..Len(s) : \E k \in 1..Len(r) : f[k] = m
  BY <1>1 DEF Kept
<1>6. f \in [DOMAIN r -> DOMAIN s] /\ \A k \in DOMAIN r : f[k] \in I
  BY <1>3, <1>4, <1>5
<1>7. /\ \A j, k \in DOMAIN r : j < k => f[j] < f[k]
      /\ \A k \in DOMAIN r : r[k] = s[f[k]]
      /\ \A m \in I : \E k \in DOMAIN r : f[k] = m
  BY <1>3, <1>4, <1>5
<1>8. \E h \in [DOMAIN r -> DOMAIN s] :
        /\ \A j, k \in DOMAIN r : j < k => h[j] < h[k]
        /\ \A k \in DOMAIN r : h[k] \in I /\ r[k] = s[h[k]]
        /\ \A m \in I : \E k \in DOMAIN r : h[k] = m
  BY <1>6, <1>7
<1> QED BY <1>2, <1>8 DEF r

\* The tasks that clear_tables of T aborts.
Aborted(td, sy, T) ==
  {x[2] : x \in UNION {td[t].spill : t \in DOMAIN td \cap T}}
    \cup UNION {sy[k].remaining : k \in {j \in DOMAIN sy : sy[j].tables \cap T # {}}}

\* They are the tasks of the syncs that touch T and the spill tasks that touch T.
AbortsOf(tk, sp, sy, T, gone) ==
  /\ \A j \in DOMAIN tk, k \in DOMAIN sy :
       tk[j].sync = sy[k].id => (tk[j].id \in gone <=> sy[k].tables \cap T # {})
  /\ \A x : IsSpill(x, tk, sp) => (x.id \in gone <=> x.tables \cap T # {})

\* clear_tables aborts the tasks of the tables and no task of another table.
LEMMA AbortedAre ==
  ASSUME NEW tk, NEW sp, NEW sy, NEW td, NEW ue, UploaderOK(tk, sp, sy, td, ue), NEW T
  PROVE  AbortsOf(tk, sp, sy, T, Aborted(td, sy, T))
<1> USE DEF UploaderOK
<1> DEFINE gone == Aborted(td, sy, T)
<1>0. \A id : id \in gone <=> \/ \E t \in DOMAIN td \cap T : \E y \in td[t].spill : y[2] = id
                              \/ \E k \in DOMAIN sy : sy[k].tables \cap T # {} /\ id \in sy[k].remaining
  BY DEF Aborted
<1> HIDE DEF gone
<1>1. IsSeq(tk) /\ IsSeq(sy) /\ DOMAIN tk = 1..Len(tk) /\ DOMAIN sy = 1..Len(sy)
  BY SeqDomain DEF Shapes
<1>11. \A j, k \in DOMAIN tk : tk[j].id = tk[k].id => j = k
  <2> SUFFICES ASSUME NEW j \in DOMAIN tk, NEW k \in DOMAIN tk, tk[j].id = tk[k].id PROVE j = k
    OBVIOUS
  <2>1. j \in Nat /\ k \in Nat /\ tk[j].id \in Nat
    BY <1>1 DEF Shapes, TaskShape
  <2>2. ~(j < k) /\ ~(k < j)
    BY <2>1 DEF UniqueIds
  <2> QED BY <2>1, <2>2
<1>12. \A j, k \in DOMAIN sy : sy[j].id = sy[k].id => j = k
  <2> SUFFICES ASSUME NEW j \in DOMAIN sy, NEW k \in DOMAIN sy, sy[j].id = sy[k].id PROVE j = k
    OBVIOUS
  <2>1. j \in Nat /\ k \in Nat /\ sy[j].id \in Nat
    BY <1>1 DEF Shapes, SyncShape
  <2>2. ~(j < k) /\ ~(k < j)
    BY <2>1 DEF UniqueIds
  <2> QED BY <2>1, <2>2
\* A task of a sync goes if and only if its sync does.
<1>13. ASSUME NEW j \in DOMAIN tk, NEW k \in DOMAIN sy, tk[j].sync = sy[k].id
       PROVE  tk[j].id \in gone <=> sy[k].tables \cap T # {}
  <2>1. \A m \in DOMAIN sy : tk[j].id \in sy[m].remaining <=> m = k
    <3>1. tk[j].id \in sy[k].remaining
      BY <1>13 DEF SyncsKnown
    <3>2. ASSUME NEW m \in DOMAIN sy, tk[j].id \in sy[m].remaining PROVE m = k
      <4>1. PICK i \in DOMAIN tk : tk[i].sync = sy[m].id /\ tk[i].id = tk[j].id
        BY <3>2 DEF SyncsKnown
      <4> QED BY <4>1, <1>11, <1>12, <1>13
    <3> QED BY <3>1, <3>2
  <2>2. ASSUME NEW t \in DOMAIN td, NEW y \in td[t].spill PROVE y[2] # tk[j].id
    <3>1. PICK x : IsSpill(x, tk, sp) /\ x.id = y[2]
      BY DEF SpillsExist
    <3>2. tk[j].id = x.id => tk[j].sync = 0
      BY <3>1, SpillById
    <3> QED BY <3>1, <3>2, <1>13 DEF Shapes, SyncShape
  <2> QED BY <2>1, <2>2, <1>0
\* A spill task goes if and only if its tables do.
<1>14. ASSUME NEW x, IsSpill(x, tk, sp)
       PROVE  x.id \in gone <=> x.tables \cap T # {}
  <2>1. PICK u \in ue : SpillOf(x, u, td)
    BY <1>14 DEF SpillsKnown
  <2>2. ASSUME NEW m \in DOMAIN sy PROVE x.id \notin sy[m].remaining
    <3> SUFFICES ASSUME x.id \in sy[m].remaining PROVE FALSE
      OBVIOUS
    <3>1. PICK i \in DOMAIN tk : tk[i].sync = sy[m].id /\ tk[i].id = x.id
      BY DEF SyncsKnown
    <3>2. tk[i].sync = 0
      BY <3>1, <1>14, SpillById
    <3> QED BY <3>1, <3>2 DEF Shapes, SyncShape
  <2>3. ASSUME NEW t \in DOMAIN td \cap T, NEW y \in td[t].spill, y[2] = x.id PROVE x.tables \cap T # {}
    <3>1. PICK z : IsSpill(z, tk, sp) /\ z.id = y[2] /\ t \in z.tables
      BY <2>3 DEF SpillsExist
    <3>2. z = x
      BY <2>3, <3>1, <1>14, SpillById
    <3> QED BY <2>3, <3>1, <3>2
  <2>4. ASSUME NEW t \in x.tables \cap T PROVE x.id \in gone
    <3>1. t \in DOMAIN td \cap T /\ <<u.epoch, x.id>> \in td[t].spill /\ <<u.epoch, x.id>>[2] = x.id
      BY <2>1, <2>4 DEF SpillOf, EpochsKnown
    <3> QED BY <3>1, <1>0
  <2> QED BY <2>2, <2>3, <2>4, <1>0
<1> QED BY <1>13, <1>14 DEF AbortsOf, gone

\* What clear_tables of T leaves of each part; f and g are the places that the tasks and the syncs
\* that are left had before.
TasksLeft(tk, tk2, f, gone) ==
  /\ IsSeq(tk2) /\ f \in [DOMAIN tk2 -> DOMAIN tk]
  /\ \A j, k \in DOMAIN tk2 : j < k => f[j] < f[k]
  /\ \A k \in DOMAIN tk2 : tk2[k] = tk[f[k]] /\ tk[f[k]].id \notin gone
  /\ \A m \in DOMAIN tk : tk[m].id \notin gone => \E k \in DOMAIN tk2 : f[k] = m

SyncsOutside(sy, sy2, g, T) ==
  /\ IsSeq(sy2) /\ g \in [DOMAIN sy2 -> DOMAIN sy]
  /\ \A j, k \in DOMAIN sy2 : j < k => g[j] < g[k]
  /\ \A k \in DOMAIN sy2 : sy2[k] = sy[g[k]] /\ sy[g[k]].tables \cap T = {}
  /\ \A m \in DOMAIN sy : sy[m].tables \cap T = {} => \E k \in DOMAIN sy2 : g[k] = m

TablesOutside(td, td2, T) == DOMAIN td2 = DOMAIN td \ T /\ \A t \in DOMAIN td2 : td2[t] = td[t]

EpochsOutside(ue, T) == {u \in ue : u.tables \cap T = {}}

\* Each unsynced epoch lies within T or outside of it.
Separates(ue, T) == \A u \in ue : u.tables \cap T # {} => u.tables \subseteq T

\* What is left is what does not touch T.
ClearedTo(tk, tk2, sp, sp2, sy, sy2, T) ==
  /\ \A x : IsSpill(x, tk2, sp2) => IsSpill(x, tk, sp) /\ x.tables \cap T = {}
  /\ \A x : IsSpill(x, tk, sp) /\ x.tables \cap T = {} => IsSpill(x, tk2, sp2)
  /\ \A k \in DOMAIN sy2 : sy2[k].tables \cap T = {} /\ \E m \in DOMAIN sy : sy2[k] = sy[m]
  /\ \A m \in DOMAIN sy : sy[m].tables \cap T = {} => \E k \in DOMAIN sy2 : sy2[k] = sy[m]
  /\ \E h \in [DOMAIN sy2 -> DOMAIN sy] :
       /\ \A j, k \in DOMAIN sy2 : j < k => h[j] < h[k]
       /\ \A k \in DOMAIN sy2 : sy2[k] = sy[h[k]]
  /\ \A j \in DOMAIN tk2 : \E m \in DOMAIN tk : tk2[j] = tk[m]
  /\ \A j \in DOMAIN tk, k \in DOMAIN sy2 : tk[j].sync = sy2[k].id => \E m \in DOMAIN tk2 : tk2[m] = tk[j]

\* clear_tables of T: what is not aborted is left, and keeps what it knows.
LEMMA TablesCleared ==
  ASSUME NEW tk, NEW tk2, NEW sp, NEW sy, NEW sy2, NEW td, NEW td2, NEW ue,
         UploaderOK(tk, sp, sy, td, ue), NEW T, NEW gone, Separates(ue, T),
         AbortsOf(tk, sp, sy, T, gone), NEW f, NEW g, TasksLeft(tk, tk2, f, gone),
         SyncsOutside(sy, sy2, g, T), TablesOutside(td, td2, T)
  PROVE  /\ UploaderOK(tk2, LeftSpills(sp, gone), sy2, td2, EpochsOutside(ue, T))
         /\ ClearedTo(tk, tk2, sp, LeftSpills(sp, gone), sy, sy2, T)
<1> USE DEF UploaderOK
<1> DEFINE sp2 == {s \in sp : s.id \notin gone}
           ue2 == {u \in ue : u.tables \cap T = {}}
<1>1. sp2 = LeftSpills(sp, gone) /\ ue2 = EpochsOutside(ue, T)
  BY DEF LeftSpills, EpochsOutside
<1> USE DEF TasksLeft, SyncsOutside, TablesOutside, Separates
<1>7. \A k \in DOMAIN tk2 : f[k] \in DOMAIN tk /\ tk2[k] = tk[f[k]] /\ tk2[k].id \notin gone
  OBVIOUS
<1>8. \A k \in DOMAIN sy2 : g[k] \in DOMAIN sy /\ sy2[k] = sy[g[k]] /\ sy2[k].tables \cap T = {}
  OBVIOUS
<1>9. \A k \in DOMAIN tk : tk[k].id \notin gone => \E j \in DOMAIN tk2 : tk2[j] = tk[k]
  OBVIOUS
<1>10. \A k \in DOMAIN sy : sy[k].tables \cap T = {} => \E j \in DOMAIN sy2 : sy2[j] = sy[k]
  OBVIOUS
<1>15. Shapes(tk2, sp2, sy2, td2, ue2)
  <2>1. IsFiniteSet(sp2)
    BY FS_Subset DEF Shapes
  <2> QED BY <2>1, <1>7, <1>8 DEF Shapes
<1>16. UniqueIds(tk2, sp2, sy2)
  <2>1. \A j, k \in DOMAIN tk2 : j < k => tk2[j].id < tk2[k].id
    BY <1>7 DEF UniqueIds
  <2>2. \A j, k \in DOMAIN sy2 : j < k => sy2[j].id < sy2[k].id
    BY <1>8 DEF UniqueIds
  <2>3. \A s \in sp2 : \A k \in DOMAIN tk2 : s.id # tk2[k].id
    BY <1>7 DEF UniqueIds
  <2>4. \A s, x \in sp2 : s.id = x.id => s = x
    BY DEF UniqueIds
  <2> QED BY <2>1, <2>2, <2>3, <2>4 DEF UniqueIds
<1>17. \A x : IsSpill(x, tk2, sp2) => IsSpill(x, tk, sp) /\ x.tables \cap T = {}
  <2> SUFFICES ASSUME NEW x, IsSpill(x, tk2, sp2) PROVE IsSpill(x, tk, sp) /\ x.tables \cap T = {}
    OBVIOUS
  <2>1. IsSpill(x, tk, sp) /\ x.id \notin gone
    BY <1>7 DEF IsSpill
  <2> QED BY <2>1 DEF AbortsOf
<1>18. \A x : IsSpill(x, tk, sp) /\ x.tables \cap T = {} => IsSpill(x, tk2, sp2)
  <2> SUFFICES ASSUME NEW x, IsSpill(x, tk, sp), x.tables \cap T = {} PROVE IsSpill(x, tk2, sp2)
    OBVIOUS
  <2>1. x.id \notin gone
    BY DEF AbortsOf
  <2> QED BY <2>1, <1>9 DEF IsSpill
<1>19. EpochsKnown(td2, ue2)
  <2>1. ASSUME NEW u \in ue2, NEW t \in u.tables
        PROVE  t \in DOMAIN td2 /\ u.epoch \in td2[t].unsync
    BY DEF EpochsKnown
  <2>2. ASSUME NEW t \in DOMAIN td2, NEW e \in td2[t].unsync
        PROVE  \E u \in ue2 : u.epoch = e /\ t \in u.tables
    <3>1. PICK u \in ue : u.epoch = e /\ t \in u.tables
      BY DEF EpochsKnown
    <3>2. u \in ue2
      BY <3>1
    <3> QED BY <3>1, <3>2
  <2> HIDE DEF ue2
  <2> QED BY <2>1, <2>2 DEF EpochsKnown
<1>20. SpillsKnown(tk2, sp2, td2, ue2)
  <2> SUFFICES ASSUME NEW x, IsSpill(x, tk2, sp2) PROVE \E u \in ue2 : SpillOf(x, u, td2)
    BY DEF SpillsKnown
  <2>1. IsSpill(x, tk, sp) /\ x.tables \cap T = {}
    BY <1>17
  <2>2. PICK u \in ue : SpillOf(x, u, td)
    BY <2>1 DEF SpillsKnown
  <2>3. u \in ue2
    BY <2>1, <2>2 DEF SpillOf
  <2>4. \A t \in x.tables : t \in DOMAIN td2
    BY <2>1, <2>2 DEF SpillOf, EpochsKnown
  <2>5. SpillOf(x, u, td2)
    BY <2>2, <2>4 DEF SpillOf
  <2> QED BY <2>3, <2>5
<1>21. SpillsExist(tk2, sp2, td2)
  <2> SUFFICES ASSUME NEW t \in DOMAIN td2, NEW y \in td[t].spill
               PROVE  /\ y[1] \in td[t].unsync
                      /\ \E x : IsSpill(x, tk2, sp2) /\ x.id = y[2] /\ t \in x.tables
                      /\ \A z \in td[t].spill : y[2] = z[2] => y = z
    <3>1. \A t \in DOMAIN td2 : td2[t].spill = td[t].spill /\ td2[t].unsync = td[t].unsync
      OBVIOUS
    <3> HIDE DEF sp2
    <3> QED BY <3>1 DEF SpillsExist
  <2>1. t \in DOMAIN td /\ t \notin T
    OBVIOUS
  <2>2. PICK x : IsSpill(x, tk, sp) /\ x.id = y[2] /\ t \in x.tables
    BY <2>1 DEF SpillsExist
  <2>3. PICK u \in ue : SpillOf(x, u, td)
    BY <2>2 DEF SpillsKnown
  <2>4. x.tables \cap T = {}
    BY <2>1, <2>2, <2>3 DEF SpillOf
  <2>5. IsSpill(x, tk2, sp2)
    BY <2>2, <2>4, <1>18
  <2> QED BY <2>1, <2>2, <2>5 DEF SpillsExist
<1>22. \A j \in DOMAIN tk, k \in DOMAIN sy2 : tk[j].sync = sy2[k].id => \E m \in DOMAIN tk2 : tk2[m] = tk[j]
  BY <1>8, <1>9 DEF AbortsOf
<1>23. SyncsKnown(tk2, sy2)
  <2>1. ASSUME NEW k \in DOMAIN sy2
        PROVE  sy2[k].remaining = {tk2[j].id : j \in {j \in DOMAIN tk2 : tk2[j].sync = sy2[k].id}}
    <3> DEFINE R == {tk2[j].id : j \in {j \in DOMAIN tk2 : tk2[j].sync = sy2[k].id}}
    <3>1. sy2[k].remaining = {tk[j].id : j \in {j \in DOMAIN tk : tk[j].sync = sy2[k].id}}
      BY <1>8 DEF SyncsKnown
    <3>2. ASSUME NEW id \in sy2[k].remaining PROVE id \in R
      <4>1. PICK j \in DOMAIN tk : tk[j].sync = sy2[k].id /\ id = tk[j].id
        BY <3>1
      <4>2. PICK m \in DOMAIN tk2 : tk2[m] = tk[j]
        BY <4>1, <1>22
      <4> QED BY <4>1, <4>2
    <3>3. ASSUME NEW id \in R PROVE id \in sy2[k].remaining
      BY <3>1, <1>7
    <3> QED BY <3>2, <3>3
  <2>2. ASSUME NEW j \in DOMAIN tk2, tk2[j].sync # 0 PROVE \E k \in DOMAIN sy2 : sy2[k].id = tk2[j].sync
    <3>1. f[j] \in DOMAIN tk /\ tk2[j] = tk[f[j]] /\ tk[f[j]].id \notin gone
      BY <1>7
    <3>2. PICK k \in DOMAIN sy : sy[k].id = tk[f[j]].sync
      BY <2>2, <3>1 DEF SyncsKnown
    <3>3. sy[k].tables \cap T = {}
      BY <3>1, <3>2 DEF AbortsOf
    <3> QED BY <3>1, <3>2, <3>3, <1>10
  <2> QED BY <2>1, <2>2 DEF SyncsKnown
<1>24. \E h \in [DOMAIN sy2 -> DOMAIN sy] :
         /\ \A j, k \in DOMAIN sy2 : j < k => h[j] < h[k]
         /\ \A k \in DOMAIN sy2 : sy2[k] = sy[h[k]]
  <2>1. g \in [DOMAIN sy2 -> DOMAIN sy]
    BY <1>8
  <2> QED BY <2>1
<1> HIDE DEF sp2, ue2
<1>25. UploaderOK(tk2, sp2, sy2, td2, ue2)
  BY <1>15, <1>16, <1>19, <1>20, <1>21, <1>23
<1>26. /\ \A k \in DOMAIN sy2 : sy2[k].tables \cap T = {} /\ \E m \in DOMAIN sy : sy2[k] = sy[m]
       /\ \A j \in DOMAIN tk2 : \E m \in DOMAIN tk : tk2[j] = tk[m]
  BY <1>7, <1>8
<1> HIDE DEF UploaderOK
<1>27. ClearedTo(tk, tk2, sp, sp2, sy, sy2, T)
  BY <1>10, <1>17, <1>18, <1>22, <1>24, <1>26 DEF ClearedTo
<1> QED BY <1>1, <1>25, <1>27

-----------------------------------------------------------------------------
\* Where the written imms are.

\* An imm m of instance i, as the write it holds.
Rec(i, m) == [id |-> m.id, table |-> TableOf[i], epoch |-> m.epoch]

InImms(w, i, imms) == \E k \in DOMAIN imms : w = Rec(i, imms[k])

InInst(w, i, d) ==
  InImms(w, i, d.current.imms) \/ \E k \in DOMAIN d.sealed : InImms(w, i, d.sealed[k].imms)

InInput(w, input) == \E i \in DOMAIN input : InImms(w, i, input[i])

InUploaded(w, up) == \E k \in DOMAIN up : InInput(w, up[k])

\* w is not synced: in an instance or in a spill task.
PendingInst(w, ins) == \E i \in DOMAIN ins : InInst(w, i, ins[i])
PendingSpill(w, tk, sp) == \E x : IsSpill(x, tk, sp) /\ InInput(w, x.input)
Pending(w, ins, tk, sp) == PendingInst(w, ins) \/ PendingSpill(w, tk, sp)

\* w is in the sync s: uploaded, or in a task of the sync.
InSync(w, s, tk) ==
  InUploaded(w, s.uploaded) \/ \E j \in DOMAIN tk : tk[j].sync = s.id /\ InInput(w, tk[j].input)

Of(s, g) == s.tables \subseteq TablesOf[g]

\* The checkpoints of g on their way to meta, by their epochs: answers and syncs.
Answered(a, g, e) == a.ok /\ Of(a, g) /\ a.epoch = e

HasStage(g, e, ans, sy) ==
  \/ \E k \in DOMAIN ans : Answered(ans[k], g, e)
  \/ \E k \in DOMAIN sy : Of(sy[k], g) /\ sy[k].epoch = e

InStage(w, g, e, ans, sy, tk) ==
  \/ \E k \in DOMAIN ans : Answered(ans[k], g, e) /\ InUploaded(w, ans[k].uploaded)
  \/ \E k \in DOMAIN sy : Of(sy[k], g) /\ sy[k].epoch = e /\ InSync(w, sy[k], tk)

\* The checkpoints of a database are in order.
Ordered(ans, sy) ==
  \A g \in Group :
    /\ \A j, k \in DOMAIN ans :
         j < k /\ ans[j].ok /\ ans[k].ok /\ Of(ans[j], g) /\ Of(ans[k], g) => ans[j].epoch < ans[k].epoch
    /\ \A j, k \in DOMAIN sy : j < k /\ Of(sy[j], g) /\ Of(sy[k], g) => sy[j].epoch < sy[k].epoch
    /\ \A j \in DOMAIN ans, k \in DOMAIN sy :
         ans[j].ok /\ Of(ans[j], g) /\ Of(sy[k], g) => ans[j].epoch < sy[k].epoch

\* Each of them belongs to a database.
Grouped(ans, sy) ==
  /\ \A k \in DOMAIN ans : /\ ans[k].tables # {} /\ ans[k].ok \in BOOLEAN /\ ans[k].epoch \in Nat
                            /\ \E g \in Group : Of(ans[k], g)
  /\ \A k \in DOMAIN sy : sy[k].tables # {} /\ \E g \in Group : Of(sy[k], g)

AnswersOK(ans, sy) == IsSeq(ans) /\ Ordered(ans, sy) /\ Grouped(ans, sy)

\* Answers that are added to the queue: the syncs of sy at the places of J, in their order.
OkAnswer(s) == [tables |-> s.tables, epoch |-> s.epoch, ok |-> TRUE, uploaded |-> s.uploaded]

\* What may_notify_sync_task does with the syncs sy: done are answered, rest are left.
Notified(sy, ans, done, rest, ans2) ==
  /\ done = Keep(sy, {k \in DOMAIN sy : sy[k] \in Finished(sy)})
  /\ rest = Keep(sy, {k \in DOMAIN sy : sy[k] \notin Finished(sy)})
  /\ ans2 = ans \o [k \in DOMAIN done |-> OkAnswer(done[k])]

\* The finished syncs come before all others.
LEMMA FinishedFirst ==
  ASSUME NEW sy, IsSeq(sy), NEW j \in DOMAIN sy, NEW k \in DOMAIN sy,
         \A l, m \in DOMAIN sy : sy[l] = sy[m] => l = m,
         sy[j] \in Finished(sy), sy[k] \notin Finished(sy)
  PROVE  j < k
<1>1. DOMAIN sy = 1..Len(sy) /\ Len(sy) \in Nat
  BY SeqDomain
<1>2. \A l \in 1..j : sy[l].remaining = {}
  BY DEF Finished
<1>3. ~ \A l \in 1..k : sy[l].remaining = {}
  BY DEF Finished
<1> QED BY <1>1, <1>2, <1>3

\* Answering syncs moves no data: the checkpoints and what they hold stay the same, and in order.
LEMMA NotifiedStages ==
  ASSUME NEW tk, NEW sy, NEW ans, NEW done, NEW rest, NEW ans2, IsSeq(sy), IsSeq(ans), SyncsKnown(tk, sy),
         \A k \in DOMAIN sy : SyncShape(sy[k]),
         \A j, k \in DOMAIN sy : j < k => sy[j].id < sy[k].id,
         Notified(sy, ans, done, rest, ans2)
  PROVE  /\ \A g, e : HasStage(g, e, ans, sy) <=> HasStage(g, e, ans2, rest)
         /\ \A w, g, e : InStage(w, g, e, ans, sy, tk) <=> InStage(w, g, e, ans2, rest, tk)
         /\ AnswersOK(ans, sy) => AnswersOK(ans2, rest)
<1> DEFINE I == {k \in DOMAIN sy : sy[k] \in Finished(sy)}
           J == {k \in DOMAIN sy : sy[k] \notin Finished(sy)}
           n == Len(ans)
<1>1. DOMAIN sy = 1..Len(sy) /\ Len(sy) \in Nat /\ n \in Nat /\ DOMAIN ans = 1..n
  BY SeqDomain
<1>2. \A l, m \in DOMAIN sy : sy[l] = sy[m] => l = m
  <2> SUFFICES ASSUME NEW l \in DOMAIN sy, NEW m \in DOMAIN sy, sy[l] = sy[m] PROVE l = m
    OBVIOUS
  <2>1. sy[l].id \in Nat /\ sy[l].id = sy[m].id
    BY DEF SyncShape
  <2>2. ~(l < m) /\ ~(m < l)
    BY <2>1
  <2> QED BY <2>2, <1>1
<1>3. \A j \in I, k \in J : j < k
  BY <1>2, FinishedFirst
<1>4. PICK f \in [DOMAIN done -> DOMAIN sy] :
         /\ \A j, k \in DOMAIN done : j < k => f[j] < f[k]
         /\ \A k \in DOMAIN done : f[k] \in I /\ done[k] = sy[f[k]]
         /\ \A m \in I : \E k \in DOMAIN done : f[k] = m
  <2>1. done = Keep(sy, I) /\ I \subseteq DOMAIN sy
    BY DEF Notified
  <2> HIDE DEF I, J
  <2> QED BY <2>1, KeepFacts
<1>5. PICK g \in [DOMAIN rest -> DOMAIN sy] :
         /\ \A j, k \in DOMAIN rest : j < k => g[j] < g[k]
         /\ \A k \in DOMAIN rest : g[k] \in J /\ rest[k] = sy[g[k]]
         /\ \A m \in J : \E k \in DOMAIN rest : g[k] = m
  <2>1. rest = Keep(sy, J) /\ J \subseteq DOMAIN sy
    BY DEF Notified
  <2> HIDE DEF I, J
  <2> QED BY <2>1, KeepFacts
<1>6. IsSeq(done) /\ IsSeq(rest)
  <2>1. done = Keep(sy, I) /\ I \subseteq DOMAIN sy /\ rest = Keep(sy, J) /\ J \subseteq DOMAIN sy
    BY DEF Notified
  <2> HIDE DEF I, J
  <2> QED BY <2>1, KeepFacts
<1>7. \A k \in DOMAIN sy : k \in I \/ k \in J
  OBVIOUS
<1>8. \A k \in I : \A j \in DOMAIN tk : tk[j].sync # sy[k].id
  BY FinishedHasNoTask
<1>9. /\ \A k \in DOMAIN done : f[k] \in DOMAIN sy /\ f[k] \in I /\ done[k] = sy[f[k]]
      /\ \A k \in DOMAIN rest : g[k] \in DOMAIN sy /\ g[k] \in J /\ rest[k] = sy[g[k]]
  BY <1>4, <1>5
<1> DEFINE add == [k \in DOMAIN done |-> OkAnswer(done[k])]
           m0 == Len(done)
<1>10. DOMAIN done = 1..m0 /\ m0 \in Nat
  BY <1>6, SeqDomain
<1>11. add = [k \in 1..m0 |-> add[k]] /\ \A k \in DOMAIN done : add[k] = OkAnswer(done[k])
  BY <1>10
<1> HIDE DEF add, m0
<1>12. IsSeq(add) /\ Len(add) = m0 /\ DOMAIN add = 1..m0
  BY <1>10, <1>11, SeqMap
<1>13. ans2 = ans \o add
  BY DEF Notified, add
<1>14. /\ IsSeq(ans2) /\ DOMAIN ans2 = 1..(n + m0)
       /\ \A k \in 1..n : ans2[k] = ans[k] /\ k \in 1..(n + m0)
       /\ \A k \in 1..m0 : ans2[n + k] = add[k] /\ n + k \in 1..(n + m0)
       /\ \A k \in 1..(n + m0) : k \in 1..n \/ (k - n \in 1..m0 /\ k = n + (k - n))
  BY <1>12, <1>13, SeqConcat
<1> HIDE DEF n
<1>15. /\ \A k \in DOMAIN ans : ans2[k] = ans[k] /\ k \in DOMAIN ans2
       /\ \A k \in DOMAIN done : n + k \in DOMAIN ans2 /\ ans2[n + k] = OkAnswer(done[k])
       /\ \A k \in DOMAIN ans2 : k \in DOMAIN ans \/ (k - n \in DOMAIN done /\ ans2[k] = OkAnswer(done[k - n]))
  BY <1>1, <1>10, <1>11, <1>14
<1>16. \A k \in I : \E m \in DOMAIN ans2 : ans2[m] = OkAnswer(sy[k])
  <2> SUFFICES ASSUME NEW k \in I PROVE \E m \in DOMAIN ans2 : ans2[m] = OkAnswer(sy[k])
    OBVIOUS
  <2>1. PICK m \in DOMAIN done : f[m] = k
    BY <1>4
  <2> QED BY <2>1, <1>9, <1>15
<1>17. \A k \in J : \E m \in DOMAIN rest : rest[m] = sy[k]
  BY <1>5
<1> HIDE DEF I, J
<1>18. \A k \in DOMAIN ans2 : k \in DOMAIN ans \/ \E m \in DOMAIN sy : m \in I /\ ans2[k] = OkAnswer(sy[m])
  BY <1>9, <1>15
<1>19. \A s, g1, e : Answered(OkAnswer(s), g1, e) <=> Of(s, g1) /\ s.epoch = e
  BY DEF Answered, OkAnswer, Of
<1>20. \A s : OkAnswer(s).uploaded = s.uploaded /\ OkAnswer(s).epoch = s.epoch /\ OkAnswer(s).tables = s.tables
              /\ OkAnswer(s).ok = TRUE
  BY DEF OkAnswer
<1>21. ASSUME NEW g1, NEW e PROVE HasStage(g1, e, ans, sy) <=> HasStage(g1, e, ans2, rest)
  <2>1. ASSUME HasStage(g1, e, ans, sy) PROVE HasStage(g1, e, ans2, rest)
    <3>1. CASE \E k \in DOMAIN ans : Answered(ans[k], g1, e)
      BY <3>1, <1>15 DEF HasStage
    <3>2. CASE \E k \in DOMAIN sy : Of(sy[k], g1) /\ sy[k].epoch = e
      <4>1. PICK k \in DOMAIN sy : Of(sy[k], g1) /\ sy[k].epoch = e
        BY <3>2
      <4>2. CASE k \in I
        BY <4>1, <4>2, <1>16, <1>19 DEF HasStage
      <4>3. CASE k \in J
        BY <4>1, <4>3, <1>17 DEF HasStage
      <4> QED BY <4>2, <4>3, <1>7
    <3> QED BY <2>1, <3>1, <3>2 DEF HasStage
  <2>2. ASSUME HasStage(g1, e, ans2, rest) PROVE HasStage(g1, e, ans, sy)
    <3>1. CASE \E k \in DOMAIN ans2 : Answered(ans2[k], g1, e)
      BY <3>1, <1>15, <1>18, <1>19 DEF HasStage
    <3>2. CASE \E k \in DOMAIN rest : Of(rest[k], g1) /\ rest[k].epoch = e
      BY <3>2, <1>9 DEF HasStage
    <3> QED BY <2>2, <3>1, <3>2 DEF HasStage
  <2> QED BY <2>1, <2>2
<1>22. ASSUME NEW w, NEW g1, NEW e PROVE InStage(w, g1, e, ans, sy, tk) <=> InStage(w, g1, e, ans2, rest, tk)
  <2>0. \A k \in I : InSync(w, sy[k], tk) <=> InUploaded(w, sy[k].uploaded)
    BY <1>8 DEF InSync
  <2>1. ASSUME InStage(w, g1, e, ans, sy, tk) PROVE InStage(w, g1, e, ans2, rest, tk)
    <3>1. CASE \E k \in DOMAIN ans : Answered(ans[k], g1, e) /\ InUploaded(w, ans[k].uploaded)
      BY <3>1, <1>15 DEF InStage
    <3>2. CASE \E k \in DOMAIN sy : Of(sy[k], g1) /\ sy[k].epoch = e /\ InSync(w, sy[k], tk)
      <4>1. PICK k \in DOMAIN sy : Of(sy[k], g1) /\ sy[k].epoch = e /\ InSync(w, sy[k], tk)
        BY <3>2
      <4>2. CASE k \in I
        <5>1. PICK m \in DOMAIN ans2 : ans2[m] = OkAnswer(sy[k])
          BY <4>2, <1>16
        <5> QED BY <4>1, <4>2, <5>1, <2>0, <1>19, <1>20 DEF InStage
      <4>3. CASE k \in J
        BY <4>1, <4>3, <1>17 DEF InStage
      <4> QED BY <4>2, <4>3, <1>7
    <3> QED BY <2>1, <3>1, <3>2 DEF InStage
  <2>2. ASSUME InStage(w, g1, e, ans2, rest, tk) PROVE InStage(w, g1, e, ans, sy, tk)
    <3>1. CASE \E k \in DOMAIN ans2 : Answered(ans2[k], g1, e) /\ InUploaded(w, ans2[k].uploaded)
      <4>1. PICK k \in DOMAIN ans2 : Answered(ans2[k], g1, e) /\ InUploaded(w, ans2[k].uploaded)
        BY <3>1
      <4>2. CASE k \in DOMAIN ans
        BY <4>1, <4>2, <1>15 DEF InStage
      <4>3. CASE \E m \in DOMAIN sy : m \in I /\ ans2[k] = OkAnswer(sy[m])
        BY <4>1, <4>3, <2>0, <1>19, <1>20 DEF InStage
      <4> QED BY <4>2, <4>3, <1>18
    <3>2. CASE \E k \in DOMAIN rest : Of(rest[k], g1) /\ rest[k].epoch = e /\ InSync(w, rest[k], tk)
      BY <3>2, <1>9 DEF InStage
    <3> QED BY <2>2, <3>1, <3>2 DEF InStage
  <2> QED BY <2>1, <2>2
<1>23. ASSUME AnswersOK(ans, sy) PROVE AnswersOK(ans2, rest)
  <2>1. Grouped(ans2, rest)
    <3>1. ASSUME NEW k \in DOMAIN ans2
          PROVE  /\ ans2[k].tables # {} /\ ans2[k].ok \in BOOLEAN /\ ans2[k].epoch \in Nat
                 /\ \E h \in Group : Of(ans2[k], h)
      <4>1. CASE k \in DOMAIN ans
        BY <4>1, <1>15, <1>23 DEF AnswersOK, Grouped
      <4>2. CASE \E m \in DOMAIN sy : m \in I /\ ans2[k] = OkAnswer(sy[m])
        <5>1. PICK m \in DOMAIN sy : ans2[k] = OkAnswer(sy[m])
          BY <4>2
        <5>2. /\ ans2[k].tables = sy[m].tables /\ ans2[k].ok = TRUE /\ ans2[k].epoch = sy[m].epoch
              /\ sy[m].epoch \in Nat
          BY <5>1, <1>20 DEF SyncShape
        <5>3. PICK h \in Group : Of(sy[m], h)
          BY <1>23 DEF AnswersOK, Grouped
        <5>4. sy[m].tables # {}
          BY <1>23 DEF AnswersOK, Grouped
        <5>5. Of(ans2[k], h)
          BY <5>2, <5>3 DEF Of
        <5> QED BY <5>2, <5>4, <5>5
      <4> QED BY <4>1, <4>2, <1>18
    <3>2. \A k \in DOMAIN rest : rest[k].tables # {} /\ \E h \in Group : Of(rest[k], h)
      BY <1>9, <1>23 DEF AnswersOK, Grouped
    <3> QED BY <3>1, <3>2 DEF Grouped
  <2> SUFFICES ASSUME NEW h \in Group
               PROVE  /\ \A j, k \in DOMAIN ans2 :
                           j < k /\ ans2[j].ok /\ ans2[k].ok /\ Of(ans2[j], h) /\ Of(ans2[k], h)
                           => ans2[j].epoch < ans2[k].epoch
                      /\ \A j, k \in DOMAIN rest :
                           j < k /\ Of(rest[j], h) /\ Of(rest[k], h) => rest[j].epoch < rest[k].epoch
                      /\ \A j \in DOMAIN ans2, k \in DOMAIN rest :
                           ans2[j].ok /\ Of(ans2[j], h) /\ Of(rest[k], h) => ans2[j].epoch < rest[k].epoch
    BY <2>1, <1>14 DEF AnswersOK, Ordered
  <2>2. /\ \A j, k \in DOMAIN ans :
             j < k /\ ans[j].ok /\ ans[k].ok /\ Of(ans[j], h) /\ Of(ans[k], h) => ans[j].epoch < ans[k].epoch
        /\ \A j, k \in DOMAIN sy : j < k /\ Of(sy[j], h) /\ Of(sy[k], h) => sy[j].epoch < sy[k].epoch
        /\ \A j \in DOMAIN ans, k \in DOMAIN sy :
             ans[j].ok /\ Of(ans[j], h) /\ Of(sy[k], h) => ans[j].epoch < sy[k].epoch
    BY <1>23 DEF AnswersOK, Ordered
  <2>3. ASSUME NEW j \in DOMAIN ans2, NEW k \in DOMAIN ans2,
               j < k, ans2[j].ok, ans2[k].ok, Of(ans2[j], h), Of(ans2[k], h)
        PROVE  ans2[j].epoch < ans2[k].epoch
    <3>1. CASE k \in DOMAIN ans
      <4>1. j \in DOMAIN ans
        BY <2>3, <3>1, <1>1, <1>14
      <4> QED BY <2>2, <2>3, <3>1, <4>1, <1>15
    <3>2. CASE k \notin DOMAIN ans
      <4>1. k - n \in DOMAIN done /\ ans2[k] = OkAnswer(done[k - n])
        BY <3>2, <1>15
      <4>2. done[k - n] = sy[f[k - n]] /\ f[k - n] \in DOMAIN sy /\ Of(sy[f[k - n]], h)
            /\ ans2[k].epoch = sy[f[k - n]].epoch
        BY <4>1, <2>3, <1>9, <1>20 DEF Of
      <4>3. CASE j \in DOMAIN ans
        BY <2>2, <2>3, <4>2, <4>3, <1>15
      <4>4. CASE j \notin DOMAIN ans
        <5>1. j - n \in DOMAIN done /\ ans2[j] = OkAnswer(done[j - n])
          BY <4>4, <1>15
        <5>2. done[j - n] = sy[f[j - n]] /\ f[j - n] \in DOMAIN sy /\ Of(sy[f[j - n]], h)
              /\ ans2[j].epoch = sy[f[j - n]].epoch
          BY <5>1, <2>3, <1>9, <1>20 DEF Of
        <5>3. j - n < k - n
          BY <2>3, <1>1, <1>10, <1>14
        <5>4. f[j - n] < f[k - n]
          BY <4>1, <5>1, <5>3, <1>4
        <5> QED BY <2>2, <4>2, <5>2, <5>4
      <4> QED BY <4>3, <4>4
    <3> QED BY <3>1, <3>2
  <2>4. \A j, k \in DOMAIN rest : j < k /\ Of(rest[j], h) /\ Of(rest[k], h) => rest[j].epoch < rest[k].epoch
    BY <2>2, <1>5, <1>9
  <2>5. ASSUME NEW j \in DOMAIN ans2, NEW k \in DOMAIN rest, ans2[j].ok, Of(ans2[j], h), Of(rest[k], h)
        PROVE  ans2[j].epoch < rest[k].epoch
    <3>1. CASE j \in DOMAIN ans
      BY <2>2, <2>5, <3>1, <1>9, <1>15
    <3>2. CASE \E m \in DOMAIN sy : m \in I /\ ans2[j] = OkAnswer(sy[m])
      <4>1. PICK m \in DOMAIN sy : m \in I /\ ans2[j] = OkAnswer(sy[m])
        BY <3>2
      <4>2. Of(sy[m], h) /\ ans2[j].epoch = sy[m].epoch
        BY <4>1, <2>5, <1>20 DEF Of
      <4>3. m < g[k]
        BY <4>1, <1>3, <1>9
      <4> QED BY <2>2, <2>5, <4>2, <4>3, <1>9
    <3> QED BY <3>1, <3>2, <1>18
  <2> QED BY <2>3, <2>4, <2>5
<1> QED BY <1>21, <1>22, <1>23

-----------------------------------------------------------------------------
\* The node: which databases run, their barriers and their epochs.  The variables are parameters
\* here too: an action that leaves them alone keeps the predicate.

Types(wk, md, tb, le) ==
  /\ wk \in BOOLEAN
  /\ md \in [Group -> {"running", "suspended", "cleared"}]
  /\ le \in [Group -> Nat]
  /\ tb \in [Group -> SUBSET Table]
  /\ \A g \in Group : tb[g] \subseteq TablesOf[g] /\ ~(tb[g] \subseteq Droppable)

\* An uploader that has stopped holds nothing.
Idle(wk, tk, sp, sy, td, ue, ins) ==
  ~wk => tk = <<>> /\ sy = <<>> /\ sp = {} /\ td = Empty /\ ue = {} /\ ins = Empty

BarrierShape(b) ==
  /\ b = [prev |-> b.prev, curr |-> b.curr, kind |-> b.kind, cmd |-> b.cmd, stop |-> b.stop,
          sync |-> b.sync, remaining |-> b.remaining]
  /\ b.curr \in Nat /\ b.kind \in {"initial", "barrier", "checkpoint"}
  /\ b.kind # "initial" => b.prev \in Nat /\ b.prev < b.curr

\* The barriers q of database g in flight: one after the other up to the newest epoch last, and
\* only while it is running.
ChainOf(g, q, last, md) ==
  /\ IsSeq(q)
  /\ \A k \in DOMAIN q :
       /\ BarrierShape(q[k]) /\ q[k].curr <= last
       /\ q[k].kind = "checkpoint" => q[k].sync # {} /\ q[k].sync \subseteq TablesOf[g]
  /\ \A j, k \in DOMAIN q : j < k => q[k].kind # "initial" /\ q[j].curr <= q[k].prev
  /\ md # "running" => q = <<>>

Chain(br, le, md) == DOMAIN br = Group /\ \A g \in Group : ChainOf(g, br[g], le[g], md[g])

\* No checkpoint of q is of epoch e or later.
NoneSince(q, e) == \A k \in DOMAIN q : q[k].kind = "checkpoint" => q[k].prev < e

\* The unsynced epoch u belongs to g.  Its tables are those that the first checkpoint after it
\* syncs, or those the database has now if there is none.
EpochOf(u, g, q, tb, last, md) ==
  /\ u.tables # {} /\ u.tables \subseteq TablesOf[g] /\ md # "cleared" /\ u.epoch <= last
  /\ \A k \in DOMAIN q :
       /\ q[k].kind = "checkpoint" /\ u.epoch <= q[k].prev
       /\ \A j \in DOMAIN q : j < k /\ q[j].kind = "checkpoint" => q[j].prev < u.epoch
       => q[k].sync = u.tables
  /\ md = "running" /\ NoneSince(q, u.epoch) => tb = u.tables

Epochs(ue, br, tb, le, md) ==
  \A u \in ue : \E g \in Group : EpochOf(u, g, br[g], tb[g], le[g], md[g])

\* The newest epoch and those that a checkpoint will sync are unsynced.
Awaiting(ue, g, q, tb, last) ==
  /\ [epoch |-> last, tables |-> tb] \in ue
  /\ \A k \in DOMAIN q : q[k].kind = "checkpoint" => [epoch |-> q[k].prev, tables |-> q[k].sync] \in ue

Queue(wk, ue, br, tb, le, md) ==
  \A g \in Group : wk /\ md[g] = "running" => Awaiting(ue, g, br[g], tb[g], le[g])

NodeOK ==
  /\ Types(working, mode, tables, lastEpoch)
  /\ Idle(working, tasks, spilledData, syncing, tableData, unsyncEpochs, instData)
  /\ UploaderOK(tasks, spilledData, syncing, tableData, unsyncEpochs)
  /\ Chain(barriers, lastEpoch, mode)
  /\ Epochs(unsyncEpochs, barriers, tables, lastEpoch, mode)
  /\ Queue(working, unsyncEpochs, barriers, tables, lastEpoch, mode)

\* A sequence without positions is the empty one.
LEMMA NoPositions ==
  ASSUME NEW s, IsSeq(s), DOMAIN s = {}
  PROVE  s = <<>>
<1>1. Len(s) \in Nat /\ DOMAIN s = 1..Len(s)
  BY SeqDomain
<1>2. \E S : s \in Seq(S)
  BY DEF IsSeq
<1>3. Len(s) = 0
  BY <1>1
<1> QED BY <1>2, <1>3

\* The empty sequence has no places.
LEMMA EmptySeq ==
  ASSUME NEW s, s = <<>>
  PROVE  DOMAIN s = {} /\ Len(s) = 0
OBVIOUS

\* A sequence that is not empty has a first element.
LEMMA NonEmptySeq ==
  ASSUME NEW s, IsSeq(s), s # <<>>
  PROVE  1 \in DOMAIN s
<1>1. Len(s) \in Nat /\ DOMAIN s = 1..Len(s)
  BY SeqDomain
<1>2. DOMAIN s # {}
  BY NoPositions
<1> QED BY <1>1, <1>2

\* Collecting a barrier changes only the actors it waits for.
SameBarriers(q, q2) ==
  /\ IsSeq(q2) /\ DOMAIN q2 = DOMAIN q
  /\ \A k \in DOMAIN q :
       /\ q2[k] = [q[k] EXCEPT !.remaining = q2[k].remaining]
       /\ q2[k].remaining \subseteq q[k].remaining

\* The fields of such a barrier.
LEMMA SameFields ==
  ASSUME NEW q, NEW q2, SameBarriers(q, q2), NEW k \in DOMAIN q, BarrierShape(q[k])
  PROVE  /\ BarrierShape(q2[k]) /\ q2[k].prev = q[k].prev /\ q2[k].curr = q[k].curr
         /\ q2[k].kind = q[k].kind /\ q2[k].cmd = q[k].cmd /\ q2[k].stop = q[k].stop
         /\ q2[k].sync = q[k].sync /\ q2[k].remaining \subseteq q[k].remaining
<1> DEFINE b == q[k]
           r == q2[k].remaining
<1>1. q2[k] = [prev |-> b.prev, curr |-> b.curr, kind |-> b.kind, cmd |-> b.cmd, stop |-> b.stop,
               sync |-> b.sync, remaining |-> r]
  <2>1. b = [prev |-> b.prev, curr |-> b.curr, kind |-> b.kind, cmd |-> b.cmd, stop |-> b.stop,
             sync |-> b.sync, remaining |-> b.remaining]
    BY DEF BarrierShape
  <2>2. q2[k] = [b EXCEPT !.remaining = r]
    BY DEF SameBarriers
  <2> HIDE DEF b, r
  <2> QED BY <2>1, <2>2
<1>2. r \subseteq b.remaining
  BY DEF SameBarriers
<1> QED BY <1>1, <1>2 DEF BarrierShape

\* The predicates of the barriers do not look at the actors they wait for.
LEMMA BarriersCollected ==
  ASSUME NEW wk, NEW md, NEW tb, NEW le, NEW ue, NEW br, NEW br2, Chain(br, le, md),
         Epochs(ue, br, tb, le, md), Queue(wk, ue, br, tb, le, md),
         DOMAIN br2 = Group, \A g \in Group : SameBarriers(br[g], br2[g])
  PROVE  /\ Chain(br2, le, md) /\ Epochs(ue, br2, tb, le, md) /\ Queue(wk, ue, br2, tb, le, md)
<1>1. ASSUME NEW g \in Group
      PROVE  /\ DOMAIN br2[g] = DOMAIN br[g] /\ IsSeq(br2[g])
             /\ \A k \in DOMAIN br[g] :
                  /\ BarrierShape(br2[g][k]) /\ br2[g][k].prev = br[g][k].prev
                  /\ br2[g][k].curr = br[g][k].curr /\ br2[g][k].kind = br[g][k].kind
                  /\ br2[g][k].sync = br[g][k].sync
  <2>1. \A k \in DOMAIN br[g] : BarrierShape(br[g][k])
    BY DEF Chain, ChainOf
  <2>2. DOMAIN br2[g] = DOMAIN br[g] /\ IsSeq(br2[g])
    BY DEF SameBarriers
  <2> QED BY <2>1, <2>2, SameFields
<1>2. ASSUME NEW g \in Group PROVE ChainOf(g, br2[g], le[g], md[g])
  <2>1. ChainOf(g, br[g], le[g], md[g])
    BY DEF Chain
  <2>2. md[g] # "running" => br2[g] = <<>>
    <3>1. md[g] # "running" => DOMAIN br[g] = {}
      BY <2>1, EmptySeq DEF ChainOf
    <3>2. IsSeq(br2[g]) /\ DOMAIN br2[g] = DOMAIN br[g]
      BY <1>1
    <3>3. DOMAIN br2[g] = {} => br2[g] = <<>>
      BY <3>2, NoPositions
    <3> QED BY <3>1, <3>2, <3>3
  <2> QED BY <1>1, <2>1, <2>2 DEF ChainOf
<1>3. ASSUME NEW u, NEW g \in Group, EpochOf(u, g, br[g], tb[g], le[g], md[g])
      PROVE  EpochOf(u, g, br2[g], tb[g], le[g], md[g])
  <2>1. NoneSince(br2[g], u.epoch) => NoneSince(br[g], u.epoch)
    BY <1>1 DEF NoneSince
  <2> QED BY <1>1, <1>3, <2>1 DEF EpochOf
<1>4. Epochs(ue, br2, tb, le, md)
  BY <1>3 DEF Epochs
<1>5. Queue(wk, ue, br2, tb, le, md)
  <2> SUFFICES ASSUME NEW g \in Group, wk, md[g] = "running"
               PROVE  Awaiting(ue, g, br2[g], tb[g], le[g])
    BY DEF Queue
  <2>1. Awaiting(ue, g, br[g], tb[g], le[g])
    BY DEF Queue
  <2> QED BY <1>1, <2>1 DEF Awaiting
<1> QED BY <1>2, <1>4, <1>5 DEF Chain

\* A barrier b of database g is issued, and its tables T start the epoch b.curr.  A checkpoint
\* syncs the tables of the barrier before it; only a checkpoint changes the tables.
IssuedOf(b, g, T, tb, last, md) ==
  /\ BarrierShape(b) /\ b.curr = last + 1
  /\ T \subseteq TablesOf[g] /\ ~(T \subseteq Droppable)
  /\ \/ md = "running" /\ b.kind # "initial" /\ b.prev = last
     \/ md = "cleared" /\ b.kind = "initial"
  /\ b.kind = "checkpoint" => b.sync = tb
  /\ b.kind # "checkpoint" => T = tb

\* The unsynced epochs after it.
Started(wk, ue, e, T) == IF wk THEN ue \cup {[epoch |-> e, tables |-> T]} ELSE ue

Put(f, g, x) == [f EXCEPT ![g] = x]

NoneIfIdle(wk, ue) == ~wk => ue = {}

Numbered(ue) == \A u \in ue : u.epoch \in Nat

\* The queue with one more barrier in group g.
Queued(br, g, b) == [br EXCEPT ![g] = Append(@, b)]


\* The node before and after barrier b of database g is issued.
IssueStep(g, b, T, wk, md, md2, tb, tb2, le, le2, ue, ue2, br, br2) ==
  /\ g \in Group /\ IssuedOf(b, g, T, tb[g], le[g], md[g])
  /\ Types(wk, md, tb, le) /\ Chain(br, le, md) /\ Epochs(ue, br, tb, le, md)
  /\ Queue(wk, ue, br, tb, le, md) /\ NoneIfIdle(wk, ue) /\ Numbered(ue)
  /\ md2 = Put(md, g, "running") /\ tb2 = Put(tb, g, T) /\ le2 = Put(le, g, b.curr)
  /\ br2 = Queued(br, g, b) /\ ue2 = Started(wk, ue, b.curr, T)

\* The predicates of the barriers hold after a barrier is issued.
LEMMA BarrierIssued ==
  ASSUME NEW g, NEW b, NEW T, NEW wk, NEW md, NEW md2, NEW tb, NEW tb2, NEW le, NEW le2,
         NEW ue, NEW ue2, NEW br, NEW br2,
         IssueStep(g, b, T, wk, md, md2, tb, tb2, le, le2, ue, ue2, br, br2)
  PROVE  /\ Types(wk, md2, tb2, le2) /\ Chain(br2, le2, md2) /\ Epochs(ue2, br2, tb2, le2, md2)
         /\ Queue(wk, ue2, br2, tb2, le2, md2)
<1>0. /\ g \in Group /\ IssuedOf(b, g, T, tb[g], le[g], md[g])
      /\ Types(wk, md, tb, le) /\ Chain(br, le, md) /\ Epochs(ue, br, tb, le, md)
      /\ Queue(wk, ue, br, tb, le, md) /\ NoneIfIdle(wk, ue) /\ Numbered(ue)
      /\ md2 = Put(md, g, "running") /\ tb2 = Put(tb, g, T) /\ le2 = Put(le, g, b.curr)
      /\ br2 = Queued(br, g, b) /\ ue2 = Started(wk, ue, b.curr, T)
  BY DEF IssueStep
<1> USE <1>0
<1> USE DEF Started, Numbered, Queued, Put, NoneIfIdle
<1> DEFINE q == br[g]
           q2 == br2[g]
           n == Len(q)
<1>1. Types(wk, md2, tb2, le2)
  <2>1. T \subseteq Table /\ b.curr \in Nat
    BY GroupAssumption DEF IssuedOf, BarrierShape
  <2> QED BY <2>1 DEF Types, IssuedOf
<1>2. /\ md2[g] = "running" /\ tb2[g] = T /\ le2[g] = b.curr /\ b.curr = le[g] + 1 /\ le[g] \in Nat
      /\ q2 = Append(q, b)
      /\ \A h \in Group \ {g} : md2[h] = md[h] /\ tb2[h] = tb[h] /\ le2[h] = le[h] /\ br2[h] = br[h]
      /\ DOMAIN br2 = Group
  BY DEF Types, Chain, IssuedOf
<1>3. ChainOf(g, q, le[g], md[g])
  BY DEF Chain
<1>4. /\ n \in Nat /\ DOMAIN q = 1..n /\ IsSeq(q2) /\ DOMAIN q2 = 1..(n + 1) /\ q2[n + 1] = b
      /\ \A k \in DOMAIN q : q2[k] = q[k] /\ k \in DOMAIN q2 /\ k < n + 1
      /\ \A k \in DOMAIN q2 : k \in DOMAIN q \/ (k = n + 1 /\ q2[k] = b)
  <2>1. IsSeq(q)
    BY <1>3 DEF ChainOf
  <2>2. n \in Nat /\ DOMAIN q = 1..n
    BY <2>1, SeqDomain
  <2>3. IsSeq(q2) /\ Len(q2) = n + 1 /\ q2[n + 1] = b /\ \A k \in 1..n : q2[k] = q[k]
    BY <2>1, <1>2, SeqAppend
  <2>4. DOMAIN q2 = 1..(n + 1)
    BY <2>3, SeqDomain
  <2> QED BY <2>2, <2>3, <2>4
<1>5. md[g] = "cleared" => DOMAIN q = {}
  BY <1>3, EmptySeq DEF ChainOf
<1> HIDE DEF q, q2, n
<1>6. tb[g] # {} /\ T # {} /\ tb[g] \subseteq TablesOf[g]
  BY DEF Types, IssuedOf
<1>7. ChainOf(g, q2, le2[g], md2[g])
  <2>1. ASSUME NEW k \in DOMAIN q2
        PROVE  /\ BarrierShape(q2[k]) /\ q2[k].curr <= le2[g]
               /\ q2[k].kind = "checkpoint" => q2[k].sync # {} /\ q2[k].sync \subseteq TablesOf[g]
    <3>1. CASE k \in DOMAIN q
      <4>1. BarrierShape(q[k]) /\ q[k].curr <= le[g] /\ q[k].curr \in Nat
        BY <3>1, <1>3 DEF ChainOf, BarrierShape
      <4>2. q[k].kind = "checkpoint" => q[k].sync # {} /\ q[k].sync \subseteq TablesOf[g]
        BY <3>1, <1>3 DEF ChainOf
      <4> QED BY <3>1, <4>1, <4>2, <1>2, <1>4
    <3>2. CASE q2[k] = b
      BY <3>2, <1>2, <1>6 DEF IssuedOf
    <3> QED BY <3>1, <3>2, <1>4
  <2>2. ASSUME NEW j \in DOMAIN q2, NEW k \in DOMAIN q2, j < k
        PROVE  q2[k].kind # "initial" /\ q2[j].curr <= q2[k].prev
    <3>1. j \in DOMAIN q
      BY <2>2, <1>4
    <3>2. CASE k \in DOMAIN q
      BY <2>2, <3>1, <3>2, <1>3, <1>4 DEF ChainOf
    <3>3. CASE k = n + 1 /\ q2[k] = b
      BY <3>1, <3>3, <1>3, <1>4, <1>5 DEF ChainOf, IssuedOf
    <3> QED BY <3>2, <3>3, <1>4
  <2> QED BY <2>1, <2>2, <1>2, <1>4 DEF ChainOf
<1>8. Chain(br2, le2, md2)
  BY <1>2, <1>7 DEF Chain, q2
<1>9. \A k \in DOMAIN q : q[k].kind = "checkpoint" => q[k].prev \in Nat /\ q[k].prev < le[g]
  BY <1>2, <1>3 DEF ChainOf, BarrierShape
<1>10. ASSUME NEW u, u.epoch \in Nat, EpochOf(u, g, q, tb[g], le[g], md[g])
       PROVE  EpochOf(u, g, q2, tb2[g], le2[g], md2[g])
  <2>0. md[g] = "running" /\ b.prev = le[g]
    BY <1>10 DEF EpochOf, IssuedOf
  <2>1. u.tables # {} /\ u.tables \subseteq TablesOf[g] /\ u.epoch <= le2[g] /\ u.epoch <= le[g]
    BY <1>2, <1>10 DEF EpochOf
  <2>2. ASSUME NEW k \in DOMAIN q2, q2[k].kind = "checkpoint", u.epoch <= q2[k].prev,
               \A j \in DOMAIN q2 : j < k /\ q2[j].kind = "checkpoint" => q2[j].prev < u.epoch
        PROVE  q2[k].sync = u.tables
    <3>1. CASE k \in DOMAIN q
      BY <2>2, <3>1, <1>4, <1>10 DEF EpochOf
    <3>2. CASE k = n + 1 /\ q2[k] = b
      <4>1. NoneSince(q, u.epoch)
        BY <2>2, <3>2, <1>4 DEF NoneSince
      <4>2. tb[g] = u.tables
        BY <4>1, <2>0, <1>10 DEF EpochOf
      <4> QED BY <4>2, <2>2, <3>2 DEF IssuedOf
    <3> QED BY <3>1, <3>2, <1>4
  <2>3. ASSUME NoneSince(q2, u.epoch) PROVE T = u.tables
    <3>1. b.kind # "checkpoint"
      <4>1. n + 1 \in DOMAIN q2
        BY <1>4
      <4> QED BY <4>1, <2>0, <2>1, <2>3, <1>2, <1>4, <1>10 DEF NoneSince
    <3>2. NoneSince(q, u.epoch)
      BY <2>3, <1>4 DEF NoneSince
    <3> QED BY <3>1, <3>2, <2>0, <1>10 DEF EpochOf, IssuedOf
  <2> QED BY <2>1, <2>2, <2>3, <1>2 DEF EpochOf
<1>11. ASSUME wk PROVE EpochOf([epoch |-> b.curr, tables |-> T], g, q2, tb2[g], le2[g], md2[g])
  <2>1. \A k \in DOMAIN q2 : q2[k].kind = "checkpoint" => q2[k].prev \in Nat /\ q2[k].prev < b.curr
    <3> SUFFICES ASSUME NEW k \in DOMAIN q2, q2[k].kind = "checkpoint"
                 PROVE  q2[k].prev \in Nat /\ q2[k].prev < b.curr
      OBVIOUS
    <3>1. CASE k \in DOMAIN q
      BY <3>1, <1>2, <1>4, <1>9
    <3>2. CASE q2[k] = b
      BY <3>2, <1>2 DEF IssuedOf
    <3> QED BY <3>1, <3>2, <1>4
  <2>2. b.curr \in Nat /\ b.curr <= le2[g] /\ T \subseteq TablesOf[g]
    BY <1>2 DEF IssuedOf
  <2> QED BY <2>1, <2>2, <1>2, <1>6 DEF EpochOf
<1>12. Epochs(ue2, br2, tb2, le2, md2)
  <2> SUFFICES ASSUME NEW u \in ue2
               PROVE  \E h \in Group : EpochOf(u, h, br2[h], tb2[h], le2[h], md2[h])
    BY DEF Epochs
  <2>1. CASE u \in ue
    <3>1. PICK h \in Group : EpochOf(u, h, br[h], tb[h], le[h], md[h])
      BY <2>1 DEF Epochs
    <3>2. CASE h = g
      <4>1. u.epoch \in Nat
        BY <2>1
      <4> QED BY <3>1, <3>2, <4>1, <1>10 DEF q, q2
    <3>3. CASE h # g
      BY <3>1, <3>3, <1>2
    <3> QED BY <3>2, <3>3
  <2>2. CASE wk /\ u = [epoch |-> b.curr, tables |-> T]
    BY <2>2, <1>11 DEF q2
  <2> QED BY <2>1, <2>2
<1>13. Queue(wk, ue2, br2, tb2, le2, md2)
  <2> SUFFICES ASSUME NEW h \in Group, wk, md2[h] = "running"
               PROVE  Awaiting(ue2, h, br2[h], tb2[h], le2[h])
    BY DEF Queue
  <2>1. CASE h # g
    <3>1. Awaiting(ue, h, br2[h], tb2[h], le2[h])
      BY <2>1, <1>2 DEF Queue
    <3>2. \A u \in ue : u \in ue2
      BY DEF Started
    <3> HIDE DEF Started
    <3> QED BY <3>1, <3>2 DEF Awaiting
  <2>2. CASE h = g
    <3>1. [epoch |-> b.curr, tables |-> T] \in ue2
      OBVIOUS
    <3>2. ASSUME NEW k \in DOMAIN q2, q2[k].kind = "checkpoint"
          PROVE  [epoch |-> q2[k].prev, tables |-> q2[k].sync] \in ue2
      <4>1. md[g] = "running"
        BY <3>2, <1>4, <1>5 DEF IssuedOf
      <4>2. Awaiting(ue, g, q, tb[g], le[g])
        BY <4>1 DEF Queue, q
      <4>3. CASE k \in DOMAIN q
        BY <4>2, <4>3, <3>2, <1>4 DEF Awaiting
      <4>4. CASE q2[k] = b
        BY <4>1, <4>2, <4>4, <3>2 DEF Awaiting, IssuedOf
      <4> QED BY <4>3, <4>4, <1>4
    <3> QED BY <3>1, <3>2, <2>2, <1>2 DEF Awaiting, q2
  <2> QED BY <2>1, <2>2
<1> QED BY <1>1, <1>8, <1>12, <1>13

\* The tables that the first checkpoint of a running database syncs, up to its prev epoch, are the
\* tables of every unsynced epoch that it reaches.
LEMMA CheckpointTables ==
  ASSUME NEW md, NEW tb, NEW le, NEW ue, NEW br, NEW td, NEW g \in Group,
         Chain(br, le, md), Epochs(ue, br, tb, le, md), Awaiting(ue, g, br[g], tb[g], le[g]),
         EpochsKnown(td, ue), br[g] # <<>>, br[g][1].kind = "checkpoint"
  PROVE  /\ br[g][1].prev \in Nat /\ br[g][1].sync \subseteq DOMAIN td
         /\ br[g][1].sync # {} /\ br[g][1].sync \subseteq TablesOf[g]
         /\ ReachesOnly(ue, br[g][1].prev, br[g][1].sync)
<1> DEFINE b == br[g][1]
<1>1. IsSeq(br[g]) /\ 1 \in DOMAIN br[g] /\ DOMAIN br[g] = 1..Len(br[g])
  BY SeqDomain, NonEmptySeq DEF Chain, ChainOf
<1>2. b.prev \in Nat /\ b.sync # {} /\ b.sync \subseteq TablesOf[g]
  BY <1>1 DEF Chain, ChainOf, BarrierShape
<1>3. b.sync \subseteq DOMAIN td
  <2>1. [epoch |-> b.prev, tables |-> b.sync] \in ue
    BY <1>1 DEF Awaiting
  <2> QED BY <2>1 DEF EpochsKnown
<1>4. ASSUME NEW u \in ue, u.epoch <= b.prev, u.tables \cap b.sync # {}
      PROVE  u.tables = b.sync
  <2>1. PICK h \in Group : EpochOf(u, h, br[h], tb[h], le[h], md[h])
    BY DEF Epochs
  <2>2. h = g
    <3>1. u.tables \subseteq TablesOf[h]
      BY <2>1 DEF EpochOf
    <3>2. TablesOf[h] \cap TablesOf[g] # {}
      BY <3>1, <1>2, <1>4
    <3> QED BY <3>2, GroupAssumption
  <2>3. \A j \in DOMAIN br[g] : ~(j < 1)
    BY <1>1
  <2> QED BY <2>1, <2>2, <2>3, <1>1, <1>4 DEF EpochOf
<1> QED BY <1>2, <1>3, <1>4 DEF ReachesOnly

\* The queue without the first barrier of g.
Popped(br, g) == [br EXCEPT ![g] = Tail(@)]

\* The node before and after the first barrier of g completes.
CompleteStep(g, wk, md, tb, le, ue, ue2, br, br2) ==
  /\ g \in Group /\ md[g] = "running" /\ br[g] # <<>> /\ br2 = Popped(br, g)
  /\ Types(wk, md, tb, le) /\ Chain(br, le, md) /\ Epochs(ue, br, tb, le, md)
  /\ Queue(wk, ue, br, tb, le, md) /\ NoneIfIdle(wk, ue) /\ Numbered(ue)
  /\ ue2 = IF wk /\ br[g][1].kind = "checkpoint" THEN LeftEpochs(ue, br[g][1].prev, br[g][1].sync) ELSE ue

\* The first barrier of g completes; a checkpoint takes the unsynced epochs it syncs away.
LEMMA BarrierCompleted ==
  ASSUME NEW g, NEW wk, NEW md, NEW tb, NEW le, NEW ue, NEW ue2, NEW br, NEW br2,
         CompleteStep(g, wk, md, tb, le, ue, ue2, br, br2)
  PROVE  Chain(br2, le, md) /\ Epochs(ue2, br2, tb, le, md) /\ Queue(wk, ue2, br2, tb, le, md)
<1>0.  /\ g \in Group /\ md[g] = "running" /\ br[g] # <<>> /\ br2 = Popped(br, g)
      /\ Types(wk, md, tb, le) /\ Chain(br, le, md) /\ Epochs(ue, br, tb, le, md)
      /\ Queue(wk, ue, br, tb, le, md) /\ NoneIfIdle(wk, ue) /\ Numbered(ue)
      /\ ue2 = IF wk /\ br[g][1].kind = "checkpoint" THEN LeftEpochs(ue, br[g][1].prev, br[g][1].sync) ELSE ue
  BY DEF CompleteStep
<1> USE <1>0
<1> USE DEF Popped, NoneIfIdle, Numbered, LeftEpochs
<1> DEFINE q == br[g]
           q2 == br2[g]
           n == Len(q)
           b == q[1]
<1>1. ChainOf(g, q, le[g], md[g])
  BY DEF Chain
<1>2. /\ n \in Nat /\ n > 0 /\ DOMAIN q = 1..n /\ IsSeq(q2) /\ DOMAIN q2 = 1..(n - 1)
      /\ \A k \in DOMAIN q2 : q2[k] = q[k + 1] /\ k + 1 \in DOMAIN q /\ 1 < k + 1
      /\ \A k \in DOMAIN q : k = 1 \/ (k - 1 \in DOMAIN q2 /\ q2[k - 1] = q[k])
  <2>1. IsSeq(q)
    BY <1>1 DEF ChainOf
  <2>2. q2 = Tail(q)
    BY DEF Chain
  <2>3. /\ IsSeq(q2) /\ Len(q2) = n - 1 /\ n \in Nat /\ n > 0
        /\ \A k \in 1..Len(q2) : q2[k] = q[k + 1] /\ k + 1 \in 1..n
    BY <2>1, <2>2, SeqTail
  <2>4. DOMAIN q = 1..n /\ DOMAIN q2 = 1..(n - 1)
    BY <2>1, <2>3, SeqDomain
  <2> QED BY <2>3, <2>4
<1>3. \A h \in Group \ {g} : br2[h] = br[h]
  BY DEF Chain
<1>4. DOMAIN br2 = Group
  BY DEF Chain
<1>5. 1 \in DOMAIN q
  BY <1>2
<1> HIDE DEF q, q2, n, b
<1>6. ChainOf(g, q2, le[g], md[g])
  <2>1. \A k \in DOMAIN q2 :
          /\ BarrierShape(q2[k]) /\ q2[k].curr <= le[g]
          /\ q2[k].kind = "checkpoint" => q2[k].sync # {} /\ q2[k].sync \subseteq TablesOf[g]
    BY <1>1, <1>2 DEF ChainOf
  <2>2. ASSUME NEW j \in DOMAIN q2, NEW k \in DOMAIN q2, j < k
        PROVE  q2[k].kind # "initial" /\ q2[j].curr <= q2[k].prev
    <3>1. j + 1 < k + 1
      BY <2>2, <1>2
    <3> QED BY <3>1, <1>1, <1>2 DEF ChainOf
  <2> QED BY <2>1, <2>2, <1>2 DEF ChainOf
<1>7. Chain(br2, le, md)
  BY <1>3, <1>4, <1>6 DEF Chain, q2
<1>8. b.kind = "checkpoint" =>
        /\ b.prev \in Nat /\ b.prev < le[g] /\ le[g] \in Nat
        /\ \A k \in DOMAIN q2 : q2[k].kind = "checkpoint" => q2[k].prev \in Nat /\ b.prev < q2[k].prev
  <2> SUFFICES ASSUME b.kind = "checkpoint"
               PROVE  /\ b.prev \in Nat /\ b.prev < le[g] /\ le[g] \in Nat
                      /\ \A k \in DOMAIN q2 :
                           q2[k].kind = "checkpoint" => q2[k].prev \in Nat /\ b.prev < q2[k].prev
    OBVIOUS
  <2>1. le[g] \in Nat
    BY DEF Types
  <2>2. b.prev \in Nat /\ b.curr \in Nat /\ b.prev < b.curr /\ b.curr <= le[g]
    BY <1>1, <1>5 DEF ChainOf, BarrierShape, b
  <2>3. ASSUME NEW k \in DOMAIN q2, q2[k].kind = "checkpoint"
        PROVE  q2[k].prev \in Nat /\ b.prev < q2[k].prev
    <3>1. q2[k] = q[k + 1] /\ k + 1 \in DOMAIN q /\ 1 < k + 1
      BY <1>2
    <3>2. q2[k].prev \in Nat
      BY <2>3, <1>6 DEF ChainOf, BarrierShape
    <3>3. b.curr <= q2[k].prev
      BY <3>1, <1>1, <1>5 DEF ChainOf, b
    <3> QED BY <2>2, <3>2, <3>3
  <2> QED BY <2>1, <2>2, <2>3
<1>9. ASSUME NEW u \in ue2, u.epoch \in Nat, EpochOf(u, g, q, tb[g], le[g], md[g])
      PROVE  EpochOf(u, g, q2, tb[g], le[g], md[g])
  <2>1. b.kind = "checkpoint" => b.prev < u.epoch
    <3> SUFFICES ASSUME b.kind = "checkpoint", ~(b.prev < u.epoch) PROVE FALSE
      OBVIOUS
    <3>1. wk
      BY DEF b
    <3>2. ~(u.tables = b.sync /\ u.epoch <= b.prev)
      BY <3>1 DEF b, q
    <3>3. u.epoch <= b.prev
      BY <1>8, <1>9
    <3>4. \A j \in DOMAIN q : ~(j < 1)
      BY <1>2
    <3>5. b.sync = u.tables
      BY <3>3, <3>4, <1>5, <1>9 DEF EpochOf, b
    <3> QED BY <3>2, <3>3, <3>5
  <2>2. ASSUME NEW k \in DOMAIN q2, q2[k].kind = "checkpoint", u.epoch <= q2[k].prev,
               \A j \in DOMAIN q2 : j < k /\ q2[j].kind = "checkpoint" => q2[j].prev < u.epoch
        PROVE  q2[k].sync = u.tables
    <3>1. q2[k] = q[k + 1] /\ k + 1 \in DOMAIN q
      BY <1>2
    <3>2. ASSUME NEW j \in DOMAIN q, j < k + 1, q[j].kind = "checkpoint"
          PROVE  q[j].prev < u.epoch
      <4>1. CASE j = 1
        BY <4>1, <3>2, <2>1 DEF b
      <4>2. CASE j # 1
        <5>1. j - 1 \in DOMAIN q2 /\ q2[j - 1] = q[j] /\ j - 1 < k
          BY <4>2, <3>2, <1>2
        <5> QED BY <5>1, <3>2, <2>2
      <4> QED BY <4>1, <4>2
    <3> QED BY <3>1, <3>2, <2>2, <1>9 DEF EpochOf
  <2>3. ASSUME NoneSince(q2, u.epoch) PROVE NoneSince(q, u.epoch)
    <3> SUFFICES ASSUME NEW k \in DOMAIN q, q[k].kind = "checkpoint" PROVE q[k].prev < u.epoch
      BY DEF NoneSince
    <3>1. CASE k = 1
      BY <3>1, <2>1 DEF b
    <3>2. CASE k - 1 \in DOMAIN q2 /\ q2[k - 1] = q[k]
      BY <3>2, <2>3 DEF NoneSince
    <3> QED BY <3>1, <3>2, <1>2
  <2> QED BY <2>2, <2>3, <1>9 DEF EpochOf
<1>10. Epochs(ue2, br2, tb, le, md)
  <2> SUFFICES ASSUME NEW u \in ue2
               PROVE  \E h \in Group : EpochOf(u, h, br2[h], tb[h], le[h], md[h])
    BY DEF Epochs
  <2>1. u \in ue /\ u.epoch \in Nat
    OBVIOUS
  <2>2. PICK h \in Group : EpochOf(u, h, br[h], tb[h], le[h], md[h])
    BY <2>1 DEF Epochs
  <2>3. CASE h = g
    BY <2>1, <2>2, <2>3, <1>9 DEF q, q2
  <2>4. CASE h # g
    BY <2>2, <2>4, <1>3
  <2> QED BY <2>3, <2>4
<1>11. Queue(wk, ue2, br2, tb, le, md)
  <2> SUFFICES ASSUME NEW h \in Group, wk, md[h] = "running"
               PROVE  Awaiting(ue2, h, br2[h], tb[h], le[h])
    BY DEF Queue
  <2>0. \A e, T : [epoch |-> e, tables |-> T] \in ue
                  /\ ~(b.kind = "checkpoint" /\ T = b.sync /\ e <= b.prev)
                  => [epoch |-> e, tables |-> T] \in ue2
    BY DEF b, q
  <2>1. Awaiting(ue, h, br[h], tb[h], le[h])
    BY DEF Queue
  <2>2. CASE h = g
    <3>1. [epoch |-> le[g], tables |-> tb[g]] \in ue2
      <4>1. ~(b.kind = "checkpoint" /\ le[g] <= b.prev)
        BY <1>8
      <4> QED BY <4>1, <2>0, <2>1, <2>2 DEF Awaiting
    <3>2. ASSUME NEW k \in DOMAIN q2, q2[k].kind = "checkpoint"
          PROVE  [epoch |-> q2[k].prev, tables |-> q2[k].sync] \in ue2
      <4>1. ~(b.kind = "checkpoint" /\ q2[k].prev <= b.prev)
        BY <3>2, <1>8
      <4>2. [epoch |-> q2[k].prev, tables |-> q2[k].sync] \in ue
        BY <3>2, <2>1, <2>2, <1>2 DEF Awaiting, q
      <4> QED BY <4>1, <4>2, <2>0
    <3> QED BY <3>1, <3>2, <2>2 DEF Awaiting, q2
  <2>3. CASE h # g
    <3>1. ASSUME b.kind = "checkpoint" PROVE b.sync # {} /\ b.sync \subseteq TablesOf[g]
      BY <3>1, <1>1, <1>5 DEF ChainOf, b
    <3>2. tb[h] # {} /\ tb[h] \subseteq TablesOf[h] /\ TablesOf[h] \cap TablesOf[g] = {}
      BY <2>3, GroupAssumption DEF Types
    <3>3. [epoch |-> le[h], tables |-> tb[h]] \in ue2
      BY <2>0, <2>1, <3>1, <3>2 DEF Awaiting
    <3>4. ASSUME NEW k \in DOMAIN br[h], br[h][k].kind = "checkpoint"
          PROVE  [epoch |-> br[h][k].prev, tables |-> br[h][k].sync] \in ue2
      <4>1. br[h][k].sync # {} /\ br[h][k].sync \subseteq TablesOf[h]
        BY <3>4 DEF Chain, ChainOf
      <4>2. [epoch |-> br[h][k].prev, tables |-> br[h][k].sync] \in ue
        BY <2>1, <3>4 DEF Awaiting
      <4>3. ~(b.kind = "checkpoint" /\ br[h][k].sync = b.sync)
        BY <4>1, <3>1, <3>2
      <4> QED BY <4>2, <4>3, <2>0
    <3> QED BY <3>3, <3>4, <2>3, <1>3 DEF Awaiting
  <2> QED BY <2>2, <2>3
<1> QED BY <1>7, <1>10, <1>11

\* Databases stop: those of G are suspended or cleared, their barriers are forgotten, and the
\* epochs of those that are cleared are gone.
StopStep(G, wk, wk2, md, md2, tb, le, ue, ue2, br, br2) ==
  /\ Types(wk, md, tb, le) /\ Chain(br, le, md) /\ Epochs(ue, br, tb, le, md) /\ Queue(wk, ue, br, tb, le, md)
  /\ wk2 \in BOOLEAN /\ DOMAIN br2 = Group /\ DOMAIN md2 = Group /\ ue2 \subseteq ue
  /\ \A g \in Group : IF g \in G THEN br2[g] = <<>> /\ md2[g] \in {"suspended", "cleared"}
                      ELSE br2[g] = br[g] /\ md2[g] = md[g]
  /\ md2 = [g \in Group |-> md2[g]]
  /\ \A u \in ue2 : \A g \in Group : u.tables \subseteq TablesOf[g] => md2[g] # "cleared"
  /\ \A u \in ue \ ue2 : \A g \in Group : md2[g] = "running" => u.tables \cap TablesOf[g] = {}
  /\ \A g \in Group : md2[g] = "running" => wk2 = wk

\* The predicates of the barriers hold after databases stop.
LEMMA DatabasesStopped ==
  ASSUME NEW G, NEW wk, NEW wk2, NEW md, NEW md2, NEW tb, NEW le, NEW ue, NEW ue2, NEW br, NEW br2,
         StopStep(G, wk, wk2, md, md2, tb, le, ue, ue2, br, br2)
  PROVE  /\ Types(wk2, md2, tb, le) /\ Chain(br2, le, md2) /\ Epochs(ue2, br2, tb, le, md2)
         /\ Queue(wk2, ue2, br2, tb, le, md2)
<1> USE DEF StopStep
<1>a1. Types(wk, md, tb, le) /\ Chain(br, le, md) /\ Epochs(ue, br, tb, le, md) /\ Queue(wk, ue, br, tb, le, md)
  OBVIOUS
<1>a2. wk2 \in BOOLEAN /\ DOMAIN br2 = Group /\ DOMAIN md2 = Group
  OBVIOUS
<1>a3. ue2 \subseteq ue
  OBVIOUS
<1>a4. \A g \in Group : IF g \in G THEN br2[g] = <<>> /\ md2[g] \in {"suspended", "cleared"}
                        ELSE br2[g] = br[g] /\ md2[g] = md[g]
  OBVIOUS
<1>a5. md2 = [g \in Group |-> md2[g]]
  OBVIOUS
<1>a6. \A u \in ue2 : \A g \in Group : u.tables \subseteq TablesOf[g] => md2[g] # "cleared"
  OBVIOUS
<1>a7. \A u \in ue \ ue2 : \A g \in Group : md2[g] = "running" => u.tables \cap TablesOf[g] = {}
  OBVIOUS
<1>a8. \A g \in Group : md2[g] = "running" => wk2 = wk
  OBVIOUS
<1> HIDE DEF StopStep
<1> USE <1>a1, <1>a2, <1>a3, <1>a4, <1>a5, <1>a6, <1>a7, <1>a8
<1>1. Types(wk2, md2, tb, le)
  <2>1. \A g \in Group : md2[g] \in {"running", "suspended", "cleared"}
    BY DEF Types
  <2> QED BY <2>1 DEF Types
<1>2. ASSUME NEW g \in Group PROVE ChainOf(g, br2[g], le[g], md2[g])
  <2>1. CASE g \in G
    <3>1. IsSeq(<<>>) /\ DOMAIN <<>> = {}
      BY DEF IsSeq
    <3> QED BY <2>1, <3>1 DEF ChainOf
  <2>2. CASE g \notin G
    BY <2>2 DEF Chain
  <2> QED BY <2>1, <2>2
<1>3. ASSUME NEW u \in ue2 PROVE \E g \in Group : EpochOf(u, g, br2[g], tb[g], le[g], md2[g])
  <2>1. PICK g \in Group : EpochOf(u, g, br[g], tb[g], le[g], md[g])
    BY DEF Epochs
  <2>2. md2[g] # "cleared"
    BY <2>1 DEF EpochOf
  <2>3. CASE g \notin G
    BY <2>1, <2>3
  <2>4. CASE g \in G
    <3>1. br2[g] = <<>> /\ DOMAIN <<>> = {} /\ md2[g] # "running"
      BY <2>4
    <3> QED BY <3>1, <2>1, <2>2 DEF EpochOf
  <2> QED BY <2>3, <2>4
<1>4. ASSUME NEW g \in Group, wk2, md2[g] = "running" PROVE Awaiting(ue2, g, br2[g], tb[g], le[g])
  <2>1. g \notin G /\ md[g] = "running" /\ br2[g] = br[g] /\ wk
    BY <1>4
  <2>2. Awaiting(ue, g, br[g], tb[g], le[g])
    BY <2>1 DEF Queue
  <2>3. tb[g] # {} /\ tb[g] \subseteq TablesOf[g]
    BY DEF Types
  <2>4. \A e, T : [epoch |-> e, tables |-> T] \in ue /\ T # {} /\ T \subseteq TablesOf[g]
                  => [epoch |-> e, tables |-> T] \in ue2
    BY <1>4
  <2>5. [epoch |-> le[g], tables |-> tb[g]] \in ue2
    BY <2>2, <2>3, <2>4 DEF Awaiting
  <2>6. ASSUME NEW k \in DOMAIN br[g], br[g][k].kind = "checkpoint"
        PROVE  [epoch |-> br[g][k].prev, tables |-> br[g][k].sync] \in ue2
    <3>1. br[g][k].sync # {} /\ br[g][k].sync \subseteq TablesOf[g]
      BY <2>6 DEF Chain, ChainOf
    <3> QED BY <2>2, <2>4, <2>6, <3>1 DEF Awaiting
  <2> QED BY <2>1, <2>5, <2>6 DEF Awaiting
<1> QED BY <1>1, <1>2, <1>3, <1>4 DEF Chain, Epochs, Queue

-----------------------------------------------------------------------------
\* The events of the uploader, one by one, keep UploaderOK.

\* New ids are above all that are in use.
LEMMA NextIds ==
  ASSUME UploaderOK(tasks, spilledData, syncing, tableData, unsyncEpochs)
  PROVE  /\ NextTaskId \in Nat \ {0} /\ NextSyncId \in Nat \ {0}
         /\ \A k \in DOMAIN tasks : tasks[k].id < NextTaskId
         /\ \A s \in spilledData : s.id < NextTaskId
         /\ \A k \in DOMAIN syncing : syncing[k].id < NextSyncId
<1> DEFINE A == {tasks[k].id : k \in DOMAIN tasks}
           B == {s.id : s \in spilledData}
           used == {0} \cup A \cup B
<1>0. /\ IsSeq(tasks) /\ \A k \in DOMAIN tasks : tasks[k].id \in Nat
      /\ IsFiniteSet(spilledData) /\ \A s \in spilledData : s.id \in Nat
      /\ IsSeq(syncing) /\ \A k \in DOMAIN syncing : syncing[k].id \in Nat \ {0}
      /\ \A j, k \in DOMAIN syncing : j < k => syncing[j].id < syncing[k].id
  BY DEF UploaderOK, Shapes, UniqueIds, TaskShape, SyncShape
<1>1. IsFiniteSet(A)
  <2> DEFINE f == [k \in 1..Len(tasks) |-> tasks[k].id]
  <2>1. Len(tasks) \in Nat /\ DOMAIN tasks = 1..Len(tasks)
    BY <1>0, SeqDomain
  <2>2. IsFiniteSet(1..Len(tasks))
    BY <2>1, FS_Interval
  <2>3. f \in Surjection(1..Len(tasks), A)
    BY <2>1 DEF Surjection
  <2> HIDE DEF f, A
  <2> QED BY <2>2, <2>3, FS_Surjection
<1>2. IsFiniteSet(B)
  BY <1>0, FiniteIds
<1>3. A \subseteq Nat /\ B \subseteq Nat
  BY <1>0
<1> HIDE DEF A, B
<1>4. IsFiniteSet({0}) /\ IsFiniteSet({0} \cup A)
  BY <1>1, FS_Singleton, FS_Union
<1>51. IsFiniteSet(({0} \cup A) \cup B)
  BY <1>2, <1>4, FS_Union
<1>5. IsFiniteSet(used) /\ used # {} /\ used \subseteq Nat
  BY <1>3, <1>51
<1>6. NextTaskId = 1 + Max(used)
  BY DEF NextTaskId, A, B
<1> HIDE DEF used
<1>7. Max(used) \in Nat /\ \A y \in used : y \in Nat /\ y <= Max(used)
  BY <1>5, FiniteMax
<1>8. \A y \in used : y < NextTaskId
  BY <1>6, <1>7
<1>9. NextTaskId \in Nat \ {0}
  BY <1>6, <1>7
<1>10. \A k \in DOMAIN tasks : tasks[k].id \in used
  BY DEF used, A
<1>11. \A s \in spilledData : s.id \in used
  BY DEF used, B
<1>12. NextSyncId \in Nat \ {0} /\ \A k \in DOMAIN syncing : syncing[k].id < NextSyncId
  <2>1. CASE syncing = <<>>
    BY <2>1 DEF NextSyncId
  <2>2. CASE syncing # <<>>
    <3> DEFINE n == Len(syncing)
    <3>1. n \in Nat /\ DOMAIN syncing = 1..n /\ 1 \in DOMAIN syncing
      BY <2>2, <1>0, SeqDomain, NonEmptySeq
    <3>2. n \in DOMAIN syncing
      BY <3>1
    <3>3. NextSyncId = 1 + syncing[n].id
      BY <2>2 DEF NextSyncId, Last
    <3>4. ASSUME NEW k \in DOMAIN syncing PROVE syncing[k].id <= syncing[n].id
      <4>1. k = n \/ k < n
        BY <3>1
      <4> QED BY <4>1, <3>2, <1>0
    <3> HIDE DEF n
    <3> QED BY <3>2, <3>3, <3>4, <1>0
  <2> QED BY <2>1, <2>2
<1> QED BY <1>8, <1>9, <1>10, <1>11, <1>12

\* Fields of a table's data that nothing looks at.
LEMMA TableUpdated ==
  ASSUME NEW x, TableShape(x), NEW c, NEW m
  PROVE  SameTable(x, [x EXCEPT !.syncing = c, !.synced = m])
<1>1. x = [unsync |-> x.unsync, spill |-> x.spill, stopped |-> x.stopped, syncing |-> x.syncing,
           synced |-> x.synced]
  BY DEF TableShape
<1> DEFINE x1 == [x EXCEPT !.syncing = c]
           x2 == [x1 EXCEPT !.synced = m]
<1>2. x1 = [unsync |-> x.unsync, spill |-> x.spill, stopped |-> x.stopped, syncing |-> c,
            synced |-> x.synced]
  BY <1>1
<1>3. [x EXCEPT !.syncing = c, !.synced = m] = x2
  OBVIOUS
<1> HIDE DEF x1
<1>4. x2 = [unsync |-> x.unsync, spill |-> x.spill, stopped |-> x.stopped, syncing |-> c, synced |-> m]
  BY <1>2
<1> HIDE DEF x2
<1>5. SameTable(x, x2)
  BY <1>4 DEF TableShape, SameTable
<1> QED BY <1>3, <1>5

\* may_notify_sync_task: the finished syncs are answered, their tables note it or go.
LEMMA Notifies ==
  ASSUME NEW tk, NEW sp, NEW sy, NEW td, NEW ue, NEW ins, UploaderOK(tk, sp, sy, td, ue),
         MayNotifySyncTask(sy, td, ins)
  PROVE  /\ UploaderOK(tk, sp, syncing', tableData', ue)
         /\ TablesKept(td, tableData')
         /\ \E done : Notified(sy, answers, done, syncing', answers')
<1> DEFINE done == Keep(sy, {k \in DOMAIN sy : sy[k] \in Finished(sy)})
           Acked(t) == {s.epoch : s \in {x \in Finished(sy) : t \in x.tables}}
           AckSynced(t) ==
             IF Acked(t) = {} THEN td[t]
             ELSE [td[t] EXCEPT !.syncing = PopBack(@, Cardinality(Acked(t))), !.synced = Max(Acked(t))]
           IsEmpty(t) == /\ AckSynced(t).syncing = <<>>
                         /\ AckSynced(t).unsync = {}
                         /\ \A i \in DOMAIN ins : TableOf[i] # t
<1>1. /\ syncing' = Keep(sy, {k \in DOMAIN sy : sy[k] \notin Finished(sy)})
      /\ tableData' = [t \in {x \in DOMAIN td : ~(Acked(x) # {} /\ IsEmpty(x))} |-> AckSynced(t)]
      /\ answers' = answers \o [k \in DOMAIN done |-> OkAnswer(done[k])]
  BY DEF MayNotifySyncTask, OkAnswer
<1>2. Notified(sy, answers, done, syncing', answers')
  BY <1>1 DEF Notified
<1>3. ASSUME NEW t \in DOMAIN td PROVE SameTable(td[t], AckSynced(t))
  <2>1. TableShape(td[t])
    BY DEF UploaderOK, Shapes
  <2>2. \A c, m : SameTable(td[t], [td[t] EXCEPT !.syncing = c, !.synced = m])
    BY <2>1, TableUpdated
  <2>3. SameTable(td[t], td[t])
    BY <2>1 DEF SameTable
  <2> QED BY <2>2, <2>3
<1>4. \A t \in DOMAIN td : IsEmpty(t) => td[t].unsync = {}
  BY <1>3 DEF SameTable
<1> HIDE DEF done, Acked, AckSynced, IsEmpty
<1>5. TablesKept(td, tableData')
  BY <1>1, <1>3, <1>4 DEF TablesKept
<1>6. UploaderOK(tk, sp, syncing', td, ue)
  <2>1. SyncsKnown(tk, sy) /\ IsSeq(sy)
    BY DEF UploaderOK, Shapes
  <2>2. IsSeq(syncing') /\ SyncsLeft(tk, sy, syncing')
    BY <1>1, <2>1, UnfinishedLeft
  <2> QED BY <2>2, SyncsGo
<1>7. UploaderOK(tk, sp, syncing', tableData', ue)
  BY <1>5, <1>6, KeepTables
<1> QED BY <1>2, <1>5, <1>7

\* An uploader without data.
LEMMA EmptyUploader ==
  UploaderOK(<<>>, {}, <<>>, Empty, {})
<1>1. IsSeq(<<>>)
  BY DEF IsSeq
<1>2. DOMAIN Empty = {} /\ DOMAIN <<>> = {}
  BY DEF Empty
<1> QED BY <1>1, <1>2, FS_EmptySet
        DEF UploaderOK, Shapes, UniqueIds, SpillsKnown, SpillsExist, SyncsKnown, EpochsKnown, IsSpill

\* start_epoch of the tables T.
LEMMA EpochStarts ==
  ASSUME UploaderOK(tasks, spilledData, syncing, tableData, unsyncEpochs), working, NEW e \in Nat, NEW T,
         T # {}, NEW committed, StartEpoch(e, T, committed)
  PROVE  /\ UploaderOK(tasks', spilledData', syncing', tableData', unsyncEpochs')
         /\ unsyncEpochs' = unsyncEpochs \cup {[epoch |-> e, tables |-> T]}
         /\ DOMAIN tableData' = DOMAIN tableData \cup T
         /\ \A t \in DOMAIN tableData' :
              /\ tableData'[t].unsync = (IF t \in DOMAIN tableData THEN tableData[t].unsync ELSE {})
                                          \cup (IF t \in T THEN {e} ELSE {})
              /\ tableData'[t].spill = IF t \in DOMAIN tableData THEN tableData[t].spill ELSE {}
<1> DEFINE td2 == tableData'
           D(t) == IF t \in DOMAIN tableData THEN tableData[t]
                   ELSE [unsync |-> {}, spill |-> {}, stopped |-> 0, syncing |-> <<>>, synced |-> committed[t]]
<1>1. /\ unsyncEpochs' = unsyncEpochs \cup {[epoch |-> e, tables |-> T]}
      /\ tasks' = tasks /\ spilledData' = spilledData /\ syncing' = syncing
      /\ td2 = [t \in DOMAIN tableData \cup T |->
                  IF t \in T THEN [D(t) EXCEPT !.unsync = @ \cup {e}] ELSE D(t)]
  BY DEF StartEpoch
<1>2. ASSUME NEW t PROVE
        /\ t \in DOMAIN tableData => D(t).unsync = tableData[t].unsync /\ D(t).spill = tableData[t].spill
        /\ t \notin DOMAIN tableData => D(t).unsync = {} /\ D(t).spill = {}
        /\ TableShape(D(t))
  <2>1. CASE t \in DOMAIN tableData
    BY <2>1 DEF UploaderOK, Shapes
  <2>2. CASE t \notin DOMAIN tableData
    BY <2>2 DEF TableShape
  <2> QED BY <2>1, <2>2
<1> HIDE DEF D, td2
<1>3. ASSUME NEW x, TableShape(x)
      PROVE  LET y == [x EXCEPT !.unsync = @ \cup {e}]
             IN  TableShape(y) /\ y.unsync = x.unsync \cup {e} /\ y.spill = x.spill
  <2>1. x = [unsync |-> x.unsync, spill |-> x.spill, stopped |-> x.stopped, syncing |-> x.syncing,
             synced |-> x.synced]
    BY <1>3 DEF TableShape
  <2> DEFINE y == [x EXCEPT !.unsync = @ \cup {e}]
  <2>2. y = [unsync |-> x.unsync \cup {e}, spill |-> x.spill, stopped |-> x.stopped,
             syncing |-> x.syncing, synced |-> x.synced]
    BY <2>1
  <2> HIDE DEF y
  <2>3. TableShape(y) /\ y.unsync = x.unsync \cup {e} /\ y.spill = x.spill
    BY <1>3, <2>2 DEF TableShape
  <2> QED BY <2>3 DEF y
<1>4. DOMAIN td2 = DOMAIN tableData \cup T
  BY <1>1
<1>5. ASSUME NEW t \in DOMAIN td2
      PROVE  /\ TableShape(td2[t])
             /\ td2[t].unsync = (IF t \in DOMAIN tableData THEN tableData[t].unsync ELSE {})
                                  \cup (IF t \in T THEN {e} ELSE {})
             /\ td2[t].spill = IF t \in DOMAIN tableData THEN tableData[t].spill ELSE {}
  <2>1. CASE t \in T
    <3>1. td2[t] = [D(t) EXCEPT !.unsync = @ \cup {e}]
      BY <2>1, <1>1, <1>4
    <3>2. TableShape(td2[t]) /\ td2[t].unsync = D(t).unsync \cup {e} /\ td2[t].spill = D(t).spill
      BY <3>1, <1>2, <1>3
    <3> QED BY <3>2, <2>1, <1>2
  <2>2. CASE t \notin T
    <3>1. td2[t] = D(t)
      BY <2>2, <1>1, <1>4
    <3> QED BY <3>1, <2>2, <1>2
  <2> QED BY <2>1, <2>2
<1>6. UploaderOK(tasks, spilledData, syncing, td2, unsyncEpochs \cup {[epoch |-> e, tables |-> T]})
  BY <1>4, <1>5, StartedEpoch
<1> QED BY <1>1, <1>4, <1>5, <1>6 DEF td2

\* One record of a table with one more spill task.
LEMMA TableSpilled ==
  ASSUME NEW x, TableShape(x), NEW p \in Nat \X Nat
  PROVE  LET y == [x EXCEPT !.spill = @ \cup {p}]
         IN  TableShape(y) /\ y.unsync = x.unsync /\ y.spill = x.spill \cup {p}
<1>1. x = [unsync |-> x.unsync, spill |-> x.spill, stopped |-> x.stopped, syncing |-> x.syncing,
           synced |-> x.synced]
  BY DEF TableShape
<1> DEFINE y == [x EXCEPT !.spill = @ \cup {p}]
<1>2. y = [unsync |-> x.unsync, spill |-> x.spill \cup {p}, stopped |-> x.stopped,
           syncing |-> x.syncing, synced |-> x.synced]
  BY <1>1
<1> HIDE DEF y
<1>3. TableShape(y) /\ y.unsync = x.unsync /\ y.spill = x.spill \cup {p}
  BY <1>2 DEF TableShape
<1> QED BY <1>3 DEF y

\* may_flush: the task it starts for the instances S of an unsynced epoch u.
SpillStep(u, S, task) ==
  /\ u \in unsyncEpochs /\ S = SpillTogether(u) /\ S # {}
  /\ task = [id |-> NextTaskId, input |-> [i \in S |-> Spillable(instData[i]).imms],
             tables |-> {TableOf[i] : i \in S}, sync |-> 0]
  /\ instData' = [i \in DOMAIN instData |->
                    IF i \in S THEN SpillInstance(instData[i]) ELSE instData[i]]
  /\ tasks' = Append(tasks, task)
  /\ DOMAIN tableData' = DOMAIN tableData
  /\ \A t \in DOMAIN tableData :
       /\ tableData'[t].unsync = tableData[t].unsync
       /\ tableData'[t].spill = tableData[t].spill
                                  \cup (IF t \in task.tables THEN {<<u.epoch, task.id>>} ELSE {})

\* may_flush of the uploader keeps what it knows of its tasks.
LEMMA Spills ==
  ASSUME UploaderOK(tasks, spilledData, syncing, tableData, unsyncEpochs), MayFlush
  PROVE  /\ UploaderOK(tasks', spilledData', syncing', tableData', unsyncEpochs')
         /\ UNCHANGED <<working, unsyncEpochs, spilledData, syncing, answers>>
         /\ \E u, S, task : SpillStep(u, S, task)
<1>1. PICK u \in unsyncEpochs :
       LET S == SpillTogether(u)
           task == [id     |-> NextTaskId,
                    input  |-> [i \in S |-> Spillable(instData[i]).imms],
                    tables |-> {TableOf[i] : i \in S},
                    sync   |-> 0]
       IN  /\ S # {}
           /\ instData' = [i \in DOMAIN instData |->
                             IF i \in S THEN SpillInstance(instData[i]) ELSE instData[i]]
           /\ tableData' = [t \in DOMAIN tableData |->
                              IF t \in task.tables
                              THEN [tableData[t] EXCEPT !.spill = @ \cup {<<u.epoch, NextTaskId>>}]
                              ELSE tableData[t]]
           /\ tasks' = Append(tasks, task)
  BY DEF MayFlush
<1> DEFINE S == SpillTogether(u)
           T == {TableOf[i] : i \in S}
           n == NextTaskId
           task == [id |-> n, input |-> [i \in S |-> Spillable(instData[i]).imms], tables |-> T, sync |-> 0]
           td2 == tableData'
<1>2. /\ S # {} /\ tasks' = Append(tasks, task)
      /\ td2 = [t \in DOMAIN tableData |->
                  IF t \in T THEN [tableData[t] EXCEPT !.spill = @ \cup {<<u.epoch, n>>}] ELSE tableData[t]]
      /\ instData' = [i \in DOMAIN instData |->
                        IF i \in S THEN SpillInstance(instData[i]) ELSE instData[i]]
  BY <1>1
<1>3. UNCHANGED <<working, unsyncEpochs, spilledData, syncing, answers>>
  BY DEF MayFlush
<1>4. S \subseteq DOMAIN instData /\ T \subseteq u.tables
  BY DEF SpillTogether, InstancesOf
<1>5. n \in Nat \ {0} /\ (\A k \in DOMAIN tasks : tasks[k].id < n) /\ (\A s \in spilledData : s.id < n)
  BY NextIds
<1>6. T # {}
  BY <1>2
<1> HIDE DEF S, T, n, td2
<1>7. task.id = n /\ task.tables = T /\ task.sync = 0 /\ TaskShape(task)
  BY <1>5 DEF TaskShape
<1> HIDE DEF task
<1>8. u.epoch \in Nat
  BY DEF UploaderOK, Shapes
<1>9. DOMAIN td2 = DOMAIN tableData
  BY <1>2
<1>10. ASSUME NEW t \in DOMAIN tableData
       PROVE  /\ TableShape(td2[t]) /\ td2[t].unsync = tableData[t].unsync
              /\ td2[t].spill = tableData[t].spill \cup (IF t \in task.tables THEN {<<u.epoch, task.id>>} ELSE {})
  <2>0. TableShape(tableData[t])
    BY DEF UploaderOK, Shapes
  <2>1. CASE t \in T
    <3>1. td2[t] = [tableData[t] EXCEPT !.spill = @ \cup {<<u.epoch, n>>}]
      BY <2>1, <1>2
    <3>2. <<u.epoch, n>> \in Nat \X Nat
      BY <1>5, <1>8
    <3> QED BY <2>0, <2>1, <3>1, <3>2, <1>7, TableSpilled
  <2>2. CASE t \notin T
    BY <2>0, <2>2, <1>2, <1>7
  <2> QED BY <2>1, <2>2
<1>11. UploaderOK(Append(tasks, task), spilledData, syncing, td2, unsyncEpochs)
  BY <1>4, <1>5, <1>6, <1>7, <1>9, <1>10, SpilledTask
<1>12. SpillStep(u, S, task)
  BY <1>2, <1>9, <1>10 DEF SpillStep, S, T, n, td2, task
<1> QED BY <1>2, <1>3, <1>11, <1>12 DEF td2

\* start_sync_epoch of an uploader that works: s is the new sync, extra its flush task if there is
\* anything to flush, td1 the tables before syncs are answered.
Flushed(e, T) == {i \in InstancesOf(T) : SealedBefore(instData[i], e) # <<>>}

SyncedInst(e, T) == [i \in DOMAIN instData |->
                       IF TableOf[i] \in T THEN SyncInstance(instData[i], e) ELSE instData[i]]

TakenOf(sp, td, e, T) == {x \in sp : x.id \in TakenIds(td, e, T)}

\* The new sync is the newest of its tables.
SyncPushed(td, td1, e, T) ==
  \A t \in DOMAIN td : /\ td1[t].synced = td[t].synced
                       /\ td1[t].syncing = IF t \in T THEN <<e>> \o td[t].syncing ELSE td[t].syncing

SyncStep(e, T, s, extra, td1) ==
  /\ extra = [id |-> NextTaskId, input |-> [i \in Flushed(e, T) |-> SealedBefore(instData[i], e)],
              tables |-> {}, sync |-> NextSyncId]
  /\ s = [id |-> NextSyncId, epoch |-> e, tables |-> T, remaining |-> s.remaining,
          uploaded |-> NewestFirst(TakenOf(spilledData, tableData, e, T))]
  /\ SyncTasks(tasks, tasks', TakenIds(tableData, e, T), NextSyncId, Flushed(e, T) # {}, extra)
  /\ instData' = [i \in {i \in DOMAIN instData : ~(TableOf[i] \in T /\ IsFinished(SyncedInst(e, T)[i]))}
                    |-> SyncedInst(e, T)[i]]
  /\ spilledData' = LeftSpills(spilledData, TakenIds(tableData, e, T))
  /\ unsyncEpochs' = LeftEpochs(unsyncEpochs, e, T)
  /\ LeftTables(tableData, td1, e, T) /\ SyncPushed(tableData, td1, e, T)
  /\ UploaderOK(tasks', spilledData', Append(syncing, s), td1, unsyncEpochs')
  /\ MayNotifySyncTask(Append(syncing, s), td1, instData')

\* A table whose epochs up to e are synced.
EpochSets(a, b) == a \subseteq Nat /\ b \subseteq Nat \X Nat

SyncedTable(x, a, b, c) == [x EXCEPT !.unsync = a, !.spill = b, !.syncing = c]

\* The fields of such a table.
LEMMA TableSynced ==
  ASSUME NEW x, TableShape(x), NEW a, NEW b, NEW c, EpochSets(a, b)
  PROVE  /\ TableShape(SyncedTable(x, a, b, c))
         /\ SyncedTable(x, a, b, c).unsync = a /\ SyncedTable(x, a, b, c).spill = b
         /\ SyncedTable(x, a, b, c).syncing = c /\ SyncedTable(x, a, b, c).synced = x.synced
<1>1. x = [unsync |-> x.unsync, spill |-> x.spill, stopped |-> x.stopped, syncing |-> x.syncing,
           synced |-> x.synced]
  BY DEF TableShape
<1> DEFINE x1 == [x EXCEPT !.unsync = a]
           x2 == [x1 EXCEPT !.spill = b]
           x3 == [x2 EXCEPT !.syncing = c]
           y == SyncedTable(x, a, b, c)
<1>2. y = x3
  BY DEF SyncedTable
<1> HIDE DEF y
<1>3. x1 = [unsync |-> a, spill |-> x.spill, stopped |-> x.stopped, syncing |-> x.syncing,
            synced |-> x.synced]
  BY <1>1
<1> HIDE DEF x1
<1>4. x2 = [unsync |-> a, spill |-> b, stopped |-> x.stopped, syncing |-> x.syncing, synced |-> x.synced]
  BY <1>3
<1> HIDE DEF x2
<1>5. x3 = [unsync |-> a, spill |-> b, stopped |-> x.stopped, syncing |-> c, synced |-> x.synced]
  BY <1>4
<1> HIDE DEF x3
<1>6. TableShape(y) /\ y.unsync = a /\ y.spill = b /\ y.syncing = c /\ y.synced = x.synced
  BY <1>2, <1>5 DEF TableShape, EpochSets
<1> QED BY <1>6 DEF y

\* start_sync_epoch is such a step when the sync reaches only epochs of its own tables.
LEMMA SyncStarts ==
  ASSUME UploaderOK(tasks, spilledData, syncing, tableData, unsyncEpochs), working, NEW e \in Nat, NEW T,
         T \subseteq DOMAIN tableData, ReachesOnly(unsyncEpochs, e, T),
         StartSyncEpoch(e, T)
  PROVE  \E s, extra, td1 : SyncStep(e, T, s, extra, td1)
<1> DEFINE synced   == SyncedInst(e, T)
           kept     == {i \in DOMAIN instData : ~(TableOf[i] \in T /\ IsFinished(synced[i]))}
           flush    == Flushed(e, T)
           n        == NextTaskId
           m        == NextSyncId
           extra    == [id |-> n, input |-> [i \in flush |-> SealedBefore(instData[i], e)],
                        tables |-> {}, sync |-> m]
           taskIds  == TakenIds(tableData, e, T)
           uploaded == TakenOf(spilledData, tableData, e, T)
           remaining == (taskIds \ {s.id : s \in uploaded}) \cup IF flush = {} THEN {} ELSE {n}
           ins      == [i \in kept |-> synced[i]]
           s        == [id |-> m, epoch |-> e, tables |-> T, remaining |-> remaining,
                        uploaded |-> NewestFirst(uploaded)]
           moved    == [k \in DOMAIN tasks |->
                          IF tasks[k].id \in taskIds THEN [tasks[k] EXCEPT !.sync = m] ELSE tasks[k]]
           td1      == [t \in DOMAIN tableData |->
                          IF t \notin T THEN tableData[t]
                          ELSE [tableData[t] EXCEPT !.unsync  = {x \in @ : x > e},
                                                    !.spill   = {x \in @ : x[1] > e},
                                                    !.syncing = <<e>> \o @]]
<1>1. /\ instData' = ins
      /\ unsyncEpochs' = {u \in unsyncEpochs : ~(u.tables = T /\ u.epoch <= e)}
      /\ spilledData' = spilledData \ uploaded
      /\ tasks' = moved \o IF flush = {} THEN <<>> ELSE <<extra>>
      /\ MayNotifySyncTask(Append(syncing, s), td1, ins)
  BY DEF StartSyncEpoch, SyncedInst, Flushed, TakenIds, TakenOf
<1>2. /\ n \in Nat \ {0} /\ m \in Nat \ {0}
      /\ \A k \in DOMAIN tasks : tasks[k].id < n
      /\ \A x \in spilledData : x.id < n
      /\ \A k \in DOMAIN syncing : syncing[k].id < m
  BY NextIds
<1>3. IsSeq(NewestFirst(uploaded))
  <2>1. IsFiniteSet(spilledData) /\ \A x \in spilledData : TaskShape(x)
    BY DEF UploaderOK, Shapes
  <2>2. \A x, y \in spilledData : x.id = y.id => x = y
    BY DEF UploaderOK, UniqueIds
  <2>3. uploaded \subseteq spilledData
    BY DEF TakenOf
  <2> HIDE DEF uploaded
  <2>4. IsFiniteSet(uploaded)
    BY <2>1, <2>3, FS_Subset
  <2>5. \A x \in uploaded : x.id \in Nat
    BY <2>1, <2>3 DEF TaskShape
  <2>6. \A x, y \in uploaded : x.id = y.id => x = y
    BY <2>2, <2>3
  <2> QED BY <2>4, <2>5, <2>6, NewestFirstIs
<1>4. IsSeq(tasks) /\ \A k \in DOMAIN tasks : TaskShape(tasks[k])
  BY DEF UploaderOK, Shapes
<1>5. \A t \in DOMAIN tableData : TableShape(tableData[t])
  BY DEF UploaderOK, Shapes
<1>6. spilledData' = LeftSpills(spilledData, taskIds) /\ unsyncEpochs' = LeftEpochs(unsyncEpochs, e, T)
  BY <1>1 DEF TakenOf, LeftSpills, LeftEpochs
<1>61. remaining = WaitsFor(spilledData, taskIds, flush # {}, extra)
  BY DEF TakenOf, WaitsFor
<1> HIDE DEF n, m, taskIds, uploaded, flush, remaining, synced
<1>7. TaskShape(extra) /\ extra.id = n /\ extra.sync = m
  BY <1>2 DEF TaskShape
<1>8. /\ SyncShape(s) /\ s.id = m /\ s.remaining = remaining
      /\ s = [id |-> m, epoch |-> e, tables |-> T, remaining |-> s.remaining, uploaded |-> NewestFirst(uploaded)]
  BY <1>2, <1>3 DEF SyncShape
<1>9. SyncTasks(tasks, tasks', taskIds, m, flush # {}, extra)
  <2>1. Len(tasks) \in Nat /\ DOMAIN tasks = 1..Len(tasks)
    BY <1>4, SeqDomain
  <2>2. moved = [k \in 1..Len(tasks) |-> moved[k]]
    BY <2>1
  <2>3. ASSUME NEW k \in DOMAIN tasks
        PROVE  /\ TaskShape(moved[k]) /\ moved[k].id = tasks[k].id /\ moved[k].input = tasks[k].input
               /\ moved[k].tables = tasks[k].tables
               /\ moved[k].sync = IF tasks[k].id \in taskIds THEN m ELSE tasks[k].sync
    <3> DEFINE x == tasks[k]
    <3>1. x = [id |-> x.id, input |-> x.input, tables |-> x.tables, sync |-> x.sync]
          /\ x.id \in Nat \ {0} /\ x.sync \in Nat
      BY <1>4 DEF TaskShape
    <3>2. moved[k] = IF x.id \in taskIds THEN [x EXCEPT !.sync = m] ELSE x
      OBVIOUS
    <3> HIDE DEF x, moved
    <3>3. CASE x.id \in taskIds
      <4>1. moved[k] = [id |-> x.id, input |-> x.input, tables |-> x.tables, sync |-> m]
        BY <3>1, <3>2, <3>3
      <4> QED BY <4>1, <3>1, <3>3, <1>2 DEF TaskShape, x
    <3>4. CASE x.id \notin taskIds
      BY <3>1, <3>2, <3>4, <1>4 DEF x
    <3> QED BY <3>3, <3>4
  <2> HIDE DEF moved, extra
  <2>4. IsSeq(moved) /\ Len(moved) = Len(tasks) /\ DOMAIN moved = 1..Len(tasks)
    BY <2>1, <2>2, SeqMap
  <2>5. CASE flush = {}
    <3>1. tasks' = moved
      BY <1>1, <2>4, <2>5, SeqAppend
    <3> QED BY <2>1, <2>3, <2>4, <2>5, <3>1 DEF SyncTasks
  <2>6. CASE flush # {}
    <3>0. tasks' = moved \o <<extra>>
      BY <1>1, <2>6
    <3>1. tasks' = Append(moved, extra)
      BY <2>4, <3>0, SeqAppend
    <3>2. /\ IsSeq(tasks') /\ Len(tasks') = Len(tasks) + 1
          /\ tasks'[Len(tasks) + 1] = extra /\ \A k \in 1..Len(tasks) : tasks'[k] = moved[k]
      BY <2>4, <3>1, SeqAppend
    <3>3. DOMAIN tasks' = 1..(Len(tasks) + 1)
      BY <3>2, SeqDomain
    <3> QED BY <2>1, <2>3, <2>6, <3>2, <3>3 DEF SyncTasks
  <2> QED BY <2>5, <2>6
<1>10. DOMAIN td1 = DOMAIN tableData
  OBVIOUS
<1>11. ASSUME NEW t \in DOMAIN tableData
       PROVE  /\ TableShape(td1[t])
              /\ td1[t].unsync = IF t \in T THEN {x \in tableData[t].unsync : x > e} ELSE tableData[t].unsync
              /\ td1[t].spill = IF t \in T THEN {x \in tableData[t].spill : x[1] > e} ELSE tableData[t].spill
              /\ td1[t].synced = tableData[t].synced
              /\ td1[t].syncing = IF t \in T THEN <<e>> \o tableData[t].syncing ELSE tableData[t].syncing
  <2>1. CASE t \in T
    <3> DEFINE y == tableData[t]
               a == {x \in y.unsync : x > e}
               b == {x \in y.spill : x[1] > e}
               c == <<e>> \o y.syncing
    <3>1. td1[t] = SyncedTable(y, a, b, c)
      BY <2>1 DEF SyncedTable
    <3>2. TableShape(y) /\ EpochSets(a, b)
      BY <1>5 DEF TableShape, EpochSets
    <3> HIDE DEF td1, a, b, c, y
    <3>3. /\ TableShape(SyncedTable(y, a, b, c))
          /\ SyncedTable(y, a, b, c).unsync = a /\ SyncedTable(y, a, b, c).spill = b
          /\ SyncedTable(y, a, b, c).syncing = c /\ SyncedTable(y, a, b, c).synced = y.synced
      BY <3>2, TableSynced
    <3> QED BY <3>1, <3>3, <2>1 DEF a, b, c, y
  <2>2. CASE t \notin T
    BY <2>2, <1>5
  <2> QED BY <2>1, <2>2
<1> HIDE DEF td1, s, extra
<1>12. LeftTables(tableData, td1, e, T) /\ SyncPushed(tableData, td1, e, T)
  BY <1>10, <1>11 DEF LeftTables, SyncPushed
<1>13. UploaderOK(tasks', spilledData', Append(syncing, s), td1, unsyncEpochs')
  <2> DEFINE F == flush # {}
  <2>0. F \in BOOLEAN
    OBVIOUS
  <2>1. SyncTasks(tasks, tasks', taskIds, s.id, F, extra)
    BY <1>8, <1>9
  <2>2. NewIds(tasks, spilledData, syncing, s, extra)
    BY <1>2, <1>7, <1>8 DEF NewIds
  <2>3. s.remaining = WaitsFor(spilledData, taskIds, F, extra)
    BY <1>8, <1>61
  <2> HIDE DEF F
  <2>4. UploaderOK(tasks', LeftSpills(spilledData, taskIds), Append(syncing, s), td1,
                   LeftEpochs(unsyncEpochs, e, T))
    BY <2>0, <2>1, <2>2, <2>3, <1>12, SyncStarted DEF taskIds
  <2> QED BY <2>4, <1>6
<1>14. SyncStep(e, T, s, extra, td1)
  <2>1. instData' = [i \in {i \in DOMAIN instData : ~(TableOf[i] \in T /\ IsFinished(SyncedInst(e, T)[i]))}
                       |-> SyncedInst(e, T)[i]]
    BY <1>1 DEF synced
  <2>3. MayNotifySyncTask(Append(syncing, s), td1, instData')
    BY <1>1
  <2>4. extra = [id |-> NextTaskId, input |-> [i \in Flushed(e, T) |-> SealedBefore(instData[i], e)],
              tables |-> {}, sync |-> NextSyncId]
    BY DEF extra, n, m, flush
  <2>5. s = [id |-> NextSyncId, epoch |-> e, tables |-> T, remaining |-> s.remaining,
          uploaded |-> NewestFirst(TakenOf(spilledData, tableData, e, T))]
    BY <1>8 DEF m, uploaded
  <2>6. SyncTasks(tasks, tasks', TakenIds(tableData, e, T), NextSyncId, Flushed(e, T) # {}, extra)
    BY <1>9 DEF taskIds, m, flush
  <2>7. spilledData' = LeftSpills(spilledData, TakenIds(tableData, e, T))
        /\ unsyncEpochs' = LeftEpochs(unsyncEpochs, e, T)
    BY <1>6 DEF taskIds
  <2> QED BY <2>1, <2>3, <2>4, <2>5, <2>6, <2>7, <1>12, <1>13 DEF SyncStep
<1> QED BY <1>14

\* next_uploaded_sst of a task that is part of a sync: sy1 are the syncs before any is answered.
UploadStep(sy1) ==
  /\ IsSeq(sy1) /\ DOMAIN sy1 = DOMAIN syncing
  /\ \A k \in DOMAIN syncing :
       /\ sy1[k].id = syncing[k].id /\ sy1[k].epoch = syncing[k].epoch /\ sy1[k].tables = syncing[k].tables
       /\ sy1[k].uploaded = IF syncing[k].id = Head(tasks).sync
                            THEN <<Head(tasks).input>> \o syncing[k].uploaded ELSE syncing[k].uploaded
  /\ UploaderOK(tasks', spilledData, sy1, tableData, unsyncEpochs)
  /\ \A x : IsSpill(x, tasks, spilledData) <=> IsSpill(x, tasks', spilledData)
  /\ MayNotifySyncTask(sy1, tableData, instData')
  /\ UNCHANGED spilledData

\* A sync that has one more SST and waits for one task less.
SyncAfter(x, up, rem) == [x EXCEPT !.uploaded = up, !.remaining = rem]

\* The fields of a sync whose task has been uploaded.
LEMMA SyncUpdated ==
  ASSUME NEW x, SyncShape(x), NEW up, NEW rem, IsSeq(up)
  PROVE  /\ SyncShape(SyncAfter(x, up, rem)) /\ SyncAfter(x, up, rem).id = x.id
         /\ SyncAfter(x, up, rem).epoch = x.epoch /\ SyncAfter(x, up, rem).tables = x.tables
         /\ SyncAfter(x, up, rem).uploaded = up /\ SyncAfter(x, up, rem).remaining = rem
<1>1. x = [id |-> x.id, epoch |-> x.epoch, tables |-> x.tables, remaining |-> x.remaining,
           uploaded |-> x.uploaded] /\ x.id \in Nat \ {0} /\ x.epoch \in Nat
  BY DEF SyncShape
<1> DEFINE x1 == [x EXCEPT !.uploaded = up]
           x2 == [x1 EXCEPT !.remaining = rem]
           y == SyncAfter(x, up, rem)
<1>2. y = x2
  BY DEF SyncAfter
<1> HIDE DEF y
<1>3. x1 = [id |-> x.id, epoch |-> x.epoch, tables |-> x.tables, remaining |-> x.remaining, uploaded |-> up]
  BY <1>1
<1> HIDE DEF x1
<1>4. x2 = [id |-> x.id, epoch |-> x.epoch, tables |-> x.tables, remaining |-> rem, uploaded |-> up]
  BY <1>3
<1> HIDE DEF x2
<1>5. /\ SyncShape(y) /\ y.id = x.id /\ y.epoch = x.epoch /\ y.tables = x.tables
      /\ y.uploaded = up /\ y.remaining = rem
  BY <1>1, <1>2, <1>4 DEF SyncShape
<1> QED BY <1>5 DEF y

\* A sequence with one more element at the front.
LEMMA SeqCons ==
  ASSUME NEW s, IsSeq(s), NEW x
  PROVE  /\ IsSeq(<<x>> \o s) /\ Len(<<x>> \o s) = Len(s) + 1 /\ (<<x>> \o s)[1] = x
         /\ \A k \in 1..Len(s) : (<<x>> \o s)[k + 1] = s[k]
<1>1. IsSeq(<<x>>) /\ Len(<<x>>) = 1 /\ <<x>>[1] = x
  <2>1. <<x>> \in Seq({x})
    OBVIOUS
  <2> QED BY <2>1 DEF IsSeq
<1>2. Len(s) \in Nat
  BY SeqDomain
<1> QED BY <1>1, <1>2, SeqConcat

\* next_uploaded_sst keeps what the uploader knows of its tasks.
LEMMA Uploads ==
  ASSUME UploaderOK(tasks, spilledData, syncing, tableData, unsyncEpochs), NextUploadedSst
  PROVE  /\ UploaderOK(tasks', spilledData', syncing', tableData', unsyncEpochs')
         /\ IsSeq(tasks) /\ tasks # <<>> /\ tasks' = Tail(tasks) /\ Head(tasks) = tasks[1]
         /\ UNCHANGED <<working, unsyncEpochs>> /\ instData' = AckFlushed(Head(tasks)) /\ working
         /\ \/ /\ Head(tasks).sync = 0
               /\ spilledData' = spilledData \cup {Head(tasks)} /\ UNCHANGED <<tableData, syncing, answers>>
               /\ \A x : IsSpill(x, tasks, spilledData) <=> IsSpill(x, tasks', spilledData')
            \/ Head(tasks).sync # 0 /\ \E sy1 : UploadStep(sy1)
<1> DEFINE x0 == Head(tasks)
<1>0. IsSeq(tasks) /\ IsSeq(syncing) /\ \A k \in DOMAIN syncing : SyncShape(syncing[k])
  BY DEF UploaderOK, Shapes
<1>1. /\ tasks # <<>> /\ tasks' = Tail(tasks) /\ UNCHANGED <<working, unsyncEpochs>>
      /\ instData' = AckFlushed(Head(tasks)) /\ working
  BY DEF NextUploadedSst
<1>2. x0 = tasks[1]
  BY <1>0, <1>1, SeqTail
<1>3. CASE x0.sync = 0
  <2>1. spilledData' = spilledData \cup {x0} /\ UNCHANGED <<tableData, syncing, answers>>
    BY <1>3 DEF NextUploadedSst
  <2>2. /\ UploaderOK(Tail(tasks), spilledData \cup {x0}, syncing, tableData, unsyncEpochs)
        /\ \A x : IsSpill(x, tasks, spilledData) <=> IsSpill(x, Tail(tasks), spilledData \cup {x0})
    BY <1>1, <1>3, SpillUploaded
  <2> QED BY <1>0, <1>1, <1>2, <1>3, <2>1, <2>2
<1>4. CASE x0.sync # 0
  <2> DEFINE Up(k) == <<x0.input>> \o syncing[k].uploaded
             Rem(k) == syncing[k].remaining \ {x0.id}
             sy1 == [k \in DOMAIN syncing |->
                       IF syncing[k].id = x0.sync
                       THEN [syncing[k] EXCEPT !.uploaded = <<x0.input>> \o @, !.remaining = @ \ {x0.id}]
                       ELSE syncing[k]]
  <2>1. MayNotifySyncTask(sy1, tableData, instData') /\ UNCHANGED spilledData
    BY <1>4 DEF NextUploadedSst
  <2>2. \A k \in DOMAIN syncing : sy1[k] = IF syncing[k].id = x0.sync THEN SyncAfter(syncing[k], Up(k), Rem(k))
                                           ELSE syncing[k]
    BY DEF SyncAfter
  <2>3. IsSeq(sy1) /\ DOMAIN sy1 = DOMAIN syncing
    <3>1. Len(syncing) \in Nat /\ DOMAIN syncing = 1..Len(syncing)
      BY <1>0, SeqDomain
    <3>2. sy1 = [k \in 1..Len(syncing) |-> sy1[k]]
      BY <3>1
    <3> HIDE DEF sy1
    <3> QED BY <3>1, <3>2, SeqMap
  <2>4. \A k \in DOMAIN syncing : IsSeq(Up(k))
    BY <1>0, SeqCons DEF SyncShape
  <2> HIDE DEF sy1, Up, Rem
  <2>5. ASSUME NEW k \in DOMAIN syncing
        PROVE  /\ SyncShape(sy1[k])
               /\ sy1[k].id = syncing[k].id /\ sy1[k].epoch = syncing[k].epoch
               /\ sy1[k].tables = syncing[k].tables
               /\ sy1[k].uploaded = IF syncing[k].id = x0.sync THEN Up(k) ELSE syncing[k].uploaded
               /\ sy1[k].remaining = IF syncing[k].id = x0.sync THEN Rem(k) ELSE syncing[k].remaining
    <3>1. CASE syncing[k].id = x0.sync
      <4>1. sy1[k] = SyncAfter(syncing[k], Up(k), Rem(k))
        BY <2>2, <3>1
      <4> QED BY <4>1, <3>1, <2>4, <1>0, SyncUpdated
    <3>2. CASE syncing[k].id # x0.sync
      BY <2>2, <3>2, <1>0
    <3> QED BY <3>1, <3>2
  <2>6. /\ UploaderOK(Tail(tasks), spilledData, sy1, tableData, unsyncEpochs)
        /\ \A x : IsSpill(x, tasks, spilledData) <=> IsSpill(x, Tail(tasks), spilledData)
    <3>1. \A k \in DOMAIN syncing :
           /\ SyncShape(sy1[k]) /\ sy1[k].id = syncing[k].id
           /\ sy1[k].remaining = IF syncing[k].id = Head(tasks).sync THEN syncing[k].remaining \ {Head(tasks).id}
                                 ELSE syncing[k].remaining
      BY <2>5 DEF Rem
    <3> QED BY <3>1, <2>3, <1>1, <1>4, SyncTaskUploaded
  <2>7. UploadStep(sy1)
    BY <2>1, <2>3, <2>5, <2>6, <1>1 DEF UploadStep, Up
  <2>8. UploaderOK(tasks', spilledData, syncing', tableData', unsyncEpochs)
    BY <2>1, <2>6, <1>1, Notifies
  <2> QED BY <1>0, <1>1, <1>2, <1>4, <2>1, <2>7, <2>8
<1> QED BY <1>3, <1>4

\* clear_tables of T.
LEMMA Clears ==
  ASSUME UploaderOK(tasks, spilledData, syncing, tableData, unsyncEpochs), NEW T, working, T # {},
         Separates(unsyncEpochs, T), ClearTables(T)
  PROVE  /\ UploaderOK(tasks', spilledData', syncing', tableData', unsyncEpochs')
         /\ ClearedTo(tasks, tasks', spilledData, spilledData', syncing, syncing', T)
<1> DEFINE gone == Aborted(tableData, syncing, T)
           I == {k \in DOMAIN tasks : tasks[k].id \notin gone}
           J == {k \in DOMAIN syncing : syncing[k].tables \cap T = {}}
<1>0. IsSeq(tasks) /\ IsSeq(syncing)
  BY DEF UploaderOK, Shapes
<1>1. AbortedTasks(T) = gone
  BY DEF AbortedTasks, Aborted
<1>2. /\ tableData' = [t \in DOMAIN tableData \ T |-> tableData[t]]
      /\ spilledData' = {s \in spilledData : s.id \notin gone}
      /\ tasks' = Keep(tasks, I)
      /\ unsyncEpochs' = {u \in unsyncEpochs : u.tables \cap T = {}}
      /\ syncing' = Keep(syncing, J)
  BY <1>1 DEF ClearTables
<1>3. AbortsOf(tasks, spilledData, syncing, T, gone)
  BY AbortedAre
<1>4. I \subseteq DOMAIN tasks /\ J \subseteq DOMAIN syncing
  OBVIOUS
<1>5. /\ \A k \in I : tasks[k].id \notin gone
      /\ \A k \in J : syncing[k].tables \cap T = {}
      /\ \A m \in DOMAIN tasks : tasks[m].id \notin gone => m \in I
      /\ \A m \in DOMAIN syncing : syncing[m].tables \cap T = {} => m \in J
  OBVIOUS
<1> HIDE DEF I, J, gone
<1>6. /\ IsSeq(tasks')
      /\ \E f \in [DOMAIN tasks' -> DOMAIN tasks] :
           /\ \A j, k \in DOMAIN tasks' : j < k => f[j] < f[k]
           /\ \A k \in DOMAIN tasks' : f[k] \in I /\ tasks'[k] = tasks[f[k]]
           /\ \A m \in I : \E k \in DOMAIN tasks' : f[k] = m
  BY <1>0, <1>2, <1>4, KeepFacts
<1>7. /\ IsSeq(syncing')
      /\ \E f \in [DOMAIN syncing' -> DOMAIN syncing] :
           /\ \A j, k \in DOMAIN syncing' : j < k => f[j] < f[k]
           /\ \A k \in DOMAIN syncing' : f[k] \in J /\ syncing'[k] = syncing[f[k]]
           /\ \A m \in J : \E k \in DOMAIN syncing' : f[k] = m
  BY <1>0, <1>2, <1>4, KeepFacts
<1>8. PICK f : TasksLeft(tasks, tasks', f, gone)
  BY <1>5, <1>6 DEF TasksLeft
<1>9. PICK g : SyncsOutside(syncing, syncing', g, T)
  BY <1>5, <1>7 DEF SyncsOutside
<1>10. TablesOutside(tableData, tableData', T)
  BY <1>2 DEF TablesOutside
<1>11. /\ UploaderOK(tasks', LeftSpills(spilledData, gone), syncing', tableData', EpochsOutside(unsyncEpochs, T))
       /\ ClearedTo(tasks, tasks', spilledData, LeftSpills(spilledData, gone), syncing, syncing', T)
  BY <1>3, <1>8, <1>9, <1>10, TablesCleared
<1>12. LeftSpills(spilledData, gone) = spilledData' /\ EpochsOutside(unsyncEpochs, T) = unsyncEpochs'
  BY <1>2 DEF LeftSpills, EpochsOutside
<1> QED BY <1>11, <1>12

\* A table x of which only the synced or the stopped epoch changes.
NotedTable(x, y) == \E c : y = [x EXCEPT !.synced = c] \/ y = [x EXCEPT !.stopped = c] \/ y = x

\* update_pinned_version and local_seal_epoch change only what nothing looks at.
LEMMA TablesNoted ==
  ASSUME UploaderOK(tasks, spilledData, syncing, tableData, unsyncEpochs), NEW td2,
         DOMAIN td2 = DOMAIN tableData,
         \A t \in DOMAIN tableData : NotedTable(tableData[t], td2[t])
  PROVE  /\ UploaderOK(tasks, spilledData, syncing, td2, unsyncEpochs)
         /\ \A t \in DOMAIN tableData : td2[t].unsync = tableData[t].unsync /\ td2[t].spill = tableData[t].spill
<1>1. ASSUME NEW t \in DOMAIN tableData PROVE SameTable(tableData[t], td2[t])
  <2> DEFINE x == tableData[t]
             y == td2[t]
  <2>1. x = [unsync |-> x.unsync, spill |-> x.spill, stopped |-> x.stopped, syncing |-> x.syncing,
             synced |-> x.synced] /\ x.unsync \subseteq Nat /\ x.spill \subseteq Nat \X Nat
    BY DEF UploaderOK, Shapes, TableShape
  <2>2. PICK c : y = [x EXCEPT !.synced = c] \/ y = [x EXCEPT !.stopped = c] \/ y = x
    BY DEF NotedTable
  <2> HIDE DEF x, y
  <2>3. CASE y = [x EXCEPT !.synced = c]
    <3>1. y = [unsync |-> x.unsync, spill |-> x.spill, stopped |-> x.stopped, syncing |-> x.syncing,
               synced |-> c]
      BY <2>1, <2>3
    <3> QED BY <2>1, <3>1 DEF SameTable, TableShape, x, y
  <2>4. CASE y = [x EXCEPT !.stopped = c]
    <3>1. y = [unsync |-> x.unsync, spill |-> x.spill, stopped |-> c, syncing |-> x.syncing,
               synced |-> x.synced]
      BY <2>1, <2>4
    <3> QED BY <2>1, <3>1 DEF SameTable, TableShape, x, y
  <2>5. CASE y = x
    BY <2>1, <2>5 DEF SameTable, TableShape, x, y
  <2> QED BY <2>2, <2>3, <2>4, <2>5
<1>2. TablesKept(tableData, td2)
  BY <1>1 DEF TablesKept
<1>3. UploaderOK(tasks, spilledData, syncing, td2, unsyncEpochs)
  BY <1>2, KeepTables
<1> QED BY <1>1, <1>3 DEF SameTable

-----------------------------------------------------------------------------
\* The actions of the node keep NodeOK.

\* An actor that collects a barrier leaves its other fields alone.
LEMMA CollectedShape ==
  ASSUME NEW b, BarrierShape(b), NEW i
  PROVE  /\ Without(b, i) = [b EXCEPT !.remaining = Without(b, i).remaining]
         /\ Without(b, i).remaining = b.remaining \ {i}
         /\ b = [b EXCEPT !.remaining = b.remaining]
<1>1. b = [prev |-> b.prev, curr |-> b.curr, kind |-> b.kind, cmd |-> b.cmd, stop |-> b.stop,
           sync |-> b.sync, remaining |-> b.remaining]
  BY DEF BarrierShape
<1>2. Without(b, i) = [prev |-> b.prev, curr |-> b.curr, kind |-> b.kind, cmd |-> b.cmd, stop |-> b.stop,
                       sync |-> b.sync, remaining |-> b.remaining \ {i}]
  BY <1>1 DEF Without
<1>3. Without(b, i).remaining = b.remaining \ {i}
  BY <1>2
<1>4. Without(b, i) = [b EXCEPT !.remaining = Without(b, i).remaining]
  BY <1>3 DEF Without
<1>5. b = [b EXCEPT !.remaining = b.remaining]
  BY <1>1
<1> QED BY <1>3, <1>4, <1>5

\* The barriers of q at the places of K are collected by i.
CollectAt(q, K, i) == [k \in DOMAIN q |-> IF k \in K THEN Without(q[k], i) ELSE q[k]]

\* Collecting barriers leaves the other fields alone.
LEMMA Collected ==
  ASSUME NEW q, IsSeq(q), \A k \in DOMAIN q : BarrierShape(q[k]), NEW K, NEW i, NEW q2,
         q2 = CollectAt(q, K, i)
  PROVE  SameBarriers(q, q2)
<1> USE DEF CollectAt
<1>1. Len(q) \in Nat /\ DOMAIN q = 1..Len(q)
  BY SeqDomain
<1>2. q2 = [k \in 1..Len(q) |-> q2[k]]
  BY <1>1
<1>3. IsSeq(q2) /\ DOMAIN q2 = DOMAIN q
  BY <1>1, <1>2, SeqMap
<1>4. ASSUME NEW k \in DOMAIN q
      PROVE  q2[k] = [q[k] EXCEPT !.remaining = q2[k].remaining] /\ q2[k].remaining \subseteq q[k].remaining
  <2>1. CASE k \in K
    <3>1. q2[k] = Without(q[k], i)
      BY <2>1
    <3>2. /\ Without(q[k], i) = [q[k] EXCEPT !.remaining = Without(q[k], i).remaining]
          /\ Without(q[k], i).remaining = q[k].remaining \ {i}
      BY CollectedShape
    <3> QED BY <3>1, <3>2
  <2>2. CASE k \notin K
    <3>1. q2[k] = q[k]
      BY <2>2
    <3>2. q[k] = [q[k] EXCEPT !.remaining = q[k].remaining]
      BY CollectedShape
    <3> QED BY <3>1, <3>2
  <2> QED BY <2>1, <2>2
<1> QED BY <1>3, <1>4 DEF SameBarriers

\* Barriers that nobody collects stay the same.
LEMMA NothingCollected ==
  ASSUME NEW q, IsSeq(q), \A k \in DOMAIN q : BarrierShape(q[k])
  PROVE  SameBarriers(q, q)
BY CollectedShape DEF SameBarriers

\* Collect and the end of a stream remove i from the barriers at the places K of its group.
CollectedBy(br, br2, i) ==
  /\ DOMAIN br2 = DOMAIN br
  /\ \A g \in DOMAIN br : br2[g] = br[g] \/ \E K : br2[g] = CollectAt(br[g], K, i)

\* An actor collects one barrier.
LEMMA CollectStep ==
  ASSUME NEW i, NEW b, Collect(i, b)
  PROVE  CollectedBy(barriers, barriers', i)
<1> DEFINE h == GroupOf[i]
           q == barriers[h]
           K == {k \in DOMAIN q : q[k].curr = b.curr}
<1>1. CollectAt(q, K, i) = [k \in DOMAIN q |-> IF q[k].curr = b.curr THEN Without(q[k], i) ELSE q[k]]
  BY DEF CollectAt
<1>2. /\ DOMAIN barriers' = DOMAIN barriers
      /\ \A g \in DOMAIN barriers : g # h => barriers'[g] = barriers[g]
  BY DEF Collect
<1>3. h \in DOMAIN barriers => barriers'[h] =
        [k \in DOMAIN q |-> IF q[k].curr = b.curr THEN Without(q[k], i) ELSE q[k]]
  BY DEF Collect
<1>4. h \in DOMAIN barriers => barriers'[h] = CollectAt(barriers[h], K, i)
  BY <1>1, <1>3
<1> HIDE DEF h, K
<1> QED BY <1>2, <1>4 DEF CollectedBy

\* An actor whose stream is dropped collects the barriers that stop it.
LEMMA DropStep ==
  ASSUME NEW i, DropStream(i)
  PROVE  CollectedBy(barriers, barriers', i)
<1> DEFINE h == GroupOf[i]
           q == barriers[h]
           K == {k \in DOMAIN q : i \in q[k].stop}
<1>1. CollectAt(q, K, i) = [k \in DOMAIN q |-> IF i \in q[k].stop THEN Without(q[k], i) ELSE q[k]]
  BY DEF CollectAt
<1>2. /\ DOMAIN barriers' = DOMAIN barriers
      /\ \A g \in DOMAIN barriers : g # h => barriers'[g] = barriers[g]
  BY DEF DropStream
<1>3. h \in DOMAIN barriers => barriers'[h] =
        [k \in DOMAIN q |-> IF i \in q[k].stop THEN Without(q[k], i) ELSE q[k]]
  BY DEF DropStream
<1>4. h \in DOMAIN barriers => barriers'[h] = CollectAt(barriers[h], K, i)
  BY <1>1, <1>3
<1> HIDE DEF h, K
<1> QED BY <1>2, <1>4 DEF CollectedBy

\* Such a step leaves all fields of the barriers but the actors they wait for.
LEMMA CollectedSame ==
  ASSUME NEW br, NEW br2, NEW le, NEW md, NEW i, Chain(br, le, md), CollectedBy(br, br2, i)
  PROVE  DOMAIN br2 = Group /\ \A g \in Group : SameBarriers(br[g], br2[g])
<1>1. ASSUME NEW g \in Group PROVE SameBarriers(br[g], br2[g])
  <2>1. IsSeq(br[g]) /\ \A k \in DOMAIN br[g] : BarrierShape(br[g][k])
    BY DEF Chain, ChainOf
  <2>2. CASE br2[g] = br[g]
    BY <2>1, <2>2, NothingCollected
  <2>3. CASE \E K : br2[g] = CollectAt(br[g], K, i)
    BY <2>1, <2>3, Collected
  <2>4. g \in DOMAIN br
    BY DEF Chain
  <2> QED BY <2>2, <2>3, <2>4 DEF CollectedBy
<1> QED BY <1>1 DEF Chain, CollectedBy

\* A barrier is issued.
LEMMA IssueKeeps ==
  ASSUME NodeOK, NEW g \in Group, NEW b, NEW T, NEW new, Issue(g, b, T, new),
         IssuedOf(b, g, T, tables[g], lastEpoch[g], mode[g]), mode' = Put(mode, g, "running")
  PROVE  NodeOK'
<1>1. /\ Types(working, mode, tables, lastEpoch)
      /\ Idle(working, tasks, spilledData, syncing, tableData, unsyncEpochs, instData)
      /\ UploaderOK(tasks, spilledData, syncing, tableData, unsyncEpochs)
      /\ Chain(barriers, lastEpoch, mode)
      /\ Epochs(unsyncEpochs, barriers, tables, lastEpoch, mode)
      /\ Queue(working, unsyncEpochs, barriers, tables, lastEpoch, mode)
  BY DEF NodeOK
<1>2. StartEpoch(b.curr, T, CommittedEpochs(notified))
  BY DEF Issue
<1>3. b.curr \in Nat /\ T # {}
  BY DEF IssuedOf, BarrierShape
<1>4. NoneIfIdle(working, unsyncEpochs)
  BY <1>1 DEF Idle, NoneIfIdle
<1>5. Numbered(unsyncEpochs)
  BY <1>1 DEF UploaderOK, Shapes, Numbered
<1>6. UNCHANGED <<working, instData>>
  BY <1>2 DEF StartEpoch
<1>7. unsyncEpochs' = Started(working, unsyncEpochs, b.curr, T) /\ UploaderOK(tasks', spilledData', syncing', tableData', unsyncEpochs')
      /\ Idle(working', tasks', spilledData', syncing', tableData', unsyncEpochs', instData')
  <2>1. CASE working
    BY <2>1, <1>1, <1>2, <1>3, <1>6, EpochStarts DEF Idle, Started
  <2>2. CASE ~working
    <3>1. UNCHANGED <<tasks, spilledData, syncing, tableData, unsyncEpochs>>
      BY <2>2, <1>2 DEF StartEpoch
    <3> QED BY <2>2, <3>1, <1>1, <1>6 DEF Started
  <2> QED BY <2>1, <2>2
<1>8. /\ tables' = Put(tables, g, T) /\ lastEpoch' = Put(lastEpoch, g, b.curr)
      /\ barriers' = Queued(barriers, g, b)
  BY DEF Issue, Queued, Put
<1>9. /\ Types(working, mode', tables', lastEpoch') /\ Chain(barriers', lastEpoch', mode')
      /\ Epochs(unsyncEpochs', barriers', tables', lastEpoch', mode')
      /\ Queue(working, unsyncEpochs', barriers', tables', lastEpoch', mode')
  <2>1. IssueStep(g, b, T, working, mode, mode', tables, tables', lastEpoch, lastEpoch', unsyncEpochs,
                  unsyncEpochs', barriers, barriers')
    BY <1>1, <1>4, <1>5, <1>7, <1>8 DEF IssueStep
  <2> QED BY <2>1, BarrierIssued
<1> QED BY <1>6, <1>7, <1>9 DEF NodeOK
\* NodeOK holds in the beginning.
LEMMA InitialState ==
  ASSUME Init
  PROVE  NodeOK
<1> USE DEF Init, UploaderInit
<1>1. Types(working, mode, tables, lastEpoch)
  BY GroupAssumption DEF Types
<1>2. UploaderOK(tasks, spilledData, syncing, tableData, unsyncEpochs)
  <2>1. IsSeq(<<>>)
    BY DEF IsSeq
  <2>2. DOMAIN tableData = {} /\ DOMAIN tasks = {} /\ DOMAIN syncing = {}
    BY DEF Empty
  <2> QED BY <2>1, <2>2, FS_EmptySet DEF UploaderOK, Shapes, UniqueIds, SpillsKnown, SpillsExist, SyncsKnown, EpochsKnown, IsSpill
<1>3. Chain(barriers, lastEpoch, mode)
  <2>1. IsSeq(<<>>)
    BY DEF IsSeq
  <2> QED BY <2>1 DEF Chain, ChainOf
<1>4. Epochs(unsyncEpochs, barriers, tables, lastEpoch, mode)
  BY DEF Epochs
<1>5. Queue(working, unsyncEpochs, barriers, tables, lastEpoch, mode)
  BY DEF Queue
<1>6. Idle(working, tasks, spilledData, syncing, tableData, unsyncEpochs, instData)
  BY DEF Idle
<1> QED BY <1>1, <1>2, <1>3, <1>4, <1>5, <1>6 DEF NodeOK

-----------------------------------------------------------------------------
\* Barriers

\* The conjuncts of NodeOK.
LEMMA Parts ==
  ASSUME NodeOK
  PROVE  /\ Types(working, mode, tables, lastEpoch)
         /\ Idle(working, tasks, spilledData, syncing, tableData, unsyncEpochs, instData)
         /\ UploaderOK(tasks, spilledData, syncing, tableData, unsyncEpochs)
         /\ Chain(barriers, lastEpoch, mode)
         /\ Epochs(unsyncEpochs, barriers, tables, lastEpoch, mode)
         /\ Queue(working, unsyncEpochs, barriers, tables, lastEpoch, mode)
         /\ Numbered(unsyncEpochs) /\ NoneIfIdle(working, unsyncEpochs)
         /\ working \in BOOLEAN
BY DEF NodeOK, UploaderOK, Shapes, Numbered, Idle, NoneIfIdle, Types

\* The barrier that is injected.
LEMMA InjectedBarrier ==
  ASSUME NodeOK, NEW g \in Group, NEW kind \in {"initial", "barrier", "checkpoint"}, NEW cmd, NEW stop,
         NEW new, NEW T, T \subseteq tables[g], ~(T \subseteq Droppable),
         kind # "checkpoint" => T = tables[g],
         mode[g] = IF kind = "initial" THEN "cleared" ELSE "running"
  PROVE  IssuedOf(Barrier(g, kind, cmd, stop, new), g, T, tables[g], lastEpoch[g], mode[g])
<1> DEFINE b == Barrier(g, kind, cmd, stop, new)
           m == Members(g) \cup new
           p == IF kind = "initial" THEN version.epoch[g] ELSE lastEpoch[g]
           y == IF kind = "checkpoint" THEN tables[g] ELSE {}
<1>1. lastEpoch[g] \in Nat /\ tables[g] \subseteq TablesOf[g]
  BY Parts DEF Types
<1>2. b = [prev |-> p, curr |-> lastEpoch[g] + 1, kind |-> kind, cmd |-> cmd, stop |-> stop, sync |-> y,
           remaining |-> m]
  BY DEF Barrier
<1>3. kind # "initial" => p = lastEpoch[g]
  OBVIOUS
<1>4. kind = "checkpoint" => y = tables[g]
  OBVIOUS
<1> HIDE DEF b, m, p, y
<1>5. BarrierShape(b)
  BY <1>1, <1>2, <1>3 DEF BarrierShape
<1>6. b.curr = lastEpoch[g] + 1 /\ b.kind = kind /\ b.prev = p /\ b.sync = y
  BY <1>2
<1>7. T \subseteq TablesOf[g]
  BY <1>1
<1>8. IssuedOf(b, g, T, tables[g], lastEpoch[g], mode[g])
  BY <1>3, <1>4, <1>5, <1>6, <1>7 DEF IssuedOf
<1> QED BY <1>8 DEF b

\* The first barrier of a database.
LEMMA InitialKeeps ==
  ASSUME NodeOK, NEW g \in Group, InjectInitial(g)
  PROVE  NodeOK'
<1> DEFINE new == {i \in Originals : TableOf[i] \in tables[g]}
           b == Barrier(g, "initial", "none", {}, new)
<1>1. /\ mode[g] = "cleared" /\ Issue(g, b, tables[g], new) /\ mode' = Put(mode, g, "running")
  BY DEF InjectInitial, Put
<1>2. tables[g] \subseteq tables[g] /\ ~(tables[g] \subseteq Droppable)
  BY Parts DEF Types
<1> HIDE DEF new
<1>3. IssuedOf(b, g, tables[g], tables[g], lastEpoch[g], mode[g])
  BY <1>1, <1>2, InjectedBarrier
<1> HIDE DEF b
<1> QED BY <1>1, <1>3, IssueKeeps

\* Every other barrier.
LEMMA CommandKeeps ==
  ASSUME NodeOK, NEW g \in Group, NEW kind \in {"barrier", "checkpoint"}, NEW cmd, NEW T, NEW stop, NEW new,
         mode[g] = "running", T \subseteq tables[g], ~(T \subseteq Droppable),
         kind # "checkpoint" => T = tables[g], InjectCommand(g, kind, cmd, T, stop, new)
  PROVE  NodeOK'
<1> DEFINE b == Barrier(g, kind, cmd, stop, new)
<1>1. Issue(g, b, T, new) /\ mode' = mode
  BY DEF InjectCommand
<1>2. mode' = Put(mode, g, "running")
  <2>1. mode = [mode EXCEPT ![g] = "running"]
    BY Parts DEF Types
  <2> QED BY <1>1, <2>1 DEF Put
<1>3. IssuedOf(b, g, T, tables[g], lastEpoch[g], mode[g])
  BY InjectedBarrier
<1> HIDE DEF b
<1> QED BY <1>1, <1>2, <1>3, IssueKeeps

\* A database gets a barrier.
LEMMA InjectKeeps ==
  ASSUME NodeOK, NEW g \in Group, Inject(g)
  PROVE  NodeOK'
<1>1. tables[g] \subseteq tables[g] /\ ~(tables[g] \subseteq Droppable)
  BY Parts DEF Types
<1>2. CASE InjectInitial(g)
  BY <1>2, InitialKeeps
<1>3. ASSUME NEW kind \in {"barrier", "checkpoint"}, InjectPlain(g, kind) PROVE NodeOK'
  <2>1. mode[g] = "running" /\ InjectCommand(g, kind, "none", tables[g], {}, {})
    BY <1>3 DEF InjectPlain, CanInject
  <2> QED BY <2>1, <1>1, CommandKeeps
<1>4. ASSUME NEW kind \in {"barrier", "checkpoint"}, InjectResume(g, kind) PROVE NodeOK'
  <2>1. mode[g] = "running" /\ InjectCommand(g, kind, "Resume", tables[g], {}, {})
    BY <1>4 DEF InjectResume, CanInject
  <2> QED BY <2>1, <1>1, CommandKeeps
<1>5. CASE InjectPause(g)
  <2>1. mode[g] = "running" /\ InjectCommand(g, "checkpoint", "Pause", tables[g], {}, {})
    BY <1>5 DEF InjectPause, CanInject
  <2> QED BY <2>1, <1>1, CommandKeeps
<1>6. CASE InjectUpdate(g)
  <2>1. mode[g] = "running" /\ \E stop, new : InjectCommand(g, "checkpoint", "Update", tables[g], stop, new)
    BY <1>6 DEF InjectUpdate, CanInject
  <2> QED BY <2>1, <1>1, CommandKeeps
<1>7. ASSUME NEW t \in Droppable, InjectDrop(g, t) PROVE NodeOK'
  <2> DEFINE T == tables[g] \ {t}
             stop == {i \in Members(g) : TableOf[i] = t}
  <2>1. mode[g] = "running" /\ InjectCommand(g, "checkpoint", "Drop", T, stop, {})
    BY <1>7 DEF InjectDrop, CanInject
  <2>2. T \subseteq tables[g] /\ ~(T \subseteq Droppable)
    BY <1>1
  <2> HIDE DEF T, stop
  <2> QED BY <2>1, <2>2, CommandKeeps
<1> QED BY <1>2, <1>3, <1>4, <1>5, <1>6, <1>7 DEF Inject

\* complete_barrier: the sync of a checkpoint.
LEMMA SyncKeeps ==
  ASSUME NodeOK, NEW g \in Group, mode[g] = "running", barriers[g] # <<>>, barriers[g][1].kind = "checkpoint",
         working, StartSyncEpoch(barriers[g][1].prev, barriers[g][1].sync)
  PROVE  /\ UploaderOK(tasks', spilledData', syncing', tableData', unsyncEpochs')
         /\ unsyncEpochs' = LeftEpochs(unsyncEpochs, barriers[g][1].prev, barriers[g][1].sync)
         /\ working' = working
         /\ \E s, extra, td1 : SyncStep(barriers[g][1].prev, barriers[g][1].sync, s, extra, td1)
<1> DEFINE e == barriers[g][1].prev
           T == barriers[g][1].sync
<1>1. Awaiting(unsyncEpochs, g, barriers[g], tables[g], lastEpoch[g])
  BY Parts DEF Queue
<1>2. EpochsKnown(tableData, unsyncEpochs)
  BY Parts DEF UploaderOK
<1>3. e \in Nat /\ T \subseteq DOMAIN tableData /\ ReachesOnly(unsyncEpochs, e, T)
  BY <1>1, <1>2, Parts, CheckpointTables
<1>4. working' = working
  BY DEF StartSyncEpoch
<1> HIDE DEF e, T
<1>5. StartSyncEpoch(e, T)
  BY DEF e, T
<1>6. PICK s, extra, td1 : SyncStep(e, T, s, extra, td1)
  BY <1>3, <1>5, Parts, SyncStarts
<1>7. /\ UploaderOK(tasks', spilledData', Append(syncing, s), td1, unsyncEpochs')
      /\ MayNotifySyncTask(Append(syncing, s), td1, instData')
      /\ unsyncEpochs' = LeftEpochs(unsyncEpochs, e, T)
  BY <1>6 DEF SyncStep
<1>8. UploaderOK(tasks', spilledData', syncing', tableData', unsyncEpochs')
  BY <1>7, Notifies
<1> QED BY <1>4, <1>6, <1>7, <1>8 DEF e, T

\* The first barrier completes.
LEMMA CompleteKeeps ==
  ASSUME NodeOK, NEW g \in Group, CompleteBarrier(g)
  PROVE  NodeOK'
<1> DEFINE b == barriers[g][1]
<1>1. /\ mode[g] = "running" /\ barriers' = Popped(barriers, g) /\ 1 \in DOMAIN barriers[g]
      /\ IF b.kind = "checkpoint" THEN StartSyncEpoch(b.prev, b.sync) ELSE UNCHANGED uploaderVars
      /\ UNCHANGED <<mode, tables, lastEpoch>>
  BY DEF CompleteBarrier, NextCollected, Popped
<1>2. barriers[g] # <<>>
  BY <1>1, EmptySeq
<1>3. /\ UploaderOK(tasks', spilledData', syncing', tableData', unsyncEpochs') /\ working' = working
      /\ unsyncEpochs' = IF working /\ b.kind = "checkpoint" THEN LeftEpochs(unsyncEpochs, b.prev, b.sync)
                         ELSE unsyncEpochs
      /\ Idle(working', tasks', spilledData', syncing', tableData', unsyncEpochs', instData')
  <2>1. CASE b.kind # "checkpoint"
    BY <1>1, <2>1, Parts DEF uploaderVars
  <2>2. CASE b.kind = "checkpoint" /\ ~working
    <3>1. UNCHANGED <<working, instData, tableData, unsyncEpochs, spilledData, tasks, syncing>>
      BY <1>1, <2>2 DEF StartSyncEpoch
    <3> QED BY <2>2, <3>1, Parts
  <2>3. CASE b.kind = "checkpoint" /\ working
    <3>1. StartSyncEpoch(b.prev, b.sync)
      BY <1>1, <2>3
    <3>2. /\ UploaderOK(tasks', spilledData', syncing', tableData', unsyncEpochs')
          /\ unsyncEpochs' = LeftEpochs(unsyncEpochs, b.prev, b.sync) /\ working' = working
      BY <1>1, <1>2, <2>3, <3>1, SyncKeeps
    <3>3. Idle(working', tasks', spilledData', syncing', tableData', unsyncEpochs', instData')
      BY <2>3, <3>2 DEF Idle
    <3> QED BY <2>3, <3>2, <3>3
  <2> QED BY <2>1, <2>2, <2>3
<1>4. CompleteStep(g, working, mode, tables, lastEpoch, unsyncEpochs, unsyncEpochs', barriers, barriers')
  BY <1>1, <1>2, <1>3, Parts DEF CompleteStep
<1> HIDE DEF b
<1>5. /\ Chain(barriers', lastEpoch, mode) /\ Epochs(unsyncEpochs', barriers', tables, lastEpoch, mode)
      /\ Queue(working, unsyncEpochs', barriers', tables, lastEpoch, mode)
  BY <1>4, BarrierCompleted
<1> QED BY <1>1, <1>3, <1>5, Parts DEF NodeOK

-----------------------------------------------------------------------------
\* Actors

\* Actors collect barriers while the uploader only notes something in its tables or in the
\* instances it knows.
LEMMA CollectKeeps ==
  ASSUME NodeOK, NEW i, CollectedBy(barriers, barriers', i),
         UNCHANGED <<working, mode, tables, lastEpoch, tasks, spilledData, syncing, unsyncEpochs>>,
         UploaderOK(tasks, spilledData, syncing, tableData', unsyncEpochs),
         Idle(working, tasks, spilledData, syncing, tableData', unsyncEpochs, instData')
  PROVE  NodeOK'
<1>1. DOMAIN barriers' = Group /\ \A g \in Group : SameBarriers(barriers[g], barriers'[g])
  BY Parts, CollectedSame
<1>2. /\ Chain(barriers', lastEpoch, mode) /\ Epochs(unsyncEpochs, barriers', tables, lastEpoch, mode)
      /\ Queue(working, unsyncEpochs, barriers', tables, lastEpoch, mode)
  BY <1>1, Parts, BarriersCollected
<1> QED BY <1>2, Parts DEF NodeOK

\* No barrier is collected.
LEMMA CollectNothing ==
  ASSUME NEW i, barriers' = barriers
  PROVE  CollectedBy(barriers, barriers', i)
BY DEF CollectedBy

\* An actor that is built collects its first barrier.
LEMMA BuildKeeps ==
  ASSUME NodeOK, NEW i \in Instance, Build(i)
  PROVE  NodeOK'
<1>1. UNCHANGED <<mode, tables, lastEpoch>> /\ UNCHANGED uploaderVars /\ \E b : Collect(i, b)
  BY DEF Build
<1>2. CollectedBy(barriers, barriers', i)
  BY <1>1, CollectStep
<1> QED BY <1>1, <1>2, Parts, CollectKeeps DEF uploaderVars

\* InitEpoch of an instance, an imm of it and its end change the instances only.
LEMMA InstanceKeeps ==
  ASSUME NodeOK, UNCHANGED <<mode, tables, lastEpoch, barriers>>,
         UNCHANGED <<working, tableData, unsyncEpochs, spilledData, tasks, syncing>>,
         ~working => instData' = instData
  PROVE  NodeOK'
<1>1. Idle(working', tasks', spilledData', syncing', tableData', unsyncEpochs', instData')
  BY Parts DEF Idle
<1> QED BY <1>1, Parts DEF NodeOK

\* init of a local state store.
LEMMA InitStoreKeeps ==
  ASSUME NodeOK, NEW i \in Instance, InitStore(i)
  PROVE  NodeOK'
<1>1. /\ UNCHANGED <<mode, tables, lastEpoch, barriers>>
      /\ UNCHANGED <<working, tableData, unsyncEpochs, spilledData, tasks, syncing>>
      /\ ~working => instData' = instData
  BY DEF InitStore, InitInstance
<1> QED BY <1>1, InstanceKeeps

\* An imm is written.
LEMMA FlushKeeps ==
  ASSUME NodeOK, NEW i \in Instance, Flush(i)
  PROVE  NodeOK'
<1>1. /\ UNCHANGED <<mode, tables, lastEpoch, barriers>>
      /\ UNCHANGED <<working, tableData, unsyncEpochs, spilledData, tasks, syncing>>
      /\ ~working => instData' = instData
  BY DEF Flush, AddImm
<1> QED BY <1>1, InstanceKeeps

\* An instance seals its epoch, its table may note that it has stopped.
LEMMA SealKeeps ==
  ASSUME NodeOK, NEW i \in Instance, Seal(i)
  PROVE  NodeOK'
<1>1. PICK b : LocalSealEpoch(i, b.curr) /\ (Collect(i, b) \/ UNCHANGED barriers)
  BY DEF Seal
<1>2. UNCHANGED <<mode, tables, lastEpoch>>
  BY DEF Seal
<1>3. UNCHANGED <<working, unsyncEpochs, spilledData, tasks, syncing, answers>>
  BY <1>1 DEF LocalSealEpoch
<1>4. CollectedBy(barriers, barriers', i)
  BY <1>1, CollectStep, CollectNothing
<1>5. /\ DOMAIN tableData' = DOMAIN tableData
      /\ \A t \in DOMAIN tableData : \E c : \/ tableData'[t] = [tableData[t] EXCEPT !.synced = c]
                                           \/ tableData'[t] = [tableData[t] EXCEPT !.stopped = c]
                                           \/ tableData'[t] = tableData[t]
  <2> DEFINE c == IF tableData[TableOf[i]].stopped = 0 THEN b.curr ELSE tableData[TableOf[i]].stopped
  <2>1. \/ tableData' = tableData
        \/ tableData' = [tableData EXCEPT ![TableOf[i]].stopped = c]
    BY <1>1 DEF LocalSealEpoch
  <2> HIDE DEF c
  <2>2. CASE tableData' = tableData
    BY <2>2
  <2>3. CASE tableData' = [tableData EXCEPT ![TableOf[i]].stopped = c]
    <3>1. /\ DOMAIN tableData' = DOMAIN tableData
          /\ \A t \in DOMAIN tableData : \/ tableData'[t] = tableData[t]
                                         \/ tableData'[t] = [tableData[t] EXCEPT !.stopped = c]
      BY <2>3
    <3> QED BY <3>1
  <2> QED BY <2>1, <2>2, <2>3
<1>6. UploaderOK(tasks, spilledData, syncing, tableData', unsyncEpochs)
  <2>1. \A t \in DOMAIN tableData : NotedTable(tableData[t], tableData'[t])
    BY <1>5 DEF NotedTable
  <2> QED BY <1>5, <2>1, Parts, TablesNoted
<1>7. Idle(working, tasks, spilledData, syncing, tableData', unsyncEpochs, instData')
  <2>1. ~working => tableData' = tableData /\ instData' = instData
    BY <1>1 DEF LocalSealEpoch
  <2> QED BY <2>1, Parts DEF Idle
<1> QED BY <1>2, <1>3, <1>4, <1>6, <1>7, CollectKeeps

\* The stream of an actor is dropped.
LEMMA DropKeeps ==
  ASSUME NodeOK, NEW i \in Instance, DropStream(i)
  PROVE  NodeOK'
<1>1. /\ UNCHANGED <<mode, tables, lastEpoch>>
      /\ UNCHANGED <<working, tableData, unsyncEpochs, spilledData, tasks, syncing>>
      /\ instData = Empty => instData' = instData
  BY DEF DropStream, MayDestroyInstance, Empty
<1>2. CollectedBy(barriers, barriers', i)
  BY DropStep
<1>3. Idle(working, tasks, spilledData, syncing, tableData', unsyncEpochs, instData')
  BY <1>1, Parts DEF Idle
<1> QED BY <1>1, <1>2, <1>3, Parts, CollectKeeps

-----------------------------------------------------------------------------
\* Uploads, answers and versions

\* The uploader works on its own: the unsynced epochs stay.
LEMMA UploaderKeeps ==
  ASSUME NodeOK, UNCHANGED <<mode, tables, lastEpoch, barriers, working, unsyncEpochs>>, working,
         UploaderOK(tasks', spilledData', syncing', tableData', unsyncEpochs')
  PROVE  NodeOK'
<1>1. Idle(working', tasks', spilledData', syncing', tableData', unsyncEpochs', instData')
  BY DEF Idle
<1> QED BY <1>1, Parts DEF NodeOK

\* Data is spilled.
LEMMA SpillKeeps ==
  ASSUME NodeOK, SpillData
  PROVE  NodeOK'
<1>1. MayFlush /\ working /\ UNCHANGED <<mode, tables, lastEpoch, barriers>>
  BY DEF SpillData, MayFlush, nodeVars
<1>2. /\ UploaderOK(tasks', spilledData', syncing', tableData', unsyncEpochs')
      /\ UNCHANGED <<working, unsyncEpochs>>
  BY <1>1, Parts, Spills
<1> QED BY <1>1, <1>2, UploaderKeeps

\* An SST is uploaded.
LEMMA UploadKeeps ==
  ASSUME NodeOK, UploadedSst
  PROVE  NodeOK'
<1>1. NextUploadedSst /\ UNCHANGED <<mode, tables, lastEpoch, barriers>>
  BY DEF UploadedSst
<1>2. /\ UploaderOK(tasks', spilledData', syncing', tableData', unsyncEpochs')
      /\ UNCHANGED <<working, unsyncEpochs>> /\ working
  BY <1>1, Parts, Uploads
<1> QED BY <1>1, <1>2, UploaderKeeps

\* Answers and versions are not part of the predicate.
LEMMA AnswerKeeps ==
  ASSUME NodeOK, TakeSynced \/ TakeSyncError \/ ApplyVersionUpdate
  PROVE  NodeOK'
<1>1. UNCHANGED <<mode, tables, lastEpoch, barriers, working, instData, tableData, unsyncEpochs, spilledData,
                  tasks, syncing>>
  BY DEF TakeSynced, TakeSyncError, ApplyVersionUpdate, uploaderVars
<1> QED BY <1>1 DEF NodeOK

\* The uploader notes the committed epochs of a version.
LEMMA VersionKeeps ==
  ASSUME NodeOK, NotifyVersion
  PROVE  NodeOK'
<1> DEFINE c == CommittedEpochs(recent)
           S(t) == IF tableData[t].synced < c[t] THEN c[t] ELSE tableData[t].synced
<1>1. /\ UNCHANGED <<mode, tables, lastEpoch, barriers, working, instData, unsyncEpochs, spilledData,
                     tasks, syncing>>
      /\ UpdatePinnedVersion(c)
  BY DEF NotifyVersion, UpdatePinnedVersion
<1>2. tableData' = [t \in DOMAIN tableData |-> [tableData[t] EXCEPT !.synced = S(t)]]
  BY <1>1 DEF UpdatePinnedVersion
<1> HIDE DEF c, S
<1>3. /\ DOMAIN tableData' = DOMAIN tableData
      /\ \A t \in DOMAIN tableData : tableData'[t] = [tableData[t] EXCEPT !.synced = S(t)]
  BY <1>2
<1>4. UploaderOK(tasks, spilledData, syncing, tableData', unsyncEpochs)
  <2>1. \A t \in DOMAIN tableData : NotedTable(tableData[t], tableData'[t])
    BY <1>3 DEF NotedTable
  <2> QED BY <1>3, <2>1, Parts, TablesNoted
<1>5. tableData = Empty => tableData' = Empty
  BY <1>2 DEF Empty
<1>6. Idle(working', tasks', spilledData', syncing', tableData', unsyncEpochs', instData')
  BY <1>1, <1>5, Parts DEF Idle
<1> QED BY <1>1, <1>4, <1>6, Parts DEF NodeOK

-----------------------------------------------------------------------------
\* Failures and resets

\* The uploader drops everything and the databases that are left have stopped or it has failed.
LEMMA DropAll ==
  ASSUME ResetUploaderData
  PROVE  /\ UploaderOK(tasks', spilledData', syncing', tableData', unsyncEpochs') /\ unsyncEpochs' = {}
         /\ \A wk : Idle(wk, tasks', spilledData', syncing', tableData', unsyncEpochs', instData')
BY EmptyUploader DEF ResetUploaderData, Idle

\* The upload of a sync fails and the uploader stops.
LEMMA FailureKeeps ==
  ASSUME NodeOK, UploadFails
  PROVE  NodeOK'
<1>1. UNCHANGED <<mode, tables, lastEpoch, barriers>> /\ working' = FALSE /\ ResetUploaderData
  BY DEF UploadFails, SyncTaskFailed
<1>2. Types(working', mode, tables, lastEpoch)
  BY <1>1, Parts DEF Types
<1>3. /\ Epochs(unsyncEpochs', barriers, tables, lastEpoch, mode)
      /\ Queue(working', unsyncEpochs', barriers, tables, lastEpoch, mode)
  BY <1>1, DropAll DEF Epochs, Queue
<1> QED BY <1>1, <1>2, <1>3, Parts, DropAll DEF NodeOK

\* Databases are suspended.
LEMMA SuspendKeeps ==
  ASSUME NodeOK, NEW G, Suspend(G), \A g \in G : g \in Group => mode[g] = "running"
  PROVE  NodeOK'
<1>1. /\ UNCHANGED <<tables, lastEpoch, working, instData, tableData, unsyncEpochs, spilledData, tasks, syncing>>
      /\ mode' = [g \in Group |-> IF g \in G THEN "suspended" ELSE mode[g]]
      /\ barriers' = [g \in Group |-> IF g \in G THEN <<>> ELSE barriers[g]]
  BY DEF Suspend, uploaderVars
<1>2. \A u \in unsyncEpochs : \A g \in Group : u.tables \subseteq TablesOf[g] => mode'[g] # "cleared"
  <2> SUFFICES ASSUME NEW u \in unsyncEpochs, NEW g \in Group, u.tables \subseteq TablesOf[g]
               PROVE  mode'[g] # "cleared"
    OBVIOUS
  <2>1. PICK h \in Group : EpochOf(u, h, barriers[h], tables[h], lastEpoch[h], mode[h])
    BY Parts DEF Epochs
  <2>2. u.tables # {} /\ u.tables \subseteq TablesOf[h] /\ mode[h] # "cleared"
    BY <2>1 DEF EpochOf
  <2>3. h = g
    BY <2>2, GroupAssumption
  <2> QED BY <1>1, <2>2, <2>3
<1>3. /\ DOMAIN mode' = Group /\ DOMAIN barriers' = Group /\ mode' = [g \in Group |-> mode'[g]]
      /\ \A g \in Group : IF g \in G THEN barriers'[g] = <<>> /\ mode'[g] \in {"suspended", "cleared"}
                          ELSE barriers'[g] = barriers[g] /\ mode'[g] = mode[g]
  BY <1>1
<1>4. StopStep(G, working, working, mode, mode', tables, lastEpoch, unsyncEpochs, unsyncEpochs, barriers, barriers')
  BY <1>2, <1>3, Parts DEF StopStep
<1>5. /\ Types(working, mode', tables, lastEpoch) /\ Chain(barriers', lastEpoch, mode')
      /\ Epochs(unsyncEpochs, barriers', tables, lastEpoch, mode')
      /\ Queue(working, unsyncEpochs, barriers', tables, lastEpoch, mode')
  BY <1>4, DatabasesStopped
<1> QED BY <1>1, <1>5, Parts DEF NodeOK

\* The actors of one database fail, or all are aborted, by a reset or a panic.
LEMMA FailKeeps ==
  ASSUME NodeOK, (\E g \in Group : ActorFails(g) \/ NodePanics(g)) \/ AbortAll
  PROVE  NodeOK'
<1>1. ASSUME NEW g \in Group, ActorFails(g) PROVE NodeOK'
  <2>1. mode[g] = "running" /\ Suspend({g})
    BY <1>1 DEF ActorFails
  <2> QED BY <2>1, SuspendKeeps
<1>2. CASE AbortAll
  <2> DEFINE G == {g \in Group : mode[g] = "running"}
  <2>1. Suspend(G) /\ \A g \in G : g \in Group => mode[g] = "running"
    BY <1>2 DEF AbortAll
  <2> HIDE DEF G
  <2> QED BY <2>1, SuspendKeeps
<1>3. ASSUME NEW g \in Group, NodePanics(g) PROVE NodeOK'
  <2> DEFINE G == {h \in Group : mode[h] = "running"}
  <2>1. Suspend(G) /\ \A h \in G : h \in Group => mode[h] = "running"
    BY <1>3 DEF NodePanics
  <2> HIDE DEF G
  <2> QED BY <2>1, SuspendKeeps
<1> QED BY <1>1, <1>2, <1>3

\* A database that has stopped is cleared.
LEMMA ResetKeeps ==
  ASSUME NodeOK, NEW g \in Group, ResetDatabase(g)
  PROVE  NodeOK'
<1>1. /\ mode[g] = "suspended" /\ ClearTables(TablesOf[g]) /\ UNCHANGED <<tables, barriers, lastEpoch>>
      /\ mode' = [h \in Group |-> IF h \in {g} THEN "cleared" ELSE mode[h]]
  BY DEF ResetDatabase, AwaitActors
<1>2. TablesOf[g] # {}
  BY GroupAssumption
<1>3. \A u \in unsyncEpochs : \E h \in Group : u.tables # {} /\ u.tables \subseteq TablesOf[h]
  BY Parts DEF Epochs, EpochOf
<1>4. Separates(unsyncEpochs, TablesOf[g])
  BY <1>3, GroupAssumption DEF Separates
<1>5. /\ UploaderOK(tasks', spilledData', syncing', tableData', unsyncEpochs') /\ working' = working
      /\ unsyncEpochs' = EpochsOutside(unsyncEpochs, TablesOf[g])
      /\ Idle(working', tasks', spilledData', syncing', tableData', unsyncEpochs', instData')
  <2>1. CASE working
    <3>1. UploaderOK(tasks', spilledData', syncing', tableData', unsyncEpochs')
      BY <1>1, <1>2, <1>4, <2>1, Parts, Clears
    <3>2. working' = working /\ unsyncEpochs' = EpochsOutside(unsyncEpochs, TablesOf[g])
      BY <1>1, <1>2, <2>1 DEF ClearTables, EpochsOutside
    <3> QED BY <2>1, <3>1, <3>2 DEF Idle
  <2>2. CASE ~working
    <3>1. UNCHANGED <<working, instData, tableData, unsyncEpochs, spilledData, tasks, syncing>>
      BY <1>1, <2>2 DEF ClearTables, uploaderVars
    <3>2. unsyncEpochs = {}
      BY <2>2, Parts DEF NoneIfIdle
    <3>3. EpochsOutside(unsyncEpochs, TablesOf[g]) = {}
      BY <3>2 DEF EpochsOutside
    <3> QED BY <3>1, <3>2, <3>3, Parts
  <2> QED BY <2>1, <2>2
<1>6. /\ unsyncEpochs' \subseteq unsyncEpochs
      /\ \A u \in unsyncEpochs' : \A h \in Group : u.tables \subseteq TablesOf[h] => mode'[h] # "cleared"
      /\ \A u \in unsyncEpochs \ unsyncEpochs' : \A h \in Group : mode'[h] = "running"
                                                   => u.tables \cap TablesOf[h] = {}
  <2>1. /\ unsyncEpochs' \subseteq unsyncEpochs
        /\ \A u \in unsyncEpochs' : u.tables \cap TablesOf[g] = {}
        /\ \A u \in unsyncEpochs \ unsyncEpochs' : u.tables \cap TablesOf[g] # {}
    BY <1>5 DEF EpochsOutside
  <2>2. ASSUME NEW u \in unsyncEpochs', NEW h \in Group, u.tables \subseteq TablesOf[h]
        PROVE  mode'[h] # "cleared"
    <3>1. PICK k \in Group : EpochOf(u, k, barriers[k], tables[k], lastEpoch[k], mode[k])
      BY <2>1, Parts DEF Epochs
    <3>2. u.tables # {} /\ u.tables \subseteq TablesOf[k] /\ mode[k] # "cleared"
      BY <3>1 DEF EpochOf
    <3>3. h = k /\ h # g
      BY <2>1, <2>2, <3>2, GroupAssumption
    <3> QED BY <1>1, <3>2, <3>3
  <2>3. ASSUME NEW u \in unsyncEpochs \ unsyncEpochs', NEW h \in Group, mode'[h] = "running"
        PROVE  u.tables \cap TablesOf[h] = {}
    <3>1. h # g
      BY <1>1, <2>3
    <3>2. u.tables \subseteq TablesOf[g]
      BY <2>1, <1>4 DEF Separates
    <3> QED BY <3>1, <3>2, GroupAssumption
  <2> QED BY <2>1, <2>2, <2>3
<1>7. barriers[g] = <<>> /\ DOMAIN barriers = Group
  BY <1>1, Parts DEF Chain, ChainOf
<1>8. /\ DOMAIN mode' = Group /\ mode' = [h \in Group |-> mode'[h]]
      /\ \A h \in Group : IF h \in {g} THEN barriers[h] = <<>> /\ mode'[h] \in {"suspended", "cleared"}
                          ELSE barriers[h] = barriers[h] /\ mode'[h] = mode[h]
  BY <1>1, <1>7
<1>9. StopStep({g}, working, working, mode, mode', tables, lastEpoch, unsyncEpochs, unsyncEpochs', barriers, barriers)
  BY <1>6, <1>7, <1>8, Parts DEF StopStep
<1>10. /\ Types(working, mode', tables, lastEpoch) /\ Chain(barriers, lastEpoch, mode')
       /\ Epochs(unsyncEpochs', barriers, tables, lastEpoch, mode')
       /\ Queue(working, unsyncEpochs', barriers, tables, lastEpoch, mode')
  BY <1>9, DatabasesStopped
<1> QED BY <1>1, <1>5, <1>10 DEF NodeOK

\* The node is reset.
LEMMA ResetNodeKeeps ==
  ASSUME NodeOK, ResetNode
  PROVE  NodeOK'
<1>1. /\ \A g \in Group : mode[g] # "running"
      /\ mode' = [h \in Group |-> IF h \in Group THEN "cleared" ELSE mode[h]]
      /\ UNCHANGED <<tables, barriers, lastEpoch>> /\ working' = TRUE /\ ResetUploaderData
  BY DEF ResetNode, AwaitActors, ClearAll
<1>2. Types(working', mode', tables, lastEpoch)
  BY <1>1, Parts DEF Types
<1>3. Chain(barriers, lastEpoch, mode')
  BY <1>1, Parts DEF Chain, ChainOf
<1>4. /\ Epochs(unsyncEpochs', barriers, tables, lastEpoch, mode')
      /\ Queue(working', unsyncEpochs', barriers, tables, lastEpoch, mode')
  BY <1>1, DropAll DEF Epochs, Queue
<1> QED BY <1>1, <1>2, <1>3, <1>4, DropAll DEF NodeOK

-----------------------------------------------------------------------------

\* No step of the node breaks NodeOK.
LEMMA NodeStep ==
  ASSUME NodeOK, [Next]_vars
  PROVE  NodeOK'
<1>1. CASE Progress
  <2>1. CASE \E g \in Group : CompleteBarrier(g) \/ ResetDatabase(g)
    BY <2>1, CompleteKeeps, ResetKeeps
  <2>2. CASE \E i \in Instance : Build(i) \/ InitStore(i) \/ Seal(i) \/ DropStream(i)
    BY <2>2, BuildKeeps, InitStoreKeeps, SealKeeps, DropKeeps
  <2>3. CASE UploadedSst
    BY <2>3, UploadKeeps
  <2>4. CASE TakeSynced \/ TakeSyncError \/ ApplyVersionUpdate
    BY <2>4, AnswerKeeps
  <2>5. CASE NotifyVersion
    BY <2>5, VersionKeeps
  <2>6. CASE AbortAll
    BY <2>6, FailKeeps
  <2>7. CASE ResetNode
    BY <2>7, ResetNodeKeeps
  <2> QED BY <1>1, <2>1, <2>2, <2>3, <2>4, <2>5, <2>6, <2>7 DEF Progress
<1>2. CASE \E g \in Group : Inject(g) \/ ActorFails(g) \/ NodePanics(g)
  BY <1>2, InjectKeeps, FailKeeps
<1>3. CASE \E i \in Instance : Flush(i)
  BY <1>3, FlushKeeps
<1>4. CASE SpillData \/ UploadFails
  BY <1>4, SpillKeeps, FailureKeeps
<1>5. CASE UNCHANGED vars
  BY <1>5 DEF NodeOK, vars, uploaderVars, nodeVars
<1> QED BY <1>1, <1>2, <1>3, <1>4, <1>5 DEF Next

\* check_upload_task_consistency never fails.
THEOREM NodeTaskConsistency == Spec => []TaskConsistency
<1>1. Init => NodeOK
  BY InitialState
<1>2. NodeOK /\ [Next]_vars => NodeOK'
  BY NodeStep
<1>3. NodeOK => TaskConsistency
  BY KnownTasks DEF NodeOK
<1> QED BY <1>1, <1>2, <1>3, PTL DEF Spec

=============================================================================
