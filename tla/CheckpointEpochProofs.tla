------------------------ MODULE CheckpointEpochProofs ------------------------
(***************************************************************************)
(* More proofs about CheckpointControl: which epochs a checkpoint holds,   *)
(* that every barrier that waits for a worker is on its way to it, that    *)
(* the assertions of DatabaseCheckpointControl hold, and when a job        *)
(* becomes visible as created.                                             *)
(*                                                                         *)
(* The invariant says where the epochs of a database are: those of a       *)
(* barrier in the queue lie above all checkpoints before it and at or      *)
(* below its own, and what is left for the next checkpoint lies above all  *)
(* checkpoints of the queue.                                               *)
(***************************************************************************)
EXTENDS CheckpointControlProofs

\* What waits for w of a database with state s is in q, what w has yet to collect.
Awaits(w, q, s) ==
  \A k \in 1..Len(s.queue) : w \in s.queue[k].wait => \E i \in 1..Len(q) : q[i] = s.queue[k].prev

Awaited == phase = "running" => \A w \in Worker, d \in Database : Awaits(w, stream[w][d], db[d])

\* Every barrier closes the epoch that the one before it has opened.
Linked(s) ==
  \A k \in 1..Len(s.queue) :
    s.queue[k].curr = IF k = Len(s.queue) THEN s.prev ELSE s.queue[k + 1].prev

\* The barrier that completes is the one of the task.
Completing(d) ==
  IF d \in DOMAIN task.infos THEN db[d].completing.prev = task.infos[d].prev
  ELSE db[d].completing = NoBarrier

Asserted ==
  /\ task.stage = "none" => DOMAIN task.infos = {}
  /\ \A d \in Database : Linked(db[d]) /\ Completing(d)

\* A list of epochs in order, none above hi.
Increasing(l) == \A a \in 1..Len(l) : \A b \in 1..(a - 1) : l[b] < l[a]

Upto(l, hi)  == Increasing(l) /\ \A a \in 1..Len(l) : l[a] <= hi
Above(l, lo) == \A a \in 1..Len(l) : lo < l[a]

\* The epochs of the barriers of a database with state s.
Segments(s) ==
  /\ \A k \in 1..Len(s.queue) :
       /\ Upto(s.queue[k].epochs, s.queue[k].prev)
       /\ \A j \in 1..(k - 1) : IsCheckpoint(s.queue[j]) => Above(s.queue[k].epochs, s.queue[j].prev)
  /\ Increasing(s.pending) /\ \A a \in 1..Len(s.pending) : s.pending[a] < s.prev
  /\ \A k \in 1..Len(s.queue) : IsCheckpoint(s.queue[k]) => Above(s.pending, s.queue[k].prev)

\* All epochs of s lie above lo.
AllAbove(s, lo) == Above(s.pending, lo) /\ \A k \in 1..Len(s.queue) : Above(s.queue[k].epochs, lo)

\* An epoch of the list l or of the barriers of s.
ListedIn(e, l) == \E a \in 1..Len(l) : l[a] = e
Listed(e, s)   == ListedIn(e, s.pending) \/ \E k \in 1..Len(s.queue) : ListedIn(e, s.queue[k].epochs)

\* The epochs closed since com was committed are those of the list l, which is being
\* committed, and of the barriers of s.
Covered(s, l, closed, com) ==
  /\ Segments(s)
  /\ \A e \in Nat : e \in closed <=> ListedIn(e, l) \/ Listed(e, s)
  /\ \A e \in closed : com < e

\* The list l is committed as epoch hi.
CommitOK(s, l, hi) == Upto(l, hi) /\ AllAbove(s, hi)

\* The task is about to commit epochs of d.
ToCommit(d)   == task.stage = "commit" /\ d \in DOMAIN task.infos
Committing(d) == IF ToCommit(d) THEN task.infos[d].epochs ELSE <<>>

CoversOf(d) ==
  /\ d \in running => Covered(db[d], Committing(d), injected[d], committed[d])
  /\ d \in running /\ ToCommit(d) => CommitOK(db[d], task.infos[d].epochs, task.infos[d].prev)
  /\ d \notin running \/ blocked => injected[d] = {}

Covers ==
  /\ injected \in [Database -> SUBSET Nat]
  /\ phase # "clearing" /\ task.stage # "err" => \A d \in Database : CoversOf(d)

EInv == Awaited /\ Asserted /\ Covers

-----------------------------------------------------------------------------
\* The lists of epochs

LEMMA EmptyCovered ==
  ASSUME NEW s \in DatabaseState, Len(s.queue) = 0, Len(s.pending) = 0, NEW com
  PROVE  Covered(s, <<>>, {}, com) /\ Linked(s)
<1>1. \A i \in 1..0 : FALSE
  OBVIOUS
<1>2. Segments(s) /\ Linked(s)
  BY <1>1 DEF Segments, Increasing, Above, Linked
<1>3. \A e \in Nat : ~ListedIn(e, <<>>) /\ ~Listed(e, s)
  BY <1>1 DEF ListedIn, Listed
<1> QED BY <1>2, <1>3 DEF Covered

\* The commit of l takes its epochs away.
LEMMA CommitCovered ==
  ASSUME NEW s \in DatabaseState, NEW l \in Seq(Nat), NEW closed \in SUBSET Nat, NEW com, NEW hi \in Nat,
         Covered(s, l, closed, com), CommitOK(s, l, hi)
  PROVE  Covered(s, <<>>, {e \in closed : e > hi}, hi)
<1>1. ASSUME NEW e \in Nat PROVE ListedIn(e, l) => ~(e > hi)
  BY DEF ListedIn, CommitOK, Upto
<1>2. ASSUME NEW e \in Nat PROVE Listed(e, s) => e > hi
  <2>1. ListedIn(e, s.pending) => e > hi
    BY DEF ListedIn, CommitOK, AllAbove, Above
  <2>2. ASSUME NEW k \in 1..Len(s.queue), ListedIn(e, s.queue[k].epochs) PROVE e > hi
    BY <2>2 DEF ListedIn, CommitOK, AllAbove, Above
  <2> QED BY <2>1, <2>2 DEF Listed
<1>3. \A e \in Nat : ~ListedIn(e, <<>>)
  BY DEF ListedIn
<1>4. \A e \in {e \in closed : e > hi} : hi < e
  OBVIOUS
<1> QED BY <1>1, <1>2, <1>3, <1>4 DEF Covered

\* The barriers of two states hold the same epochs.
SameEpochs(s, t) ==
  /\ t.prev = s.prev /\ t.pending = s.pending /\ t.completing = s.completing
  /\ Len(t.queue) = Len(s.queue)
  /\ \A k \in 1..Len(s.queue) : /\ t.queue[k].prev = s.queue[k].prev /\ t.queue[k].curr = s.queue[k].curr
                                /\ t.queue[k].epochs = s.queue[k].epochs

LEMMA SameCovered ==
  ASSUME NEW s \in DatabaseState, NEW t, SameEpochs(s, t), NEW l, NEW closed, NEW com, NEW hi
  PROVE  /\ Covered(s, l, closed, com) => Covered(t, l, closed, com)
         /\ CommitOK(s, l, hi) => CommitOK(t, l, hi)
         /\ Linked(s) => Linked(t)
<1>0. Len(s.queue) \in Nat
  BY DbFacts
<1>1. Segments(s) => Segments(t)
  BY <1>0 DEF Segments, SameEpochs, IsCheckpoint
<1>2. \A e \in Nat : Listed(e, s) <=> Listed(e, t)
  BY DEF Listed, SameEpochs
<1>3. CommitOK(s, l, hi) => CommitOK(t, l, hi)
  BY DEF CommitOK, AllAbove, SameEpochs
<1>4. Linked(s) => Linked(t)
  BY <1>0 DEF Linked, SameEpochs
<1> QED BY <1>1, <1>2, <1>3, <1>4 DEF Covered

\* A new barrier closes the epoch s.prev, which becomes part of the next checkpoint.
LEMMA InjectCovered ==
  ASSUME NEW s \in DatabaseState, NEW now \in Nat, QueueOK(s, now), NEW curr \in Nat, s.prev < curr,
         NEW c, NEW checkpoint \in BOOLEAN, NEW t, Injected(s, c, checkpoint, curr, t),
         NEW l, NEW closed \in SUBSET Nat, NEW com \in Nat, com < s.prev,
         Covered(s, l, closed, com)
  PROVE  Covered(t, l, closed \cup {s.prev}, com)
<1> DEFINE p == s.pending  q == s.queue  n == Len(q)  m == Len(p)  E == Append(p, s.prev)  r == t.queue
<1>1. /\ s.prev \in Nat /\ p \in Seq(Nat) /\ m \in Nat /\ n \in Nat
      /\ \A k \in 1..n : q[k].prev \in Nat /\ q[k].curr \in Nat /\ q[k].epochs \in Seq(Nat)
  <2>1. /\ s.prev \in Nat /\ s.pending \in Seq(Nat) /\ Len(s.queue) \in Nat
        /\ \A k \in 1..Len(s.queue) : /\ s.queue[k].prev \in Nat /\ s.queue[k].curr \in Nat
                                       /\ s.queue[k].epochs \in Seq(Nat)
    BY ONLY s \in DatabaseState, DbFacts
  <2>2. Len(s.pending) \in Nat
    BY <2>1
  <2> QED BY <2>1, <2>2
<1>2. /\ Len(r) = n + 1 /\ \A k \in 1..n : r[k] = q[k]
      /\ r[n + 1].prev = s.prev /\ t.prev = curr
      /\ r[n + 1].epochs = IF checkpoint THEN E ELSE <<>>
      /\ t.pending = IF checkpoint THEN <<>> ELSE E
  BY DEF Injected
<1>3. \A k \in 1..n : q[k].prev < q[k].curr /\ q[k].curr <= s.prev
  BY DEF QueueOK, Chain
<1>4. /\ \A k \in 1..n :
           /\ Upto(q[k].epochs, q[k].prev)
           /\ \A j \in 1..(k - 1) : IsCheckpoint(q[j]) => Above(q[k].epochs, q[j].prev)
      /\ Increasing(p) /\ \A a \in 1..m : p[a] < s.prev
      /\ \A k \in 1..n : IsCheckpoint(q[k]) => Above(p, q[k].prev)
  BY DEF Covered, Segments
<1>5. Len(E) = m + 1 /\ (\A a \in 1..m : E[a] = p[a]) /\ E[m + 1] = s.prev
  BY <1>1
<1>6. \A a \in 1..m : p[a] \in Nat
  BY <1>1
<1> HIDE DEF E
<1>7. \A a \in 1..(m + 1) : a \in 1..m \/ a = m + 1
  BY <1>1
<1>8. Upto(E, s.prev) /\ \A a \in 1..Len(E) : E[a] <= s.prev
  <2>1. ASSUME NEW a \in 1..Len(E), NEW b \in 1..(a - 1) PROVE E[b] < E[a]
    <3>1. b \in 1..m /\ E[b] = p[b]
      <4>1. a \in 1..(m + 1) /\ m \in Nat
        BY <1>1, <1>5
      <4>2. b \in 1..m
        BY <4>1
      <4> QED BY <4>2, <1>5
    <3>2. CASE a \in 1..m
      BY <3>1, <3>2, <1>4, <1>5 DEF Increasing
    <3>3. CASE a = m + 1
      BY <3>1, <3>3, <1>4, <1>5
    <3> QED BY <3>2, <3>3, <1>5, <1>7
  <2>2. ASSUME NEW a \in 1..Len(E) PROVE E[a] <= s.prev
    <3>1. CASE a \in 1..m
      <4>1. E[a] = p[a] /\ p[a] < s.prev /\ p[a] \in Nat
        BY <3>1, <1>4, <1>5, <1>6
      <4> HIDE DEF p
      <4> QED BY <4>1, <1>1
    <3>2. CASE a = m + 1
      BY <3>2, <1>1, <1>5
    <3> QED BY <3>1, <3>2, <1>5, <1>7
  <2> QED BY <2>1, <2>2 DEF Upto, Increasing
<1>9. ASSUME NEW k \in 1..n, IsCheckpoint(q[k]) PROVE Above(E, q[k].prev)
  <2>1. q[k].prev < s.prev
    <3>1. q[k].prev \in Nat /\ q[k].curr \in Nat /\ q[k].prev < q[k].curr /\ q[k].curr <= s.prev
      BY <1>1, <1>3
    <3> HIDE DEF q
    <3> QED BY <3>1, <1>1
  <2>2. \A a \in 1..m : q[k].prev < p[a]
    BY <1>4, <1>9 DEF Above
  <2> QED BY <2>1, <2>2, <1>5, <1>7 DEF Above
<1>10. \A e \in Nat : ListedIn(e, E) <=> ListedIn(e, p) \/ e = s.prev
  <2> TAKE e \in Nat
  <2>1. ListedIn(e, E) => ListedIn(e, p) \/ e = s.prev
    BY <1>5, <1>7 DEF ListedIn
  <2>2. ListedIn(e, p) => ListedIn(e, E)
    <3> SUFFICES ASSUME NEW a \in 1..m, p[a] = e PROVE ListedIn(e, E)
      BY DEF ListedIn
    <3>1. m \in Nat /\ a \in 1..m /\ Len(E) = m + 1 /\ E[a] = e
      BY <1>1, <1>5
    <3> HIDE DEF m
    <3>2. a \in 1..Len(E)
      BY <3>1
    <3> QED BY <3>1, <3>2 DEF ListedIn
  <2>3. e = s.prev => ListedIn(e, E)
    <3>1. m + 1 \in 1..Len(E)
      BY <1>1, <1>5
    <3> QED BY <3>1, <1>5 DEF ListedIn
  <2> QED BY <2>1, <2>2, <2>3
<1>11. Upto(<<>>, s.prev) /\ (\A x : Above(<<>>, x)) /\ Increasing(<<>>) /\ \A e \in Nat : ~ListedIn(e, <<>>)
  BY DEF Upto, Above, Increasing, ListedIn
<1>12. \A k \in 1..Len(r) : k \in 1..n \/ k = n + 1
  BY <1>1, <1>2
<1>13. Increasing(E)
  BY <1>8 DEF Upto
<1>14. \A a \in 1..Len(E) : E[a] < curr
  <2> TAKE a \in 1..Len(E)
  <2>1. E[a] \in Nat
    BY <1>1, <1>5, <1>6, <1>7
  <2> QED BY <2>1, <1>1, <1>8
<1> HIDE DEF p, q, n, m, r
<1>15. Segments(t)
  <2>1. ASSUME NEW k \in 1..Len(r)
        PROVE  /\ Upto(r[k].epochs, r[k].prev)
               /\ \A j \in 1..(k - 1) : IsCheckpoint(r[j]) => Above(r[k].epochs, r[j].prev)
    <3>1. CASE k \in 1..n
      <4>1. \A j \in 1..(k - 1) : r[j] = q[j]
        BY <3>1, <1>1, <1>2
      <4> QED BY <3>1, <4>1, <1>2, <1>4
    <3>2. CASE k = n + 1
      <4>1. \A j \in 1..(k - 1) : j \in 1..n /\ r[j] = q[j]
        BY <3>2, <1>1, <1>2
      <4>2. CASE checkpoint
        BY <3>2, <4>1, <4>2, <1>2, <1>8, <1>9
      <4>3. CASE ~checkpoint
        BY <3>2, <4>3, <1>2, <1>11
      <4> QED BY <4>2, <4>3
    <3> QED BY <3>1, <3>2, <1>12
  <2>2. Increasing(t.pending) /\ \A a \in 1..Len(t.pending) : t.pending[a] < t.prev
    BY <1>2, <1>11, <1>13, <1>14
  <2>3. ASSUME NEW k \in 1..Len(r), IsCheckpoint(r[k]) PROVE Above(t.pending, r[k].prev)
    <3>1. CASE checkpoint
      BY <3>1, <1>2, <1>11
    <3>2. CASE ~checkpoint
      <4>1. k # n + 1
        BY <2>3, <3>2, <1>2 DEF IsCheckpoint
      <4>2. k \in 1..n /\ r[k] = q[k]
        BY <4>1, <1>2, <1>12
      <4> QED BY <2>3, <3>2, <4>2, <1>2, <1>9
    <3> QED BY <3>1, <3>2
  <2> QED BY <2>1, <2>2, <2>3 DEF Segments, r
<1>16. ASSUME NEW e \in Nat PROVE Listed(e, t) <=> Listed(e, s) \/ e = s.prev
  <2>1. Listed(e, t) <=> ListedIn(e, t.pending) \/ \E k \in 1..Len(r) : ListedIn(e, r[k].epochs)
    BY DEF Listed, r
  <2>2. Listed(e, s) <=> ListedIn(e, p) \/ \E k \in 1..n : ListedIn(e, q[k].epochs)
    BY DEF Listed, p, q, n
  <2>3. (\E k \in 1..Len(r) : ListedIn(e, r[k].epochs)) <=>
          \/ \E k \in 1..n : ListedIn(e, q[k].epochs)
          \/ ListedIn(e, r[n + 1].epochs)
    <3>1. n + 1 \in 1..Len(r) /\ \A k \in 1..n : k \in 1..Len(r)
      BY <1>1, <1>2
    <3> QED BY <3>1, <1>2, <1>12
  <2>4. CASE checkpoint
    BY <2>1, <2>2, <2>3, <2>4, <1>2, <1>10, <1>11
  <2>5. CASE ~checkpoint
    BY <2>1, <2>2, <2>3, <2>5, <1>2, <1>10, <1>11
  <2> QED BY <2>4, <2>5
<1>17. \A e \in Nat : e \in closed \cup {s.prev} <=> ListedIn(e, l) \/ Listed(e, t)
  BY <1>16 DEF Covered
<1>18. \A e \in closed \cup {s.prev} : com < e
  BY DEF Covered
<1> QED BY <1>15, <1>17, <1>18 DEF Covered

LEMMA InjectLinked ==
  ASSUME NEW s \in DatabaseState, NEW curr, NEW c, NEW checkpoint, NEW t,
         Injected(s, c, checkpoint, curr, t), Linked(s)
  PROVE  Linked(t)
<1> DEFINE q == s.queue  n == Len(q)  r == t.queue
<1>1. /\ Len(r) = n + 1 /\ n \in Nat /\ \A k \in 1..n : r[k] = q[k]
      /\ r[n + 1].prev = s.prev /\ r[n + 1].curr = curr /\ t.prev = curr
  BY DEF Injected
<1>2. \A k \in 1..n : q[k].curr = IF k = n THEN s.prev ELSE q[k + 1].prev
  BY DEF Linked
<1> HIDE DEF q, n, r
<1>3. ASSUME NEW k \in 1..Len(r) PROVE r[k].curr = IF k = Len(r) THEN t.prev ELSE r[k + 1].prev
  <2>1. CASE k = n + 1
    BY <2>1, <1>1
  <2>2. CASE k = n /\ k \in 1..n
    BY <2>2, <1>1, <1>2
  <2>3. CASE k \in 1..(n - 1)
    <3>1. k \in 1..n /\ k + 1 \in 1..n /\ k # n /\ k # n + 1
      BY <2>3, <1>1
    <3> QED BY <3>1, <1>1, <1>2
  <2> QED BY <2>1, <2>2, <2>3, <1>1
<1> QED BY <1>3 DEF Linked, r

LEMMA InjectCommit ==
  ASSUME NEW s \in DatabaseState, NEW curr, NEW c, NEW checkpoint \in BOOLEAN, NEW t,
         Injected(s, c, checkpoint, curr, t), NEW l, NEW hi \in Nat, hi < s.prev, CommitOK(s, l, hi)
  PROVE  CommitOK(t, l, hi)
<1> DEFINE p == s.pending  E == Append(p, s.prev)  n == Len(s.queue)
<1>1. s.prev \in Nat /\ p \in Seq(Nat) /\ n \in Nat
  BY DbFacts
<1>2. Len(E) = Len(p) + 1 /\ (\A a \in 1..Len(p) : E[a] = p[a]) /\ E[Len(p) + 1] = s.prev /\ Len(p) \in Nat
  BY <1>1
<1>3. Above(p, hi) /\ \A k \in 1..n : Above(s.queue[k].epochs, hi)
  BY DEF CommitOK, AllAbove
<1> HIDE DEF E
<1>4. Above(E, hi) /\ Above(<<>>, hi)
  BY <1>2, <1>3 DEF Above
<1>5. /\ Len(t.queue) = n + 1 /\ \A k \in 1..n : t.queue[k] = s.queue[k]
      /\ t.queue[n + 1].epochs = IF checkpoint THEN E ELSE <<>>
      /\ t.pending = IF checkpoint THEN <<>> ELSE E
  BY DEF Injected, E
<1>6. \A k \in 1..(n + 1) : k \in 1..n \/ k = n + 1
  BY <1>1
<1> HIDE DEF n, p
<1>7. Above(t.pending, hi) /\ \A k \in 1..Len(t.queue) : Above(t.queue[k].epochs, hi)
  BY <1>3, <1>4, <1>5, <1>6
<1> QED BY <1>7 DEF CommitOK, AllAbove

\* next_complete_barrier_task takes barriers of which only the last may hold epochs, which
\* the task then commits.
LEMMA CompleteCovered ==
  ASSUME IInv, NEW d \in Database, NEW n, NEW out, DoneOK(d, db[d].queue, n, out), NEW closed, NEW com,
         Covered(db[d], <<>>, closed, com)
  PROVE  /\ Covered(out.state, IF out.ckpt THEN out.info.epochs ELSE <<>>, closed, com)
         /\ out.ckpt => CommitOK(out.state, out.info.epochs, out.info.prev)
<1> DEFINE s == db[d]  q == s.queue  N == Len(q)  t == out.state  r == t.queue  p == s.pending
<1>0. s \in DatabaseState
  BY DEF IInv, Types, DbType
<1>1. /\ N \in Nat /\ s.prev \in Nat /\ p \in Seq(Nat)
      /\ \A k \in 1..N : q[k].prev \in Nat /\ q[k].epochs \in Seq(Nat)
  BY <1>0, DbFacts
<1>2. /\ n \in 0..N
      /\ out.ckpt => /\ n \in 1..N /\ IsCheckpoint(q[n])
                     /\ out.info = [prev |-> q[n].prev, epochs |-> q[n].epochs]
      /\ Len(r) = N - n /\ \A k \in 1..Len(r) : n + k \in 1..N /\ r[k] = q[n + k]
      /\ \A k \in 1..(n - 1) : ~IsCheckpoint(q[k])
      /\ n > 0 /\ ~out.ckpt => ~IsCheckpoint(q[n])
      /\ t.pending = p /\ t.prev = s.prev
  BY DEF DoneOK
<1>3. /\ \A k \in 1..N :
           /\ Upto(q[k].epochs, q[k].prev)
           /\ \A j \in 1..(k - 1) : IsCheckpoint(q[j]) => Above(q[k].epochs, q[j].prev)
      /\ Increasing(p) /\ \A a \in 1..Len(p) : p[a] < s.prev
      /\ \A k \in 1..N : IsCheckpoint(q[k]) => Above(p, q[k].prev)
  BY DEF Covered, Segments
<1>4. /\ \A e \in Nat : e \in closed <=> Listed(e, s)
      /\ \A e \in closed : com < e
  <2>1. \A e \in Nat : ~ListedIn(e, <<>>)
    BY DEF ListedIn
  <2> QED BY <2>1 DEF Covered
<1>5. \A e \in Nat : /\ Listed(e, s) <=> ListedIn(e, p) \/ \E k \in 1..N : ListedIn(e, q[k].epochs)
                     /\ Listed(e, t) <=> ListedIn(e, t.pending) \/ \E k \in 1..Len(r) : ListedIn(e, r[k].epochs)
  BY DEF Listed
<1> HIDE DEF s, q, N, t, r, p
<1>6. Segments(t)
  <2>1. ASSUME NEW k \in 1..Len(r)
        PROVE  /\ Upto(r[k].epochs, r[k].prev)
               /\ \A j \in 1..(k - 1) : IsCheckpoint(r[j]) => Above(r[k].epochs, r[j].prev)
    <3>1. n + k \in 1..N /\ r[k] = q[n + k]
      BY <1>2
    <3>2. ASSUME NEW j \in 1..(k - 1) PROVE n + j \in 1..((n + k) - 1) /\ r[j] = q[n + j]
      BY <1>1, <1>2
    <3> QED BY <3>1, <3>2, <1>3
  <2>2. Increasing(t.pending) /\ \A a \in 1..Len(t.pending) : t.pending[a] < t.prev
    BY <1>2, <1>3
  <2>3. \A k \in 1..Len(r) : IsCheckpoint(r[k]) => Above(t.pending, r[k].prev)
    BY <1>2, <1>3
  <2> QED BY <2>1, <2>2, <2>3 DEF Segments, r
<1>7. ASSUME NEW k \in 1..N, NEW e \in Nat, ListedIn(e, q[k].epochs), k <= n PROVE out.ckpt /\ k = n
  <2>1. IsCheckpoint(q[k])
    BY <1>7 DEF IsCheckpoint, ListedIn
  <2>2. N \in Nat /\ n \in 0..N
    BY <1>1, <1>2
  <2>3. k \in 1..(n - 1) \/ (k = n /\ n > 0)
    BY <2>2, <1>7
  <2> QED BY <2>1, <2>3, <1>2
<1>8. ASSUME NEW e \in Nat
      PROVE  Listed(e, s) <=> Listed(e, t) \/ (out.ckpt /\ ListedIn(e, q[n].epochs))
  <2>1. ASSUME NEW k \in 1..N, ListedIn(e, q[k].epochs)
        PROVE  (\E i \in 1..Len(r) : ListedIn(e, r[i].epochs)) \/ (out.ckpt /\ ListedIn(e, q[n].epochs))
    <3>1. CASE k <= n
      BY <2>1, <3>1, <1>7
    <3>2. CASE k > n
      <4>0. N \in Nat /\ n \in 0..N /\ Len(r) = N - n
        BY <1>1, <1>2
      <4>1. k - n \in 1..Len(r) /\ n + (k - n) = k
        BY <3>2, <4>0
      <4>2. r[k - n] = q[k]
        BY <4>1, <1>2
      <4> QED BY <2>1, <4>1, <4>2
    <3> QED BY <3>1, <3>2, <1>1, <1>2
  <2>2. ASSUME NEW i \in 1..Len(r), ListedIn(e, r[i].epochs) PROVE \E k \in 1..N : ListedIn(e, q[k].epochs)
    BY <2>2, <1>2
  <2>3. out.ckpt => n \in 1..N
    BY <1>2
  <2> QED BY <2>1, <2>2, <2>3, <1>2, <1>5
<1>9. CASE out.ckpt
  <2>1. n \in 1..N /\ IsCheckpoint(q[n]) /\ out.info.prev = q[n].prev /\ out.info.epochs = q[n].epochs
    BY <1>2, <1>9
  <2>2. \A e \in Nat : e \in closed <=> ListedIn(e, q[n].epochs) \/ Listed(e, t)
    BY <1>4, <1>8, <1>9
  <2>3. Covered(t, q[n].epochs, closed, com)
    BY <1>4, <1>6, <2>2 DEF Covered
  <2>4. AllAbove(t, q[n].prev)
    <3>1. Above(t.pending, q[n].prev)
      BY <1>2, <1>3, <2>1
    <3>2. ASSUME NEW k \in 1..Len(r) PROVE Above(r[k].epochs, q[n].prev)
      <4>1. n + k \in 1..N /\ r[k] = q[n + k] /\ n \in 1..((n + k) - 1)
        BY <1>1, <1>2, <2>1
      <4> QED BY <4>1, <1>3, <2>1
    <3> QED BY <3>1, <3>2 DEF AllAbove, r
  <2>5. CommitOK(t, q[n].epochs, q[n].prev)
    BY <1>3, <2>1, <2>4 DEF CommitOK
  <2> QED BY <1>9, <2>1, <2>3, <2>5 DEF t
<1>10. CASE ~out.ckpt
  <2>1. \A e \in Nat : e \in closed <=> ListedIn(e, <<>>) \/ Listed(e, t)
    <3>1. \A e \in Nat : ~ListedIn(e, <<>>)
      BY DEF ListedIn
    <3> QED BY <3>1, <1>4, <1>8, <1>10
  <2>2. Covered(t, <<>>, closed, com)
    BY <1>4, <1>6, <2>1 DEF Covered
  <2> QED BY <1>10, <2>2 DEF t
<1> QED BY <1>9, <1>10

LEMMA CompleteLinked ==
  ASSUME IInv, NEW d \in Database, NEW n, NEW out, DoneOK(d, db[d].queue, n, out), Linked(db[d])
  PROVE  Linked(out.state)
<1> DEFINE s == db[d]  q == s.queue  N == Len(q)  t == out.state  r == t.queue
<1>1. /\ N \in Nat /\ n \in 0..N /\ t.prev = s.prev
      /\ Len(r) = N - n /\ \A k \in 1..Len(r) : n + k \in 1..N /\ r[k] = q[n + k]
  BY DEF DoneOK
<1>2. \A k \in 1..N : q[k].curr = IF k = N THEN s.prev ELSE q[k + 1].prev
  BY DEF Linked
<1> HIDE DEF s, q, N, t, r
<1>3. ASSUME NEW k \in 1..Len(r) PROVE r[k].curr = IF k = Len(r) THEN t.prev ELSE r[k + 1].prev
  <2>1. n + k \in 1..N /\ r[k] = q[n + k] /\ (k = Len(r) <=> n + k = N)
    BY <1>1
  <2>2. CASE k = Len(r)
    BY <2>1, <2>2, <1>1, <1>2
  <2>3. CASE k # Len(r)
    <3>1. k + 1 \in 1..Len(r) /\ n + (k + 1) = (n + k) + 1
      BY <2>3, <1>1
    <3>2. r[k + 1] = q[(n + k) + 1]
      BY <3>1, <1>1
    <3> QED BY <2>1, <2>3, <3>2, <1>2
  <2> QED BY <2>2, <2>3
<1> QED BY <1>3 DEF Linked, r, t

-----------------------------------------------------------------------------
\* The effects of the actions on one database

\* next_complete_barrier_task takes n barriers of d.
CompletedIn(d, n, out) ==
  /\ DoneOK(d, db[d].queue, n, out) /\ db'[d] = out.state
  /\ d \in DOMAIN task'.infos <=> out.ckpt
  /\ out.ckpt => task'.infos[d] = out.info
  /\ \A j \in task'.finished : JobDatabase[j] = d => out.ckpt /\ j \in out.finished

LEMMA CompleteCases ==
  ASSUME IInv, StartCompleting
  PROVE  /\ task.stage = "none" /\ task'.stage \in {"none", "commit"}
         /\ DOMAIN task'.infos # {} => task'.stage = "commit"
         /\ \A j \in task'.finished : JobDatabase[j] \in DOMAIN task'.infos
         /\ \A d \in Database : d \in running => \E n, out : CompletedIn(d, n, out)
         /\ \A d \in Database : d \notin running => db'[d] = db[d] /\ d \notin DOMAIN task'.infos
         /\ UNCHANGED <<running, injected, committed, created, nodeVars, schedVars, phase>>
<1> DEFINE out  == [d \in running |-> Completed(db[d])]
           ckpt == {d \in running : out[d].ckpt}
           new  == [stage |-> "commit", infos |-> [d \in ckpt |-> out[d].info],
                    notifiers |-> UNION {out[d].notifiers : d \in ckpt},
                    finished  |-> UNION {out[d].finished : d \in ckpt}]
           N(d) == Popped(db[d].queue)
<1>0. /\ task.stage = "none"
      /\ db' = [d \in Database |-> IF d \in running THEN out[d].state ELSE db[d]]
      /\ task' = IF ckpt = {} THEN NoTask ELSE new
      /\ UNCHANGED <<running, injected, committed, created, nodeVars, schedVars, phase>>
  BY DEF StartCompleting, NextCompleteBarrierTask
<1>1. running \subseteq Database
  BY DEF IInv, Types, LoopType
<1>2. \A d \in running : DoneOK(d, db[d].queue, N(d), out[d])
  BY <1>1, DoneFacts
<1> HIDE DEF out, N
<1>3. /\ DOMAIN task'.infos = ckpt /\ \A d \in ckpt : task'.infos[d] = out[d].info
      /\ task'.stage \in {"none", "commit"} /\ (ckpt # {} => task'.stage = "commit")
      /\ task'.finished = UNION {out[d].finished : d \in ckpt}
  <2>1. CASE ckpt = {}
    <3>1. task' = NoTask
      BY <2>1, <1>0
    <3>2. DOMAIN task'.infos = {} /\ task'.stage = "none" /\ task'.finished = {}
      BY <3>1 DEF NoTask
    <3> QED BY <2>1, <3>2
  <2>2. CASE ckpt # {}
    BY <2>2, <1>0
  <2> QED BY <2>1, <2>2
<1>4. \A d \in ckpt : d \in running /\ out[d].ckpt /\ out[d].finished \subseteq JobsOf(d)
  BY <1>2 DEF DoneOK
<1>5. \A d \in running : d \in ckpt <=> out[d].ckpt
  OBVIOUS
<1> HIDE DEF ckpt
<1>6. \A j \in task'.finished : \E d \in ckpt : j \in out[d].finished /\ JobDatabase[j] = d
  BY <1>3, <1>4 DEF JobsOf
<1>7. ASSUME NEW d \in Database, d \in running PROVE CompletedIn(d, N(d), out[d])
  <2>1. DoneOK(d, db[d].queue, N(d), out[d]) /\ db'[d] = out[d].state
    BY <1>0, <1>2, <1>7
  <2>2. (d \in DOMAIN task'.infos <=> out[d].ckpt) /\ (out[d].ckpt => task'.infos[d] = out[d].info)
    BY <1>3, <1>5, <1>7
  <2>3. \A j \in task'.finished : JobDatabase[j] = d => out[d].ckpt /\ j \in out[d].finished
    BY <1>4, <1>6
  <2> QED BY <2>1, <2>2, <2>3 DEF CompletedIn
<1>8. \A d \in Database : d \notin running => db'[d] = db[d] /\ d \notin DOMAIN task'.infos
  BY <1>0, <1>3, <1>4
<1>9. \A j \in task'.finished : JobDatabase[j] \in DOMAIN task'.infos
  BY <1>3, <1>6
<1> QED BY <1>0, <1>3, <1>7, <1>8, <1>9

\* The state s of database d before a barrier that opens epoch now + 1, and the state after it,
\* with the barrier or without it.
InjectedInto(d, s, c, checkpoint, now) ==
  /\ Ready(d, s, running', now)
  /\ \/ s = db[d] /\ (d \in running' => d \in running)
     \/ d \notin running /\ d \in running' /\ s = NewDatabase(now, {})
  /\ c # NoCommand => IsFor(c, d) /\ asked[c] <= s.prev
  /\ \/ /\ d \in running' /\ Injected(s, c, checkpoint, now + 1, db'[d])
        /\ injected'[d] = injected[d] \cup {s.prev}
        /\ \A w \in Worker : stream'[w][d] = IF w \in connected THEN Append(stream[w][d], s.prev)
                                              ELSE stream[w][d]
     \/ db'[d] = s /\ injected'[d] = injected[d] /\ \A w \in Worker : stream'[w][d] = stream[w][d]

LEMMA InjectionCases ==
  ASSUME IInv, AroundInjection, InjectsBarrier
  PROVE  \/ phase' = "clearing" /\ UNCHANGED <<db, stream, injected>>
         \/ /\ phase' = "running" /\ injected' = [d \in Database |-> injected'[d]]
            /\ \E now \in Nat, checkpoint \in BOOLEAN : \A d \in Database :
                 \E s, c : InjectedInto(d, s, c, checkpoint, now)
<1>1. PICK s, of, checkpoint, now :
        /\ InjectOK(s, of, checkpoint, now)
        /\ InjectBarrier(running', s, of, checkpoint, now + 1)
        /\ \A d \in Database : \/ s[d] = db[d] /\ (d \in running' => d \in running)
                               \/ d \notin running /\ d \in running' /\ s[d] = NewDatabase(now, {})
  BY DEF InjectsBarrier
<1> DEFINE hit == {d \in running' : ~NothingToDo(s[d], of[d])}
           fails == hit # {} /\ ~(Placement \subseteq connected)
<1>2. IF fails
      THEN phase' = "clearing" /\ UNCHANGED <<db, stream, injected>>
      ELSE /\ db' = [d \in Database |-> IF d \in hit
                      THEN WithNewBarrier(s[d], of[d], checkpoint, now + 1) ELSE s[d]]
           /\ stream' = [w \in Worker |-> [d \in Database |->
                          IF w \in connected /\ d \in hit
                          THEN Append(stream[w][d], s[d].prev) ELSE stream[w][d]]]
           /\ injected' = [d \in Database |-> IF d \in hit
                            THEN injected[d] \cup {s[d].prev} ELSE injected[d]]
           /\ phase' = phase
  BY <1>1 DEF InjectBarrier
<1>3. hit \subseteq running'
  OBVIOUS
<1> HIDE DEF hit, fails
<1>4. /\ s \in [Database -> DatabaseState] /\ of \in [Database -> 0..MaxCommands] /\ checkpoint \in BOOLEAN
      /\ now \in Nat
      /\ \A d \in Database : /\ Ready(d, s[d], running', now)
                             /\ of[d] # NoCommand => IsFor(of[d], d) /\ asked[of[d]] <= s[d].prev
  BY <1>1 DEF InjectOK
<1>5. Placed /\ connected \subseteq Worker /\ phase = "running"
  BY DEF IInv, Commands, Types, LoopType, AroundInjection
<1>6. CASE ~fails
  <2>1. ASSUME NEW d \in Database PROVE InjectedInto(d, s[d], of[d], checkpoint, now)
    <3>1. CASE d \in hit
      <4>1. Injected(s[d], of[d], checkpoint, now + 1, db'[d])
        <5>1. db'[d] = WithNewBarrier(s[d], of[d], checkpoint, now + 1)
          BY <1>2, <1>6, <3>1
        <5>2. s[d] \in DatabaseState /\ of[d] \in 0..MaxCommands /\ now + 1 \in Nat
          BY <1>4
        <5>3. Injected(s[d], of[d], checkpoint, now + 1, WithNewBarrier(s[d], of[d], checkpoint, now + 1))
          BY <1>4, <1>5, <5>2, InjectedFacts
        <5> QED BY <5>1, <5>3
      <4>2. injected'[d] = injected[d] \cup {s[d].prev}
        BY <1>2, <1>6, <3>1
      <4>3. \A w \in Worker : stream'[w][d] = IF w \in connected THEN Append(stream[w][d], s[d].prev)
                                              ELSE stream[w][d]
        <5>1. stream' = [w \in Worker |-> [f \in Database |->
                          IF w \in connected /\ f \in hit
                          THEN Append(stream[w][f], s[f].prev) ELSE stream[w][f]]]
          BY <1>2, <1>6
        <5> QED BY <5>1, <3>1
      <4> QED BY <4>1, <4>2, <4>3, <3>1, <1>1, <1>3, <1>4 DEF InjectedInto
    <3>2. CASE d \notin hit
      <4>1. db'[d] = s[d] /\ injected'[d] = injected[d] /\ \A w \in Worker : stream'[w][d] = stream[w][d]
        BY <1>2, <1>6, <3>2
      <4> QED BY <4>1, <1>1, <1>4 DEF InjectedInto
    <3> QED BY <3>1, <3>2
  <2>2. injected' = [d \in Database |-> injected'[d]]
    BY <1>2, <1>6
  <2> QED BY <2>1, <2>2, <1>2, <1>4, <1>5, <1>6
<1> QED BY <1>2, <1>6

-----------------------------------------------------------------------------
\* What a part of the invariant depends on

LEMMA AwaitedFrame ==
  ASSUME Awaited, UNCHANGED <<stream, db>>, phase' = "running" => phase = "running"
  PROVE  Awaited'
<1> SUFFICES ASSUME phase' = "running", NEW w \in Worker, NEW d \in Database
             PROVE  Awaits(w, stream'[w][d], db'[d])
  BY DEF Awaited, Awaits
<1>1. Awaits(w, stream[w][d], db[d])
  BY DEF Awaited
<1> QED BY <1>1

LEMMA AssertedFrame ==
  ASSUME Asserted, UNCHANGED db, task'.infos = task.infos, task'.stage = "none" => task.stage = "none"
  PROVE  Asserted'
  BY DEF Asserted, Linked, Completing

\* The lists of one database, given where they are in the next state.
LEMMA CoversNext ==
  ASSUME injected' \in [Database -> SUBSET Nat],
         phase' # "clearing" /\ task'.stage # "err" => \A d \in Database :
           /\ d \in running' => Covered(db'[d], IF task'.stage = "commit" /\ d \in DOMAIN task'.infos
                                                THEN task'.infos[d].epochs ELSE <<>>,
                                        injected'[d], committed'[d])
           /\ d \in running' /\ task'.stage = "commit" /\ d \in DOMAIN task'.infos =>
                CommitOK(db'[d], task'.infos[d].epochs, task'.infos[d].prev)
           /\ d \notin running' \/ blocked' => injected'[d] = {}
  PROVE  Covers'
  BY DEF Covers, CoversOf, ToCommit, Committing, Covered, CommitOK, Segments, Upto, Increasing, Above, AllAbove,
         Listed, ListedIn, IsCheckpoint

LEMMA CoversNow ==
  ASSUME Covers, phase # "clearing", task.stage # "err", NEW d \in Database
  PROVE  /\ d \in running => Covered(db[d], IF task.stage = "commit" /\ d \in DOMAIN task.infos
                                            THEN task.infos[d].epochs ELSE <<>>,
                                     injected[d], committed[d])
         /\ d \in running /\ task.stage = "commit" /\ d \in DOMAIN task.infos =>
              CommitOK(db[d], task.infos[d].epochs, task.infos[d].prev)
         /\ d \notin running \/ blocked => injected[d] = {}
  BY DEF Covers, CoversOf, ToCommit, Committing

LEMMA CoversFrame ==
  ASSUME Covers, UNCHANGED <<db, running, committed, injected>>, task'.infos = task.infos,
         blocked' => blocked, phase' # "clearing" => phase # "clearing",
         task'.stage # "err" => task.stage # "err" /\ (task'.stage = "commit" <=> task.stage = "commit")
  PROVE  Covers'
<1>1. injected' \in [Database -> SUBSET Nat]
  BY DEF Covers
<1> SUFFICES ASSUME phase' # "clearing", task'.stage # "err", NEW d \in Database
             PROVE  /\ d \in running' => Covered(db'[d], IF task'.stage = "commit" /\ d \in DOMAIN task'.infos
                                                         THEN task'.infos[d].epochs ELSE <<>>,
                                                 injected'[d], committed'[d])
                    /\ d \in running' /\ task'.stage = "commit" /\ d \in DOMAIN task'.infos =>
                         CommitOK(db'[d], task'.infos[d].epochs, task'.infos[d].prev)
                    /\ d \notin running' \/ blocked' => injected'[d] = {}
  BY <1>1, CoversNext
<1>2. /\ d \in running => Covered(db[d], IF task.stage = "commit" /\ d \in DOMAIN task.infos
                                         THEN task.infos[d].epochs ELSE <<>>,
                                  injected[d], committed[d])
      /\ d \in running /\ task.stage = "commit" /\ d \in DOMAIN task.infos =>
           CommitOK(db[d], task.infos[d].epochs, task.infos[d].prev)
      /\ d \notin running \/ blocked => injected[d] = {}
  BY CoversNow
<1> QED BY <1>2

\* Nothing that the invariant is about changes, or the loop starts to clear up, or the task fails.
LEMMA QuietStep ==
  ASSUME EInv, UNCHANGED <<db, stream, running, committed, injected>>, task'.infos = task.infos,
         task'.stage = "none" => task.stage = "none",
         blocked' => blocked, phase' # "clearing" => phase # "clearing", phase' = "running" => phase = "running",
         task'.stage # "err" => task.stage # "err" /\ (task'.stage = "commit" <=> task.stage = "commit")
  PROVE  EInv'
  BY AwaitedFrame, AssertedFrame, CoversFrame DEF EInv

-----------------------------------------------------------------------------
\* The invariant is preserved

LEMMA EpochQuietSteps ==
  ASSUME IInv, EInv,
         \/ Client \/ PostCollectCommand \/ FinishCreatingJob \/ CompleteBarrierFails
         \/ CompletingTaskErr \/ AdhocRecovery \/ RecoveryRetry \/ \E w \in Worker : AddWorker(w)
         \/ UNCHANGED vars
  PROVE  EInv'
<1> USE DEF vars, dbVars, taskVars, nodeVars, schedVars
<1>0. TaskOK
  BY DEF IInv, Types
<1>1. CASE Client
  <2>1. UNCHANGED <<db, stream, running, committed, injected, task, blocked, phase>>
    BY <1>1 DEF Client, Schedule, DropObject, DropStreamingJobs, CancelScheduledCreate
  <2> QED BY <2>1, QuietStep
<1>2. CASE PostCollectCommand \/ FinishCreatingJob
  <2>1. /\ UNCHANGED <<db, stream, running, committed, injected, blocked, phase>>
        /\ \/ task' = [task EXCEPT !.stage = "finish"] /\ task.stage = "post"
           \/ task' = [task EXCEPT !.stage = "ok"] /\ task.stage = "finish"
    BY <1>2 DEF PostCollectCommand, FinishCreatingJob
  <2>2. task'.infos = task.infos /\ task'.stage \in {"finish", "ok"} /\ task.stage \in {"post", "finish"}
    BY <1>0, <2>1, TaskStage
  <2> QED BY <2>1, <2>2, QuietStep
<1>3. CASE CompleteBarrierFails
  <2>1. /\ UNCHANGED <<db, stream, running, committed, injected, blocked, phase>>
        /\ task' = [task EXCEPT !.stage = "err"]
    BY <1>3 DEF CompleteBarrierFails
  <2>2. task'.infos = task.infos /\ task'.stage = "err"
    BY <1>0, <2>1, TaskStage
  <2> QED BY <2>1, <2>2, QuietStep
<1>4. CASE CompletingTaskErr \/ AdhocRecovery
  <2>1. UNCHANGED <<db, stream, running, committed, injected, blocked, task>> /\ phase' = "clearing"
    BY <1>4 DEF CompletingTaskErr, AdhocRecovery
  <2> QED BY <2>1, QuietStep
<1>5. CASE RecoveryRetry
  <2>1. /\ UNCHANGED <<db, stream, running, committed, injected, blocked, task>>
        /\ phase' = "recovering" /\ phase = "initializing"
    BY <1>5 DEF RecoveryRetry
  <2> QED BY <2>1, QuietStep
<1>6. CASE (\E w \in Worker : AddWorker(w)) \/ UNCHANGED vars
  <2>1. UNCHANGED <<db, stream, running, committed, injected, blocked, task, phase>>
    BY <1>6 DEF AddWorker
  <2> QED BY <2>1, QuietStep
<1> QED BY <1>1, <1>2, <1>3, <1>4, <1>5, <1>6

\* The loop runs with empty queues.
LEMMA EpochMarkReadyStep ==
  ASSUME IInv, EInv, MarkReady
  PROVE  EInv'
<1> USE DEF dbVars, taskVars, nodeVars
<1>1. /\ phase = "initializing" /\ blocked' = FALSE /\ phase' = "running"
      /\ UNCHANGED <<db, stream, running, committed, injected, task>>
  BY DEF MarkReady
<1>2. \A d \in Database : Len(db[d].queue) = 0
  BY <1>1 DEF IInv, Recovery, Idle
<1>3. Awaited'
  BY <1>1, <1>2 DEF Awaited, Awaits
<1>4. Asserted' /\ Covers'
  BY <1>1, AssertedFrame, CoversFrame DEF EInv
<1> QED BY <1>3, <1>4 DEF EInv

\* Nobody waits for a worker that may go.
LEMMA EpochWorkerErrorStep ==
  ASSUME IInv, EInv, NEW w \in Worker, WorkerError(w)
  PROVE  EInv'
<1> USE DEF dbVars, taskVars, nodeVars, schedVars
<1>1. /\ phase = "running" /\ phase' = IF IsFailedAtWorkerErr(w) THEN "clearing" ELSE phase
      /\ stream' = [stream EXCEPT ![w] = [d \in Database |-> <<>>]]
      /\ UNCHANGED <<db, running, committed, injected, task, blocked>>
  BY DEF WorkerError, Polling
<1>2. stream \in [Worker -> [Database -> Seq(Nat)]]
  BY DEF IInv, Types, StreamType
<1>3. Awaited'
  <2> SUFFICES ASSUME phase' = "running", NEW v \in Worker, NEW d \in Database
               PROVE  Awaits(v, stream'[v][d], db'[d])
    BY DEF Awaited, Awaits
  <2>1. ~IsFailedAtWorkerErr(w)
    BY <1>1
  <2>2. Awaits(v, stream[v][d], db[d])
    BY <1>1 DEF EInv, Awaited
  <2>3. CASE v # w
    BY <2>2, <2>3, <1>1, <1>2
  <2>4. CASE v = w
    <3>1. \A k \in 1..Len(db[d].queue) : v \notin db[d].queue[k].wait
      <4>1. CASE d \in running
        BY <2>1, <2>4, <4>1 DEF IsFailedAtWorkerErr
      <4>2. CASE d \notin running
        <5>1. Len(db[d].queue) = 0
          BY <4>2 DEF IInv, Queues, Idle
        <5> QED BY <5>1
      <4> QED BY <4>1, <4>2
    <3> QED BY <3>1, <1>1 DEF Awaits
  <2> QED BY <2>3, <2>4
<1>4. Asserted' /\ Covers'
  BY <1>1, AssertedFrame, CoversFrame DEF EInv
<1> QED BY <1>3, <1>4 DEF EInv

\* commit_epoch takes away the epochs that it commits.
LEMMA EpochCommitStep ==
  ASSUME IInv, EInv, CommitEpoch
  PROVE  EInv'
<1> USE DEF nodeVars, schedVars
<1>0. /\ UNCHANGED <<running, db, stream, blocked, phase>> /\ task.stage = "commit"
      /\ committed' = [d \in Database |-> IF d \in DOMAIN task.infos
                                          THEN task.infos[d].prev ELSE committed[d]]
      /\ injected' = [d \in Database |-> IF d \in DOMAIN task.infos
                        THEN {e \in injected[d] : e > task.infos[d].prev} ELSE injected[d]]
  BY DEF CommitEpoch
<1>1. task'.stage = "post" /\ task'.infos = task.infos
  BY TaskStage DEF CommitEpoch, IInv, Types
<1>2. Awaited' /\ Asserted'
  BY <1>0, <1>1, AwaitedFrame, AssertedFrame DEF EInv
<1>3. injected \in [Database -> SUBSET Nat] /\ db \in [Database -> DatabaseState]
  BY DEF EInv, Covers, IInv, Types, DbType
<1>4. injected' \in [Database -> SUBSET Nat]
  BY <1>0, <1>3
<1>5. ASSUME phase' # "clearing", NEW d \in Database
      PROVE  /\ d \in running' => Covered(db'[d], <<>>, injected'[d], committed'[d])
             /\ d \notin running' \/ blocked' => injected'[d] = {}
  <2>1. /\ d \in running => Covered(db[d], IF task.stage = "commit" /\ d \in DOMAIN task.infos
                                           THEN task.infos[d].epochs ELSE <<>>,
                                    injected[d], committed[d])
        /\ d \in running /\ task.stage = "commit" /\ d \in DOMAIN task.infos =>
             CommitOK(db[d], task.infos[d].epochs, task.infos[d].prev)
        /\ d \notin running \/ blocked => injected[d] = {}
    BY <1>0, <1>5, CoversNow DEF EInv
  <2>2. CASE d \in DOMAIN task.infos
    <3>1. injected'[d] = {e \in injected[d] : e > task.infos[d].prev} /\ committed'[d] = task.infos[d].prev
      BY <2>2, <1>0
    <3>2. task.infos[d] \in Info
      BY <2>2 DEF IInv, Types, TaskOK, TaskType
    <3>3. task.infos[d].prev \in Nat /\ task.infos[d].epochs \in Seq(Nat)
      BY <3>2 DEF Info, Epoch
    <3>4. ASSUME d \in running PROVE Covered(db[d], <<>>, injected'[d], committed'[d])
      <4>1. /\ Covered(db[d], task.infos[d].epochs, injected[d], committed[d])
            /\ CommitOK(db[d], task.infos[d].epochs, task.infos[d].prev)
        BY <2>1, <2>2, <3>4, <1>0
      <4>2. db[d] \in DatabaseState /\ injected[d] \in SUBSET Nat
        BY <1>3
      <4> QED BY <4>1, <4>2, <3>1, <3>3, CommitCovered
    <3> QED BY <2>1, <3>1, <3>4, <1>0
  <2>3. CASE d \notin DOMAIN task.infos
    BY <2>1, <2>3, <1>0
  <2> QED BY <2>2, <2>3
<1>6. Covers'
  BY <1>1, <1>4, <1>5, CoversNext
<1> QED BY <1>2, <1>6 DEF EInv

\* ack_completed takes the barrier that completes.
LEMMA EpochAckStep ==
  ASSUME IInv, EInv, AckCompleted
  PROVE  EInv'
<1> USE DEF nodeVars, schedVars
<1>0. /\ task.stage = "ok" /\ task' = NoTask
      /\ db' = [d \in Database |-> IF d \in DOMAIN task.infos
                                   THEN [db[d] EXCEPT !.completing = NoBarrier] ELSE db[d]]
      /\ UNCHANGED <<running, committed, injected, stream, blocked, phase>>
  BY DEF AckCompleted
<1>1. task'.stage = "none" /\ DOMAIN task'.infos = {}
  BY <1>0 DEF NoTask
<1>2. db \in [Database -> DatabaseState]
  BY DEF IInv, Types, DbType
<1>3. \A d \in Database : /\ db'[d].queue = db[d].queue /\ db'[d].prev = db[d].prev
                          /\ db'[d].pending = db[d].pending
                          /\ d \in DOMAIN task.infos => db'[d].completing = NoBarrier
                          /\ d \notin DOMAIN task.infos => db'[d] = db[d]
  <2> TAKE d \in Database
  <2> DEFINE t == [db[d] EXCEPT !.completing = NoBarrier]
  <2>1. /\ t.queue = db[d].queue /\ t.prev = db[d].prev /\ t.pending = db[d].pending
        /\ t.completing = NoBarrier
    BY <1>2 DEF DatabaseState
  <2>2. db'[d] = IF d \in DOMAIN task.infos THEN t ELSE db[d]
    BY <1>0
  <2> HIDE DEF t
  <2> QED BY <2>1, <2>2
<1>4. Awaited'
  BY <1>0, <1>3 DEF EInv, Awaited, Awaits
<1>5. Asserted'
  <2> SUFFICES ASSUME NEW d \in Database PROVE Linked(db'[d]) /\ db'[d].completing = NoBarrier
    BY <1>1 DEF Asserted, Linked, Completing
  <2>1. Linked(db[d]) /\ (d \notin DOMAIN task.infos => db[d].completing = NoBarrier)
    BY DEF EInv, Asserted, Completing
  <2> QED BY <2>1, <1>3 DEF Linked
<1>6. ASSUME phase' # "clearing", NEW d \in Database
      PROVE  /\ d \in running' => Covered(db'[d], <<>>, injected'[d], committed'[d])
             /\ d \notin running' \/ blocked' => injected'[d] = {}
  <2>1. /\ d \in running => Covered(db[d], <<>>, injected[d], committed[d])
        /\ d \notin running \/ blocked => injected[d] = {}
    BY <1>0, <1>6, CoversNow DEF EInv
  <2>2. Covered(db[d], <<>>, injected[d], committed[d]) => Covered(db'[d], <<>>, injected[d], committed[d])
    BY <1>3 DEF Covered, Segments, Listed
  <2> QED BY <2>1, <2>2, <1>0
<1>7. injected' \in [Database -> SUBSET Nat]
  BY <1>0 DEF EInv, Covers
<1>8. Covers'
  BY <1>1, <1>6, <1>7, CoversNext
<1> QED BY <1>4, <1>5, <1>8 DEF EInv

\* The barriers of a queue close different epochs.
LEMMA PrevsDiffer ==
  ASSUME IInv, NEW d \in Database, NEW i \in 1..Len(db[d].queue), NEW k \in 1..Len(db[d].queue), i # k
  PROVE  db[d].queue[i].prev # db[d].queue[k].prev
<1> DEFINE q == db[d].queue
<1>1. Len(q) \in Nat /\ \A m \in 1..Len(q) : q[m].prev \in Nat /\ q[m].curr \in Nat
  BY DbFacts DEF IInv, Types, DbType
<1>2. /\ \A m \in 1..Len(q) : q[m].prev < q[m].curr
      /\ \A m \in 1..Len(q) : \A j \in 1..(m - 1) : q[j].curr <= q[m].prev
  BY DEF IInv, Queues, QueueOK, Chain
<1>3. i \in 1..(k - 1) \/ k \in 1..(i - 1)
  BY <1>1
<1>4. /\ q[i].prev \in Nat /\ q[i].curr \in Nat /\ q[k].prev \in Nat /\ q[k].curr \in Nat
      /\ q[i].prev < q[i].curr /\ q[k].prev < q[k].curr
      /\ q[i].curr <= q[k].prev \/ q[k].curr <= q[i].prev
  BY <1>1, <1>2, <1>3
<1> HIDE DEF q
<1> QED BY <1>4 DEF q

\* next_complete_barrier_task takes collected barriers, for which nobody waits.
LEMMA EpochCompleteStep ==
  ASSUME IInv, EInv, StartCompleting
  PROVE  EInv'
<1> USE DEF nodeVars, schedVars
<1>0. /\ task.stage = "none" /\ task'.stage \in {"none", "commit"}
      /\ DOMAIN task'.infos # {} => task'.stage = "commit"
      /\ \A d \in Database : d \in running => \E n, out : CompletedIn(d, n, out)
      /\ \A d \in Database : d \notin running => db'[d] = db[d] /\ d \notin DOMAIN task'.infos
      /\ UNCHANGED <<running, injected, committed, stream, blocked, phase>>
  BY CompleteCases
<1>1. running \subseteq Database /\ injected' \in [Database -> SUBSET Nat]
  BY <1>0 DEF IInv, Types, LoopType, EInv, Covers
<1>2. \A d \in Database : db[d].completing = NoBarrier
  <2> TAKE d \in Database
  <2>1. d \notin DOMAIN task.infos
    BY <1>0 DEF EInv, Asserted
  <2> QED BY <2>1 DEF EInv, Asserted, Completing
<1>3. Awaited'
  <2> SUFFICES ASSUME phase' = "running", NEW w \in Worker, NEW d \in Database
               PROVE  Awaits(w, stream'[w][d], db'[d])
    BY DEF Awaited, Awaits
  <2>1. Awaits(w, stream[w][d], db[d])
    BY <1>0 DEF EInv, Awaited
  <2>2. CASE d \in running
    <3>1. PICK n, out : CompletedIn(d, n, out)
      BY <2>2, <1>0
    <3>2. \A k \in 1..Len(db'[d].queue) : n + k \in 1..Len(db[d].queue) /\ db'[d].queue[k] = db[d].queue[n + k]
      BY <3>1 DEF CompletedIn, DoneOK
    <3> QED BY <2>1, <3>2, <1>0 DEF Awaits
  <2>3. CASE d \notin running
    BY <2>1, <2>3, <1>0
  <2> QED BY <2>2, <2>3
<1>4. Asserted'
  <2> SUFFICES ASSUME NEW d \in Database
               PROVE  /\ Linked(db'[d])
                      /\ IF d \in DOMAIN task'.infos THEN db'[d].completing.prev = task'.infos[d].prev
                         ELSE db'[d].completing = NoBarrier
    BY <1>0 DEF Asserted, Linked, Completing
  <2>1. Linked(db[d])
    BY DEF EInv, Asserted
  <2>2. CASE d \in running
    <3>1. PICK n, out : CompletedIn(d, n, out)
      BY <2>2, <1>0
    <3>2. DoneOK(d, db[d].queue, n, out) /\ db'[d] = out.state
      BY <3>1 DEF CompletedIn
    <3>3. Linked(out.state)
      BY <2>1, <3>2, CompleteLinked
    <3>4. CASE out.ckpt
      <4>1. d \in DOMAIN task'.infos /\ task'.infos[d] = out.info
        BY <3>1, <3>4 DEF CompletedIn
      <4>2. out.info.prev = out.state.completing.prev
        BY <3>2, <3>4 DEF DoneOK
      <4> QED BY <3>2, <3>3, <4>1, <4>2
    <3>5. CASE ~out.ckpt
      <4>1. d \notin DOMAIN task'.infos /\ out.state.completing = NoBarrier
        BY <3>1, <3>5, <1>2 DEF CompletedIn, DoneOK
      <4> QED BY <3>2, <3>3, <4>1
    <3> QED BY <3>4, <3>5
  <2>3. CASE d \notin running
    BY <2>1, <2>3, <1>0, <1>2
  <2> QED BY <2>2, <2>3
<1>5. ASSUME phase' # "clearing", NEW d \in Database
      PROVE  /\ d \in running' => Covered(db'[d], IF task'.stage = "commit" /\ d \in DOMAIN task'.infos
                                                  THEN task'.infos[d].epochs ELSE <<>>,
                                          injected'[d], committed'[d])
             /\ d \in running' /\ task'.stage = "commit" /\ d \in DOMAIN task'.infos =>
                  CommitOK(db'[d], task'.infos[d].epochs, task'.infos[d].prev)
             /\ d \notin running' \/ blocked' => injected'[d] = {}
  <2>1. /\ d \in running => Covered(db[d], <<>>, injected[d], committed[d])
        /\ d \notin running \/ blocked => injected[d] = {}
    BY <1>0, <1>5, CoversNow DEF EInv
  <2>2. CASE d \in running
    <3>1. PICK n, out : CompletedIn(d, n, out)
      BY <2>2, <1>0
    <3>2. DoneOK(d, db[d].queue, n, out) /\ db'[d] = out.state
      BY <3>1 DEF CompletedIn
    <3>3. /\ Covered(out.state, IF out.ckpt THEN out.info.epochs ELSE <<>>, injected[d], committed[d])
          /\ out.ckpt => CommitOK(out.state, out.info.epochs, out.info.prev)
      BY <2>1, <2>2, <3>2, CompleteCovered
    <3>4. CASE out.ckpt
      <4>1. d \in DOMAIN task'.infos /\ task'.infos[d] = out.info /\ task'.stage = "commit"
        BY <3>1, <3>4, <1>0 DEF CompletedIn
      <4> QED BY <2>1, <2>2, <3>2, <3>3, <3>4, <4>1, <1>0
    <3>5. CASE ~out.ckpt
      <4>1. d \notin DOMAIN task'.infos
        BY <3>1, <3>5 DEF CompletedIn
      <4> QED BY <2>1, <2>2, <3>2, <3>3, <3>5, <4>1, <1>0
    <3> QED BY <3>4, <3>5
  <2>3. CASE d \notin running
    BY <2>1, <2>3, <1>0
  <2> QED BY <2>2, <2>3
<1>6. Covers'
  BY <1>1, <1>5, CoversNext
<1> QED BY <1>3, <1>4, <1>6 DEF EInv

\* A worker collects the oldest barrier that it has, which is the first that waits for it.
LEMMA EpochCollectedStep ==
  ASSUME IInv, EInv, NEW w \in Worker, NEW d \in Database, BarrierCollected(w, d)
  PROVE  EInv'
<1> DEFINE st == stream[w][d]  t == Tail(st)
<1> USE DEF taskVars, schedVars
<1>0. /\ phase = "running" /\ st # <<>> /\ stream' = [stream EXCEPT ![w][d] = Tail(@)]
      /\ UNCHANGED <<running, committed, injected, task, blocked, phase>>
  BY DEF BarrierCollected, Polling
<1>1. PICK i, done : CollectedOf(w, d, i, done)
  BY CollectedFacts
<1>2. /\ db \in [Database -> DatabaseState] /\ stream \in [Worker -> [Database -> Seq(Nat)]] /\ st \in Seq(Nat)
  BY DEF IInv, Types, DbType, StreamType
<1>3. /\ Len(st) \in Nat /\ Len(t) = Len(st) - 1 /\ Head(st) = st[1] /\ 1 \in 1..Len(st)
      /\ \A k \in 1..Len(t) : k + 1 \in 1..Len(st) /\ t[k] = st[k + 1]
  BY <1>0, <1>2, TailFacts
<1>4. \A v \in Worker, f \in Database : stream'[v][f] = IF v = w /\ f = d THEN t ELSE stream[v][f]
  BY <1>0, <1>2
<1> HIDE DEF t, st
<1>5. \A f \in Database : SameEpochs(db[f], db'[f])
  BY <1>1 DEF CollectedOf, SameEpochs
<1>6. \A f \in Database : \A k \in 1..Len(db[f].queue) :
        /\ Len(db'[f].queue) = Len(db[f].queue)
        /\ db'[f].queue[k].prev = db[f].queue[k].prev
        /\ (f # d \/ k # i) => db'[f].queue[k].wait = db[f].queue[k].wait
        /\ (f = d /\ k = i) => db'[f].queue[k].wait = db[f].queue[k].wait \ {w}
  BY <1>1 DEF CollectedOf
<1>7. i \in 1..Len(db[d].queue) /\ db[d].queue[i].prev = Head(st) /\ \A f \in Database : Len(db'[f].queue) = Len(db[f].queue)
  BY <1>1 DEF CollectedOf, st
<1>8. Awaited'
  <2> SUFFICES ASSUME NEW v \in Worker, NEW f \in Database, NEW k \in 1..Len(db'[f].queue),
                      v \in db'[f].queue[k].wait
               PROVE  \E m \in 1..Len(stream'[v][f]) : stream'[v][f][m] = db'[f].queue[k].prev
    BY DEF Awaited, Awaits
  <2>1. k \in 1..Len(db[f].queue)
    BY <1>7
  <2>2. v \in db[f].queue[k].wait /\ db'[f].queue[k].prev = db[f].queue[k].prev
    BY <2>1, <1>6
  <2>3. PICK m \in 1..Len(stream[v][f]) : stream[v][f][m] = db[f].queue[k].prev
    BY <2>1, <2>2, <1>0 DEF EInv, Awaited, Awaits
  <2>4. CASE v # w \/ f # d
    BY <2>2, <2>3, <2>4, <1>4
  <2>5. CASE v = w /\ f = d
    <3>1. k # i
      BY <2>1, <2>5, <1>6
    <3>2. db[d].queue[k].prev # db[d].queue[i].prev
      BY <2>1, <2>5, <3>1, <1>7, PrevsDiffer
    <3>3. stream[v][f] = st /\ stream'[v][f] = t /\ m \in 1..Len(st) /\ st[m] = db[d].queue[k].prev
      BY <2>3, <2>5, <1>4 DEF st
    <3>4. m # 1
      BY <3>2, <3>3, <1>3, <1>7
    <3>5. m - 1 \in 1..Len(t) /\ (m - 1) + 1 = m
      BY <3>3, <3>4, <1>3
    <3>6. t[m - 1] = st[m]
      BY <3>5, <1>3
    <3> QED BY <2>2, <2>5, <3>3, <3>5, <3>6
  <2> QED BY <2>4, <2>5
<1>9. Asserted'
  <2> SUFFICES ASSUME NEW f \in Database
               PROVE  /\ Linked(db'[f])
                      /\ IF f \in DOMAIN task.infos THEN db'[f].completing.prev = task.infos[f].prev
                         ELSE db'[f].completing = NoBarrier
    BY <1>0 DEF EInv, Asserted, Linked, Completing
  <2>1. Linked(db[f]) /\ Completing(f) /\ db[f] \in DatabaseState
    BY <1>2 DEF EInv, Asserted
  <2>2. Linked(db'[f])
    BY <2>1, <1>5, SameCovered
  <2>3. db'[f].completing = db[f].completing
    BY <1>5 DEF SameEpochs
  <2> QED BY <2>1, <2>2, <2>3 DEF Completing
<1>10. ASSUME task.stage # "err", NEW f \in Database
       PROVE  /\ f \in running' => Covered(db'[f], IF task'.stage = "commit" /\ f \in DOMAIN task'.infos
                                                   THEN task'.infos[f].epochs ELSE <<>>,
                                           injected'[f], committed'[f])
              /\ f \in running' /\ task'.stage = "commit" /\ f \in DOMAIN task'.infos =>
                   CommitOK(db'[f], task'.infos[f].epochs, task'.infos[f].prev)
              /\ f \notin running' \/ blocked' => injected'[f] = {}
  <2> DEFINE l == IF task.stage = "commit" /\ f \in DOMAIN task.infos THEN task.infos[f].epochs ELSE <<>>
  <2>1. /\ f \in running => Covered(db[f], l, injected[f], committed[f])
        /\ f \in running /\ task.stage = "commit" /\ f \in DOMAIN task.infos =>
             CommitOK(db[f], task.infos[f].epochs, task.infos[f].prev)
        /\ f \notin running \/ blocked => injected[f] = {}
    BY <1>0, <1>10, CoversNow DEF EInv
  <2> HIDE DEF l
  <2>2. db[f] \in DatabaseState /\ SameEpochs(db[f], db'[f])
    BY <1>2, <1>5
  <2>3. Covered(db[f], l, injected[f], committed[f]) => Covered(db'[f], l, injected[f], committed[f])
    BY <2>2, SameCovered
  <2>4. CommitOK(db[f], task.infos[f].epochs, task.infos[f].prev) =>
          CommitOK(db'[f], task.infos[f].epochs, task.infos[f].prev)
    BY <2>2, SameCovered
  <2> QED BY <2>1, <2>3, <2>4, <1>0 DEF l
<1>11. Covers'
  <2>1. injected' \in [Database -> SUBSET Nat]
    BY <1>0 DEF EInv, Covers
  <2> QED BY <2>1, <1>0, <1>10, CoversNext
<1> QED BY <1>8, <1>9, <1>11 DEF EInv

\* The new barrier waits for the workers that are connected, to each of which it is sent.
LEMMA InjectAwaits ==
  ASSUME NEW s, NEW w, NEW old \in Seq(Nat), Awaits(w, old, s), s.prev \in Nat,
         NEW c, NEW checkpoint, NEW curr, NEW t, Injected(s, c, checkpoint, curr, t),
         NEW new, new = IF w \in connected THEN Append(old, s.prev) ELSE old
  PROVE  Awaits(w, new, t)
<1> SUFFICES ASSUME NEW k \in 1..Len(t.queue), w \in t.queue[k].wait
             PROVE  \E i \in 1..Len(new) : new[i] = t.queue[k].prev
  BY DEF Awaits
<1> DEFINE n == Len(s.queue)
<1>1. /\ Len(t.queue) = n + 1 /\ n \in Nat /\ \A i \in 1..n : t.queue[i] = s.queue[i]
      /\ t.queue[n + 1].prev = s.prev /\ t.queue[n + 1].wait = connected
  BY DEF Injected
<1>2. /\ Len(old) \in Nat /\ Len(new) \in Nat /\ \A i \in 1..Len(old) : i \in 1..Len(new) /\ new[i] = old[i]
      /\ w \in connected => Len(new) \in 1..Len(new) /\ new[Len(new)] = s.prev
  OBVIOUS
<1>3. k \in 1..n \/ k = n + 1
  BY <1>1
<1>4. CASE k \in 1..n
  <2>1. PICK i \in 1..Len(old) : old[i] = s.queue[k].prev
    BY <1>1, <1>4 DEF Awaits
  <2> QED BY <2>1, <1>1, <1>2, <1>4
<1>5. CASE k = n + 1
  BY <1>1, <1>2, <1>5
<1> QED BY <1>3, <1>4, <1>5

\* A new database has nothing to cover.
LEMMA NewCovered ==
  ASSUME NEW p \in Nat, NEW jobs \in SUBSET Job, NEW t, t = NewDatabase(p, jobs), NEW com
  PROVE  Covered(t, <<>>, {}, com) /\ Linked(t) /\ t.completing = NoBarrier /\ Len(t.queue) = 0
<1>1. t \in DatabaseState /\ Len(t.queue) = 0
  BY NewDatabaseFacts
<1>2. t.completing = NoBarrier /\ Len(t.pending) = 0
  BY DEF NewDatabase
<1> QED BY <1>1, <1>2, EmptyCovered

\* All databases are new, and no epoch is closed.
LEMMA FreshCovered ==
  ASSUME \A d \in Database : \E p \in Nat, jobs \in SUBSET Job : db'[d] = NewDatabase(p, jobs),
         injected' = [d \in Database |-> {}], task' = NoTask
  PROVE  EInv'
<1>1. \A d \in Database : /\ Covered(db'[d], <<>>, {}, committed'[d]) /\ Linked(db'[d])
                          /\ db'[d].completing = NoBarrier /\ Len(db'[d].queue) = 0
  BY NewCovered
<1>2. task'.stage = "none" /\ DOMAIN task'.infos = {}
  BY DEF NoTask
<1>3. Awaited'
  BY <1>1 DEF Awaited, Awaits
<1>4. Asserted'
  BY <1>1, <1>2 DEF Asserted, Linked, Completing
<1>5. Covers'
  <2>1. injected' \in [Database -> SUBSET Nat]
    OBVIOUS
  <2> QED BY <1>1, <1>2, <2>1, CoversNext
<1> QED BY <1>3, <1>4, <1>5 DEF EInv

LEMMA EpochClearStep ==
  ASSUME StartRecovery
  PROVE  EInv'
<1>1. /\ db' = [d \in Database |-> NewDatabase(0, {})] /\ injected' = [d \in Database |-> {}]
      /\ task' = NoTask
  BY DEF StartRecovery
<1>2. \A d \in Database : \E p \in Nat, jobs \in SUBSET Job : db'[d] = NewDatabase(p, jobs)
  BY <1>1
<1> QED BY <1>1, <1>2, FreshCovered

LEMMA EpochReloadStep ==
  ASSUME IInv, EInv, ReloadRuntimeInfo
  PROVE  EInv'
<1> DEFINE jobsOf(d) == {j \in created : JobDatabase[j] = d}
<1>1. /\ phase = "recovering" /\ UNCHANGED <<injected, task>>
      /\ db' = [d \in Database |-> IF d \in running' THEN NewDatabase(clock + 1, jobsOf(d))
                                   ELSE NewDatabase(0, {})]
  BY DEF ReloadRuntimeInfo, taskVars
<1>2. blocked /\ task = NoTask /\ clock + 1 \in Nat /\ \A d \in Database : jobsOf(d) \in SUBSET Job
  BY <1>1 DEF IInv, Recovery, Types, LoopType
<1>3. ASSUME NEW d \in Database PROVE \E p \in Nat, jobs \in SUBSET Job : db'[d] = NewDatabase(p, jobs)
  <2>1. db'[d] = NewDatabase(clock + 1, jobsOf(d)) \/ db'[d] = NewDatabase(0, {})
    BY <1>1
  <2>2. jobsOf(d) \in SUBSET Job
    BY <1>2
  <2> HIDE DEF jobsOf
  <2> QED BY <2>1, <2>2, <1>2
<1>4. injected' = [d \in Database |-> {}]
  <2>1. task.stage # "err"
    BY <1>2 DEF NoTask
  <2>2. \A d \in Database : injected[d] = {}
    BY <1>1, <1>2, <2>1, CoversNow DEF EInv
  <2> QED BY <1>1, <2>2 DEF EInv, Covers
<1>5. task' = NoTask
  BY <1>1, <1>2
<1> QED BY <1>3, <1>4, <1>5, FreshCovered

LEMMA EpochInit ==
  ASSUME Init
  PROVE  EInv
<1>1. /\ db = [d \in Database |-> NewDatabase(0, {})] /\ injected = [d \in Database |-> {}]
      /\ task = NoTask /\ phase = "recovering" /\ running = {}
  BY DEF Init
<1>2. \A d \in Database : /\ Linked(db[d]) /\ db[d].completing = NoBarrier /\ Len(db[d].queue) = 0
  BY <1>1, NewCovered
<1>3. task.stage = "none" /\ DOMAIN task.infos = {}
  BY <1>1 DEF NoTask
<1>4. Awaited /\ Asserted
  BY <1>1, <1>2, <1>3 DEF Awaited, Asserted, Completing
<1>5. Covers
  BY <1>1, <1>3 DEF Covers, CoversOf, ToCommit
<1> QED BY <1>4, <1>5 DEF EInv

\* A barrier is injected into some of the databases.
LEMMA EpochInjectionStep ==
  ASSUME IInv, EInv, AroundInjection, InjectsBarrier
  PROVE  EInv'
<1>0. /\ phase = "running" /\ UNCHANGED <<task, committed, connected, blocked>> /\ ~blocked
      /\ running \subseteq running' /\ running' \subseteq Database
  BY DEF AroundInjection, taskVars, IInv, Recovery
<1>1. CASE phase' = "clearing" /\ UNCHANGED <<db, stream, injected>>
  <2>1. Awaited' /\ Asserted'
    BY <1>0, <1>1, AwaitedFrame, AssertedFrame DEF EInv
  <2>2. Covers'
    BY <1>1 DEF EInv, Covers
  <2> QED BY <2>1, <2>2 DEF EInv
<1>2. ASSUME phase' = "running", injected' = [d \in Database |-> injected'[d]],
             NEW now \in Nat, NEW checkpoint \in BOOLEAN,
             \A d \in Database : \E s, c : InjectedInto(d, s, c, checkpoint, now)
      PROVE  EInv'
  <2> DEFINE Fine(d) ==
        /\ \A w \in Worker : Awaits(w, stream'[w][d], db'[d])
        /\ Linked(db'[d])
        /\ IF d \in DOMAIN task.infos THEN db'[d].completing.prev = task.infos[d].prev
           ELSE db'[d].completing = NoBarrier
        /\ injected'[d] \in SUBSET Nat
        /\ task.stage # "err" =>
             /\ d \in running' => Covered(db'[d], IF task.stage = "commit" /\ d \in DOMAIN task.infos
                                                  THEN task.infos[d].epochs ELSE <<>>,
                                          injected'[d], committed[d])
             /\ d \in running' /\ task.stage = "commit" /\ d \in DOMAIN task.infos =>
                  CommitOK(db'[d], task.infos[d].epochs, task.infos[d].prev)
             /\ d \notin running' => injected'[d] = {}
  <2>1. ASSUME NEW d \in Database PROVE Fine(d)
    <3> DEFINE l == IF task.stage = "commit" /\ d \in DOMAIN task.infos THEN task.infos[d].epochs ELSE <<>>
               closed == injected[d]
               com == committed[d]
    <3>1. PICK s, c : InjectedInto(d, s, c, checkpoint, now)
      BY <1>2
    <3>2. /\ s \in DatabaseState /\ QueueOK(s, now) /\ (d \in running' => com < s.prev)
          /\ d \in DOMAIN task.infos => task.infos[d].prev < s.prev
      BY <3>1 DEF InjectedInto, Ready
    <3>3. s.prev \in Nat /\ s.prev <= now /\ com \in Nat /\ closed \in SUBSET Nat
      BY <3>2, DbFacts DEF QueueOK, IInv, Types, DbType, EInv, Covers
    <3>4. s.prev < now + 1 /\ now + 1 \in Nat
      BY <3>3
\* The state before the barrier is as the invariant says.
    <3>5. /\ \A w \in Worker : Awaits(w, stream[w][d], s)
          /\ Linked(s)
          /\ IF d \in DOMAIN task.infos THEN s.completing.prev = task.infos[d].prev
             ELSE s.completing = NoBarrier
          /\ task.stage # "err" =>
               /\ d \in running' => Covered(s, l, closed, com)
               /\ d \in running' /\ task.stage = "commit" /\ d \in DOMAIN task.infos =>
                    CommitOK(s, task.infos[d].epochs, task.infos[d].prev)
               /\ d \notin running' => closed = {}
      <4>1. CASE s = db[d] /\ (d \in running' => d \in running)
        <5>1. \A w \in Worker : Awaits(w, stream[w][d], db[d])
          BY <1>0 DEF EInv, Awaited
        <5>2. Linked(db[d]) /\ Completing(d)
          BY DEF EInv, Asserted
        <5>3. ASSUME task.stage # "err"
              PROVE  /\ d \in running => Covered(db[d], l, closed, com)
                     /\ d \in running /\ task.stage = "commit" /\ d \in DOMAIN task.infos =>
                          CommitOK(db[d], task.infos[d].epochs, task.infos[d].prev)
                     /\ d \notin running => closed = {}
          BY <1>0, <5>3, CoversNow DEF EInv
        <5> HIDE DEF l, closed, com
        <5> QED BY <1>0, <4>1, <5>1, <5>2, <5>3 DEF Completing
      <4>2. CASE d \notin running /\ d \in running' /\ s = NewDatabase(now, {})
        <5>1. Covered(s, <<>>, {}, com) /\ Linked(s) /\ s.completing = NoBarrier /\ Len(s.queue) = 0
          BY <4>2, NewCovered
        <5>2. d \notin DOMAIN task.infos
          BY <4>2 DEF IInv, Commits
        <5>3. task.stage # "err" => closed = {}
          BY <1>0, <4>2, CoversNow DEF EInv
        <5>4. \A w \in Worker : Awaits(w, stream[w][d], s)
          BY <5>1 DEF Awaits
        <5> QED BY <4>2, <5>1, <5>2, <5>3, <5>4
      <4> QED BY <3>1, <4>1, <4>2 DEF InjectedInto
    <3> HIDE DEF l, closed, com
    <3>6. CASE db'[d] = s /\ injected'[d] = injected[d] /\ \A w \in Worker : stream'[w][d] = stream[w][d]
      BY <3>3, <3>5, <3>6 DEF l, closed, com
    <3>7. CASE /\ d \in running' /\ Injected(s, c, checkpoint, now + 1, db'[d])
               /\ injected'[d] = injected[d] \cup {s.prev}
               /\ \A w \in Worker : stream'[w][d] = IF w \in connected THEN Append(stream[w][d], s.prev)
                                                     ELSE stream[w][d]
      <4>1. \A w \in Worker : Awaits(w, stream'[w][d], db'[d])
        <5> TAKE w \in Worker
        <5>1. stream[w][d] \in Seq(Nat) /\ Awaits(w, stream[w][d], s)
          BY <3>5 DEF IInv, Types, StreamType
        <5>2. stream'[w][d] = IF w \in connected THEN Append(stream[w][d], s.prev) ELSE stream[w][d]
          BY <3>7
        <5> QED BY <5>1, <5>2, <3>3, <3>7, InjectAwaits
      <4>2. Linked(db'[d]) /\ db'[d].completing = s.completing
        <5>1. Linked(db'[d])
          BY <3>2, <3>5, <3>7, InjectLinked
        <5>2. db'[d].completing = s.completing
          BY <3>7 DEF Injected
        <5> QED BY <5>1, <5>2
      <4>3. injected'[d] = closed \cup {s.prev} /\ injected'[d] \in SUBSET Nat
        BY <3>3, <3>7 DEF closed
      <4>4. ASSUME task.stage # "err" PROVE Covered(db'[d], l, injected'[d], com)
        BY <3>2, <3>3, <3>4, <3>5, <3>7, <4>3, <4>4, InjectCovered
      <4>5. ASSUME task.stage # "err", task.stage = "commit" /\ d \in DOMAIN task.infos
            PROVE  CommitOK(db'[d], task.infos[d].epochs, task.infos[d].prev)
        <5>1. task.infos[d].prev \in Nat /\ task.infos[d].prev < s.prev
          BY <3>2, <4>5, TaskInfo
        <5>2. CommitOK(s, task.infos[d].epochs, task.infos[d].prev)
          BY <3>5, <3>7, <4>5
        <5> QED BY <5>1, <5>2, <3>2, <3>7, InjectCommit
      <4> QED BY <3>5, <3>7, <4>1, <4>2, <4>3, <4>4, <4>5 DEF l, com
    <3> QED BY <3>1, <3>6, <3>7 DEF InjectedInto
  <2>2. Awaited'
    BY <2>1 DEF Awaited, Awaits
  <2>3. Asserted'
    BY <2>1, <1>0 DEF EInv, Asserted, Linked, Completing
  <2>4. injected' \in [Database -> SUBSET Nat]
    <3>1. \A d \in Database : injected'[d] \in SUBSET Nat
      BY <2>1
    <3> QED BY <3>1, <1>2
  <2>5. Covers'
    BY <2>1, <2>4, <1>0, CoversNext
  <2> QED BY <2>2, <2>3, <2>5 DEF EInv
<1> QED BY <1>1, <1>2, InjectionCases

LEMMA EpochBarrierStep ==
  ASSUME IInv, EInv, NewPeriodicBarrier \/ \E d \in Database : NewCommandBarrier(d)
  PROVE  EInv'
<1>1. AroundInjection /\ (InjectsBarrier \/ NoInjection)
  BY PeriodicCases, CommandCases
<1>2. CASE InjectsBarrier
  BY <1>1, <1>2, EpochInjectionStep
<1>3. CASE NoInjection
  <2>1. UNCHANGED <<db, stream, running, committed, injected, task, blocked, phase>>
    BY <1>1, <1>3 DEF AroundInjection, NoInjection, taskVars
  <2> QED BY <2>1, QuietStep
<1> QED BY <1>1, <1>2, <1>3

LEMMA EpochNextStep ==
  ASSUME IInv, EInv, [Next]_vars
  PROVE  EInv'
<1>1. CASE Client \/ UNCHANGED vars
  BY <1>1, EpochQuietSteps
<1>2. CASE Loop
  <2>1. CASE NewPeriodicBarrier \/ \E d \in Database : NewCommandBarrier(d)
    BY <2>1, EpochBarrierStep
  <2>2. CASE \E w \in Worker, d \in Database : BarrierCollected(w, d)
    BY <2>2, EpochCollectedStep
  <2>3. CASE StartCompleting
    BY <2>3, EpochCompleteStep
  <2>4. CASE AckCompleted
    BY <2>4, EpochAckStep
  <2>5. CASE CompletingTaskErr
    BY <2>5, EpochQuietSteps
  <2>6. CASE ClearOnErr \/ \E d \in Database : MetaPanics(d)
    BY <2>6, EpochClearStep DEF ClearOnErr, MetaPanics
  <2>7. CASE ReloadRuntimeInfo
    BY <2>7, EpochReloadStep
  <2>8. CASE MarkReady
    BY <2>8, EpochMarkReadyStep
  <2> QED BY <1>2, <2>1, <2>2, <2>3, <2>4, <2>5, <2>6, <2>7, <2>8 DEF Loop
<1>3. CASE CompleteBarrier
  BY <1>3, EpochCommitStep, EpochQuietSteps DEF CompleteBarrier
<1>4. CASE Fault
  <2>1. CASE \E w \in Worker : WorkerError(w)
    BY <2>1, EpochWorkerErrorStep
  <2>2. CASE AdhocRecovery \/ CompleteBarrierFails \/ RecoveryRetry \/ \E w \in Worker : AddWorker(w)
    BY <2>2, EpochQuietSteps
  <2> QED BY <1>4, <2>1, <2>2 DEF Fault
<1> QED BY <1>1, <1>2, <1>3, <1>4 DEF Next

-----------------------------------------------------------------------------
\* The theorems' properties follow from the invariant

\* What the list at place i of the database s holds, when l is being committed.
ListAt(s, l, i) ==
  IF i = 0 THEN l ELSE IF i <= Len(s.queue) THEN s.queue[i].epochs ELSE s.pending

LEMMA Places ==
  ASSUME NEW n \in Nat
  PROVE  /\ \A k \in 0..(n + 1) : k = 0 \/ k \in 1..n \/ k = n + 1
         /\ \A k \in 1..n : \A m \in 1..n : k < m => k \in 1..(m - 1)
         /\ \A k \in 1..n : ~(k < 0) /\ ~(n + 1 < k) /\ k # 0 /\ k <= n
         /\ n + 1 # 0 /\ ~(n + 1 <= n) /\ ~(n + 1 < n + 1) /\ ~(n + 1 < 0) /\ ~(0 < 0)
<1>1. \A k \in 0..(n + 1) : k = 0 \/ k \in 1..n \/ k = n + 1
  OBVIOUS
<1>2. \A k \in 1..n : \A m \in 1..n : k < m => k \in 1..(m - 1)
  OBVIOUS
<1>3. \A k \in 1..n : ~(k < 0) /\ ~(n + 1 < k) /\ k # 0 /\ k <= n
  OBVIOUS
<1> QED BY <1>1, <1>2, <1>3

LEMMA Elements ==
  ASSUME NEW x \in Seq(Nat), NEW a \in 1..Len(x)
  PROVE  x[a] \in Nat /\ Len(x) \in Nat
  OBVIOUS

\* The lists follow one another: in each the epochs are in order, and all are below those of
\* a later one.
InOrder(s, l, n) ==
  \A i, j \in 0..(n + 1) : \A a \in 1..Len(ListAt(s, l, i)), b \in 1..Len(ListAt(s, l, j)) :
    i < j \/ (i = j /\ a < b) => ListAt(s, l, i)[a] < ListAt(s, l, j)[b]

LEMMA ListsInOrder ==
  ASSUME NEW s \in DatabaseState, NEW l \in Seq(Nat), NEW hi \in Nat, Segments(s),
         Len(l) = 0 \/ CommitOK(s, l, hi), NEW n, n = Len(s.queue)
  PROVE  InOrder(s, l, n)
<1> SUFFICES ASSUME NEW i \in 0..(n + 1), NEW j \in 0..(n + 1),
                    NEW x, NEW y, x = ListAt(s, l, i), y = ListAt(s, l, j),
                    NEW a \in 1..Len(x), NEW b \in 1..Len(y), i < j \/ (i = j /\ a < b)
             PROVE  x[a] < y[b]
  BY DEF InOrder
<1>1. /\ n \in Nat /\ s.pending \in Seq(Nat) /\ s.prev \in Nat
      /\ \A k \in 1..n : s.queue[k].epochs \in Seq(Nat) /\ s.queue[k].prev \in Nat
  BY DbFacts
<1>0. n \in Nat
  BY <1>1
<1>2. /\ \A k \in 0..(n + 1) : k = 0 \/ k \in 1..n \/ k = n + 1
      /\ \A k \in 1..n : \A m \in 1..n : k < m => k \in 1..(m - 1)
      /\ \A k \in 1..n : ~(k < 0) /\ ~(n + 1 < k) /\ k # 0 /\ k <= n
      /\ n + 1 # 0 /\ ~(n + 1 <= n) /\ ~(n + 1 < n + 1) /\ ~(n + 1 < 0) /\ ~(0 < 0)
  BY <1>0, Places
<1>3. x \in Seq(Nat) /\ y \in Seq(Nat)
  BY <1>1, <1>2 DEF ListAt
<1>4. x[a] \in Nat /\ y[b] \in Nat /\ Len(x) \in Nat /\ Len(y) \in Nat
  BY <1>3, Elements
<1>5. CASE i = j
  <2>1. Increasing(x)
    <3>1. CASE i = 0
      BY <3>1 DEF ListAt, CommitOK, Upto, Increasing
    <3>2. CASE i \in 1..n
      BY <3>2, <1>1 DEF ListAt, Segments, Upto
    <3>3. CASE i = n + 1
      BY <3>3, <1>1 DEF ListAt, Segments
    <3> QED BY <3>1, <3>2, <3>3, <1>2
  <2>2. x = y /\ b \in 1..Len(x) /\ a \in 1..(b - 1)
    BY <1>1, <1>4, <1>5
  <2> QED BY <2>1, <2>2 DEF Increasing
<1>6. CASE i < j /\ i = 0
  <2>1. x = l /\ CommitOK(s, l, hi)
    BY <1>6 DEF ListAt
  <2>2. x[a] <= hi
    BY <2>1 DEF CommitOK, Upto
  <2>3. Above(y, hi)
    <3>1. CASE j \in 1..n
      BY <3>1, <2>1, <1>1 DEF ListAt, CommitOK, AllAbove
    <3>2. CASE j = n + 1
      BY <3>2, <2>1, <1>1 DEF ListAt, CommitOK, AllAbove
    <3> QED BY <3>1, <3>2, <1>2, <1>6
  <2>4. hi < y[b]
    BY <2>3 DEF Above
  <2> QED BY <2>2, <2>4, <1>4
<1>7. CASE i < j /\ i \in 1..n
  <2>0. x = s.queue[i].epochs /\ s.queue[i].prev \in Nat
    BY <1>1, <1>7 DEF ListAt
  <2>1. IsCheckpoint(s.queue[i])
    BY <2>0, <1>4 DEF IsCheckpoint
  <2>2. x[a] <= s.queue[i].prev
    BY <2>0, <1>7 DEF Segments, Upto
  <2>3. Above(y, s.queue[i].prev)
    <3>1. CASE j \in 1..n
      <4>1. i \in 1..(j - 1) /\ y = s.queue[j].epochs
        BY <3>1, <1>2, <1>7 DEF ListAt
      <4> QED BY <3>1, <4>1, <2>1 DEF Segments
    <3>2. CASE j = n + 1
      <4>1. y = s.pending
        BY <3>2, <1>1 DEF ListAt
      <4> QED BY <4>1, <2>1, <1>7 DEF Segments
    <3> QED BY <3>1, <3>2, <1>2, <1>7
  <2>4. s.queue[i].prev < y[b]
    BY <2>3 DEF Above
  <2>5. \A u, v, p \in Nat : u <= p /\ p < v => u < v
    OBVIOUS
  <2>6. s.queue[i].prev \in Nat
    BY <2>0
  <2> QED BY <2>2, <2>4, <2>5, <2>6, <1>4, Zenon
<1> QED BY <1>1, <1>2, <1>5, <1>6, <1>7

LEMMA CoveredFromEInv ==
  IInv /\ EInv => EpochsCovered
<1> SUFFICES ASSUME IInv, EInv, phase = "running", task.stage # "err", NEW d \in running
             PROVE  LET lists == EpochLists(d) IN
                    /\ \A i, j \in DOMAIN lists : \A a \in DOMAIN lists[i], b \in DOMAIN lists[j] :
                         i < j \/ (i = j /\ a < b) => lists[i][a] < lists[j][b]
                    /\ UNION {Range(lists[i]) : i \in DOMAIN lists} = injected[d]
                    /\ \A e \in injected[d] : e > committed[d]
  BY DEF EpochsCovered
<1> DEFINE s == db[d]  n == Len(s.queue)  lists == EpochLists(d)
           l == IF task.stage = "commit" /\ d \in DOMAIN task.infos THEN task.infos[d].epochs ELSE <<>>
           hi == IF task.stage = "commit" /\ d \in DOMAIN task.infos THEN task.infos[d].prev ELSE 0
<1>0. d \in Database /\ s \in DatabaseState /\ committed[d] \in Nat /\ injected[d] \subseteq Nat
  BY DEF IInv, Types, DbType, LoopType, EInv, Covers
<1>1. l \in Seq(Nat) /\ hi \in Nat
  <2>1. d \in DOMAIN task.infos => task.infos[d] \in Info
    BY DEF IInv, Types, TaskOK, TaskType
  <2> QED BY <2>1 DEF Info, Epoch
<1>2. Covered(s, l, injected[d], committed[d])
  BY <1>0, CoversNow DEF EInv
<1>3. Len(l) = 0 \/ CommitOK(s, l, hi)
  <2>1. CASE task.stage = "commit" /\ d \in DOMAIN task.infos
    BY <2>1, <1>0, CoversNow DEF EInv
  <2>2. CASE ~(task.stage = "commit" /\ d \in DOMAIN task.infos)
    BY <2>2
  <2> QED BY <2>1, <2>2
<1>4. DOMAIN lists = 0..(n + 1) /\ \A i \in 0..(n + 1) : lists[i] = ListAt(s, l, i)
  BY DEF EpochLists, ListAt
<1> HIDE DEF lists, l, hi
<1>5. n \in Nat /\ s.pending \in Seq(Nat) /\ \A k \in 1..n : s.queue[k].epochs \in Seq(Nat)
  BY <1>0, DbFacts
<1> HIDE DEF s
<1>6. \A i \in 0..(n + 1) : i = 0 \/ (i \in 1..n /\ i <= n /\ i # 0) \/ (i = n + 1 /\ ~(i <= n) /\ i # 0)
  <2>1. n \in Nat
    BY <1>5
  <2> HIDE DEF n
  <2> QED BY <2>1
<1>7. \A i \in 0..(n + 1) : lists[i] \in Seq(Nat) /\ DOMAIN lists[i] = 1..Len(lists[i])
  <2> TAKE i \in 0..(n + 1)
  <2>1. ListAt(s, l, i) \in Seq(Nat)
    BY <1>1, <1>5, <1>6 DEF ListAt
  <2> QED BY <2>1, <1>4
<1>8. ASSUME NEW i \in DOMAIN lists, NEW j \in DOMAIN lists, NEW a \in DOMAIN lists[i],
             NEW b \in DOMAIN lists[j], i < j \/ (i = j /\ a < b)
      PROVE  lists[i][a] < lists[j][b]
  <2>1. i \in 0..(n + 1) /\ j \in 0..(n + 1) /\ lists[i] = ListAt(s, l, i) /\ lists[j] = ListAt(s, l, j)
    BY <1>4
  <2>2. a \in 1..Len(lists[i]) /\ b \in 1..Len(lists[j])
    BY <2>1, <1>7
  <2>3. Segments(s)
    BY <1>2 DEF Covered
  <2>4. InOrder(s, l, n)
    BY <2>3, <1>0, <1>1, <1>3, ListsInOrder
  <2> HIDE DEF n
  <2> QED BY <2>1, <2>2, <2>4, <1>8 DEF InOrder
<1>9. ASSUME NEW e \in Nat
      PROVE  (\E i \in 0..(n + 1) : ListedIn(e, lists[i])) <=> ListedIn(e, l) \/ Listed(e, s)
  <2>1. /\ 0 \in 0..(n + 1) /\ lists[0] = l /\ n + 1 \in 0..(n + 1) /\ lists[n + 1] = s.pending
        /\ \A k \in 1..n : k \in 0..(n + 1) /\ lists[k] = s.queue[k].epochs
    BY <1>4, <1>5 DEF ListAt
  <2> QED BY <2>1, <1>6 DEF Listed
<1>10. \A i \in 0..(n + 1) : \A e : e \in Range(lists[i]) <=> ListedIn(e, lists[i])
  BY <1>7 DEF Range, ListedIn
<1>11. \A e : e \in UNION {Range(lists[i]) : i \in DOMAIN lists} <=> \E i \in 0..(n + 1) : ListedIn(e, lists[i])
  BY <1>4, <1>10
<1>12. \A i \in 0..(n + 1) : \A e : ListedIn(e, lists[i]) => e \in Nat
  BY <1>7 DEF ListedIn
<1>13. \A e \in Nat : e \in injected[d] <=> ListedIn(e, l) \/ Listed(e, s)
  BY <1>2 DEF Covered
<1>14. UNION {Range(lists[i]) : i \in DOMAIN lists} = injected[d]
  <2>1. \A e : e \in UNION {Range(lists[i]) : i \in DOMAIN lists} <=> e \in injected[d]
    BY <1>0, <1>9, <1>11, <1>12, <1>13
  <2> QED BY <2>1
<1>15. \A e \in injected[d] : e > committed[d]
  BY <1>0, <1>2 DEF Covered
<1> QED BY <1>8, <1>14, <1>15 DEF lists

LEMMA AwaitedFromEInv ==
  IInv /\ EInv => AwaitedBarriersAreOutstanding
<1> SUFFICES ASSUME IInv, EInv, phase = "running", NEW w \in Worker, NEW d \in Database
             PROVE  LET outstanding == stream[w][d]
                        waiting == {k \in 1..Len(db[d].queue) : w \in db[d].queue[k].wait}
                    IN /\ \A i, j \in DOMAIN outstanding : i < j => outstanding[i] < outstanding[j]
                       /\ Range(outstanding) = {db[d].queue[k].prev : k \in waiting}
  BY DEF AwaitedBarriersAreOutstanding
<1> DEFINE q == stream[w][d]  waiting == {k \in 1..Len(db[d].queue) : w \in db[d].queue[k].wait}
<1>1. q \in Seq(Nat) /\ DOMAIN q = 1..Len(q) /\ Len(q) \in Nat
  BY DEF IInv, Types, StreamType
<1>2. StreamOK(w, q, db[d]) /\ Awaits(w, q, db[d])
  BY DEF IInv, Streams, EInv, Awaited
<1> HIDE DEF q
<1>3. ASSUME NEW i \in DOMAIN q, NEW j \in DOMAIN q, i < j PROVE q[i] < q[j]
  <2>1. j \in 1..Len(q) /\ i \in 1..(j - 1)
    BY <1>1, <1>3
  <2> QED BY <2>1, <1>2 DEF StreamOK
<1>4. ASSUME NEW e PROVE e \in Range(q) <=> e \in {db[d].queue[k].prev : k \in waiting}
  <2>1. e \in Range(q) <=> \E i \in 1..Len(q) : q[i] = e
    BY <1>1 DEF Range
  <2>2. e \in {db[d].queue[k].prev : k \in waiting} <=>
          \E k \in 1..Len(db[d].queue) : w \in db[d].queue[k].wait /\ db[d].queue[k].prev = e
    OBVIOUS
  <2> QED BY <2>1, <2>2, <1>2 DEF StreamOK, Awaits
<1> QED BY <1>3, <1>4 DEF q

LEMMA AssertionsFromEInv ==
  IInv /\ EInv => AssertionsHold
<1> SUFFICES ASSUME IInv, EInv, NEW d \in running
             PROVE  /\ \A k \in 1..Len(db[d].queue) :
                         db[d].queue[k].curr = IF k = Len(db[d].queue) THEN db[d].prev
                                               ELSE db[d].queue[k + 1].prev
                    /\ IF d \in DOMAIN task.infos THEN db[d].completing.prev = task.infos[d].prev
                       ELSE db[d].completing = NoBarrier
                    /\ ShouldPause(db[d]) <=>
                         \/ db[d].completing.pause
                         \/ \E k \in 1..Len(db[d].queue) : ShouldPauseInjectBarrier(db[d].queue[k].cmd)
  BY DEF AssertionsHold
<1>0. d \in Database /\ db[d] \in DatabaseState
  BY DEF IInv, Types, LoopType, DbType
<1>1. Linked(db[d]) /\ Completing(d)
  BY <1>0 DEF EInv, Asserted
<1> DEFINE q == db[d].queue  n == Len(q)
<1>2. n \in Nat /\ db[d].completing.pause \in BOOLEAN /\ (db[d].completing.pause => n = 0)
  BY <1>0, DbFacts DEF IInv, Pauses
<1>3. \A k \in 1..n : ShouldPauseInjectBarrier(q[k].cmd) => k = n
  BY <1>0, PauseIsLast
<1>4. n > 0 => n \in 1..n
  BY <1>2
<1>5. ShouldPause(db[d]) <=> IF n > 0 /\ q[n].cmd # NoCommand THEN ShouldPauseInjectBarrier(q[n].cmd)
                             ELSE db[d].completing.pause
  BY DEF ShouldPause
<1>6. n > 0 /\ q[n].cmd = NoCommand => ~ShouldPauseInjectBarrier(q[n].cmd)
  BY DEF ShouldPauseInjectBarrier, KindOf
<1>7. n = 0 => \A k \in 1..n : FALSE
  OBVIOUS
<1>8. ShouldPause(db[d]) <=> \/ db[d].completing.pause
                             \/ \E k \in 1..n : ShouldPauseInjectBarrier(q[k].cmd)
  <2>1. CASE n > 0
    <3>1. (\E k \in 1..n : ShouldPauseInjectBarrier(q[k].cmd)) <=> ShouldPauseInjectBarrier(q[n].cmd)
      BY <2>1, <1>3, <1>4
    <3>2. ~db[d].completing.pause
      BY <2>1, <1>2
    <3> HIDE DEF q, n
    <3> QED BY <2>1, <3>1, <3>2, <1>5, <1>6, Zenon
  <2>2. CASE ~(n > 0)
    <3>1. n = 0
      BY <2>2, <1>2
    <3>2. ~(\E k \in 1..n : ShouldPauseInjectBarrier(q[k].cmd))
      BY <3>1, <1>7
    <3> HIDE DEF q, n
    <3> QED BY <2>2, <3>2, <1>5, Zenon
  <2> QED BY <2>1, <2>2
<1> QED BY <1>1, <1>8 DEF Linked, Completing

-----------------------------------------------------------------------------
\* The theorems

\* The second inductive invariant of the barrier worker: where the epochs closed since the last
\* commit are, that what waits for a worker is on its stream, and that barriers are linked.
THEOREM EInvHolds == Spec => []EInv
<1>1. Init => EInv
  BY EpochInit
<1>2. IInv /\ EInv /\ [Next]_vars => EInv'
  BY EpochNextStep
<1> QED BY <1>1, <1>2, IInvHolds, PTL DEF Spec

\* BarrierKind::Checkpoint carries exactly the epochs that its commit closes: every epoch closed
\* by a barrier and not yet committed is in the list of one checkpoint, in order and above the
\* committed epoch, whatever next_complete_barrier_task has taken or handle_new_barrier skipped.
THEOREM EpochsAreCovered == Spec => []EpochsCovered
<1>1. IInv /\ EInv => EpochsCovered
  BY CoveredFromEInv
<1> QED BY <1>1, IInvHolds, EInvHolds, PTL

\* barrier_collected never meets a barrier it does not know or a worker that has answered, and no
\* barrier waits for an answer that cannot come: a worker has yet to collect exactly the barriers
\* that wait for it.
THEOREM AwaitedAreOutstanding == Spec => []AwaitedBarriersAreOutstanding
<1>1. IInv /\ EInv => AwaitedBarriersAreOutstanding
  BY AwaitedFromEInv
<1> QED BY <1>1, IInvHolds, EInvHolds, PTL

\* The assertions of enqueue_command, next_complete_barrier_task, ack_completed and
\* can_inject_barrier never fail.
THEOREM AssertionsNeverFail == Spec => []AssertionsHold
<1>1. IInv /\ EInv => AssertionsHold
  BY AssertionsFromEInv
<1> QED BY <1>1, IInvHolds, EInvHolds, PTL

-----------------------------------------------------------------------------
\* A job becomes visible as created only after what it has done so far is durable.
\* The invariant follows a job through the progress tracker: what is known of a job that
\* is tracked or stashed was known in an epoch at or below all that are to be committed,
\* and what is known of a job that the task is to finish, in an epoch at or below the one
\* that the task commits.

\* A command that created j was scheduled in an epoch at or below e.
CreatedBy(cm, as, j, e) ==
  \E c \in Command : cm[c].kind = "Create" /\ cm[c].job = j /\ as[c] <= e

\* Moreover the backfill of j, if it has any, was done by then.
DoneBy(cm, as, da, j, e) ==
  CreatedBy(cm, as, j, e) /\ da[j] <= e /\ (j \in Backfill => da[j] # 0)

\* The epochs that the barriers of s from number m on, and the next one, close.
Bounds(s, m) == {s.prev} \cup {s.queue[k].prev : k \in {i \in 1..Len(s.queue) : m <= i}}

\* The jobs of tracker t, after m barriers of s are applied to it.
TrackerOK(cm, as, da, t, s, m) ==
  /\ \A j \in t.tracking : \A e \in Bounds(s, m) : CreatedBy(cm, as, j, e)
  /\ \A j \in t.stash : \A e \in Bounds(s, m) : DoneBy(cm, as, da, j, e)

\* The reports of the actors that are on their way with the barriers of s.
Reports(da, s) ==
  \A k \in 1..Len(s.queue) : \A j \in s.queue[k].done :
    j \in Backfill /\ da[j] # 0 /\ da[j] = s.queue[k].prev

JobsOK(cm, as, da, s) == TrackerOK(cm, as, da, s, s, 0) /\ Reports(da, s)

\* The jobs that the task is to finish.
FinishedOK(cm, as, da, tk, co) ==
  \A j \in tk.finished :
    /\ JobDatabase[j] \in DOMAIN tk.infos
    /\ tk.stage = "commit" => DoneBy(cm, as, da, j, tk.infos[JobDatabase[j]].prev)
    /\ tk.stage \in {"post", "finish"} => DoneBy(cm, as, da, j, co[JobDatabase[j]])

JInv ==
  /\ \A j \in Job \ Backfill : doneAt[j] = 0
  /\ \A d \in Database : JobsOK(cmd, asked, doneAt, db[d])
  /\ FinishedOK(cmd, asked, doneAt, task, committed)

-----------------------------------------------------------------------------
\* Bounds and what is kept

LEMMA BoundsFacts ==
  ASSUME NEW s \in DatabaseState, NEW m \in Nat, NEW e \in Bounds(s, m)
  PROVE  /\ e \in Nat
         /\ e = s.prev \/ \E k \in 1..Len(s.queue) : m <= k /\ e = s.queue[k].prev
<1>1. e = s.prev \/ \E k \in 1..Len(s.queue) : m <= k /\ e = s.queue[k].prev
  BY DEF Bounds
<1> QED BY <1>1, DbFacts

\* The jobs of two states are the same, and so are the epochs that their barriers close.
SameJobs(s, t) ==
  /\ t.tracking = s.tracking /\ t.stash = s.stash /\ t.prev = s.prev /\ Len(t.queue) = Len(s.queue)
  /\ \A k \in 1..Len(s.queue) : t.queue[k].prev = s.queue[k].prev /\ t.queue[k].done = s.queue[k].done

LEMMA SameJobsOK ==
  ASSUME NEW s, NEW t, SameJobs(s, t), NEW cm, NEW as, NEW da, JobsOK(cm, as, da, s)
  PROVE  JobsOK(cm, as, da, t)
<1>1. Bounds(t, 0) = Bounds(s, 0)
  BY DEF Bounds, SameJobs
<1>2. TrackerOK(cm, as, da, t, t, 0)
  BY <1>1 DEF JobsOK, TrackerOK, SameJobs
<1>3. Reports(da, t)
  BY DEF JobsOK, Reports, SameJobs
<1> QED BY <1>2, <1>3 DEF JobsOK

LEMMA NewJobsOK ==
  ASSUME NEW p \in Nat, NEW jobs \in SUBSET Job, NEW t, t = NewDatabase(p, jobs), NEW cm, NEW as, NEW da
  PROVE  JobsOK(cm, as, da, t)
<1>1. Len(t.queue) = 0 /\ t.tracking = {} /\ t.stash = {}
  BY NewDatabaseFacts
<1> QED BY <1>1 DEF JobsOK, TrackerOK, Reports

\* Commands stay what they are, and a report is made once.
Kept ==
  /\ \A c \in Command : cmd[c].kind # "None" => cmd'[c] = cmd[c] /\ asked'[c] = asked[c]
  /\ \A j \in Job : doneAt'[j] = doneAt[j] \/ (doneAt[j] = 0 /\ j \in Backfill)

LEMMA KeptFacts ==
  ASSUME Kept
  PROVE  /\ \A j, e : CreatedBy(cmd, asked, j, e) => CreatedBy(cmd', asked', j, e)
         /\ \A j \in Job : \A e :
              DoneBy(cmd, asked, doneAt, j, e) => DoneBy(cmd', asked', doneAt', j, e)
<1>1. ASSUME NEW j, NEW e, CreatedBy(cmd, asked, j, e) PROVE CreatedBy(cmd', asked', j, e)
  <2>1. PICK c \in Command : cmd[c].kind = "Create" /\ cmd[c].job = j /\ asked[c] <= e
    BY <1>1 DEF CreatedBy
  <2>2. cmd'[c] = cmd[c] /\ asked'[c] = asked[c]
    BY <2>1 DEF Kept
  <2> QED BY <2>1, <2>2 DEF CreatedBy
<1>2. ASSUME NEW j \in Job, NEW e, DoneBy(cmd, asked, doneAt, j, e)
      PROVE  DoneBy(cmd', asked', doneAt', j, e)
  <2>1. doneAt'[j] = doneAt[j]
    BY <1>2 DEF Kept, DoneBy
  <2> QED BY <2>1, <1>1, <1>2 DEF DoneBy
<1> QED BY <1>1, <1>2

LEMMA KeptJobs ==
  ASSUME Kept, NEW s \in DatabaseState, JobsOK(cmd, asked, doneAt, s)
  PROVE  TrackerOK(cmd', asked', doneAt', s, s, 0) /\ (doneAt' = doneAt => JobsOK(cmd', asked', doneAt', s))
<1>1. s.stash \subseteq Job
  BY DbFacts
<1>2. TrackerOK(cmd', asked', doneAt', s, s, 0)
  BY <1>1, KeptFacts DEF JobsOK, TrackerOK
<1>3. doneAt' = doneAt => Reports(doneAt', s)
  BY DEF JobsOK, Reports
<1> QED BY <1>2, <1>3 DEF JobsOK

\* The invariant in the next state.
LEMMA JobsNext ==
  ASSUME \A j \in Job \ Backfill : doneAt'[j] = 0,
         \A d \in Database : JobsOK(cmd', asked', doneAt', db'[d]),
         FinishedOK(cmd', asked', doneAt', task', committed')
  PROVE  JInv'
  BY DEF JInv, JobsOK, TrackerOK, Reports, Bounds, FinishedOK, DoneBy, CreatedBy

LEMMA FinishedJobs ==
  ASSUME IInv, NEW j \in task.finished
  PROVE  j \in Job
  BY DEF IInv, Types, TaskOK, TaskType

\* The tracker and the task are left alone, or the task goes on.
LEMMA JobQuietStep ==
  ASSUME IInv, JInv, Kept, UNCHANGED <<db, doneAt, committed>>,
         task'.finished = task.finished, task'.infos = task.infos,
         task'.stage = "commit" => task.stage = "commit",
         task'.stage \in {"post", "finish"} => task.stage \in {"post", "finish"}
  PROVE  JInv'
<1>1. \A j \in Job \ Backfill : doneAt'[j] = 0
  BY DEF JInv
<1>2. ASSUME NEW d \in Database PROVE JobsOK(cmd', asked', doneAt', db'[d])
  <2>1. db[d] \in DatabaseState /\ JobsOK(cmd, asked, doneAt, db[d])
    BY DEF JInv, IInv, Types, DbType
  <2>2. JobsOK(cmd', asked', doneAt', db[d])
    BY <2>1, KeptJobs
  <2> QED BY <2>2
<1>3. FinishedOK(cmd', asked', doneAt', task', committed')
  <2> SUFFICES ASSUME NEW j \in task.finished
               PROVE  /\ JobDatabase[j] \in DOMAIN task.infos
                      /\ task'.stage = "commit" =>
                           DoneBy(cmd', asked', doneAt', j, task.infos[JobDatabase[j]].prev)
                      /\ task'.stage \in {"post", "finish"} =>
                           DoneBy(cmd', asked', doneAt', j, committed[JobDatabase[j]])
    BY DEF FinishedOK
  <2>1. j \in Job
    BY FinishedJobs
  <2>2. /\ JobDatabase[j] \in DOMAIN task.infos
        /\ task.stage = "commit" => DoneBy(cmd, asked, doneAt, j, task.infos[JobDatabase[j]].prev)
        /\ task.stage \in {"post", "finish"} => DoneBy(cmd, asked, doneAt, j, committed[JobDatabase[j]])
    BY DEF JInv, FinishedOK
  <2> QED BY <2>1, <2>2, KeptFacts
<1> QED BY <1>1, <1>2, <1>3, JobsNext

-----------------------------------------------------------------------------
\* The invariant is preserved

\* The commands that are scheduled get numbers that are not in use.
LEMMA ScheduleKeeps ==
  ASSUME IInv, NEW batch \in Batch, NEW d \in Database, NEW j \in Job \cup {NoJob}, Schedule(batch, d, j)
  PROVE  Kept
<1> DEFINE n    == Cardinality({c \in Command : cmd[c].kind # "None"})
           ids  == [i \in 1..Len(batch) |-> n + i]
<1>0. /\ cmd' = [c \in Command |-> IF c \in Range(ids)
                   THEN [kind |-> batch[c - n], db |-> d, job |-> j] ELSE cmd[c]]
      /\ asked' = [c \in Command |-> IF c \in Range(ids) THEN db[d].prev ELSE asked[c]]
      /\ doneAt' = doneAt
  BY DEF Schedule, nodeVars
<1>1. Len(batch) \in Nat
  BY BatchOK
<1>2. n \in Nat /\ {c \in Command : cmd[c].kind # "None"} = 1..n
  BY NumberedFacts, ConstantsOK DEF IInv, Commands
<1> HIDE DEF n
<1>3. \A x \in Range(ids) : x > n
  BY <1>1, <1>2 DEF Range
<1> HIDE DEF ids
<1>4. ASSUME NEW c \in Command, cmd[c].kind # "None" PROVE c \notin Range(ids)
  <2>1. c \in 1..n
    BY <1>2, <1>4
  <2>2. c <= n /\ ~(c > n)
    BY <2>1, <1>2
  <2> QED BY <2>2, <1>3
<1> QED BY <1>0, <1>4 DEF Kept

\* So does a drop.
LEMMA DropKeeps ==
  ASSUME IInv, NEW j \in Job, DropObject(j)
  PROVE  Kept
<1> DEFINE n == Cardinality({c \in Command : cmd[c].kind # "None"})
<1>1. /\ cmd' = [cmd EXCEPT ![n + 1] = [kind |-> "Drop", db |-> JobDatabase[j], job |-> j]]
      /\ UNCHANGED <<asked, doneAt>>
  BY DEF DropObject, nodeVars
<1>2. n \in Nat /\ {c \in Command : cmd[c].kind # "None"} = 1..n
  BY NumberedFacts, ConstantsOK DEF IInv, Commands
<1> HIDE DEF n
<1>3. \A c \in Command : cmd[c].kind # "None" => c # n + 1
  BY <1>2
<1>4. cmd \in [Command -> CmdType]
  BY DEF IInv, Types, CommandType
<1> QED BY <1>1, <1>3, <1>4 DEF Kept

LEMMA JobQuietSteps ==
  ASSUME IInv, JInv,
         \/ Client \/ PostCollectCommand \/ FinishCreatingJob \/ CompleteBarrierFails
         \/ CompletingTaskErr \/ AdhocRecovery \/ RecoveryRetry \/ MarkReady
         \/ \E w \in Worker : WorkerError(w) \/ AddWorker(w)
         \/ UNCHANGED vars
  PROVE  JInv'
<1> USE DEF vars, dbVars, taskVars, nodeVars, schedVars
<1>0. TaskOK /\ (UNCHANGED <<cmd, asked, doneAt>> => Kept)
  BY DEF IInv, Types, Kept
<1>1. CASE Client
  <2>1. UNCHANGED <<db, doneAt, committed, task>>
    <3>1. \A batch \in Batch, d \in Database, j \in Job \cup {NoJob} :
            Schedule(batch, d, j) => UNCHANGED <<db, doneAt, committed, task>>
      BY DEF Schedule
    <3>2. \A c \in Command : DropStreamingJobs(c) \/ CancelScheduledCreate(c)
                              => UNCHANGED <<db, doneAt, committed, task>>
      BY DEF DropStreamingJobs, CancelScheduledCreate
    <3>3. \A j \in Job : DropObject(j) => UNCHANGED <<db, doneAt, committed, task>>
      BY DEF DropObject
    <3> QED BY <1>1, <3>1, <3>2, <3>3 DEF Client
  <2>2. Kept
    <3>1. CASE \E batch \in Batch, d \in Database, j \in Job \cup {NoJob} : Schedule(batch, d, j)
      BY <3>1, ScheduleKeeps
    <3>2. CASE \E c \in Command : DropStreamingJobs(c) \/ CancelScheduledCreate(c)
      BY <3>2, <1>0 DEF DropStreamingJobs, CancelScheduledCreate
    <3>3. CASE \E j \in Job : DropObject(j)
      BY <3>3, DropKeeps
    <3> QED BY <1>1, <3>1, <3>2, <3>3 DEF Client
  <2> QED BY <2>1, <2>2, JobQuietStep
<1>2. CASE PostCollectCommand \/ FinishCreatingJob \/ CompleteBarrierFails
  <2>1. /\ UNCHANGED <<db, doneAt, committed, cmd, asked>>
        /\ \/ task' = [task EXCEPT !.stage = "finish"] /\ task.stage = "post"
           \/ task' = [task EXCEPT !.stage = "ok"]
           \/ task' = [task EXCEPT !.stage = "err"]
    BY <1>2 DEF PostCollectCommand, FinishCreatingJob, CompleteBarrierFails
  <2>2. /\ task'.infos = task.infos /\ task'.finished = task.finished
        /\ task'.stage \in {"finish", "ok", "err"} /\ (task'.stage = "finish" => task.stage = "post")
    BY <1>0, <2>1, TaskStage
  <2> QED BY <1>0, <2>1, <2>2, JobQuietStep
<1>3. CASE \/ CompletingTaskErr \/ AdhocRecovery \/ RecoveryRetry \/ MarkReady
           \/ \E w \in Worker : WorkerError(w) \/ AddWorker(w)
           \/ UNCHANGED vars
  <2>1. UNCHANGED <<db, doneAt, committed, cmd, asked, task>>
    BY <1>3 DEF CompletingTaskErr, AdhocRecovery, RecoveryRetry, MarkReady, WorkerError, AddWorker
  <2> QED BY <1>0, <2>1, JobQuietStep
<1> QED BY <1>1, <1>2, <1>3

\* The epochs that the task was to commit are committed.
LEMMA JobCommitStep ==
  ASSUME IInv, JInv, CommitEpoch
  PROVE  JInv'
<1> USE DEF nodeVars, schedVars
<1>0. /\ UNCHANGED <<db, doneAt, cmd, asked>> /\ task.stage = "commit"
      /\ committed' = [d \in Database |-> IF d \in DOMAIN task.infos
                                          THEN task.infos[d].prev ELSE committed[d]]
  BY DEF CommitEpoch
<1>1. task'.stage = "post" /\ task'.infos = task.infos /\ task'.finished = task.finished
  BY TaskStage DEF CommitEpoch, IInv, Types
<1>2. ASSUME NEW j \in task.finished
      PROVE  /\ JobDatabase[j] \in DOMAIN task.infos
             /\ DoneBy(cmd, asked, doneAt, j, committed'[JobDatabase[j]])
  <2>1. /\ JobDatabase[j] \in DOMAIN task.infos
        /\ DoneBy(cmd, asked, doneAt, j, task.infos[JobDatabase[j]].prev)
    BY <1>0 DEF JInv, FinishedOK
  <2>2. committed'[JobDatabase[j]] = task.infos[JobDatabase[j]].prev
    BY <1>0, <2>1, TaskInfo
  <2> QED BY <2>1, <2>2
<1>3. FinishedOK(cmd', asked', doneAt', task', committed')
  BY <1>0, <1>1, <1>2 DEF FinishedOK
<1>4. \A d \in Database : JobsOK(cmd', asked', doneAt', db'[d])
  BY <1>0 DEF JInv
<1>5. \A j \in Job \ Backfill : doneAt'[j] = 0
  BY <1>0 DEF JInv
<1> QED BY <1>3, <1>4, <1>5, JobsNext

\* There is no task any more, and no job to finish.
LEMMA NoFinished ==
  ASSUME NEW tk, tk.finished = {}, NEW cm, NEW as, NEW da, NEW co
  PROVE  FinishedOK(cm, as, da, tk, co)
  BY DEF FinishedOK

LEMMA JobAckStep ==
  ASSUME IInv, JInv, AckCompleted
  PROVE  JInv'
<1> USE DEF nodeVars, schedVars
<1>0. /\ UNCHANGED <<doneAt, cmd, asked>> /\ task' = NoTask
      /\ db' = [d \in Database |-> IF d \in DOMAIN task.infos
                                   THEN [db[d] EXCEPT !.completing = NoBarrier] ELSE db[d]]
  BY DEF AckCompleted
<1>1. ASSUME NEW d \in Database PROVE JobsOK(cmd', asked', doneAt', db'[d])
  <2>1. db[d] \in DatabaseState /\ JobsOK(cmd, asked, doneAt, db[d])
    BY DEF JInv, IInv, Types, DbType
  <2>2. SameJobs(db[d], db'[d])
    BY <1>0, <2>1 DEF SameJobs, DatabaseState
  <2>3. JobsOK(cmd, asked, doneAt, db'[d])
    BY <2>1, <2>2, SameJobsOK
  <2> QED BY <1>0, <2>3
<1>2. FinishedOK(cmd', asked', doneAt', task', committed')
  BY <1>0, NoTaskOK, NoFinished
<1>3. \A j \in Job \ Backfill : doneAt'[j] = 0
  BY <1>0 DEF JInv
<1> QED BY <1>1, <1>2, <1>3, JobsNext

\* All databases are new.
LEMMA JobFreshStep ==
  ASSUME IInv, JInv, (StartRecovery /\ UNCHANGED doneAt) \/ ReloadRuntimeInfo
  PROVE  JInv'
<1> DEFINE jobsOf(d) == {j \in created : JobDatabase[j] = d}
<1>0. UNCHANGED doneAt /\ task' = NoTask
  BY DEF StartRecovery, ReloadRuntimeInfo, taskVars, IInv, Recovery
<1>1. ASSUME NEW d \in Database PROVE JobsOK(cmd', asked', doneAt', db'[d])
  <2>1. \E p \in Nat, jobs \in SUBSET Job : db'[d] = NewDatabase(p, jobs)
    <3>1. CASE StartRecovery
      <4>1. db'[d] = NewDatabase(0, {})
        BY <3>1 DEF StartRecovery
      <4> QED BY <4>1
    <3>2. CASE ReloadRuntimeInfo
      <4>1. db'[d] = NewDatabase(clock + 1, jobsOf(d)) \/ db'[d] = NewDatabase(0, {})
        BY <3>2 DEF ReloadRuntimeInfo
      <4>2. jobsOf(d) \in SUBSET Job /\ clock + 1 \in Nat
        BY DEF IInv, Types, LoopType
      <4> HIDE DEF jobsOf
      <4> QED BY <4>1, <4>2
    <3> QED BY <3>1, <3>2
  <2> QED BY <2>1, NewJobsOK
<1>2. FinishedOK(cmd', asked', doneAt', task', committed')
  BY <1>0, NoTaskOK, NoFinished
<1>3. \A j \in Job \ Backfill : doneAt'[j] = 0
  BY <1>0 DEF JInv
<1> QED BY <1>1, <1>2, <1>3, JobsNext

LEMMA JobInit ==
  ASSUME Init
  PROVE  JInv
<1>1. /\ db = [d \in Database |-> NewDatabase(0, {})] /\ task = NoTask /\ doneAt = [j \in Job |-> 0]
  BY DEF Init
<1>2. \A d \in Database : JobsOK(cmd, asked, doneAt, db[d])
  BY <1>1, NewJobsOK
<1>3. FinishedOK(cmd, asked, doneAt, task, committed)
  BY <1>1, NoTaskOK, NoFinished
<1> QED BY <1>1, <1>2, <1>3 DEF JInv

\* What is known by an epoch is known by every later one.
LEMMA KnownLater ==
  ASSUME IInv, NEW e \in Nat, NEW f \in Nat, e <= f, NEW j \in Job
  PROVE  /\ CreatedBy(cmd, asked, j, e) => CreatedBy(cmd, asked, j, f)
         /\ DoneBy(cmd, asked, doneAt, j, e) => DoneBy(cmd, asked, doneAt, j, f)
<1>1. doneAt[j] \in Nat /\ \A c \in Command : asked[c] \in Nat
  BY DEF IInv, Types, CommandType, StreamType
<1>2. CreatedBy(cmd, asked, j, e) => CreatedBy(cmd, asked, j, f)
  BY <1>1 DEF CreatedBy
<1>3. doneAt[j] <= e => doneAt[j] <= f
  BY <1>1
<1> QED BY <1>2, <1>3 DEF DoneBy

\* A worker answers: the jobs that report are done in the epoch that the barrier closes.
LEMMA JobCollectedStep ==
  ASSUME IInv, JInv, NEW w \in Worker, NEW d \in Database, BarrierCollected(w, d)
  PROVE  JInv'
<1>0. UNCHANGED <<task, committed, cmd, asked>>
  BY DEF BarrierCollected, taskVars, schedVars
<1>1. PICK i, done : CollectedOf(w, d, i, done)
  BY CollectedFacts
<1>2. /\ i \in 1..Len(db[d].queue) /\ done \subseteq Backfill /\ \A j \in done : doneAt[j] = 0
      /\ doneAt' = [j \in Job |-> IF j \in done THEN db[d].queue[i].prev ELSE doneAt[j]]
  BY <1>1 DEF CollectedOf
<1>3. Backfill \subseteq Job /\ doneAt \in [Job -> Nat]
  BY ConstantsOK DEF IInv, Types, StreamType
<1>4. db[d].queue[i].prev # 0
  <2>1. committed[d] < db[d].queue[i].prev /\ committed[d] \in Nat /\ db[d] \in DatabaseState
    BY <1>2 DEF IInv, Commits, Below, Types, DbType
  <2>2. db[d].queue[i].prev \in Nat
    BY <1>2, <2>1, DbFacts
  <2> QED BY <2>1, <2>2
<1>5. Kept
  BY <1>0, <1>2, <1>3 DEF Kept
<1>6. \A j \in Job \ Backfill : doneAt'[j] = 0
  BY <1>2, <1>3 DEF JInv
<1>7. ASSUME NEW f \in Database PROVE JobsOK(cmd', asked', doneAt', db'[f])
  <2>1. db[f] \in DatabaseState /\ JobsOK(cmd, asked, doneAt, db[f])
    BY DEF JInv, IInv, Types, DbType
  <2>2. TrackerOK(cmd', asked', doneAt', db[f], db[f], 0)
    BY <2>1, <1>5, KeptJobs
  <2>3. /\ db'[f].prev = db[f].prev /\ db'[f].tracking = db[f].tracking /\ db'[f].stash = db[f].stash
        /\ Len(db'[f].queue) = Len(db[f].queue)
        /\ \A k \in 1..Len(db[f].queue) :
             /\ db'[f].queue[k].prev = db[f].queue[k].prev
             /\ (f # d \/ k # i) => db'[f].queue[k].done = db[f].queue[k].done
             /\ (f = d /\ k = i) => db'[f].queue[k].done = db[f].queue[k].done \cup done
    BY <1>1 DEF CollectedOf
  <2>4. Bounds(db'[f], 0) = Bounds(db[f], 0)
    BY <2>3 DEF Bounds
  <2>5. TrackerOK(cmd', asked', doneAt', db'[f], db'[f], 0)
    BY <2>2, <2>3, <2>4 DEF TrackerOK
  <2>6. Reports(doneAt', db'[f])
    <3> SUFFICES ASSUME NEW k \in 1..Len(db[f].queue), NEW j \in db'[f].queue[k].done
                 PROVE  j \in Backfill /\ doneAt'[j] # 0 /\ doneAt'[j] = db[f].queue[k].prev
      BY <2>3 DEF Reports
    <3>1. CASE j \in db[f].queue[k].done
      <4>1. j \in Backfill /\ doneAt[j] # 0 /\ doneAt[j] = db[f].queue[k].prev
        BY <3>1, <2>1 DEF JobsOK, Reports
      <4>2. j \notin done
        BY <4>1, <1>2
      <4> QED BY <4>1, <4>2, <1>2, <1>3
    <3>2. CASE j \notin db[f].queue[k].done
      <4>1. f = d /\ k = i /\ j \in done
        BY <3>2, <2>3
      <4> QED BY <4>1, <1>2, <1>3, <1>4
    <3> QED BY <3>1, <3>2
  <2> QED BY <2>5, <2>6 DEF JobsOK
<1>8. FinishedOK(cmd', asked', doneAt', task', committed')
  <2>1. \A j \in task.finished : j \in Job
    BY FinishedJobs
  <2>2. FinishedOK(cmd, asked, doneAt, task, committed)
    BY DEF JInv
  <2> QED BY <1>0, <1>5, <2>1, <2>2, KeptFacts DEF FinishedOK
<1> QED BY <1>6, <1>7, <1>8, JobsNext

\* A new barrier: the epoch that it opens lies above the one that it closes.
LEMMA JobInjected ==
  ASSUME IInv, NEW s \in DatabaseState, JobsOK(cmd, asked, doneAt, s), NEW c, NEW checkpoint,
         NEW now \in Nat, s.prev <= now, NEW t, Injected(s, c, checkpoint, now + 1, t)
  PROVE  JobsOK(cmd, asked, doneAt, t)
<1> DEFINE n == Len(s.queue)
<1>1. /\ n \in Nat /\ t.tracking = s.tracking /\ t.stash = s.stash /\ t.prev = now + 1
      /\ Len(t.queue) = n + 1 /\ (\A k \in 1..n : t.queue[k] = s.queue[k])
      /\ t.queue[n + 1].prev = s.prev /\ t.queue[n + 1].done = {} /\ t \in DatabaseState
  BY DEF Injected
<1>2. s.prev \in Nat /\ s.tracking \subseteq Job /\ s.stash \subseteq Job
  BY DbFacts
<1>3. \A k \in 1..Len(t.queue) : k \in 1..n \/ k = n + 1
  BY <1>1
<1> HIDE DEF n
<1>4. s.prev \in Bounds(s, 0) /\ \A k \in 1..n : s.queue[k].prev \in Bounds(s, 0)
  BY DEF Bounds, n
<1>5. ASSUME NEW e \in Bounds(t, 0) PROVE e \in Bounds(s, 0) \/ e = now + 1
  <2>1. e = t.prev \/ \E k \in 1..Len(t.queue) : e = t.queue[k].prev
    BY DEF Bounds
  <2> QED BY <2>1, <1>1, <1>3, <1>4
<1>6. now + 1 \in Nat /\ s.prev <= now + 1
  BY <1>2
<1>7. TrackerOK(cmd, asked, doneAt, t, t, 0)
  <2>1. /\ \A j \in s.tracking : \A e \in Bounds(s, 0) : CreatedBy(cmd, asked, j, e)
        /\ \A j \in s.stash : \A e \in Bounds(s, 0) : DoneBy(cmd, asked, doneAt, j, e)
    BY DEF JobsOK, TrackerOK
  <2>2. ASSUME NEW j \in s.tracking, NEW e \in Bounds(t, 0) PROVE CreatedBy(cmd, asked, j, e)
    BY <2>1, <1>2, <1>4, <1>5, <1>6, KnownLater
  <2>3. ASSUME NEW j \in s.stash, NEW e \in Bounds(t, 0) PROVE DoneBy(cmd, asked, doneAt, j, e)
    BY <2>1, <1>2, <1>4, <1>5, <1>6, KnownLater
  <2> QED BY <2>2, <2>3, <1>1 DEF TrackerOK
<1>8. Reports(doneAt, t)
  <2>1. \A k \in 1..n : \A j \in s.queue[k].done :
          j \in Backfill /\ doneAt[j] # 0 /\ doneAt[j] = s.queue[k].prev
    BY DEF JobsOK, Reports, n
  <2>2. ASSUME NEW k \in 1..Len(t.queue), NEW j \in t.queue[k].done
        PROVE  j \in Backfill /\ doneAt[j] # 0 /\ doneAt[j] = t.queue[k].prev
    <3>1. k \in 1..n /\ t.queue[k] = s.queue[k]
      BY <1>1, <1>3
    <3> QED BY <2>1, <3>1
  <2> QED BY <2>2 DEF Reports
<1> QED BY <1>7, <1>8 DEF JobsOK

LEMMA JobBarrierStep ==
  ASSUME IInv, JInv, NewPeriodicBarrier \/ \E d \in Database : NewCommandBarrier(d)
  PROVE  JInv'
<1>1. AroundInjection /\ (InjectsBarrier \/ NoInjection)
  BY PeriodicCases, CommandCases
<1>2. UNCHANGED <<task, committed, doneAt, cmd, asked>>
  BY <1>1 DEF AroundInjection, taskVars
<1>3. Kept
  BY <1>2 DEF Kept
<1>4. CASE UNCHANGED db
  BY <1>2, <1>3, <1>4, JobQuietStep
<1>5. ASSUME NEW now \in Nat, NEW checkpoint \in BOOLEAN,
             \A d \in Database : \E s, c : InjectedInto(d, s, c, checkpoint, now)
      PROVE  JInv'
  <2>1. ASSUME NEW d \in Database PROVE JobsOK(cmd, asked, doneAt, db'[d])
    <3>1. PICK s, c : InjectedInto(d, s, c, checkpoint, now)
      BY <1>5
    <3>2. s \in DatabaseState /\ s.prev <= now
      BY <3>1 DEF InjectedInto, Ready, QueueOK
    <3>3. JobsOK(cmd, asked, doneAt, s)
      <4>1. CASE s = db[d]
        BY <4>1 DEF JInv
      <4>2. CASE s = NewDatabase(now, {})
        <5>1. {} \in SUBSET Job
          OBVIOUS
        <5> QED BY <4>2, <5>1, NewJobsOK
      <4> QED BY <3>1, <4>1, <4>2 DEF InjectedInto
    <3>4. db'[d] = s \/ Injected(s, c, checkpoint, now + 1, db'[d])
      BY <3>1 DEF InjectedInto
    <3>5. ASSUME NEW t, t = db'[d], Injected(s, c, checkpoint, now + 1, t)
          PROVE  JobsOK(cmd, asked, doneAt, t)
      BY <3>2, <3>3, <3>5, JobInjected
    <3> QED BY <3>3, <3>4, <3>5
  <2>2. \A d \in Database : JobsOK(cmd', asked', doneAt', db'[d])
    BY <2>1, <1>2
  <2>3. FinishedOK(cmd', asked', doneAt', task', committed') /\ \A j \in Job \ Backfill : doneAt'[j] = 0
    BY <1>2 DEF JInv
  <2> QED BY <2>2, <2>3, JobsNext
<1>6. CASE InjectsBarrier
  BY <1>1, <1>4, <1>5, <1>6, InjectionCases
<1>7. CASE NoInjection
  BY <1>4, <1>7 DEF NoInjection
<1> QED BY <1>1, <1>6, <1>7

-----------------------------------------------------------------------------
\* Completing barriers

\* The epochs to be closed after barrier m + 1, none of which is below the one that it closes.
LEMMA LaterBounds ==
  ASSUME NEW s \in DatabaseState, NEW now, QueueOK(s, now), NEW m \in Nat, m + 1 \in 1..Len(s.queue),
         NEW e \in Bounds(s, m + 1)
  PROVE  e \in Bounds(s, m) /\ e \in Nat /\ s.queue[m + 1].prev <= e
<1> DEFINE q == s.queue  n == Len(q)
<1>1. n \in Nat /\ s.prev \in Nat /\ \A k \in 1..n : q[k].prev \in Nat /\ q[k].curr \in Nat
  BY DbFacts
<1>2. /\ \A k \in 1..n : q[k].prev < q[k].curr /\ q[k].curr <= s.prev
      /\ \A k \in 1..n : \A j \in 1..(k - 1) : q[j].curr <= q[k].prev
  BY DEF QueueOK, Chain
<1>3. e = s.prev \/ \E k \in 1..n : m + 1 <= k /\ e = q[k].prev
  BY BoundsFacts
<1>4. \A k \in 1..n : m + 1 <= k => m <= k /\ (k = m + 1 \/ m + 1 \in 1..(k - 1))
  OBVIOUS
<1> HIDE DEF n, q
<1>5. m + 1 \in 1..n
  BY DEF n, q
<1>6. CASE e = s.prev
  <2>1. q[m + 1].prev <= e
    BY <1>1, <1>2, <1>5, <1>6
  <2> QED BY <1>1, <1>6, <2>1 DEF Bounds, q
<1>7. ASSUME NEW k \in 1..n, m + 1 <= k, e = q[k].prev
      PROVE  e \in Bounds(s, m) /\ e \in Nat /\ q[m + 1].prev <= e
  <2>1. m <= k /\ (k = m + 1 \/ m + 1 \in 1..(k - 1))
    BY <1>4, <1>7
  <2>2. e \in Bounds(s, m)
    BY <1>7, <2>1 DEF Bounds, q, n
  <2>3. CASE k = m + 1
    BY <1>1, <1>7, <2>2, <2>3
  <2>4. CASE m + 1 \in 1..(k - 1)
    <3>1. q[m + 1].prev < q[m + 1].curr /\ q[m + 1].curr <= q[k].prev
      BY <1>2, <1>5, <2>4
    <3>2. q[m + 1].prev \in Nat /\ q[m + 1].curr \in Nat /\ q[k].prev \in Nat
      BY <1>1, <1>5
    <3> QED BY <1>7, <2>2, <3>1, <3>2
  <2> QED BY <2>1, <2>3, <2>4
<1> QED BY <1>3, <1>6, <1>7 DEF q

\* apply_collected_command of barrier m + 1: a new job was asked for in an epoch at or below the
\* one that the barrier closes, and the jobs it reports are done in that one.
LEMMA ApplyKeeps ==
  ASSUME IInv, JInv, NEW d \in Database, NEW s \in DatabaseState, NEW now, QueueOK(s, now),
         Reports(doneAt, s), NEW m \in Nat, m + 1 \in 1..Len(s.queue), NEW node, node = s.queue[m + 1],
         NodeOK(node, d), NEW t \in Tracker(JobsOf(d)), TrackerOK(cmd, asked, doneAt, t, s, m),
         NEW u, u = ApplyCollected(t, node)
  PROVE  TrackerOK(cmd, asked, doneAt, u, s, m + 1)
<1> DEFINE new     == IF KindOf(node.cmd) = "Create" THEN {cmd[node.cmd].job} ELSE {}
           dropped == IF KindOf(node.cmd) = "Drop" THEN {cmd[node.cmd].job} ELSE {}
           tracking == t.tracking \cup (new \cap Backfill)
           finished == (new \ Backfill) \cup (node.done \cap tracking)
<1>1. u = [tracking |-> (tracking \ node.done) \ dropped, stash |-> (t.stash \cup finished) \ dropped]
  BY DEF ApplyCollected
<1>2. u.tracking \subseteq tracking /\ u.stash \subseteq t.stash \cup finished
  <2> HIDE DEF tracking, finished, dropped
  <2> QED BY <1>1
<1>3. node.prev \in Nat
  BY DbFacts
<1>4. ASSUME NEW e \in Bounds(s, m + 1) PROVE e \in Bounds(s, m) /\ e \in Nat /\ node.prev <= e
  BY LaterBounds
<1>5. ASSUME NEW j \in new, NEW e \in Bounds(s, m + 1)
      PROVE  j \in Job /\ CreatedBy(cmd, asked, j, e)
  <2>1. KindOf(node.cmd) = "Create" /\ j = cmd[node.cmd].job
    OBVIOUS
  <2>2. node.cmd # NoCommand /\ cmd[node.cmd].kind = "Create"
    BY <2>1 DEF KindOf
  <2>3. node.cmd \in Command /\ asked[node.cmd] <= node.prev
    BY <2>2 DEF NodeOK, IsFor
  <2>4. asked[node.cmd] \in Nat /\ cmd[node.cmd].job \in Job
    BY <2>2, <2>3 DEF IInv, Types, CommandType, Commands, Placed
  <2>5. asked[node.cmd] <= e
    BY <1>3, <1>4, <2>3, <2>4
  <2> QED BY <2>1, <2>2, <2>3, <2>4, <2>5 DEF CreatedBy
<1> HIDE DEF new
<1>6. ASSUME NEW j \in tracking, NEW e \in Bounds(s, m + 1) PROVE CreatedBy(cmd, asked, j, e)
  BY <1>4, <1>5 DEF TrackerOK
<1>7. ASSUME NEW j \in t.stash \cup finished, NEW e \in Bounds(s, m + 1)
      PROVE  DoneBy(cmd, asked, doneAt, j, e)
  <2>1. CASE j \in t.stash
    BY <2>1, <1>4 DEF TrackerOK
  <2>2. CASE j \in new \ Backfill
    <3>1. j \in Job /\ CreatedBy(cmd, asked, j, e) /\ doneAt[j] = 0 /\ e \in Nat
      BY <2>2, <1>4, <1>5 DEF JInv
    <3>2. doneAt[j] <= e
      BY <3>1
    <3> QED BY <2>2, <3>1, <3>2 DEF DoneBy
  <2>3. CASE j \in node.done \cap tracking
    <3>1. doneAt[j] # 0 /\ doneAt[j] = node.prev
      BY <2>3 DEF Reports
    <3> QED BY <2>3, <3>1, <1>4, <1>6 DEF DoneBy
  <2> QED BY <2>1, <2>2, <2>3
<1> HIDE DEF tracking, finished
<1> QED BY <1>2, <1>6, <1>7 DEF TrackerOK

LEMMA TrackersKeep ==
  ASSUME IInv, JInv, NEW d \in Database, NEW s, s = db[d], NEW n \in 0..Len(s.queue), NEW f,
         TrackersOf(f, s, n)
  PROVE  TrackerOK(cmd, asked, doneAt, f[n], s, n)
<1> DEFINE P == {m \in Nat : m <= n => /\ TrackerOK(cmd, asked, doneAt, f[m], s, m)
                                       /\ f[m] \in Tracker(JobsOf(d))}
<1>0. /\ s \in DatabaseState /\ Placed /\ \A k \in 1..Len(s.queue) : NodeOK(s.queue[k], d)
  BY DEF IInv, Types, DbType, Commands, Queued
<1>1. s.tracking \subseteq JobsOf(d) /\ s.stash \subseteq JobsOf(d)
  BY <1>0, DbFacts DEF IInv, Recovery, JobsOf
<1>2. n \in Nat /\ Len(s.queue) \in Nat /\ \A k \in 1..Len(s.queue) : s.queue[k] \in Node
  BY <1>0, DbFacts
<1>3. QueueOK(s, clock) /\ TrackerOK(cmd, asked, doneAt, s, s, 0) /\ Reports(doneAt, s)
  BY DEF IInv, Queues, JInv, JobsOK
<1>4. 0 \in P
  <2>1. 0 \in 0..n
    BY <1>2
  <2>2. f[0] = [tracking |-> s.tracking, stash |-> s.stash]
    BY <2>1 DEF TrackersOf
  <2>3. f[0].tracking = s.tracking /\ f[0].stash = s.stash /\ f[0] \in Tracker(JobsOf(d))
    BY <2>2, <1>1 DEF Tracker
  <2>4. TrackerOK(cmd, asked, doneAt, f[0], s, 0)
    BY <2>3, <1>3 DEF TrackerOK
  <2> QED BY <2>3, <2>4
<1>5. ASSUME NEW m \in P PROVE m + 1 \in P
  <2>1. m \in Nat /\ (m <= n => TrackerOK(cmd, asked, doneAt, f[m], s, m) /\ f[m] \in Tracker(JobsOf(d)))
    OBVIOUS
  <2> SUFFICES ASSUME m + 1 <= n
               PROVE  TrackerOK(cmd, asked, doneAt, f[m + 1], s, m + 1) /\ f[m + 1] \in Tracker(JobsOf(d))
    BY <2>1
  <2>2. /\ m + 1 \in 0..n /\ m + 1 # 0 /\ (m + 1) - 1 = m /\ m <= n
        /\ m + 1 \in 1..Len(s.queue)
    BY <2>1, <1>2
  <2>3. f[m + 1] = ApplyCollected(f[m], s.queue[m + 1])
    BY <2>2 DEF TrackersOf
  <2>4. f[m + 1] \in Tracker(JobsOf(d))
    BY <2>1, <2>2, <2>3, <1>0, <1>2, ApplyFacts
  <2>5. ASSUME NEW t, t = f[m], NEW u, u = f[m + 1], NEW node, node = s.queue[m + 1]
        PROVE  TrackerOK(cmd, asked, doneAt, u, s, m + 1)
    <3>1. /\ t \in Tracker(JobsOf(d)) /\ TrackerOK(cmd, asked, doneAt, t, s, m)
          /\ u = ApplyCollected(t, node) /\ NodeOK(node, d)
      BY <2>1, <2>2, <2>3, <2>5, <1>0
    <3> QED BY <3>1, <2>1, <2>2, <2>5, <1>0, <1>3, ApplyKeeps
  <2> QED BY <2>4, <2>5
<1> HIDE DEF P
<1>6. P \in SUBSET Nat
  BY DEF P
<1>7. n \in P
  BY <1>2, <1>4, <1>5, <1>6, SetInduction
<1> QED BY <1>2, <1>7 DEF P

\* next_complete_barrier_task takes the first n barriers, and a checkpoint among them takes
\* the jobs that are stashed.
LEMMA JobCompleted ==
  ASSUME IInv, JInv, NEW d \in Database, NEW n, NEW out, DoneOK(d, db[d].queue, n, out)
  PROVE  /\ JobsOK(cmd, asked, doneAt, out.state)
         /\ out.ckpt => \A j \in out.finished : DoneBy(cmd, asked, doneAt, j, out.info.prev)
<1> SUFFICES ASSUME NEW s, s = db[d], NEW t, t = out.state
             PROVE  /\ JobsOK(cmd, asked, doneAt, t)
                    /\ out.ckpt => \A j \in out.finished : DoneBy(cmd, asked, doneAt, j, out.info.prev)
  OBVIOUS
<1>1. /\ n \in 0..Len(s.queue) /\ Len(s.queue) \in Nat /\ t.prev = s.prev
      /\ out.ckpt => n \in 1..Len(s.queue) /\ out.info.prev = s.queue[n].prev
      /\ \A k \in 1..Len(t.queue) : n + k \in 1..Len(s.queue) /\ t.queue[k] = s.queue[n + k]
  BY DEF DoneOK
<1>2. PICK f : Tracked(f, s, n, out)
  BY DEF DoneOK
<1>3. /\ TrackersOf(f, s, n) /\ t.tracking = f[n].tracking
      /\ t.stash \subseteq f[n].stash /\ out.finished \subseteq f[n].stash
  BY <1>2 DEF Tracked
<1>4. TrackerOK(cmd, asked, doneAt, f[n], s, n) /\ Reports(doneAt, s)
  BY <1>1, <1>3, TrackersKeep DEF JInv, JobsOK
<1>5. ASSUME NEW e \in Bounds(t, 0) PROVE e \in Bounds(s, n)
  <2>1. e = t.prev \/ \E k \in 1..Len(t.queue) : e = t.queue[k].prev
    BY DEF Bounds
  <2>2. CASE e = t.prev
    BY <2>2, <1>1 DEF Bounds
  <2>3. ASSUME NEW k \in 1..Len(t.queue), e = t.queue[k].prev PROVE e \in Bounds(s, n)
    <3>1. n + k \in 1..Len(s.queue) /\ e = s.queue[n + k].prev
      BY <1>1, <2>3
    <3>2. k \in Nat /\ n \in Nat /\ n <= n + k
      BY <1>1
    <3> QED BY <3>1, <3>2 DEF Bounds
  <2> QED BY <2>1, <2>2, <2>3
<1>6. TrackerOK(cmd, asked, doneAt, t, t, 0)
  BY <1>3, <1>4, <1>5 DEF TrackerOK
<1>7. Reports(doneAt, t)
  <2>1. ASSUME NEW k \in 1..Len(t.queue), NEW j \in t.queue[k].done
        PROVE  j \in Backfill /\ doneAt[j] # 0 /\ doneAt[j] = t.queue[k].prev
    <3>1. PICK i \in 1..Len(s.queue) : t.queue[k] = s.queue[i]
      BY <1>1
    <3> QED BY <2>1, <3>1, <1>4 DEF Reports
  <2> QED BY <2>1 DEF Reports
<1>8. ASSUME out.ckpt, NEW j \in out.finished PROVE DoneBy(cmd, asked, doneAt, j, out.info.prev)
  <2>1. n \in 1..Len(s.queue) /\ n <= n /\ out.info.prev = s.queue[n].prev
    BY <1>1, <1>8
  <2>2. out.info.prev \in Bounds(s, n)
    BY <2>1 DEF Bounds
  <2> QED BY <2>2, <1>3, <1>4 DEF TrackerOK
<1> QED BY <1>6, <1>7, <1>8 DEF JobsOK

LEMMA JobCompleteStep ==
  ASSUME IInv, JInv, StartCompleting
  PROVE  JInv'
<1>0. /\ task'.stage \in {"none", "commit"}
      /\ \A j \in task'.finished : JobDatabase[j] \in DOMAIN task'.infos
      /\ \A d \in Database : d \in running => \E n, out : CompletedIn(d, n, out)
      /\ \A d \in Database : d \notin running => db'[d] = db[d] /\ d \notin DOMAIN task'.infos
      /\ UNCHANGED <<doneAt, cmd, asked>>
  BY CompleteCases DEF nodeVars, schedVars
<1>1. ASSUME NEW d \in Database PROVE JobsOK(cmd, asked, doneAt, db'[d])
  <2>1. CASE d \in running
    <3>1. PICK n, out : CompletedIn(d, n, out)
      BY <1>0, <2>1
    <3> QED BY <3>1, JobCompleted DEF CompletedIn
  <2>2. CASE d \notin running
    BY <1>0, <2>2 DEF JInv
  <2> QED BY <2>1, <2>2
<1>2. DOMAIN task'.infos \subseteq Database
  <2>1. IInv'
    BY CompleteStep
  <2> QED BY <2>1 DEF IInv, Types, TaskOK
<1>3. ASSUME NEW j \in task'.finished
      PROVE  DoneBy(cmd, asked, doneAt, j, task'.infos[JobDatabase[j]].prev)
  <2> DEFINE d == JobDatabase[j]
  <2>1. d \in DOMAIN task'.infos /\ d \in Database /\ d \in running
    BY <1>0, <1>2
  <2>2. PICK n, out : CompletedIn(d, n, out)
    BY <1>0, <2>1
  <2>3. DoneOK(d, db[d].queue, n, out) /\ out.ckpt /\ j \in out.finished /\ task'.infos[d] = out.info
    BY <2>1, <2>2 DEF CompletedIn
  <2> QED BY <2>1, <2>3, JobCompleted
<1>4. FinishedOK(cmd', asked', doneAt', task', committed')
  BY <1>0, <1>3 DEF FinishedOK
<1>5. \A d \in Database : JobsOK(cmd', asked', doneAt', db'[d])
  BY <1>0, <1>1
<1>6. \A j \in Job \ Backfill : doneAt'[j] = 0
  BY <1>0 DEF JInv
<1> QED BY <1>4, <1>5, <1>6, JobsNext

LEMMA JobNextStep ==
  ASSUME IInv, JInv, [Next]_vars
  PROVE  JInv'
<1>1. CASE Client \/ UNCHANGED vars
  BY <1>1, JobQuietSteps
<1>2. CASE Loop
  <2>1. CASE NewPeriodicBarrier \/ \E d \in Database : NewCommandBarrier(d)
    BY <2>1, JobBarrierStep
  <2>2. CASE \E w \in Worker, d \in Database : BarrierCollected(w, d)
    BY <2>2, JobCollectedStep
  <2>3. CASE StartCompleting
    BY <2>3, JobCompleteStep
  <2>4. CASE AckCompleted
    BY <2>4, JobAckStep
  <2>5. CASE ClearOnErr \/ ReloadRuntimeInfo \/ \E d \in Database : MetaPanics(d)
    BY <2>5, JobFreshStep DEF ClearOnErr, MetaPanics
  <2>6. CASE CompletingTaskErr \/ MarkReady
    BY <2>6, JobQuietSteps
  <2> QED BY <1>2, <2>1, <2>2, <2>3, <2>4, <2>5, <2>6 DEF Loop
<1>3. CASE CompleteBarrier
  BY <1>3, JobCommitStep, JobQuietSteps DEF CompleteBarrier
<1>4. CASE Fault
  BY <1>4, JobQuietSteps DEF Fault
<1> QED BY <1>1, <1>2, <1>3, <1>4 DEF Next

-----------------------------------------------------------------------------
\* The theorems

\* The third inductive invariant of the barrier worker: what the progress tracker and the completing
\* task know of a job was known in an epoch at or below those that are committed with it.
THEOREM JInvHolds == Spec => []JInv
<1>1. Init => JInv
  BY JobInit
<1>2. IInv /\ JInv /\ [Next]_vars => JInv'
  BY JobNextStep
<1> QED BY <1>1, <1>2, IInvHolds, PTL DEF Spec

\* CreateMviewProgressTracker stashes finished jobs until a checkpoint: finish_creating_job makes a
\* job visible only when the epoch of its creation, and the one in which its backfill reported to be
\* done, are committed, even when only some of the jobs of a failed task are finished.
THEOREM JobsFinishDurably == Spec => JobFinishedIsDurable
<1> DEFINE Durable(j) ==
      /\ j \in Backfill => doneAt[j] # 0
      /\ doneAt[j] <= committed[JobDatabase[j]]
      /\ \E c \in Command : /\ cmd[c].kind = "Create" /\ cmd[c].job = j
                            /\ asked[c] <= committed[JobDatabase[j]]
<1>1. ASSUME IInv, JInv, [Next]_vars PROVE [\A j \in created' \ created : Durable(j)]_created
  <2> SUFFICES ASSUME NEW j \in created' \ created PROVE Durable(j)
    OBVIOUS
  <2> USE DEF vars, dbVars, taskVars, nodeVars, schedVars
  <2>0. ~UNCHANGED vars /\ Next
    BY <1>1
  <2>1. ~Client
    BY DEF Client, Schedule, DropObject, DropStreamingJobs, CancelScheduledCreate
  <2>2. Loop => \E d \in Database : MetaPanics(d)
    <3>1. ~NewPeriodicBarrier /\ ~(\E d \in Database : NewCommandBarrier(d))
      BY DEF NewCommandBarrier, NewPeriodicBarrier
    <3>2. ~StartCompleting /\ ~(\E w \in Worker, d \in Database : BarrierCollected(w, d))
      BY DEF BarrierCollected, StartCompleting, NextCompleteBarrierTask
    <3>3. ~AckCompleted /\ ~CompletingTaskErr /\ ~ClearOnErr /\ ~ReloadRuntimeInfo /\ ~MarkReady
      BY DEF AckCompleted, CompletingTaskErr, ClearOnErr, ReloadRuntimeInfo, MarkReady
    <3> QED BY <3>1, <3>2, <3>3 DEF Loop
  <2>3. ~PostCollectCommand /\ ~CommitEpoch
    BY DEF PostCollectCommand, CommitEpoch
  <2>4. ~AdhocRecovery /\ ~RecoveryRetry /\ ~(\E w \in Worker : WorkerError(w) \/ AddWorker(w))
    BY DEF WorkerError, AddWorker, AdhocRecovery, RecoveryRetry
  <2>5. FinishCreatingJob \/ CompleteBarrierFails \/ \E d \in Database : MetaPanics(d)
    BY <2>0, <2>1, <2>2, <2>3, <2>4 DEF Next, CompleteBarrier, Fault
  <2>6. task.stage = "finish" /\ j \in task.finished
    BY <2>5 DEF FinishCreatingJob, CompleteBarrierFails, MetaPanics
  <2>7. DoneBy(cmd, asked, doneAt, j, committed[JobDatabase[j]])
    BY <1>1, <2>6 DEF JInv, FinishedOK
  <2> QED BY <2>7 DEF DoneBy, CreatedBy
<1> QED BY <1>1, IInvHolds, JInvHolds, PTL DEF Spec, JobFinishedIsDurable
=============================================================================
