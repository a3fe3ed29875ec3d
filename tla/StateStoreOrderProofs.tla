------------------------ MODULE StateStoreOrderProofs ------------------------
(***************************************************************************)
(* More proofs about the state store of a node: the order of the stages    *)
(* that the epochs of a table go through.                                  *)
(*                                                                         *)
(* The inductive invariant OrderOK, relative to NodeOK and DataOK, ties    *)
(* the syncs of a table to those of the uploader, says that what a         *)
(* database has synced or begun to sync is below what it has not, and      *)
(* that an instance whose actor stops goes with the sync of the barrier    *)
(* that stops it, so that no later sync finds it.  A lemma for each        *)
(* action, then the theorem.                                               *)
(***************************************************************************)
EXTENDS StateStoreDataProofs

-----------------------------------------------------------------------------
\* The order of the stages.  Together with NodeOK and DataOK these parts are inductive.

\* The epochs of a table that are being synced, newest first, are above the one it has synced.
TableOrder(d) ==
  /\ IsSeq(d.syncing) /\ d.synced \in Nat
  /\ \A k \in DOMAIN d.syncing : d.syncing[k] \in Nat /\ d.synced < d.syncing[k]
  /\ Descending(d.syncing)

\* The syncs of a table are those of the uploader.
SyncsMatch(t, d, sy) ==
  /\ \A k \in DOMAIN d.syncing : \E m \in DOMAIN sy : t \in sy[m].tables /\ sy[m].epoch = d.syncing[k]
  /\ \A m \in DOMAIN sy : t \in sy[m].tables => \E k \in DOMAIN d.syncing : d.syncing[k] = sy[m].epoch

Syncs(td, sy) ==
  /\ \A t \in DOMAIN td : TableOrder(td[t]) /\ SyncsMatch(t, td[t], sy)
  /\ \A m \in DOMAIN sy : sy[m].tables \subseteq DOMAIN td

\* Every table the uploader knows belongs to a database that has started.
Homes(md, td) ==
  \A t \in DOMAIN td : \E g \in Group : t \in TablesOf[g] /\ md[g] # "cleared"

\* The node learns of versions after meta commits them.
Versions(nt, rc, vs) ==
  \A g \in Group : /\ nt.epoch[g] \in Nat /\ nt.epoch[g] <= vs.epoch[g]
                   /\ rc.epoch[g] \in Nat /\ rc.epoch[g] <= vs.epoch[g]

\* x is committed or will be, unless the database fails.
Reached(x, g, vs, ans, sy) == x <= vs.epoch[g] \/ \E e : HasStage(g, e, ans, sy) /\ x <= e

SyncedReached(md, td, vs, ans, sy) ==
  \A g \in Group : md[g] = "running" =>
    \A t \in DOMAIN td : t \in TablesOf[g] => Reached(td[t].synced, g, vs, ans, sy)

\* x is below the epochs that database g has not yet synced and those that its instances write.
Low(x, g, ue, ins) ==
  /\ \A u \in ue : Of(u, g) => x < u.epoch
  /\ \A i \in DOMAIN ins : TableOf[i] \in TablesOf[g] => x < ins[i].current.epoch

Marks(td, vs, ans, sy, ue, ins) ==
  \A g \in Group :
    /\ Low(vs.epoch[g], g, ue, ins)
    /\ \A e : HasStage(g, e, ans, sy) => Low(e, g, ue, ins)
    /\ \A t \in DOMAIN td : t \in TablesOf[g] => Low(td[t].synced, g, ue, ins)

\* Actors stop once, at checkpoints that sync their tables.
Stops(br) ==
  \A g \in Group : \A k \in DOMAIN br[g] : \A i \in br[g][k].stop :
    /\ br[g][k].kind = "checkpoint" /\ TableOf[i] \in br[g][k].sync
    /\ \A j \in DOMAIN br[g] : i \in br[g][j].stop => j = k

\* The barrier of q that stops actor i comes after the data that its instance d has sealed.
StopOf(i, d, q) ==
  \E k \in DOMAIN q :
    /\ i \in q[k].stop /\ q[k].curr = d.current.epoch
    /\ \A j \in DOMAIN d.sealed : d.sealed[j].epoch <= q[k].prev

\* An instance whose actor stops, or has stopped, goes with the sync of the barrier that stops it.
InstOrder(i, d, md, br, ac) ==
  /\ \A k \in DOMAIN d.sealed : d.sealed[k].imms # <<>>
  /\ ac[i] = "running" => \A k \in DOMAIN d.sealed : d.sealed[k].epoch <= d.current.epoch
  /\ ac[i] \in {"none", "stopping"} =>
       \A g \in Group : md[g] = "running" /\ TableOf[i] \in TablesOf[g] =>
         StopOf(i, d, br[g]) /\ (ac[i] = "none" => d.destroyed)

OrderOK ==
  /\ Syncs(tableData, syncing) /\ Homes(mode, tableData)
  /\ Versions(notified, recent, version)
  /\ SyncedReached(mode, tableData, version, answers, syncing)
  /\ Marks(tableData, version, answers, syncing, unsyncEpochs, instData)
  /\ Stops(barriers)
  /\ \A i \in DOMAIN instData : InstOrder(i, instData[i], mode, barriers, actor)

\* The parts of the invariant, one by one.
LEMMA OrderParts ==
  ASSUME OrderOK
  PROVE  /\ Syncs(tableData, syncing) /\ Homes(mode, tableData)
         /\ Versions(notified, recent, version)
         /\ SyncedReached(mode, tableData, version, answers, syncing)
         /\ Marks(tableData, version, answers, syncing, unsyncEpochs, instData)
         /\ Stops(barriers)
         /\ \A i \in DOMAIN instData : InstOrder(i, instData[i], mode, barriers, actor)
BY DEF OrderOK

-----------------------------------------------------------------------------
\* A table whose syncs are answered

\* The first n elements of a sequence.
LEMMA FirstElements ==
  ASSUME NEW c, IsSeq(c), NEW n, n \in 0..Len(c)
  PROVE  /\ IsSeq(SubSeq(c, 1, n)) /\ DOMAIN SubSeq(c, 1, n) = 1..n
         /\ \A k \in 1..n : k \in DOMAIN c /\ SubSeq(c, 1, n)[k] = c[k]
<1>1. PICK S : c \in Seq(S)
  BY DEF IsSeq
<1>2. SubSeq(c, 1, n) \in Seq(S) /\ Len(SubSeq(c, 1, n)) = n
  BY <1>1
<1>3. \A k \in 1..n : SubSeq(c, 1, n)[k] = c[k]
  BY <1>1
<1>4. IsSeq(SubSeq(c, 1, n))
  BY <1>2 DEF IsSeq
<1>5. DOMAIN SubSeq(c, 1, n) = 1..n
  BY <1>2, <1>4, SeqDomain
<1>6. 1..n \subseteq DOMAIN c
  BY <1>1
<1> QED BY <1>3, <1>4, <1>5, <1>6

\* The smallest of the elements of a descending sequence are its last ones.
LEMMA LastElements ==
  ASSUME NEW c, IsSeq(c), Descending(c), \A k \in DOMAIN c : c[k] \in Nat,
         NEW A, A # {}, \A x \in A : \E k \in DOMAIN c : c[k] = x,
         \A j, k \in DOMAIN c : c[j] \in A /\ j < k => c[k] \in A
  PROVE  \E p \in DOMAIN c :
           /\ \A k \in DOMAIN c : c[k] \in A <=> p <= k
           /\ Cardinality(A) = Len(c) - p + 1
           /\ Max(A) = c[p]
<1>1. Len(c) \in Nat /\ DOMAIN c = 1..Len(c)
  BY SeqDomain
<1> DEFINE P == {k \in DOMAIN c : c[k] \in A}
<1>2. P \subseteq Nat /\ P # {}
  BY <1>1
<1>3. PICK p \in P : \A k \in P : p <= k
  BY <1>2, LeastNumber
<1>4. p \in DOMAIN c /\ p \in Nat /\ c[p] \in A
  BY <1>1, <1>3
<1>5. \A k \in DOMAIN c : c[k] \in A <=> p <= k
  <2>1. ASSUME NEW k \in DOMAIN c, c[k] \in A PROVE p <= k
    BY <1>3, <2>1
  <2>2. ASSUME NEW k \in DOMAIN c, p <= k PROVE c[k] \in A
    <3>1. k = p \/ p < k
      BY <1>1, <1>4, <2>2
    <3> QED BY <1>4, <2>2, <3>1
  <2> QED BY <2>1, <2>2
<1> DEFINE f == [k \in p..Len(c) |-> c[k]]
<1>6. f \in [p..Len(c) -> A] /\ \A k \in p..Len(c) : f[k] = c[k] /\ k \in DOMAIN c
  BY <1>1, <1>4, <1>5
<1> HIDE DEF f, P
<1>7. \A j, k \in p..Len(c) : f[j] = f[k] => j = k
  <2>1. ASSUME NEW j \in p..Len(c), NEW k \in p..Len(c), j < k PROVE f[j] # f[k]
    BY <1>6, <2>1 DEF Descending
  <2>2. \A j, k \in p..Len(c) : j < k \/ k < j \/ j = k
    BY <1>1, <1>4
  <2> QED BY <2>1, <2>2
<1>8. \A x \in A : \E k \in p..Len(c) : f[k] = x
  <2> TAKE x \in A
  <2>1. PICK k \in DOMAIN c : c[k] = x
    OBVIOUS
  <2>2. k \in p..Len(c)
    BY <1>1, <1>4, <1>5, <2>1
  <2> QED BY <1>6, <2>1, <2>2
<1>9. f \in Surjection(p..Len(c), A) /\ f \in Injection(p..Len(c), A)
  BY <1>6, <1>7, <1>8 DEF Surjection, Injection, IsInjective
<1>10. /\ IsFiniteSet(p..Len(c))
       /\ Cardinality(p..Len(c)) = Len(c) - p + 1
  <2>1. p \in Int /\ Len(c) \in Int /\ ~(p > Len(c))
    BY <1>1, <1>4
  <2> QED BY <2>1, FS_Interval
<1>11. IsFiniteSet(A) /\ Cardinality(A) = Len(c) - p + 1
  BY <1>9, <1>10, FS_Surjection
<1>12. A \subseteq Nat
  OBVIOUS
<1>13. Max(A) \in A /\ c[p] <= Max(A)
  BY <1>4, <1>11, <1>12, FiniteMax
<1>14. PICK q \in DOMAIN c : c[q] = Max(A)
  BY <1>13
<1>15. p <= q
  BY <1>5, <1>13, <1>14
<1>16. ~(p < q)
  <2>1. ASSUME p < q PROVE FALSE
    <3>1. c[p] > c[q] /\ c[p] \in Nat /\ c[q] \in Nat
      BY <1>4, <2>1 DEF Descending
    <3> QED BY <3>1, <1>13, <1>14
  <2> QED BY <2>1
<1>17. p = q
  BY <1>1, <1>4, <1>15, <1>16
<1> QED BY <1>4, <1>5, <1>11, <1>14, <1>17

\* What pop_back leaves when the smallest elements of a descending sequence go.
LEMMA PoppedBack ==
  ASSUME NEW c, IsSeq(c), Descending(c), \A k \in DOMAIN c : c[k] \in Nat,
         NEW A, A # {}, \A x \in A : \E k \in DOMAIN c : c[k] = x,
         \A j, k \in DOMAIN c : c[j] \in A /\ j < k => c[k] \in A
  PROVE  LET r == PopBack(c, Cardinality(A)) IN
         /\ IsSeq(r) /\ Descending(r) /\ Max(A) \in Nat
         /\ \A k \in DOMAIN r : k \in DOMAIN c /\ r[k] = c[k] /\ c[k] \notin A /\ Max(A) < r[k]
         /\ \A k \in DOMAIN c : c[k] \notin A => k \in DOMAIN r
         /\ Max(A) \in A
<1>1. PICK p \in DOMAIN c : /\ \A k \in DOMAIN c : c[k] \in A <=> p <= k
                            /\ Cardinality(A) = Len(c) - p + 1
                            /\ Max(A) = c[p]
  BY LastElements
<1>2. Len(c) \in Nat /\ DOMAIN c = 1..Len(c) /\ p \in 1..Len(c)
  BY SeqDomain
<1> DEFINE r == PopBack(c, Cardinality(A))
<1>3. r = SubSeq(c, 1, p - 1)
  <2>1. Len(c) - Cardinality(A) = p - 1
    BY <1>1, <1>2
  <2> QED BY <2>1 DEF PopBack
<1>4. p - 1 \in 0..Len(c)
  BY <1>2
<1>5. IsSeq(r) /\ DOMAIN r = 1..(p - 1) /\ \A k \in 1..(p - 1) : k \in DOMAIN c /\ r[k] = c[k]
  BY <1>3, <1>4, FirstElements
<1> HIDE DEF r
<1>6. Descending(r)
  BY <1>5 DEF Descending
<1>7. Max(A) \in A /\ Max(A) \in Nat
  BY <1>1, <1>2
<1>8. ASSUME NEW k \in DOMAIN r PROVE k \in DOMAIN c /\ r[k] = c[k] /\ c[k] \notin A /\ Max(A) < r[k]
  <2>1. k \in DOMAIN c /\ r[k] = c[k] /\ k < p
    BY <1>2, <1>5
  <2>2. c[k] > c[p]
    BY <2>1 DEF Descending
  <2>3. ~(p <= k)
    BY <1>2, <2>1
  <2>4. c[k] \in Nat /\ c[p] \in Nat
    BY <2>1
  <2> QED BY <1>1, <2>1, <2>2, <2>3, <2>4
<1>9. ASSUME NEW k \in DOMAIN c, c[k] \notin A PROVE k \in DOMAIN r
  <2>1. ~(p <= k)
    BY <1>1, <1>9
  <2> QED BY <1>2, <1>5, <2>1
<1>10. /\ IsSeq(r) /\ Descending(r) /\ Max(A) \in Nat
       /\ \A k \in DOMAIN r : k \in DOMAIN c /\ r[k] = c[k] /\ c[k] \notin A /\ Max(A) < r[k]
       /\ \A k \in DOMAIN c : c[k] \notin A => k \in DOMAIN r
       /\ Max(A) \in A
  BY <1>5, <1>6, <1>7, <1>8, <1>9
<1> QED BY <1>10 DEF r

\* The epochs of the syncs of table t that are answered.
Acks(sy, t) == {s.epoch : s \in {x \in Finished(sy) : t \in x.tables}}

AckedAt(d, c, m) == [d EXCEPT !.syncing = c, !.synced = m]

\* ack_synced of a table d.
AckedTable(sy, t, d) ==
  IF Acks(sy, t) = {} THEN d
  ELSE AckedAt(d, PopBack(d.syncing, Cardinality(Acks(sy, t))), Max(Acks(sy, t)))

\* Its fields.
LEMMA AckedFields ==
  ASSUME NEW d, TableShape(d), NEW c, NEW m
  PROVE  AckedAt(d, c, m).syncing = c /\ AckedAt(d, c, m).synced = m
<1>1. d = [unsync |-> d.unsync, spill |-> d.spill, stopped |-> d.stopped, syncing |-> d.syncing, synced |-> d.synced]
  BY DEF TableShape
<1> DEFINE d1 == [d EXCEPT !.syncing = c]
           d2 == [d1 EXCEPT !.synced = m]
<1>2. AckedAt(d, c, m) = d2
  BY DEF AckedAt
<1>3. d1 = [unsync |-> d.unsync, spill |-> d.spill, stopped |-> d.stopped, syncing |-> c, synced |-> d.synced]
  BY <1>1
<1> HIDE DEF d1
<1>4. d2 = [unsync |-> d.unsync, spill |-> d.spill, stopped |-> d.stopped, syncing |-> c, synced |-> m]
  BY <1>3
<1> HIDE DEF d2
<1> QED BY <1>2, <1>4

\* The syncs of the uploader: their ids differ and those of a table have growing epochs.
SyncsApart(sy) ==
  /\ IsSeq(sy) /\ \A k \in DOMAIN sy : SyncShape(sy[k])
  /\ \A l, m \in DOMAIN sy : sy[l] = sy[m] => l = m
  /\ \A l, m \in DOMAIN sy : l < m /\ sy[l].tables \cap sy[m].tables # {} => sy[l].epoch < sy[m].epoch

\* The syncs are different, and those that share a table are in the order of their epochs.
LEMMA SyncsAre ==
  ASSUME NEW tk, NEW sp, NEW sy, NEW td, NEW ue, NEW ans, UploaderOK(tk, sp, sy, td, ue), AnswersOK(ans, sy)
  PROVE  SyncsApart(sy)
<1>1. IsSeq(sy) /\ \A k \in DOMAIN sy : SyncShape(sy[k])
  BY DEF UploaderOK, Shapes
<1>2. \A l, m \in DOMAIN sy : sy[l] = sy[m] => l = m
  <2>1. \A l, m \in DOMAIN sy : l < m => sy[l].id < sy[m].id
    BY DEF UploaderOK, UniqueIds
  <2>2. \A l, m \in DOMAIN sy : l < m \/ m < l \/ l = m
    BY <1>1 DEF IsSeq
  <2>3. \A l \in DOMAIN sy : sy[l].id \in Nat
    BY <1>1 DEF SyncShape
  <2> QED BY <2>1, <2>2, <2>3
<1>3. ASSUME NEW l \in DOMAIN sy, NEW m \in DOMAIN sy, l < m, sy[l].tables \cap sy[m].tables # {}
      PROVE  sy[l].epoch < sy[m].epoch
  <2>1. PICK g \in Group : Of(sy[l], g)
    BY DEF AnswersOK, Grouped
  <2>2. PICK h \in Group : Of(sy[m], h)
    BY DEF AnswersOK, Grouped
  <2>3. g = h
    BY <1>3, <2>1, <2>2, OneGroup DEF Of
  <2> QED BY <1>3, <2>1, <2>2, <2>3 DEF AnswersOK, Ordered
<1> QED BY <1>1, <1>2, <1>3 DEF SyncsApart

\* A sync of table t is answered exactly if its epoch is among those of the answered ones, and
\* then all syncs of the table with smaller epochs are answered too.
LEMMA AcksAre ==
  ASSUME NEW sy, SyncsApart(sy), NEW t
  PROVE  /\ \A x \in Acks(sy, t) : \E m \in DOMAIN sy : t \in sy[m].tables /\ sy[m].epoch = x
         /\ \A m \in DOMAIN sy : t \in sy[m].tables => (sy[m].epoch \in Acks(sy, t) <=> sy[m] \in Finished(sy))
         /\ \A l, m \in DOMAIN sy : /\ t \in sy[l].tables /\ t \in sy[m].tables
                                    /\ sy[l].epoch \in Acks(sy, t) /\ sy[m].epoch < sy[l].epoch
                                    => sy[m].epoch \in Acks(sy, t)
<1>1. /\ IsSeq(sy) /\ \A l, m \in DOMAIN sy : sy[l] = sy[m] => l = m
      /\ \A k \in DOMAIN sy : sy[k].epoch \in Nat
      /\ \A l, m \in DOMAIN sy : l < m /\ sy[l].tables \cap sy[m].tables # {} => sy[l].epoch < sy[m].epoch
  BY DEF SyncsApart, SyncShape
<1>2. \A x \in Acks(sy, t) : \E m \in DOMAIN sy : t \in sy[m].tables /\ sy[m].epoch = x /\ sy[m] \in Finished(sy)
  BY DEF Acks, Finished
<1>3. \A l, m \in DOMAIN sy : l < m \/ m < l \/ l = m
  BY <1>1 DEF IsSeq
<1>4. ASSUME NEW m \in DOMAIN sy, t \in sy[m].tables PROVE sy[m].epoch \in Acks(sy, t) <=> sy[m] \in Finished(sy)
  <2>1. ASSUME sy[m].epoch \in Acks(sy, t) PROVE sy[m] \in Finished(sy)
    <3>1. PICK l \in DOMAIN sy : t \in sy[l].tables /\ sy[l].epoch = sy[m].epoch /\ sy[l] \in Finished(sy)
      BY <1>2, <2>1
    <3>2. sy[l].tables \cap sy[m].tables # {} /\ sy[m].tables \cap sy[l].tables # {}
      BY <1>4, <3>1
    <3>3. l = m
      BY <1>1, <1>3, <3>1, <3>2
    <3> QED BY <3>1, <3>3
  <2>2. ASSUME sy[m] \in Finished(sy) PROVE sy[m].epoch \in Acks(sy, t)
    BY <1>4, <2>2 DEF Acks
  <2> QED BY <2>1, <2>2
<1>5. ASSUME NEW l \in DOMAIN sy, NEW m \in DOMAIN sy, t \in sy[l].tables, t \in sy[m].tables,
             sy[l].epoch \in Acks(sy, t), sy[m].epoch < sy[l].epoch
      PROVE  sy[m].epoch \in Acks(sy, t)
  <2>1. sy[l] \in Finished(sy)
    BY <1>4, <1>5
  <2>2. sy[l].tables \cap sy[m].tables # {}
    BY <1>5
  <2>3. ~(l < m)
    BY <1>1, <1>5, <2>2
  <2>4. sy[m] \in Finished(sy)
    BY <1>1, <2>1, <2>3, FinishedFirst
  <2> QED BY <1>4, <1>5, <2>4
<1> QED BY <1>2, <1>4, <1>5

\* The syncs that are left.
SyncsKept(sy, sy2) ==
  /\ \A n \in DOMAIN sy2 : \E m \in DOMAIN sy : sy2[n] = sy[m] /\ sy[m] \notin Finished(sy)
  /\ \A m \in DOMAIN sy : sy[m] \notin Finished(sy) => \E n \in DOMAIN sy2 : sy2[n] = sy[m]

\* The answered syncs of a table leave it, and the others are still in order.
LEMMA TableAcked ==
  ASSUME NEW sy, SyncsApart(sy), NEW sy2, SyncsKept(sy, sy2), NEW t, NEW d, TableShape(d), TableOrder(d), SyncsMatch(t, d, sy),
         NEW d2, d2 = AckedTable(sy, t, d)
  PROVE  /\ TableOrder(d2) /\ SyncsMatch(t, d2, sy2)
         /\ d2.synced = d.synced \/ \E m \in DOMAIN sy : t \in sy[m].tables /\ d2.synced = sy[m].epoch
<1> DEFINE A == Acks(sy, t)
           c == d.syncing
<1>1. /\ \A x \in A : \E m \in DOMAIN sy : t \in sy[m].tables /\ sy[m].epoch = x
      /\ \A m \in DOMAIN sy : t \in sy[m].tables => (sy[m].epoch \in A <=> sy[m] \in Finished(sy))
      /\ \A l, m \in DOMAIN sy : /\ t \in sy[l].tables /\ t \in sy[m].tables
                                 /\ sy[l].epoch \in A /\ sy[m].epoch < sy[l].epoch
                                 => sy[m].epoch \in A
  BY AcksAre
<1>2. /\ IsSeq(c) /\ Descending(c) /\ \A k \in DOMAIN c : c[k] \in Nat /\ d.synced < c[k]
      /\ d.synced \in Nat
  BY DEF TableOrder
<1>3. /\ \A k \in DOMAIN c : \E m \in DOMAIN sy : t \in sy[m].tables /\ sy[m].epoch = c[k]
      /\ \A m \in DOMAIN sy : t \in sy[m].tables => \E k \in DOMAIN c : c[k] = sy[m].epoch
  BY DEF SyncsMatch
<1>4. CASE A = {}
  <2>1. d2 = d
    BY <1>4 DEF AckedTable
  <2>2. SyncsMatch(t, d, sy2)
    <3>1. ASSUME NEW k \in DOMAIN c PROVE \E n \in DOMAIN sy2 : t \in sy2[n].tables /\ sy2[n].epoch = c[k]
      <4>1. PICK m \in DOMAIN sy : t \in sy[m].tables /\ sy[m].epoch = c[k]
        BY <1>3
      <4>2. PICK n \in DOMAIN sy2 : sy2[n] = sy[m]
        BY <1>1, <1>4, <4>1 DEF SyncsKept
      <4> QED BY <4>1, <4>2
    <3>2. ASSUME NEW n \in DOMAIN sy2, t \in sy2[n].tables PROVE \E k \in DOMAIN c : c[k] = sy2[n].epoch
      <4>1. PICK m \in DOMAIN sy : sy2[n] = sy[m]
        BY DEF SyncsKept
      <4> QED BY <1>3, <3>2, <4>1
    <3> QED BY <3>1, <3>2 DEF SyncsMatch
  <2> QED BY <2>1, <2>2
<1>5. CASE A # {}
  <2> DEFINE r == PopBack(c, Cardinality(A))
  <2>1. \A x \in A : \E k \in DOMAIN c : c[k] = x
    BY <1>1, <1>3
  <2>2. ASSUME NEW j \in DOMAIN c, NEW k \in DOMAIN c, c[j] \in A, j < k PROVE c[k] \in A
    <3>1. c[k] < c[j]
      BY <1>2, <2>2 DEF Descending
    <3>2. PICK l \in DOMAIN sy : t \in sy[l].tables /\ sy[l].epoch = c[j]
      BY <1>3
    <3>3. PICK m \in DOMAIN sy : t \in sy[m].tables /\ sy[m].epoch = c[k]
      BY <1>3
    <3> QED BY <1>1, <2>2, <3>1, <3>2, <3>3
  <2>3. /\ IsSeq(r) /\ Descending(r) /\ Max(A) \in Nat
        /\ \A k \in DOMAIN r : k \in DOMAIN c /\ r[k] = c[k] /\ c[k] \notin A /\ Max(A) < r[k]
        /\ \A k \in DOMAIN c : c[k] \notin A => k \in DOMAIN r
        /\ Max(A) \in A
    <3> HIDE DEF A, c
    <3> QED BY <1>2, <1>5, <2>1, <2>2, PoppedBack
  <2>4. d2.syncing = r /\ d2.synced = Max(A)
    BY <1>5, AckedFields DEF AckedTable
  <2> HIDE DEF r, A, c
  <2>5. TableOrder(d2)
    BY <1>2, <2>3, <2>4 DEF TableOrder
  <2>6. SyncsMatch(t, d2, sy2)
    <3>1. ASSUME NEW k \in DOMAIN r PROVE \E n \in DOMAIN sy2 : t \in sy2[n].tables /\ sy2[n].epoch = r[k]
      <4>1. k \in DOMAIN c /\ r[k] = c[k] /\ c[k] \notin A
        BY <2>3
      <4>2. PICK m \in DOMAIN sy : t \in sy[m].tables /\ sy[m].epoch = c[k]
        BY <1>3, <4>1
      <4>3. PICK n \in DOMAIN sy2 : sy2[n] = sy[m]
        BY <1>1, <4>1, <4>2 DEF SyncsKept
      <4> QED BY <4>1, <4>2, <4>3
    <3>2. ASSUME NEW n \in DOMAIN sy2, t \in sy2[n].tables PROVE \E k \in DOMAIN r : r[k] = sy2[n].epoch
      <4>1. PICK m \in DOMAIN sy : sy2[n] = sy[m] /\ sy[m] \notin Finished(sy)
        BY DEF SyncsKept
      <4>2. PICK k \in DOMAIN c : c[k] = sy[m].epoch
        BY <1>3, <3>2, <4>1
      <4>3. c[k] \notin A
        BY <1>1, <3>2, <4>1, <4>2
      <4> QED BY <2>3, <4>1, <4>2, <4>3
    <3> QED BY <3>1, <3>2, <2>4 DEF SyncsMatch
  <2>7. \E m \in DOMAIN sy : t \in sy[m].tables /\ d2.synced = sy[m].epoch
    BY <1>1, <2>3, <2>4
  <2> QED BY <2>5, <2>6, <2>7
<1> QED BY <1>4, <1>5

\* may_notify_sync_task keeps the syncs of the tables those of the uploader, in order.
LEMMA NotifySyncs ==
  ASSUME NEW tk, NEW sp, NEW sy, NEW td, NEW ue, NEW ins, UploaderOK(tk, sp, sy, td, ue), MayNotifySyncTask(sy, td, ins),
         NEW ans, AnswersOK(ans, sy), Syncs(td, sy)
  PROVE  /\ Syncs(tableData', syncing')
         /\ \A t \in DOMAIN tableData' :
              /\ t \in DOMAIN td
              /\ \/ tableData'[t].synced = td[t].synced
                 \/ \E m \in DOMAIN sy : t \in sy[m].tables /\ tableData'[t].synced = sy[m].epoch
<1> DEFINE I == {k \in DOMAIN sy : sy[k] \notin Finished(sy)}
           Empties(t) == /\ AckedTable(sy, t, td[t]).syncing = <<>>
                         /\ AckedTable(sy, t, td[t]).unsync = {}
                         /\ \A i \in DOMAIN ins : TableOf[i] # t
           Left == {t \in DOMAIN td : ~(Acks(sy, t) # {} /\ Empties(t))}
<1>1. /\ syncing' = Keep(sy, I)
      /\ tableData' = [t \in Left |-> AckedTable(sy, t, td[t])]
  BY DEF MayNotifySyncTask, Acks, AckedTable, AckedAt
<1>2. SyncsApart(sy)
  BY SyncsAre
<1>3. IsSeq(sy) /\ I \subseteq DOMAIN sy
  BY <1>2 DEF SyncsApart
<1>4. SyncsKept(sy, Keep(sy, I))
  <2>1. \A k : k \in I <=> k \in DOMAIN sy /\ sy[k] \notin Finished(sy)
    OBVIOUS
  <2> HIDE DEF I
  <2>2. \E f \in [DOMAIN Keep(sy, I) -> DOMAIN sy] :
          /\ \A j, k \in DOMAIN Keep(sy, I) : j < k => f[j] < f[k]
          /\ \A k \in DOMAIN Keep(sy, I) : f[k] \in I /\ Keep(sy, I)[k] = sy[f[k]]
          /\ \A m \in I : \E k \in DOMAIN Keep(sy, I) : f[k] = m
    BY <1>3, KeepFacts
  <2> DEFINE r == Keep(sy, I)
  <2> HIDE DEF r
  <2>3. PICK f \in [DOMAIN r -> DOMAIN sy] :
          /\ \A k \in DOMAIN r : f[k] \in I /\ r[k] = sy[f[k]]
          /\ \A m \in I : \E k \in DOMAIN r : f[k] = m
    BY <2>2 DEF r
  <2>4. SyncsKept(sy, r)
    BY <2>1, <2>3 DEF SyncsKept
  <2> QED BY <2>4 DEF r
<1>5. SyncsKept(sy, syncing')
  BY <1>1, <1>4
<1>7. \A t \in DOMAIN tableData' : t \in DOMAIN td /\ tableData'[t] = AckedTable(sy, t, td[t])
  BY <1>1
<1>8. \A t \in DOMAIN td : t \notin DOMAIN tableData' => AckedTable(sy, t, td[t]).syncing = <<>>
  BY <1>1
<1> HIDE DEF I, Empties, Left
<1>9. ASSUME NEW t \in DOMAIN td
      PROVE  LET d2 == AckedTable(sy, t, td[t]) IN
             /\ TableOrder(d2) /\ SyncsMatch(t, d2, syncing')
             /\ d2.synced = td[t].synced \/ \E m \in DOMAIN sy : t \in sy[m].tables /\ d2.synced = sy[m].epoch
  <2>1. TableShape(td[t]) /\ TableOrder(td[t]) /\ SyncsMatch(t, td[t], sy)
    BY DEF UploaderOK, Shapes, Syncs
  <2> QED BY <1>2, <1>5, <2>1, TableAcked
<1>10. ASSUME NEW n \in DOMAIN syncing', NEW t \in syncing'[n].tables PROVE t \in DOMAIN tableData'
  <2>1. PICK m \in DOMAIN sy : syncing'[n] = sy[m]
    BY <1>5 DEF SyncsKept
  <2>2. t \in DOMAIN td
    BY <1>10, <2>1 DEF Syncs
  <2>3. SyncsMatch(t, AckedTable(sy, t, td[t]), syncing')
    BY <1>9, <2>2
  <2>4. DOMAIN AckedTable(sy, t, td[t]).syncing # {}
    BY <1>10, <2>3 DEF SyncsMatch
  <2>5. AckedTable(sy, t, td[t]).syncing # <<>>
    BY <2>4, EmptySeq
  <2> QED BY <1>8, <2>2, <2>5
<1> QED BY <1>7, <1>9, <1>10 DEF Syncs

\* z is the sequence s with the element x put before it.
Before(x, s, z) == z = <<x>> \o s

\* A sequence with one element more at the front.
LEMMA PutFirst ==
  ASSUME NEW s, IsSeq(s), NEW x, NEW z, Before(x, s, z)
  PROVE  /\ IsSeq(z) /\ 1 \in DOMAIN z /\ z[1] = x
         /\ \A k \in DOMAIN s : k + 1 \in DOMAIN z /\ z[k + 1] = s[k]
         /\ \A k \in DOMAIN z : (k = 1 /\ z[k] = x) \/ (k - 1 \in DOMAIN s /\ z[k] = s[k - 1] /\ k \in Nat)
<1>1. /\ IsSeq(z) /\ Len(z) = Len(s) + 1 /\ z[1] = x
      /\ \A k \in 1..Len(s) : z[k + 1] = s[k]
  BY SeqCons DEF Before
<1>2. DOMAIN s = 1..Len(s) /\ Len(s) \in Nat
  BY SeqDomain
<1>3. DOMAIN z = 1..(Len(s) + 1)
  BY <1>1, SeqDomain
<1>4. /\ 1 \in DOMAIN z
      /\ \A k \in DOMAIN s : k + 1 \in DOMAIN z /\ z[k + 1] = s[k]
  BY <1>1, <1>2, <1>3
<1>5. ASSUME NEW k \in DOMAIN z
      PROVE  (k = 1 /\ z[k] = x) \/ (k - 1 \in DOMAIN s /\ z[k] = s[k - 1] /\ k \in Nat)
  <2>1. CASE k = 1
    BY <2>1, <1>1
  <2>2. CASE k # 1
    <3>1. k - 1 \in 1..Len(s) /\ (k - 1) + 1 = k /\ k \in Nat
      BY <2>2, <1>2, <1>3
    <3> QED BY <3>1, <1>1, <1>2
  <2> QED BY <2>1, <2>2
<1> QED BY <1>1, <1>4, <1>5

\* The sync of a new epoch e above all others of a table that is being synced.
LEMMA SyncsPushed ==
  ASSUME NEW td, NEW td1, NEW sy, NEW sy1, NEW s, NEW e \in Nat, NEW T, Syncs(td, sy), DOMAIN td1 = DOMAIN td,
         SyncPushed(td, td1, e, T), T \subseteq DOMAIN td, s.epoch = e, s.tables = T, IsSeq(sy), sy1 = Append(sy, s),
         \A t \in T : td[t].synced < e /\ \A k \in DOMAIN td[t].syncing : td[t].syncing[k] < e
  PROVE  Syncs(td1, sy1)
<1> DEFINE n == Len(sy) + 1
<1>1. /\ \A k \in DOMAIN sy : k \in DOMAIN sy1 /\ sy1[k] = sy[k]
      /\ n \in DOMAIN sy1 /\ sy1[n] = s
      /\ \A k \in DOMAIN sy1 : k \in DOMAIN sy \/ k = n
  BY AppendPlaces
<1> HIDE DEF n
<1>2. \A m \in DOMAIN sy1 : sy1[m].tables \subseteq DOMAIN td1
  BY <1>1 DEF Syncs
<1>3. ASSUME NEW t \in DOMAIN td PROVE TableOrder(td1[t]) /\ SyncsMatch(t, td1[t], sy1)
  <2> DEFINE c == td[t].syncing
  <2>1. TableOrder(td[t]) /\ SyncsMatch(t, td[t], sy)
    BY DEF Syncs
  <2>2. /\ IsSeq(c) /\ Descending(c) /\ td[t].synced \in Nat
        /\ \A k \in DOMAIN c : c[k] \in Nat /\ td[t].synced < c[k]
    BY <2>1 DEF TableOrder
  <2>3. /\ \A k \in DOMAIN c : \E m \in DOMAIN sy : t \in sy[m].tables /\ sy[m].epoch = c[k]
        /\ \A m \in DOMAIN sy : t \in sy[m].tables => \E k \in DOMAIN c : c[k] = sy[m].epoch
    BY <2>1 DEF SyncsMatch
  <2>4. CASE t \in T
    <3> DEFINE r == <<e>> \o c
    <3>1. td1[t].syncing = r /\ td1[t].synced = td[t].synced
      BY <2>4 DEF SyncPushed
    <3>2. /\ IsSeq(r) /\ 1 \in DOMAIN r /\ r[1] = e
          /\ \A k \in DOMAIN c : k + 1 \in DOMAIN r /\ r[k + 1] = c[k]
          /\ \A k \in DOMAIN r : (k = 1 /\ r[k] = e) \/ (k - 1 \in DOMAIN c /\ r[k] = c[k - 1] /\ k \in Nat)
      <4>1. IsSeq(c) /\ Before(e, c, r)
        BY <2>2 DEF Before
      <4> HIDE DEF c, r
      <4> QED BY ONLY <4>1, PutFirst
    <3>3. td[t].synced < e /\ \A k \in DOMAIN c : c[k] < e
      BY <2>4
    <3>4. \A k \in DOMAIN c : k \in Nat /\ k >= 1
      BY <2>2, SeqDomain
    <3> HIDE DEF r, c
    <3>5. \A k \in DOMAIN r : r[k] \in Nat /\ td[t].synced < r[k]
      BY <2>2, <3>2, <3>3
    <3>6. ASSUME NEW j \in DOMAIN r, NEW k \in DOMAIN r, j < k PROVE r[j] > r[k]
      <4>1. k # 1 /\ k - 1 \in DOMAIN c /\ r[k] = c[k - 1] /\ k \in Nat
        <5>1. j = 1 \/ (j - 1 \in DOMAIN c /\ j \in Nat)
          BY <3>2
        <5>2. j >= 1 /\ j \in Nat
          BY <5>1, <3>4
        <5>3. k # 1
          BY <3>6, <5>2
        <5> QED BY <5>3, <3>2
      <4>2. CASE j = 1
        <5>1. c[k - 1] < e /\ c[k - 1] \in Nat
          BY <2>2, <3>3, <4>1
        <5> QED BY <3>2, <4>1, <4>2, <5>1
      <4>3. CASE j # 1
        <5>1. j - 1 \in DOMAIN c /\ r[j] = c[j - 1] /\ j \in Nat
          BY <3>2, <4>3
        <5>2. j - 1 < k - 1
          BY <3>6, <4>1, <5>1
        <5> QED BY <2>2, <4>1, <5>1, <5>2 DEF Descending
      <4> QED BY <4>2, <4>3
    <3>7. TableOrder(td1[t])
      BY <2>2, <3>1, <3>2, <3>5, <3>6 DEF TableOrder, Descending
    <3>8. SyncsMatch(t, td1[t], sy1)
      <4>1. ASSUME NEW k \in DOMAIN r PROVE \E m \in DOMAIN sy1 : t \in sy1[m].tables /\ sy1[m].epoch = r[k]
        <5>1. CASE k = 1
          BY <1>1, <2>4, <3>2, <5>1
        <5>2. CASE k # 1
          <6>1. k - 1 \in DOMAIN c /\ r[k] = c[k - 1]
            BY <3>2, <5>2
          <6>2. PICK m \in DOMAIN sy : t \in sy[m].tables /\ sy[m].epoch = c[k - 1]
            BY <2>3, <6>1
          <6> QED BY <1>1, <6>1, <6>2
        <5> QED BY <5>1, <5>2
      <4>2. ASSUME NEW m \in DOMAIN sy1, t \in sy1[m].tables PROVE \E k \in DOMAIN r : r[k] = sy1[m].epoch
        <5>1. CASE m = n
          BY <1>1, <3>2, <5>1
        <5>2. CASE m \in DOMAIN sy
          <6>1. PICK k \in DOMAIN c : c[k] = sy[m].epoch
            BY <1>1, <2>3, <4>2, <5>2
          <6> QED BY <1>1, <3>2, <5>2, <6>1
        <5> QED BY <1>1, <5>1, <5>2
      <4> QED BY <3>1, <4>1, <4>2 DEF SyncsMatch
    <3> QED BY <3>7, <3>8
  <2>5. CASE t \notin T
    <3>1. td1[t].syncing = c /\ td1[t].synced = td[t].synced
      BY <2>5 DEF SyncPushed
    <3> HIDE DEF c
    <3>2. TableOrder(td1[t])
      BY <2>2, <3>1 DEF TableOrder
    <3>3. SyncsMatch(t, td1[t], sy1)
      BY <1>1, <2>3, <2>5, <3>1 DEF SyncsMatch
    <3> QED BY <3>2, <3>3
  <2> QED BY <2>4, <2>5
<1> QED BY <1>2, <1>3 DEF Syncs

-----------------------------------------------------------------------------
\* Marks

\* The epochs up to which database g is synced: its version, its stages and what its tables have synced.
Marked(x, g, td, vs, ans, sy) ==
  x = vs.epoch[g] \/ HasStage(g, x, ans, sy) \/ \E t \in DOMAIN td : t \in TablesOf[g] /\ x = td[t].synced

\* Marks, as a statement about all marked epochs of a database.
LEMMA MarksAre ==
  ASSUME NEW td, NEW vs, NEW ans, NEW sy, NEW ue, NEW ins
  PROVE  Marks(td, vs, ans, sy, ue, ins)
         <=> \A g \in Group : \A x : Marked(x, g, td, vs, ans, sy) => Low(x, g, ue, ins)
<1>1. ASSUME Marks(td, vs, ans, sy, ue, ins), NEW g \in Group, NEW x, Marked(x, g, td, vs, ans, sy)
      PROVE  Low(x, g, ue, ins)
  BY <1>1 DEF Marks, Marked
<1>2. ASSUME \A g \in Group : \A x : Marked(x, g, td, vs, ans, sy) => Low(x, g, ue, ins)
      PROVE  Marks(td, vs, ans, sy, ue, ins)
  BY <1>2 DEF Marks, Marked
<1> QED BY <1>1, <1>2

Numbers(ue, ins) ==
  (\A u \in ue : u.epoch \in Nat) /\ \A i \in DOMAIN ins : ins[i].current.epoch \in Nat

\* The epochs that are compared are numbers.
LEMMA NodeNumbers ==
  ASSUME NodeOK, DataOK
  PROVE  Numbers(unsyncEpochs, instData)
<1>1. \A u \in unsyncEpochs : u.epoch \in Nat
  BY Parts DEF Numbered
<1>2. \A i \in DOMAIN instData : EpochShape(instData[i].current)
  BY DataParts DEF Instances, InstShape
<1> QED BY <1>1, <1>2 DEF Numbers, EpochShape

\* What is below a low epoch is low.
LEMMA LowDown ==
  ASSUME NEW g, NEW ue, NEW ins, Numbers(ue, ins), NEW x \in Nat, NEW y \in Nat, x <= y, Low(y, g, ue, ins)
  PROVE  Low(x, g, ue, ins)
<1>1. \A u \in ue : Of(u, g) => x < u.epoch
  <2> TAKE u \in ue
  <2>1. u.epoch \in Nat /\ (Of(u, g) => y < u.epoch)
    BY DEF Low, Numbers
  <2> QED BY <2>1
<1>2. \A i \in DOMAIN ins : TableOf[i] \in TablesOf[g] => x < ins[i].current.epoch
  <2> TAKE i \in DOMAIN ins
  <2>1. ins[i].current.epoch \in Nat /\ (TableOf[i] \in TablesOf[g] => y < ins[i].current.epoch)
    BY DEF Low, Numbers
  <2> QED BY <2>1
<1> QED BY <1>1, <1>2 DEF Low

\* The new marks are not above old ones.
MarksBelow(td, vs, ans, sy, td2, vs2, ans2, sy2) ==
  \A g \in Group : \A x : Marked(x, g, td2, vs2, ans2, sy2) =>
    x \in Nat /\ \E y \in Nat : Marked(y, g, td, vs, ans, sy) /\ x <= y

LowKept(ue, ins, ue2, ins2) ==
  \A g \in Group : \A x \in Nat : Low(x, g, ue, ins) => Low(x, g, ue2, ins2)

\* A step that marks nothing new and lets nothing below the marks in keeps Marks.
LEMMA MarksKept ==
  ASSUME NEW td, NEW vs, NEW ans, NEW sy, NEW ue, NEW ins, NEW td2, NEW vs2, NEW ans2, NEW sy2, NEW ue2, NEW ins2,
         Marks(td, vs, ans, sy, ue, ins), Numbers(ue, ins), MarksBelow(td, vs, ans, sy, td2, vs2, ans2, sy2),
         LowKept(ue, ins, ue2, ins2)
  PROVE  Marks(td2, vs2, ans2, sy2, ue2, ins2)
<1> SUFFICES ASSUME NEW g \in Group, NEW x, Marked(x, g, td2, vs2, ans2, sy2)
             PROVE  Low(x, g, ue2, ins2)
  BY MarksAre
<1>1. x \in Nat
  BY DEF MarksBelow
<1>2. PICK y \in Nat : Marked(y, g, td, vs, ans, sy) /\ x <= y
  BY DEF MarksBelow
<1>3. Low(y, g, ue, ins)
  BY <1>2, MarksAre
<1>4. Low(x, g, ue, ins)
  BY <1>1, <1>2, <1>3, LowDown
<1> QED BY <1>1, <1>4 DEF LowKept

\* What has been said of fewer unsynced epochs, and of fewer instances that write the same epochs.
FewerInsts(ins, ins2) ==
  \A i \in DOMAIN ins2 : i \in DOMAIN ins /\ ins2[i].current.epoch = ins[i].current.epoch

\* Nothing new is below x when epochs and instances only leave.
LEMMA LowOfFewer ==
  ASSUME NEW ue, NEW ue2, NEW ins, NEW ins2, ue2 \subseteq ue, FewerInsts(ins, ins2)
  PROVE  LowKept(ue, ins, ue2, ins2)
BY DEF LowKept, Low, FewerInsts

-----------------------------------------------------------------------------
\* Marks of the databases

\* The epochs of the committed version and of the stages are over.
LEMMA StageNat ==
  ASSUME DataOK, NEW g \in Group
  PROVE  /\ version.epoch[g] \in Nat /\ Over(version.epoch[g], g, mode, lastEpoch, barriers[g], actor, epoch)
         /\ \A e : HasStage(g, e, answers, syncing) =>
              e \in Nat /\ version.epoch[g] < e /\ Over(e, g, mode, lastEpoch, barriers[g], actor, epoch)
<1>1. Floors(mode, lastEpoch, barriers, actor, epoch, version, answers, syncing)
  BY DataParts
<1>2. \A e : Over(e, g, mode, lastEpoch, barriers[g], actor, epoch) => e \in Nat
  BY DEF Over
<1> QED BY <1>1, <1>2 DEF Floors

\* Marked epochs are numbers.
LEMMA MarkedNat ==
  ASSUME DataOK, OrderOK, NEW g \in Group, NEW x, Marked(x, g, tableData, version, answers, syncing)
  PROVE  x \in Nat
<1>1. \A t \in DOMAIN tableData : tableData[t].synced \in Nat
  BY OrderParts DEF Syncs, TableOrder
<1> QED BY <1>1, StageNat DEF Marked

\* Epochs that are over: smaller ones are over, too.
LEMMA OverDown ==
  ASSUME NodeOK, DataOK, NEW g \in Group, NEW x \in Nat, NEW y, x <= y, Over(y, g, mode, lastEpoch, barriers[g], actor, epoch)
  PROVE  Over(x, g, mode, lastEpoch, barriers[g], actor, epoch)
<1>1. y \in Nat /\ lastEpoch[g] \in Nat
  BY QueueFacts DEF Over
<1>2. \A k \in DOMAIN barriers[g] : barriers[g][k].curr \in Nat /\ barriers[g][k].prev \in Nat
  BY QueueFacts
<1>3. \A i \in Instance : Live(actor[i]) => epoch[i].curr \in Nat
  BY LiveActor
<1>4. x <= lastEpoch[g] /\ (mode[g] = "running" => x < lastEpoch[g])
  BY <1>1 DEF Over
<1>5. ASSUME NEW k \in DOMAIN barriers[g]
      PROVE  x < barriers[g][k].curr /\ (barriers[g][k].kind = "checkpoint" => x < barriers[g][k].prev)
  <2>1. y < barriers[g][k].curr /\ (barriers[g][k].kind = "checkpoint" => y < barriers[g][k].prev)
    BY DEF Over
  <2>2. barriers[g][k].curr \in Nat /\ barriers[g][k].prev \in Nat
    BY <1>2
  <2> QED BY <1>1, <2>1, <2>2
<1>6. ASSUME NEW i \in Instance, Live(actor[i]), GroupOf[i] = g PROVE x < epoch[i].curr
  <2>1. y < epoch[i].curr /\ epoch[i].curr \in Nat
    BY <1>3, <1>6 DEF Over
  <2> QED BY <1>1, <2>1
<1> QED BY <1>4, <1>5, <1>6 DEF Over

\* In a running database every marked epoch is over.
LEMMA MarkedOver ==
  ASSUME NodeOK, DataOK, OrderOK, NEW g \in Group, NEW x, Marked(x, g, tableData, version, answers, syncing),
         mode[g] = "running"
  PROVE  Over(x, g, mode, lastEpoch, barriers[g], actor, epoch)
<1>1. x \in Nat
  BY MarkedNat
<1>2. CASE x = version.epoch[g] \/ HasStage(g, x, answers, syncing)
  BY <1>2, StageNat
<1>3. ASSUME NEW t \in DOMAIN tableData, t \in TablesOf[g], x = tableData[t].synced
      PROVE  Over(x, g, mode, lastEpoch, barriers[g], actor, epoch)
  <2>1. Reached(x, g, version, answers, syncing)
    BY <1>3, OrderParts DEF SyncedReached
  <2>2. PICK y : x <= y /\ Over(y, g, mode, lastEpoch, barriers[g], actor, epoch)
    BY <2>1, StageNat DEF Reached
  <2> QED BY <1>1, <2>2, OverDown
<1> QED BY <1>2, <1>3 DEF Marked

\* The node keeps no marks of a database that has been reset.
LEMMA MarkedLast ==
  ASSUME NodeOK, DataOK, OrderOK, NEW g \in Group, NEW x, Marked(x, g, tableData, version, answers, syncing),
         mode[g] # "suspended"
  PROVE  x \in Nat /\ x <= lastEpoch[g]
<1>1. x \in Nat
  BY MarkedNat
<1>2. CASE mode[g] = "running"
  BY <1>1, <1>2, MarkedOver DEF Over
<1>3. CASE mode[g] = "cleared"
  <2>1. \A t \in DOMAIN tableData : t \notin TablesOf[g]
    BY <1>3, OrderParts, OneGroup DEF Homes
  <2>2. x = version.epoch[g] \/ HasStage(g, x, answers, syncing)
    BY <2>1 DEF Marked
  <2> QED BY <1>1, <2>2, StageNat DEF Over
<1>4. mode[g] \in {"running", "suspended", "cleared"}
  BY Parts DEF Types
<1> QED BY <1>2, <1>3, <1>4

\* The stages of database g stay, or are in the version.
StagesStay(g, vs, ans, sy, vs2, ans2, sy2) ==
  /\ vs.epoch[g] \in Nat /\ vs2.epoch[g] \in Nat /\ vs.epoch[g] <= vs2.epoch[g]
  /\ \A e : HasStage(g, e, ans, sy) => e \in Nat /\ (HasStage(g, e, ans2, sy2) \/ e <= vs2.epoch[g])

\* What is committed or will be stays so while stages stay or are committed.
LEMMA ReachedStays ==
  ASSUME NEW g, NEW vs, NEW ans, NEW sy, NEW vs2, NEW ans2, NEW sy2, StagesStay(g, vs, ans, sy, vs2, ans2, sy2),
         NEW x \in Nat, Reached(x, g, vs, ans, sy)
  PROVE  Reached(x, g, vs2, ans2, sy2)
<1>1. vs.epoch[g] \in Nat /\ vs2.epoch[g] \in Nat /\ vs.epoch[g] <= vs2.epoch[g]
  BY DEF StagesStay
<1>2. CASE x <= vs.epoch[g]
  BY <1>1, <1>2 DEF Reached
<1>3. ASSUME NEW e, HasStage(g, e, ans, sy), x <= e PROVE Reached(x, g, vs2, ans2, sy2)
  <2>1. e \in Nat /\ (HasStage(g, e, ans2, sy2) \/ e <= vs2.epoch[g])
    BY <1>3 DEF StagesStay
  <2>2. CASE HasStage(g, e, ans2, sy2)
    BY <1>3, <2>2 DEF Reached
  <2>3. CASE e <= vs2.epoch[g]
    BY <1>1, <1>3, <2>1, <2>3 DEF Reached
  <2> QED BY <2>1, <2>2, <2>3
<1> QED BY <1>2, <1>3 DEF Reached

-----------------------------------------------------------------------------
\* The order and the steps of actors

SameMarks(td, td2) ==
  DOMAIN td2 = DOMAIN td /\ \A t \in DOMAIN td : td2[t].syncing = td[t].syncing /\ td2[t].synced = td[t].synced

\* Steps that leave the syncs of the tables alone.
LEMMA SyncsSame ==
  ASSUME NEW td, NEW td2, NEW sy, SameMarks(td, td2), Syncs(td, sy)
  PROVE  Syncs(td2, sy)
<1>1. ASSUME NEW t \in DOMAIN td2 PROVE TableOrder(td2[t]) /\ SyncsMatch(t, td2[t], sy)
  <2>1. t \in DOMAIN td /\ td2[t].syncing = td[t].syncing /\ td2[t].synced = td[t].synced
    BY DEF SameMarks
  <2>2. TableOrder(td[t]) /\ SyncsMatch(t, td[t], sy)
    BY <2>1 DEF Syncs
  <2>3. TableOrder(td2[t])
    BY <2>1, <2>2 DEF TableOrder
  <2>4. SyncsMatch(t, td2[t], sy)
    BY <2>1, <2>2 DEF SyncsMatch
  <2> QED BY <2>3, <2>4
<1> QED BY <1>1 DEF Syncs, SameMarks

\* Barriers that only their collection changes.
SameStops(br, br2) ==
  \A g \in Group : /\ DOMAIN br2[g] = DOMAIN br[g]
                   /\ \A k \in DOMAIN br[g] :
                        /\ br2[g][k].prev = br[g][k].prev /\ br2[g][k].curr = br[g][k].curr
                        /\ br2[g][k].kind = br[g][k].kind /\ br2[g][k].stop = br[g][k].stop
                        /\ br2[g][k].sync = br[g][k].sync

\* Collecting a barrier changes only which actors remain.
LEMMA CollectedStops ==
  ASSUME NodeOK, NEW i, CollectedBy(barriers, barriers', i)
  PROVE  SameStops(barriers, barriers')
<1>1. Chain(barriers, lastEpoch, mode)
  BY Parts
<1>2. \A g \in Group : SameBarriers(barriers[g], barriers'[g])
  BY <1>1, CollectedSame
<1> SUFFICES ASSUME NEW g \in Group
             PROVE  /\ DOMAIN barriers'[g] = DOMAIN barriers[g]
                    /\ \A k \in DOMAIN barriers[g] :
                         /\ barriers'[g][k].prev = barriers[g][k].prev /\ barriers'[g][k].curr = barriers[g][k].curr
                         /\ barriers'[g][k].kind = barriers[g][k].kind /\ barriers'[g][k].stop = barriers[g][k].stop
                         /\ barriers'[g][k].sync = barriers[g][k].sync
  BY DEF SameStops
<1> DEFINE q == barriers[g]
           q2 == barriers'[g]
<1>3. SameBarriers(q, q2) /\ \A k \in DOMAIN q : BarrierShape(q[k])
  BY <1>1, <1>2 DEF Chain, ChainOf
<1> HIDE DEF q, q2
<1>4. DOMAIN q2 = DOMAIN q
  BY <1>3 DEF SameBarriers
<1>5. \A k \in DOMAIN q : /\ q2[k].prev = q[k].prev /\ q2[k].curr = q[k].curr /\ q2[k].kind = q[k].kind
                          /\ q2[k].stop = q[k].stop /\ q2[k].sync = q[k].sync
  BY <1>3, SameFields
<1> QED BY <1>4, <1>5 DEF q, q2

\* Actors stop at the same barriers then, ...
LEMMA StopsCollected ==
  ASSUME NEW br, NEW br2, SameStops(br, br2), Stops(br)
  PROVE  Stops(br2)
BY DEF SameStops, Stops

\* ... an instance still finds the barrier that stops its actor, ...
LEMMA StopCollected ==
  ASSUME NEW br, NEW br2, SameStops(br, br2), NEW g \in Group, NEW i, NEW d, StopOf(i, d, br[g])
  PROVE  StopOf(i, d, br2[g])
BY DEF SameStops, StopOf

\* ... and is in order as before.
LEMMA InstCollected ==
  ASSUME NEW br, NEW br2, SameStops(br, br2), NEW i, NEW d, NEW md, NEW ac, NEW ac2, ac2[i] = ac[i],
         InstOrder(i, d, md, br, ac)
  PROVE  InstOrder(i, d, md, br2, ac2)
BY StopCollected DEF InstOrder

\* The instance of actor i after a step of the actor.
InstMoves(i) ==
  i \in DOMAIN instData' =>
    /\ \/ i \in DOMAIN instData /\ instData'[i].current.epoch = instData[i].current.epoch
       \/ instData'[i].current.epoch \in Nat /\ epoch[i].curr <= instData'[i].current.epoch
    /\ InstOrder(i, instData'[i], mode, barriers, actor')

OthersRest(i) ==
  \A j \in DOMAIN instData' : j # i => j \in DOMAIN instData /\ instData'[j] = instData[j] /\ actor'[j] = actor[j]

\* A step of one actor: its instance may move on, everything else stays.
LEMMA ActorOrder ==
  ASSUME NodeOK, DataOK, OrderOK, NEW i \in Instance, Live(actor[i]), CollectedBy(barriers, barriers', i),
         SameMarks(tableData, tableData'), OthersRest(i), InstMoves(i),
         UNCHANGED <<unsyncEpochs, syncing, answers, mode, version, recent, notified>>
  PROVE  OrderOK'
<1>1. SameStops(barriers, barriers')
  BY CollectedStops
<1>2. Syncs(tableData', syncing')
  BY OrderParts, SyncsSame
<1>3. Homes(mode', tableData')
  BY OrderParts DEF Homes, SameMarks
<1>4. Versions(notified', recent', version')
  BY OrderParts
<1>5. SyncedReached(mode', tableData', version', answers', syncing')
  BY OrderParts DEF SyncedReached, SameMarks
<1>6. Stops(barriers')
  BY <1>1, OrderParts, StopsCollected
<1>7. Marks(tableData', version', answers', syncing', unsyncEpochs', instData')
  <2> SUFFICES ASSUME NEW g \in Group, NEW x, Marked(x, g, tableData', version', answers', syncing')
               PROVE  Low(x, g, unsyncEpochs', instData')
    BY MarksAre
  <2>1. Marked(x, g, tableData, version, answers, syncing)
    BY DEF Marked, SameMarks
  <2>2. Low(x, g, unsyncEpochs, instData)
    BY <2>1, OrderParts, MarksAre
  <2>3. ASSUME NEW j \in DOMAIN instData', TableOf[j] \in TablesOf[g] PROVE x < instData'[j].current.epoch
    <3>1. CASE j # i
      BY <2>2, <2>3, <3>1 DEF OthersRest, Low
    <3>2. CASE i \in DOMAIN instData /\ instData'[i].current.epoch = instData[i].current.epoch /\ j = i
      BY <2>2, <2>3, <3>2 DEF Low
    <3>3. CASE instData'[i].current.epoch \in Nat /\ epoch[i].curr <= instData'[i].current.epoch /\ j = i
      <4>1. GroupOf[i] = g
        BY <2>3, <3>3, GroupIs
      <4>2. mode[g] = "running" /\ epoch[i].curr \in Nat
        BY <4>1, LiveActor
      <4>3. Over(x, g, mode, lastEpoch, barriers[g], actor, epoch)
        BY <2>1, <4>2, MarkedOver
      <4>4. x < epoch[i].curr /\ x \in Nat
        BY <4>1, <4>3 DEF Over
      <4> QED BY <3>3, <4>2, <4>4
    <3> QED BY <2>3, <3>1, <3>2, <3>3 DEF InstMoves
  <2> QED BY <2>2, <2>3 DEF Low
<1>8. ASSUME NEW j \in DOMAIN instData' PROVE InstOrder(j, instData'[j], mode', barriers', actor')
  <2>1. CASE j = i
    BY <1>1, <2>1, InstCollected DEF InstMoves
  <2>2. CASE j # i
    <3>1. j \in DOMAIN instData /\ instData'[j] = instData[j] /\ actor'[j] = actor[j]
      BY <2>2 DEF OthersRest
    <3>2. InstOrder(j, instData[j], mode, barriers, actor)
      BY <3>1, OrderParts
    <3> QED BY <1>1, <3>1, <3>2, InstCollected
  <2> QED BY <2>1, <2>2
<1> QED BY <1>2, <1>3, <1>4, <1>5, <1>6, <1>7, <1>8 DEF OrderOK

\* The actors that are built, and their instances.
LEMMA BuildOrder ==
  ASSUME NodeOK, DataOK, OrderOK, NEW i \in Instance, Build(i)
  PROVE  OrderOK'
<1>1. Live(actor[i]) /\ CollectedBy(barriers, barriers', i)
  BY CollectStep DEF Build, Live
<1>2. i \notin DOMAIN instData
  BY DataParts DEF Build, Instances, InstanceOf
<1>3. instData' = instData /\ tableData' = tableData
  BY DEF Build, uploaderVars
<1>4. actor \in [Instance -> ActorState] /\ \A j \in DOMAIN instData : j \in Instance
  BY DataParts DEF Actors, Instances
<1>5. OthersRest(i) /\ InstMoves(i)
  BY <1>2, <1>3, <1>4 DEF OthersRest, InstMoves, Build
<1>6. SameMarks(tableData, tableData')
  BY <1>3 DEF SameMarks
<1>7. UNCHANGED <<unsyncEpochs, syncing, answers, mode, version, recent, notified>>
  BY DEF Build, uploaderVars
<1> QED BY <1>1, <1>5, <1>6, <1>7, ActorOrder

\* An instance that is new has sealed nothing.
LEMMA NewOrder ==
  ASSUME NEW i, NEW e \in Nat, NEW md, NEW br, NEW ac, ac[i] = "running"
  PROVE  NewInstance(e).current.epoch = e /\ InstOrder(i, NewInstance(e), md, br, ac)
<1>1. NewInstance(e).current = EpochData(e) /\ NewInstance(e).sealed = <<>>
  BY DEF NewInstance
<1>2. EpochData(e).epoch = e
  BY EmptyEpoch
<1>3. DOMAIN NewInstance(e).sealed = {}
  BY <1>1, EmptySeq
<1> QED BY <1>1, <1>2, <1>3 DEF InstOrder

\* The state store of an actor is initialised.
LEMMA InitStoreOrder ==
  ASSUME NodeOK, DataOK, OrderOK, NEW i \in Instance, InitStore(i)
  PROVE  OrderOK'
<1>1. Live(actor[i]) /\ epoch[i].curr \in Nat
  BY LiveActor DEF InitStore, Live
<1>2. CollectedBy(barriers, barriers', i)
  BY CollectNothing DEF InitStore
<1>3. actor \in [Instance -> ActorState] /\ \A j \in DOMAIN instData : j \in Instance
  BY DataParts DEF Actors, Instances
<1>4. actor'[i] = "running" /\ \A j \in Instance : j # i => actor'[j] = actor[j]
  BY <1>3 DEF InitStore
<1>5. i \notin DOMAIN instData
  BY DataParts DEF InitStore, Instances, InstanceOf
<1>6. \/ instData' = instData
      \/ /\ DOMAIN instData' = DOMAIN instData \cup {i} /\ instData'[i] = NewInstance(epoch[i].curr)
         /\ \A j \in DOMAIN instData : j # i => instData'[j] = instData[j]
  BY DEF InitStore, InitInstance
<1>7. OthersRest(i)
  BY <1>3, <1>4, <1>6 DEF OthersRest
<1>8. InstMoves(i)
  <2>1. NewInstance(epoch[i].curr).current.epoch = epoch[i].curr
        /\ InstOrder(i, NewInstance(epoch[i].curr), mode, barriers, actor')
    BY <1>1, <1>4, NewOrder
  <2>2. epoch[i].curr <= epoch[i].curr
    BY <1>1
  <2> QED BY <1>1, <1>5, <1>6, <2>1, <2>2 DEF InstMoves
<1>9. SameMarks(tableData, tableData')
  BY DEF InitStore, InitInstance, SameMarks
<1>10. UNCHANGED <<unsyncEpochs, syncing, answers, mode, version, recent, notified>>
  BY DEF InitStore, InitInstance
<1> QED BY <1>1, <1>2, <1>7, <1>8, <1>9, <1>10, ActorOrder

\* The fields of an instance.
LEMMA InstGives ==
  ASSUME NEW d, NEW c, NEW s, NEW f, NEW x, d = InstOf(c, s, f, x)
  PROVE  d.current = c /\ d.sealed = s /\ d.destroyed = x
BY DEF InstOf

\* What seal_current_epoch, a new imm and a spill do to the sealed epochs of an instance.
LEMMA SealedAfter ==
  ASSUME NEW d, InstShape(d), NEW next \in Nat, NEW d2, d2 = SealInstance(d, next)
  PROVE  /\ d2.current.epoch = next
         /\ \A k \in DOMAIN d2.sealed : \/ d2.sealed[k] = d.current /\ d.current.imms # <<>>
                                        \/ \E j \in DOMAIN d.sealed : d2.sealed[k] = d.sealed[j]
<1> DEFINE s2 == IF d.current.imms = <<>> THEN d.sealed ELSE <<d.current>> \o d.sealed
           c2 == EpochData(next)
<1>1. d2 = WithSealed(WithCurrent(d, c2), s2)
  BY DEF SealInstance, WithCurrent, WithSealed
<1>2. d = InstOf(d.current, d.sealed, d.flushing, d.destroyed) /\ IsSeq(d.sealed)
  BY InstFields DEF PartsOK
<1>3. \A k \in DOMAIN s2 : \/ s2[k] = d.current /\ d.current.imms # <<>>
                           \/ \E j \in DOMAIN d.sealed : s2[k] = d.sealed[j]
  <2>1. CASE d.current.imms = <<>>
    BY <2>1
  <2>2. CASE d.current.imms # <<>>
    <3>1. Before(d.current, d.sealed, s2)
      BY <2>2 DEF Before
    <3> HIDE DEF s2
    <3>2. \A k \in DOMAIN s2 : (k = 1 /\ s2[k] = d.current) \/ (k - 1 \in DOMAIN d.sealed /\ s2[k] = d.sealed[k - 1] /\ k \in Nat)
      BY <1>2, <3>1, PutFirst
    <3> QED BY <2>2, <3>2
  <2> QED BY <2>1, <2>2
<1>4. c2.epoch = next
  BY EmptyEpoch
<1> HIDE DEF s2, c2
<1>5. d2 = InstOf(c2, s2, d.flushing, d.destroyed)
  BY <1>1, <1>2, InstRebuilt
<1>6. d2.current = c2 /\ d2.sealed = s2
  BY <1>5, InstGives
<1> QED BY <1>3, <1>4, <1>6

\* A flush goes to the current epoch.
LEMMA SealedAdded ==
  ASSUME NEW d, InstShape(d), NEW imm, NEW d2, d2 = AddedTo(d, imm)
  PROVE  d2.sealed = d.sealed
<1>1. d2 = WithCurrent(d, [d.current EXCEPT !.imms = <<imm>> \o @])
  BY DEF AddedTo, WithCurrent
<1> DEFINE c2 == [d.current EXCEPT !.imms = <<imm>> \o @]
<1>2. d2 = WithCurrent(d, c2)
  BY <1>1
<1> HIDE DEF c2
<1>3. d2 = InstOf(c2, d.sealed, d.flushing, d.destroyed)
  BY <1>2, InstFields, InstReplaced
<1> QED BY <1>3, InstGives

\* A spill takes away and adds nothing.
LEMMA SealedSpilled ==
  ASSUME NEW d, InstShape(d), NEW d2, d2 = SpillInstance(d)
  PROVE  \A k \in DOMAIN d2.sealed : \E j \in DOMAIN d.sealed : d2.sealed[k] = d.sealed[j]
<1> DEFINE s == d.sealed
           s2 == IF s # <<>> THEN Front(s) ELSE s
           c2 == IF s # <<>> THEN d.current ELSE EpochData(d.current.epoch)
           f2 == Ids(Spillable(d).imms) \o d.flushing
<1>1. d2 = WithFlushing(WithCurrent(WithSealed(d, s2), c2), f2)
  BY DEF SpillInstance, WithCurrent, WithSealed, WithFlushing
<1>2. d = InstOf(d.current, s, d.flushing, d.destroyed) /\ IsSeq(s)
  BY InstFields DEF PartsOK
<1>3. \A k \in DOMAIN s2 : \E j \in DOMAIN s : s2[k] = s[j]
  <2>1. CASE s # <<>>
    BY <1>2, <2>1, SeqFront
  <2>2. CASE s = <<>>
    BY <2>2
  <2> QED BY <2>1, <2>2
<1> HIDE DEF s2, c2, f2
<1>4. d2 = InstOf(c2, s2, f2, d.destroyed)
  BY <1>1, <1>2, InstRebuilt
<1>5. d2.sealed = s2
  BY <1>4, InstGives
<1> QED BY <1>3, <1>5

StoppedAt(x, c) == [x EXCEPT !.stopped = c]

\* Fields of tables that change with neither a spill nor a sync.
LEMMA NotedMarks ==
  ASSUME NEW x, TableShape(x), NEW c, NEW y, y = StoppedAt(x, c)
  PROVE  y.syncing = x.syncing /\ y.synced = x.synced
BY DEF TableShape, StoppedAt

\* A destroyed instance keeps its data.
LEMMA InstDestroyed ==
  ASSUME NEW d, InstShape(d), NEW d2, d2 = WithDestroyed(d, TRUE)
  PROVE  d2.current = d.current /\ d2.sealed = d.sealed /\ d2.destroyed
<1>1. d2.current = d.current /\ d2.sealed = d.sealed
  <2>1. TRUE \in BOOLEAN
    OBVIOUS
  <2> QED BY <2>1, InstMarked
<1>2. "destroyed" \in DOMAIN d
  BY DEF InstShape
<1>3. d2.destroyed
  BY <1>2 DEF WithDestroyed
<1> QED BY <1>1, <1>3

\* The instance d of actor i, sealed at barrier b of database g.
LEMMA SealOrder ==
  ASSUME NodeOK, DataOK, OrderOK, NEW i \in Instance, Seal(i)
  PROVE  OrderOK'
<1>1. PICK b \in NextBarriers(i) :
        /\ LocalSealEpoch(i, b.curr)
        /\ epoch' = [epoch EXCEPT ![i] = [prev |-> b.prev, curr |-> b.curr]]
        /\ actor' = [actor EXCEPT ![i] = IF i \in b.stop THEN "stopping" ELSE @]
        /\ IF CollectsAtSeal(i, b) THEN Collect(i, b) ELSE UNCHANGED barriers
  BY DEF Seal
<1>2. /\ actor[i] = "running" /\ Live(actor[i])
      /\ UNCHANGED <<unsyncEpochs, syncing, answers, mode, version, recent, notified>>
      /\ instData' = IF working THEN Put(instData, i, SealInstance(instData[i], b.curr)) ELSE instData
  BY <1>1 DEF Seal, LocalSealEpoch, Live, Put
<1> DEFINE g == GroupOf[i]
           q == barriers[g]
<1>3. PICK m \in DOMAIN q : q[m] = b /\ i \in b.remaining /\ b.prev = epoch[i].curr
  BY <1>2, NextIs
<1>4. g \in Group /\ epoch[i].curr \in Nat
  BY <1>2, LiveActor
<1>5. b.curr \in Nat /\ b.prev \in Nat /\ b.prev < b.curr
  BY <1>3, <1>4, QueueFacts
<1>6. CollectedBy(barriers, barriers', i)
  BY <1>1, CollectStep, CollectNothing
<1>7. /\ actor'[i] = (IF i \in b.stop THEN "stopping" ELSE "running")
      /\ \A j \in Instance : j # i => actor'[j] = actor[j]
  <2>1. actor \in [Instance -> ActorState]
    BY DataParts DEF Actors
  <2> QED BY <1>1, <1>2, <2>1
<1>8. SameMarks(tableData, tableData')
  <2> DEFINE x == IF tableData[TableOf[i]].stopped = 0 THEN b.curr ELSE tableData[TableOf[i]].stopped
  <2>1. tableData' = tableData \/ tableData' = [tableData EXCEPT ![TableOf[i]] = [tableData[TableOf[i]] EXCEPT !.stopped = x]]
    BY <1>1 DEF LocalSealEpoch
  <2> HIDE DEF x
  <2>2. DOMAIN tableData' = DOMAIN tableData
    BY <2>1
  <2>3. \A t \in DOMAIN tableData : tableData'[t] = tableData[t] \/ tableData'[t] = StoppedAt(tableData[t], x)
    BY <2>1 DEF StoppedAt
  <2>4. \A t \in DOMAIN tableData : TableShape(tableData[t])
    BY Parts DEF UploaderOK, Shapes
  <2>5. \A t \in DOMAIN tableData : tableData'[t].syncing = tableData[t].syncing /\ tableData'[t].synced = tableData[t].synced
    BY <2>3, <2>4, NotedMarks
  <2> QED BY <2>2, <2>5 DEF SameMarks
<1>9. \A j \in DOMAIN instData : j \in Instance
  BY DataParts DEF Instances
<1> HIDE DEF g, q
<1>10. OthersRest(i)
  BY <1>2, <1>7, <1>9 DEF OthersRest, Put
<1>11. InstMoves(i)
  <2>1. CASE i \notin DOMAIN instData'
    BY <2>1 DEF InstMoves
  <2>2. CASE i \in DOMAIN instData'
    <3>1. working
      <4>1. ~working => instData = Empty
        BY Parts DEF Idle
      <4>2. DOMAIN Empty = {}
        BY DEF Empty
      <4> QED BY <1>2, <2>2, <4>1, <4>2
    <3> DEFINE d == instData[i]
               d2 == SealInstance(d, b.curr)
    <3>2. i \in DOMAIN instData /\ instData'[i] = d2
      BY <1>2, <2>2, <3>1 DEF Put
    <3>3. InstShape(d) /\ d.current.epoch = epoch[i].curr
      BY <1>2, <3>2, DataParts DEF Instances, InstanceOf
    <3>4. /\ \A k \in DOMAIN d.sealed : d.sealed[k].imms # <<>>
          /\ \A k \in DOMAIN d.sealed : d.sealed[k].epoch <= epoch[i].curr /\ d.sealed[k].epoch \in Nat
      <4>1. InstOrder(i, d, mode, barriers, actor)
        BY <3>2, OrderParts
      <4>2. \A k \in DOMAIN d.sealed : d.sealed[k].epoch \in Nat
        BY <3>3 DEF InstShape, EpochShape
      <4> QED BY <1>2, <3>3, <4>1, <4>2 DEF InstOrder
    <3>5. /\ d2.current.epoch = b.curr
          /\ \A k \in DOMAIN d2.sealed : \/ d2.sealed[k] = d.current /\ d.current.imms # <<>>
                                         \/ \E j \in DOMAIN d.sealed : d2.sealed[k] = d.sealed[j]
      <4> HIDE DEF d
      <4> QED BY <1>5, <3>3, SealedAfter
    <3> HIDE DEF d, d2
    <3>6. \A k \in DOMAIN d2.sealed : d2.sealed[k].imms # <<>> /\ d2.sealed[k].epoch <= b.prev /\ d2.sealed[k].epoch \in Nat
      <4>1. epoch[i].curr <= epoch[i].curr
        BY <1>4
      <4> QED BY <1>3, <1>4, <3>3, <3>4, <3>5, <4>1
    <3>7. \A k \in DOMAIN d2.sealed : d2.sealed[k].epoch <= d2.current.epoch
      BY <1>5, <3>5, <3>6
    <3>8. ASSUME i \in b.stop PROVE StopOf(i, d2, q)
      BY <1>3, <3>5, <3>6, <3>8 DEF StopOf
    <3>9. \A h \in Group : TableOf[i] \in TablesOf[h] => barriers[h] = q
      BY GroupIs DEF g, q
    <3>10. InstOrder(i, d2, mode, barriers, actor')
      BY <1>7, <3>6, <3>7, <3>8, <3>9 DEF InstOrder
    <3>11. epoch[i].curr <= d2.current.epoch
      BY <1>3, <1>5, <3>5
    <3> QED BY <1>5, <3>2, <3>5, <3>10, <3>11 DEF InstMoves
  <2> QED BY <2>1, <2>2
<1> QED BY <1>2, <1>6, <1>8, <1>10, <1>11, ActorOrder

\* An instance that is destroyed keeps its data.
LEMMA DropOrder ==
  ASSUME NodeOK, DataOK, OrderOK, NEW i \in Instance, DropStream(i)
  PROVE  OrderOK'
<1>1. /\ actor[i] = "stopping" /\ Live(actor[i]) /\ actor' = Put(actor, i, "none")
      /\ UNCHANGED <<unsyncEpochs, syncing, answers, mode, version, recent, notified, tableData>>
      /\ instData' = IF i \in DOMAIN instData THEN Put(instData, i, WithDestroyed(instData[i], TRUE)) ELSE instData
  BY DEF DropStream, MayDestroyInstance, Put, WithDestroyed, Live
<1>2. actor'[i] = "none" /\ \A j \in Instance : j # i => actor'[j] = actor[j]
  <2>1. actor \in [Instance -> ActorState]
    BY DataParts DEF Actors
  <2> QED BY <1>1, <2>1 DEF Put
<1>3. CollectedBy(barriers, barriers', i)
  BY DropStep
<1>4. SameMarks(tableData, tableData')
  BY <1>1 DEF SameMarks
<1>5. \A j \in DOMAIN instData : j \in Instance
  BY DataParts DEF Instances
<1>6. OthersRest(i)
  BY <1>1, <1>2, <1>5 DEF OthersRest, Put
<1>7. InstMoves(i)
  <2>1. CASE i \notin DOMAIN instData
    BY <1>1, <2>1 DEF InstMoves
  <2>2. CASE i \in DOMAIN instData
    <3> DEFINE d == instData[i]
               d2 == WithDestroyed(d, TRUE)
    <3>1. instData'[i] = d2
      BY <1>1, <2>2 DEF Put
    <3>2. InstShape(d)
      BY <2>2, DataParts DEF Instances
    <3>3. InstOrder(i, d, mode, barriers, actor)
      BY <2>2, OrderParts
    <3>4. d2.current = d.current /\ d2.sealed = d.sealed /\ d2.destroyed
      <4> HIDE DEF d
      <4> QED BY <3>2, InstDestroyed
    <3> HIDE DEF d, d2
    <3>5. \A q : StopOf(i, d, q) => StopOf(i, d2, q)
      BY <3>4 DEF StopOf
    <3>6. InstOrder(i, d2, mode, barriers, actor')
      BY <1>1, <1>2, <3>3, <3>4, <3>5 DEF InstOrder
    <3> QED BY <2>2, <3>1, <3>4, <3>6 DEF InstMoves, d
  <2> QED BY <2>1, <2>2
<1> QED BY <1>1, <1>3, <1>4, <1>6, <1>7, ActorOrder

\* An actor writes.
LEMMA FlushOrder ==
  ASSUME NodeOK, DataOK, OrderOK, NEW i \in Instance, Flush(i)
  PROVE  OrderOK'
<1> DEFINE imm == [id |-> nextImm, epoch |-> epoch[i].curr]
<1>1. /\ actor[i] = "running" /\ Live(actor[i])
      /\ UNCHANGED <<unsyncEpochs, syncing, answers, mode, version, recent, notified, tableData, barriers, actor>>
      /\ instData' = IF working THEN Put(instData, i, AddedTo(instData[i], imm)) ELSE instData
  BY DEF Flush, AddImm, Put, AddedTo, Live
<1>2. imm.epoch = epoch[i].curr
  OBVIOUS
<1> HIDE DEF imm
<1>3. CollectedBy(barriers, barriers', i)
  BY <1>1, CollectNothing
<1>4. SameMarks(tableData, tableData')
  BY <1>1 DEF SameMarks
<1>5. OthersRest(i)
  BY <1>1 DEF OthersRest, Put
<1>6. InstMoves(i)
  <2>1. CASE i \notin DOMAIN instData'
    BY <2>1 DEF InstMoves
  <2>2. CASE i \in DOMAIN instData'
    <3> DEFINE d == instData[i]
               d2 == instData'[i]
    <3>1. i \in DOMAIN instData /\ (d2 = AddedTo(d, imm) \/ d2 = d)
      BY <1>1, <2>2 DEF Put
    <3>2. InstShape(d) /\ d.current.epoch = imm.epoch
      BY <1>1, <1>2, <3>1, DataParts DEF Instances, InstanceOf
    <3>3. InstOrder(i, d, mode, barriers, actor')
      BY <1>1, <3>1, OrderParts
    <3> HIDE DEF d, d2
    <3>4. d2.sealed = d.sealed /\ d2.current.epoch = d.current.epoch
      BY <3>1, <3>2, SealedAdded, InstAdded
    <3>5. InstOrder(i, d2, mode, barriers, actor')
      BY <1>1, <3>3, <3>4 DEF InstOrder
    <3> QED BY <3>1, <3>4, <3>5 DEF InstMoves, d, d2
  <2> QED BY <2>1, <2>2
<1> QED BY <1>1, <1>3, <1>4, <1>5, <1>6, ActorOrder

-----------------------------------------------------------------------------
\* The order and the steps of the uploader

\* A sync of a table is a stage of the table's database.
LEMMA SyncIsStage ==
  ASSUME NEW ans, NEW sy, AnswersOK(ans, sy), NEW m \in DOMAIN sy, NEW t, t \in sy[m].tables, NEW g \in Group, t \in TablesOf[g]
  PROVE  HasStage(g, sy[m].epoch, ans, sy)
<1>1. PICK h \in Group : Of(sy[m], h)
  BY DEF AnswersOK, Grouped
<1>2. h = g
  BY <1>1, OneGroup DEF Of
<1> QED BY <1>1, <1>2 DEF HasStage

\* Instances that write the same epochs and whose sealed data gets less.
InstLike(d, d2) ==
  /\ d2.current.epoch = d.current.epoch /\ (d.destroyed => d2.destroyed)
  /\ \A k \in DOMAIN d2.sealed : \E j \in DOMAIN d.sealed : d2.sealed[k] = d.sealed[j]

InstsLike(ins, ins2) == \A i \in DOMAIN ins2 : i \in DOMAIN ins /\ InstLike(ins[i], ins2[i])

\* An instance that is like another one stops at the same barrier ...
LEMMA LikeStop ==
  ASSUME NEW i, NEW d, NEW d2, InstLike(d, d2), NEW q, StopOf(i, d, q)
  PROVE  StopOf(i, d2, q)
BY DEF InstLike, StopOf

\* ... and is in order like it.
LEMMA LikeOrder ==
  ASSUME NEW i, NEW d, NEW d2, InstLike(d, d2), NEW md, NEW br, NEW ac, InstOrder(i, d, md, br, ac)
  PROVE  InstOrder(i, d2, md, br, ac)
<1>1. /\ \A k \in DOMAIN d2.sealed : d2.sealed[k].imms # <<>>
      /\ ac[i] = "running" => \A k \in DOMAIN d2.sealed : d2.sealed[k].epoch <= d2.current.epoch
  BY DEF InstLike, InstOrder
<1>2. ASSUME ac[i] \in {"none", "stopping"}, NEW g \in Group, md[g] = "running", TableOf[i] \in TablesOf[g]
      PROVE  StopOf(i, d2, br[g]) /\ (ac[i] = "none" => d2.destroyed)
  <2>1. StopOf(i, d, br[g]) /\ (ac[i] = "none" => d.destroyed)
    BY <1>2 DEF InstOrder
  <2> QED BY <2>1, LikeStop DEF InstLike
<1> QED BY <1>1, <1>2 DEF InstOrder

\* Tables that are known already, with what they had synced or the epoch of a stage.
SyncedFrom(td, td2, ans, sy) ==
  \A t \in DOMAIN td2 :
    t \in DOMAIN td /\ \A g \in Group : t \in TablesOf[g] => td2[t].synced = td[t].synced \/ HasStage(g, td2[t].synced, ans, sy)

SameStageEpochs(ans, sy, ans2, sy2) == \A g, e : HasStage(g, e, ans2, sy2) <=> HasStage(g, e, ans, sy)

\* A step of the uploader that keeps the stages and the instances.
LEMMA UploaderOrder ==
  ASSUME NodeOK, DataOK, OrderOK, InstsLike(instData, instData'), SameStageEpochs(answers, syncing, answers', syncing'),
         Syncs(tableData', syncing'), SyncedFrom(tableData, tableData', answers, syncing),
         UNCHANGED <<unsyncEpochs, mode, barriers, actor, version, recent, notified>>
  PROVE  OrderOK'
<1>1. Homes(mode', tableData')
  BY OrderParts DEF Homes, SyncedFrom
<1>2. Versions(notified', recent', version') /\ Stops(barriers')
  BY OrderParts
<1>3. ASSUME NEW g \in Group, mode[g] = "running", NEW t \in DOMAIN tableData', t \in TablesOf[g]
      PROVE  Reached(tableData'[t].synced, g, version, answers', syncing')
  <2>1. CASE tableData'[t].synced = tableData[t].synced
    <3>1. Reached(tableData[t].synced, g, version, answers, syncing)
      BY <1>3, OrderParts DEF SyncedReached, SyncedFrom
    <3> QED BY <2>1, <3>1 DEF Reached, SameStageEpochs
  <2>2. CASE HasStage(g, tableData'[t].synced, answers, syncing)
    <3>1. HasStage(g, tableData'[t].synced, answers', syncing')
      BY <2>2 DEF SameStageEpochs
    <3>2. tableData'[t].synced <= tableData'[t].synced
      BY <2>2, StageNat
    <3> QED BY <3>1, <3>2 DEF Reached
  <2> QED BY <1>3, <2>1, <2>2 DEF SyncedFrom
<1>4. SyncedReached(mode', tableData', version', answers', syncing')
  BY <1>3 DEF SyncedReached
<1>5. Marks(tableData', version', answers', syncing', unsyncEpochs', instData')
  <2>1. MarksBelow(tableData, version, answers, syncing, tableData', version', answers', syncing')
    <3> SUFFICES ASSUME NEW g \in Group, NEW x, Marked(x, g, tableData', version', answers', syncing')
                 PROVE  x \in Nat /\ \E y \in Nat : Marked(y, g, tableData, version, answers, syncing) /\ x <= y
      BY DEF MarksBelow
    <3>1. Marked(x, g, tableData, version, answers, syncing)
      BY DEF Marked, SyncedFrom, SameStageEpochs
    <3>2. x \in Nat /\ x <= x
      BY <3>1, MarkedNat
    <3> QED BY <3>1, <3>2
  <2>2. LowKept(unsyncEpochs, instData, unsyncEpochs', instData')
    <3>1. FewerInsts(instData, instData')
      BY DEF InstsLike, InstLike, FewerInsts
    <3> QED BY <3>1, LowOfFewer
  <2> QED BY <2>1, <2>2, OrderParts, NodeNumbers, MarksKept
<1>6. ASSUME NEW i \in DOMAIN instData' PROVE InstOrder(i, instData'[i], mode', barriers', actor')
  <2>1. i \in DOMAIN instData /\ InstLike(instData[i], instData'[i])
    BY DEF InstsLike
  <2>2. InstOrder(i, instData[i], mode, barriers, actor)
    BY <2>1, OrderParts
  <2> QED BY <2>1, <2>2, LikeOrder
<1> QED BY <1>1, <1>2, <1>4, <1>5, <1>6 DEF OrderOK

SpilledAt(x, p) == [x EXCEPT !.spill = @ \cup {p}]

\* A spill leaves the syncs of a table alone.
LEMMA SpilledMarks ==
  ASSUME NEW x, TableShape(x), NEW p, NEW y, y = SpilledAt(x, p)
  PROVE  y.syncing = x.syncing /\ y.synced = x.synced
BY DEF TableShape, SpilledAt

\* Tables that are marked alike have synced the same.
LEMMA SameSynced ==
  ASSUME NEW td, NEW td2, SameMarks(td, td2), NEW ans, NEW sy
  PROVE  SyncedFrom(td, td2, ans, sy)
BY DEF SameMarks, SyncedFrom

\* A spilled instance, or one that is left alone.
LEMMA SpilledLike ==
  ASSUME NEW d, InstShape(d), NEW d2, d2 = d \/ d2 = SpillInstance(d)
  PROVE  InstLike(d, d2)
<1>1. d2.current.epoch = d.current.epoch /\ d2.destroyed = d.destroyed
  BY InstSpilled
<1>2. \A k \in DOMAIN d2.sealed : \E j \in DOMAIN d.sealed : d2.sealed[k] = d.sealed[j]
  BY SealedSpilled
<1> QED BY <1>1, <1>2 DEF InstLike

\* Data is spilled.
LEMMA SpillOrder ==
  ASSUME NodeOK, DataOK, OrderOK, SpillData
  PROVE  OrderOK'
<1>1. MayFlush /\ UNCHANGED <<mode, barriers, actor, version, recent, notified>>
  BY DEF SpillData, nodeVars
<1>2. UNCHANGED <<unsyncEpochs, syncing, answers>>
  BY <1>1 DEF MayFlush
<1>3. PICK u \in unsyncEpochs :
        LET S == SpillTogether(u)
            T == {TableOf[i] : i \in S}
        IN  /\ instData' = [i \in DOMAIN instData |-> IF i \in S THEN SpillInstance(instData[i]) ELSE instData[i]]
            /\ tableData' = [t \in DOMAIN tableData |->
                               IF t \in T THEN SpilledAt(tableData[t], <<u.epoch, NextTaskId>>) ELSE tableData[t]]
  BY <1>1 DEF MayFlush, SpilledAt
<1>4. SameMarks(tableData, tableData')
  <2>1. DOMAIN tableData' = DOMAIN tableData
    BY <1>3
  <2>2. \A t \in DOMAIN tableData : tableData'[t] = tableData[t] \/ tableData'[t] = SpilledAt(tableData[t], <<u.epoch, NextTaskId>>)
    BY <1>3
  <2>3. \A t \in DOMAIN tableData : TableShape(tableData[t])
    BY Parts DEF UploaderOK, Shapes
  <2> DEFINE p == <<u.epoch, NextTaskId>>
  <2> HIDE DEF p
  <2>4. \A t \in DOMAIN tableData : tableData'[t] = tableData[t] \/ tableData'[t] = SpilledAt(tableData[t], p)
    BY <2>2 DEF p
  <2> QED BY <2>1, <2>3, <2>4, SpilledMarks DEF SameMarks
<1>5. InstsLike(instData, instData')
  <2>1. \A i \in DOMAIN instData' : i \in DOMAIN instData /\ (instData'[i] = instData[i] \/ instData'[i] = SpillInstance(instData[i]))
    BY <1>3
  <2>2. ASSUME NEW i \in DOMAIN instData' PROVE InstLike(instData[i], instData'[i])
    <3> DEFINE d == instData[i]
               d2 == instData'[i]
    <3>1. (d2 = d \/ d2 = SpillInstance(d)) /\ i \in DOMAIN instData
      BY <2>1
    <3>2. InstShape(d)
      BY <3>1, DataParts DEF Instances
    <3> HIDE DEF d, d2
    <3>5. InstLike(d, d2)
      BY <3>1, <3>2, SpilledLike
    <3> QED BY <3>5 DEF d, d2
  <2> QED BY <2>1, <2>2 DEF InstsLike
<1>6. SameStageEpochs(answers, syncing, answers', syncing')
  BY <1>2 DEF SameStageEpochs
<1>7. Syncs(tableData', syncing')
  BY <1>2, <1>4, OrderParts, SyncsSame
<1> QED BY <1>1, <1>2, <1>4, <1>5, <1>6, <1>7, SameSynced, UploaderOrder

\* ack_flushed leaves the epochs of the instances alone.
LEMMA AckedLike ==
  ASSUME NodeOK, DataOK, NEW task, instData' = AckFlushed(task)
  PROVE  InstsLike(instData, instData')
<1>1. DOMAIN instData' = DOMAIN instData
  BY DEF AckFlushed
<1>2. ASSUME NEW i \in DOMAIN instData PROVE InstLike(instData[i], instData'[i])
  <2> DEFINE d == instData[i]
             d2 == instData'[i]
             v == PopBack(d.flushing, Len(task.input[i]))
  <2>1. d2 = d \/ d2 = WithFlushing(d, v)
    BY DEF AckFlushed, WithFlushing
  <2>2. InstShape(d)
    BY DataParts DEF Instances
  <2> HIDE DEF d, d2, v
  <2>3. d2 = d \/ d2 = InstOf(d.current, d.sealed, v, d.destroyed)
    BY <2>1, <2>2, InstFields, InstReplaced
  <2>4. d2.current = d.current /\ d2.sealed = d.sealed /\ d2.destroyed = d.destroyed
    BY <2>3, InstGives
  <2>5. InstLike(d, d2)
    BY <2>4 DEF InstLike
  <2> QED BY <2>5 DEF d, d2
<1> QED BY <1>1, <1>2 DEF InstsLike

\* The syncs with the same epochs and tables.
LEMMA SyncsAlike ==
  ASSUME NEW td, NEW sy, NEW sy1, DOMAIN sy1 = DOMAIN sy,
         \A k \in DOMAIN sy : sy1[k].epoch = sy[k].epoch /\ sy1[k].tables = sy[k].tables, Syncs(td, sy)
  PROVE  Syncs(td, sy1)
<1>1. ASSUME NEW t \in DOMAIN td PROVE SyncsMatch(t, td[t], sy1)
  <2>1. SyncsMatch(t, td[t], sy)
    BY DEF Syncs
  <2> QED BY <2>1 DEF SyncsMatch
<1> QED BY <1>1 DEF Syncs

\* may_notify_sync_task and the epochs the tables have synced.
LEMMA NotifiedFrom ==
  ASSUME NEW ans, NEW sy, AnswersOK(ans, sy), NEW td, NEW td2,
         \A t \in DOMAIN td2 : /\ t \in DOMAIN td
                               /\ \/ td2[t].synced = td[t].synced
                                  \/ \E m \in DOMAIN sy : t \in sy[m].tables /\ td2[t].synced = sy[m].epoch
  PROVE  SyncedFrom(td, td2, ans, sy)
<1> SUFFICES ASSUME NEW t \in DOMAIN td2, NEW g \in Group, t \in TablesOf[g]
             PROVE  td2[t].synced = td[t].synced \/ HasStage(g, td2[t].synced, ans, sy)
  BY DEF SyncedFrom
<1> QED BY SyncIsStage

\* A task is uploaded, and syncs may be answered.
LEMMA UploadOrder ==
  ASSUME NodeOK, DataOK, OrderOK, UploadedSst
  PROVE  OrderOK'
<1>1. NextUploadedSst /\ UNCHANGED <<mode, barriers, actor, version, recent, notified>>
  BY DEF UploadedSst
<1>2. UploaderOK(tasks, spilledData, syncing, tableData, unsyncEpochs) /\ AnswersOK(answers, syncing)
  BY Parts, DataParts
<1>3. /\ IsSeq(tasks) /\ tasks # <<>> /\ tasks' = Tail(tasks) /\ Head(tasks) = tasks[1]
      /\ UNCHANGED <<working, unsyncEpochs>> /\ instData' = AckFlushed(Head(tasks)) /\ working
      /\ \/ /\ Head(tasks).sync = 0
            /\ spilledData' = spilledData \cup {Head(tasks)} /\ UNCHANGED <<tableData, syncing, answers>>
            /\ \A x : IsSpill(x, tasks, spilledData) <=> IsSpill(x, tasks', spilledData')
         \/ Head(tasks).sync # 0 /\ \E sy1 : UploadStep(sy1)
  BY <1>1, <1>2, Uploads
<1>4. InstsLike(instData, instData')
  BY <1>3, AckedLike
<1>5. CASE UNCHANGED <<tableData, syncing, answers>>
  <2>1. SameMarks(tableData, tableData') /\ SameStageEpochs(answers, syncing, answers', syncing')
    BY <1>5 DEF SameMarks, SameStageEpochs
  <2>2. Syncs(tableData', syncing')
    BY <1>5, OrderParts
  <2> QED BY <1>1, <1>3, <1>4, <2>1, <2>2, SameSynced, UploaderOrder
<1>6. ASSUME NEW sy1, UploadStep(sy1) PROVE OrderOK'
  <2>1. KeepsStages(answers, answers, syncing, sy1, tasks, tasks')
    BY <1>3, <1>6, UploadStages
  <2>2. /\ UploaderOK(tasks', spilledData, sy1, tableData, unsyncEpochs) /\ MayNotifySyncTask(sy1, tableData, instData')
        /\ DOMAIN sy1 = DOMAIN syncing
        /\ \A k \in DOMAIN syncing : sy1[k].epoch = syncing[k].epoch /\ sy1[k].tables = syncing[k].tables
    BY <1>6 DEF UploadStep
  <2>3. AnswersOK(answers, sy1)
    BY <2>1 DEF KeepsStages
  <2>4. KeepsStages(answers, answers', sy1, syncing', tasks', tasks')
    BY <2>2, <2>3, NotifyingData
  <2>5. SameStageEpochs(answers, syncing, answers', syncing')
    BY <2>1, <2>4 DEF KeepsStages, SameStageEpochs
  <2>6. Syncs(tableData, sy1)
    BY <2>2, OrderParts, SyncsAlike
  <2>7. /\ Syncs(tableData', syncing')
        /\ \A t \in DOMAIN tableData' :
             /\ t \in DOMAIN tableData
             /\ \/ tableData'[t].synced = tableData[t].synced
                \/ \E m \in DOMAIN sy1 : t \in sy1[m].tables /\ tableData'[t].synced = sy1[m].epoch
    BY <2>2, <2>3, <2>6, NotifySyncs
  <2>8. SyncedFrom(tableData, tableData', answers, sy1)
    BY <2>3, <2>7, NotifiedFrom
  <2>9. SyncedFrom(tableData, tableData', answers, syncing)
    BY <2>1, <2>8 DEF SyncedFrom, KeepsStages
  <2> QED BY <1>1, <1>3, <1>4, <2>5, <2>7, <2>9, UploaderOrder
<1> QED BY <1>3, <1>5, <1>6

-----------------------------------------------------------------------------
\* The order and the versions

\* The actors and the data of the instances stay, and the tables that are known.
LEMMA VersionOrder ==
  ASSUME NodeOK, DataOK, OrderOK, UNCHANGED <<mode, barriers, actor, instData, unsyncEpochs>>,
         DOMAIN tableData' = DOMAIN tableData, Syncs(tableData', syncing'), Versions(notified', recent', version'),
         SyncedReached(mode, tableData', version', answers', syncing'),
         MarksBelow(tableData, version, answers, syncing, tableData', version', answers', syncing')
  PROVE  OrderOK'
<1>1. Homes(mode', tableData')
  BY OrderParts DEF Homes
<1>2. Stops(barriers') /\ \A i \in DOMAIN instData' : InstOrder(i, instData'[i], mode', barriers', actor')
  BY OrderParts
<1>3. LowKept(unsyncEpochs, instData, unsyncEpochs', instData')
  BY DEF LowKept
<1>4. Marks(tableData', version', answers', syncing', unsyncEpochs', instData')
  BY <1>3, OrderParts, NodeNumbers, MarksKept
<1>5. SyncedReached(mode', tableData', version', answers', syncing')
  OBVIOUS
<1> QED BY <1>1, <1>2, <1>4, <1>5 DEF OrderOK

\* Meta commits a synced epoch.
LEMMA SyncedOrder ==
  ASSUME NodeOK, DataOK, OrderOK, TakeSynced
  PROVE  OrderOK'
<1>1. PICK g \in Group : TakenBy(g)
  BY TakenIs
<1> DEFINE a == answers[1]
           r == Tail(answers)
<1>2. /\ answers' = r /\ UNCHANGED <<tableData, syncing, mode, barriers, actor, instData>>
      /\ AnswerIs(a, g) /\ answers # <<>> /\ a.ok
  BY <1>1 DEF TakenBy
<1>3. UNCHANGED <<unsyncEpochs, recent, notified>>
  BY DEF TakeSynced
<1>4. CommittedTo(g, a)
  BY <1>1, CommitMoves
<1>5. \A h, e : HasStage(h, e, answers, syncing) <=> HasStage(h, e, r, syncing) \/ Answered(a, h, e)
  BY <1>2, DataParts, AnswerTaken
<1> HIDE DEF a, r
<1>6. a.tables # {} /\ Of(a, g) /\ a.epoch \in Nat /\ version.epoch[g] \in Nat /\ version.epoch[g] < a.epoch
  BY <1>2 DEF AnswerIs
<1>7. \A h \in Group : \A e : Answered(a, h, e) => h = g /\ e = a.epoch
  BY <1>6, AnswersGroup DEF Answered
<1>8. Answered(a, g, a.epoch) /\ HasStage(g, a.epoch, answers, syncing)
  BY <1>2, <1>5, <1>6 DEF Answered
<1>9. ASSUME NEW h \in Group
      PROVE  /\ version.epoch[h] \in Nat /\ version'.epoch[h] \in Nat /\ version.epoch[h] <= version'.epoch[h]
             /\ version'.epoch[h] = version.epoch[h] \/ (h = g /\ version'.epoch[h] = a.epoch)
             /\ h = g /\ mode[g] = "running" => version'.epoch[h] = a.epoch
  <2>1. version'.epoch[h] = IF h = g /\ mode[g] = "running" THEN a.epoch ELSE version.epoch[h]
    BY <1>4 DEF CommittedTo
  <2>2. version.epoch[h] \in Nat
    BY StageNat
  <2> QED BY <1>6, <2>1, <2>2
<1>10. Versions(notified', recent', version')
  <2>1. Versions(notified, recent, version)
    BY OrderParts
  <2> SUFFICES ASSUME NEW h \in Group
               PROVE  /\ notified.epoch[h] \in Nat /\ notified.epoch[h] <= version'.epoch[h]
                      /\ recent.epoch[h] \in Nat /\ recent.epoch[h] <= version'.epoch[h]
    BY <1>3 DEF Versions
  <2>2. /\ notified.epoch[h] \in Nat /\ notified.epoch[h] <= version.epoch[h]
        /\ recent.epoch[h] \in Nat /\ recent.epoch[h] <= version.epoch[h]
    BY <2>1 DEF Versions
  <2>3. version.epoch[h] \in Nat /\ version'.epoch[h] \in Nat /\ version.epoch[h] <= version'.epoch[h]
    BY <1>9
  <2> QED BY <2>2, <2>3
<1>11. SyncedReached(mode, tableData', version', answers', syncing')
  <2> SUFFICES ASSUME NEW h \in Group, mode[h] = "running", NEW t \in DOMAIN tableData, t \in TablesOf[h]
               PROVE  Reached(tableData[t].synced, h, version', r, syncing)
    BY <1>2 DEF SyncedReached
  <2>1. StagesStay(h, version, answers, syncing, version', r, syncing)
    <3>1. ASSUME NEW e, HasStage(h, e, answers, syncing)
          PROVE  e \in Nat /\ (HasStage(h, e, r, syncing) \/ e <= version'.epoch[h])
      <4>1. e \in Nat
        BY <3>1, StageNat
      <4>2. CASE HasStage(h, e, r, syncing)
        BY <4>1, <4>2
      <4>3. CASE Answered(a, h, e)
        <5>1. h = g /\ e = a.epoch
          BY <1>7, <4>3
        <5>2. version'.epoch[h] = e
          BY <1>9, <5>1
        <5> QED BY <4>1, <5>2
      <4> QED BY <1>5, <3>1, <4>2, <4>3
    <3> QED BY <1>9, <3>1 DEF StagesStay
  <2>2. Reached(tableData[t].synced, h, version, answers, syncing)
    BY OrderParts DEF SyncedReached
  <2>3. tableData[t].synced \in Nat
    BY OrderParts DEF Syncs, TableOrder
  <2> QED BY <2>1, <2>2, <2>3, ReachedStays
<1>12. MarksBelow(tableData, version, answers, syncing, tableData', version', answers', syncing')
  <2> SUFFICES ASSUME NEW h \in Group, NEW x, Marked(x, h, tableData', version', answers', syncing')
               PROVE  x \in Nat /\ \E y \in Nat : Marked(y, h, tableData, version, answers, syncing) /\ x <= y
    BY DEF MarksBelow
  <2>1. Marked(x, h, tableData, version, answers, syncing)
    BY <1>2, <1>5, <1>8, <1>9 DEF Marked
  <2>2. x \in Nat /\ x <= x
    BY <2>1, MarkedNat
  <2> QED BY <2>1, <2>2
<1>13. Syncs(tableData', syncing') /\ DOMAIN tableData' = DOMAIN tableData
  BY <1>2, OrderParts
<1> QED BY <1>2, <1>3, <1>10, <1>11, <1>12, <1>13, VersionOrder

\* The answer of a failed sync is taken.
LEMMA SyncErrorOrder ==
  ASSUME NodeOK, DataOK, OrderOK, TakeSyncError
  PROVE  OrderOK'
<1>1. /\ answers # <<>> /\ ~Head(answers).ok /\ answers' = Tail(answers)
      /\ UNCHANGED <<instData, tableData, syncing>>
      /\ UNCHANGED <<unsyncEpochs, mode, barriers, actor, version, recent, notified>>
  BY DEF TakeSyncError
<1>2. SameStageEpochs(answers, syncing, answers', syncing')
  <2>1. /\ ~answers[1].ok
        /\ \A g, e : HasStage(g, e, answers, syncing) <=> HasStage(g, e, answers', syncing) \/ Answered(answers[1], g, e)
    BY <1>1, DataParts, AnswerTaken
  <2>2. \A g, e : ~Answered(answers[1], g, e)
    BY <2>1 DEF Answered
  <2> QED BY <1>1, <2>1, <2>2 DEF SameStageEpochs
<1>3. InstsLike(instData, instData')
  BY <1>1 DEF InstsLike, InstLike
<1>4. SameMarks(tableData, tableData')
  BY <1>1 DEF SameMarks
<1>5. Syncs(tableData', syncing')
  BY <1>1, OrderParts
<1> QED BY <1>1, <1>2, <1>3, <1>4, <1>5, SameSynced, UploaderOrder

\* The node learns of a version.
LEMMA ApplyOrder ==
  ASSUME NodeOK, DataOK, OrderOK, ApplyVersionUpdate
  PROVE  OrderOK'
<1>1. /\ recent' = version /\ UNCHANGED <<mode, barriers, actor, notified, version>>
      /\ UNCHANGED <<instData, tableData, unsyncEpochs, syncing, answers>>
  BY DEF ApplyVersionUpdate, uploaderVars
<1>2. Versions(notified', recent', version')
  <2>1. \A g \in Group : version.epoch[g] \in Nat /\ version.epoch[g] <= version.epoch[g]
    BY StageNat
  <2> QED BY <1>1, <2>1, OrderParts DEF Versions
<1>3. Syncs(tableData', syncing') /\ SyncedReached(mode, tableData', version', answers', syncing')
  BY <1>1, OrderParts
<1>4. MarksBelow(tableData, version, answers, syncing, tableData', version', answers', syncing')
  <2>1. ASSUME NEW g \in Group, NEW x, Marked(x, g, tableData, version, answers, syncing)
        PROVE  x \in Nat /\ x <= x
    BY <2>1, MarkedNat
  <2> QED BY <1>1, <2>1 DEF MarksBelow
<1> QED BY <1>1, <1>2, <1>3, <1>4, VersionOrder

\* The committed epoch of a table is that of its database.
LEMMA DatabaseEpoch ==
  ASSUME NEW v, NEW h \in Group, NEW y, y \in TablesOf[h]
  PROVE  CommittedEpochs(v)[y] = v.epoch[h]
<1> DEFINE S == UNION {TablesOf[k] : k \in Group}
           Home(x) == CHOOSE k \in Group : x \in TablesOf[k]
<1>1. CommittedEpochs(v) = [x \in S |-> v.epoch[Home(x)]]
  BY DEF CommittedEpochs
<1>2. y \in S
  OBVIOUS
<1>3. Home(y) \in Group /\ y \in TablesOf[Home(y)]
  OBVIOUS
<1>4. Home(y) = h
  <2> HIDE DEF Home
  <2> QED BY <1>3, OneGroup
<1> HIDE DEF Home, S
<1>5. ASSUME NEW c, c = [x \in S |-> v.epoch[Home(x)]] PROVE c[y] = v.epoch[h]
  BY <1>2, <1>4, <1>5
<1> QED BY <1>1, <1>5

AckedCommit(d, m) == [d EXCEPT !.synced = m]

\* ack_committed of a table.
LEMMA CommitFields ==
  ASSUME NEW d, TableShape(d), NEW m
  PROVE  AckedCommit(d, m).syncing = d.syncing /\ AckedCommit(d, m).synced = m
BY DEF TableShape, AckedCommit

\* Those who wait for the version are notified; it is older than all that the tables are syncing.
LEMMA NotifyOrder ==
  ASSUME NodeOK, DataOK, OrderOK, NotifyVersion
  PROVE  OrderOK'
<1> DEFINE c == CommittedEpochs(recent)
           m(t) == IF tableData[t].synced < c[t] THEN c[t] ELSE tableData[t].synced
<1>1. /\ notified' = recent /\ UNCHANGED <<mode, barriers, actor, recent, version>>
      /\ UNCHANGED <<instData, unsyncEpochs, syncing, answers>>
      /\ DOMAIN tableData' = DOMAIN tableData
      /\ \A t \in DOMAIN tableData : tableData'[t] = AckedCommit(tableData[t], m(t))
  BY DEF NotifyVersion, UpdatePinnedVersion, AckedCommit
<1>2. \A t \in DOMAIN tableData : TableShape(tableData[t])
  BY Parts DEF UploaderOK, Shapes
<1> HIDE DEF c
<1>3. \A t \in DOMAIN tableData :
        tableData'[t].syncing = tableData[t].syncing /\ tableData'[t].synced = m(t)
  <2> HIDE DEF m
  <2> QED BY <1>1, <1>2, CommitFields
<1>4. Versions(notified', recent', version')
  BY <1>1, OrderParts DEF Versions
<1>5. ASSUME NEW t \in DOMAIN tableData, NEW g \in Group, t \in TablesOf[g]
      PROVE  /\ tableData[t].synced \in Nat /\ tableData'[t].synced \in Nat
             /\ recent.epoch[g] \in Nat /\ recent.epoch[g] <= version.epoch[g] /\ version.epoch[g] \in Nat
             /\ tableData'[t].synced = tableData[t].synced \/ tableData'[t].synced = recent.epoch[g]
  <2>1. tableData[t].synced \in Nat
    BY OrderParts DEF Syncs, TableOrder
  <2>2. recent.epoch[g] \in Nat /\ recent.epoch[g] <= version.epoch[g]
    BY OrderParts DEF Versions
  <2>3. c[t] = recent.epoch[g]
    <3>1. CommittedEpochs(recent)[t] = recent.epoch[g]
      BY ONLY <1>5, DatabaseEpoch
    <3> QED BY <3>1 DEF c
  <2>4. version.epoch[g] \in Nat
    BY StageNat
  <2> QED BY <1>3, <2>1, <2>2, <2>3, <2>4
<1> HIDE DEF m
<1>6. ASSUME NEW t \in DOMAIN tableData
      PROVE  TableOrder(tableData'[t]) /\ SyncsMatch(t, tableData'[t], syncing)
  <2>1. TableOrder(tableData[t]) /\ SyncsMatch(t, tableData[t], syncing)
    BY OrderParts DEF Syncs
  <2>2. PICK g \in Group : t \in TablesOf[g]
    BY OrderParts DEF Homes
  <2>3. ASSUME NEW k \in DOMAIN tableData[t].syncing
        PROVE  tableData[t].syncing[k] \in Nat /\ tableData'[t].synced < tableData[t].syncing[k]
    <3>1. tableData[t].syncing[k] \in Nat /\ tableData[t].synced < tableData[t].syncing[k]
      BY <2>1 DEF TableOrder
    <3>2. PICK n \in DOMAIN syncing : t \in syncing[n].tables /\ syncing[n].epoch = tableData[t].syncing[k]
      BY <2>1 DEF SyncsMatch
    <3>3. HasStage(g, syncing[n].epoch, answers, syncing)
      BY <2>2, <3>2, DataParts, SyncIsStage
    <3>4. version.epoch[g] < tableData[t].syncing[k]
      BY <3>2, <3>3, StageNat
    <3> QED BY <1>5, <2>2, <3>1, <3>4
  <2>4. TableOrder(tableData'[t])
    BY <1>3, <1>5, <2>1, <2>2, <2>3 DEF TableOrder
  <2>5. SyncsMatch(t, tableData'[t], syncing)
    BY <1>3, <2>1 DEF SyncsMatch
  <2> QED BY <2>4, <2>5
<1>7. Syncs(tableData', syncing')
  <2>1. Syncs(tableData, syncing)
    BY OrderParts
  <2> QED BY <1>1, <1>6, <2>1 DEF Syncs
<1>8. SyncedReached(mode, tableData', version', answers', syncing')
  <2> SUFFICES ASSUME NEW g \in Group, mode[g] = "running", NEW t \in DOMAIN tableData, t \in TablesOf[g]
               PROVE  Reached(tableData'[t].synced, g, version, answers, syncing)
    BY <1>1 DEF SyncedReached
  <2>1. CASE tableData'[t].synced = tableData[t].synced
    BY <2>1, OrderParts DEF SyncedReached
  <2>2. CASE tableData'[t].synced = recent.epoch[g]
    BY <1>5, <2>2 DEF Reached
  <2> QED BY <1>5, <2>1, <2>2
<1>9. MarksBelow(tableData, version, answers, syncing, tableData', version', answers', syncing')
  <2> SUFFICES ASSUME NEW g \in Group, NEW x, Marked(x, g, tableData', version', answers', syncing')
               PROVE  x \in Nat /\ \E y \in Nat : Marked(y, g, tableData, version, answers, syncing) /\ x <= y
    BY DEF MarksBelow
  <2>1. CASE Marked(x, g, tableData, version, answers, syncing)
    <3>1. x \in Nat /\ x <= x
      BY <2>1, MarkedNat
    <3> QED BY <2>1, <3>1
  <2>2. ASSUME NEW t \in DOMAIN tableData, t \in TablesOf[g], x = recent.epoch[g]
        PROVE  x \in Nat /\ \E y \in Nat : Marked(y, g, tableData, version, answers, syncing) /\ x <= y
    <3>1. x \in Nat /\ version.epoch[g] \in Nat /\ x <= version.epoch[g]
      BY <1>5, <2>2
    <3>2. Marked(version.epoch[g], g, tableData, version, answers, syncing)
      BY DEF Marked
    <3> QED BY <3>1, <3>2
  <2>3. Marked(x, g, tableData, version, answers, syncing) \/ \E t \in DOMAIN tableData : t \in TablesOf[g] /\ x = recent.epoch[g]
    BY <1>1, <1>5 DEF Marked
  <2> QED BY <2>1, <2>2, <2>3
<1> QED BY <1>1, <1>4, <1>7, <1>8, <1>9, VersionOrder

-----------------------------------------------------------------------------
\* The order after failures and resets

\* Less is left of the data, of the stages and of the databases that run.
LessLeft ==
  /\ \A i \in DOMAIN instData' : /\ i \in DOMAIN instData /\ instData'[i] = instData[i]
                                 /\ actor'[i] = actor[i] \/ actor'[i] \in {"aborted", "dropping"}
  /\ \A t \in DOMAIN tableData' : t \in DOMAIN tableData /\ tableData'[t] = tableData[t]
  /\ unsyncEpochs' \subseteq unsyncEpochs
  /\ \A g, e : HasStage(g, e, answers', syncing') => HasStage(g, e, answers, syncing)
  /\ \A g \in Group : mode'[g] = "running" =>
       /\ mode[g] = "running" /\ barriers'[g] = barriers[g]
       /\ \A e : HasStage(g, e, answers, syncing) => HasStage(g, e, answers', syncing')
  /\ \A g \in Group : \A k \in DOMAIN barriers'[g] : barriers'[g] = barriers[g]
  /\ UNCHANGED <<version, recent, notified>>

\* The order is kept by whatever only takes something away.
LEMMA LessOrder ==
  ASSUME NodeOK, DataOK, OrderOK, LessLeft, Syncs(tableData', syncing'), Homes(mode', tableData')
  PROVE  OrderOK'
<1>1. /\ \A i \in DOMAIN instData' : /\ i \in DOMAIN instData /\ instData'[i] = instData[i]
                                     /\ actor'[i] = actor[i] \/ actor'[i] \in {"aborted", "dropping"}
      /\ \A t \in DOMAIN tableData' : t \in DOMAIN tableData /\ tableData'[t] = tableData[t]
      /\ unsyncEpochs' \subseteq unsyncEpochs
      /\ \A g, e : HasStage(g, e, answers', syncing') => HasStage(g, e, answers, syncing)
      /\ UNCHANGED <<version, recent, notified>>
  BY DEF LessLeft
<1>2. \A g \in Group : mode'[g] = "running" =>
        /\ mode[g] = "running" /\ barriers'[g] = barriers[g]
        /\ \A e : HasStage(g, e, answers, syncing) => HasStage(g, e, answers', syncing')
  BY DEF LessLeft
<1>3. \A g \in Group : \A k \in DOMAIN barriers'[g] : barriers'[g] = barriers[g]
  BY DEF LessLeft
<1>4. Versions(notified', recent', version')
  BY <1>1, OrderParts
<1>5. SyncedReached(mode', tableData', version', answers', syncing')
  <2> SUFFICES ASSUME NEW g \in Group, mode'[g] = "running", NEW t \in DOMAIN tableData', t \in TablesOf[g]
               PROVE  Reached(tableData'[t].synced, g, version', answers', syncing')
    BY DEF SyncedReached
  <2>1. Reached(tableData[t].synced, g, version, answers, syncing)
    BY <1>1, <1>2, OrderParts DEF SyncedReached
  <2> QED BY <2>1, <1>1, <1>2 DEF Reached
<1>6. Marks(tableData', version', answers', syncing', unsyncEpochs', instData')
  <2>1. MarksBelow(tableData, version, answers, syncing, tableData', version', answers', syncing')
    <3> SUFFICES ASSUME NEW g \in Group, NEW x, Marked(x, g, tableData', version', answers', syncing')
                 PROVE  x \in Nat /\ \E y \in Nat : Marked(y, g, tableData, version, answers, syncing) /\ x <= y
      BY DEF MarksBelow
    <3>1. Marked(x, g, tableData, version, answers, syncing)
      BY <1>1 DEF Marked
    <3>2. x \in Nat /\ x <= x
      BY <3>1, MarkedNat
    <3> QED BY <3>1, <3>2
  <2>2. FewerInsts(instData, instData')
    BY <1>1 DEF FewerInsts
  <2>3. LowKept(unsyncEpochs, instData, unsyncEpochs', instData')
    BY <1>1, <2>2, LowOfFewer
  <2> QED BY <2>1, <2>3, OrderParts, NodeNumbers, MarksKept
<1>7. Stops(barriers')
  <2>1. Stops(barriers)
    BY OrderParts
  <2> QED BY <2>1, <1>3 DEF Stops
<1>8. ASSUME NEW i \in DOMAIN instData' PROVE InstOrder(i, instData'[i], mode', barriers', actor')
  <2>1. InstOrder(i, instData[i], mode, barriers, actor) /\ instData'[i] = instData[i]
    BY <1>1, <1>8, OrderParts
  <2>2. CASE actor'[i] \in {"aborted", "dropping"}
    BY <2>1, <2>2 DEF InstOrder
  <2>3. CASE actor'[i] = actor[i]
    BY <2>1, <2>3, <1>2 DEF InstOrder
  <2> QED BY <2>2, <2>3, <1>1, <1>8
<1> QED BY <1>4, <1>5, <1>6, <1>7, <1>8 DEF OrderOK

\* The actors of databases are aborted.
LEMMA SuspendOrder ==
  ASSUME NodeOK, DataOK, OrderOK, NEW G, Suspend(G), \A g \in G : g \in Group => mode[g] = "running"
  PROVE  OrderOK'
<1>1. /\ UNCHANGED <<instData, tableData, unsyncEpochs, syncing, answers>>
      /\ UNCHANGED <<version, recent, notified>>
      /\ mode' = [g \in Group |-> IF g \in G THEN "suspended" ELSE mode[g]]
      /\ barriers' = [g \in Group |-> IF g \in G THEN <<>> ELSE barriers[g]]
      /\ actor' = [i \in Instance |-> IF GroupOf[i] \in G THEN AbortActor(actor[i]) ELSE actor[i]]
  BY DEF Suspend, uploaderVars
<1>2. /\ \A g \in Group : g \notin G => mode'[g] = mode[g] /\ barriers'[g] = barriers[g]
      /\ \A g \in Group : g \in G => mode'[g] = "suspended" /\ barriers'[g] = <<>>
      /\ \A i \in Instance : actor'[i] = actor[i] \/ actor'[i] \in {"aborted", "dropping"}
  BY <1>1 DEF AbortActor
<1>3. DOMAIN <<>> = {}
  BY EmptySeq
<1>4. \A g \in Group : mode'[g] = "running" => mode[g] = "running" /\ barriers'[g] = barriers[g]
  BY <1>2
<1>5. \A g \in Group : \A k \in DOMAIN barriers'[g] : barriers'[g] = barriers[g]
  BY <1>2, <1>3
<1>6. \A i \in DOMAIN instData : i \in Instance
  BY DataParts DEF Instances
<1>7. LessLeft
  BY <1>1, <1>2, <1>4, <1>5, <1>6 DEF LessLeft
<1>8. Homes(mode', tableData')
  <2>1. Homes(mode, tableData)
    BY OrderParts
  <2>2. \A g \in Group : mode[g] # "cleared" => mode'[g] # "cleared"
    BY <1>2
  <2> QED BY <2>1, <2>2, <1>1 DEF Homes
<1>9. Syncs(tableData', syncing')
  BY <1>1, OrderParts
<1> QED BY <1>7, <1>8, <1>9, LessOrder

\* on_database_failure, and the abort of all databases.
LEMMA FailOrder ==
  ASSUME NodeOK, DataOK, OrderOK, (\E g \in Group : ActorFails(g) \/ NodePanics(g)) \/ AbortAll
  PROVE  OrderOK'
<1>1. ASSUME NEW g \in Group, ActorFails(g) PROVE OrderOK'
  <2>1. mode[g] = "running" /\ Suspend({g})
    BY <1>1 DEF ActorFails
  <2> QED BY <2>1, SuspendOrder
<1>2. CASE AbortAll
  <2> DEFINE G == {g \in Group : mode[g] = "running"}
  <2>1. Suspend(G) /\ \A g \in G : g \in Group => mode[g] = "running"
    BY <1>2 DEF AbortAll
  <2> HIDE DEF G
  <2> QED BY <2>1, SuspendOrder
<1>3. ASSUME NEW g \in Group, NodePanics(g) PROVE OrderOK'
  <2> DEFINE G == {h \in Group : mode[h] = "running"}
  <2>1. Suspend(G) /\ \A h \in G : h \in Group => mode[h] = "running"
    BY <1>3 DEF NodePanics
  <2> HIDE DEF G
  <2> QED BY <2>1, SuspendOrder
<1> QED BY <1>1, <1>2, <1>3

\* All data is dropped.
LEMMA EmptyOrder ==
  ASSUME OrderOK, ResetUploaderData, UNCHANGED <<version, recent, notified>>, Stops(barriers')
  PROVE  OrderOK'
<1>1. instData' = Empty /\ tableData' = Empty /\ unsyncEpochs' = {} /\ syncing' = <<>>
  BY DEF ResetUploaderData
<1>2. DOMAIN syncing' = {} /\ DOMAIN instData' = {} /\ DOMAIN tableData' = {}
  BY <1>1, EmptySeq DEF Empty
<1>3. Syncs(tableData', syncing') /\ Homes(mode', tableData')
  BY <1>2 DEF Syncs, Homes
<1>4. Versions(notified', recent', version')
  BY OrderParts
<1>5. SyncedReached(mode', tableData', version', answers', syncing')
  BY <1>2 DEF SyncedReached
<1>6. Marks(tableData', version', answers', syncing', unsyncEpochs', instData')
  BY <1>1, <1>2 DEF Marks, Low
<1> QED BY <1>2, <1>3, <1>4, <1>5, <1>6 DEF OrderOK

\* A sync fails, or the node is reset.
LEMMA DropAllOrder ==
  ASSUME OrderOK, UploadFails \/ ResetNode
  PROVE  OrderOK'
<1>1. ResetUploaderData /\ UNCHANGED <<barriers, version, recent, notified>>
  BY DEF UploadFails, SyncTaskFailed, ResetNode, ClearAll
<1>2. Stops(barriers')
  BY <1>1, OrderParts
<1> QED BY <1>1, <1>2, EmptyOrder

\* The tables of a database go, and with them its syncs.
LEMMA ClearedSyncs ==
  ASSUME NEW td, NEW td2, NEW tk, NEW tk2, NEW sp, NEW sp2, NEW sy, NEW sy2, NEW ans, NEW g \in Group, AnswersOK(ans, sy), Syncs(td, sy),
         TablesOutside(td, td2, TablesOf[g]), ClearedTo(tk, tk2, sp, sp2, sy, sy2, TablesOf[g])
  PROVE  Syncs(td2, sy2)
<1>1. \A k \in DOMAIN sy2 : sy2[k].tables \cap TablesOf[g] = {} /\ \E m \in DOMAIN sy : sy2[k] = sy[m]
  BY DEF ClearedTo
<1>2. \A m \in DOMAIN sy : sy[m].tables \cap TablesOf[g] = {} => \E k \in DOMAIN sy2 : sy2[k] = sy[m]
  BY DEF ClearedTo
<1>3. ASSUME NEW m \in DOMAIN sy, NEW t \in sy[m].tables, t \notin TablesOf[g] PROVE \E k \in DOMAIN sy2 : sy2[k] = sy[m]
  <2>1. PICK h \in Group : Of(sy[m], h)
    BY DEF AnswersOK, Grouped
  <2>2. h # g
    BY <1>3, <2>1 DEF Of
  <2>3. sy[m].tables \cap TablesOf[g] = {}
    BY <2>1, <2>2, OneGroup DEF Of
  <2> QED BY <2>3, <1>2
<1>4. ASSUME NEW t \in DOMAIN td2 PROVE TableOrder(td2[t]) /\ SyncsMatch(t, td2[t], sy2)
  <2>1. t \in DOMAIN td /\ t \notin TablesOf[g] /\ td2[t] = td[t]
    BY <1>4 DEF TablesOutside
  <2>2. TableOrder(td[t]) /\ SyncsMatch(t, td[t], sy)
    BY <2>1 DEF Syncs
  <2>3. SyncsMatch(t, td[t], sy2)
    BY <2>1, <2>2, <1>1, <1>3 DEF SyncsMatch
  <2> QED BY <2>1, <2>2, <2>3
<1>5. ASSUME NEW m \in DOMAIN sy2 PROVE sy2[m].tables \subseteq DOMAIN td2
  <2>1. sy2[m].tables \subseteq DOMAIN td /\ sy2[m].tables \cap TablesOf[g] = {}
    BY <1>1, <1>5 DEF Syncs
  <2> QED BY <2>1 DEF TablesOutside
<1> QED BY <1>4, <1>5 DEF Syncs

\* SuspendedDatabaseState::reset.
LEMMA ResetOrder ==
  ASSUME NodeOK, DataOK, OrderOK, NEW g \in Group, ResetDatabase(g)
  PROVE  OrderOK'
<1>1. /\ UNCHANGED <<barriers, version, recent, notified>>
      /\ mode[g] = "suspended" /\ ClearTables(TablesOf[g]) /\ AwaitActors({g})
  BY DEF ResetDatabase
<1>2. /\ mode'[g] = "cleared" /\ \A h \in Group : h # g => mode'[h] = mode[h]
      /\ actor' = [i \in Instance |-> IF GroupOf[i] = g THEN "none" ELSE actor[i]]
  BY <1>1 DEF AwaitActors
<1>3. /\ UNCHANGED answers /\ InstsOutside(instData, instData', TablesOf[g])
      /\ TablesOutside(tableData, tableData', TablesOf[g])
      /\ ClearedTo(tasks, tasks', spilledData, spilledData', syncing, syncing', TablesOf[g])
  BY <1>1, DatabaseCleared
<1>4. OthersStay(g, answers, syncing, syncing', tasks, tasks')
  BY <1>3, DataParts, ClearedStages
<1>5. unsyncEpochs' \subseteq unsyncEpochs
  BY <1>1 DEF ClearTables, uploaderVars
<1>6. \A t \in DOMAIN tableData' : t \in DOMAIN tableData /\ t \notin TablesOf[g] /\ tableData'[t] = tableData[t]
  BY <1>3 DEF TablesOutside
<1>7. ASSUME NEW i \in DOMAIN instData'
      PROVE  i \in DOMAIN instData /\ TableOf[i] \notin TablesOf[g] /\ instData'[i] = instData[i]
  BY <1>3, <1>7 DEF InstsOutside
<1>8. \A i \in DOMAIN instData' : i \in DOMAIN instData /\ TableOf[i] \notin TablesOf[g] /\ instData'[i] = instData[i]
  BY <1>7
<1>9. ASSUME NEW i \in DOMAIN instData' PROVE actor'[i] = actor[i]
  <2>1. i \in Instance
    BY <1>8, <1>9, DataParts DEF Instances
  <2>2. actor'[i] = IF GroupOf[i] = g THEN "none" ELSE actor[i]
    BY <1>2, <2>1
  <2>3. actor[i] # "none" => TableOf[i] \in TablesOf[GroupOf[i]]
    BY <2>1, DataParts DEF Actors
  <2> QED BY <2>2, <2>3, <1>8, <1>9
<1>10. \A h, e : HasStage(h, e, answers', syncing') => HasStage(h, e, answers, syncing)
  BY <1>3, <1>4 DEF OthersStay
<1>11. ASSUME NEW h \in Group, mode'[h] = "running"
       PROVE  /\ mode[h] = "running" /\ barriers'[h] = barriers[h]
              /\ \A e : HasStage(h, e, answers, syncing) => HasStage(h, e, answers', syncing')
  <2>1. h # g /\ mode[h] = "running"
    BY <1>2, <1>11
  <2> QED BY <2>1, <1>1, <1>3, <1>4 DEF OthersStay
<1>12. LessLeft
  BY <1>1, <1>5, <1>6, <1>8, <1>9, <1>10, <1>11 DEF LessLeft
<1>13. Homes(mode', tableData')
  <2> SUFFICES ASSUME NEW t \in DOMAIN tableData' PROVE \E h \in Group : t \in TablesOf[h] /\ mode'[h] # "cleared"
    BY DEF Homes
  <2>1. PICK h \in Group : t \in TablesOf[h] /\ mode[h] # "cleared"
    BY <1>6, OrderParts DEF Homes
  <2>2. h # g
    BY <2>1, <1>6
  <2> QED BY <2>1, <2>2, <1>2
<1>14. Syncs(tableData', syncing')
  BY <1>3, OrderParts, DataParts, ClearedSyncs
<1> QED BY <1>12, <1>13, <1>14, LessOrder

-----------------------------------------------------------------------------
\* The order when an epoch starts

\* The tables that an epoch starts are at the committed epoch or stay as they are.
StartedMarks(td, td2, T, c) ==
  /\ \A t \in DOMAIN td : t \in DOMAIN td2 /\ td2[t].syncing = td[t].syncing /\ td2[t].synced = td[t].synced
  /\ \A t \in DOMAIN td2 : t \in DOMAIN td \/ (t \in T /\ td2[t].syncing = <<>> /\ td2[t].synced = c[t])

\* The state of a table at the first epoch that it starts.
UnknownTable(m) == [unsync |-> {}, spill |-> {}, stopped |-> 0, syncing |-> <<>>, synced |-> m]

EpochAt(x, U) == [x EXCEPT !.unsync = U]

\* A new epoch leaves the syncs of a table alone.
LEMMA EpochMarks ==
  ASSUME NEW x, TableShape(x), NEW U
  PROVE  EpochAt(x, U).syncing = x.syncing /\ EpochAt(x, U).synced = x.synced
BY DEF TableShape, EpochAt

\* A table that is new has synced what the node knows to be committed.
LEMMA UnknownMarks ==
  ASSUME NEW m
  PROVE  TableShape(UnknownTable(m)) /\ UnknownTable(m).syncing = <<>> /\ UnknownTable(m).synced = m
BY DEF TableShape, UnknownTable

\* What start_epoch does to the syncs of the tables.
LEMMA EpochStartMarks ==
  ASSUME UploaderOK(tasks, spilledData, syncing, tableData, unsyncEpochs), NEW e, NEW T, NEW c, StartEpoch(e, T, c)
  PROVE  StartedMarks(tableData, tableData', T, c)
<1>1. CASE ~working
  <2>1. tableData' = tableData
    BY <1>1 DEF StartEpoch
  <2> QED BY <2>1 DEF StartedMarks
<1>2. CASE working
  <2> DEFINE D(t) == IF t \in DOMAIN tableData THEN tableData[t] ELSE UnknownTable(c[t])
  <2>1. tableData' = [t \in DOMAIN tableData \cup T |-> IF t \in T THEN EpochAt(D(t), D(t).unsync \cup {e}) ELSE D(t)]
    BY <1>2 DEF StartEpoch, EpochAt, UnknownTable
  <2>2. ASSUME NEW t
        PROVE  /\ t \in DOMAIN tableData => D(t) = tableData[t]
               /\ t \notin DOMAIN tableData => D(t) = UnknownTable(c[t])
    OBVIOUS
  <2>3. ASSUME NEW t
        PROVE  /\ TableShape(D(t))
               /\ t \in DOMAIN tableData => D(t).syncing = tableData[t].syncing /\ D(t).synced = tableData[t].synced
               /\ t \notin DOMAIN tableData => D(t).syncing = <<>> /\ D(t).synced = c[t]
    <3> HIDE DEF D
    <3>1. CASE t \in DOMAIN tableData
      BY <3>1, <2>2 DEF UploaderOK, Shapes
    <3>2. CASE t \notin DOMAIN tableData
      BY <3>2, <2>2, UnknownMarks
    <3> QED BY <3>1, <3>2
  <2> HIDE DEF D
  <2>4. DOMAIN tableData' = DOMAIN tableData \cup T
    BY <2>1
  <2>5. ASSUME NEW t \in DOMAIN tableData'
        PROVE  tableData'[t].syncing = D(t).syncing /\ tableData'[t].synced = D(t).synced
    <3>1. CASE t \in T
      <4>1. tableData'[t] = EpochAt(D(t), D(t).unsync \cup {e})
        BY <3>1, <2>1, <2>4, <2>5
      <4> QED BY <4>1, <2>3, EpochMarks
    <3>2. CASE t \notin T
      BY <3>2, <2>1, <2>4, <2>5
    <3> QED BY <3>1, <3>2
  <2> QED BY <2>3, <2>4, <2>5 DEF StartedMarks
<1> QED BY <1>1, <1>2

\* The syncs of the tables match those of the uploader after it.
LEMMA StartedSyncs ==
  ASSUME NEW td, NEW td2, NEW T, NEW c, StartedMarks(td, td2, T, c), NEW sy, Syncs(td, sy), \A t \in T : c[t] \in Nat
  PROVE  Syncs(td2, sy)
<1>1. /\ \A t \in DOMAIN td : t \in DOMAIN td2 /\ td2[t].syncing = td[t].syncing /\ td2[t].synced = td[t].synced
      /\ \A t \in DOMAIN td2 : t \in DOMAIN td \/ (t \in T /\ td2[t].syncing = <<>> /\ td2[t].synced = c[t])
  BY DEF StartedMarks
<1>2. ASSUME NEW t \in DOMAIN td2, t \in DOMAIN td PROVE TableOrder(td2[t]) /\ SyncsMatch(t, td2[t], sy)
  BY <1>1, <1>2 DEF Syncs, TableOrder, SyncsMatch
<1>3. ASSUME NEW t \in DOMAIN td2, t \notin DOMAIN td PROVE TableOrder(td2[t]) /\ SyncsMatch(t, td2[t], sy)
  <2>1. td2[t].syncing = <<>> /\ td2[t].synced \in Nat
    BY <1>1, <1>3
  <2>2. IsSeq(<<>>) /\ DOMAIN <<>> = {}
    BY EmptySeq DEF IsSeq
  <2>3. TableOrder(td2[t])
    BY <2>1, <2>2 DEF TableOrder, Descending
  <2>4. \A m \in DOMAIN sy : t \notin sy[m].tables
    BY <1>3 DEF Syncs
  <2> QED BY <2>1, <2>2, <2>3, <2>4 DEF SyncsMatch
<1>4. \A m \in DOMAIN sy : sy[m].tables \subseteq DOMAIN td2
  BY <1>1 DEF Syncs
<1> QED BY <1>2, <1>3, <1>4 DEF Syncs

\* Only the epoch that starts is added, and its number is above all marks.
LEMMA StartedLow ==
  ASSUME NEW e, NEW T, T # {}, NEW g \in Group, T \subseteq TablesOf[g], NEW ue, NEW ue2, NEW ins,
         \A u \in ue2 : u \in ue \/ (u.epoch = e /\ u.tables = T),
         NEW h \in Group, NEW x, Low(x, h, ue, ins), h = g => x < e
  PROVE  Low(x, h, ue2, ins)
<1>1. ASSUME NEW u \in ue2, Of(u, h) PROVE x < u.epoch
  <2>1. CASE u \in ue
    BY <1>1, <2>1 DEF Low
  <2>2. CASE u.epoch = e /\ u.tables = T
    <3>1. h = g
      BY <1>1, <2>2, OneGroup DEF Of
    <3> QED BY <2>2, <3>1
  <2> QED BY <2>1, <2>2
<1> QED BY <1>1 DEF Low


\* A barrier is issued to a database.
IssuesBarrier(g, b, T, new) ==
  /\ Issue(g, b, T, new) /\ IssuedTo(g, b, T, new) /\ mode' = Put(mode, g, "running")
  /\ UNCHANGED <<version, recent, notified>>
  /\ \A i \in b.stop : b.kind = "checkpoint" /\ TableOf[i] \in b.sync
  /\ \A i \in b.stop : \A k \in DOMAIN barriers[g] : i \notin barriers[g][k].stop

\* What the barrier changes.
LEMMA IssuedMarks ==
  ASSUME NodeOK, DataOK, OrderOK, NEW g \in Group, NEW b, NEW T, NEW new, IssuesBarrier(g, b, T, new)
  PROVE  /\ Syncs(tableData', syncing)
         /\ \A t \in DOMAIN tableData' : t \in DOMAIN tableData \/ t \in T
         /\ \A t \in DOMAIN tableData' : t \in DOMAIN tableData => tableData'[t].synced = tableData[t].synced
         /\ \A t \in DOMAIN tableData' : t \notin DOMAIN tableData => tableData'[t].synced = notified.epoch[g]
<1> DEFINE c == CommittedEpochs(notified)
<1>1. StartEpoch(b.curr, T, c) /\ T \subseteq TablesOf[g]
  BY DEF IssuesBarrier, Issue, IssuedTo
<1>2. \A t \in T : c[t] = notified.epoch[g]
  <2>1. ASSUME NEW t \in T PROVE CommittedEpochs(notified)[t] = notified.epoch[g]
    <3>1. t \in TablesOf[g]
      BY <1>1
    <3> QED BY ONLY <3>1, g \in Group, DatabaseEpoch
  <2> QED BY <2>1
<1> HIDE DEF c
<1>3. StartedMarks(tableData, tableData', T, c)
  BY <1>1, Parts, EpochStartMarks
<1>4. notified.epoch[g] \in Nat
  BY OrderParts DEF Versions
<1>5. Syncs(tableData', syncing)
  BY <1>2, <1>3, <1>4, OrderParts, StartedSyncs
<1> QED BY <1>2, <1>3, <1>5 DEF StartedMarks

\* The marks of a database are not moved by the barrier.
LEMMA IssuedBelow ==
  ASSUME NodeOK, DataOK, OrderOK, NEW g \in Group, NEW b, NEW T, NEW new, IssuesBarrier(g, b, T, new)
  PROVE  MarksBelow(tableData, version, answers, syncing, tableData', version, answers, syncing)
<1> SUFFICES ASSUME NEW h \in Group, NEW x, Marked(x, h, tableData', version, answers, syncing)
             PROVE  x \in Nat /\ \E y \in Nat : Marked(y, h, tableData, version, answers, syncing) /\ x <= y
  BY DEF MarksBelow
<1>1. CASE Marked(x, h, tableData, version, answers, syncing)
  <2>1. x \in Nat /\ x <= x
    BY <1>1, MarkedNat
  <2> QED BY <1>1, <2>1
<1>2. ASSUME ~Marked(x, h, tableData, version, answers, syncing)
      PROVE  x \in Nat /\ \E y \in Nat : Marked(y, h, tableData, version, answers, syncing) /\ x <= y
  <2>1. PICK t \in DOMAIN tableData' : t \in TablesOf[h] /\ x = tableData'[t].synced
    BY <1>2 DEF Marked
  <2>2. t \notin DOMAIN tableData
    BY <1>2, <2>1, IssuedMarks DEF Marked
  <2>3. t \in T /\ x = notified.epoch[g]
    BY <2>1, <2>2, IssuedMarks
  <2>4. h = g
    BY <2>1, <2>3, OneGroup DEF IssuesBarrier, IssuedTo
  <2>5. x \in Nat /\ x <= version.epoch[h]
    BY <2>3, <2>4, OrderParts DEF Versions
  <2>6. version.epoch[h] \in Nat /\ Marked(version.epoch[h], h, tableData, version, answers, syncing)
    BY StageNat DEF Marked
  <2> QED BY <2>5, <2>6
<1> QED BY <1>1, <1>2

\* The queue with the barrier.
LEMMA IssuedQueues ==
  ASSUME NodeOK, DataOK, OrderOK, NEW g \in Group, NEW b, NEW T, NEW new, IssuesBarrier(g, b, T, new)
  PROVE  /\ \A h \in Group : h # g => mode'[h] = mode[h] /\ barriers'[h] = barriers[h]
         /\ mode'[g] = "running" /\ barriers'[g] = Append(barriers[g], b) /\ mode[g] # "suspended"
         /\ \A k \in DOMAIN barriers[g] : k \in DOMAIN barriers'[g] /\ barriers'[g][k] = barriers[g][k]
         /\ \A k \in DOMAIN barriers'[g] : k \in DOMAIN barriers[g] \/ barriers'[g][k] = b
         /\ \A i \in DOMAIN instData : actor'[i] = actor[i]
         /\ mode[g] \in {"running", "cleared"}
<1>1. DOMAIN barriers = Group /\ DOMAIN mode = Group /\ IsSeq(barriers[g]) /\ mode[g] \in {"running", "suspended", "cleared"}
  BY Parts DEF Types, Chain, ChainOf
<1>2. barriers' = Queued(barriers, g, b) /\ mode' = Put(mode, g, "running") /\ actor' = Spawned(actor, new)
      /\ mode[g] # "suspended" /\ \A i \in new : i \notin DOMAIN instData
  BY DEF IssuesBarrier, IssuedTo, Issue, Queued, Spawned
<1>3. (\A h \in Group : h # g => barriers'[h] = barriers[h]) /\ barriers'[g] = Append(barriers[g], b)
  BY <1>1, <1>2 DEF Queued
<1>4. (\A h \in Group : h # g => mode'[h] = mode[h]) /\ mode'[g] = "running"
  BY <1>1, <1>2 DEF Put
<1>5. \A i \in DOMAIN instData : i \in Instance
  BY DataParts DEF Instances
<1>6. \A i \in DOMAIN instData : actor'[i] = actor[i]
  BY <1>2, <1>5 DEF Spawned
<1>7. /\ \A k \in DOMAIN barriers[g] : k \in DOMAIN barriers'[g] /\ barriers'[g][k] = barriers[g][k]
      /\ \A k \in DOMAIN barriers'[g] : k \in DOMAIN barriers[g] \/ barriers'[g][k] = b
  BY <1>1, <1>3, AppendPlaces
<1> QED BY <1>1, <1>2, <1>3, <1>4, <1>6, <1>7

\* The order when a barrier is issued.
LEMMA IssueOrder ==
  ASSUME NodeOK, DataOK, OrderOK, NEW g \in Group, NEW b, NEW T, NEW new, IssuesBarrier(g, b, T, new)
  PROVE  OrderOK'
<1>1. /\ StartEpoch(b.curr, T, CommittedEpochs(notified)) /\ UNCHANGED <<version, recent, notified>>
      /\ T \subseteq TablesOf[g] /\ T # {} /\ b.curr = lastEpoch[g] + 1 /\ mode[g] # "suspended"
      /\ \A i \in b.stop : b.kind = "checkpoint" /\ TableOf[i] \in b.sync
  BY DEF IssuesBarrier, Issue, IssuedTo
<1>2. UNCHANGED <<instData, syncing, answers>> /\ unsyncEpochs' \subseteq unsyncEpochs \cup {[epoch |-> b.curr, tables |-> T]}
  BY <1>1 DEF StartEpoch
<1>3. \A u \in unsyncEpochs' : u \in unsyncEpochs \/ (u.epoch = b.curr /\ u.tables = T)
  BY <1>2
<1>4. /\ \A h \in Group : h # g => mode'[h] = mode[h] /\ barriers'[h] = barriers[h]
      /\ mode'[g] = "running" /\ mode[g] \in {"running", "cleared"}
      /\ \A k \in DOMAIN barriers[g] : k \in DOMAIN barriers'[g] /\ barriers'[g][k] = barriers[g][k]
      /\ \A k \in DOMAIN barriers'[g] : k \in DOMAIN barriers[g] \/ barriers'[g][k] = b
      /\ \A i \in DOMAIN instData : actor'[i] = actor[i]
  BY IssuedQueues
<1>5. /\ Syncs(tableData', syncing)
      /\ \A t \in DOMAIN tableData' : t \in DOMAIN tableData \/ t \in T
      /\ \A t \in DOMAIN tableData' : t \in DOMAIN tableData => tableData'[t].synced = tableData[t].synced
      /\ \A t \in DOMAIN tableData' : t \notin DOMAIN tableData => tableData'[t].synced = notified.epoch[g]
  BY IssuedMarks
<1>6. Homes(mode', tableData')
  <2> SUFFICES ASSUME NEW t \in DOMAIN tableData' PROVE \E h \in Group : t \in TablesOf[h] /\ mode'[h] # "cleared"
    BY DEF Homes
  <2>1. CASE t \in T
    BY <2>1, <1>1, <1>4
  <2>2. CASE t \in DOMAIN tableData
    <3>1. PICK h \in Group : t \in TablesOf[h] /\ mode[h] # "cleared"
      BY <2>2, OrderParts DEF Homes
    <3> QED BY <3>1, <1>4
  <2> QED BY <2>1, <2>2, <1>5
<1>7. SyncedReached(mode', tableData', version', answers', syncing')
  <2> SUFFICES ASSUME NEW h \in Group, mode'[h] = "running", NEW t \in DOMAIN tableData', t \in TablesOf[h]
               PROVE  Reached(tableData'[t].synced, h, version, answers, syncing)
    BY <1>1, <1>2 DEF SyncedReached
  <2>1. CASE t \in DOMAIN tableData
    <3>1. PICK f \in Group : t \in TablesOf[f] /\ mode[f] # "cleared"
      BY <2>1, OrderParts DEF Homes
    <3>2. f = h
      BY <3>1, OneGroup
    <3>3. mode[h] = "running"
      BY <3>1, <3>2, <1>4
    <3>4. Reached(tableData[t].synced, h, version, answers, syncing)
      BY <2>1, <3>3, OrderParts DEF SyncedReached
    <3> QED BY <2>1, <3>4, <1>5
  <2>2. CASE t \notin DOMAIN tableData
    <3>1. t \in T /\ tableData'[t].synced = notified.epoch[g]
      BY <2>2, <1>5
    <3>2. h = g
      BY <3>1, <1>1, OneGroup
    <3> QED BY <3>1, <3>2, OrderParts DEF Versions, Reached
  <2> QED BY <2>1, <2>2
<1>8. Marks(tableData', version', answers', syncing', unsyncEpochs', instData')
  <2>1. MarksBelow(tableData, version, answers, syncing, tableData', version, answers, syncing)
    BY IssuedBelow
  <2>2. ASSUME NEW h \in Group, NEW x, Marked(x, h, tableData', version, answers, syncing) PROVE Low(x, h, unsyncEpochs', instData)
    <3>1. PICK y \in Nat : Marked(y, h, tableData, version, answers, syncing) /\ x <= y
      BY <2>1, <2>2 DEF MarksBelow
    <3>2. x \in Nat
      BY <2>1, <2>2 DEF MarksBelow
    <3>3. Low(y, h, unsyncEpochs, instData)
      BY <3>1, OrderParts, MarksAre
    <3>4. Low(x, h, unsyncEpochs, instData)
      BY <3>1, <3>2, <3>3, NodeNumbers, LowDown
    <3>5. h = g => x < b.curr
      <4>1. ASSUME h = g PROVE y <= lastEpoch[g]
        BY <3>1, <4>1, <1>1, MarkedLast
      <4>2. lastEpoch[g] \in Nat
        BY Parts DEF Types
      <4> QED BY <4>1, <4>2, <3>1, <3>2, <1>1
    <3> QED BY <3>4, <3>5, <1>1, <1>3, StartedLow
  <2> QED BY <2>2, <1>1, <1>2, MarksAre
<1>9. Stops(barriers')
  <2>1. Stops(barriers)
    BY OrderParts
  <2>2. \A k \in DOMAIN barriers'[g] : (k \in DOMAIN barriers[g] /\ barriers'[g][k] = barriers[g][k])
                                       \/ (k = Len(barriers[g]) + 1 /\ barriers'[g][k] = b)
    <3>1. IsSeq(barriers[g])
      BY QueueFacts
    <3>2. barriers'[g] = Append(barriers[g], b)
      BY IssuedQueues
    <3> QED BY <3>1, <3>2, AppendPlaces
  <2>3. /\ \A i \in b.stop : b.kind = "checkpoint" /\ TableOf[i] \in b.sync
        /\ \A i \in b.stop : \A k \in DOMAIN barriers[g] : i \notin barriers[g][k].stop
    BY DEF IssuesBarrier
  <2> SUFFICES ASSUME NEW h \in Group, NEW k \in DOMAIN barriers'[h], NEW i \in barriers'[h][k].stop
               PROVE  /\ barriers'[h][k].kind = "checkpoint" /\ TableOf[i] \in barriers'[h][k].sync
                      /\ \A j \in DOMAIN barriers'[h] : i \in barriers'[h][j].stop => j = k
    BY DEF Stops
  <2>4. CASE h # g
    BY <2>1, <2>4, <1>4 DEF Stops
  <2>5. CASE h = g /\ k \in DOMAIN barriers[g] /\ barriers'[g][k] = barriers[g][k]
    BY <2>1, <2>2, <2>3, <2>5 DEF Stops
  <2>6. CASE h = g /\ k = Len(barriers[g]) + 1 /\ barriers'[g][k] = b
    BY <2>2, <2>3, <2>6
  <2> QED BY <2>2, <2>4, <2>5, <2>6
<1>10. ASSUME NEW i \in DOMAIN instData PROVE InstOrder(i, instData[i], mode', barriers', actor')
  <2>1. InstOrder(i, instData[i], mode, barriers, actor) /\ actor'[i] = actor[i]
    BY <1>4, <1>10, OrderParts
  <2>2. ASSUME NEW h \in Group, mode'[h] = "running", TableOf[i] \in TablesOf[h]
        PROVE  mode[h] = "running"
    BY <2>2, <1>4, <1>10, DataParts DEF Gone
  <2>3. ASSUME NEW h \in Group, StopOf(i, instData[i], barriers[h]) PROVE StopOf(i, instData[i], barriers'[h])
    <3>1. \A k \in DOMAIN barriers[h] : k \in DOMAIN barriers'[h] /\ barriers'[h][k] = barriers[h][k]
      BY <1>4
    <3> QED BY <2>3, <3>1 DEF StopOf
  <2> QED BY <2>1, <2>2, <2>3 DEF InstOrder
<1>11. Syncs(tableData', syncing') /\ Versions(notified', recent', version')
  BY <1>1, <1>2, <1>5, OrderParts
<1> QED BY <1>2, <1>6, <1>7, <1>8, <1>9, <1>10, <1>11 DEF OrderOK

\* A command stops members of the database at a checkpoint that syncs its tables.
LEMMA StopsMembers ==
  ASSUME NodeOK, DataOK, NEW g \in Group, mode[g] # "suspended", NEW kind, NEW cmd, NEW stop, NEW new,
         \A i \in stop : i \in Members(g) /\ kind = "checkpoint", NEW b, b = Barrier(g, kind, cmd, stop, new)
  PROVE  /\ \A i \in b.stop : b.kind = "checkpoint" /\ TableOf[i] \in b.sync
         /\ \A i \in b.stop : \A k \in DOMAIN barriers[g] : i \notin barriers[g][k].stop
<1>1. b.stop = stop /\ b.kind = kind /\ b.sync = IF kind = "checkpoint" THEN tables[g] ELSE {}
  BY DEF Barrier
<1>2. \A i \in Members(g) : TableOf[i] \in tables[g]
  BY MembersAre
<1>3. \A i \in Members(g) : \A k \in DOMAIN barriers[g] : i \notin barriers[g][k].stop
  BY DEF Members, Range
<1> QED BY <1>1, <1>2, <1>3

\* Every barrier but the first.
LEMMA CommandOrder ==
  ASSUME NodeOK, DataOK, OrderOK, NEW g \in Group, NEW kind, NEW cmd, NEW T, NEW stop, NEW new, mode[g] = "running",
         IssuedTo(g, Barrier(g, kind, cmd, stop, new), T, new), \A i \in stop : i \in Members(g) /\ kind = "checkpoint",
         InjectCommand(g, kind, cmd, T, stop, new)
  PROVE  OrderOK'
<1> DEFINE b == Barrier(g, kind, cmd, stop, new)
<1>1. /\ Issue(g, b, T, new) /\ IssuedTo(g, b, T, new) /\ UNCHANGED <<mode, recent, notified, version>>
  BY DEF InjectCommand
<1>2. mode' = Put(mode, g, "running")
  <2>1. mode = [mode EXCEPT ![g] = "running"]
    BY Parts DEF Types
  <2> QED BY <1>1, <2>1 DEF Put
<1>3. /\ \A i \in b.stop : b.kind = "checkpoint" /\ TableOf[i] \in b.sync
      /\ \A i \in b.stop : \A k \in DOMAIN barriers[g] : i \notin barriers[g][k].stop
  <2>1. b = Barrier(g, kind, cmd, stop, new) /\ mode[g] # "suspended"
    OBVIOUS
  <2> HIDE DEF b
  <2> QED BY <2>1, StopsMembers
<1> HIDE DEF b
<1>4. IssuesBarrier(g, b, T, new)
  BY <1>1, <1>2, <1>3 DEF IssuesBarrier
<1> QED BY <1>4, IssueOrder

\* The first barrier of a database.
LEMMA InitialOrder ==
  ASSUME NodeOK, DataOK, OrderOK, NEW g \in Group, InjectInitial(g)
  PROVE  OrderOK'
<1> DEFINE new == {i \in Originals : TableOf[i] \in tables[g]}
           b == Barrier(g, "initial", "none", {}, new)
<1>1. /\ Issue(g, b, tables[g], new) /\ mode' = Put(mode, g, "running") /\ UNCHANGED <<version, recent, notified>>
      /\ mode[g] = "cleared" /\ \A k \in DOMAIN answers : answers[k].tables \cap TablesOf[g] = {}
  BY DEF InjectInitial, Put
<1>2. Gone(mode, instData, syncing, actor)
  BY DataParts
<1>3. tables[g] \subseteq TablesOf[g] /\ ~(tables[g] \subseteq Droppable)
  BY Parts DEF Types
<1>4. barriers[g] = <<>>
  BY <1>1, ClearedIsEmpty
<1>5. \A i \in Members(g) : FALSE
  BY <1>1, <1>2, MembersAre DEF Gone
<1>6. \A i \in new : i \in Instance /\ TableOf[i] \in tables[g] /\ i \notin DOMAIN instData
  BY <1>1, <1>2, <1>3 DEF Gone, Originals
<1>7. IssuedTo(g, b, tables[g], new)
  <2>1. \A i \in new : \A k \in DOMAIN barriers[g] : i \notin barriers[g][k].stop
    BY <1>4, EmptySeq
  <2> HIDE DEF new
  <2> QED BY <2>1, <1>1, <1>3, <1>5, <1>6, BarrierTo
<1>8. b.stop = {}
  BY DEF Barrier
<1> HIDE DEF b, new
<1>9. IssuesBarrier(g, b, tables[g], new)
  BY <1>1, <1>7, <1>8 DEF IssuesBarrier
<1> QED BY <1>9, IssueOrder

\* Every barrier keeps the order.
LEMMA InjectOrder ==
  ASSUME NodeOK, DataOK, OrderOK, NEW g \in Group, Inject(g)
  PROVE  OrderOK'
<1>1. tables[g] \subseteq tables[g] /\ ~(tables[g] \subseteq Droppable) /\ tables[g] \subseteq TablesOf[g]
  BY Parts DEF Types
<1>2. CASE InjectInitial(g)
  BY <1>2, InitialOrder
<1>3. ASSUME NEW kind \in {"barrier", "checkpoint"}, NEW cmd \in {"none", "Pause", "Resume"},
             InjectCommand(g, kind, cmd, tables[g], {}, {}), mode[g] = "running"
      PROVE  OrderOK'
  <2>1. IssuedTo(g, Barrier(g, kind, cmd, {}, {}), tables[g], {})
    BY <1>1, <1>3, BarrierTo
  <2> QED BY <1>3, <2>1, CommandOrder
<1>4. ASSUME NEW kind \in {"barrier", "checkpoint"}, InjectPlain(g, kind) PROVE OrderOK'
  <2>1. mode[g] = "running" /\ InjectCommand(g, kind, "none", tables[g], {}, {})
    BY <1>4 DEF InjectPlain, CanInject
  <2> QED BY <2>1, <1>3
<1>5. ASSUME NEW kind \in {"barrier", "checkpoint"}, InjectResume(g, kind) PROVE OrderOK'
  <2>1. mode[g] = "running" /\ InjectCommand(g, kind, "Resume", tables[g], {}, {})
    BY <1>5 DEF InjectResume, CanInject
  <2> QED BY <2>1, <1>3
<1>6. CASE InjectPause(g)
  <2>1. mode[g] = "running" /\ InjectCommand(g, "checkpoint", "Pause", tables[g], {}, {})
    BY <1>6 DEF InjectPause, CanInject
  <2> QED BY <2>1, <1>3
<1>7. CASE InjectUpdate(g)
  <2> DEFINE stop == Members(g) \cap DOMAIN Successor
             new == {Successor[i] : i \in stop}
  <2>1. /\ mode[g] = "running" /\ InjectCommand(g, "checkpoint", "Update", tables[g], stop, new)
        /\ command[g].cmd = "Pause"
    BY <1>7 DEF InjectUpdate, CanInject
  <2>2. Unchanged(command, mode, g)
    BY <2>1 DEF Unchanged
  <2>3. \A i \in Members(g) : i \in Instance /\ TableOf[i] \in tables[g] /\ i \in Originals
    <3>1. \A i \in Members(g) : i \in Instance /\ TableOf[i] \in tables[g] /\ TableOf[i] \in TablesOf[g] /\ actor[i] # "none"
      BY <2>1, MembersAre
    <3> QED BY <3>1, <2>2, DataParts DEF Commands
  <2>4. \A k \in DOMAIN barriers[g] : barriers[g][k].stop = {}
    BY <2>2, DataParts DEF Commands
  <2>5. ASSUME NEW i \in new PROVE i \in Instance /\ TableOf[i] \in tables[g] /\ i \notin stop /\ i \notin DOMAIN instData
    <3>1. PICK j \in stop : i = Successor[j]
      OBVIOUS
    <3>2. i \in Instance /\ TableOf[i] = TableOf[j] /\ i \notin Originals
      BY <3>1, GroupAssumption DEF Originals
    <3>3. TableOf[i] \in tables[g] /\ i \notin stop
      BY <2>3, <3>1, <3>2
    <3>4. i \notin DOMAIN instData
      BY <2>2, <3>2, <3>3, <1>1, DataParts DEF Fresh
    <3> QED BY <3>2, <3>3, <3>4
  <2>6. \A i \in stop : i \in Members(g)
    OBVIOUS
  <2> HIDE DEF stop, new
  <2>7. IssuedTo(g, Barrier(g, "checkpoint", "Update", stop, new), tables[g], new)
    BY <1>1, <2>1, <2>4, <2>5, <2>6, BarrierTo
  <2> QED BY <2>1, <2>6, <2>7, CommandOrder
<1>8. ASSUME NEW t \in Droppable, InjectDrop(g, t) PROVE OrderOK'
  <2> DEFINE T == tables[g] \ {t}
             stop == {i \in Members(g) : TableOf[i] = t}
  <2>1. mode[g] = "running" /\ InjectCommand(g, "checkpoint", "Drop", T, stop, {})
    BY <1>8 DEF InjectDrop, CanInject
  <2>2. T \subseteq tables[g] /\ ~(T \subseteq Droppable)
    BY <1>1
  <2>3. /\ \A i \in stop : i \in Members(g)
        /\ \A i \in Members(g) : i \in stop \/ (TableOf[i] \in tables[g] => TableOf[i] \in T)
    OBVIOUS
  <2> HIDE DEF T, stop
  <2>4. IssuedTo(g, Barrier(g, "checkpoint", "Drop", stop, {}), T, {})
    BY <2>1, <2>2, <2>3, BarrierTo
  <2> QED BY <2>1, <2>3, <2>4, CommandOrder
<1> QED BY <1>2, <1>4, <1>5, <1>6, <1>7, <1>8 DEF Inject

-----------------------------------------------------------------------------
\* The order after a barrier completes

\* The barriers that stay are all but the first.
LEMMA PopRest ==
  ASSUME NodeOK, DataOK, NEW g, NEW br2, PopStep(g, br2), NEW m \in DOMAIN barriers[g], m # 1
  PROVE  \E k \in DOMAIN br2[g] : br2[g][k] = barriers[g][m]
<1> DEFINE q == barriers[g]
<1>1. IsSeq(q) /\ q # <<>> /\ br2[g] = Tail(q)
  BY QueueFacts, PopFacts DEF PopStep
<1>2. m \in DOMAIN q /\ br2[g] = Tail(q)
  BY <1>1
<1> HIDE DEF q
<1>3. /\ IsSeq(Tail(q)) /\ Len(Tail(q)) = Len(q) - 1 /\ Len(q) \in Nat
      /\ \A k \in 1..Len(Tail(q)) : Tail(q)[k] = q[k + 1]
  BY <1>1, SeqTail
<1>4. DOMAIN q = 1..Len(q) /\ DOMAIN Tail(q) = 1..Len(Tail(q))
  BY <1>1, <1>3, SeqDomain
<1>5. m - 1 \in 1..Len(Tail(q)) /\ (m - 1) + 1 = m
  BY <1>2, <1>3, <1>4
<1>6. m - 1 \in DOMAIN br2[g] /\ br2[g][m - 1] = q[m]
  BY <1>2, <1>3, <1>4, <1>5
<1> QED BY <1>6 DEF q

\* They still stop actors once.
LEMMA PopStops ==
  ASSUME NodeOK, DataOK, OrderOK, NEW g, NEW br2, PopStep(g, br2)
  PROVE  Stops(br2)
<1>1. Stops(barriers)
  BY OrderParts
<1>2. \A h \in Group : h # g => br2[h] = barriers[h]
  BY PopFacts
<1>3. \A k \in DOMAIN br2[g] : k + 1 \in DOMAIN barriers[g] /\ br2[g][k] = barriers[g][k + 1] /\ k \in Nat
  <2> DEFINE q == barriers[g]
  <2>1. IsSeq(q) /\ q # <<>> /\ br2[g] = Tail(q)
    BY QueueFacts, PopFacts DEF PopStep
  <2> HIDE DEF q
  <2>2. IsSeq(Tail(q)) /\ \A k \in 1..Len(Tail(q)) : Tail(q)[k] = q[k + 1] /\ k + 1 \in 1..Len(q)
    BY <2>1, SeqTail
  <2>3. DOMAIN q = 1..Len(q) /\ DOMAIN Tail(q) = 1..Len(Tail(q))
    BY <2>1, <2>2, SeqDomain
  <2>4. \A k \in DOMAIN br2[g] : k + 1 \in DOMAIN q /\ br2[g][k] = q[k + 1] /\ k \in Nat
    BY <2>1, <2>2, <2>3
  <2> QED BY <2>4 DEF q
<1> SUFFICES ASSUME NEW h \in Group, NEW k \in DOMAIN br2[h], NEW i \in br2[h][k].stop
             PROVE  /\ br2[h][k].kind = "checkpoint" /\ TableOf[i] \in br2[h][k].sync
                    /\ \A j \in DOMAIN br2[h] : i \in br2[h][j].stop => j = k
  BY DEF Stops
<1>4. CASE h # g
  BY <1>1, <1>2, <1>4 DEF Stops
<1>5. CASE h = g
  <2>1. br2[g][k].kind = "checkpoint" /\ TableOf[i] \in br2[g][k].sync
    BY <1>1, <1>3, <1>5 DEF Stops
  <2>2. ASSUME NEW j \in DOMAIN br2[g], i \in br2[g][j].stop PROVE j = k
    <3>1. j + 1 = k + 1
      BY <1>1, <1>3, <1>5, <2>2 DEF Stops
    <3> QED BY <1>3, <1>5, <2>2, <3>1
  <2> QED BY <1>5, <2>1, <2>2
<1> QED BY <1>4, <1>5

\* The stop of an actor is not among the barriers that leave unless it is the first.
LEMMA PopStop ==
  ASSUME NodeOK, DataOK, NEW g, NEW br2, PopStep(g, br2), NEW h \in Group, NEW i, NEW d, StopOf(i, d, barriers[h]),
         h = g => i \notin barriers[g][1].stop
  PROVE  StopOf(i, d, br2[h])
<1>1. PICK m \in DOMAIN barriers[h] : /\ i \in barriers[h][m].stop /\ barriers[h][m].curr = d.current.epoch
                                      /\ \A j \in DOMAIN d.sealed : d.sealed[j].epoch <= barriers[h][m].prev
  BY DEF StopOf
<1>2. PICK k \in DOMAIN br2[h] : br2[h][k] = barriers[h][m]
  <2>1. CASE h = g
    <3>1. m # 1
      BY <1>1, <2>1
    <3> QED BY <2>1, <3>1, PopRest
  <2>2. CASE h # g
    BY <2>2, PopFacts
  <2> QED BY <2>1, <2>2
<1> QED BY <1>1, <1>2 DEF StopOf

\* A barrier that is no checkpoint completes.
LEMMA PlainOrder ==
  ASSUME NodeOK, DataOK, OrderOK, NEW g, PopStep(g, barriers'), barriers[g][1].kind # "checkpoint",
         UNCHANGED <<instData, tableData, unsyncEpochs, syncing, answers, mode, actor, version, recent, notified>>
  PROVE  OrderOK'
<1>1. g \in Group /\ 1 \in DOMAIN barriers[g]
  BY PopFacts DEF PopStep
<1>2. \A i : i \notin barriers[g][1].stop
  BY <1>1, OrderParts DEF Stops
<1>3. ASSUME NEW i \in DOMAIN instData PROVE InstOrder(i, instData[i], mode, barriers', actor)
  <2>1. InstOrder(i, instData[i], mode, barriers, actor)
    BY OrderParts
  <2>2. \A h \in Group : StopOf(i, instData[i], barriers[h]) => StopOf(i, instData[i], barriers'[h])
    BY <1>2, PopStop
  <2> QED BY <2>1, <2>2 DEF InstOrder
<1>4. Stops(barriers')
  BY PopStops
<1> QED BY <1>3, <1>4, OrderParts DEF OrderOK

\* The instances of a database write epochs that come after a checkpoint that completes.
LEMMA CheckpointBelow ==
  ASSUME NodeOK, DataOK, OrderOK, NEW g, NEW e, NEW T, NEW s, NEW extra, NEW td1, CheckpointStep(g, e, T, s, extra, td1),
         NEW i \in DOMAIN instData, TableOf[i] \in TablesOf[g]
  PROVE  e < instData[i].current.epoch
<1>1. /\ g \in Group /\ 1 \in DOMAIN barriers[g] /\ e = barriers[g][1].prev /\ Passed(g, e) /\ mode[g] = "running"
  BY PopFacts DEF CheckpointStep, PopStep
<1>2. i \in Instance /\ InstShape(instData[i]) /\ InstanceOf(actor[i], epoch[i].curr, instData[i])
  BY DataParts DEF Instances
<1>3. GroupOf[i] = g
  BY <1>1, <1>2, GroupIs
<1>4. actor[i] \in ActorState /\ actor[i] \notin {"aborted", "dropping"}
  <2>1. Actors(actor, epoch, mode, barriers, lastEpoch, tables)
    BY DataParts
  <2> QED BY <2>1, <1>1, <1>2, <1>3 DEF Actors
<1>5. CASE actor[i] = "running"
  <2>1. e < epoch[i].curr
    BY <1>1, <1>2, <1>3, <1>5 DEF Passed, Live
  <2> QED BY <2>1, <1>2, <1>5 DEF InstanceOf
<1>6. CASE actor[i] \in {"none", "stopping"}
  <2>1. InstOrder(i, instData[i], mode, barriers, actor)
    BY OrderParts
  <2>2. PICK k \in DOMAIN barriers[g] : barriers[g][k].curr = instData[i].current.epoch
    BY <2>1, <1>1, <1>6 DEF InstOrder, StopOf
  <2>3. /\ e \in Nat /\ e < barriers[g][1].curr /\ barriers[g][1].curr \in Nat /\ barriers[g][k].curr \in Nat
        /\ barriers[g][k].prev \in Nat /\ barriers[g][k].prev < barriers[g][k].curr /\ k \in Nat
        /\ 1 < k => barriers[g][1].curr <= barriers[g][k].prev
    BY <1>1, QueueFacts
  <2>4. k = 1 \/ 1 < k
    <3>1. IsSeq(barriers[g])
      BY <1>1, QueueFacts
    <3>2. DOMAIN barriers[g] = 1..Len(barriers[g]) /\ Len(barriers[g]) \in Nat
      BY <3>1, SeqDomain
    <3> QED BY <3>2
  <2> QED BY <2>2, <2>3, <2>4
<1>7. actor[i] \notin {"spawned", "waiting"}
  BY <1>2 DEF InstanceOf
<1> QED BY <1>4, <1>5, <1>6, <1>7 DEF ActorState

\* The epochs of a database that a checkpoint leaves unsynced come after it.
LEMMA CheckpointLeaves ==
  ASSUME NodeOK, DataOK, NEW g, NEW e, NEW T, NEW s, NEW extra, NEW td1, CheckpointStep(g, e, T, s, extra, td1),
         NEW u \in unsyncEpochs', Of(u, g)
  PROVE  e < u.epoch
<1>1. /\ g \in Group /\ 1 \in DOMAIN barriers[g] /\ barriers[g][1].kind = "checkpoint" /\ e \in Nat
      /\ e = barriers[g][1].prev /\ T = barriers[g][1].sync
  BY PopFacts DEF CheckpointStep, PopStep, SyncingStep
<1>2. u \in unsyncEpochs /\ ~(u.tables = T /\ u.epoch <= e)
  BY DEF CheckpointStep, SyncingStep, SyncStep, LeftEpochs
<1>3. PICK h \in Group : EpochOf(u, h, barriers[h], tables[h], lastEpoch[h], mode[h])
  BY <1>2, Parts DEF Epochs
<1>4. h = g
  BY <1>1, <1>3, OneGroup DEF EpochOf, Of
<1>5. \A j \in DOMAIN barriers[g] : ~(j < 1)
  <2>1. IsSeq(barriers[g])
    BY <1>1, QueueFacts
  <2> QED BY <2>1 DEF IsSeq
<1>6. u.epoch <= e => barriers[g][1].sync = u.tables
  BY <1>1, <1>3, <1>4, <1>5 DEF EpochOf
<1>7. u.epoch \in Nat
  BY <1>2, NodeNumbers DEF Numbers
<1> QED BY <1>1, <1>2, <1>6, <1>7

\* The instances after a checkpoint keep their epochs; those that stopped at it are gone.
LEMMA CheckpointLike ==
  ASSUME NodeOK, DataOK, OrderOK, NEW g, NEW e, NEW T, NEW s, NEW extra, NEW td1, CheckpointStep(g, e, T, s, extra, td1)
  PROVE  /\ InstsLike(instData, instData')
         /\ \A i \in DOMAIN instData' : TableOf[i] \in T =>
              \A k \in DOMAIN instData'[i].sealed : instData'[i].sealed[k].epoch > e
         /\ \A i \in DOMAIN instData' : TableOf[i] \in T => ~IsFinished(instData'[i])
<1>1. g \in Group /\ e \in Nat /\ T \subseteq TablesOf[g] /\ SyncStep(e, T, s, extra, td1)
  BY DEF CheckpointStep, SyncingStep
<1> DEFINE ins == SyncedInst(e, T)
           K == {i \in DOMAIN instData : ~(TableOf[i] \in T /\ IsFinished(ins[i]))}
<1>2. instData' = [i \in K |-> ins[i]]
  BY <1>1 DEF SyncStep
<1>3. \A i \in DOMAIN instData : ins[i] = IF TableOf[i] \in T THEN SyncInstance(instData[i], e) ELSE instData[i]
  BY DEF SyncedInst
<1>4. \A i : i \in K <=> i \in DOMAIN instData /\ ~(TableOf[i] \in T /\ IsFinished(ins[i]))
  OBVIOUS
<1> HIDE DEF ins, K
<1>5. DOMAIN instData' = K /\ \A i \in K : instData'[i] = ins[i]
  BY <1>2
<1>6. ASSUME NEW i \in DOMAIN instData, TableOf[i] \in T
      PROVE  InstLike(instData[i], ins[i]) /\ \A k \in DOMAIN ins[i].sealed : ins[i].sealed[k].epoch > e
  <2> DEFINE d == instData[i]
             d2 == ins[i]
  <2>1. InstShape(d) /\ d2 = SyncInstance(d, e)
    BY <1>3, <1>6, DataParts DEF Instances
  <2>2. e < d.current.epoch
    BY <1>1, <1>6, CheckpointBelow
  <2> HIDE DEF d, d2
  <2>3. /\ d2.destroyed = d.destroyed /\ d2.current = d.current
        /\ \A k \in DOMAIN d2.sealed : \E j \in DOMAIN d.sealed : d2.sealed[k] = d.sealed[j] /\ d2.sealed[k].epoch > e
    BY <1>1, <2>1, <2>2, InstSynced
  <2>4. InstLike(d, d2) /\ \A k \in DOMAIN d2.sealed : d2.sealed[k].epoch > e
    BY <2>3 DEF InstLike
  <2> QED BY <2>4 DEF d, d2
<1>7. ASSUME NEW i \in DOMAIN instData' PROVE i \in DOMAIN instData /\ InstLike(instData[i], instData'[i])
  <2>1. i \in DOMAIN instData /\ instData'[i] = ins[i]
    BY <1>4, <1>5, <1>7
  <2>2. CASE TableOf[i] \in T
    BY <2>1, <2>2, <1>6
  <2>3. CASE TableOf[i] \notin T
    <3>1. instData'[i] = instData[i]
      BY <2>1, <2>3, <1>3
    <3> QED BY <2>1, <3>1 DEF InstLike
  <2> QED BY <2>2, <2>3
<1>8. ASSUME NEW i \in DOMAIN instData', TableOf[i] \in T
      PROVE  (\A k \in DOMAIN instData'[i].sealed : instData'[i].sealed[k].epoch > e) /\ ~IsFinished(instData'[i])
  BY <1>4, <1>5, <1>6, <1>8
<1>9. InstsLike(instData, instData')
  BY <1>7 DEF InstsLike
<1> QED BY <1>8, <1>9

\* Instances whose actor stopped before this checkpoint are gone; the others stop later.
LEMMA CheckpointInsts ==
  ASSUME NodeOK, DataOK, OrderOK, NEW g, NEW e, NEW T, NEW s, NEW extra, NEW td1, CheckpointStep(g, e, T, s, extra, td1),
         NEW i \in DOMAIN instData'
  PROVE  InstOrder(i, instData'[i], mode, barriers', actor)
<1>1. /\ g \in Group /\ 1 \in DOMAIN barriers[g] /\ e = barriers[g][1].prev /\ T = barriers[g][1].sync /\ e \in Nat
      /\ barriers[g][1].remaining = {} /\ PopStep(g, barriers') /\ mode[g] = "running"
  BY PopFacts DEF CheckpointStep, PopStep, SyncingStep
<1>2. i \in DOMAIN instData /\ InstLike(instData[i], instData'[i])
  BY CheckpointLike DEF InstsLike
<1> DEFINE d == instData[i]
           d2 == instData'[i]
<1>3. InstOrder(i, d, mode, barriers, actor) /\ i \in Instance /\ InstShape(d) /\ InstLike(d, d2)
  BY <1>2, OrderParts, DataParts DEF Instances
<1>4. InstShape(d2)
  <2>1. Instances(working, actor, epoch, instData')
    BY SyncInsts DEF CheckpointStep
  <2> QED BY <2>1 DEF Instances
<1>5. TableOf[i] \in T => (\A k \in DOMAIN d2.sealed : d2.sealed[k].epoch > e) /\ ~IsFinished(d2)
  BY CheckpointLike
<1> HIDE DEF d, d2
<1>6. InstOrder(i, d2, mode, barriers, actor)
  BY <1>3, LikeOrder
<1>7. ASSUME actor[i] \in {"none", "stopping"}, TableOf[i] \in TablesOf[g] PROVE i \notin barriers[g][1].stop
  <2> SUFFICES ASSUME i \in barriers[g][1].stop PROVE FALSE
    OBVIOUS
  <2>1. TableOf[i] \in T
    BY <1>1, OrderParts DEF Stops
  <2>2. CASE actor[i] = "stopping"
    <3>1. GroupOf[i] = g
      BY <1>1, <1>3, <1>7, GroupIs
    <3>2. Actors(actor, epoch, mode, barriers, lastEpoch, tables)
      BY DataParts
    <3>3. ActorOf(i, actor[i], epoch[i].curr, barriers[g], lastEpoch[g], tables[g])
      BY <1>3, <2>2, <3>1, <3>2 DEF Actors, Live
    <3>4. i \in barriers[g][1].remaining
      BY <1>1, <3>3 DEF ActorOf
    <3> QED BY <1>1, <3>4
  <2>3. CASE actor[i] = "none"
    <3>1. StopOf(i, d2, barriers[g]) /\ d2.destroyed
      BY <1>1, <1>6, <1>7, <2>3 DEF InstOrder
    <3>2. PICK k \in DOMAIN barriers[g] : /\ i \in barriers[g][k].stop /\ barriers[g][k].curr = d2.current.epoch
                                          /\ \A j \in DOMAIN d2.sealed : d2.sealed[j].epoch <= barriers[g][k].prev
      BY <3>1 DEF StopOf
    <3>3. k = 1
      BY <1>1, <3>2, OrderParts DEF Stops
    <3>4. DOMAIN d2.sealed = {}
      <4>1. ASSUME NEW j \in DOMAIN d2.sealed PROVE FALSE
        <5>1. d2.sealed[j].epoch <= e /\ d2.sealed[j].epoch > e /\ d2.sealed[j].epoch \in Nat
          BY <1>1, <1>4, <1>5, <2>1, <3>2, <3>3 DEF InstShape, EpochShape
        <5> QED BY <1>1, <5>1
      <4> QED BY <4>1
    <3>5. d2.sealed = <<>>
      <4>1. PICK S : d2.sealed \in Seq(S)
        BY <1>4 DEF InstShape, IsSeq
      <4>2. Len(d2.sealed) = 0
        <5>1. IsSeq(d2.sealed)
          BY <1>4 DEF InstShape
        <5>2. DOMAIN d2.sealed = 1..Len(d2.sealed) /\ Len(d2.sealed) \in Nat
          BY <5>1, SeqDomain
        <5>3. ~(1 \in 1..Len(d2.sealed))
          BY <3>4, <5>2
        <5> QED BY <5>2, <5>3
      <4> QED BY <4>1, <4>2
    <3> QED BY <1>5, <2>1, <3>1, <3>5 DEF IsFinished
  <2> QED BY <1>7, <2>2, <2>3
<1>8. InstOrder(i, d2, mode, barriers', actor)
  <2>1. ASSUME actor[i] \in {"none", "stopping"}, NEW h \in Group, mode[h] = "running", TableOf[i] \in TablesOf[h]
        PROVE  StopOf(i, d2, barriers'[h])
    <3>1. StopOf(i, d2, barriers[h])
      BY <1>6, <2>1 DEF InstOrder
    <3>2. h = g => i \notin barriers[g][1].stop
      BY <1>7, <2>1
    <3> QED BY <1>1, <3>1, <3>2, PopStop
  <2> QED BY <1>6, <2>1 DEF InstOrder
<1> QED BY <1>8 DEF d2

\* The tables and syncs once the sync of a checkpoint has started, before any sync is answered.
LEMMA CheckpointSyncs ==
  ASSUME NodeOK, DataOK, OrderOK, NEW g, NEW e, NEW T, NEW s, NEW extra, NEW td1, CheckpointStep(g, e, T, s, extra, td1),
         NEW sy1, sy1 = Append(syncing, s)
  PROVE  Syncs(td1, sy1)
<1>1. /\ g \in Group /\ e \in Nat /\ T \subseteq TablesOf[g] /\ T \subseteq DOMAIN tableData /\ PopStep(g, barriers')
      /\ barriers[g][1].kind = "checkpoint" /\ e = barriers[g][1].prev /\ mode[g] = "running"
      /\ LeftTables(tableData, td1, e, T) /\ SyncPushed(tableData, td1, e, T)
  BY DEF CheckpointStep, SyncingStep, SyncStep, PopStep
<1>2. s.epoch = e /\ s.tables = T
  BY CheckpointAdds DEF CheckpointAdded
<1>3. DOMAIN td1 = DOMAIN tableData
  BY <1>1 DEF LeftTables
<1>4. Syncs(tableData, syncing) /\ IsSeq(syncing) /\ AnswersOK(answers, syncing)
  <2>1. UploaderOK(tasks, spilledData, syncing, tableData, unsyncEpochs) /\ AnswersOK(answers, syncing)
    BY Parts, DataParts
  <2> QED BY <2>1, OrderParts, SyncsAre DEF SyncsApart
<1>5. ASSUME NEW t \in T PROVE tableData[t].synced < e
  <2>1. Marked(tableData[t].synced, g, tableData, version, answers, syncing)
    BY <1>1, <1>5 DEF Marked
  <2>2. Over(tableData[t].synced, g, mode, lastEpoch, barriers[g], actor, epoch)
    BY <1>1, <2>1, MarkedOver
  <2>3. 1 \in DOMAIN barriers[g]
    BY <1>1, PopFacts
  <2> QED BY <1>1, <2>2, <2>3 DEF Over
<1>6. ASSUME NEW t \in T, NEW k \in DOMAIN tableData[t].syncing PROVE tableData[t].syncing[k] < e
  <2>1. PICK m \in DOMAIN syncing : t \in syncing[m].tables /\ syncing[m].epoch = tableData[t].syncing[k]
    BY <1>1, <1>4, <1>6 DEF Syncs, SyncsMatch
  <2>2. HasStage(g, syncing[m].epoch, answers, syncing)
    BY <1>1, <1>4, <1>6, <2>1, SyncIsStage
  <2> QED BY <1>1, <2>1, <2>2, EarlierStages
<1>7. Syncs(td1, sy1)
  BY <1>1, <1>2, <1>3, <1>4, <1>5, <1>6, SyncsPushed
<1> QED BY <1>7

\* The syncs, stages and tables after complete_barrier of a checkpoint.
LEMMA CheckpointEnds ==
  ASSUME NodeOK, DataOK, OrderOK, NEW g, NEW e, NEW T, NEW s, NEW extra, NEW td1, CheckpointStep(g, e, T, s, extra, td1)
  PROVE  /\ Syncs(tableData', syncing')
         /\ \A h \in Group : \A f : HasStage(h, f, answers', syncing') <=> HasStage(h, f, answers, syncing) \/ (h = g /\ f = e)
         /\ \A t \in DOMAIN tableData' :
              /\ t \in DOMAIN tableData
              /\ \A h \in Group : t \in TablesOf[h] =>
                   tableData'[t].synced = tableData[t].synced \/ HasStage(h, tableData'[t].synced, answers', syncing')
<1> DEFINE sy1 == Append(syncing, s)
<1>1. SyncingStep(g, e, T, s, extra, td1)
  BY DEF CheckpointStep
<1>2. /\ UploaderOK(tasks', spilledData', sy1, td1, unsyncEpochs')
      /\ MayNotifySyncTask(sy1, td1, instData')
  BY <1>1 DEF SyncingStep, SyncStep
<1>3. sy1 = Append(syncing, s)
  OBVIOUS
<1> HIDE DEF sy1
<1>4. CheckpointAdded(g, e, T, s, sy1)
  BY <1>3, CheckpointAdds
<1>5. /\ AnswersOK(answers, sy1)
      /\ \A h \in Group : \A f : HasStage(h, f, answers, sy1) <=> HasStage(h, f, answers, syncing) \/ (h = g /\ f = e)
  BY <1>4 DEF CheckpointAdded, StageAdded
<1>6. \A h, f : HasStage(h, f, answers', syncing') <=> HasStage(h, f, answers, sy1)
  <2>1. KeepsStages(answers, answers', sy1, syncing', tasks', tasks')
    BY <1>2, <1>5, NotifyingData
  <2> QED BY <2>1 DEF KeepsStages
<1>7. Syncs(td1, sy1) /\ DOMAIN td1 = DOMAIN tableData /\ \A t \in DOMAIN td1 : td1[t].synced = tableData[t].synced
  <2>1. Syncs(td1, sy1)
    BY <1>3, CheckpointSyncs
  <2>2. LeftTables(tableData, td1, e, T) /\ SyncPushed(tableData, td1, e, T)
    BY <1>1 DEF SyncingStep, SyncStep
  <2> QED BY <2>1, <2>2 DEF LeftTables, SyncPushed
<1>8. /\ Syncs(tableData', syncing')
      /\ \A t \in DOMAIN tableData' :
           /\ t \in DOMAIN td1
           /\ \/ tableData'[t].synced = td1[t].synced
              \/ \E m \in DOMAIN sy1 : t \in sy1[m].tables /\ tableData'[t].synced = sy1[m].epoch
  BY <1>2, <1>5, <1>7, NotifySyncs
<1>9. SyncedFrom(td1, tableData', answers, sy1)
  BY <1>5, <1>8, NotifiedFrom
<1> QED BY <1>5, <1>6, <1>7, <1>8, <1>9 DEF SyncedFrom

\* complete_barrier of a checkpoint keeps the order.
LEMMA CheckpointOrder ==
  ASSUME NodeOK, DataOK, OrderOK, NEW g, NEW e, NEW T, NEW s, NEW extra, NEW td1, CheckpointStep(g, e, T, s, extra, td1),
         UNCHANGED <<recent, notified>>
  PROVE  OrderOK'
<1>1. /\ g \in Group /\ e \in Nat /\ PopStep(g, barriers') /\ UNCHANGED <<mode, actor, version>>
      /\ unsyncEpochs' \subseteq unsyncEpochs
  BY DEF CheckpointStep, SyncingStep, SyncStep, LeftEpochs
<1>2. /\ Syncs(tableData', syncing')
      /\ \A h \in Group : \A f : HasStage(h, f, answers', syncing') <=> HasStage(h, f, answers, syncing) \/ (h = g /\ f = e)
      /\ \A t \in DOMAIN tableData' :
           /\ t \in DOMAIN tableData
           /\ \A h \in Group : t \in TablesOf[h] =>
                tableData'[t].synced = tableData[t].synced \/ HasStage(h, tableData'[t].synced, answers', syncing')
  BY CheckpointEnds
<1>3. Homes(mode', tableData')
  BY <1>1, <1>2, OrderParts DEF Homes
<1>4. Versions(notified', recent', version') /\ Stops(barriers')
  BY <1>1, OrderParts, PopStops
<1>5. ASSUME NEW h \in Group, NEW f, HasStage(h, f, answers', syncing') PROVE f \in Nat
  BY <1>1, <1>2, <1>5, StageNat
<1>6. SyncedReached(mode', tableData', version', answers', syncing')
  <2> SUFFICES ASSUME NEW h \in Group, mode[h] = "running", NEW t \in DOMAIN tableData', t \in TablesOf[h]
               PROVE  Reached(tableData'[t].synced, h, version, answers', syncing')
    BY <1>1 DEF SyncedReached
  <2>1. CASE tableData'[t].synced = tableData[t].synced
    <3>1. Reached(tableData[t].synced, h, version, answers, syncing)
      BY <1>2, OrderParts DEF SyncedReached
    <3> QED BY <1>2, <2>1, <3>1 DEF Reached
  <2>2. CASE HasStage(h, tableData'[t].synced, answers', syncing')
    <3>1. tableData'[t].synced <= tableData'[t].synced
      BY <1>5, <2>2
    <3> QED BY <2>2, <3>1 DEF Reached
  <2> QED BY <1>2, <2>1, <2>2
<1>7. InstsLike(instData, instData')
  BY CheckpointLike
<1>8. Low(e, g, unsyncEpochs', instData')
  <2>1. ASSUME NEW i \in DOMAIN instData', TableOf[i] \in TablesOf[g] PROVE e < instData'[i].current.epoch
    <3>1. i \in DOMAIN instData /\ instData'[i].current.epoch = instData[i].current.epoch
      BY <1>7, <2>1 DEF InstsLike, InstLike
    <3>2. e < instData[i].current.epoch
      BY <2>1, <3>1, CheckpointBelow
    <3> QED BY <3>1, <3>2
  <2>2. \A u \in unsyncEpochs' : Of(u, g) => e < u.epoch
    BY CheckpointLeaves
  <2> QED BY <2>1, <2>2 DEF Low
<1>9. Marks(tableData', version', answers', syncing', unsyncEpochs', instData')
  <2>1. LowKept(unsyncEpochs, instData, unsyncEpochs', instData')
    <3>1. FewerInsts(instData, instData')
      BY <1>7 DEF InstsLike, InstLike, FewerInsts
    <3> QED BY <1>1, <3>1, LowOfFewer
  <2>2. ASSUME NEW h \in Group, NEW x, Marked(x, h, tableData', version', answers', syncing')
        PROVE  Low(x, h, unsyncEpochs', instData')
    <3>1. Marked(x, h, tableData, version, answers, syncing) \/ (h = g /\ x = e)
      BY <1>1, <1>2, <2>2 DEF Marked
    <3>2. CASE Marked(x, h, tableData, version, answers, syncing)
      <4>1. x \in Nat
        BY <3>2, MarkedNat
      <4>2. Low(x, h, unsyncEpochs, instData)
        BY <3>2, OrderParts, MarksAre
      <4> QED BY <2>1, <4>1, <4>2 DEF LowKept
    <3>3. CASE h = g /\ x = e
      BY <1>8, <3>3
    <3> QED BY <3>1, <3>2, <3>3
  <2> QED BY <2>2, MarksAre
<1>10. ASSUME NEW i \in DOMAIN instData' PROVE InstOrder(i, instData'[i], mode', barriers', actor')
  <2>1. InstOrder(i, instData'[i], mode, barriers', actor)
    BY <1>10, CheckpointInsts
  <2> QED BY <1>1, <2>1
<1> QED BY <1>2, <1>3, <1>4, <1>6, <1>9, <1>10 DEF OrderOK

\* complete_barrier keeps the order.
LEMMA CompleteOrder ==
  ASSUME NodeOK, DataOK, OrderOK, NEW g \in Group, CompleteBarrier(g)
  PROVE  OrderOK'
<1>1. /\ PopStep(g, barriers')
      /\ UNCHANGED <<mode, tables, lastEpoch, command, actor, epoch, version, written, nextImm>>
      /\ IF barriers[g][1].kind = "checkpoint" THEN StartSyncEpoch(barriers[g][1].prev, barriers[g][1].sync)
         ELSE UNCHANGED uploaderVars
  BY CompleteIs
<1>2. UNCHANGED <<recent, notified, version>>
  BY DEF CompleteBarrier
<1>3. CASE barriers[g][1].kind # "checkpoint"
  <2>1. UNCHANGED <<instData, tableData, unsyncEpochs, syncing, answers>>
    BY <1>1, <1>3 DEF uploaderVars
  <2> QED BY <1>1, <1>2, <1>3, <2>1, PlainOrder
<1>4. CASE barriers[g][1].kind = "checkpoint" /\ ~working
  <2>1. UNCHANGED <<instData, tableData, unsyncEpochs, spilledData, tasks, syncing>>
    BY <1>1, <1>4 DEF StartSyncEpoch
  <2>2. ResetUploaderData
    BY <1>4, <2>1, Parts DEF Idle, ResetUploaderData
  <2>3. Stops(barriers')
    BY <1>1, PopStops
  <2> QED BY <1>2, <2>2, <2>3, EmptyOrder
<1>5. CASE barriers[g][1].kind = "checkpoint" /\ working
  <2>1. PICK e, T, s, extra, td1 : CheckpointStep(g, e, T, s, extra, td1)
    BY <1>5, CheckpointTaken
  <2> QED BY <1>2, <2>1, CheckpointOrder
<1> QED BY <1>3, <1>4, <1>5, Parts

-----------------------------------------------------------------------------
\* The stages are in order

\* OrderOK holds in the beginning.
LEMMA OrderInitially ==
  ASSUME Init
  PROVE  OrderOK
<1>1. /\ answers = <<>> /\ syncing = <<>> /\ instData = Empty /\ tableData = Empty /\ unsyncEpochs = {}
      /\ barriers = [g \in Group |-> <<>>] /\ recent = version /\ notified = version
      /\ version = [epoch |-> [g \in Group |-> 0], data |-> {}]
  BY DEF Init, UploaderInit
<1>2. /\ \A g \in Group : DOMAIN barriers[g] = {}
      /\ DOMAIN answers = {} /\ DOMAIN syncing = {} /\ DOMAIN instData = {} /\ DOMAIN tableData = {}
  BY <1>1 DEF Empty
<1>3. Syncs(tableData, syncing) /\ Homes(mode, tableData)
  BY <1>2 DEF Syncs, Homes
<1>4. \A g \in Group : version.epoch[g] \in Nat /\ version.epoch[g] <= version.epoch[g]
  BY <1>1
<1>5. Versions(notified, recent, version)
  BY <1>1, <1>4 DEF Versions
<1>6. SyncedReached(mode, tableData, version, answers, syncing) /\ Stops(barriers)
  BY <1>2 DEF SyncedReached, Stops
<1>7. Marks(tableData, version, answers, syncing, unsyncEpochs, instData)
  BY <1>1, <1>2 DEF Marks, Low
<1> QED BY <1>2, <1>3, <1>5, <1>6, <1>7 DEF OrderOK

\* No step of the node breaks OrderOK.
LEMMA OrderStep ==
  ASSUME NodeOK, DataOK, OrderOK, [Next]_vars
  PROVE  OrderOK'
<1>1. CASE Progress
  <2>1. CASE \E g \in Group : CompleteBarrier(g) \/ ResetDatabase(g)
    BY <2>1, CompleteOrder, ResetOrder
  <2>2. CASE \E i \in Instance : Build(i) \/ InitStore(i) \/ Seal(i) \/ DropStream(i)
    BY <2>2, BuildOrder, InitStoreOrder, SealOrder, DropOrder
  <2>3. CASE UploadedSst
    BY <2>3, UploadOrder
  <2>4. CASE TakeSynced
    BY <2>4, SyncedOrder
  <2>5. CASE TakeSyncError
    BY <2>5, SyncErrorOrder
  <2>6. CASE ApplyVersionUpdate \/ NotifyVersion
    BY <2>6, ApplyOrder, NotifyOrder
  <2>7. CASE AbortAll
    BY <2>7, FailOrder
  <2>8. CASE ResetNode
    BY <2>8, DropAllOrder
  <2> QED BY <1>1, <2>1, <2>2, <2>3, <2>4, <2>5, <2>6, <2>7, <2>8 DEF Progress
<1>2. CASE \E g \in Group : Inject(g) \/ ActorFails(g) \/ NodePanics(g)
  BY <1>2, InjectOrder, FailOrder
<1>3. CASE \E i \in Instance : Flush(i)
  BY <1>3, FlushOrder
<1>4. CASE SpillData \/ UploadFails
  BY <1>4, SpillOrder, DropAllOrder
<1>5. CASE UNCHANGED vars
  BY <1>5 DEF OrderOK, vars, uploaderVars, nodeVars
<1> QED BY <1>1, <1>2, <1>3, <1>4, <1>5 DEF Next

\* The newest epoch that table t has begun to sync.
NewestSync(d) == IF d.syncing # <<>> THEN Head(d.syncing) ELSE d.synced

\* It is below all that its database has yet to sync.
LEMMA NewestLow ==
  ASSUME NodeOK, DataOK, OrderOK, NEW t \in DOMAIN tableData, NEW g \in Group, t \in TablesOf[g]
  PROVE  Low(NewestSync(tableData[t]), g, unsyncEpochs, instData)
<1> DEFINE d == tableData[t]
           x == NewestSync(d)
<1>1. TableOrder(d) /\ SyncsMatch(t, d, syncing) /\ AnswersOK(answers, syncing)
  BY OrderParts, DataParts DEF Syncs
<1>2. d = tableData[t] /\ x = IF d.syncing # <<>> THEN Head(d.syncing) ELSE d.synced
  BY DEF NewestSync
<1> HIDE DEF d, x
<1>3. ASSUME d.syncing = <<>> PROVE Low(x, g, unsyncEpochs, instData)
  BY <1>2, <1>3, OrderParts DEF Marks
<1>4. ASSUME d.syncing # <<>> PROVE Low(x, g, unsyncEpochs, instData)
  <2>1. IsSeq(d.syncing)
    BY <1>1 DEF TableOrder
  <2>2. Head(d.syncing) = d.syncing[1] /\ Len(d.syncing) \in Nat /\ Len(d.syncing) > 0
    BY <1>4, <2>1, SeqTail
  <2>3. 1 \in DOMAIN d.syncing
    BY <2>1, <2>2, SeqDomain
  <2>4. PICK m \in DOMAIN syncing : t \in syncing[m].tables /\ syncing[m].epoch = d.syncing[1]
    BY <1>1, <2>3 DEF SyncsMatch
  <2>5. HasStage(g, syncing[m].epoch, answers, syncing)
    BY <1>1, <2>4, SyncIsStage
  <2>6. HasStage(g, x, answers, syncing)
    BY <1>2, <1>4, <2>2, <2>4, <2>5
  <2> QED BY <2>6, OrderParts DEF Marks
<1>5. Low(x, g, unsyncEpochs, instData)
  BY <1>3, <1>4
<1> QED BY <1>5 DEF x, d

\* The unsynced epochs of a table are above what its database has marked.
LEMMA UnsyncAbove ==
  ASSUME NodeOK, NEW g \in Group, NEW x, Low(x, g, unsyncEpochs, instData), NEW t, t \in TablesOf[g], NEW e, HasEpoch(tableData, t, e)
  PROVE  x < e
<1>1. PICK u \in unsyncEpochs : u.epoch = e /\ t \in u.tables
  BY Parts DEF UploaderOK, EpochsKnown, HasEpoch
<1>2. PICK h \in Group : EpochOf(u, h, barriers[h], tables[h], lastEpoch[h], mode[h])
  BY Parts DEF Epochs
<1>3. h = g
  BY <1>1, <1>2, OneGroup DEF EpochOf
<1> QED BY <1>1, <1>2, <1>3 DEF EpochOf, Of, Low

\* What an instance has sealed belongs to an unsynced epoch of its table.
LEMMA SealedUnsynced ==
  ASSUME NodeOK, DataOK, OrderOK, NEW i \in DOMAIN instData, NEW k \in DOMAIN instData[i].sealed
  PROVE  HasEpoch(tableData, TableOf[i], instData[i].sealed[k].epoch)
<1> DEFINE x == instData[i].sealed[k]
<1>1. EpochShape(x) /\ x.imms # <<>>
  <2>1. InstShape(instData[i]) /\ InstOrder(i, instData[i], mode, barriers, actor)
    BY OrderParts, DataParts DEF Instances
  <2> QED BY <2>1 DEF InstShape, InstOrder
<1>2. x = instData[i].sealed[k]
  OBVIOUS
<1> HIDE DEF x
<1>3. IsSeq(x.imms)
  BY <1>1 DEF EpochShape
<1>4. 1 \in DOMAIN x.imms
  <2>1. Len(x.imms) \in Nat /\ Len(x.imms) > 0
    BY <1>1, <1>3, SeqTail
  <2> QED BY <1>3, <2>1, SeqDomain
<1> DEFINE w == Rec(i, x.imms[1])
<1>5. w.table = TableOf[i] /\ w.epoch = x.epoch
  BY <1>1, <1>4 DEF Rec, EpochShape
<1>6. InImms(w, i, x.imms)
  BY <1>4 DEF InImms
<1> HIDE DEF w
<1>7. Pending(w, instData, tasks, spilledData)
  BY <1>2, <1>6 DEF Pending, PendingInst, InInst
<1>8. HasEpoch(tableData, w.table, w.epoch)
  BY <1>7, DataParts DEF PendingOK
<1> QED BY <1>2, <1>5, <1>8

\* The invariants give the order of the stages of every table.
LEMMA StagesInOrder ==
  ASSUME NodeOK, DataOK, OrderOK
  PROVE  StagesOrdered
<1> SUFFICES ASSUME NEW t \in DOMAIN tableData
             PROVE  LET d == tableData[t]
                        x == NewestSync(d)
                    IN  /\ Descending(d.syncing)
                        /\ d.syncing # <<>> => d.synced < Last(d.syncing)
                        /\ \A e \in d.unsync : e > x
                        /\ \A y \in d.spill : y[1] > x
                        /\ \A i \in InstancesOf({t}) :
                             /\ instData[i].current.epoch > x
                             /\ \A k \in DOMAIN instData[i].sealed : instData[i].sealed[k].epoch > x
  BY DEF StagesOrdered, NewestSync
<1> DEFINE d == tableData[t]
           x == NewestSync(d)
<1>1. PICK g \in Group : t \in TablesOf[g]
  BY OrderParts DEF Homes
<1>2. Low(x, g, unsyncEpochs, instData)
  BY <1>1, NewestLow
<1>3. TableOrder(d)
  BY OrderParts DEF Syncs
<1>4. d = tableData[t]
  OBVIOUS
<1> HIDE DEF d, x
<1>5. Descending(d.syncing)
  BY <1>3 DEF TableOrder
<1>6. d.syncing # <<>> => d.synced < Last(d.syncing)
  BY <1>3, SeqFront DEF TableOrder
<1>7. \A e : HasEpoch(tableData, t, e) => x < e
  BY <1>1, <1>2, UnsyncAbove
<1>8. \A e \in d.unsync : e > x
  BY <1>4, <1>7 DEF HasEpoch
<1>9. \A y \in d.spill : y[1] > x
  BY <1>4, <1>8, Parts DEF UploaderOK, SpillsExist
<1>10. ASSUME NEW i \in InstancesOf({t})
       PROVE  /\ instData[i].current.epoch > x
              /\ \A k \in DOMAIN instData[i].sealed : instData[i].sealed[k].epoch > x
  <2>1. i \in DOMAIN instData /\ TableOf[i] = t
    BY <1>10 DEF InstancesOf
  <2>2. x < instData[i].current.epoch
    BY <1>1, <1>2, <2>1 DEF Low
  <2>3. ASSUME NEW k \in DOMAIN instData[i].sealed PROVE instData[i].sealed[k].epoch > x
    BY <1>7, <2>1, <2>3, SealedUnsynced
  <2> QED BY <2>2, <2>3
<1> QED BY <1>5, <1>6, <1>8, <1>9, <1>10 DEF d, x

\* For every set of databases, tables and instances, the order that struct HummockUploader documents: the epochs of a
\* table that are synced, being synced and unsynced follow each other, in its tables and in its instances, and no sync
\* overtakes an epoch that an instance writes, whichever actors stop and databases fail, restart or are reset.
THEOREM NodeStagesOrdered == Spec => []StagesOrdered
<1>1. Init => NodeOK /\ DataOK /\ OrderOK
  BY InitialState, DataInitially, OrderInitially
<1>2. NodeOK /\ DataOK /\ OrderOK /\ [Next]_vars => NodeOK' /\ DataOK' /\ OrderOK'
  BY NodeStep, DataStep, OrderStep
<1>3. NodeOK /\ DataOK /\ OrderOK => StagesOrdered
  BY StagesInOrder
<1> QED BY <1>1, <1>2, <1>3, PTL DEF Spec

=============================================================================
