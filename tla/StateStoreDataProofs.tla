------------------------ MODULE StateStoreDataProofs ------------------------
(***************************************************************************)
(* More proofs about the state store of a node: where the data of every    *)
(* write is, from the actor that writes it to the version that holds it,   *)
(* and that the node therefore implements DurableState.                    *)
(*                                                                         *)
(* First what the parts of the uploader hold (an instance, a task, a sync, *)
(* an answer) and how the operators change it; then the inductive          *)
(* invariant DataOK, relative to NodeOK of StateStoreProofs, with a lemma  *)
(* for each action; then the refinement.                                   *)
(***************************************************************************)
EXTENDS StateStoreProofs


-----------------------------------------------------------------------------
\* The data of an instance.

EpochShape(x) ==
  /\ x = [epoch |-> x.epoch, imms |-> x.imms] /\ x.epoch \in Nat /\ IsSeq(x.imms)
  /\ \A k \in DOMAIN x.imms : x.imms[k].epoch = x.epoch

InstShape(d) ==
  /\ d = [current |-> d.current, sealed |-> d.sealed, flushing |-> d.flushing, destroyed |-> d.destroyed]
  /\ EpochShape(d.current) /\ IsSeq(d.sealed) /\ \A k \in DOMAIN d.sealed : EpochShape(d.sealed[k])
  /\ d.destroyed \in BOOLEAN

PartsOK(c, s, x) ==
  EpochShape(c) /\ IsSeq(s) /\ (\A k \in DOMAIN s : EpochShape(s[k])) /\ x \in BOOLEAN

\* An instance with these fields.
InstOf(c, s, f, x) == [current |-> c, sealed |-> s, flushing |-> f, destroyed |-> x]

\* The fields of an instance.
LEMMA InstFields ==
  ASSUME NEW d, InstShape(d)
  PROVE  /\ d = InstOf(d.current, d.sealed, d.flushing, d.destroyed)
         /\ PartsOK(d.current, d.sealed, d.destroyed)
BY DEF InstShape, InstOf, PartsOK

\* Fields that are put together are those of an instance.
LEMMA InstMade ==
  ASSUME NEW d, NEW c, NEW s, NEW f, NEW x, d = InstOf(c, s, f, x), PartsOK(c, s, x)
  PROVE  InstShape(d) /\ d.current = c /\ d.sealed = s /\ d.destroyed = x
<1>1. d.current = c /\ d.sealed = s /\ d.flushing = f /\ d.destroyed = x
  BY DEF InstOf
<1>2. d = [current |-> c, sealed |-> s, flushing |-> f, destroyed |-> x]
  BY DEF InstOf
<1> QED BY <1>1, <1>2 DEF InstShape, PartsOK

\* Fields of an instance are replaced.
WithCurrent(d, v) == [d EXCEPT !.current = v]
WithSealed(d, v) == [d EXCEPT !.sealed = v]
WithFlushing(d, v) == [d EXCEPT !.flushing = v]
WithDestroyed(d, v) == [d EXCEPT !.destroyed = v]

\* The other fields stay.
LEMMA InstReplaced ==
  ASSUME NEW d, NEW c, NEW s, NEW f, NEW x, d = InstOf(c, s, f, x), NEW v
  PROVE  /\ WithCurrent(d, v) = InstOf(v, s, f, x) /\ WithSealed(d, v) = InstOf(c, v, f, x)
         /\ WithFlushing(d, v) = InstOf(c, s, v, x) /\ WithDestroyed(d, v) = InstOf(c, s, f, v)
BY DEF InstOf, WithCurrent, WithSealed, WithFlushing, WithDestroyed

\* An epoch without imms.
LEMMA EmptyEpoch ==
  ASSUME NEW e \in Nat
  PROVE  EpochShape(EpochData(e)) /\ EpochData(e).epoch = e /\ EpochData(e).imms = <<>>
<1>1. IsSeq(<<>>) /\ DOMAIN <<>> = {}
  BY DEF IsSeq
<1> QED BY <1>1 DEF EpochShape, EpochData

\* No imm is in the empty sequence.
LEMMA NoImms ==
  ASSUME NEW w, NEW i
  PROVE  ~InImms(w, i, <<>>)
BY DEF InImms

\* init of an instance.
LEMMA InstNew ==
  ASSUME NEW e \in Nat
  PROVE  /\ InstShape(NewInstance(e)) /\ NewInstance(e).current = EpochData(e)
         /\ NewInstance(e).destroyed = FALSE /\ \A w, i : ~InInst(w, i, NewInstance(e))
<1>1. NewInstance(e) = InstOf(EpochData(e), <<>>, <<>>, FALSE)
  BY DEF NewInstance, InstOf
<1>2. IsSeq(<<>>) /\ DOMAIN <<>> = {}
  BY DEF IsSeq
<1>3. InstShape(NewInstance(e)) /\ NewInstance(e).current = EpochData(e) /\ NewInstance(e).sealed = <<>>
      /\ NewInstance(e).destroyed = FALSE
  <2> DEFINE x == FALSE
  <2>1. PartsOK(EpochData(e), <<>>, x)
    BY <1>2, EmptyEpoch DEF PartsOK
  <2>2. NewInstance(e) = InstOf(EpochData(e), <<>>, <<>>, x)
    BY <1>1
  <2>3. InstShape(NewInstance(e)) /\ NewInstance(e).current = EpochData(e) /\ NewInstance(e).sealed = <<>>
        /\ NewInstance(e).destroyed = x
    <3> HIDE DEF x
    <3> QED BY <2>1, <2>2, InstMade
  <2> QED BY <2>3
<1>4. \A w, i : ~InInst(w, i, NewInstance(e))
  BY <1>2, <1>3, EmptyEpoch, NoImms DEF InInst
<1> QED BY <1>3, <1>4

\* An epoch with one more imm.
LEMMA ImmFirst ==
  ASSUME NEW c, EpochShape(c), NEW imm, imm.epoch = c.epoch
  PROVE  LET c2 == [epoch |-> c.epoch, imms |-> <<imm>> \o c.imms]
         IN  /\ EpochShape(c2) /\ \A w, i : InImms(w, i, c2.imms) <=> InImms(w, i, c.imms) \/ w = Rec(i, imm)
<1> DEFINE r == <<imm>> \o c.imms
           n == Len(c.imms)
           c2 == [epoch |-> c.epoch, imms |-> r]
<1>1. IsSeq(c.imms)
  BY DEF EpochShape
<1>2. n \in Nat /\ DOMAIN c.imms = 1..n
  BY <1>1, SeqDomain
<1>3. IsSeq(r) /\ Len(r) = n + 1 /\ r[1] = imm /\ \A k \in 1..n : r[k + 1] = c.imms[k]
  BY <1>1, SeqCons
<1>4. DOMAIN r = 1..(n + 1)
  BY <1>3, SeqDomain
<1> HIDE DEF r, n
<1>5. /\ \A k \in DOMAIN r : r[k] = imm \/ \E j \in DOMAIN c.imms : r[k] = c.imms[j]
      /\ \A j \in DOMAIN c.imms : \E k \in DOMAIN r : r[k] = c.imms[j]
      /\ \E k \in DOMAIN r : r[k] = imm
  <2>1. ASSUME NEW k \in DOMAIN r PROVE r[k] = imm \/ \E j \in DOMAIN c.imms : r[k] = c.imms[j]
    <3>1. k = 1 \/ (k - 1 \in 1..n /\ k = (k - 1) + 1)
      BY <1>2, <1>4
    <3> QED BY <3>1, <1>2, <1>3
  <2>2. ASSUME NEW j \in DOMAIN c.imms PROVE \E k \in DOMAIN r : r[k] = c.imms[j]
    <3>1. j + 1 \in DOMAIN r /\ r[j + 1] = c.imms[j]
      BY <1>2, <1>3, <1>4
    <3> QED BY <3>1
  <2>3. 1 \in DOMAIN r
    BY <1>2, <1>4
  <2> QED BY <2>1, <2>2, <2>3, <1>3
<1>6. c2.epoch = c.epoch /\ c2.imms = r /\ c2 = [epoch |-> c2.epoch, imms |-> c2.imms]
  OBVIOUS
<1> HIDE DEF c2
<1>7. EpochShape(c2)
  BY <1>3, <1>5, <1>6 DEF EpochShape
<1>8. ASSUME NEW w, NEW i PROVE InImms(w, i, r) <=> InImms(w, i, c.imms) \/ w = Rec(i, imm)
  BY <1>5 DEF InImms
<1> QED BY <1>6, <1>7, <1>8 DEF c2, r

\* add_imm
AddedTo(d, imm) == [d EXCEPT !.current.imms = <<imm>> \o @]

\* The instance with one more imm.
LEMMA InstAdded ==
  ASSUME NEW d, InstShape(d), NEW imm, imm.epoch = d.current.epoch,
         NEW d2, d2 = AddedTo(d, imm)
  PROVE  /\ InstShape(d2) /\ d2.current.epoch = d.current.epoch /\ d2.destroyed = d.destroyed
         /\ \A w, i : InInst(w, i, d2) <=> InInst(w, i, d) \/ w = Rec(i, imm)
<1> DEFINE c == d.current
           c2 == [epoch |-> c.epoch, imms |-> <<imm>> \o c.imms]
<1>1. c = [epoch |-> c.epoch, imms |-> c.imms] /\ EpochShape(c)
  BY InstFields DEF EpochShape, PartsOK
<1>2. c2 = [c EXCEPT !.imms = <<imm>> \o @]
  <2> DEFINE r == <<imm>> \o c.imms
  <2>1. [c EXCEPT !.imms = <<imm>> \o @] = [c EXCEPT !.imms = r]
    OBVIOUS
  <2> HIDE DEF r, c
  <2>2. [c EXCEPT !.imms = r] = [epoch |-> c.epoch, imms |-> r]
    BY <1>1
  <2> QED BY <2>1, <2>2 DEF r
<1>3. d2 = WithCurrent(d, c2)
  BY <1>2 DEF AddedTo, WithCurrent
<1>4. EpochShape(c2) /\ c2.epoch = c.epoch
      /\ \A w, i : InImms(w, i, c2.imms) <=> InImms(w, i, c.imms) \/ w = Rec(i, imm)
  BY <1>1, ImmFirst
<1> HIDE DEF c2
<1>5. d2 = InstOf(c2, d.sealed, d.flushing, d.destroyed)
  <2>1. d = InstOf(d.current, d.sealed, d.flushing, d.destroyed)
    BY InstFields
  <2>2. WithCurrent(d, c2) = InstOf(c2, d.sealed, d.flushing, d.destroyed)
    BY <2>1, InstReplaced
  <2> QED BY <1>3, <2>2
<1>6. InstShape(d2) /\ d2.current = c2 /\ d2.sealed = d.sealed /\ d2.destroyed = d.destroyed
  <2>1. PartsOK(c2, d.sealed, d.destroyed)
    BY <1>4, InstFields DEF PartsOK
  <2> QED BY <1>5, <2>1, InstMade
<1> QED BY <1>4, <1>6 DEF InInst

\* Several fields are replaced at once.
LEMMA InstRebuilt ==
  ASSUME NEW d, NEW c, NEW s, NEW f, NEW x, d = InstOf(c, s, f, x), NEW c2, NEW s2, NEW f2
  PROVE  /\ WithSealed(WithCurrent(d, c2), s2) = InstOf(c2, s2, f, x)
         /\ WithFlushing(WithCurrent(WithSealed(d, s2), c2), f2) = InstOf(c2, s2, f2, x)
         /\ WithCurrent(WithFlushing(WithSealed(d, s2), f2), c2) = InstOf(c2, s2, f2, x)
<1>2. WithCurrent(d, c2) = InstOf(c2, s, f, x) /\ WithSealed(d, s2) = InstOf(c, s2, f, x)
  BY InstReplaced
<1>3. /\ WithSealed(WithCurrent(d, c2), s2) = InstOf(c2, s2, f, x)
      /\ WithCurrent(WithSealed(d, s2), c2) = InstOf(c2, s2, f, x)
      /\ WithFlushing(WithSealed(d, s2), f2) = InstOf(c, s2, f2, x)
  BY <1>2, InstReplaced
<1> QED BY <1>3, InstReplaced

\* An epoch in front of the sealed ones.
LEMMA SealedFirst ==
  ASSUME NEW s, IsSeq(s), \A k \in DOMAIN s : EpochShape(s[k]), NEW c, EpochShape(c)
  PROVE  /\ IsSeq(<<c>> \o s) /\ \A k \in DOMAIN (<<c>> \o s) : EpochShape((<<c>> \o s)[k])
         /\ \A w, i : (\E k \in DOMAIN (<<c>> \o s) : InImms(w, i, (<<c>> \o s)[k].imms))
                      <=> InImms(w, i, c.imms) \/ \E k \in DOMAIN s : InImms(w, i, s[k].imms)
<1> DEFINE r == <<c>> \o s
           n == Len(s)
<1>1. n \in Nat /\ DOMAIN s = 1..n
  BY SeqDomain
<1>2. IsSeq(r) /\ Len(r) = n + 1 /\ r[1] = c /\ \A k \in 1..n : r[k + 1] = s[k]
  BY SeqCons
<1>3. DOMAIN r = 1..(n + 1)
  BY <1>2, SeqDomain
<1> HIDE DEF r, n
<1>4. \A k \in DOMAIN r : r[k] = c \/ \E j \in DOMAIN s : r[k] = s[j]
  <2> SUFFICES ASSUME NEW k \in DOMAIN r PROVE r[k] = c \/ \E j \in DOMAIN s : r[k] = s[j]
    OBVIOUS
  <2>1. k = 1 \/ (k - 1 \in 1..n /\ k = (k - 1) + 1)
    BY <1>1, <1>3
  <2> QED BY <2>1, <1>1, <1>2
<1>5. \A j \in DOMAIN s : \E k \in DOMAIN r : r[k] = s[j]
  <2> SUFFICES ASSUME NEW j \in DOMAIN s PROVE \E k \in DOMAIN r : r[k] = s[j]
    OBVIOUS
  <2>1. j + 1 \in DOMAIN r /\ r[j + 1] = s[j]
    BY <1>1, <1>2, <1>3
  <2> QED BY <2>1
<1>6. \E k \in DOMAIN r : r[k] = c
  BY <1>1, <1>2, <1>3
<1>7. ASSUME NEW w, NEW i
      PROVE  (\E k \in DOMAIN r : InImms(w, i, r[k].imms))
             <=> InImms(w, i, c.imms) \/ \E k \in DOMAIN s : InImms(w, i, s[k].imms)
  BY <1>4, <1>5, <1>6
<1>8. \A k \in DOMAIN r : EpochShape(r[k])
  BY <1>4
<1> QED BY <1>2, <1>7, <1>8 DEF r

\* local_seal_epoch
LEMMA InstSealed ==
  ASSUME NEW d, InstShape(d), NEW next \in Nat, NEW d2, d2 = SealInstance(d, next)
  PROVE  /\ InstShape(d2) /\ d2.current = EpochData(next) /\ d2.destroyed = d.destroyed
         /\ \A w, i : InInst(w, i, d2) <=> InInst(w, i, d)
<1> DEFINE s2 == IF d.current.imms = <<>> THEN d.sealed ELSE <<d.current>> \o d.sealed
           c2 == EpochData(next)
<1>1. d2 = WithSealed(WithCurrent(d, c2), s2)
  BY DEF SealInstance, WithCurrent, WithSealed
<1>2. d = InstOf(d.current, d.sealed, d.flushing, d.destroyed) /\ PartsOK(d.current, d.sealed, d.destroyed)
  BY InstFields
<1>3. /\ IsSeq(s2) /\ \A k \in DOMAIN s2 : EpochShape(s2[k])
      /\ \A w, i : (\E k \in DOMAIN s2 : InImms(w, i, s2[k].imms))
                   <=> InImms(w, i, d.current.imms) \/ \E k \in DOMAIN d.sealed : InImms(w, i, d.sealed[k].imms)
  <2>1. CASE d.current.imms = <<>>
    BY <2>1, <1>2, NoImms DEF PartsOK
  <2>2. CASE d.current.imms # <<>>
    BY <2>2, <1>2, SealedFirst DEF PartsOK
  <2> QED BY <2>1, <2>2
<1> HIDE DEF s2, c2
<1>4. WithSealed(WithCurrent(d, c2), s2) = InstOf(c2, s2, d.flushing, d.destroyed)
  BY <1>2, InstRebuilt
<1>5. PartsOK(c2, s2, d.destroyed)
  BY <1>2, <1>3, EmptyEpoch DEF PartsOK, c2
<1>6. d2 = InstOf(c2, s2, d.flushing, d.destroyed)
  BY <1>1, <1>4
<1>7. InstShape(d2) /\ d2.current = c2 /\ d2.sealed = s2 /\ d2.destroyed = d.destroyed
  BY <1>5, <1>6, InstMade
<1>8. \A w, i : ~InImms(w, i, c2.imms)
  BY EmptyEpoch, NoImms DEF c2
<1> QED BY <1>3, <1>7, <1>8 DEF InInst, c2

\* A sequence that is not empty is its front and its last element.
LEMMA SeqFront ==
  ASSUME NEW s, IsSeq(s), s # <<>>
  PROVE  /\ IsSeq(Front(s)) /\ Len(s) \in DOMAIN s /\ Last(s) = s[Len(s)]
         /\ \A k \in DOMAIN Front(s) : k \in DOMAIN s /\ Front(s)[k] = s[k]
         /\ \A k \in DOMAIN s : k = Len(s) \/ k \in DOMAIN Front(s)
<1>1. PICK S : s \in Seq(S)
  BY DEF IsSeq
<1>2. Len(s) \in Nat /\ DOMAIN s = 1..Len(s) /\ Len(s) # 0
  BY <1>1
<1>3. Front(s) = SubSeq(s, 1, Len(s) - 1) /\ Last(s) = s[Len(s)]
  BY DEF Front, Last
<1>4. Front(s) \in Seq(S) /\ DOMAIN Front(s) = 1..(Len(s) - 1) /\ \A k \in 1..(Len(s) - 1) : Front(s)[k] = s[k]
  BY <1>1, <1>2, <1>3
<1> QED BY <1>2, <1>3, <1>4 DEF IsSeq

\* spill: the oldest epoch of an instance leaves it.
LEMMA InstSpilled ==
  ASSUME NEW d, InstShape(d), NEW d2, d2 = SpillInstance(d)
  PROVE  /\ InstShape(d2) /\ d2.current.epoch = d.current.epoch /\ d2.destroyed = d.destroyed
         /\ EpochShape(Spillable(d)) /\ (d.current.imms = <<>> => d2.current.imms = <<>>)
         /\ \A w, i : InInst(w, i, d) <=> InInst(w, i, d2) \/ InImms(w, i, Spillable(d).imms)
<1> DEFINE s == d.sealed
           s2 == IF s # <<>> THEN Front(s) ELSE s
           c2 == IF s # <<>> THEN d.current ELSE EpochData(d.current.epoch)
           f2 == Ids(Spillable(d).imms) \o d.flushing
<1>1. d2 = WithFlushing(WithCurrent(WithSealed(d, s2), c2), f2)
  BY DEF SpillInstance, WithCurrent, WithSealed, WithFlushing
<1>2. d = InstOf(d.current, s, d.flushing, d.destroyed) /\ PartsOK(d.current, s, d.destroyed)
  BY InstFields
<1>3. EpochShape(d.current) /\ d.current.epoch \in Nat /\ IsSeq(s) /\ d.destroyed \in BOOLEAN
      /\ \A k \in DOMAIN s : EpochShape(s[k])
  BY <1>2 DEF PartsOK, EpochShape
<1>4. /\ PartsOK(c2, s2, d.destroyed) /\ c2.epoch = d.current.epoch /\ EpochShape(Spillable(d))
      /\ d.current.imms = <<>> => c2.imms = <<>>
      /\ \A w, i : InImms(w, i, d.current.imms) \/ (\E k \in DOMAIN s : InImms(w, i, s[k].imms))
                   <=> \/ InImms(w, i, c2.imms) \/ \E k \in DOMAIN s2 : InImms(w, i, s2[k].imms)
                       \/ InImms(w, i, Spillable(d).imms)
  <2>1. CASE s # <<>>
    <3>1. s2 = Front(s) /\ c2 = d.current /\ Spillable(d) = s[Len(s)]
      BY <2>1, <1>3, SeqFront DEF Spillable
    <3> HIDE DEF s, s2, c2
    <3>2. /\ IsSeq(s2) /\ Len(s) \in DOMAIN s
          /\ \A k \in DOMAIN s2 : k \in DOMAIN s /\ s2[k] = s[k]
          /\ \A k \in DOMAIN s : k = Len(s) \/ k \in DOMAIN s2
      BY <2>1, <3>1, <1>3, SeqFront
    <3>3. PartsOK(c2, s2, d.destroyed) /\ EpochShape(Spillable(d))
      BY <3>1, <3>2, <1>3 DEF PartsOK
    <3>4. ASSUME NEW w, NEW i
          PROVE  (\E k \in DOMAIN s : InImms(w, i, s[k].imms))
                 <=> (\E k \in DOMAIN s2 : InImms(w, i, s2[k].imms)) \/ InImms(w, i, s[Len(s)].imms)
      BY <3>2
    <3> QED BY <3>1, <3>3, <3>4
  <2>2. CASE s = <<>>
    <3>1. s2 = s /\ c2 = EpochData(d.current.epoch) /\ Spillable(d) = d.current
      BY <2>2 DEF Spillable
    <3>2. EpochShape(c2) /\ c2.epoch = d.current.epoch /\ c2.imms = <<>>
      BY <3>1, <1>3, EmptyEpoch
    <3> HIDE DEF s, s2, c2
    <3>3. PartsOK(c2, s2, d.destroyed)
      BY <3>1, <3>2, <1>3 DEF PartsOK
    <3>4. \A w, i : ~InImms(w, i, c2.imms)
      BY <3>2, NoImms
    <3> QED BY <3>1, <3>2, <3>3, <3>4, <1>3
  <2> QED BY <2>1, <2>2
<1> HIDE DEF s2, c2, f2
<1>5. WithFlushing(WithCurrent(WithSealed(d, s2), c2), f2) = InstOf(c2, s2, f2, d.destroyed)
  BY <1>2, InstRebuilt
<1>6. d2 = InstOf(c2, s2, f2, d.destroyed)
  BY <1>1, <1>5
<1>7. InstShape(d2) /\ d2.current = c2 /\ d2.sealed = s2 /\ d2.destroyed = d.destroyed
  BY <1>4, <1>6, InstMade
<1> QED BY <1>4, <1>7 DEF InInst

\* What sync takes out of an instance: the imms of its sealed epochs up to e.
LEMMA SealedBeforeIs ==
  ASSUME NEW d, InstShape(d), NEW e \in Nat
  PROVE  \A w, i : InImms(w, i, SealedBefore(d, e))
                   <=> \E k \in DOMAIN d.sealed : d.sealed[k].epoch <= e /\ InImms(w, i, d.sealed[k].imms)
<1> DEFINE s == d.sealed
           n == Len(s)
           ss == [k \in DOMAIN s |-> IF s[k].epoch <= e THEN s[k].imms ELSE <<>>]
           r == FlattenSeq(ss)
<1>1. IsSeq(s) /\ \A k \in DOMAIN s : EpochShape(s[k])
  BY DEF InstShape
<1>2. n \in Nat /\ DOMAIN s = 1..n
  BY <1>1, SeqDomain
<1> SUFFICES \A w, i : InImms(w, i, r) <=> \E k \in DOMAIN s : s[k].epoch <= e /\ InImms(w, i, s[k].imms)
  BY DEF SealedBefore
<1> HIDE DEF s, n
<1>3. IsSeq(<<>>)
  BY DEF IsSeq
<1>4. /\ ss = [k \in 1..n |-> ss[k]]
      /\ \A k \in 1..n : ss[k] = IF s[k].epoch <= e THEN s[k].imms ELSE <<>>
  BY <1>2
<1> HIDE DEF ss
<1>5. \A k \in 1..n : IsSeq(ss[k])
  BY <1>1, <1>2, <1>3, <1>4 DEF EpochShape
<1>6. IsSeq(ss) /\ Len(ss) = n
  BY <1>2, <1>4, SeqMap
<1>7. Elements(ss, n, r)
  BY <1>5, <1>6, FlattenIs
<1> HIDE DEF r
<1> TAKE w, i
<1>8. InImms(w, i, r) <=> \E k \in 1..n : InImms(w, i, ss[k])
  BY <1>7 DEF Elements, InImms
<1>9. \A k \in 1..n : InImms(w, i, ss[k]) <=> s[k].epoch <= e /\ InImms(w, i, s[k].imms)
  <2> SUFFICES ASSUME NEW k \in 1..n PROVE InImms(w, i, ss[k]) <=> s[k].epoch <= e /\ InImms(w, i, s[k].imms)
    OBVIOUS
  <2>1. CASE s[k].epoch <= e
    BY <2>1, <1>4
  <2>2. CASE ~(s[k].epoch <= e)
    BY <2>2, <1>4, NoImms
  <2> QED BY <2>1, <2>2
<1> QED BY <1>2, <1>8, <1>9

\* The current epoch of an instance that a sync has overtaken.
LEMMA OvertakenEpoch ==
  EpochShape(EpochData(0)) /\ EpochData(0).imms = <<>>
BY EmptyEpoch

\* sync of an instance.  It loses nothing unless the sync overtakes it.
LEMMA InstSynced ==
  ASSUME NEW d, InstShape(d), NEW e \in Nat, NEW d2, d2 = SyncInstance(d, e)
  PROVE  /\ InstShape(d2) /\ d2.destroyed = d.destroyed
         /\ e < d.current.epoch => d2.current = d.current
         /\ d.current.imms = <<>> => d2.current.imms = <<>>
         /\ \A k \in DOMAIN d2.sealed : \E j \in DOMAIN d.sealed : d2.sealed[k] = d.sealed[j] /\ d2.sealed[k].epoch > e
         /\ \A j \in DOMAIN d.sealed : d.sealed[j].epoch > e => \E k \in DOMAIN d2.sealed : d2.sealed[k] = d.sealed[j]
<1> DEFINE s == d.sealed
           I == {k \in DOMAIN s : s[k].epoch > e}
           s2 == Keep(s, I)
           c2 == IF d.current.epoch <= e THEN EpochData(0) ELSE d.current
           f2 == Ids(SealedBefore(d, e)) \o d.flushing
<1>1. d2 = WithCurrent(WithFlushing(WithSealed(d, s2), f2), c2)
  BY DEF SyncInstance, WithCurrent, WithSealed, WithFlushing
<1>2. d = InstOf(d.current, s, d.flushing, d.destroyed) /\ PartsOK(d.current, s, d.destroyed)
  BY InstFields
<1>3. EpochShape(d.current) /\ d.current.epoch \in Nat /\ IsSeq(s) /\ d.destroyed \in BOOLEAN
      /\ \A k \in DOMAIN s : EpochShape(s[k]) /\ s[k].epoch \in Nat
  BY <1>2 DEF PartsOK, EpochShape
<1>4. EpochShape(c2) /\ (e < d.current.epoch => c2 = d.current) /\ (d.current.imms = <<>> => c2.imms = <<>>)
  <2>1. CASE d.current.epoch <= e
    BY <2>1, <1>3, OvertakenEpoch
  <2>2. CASE ~(d.current.epoch <= e)
    BY <2>2, <1>3
  <2> QED BY <2>1, <2>2
<1>5. IsSeq(s2) /\ \E f \in [DOMAIN s2 -> DOMAIN s] :
                     /\ \A j, k \in DOMAIN s2 : j < k => f[j] < f[k]
                     /\ \A k \in DOMAIN s2 : f[k] \in I /\ s2[k] = s[f[k]]
                     /\ \A m \in I : \E k \in DOMAIN s2 : f[k] = m
  <2>1. I \subseteq DOMAIN s
    OBVIOUS
  <2> HIDE DEF s, I
  <2> QED BY <2>1, <1>3, KeepFacts
<1>6. /\ \A k \in DOMAIN s2 : \E j \in DOMAIN s : s2[k] = s[j] /\ s2[k].epoch > e
      /\ \A j \in DOMAIN s : s[j].epoch > e => \E k \in DOMAIN s2 : s2[k] = s[j]
  <2> HIDE DEF s, s2
  <2> QED BY <1>5
<1> HIDE DEF s2, c2, f2
<1>7. WithCurrent(WithFlushing(WithSealed(d, s2), f2), c2) = InstOf(c2, s2, f2, d.destroyed)
  BY <1>2, InstRebuilt
<1>8. PartsOK(c2, s2, d.destroyed)
  BY <1>3, <1>4, <1>5, <1>6 DEF PartsOK
<1>9. d2 = InstOf(c2, s2, f2, d.destroyed)
  BY <1>1, <1>7
<1>10. InstShape(d2) /\ d2.current = c2 /\ d2.sealed = s2 /\ d2.destroyed = d.destroyed
  BY <1>8, <1>9, InstMade
<1> QED BY <1>4, <1>6, <1>10

\* Where the imms of a synced instance are.
LEMMA SyncedImms ==
  ASSUME NEW d, InstShape(d), NEW e \in Nat, NEW d2, d2 = SyncInstance(d, e), NEW w, NEW i
  PROVE  /\ e < d.current.epoch \/ d.current.imms = <<>> =>
              (InInst(w, i, d) <=> InInst(w, i, d2) \/ InImms(w, i, SealedBefore(d, e)))
         /\ InImms(w, i, SealedBefore(d, e)) => InInst(w, i, d) /\ w.epoch <= e
         /\ e < d.current.epoch \/ d.current.imms = <<>> => (InInst(w, i, d2) => w.epoch > e)
<1>1. /\ InstShape(d2)
      /\ e < d.current.epoch => d2.current = d.current
      /\ d.current.imms = <<>> => d2.current.imms = <<>>
      /\ \A k \in DOMAIN d2.sealed : \E j \in DOMAIN d.sealed : d2.sealed[k] = d.sealed[j] /\ d2.sealed[k].epoch > e
      /\ \A j \in DOMAIN d.sealed : d.sealed[j].epoch > e => \E k \in DOMAIN d2.sealed : d2.sealed[k] = d.sealed[j]
  BY InstSynced
<1>2. InImms(w, i, SealedBefore(d, e))
      <=> \E k \in DOMAIN d.sealed : d.sealed[k].epoch <= e /\ InImms(w, i, d.sealed[k].imms)
  BY SealedBeforeIs
<1>3. /\ EpochShape(d.current) /\ d.current.epoch \in Nat
      /\ \A k \in DOMAIN d.sealed : EpochShape(d.sealed[k]) /\ d.sealed[k].epoch \in Nat
  BY DEF InstShape, EpochShape
<1>4. ASSUME NEW c, EpochShape(c), InImms(w, i, c.imms) PROVE w.epoch = c.epoch
  BY <1>4 DEF InImms, EpochShape, Rec
<1>5. e < d.current.epoch \/ d.current.imms = <<>> =>
        /\ InImms(w, i, d2.current.imms) <=> InImms(w, i, d.current.imms)
        /\ InImms(w, i, d2.current.imms) => w.epoch > e
  BY <1>1, <1>3, <1>4, NoImms
<1>6. InImms(w, i, SealedBefore(d, e)) => InInst(w, i, d) /\ w.epoch <= e
  BY <1>2, <1>3, <1>4 DEF InInst
<1>7. (\E k \in DOMAIN d.sealed : InImms(w, i, d.sealed[k].imms))
      <=> (\E k \in DOMAIN d2.sealed : InImms(w, i, d2.sealed[k].imms)) \/ InImms(w, i, SealedBefore(d, e))
  BY <1>1, <1>2, <1>3
<1>8. (\E k \in DOMAIN d2.sealed : InImms(w, i, d2.sealed[k].imms)) => w.epoch > e
  BY <1>1, <1>3, <1>4
<1> QED BY <1>5, <1>6, <1>7, <1>8 DEF InInst

\* may_destroy_instance and ack_flushed change no imms.
LEMMA InstMarked ==
  ASSUME NEW d, InstShape(d), NEW v, NEW x \in BOOLEAN, NEW d2, d2 = WithFlushing(d, v) \/ d2 = WithDestroyed(d, x)
  PROVE  /\ InstShape(d2) /\ d2.current = d.current /\ d2.sealed = d.sealed
         /\ d2 = WithFlushing(d, v) => d2.destroyed = d.destroyed
         /\ \A w, i : InInst(w, i, d2) <=> InInst(w, i, d)
<1>1. d = InstOf(d.current, d.sealed, d.flushing, d.destroyed) /\ PartsOK(d.current, d.sealed, d.destroyed)
  BY InstFields
<1>2. /\ WithFlushing(d, v) = InstOf(d.current, d.sealed, v, d.destroyed)
      /\ WithDestroyed(d, x) = InstOf(d.current, d.sealed, d.flushing, x)
  BY <1>1, InstReplaced
<1>3. PartsOK(d.current, d.sealed, x)
  BY <1>1 DEF PartsOK
<1>4. InstShape(d2) /\ d2.current = d.current /\ d2.sealed = d.sealed /\ (d2 = WithFlushing(d, v) => d2.destroyed = d.destroyed)
  <2>1. CASE d2 = WithFlushing(d, v)
    BY <2>1, <1>1, <1>2, InstMade
  <2>2. CASE d2 = WithDestroyed(d, x) /\ d2 # WithFlushing(d, v)
    BY <2>2, <1>2, <1>3, InstMade
  <2> QED BY <2>1, <2>2
<1> QED BY <1>4 DEF InInst

-----------------------------------------------------------------------------
\* The actors and the data they have written.  Together with NodeOK these parts are inductive.

ActorState == {"none", "spawned", "waiting", "running", "stopping", "aborted", "dropping"}

Live(a) == a \in {"spawned", "waiting", "running", "stopping"}

\* A live actor i, whose newest epoch is e, among the barriers q of its database: it has yet to
\* collect all barriers after e, up to the one that stops it.
ActorOf(i, a, e, q, last, tb) ==
  /\ e \in Nat /\ e <= last
  /\ \A k \in DOMAIN q : q[k].curr > e => i \in q[k].remaining \/ \E j \in DOMAIN q : j < k /\ i \in q[j].stop
  /\ \A k \in DOMAIN q : i \in q[k].stop => i \in q[k].remaining /\ (q[k].curr > e \/ a = "stopping")
  /\ (\A k \in DOMAIN q : i \notin q[k].stop) => TableOf[i] \in tb

Actors(ac, ep, md, br, le, tb) ==
  /\ ac \in [Instance -> ActorState] /\ DOMAIN ep = Instance
  /\ \A i \in Instance : ac[i] # "none" => GroupOf[i] \in Group /\ TableOf[i] \in TablesOf[GroupOf[i]]
  /\ \A i \in Instance : ac[i] \in {"aborted", "dropping"} => md[GroupOf[i]] = "suspended"
  /\ \A i \in Instance : Live(ac[i]) =>
       /\ md[GroupOf[i]] = "running"
       /\ ActorOf(i, ac[i], ep[i].curr, br[GroupOf[i]], le[GroupOf[i]], tb[GroupOf[i]])

\* Barriers lead to a later epoch and go to the actors of their database.
Forward(br) ==
  \A g \in Group : \A k \in DOMAIN br[g] :
    /\ br[g][k].prev \in Nat /\ br[g][k].prev < br[g][k].curr
    /\ \A i \in br[g][k].remaining : TableOf[i] \in TablesOf[g]

\* Until its Update or Drop, a database has only the actors it started with and none that stops.
Unchanged(cm, md, g) == md[g] = "running" /\ cm[g].cmd \in {"none", "Pause"}

Commands(cm, md, br, ac) ==
  \A g \in Group : Unchanged(cm, md, g) =>
    /\ \A k \in DOMAIN br[g] : br[g][k].stop = {}
    /\ \A i \in Instance : TableOf[i] \in TablesOf[g] /\ ac[i] # "none" => i \in Originals

Bounds(cm, le) ==
  DOMAIN cm = Group /\ \A g \in Group : le[g] <= MaxEpoch[g] + 1 /\ (cm[g].cmd = "Update" => le[g] <= MaxEpoch[g])

\* Epoch e of table t is unsynced.
HasEpoch(td, t, e) == t \in DOMAIN td /\ e \in td[t].unsync

\* The epochs that actors write, now or after a barrier in flight, are unsynced.
Unsynced(wk, ac, ep, br, td) ==
  wk => /\ \A i \in Instance : ac[i] \in {"spawned", "waiting", "running"} => HasEpoch(td, TableOf[i], ep[i].curr)
        /\ \A g \in Group : \A k \in DOMAIN br[g] : \A i \in br[g][k].remaining \ br[g][k].stop :
             HasEpoch(td, TableOf[i], br[g][k].curr)

\* The uploader's side of an actor.
InstanceOf(a, e, d) ==
  /\ a \notin {"spawned", "waiting"}
  /\ a = "running" => ~d.destroyed /\ d.current.epoch = e
  /\ a \in {"none", "stopping"} => d.current.imms = <<>>

Instances(wk, ac, ep, ins) ==
  /\ \A i \in DOMAIN ins : i \in Instance /\ InstShape(ins[i]) /\ InstanceOf(ac[i], ep[i].curr, ins[i])
  /\ wk => \A i \in Instance : ac[i] = "running" => i \in DOMAIN ins

Fresh(cm, md, ins) ==
  \A g \in Group : Unchanged(cm, md, g) =>
    \A i \in DOMAIN ins : TableOf[i] \in TablesOf[g] => i \in Originals

\* Nothing is left of a database that was cleared.
Gone(md, ins, sy, ac) ==
  \A g \in Group : md[g] = "cleared" =>
    /\ \A i \in DOMAIN ins : TableOf[i] \notin TablesOf[g]
    /\ \A k \in DOMAIN sy : sy[k].tables \cap TablesOf[g] = {}
    /\ \A i \in Instance : TableOf[i] \in TablesOf[g] => ac[i] = "none"

\* Epoch e is over in database g: everything that is to come is later.
Over(e, g, md, le, q, ac, ep) ==
  /\ e \in Nat /\ e <= le[g] /\ (md[g] = "running" => e < le[g])
  /\ \A k \in DOMAIN q : e < q[k].curr /\ (q[k].kind = "checkpoint" => e < q[k].prev)
  /\ \A i \in Instance : Live(ac[i]) /\ GroupOf[i] = g => e < ep[i].curr

Floors(md, le, br, ac, ep, vs, ans, sy) ==
  \A g \in Group :
    /\ Over(vs.epoch[g], g, md, le, br[g], ac, ep)
    /\ \A e : HasStage(g, e, ans, sy) => vs.epoch[g] < e /\ Over(e, g, md, le, br[g], ac, ep)

\* What is not yet in a sync was written in an epoch that is not yet synced.
PendingOK(wr, ins, tk, sp, td) ==
  /\ \A w : Pending(w, ins, tk, sp) => w \in wr /\ HasEpoch(td, w.table, w.epoch)
  /\ \A x, w : IsSpill(x, tk, sp) /\ InInput(w, x.input) =>
       w.table \in x.tables /\ <<w.epoch, x.id>> \in td[w.table].spill

\* A sync holds writes of its database up to its epoch, ...
StageData(wr, ans, sy, tk) ==
  \A g \in Group : \A w, e : InStage(w, g, e, ans, sy, tk) => w \in wr /\ w.table \in TablesOf[g] /\ w.epoch <= e

\* ... and of a running database, together with those before it, all that are not yet durable.
StageFull(md, vs, wr, ans, sy, tk) ==
  \A g \in Group : md[g] = "running" =>
    \A e : HasStage(g, e, ans, sy) =>
      \A w \in wr : w.table \in TablesOf[g] /\ vs.epoch[g] < w.epoch /\ w.epoch <= e =>
        \E f : f <= e /\ HasStage(g, f, ans, sy) /\ InStage(w, g, f, ans, sy, tk)

\* No write of a running database is lost.
AllData(wk, md, vs, wr, ans, sy, tk, sp, ins) ==
  \A g \in Group : wk /\ md[g] = "running" =>
    \A w \in wr : w.table \in TablesOf[g] =>
      \/ w.epoch <= vs.epoch[g]
      \/ Pending(w, ins, tk, sp)
      \/ \E e : HasStage(g, e, ans, sy) /\ InStage(w, g, e, ans, sy, tk)

\* The durable writes are those of the committed epochs.
Durability(wr, vs, next) ==
  /\ vs = [epoch |-> vs.epoch, data |-> vs.data] /\ vs.epoch \in [Group -> Nat]
  /\ next \in Nat /\ next > 0
  /\ \A w \in wr : w.id \in Nat /\ 0 < w.id /\ w.id < next /\ w.epoch \in Nat
  /\ \A w, x \in wr : w.id = x.id => w = x
  /\ \A id \in vs.data : id \in Nat /\ id < next
  /\ \A w \in wr : \A g \in Group : w.table \in TablesOf[g] => (w.id \in vs.data <=> w.epoch <= vs.epoch[g])

DataOK ==
  /\ Actors(actor, epoch, mode, barriers, lastEpoch, tables)
  /\ Forward(barriers)
  /\ Commands(command, mode, barriers, actor) /\ Bounds(command, lastEpoch)
  /\ Unsynced(working, actor, epoch, barriers, tableData)
  /\ Instances(working, actor, epoch, instData)
  /\ Fresh(command, mode, instData)
  /\ Gone(mode, instData, syncing, actor)
  /\ AnswersOK(answers, syncing)
  /\ Floors(mode, lastEpoch, barriers, actor, epoch, version, answers, syncing)
  /\ PendingOK(written, instData, tasks, spilledData, tableData)
  /\ StageData(written, answers, syncing, tasks)
  /\ StageFull(mode, version, written, answers, syncing, tasks)
  /\ AllData(working, mode, version, written, answers, syncing, tasks, spilledData, instData)
  /\ Durability(written, version, nextImm)

\* The database of an instance and of a table is unique.
LEMMA GroupIs ==
  ASSUME NEW i \in Instance, NEW g \in Group, TableOf[i] \in TablesOf[g]
  PROVE  GroupOf[i] = g
<1>1. GroupOf[i] \in Group /\ TableOf[i] \in TablesOf[GroupOf[i]]
  BY DEF GroupOf
<1> QED BY <1>1, GroupAssumption

\* Databases share no table.
LEMMA OneGroup ==
  ASSUME NEW g \in Group, NEW h \in Group, NEW t, t \in TablesOf[g], t \in TablesOf[h]
  PROVE  g = h
BY GroupAssumption

\* The places of a sequence with one more element.
LEMMA AppendPlaces ==
  ASSUME NEW q, IsSeq(q), NEW b
  PROVE  /\ IsSeq(Append(q, b))
         /\ \A k \in DOMAIN q : k \in DOMAIN Append(q, b) /\ Append(q, b)[k] = q[k] /\ k < Len(q) + 1 /\ k \in Nat
         /\ Len(q) + 1 \in DOMAIN Append(q, b) /\ Append(q, b)[Len(q) + 1] = b
         /\ \A k \in DOMAIN Append(q, b) : k \in DOMAIN q \/ k = Len(q) + 1
<1>1. Len(q) \in Nat /\ DOMAIN q = 1..Len(q)
  BY SeqDomain
<1>2. /\ IsSeq(Append(q, b)) /\ Len(Append(q, b)) = Len(q) + 1
      /\ Append(q, b)[Len(q) + 1] = b /\ \A k \in 1..Len(q) : Append(q, b)[k] = q[k]
  BY SeqAppend
<1>3. DOMAIN Append(q, b) = 1..(Len(q) + 1)
  BY <1>2, SeqDomain
<1> QED BY <1>1, <1>2, <1>3

\* A barrier is issued: the actor awaits it, unless it stops before.
AwaitsNext(i, q, b, tb, T) ==
  (\A k \in DOMAIN q : i \notin q[k].stop) =>
    i \in b.remaining /\ (i \in b.stop \/ (TableOf[i] \in tb => TableOf[i] \in T))

\* An actor and the next barrier.
LEMMA ActorAwaits ==
  ASSUME NEW i, NEW a, NEW e, NEW q, NEW b, NEW last \in Nat, NEW tb, NEW T, IsSeq(q),
         ActorOf(i, a, e, q, last, tb), b.curr = last + 1, i \in b.stop => i \in b.remaining,
         AwaitsNext(i, q, b, tb, T)
  PROVE  ActorOf(i, a, e, Append(q, b), b.curr, T)
<1> DEFINE r == Append(q, b)
           n == Len(q) + 1
<1>1. /\ \A k \in DOMAIN q : k \in DOMAIN r /\ r[k] = q[k] /\ k < n
      /\ n \in DOMAIN r /\ r[n] = b /\ \A k \in DOMAIN r : k \in DOMAIN q \/ k = n
  BY AppendPlaces
<1> HIDE DEF r, n
<1>2. e \in Nat /\ e <= b.curr
  BY DEF ActorOf
<1>3. ASSUME NEW k \in DOMAIN r, r[k].curr > e
      PROVE  i \in r[k].remaining \/ \E j \in DOMAIN r : j < k /\ i \in r[j].stop
  <2>1. CASE k \in DOMAIN q
    BY <2>1, <1>1, <1>3 DEF ActorOf
  <2>2. CASE k = n
    BY <2>2, <1>1 DEF AwaitsNext
  <2> QED BY <2>1, <2>2, <1>1
<1>4. ASSUME NEW k \in DOMAIN r, i \in r[k].stop
      PROVE  i \in r[k].remaining /\ (r[k].curr > e \/ a = "stopping")
  <2>1. CASE k \in DOMAIN q
    BY <2>1, <1>1, <1>4 DEF ActorOf
  <2>2. CASE k = n
    BY <2>2, <1>1, <1>4 DEF ActorOf
  <2> QED BY <2>1, <2>2, <1>1
<1>5. ASSUME \A k \in DOMAIN r : i \notin r[k].stop PROVE TableOf[i] \in T
  BY <1>1, <1>5 DEF ActorOf, AwaitsNext
<1> QED BY <1>2, <1>3, <1>4, <1>5 DEF ActorOf, r

\* A new actor starts with the barrier b.
LEMMA ActorSpawned ==
  ASSUME NEW i, NEW q, NEW b, NEW last \in Nat, NEW T, IsSeq(q), b.curr = last + 1,
         \A k \in DOMAIN q : q[k].curr \in Nat /\ q[k].curr <= last /\ i \notin q[k].stop,
         i \notin b.stop, TableOf[i] \in T
  PROVE  ActorOf(i, "spawned", b.curr, Append(q, b), b.curr, T)
<1> DEFINE r == Append(q, b)
           n == Len(q) + 1
<1>1. /\ \A k \in DOMAIN q : k \in DOMAIN r /\ r[k] = q[k]
      /\ n \in DOMAIN r /\ r[n] = b /\ \A k \in DOMAIN r : k \in DOMAIN q \/ k = n
  BY AppendPlaces
<1> HIDE DEF r, n
<1>2. \A k \in DOMAIN r : ~(r[k].curr > b.curr) /\ i \notin r[k].stop
  BY <1>1
<1> QED BY <1>2 DEF ActorOf, r

\* The first barrier is complete: nobody waits for it, so no actor stops at it.
LEMMA ActorPopped ==
  ASSUME NEW i, NEW a, NEW e, NEW q, NEW last, NEW tb, IsSeq(q), q # <<>>, q[1].remaining = {},
         ActorOf(i, a, e, q, last, tb)
  PROVE  ActorOf(i, a, e, Tail(q), last, tb) /\ (q[1].curr \in Nat => q[1].curr <= e)
<1> DEFINE r == Tail(q)
<1>1. Len(q) \in Nat /\ DOMAIN q = 1..Len(q) /\ 1 \in DOMAIN q
  BY SeqDomain, NonEmptySeq
<1>2. IsSeq(r) /\ Len(r) = Len(q) - 1 /\ \A k \in 1..Len(r) : r[k] = q[k + 1] /\ k + 1 \in 1..Len(q)
  BY SeqTail
<1>3. DOMAIN r = 1..Len(r)
  BY <1>2, SeqDomain
<1> HIDE DEF r
<1>4. /\ \A k \in DOMAIN r : k + 1 \in DOMAIN q /\ r[k] = q[k + 1] /\ k \in Nat
      /\ \A k \in DOMAIN q : k = 1 \/ (k - 1 \in DOMAIN r /\ r[k - 1] = q[k] /\ k \in Nat)
  BY <1>1, <1>2, <1>3
<1>5. i \notin q[1].stop
  BY <1>1 DEF ActorOf
<1>6. ASSUME NEW k \in DOMAIN r, r[k].curr > e
      PROVE  i \in r[k].remaining \/ \E j \in DOMAIN r : j < k /\ i \in r[j].stop
  <2>1. i \in q[k + 1].remaining \/ \E j \in DOMAIN q : j < k + 1 /\ i \in q[j].stop
    BY <1>4, <1>6 DEF ActorOf
  <2>2. CASE \E j \in DOMAIN q : j < k + 1 /\ i \in q[j].stop
    <3>1. PICK j \in DOMAIN q : j < k + 1 /\ i \in q[j].stop
      BY <2>2
    <3>2. j - 1 \in DOMAIN r /\ r[j - 1] = q[j] /\ j - 1 < k
      BY <3>1, <1>4, <1>5, <1>6
    <3> QED BY <3>1, <3>2
  <2> QED BY <2>1, <2>2, <1>4
<1>7. ASSUME NEW k \in DOMAIN r, i \in r[k].stop PROVE i \in r[k].remaining /\ (r[k].curr > e \/ a = "stopping")
  BY <1>4, <1>7 DEF ActorOf
<1>8. ASSUME \A k \in DOMAIN r : i \notin r[k].stop PROVE TableOf[i] \in tb
  BY <1>4, <1>5, <1>8 DEF ActorOf
<1>9. ~(q[1].curr > e)
  <2>1. ~\E j \in DOMAIN q : j < 1
    BY <1>1
  <2> QED BY <2>1, <1>1 DEF ActorOf
<1>10. e \in Nat /\ e <= last
  BY DEF ActorOf
<1> QED BY <1>6, <1>7, <1>8, <1>9, <1>10 DEF ActorOf, r

\* Barriers that other actors have collected.
SameFor(i, q, q2) ==
  /\ DOMAIN q2 = DOMAIN q
  /\ \A k \in DOMAIN q : /\ q2[k].curr = q[k].curr /\ q2[k].stop = q[k].stop
                         /\ i \in q2[k].remaining <=> i \in q[k].remaining

\* They are the same for this one.
LEMMA ActorOthers ==
  ASSUME NEW i, NEW a, NEW e, NEW q, NEW q2, NEW last, NEW tb, SameFor(i, q, q2), ActorOf(i, a, e, q, last, tb)
  PROVE  ActorOf(i, a, e, q2, last, tb)
BY DEF SameFor, ActorOf

\* The actor i has passed the barrier at place m, and collected it unless it stops there.
PassedBy(i, q, q2, m) ==
  /\ DOMAIN q2 = DOMAIN q
  /\ \A k \in DOMAIN q : /\ q2[k].curr = q[k].curr /\ q2[k].stop = q[k].stop
                         /\ k # m \/ i \in q[m].stop => (i \in q2[k].remaining <=> i \in q[k].remaining)

\* It goes on to the epoch of the barrier.
LEMMA ActorPassed ==
  ASSUME NEW i, NEW a, NEW a2, NEW e \in Nat, NEW q, NEW q2, NEW m \in DOMAIN q, NEW last, NEW tb,
         ActorOf(i, a, e, q, last, tb), PassedBy(i, q, q2, m), a # "stopping",
         \A k \in DOMAIN q : q[k].curr \in Nat /\ q[k].prev \in Nat /\ q[k].prev < q[k].curr /\ q[k].curr <= last /\ k \in Nat,
         \A j, k \in DOMAIN q : j < k => q[j].curr <= q[k].prev,
         q[m].prev = e \/ (q[m].curr = e /\ i \notin q[m].stop), i \in q[m].stop => a2 = "stopping"
  PROVE  ActorOf(i, a2, q[m].curr, q2, last, tb)
<1>1. \A k \in DOMAIN q : q[k].curr > q[m].curr => q[k].curr > e /\ k # m
  OBVIOUS
<1>2. \A k \in DOMAIN q2 : q2[k].curr > q[m].curr => i \in q2[k].remaining \/ \E j \in DOMAIN q2 : j < k /\ i \in q2[j].stop
  BY <1>1 DEF PassedBy, ActorOf
<1>3. ASSUME NEW k \in DOMAIN q2, i \in q2[k].stop PROVE i \in q2[k].remaining /\ (q2[k].curr > q[m].curr \/ a2 = "stopping")
  <2>1. k \in DOMAIN q /\ i \in q[k].stop /\ i \in q[k].remaining /\ q[k].curr > e /\ q2[k].curr = q[k].curr
    BY <1>3 DEF PassedBy, ActorOf
  <2>2. CASE i \in q[m].stop
    BY <2>1, <2>2 DEF PassedBy
  <2>3. CASE i \notin q[m].stop
    <3>1. k # m
      BY <2>1, <2>3
    <3>2. q[k].curr > q[m].curr
      <4>1. CASE k < m
        <5>1. q[k].curr <= q[m].prev
          BY <4>1, <2>1
        <5> QED BY <5>1, <2>1
      <4>2. CASE m < k
        <5>1. q[m].curr <= q[k].prev
          BY <4>2, <2>1
        <5> QED BY <5>1, <2>1
      <4>3. k \in Nat /\ m \in Nat
        BY <2>1
      <4> QED BY <3>1, <4>1, <4>2, <4>3
    <3> QED BY <3>1, <3>2, <2>1 DEF PassedBy
  <2> QED BY <2>2, <2>3
<1>4. (\A k \in DOMAIN q2 : i \notin q2[k].stop) => TableOf[i] \in tb
  BY DEF PassedBy, ActorOf
<1> QED BY <1>2, <1>3, <1>4 DEF ActorOf

-----------------------------------------------------------------------------
\* A barrier is issued.

Spawned(ac, new) == [i \in Instance |-> IF i \in new THEN "spawned" ELSE ac[i]]

SpawnedAt(ep, new, b) ==
  [i \in Instance |-> IF i \in new THEN [prev |-> b.prev, curr |-> b.curr] ELSE ep[i]]

\* The new actors write tables of the database and stop at no barrier in flight.
NewActors(b, T, new, q) ==
  \A i \in new : i \in Instance /\ TableOf[i] \in T /\ i \notin b.stop /\ \A k \in DOMAIN q : i \notin q[k].stop

SpawnStep(g, b, T, new, wk, ac, ac2, ep, ep2, md, md2, br, br2, le, le2, tb, tb2) ==
  /\ g \in Group /\ Types(wk, md, tb, le) /\ Chain(br, le, md) /\ Actors(ac, ep, md, br, le, tb)
  /\ b.curr = le[g] + 1 /\ (\A i : i \in b.stop => i \in b.remaining) /\ md[g] # "suspended"
  /\ T \subseteq TablesOf[g] /\ NewActors(b, T, new, br[g])
  /\ \A i \in Instance : Live(ac[i]) /\ GroupOf[i] = g => AwaitsNext(i, br[g], b, tb[g], T)
  /\ ac2 = Spawned(ac, new) /\ ep2 = SpawnedAt(ep, new, b)
  /\ md2 = Put(md, g, "running") /\ tb2 = Put(tb, g, T) /\ le2 = Put(le, g, b.curr) /\ br2 = Queued(br, g, b)

\* What the step does to each actor and to each database.
LEMMA SpawnFacts ==
  ASSUME NEW g, NEW b, NEW T, NEW new, NEW wk, NEW ac, NEW ac2, NEW ep, NEW ep2, NEW md, NEW md2, NEW br, NEW br2,
         NEW le, NEW le2, NEW tb, NEW tb2,
         SpawnStep(g, b, T, new, wk, ac, ac2, ep, ep2, md, md2, br, br2, le, le2, tb, tb2)
  PROVE  /\ \A h \in Group : h # g => md2[h] = md[h] /\ tb2[h] = tb[h] /\ le2[h] = le[h] /\ br2[h] = br[h]
         /\ md2[g] = "running" /\ tb2[g] = T /\ le2[g] = b.curr /\ br2[g] = Append(br[g], b)
         /\ \A i \in Instance : i \notin new => ac2[i] = ac[i] /\ ep2[i] = ep[i]
         /\ \A i \in new : i \in Instance /\ GroupOf[i] = g /\ ac2[i] = "spawned" /\ ep2[i].curr = b.curr
         /\ le[g] \in Nat /\ b.curr = le[g] + 1 /\ IsSeq(br[g])
         /\ \A k \in DOMAIN br[g] : br[g][k].curr \in Nat /\ br[g][k].curr <= le[g]
         /\ ac2 \in [Instance -> ActorState]
<1> USE DEF SpawnStep
<1>1. /\ \A h \in Group : h # g => md2[h] = md[h] /\ tb2[h] = tb[h] /\ le2[h] = le[h] /\ br2[h] = br[h]
      /\ md2[g] = "running" /\ tb2[g] = T /\ le2[g] = b.curr /\ br2[g] = Append(br[g], b)
  <2>1. g \in DOMAIN md /\ g \in DOMAIN tb /\ g \in DOMAIN le /\ g \in DOMAIN br
    BY DEF Types, Chain
  <2>2. DOMAIN md = Group /\ DOMAIN tb = Group /\ DOMAIN le = Group /\ DOMAIN br = Group
    BY DEF Types, Chain
  <2>3. (\A h \in Group : h # g => md2[h] = md[h]) /\ md2[g] = "running"
    BY <2>1, <2>2 DEF Put
  <2>4. (\A h \in Group : h # g => tb2[h] = tb[h]) /\ tb2[g] = T
    BY <2>1, <2>2 DEF Put
  <2>5. (\A h \in Group : h # g => le2[h] = le[h]) /\ le2[g] = b.curr
    BY <2>1, <2>2 DEF Put
  <2>6. (\A h \in Group : h # g => br2[h] = br[h]) /\ br2[g] = Append(br[g], b)
    BY <2>1, <2>2 DEF Queued
  <2> QED BY <2>3, <2>4, <2>5, <2>6
<1>2. \A i \in Instance : i \notin new => ac2[i] = ac[i] /\ ep2[i] = ep[i]
  BY DEF Spawned, SpawnedAt
<1>3. ASSUME NEW i \in new PROVE i \in Instance /\ GroupOf[i] = g /\ ac2[i] = "spawned" /\ ep2[i].curr = b.curr
  <2>1. i \in Instance /\ TableOf[i] \in TablesOf[g]
    BY DEF NewActors
  <2>2. GroupOf[i] = g
    BY <2>1, GroupIs
  <2> QED BY <2>1, <2>2 DEF Spawned, SpawnedAt
<1>4. le[g] \in Nat /\ IsSeq(br[g]) /\ \A k \in DOMAIN br[g] : br[g][k].curr \in Nat /\ br[g][k].curr <= le[g]
  BY DEF Types, Chain, ChainOf, BarrierShape
<1>5. ac2 \in [Instance -> ActorState]
  BY DEF Actors, Spawned, ActorState
<1> QED BY <1>1, <1>2, <1>3, <1>4, <1>5

\* The actors, after a barrier is issued.
LEMMA ActorsIssued ==
  ASSUME NEW g, NEW b, NEW T, NEW new, NEW wk, NEW ac, NEW ac2, NEW ep, NEW ep2, NEW md, NEW md2, NEW br, NEW br2,
         NEW le, NEW le2, NEW tb, NEW tb2,
         SpawnStep(g, b, T, new, wk, ac, ac2, ep, ep2, md, md2, br, br2, le, le2, tb, tb2)
  PROVE  Actors(ac2, ep2, md2, br2, le2, tb2)
<1>1. /\ \A h \in Group : h # g => md2[h] = md[h] /\ tb2[h] = tb[h] /\ le2[h] = le[h] /\ br2[h] = br[h]
      /\ md2[g] = "running" /\ tb2[g] = T /\ le2[g] = b.curr /\ br2[g] = Append(br[g], b)
      /\ \A i \in Instance : i \notin new => ac2[i] = ac[i] /\ ep2[i] = ep[i]
      /\ \A i \in new : i \in Instance /\ GroupOf[i] = g /\ ac2[i] = "spawned" /\ ep2[i].curr = b.curr
      /\ le[g] \in Nat /\ b.curr = le[g] + 1 /\ IsSeq(br[g])
      /\ \A k \in DOMAIN br[g] : br[g][k].curr \in Nat /\ br[g][k].curr <= le[g]
      /\ ac2 \in [Instance -> ActorState]
  BY SpawnFacts
<1>2. /\ \A i \in new : TableOf[i] \in T /\ i \notin b.stop /\ (\A k \in DOMAIN br[g] : i \notin br[g][k].stop)
      /\ \A i : i \in b.stop => i \in b.remaining
      /\ \A i \in Instance : Live(ac[i]) /\ GroupOf[i] = g => AwaitsNext(i, br[g], b, tb[g], T)
      /\ md[g] # "suspended" /\ g \in Group /\ T \subseteq TablesOf[g] /\ Actors(ac, ep, md, br, le, tb)
  BY DEF SpawnStep, NewActors
<1>3. \A i \in Instance : ac[i] # "none" => GroupOf[i] \in Group /\ TableOf[i] \in TablesOf[GroupOf[i]]
  BY <1>2 DEF Actors
<1>4. ASSUME NEW i \in Instance, ac2[i] # "none" PROVE GroupOf[i] \in Group /\ TableOf[i] \in TablesOf[GroupOf[i]]
  BY <1>1, <1>2, <1>3, <1>4
<1>5. ASSUME NEW i \in Instance, ac2[i] \in {"aborted", "dropping"} PROVE md2[GroupOf[i]] = "suspended"
  <2>1. ac[i] \in {"aborted", "dropping"}
    BY <1>1, <1>5
  <2>2. md[GroupOf[i]] = "suspended" /\ GroupOf[i] \in Group
    BY <2>1, <1>2 DEF Actors
  <2> QED BY <2>2, <1>1, <1>2
<1>6. ASSUME NEW i \in Instance, Live(ac2[i])
      PROVE  /\ md2[GroupOf[i]] = "running"
             /\ ActorOf(i, ac2[i], ep2[i].curr, br2[GroupOf[i]], le2[GroupOf[i]], tb2[GroupOf[i]])
  <2>1. CASE i \in new
    <3>1. ActorOf(i, "spawned", b.curr, Append(br[g], b), b.curr, T)
      BY <2>1, <1>1, <1>2, ActorSpawned
    <3>2. GroupOf[i] = g /\ ac2[i] = "spawned" /\ ep2[i].curr = b.curr
      BY <2>1, <1>1
    <3>3. md2[g] = "running" /\ tb2[g] = T /\ le2[g] = b.curr /\ br2[g] = Append(br[g], b)
      BY <1>1
    <3> QED BY <3>1, <3>2, <3>3
  <2>2. CASE i \notin new
    <3>1. ac2[i] = ac[i] /\ ep2[i] = ep[i] /\ Live(ac[i])
      BY <2>2, <1>1, <1>6
    <3>2. /\ md[GroupOf[i]] = "running" /\ GroupOf[i] \in Group
          /\ ActorOf(i, ac[i], ep[i].curr, br[GroupOf[i]], le[GroupOf[i]], tb[GroupOf[i]])
      BY <3>1, <1>2 DEF Actors, Live
    <3>3. CASE GroupOf[i] = g
      <4>1. ActorOf(i, ac[i], ep[i].curr, br[g], le[g], tb[g]) /\ AwaitsNext(i, br[g], b, tb[g], T)
        BY <3>1, <3>2, <3>3, <1>2
      <4>2. ActorOf(i, ac[i], ep[i].curr, Append(br[g], b), b.curr, T)
        BY <4>1, <1>1, <1>2, ActorAwaits
      <4> QED BY <4>2, <3>1, <3>3, <1>1
    <3>4. CASE GroupOf[i] # g
      BY <3>1, <3>2, <3>4, <1>1
    <3> QED BY <3>3, <3>4
  <2> QED BY <2>1, <2>2
<1>7. DOMAIN ep2 = Instance
  BY DEF SpawnStep, SpawnedAt
<1> QED BY <1>1, <1>4, <1>5, <1>6, <1>7 DEF Actors

\* Epoch e of the tables T is started.
EpochAdded(wk, td, td2, e, T) ==
  wk => (\A t, x : HasEpoch(td, t, x) => HasEpoch(td2, t, x)) /\ \A t \in T : HasEpoch(td2, t, e)

\* Who awaits the barrier and does not stop writes its epoch.
LEMMA UnsyncedIssued ==
  ASSUME NEW g, NEW b, NEW T, NEW new, NEW wk, NEW ac, NEW ac2, NEW ep, NEW ep2, NEW md, NEW md2, NEW br, NEW br2,
         NEW le, NEW le2, NEW tb, NEW tb2,
         SpawnStep(g, b, T, new, wk, ac, ac2, ep, ep2, md, md2, br, br2, le, le2, tb, tb2),
         NEW td, NEW td2, EpochAdded(wk, td, td2, b.curr, T), Unsynced(wk, ac, ep, br, td),
         \A i \in b.remaining : i \in b.stop \/ TableOf[i] \in T
  PROVE  Unsynced(wk, ac2, ep2, br2, td2)
<1>1. /\ \A h \in Group : h # g => br2[h] = br[h]
      /\ br2[g] = Append(br[g], b) /\ IsSeq(br[g])
      /\ \A i \in Instance : i \notin new => ac2[i] = ac[i] /\ ep2[i] = ep[i]
      /\ \A i \in new : ep2[i].curr = b.curr
  BY SpawnFacts
<1>2. g \in Group /\ \A i \in new : TableOf[i] \in T
  BY DEF SpawnStep, NewActors
<1> SUFFICES ASSUME wk PROVE Unsynced(wk, ac2, ep2, br2, td2)
  BY DEF Unsynced
<1>3. (\A t, x : HasEpoch(td, t, x) => HasEpoch(td2, t, x)) /\ \A t \in T : HasEpoch(td2, t, b.curr)
  BY DEF EpochAdded
<1>4. ASSUME NEW i \in Instance, ac2[i] \in {"spawned", "waiting", "running"}
      PROVE  HasEpoch(td2, TableOf[i], ep2[i].curr)
  BY <1>1, <1>2, <1>3, <1>4 DEF Unsynced
<1>5. ASSUME NEW h \in Group, NEW k \in DOMAIN br2[h], NEW i \in br2[h][k].remaining \ br2[h][k].stop
      PROVE  HasEpoch(td2, TableOf[i], br2[h][k].curr)
  <2>1. CASE h # g
    BY <2>1, <1>1, <1>3, <1>5 DEF Unsynced
  <2>2. CASE h = g
    <3> DEFINE q2 == Append(br[g], b)
    <3>1. k \in DOMAIN q2 /\ i \in q2[k].remaining /\ i \notin q2[k].stop /\ br2[h] = q2
      BY <2>2, <1>1, <1>5
    <3>2. (k \in DOMAIN br[g] /\ q2[k] = br[g][k]) \/ q2[k] = b
      BY <3>1, <1>1, AppendPlaces
    <3> HIDE DEF q2
    <3>3. CASE k \in DOMAIN br[g] /\ q2[k] = br[g][k]
      BY <3>1, <3>3, <1>2, <1>3 DEF Unsynced
    <3>4. CASE q2[k] = b
      BY <3>1, <3>4, <1>3
    <3> QED BY <3>2, <3>3, <3>4
  <2> QED BY <2>1, <2>2
<1> QED BY <1>4, <1>5 DEF Unsynced

\* No epoch that is over comes again.
LEMMA FloorsIssued ==
  ASSUME NEW g, NEW b, NEW T, NEW new, NEW wk, NEW ac, NEW ac2, NEW ep, NEW ep2, NEW md, NEW md2, NEW br, NEW br2,
         NEW le, NEW le2, NEW tb, NEW tb2,
         SpawnStep(g, b, T, new, wk, ac, ac2, ep, ep2, md, md2, br, br2, le, le2, tb, tb2),
         NEW vs, NEW ans, NEW sy, Floors(md, le, br, ac, ep, vs, ans, sy),
         b.kind = "checkpoint" => md[g] = "running" /\ b.prev = le[g]
  PROVE  Floors(md2, le2, br2, ac2, ep2, vs, ans, sy)
<1>1. /\ \A h \in Group : h # g => md2[h] = md[h] /\ le2[h] = le[h] /\ br2[h] = br[h]
      /\ md2[g] = "running" /\ le2[g] = b.curr /\ br2[g] = Append(br[g], b)
      /\ \A i \in Instance : i \notin new => ac2[i] = ac[i] /\ ep2[i] = ep[i]
      /\ \A i \in new : GroupOf[i] = g /\ ep2[i].curr = b.curr
      /\ le[g] \in Nat /\ b.curr = le[g] + 1 /\ IsSeq(br[g])
  BY SpawnFacts
<1>2. ASSUME NEW h \in Group, NEW e, Over(e, h, md, le, br[h], ac, ep)
      PROVE  Over(e, h, md2, le2, br2[h], ac2, ep2)
  <2>1. e \in Nat /\ e <= le[h] /\ (md[h] = "running" => e < le[h])
    BY <1>2 DEF Over
  <2>2. CASE h = g
    <3> DEFINE q2 == Append(br[g], b)
    <3>1. e <= le2[h] /\ e < le2[h] /\ br2[h] = q2
      BY <2>1, <2>2, <1>1
    <3>2. ASSUME NEW k \in DOMAIN q2 PROVE (k \in DOMAIN br[g] /\ q2[k] = br[g][k]) \/ q2[k] = b
      BY <1>1, AppendPlaces
    <3> HIDE DEF q2
    <3>3. \A k \in DOMAIN br[g] : e < br[g][k].curr /\ (br[g][k].kind = "checkpoint" => e < br[g][k].prev)
      BY <1>2, <2>2 DEF Over
    <3>4. e < b.curr /\ (b.kind = "checkpoint" => e < b.prev)
      BY <2>1, <2>2, <1>1
    <3>5. \A k \in DOMAIN q2 : e < q2[k].curr /\ (q2[k].kind = "checkpoint" => e < q2[k].prev)
      BY <3>2, <3>3, <3>4
    <3>6. \A i \in Instance : Live(ac2[i]) /\ GroupOf[i] = g => e < ep2[i].curr
      BY <1>1, <1>2, <2>2, <3>4 DEF Over
    <3> QED BY <2>1, <2>2, <3>1, <3>5, <3>6 DEF Over
  <2>3. CASE h # g
    <3>1. md2[h] = md[h] /\ le2[h] = le[h] /\ br2[h] = br[h]
      BY <2>3, <1>1
    <3>2. \A i \in Instance : Live(ac2[i]) /\ GroupOf[i] = h => e < ep2[i].curr
      BY <1>1, <1>2, <2>3 DEF Over
    <3> QED BY <3>1, <3>2, <1>2 DEF Over
  <2> QED BY <2>2, <2>3
<1> QED BY <1>2 DEF Floors

\* The conjuncts of DataOK.
LEMMA DataParts ==
  ASSUME DataOK
  PROVE  /\ Actors(actor, epoch, mode, barriers, lastEpoch, tables)
         /\ Forward(barriers)
         /\ Commands(command, mode, barriers, actor) /\ Bounds(command, lastEpoch)
         /\ Unsynced(working, actor, epoch, barriers, tableData)
         /\ Instances(working, actor, epoch, instData)
         /\ Fresh(command, mode, instData)
         /\ Gone(mode, instData, syncing, actor)
         /\ AnswersOK(answers, syncing)
         /\ Floors(mode, lastEpoch, barriers, actor, epoch, version, answers, syncing)
         /\ PendingOK(written, instData, tasks, spilledData, tableData)
         /\ StageData(written, answers, syncing, tasks)
         /\ StageFull(mode, version, written, answers, syncing, tasks)
         /\ AllData(working, mode, version, written, answers, syncing, tasks, spilledData, instData)
         /\ Durability(written, version, nextImm)
BY DEF DataOK

\* What the barrier b and the actors new that it starts satisfy.
IssuedTo(g, b, T, new) ==
  /\ mode[g] # "suspended" /\ T \subseteq TablesOf[g] /\ T # {}
  /\ b.curr = lastEpoch[g] + 1 /\ b.prev \in Nat /\ b.prev < b.curr
  /\ \A i : i \in b.stop => i \in b.remaining
  /\ b.kind = "checkpoint" => mode[g] = "running" /\ b.prev = lastEpoch[g]
  /\ NewActors(b, T, new, barriers[g])
  /\ \A i \in Instance : Live(actor[i]) /\ GroupOf[i] = g => AwaitsNext(i, barriers[g], b, tables[g], T)
  /\ \A i \in b.remaining : TableOf[i] \in TablesOf[g] /\ (i \in b.stop \/ TableOf[i] \in T)
  /\ \A i \in new : i \notin DOMAIN instData

\* The members of a database are its live actors that no barrier in flight stops.
LEMMA MembersAre ==
  ASSUME NodeOK, DataOK, NEW g \in Group, mode[g] # "suspended"
  PROVE  /\ \A i \in Members(g) : /\ i \in Instance /\ Live(actor[i]) /\ GroupOf[i] = g /\ TableOf[i] \in tables[g]
                                  /\ TableOf[i] \in TablesOf[g] /\ actor[i] # "none"
         /\ \A i \in Instance : /\ Live(actor[i]) /\ GroupOf[i] = g
                                /\ \A k \in DOMAIN barriers[g] : i \notin barriers[g][k].stop
                                => i \in Members(g)
<1>1. Actors(actor, epoch, mode, barriers, lastEpoch, tables)
  BY DataParts
<1>2. ASSUME NEW i \in Members(g)
      PROVE  /\ i \in Instance /\ Live(actor[i]) /\ GroupOf[i] = g /\ TableOf[i] \in tables[g]
             /\ TableOf[i] \in TablesOf[g] /\ actor[i] # "none"
  <2>1. i \in Instance /\ TableOf[i] \in TablesOf[g] /\ actor[i] # "none"
        /\ \A k \in DOMAIN barriers[g] : i \notin barriers[g][k].stop
    BY DEF Members, Alive, Range
  <2>2. GroupOf[i] = g
    BY <2>1, GroupIs
  <2>3. actor[i] \notin {"aborted", "dropping"} /\ actor[i] \in ActorState
    BY <1>1, <2>1, <2>2 DEF Actors
  <2>4. Live(actor[i])
    BY <2>1, <2>3 DEF ActorState, Live
  <2>5. ActorOf(i, actor[i], epoch[i].curr, barriers[g], lastEpoch[g], tables[g])
    BY <1>1, <2>1, <2>2, <2>4 DEF Actors
  <2> QED BY <2>1, <2>2, <2>4, <2>5 DEF ActorOf
<1>3. ASSUME NEW i \in Instance, Live(actor[i]), GroupOf[i] = g, \A k \in DOMAIN barriers[g] : i \notin barriers[g][k].stop
      PROVE  i \in Members(g)
  <2>1. TableOf[i] \in TablesOf[g] /\ actor[i] # "none"
    BY <1>1, <1>3 DEF Actors, Live
  <2> QED BY <2>1, <1>3 DEF Members, Alive, Range
<1> QED BY <1>2, <1>3

\* Every barrier that is injected.
LEMMA BarrierTo ==
  ASSUME NodeOK, DataOK, NEW g \in Group, NEW kind \in {"initial", "barrier", "checkpoint"}, NEW cmd, NEW stop,
         NEW new, NEW T, T \subseteq tables[g], ~(T \subseteq Droppable),
         mode[g] = IF kind = "initial" THEN "cleared" ELSE "running",
         \A i \in stop : i \in Members(g),
         \A i \in Members(g) : i \in stop \/ (TableOf[i] \in tables[g] => TableOf[i] \in T),
         \A i \in new : i \in Instance /\ TableOf[i] \in T /\ i \notin stop /\ i \notin DOMAIN instData,
         \A i \in new : \A k \in DOMAIN barriers[g] : i \notin barriers[g][k].stop
  PROVE  IssuedTo(g, Barrier(g, kind, cmd, stop, new), T, new)
<1> DEFINE b == Barrier(g, kind, cmd, stop, new)
           p == IF kind = "initial" THEN version.epoch[g] ELSE lastEpoch[g]
<1>1. lastEpoch[g] \in Nat /\ tables[g] \subseteq TablesOf[g] /\ mode[g] # "suspended"
  BY Parts DEF Types
<1>2. b.prev = p /\ b.curr = lastEpoch[g] + 1 /\ b.kind = kind /\ b.stop = stop /\ b.remaining = Members(g) \cup new
  BY DEF Barrier
<1>3. Over(version.epoch[g], g, mode, lastEpoch, barriers[g], actor, epoch)
  BY DataParts DEF Floors
<1>4. p \in Nat /\ p <= lastEpoch[g] /\ (kind # "initial" => p = lastEpoch[g])
  BY <1>1, <1>3 DEF Over
<1>5. /\ \A i \in Members(g) : TableOf[i] \in tables[g]
      /\ \A i \in Instance : /\ Live(actor[i]) /\ GroupOf[i] = g
                             /\ \A k \in DOMAIN barriers[g] : i \notin barriers[g][k].stop
                             => i \in Members(g)
  BY <1>1, MembersAre
<1> HIDE DEF b, p
<1>6. NewActors(b, T, new, barriers[g])
  BY <1>2 DEF NewActors
<1>7. \A i \in Instance : Live(actor[i]) /\ GroupOf[i] = g => AwaitsNext(i, barriers[g], b, tables[g], T)
  BY <1>2, <1>5 DEF AwaitsNext
<1>8. \A i \in b.remaining : TableOf[i] \in TablesOf[g] /\ (i \in b.stop \/ TableOf[i] \in T)
  BY <1>1, <1>2, <1>5
<1>9. (\A i : i \in b.stop => i \in b.remaining) /\ T \subseteq TablesOf[g] /\ T # {}
  BY <1>1, <1>2
<1>10. b.curr = lastEpoch[g] + 1 /\ b.prev \in Nat /\ b.prev < b.curr
       /\ (b.kind = "checkpoint" => mode[g] = "running" /\ b.prev = lastEpoch[g])
  BY <1>1, <1>2, <1>4
<1>11. IssuedTo(g, b, T, new)
  BY <1>1, <1>6, <1>7, <1>8, <1>9, <1>10 DEF IssuedTo
<1> QED BY <1>11 DEF b

\* The parts that every barrier changes.
LEMMA IssueData ==
  ASSUME NodeOK, DataOK, NEW g \in Group, NEW b, NEW T, NEW new, Issue(g, b, T, new), IssuedTo(g, b, T, new),
         mode' = Put(mode, g, "running"), version' = version
  PROVE  /\ Actors(actor', epoch', mode', barriers', lastEpoch', tables') /\ Forward(barriers')
         /\ Unsynced(working', actor', epoch', barriers', tableData')
         /\ Instances(working', actor', epoch', instData')
         /\ Floors(mode', lastEpoch', barriers', actor', epoch', version', answers', syncing')
         /\ \A ws : PendingOK(ws, instData, tasks, spilledData, tableData) => PendingOK(ws, instData', tasks', spilledData', tableData')
         /\ UNCHANGED <<working, instData, spilledData, tasks, syncing, answers>>
<1>1. /\ Actors(actor, epoch, mode, barriers, lastEpoch, tables) /\ Forward(barriers)
      /\ Unsynced(working, actor, epoch, barriers, tableData) /\ Instances(working, actor, epoch, instData)
      /\ Floors(mode, lastEpoch, barriers, actor, epoch, version, answers, syncing)
  BY DataParts
<1>2. Types(working, mode, tables, lastEpoch) /\ Chain(barriers, lastEpoch, mode)
      /\ UploaderOK(tasks, spilledData, syncing, tableData, unsyncEpochs)
  BY Parts
<1>3. StartEpoch(b.curr, T, CommittedEpochs(notified))
  BY DEF Issue
<1>4. UNCHANGED <<working, instData, spilledData, tasks, syncing, answers>>
  BY <1>3 DEF StartEpoch
<1>5. b.curr \in Nat /\ T # {}
  BY <1>2 DEF IssuedTo, Types
<1>6. /\ EpochAdded(working, tableData, tableData', b.curr, T)
      /\ \A t \in DOMAIN tableData : t \in DOMAIN tableData' /\ tableData'[t].spill = tableData[t].spill
      /\ \A t, x : HasEpoch(tableData, t, x) => HasEpoch(tableData', t, x)
  <2>1. CASE working
    <3>1. /\ DOMAIN tableData' = DOMAIN tableData \cup T
          /\ \A t \in DOMAIN tableData' :
              /\ tableData'[t].unsync = (IF t \in DOMAIN tableData THEN tableData[t].unsync ELSE {})
                                          \cup (IF t \in T THEN {b.curr} ELSE {})
              /\ tableData'[t].spill = IF t \in DOMAIN tableData THEN tableData[t].spill ELSE {}
      BY <2>1, <1>2, <1>3, <1>5, EpochStarts
    <3> QED BY <3>1 DEF EpochAdded, HasEpoch
  <2>2. CASE ~working
    <3>1. tableData' = tableData
      BY <2>2, <1>3 DEF StartEpoch
    <3> QED BY <2>2, <3>1 DEF EpochAdded
  <2> QED BY <2>1, <2>2
<1>7. /\ tables' = Put(tables, g, T) /\ lastEpoch' = Put(lastEpoch, g, b.curr) /\ barriers' = Queued(barriers, g, b)
      /\ actor' = Spawned(actor, new) /\ epoch' = SpawnedAt(epoch, new, b)
  BY DEF Issue, Queued, Put, Spawned, SpawnedAt
<1>8. SpawnStep(g, b, T, new, working, actor, actor', epoch, epoch', mode, mode', barriers, barriers', lastEpoch, lastEpoch',
                tables, tables')
  BY <1>1, <1>2, <1>7 DEF SpawnStep, IssuedTo
<1>9. Actors(actor', epoch', mode', barriers', lastEpoch', tables')
  BY <1>8, ActorsIssued
<1>10. Unsynced(working', actor', epoch', barriers', tableData')
  <2>1. \A i \in b.remaining : i \in b.stop \/ TableOf[i] \in T
    BY DEF IssuedTo
  <2>2. Unsynced(working, actor', epoch', barriers', tableData')
    BY <2>1, <1>1, <1>6, <1>8, UnsyncedIssued
  <2> QED BY <2>2, <1>4
<1>11. Floors(mode', lastEpoch', barriers', actor', epoch', version', answers', syncing')
  <2>1. b.kind = "checkpoint" => mode[g] = "running" /\ b.prev = lastEpoch[g]
    BY DEF IssuedTo
  <2>2. Floors(mode', lastEpoch', barriers', actor', epoch', version, answers, syncing)
    BY <2>1, <1>1, <1>8, FloorsIssued
  <2> QED BY <2>2, <1>4
<1>12. /\ \A h \in Group : h # g => barriers'[h] = barriers[h]
       /\ barriers'[g] = Append(barriers[g], b) /\ IsSeq(barriers[g])
       /\ \A i \in Instance : i \notin new => actor'[i] = actor[i] /\ epoch'[i] = epoch[i]
       /\ \A i \in new : actor'[i] = "spawned"
  BY <1>8, SpawnFacts
<1>13. Forward(barriers')
  <2>1. b.prev \in Nat /\ b.prev < b.curr /\ \A i \in b.remaining : TableOf[i] \in TablesOf[g]
    BY DEF IssuedTo
  <2>2. \A k \in DOMAIN Append(barriers[g], b) :
          (k \in DOMAIN barriers[g] /\ Append(barriers[g], b)[k] = barriers[g][k]) \/ Append(barriers[g], b)[k] = b
    BY <1>12, AppendPlaces
  <2>3. ASSUME NEW h \in Group, NEW k \in DOMAIN barriers'[h]
        PROVE  (k \in DOMAIN barriers[h] /\ barriers'[h][k] = barriers[h][k]) \/ (h = g /\ barriers'[h][k] = b)
    <3>1. CASE h = g
      BY <2>2, <2>3, <3>1, <1>12
    <3>2. CASE h # g
      BY <2>3, <3>2, <1>12
    <3> QED BY <3>1, <3>2
  <2>4. Forward(barriers)
    BY <1>1
  <2> QED BY <2>1, <2>3, <2>4 DEF Forward
<1>14. Instances(working', actor', epoch', instData')
  <2>1. \A i \in new : i \notin DOMAIN instData
    BY DEF IssuedTo
  <2>2. Instances(working, actor', epoch', instData)
    BY <2>1, <1>1, <1>12 DEF Instances
  <2> QED BY <2>2, <1>4
<1>15. ASSUME NEW ws, PendingOK(ws, instData, tasks, spilledData, tableData)
       PROVE  PendingOK(ws, instData', tasks', spilledData', tableData')
  <2>1. ASSUME NEW w, Pending(w, instData, tasks, spilledData) PROVE w \in ws /\ HasEpoch(tableData', w.table, w.epoch)
    BY <2>1, <1>6, <1>15 DEF PendingOK
  <2>2. ASSUME NEW x, NEW w, IsSpill(x, tasks, spilledData), InInput(w, x.input)
        PROVE  w.table \in x.tables /\ <<w.epoch, x.id>> \in tableData'[w.table].spill
    <3>1. w.table \in x.tables /\ <<w.epoch, x.id>> \in tableData[w.table].spill
      BY <2>2, <1>15 DEF PendingOK
    <3>2. w.table \in DOMAIN tableData
      <4>1. Pending(w, instData, tasks, spilledData)
        BY <2>2 DEF Pending, PendingSpill
      <4> QED BY <4>1, <1>15 DEF PendingOK, HasEpoch
    <3> QED BY <3>1, <3>2, <1>6
  <2> QED BY <2>1, <2>2, <1>4 DEF PendingOK
<1> QED BY <1>4, <1>9, <1>10, <1>11, <1>13, <1>14, <1>15

\* A stage belongs to one database.
LEMMA StageOf ==
  ASSUME NEW w, NEW g, NEW e, NEW ans, NEW sy, NEW tk, InStage(w, g, e, ans, sy, tk)
  PROVE  HasStage(g, e, ans, sy)
BY DEF InStage, HasStage

\* Which command comes with which actors, and when.
CommandOf(g, cmd, stop, new) ==
  /\ cmd \in {"none", "Pause"} => stop = {} /\ new = {}
  /\ cmd = "Pause" => command[g].cmd = "none"
  /\ lastEpoch[g] < MaxEpoch[g] \/ (command[g].cmd = "Update" /\ cmd \notin {"none", "Update"})

\* Every barrier but the first.
LEMMA CommandData ==
  ASSUME NodeOK, DataOK, NEW g \in Group, NEW kind, NEW cmd, NEW T, NEW stop, NEW new, mode[g] = "running",
         IssuedTo(g, Barrier(g, kind, cmd, stop, new), T, new), CommandOf(g, cmd, stop, new),
         InjectCommand(g, kind, cmd, T, stop, new)
  PROVE  DataOK'
<1> DEFINE b == Barrier(g, kind, cmd, stop, new)
<1>1. /\ Issue(g, b, T, new) /\ IssuedTo(g, b, T, new)
      /\ UNCHANGED <<mode, readVersion, recent, notified, version, written, nextImm, faults, resetting>>
  BY DEF InjectCommand
<1>2. mode' = Put(mode, g, "running")
  <2>1. mode = [mode EXCEPT ![g] = "running"]
    BY Parts DEF Types
  <2> QED BY <1>1, <2>1 DEF Put
<1>3. b.stop = stop /\ b.curr = lastEpoch[g] + 1
  BY DEF Barrier
<1>4. command' = command \/ (cmd # "none" /\ \E x : command' = Put(command, g, x) /\ x.cmd = cmd)
  <2>1. CASE cmd = "none"
    BY <2>1 DEF InjectCommand
  <2>2. CASE cmd # "none"
    <3> DEFINE x == [cmd |-> cmd, prev |-> lastEpoch[g],
                     paused |-> IF cmd \in {"Pause", "Update"} THEN command[g].paused \cup {lastEpoch[g] + 1}
                                ELSE command[g].paused]
    <3>1. command' = Put(command, g, x)
      BY <2>2 DEF InjectCommand, Put
    <3>2. x.cmd = cmd
      OBVIOUS
    <3> HIDE DEF x
    <3> QED BY <2>2, <3>1, <3>2
  <2> QED BY <2>1, <2>2
<1>5. command' = command => cmd = "none" \/ command[g].cmd = cmd
  <2>1. DOMAIN command = Group
    BY DataParts DEF Bounds
  <2>2. CASE cmd # "none"
    <3> DEFINE x == [cmd |-> cmd, prev |-> lastEpoch[g],
                     paused |-> IF cmd \in {"Pause", "Update"} THEN command[g].paused \cup {lastEpoch[g] + 1}
                                ELSE command[g].paused]
    <3>1. command' = Put(command, g, x)
      BY <2>2 DEF InjectCommand, Put
    <3>2. x.cmd = cmd
      OBVIOUS
    <3> HIDE DEF x
    <3> QED BY <2>1, <3>1, <3>2 DEF Put
  <2> QED BY <2>2
<1> HIDE DEF b
<1>6. /\ Actors(actor', epoch', mode', barriers', lastEpoch', tables') /\ Forward(barriers')
      /\ Unsynced(working', actor', epoch', barriers', tableData')
      /\ Instances(working', actor', epoch', instData')
      /\ Floors(mode', lastEpoch', barriers', actor', epoch', version', answers', syncing')
      /\ \A ws : PendingOK(ws, instData, tasks, spilledData, tableData) => PendingOK(ws, instData', tasks', spilledData', tableData')
      /\ UNCHANGED <<working, instData, spilledData, tasks, syncing, answers>>
  BY <1>1, <1>2, IssueData
<1>7. /\ Commands(command, mode, barriers, actor) /\ Bounds(command, lastEpoch) /\ Fresh(command, mode, instData)
      /\ Gone(mode, instData, syncing, actor) /\ IsSeq(barriers[g])
  BY DataParts, Parts DEF Chain, ChainOf
<1>8. /\ \A h \in Group : h # g => barriers'[h] = barriers[h] /\ lastEpoch'[h] = lastEpoch[h]
      /\ barriers'[g] = Append(barriers[g], b) /\ lastEpoch'[g] = lastEpoch[g] + 1
      /\ \A i \in Instance : actor'[i] = actor[i] \/ (i \in new /\ TableOf[i] \in TablesOf[g])
  <2>1. DOMAIN barriers = Group /\ DOMAIN lastEpoch = Group
    BY Parts DEF Types, Chain
  <2>2. barriers' = Queued(barriers, g, b) /\ lastEpoch' = Put(lastEpoch, g, b.curr) /\ actor' = Spawned(actor, new)
    BY <1>1 DEF Issue, Queued, Put, Spawned
  <2>3. (\A h \in Group : h # g => barriers'[h] = barriers[h]) /\ barriers'[g] = Append(barriers[g], b)
    BY <2>1, <2>2 DEF Queued
  <2>4. (\A h \in Group : h # g => lastEpoch'[h] = lastEpoch[h]) /\ lastEpoch'[g] = lastEpoch[g] + 1
    BY <2>1, <2>2, <1>3 DEF Put
  <2>5. \A i \in Instance : actor'[i] = actor[i] \/ i \in new
    BY <2>2 DEF Spawned
  <2>6. \A i \in new : TableOf[i] \in TablesOf[g]
    BY <1>1 DEF IssuedTo, NewActors
  <2> QED BY <2>3, <2>4, <2>5, <2>6
<1>9. /\ DOMAIN command' = Group /\ \A h \in Group : h # g => command'[h] = command[h]
      /\ command'[g].cmd = IF cmd = "none" THEN command[g].cmd ELSE cmd
  <2>1. DOMAIN command = Group
    BY <1>7 DEF Bounds
  <2>2. CASE command' = command
    BY <2>1, <2>2, <1>5
  <2>3. CASE command' # command
    BY <2>1, <2>3, <1>4 DEF Put
  <2> QED BY <2>2, <2>3
<1>10. ASSUME Unchanged(command', mode', g) PROVE Unchanged(command, mode, g) /\ stop = {} /\ new = {}
  BY <1>1, <1>9, <1>10 DEF Unchanged, CommandOf
<1>11. ASSUME NEW h \in Group, h # g, Unchanged(command', mode', h) PROVE Unchanged(command, mode, h)
  BY <1>1, <1>9, <1>11 DEF Unchanged
<1>12. Commands(command', mode', barriers', actor')
  <2>1. ASSUME NEW h \in Group, Unchanged(command', mode', h)
        PROVE  /\ \A k \in DOMAIN barriers'[h] : barriers'[h][k].stop = {}
               /\ \A i \in Instance : TableOf[i] \in TablesOf[h] /\ actor'[i] # "none" => i \in Originals
    <3>1. CASE h = g
      <4>1. Unchanged(command, mode, g) /\ stop = {} /\ new = {}
        BY <2>1, <3>1, <1>10
      <4>2. \A k \in DOMAIN Append(barriers[g], b) :
              (k \in DOMAIN barriers[g] /\ Append(barriers[g], b)[k] = barriers[g][k]) \/ Append(barriers[g], b)[k] = b
        BY <1>7, AppendPlaces
      <4>3. \A k \in DOMAIN barriers'[h] : barriers'[h][k].stop = {}
        BY <3>1, <4>1, <4>2, <1>3, <1>7, <1>8 DEF Commands
      <4>4. \A i \in Instance : TableOf[i] \in TablesOf[h] /\ actor'[i] # "none" => i \in Originals
        BY <3>1, <4>1, <1>7, <1>8 DEF Commands
      <4> QED BY <4>3, <4>4
    <3>2. CASE h # g
      <4>1. Unchanged(command, mode, h)
        BY <2>1, <3>2, <1>11
      <4>2. \A i \in Instance : TableOf[i] \in TablesOf[h] => actor'[i] = actor[i]
        BY <3>2, <1>8, OneGroup
      <4> QED BY <4>1, <4>2, <3>2, <1>7, <1>8 DEF Commands
    <3> QED BY <3>1, <3>2
  <2> QED BY <2>1 DEF Commands
<1>13. Bounds(command', lastEpoch')
  <2>1. lastEpoch[g] \in Nat /\ MaxEpoch[g] \in Nat
    BY Parts, GroupAssumption DEF Types
  <2>2. lastEpoch[g] <= MaxEpoch[g] + 1 /\ (command[g].cmd = "Update" => lastEpoch[g] <= MaxEpoch[g])
    BY <1>7 DEF Bounds
  <2>3. lastEpoch'[g] <= MaxEpoch[g] + 1 /\ (command'[g].cmd = "Update" => lastEpoch'[g] <= MaxEpoch[g])
    BY <2>1, <2>2, <1>8, <1>9 DEF CommandOf
  <2> QED BY <2>3, <1>7, <1>8, <1>9 DEF Bounds
<1>14. Fresh(command', mode', instData')
  BY <1>6, <1>7, <1>10, <1>11 DEF Fresh
<1>15. Gone(mode', instData', syncing', actor')
  <2>1. ASSUME NEW h \in Group, mode[h] = "cleared" PROVE \A i \in Instance : TableOf[i] \in TablesOf[h] => actor'[i] = actor[i]
    BY <2>1, <1>8, OneGroup
  <2> QED BY <2>1, <1>1, <1>6, <1>7 DEF Gone
<1>16. PendingOK(written', instData', tasks', spilledData', tableData')
  BY <1>1, <1>6, DataParts
<1>17. /\ AnswersOK(answers', syncing') /\ StageData(written', answers', syncing', tasks')
       /\ StageFull(mode', version', written', answers', syncing', tasks')
       /\ AllData(working', mode', version', written', answers', syncing', tasks', spilledData', instData')
       /\ Durability(written', version', nextImm')
  BY <1>1, <1>6, DataParts
<1> QED BY <1>6, <1>12, <1>13, <1>14, <1>15, <1>16, <1>17 DEF DataOK

\* Nothing of a cleared database is unsynced, pending or in a sync.
LEMMA ClearedIsEmpty ==
  ASSUME NodeOK, DataOK, NEW g \in Group, mode[g] = "cleared",
         \A k \in DOMAIN answers : answers[k].tables \cap TablesOf[g] = {}
  PROVE  /\ \A e : ~HasStage(g, e, answers, syncing)
         /\ \A t, e : HasEpoch(tableData, t, e) => t \notin TablesOf[g]
         /\ \A w : Pending(w, instData, tasks, spilledData) => w.table \notin TablesOf[g]
         /\ barriers[g] = <<>>
<1>1. /\ Gone(mode, instData, syncing, actor) /\ AnswersOK(answers, syncing)
      /\ PendingOK(written, instData, tasks, spilledData, tableData)
  BY DataParts
<1>2. /\ EpochsKnown(tableData, unsyncEpochs) /\ Epochs(unsyncEpochs, barriers, tables, lastEpoch, mode)
      /\ Chain(barriers, lastEpoch, mode)
  BY Parts DEF UploaderOK
<1>3. ASSUME NEW e PROVE ~HasStage(g, e, answers, syncing)
  <2>1. ASSUME NEW k \in DOMAIN answers PROVE ~Of(answers[k], g)
    <3>1. answers[k].tables # {} /\ answers[k].tables \cap TablesOf[g] = {}
      BY <1>1 DEF AnswersOK, Grouped
    <3> QED BY <3>1 DEF Of
  <2>2. ASSUME NEW k \in DOMAIN syncing PROVE ~Of(syncing[k], g)
    <3>1. syncing[k].tables # {} /\ syncing[k].tables \cap TablesOf[g] = {}
      BY <1>1 DEF AnswersOK, Grouped, Gone
    <3> QED BY <3>1 DEF Of
  <2> QED BY <2>1, <2>2 DEF HasStage, Answered
<1>4. ASSUME NEW t, NEW e, HasEpoch(tableData, t, e) PROVE t \notin TablesOf[g]
  <2>1. PICK u \in unsyncEpochs : t \in u.tables
    BY <1>2, <1>4 DEF EpochsKnown, HasEpoch
  <2>2. PICK h \in Group : u.tables \subseteq TablesOf[h] /\ mode[h] # "cleared"
    BY <1>2 DEF Epochs, EpochOf
  <2> QED BY <2>1, <2>2, OneGroup
<1>5. ASSUME NEW w, Pending(w, instData, tasks, spilledData) PROVE w.table \notin TablesOf[g]
  BY <1>1, <1>4, <1>5 DEF PendingOK
<1>6. barriers[g] = <<>>
  BY <1>2 DEF Chain, ChainOf
<1> QED BY <1>3, <1>4, <1>5, <1>6

\* The writes after a rollback of database g.
RolledBack(g) == {w \in written : w.table \notin TablesOf[g] \/ w.id \in version.data}

\* The data, when the writes of a database that were not committed are rolled back.
LEMMA RollbackData ==
  ASSUME NodeOK, DataOK, NEW g \in Group, mode[g] = "cleared",
         \A k \in DOMAIN answers : answers[k].tables \cap TablesOf[g] = {}, NEW md2,
         \A h \in Group : h # g => md2[h] = mode[h]
  PROVE  /\ PendingOK(RolledBack(g), instData, tasks, spilledData, tableData)
         /\ StageData(RolledBack(g), answers, syncing, tasks)
         /\ StageFull(md2, version, RolledBack(g), answers, syncing, tasks)
         /\ AllData(working, md2, version, RolledBack(g), answers, syncing, tasks, spilledData, instData)
         /\ Durability(RolledBack(g), version, nextImm)
         /\ \A w \in written : w \in RolledBack(g) <=> (w.table \in TablesOf[g] => w.epoch <= version.epoch[g])
<1>1. /\ PendingOK(written, instData, tasks, spilledData, tableData) /\ StageData(written, answers, syncing, tasks)
      /\ StageFull(mode, version, written, answers, syncing, tasks)
      /\ AllData(working, mode, version, written, answers, syncing, tasks, spilledData, instData)
      /\ Durability(written, version, nextImm)
  BY DataParts
<1>2. /\ \A e : ~HasStage(g, e, answers, syncing)
      /\ \A w : Pending(w, instData, tasks, spilledData) => w.table \notin TablesOf[g]
  BY ClearedIsEmpty
<1>3. /\ \A w \in RolledBack(g) : w \in written
      /\ \A w \in written : w.table \notin TablesOf[g] => w \in RolledBack(g)
      /\ \A w \in written : w \in RolledBack(g) <=> (w.table \in TablesOf[g] => w.epoch <= version.epoch[g])
  BY <1>1 DEF RolledBack, Durability
<1>4. PendingOK(RolledBack(g), instData, tasks, spilledData, tableData)
  BY <1>1, <1>2, <1>3 DEF PendingOK
<1>5. StageData(RolledBack(g), answers, syncing, tasks)
  <2>1. ASSUME NEW h \in Group, NEW w, NEW e, InStage(w, h, e, answers, syncing, tasks)
        PROVE  w \in RolledBack(g) /\ w.table \in TablesOf[h] /\ w.epoch <= e
    <3>1. h # g
      BY <2>1, <1>2, StageOf
    <3>2. w \in written /\ w.table \in TablesOf[h] /\ w.epoch <= e
      BY <2>1, <1>1 DEF StageData
    <3> QED BY <3>1, <3>2, <1>3, OneGroup
  <2> QED BY <2>1 DEF StageData
<1>6. StageFull(md2, version, RolledBack(g), answers, syncing, tasks)
  <2>1. ASSUME NEW h \in Group, md2[h] = "running", NEW e, HasStage(h, e, answers, syncing), NEW w \in RolledBack(g),
               w.table \in TablesOf[h] /\ version.epoch[h] < w.epoch /\ w.epoch <= e
        PROVE  \E f : f <= e /\ HasStage(h, f, answers, syncing) /\ InStage(w, h, f, answers, syncing, tasks)
    <3>1. mode[h] = "running" /\ w \in written
      BY <2>1, <1>2, <1>3
    <3> QED BY <2>1, <3>1, <1>1 DEF StageFull
  <2> QED BY <2>1 DEF StageFull
<1>7. AllData(working, md2, version, RolledBack(g), answers, syncing, tasks, spilledData, instData)
  <2>1. ASSUME NEW h \in Group, working, md2[h] = "running", NEW w \in RolledBack(g), w.table \in TablesOf[h]
        PROVE  \/ w.epoch <= version.epoch[h]
               \/ Pending(w, instData, tasks, spilledData)
               \/ \E e : HasStage(h, e, answers, syncing) /\ InStage(w, h, e, answers, syncing, tasks)
    <3>1. CASE h = g
      BY <2>1, <3>1, <1>3
    <3>2. CASE h # g
      <4>1. mode[h] = "running" /\ w \in written
        BY <2>1, <3>2, <1>3
      <4> QED BY <2>1, <4>1, <1>1 DEF AllData
    <3> QED BY <3>1, <3>2
  <2> QED BY <2>1 DEF AllData
<1>8. Durability(RolledBack(g), version, nextImm)
  BY <1>1, <1>3 DEF Durability
<1> QED BY <1>3, <1>4, <1>5, <1>6, <1>7, <1>8

\* The first barrier of a database.
LEMMA InitialData ==
  ASSUME NodeOK, DataOK, NEW g \in Group, InjectInitial(g)
  PROVE  DataOK'
<1> DEFINE new == {i \in Originals : TableOf[i] \in tables[g]}
           b == Barrier(g, "initial", "none", {}, new)
<1>1. /\ Issue(g, b, tables[g], new) /\ mode' = Put(mode, g, "running") /\ command' = Put(command, g, NoCommand)
      /\ written' = RolledBack(g) /\ version' = version /\ nextImm' = nextImm
      /\ mode[g] = "cleared" /\ lastEpoch[g] < MaxEpoch[g]
      /\ \A k \in DOMAIN answers : answers[k].tables \cap TablesOf[g] = {}
  BY DEF InjectInitial, Put, RolledBack
<1>2. /\ Commands(command, mode, barriers, actor) /\ Bounds(command, lastEpoch) /\ Fresh(command, mode, instData)
      /\ Gone(mode, instData, syncing, actor) /\ Actors(actor, epoch, mode, barriers, lastEpoch, tables)
  BY DataParts
<1>3. tables[g] \subseteq TablesOf[g] /\ ~(tables[g] \subseteq Droppable)
      /\ DOMAIN mode = Group /\ DOMAIN lastEpoch = Group /\ DOMAIN barriers = Group /\ lastEpoch[g] \in Nat
  BY Parts DEF Types, Chain
<1>4. barriers[g] = <<>>
  BY <1>1, ClearedIsEmpty
<1>5. \A i \in Members(g) : FALSE
  BY <1>1, <1>2, MembersAre DEF Actors
<1>6. \A i \in new : i \in Instance /\ i \in Originals /\ TableOf[i] \in tables[g] /\ i \notin DOMAIN instData
  BY <1>1, <1>2, <1>3 DEF Gone, Originals
<1>7. IssuedTo(g, b, tables[g], new)
  <2>1. \A i \in new : \A k \in DOMAIN barriers[g] : i \notin barriers[g][k].stop
    BY <1>4, EmptySeq
  <2> HIDE DEF new
  <2> QED BY <2>1, <1>1, <1>3, <1>5, <1>6, BarrierTo
<1>8. b.stop = {} /\ b.curr = lastEpoch[g] + 1
  BY DEF Barrier
<1> HIDE DEF b, new
<1>9. /\ Actors(actor', epoch', mode', barriers', lastEpoch', tables') /\ Forward(barriers')
      /\ Unsynced(working', actor', epoch', barriers', tableData')
      /\ Instances(working', actor', epoch', instData')
      /\ Floors(mode', lastEpoch', barriers', actor', epoch', version', answers', syncing')
      /\ \A ws : PendingOK(ws, instData, tasks, spilledData, tableData) => PendingOK(ws, instData', tasks', spilledData', tableData')
      /\ UNCHANGED <<working, instData, spilledData, tasks, syncing, answers>>
  BY <1>1, <1>7, IssueData
<1>10. /\ \A h \in Group : h # g => mode'[h] = mode[h] /\ command'[h] = command[h] /\ barriers'[h] = barriers[h]
                                    /\ lastEpoch'[h] = lastEpoch[h]
       /\ mode'[g] = "running" /\ command'[g] = NoCommand /\ barriers'[g] = Append(barriers[g], b)
       /\ lastEpoch'[g] = lastEpoch[g] + 1 /\ DOMAIN command' = Group
       /\ \A i \in Instance : actor'[i] = actor[i] \/ i \in new
  <2>1. barriers' = Queued(barriers, g, b) /\ lastEpoch' = Put(lastEpoch, g, b.curr) /\ actor' = Spawned(actor, new)
    BY <1>1 DEF Issue, Queued, Put, Spawned
  <2>2. (\A h \in Group : h # g => barriers'[h] = barriers[h]) /\ barriers'[g] = Append(barriers[g], b)
    BY <1>3, <2>1 DEF Queued
  <2>3. (\A h \in Group : h # g => lastEpoch'[h] = lastEpoch[h]) /\ lastEpoch'[g] = lastEpoch[g] + 1
    BY <1>3, <2>1, <1>8 DEF Put
  <2>4. \A i \in Instance : actor'[i] = actor[i] \/ i \in new
    BY <2>1 DEF Spawned
  <2>5. (\A h \in Group : h # g => mode'[h] = mode[h]) /\ mode'[g] = "running"
    BY <1>1, <1>3 DEF Put
  <2>6. DOMAIN command = Group
    BY <1>2 DEF Bounds
  <2>7. (\A h \in Group : h # g => command'[h] = command[h]) /\ command'[g] = NoCommand /\ DOMAIN command' = Group
    BY <1>1, <2>6 DEF Put
  <2> QED BY <2>2, <2>3, <2>4, <2>5, <2>7
<1>11. /\ PendingOK(RolledBack(g), instData, tasks, spilledData, tableData)
       /\ StageData(RolledBack(g), answers, syncing, tasks)
       /\ StageFull(mode', version, RolledBack(g), answers, syncing, tasks)
       /\ AllData(working, mode', version, RolledBack(g), answers, syncing, tasks, spilledData, instData)
       /\ Durability(RolledBack(g), version, nextImm)
  BY <1>1, <1>10, RollbackData
<1>12. Commands(command', mode', barriers', actor')
  <2>1. ASSUME NEW h \in Group, Unchanged(command', mode', h)
        PROVE  /\ \A k \in DOMAIN barriers'[h] : barriers'[h][k].stop = {}
               /\ \A i \in Instance : TableOf[i] \in TablesOf[h] /\ actor'[i] # "none" => i \in Originals
    <3>1. CASE h = g
      <4>1. IsSeq(barriers[g])
        BY Parts DEF Chain, ChainOf
      <4>2. \A k \in DOMAIN barriers'[g] : k \in DOMAIN barriers[g] \/ barriers'[g][k] = b
        BY <4>1, <1>10, AppendPlaces
      <4>3. \A k \in DOMAIN barriers'[g] : barriers'[g][k].stop = {}
        BY <4>2, <1>4, <1>8, EmptySeq
      <4>4. \A i \in Instance : TableOf[i] \in TablesOf[g] => actor[i] = "none"
        BY <1>1, <1>2 DEF Gone
      <4> QED BY <3>1, <4>3, <4>4, <1>6, <1>10
    <3>2. CASE h # g
      <4>1. Unchanged(command, mode, h)
        BY <2>1, <3>2, <1>10 DEF Unchanged
      <4>2. \A i \in Instance : TableOf[i] \in TablesOf[h] => actor'[i] = actor[i]
        BY <3>2, <1>3, <1>6, <1>10, OneGroup
      <4> QED BY <4>1, <4>2, <3>2, <1>2, <1>10 DEF Commands
    <3> QED BY <3>1, <3>2
  <2> QED BY <2>1 DEF Commands
<1>13. Bounds(command', lastEpoch')
  <2>1. MaxEpoch[g] \in Nat /\ command'[g].cmd = "none"
    BY <1>10, GroupAssumption DEF NoCommand
  <2>2. lastEpoch'[g] <= MaxEpoch[g] + 1 /\ (command'[g].cmd = "Update" => lastEpoch'[g] <= MaxEpoch[g])
    BY <2>1, <1>1, <1>3, <1>10
  <2> QED BY <2>2, <1>2, <1>10 DEF Bounds
<1>14. Fresh(command', mode', instData')
  <2>1. ASSUME NEW h \in Group, Unchanged(command', mode', h), NEW i \in DOMAIN instData, TableOf[i] \in TablesOf[h]
        PROVE  i \in Originals
    <3>1. h # g
      BY <2>1, <1>1, <1>2 DEF Gone
    <3>2. Unchanged(command, mode, h)
      BY <2>1, <3>1, <1>10 DEF Unchanged
    <3> QED BY <2>1, <3>2, <1>2 DEF Fresh
  <2> QED BY <2>1, <1>9 DEF Fresh
<1>15. Gone(mode', instData', syncing', actor')
  <2>1. ASSUME NEW h \in Group, mode'[h] = "cleared"
        PROVE  mode[h] = "cleared" /\ \A i \in Instance : TableOf[i] \in TablesOf[h] => actor'[i] = actor[i]
    BY <2>1, <1>3, <1>6, <1>10, OneGroup
  <2> QED BY <2>1, <1>9, <1>2 DEF Gone
<1>16. AnswersOK(answers', syncing')
  BY <1>9, DataParts
<1> QED BY <1>1, <1>9, <1>11, <1>12, <1>13, <1>14, <1>15, <1>16 DEF DataOK

\* Every barrier keeps the data.
LEMMA InjectData ==
  ASSUME NodeOK, DataOK, NEW g \in Group, Inject(g)
  PROVE  DataOK'
<1>1. tables[g] \subseteq tables[g] /\ ~(tables[g] \subseteq Droppable) /\ tables[g] \subseteq TablesOf[g]
  BY Parts DEF Types
<1>2. CASE InjectInitial(g)
  BY <1>2, InitialData
<1>3. ASSUME NEW kind \in {"barrier", "checkpoint"}, NEW cmd \in {"none", "Pause", "Resume"},
             InjectCommand(g, kind, cmd, tables[g], {}, {}), mode[g] = "running", CommandOf(g, cmd, {}, {})
      PROVE  DataOK'
  <2>1. IssuedTo(g, Barrier(g, kind, cmd, {}, {}), tables[g], {})
    BY <1>1, <1>3, BarrierTo
  <2> QED BY <1>3, <2>1, CommandData
<1>4. ASSUME NEW kind \in {"barrier", "checkpoint"}, InjectPlain(g, kind) PROVE DataOK'
  <2>1. /\ mode[g] = "running" /\ InjectCommand(g, kind, "none", tables[g], {}, {})
        /\ lastEpoch[g] < MaxEpoch[g]
    BY <1>4 DEF InjectPlain, CanInject
  <2> QED BY <2>1, <1>3 DEF CommandOf
<1>5. ASSUME NEW kind \in {"barrier", "checkpoint"}, InjectResume(g, kind) PROVE DataOK'
  <2>1. /\ mode[g] = "running" /\ InjectCommand(g, kind, "Resume", tables[g], {}, {}) /\ command[g].cmd = "Update"
    BY <1>5 DEF InjectResume, CanInject
  <2> QED BY <2>1, <1>3 DEF CommandOf
<1>6. CASE InjectPause(g)
  <2>1. /\ mode[g] = "running" /\ InjectCommand(g, "checkpoint", "Pause", tables[g], {}, {})
        /\ command[g].cmd = "none" /\ lastEpoch[g] < MaxEpoch[g]
    BY <1>6 DEF InjectPause, CanInject
  <2> QED BY <2>1, <1>3 DEF CommandOf
<1>7. CASE InjectUpdate(g)
  <2> DEFINE stop == Members(g) \cap DOMAIN Successor
             new == {Successor[i] : i \in stop}
  <2>1. /\ mode[g] = "running" /\ InjectCommand(g, "checkpoint", "Update", tables[g], stop, new)
        /\ command[g].cmd = "Pause" /\ lastEpoch[g] < MaxEpoch[g]
    BY <1>7 DEF InjectUpdate, CanInject
  <2>2. Unchanged(command, mode, g)
    BY <2>1 DEF Unchanged
  <2>3. /\ \A i \in Members(g) : i \in Instance /\ TableOf[i] \in tables[g] /\ i \in Originals
    <3>1. \A i \in Members(g) : i \in Instance /\ TableOf[i] \in tables[g] /\ TableOf[i] \in TablesOf[g] /\ actor[i] # "none"
      BY <2>1, MembersAre
    <3> QED BY <3>1, <2>2, DataParts DEF Commands
  <2>4. \A k \in DOMAIN barriers[g] : barriers[g][k].stop = {}
    BY <2>2, DataParts DEF Commands
  <2>5. ASSUME NEW i \in new PROVE i \in Instance /\ TableOf[i] \in tables[g] /\ i \notin stop /\ i \notin DOMAIN instData
    <3>1. PICK j \in stop : i = Successor[j]
      OBVIOUS
    <3>2. i \in Instance /\ TableOf[i] = TableOf[j] /\ i \notin Originals
      BY <3>1, GroupAssumption DEF Originals
    <3>3. TableOf[i] \in tables[g] /\ i \notin stop
      BY <2>3, <3>1, <3>2
    <3>4. i \notin DOMAIN instData
      BY <2>2, <3>2, <3>3, <1>1, DataParts DEF Fresh
    <3> QED BY <3>2, <3>3, <3>4
  <2>6. \A i \in stop : i \in Members(g)
    OBVIOUS
  <2> HIDE DEF stop, new
  <2>7. IssuedTo(g, Barrier(g, "checkpoint", "Update", stop, new), tables[g], new)
    BY <1>1, <2>1, <2>4, <2>5, <2>6, BarrierTo
  <2>8. CommandOf(g, "Update", stop, new)
    BY <2>1 DEF CommandOf
  <2> QED BY <2>1, <2>7, <2>8, CommandData
<1>8. ASSUME NEW t \in Droppable, InjectDrop(g, t) PROVE DataOK'
  <2> DEFINE T == tables[g] \ {t}
             stop == {i \in Members(g) : TableOf[i] = t}
  <2>1. /\ mode[g] = "running" /\ InjectCommand(g, "checkpoint", "Drop", T, stop, {})
        /\ command[g].cmd = "none" /\ lastEpoch[g] < MaxEpoch[g]
    BY <1>8 DEF InjectDrop, CanInject
  <2>2. T \subseteq tables[g] /\ ~(T \subseteq Droppable)
    BY <1>1
  <2>3. /\ \A i \in stop : i \in Members(g)
        /\ \A i \in Members(g) : i \in stop \/ (TableOf[i] \in tables[g] => TableOf[i] \in T)
    OBVIOUS
  <2> HIDE DEF T, stop
  <2>4. IssuedTo(g, Barrier(g, "checkpoint", "Drop", stop, {}), T, {})
    BY <2>1, <2>2, <2>3, BarrierTo
  <2>5. CommandOf(g, "Drop", stop, {})
    BY <2>1 DEF CommandOf
  <2> QED BY <2>1, <2>4, <2>5, CommandData
<1> QED BY <1>2, <1>4, <1>5, <1>6, <1>7, <1>8 DEF Inject

\* Actor i collects barriers; nobody else is affected.
CollectsFor(i, br, br2) ==
  \A g \in Group :
    /\ DOMAIN br2[g] = DOMAIN br[g]
    /\ \A k \in DOMAIN br[g] :
         /\ br2[g][k].prev = br[g][k].prev /\ br2[g][k].curr = br[g][k].curr /\ br2[g][k].kind = br[g][k].kind
         /\ br2[g][k].stop = br[g][k].stop /\ br2[g][k].remaining \subseteq br[g][k].remaining
         /\ \A j : j # i => (j \in br2[g][k].remaining <=> j \in br[g][k].remaining)

\* Barriers that are collected by one actor.
LEMMA CollectedFor ==
  ASSUME NEW br, NEW br2, NEW le, NEW md, NEW i, Chain(br, le, md), CollectedBy(br, br2, i)
  PROVE  CollectsFor(i, br, br2)
<1>1. ASSUME NEW g \in Group
      PROVE  /\ DOMAIN br2[g] = DOMAIN br[g]
             /\ \A k \in DOMAIN br[g] :
                  /\ br2[g][k].prev = br[g][k].prev /\ br2[g][k].curr = br[g][k].curr /\ br2[g][k].kind = br[g][k].kind
                  /\ br2[g][k].stop = br[g][k].stop /\ br2[g][k].remaining \subseteq br[g][k].remaining
                  /\ \A j : j # i => (j \in br2[g][k].remaining <=> j \in br[g][k].remaining)
  <2>1. SameBarriers(br[g], br2[g]) /\ \A k \in DOMAIN br[g] : BarrierShape(br[g][k])
    <3>1. ChainOf(g, br[g], le[g], md[g])
      BY DEF Chain
    <3>2. \A k \in DOMAIN br[g] : BarrierShape(br[g][k])
      BY <3>1 DEF ChainOf
    <3>3. SameBarriers(br[g], br2[g])
      BY CollectedSame
    <3> QED BY <3>2, <3>3
  <2>2. DOMAIN br2[g] = DOMAIN br[g]
    BY <2>1 DEF SameBarriers
  <2>3. ASSUME NEW k \in DOMAIN br[g]
        PROVE  /\ br2[g][k].prev = br[g][k].prev /\ br2[g][k].curr = br[g][k].curr /\ br2[g][k].kind = br[g][k].kind
               /\ br2[g][k].stop = br[g][k].stop /\ br2[g][k].remaining \subseteq br[g][k].remaining
    BY <2>1, SameFields
  <2>4. ASSUME NEW k \in DOMAIN br[g], NEW j, j # i PROVE j \in br2[g][k].remaining <=> j \in br[g][k].remaining
    <3>1. br2[g] = br[g] \/ \E K : br2[g] = CollectAt(br[g], K, i)
      BY DEF CollectedBy, Chain
    <3>2. br2[g][k] = br[g][k] \/ br2[g][k] = Without(br[g][k], i)
      BY <3>1 DEF CollectAt
    <3>3. Without(br[g][k], i).remaining = br[g][k].remaining \ {i}
      BY <2>1, CollectedShape
    <3> QED BY <2>4, <3>2, <3>3
  <2> QED BY <2>2, <2>3, <2>4
<1> QED BY <1>1 DEF CollectsFor

\* One actor takes a step and may collect barriers.
ActStep(i, ac, ac2, ep, ep2, br, br2) ==
  /\ i \in Instance /\ Live(ac[i]) /\ ac2 \in [Instance -> ActorState] /\ DOMAIN ep2 = Instance
  /\ CollectsFor(i, br, br2)
  /\ \A j \in Instance : j # i => ac2[j] = ac[j] /\ ep2[j] = ep[j]
  /\ ac2[i] = "none" \/ (Live(ac2[i]) /\ ep[i].curr \in Nat /\ ep2[i].curr \in Nat /\ ep[i].curr <= ep2[i].curr)

\* What it leaves in place.
LEMMA ActorMoves ==
  ASSUME NEW i, NEW ac, NEW ac2, NEW ep, NEW ep2, NEW br, NEW br2, ActStep(i, ac, ac2, ep, ep2, br, br2),
         NEW md, NEW le, NEW tb, Actors(ac, ep, md, br, le, tb),
         Live(ac2[i]) => ActorOf(i, ac2[i], ep2[i].curr, br2[GroupOf[i]], le[GroupOf[i]], tb[GroupOf[i]])
  PROVE  Actors(ac2, ep2, md, br2, le, tb)
<1>1. ac2 \in [Instance -> ActorState] /\ DOMAIN ep2 = Instance /\ i \in Instance
  BY DEF ActStep
<1>2. \A j \in Instance : ac2[j] # "none" => ac[j] # "none"
  BY DEF ActStep, Live
<1>3. \A j \in Instance : ac2[j] # "none" => GroupOf[j] \in Group /\ TableOf[j] \in TablesOf[GroupOf[j]]
  BY <1>2 DEF Actors
<1>4. ASSUME NEW j \in Instance, ac2[j] \in {"aborted", "dropping"} PROVE md[GroupOf[j]] = "suspended"
  <2>1. ac[j] \in {"aborted", "dropping"}
    BY <1>4 DEF ActStep, Live
  <2> QED BY <2>1 DEF Actors
<1>5. ASSUME NEW j \in Instance, Live(ac2[j])
      PROVE  /\ md[GroupOf[j]] = "running"
             /\ ActorOf(j, ac2[j], ep2[j].curr, br2[GroupOf[j]], le[GroupOf[j]], tb[GroupOf[j]])
  <2>1. CASE j = i
    BY <1>5, <2>1 DEF ActStep, Actors
  <2>2. CASE j # i
    <3>1. ac2[j] = ac[j] /\ ep2[j] = ep[j]
      BY <2>2 DEF ActStep
    <3>2. /\ GroupOf[j] \in Group /\ md[GroupOf[j]] = "running"
          /\ ActorOf(j, ac[j], ep[j].curr, br[GroupOf[j]], le[GroupOf[j]], tb[GroupOf[j]])
      BY <1>5, <3>1 DEF Actors, Live
    <3>3. SameFor(j, br[GroupOf[j]], br2[GroupOf[j]])
      BY <2>2, <3>2 DEF ActStep, CollectsFor, SameFor
    <3> QED BY <3>1, <3>2, <3>3, ActorOthers
  <2> QED BY <2>1, <2>2
<1> QED BY <1>1, <1>3, <1>4, <1>5 DEF Actors

\* The other parts that only look at actors and barriers.
LEMMA ActorMovesRest ==
  ASSUME NEW i, NEW ac, NEW ac2, NEW ep, NEW ep2, NEW br, NEW br2, ActStep(i, ac, ac2, ep, ep2, br, br2),
         NEW md, NEW le, NEW tb, NEW cm, NEW vs, NEW ans, NEW sy, NEW ins, NEW ins2,
         Actors(ac, ep, md, br, le, tb), Forward(br), Commands(cm, md, br, ac),
         Floors(md, le, br, ac, ep, vs, ans, sy), Gone(md, ins, sy, ac), Fresh(cm, md, ins),
         \A j \in DOMAIN ins2 : j \in DOMAIN ins \/ j = i
  PROVE  /\ Forward(br2) /\ Commands(cm, md, br2, ac2) /\ Floors(md, le, br2, ac2, ep2, vs, ans, sy)
         /\ Gone(md, ins2, sy, ac2) /\ Fresh(cm, md, ins2)
<1>1. /\ \A g \in Group :
           /\ DOMAIN br2[g] = DOMAIN br[g]
           /\ \A k \in DOMAIN br[g] :
                /\ br2[g][k].prev = br[g][k].prev /\ br2[g][k].curr = br[g][k].curr
                /\ br2[g][k].kind = br[g][k].kind /\ br2[g][k].stop = br[g][k].stop
                /\ br2[g][k].remaining \subseteq br[g][k].remaining
  BY DEF ActStep, CollectsFor
<1>2. /\ \A j \in Instance : ac2[j] # "none" => ac[j] # "none"
      /\ \A j \in Instance : Live(ac2[j]) => Live(ac[j])
      /\ i \in Instance /\ md[GroupOf[i]] = "running" /\ ac[i] # "none" /\ GroupOf[i] \in Group
  BY DEF ActStep, Live, Actors
<1>3. Forward(br2)
  BY <1>1 DEF Forward
<1>4. Commands(cm, md, br2, ac2)
  BY <1>1, <1>2 DEF Commands
<1>5. ASSUME NEW g \in Group, NEW e, Over(e, g, md, le, br[g], ac, ep) PROVE Over(e, g, md, le, br2[g], ac2, ep2)
  <2>1. \A k \in DOMAIN br2[g] : e < br2[g][k].curr /\ (br2[g][k].kind = "checkpoint" => e < br2[g][k].prev)
    BY <1>1, <1>5 DEF Over
  <2>2. ASSUME NEW j \in Instance, Live(ac2[j]), GroupOf[j] = g PROVE e < ep2[j].curr
    <3>1. e < ep[j].curr /\ e \in Nat
      BY <1>2, <1>5, <2>2 DEF Over
    <3>2. CASE j = i
      <4>1. ep[i].curr \in Nat /\ ep2[i].curr \in Nat /\ ep[i].curr <= ep2[i].curr
        BY <2>2, <3>2 DEF ActStep, Live
      <4> QED BY <3>1, <3>2, <4>1
    <3>3. CASE j # i
      BY <3>1, <3>3 DEF ActStep
    <3> QED BY <3>2, <3>3
  <2> QED BY <1>5, <2>1, <2>2 DEF Over
<1>6. Floors(md, le, br2, ac2, ep2, vs, ans, sy)
  BY <1>5 DEF Floors
<1>7. Gone(md, ins2, sy, ac2)
  <2>1. ASSUME NEW g \in Group, md[g] = "cleared" PROVE TableOf[i] \notin TablesOf[g]
    BY <2>1, <1>2 DEF Gone
  <2> QED BY <2>1, <1>2 DEF Gone
<1>8. Fresh(cm, md, ins2)
  <2>1. ASSUME NEW g \in Group, Unchanged(cm, md, g), TableOf[i] \in TablesOf[g] PROVE i \in Originals
    BY <2>1, <1>2 DEF Commands
  <2> QED BY <2>1 DEF Fresh
<1> QED BY <1>3, <1>4, <1>6, <1>7, <1>8

\* The barriers of a database follow one another.
LEMMA QueueFacts ==
  ASSUME NodeOK, DataOK, NEW g \in Group
  PROVE  /\ IsSeq(barriers[g]) /\ lastEpoch[g] \in Nat
         /\ \A k \in DOMAIN barriers[g] :
              /\ barriers[g][k].curr \in Nat /\ barriers[g][k].prev \in Nat /\ barriers[g][k].prev < barriers[g][k].curr
              /\ barriers[g][k].curr <= lastEpoch[g] /\ k \in Nat /\ BarrierShape(barriers[g][k])
         /\ \A j, k \in DOMAIN barriers[g] : j < k => barriers[g][j].curr <= barriers[g][k].prev
         /\ \A j, k \in DOMAIN barriers[g] : barriers[g][j].curr = barriers[g][k].curr => j = k
<1>1. ChainOf(g, barriers[g], lastEpoch[g], mode[g]) /\ lastEpoch[g] \in Nat /\ Forward(barriers)
  BY Parts, DataParts DEF Chain, Types
<1>2. IsSeq(barriers[g])
  BY <1>1 DEF ChainOf
<1>3. \A k \in DOMAIN barriers[g] : k \in Nat
  BY <1>2, SeqDomain
<1>4. \A k \in DOMAIN barriers[g] :
        /\ barriers[g][k].curr \in Nat /\ barriers[g][k].prev \in Nat /\ barriers[g][k].prev < barriers[g][k].curr
        /\ barriers[g][k].curr <= lastEpoch[g] /\ BarrierShape(barriers[g][k])
  BY <1>1 DEF ChainOf, BarrierShape, Forward
<1>5. \A j, k \in DOMAIN barriers[g] : j < k => barriers[g][j].curr <= barriers[g][k].prev
  BY <1>1 DEF ChainOf
<1>6. ASSUME NEW j \in DOMAIN barriers[g], NEW k \in DOMAIN barriers[g], j < k PROVE barriers[g][j].curr < barriers[g][k].curr
  BY <1>4, <1>5, <1>6
<1>7. ASSUME NEW j \in DOMAIN barriers[g], NEW k \in DOMAIN barriers[g], j # k
      PROVE  barriers[g][j].curr # barriers[g][k].curr
  BY <1>3, <1>4, <1>6, <1>7
<1> QED BY <1>1, <1>2, <1>3, <1>4, <1>5, <1>7

\* A live actor.
LEMMA LiveActor ==
  ASSUME NodeOK, DataOK, NEW i \in Instance, Live(actor[i])
  PROVE  /\ GroupOf[i] \in Group /\ TableOf[i] \in TablesOf[GroupOf[i]] /\ mode[GroupOf[i]] = "running"
         /\ epoch[i].curr \in Nat /\ actor[i] # "none"
         /\ ActorOf(i, actor[i], epoch[i].curr, barriers[GroupOf[i]], lastEpoch[GroupOf[i]], tables[GroupOf[i]])
BY DataParts DEF Actors, Live, ActorOf

\* The barrier that an actor processes next.
LEMMA NextIs ==
  ASSUME NodeOK, DataOK, NEW i \in Instance, actor[i] \in {"spawned", "running"}, NEW b \in NextBarriers(i)
  PROVE  \E m \in DOMAIN barriers[GroupOf[i]] :
           /\ barriers[GroupOf[i]][m] = b /\ i \in b.remaining
           /\ b.prev = epoch[i].curr \/ (b.curr = epoch[i].curr /\ i \notin b.stop)
           /\ actor[i] = "running" => b.prev = epoch[i].curr
<1>1. PICK m \in DOMAIN barriers[GroupOf[i]] : barriers[GroupOf[i]][m] = b
  BY DEF NextBarriers, Range
<1>2. i \in b.remaining /\ IF actor[i] = "spawned" THEN b.curr = epoch[i].curr ELSE b.prev = epoch[i].curr
  BY DEF NextBarriers
<1>3. ActorOf(i, actor[i], epoch[i].curr, barriers[GroupOf[i]], lastEpoch[GroupOf[i]], tables[GroupOf[i]])
      /\ epoch[i].curr \in Nat
  BY LiveActor DEF Live
<1>4. actor[i] = "spawned" => i \notin b.stop
  BY <1>1, <1>2, <1>3 DEF ActorOf
<1> QED BY <1>1, <1>2, <1>4

\* An actor that does not stop collects it.
LEMMA CollectPasses ==
  ASSUME NodeOK, DataOK, NEW i \in Instance, actor[i] \in {"spawned", "running"},
         NEW m \in DOMAIN barriers[GroupOf[i]], Collect(i, barriers[GroupOf[i]][m]), i \notin barriers[GroupOf[i]][m].stop
  PROVE  PassedBy(i, barriers[GroupOf[i]], barriers'[GroupOf[i]], m)
<1> DEFINE g == GroupOf[i]
           q == barriers[g]
<1>1. g \in Group /\ DOMAIN barriers = Group
  BY LiveActor, Parts DEF Live, Chain
<1>2. CollectsFor(i, barriers, barriers')
  BY CollectStep, CollectedFor, Parts
<1>3. \A j, k \in DOMAIN q : q[j].curr = q[k].curr => j = k
  BY <1>1, QueueFacts
<1>4. barriers'[g] = [k \in DOMAIN q |-> IF q[k].curr = q[m].curr THEN Without(q[k], i) ELSE q[k]]
  BY <1>1 DEF Collect
<1>5. \A k \in DOMAIN q : k # m => barriers'[g][k] = q[k]
  BY <1>3, <1>4
<1> QED BY <1>1, <1>2, <1>5 DEF PassedBy, CollectsFor

\* Instance i changes and keeps its imms.
InstChange(i, ins, ins2) ==
  /\ \A j : j # i => (j \in DOMAIN ins2 <=> j \in DOMAIN ins) /\ (j \in DOMAIN ins => ins2[j] = ins[j])
  /\ \A w : (i \in DOMAIN ins2 /\ InInst(w, i, ins2[i])) <=> (i \in DOMAIN ins /\ InInst(w, i, ins[i]))

\* Tables of which only notes change.
TablesLike(td, td2) ==
  /\ DOMAIN td2 = DOMAIN td
  /\ \A t \in DOMAIN td : td2[t].unsync = td[t].unsync /\ td2[t].spill = td[t].spill

\* What is pending stays the same.
LEMMA SamePending ==
  ASSUME NEW wr, NEW ins, NEW ins2, NEW tk, NEW sp, NEW td, NEW td2, NEW wk, NEW md, NEW vs, NEW ans, NEW sy,
         PendingOK(wr, ins, tk, sp, td), AllData(wk, md, vs, wr, ans, sy, tk, sp, ins), TablesLike(td, td2),
         \A w : PendingInst(w, ins2) <=> PendingInst(w, ins)
  PROVE  PendingOK(wr, ins2, tk, sp, td2) /\ AllData(wk, md, vs, wr, ans, sy, tk, sp, ins2)
<1>1. \A w : Pending(w, ins2, tk, sp) <=> Pending(w, ins, tk, sp)
  BY DEF Pending
<1>2. ASSUME NEW w, Pending(w, ins2, tk, sp) PROVE w \in wr /\ HasEpoch(td2, w.table, w.epoch)
  BY <1>1, <1>2 DEF PendingOK, HasEpoch, TablesLike
<1>3. ASSUME NEW x, NEW w, IsSpill(x, tk, sp), InInput(w, x.input)
      PROVE  w.table \in x.tables /\ <<w.epoch, x.id>> \in td2[w.table].spill
  <2>1. w.table \in x.tables /\ <<w.epoch, x.id>> \in td[w.table].spill
    BY <1>3 DEF PendingOK
  <2>2. Pending(w, ins, tk, sp)
    BY <1>3 DEF Pending, PendingSpill
  <2>3. w.table \in DOMAIN td
    BY <2>2 DEF PendingOK, HasEpoch
  <2> QED BY <2>1, <2>3 DEF TablesLike
<1>4. PendingOK(wr, ins2, tk, sp, td2)
  BY <1>2, <1>3 DEF PendingOK
<1>5. AllData(wk, md, vs, wr, ans, sy, tk, sp, ins2)
  BY <1>1 DEF AllData
<1> QED BY <1>4, <1>5

\* In particular, when one instance changes.
LEMMA InstChangePending ==
  ASSUME NEW i, NEW ins, NEW ins2, InstChange(i, ins, ins2)
  PROVE  \A w : PendingInst(w, ins2) <=> PendingInst(w, ins)
BY DEF InstChange, PendingInst

\* The instance of actor i is what the actor needs.
MovedInst(i) ==
  /\ InstChange(i, instData, instData') /\ TablesLike(tableData, tableData')
  /\ i \in DOMAIN instData' => InstShape(instData'[i]) /\ InstanceOf(actor'[i], epoch'[i].curr, instData'[i])
  /\ working => /\ actor'[i] = "running" => i \in DOMAIN instData'
                /\ actor'[i] \in {"spawned", "waiting", "running"} => HasEpoch(tableData, TableOf[i], epoch'[i].curr)

\* Steps of one actor that write nothing.
LEMMA ActorStepData ==
  ASSUME NodeOK, DataOK, NEW i, ActStep(i, actor, actor', epoch, epoch', barriers, barriers'),
         Live(actor'[i]) => ActorOf(i, actor'[i], epoch'[i].curr, barriers'[GroupOf[i]], lastEpoch[GroupOf[i]], tables[GroupOf[i]]),
         MovedInst(i),
         UNCHANGED <<working, spilledData, tasks, syncing, answers>>,
         UNCHANGED <<mode, tables, lastEpoch, command, version, written, nextImm>>
  PROVE  DataOK'
<1>1. /\ Actors(actor, epoch, mode, barriers, lastEpoch, tables) /\ Forward(barriers)
      /\ Commands(command, mode, barriers, actor) /\ Unsynced(working, actor, epoch, barriers, tableData)
      /\ Instances(working, actor, epoch, instData) /\ Fresh(command, mode, instData)
      /\ Gone(mode, instData, syncing, actor)
      /\ Floors(mode, lastEpoch, barriers, actor, epoch, version, answers, syncing)
      /\ PendingOK(written, instData, tasks, spilledData, tableData)
      /\ AllData(working, mode, version, written, answers, syncing, tasks, spilledData, instData)
  BY DataParts
<1>2. Actors(actor', epoch', mode, barriers', lastEpoch, tables)
  BY <1>1, ActorMoves
<1>3. \A j \in DOMAIN instData' : j \in DOMAIN instData \/ j = i
  BY DEF MovedInst, InstChange
<1>4. /\ Forward(barriers') /\ Commands(command, mode, barriers', actor')
      /\ Floors(mode, lastEpoch, barriers', actor', epoch', version, answers, syncing)
      /\ Gone(mode, instData', syncing, actor') /\ Fresh(command, mode, instData')
  BY <1>1, <1>3, ActorMovesRest
<1>5. /\ i \in Instance /\ \A j \in Instance : j # i => actor'[j] = actor[j] /\ epoch'[j] = epoch[j]
      /\ CollectsFor(i, barriers, barriers')
  BY DEF ActStep
<1>6. Unsynced(working, actor', epoch', barriers', tableData')
  <2>1. \A t, e : HasEpoch(tableData, t, e) => HasEpoch(tableData', t, e)
    BY DEF MovedInst, TablesLike, HasEpoch
  <2>2. ASSUME working, NEW j \in Instance, actor'[j] \in {"spawned", "waiting", "running"}
        PROVE  HasEpoch(tableData', TableOf[j], epoch'[j].curr)
    <3>1. CASE j = i
      BY <2>1, <2>2, <3>1 DEF MovedInst
    <3>2. CASE j # i
      BY <2>1, <2>2, <3>2, <1>1, <1>5 DEF Unsynced
    <3> QED BY <3>1, <3>2
  <2>3. ASSUME working, NEW g \in Group, NEW k \in DOMAIN barriers'[g], NEW j \in barriers'[g][k].remaining \ barriers'[g][k].stop
        PROVE  HasEpoch(tableData', TableOf[j], barriers'[g][k].curr)
    BY <2>1, <2>3, <1>1, <1>5 DEF Unsynced, CollectsFor
  <2> QED BY <2>2, <2>3 DEF Unsynced
<1>7. Instances(working, actor', epoch', instData')
  <2>1. ASSUME NEW j \in DOMAIN instData'
        PROVE  j \in Instance /\ InstShape(instData'[j]) /\ InstanceOf(actor'[j], epoch'[j].curr, instData'[j])
    <3>1. CASE j = i
      BY <3>1, <1>5 DEF MovedInst
    <3>2. CASE j # i
      <4>1. j \in DOMAIN instData /\ instData'[j] = instData[j]
        BY <3>2 DEF MovedInst, InstChange
      <4> QED BY <3>2, <4>1, <1>1, <1>5 DEF Instances
    <3> QED BY <3>1, <3>2
  <2>2. ASSUME working, NEW j \in Instance, actor'[j] = "running" PROVE j \in DOMAIN instData'
    BY <2>2, <1>1, <1>5 DEF Instances, MovedInst, InstChange
  <2> QED BY <2>1, <2>2 DEF Instances
<1>8. /\ PendingOK(written, instData', tasks, spilledData, tableData')
      /\ AllData(working, mode, version, written, answers, syncing, tasks, spilledData, instData')
  <2>1. \A w : PendingInst(w, instData') <=> PendingInst(w, instData)
    BY InstChangePending DEF MovedInst
  <2> QED BY <2>1, <1>1, SamePending DEF MovedInst
<1>9. /\ Bounds(command, lastEpoch) /\ AnswersOK(answers, syncing) /\ StageData(written, answers, syncing, tasks)
      /\ StageFull(mode, version, written, answers, syncing, tasks) /\ Durability(written, version, nextImm)
  BY DataParts
<1> QED BY <1>2, <1>4, <1>6, <1>7, <1>8, <1>9 DEF DataOK

\* Nothing changes in the uploader.
LEMMA NoChange ==
  ASSUME NEW i, NEW ins, NEW td
  PROVE  InstChange(i, ins, ins) /\ TablesLike(td, td)
BY DEF InstChange, TablesLike

\* An actor is built.
LEMMA BuildData ==
  ASSUME NodeOK, DataOK, NEW i \in Instance, Build(i)
  PROVE  DataOK'
<1>1. /\ actor[i] = "spawned" /\ actor' = Put(actor, i, "waiting") /\ epoch' = epoch
      /\ UNCHANGED <<mode, tables, lastEpoch, command, version, written, nextImm>> /\ UNCHANGED uploaderVars
  BY DEF Build, Put
<1>2. PICK b \in NextBarriers(i) : Collect(i, b)
  BY DEF Build
<1>3. PICK m \in DOMAIN barriers[GroupOf[i]] :
        barriers[GroupOf[i]][m] = b /\ (actor[i] = "spawned" => i \notin b.stop /\ b.curr = epoch[i].curr)
  <2>1. PICK m \in DOMAIN barriers[GroupOf[i]] : barriers[GroupOf[i]][m] = b
    BY <1>1, NextIs
  <2>2. b.curr = epoch[i].curr
    BY <1>1 DEF NextBarriers
  <2>3. ActorOf(i, actor[i], epoch[i].curr, barriers[GroupOf[i]], lastEpoch[GroupOf[i]], tables[GroupOf[i]])
        /\ epoch[i].curr \in Nat
    BY <1>1, LiveActor DEF Live
  <2>4. i \notin b.stop
    BY <1>1, <2>1, <2>2, <2>3 DEF ActorOf
  <2> QED BY <2>1, <2>2, <2>4
<1>4. PassedBy(i, barriers[GroupOf[i]], barriers'[GroupOf[i]], m)
  BY <1>1, <1>2, <1>3, CollectPasses
<1>5. /\ GroupOf[i] \in Group /\ epoch[i].curr \in Nat
      /\ ActorOf(i, "spawned", epoch[i].curr, barriers[GroupOf[i]], lastEpoch[GroupOf[i]], tables[GroupOf[i]])
  BY <1>1, LiveActor DEF Live
<1>6. ActorOf(i, "waiting", epoch[i].curr, barriers'[GroupOf[i]], lastEpoch[GroupOf[i]], tables[GroupOf[i]])
  <2> DEFINE q == barriers[GroupOf[i]]
             q2 == barriers'[GroupOf[i]]
             last == lastEpoch[GroupOf[i]]
             tb == tables[GroupOf[i]]
  <2>1. /\ \A k \in DOMAIN q : q[k].curr \in Nat /\ q[k].prev \in Nat /\ q[k].prev < q[k].curr /\ q[k].curr <= last /\ k \in Nat
        /\ \A j, k \in DOMAIN q : j < k => q[j].curr <= q[k].prev
    BY <1>5, QueueFacts
  <2>2. q[m].curr = epoch[i].curr /\ i \notin q[m].stop
    BY <1>1, <1>3
  <2>3. ActorOf(i, "spawned", epoch[i].curr, q, last, tb) /\ PassedBy(i, q, q2, m) /\ m \in DOMAIN q /\ epoch[i].curr \in Nat
    BY <1>4, <1>5
  <2> HIDE DEF q, q2, last, tb
  <2>4. ActorOf(i, "waiting", q[m].curr, q2, last, tb)
    BY <2>1, <2>2, <2>3, ActorPassed
  <2> QED BY <2>2, <2>4 DEF q, q2, last, tb
<1>7. actor'[i] = "waiting" /\ (\A j \in Instance : j # i => actor'[j] = actor[j]) /\ actor' \in [Instance -> ActorState]
  <2>1. actor \in [Instance -> ActorState]
    BY DataParts DEF Actors
  <2> QED BY <1>1, <2>1 DEF Put, ActorState
<1>8. CollectsFor(i, barriers, barriers')
  BY <1>2, CollectStep, CollectedFor, Parts
<1>9. ActStep(i, actor, actor', epoch, epoch', barriers, barriers')
  <2>1. DOMAIN epoch = Instance
    BY DataParts DEF Actors
  <2> QED BY <1>1, <1>5, <1>7, <1>8, <2>1 DEF ActStep, Live
<1>10. MovedInst(i)
  <2>1. i \notin DOMAIN instData
    BY <1>1, DataParts DEF Instances, InstanceOf
  <2>2. working => HasEpoch(tableData, TableOf[i], epoch[i].curr)
    BY <1>1, DataParts DEF Unsynced
  <2> QED BY <2>1, <2>2, <1>1, <1>7, NoChange DEF MovedInst, uploaderVars
<1> QED BY <1>1, <1>6, <1>7, <1>9, <1>10, ActorStepData DEF uploaderVars

\* No barrier is collected.
LEMMA CollectsNone ==
  ASSUME NEW i, NEW br
  PROVE  CollectsFor(i, br, br)
BY DEF CollectsFor

\* init of a local state store.
LEMMA InitStoreData ==
  ASSUME NodeOK, DataOK, NEW i \in Instance, InitStore(i)
  PROVE  DataOK'
<1>1. /\ actor[i] = "waiting" /\ actor' = Put(actor, i, "running") /\ epoch' = epoch /\ barriers' = barriers
      /\ UNCHANGED <<mode, tables, lastEpoch, command, version, written, nextImm>>
      /\ UNCHANGED <<working, tableData, spilledData, tasks, syncing, answers>>
      /\ instData' = IF ~working THEN instData
                      ELSE [j \in DOMAIN instData \cup {i} |-> IF j = i THEN NewInstance(epoch[i].curr) ELSE instData[j]]
  BY DEF InitStore, InitInstance, Put
<1>2. /\ GroupOf[i] \in Group /\ epoch[i].curr \in Nat
      /\ ActorOf(i, "waiting", epoch[i].curr, barriers[GroupOf[i]], lastEpoch[GroupOf[i]], tables[GroupOf[i]])
  BY <1>1, LiveActor DEF Live
<1>3. ActorOf(i, "running", epoch[i].curr, barriers[GroupOf[i]], lastEpoch[GroupOf[i]], tables[GroupOf[i]])
  BY <1>2 DEF ActorOf
<1>4. actor'[i] = "running" /\ (\A j \in Instance : j # i => actor'[j] = actor[j]) /\ actor' \in [Instance -> ActorState]
  <2>1. actor \in [Instance -> ActorState]
    BY DataParts DEF Actors
  <2> QED BY <1>1, <2>1 DEF Put, ActorState
<1>5. ActStep(i, actor, actor', epoch, epoch', barriers, barriers')
  <2>1. DOMAIN epoch = Instance
    BY DataParts DEF Actors
  <2> QED BY <1>1, <1>2, <1>4, <2>1, CollectsNone DEF ActStep, Live
<1>6. i \notin DOMAIN instData
  BY <1>1, DataParts DEF Instances, InstanceOf
<1>7. working => HasEpoch(tableData, TableOf[i], epoch[i].curr)
  BY <1>1, DataParts DEF Unsynced
<1>8. MovedInst(i)
  <2>1. CASE working
    <3> DEFINE d == NewInstance(epoch[i].curr)
    <3>1. /\ InstShape(d) /\ d.current = EpochData(epoch[i].curr) /\ d.destroyed = FALSE /\ \A w : ~InInst(w, i, d)
          /\ EpochData(epoch[i].curr).epoch = epoch[i].curr
      BY <1>2, InstNew, EmptyEpoch
    <3> HIDE DEF d
    <3>2. DOMAIN instData' = DOMAIN instData \cup {i} /\ instData'[i] = d /\ \A j \in DOMAIN instData : j # i => instData'[j] = instData[j]
      BY <1>1, <2>1 DEF d
    <3>3. InstChange(i, instData, instData')
      BY <1>6, <3>1, <3>2 DEF InstChange
    <3>4. InstanceOf("running", epoch[i].curr, d)
      BY <3>1 DEF InstanceOf
    <3> QED BY <1>1, <1>4, <1>7, <3>1, <3>2, <3>3, <3>4, NoChange DEF MovedInst
  <2>2. CASE ~working
    BY <1>1, <1>6, <2>2, NoChange DEF MovedInst
  <2> QED BY <2>1, <2>2
<1> QED BY <1>1, <1>3, <1>4, <1>5, <1>8, ActorStepData

\* One instance is replaced.
LEMMA InstSwapped ==
  ASSUME NEW i, NEW ins, NEW ins2, NEW d2, i \in DOMAIN ins, ins2 = Put(ins, i, d2),
         \A w : InInst(w, i, d2) <=> InInst(w, i, ins[i])
  PROVE  InstChange(i, ins, ins2) /\ i \in DOMAIN ins2 /\ ins2[i] = d2
BY DEF InstChange, Put

\* An actor seals an epoch.
LEMMA SealData ==
  ASSUME NodeOK, DataOK, NEW i \in Instance, Seal(i)
  PROVE  DataOK'
<1>1. PICK b \in NextBarriers(i) :
        /\ LocalSealEpoch(i, b.curr)
        /\ epoch' = [epoch EXCEPT ![i] = [prev |-> b.prev, curr |-> b.curr]]
        /\ actor' = [actor EXCEPT ![i] = IF i \in b.stop THEN "stopping" ELSE @]
        /\ IF CollectsAtSeal(i, b) THEN Collect(i, b) ELSE UNCHANGED barriers
  BY DEF Seal
<1>2. /\ actor[i] = "running" /\ UNCHANGED <<mode, tables, lastEpoch, command, version, written, nextImm>>
      /\ UNCHANGED <<working, spilledData, tasks, syncing, answers>>
      /\ instData' = IF working THEN [instData EXCEPT ![i] = SealInstance(instData[i], b.curr)] ELSE instData
  BY <1>1 DEF Seal, LocalSealEpoch
<1> DEFINE g == GroupOf[i]
           q == barriers[g]
           q2 == barriers'[g]
           last == lastEpoch[g]
           tb == tables[g]
<1>3. PICK m \in DOMAIN q : q[m] = b /\ i \in b.remaining /\ b.prev = epoch[i].curr
  BY <1>2, NextIs
<1>4. /\ g \in Group /\ epoch[i].curr \in Nat /\ ActorOf(i, "running", epoch[i].curr, q, last, tb)
  BY <1>2, LiveActor DEF Live
<1>5. /\ \A k \in DOMAIN q : q[k].curr \in Nat /\ q[k].prev \in Nat /\ q[k].prev < q[k].curr /\ q[k].curr <= last /\ k \in Nat
      /\ \A j, k \in DOMAIN q : j < k => q[j].curr <= q[k].prev
  BY <1>4, QueueFacts
<1>6. PassedBy(i, q, q2, m) /\ CollectsFor(i, barriers, barriers')
  <2>1. CASE i \in b.stop
    <3>1. barriers' = barriers
      BY <1>1, <2>1 DEF CollectsAtSeal
    <3> QED BY <3>1, CollectsNone DEF PassedBy
  <2>2. CASE i \notin b.stop
    <3>1. Collect(i, b)
      BY <1>1, <2>2 DEF CollectsAtSeal
    <3>2. PassedBy(i, q, q2, m)
      BY <1>2, <1>3, <2>2, <3>1, CollectPasses
    <3>3. CollectsFor(i, barriers, barriers')
      BY <3>1, CollectStep, CollectedFor, Parts
    <3> QED BY <3>2, <3>3
  <2> QED BY <2>1, <2>2
<1>7. /\ actor'[i] = (IF i \in b.stop THEN "stopping" ELSE "running") /\ actor' \in [Instance -> ActorState]
      /\ \A j \in Instance : j # i => actor'[j] = actor[j]
  <2>1. actor \in [Instance -> ActorState]
    BY DataParts DEF Actors
  <2> QED BY <1>1, <1>2, <2>1 DEF ActorState
<1>8. epoch'[i].curr = b.curr /\ DOMAIN epoch' = Instance /\ \A j \in Instance : j # i => epoch'[j] = epoch[j]
  <2>1. DOMAIN epoch = Instance
    BY DataParts DEF Actors
  <2> QED BY <1>1, <2>1
<1> HIDE DEF g, q, q2, last, tb
<1>9. ActorOf(i, actor'[i], b.curr, q2, last, tb)
  BY <1>3, <1>4, <1>5, <1>6, <1>7, ActorPassed
<1>10. ActStep(i, actor, actor', epoch, epoch', barriers, barriers')
  <2>1. b.curr \in Nat /\ epoch[i].curr <= b.curr
    BY <1>3, <1>4, <1>5
  <2> QED BY <2>1, <1>2, <1>4, <1>6, <1>7, <1>8 DEF ActStep, Live
<1>11. TablesLike(tableData, tableData')
  <2> DEFINE x == IF tableData[TableOf[i]].stopped = 0 THEN b.curr ELSE tableData[TableOf[i]].stopped
  <2>1. tableData' = tableData \/ tableData' = [tableData EXCEPT ![TableOf[i]] = [tableData[TableOf[i]] EXCEPT !.stopped = x]]
    BY <1>1 DEF LocalSealEpoch
  <2> HIDE DEF x
  <2>2. DOMAIN tableData' = DOMAIN tableData
    BY <2>1
  <2>3. \A t \in DOMAIN tableData : tableData'[t] = tableData[t] \/ tableData'[t] = [tableData[t] EXCEPT !.stopped = x]
    BY <2>1
  <2>4. \A t \in DOMAIN tableData : tableData'[t].unsync = tableData[t].unsync /\ tableData'[t].spill = tableData[t].spill
    <3>1. \A t \in DOMAIN tableData : NotedTable(tableData[t], tableData'[t])
      BY <2>3 DEF NotedTable
    <3> QED BY <2>2, <3>1, Parts, TablesNoted
  <2> QED BY <2>2, <2>4 DEF TablesLike
<1>12. MovedInst(i)
  <2>1. CASE working
    <3>1. i \in DOMAIN instData /\ InstShape(instData[i]) /\ ~instData[i].destroyed
      BY <1>2, <2>1, DataParts DEF Instances, InstanceOf
    <3> DEFINE d2 == SealInstance(instData[i], b.curr)
    <3>2. b.curr \in Nat
      BY <1>3, <1>5
    <3>3. InstShape(d2) /\ d2.current = EpochData(b.curr) /\ d2.destroyed = instData[i].destroyed
          /\ (\A w : InInst(w, i, d2) <=> InInst(w, i, instData[i]))
          /\ EpochData(b.curr).epoch = b.curr /\ EpochData(b.curr).imms = <<>>
      BY <3>1, <3>2, InstSealed, EmptyEpoch
    <3> HIDE DEF d2
    <3>4. InstChange(i, instData, instData') /\ i \in DOMAIN instData' /\ instData'[i] = d2
      <4>1. instData' = Put(instData, i, d2)
        BY <1>2, <2>1 DEF d2, Put
      <4> QED BY <3>1, <3>3, <4>1, InstSwapped
    <3>5. InstanceOf(actor'[i], b.curr, d2)
      BY <1>7, <3>1, <3>3 DEF InstanceOf
    <3>6. actor'[i] = "running" => HasEpoch(tableData, TableOf[i], b.curr)
      BY <1>3, <1>4, <1>7, <2>1, DataParts DEF Unsynced, q
    <3>7. actor'[i] \notin {"spawned", "waiting"}
      BY <1>7
    <3> QED BY <1>8, <1>11, <2>1, <3>3, <3>4, <3>5, <3>6, <3>7 DEF MovedInst
  <2>2. CASE ~working
    <3>1. DOMAIN instData = {} /\ instData' = instData
      BY <1>2, <2>2, Parts DEF Idle, Empty
    <3> QED BY <2>2, <3>1, <1>11, NoChange DEF MovedInst
  <2> QED BY <2>1, <2>2
<1> QED BY <1>2, <1>8, <1>9, <1>10, <1>12, ActorStepData DEF g, q2, last, tb

\* The stream of an actor that stops is dropped.
LEMMA DropData ==
  ASSUME NodeOK, DataOK, NEW i \in Instance, DropStream(i)
  PROVE  DataOK'
<1>1. /\ actor[i] = "stopping" /\ actor' = Put(actor, i, "none") /\ epoch' = Put(epoch, i, NoEpoch)
      /\ UNCHANGED <<mode, tables, lastEpoch, command, version, written, nextImm>>
      /\ UNCHANGED <<working, tableData, spilledData, tasks, syncing, answers>>
      /\ instData' = IF i \in DOMAIN instData THEN Put(instData, i, WithDestroyed(instData[i], TRUE)) ELSE instData
  BY DEF DropStream, MayDestroyInstance, Put, WithDestroyed
<1>2. /\ actor'[i] = "none" /\ actor' \in [Instance -> ActorState] /\ DOMAIN epoch' = Instance
      /\ \A j \in Instance : j # i => actor'[j] = actor[j] /\ epoch'[j] = epoch[j]
  <2>1. actor \in [Instance -> ActorState] /\ DOMAIN epoch = Instance
    BY DataParts DEF Actors
  <2> QED BY <1>1, <2>1 DEF Put, ActorState
<1>3. CollectsFor(i, barriers, barriers')
  BY DropStep, CollectedFor, Parts
<1>4. ActStep(i, actor, actor', epoch, epoch', barriers, barriers')
  BY <1>1, <1>2, <1>3 DEF ActStep, Live
<1>5. MovedInst(i)
  <2>1. CASE i \in DOMAIN instData
    <3> DEFINE d2 == WithDestroyed(instData[i], TRUE)
    <3>1. InstShape(instData[i]) /\ instData[i].current.imms = <<>>
      BY <1>1, <2>1, DataParts DEF Instances, InstanceOf
    <3>2. InstShape(d2) /\ d2.current = instData[i].current /\ \A w : InInst(w, i, d2) <=> InInst(w, i, instData[i])
      <4>1. TRUE \in BOOLEAN
        OBVIOUS
      <4> QED BY <3>1, <4>1, InstMarked
    <3> HIDE DEF d2
    <3>3. InstChange(i, instData, instData') /\ i \in DOMAIN instData' /\ instData'[i] = d2
      <4>1. instData' = Put(instData, i, d2)
        BY <1>1, <2>1 DEF d2
      <4> QED BY <2>1, <3>2, <4>1, InstSwapped
    <3>4. InstanceOf("none", epoch'[i].curr, d2)
      BY <3>1, <3>2 DEF InstanceOf
    <3> QED BY <1>1, <1>2, <3>2, <3>3, <3>4, NoChange DEF MovedInst
  <2>2. CASE i \notin DOMAIN instData
    BY <1>1, <1>2, <2>2, NoChange DEF MovedInst
  <2> QED BY <2>1, <2>2
<1>6. ~Live(actor'[i])
  BY <1>2 DEF Live
<1> QED BY <1>1, <1>4, <1>5, <1>6, ActorStepData

\* The imm that is written.
NewWrite(i) == [id |-> nextImm, table |-> TableOf[i], epoch |-> epoch[i].curr]

\* Its database, epoch and id.
LEMMA NewWriteIs ==
  ASSUME NodeOK, DataOK, NEW i \in Instance, actor[i] = "running"
  PROVE  LET w == NewWrite(i)
             g == GroupOf[i]
         IN  /\ w.id = nextImm /\ w.table = TableOf[i] /\ w.epoch = epoch[i].curr /\ w.epoch \in Nat
             /\ g \in Group /\ w.table \in TablesOf[g] /\ mode[g] = "running"
             /\ version.epoch[g] < w.epoch /\ w.epoch <= lastEpoch[g]
             /\ \A e : HasStage(g, e, answers, syncing) => e < w.epoch /\ e \in Nat
             /\ \A h \in Group : w.table \in TablesOf[h] => h = g
             /\ nextImm \in Nat /\ nextImm > 0 /\ nextImm \notin version.data
             /\ \A x \in written : x.id < nextImm
<1> DEFINE w == NewWrite(i)
           g == GroupOf[i]
<1>1. w.id = nextImm /\ w.table = TableOf[i] /\ w.epoch = epoch[i].curr
  BY DEF NewWrite
<1>2. /\ g \in Group /\ TableOf[i] \in TablesOf[g] /\ mode[g] = "running" /\ epoch[i].curr \in Nat
      /\ epoch[i].curr <= lastEpoch[g]
  BY LiveActor DEF Live, ActorOf
<1>3. version.epoch[g] < epoch[i].curr /\ \A e : HasStage(g, e, answers, syncing) => e < epoch[i].curr /\ e \in Nat
  BY <1>2, DataParts DEF Floors, Over, Live
<1>4. nextImm \in Nat /\ nextImm > 0 /\ nextImm \notin version.data /\ \A x \in written : x.id < nextImm
  BY DataParts DEF Durability
<1>5. \A h \in Group : TableOf[i] \in TablesOf[h] => h = g
  BY <1>2, OneGroup
<1> QED BY <1>1, <1>2, <1>3, <1>4, <1>5

\* An imm is written.
LEMMA FlushData ==
  ASSUME NodeOK, DataOK, NEW i \in Instance, Flush(i)
  PROVE  DataOK'
<1> DEFINE imm == [id |-> nextImm, epoch |-> epoch[i].curr]
           d2 == AddedTo(instData[i], imm)
           w0 == NewWrite(i)
           g0 == GroupOf[i]
<1>1. /\ actor[i] = "running" /\ written' = written \cup {w0} /\ nextImm' = nextImm + 1
      /\ UNCHANGED <<mode, tables, barriers, lastEpoch, command, actor, epoch, version>>
      /\ UNCHANGED <<working, tableData, spilledData, tasks, syncing, answers>>
      /\ instData' = IF working THEN Put(instData, i, d2) ELSE instData
  BY DEF Flush, AddImm, Put, AddedTo, NewWrite
<1>2. /\ w0.id = nextImm /\ w0.table = TableOf[i] /\ w0.epoch = epoch[i].curr /\ w0.epoch \in Nat
      /\ g0 \in Group /\ w0.table \in TablesOf[g0] /\ mode[g0] = "running"
      /\ version.epoch[g0] < w0.epoch /\ w0.epoch <= lastEpoch[g0]
      /\ \A e : HasStage(g0, e, answers, syncing) => e < w0.epoch /\ e \in Nat
      /\ \A h \in Group : w0.table \in TablesOf[h] => h = g0
      /\ nextImm \in Nat /\ nextImm > 0 /\ nextImm \notin version.data
      /\ \A x \in written : x.id < nextImm
  BY <1>1, NewWriteIs
<1>3. Rec(i, imm) = w0 /\ imm.epoch = epoch[i].curr
  BY DEF Rec, NewWrite
<1>4. /\ Instances(working, actor, epoch, instData) /\ Unsynced(working, actor, epoch, barriers, tableData)
      /\ PendingOK(written, instData, tasks, spilledData, tableData) /\ Durability(written, version, nextImm)
      /\ StageData(written, answers, syncing, tasks) /\ StageFull(mode, version, written, answers, syncing, tasks)
      /\ AllData(working, mode, version, written, answers, syncing, tasks, spilledData, instData)
      /\ Fresh(command, mode, instData) /\ Gone(mode, instData, syncing, actor)
  BY DataParts
<1>5. working => /\ i \in DOMAIN instData /\ InstShape(instData[i]) /\ instData[i].current.epoch = epoch[i].curr
                 /\ ~instData[i].destroyed /\ HasEpoch(tableData, w0.table, w0.epoch)
  BY <1>1, <1>2, <1>4 DEF Instances, InstanceOf, Unsynced
<1>6. working => /\ InstShape(d2) /\ d2.current.epoch = epoch[i].curr /\ d2.destroyed = instData[i].destroyed
                 /\ \A w : InInst(w, i, d2) <=> InInst(w, i, instData[i]) \/ w = w0
  <2> HIDE DEF imm, w0
  <2> SUFFICES ASSUME working PROVE /\ InstShape(d2) /\ d2.current.epoch = epoch[i].curr /\ d2.destroyed = instData[i].destroyed
                                    /\ \A w : InInst(w, i, d2) <=> InInst(w, i, instData[i]) \/ w = w0
    OBVIOUS
  <2>1. InstShape(instData[i]) /\ imm.epoch = instData[i].current.epoch
    BY <1>3, <1>5
  <2>2. /\ InstShape(d2) /\ d2.current.epoch = instData[i].current.epoch /\ d2.destroyed = instData[i].destroyed
        /\ \A w : InInst(w, i, d2) <=> InInst(w, i, instData[i]) \/ w = Rec(i, imm)
    BY <2>1, InstAdded
  <2> QED BY <2>2, <1>3, <1>5
<1> HIDE DEF imm, d2, w0, g0
<1>7. /\ DOMAIN instData' = DOMAIN instData
      /\ \A j \in DOMAIN instData : j # i => instData'[j] = instData[j]
      /\ working => instData'[i] = d2
  BY <1>1, <1>5 DEF Put
<1>8. /\ \A w : Pending(w, instData, tasks, spilledData) => Pending(w, instData', tasks, spilledData)
      /\ \A w : Pending(w, instData', tasks, spilledData) =>
                  Pending(w, instData, tasks, spilledData) \/ (w = w0 /\ working)
      /\ working => Pending(w0, instData', tasks, spilledData)
  <2>1. CASE working
    <3>1. \A w : PendingInst(w, instData') <=> PendingInst(w, instData) \/ w = w0
      BY <2>1, <1>5, <1>6, <1>7 DEF PendingInst
    <3> QED BY <2>1, <3>1 DEF Pending
  <2>2. CASE ~working
    BY <1>1, <2>2
  <2> QED BY <2>1, <2>2
<1>9. Instances(working', actor', epoch', instData')
  <2>1. CASE working
    <3>1. InstanceOf(actor[i], epoch[i].curr, d2)
      BY <1>1, <1>5, <1>6, <2>1 DEF InstanceOf
    <3>2. ASSUME NEW j \in DOMAIN instData PROVE j \in Instance /\ InstShape(instData'[j]) /\ InstanceOf(actor[j], epoch[j].curr, instData'[j])
      <4>1. CASE j = i
        BY <2>1, <3>1, <4>1, <1>6, <1>7
      <4>2. CASE j # i
        BY <4>2, <1>4, <1>7 DEF Instances
      <4> QED BY <4>1, <4>2
    <3> QED BY <3>2, <1>1, <1>4, <1>7 DEF Instances
  <2>2. CASE ~working
    BY <1>1, <1>4, <2>2
  <2> QED BY <2>1, <2>2
<1>10. Fresh(command', mode', instData') /\ Gone(mode', instData', syncing', actor')
  BY <1>1, <1>4, <1>7 DEF Fresh, Gone
<1>11. PendingOK(written', instData', tasks', spilledData', tableData')
  <2>1. \A w : Pending(w, instData', tasks, spilledData) => w \in written' /\ HasEpoch(tableData, w.table, w.epoch)
    BY <1>1, <1>4, <1>5, <1>8 DEF PendingOK
  <2> QED BY <2>1, <1>1, <1>4 DEF PendingOK
<1>12. StageData(written', answers', syncing', tasks')
  BY <1>1, <1>4 DEF StageData
<1>13. StageFull(mode', version', written', answers', syncing', tasks')
  <2>1. ASSUME NEW g \in Group, mode[g] = "running", NEW e, HasStage(g, e, answers, syncing), NEW w \in written',
               w.table \in TablesOf[g] /\ version.epoch[g] < w.epoch /\ w.epoch <= e
        PROVE  \E f : f <= e /\ HasStage(g, f, answers, syncing) /\ InStage(w, g, f, answers, syncing, tasks)
    <3>1. CASE w = w0
      <4>1. g = g0
        BY <2>1, <3>1, <1>2
      <4>2. e < w0.epoch /\ e \in Nat /\ w0.epoch <= e
        BY <2>1, <3>1, <4>1, <1>2
      <4> QED BY <4>2, <1>2
    <3>2. CASE w # w0
      BY <2>1, <3>2, <1>1, <1>4 DEF StageFull
    <3> QED BY <3>1, <3>2
  <2> QED BY <2>1, <1>1 DEF StageFull
<1>14. AllData(working', mode', version', written', answers', syncing', tasks', spilledData', instData')
  <2>1. ASSUME NEW g \in Group, working, mode[g] = "running", NEW w \in written', w.table \in TablesOf[g]
        PROVE  \/ w.epoch <= version.epoch[g]
               \/ Pending(w, instData', tasks, spilledData)
               \/ \E e : HasStage(g, e, answers, syncing) /\ InStage(w, g, e, answers, syncing, tasks)
    BY <2>1, <1>1, <1>4, <1>8 DEF AllData
  <2> QED BY <2>1, <1>1 DEF AllData
<1>15. Durability(written', version', nextImm')
  <2>1. \A w \in written' : w.id \in Nat /\ 0 < w.id /\ w.id < nextImm + 1 /\ w.epoch \in Nat
    BY <1>1, <1>2, <1>4 DEF Durability
  <2>2. \A w, x \in written' : w.id = x.id => w = x
    BY <1>1, <1>2, <1>4 DEF Durability
  <2>3. \A id \in version.data : id \in Nat /\ id < nextImm + 1
    BY <1>2, <1>4 DEF Durability
  <2>4. ASSUME NEW w \in written', NEW g \in Group, w.table \in TablesOf[g]
        PROVE  w.id \in version.data <=> w.epoch <= version.epoch[g]
    <3>1. CASE w = w0
      <4>1. version.epoch[g0] \in Nat
        BY <1>2, <1>4 DEF Durability
      <4> QED BY <2>4, <3>1, <4>1, <1>2
    <3>2. CASE w # w0
      BY <2>4, <3>2, <1>1, <1>4 DEF Durability
    <3> QED BY <3>1, <3>2
  <2>5. /\ version = [epoch |-> version.epoch, data |-> version.data] /\ version.epoch \in [Group -> Nat]
        /\ nextImm + 1 \in Nat /\ nextImm + 1 > 0
    BY <1>2, <1>4 DEF Durability
  <2> QED BY <2>1, <2>2, <2>3, <2>4, <2>5, <1>1 DEF Durability
<1>16. /\ Actors(actor', epoch', mode', barriers', lastEpoch', tables') /\ Forward(barriers')
       /\ Commands(command', mode', barriers', actor') /\ Bounds(command', lastEpoch')
       /\ Unsynced(working', actor', epoch', barriers', tableData') /\ AnswersOK(answers', syncing')
       /\ Floors(mode', lastEpoch', barriers', actor', epoch', version', answers', syncing')
  BY <1>1, DataParts
<1> QED BY <1>9, <1>10, <1>11, <1>12, <1>13, <1>14, <1>15, <1>16 DEF DataOK

\* Tables keep their unsynced epochs and the spills of these.
TablesStay(td, td2) ==
  \A t, e : HasEpoch(td, t, e) => HasEpoch(td2, t, e) /\ \A y \in td[t].spill : y \in td2[t].spill

\* The uploader keeps the same data in the same syncs.
KeepsStages(ans, ans2, sy, sy2, tk, tk2) ==
  /\ AnswersOK(ans2, sy2)
  /\ \A k \in DOMAIN sy2 : \E m \in DOMAIN sy : sy2[k].tables = sy[m].tables
  /\ \A g, e : HasStage(g, e, ans2, sy2) <=> HasStage(g, e, ans, sy)
  /\ \A w, g, e : InStage(w, g, e, ans2, sy2, tk2) <=> InStage(w, g, e, ans, sy, tk)

\* The instances still fit their actors.
InstsFit(ins, ins2) ==
  /\ DOMAIN ins2 = DOMAIN ins
  /\ \A i \in DOMAIN ins : /\ InstShape(ins2[i]) /\ ins2[i].current.epoch = ins[i].current.epoch
                           /\ ins2[i].destroyed = ins[i].destroyed
                           /\ ins[i].current.imms = <<>> => ins2[i].current.imms = <<>>

\* Steps of the uploader that neither lose nor gain data.
LEMMA UploaderStepData ==
  ASSUME DataOK, UNCHANGED <<mode, tables, barriers, lastEpoch, command, actor, epoch, version, written, nextImm, working>>,
         InstsFit(instData, instData'), TablesStay(tableData, tableData'),
         KeepsStages(answers, answers', syncing, syncing', tasks, tasks'),
         PendingOK(written, instData', tasks', spilledData', tableData'),
         \A w : Pending(w, instData, tasks, spilledData) => Pending(w, instData', tasks', spilledData')
  PROVE  DataOK'
<1>1. /\ Unsynced(working, actor, epoch, barriers, tableData) /\ Instances(working, actor, epoch, instData)
      /\ Fresh(command, mode, instData) /\ Gone(mode, instData, syncing, actor)
      /\ Floors(mode, lastEpoch, barriers, actor, epoch, version, answers, syncing)
      /\ StageData(written, answers, syncing, tasks) /\ StageFull(mode, version, written, answers, syncing, tasks)
      /\ AllData(working, mode, version, written, answers, syncing, tasks, spilledData, instData)
  BY DataParts
<1>2. Unsynced(working, actor, epoch, barriers, tableData')
  BY <1>1 DEF Unsynced, TablesStay
<1>3. Instances(working, actor, epoch, instData')
  <2>1. ASSUME NEW i \in DOMAIN instData' PROVE i \in Instance /\ InstShape(instData'[i]) /\ InstanceOf(actor[i], epoch[i].curr, instData'[i])
    <3>1. i \in DOMAIN instData /\ i \in Instance /\ InstanceOf(actor[i], epoch[i].curr, instData[i])
      BY <1>1 DEF InstsFit, Instances
    <3> QED BY <3>1 DEF InstsFit, InstanceOf
  <2>2. working => \A i \in Instance : actor[i] = "running" => i \in DOMAIN instData'
    BY <1>1 DEF InstsFit, Instances
  <2> QED BY <2>1, <2>2 DEF Instances
<1>4. Fresh(command, mode, instData') /\ Gone(mode, instData', syncing', actor)
  BY <1>1 DEF InstsFit, KeepsStages, Fresh, Gone
<1>5. Floors(mode, lastEpoch, barriers, actor, epoch, version, answers', syncing')
  BY <1>1 DEF Floors, KeepsStages
<1>6. StageData(written, answers', syncing', tasks')
  BY <1>1 DEF StageData, KeepsStages
<1>7. StageFull(mode, version, written, answers', syncing', tasks')
  <2>1. ASSUME NEW g \in Group, mode[g] = "running", NEW e, HasStage(g, e, answers', syncing'), NEW w \in written,
               w.table \in TablesOf[g] /\ version.epoch[g] < w.epoch /\ w.epoch <= e
        PROVE  \E f : f <= e /\ HasStage(g, f, answers', syncing') /\ InStage(w, g, f, answers', syncing', tasks')
    <3>1. HasStage(g, e, answers, syncing)
      BY <2>1 DEF KeepsStages
    <3>2. PICK f : f <= e /\ HasStage(g, f, answers, syncing) /\ InStage(w, g, f, answers, syncing, tasks)
      BY <2>1, <3>1, <1>1 DEF StageFull
    <3> QED BY <3>2 DEF KeepsStages
  <2> QED BY <2>1 DEF StageFull
<1>8. AllData(working, mode, version, written, answers', syncing', tasks', spilledData', instData')
  <2>1. ASSUME NEW g \in Group, working, mode[g] = "running", NEW w \in written, w.table \in TablesOf[g]
        PROVE  \/ w.epoch <= version.epoch[g]
               \/ Pending(w, instData', tasks', spilledData')
               \/ \E e : HasStage(g, e, answers', syncing') /\ InStage(w, g, e, answers', syncing', tasks')
    <3>1. \/ w.epoch <= version.epoch[g]
          \/ Pending(w, instData, tasks, spilledData)
          \/ \E e : HasStage(g, e, answers, syncing) /\ InStage(w, g, e, answers, syncing, tasks)
      BY <2>1, <1>1 DEF AllData
    <3> QED BY <3>1 DEF KeepsStages
  <2> QED BY <2>1 DEF AllData
<1>9. AnswersOK(answers', syncing')
  BY DEF KeepsStages
<1>10. /\ Actors(actor', epoch', mode', barriers', lastEpoch', tables') /\ Forward(barriers')
       /\ Commands(command', mode', barriers', actor') /\ Bounds(command', lastEpoch')
       /\ Durability(written', version', nextImm')
  BY DataParts
<1> QED BY <1>2, <1>3, <1>4, <1>5, <1>6, <1>7, <1>8, <1>9, <1>10 DEF DataOK

\* The uploader's tasks change without any effect on the syncs.
LEMMA SameStages ==
  ASSUME NEW ans, NEW sy, NEW tk, NEW tk2, AnswersOK(ans, sy),
         \A k \in DOMAIN sy : \A w : InSync(w, sy[k], tk2) <=> InSync(w, sy[k], tk)
  PROVE  KeepsStages(ans, ans, sy, sy, tk, tk2)
<1>1. \A w, g, e : InStage(w, g, e, ans, sy, tk2) <=> InStage(w, g, e, ans, sy, tk)
  BY DEF InStage
<1> QED BY <1>1 DEF KeepsStages

\* A spill task is added.
LEMMA TaskAppended ==
  ASSUME NEW tk, NEW sp, NEW x, IsSeq(tk), x.sync = 0
  PROVE  /\ \A y : IsSpill(y, Append(tk, x), sp) <=> IsSpill(y, tk, sp) \/ y = x
         /\ \A s, w : s.id # 0 => (InSync(w, s, Append(tk, x)) <=> InSync(w, s, tk))
<1>1. /\ \A k \in DOMAIN tk : k \in DOMAIN Append(tk, x) /\ Append(tk, x)[k] = tk[k]
      /\ Len(tk) + 1 \in DOMAIN Append(tk, x) /\ Append(tk, x)[Len(tk) + 1] = x
      /\ \A k \in DOMAIN Append(tk, x) : k \in DOMAIN tk \/ k = Len(tk) + 1
  BY AppendPlaces
<1>2. ASSUME NEW y PROVE IsSpill(y, Append(tk, x), sp) <=> IsSpill(y, tk, sp) \/ y = x
  BY <1>1 DEF IsSpill
<1>3. ASSUME NEW s, NEW w, s.id # 0 PROVE InSync(w, s, Append(tk, x)) <=> InSync(w, s, tk)
  BY <1>1, <1>3 DEF InSync
<1> QED BY <1>2, <1>3

\* may_flush.
LEMMA SpillingData ==
  ASSUME NodeOK, DataOK, SpillData
  PROVE  DataOK'
<1>1. UNCHANGED nodeVars /\ MayFlush
  BY DEF SpillData
<1>2. UploaderOK(tasks, spilledData, syncing, tableData, unsyncEpochs)
  BY Parts
<1>3. UNCHANGED <<working, unsyncEpochs, spilledData, syncing, answers>> /\ \E u, S, task : SpillStep(u, S, task)
  BY <1>1, <1>2, Spills
<1>4. PICK u, S, task : SpillStep(u, S, task)
  BY <1>3
<1>5. /\ task.id = NextTaskId /\ task.tables = {TableOf[i] : i \in S} /\ task.sync = 0 /\ DOMAIN task.input = S
      /\ \A i \in S : task.input[i] = Spillable(instData[i]).imms
  BY <1>4 DEF SpillStep
<1>6. /\ \A i \in S : i \in DOMAIN instData /\ Spillable(instData[i]).epoch = u.epoch
      /\ DOMAIN instData' = DOMAIN instData
      /\ \A i \in DOMAIN instData : instData'[i] = IF i \in S THEN SpillInstance(instData[i]) ELSE instData[i]
      /\ tasks' = Append(tasks, task) /\ DOMAIN tableData' = DOMAIN tableData
      /\ \A t \in DOMAIN tableData :
           /\ tableData'[t].unsync = tableData[t].unsync
           /\ tableData'[t].spill = tableData[t].spill
                                  \cup (IF t \in task.tables THEN {<<u.epoch, task.id>>} ELSE {})
  BY <1>4 DEF SpillStep, SpillTogether, InstancesOf
<1>7. \A i \in DOMAIN instData : InstShape(instData[i]) /\ i \in Instance
  BY DataParts DEF Instances
<1>8. ASSUME NEW i \in S
      PROVE  /\ InstShape(instData'[i]) /\ instData'[i].current.epoch = instData[i].current.epoch
             /\ instData'[i].destroyed = instData[i].destroyed /\ EpochShape(Spillable(instData[i]))
             /\ instData[i].current.imms = <<>> => instData'[i].current.imms = <<>>
             /\ \A w : InInst(w, i, instData[i]) <=> InInst(w, i, instData'[i]) \/ InImms(w, i, task.input[i])
  <2>1. instData'[i] = SpillInstance(instData[i]) /\ InstShape(instData[i])
    BY <1>6, <1>7
  <2> QED BY <2>1, <1>5, InstSpilled
<1>9. InstsFit(instData, instData')
  BY <1>6, <1>7, <1>8 DEF InstsFit
<1>10. TablesStay(tableData, tableData')
  BY <1>6 DEF TablesStay, HasEpoch
<1>11. IsSeq(tasks) /\ (\A k \in DOMAIN syncing : syncing[k].id # 0)
  BY <1>2 DEF UploaderOK, Shapes, SyncShape
<1>12. /\ \A y : IsSpill(y, tasks', spilledData) <=> IsSpill(y, tasks, spilledData) \/ y = task
       /\ \A k \in DOMAIN syncing : \A w : InSync(w, syncing[k], tasks') <=> InSync(w, syncing[k], tasks)
  BY <1>5, <1>6, <1>11, TaskAppended
<1>13. KeepsStages(answers, answers', syncing, syncing', tasks, tasks')
  <2>1. AnswersOK(answers, syncing)
    BY DataParts
  <2> QED BY <2>1, <1>3, <1>12, SameStages
<1>14. \A w : Pending(w, instData', tasks', spilledData) <=> Pending(w, instData, tasks, spilledData)
  <2>1. \A w : PendingInst(w, instData) <=> PendingInst(w, instData') \/ InInput(w, task.input)
    BY <1>5, <1>6, <1>8 DEF PendingInst, InInput
  <2>2. \A w : PendingSpill(w, tasks', spilledData) <=> PendingSpill(w, tasks, spilledData) \/ InInput(w, task.input)
    BY <1>12 DEF PendingSpill
  <2> QED BY <2>1, <2>2 DEF Pending
<1>15. PendingOK(written, instData', tasks', spilledData, tableData')
  <2>1. PendingOK(written, instData, tasks, spilledData, tableData)
    BY DataParts
  <2>2. ASSUME NEW w, Pending(w, instData', tasks', spilledData) PROVE w \in written /\ HasEpoch(tableData', w.table, w.epoch)
    BY <2>1, <2>2, <1>10, <1>14 DEF PendingOK, TablesStay
  <2>3. ASSUME NEW x, NEW w, IsSpill(x, tasks', spilledData), InInput(w, x.input)
        PROVE  w.table \in x.tables /\ <<w.epoch, x.id>> \in tableData'[w.table].spill
    <3>1. w.table \in DOMAIN tableData
      <4>1. Pending(w, instData', tasks', spilledData)
        BY <2>3 DEF Pending, PendingSpill
      <4> QED BY <4>1, <2>2, <1>6 DEF HasEpoch
    <3>2. CASE x = task
      <4>1. PICK i \in S : InImms(w, i, task.input[i])
        BY <2>3, <3>2, <1>5 DEF InInput
      <4>2. PICK k \in DOMAIN Spillable(instData[i]).imms : w = Rec(i, Spillable(instData[i]).imms[k])
        BY <4>1, <1>5 DEF InImms
      <4>3. Spillable(instData[i]).imms[k].epoch = u.epoch
        BY <1>6, <1>8 DEF EpochShape
      <4>4. w.table = TableOf[i] /\ w.epoch = u.epoch
        BY <4>2, <4>3 DEF Rec
      <4>5. w.table \in task.tables
        BY <4>4, <1>5
      <4> QED BY <3>1, <3>2, <4>4, <4>5, <1>6
    <3>3. CASE IsSpill(x, tasks, spilledData)
      <4>1. w.table \in x.tables /\ <<w.epoch, x.id>> \in tableData[w.table].spill
        BY <2>1, <2>3, <3>3 DEF PendingOK
      <4> QED BY <3>1, <4>1, <1>6
    <3> QED BY <2>3, <3>2, <3>3, <1>12
  <2> QED BY <2>2, <2>3 DEF PendingOK
<1>16. UNCHANGED <<mode, tables, barriers, lastEpoch, command, actor, epoch, version, written, nextImm, working>>
  BY <1>1, <1>3 DEF nodeVars
<1> QED BY <1>3, <1>9, <1>10, <1>13, <1>14, <1>15, <1>16, UploaderStepData

\* The oldest task leaves the queue.
LEMMA HeadTaken ==
  ASSUME NEW tk, IsSeq(tk), tk # <<>>, NEW s, NEW w
  PROVE  InSync(w, s, tk) <=> InSync(w, s, Tail(tk)) \/ (tk[1].sync = s.id /\ InInput(w, tk[1].input))
<1>1. /\ IsSeq(Tail(tk)) /\ Len(Tail(tk)) = Len(tk) - 1 /\ Len(tk) \in Nat /\ Len(tk) > 0
      /\ \A k \in 1..Len(Tail(tk)) : Tail(tk)[k] = tk[k + 1] /\ k + 1 \in 1..Len(tk)
  BY SeqTail
<1>2. DOMAIN tk = 1..Len(tk) /\ DOMAIN Tail(tk) = 1..Len(Tail(tk))
  BY <1>1, SeqDomain
<1>3. ASSUME NEW j \in DOMAIN tk, j # 1 PROVE j - 1 \in DOMAIN Tail(tk) /\ Tail(tk)[j - 1] = tk[j]
  <2>1. j - 1 \in 1..Len(Tail(tk)) /\ (j - 1) + 1 = j
    BY <1>1, <1>2, <1>3
  <2> QED BY <2>1, <1>1, <1>2
<1>4. \A j \in DOMAIN Tail(tk) : j + 1 \in DOMAIN tk /\ Tail(tk)[j] = tk[j + 1]
  BY <1>1, <1>2
<1>5. 1 \in DOMAIN tk
  BY <1>1, <1>2
<1>6. (\E j \in DOMAIN tk : tk[j].sync = s.id /\ InInput(w, tk[j].input))
      <=> \/ \E j \in DOMAIN Tail(tk) : Tail(tk)[j].sync = s.id /\ InInput(w, Tail(tk)[j].input)
          \/ tk[1].sync = s.id /\ InInput(w, tk[1].input)
  <2>1. ASSUME NEW j \in DOMAIN tk, tk[j].sync = s.id, InInput(w, tk[j].input)
        PROVE  \/ \E k \in DOMAIN Tail(tk) : Tail(tk)[k].sync = s.id /\ InInput(w, Tail(tk)[k].input)
               \/ tk[1].sync = s.id /\ InInput(w, tk[1].input)
    <3>1. CASE j = 1
      BY <2>1, <3>1
    <3>2. CASE j # 1
      BY <2>1, <3>2, <1>3
    <3> QED BY <3>1, <3>2
  <2>2. ASSUME NEW j \in DOMAIN Tail(tk), Tail(tk)[j].sync = s.id, InInput(w, Tail(tk)[j].input)
        PROVE  \E k \in DOMAIN tk : tk[k].sync = s.id /\ InInput(w, tk[k].input)
    <3>1. j + 1 \in DOMAIN tk /\ Tail(tk)[j] = tk[j + 1]
      BY <1>4
    <3> QED BY <2>2, <3>1
  <2> QED BY <2>1, <2>2, <1>5
<1> QED BY <1>6 DEF InSync

\* An SST joins those that are uploaded.
LEMMA UploadedFirst ==
  ASSUME NEW up, IsSeq(up), NEW x, NEW w
  PROVE  InUploaded(w, <<x>> \o up) <=> InInput(w, x) \/ InUploaded(w, up)
<1>1. /\ IsSeq(<<x>> \o up) /\ Len(<<x>> \o up) = Len(up) + 1 /\ (<<x>> \o up)[1] = x
      /\ \A k \in 1..Len(up) : (<<x>> \o up)[k + 1] = up[k]
  BY SeqCons
<1>2. DOMAIN up = 1..Len(up) /\ DOMAIN (<<x>> \o up) = 1..(Len(up) + 1) /\ Len(up) \in Nat
  BY <1>1, SeqDomain
<1>3. \A k \in DOMAIN up : k + 1 \in DOMAIN (<<x>> \o up) /\ (<<x>> \o up)[k + 1] = up[k]
  BY <1>1, <1>2
<1>4. ASSUME NEW k \in DOMAIN (<<x>> \o up), k # 1 PROVE k - 1 \in DOMAIN up /\ (<<x>> \o up)[k] = up[k - 1]
  <2>1. k - 1 \in 1..Len(up) /\ (k - 1) + 1 = k
    BY <1>2, <1>4
  <2> QED BY <2>1, <1>1, <1>2
<1>5. 1 \in DOMAIN (<<x>> \o up)
  BY <1>2
<1> QED BY <1>1, <1>3, <1>4, <1>5 DEF InUploaded

\* Syncs with the same tables and epochs.
LEMMA SameSyncs ==
  ASSUME NEW ans, NEW sy, NEW sy2, AnswersOK(ans, sy), DOMAIN sy2 = DOMAIN sy,
         \A k \in DOMAIN sy : sy2[k].tables = sy[k].tables /\ sy2[k].epoch = sy[k].epoch
  PROVE  /\ AnswersOK(ans, sy2)
         /\ \A g, e : HasStage(g, e, ans, sy2) <=> HasStage(g, e, ans, sy)
<1>1. \A g : \A k \in DOMAIN sy : Of(sy2[k], g) <=> Of(sy[k], g)
  BY DEF Of
<1>2. Ordered(ans, sy2)
  BY <1>1 DEF AnswersOK, Ordered
<1>3. Grouped(ans, sy2)
  BY <1>1 DEF AnswersOK, Grouped
<1>4. \A g, e : HasStage(g, e, ans, sy2) <=> HasStage(g, e, ans, sy)
  BY <1>1 DEF HasStage
<1> QED BY <1>2, <1>3, <1>4 DEF AnswersOK

\* The uploaded imms leave flushing_imms.
LEMMA AckedInsts ==
  ASSUME NodeOK, DataOK, NEW task, instData' = AckFlushed(task)
  PROVE  InstsFit(instData, instData') /\ \A w : PendingInst(w, instData') <=> PendingInst(w, instData)
<1>1. DOMAIN instData' = DOMAIN instData
  BY DEF AckFlushed
<1>2. ASSUME NEW i \in DOMAIN instData
      PROVE  /\ InstShape(instData'[i]) /\ instData'[i].current = instData[i].current
             /\ instData'[i].destroyed = instData[i].destroyed
             /\ \A w : InInst(w, i, instData'[i]) <=> InInst(w, i, instData[i])
  <2>1. InstShape(instData[i])
    BY DataParts DEF Instances
  <2>2. CASE i \in DOMAIN task.input
    <3> DEFINE v == PopBack(instData[i].flushing, Len(task.input[i]))
    <3>1. instData'[i] = WithFlushing(instData[i], v)
      BY <2>2 DEF AckFlushed, WithFlushing
    <3>2. TRUE \in BOOLEAN
      OBVIOUS
    <3> HIDE DEF v
    <3> DEFINE d == instData[i]
               d2 == instData'[i]
    <3>3. InstShape(d) /\ d2 = WithFlushing(d, v)
      BY <2>1, <3>1
    <3> HIDE DEF d, d2
    <3>4. /\ InstShape(d2) /\ d2.current = d.current /\ (d2 = WithFlushing(d, v) => d2.destroyed = d.destroyed)
          /\ \A w, j : InInst(w, j, d2) <=> InInst(w, j, d)
      BY <3>2, <3>3, InstMarked
    <3> QED BY <3>3, <3>4 DEF d, d2
  <2>3. CASE i \notin DOMAIN task.input
    <3>1. instData'[i] = instData[i]
      BY <2>3 DEF AckFlushed
    <3> QED BY <2>1, <3>1
  <2> QED BY <2>2, <2>3
<1>3. InstsFit(instData, instData')
  BY <1>1, <1>2 DEF InstsFit
<1>4. \A w : PendingInst(w, instData') <=> PendingInst(w, instData)
  BY <1>1, <1>2 DEF PendingInst
<1> QED BY <1>3, <1>4

\* Pending data over tables that stay.
LEMMA PendingStays ==
  ASSUME NEW wr, NEW ins, NEW ins2, NEW tk, NEW tk2, NEW sp, NEW sp2, NEW td, NEW td2,
         PendingOK(wr, ins, tk, sp, td), TablesStay(td, td2),
         \A w : PendingInst(w, ins2) => PendingInst(w, ins),
         \A x : IsSpill(x, tk2, sp2) => IsSpill(x, tk, sp)
  PROVE  PendingOK(wr, ins2, tk2, sp2, td2)
<1>1. \A w : Pending(w, ins2, tk2, sp2) => Pending(w, ins, tk, sp)
  BY DEF Pending, PendingSpill
<1>2. ASSUME NEW w, Pending(w, ins2, tk2, sp2) PROVE w \in wr /\ HasEpoch(td2, w.table, w.epoch)
  BY <1>1, <1>2 DEF PendingOK, TablesStay
<1>3. ASSUME NEW x, NEW w, IsSpill(x, tk2, sp2), InInput(w, x.input)
      PROVE  w.table \in x.tables /\ <<w.epoch, x.id>> \in td2[w.table].spill
  <2>1. IsSpill(x, tk, sp)
    BY <1>3
  <2>2. w.table \in x.tables /\ <<w.epoch, x.id>> \in td[w.table].spill
    BY <1>3, <2>1 DEF PendingOK
  <2>3. Pending(w, ins, tk, sp)
    BY <1>3, <2>1 DEF Pending, PendingSpill
  <2>4. HasEpoch(td, w.table, w.epoch)
    BY <2>3 DEF PendingOK
  <2> QED BY <2>2, <2>4 DEF TablesStay
<1> QED BY <1>2, <1>3 DEF PendingOK

\* Tables that a notified sync leaves.
LEMMA KeptTablesStay ==
  ASSUME NEW td, NEW td2, TablesKept(td, td2)
  PROVE  TablesStay(td, td2)
<1>1. ASSUME NEW t, NEW e, HasEpoch(td, t, e)
      PROVE  HasEpoch(td2, t, e) /\ \A y \in td[t].spill : y \in td2[t].spill
  <2>1. t \in DOMAIN td /\ e \in td[t].unsync /\ t \in DOMAIN td2
    BY <1>1 DEF HasEpoch, TablesKept
  <2> QED BY <2>1 DEF HasEpoch, TablesKept, SameTable
<1> QED BY <1>1 DEF TablesStay

\* Notifying the finished syncs keeps all stages.
LEMMA NotifyingData ==
  ASSUME NEW tk, NEW sp, NEW sy, NEW td, NEW ue, NEW ins, UploaderOK(tk, sp, sy, td, ue), MayNotifySyncTask(sy, td, ins),
         AnswersOK(answers, sy)
  PROVE  KeepsStages(answers, answers', sy, syncing', tk, tk) /\ TablesStay(td, tableData')
<1>1. TablesKept(td, tableData') /\ \E done : Notified(sy, answers, done, syncing', answers')
  BY Notifies
<1>2. PICK done : Notified(sy, answers, done, syncing', answers')
  BY <1>1
<1>3. /\ IsSeq(sy) /\ IsSeq(answers) /\ SyncsKnown(tk, sy) /\ (\A k \in DOMAIN sy : SyncShape(sy[k]))
      /\ \A j, k \in DOMAIN sy : j < k => sy[j].id < sy[k].id
  BY DEF UploaderOK, Shapes, UniqueIds, AnswersOK
<1>4. /\ \A g, e : HasStage(g, e, answers, sy) <=> HasStage(g, e, answers', syncing')
      /\ \A w, g, e : InStage(w, g, e, answers, sy, tk) <=> InStage(w, g, e, answers', syncing', tk)
      /\ AnswersOK(answers', syncing')
  BY <1>2, <1>3, NotifiedStages
<1>5. \A k \in DOMAIN syncing' : \E m \in DOMAIN sy : syncing'[k].tables = sy[m].tables
  <2> DEFINE I == {k \in DOMAIN sy : sy[k] \notin Finished(sy)}
  <2>1. syncing' = Keep(sy, I) /\ I \subseteq DOMAIN sy
    BY <1>2 DEF Notified
  <2> HIDE DEF I
  <2>2. PICK f \in [DOMAIN Keep(sy, I) -> DOMAIN sy] : \A k \in DOMAIN Keep(sy, I) : Keep(sy, I)[k] = sy[f[k]]
    BY <1>3, <2>1, KeepFacts
  <2> QED BY <2>1, <2>2
<1>6. TablesStay(td, tableData')
  BY <1>1, KeptTablesStay
<1> QED BY <1>4, <1>5, <1>6 DEF KeepsStages

\* KeepsStages composes.
LEMMA StagesCompose ==
  ASSUME NEW a1, NEW a2, NEW a3, NEW s1, NEW s2, NEW s3, NEW t1, NEW t2, NEW t3,
         KeepsStages(a1, a2, s1, s2, t1, t2), KeepsStages(a2, a3, s2, s3, t2, t3)
  PROVE  KeepsStages(a1, a3, s1, s3, t1, t3)
<1>1. \A k \in DOMAIN s3 : \E m \in DOMAIN s1 : s3[k].tables = s1[m].tables
  BY DEF KeepsStages
<1>2. \A g, e : HasStage(g, e, a3, s3) <=> HasStage(g, e, a1, s1)
  BY DEF KeepsStages
<1>3. \A w, g, e : InStage(w, g, e, a3, s3, t3) <=> InStage(w, g, e, a1, s1, t1)
  BY DEF KeepsStages
<1> QED BY <1>1, <1>2, <1>3 DEF KeepsStages

\* The SST of a sync is uploaded.
LEMMA UploadStages ==
  ASSUME NodeOK, DataOK, NEW sy1, UploadStep(sy1), tasks # <<>>, tasks' = Tail(tasks), Head(tasks) = tasks[1]
  PROVE  KeepsStages(answers, answers, syncing, sy1, tasks, tasks')
<1>1. UploaderOK(tasks, spilledData, syncing, tableData, unsyncEpochs) /\ AnswersOK(answers, syncing)
  BY Parts, DataParts
<1>2. IsSeq(tasks) /\ \A k \in DOMAIN syncing : IsSeq(syncing[k].uploaded)
  BY <1>1 DEF UploaderOK, Shapes, SyncShape
<1>3. /\ DOMAIN sy1 = DOMAIN syncing
      /\ \A k \in DOMAIN syncing :
           /\ sy1[k].id = syncing[k].id /\ sy1[k].epoch = syncing[k].epoch /\ sy1[k].tables = syncing[k].tables
           /\ sy1[k].uploaded = IF syncing[k].id = tasks[1].sync
                                THEN <<tasks[1].input>> \o syncing[k].uploaded ELSE syncing[k].uploaded
  BY DEF UploadStep
<1>4. AnswersOK(answers, sy1) /\ \A g, e : HasStage(g, e, answers, sy1) <=> HasStage(g, e, answers, syncing)
  BY <1>1, <1>3, SameSyncs
<1>5. ASSUME NEW k \in DOMAIN syncing, NEW w PROVE InSync(w, sy1[k], tasks') <=> InSync(w, syncing[k], tasks)
  <2>1. InSync(w, syncing[k], tasks) <=> InSync(w, syncing[k], tasks')
                                         \/ (tasks[1].sync = syncing[k].id /\ InInput(w, tasks[1].input))
    BY <1>2, HeadTaken
  <2>2. CASE tasks[1].sync = syncing[k].id
    <3>1. InUploaded(w, sy1[k].uploaded) <=> InInput(w, tasks[1].input) \/ InUploaded(w, syncing[k].uploaded)
      BY <2>2, <1>2, <1>3, UploadedFirst
    <3> QED BY <2>1, <2>2, <3>1, <1>3 DEF InSync
  <2>3. CASE tasks[1].sync # syncing[k].id
    <3>1. sy1[k].uploaded = syncing[k].uploaded /\ sy1[k].id = syncing[k].id
      BY <2>3, <1>3
    <3> QED BY <2>1, <2>3, <3>1 DEF InSync
  <2> QED BY <2>2, <2>3
<1>6. \A w, g, e : InStage(w, g, e, answers, sy1, tasks') <=> InStage(w, g, e, answers, syncing, tasks)
  <2>1. \A k \in DOMAIN syncing : \A g, e : (Of(sy1[k], g) /\ sy1[k].epoch = e) <=> (Of(syncing[k], g) /\ syncing[k].epoch = e)
    BY <1>3 DEF Of
  <2> QED BY <2>1, <1>3, <1>5 DEF InStage
<1> QED BY <1>3, <1>4, <1>6 DEF KeepsStages

\* handle_uploaded_sst.
LEMMA UploadedData ==
  ASSUME NodeOK, DataOK, UploadedSst
  PROVE  DataOK'
<1>1. NextUploadedSst /\ UNCHANGED <<mode, tables, barriers, lastEpoch, command, actor, epoch, version, written, nextImm>>
  BY DEF UploadedSst
<1>2. UploaderOK(tasks, spilledData, syncing, tableData, unsyncEpochs) /\ AnswersOK(answers, syncing)
      /\ PendingOK(written, instData, tasks, spilledData, tableData)
  BY Parts, DataParts
<1>3. /\ IsSeq(tasks) /\ tasks # <<>> /\ tasks' = Tail(tasks) /\ Head(tasks) = tasks[1]
      /\ UNCHANGED <<working, unsyncEpochs>> /\ instData' = AckFlushed(Head(tasks)) /\ working
      /\ \/ /\ Head(tasks).sync = 0
            /\ spilledData' = spilledData \cup {Head(tasks)} /\ UNCHANGED <<tableData, syncing, answers>>
            /\ \A x : IsSpill(x, tasks, spilledData) <=> IsSpill(x, tasks', spilledData')
         \/ Head(tasks).sync # 0 /\ \E sy1 : UploadStep(sy1)
  BY <1>1, <1>2, Uploads
<1>4. InstsFit(instData, instData') /\ \A w : PendingInst(w, instData') <=> PendingInst(w, instData)
  BY <1>3, AckedInsts
<1>5. /\ KeepsStages(answers, answers', syncing, syncing', tasks, tasks') /\ TablesStay(tableData, tableData')
      /\ \A x : IsSpill(x, tasks, spilledData) <=> IsSpill(x, tasks', spilledData')
  <2>1. CASE Head(tasks).sync = 0
    <3>1. UNCHANGED <<tableData, syncing, answers>> /\ \A x : IsSpill(x, tasks, spilledData) <=> IsSpill(x, tasks', spilledData')
      BY <1>3, <2>1
    <3>2. \A k \in DOMAIN syncing : syncing[k].id # 0
      BY <1>2 DEF UploaderOK, Shapes, SyncShape
    <3>3. \A k \in DOMAIN syncing : \A w : InSync(w, syncing[k], tasks') <=> InSync(w, syncing[k], tasks)
      BY <2>1, <3>2, <1>3, HeadTaken
    <3>4. KeepsStages(answers, answers', syncing, syncing', tasks, tasks')
      BY <3>1, <3>3, <1>2, SameStages
    <3> QED BY <3>1, <3>4 DEF TablesStay
  <2>2. CASE Head(tasks).sync # 0
    <3>1. PICK sy1 : UploadStep(sy1)
      BY <1>3, <2>2
    <3>2. KeepsStages(answers, answers, syncing, sy1, tasks, tasks')
      BY <3>1, <1>3, UploadStages
    <3>3. /\ UploaderOK(tasks', spilledData, sy1, tableData, unsyncEpochs) /\ MayNotifySyncTask(sy1, tableData, instData')
          /\ spilledData' = spilledData /\ \A x : IsSpill(x, tasks, spilledData) <=> IsSpill(x, tasks', spilledData)
      BY <3>1 DEF UploadStep
    <3>4. AnswersOK(answers, sy1)
      BY <3>2 DEF KeepsStages
    <3>5. KeepsStages(answers, answers', sy1, syncing', tasks', tasks') /\ TablesStay(tableData, tableData')
      BY <3>3, <3>4, NotifyingData
    <3>6. KeepsStages(answers, answers', syncing, syncing', tasks, tasks')
      BY <3>2, <3>5, StagesCompose
    <3> QED BY <3>3, <3>5, <3>6
  <2> QED BY <2>1, <2>2
<1>6. PendingOK(written, instData', tasks', spilledData', tableData')
  BY <1>2, <1>4, <1>5, PendingStays
<1>7. \A w : Pending(w, instData, tasks, spilledData) => Pending(w, instData', tasks', spilledData')
  BY <1>4, <1>5 DEF Pending, PendingSpill
<1> QED BY <1>1, <1>3, <1>4, <1>5, <1>6, <1>7, UploaderStepData

\* The first answer is taken.
LEMMA AnswerTaken ==
  ASSUME NEW ans, NEW sy, NEW tk, AnswersOK(ans, sy), ans # <<>>
  PROVE  /\ AnswersOK(Tail(ans), sy) /\ Head(ans) = ans[1]
         /\ \A g, e : HasStage(g, e, ans, sy) <=> HasStage(g, e, Tail(ans), sy) \/ Answered(ans[1], g, e)
         /\ \A w, g, e : InStage(w, g, e, ans, sy, tk)
                         <=> InStage(w, g, e, Tail(ans), sy, tk) \/ (Answered(ans[1], g, e) /\ InUploaded(w, ans[1].uploaded))
         /\ \A g \in Group : \A e : ans[1].ok /\ Of(ans[1], g) /\ HasStage(g, e, Tail(ans), sy) => ans[1].epoch < e
<1> DEFINE r == Tail(ans)
<1>1. /\ IsSeq(r) /\ Len(r) = Len(ans) - 1 /\ Len(ans) \in Nat /\ Len(ans) > 0 /\ Head(ans) = ans[1]
      /\ \A k \in 1..Len(r) : r[k] = ans[k + 1] /\ k + 1 \in 1..Len(ans)
  BY SeqTail DEF AnswersOK
<1>2. DOMAIN ans = 1..Len(ans) /\ DOMAIN r = 1..Len(r)
  BY <1>1, SeqDomain DEF AnswersOK
<1>3. ASSUME NEW j \in DOMAIN ans, j # 1 PROVE j - 1 \in DOMAIN r /\ r[j - 1] = ans[j]
  <2>1. j - 1 \in 1..Len(r) /\ (j - 1) + 1 = j
    BY <1>1, <1>2, <1>3
  <2> QED BY <2>1, <1>1, <1>2
<1>4. \A j \in DOMAIN r : j + 1 \in DOMAIN ans /\ r[j] = ans[j + 1] /\ 1 < j + 1
  BY <1>1, <1>2
<1>5. 1 \in DOMAIN ans
  BY <1>1, <1>2
<1>6. \A j, k \in DOMAIN r : j < k => j + 1 < k + 1
  BY <1>2
<1> HIDE DEF r
<1>7. Ordered(ans, sy) /\ Grouped(ans, sy)
  BY DEF AnswersOK
<1>8. Ordered(r, sy)
  <2>1. ASSUME NEW g \in Group, NEW j \in DOMAIN r, NEW k \in DOMAIN r, j < k, r[j].ok /\ r[k].ok /\ Of(r[j], g) /\ Of(r[k], g)
        PROVE  r[j].epoch < r[k].epoch
    BY <2>1, <1>4, <1>6, <1>7 DEF Ordered
  <2>2. ASSUME NEW g \in Group, NEW j \in DOMAIN r, NEW k \in DOMAIN sy, r[j].ok /\ Of(r[j], g) /\ Of(sy[k], g)
        PROVE  r[j].epoch < sy[k].epoch
    BY <2>2, <1>4, <1>7 DEF Ordered
  <2> QED BY <2>1, <2>2, <1>7 DEF Ordered
<1>9. Grouped(r, sy)
  BY <1>4, <1>7 DEF Grouped
<1>10. ASSUME NEW g, NEW e PROVE HasStage(g, e, ans, sy) <=> HasStage(g, e, r, sy) \/ Answered(ans[1], g, e)
  BY <1>3, <1>4, <1>5 DEF HasStage
<1>11. ASSUME NEW w, NEW g, NEW e
       PROVE  InStage(w, g, e, ans, sy, tk)
              <=> InStage(w, g, e, r, sy, tk) \/ (Answered(ans[1], g, e) /\ InUploaded(w, ans[1].uploaded))
  BY <1>3, <1>4, <1>5 DEF InStage
<1>12. ASSUME NEW g \in Group, NEW e, ans[1].ok, Of(ans[1], g), HasStage(g, e, r, sy) PROVE ans[1].epoch < e
  BY <1>4, <1>5, <1>7, <1>12 DEF HasStage, Ordered, Answered
<1> QED BY <1>1, <1>8, <1>9, <1>10, <1>11, <1>12 DEF AnswersOK, r

\* Nothing changes in the instances.
LEMMA SameInsts ==
  ASSUME DataOK
  PROVE  InstsFit(instData, instData) /\ TablesStay(tableData, tableData)
BY DataParts DEF InstsFit, TablesStay, Instances

\* An error answer holds no data.
LEMMA SyncErrorData ==
  ASSUME NodeOK, DataOK, TakeSyncError
  PROVE  DataOK'
<1>1. /\ answers # <<>> /\ ~Head(answers).ok /\ answers' = Tail(answers)
      /\ UNCHANGED <<working, instData, tableData, spilledData, tasks, syncing>>
      /\ UNCHANGED <<mode, tables, barriers, lastEpoch, command, actor, epoch, version, written, nextImm>>
  BY DEF TakeSyncError
<1>2. KeepsStages(answers, answers', syncing, syncing', tasks, tasks')
  <2>1. AnswersOK(answers, syncing)
    BY DataParts
  <2>2. /\ AnswersOK(answers', syncing) /\ ~answers[1].ok
        /\ \A g, e : HasStage(g, e, answers, syncing) <=> HasStage(g, e, answers', syncing) \/ Answered(answers[1], g, e)
        /\ \A w, g, e : InStage(w, g, e, answers, syncing, tasks)
                        <=> InStage(w, g, e, answers', syncing, tasks) \/ (Answered(answers[1], g, e) /\ InUploaded(w, answers[1].uploaded))
    BY <1>1, <2>1, AnswerTaken
  <2>3. \A g, e : ~Answered(answers[1], g, e)
    BY <2>2 DEF Answered
  <2> QED BY <2>2, <2>3, <1>1 DEF KeepsStages
<1>3. PendingOK(written, instData', tasks', spilledData', tableData')
  BY <1>1, DataParts
<1> QED BY <1>1, <1>2, <1>3, SameInsts, UploaderStepData

\* The uploader does not change.
LEMMA IdleData ==
  ASSUME DataOK, UNCHANGED <<mode, tables, barriers, lastEpoch, command, actor, epoch, version, written, nextImm>>,
         UNCHANGED <<working, instData, spilledData, tasks, syncing, answers>>, TablesLike(tableData, tableData')
  PROVE  DataOK'
<1>1. AnswersOK(answers, syncing) /\ PendingOK(written, instData, tasks, spilledData, tableData)
  BY DataParts
<1>2. KeepsStages(answers, answers', syncing, syncing', tasks, tasks')
  BY <1>1, SameStages
<1>3. TablesStay(tableData, tableData')
  BY DEF TablesLike, TablesStay, HasEpoch
<1>4. PendingOK(written, instData', tasks', spilledData', tableData')
  BY <1>1, <1>3, PendingStays
<1>5. InstsFit(instData, instData')
  BY SameInsts
<1> QED BY <1>2, <1>3, <1>4, <1>5, UploaderStepData

\* apply_version_update.
LEMMA VersionData ==
  ASSUME NodeOK, DataOK, ApplyVersionUpdate \/ NotifyVersion
  PROVE  DataOK'
<1>1. CASE ApplyVersionUpdate
  <2>1. /\ UNCHANGED <<mode, tables, barriers, lastEpoch, command, actor, epoch, version, written, nextImm>>
        /\ UNCHANGED uploaderVars
    BY <1>1 DEF ApplyVersionUpdate
  <2>2. TablesLike(tableData, tableData')
    BY <2>1, NoChange DEF uploaderVars
  <2> QED BY <2>1, <2>2, IdleData DEF uploaderVars
<1>2. CASE NotifyVersion
  <2>1. /\ UNCHANGED <<mode, tables, barriers, lastEpoch, command, actor, epoch, version, written, nextImm>>
        /\ UpdatePinnedVersion(CommittedEpochs(recent))
    BY <1>2 DEF NotifyVersion
  <2> DEFINE c == CommittedEpochs(recent)
             x(t) == IF tableData[t].synced < c[t] THEN c[t] ELSE tableData[t].synced
  <2>2. UNCHANGED <<working, instData, spilledData, tasks, syncing, answers>>
    BY <2>1 DEF UpdatePinnedVersion
  <2>3. DOMAIN tableData' = DOMAIN tableData /\ \A t \in DOMAIN tableData : tableData'[t] = [tableData[t] EXCEPT !.synced = x(t)]
    BY <2>1 DEF UpdatePinnedVersion
  <2> HIDE DEF x
  <2>4. \A t \in DOMAIN tableData : tableData'[t].unsync = tableData[t].unsync /\ tableData'[t].spill = tableData[t].spill
    <3>1. \A t \in DOMAIN tableData : NotedTable(tableData[t], tableData'[t])
      BY <2>3 DEF NotedTable
    <3> QED BY <2>3, <3>1, Parts, TablesNoted
  <2>5. TablesLike(tableData, tableData')
    BY <2>3, <2>4 DEF TablesLike
  <2> QED BY <2>1, <2>2, <2>5, IdleData
<1> QED BY <1>1, <1>2

-----------------------------------------------------------------------------
\* Errors, failures and resets

\* An answer that tells of an error.
IsError(x) ==
  ~x.ok /\ x.ok \in BOOLEAN /\ x.tables # {} /\ x.epoch \in Nat /\ \E g \in Group : Of(x, g)

\* Only errors are added to the answers.
ErrorsAdded(ans, ans2) ==
  /\ IsSeq(ans2) /\ \A k \in DOMAIN ans : k \in DOMAIN ans2 /\ ans2[k] = ans[k]
  /\ \A k \in DOMAIN ans2 :
       k \in DOMAIN ans \/ IsError(ans2[k])

\* The syncs go and only the stages of the answers are left, which were before those of the syncs.
LEMMA ErrorStages ==
  ASSUME NEW ans, NEW ans2, NEW sy, NEW tk, AnswersOK(ans, sy), ErrorsAdded(ans, ans2),
         \A k \in DOMAIN sy : sy[k].epoch \in Nat
  PROVE  /\ AnswersOK(ans2, <<>>)
         /\ \A g, e : HasStage(g, e, ans2, <<>>) => HasStage(g, e, ans, sy)
         /\ \A w, g, e : InStage(w, g, e, ans2, <<>>, <<>>) => InStage(w, g, e, ans, sy, tk)
         /\ \A g \in Group : \A w, e, f :
              HasStage(g, e, ans2, <<>>) /\ f <= e /\ InStage(w, g, f, ans, sy, tk) => InStage(w, g, f, ans2, <<>>, <<>>)
<1>1. IsSeq(ans) /\ Ordered(ans, sy) /\ Grouped(ans, sy) /\ IsSeq(ans2)
  BY DEF AnswersOK, ErrorsAdded
<1>2. DOMAIN <<>> = {}
  BY EmptySeq
<1>3. \A k \in DOMAIN ans : k \in DOMAIN ans2 /\ ans2[k] = ans[k]
  BY DEF ErrorsAdded
<1>4. \A k \in DOMAIN ans2 : ans2[k].ok => k \in DOMAIN ans /\ ans2[k] = ans[k]
  BY <1>3 DEF ErrorsAdded, IsError
<1>5. Ordered(ans2, <<>>)
  BY <1>1, <1>2, <1>4 DEF Ordered
<1>6. Grouped(ans2, <<>>)
  <2>1. ASSUME NEW k \in DOMAIN ans2
        PROVE  /\ ans2[k].tables # {} /\ ans2[k].ok \in BOOLEAN /\ ans2[k].epoch \in Nat
               /\ \E g \in Group : Of(ans2[k], g)
    <3>1. CASE k \in DOMAIN ans
      BY <3>1, <1>1, <1>3 DEF Grouped
    <3> QED BY <3>1 DEF ErrorsAdded, IsError
  <2> QED BY <2>1, <1>2 DEF Grouped
<1>7. ASSUME NEW g, NEW e, HasStage(g, e, ans2, <<>>)
      PROVE  \E k \in DOMAIN ans : Answered(ans[k], g, e) /\ ans2[k] = ans[k] /\ k \in DOMAIN ans2
  BY <1>2, <1>4, <1>7 DEF HasStage, Answered
<1>8. \A g, e : HasStage(g, e, ans2, <<>>) => HasStage(g, e, ans, sy)
  BY <1>7 DEF HasStage
<1>9. ASSUME NEW w, NEW g, NEW e, InStage(w, g, e, ans2, <<>>, <<>>) PROVE InStage(w, g, e, ans, sy, tk)
  BY <1>2, <1>4, <1>9 DEF InStage, Answered
<1>10. ASSUME NEW g \in Group, NEW w, NEW e, NEW f, HasStage(g, e, ans2, <<>>), f <= e, InStage(w, g, f, ans, sy, tk)
       PROVE  InStage(w, g, f, ans2, <<>>, <<>>)
  <2>1. CASE \E k \in DOMAIN ans : Answered(ans[k], g, f) /\ InUploaded(w, ans[k].uploaded)
    BY <2>1, <1>3 DEF InStage
  <2>2. ASSUME NEW k \in DOMAIN sy, Of(sy[k], g), sy[k].epoch = f PROVE FALSE
    <3>1. PICK j \in DOMAIN ans : Answered(ans[j], g, e)
      BY <1>7, <1>10
    <3>2. ans[j].epoch < sy[k].epoch /\ ans[j].epoch = e /\ e \in Nat /\ f \in Nat
      BY <3>1, <2>2, <1>1 DEF Ordered, Grouped, Answered
    <3> QED BY <3>2, <2>2, <1>10
  <2> QED BY <2>1, <2>2, <1>10 DEF InStage
<1> QED BY <1>1, <1>5, <1>6, <1>8, <1>9, <1>10 DEF AnswersOK

\* What is left of the invariant when only answers are left.
LEMMA ErrorsData ==
  ASSUME NodeOK, DataOK, NEW ans2, ErrorsAdded(answers, ans2)
  PROVE  /\ AnswersOK(ans2, <<>>) /\ StageData(written, ans2, <<>>, <<>>)
         /\ StageFull(mode, version, written, ans2, <<>>, <<>>)
         /\ Floors(mode, lastEpoch, barriers, actor, epoch, version, ans2, <<>>)
         /\ \A g, e : HasStage(g, e, ans2, <<>>) => HasStage(g, e, answers, syncing)
<1>1. \A k \in DOMAIN syncing : syncing[k].epoch \in Nat
  BY Parts DEF UploaderOK, Shapes, SyncShape
<1>2. /\ AnswersOK(ans2, <<>>)
      /\ \A g, e : HasStage(g, e, ans2, <<>>) => HasStage(g, e, answers, syncing)
      /\ \A w, g, e : InStage(w, g, e, ans2, <<>>, <<>>) => InStage(w, g, e, answers, syncing, tasks)
      /\ \A g \in Group : \A w, e, f : HasStage(g, e, ans2, <<>>) /\ f <= e /\ InStage(w, g, f, answers, syncing, tasks)
           => InStage(w, g, f, ans2, <<>>, <<>>)
  BY <1>1, DataParts, ErrorStages
<1>3. StageData(written, ans2, <<>>, <<>>)
  BY <1>2, DataParts DEF StageData
<1>4. StageFull(mode, version, written, ans2, <<>>, <<>>)
  <2> SUFFICES ASSUME NEW g \in Group, mode[g] = "running", NEW e, HasStage(g, e, ans2, <<>>), NEW w \in written,
                      w.table \in TablesOf[g], version.epoch[g] < w.epoch, w.epoch <= e
               PROVE  \E f : f <= e /\ HasStage(g, f, ans2, <<>>) /\ InStage(w, g, f, ans2, <<>>, <<>>)
    BY DEF StageFull
  <2>1. PICK f : f <= e /\ InStage(w, g, f, answers, syncing, tasks)
    BY <1>2, DataParts DEF StageFull
  <2>2. InStage(w, g, f, ans2, <<>>, <<>>)
    BY <2>1, <1>2
  <2> QED BY <2>1, <2>2, StageOf
<1>5. Floors(mode, lastEpoch, barriers, actor, epoch, version, ans2, <<>>)
  BY <1>2, DataParts DEF Floors
<1> QED BY <1>2, <1>3, <1>4, <1>5

\* Nothing is pending in an empty uploader.
LEMMA NothingPending ==
  /\ \A x : ~IsSpill(x, <<>>, {}) /\ \A w : ~Pending(w, Empty, <<>>, {})
  /\ \A wr, td : PendingOK(wr, Empty, <<>>, {}, td)
<1>1. DOMAIN <<>> = {} /\ DOMAIN Empty = {}
  BY EmptySeq DEF Empty
<1>2. \A x : ~IsSpill(x, <<>>, {})
  BY <1>1 DEF IsSpill
<1>3. \A w : ~Pending(w, Empty, <<>>, {})
  BY <1>1, <1>2 DEF Pending, PendingInst, PendingSpill
<1> QED BY <1>2, <1>3 DEF PendingOK

\* Errors behind the answers.
LEMMA ErrorsBehind ==
  ASSUME NEW ans, IsSeq(ans), NEW r, IsSeq(r), \A k \in DOMAIN r : IsError(r[k])
  PROVE  ErrorsAdded(ans, ans \o r)
<1> DEFINE c == ans \o r
<1>1. /\ IsSeq(c) /\ DOMAIN c = 1..(Len(ans) + Len(r))
      /\ \A k \in 1..Len(ans) : c[k] = ans[k] /\ k \in 1..(Len(ans) + Len(r))
      /\ \A k \in 1..Len(r) : c[Len(ans) + k] = r[k]
      /\ \A k \in 1..(Len(ans) + Len(r)) :
           k \in 1..Len(ans) \/ (k - Len(ans) \in 1..Len(r) /\ k = Len(ans) + (k - Len(ans)))
  BY SeqConcat
<1>2. DOMAIN ans = 1..Len(ans) /\ DOMAIN r = 1..Len(r)
  BY SeqDomain
<1> HIDE DEF c
<1>3. ASSUME NEW k \in DOMAIN c, k \notin DOMAIN ans PROVE IsError(c[k])
  <2>1. k - Len(ans) \in 1..Len(r) /\ k = Len(ans) + (k - Len(ans))
    BY <1>1, <1>2, <1>3
  <2>2. c[k] = r[k - Len(ans)]
    BY <2>1, <1>1
  <2> QED BY <2>1, <2>2, <1>2
<1>4. ErrorsAdded(ans, c)
  BY <1>1, <1>2, <1>3 DEF ErrorsAdded, IsError
<1> QED BY <1>4 DEF c

\* The fields of an error.
LEMMA ErrorIs ==
  ASSUME NEW s
  PROVE  /\ ~ErrorAnswer(s).ok /\ ErrorAnswer(s).ok \in BOOLEAN
         /\ ErrorAnswer(s).tables = s.tables /\ ErrorAnswer(s).epoch = s.epoch
<1>1. ErrorAnswer(s).ok = FALSE /\ ErrorAnswer(s).tables = s.tables /\ ErrorAnswer(s).epoch = s.epoch
  BY DEF ErrorAnswer
<1> QED BY <1>1

\* Syncs are answered with errors.
LEMMA ErrorsOf ==
  ASSUME NodeOK, DataOK, NEW all, IsSeq(all), \A k \in DOMAIN all : \E m \in DOMAIN syncing : all[k] = syncing[m],
         NEW ans2, ans2 = answers \o [k \in DOMAIN all |-> ErrorAnswer(all[k])]
  PROVE  ErrorsAdded(answers, ans2)
<1> DEFINE r == [k \in DOMAIN all |-> ErrorAnswer(all[k])]
<1>1. Len(all) \in Nat /\ DOMAIN all = 1..Len(all)
  BY SeqDomain
<1>2. r = [k \in 1..Len(all) |-> r[k]] /\ DOMAIN r = DOMAIN all
  BY <1>1
<1>3. \A k \in DOMAIN all : r[k] = ErrorAnswer(all[k])
  OBVIOUS
<1>4. IsSeq(answers) /\ Grouped(answers, syncing) /\ ans2 = answers \o r
  BY DataParts DEF AnswersOK
<1> HIDE DEF r
<1>5. IsSeq(r)
  BY <1>1, <1>2, SeqMap
<1>6. ASSUME NEW k \in DOMAIN r PROVE IsError(r[k])
  <2>1. PICK m \in DOMAIN syncing : all[k] = syncing[m]
    BY <1>2, <1>6
  <2>2. ~r[k].ok /\ r[k].ok \in BOOLEAN /\ r[k].tables = all[k].tables /\ r[k].epoch = all[k].epoch
    <3>1. r[k] = ErrorAnswer(all[k])
      BY <1>2, <1>3, <1>6
    <3> DEFINE y == all[k]
    <3>2. r[k] = ErrorAnswer(y)
      BY <3>1
    <3> HIDE DEF y
    <3>3. ~r[k].ok /\ r[k].ok \in BOOLEAN /\ r[k].tables = y.tables /\ r[k].epoch = y.epoch
      BY <3>2, ErrorIs
    <3> QED BY <3>3 DEF y
  <2>3. syncing[m].epoch \in Nat
    BY Parts DEF UploaderOK, Shapes, SyncShape
  <2>4. syncing[m].tables # {} /\ \E g \in Group : Of(syncing[m], g)
    BY <1>4 DEF Grouped
  <2> QED BY <2>1, <2>2, <2>3, <2>4 DEF Of, IsError
<1>7. ErrorsAdded(answers, answers \o r)
  BY <1>4, <1>5, <1>6, ErrorsBehind
<1> QED BY <1>4, <1>7

\* UploadFails.
LEMMA FailureData ==
  ASSUME NodeOK, DataOK, UploadFails
  PROVE  DataOK'
<1>1. /\ UNCHANGED <<mode, tables, barriers, lastEpoch, command, actor, epoch, version, written, nextImm>>
      /\ SyncTaskFailed /\ ResetUploaderData /\ working' = FALSE
  BY DEF UploadFails, SyncTaskFailed
<1>2. instData' = Empty /\ tableData' = Empty /\ spilledData' = {} /\ tasks' = <<>> /\ syncing' = <<>>
  BY <1>1 DEF ResetUploaderData
<1> DEFINE I == {k \in DOMAIN syncing : syncing[k].id = Head(tasks).sync}
           J == {k \in DOMAIN syncing : syncing[k].id # Head(tasks).sync}
           failed == Keep(syncing, I)
           others == Keep(syncing, J)
           all == failed \o others
<1>3. answers' = answers \o [k \in DOMAIN all |-> ErrorAnswer(all[k])]
  BY <1>1 DEF SyncTaskFailed
<1>4. I \subseteq DOMAIN syncing /\ J \subseteq DOMAIN syncing /\ IsSeq(syncing)
  BY Parts DEF UploaderOK, Shapes
<1> HIDE DEF I, J
<1>5. /\ IsSeq(failed) /\ \A k \in DOMAIN failed : \E m \in DOMAIN syncing : failed[k] = syncing[m]
      /\ IsSeq(others) /\ \A k \in DOMAIN others : \E m \in DOMAIN syncing : others[k] = syncing[m]
  BY <1>4, KeepFacts
<1> HIDE DEF failed, others
<1>6. IsSeq(all) /\ \A k \in DOMAIN all : \E m \in DOMAIN syncing : all[k] = syncing[m]
  <2>1. /\ IsSeq(all) /\ DOMAIN all = 1..(Len(failed) + Len(others))
        /\ \A k \in 1..Len(failed) : all[k] = failed[k]
        /\ \A k \in 1..Len(others) : all[Len(failed) + k] = others[k]
        /\ \A k \in 1..(Len(failed) + Len(others)) :
             k \in 1..Len(failed) \/ (k - Len(failed) \in 1..Len(others) /\ k = Len(failed) + (k - Len(failed)))
    BY <1>5, SeqConcat
  <2>2. DOMAIN failed = 1..Len(failed) /\ DOMAIN others = 1..Len(others)
    BY <1>5, SeqDomain
  <2> HIDE DEF all
  <2>3. ASSUME NEW k \in DOMAIN all PROVE \E m \in DOMAIN syncing : all[k] = syncing[m]
    <3>1. CASE k \in 1..Len(failed)
      BY <3>1, <2>1, <2>2, <1>5
    <3>2. CASE k - Len(failed) \in 1..Len(others) /\ k = Len(failed) + (k - Len(failed))
      <4>1. all[k] = others[k - Len(failed)]
        BY <3>2, <2>1
      <4> QED BY <4>1, <3>2, <2>2, <1>5
    <3> QED BY <3>1, <3>2, <2>1
  <2> QED BY <2>1, <2>3
<1> HIDE DEF all
<1>7. ErrorsAdded(answers, answers')
  BY <1>3, <1>6, ErrorsOf
<1>8. /\ AnswersOK(answers', <<>>) /\ StageData(written, answers', <<>>, <<>>)
      /\ StageFull(mode, version, written, answers', <<>>, <<>>)
      /\ Floors(mode, lastEpoch, barriers, actor, epoch, version, answers', <<>>)
  BY <1>7, ErrorsData
<1>9. DOMAIN <<>> = {} /\ DOMAIN Empty = {}
  BY EmptySeq DEF Empty
<1>10. /\ Unsynced(working', actor, epoch, barriers, tableData') /\ Instances(working', actor, epoch, instData')
       /\ Fresh(command, mode, instData') /\ Gone(mode, instData', syncing', actor)
       /\ AllData(working', mode, version, written, answers', syncing', tasks', spilledData', instData')
  <2>1. \A k \in DOMAIN instData' : FALSE
    BY <1>2, <1>9
  <2>2. \A k \in DOMAIN syncing' : FALSE
    BY <1>2, <1>9
  <2>3. ~working'
    BY <1>1
  <2> QED BY <2>1, <2>2, <2>3, DataParts DEF Unsynced, Instances, Fresh, Gone, AllData
<1>11. PendingOK(written, instData', tasks', spilledData', tableData')
  BY <1>2, NothingPending
<1> QED BY <1>1, <1>2, <1>8, <1>10, <1>11, DataParts DEF DataOK

\* Databases are suspended.
LEMMA SuspendData ==
  ASSUME NodeOK, DataOK, NEW G, Suspend(G), \A g \in G : g \in Group => mode[g] = "running"
  PROVE  DataOK'
<1>1. /\ UNCHANGED <<working, instData, tableData, spilledData, tasks, syncing, answers>>
      /\ UNCHANGED <<tables, lastEpoch, command, epoch, version, written, nextImm>>
      /\ mode' = [g \in Group |-> IF g \in G THEN "suspended" ELSE mode[g]]
      /\ barriers' = [g \in Group |-> IF g \in G THEN <<>> ELSE barriers[g]]
      /\ actor' = [i \in Instance |-> IF GroupOf[i] \in G THEN AbortActor(actor[i]) ELSE actor[i]]
  BY DEF Suspend, uploaderVars
<1>2. /\ \A g \in Group : g \notin G => mode'[g] = mode[g] /\ barriers'[g] = barriers[g]
      /\ \A g \in Group : g \in G => mode'[g] = "suspended" /\ barriers'[g] = <<>> /\ mode[g] = "running"
      /\ \A i \in Instance : GroupOf[i] \notin G => actor'[i] = actor[i]
      /\ \A i \in Instance : GroupOf[i] \in G => actor'[i] = AbortActor(actor[i])
  BY <1>1
<1>3. DOMAIN <<>> = {}
  BY EmptySeq
<1>4. actor \in [Instance -> ActorState] /\ actor' \in [Instance -> ActorState]
  <2>1. actor \in [Instance -> ActorState]
    BY DataParts DEF Actors
  <2>2. \A i \in Instance : (IF GroupOf[i] \in G THEN AbortActor(actor[i]) ELSE actor[i]) \in ActorState
    BY <2>1 DEF ActorState, AbortActor
  <2> QED BY <2>1, <2>2, <1>1
<1>5. ASSUME NEW i \in Instance PROVE /\ Live(actor'[i]) => GroupOf[i] \notin G /\ actor'[i] = actor[i]
                                      /\ actor'[i] = "none" <=> actor[i] = "none"
                                      /\ actor'[i] = actor[i] \/ (actor'[i] \in {"aborted", "dropping"} /\ GroupOf[i] \in G /\ actor[i] # "none")
  BY <1>2, <1>5 DEF Live, AbortActor
<1>6. \A g \in Group : mode'[g] = "running" => g \notin G /\ mode[g] = "running" /\ barriers'[g] = barriers[g]
  BY <1>2
<1>7. \A g \in Group : mode'[g] = "cleared" => mode[g] = "cleared"
  BY <1>2
<1>8. ASSUME NEW g \in Group, NEW k \in DOMAIN barriers'[g] PROVE g \notin G /\ barriers'[g] = barriers[g] /\ mode'[g] = mode[g]
  BY <1>2, <1>3, <1>8
<1>9. Actors(actor', epoch', mode', barriers', lastEpoch', tables')
  <2>1. Actors(actor, epoch, mode, barriers, lastEpoch, tables)
    BY DataParts
  <2>2. ASSUME NEW i \in Instance, actor'[i] # "none" PROVE GroupOf[i] \in Group /\ TableOf[i] \in TablesOf[GroupOf[i]]
    BY <2>1, <2>2, <1>5 DEF Actors
  <2>3. ASSUME NEW i \in Instance, actor'[i] \in {"aborted", "dropping"} PROVE mode'[GroupOf[i]] = "suspended"
    <3>1. GroupOf[i] \in Group
      BY <2>2, <2>3
    <3>2. CASE actor[i] \in {"aborted", "dropping"}
      <4>1. mode[GroupOf[i]] = "suspended"
        BY <3>2, <2>1 DEF Actors
      <4> QED BY <4>1, <3>1, <1>2
    <3> QED BY <3>1, <3>2, <2>3, <1>2, <1>5
  <2>4. ASSUME NEW i \in Instance, Live(actor'[i])
        PROVE  /\ mode'[GroupOf[i]] = "running"
               /\ ActorOf(i, actor'[i], epoch'[i].curr, barriers'[GroupOf[i]], lastEpoch'[GroupOf[i]], tables'[GroupOf[i]])
    <3>1. GroupOf[i] \in Group /\ GroupOf[i] \notin G /\ actor'[i] = actor[i]
      BY <2>2, <2>4, <1>5 DEF Live
    <3>2. mode'[GroupOf[i]] = mode[GroupOf[i]] /\ barriers'[GroupOf[i]] = barriers[GroupOf[i]]
      BY <3>1, <1>2
    <3> QED BY <3>1, <3>2, <2>1, <2>4, <1>1 DEF Actors
  <2>5. DOMAIN epoch' = Instance
    BY <2>1, <1>1 DEF Actors
  <2> QED BY <2>2, <2>3, <2>4, <2>5, <1>4 DEF Actors
<1>10. Forward(barriers')
  BY <1>8, DataParts DEF Forward
<1>11. Commands(command', mode', barriers', actor') /\ Fresh(command', mode', instData')
  BY <1>1, <1>5, <1>6, DataParts DEF Commands, Fresh, Unchanged
<1>12. Unsynced(working', actor', epoch', barriers', tableData')
  <2>1. ASSUME NEW i \in Instance, actor'[i] \in {"spawned", "waiting", "running"} PROVE actor'[i] = actor[i]
    BY <2>1, <1>5
  <2> QED BY <2>1, <1>1, <1>8, DataParts DEF Unsynced
<1>13. Instances(working', actor', epoch', instData')
  <2>1. ASSUME NEW i \in DOMAIN instData PROVE i \in Instance /\ InstShape(instData[i]) /\ InstanceOf(actor'[i], epoch[i].curr, instData[i])
    <3>1. i \in Instance /\ InstShape(instData[i]) /\ InstanceOf(actor[i], epoch[i].curr, instData[i])
      BY <2>1, DataParts DEF Instances
    <3> QED BY <3>1, <1>5 DEF InstanceOf
  <2>2. \A i \in Instance : actor'[i] = "running" => actor[i] = "running"
    BY <1>5
  <2> QED BY <2>1, <2>2, <1>1, DataParts DEF Instances
<1>14. Gone(mode', instData', syncing', actor')
  BY <1>1, <1>5, <1>7, DataParts DEF Gone
<1>15. Floors(mode', lastEpoch', barriers', actor', epoch', version', answers', syncing')
  <2>1. ASSUME NEW g \in Group, NEW e, Over(e, g, mode, lastEpoch, barriers[g], actor, epoch)
        PROVE  Over(e, g, mode', lastEpoch', barriers'[g], actor', epoch')
    BY <2>1, <1>1, <1>5, <1>6, <1>8 DEF Over
  <2> QED BY <2>1, <1>1, DataParts DEF Floors
<1>16. /\ StageFull(mode', version', written', answers', syncing', tasks')
       /\ AllData(working', mode', version', written', answers', syncing', tasks', spilledData', instData')
  BY <1>1, <1>6, DataParts DEF StageFull, AllData
<1> QED BY <1>1, <1>9, <1>10, <1>11, <1>12, <1>13, <1>14, <1>15, <1>16, DataParts DEF DataOK

\* The actors of one database fail, or all are aborted, by a reset or a panic.
LEMMA FailData ==
  ASSUME NodeOK, DataOK, (\E g \in Group : ActorFails(g) \/ NodePanics(g)) \/ AbortAll
  PROVE  DataOK'
<1>1. ASSUME NEW g \in Group, ActorFails(g) PROVE DataOK'
  <2>1. mode[g] = "running" /\ Suspend({g})
    BY <1>1 DEF ActorFails
  <2> QED BY <2>1, SuspendData
<1>2. CASE AbortAll
  <2> DEFINE G == {g \in Group : mode[g] = "running"}
  <2>1. Suspend(G) /\ \A g \in G : g \in Group => mode[g] = "running"
    BY <1>2 DEF AbortAll
  <2> HIDE DEF G
  <2> QED BY <2>1, SuspendData
<1>3. ASSUME NEW g \in Group, NodePanics(g) PROVE DataOK'
  <2> DEFINE G == {h \in Group : mode[h] = "running"}
  <2>1. Suspend(G) /\ \A h \in G : h \in Group => mode[h] = "running"
    BY <1>3 DEF NodePanics
  <2> HIDE DEF G
  <2> QED BY <2>1, SuspendData
<1> QED BY <1>1, <1>2, <1>3

\* LocalBarrierWorker::reset.
LEMMA ResetNodeData ==
  ASSUME NodeOK, DataOK, ResetNode
  PROVE  DataOK'
<1>1. /\ UNCHANGED <<tables, barriers, lastEpoch, command, version, written, nextImm>>
      /\ ResetUploaderData /\ AwaitActors(Group) /\ \A g \in Group : mode[g] # "running"
      /\ answers' = answers \o [k \in DOMAIN syncing |-> ErrorAnswer(syncing[k])]
  BY DEF ResetNode, ClearAll
<1>2. instData' = Empty /\ tableData' = Empty /\ spilledData' = {} /\ tasks' = <<>> /\ syncing' = <<>>
  BY <1>1 DEF ResetUploaderData
<1>3. /\ DOMAIN epoch' = Instance /\ \A g \in Group : mode'[g] = "cleared"
      /\ actor' = [i \in Instance |-> IF GroupOf[i] \in Group THEN "none" ELSE actor[i]]
  BY <1>1 DEF AwaitActors
<1>4. \A i \in Instance : actor'[i] = "none"
  BY <1>3, DataParts DEF Actors
<1>5. actor' \in [Instance -> ActorState]
  BY <1>3, <1>4 DEF ActorState
<1>6. DOMAIN <<>> = {} /\ DOMAIN Empty = {}
  BY EmptySeq DEF Empty
<1>7. \A g \in Group : barriers[g] = <<>>
  BY <1>1, Parts DEF Chain, ChainOf
<1>8. IsSeq(syncing)
  BY Parts DEF UploaderOK, Shapes
<1>9. ErrorsAdded(answers, answers')
  BY <1>1, <1>8, ErrorsOf
<1>10. /\ AnswersOK(answers', <<>>) /\ StageData(written, answers', <<>>, <<>>)
       /\ Floors(mode, lastEpoch, barriers, actor, epoch, version, answers', <<>>)
  BY <1>9, ErrorsData
<1>11. \A i \in Instance : ~Live(actor'[i])
  BY <1>4 DEF Live
<1>12. Floors(mode', lastEpoch, barriers, actor', epoch', version, answers', <<>>)
  <2>1. ASSUME NEW g \in Group, NEW e, Over(e, g, mode, lastEpoch, barriers[g], actor, epoch)
        PROVE  Over(e, g, mode', lastEpoch, barriers[g], actor', epoch')
    BY <2>1, <1>3, <1>6, <1>7, <1>11 DEF Over
  <2> QED BY <2>1, <1>10 DEF Floors
<1>13. Actors(actor', epoch', mode', barriers, lastEpoch, tables)
  BY <1>3, <1>4, <1>5, <1>11 DEF Actors
<1>14. /\ Unsynced(working', actor', epoch', barriers, tableData') /\ Commands(command, mode', barriers, actor')
       /\ Instances(working', actor', epoch', instData') /\ Fresh(command, mode', instData')
  <2>1. \A g \in Group : ~Unchanged(command, mode', g)
    BY <1>3 DEF Unchanged
  <2>2. \A i \in DOMAIN instData' : FALSE
    BY <1>2, <1>6
  <2>3. \A i \in Instance : actor'[i] \notin {"spawned", "waiting", "running"}
    BY <1>4
  <2>4. \A g \in Group : \A k \in DOMAIN barriers[g] : FALSE
    BY <1>6, <1>7
  <2> QED BY <2>1, <2>2, <2>3, <2>4 DEF Unsynced, Commands, Instances, Fresh
<1>15. Gone(mode', instData', syncing', actor')
  BY <1>2, <1>4, <1>6 DEF Gone
<1>16. /\ StageFull(mode', version, written, answers', syncing', tasks')
       /\ AllData(working', mode', version, written, answers', syncing', tasks', spilledData', instData')
  BY <1>3 DEF StageFull, AllData
<1>17. PendingOK(written, instData', tasks', spilledData', tableData')
  BY <1>2, NothingPending
<1> QED BY <1>1, <1>2, <1>10, <1>12, <1>13, <1>14, <1>15, <1>16, <1>17, DataParts DEF DataOK

\* The instances outside of the tables T are left.
InstsOutside(ins, ins2, T) ==
  /\ \A i : i \in DOMAIN ins2 <=> i \in DOMAIN ins /\ TableOf[i] \notin T
  /\ \A i \in DOMAIN ins2 : ins2[i] = ins[i]

\* clear_tables in either state of the uploader.
LEMMA DatabaseCleared ==
  ASSUME NodeOK, NEW g \in Group, ClearTables(TablesOf[g])
  PROVE  /\ UNCHANGED <<working, answers>> /\ InstsOutside(instData, instData', TablesOf[g])
         /\ TablesOutside(tableData, tableData', TablesOf[g])
         /\ ClearedTo(tasks, tasks', spilledData, spilledData', syncing, syncing', TablesOf[g])
         /\ Separates(unsyncEpochs, TablesOf[g])
<1>1. TablesOf[g] # {}
  BY GroupAssumption
<1>2. \A u \in unsyncEpochs : \E h \in Group : u.tables # {} /\ u.tables \subseteq TablesOf[h]
  BY Parts DEF Epochs, EpochOf
<1>3. Separates(unsyncEpochs, TablesOf[g])
  BY <1>2, GroupAssumption DEF Separates
<1>4. CASE working
  <2>1. /\ tableData' = [t \in DOMAIN tableData \ TablesOf[g] |-> tableData[t]]
        /\ instData' = [i \in DOMAIN instData \ InstancesOf(TablesOf[g]) |-> instData[i]]
        /\ UNCHANGED <<working, answers>>
    BY <1>1, <1>4 DEF ClearTables
  <2>2. InstsOutside(instData, instData', TablesOf[g])
    BY <2>1 DEF InstsOutside, InstancesOf
  <2>3. TablesOutside(tableData, tableData', TablesOf[g])
    BY <2>1 DEF TablesOutside
  <2>4. ClearedTo(tasks, tasks', spilledData, spilledData', syncing, syncing', TablesOf[g])
    BY <1>1, <1>3, <1>4, Parts, Clears
  <2> QED BY <2>1, <2>2, <2>3, <2>4, <1>3
<1>5. CASE ~working
  <2>1. UNCHANGED <<working, instData, tableData, spilledData, tasks, syncing, answers>>
    BY <1>5 DEF ClearTables, uploaderVars
  <2>2. tasks = <<>> /\ syncing = <<>> /\ spilledData = {} /\ tableData = Empty /\ instData = Empty
    BY <1>5, Parts DEF Idle
  <2>3. DOMAIN tasks = {} /\ DOMAIN syncing = {} /\ DOMAIN tableData = {} /\ DOMAIN instData = {}
    BY <2>2, EmptySeq DEF Empty
  <2>4. \A x : ~IsSpill(x, tasks, spilledData)
    BY <2>2, NothingPending
  <2>5. \E h \in [DOMAIN syncing -> DOMAIN syncing] :
          /\ \A j, k \in DOMAIN syncing : j < k => h[j] < h[k]
          /\ \A k \in DOMAIN syncing : syncing[k] = syncing[h[k]]
    <3>1. [k \in DOMAIN syncing |-> k] \in [DOMAIN syncing -> DOMAIN syncing]
      OBVIOUS
    <3> QED BY <3>1, <2>3
  <2>6. ClearedTo(tasks, tasks', spilledData, spilledData', syncing, syncing', TablesOf[g])
    BY <2>1, <2>3, <2>4, <2>5 DEF ClearedTo
  <2> QED BY <2>1, <2>3, <2>6, <1>3 DEF InstsOutside, TablesOutside
<1> QED BY <1>4, <1>5, Parts

\* What a sync that is left holds.
LEMMA ClearedSync ==
  ASSUME NEW tk, NEW tk2, NEW sp, NEW sp2, NEW sy, NEW sy2, NEW T, ClearedTo(tk, tk2, sp, sp2, sy, sy2, T),
         NEW k \in DOMAIN sy2, NEW w
  PROVE  InSync(w, sy2[k], tk2) <=> InSync(w, sy2[k], tk)
<1>1. \A j \in DOMAIN tk2 : \E m \in DOMAIN tk : tk2[j] = tk[m]
  BY DEF ClearedTo
<1>2. \A j \in DOMAIN tk : tk[j].sync = sy2[k].id => \E m \in DOMAIN tk2 : tk2[m] = tk[j]
  BY DEF ClearedTo
<1> QED BY <1>1, <1>2 DEF InSync

\* The stages of all databases but g stay, and no stage is added.
OthersStay(g, ans, sy, sy2, tk, tk2) ==
  /\ AnswersOK(ans, sy2)
  /\ \A h, e : HasStage(h, e, ans, sy2) => HasStage(h, e, ans, sy)
  /\ \A w, h, e : InStage(w, h, e, ans, sy2, tk2) => InStage(w, h, e, ans, sy, tk)
  /\ \A h \in Group : h # g => /\ \A e : HasStage(h, e, ans, sy) => HasStage(h, e, ans, sy2)
                               /\ \A w, e : InStage(w, h, e, ans, sy, tk) => InStage(w, h, e, ans, sy2, tk2)

\* The answers and syncs after clear_tables: those of other databases stay as they are.
LEMMA ClearedStages ==
  ASSUME NEW ans, NEW tk, NEW tk2, NEW sp, NEW sp2, NEW sy, NEW sy2, NEW g \in Group, AnswersOK(ans, sy),
         ClearedTo(tk, tk2, sp, sp2, sy, sy2, TablesOf[g])
  PROVE  OthersStay(g, ans, sy, sy2, tk, tk2)
<1>1. IsSeq(ans) /\ Ordered(ans, sy) /\ Grouped(ans, sy)
  BY DEF AnswersOK
<1>2. PICK f \in [DOMAIN sy2 -> DOMAIN sy] :
           /\ \A j, k \in DOMAIN sy2 : j < k => f[j] < f[k]
           /\ \A k \in DOMAIN sy2 : sy2[k] = sy[f[k]]
  BY DEF ClearedTo
<1>3. \A k \in DOMAIN sy2 : f[k] \in DOMAIN sy /\ sy2[k] = sy[f[k]]
  BY <1>2
<1>4. Ordered(ans, sy2)
  BY <1>1, <1>2, <1>3 DEF Ordered
<1>5. Grouped(ans, sy2)
  BY <1>1, <1>3 DEF Grouped
<1>6. \A h, e : HasStage(h, e, ans, sy2) => HasStage(h, e, ans, sy)
  BY <1>3 DEF HasStage
<1>7. \A k \in DOMAIN sy2 : \A w : InSync(w, sy2[k], tk2) <=> InSync(w, sy2[k], tk)
  BY ClearedSync
<1>8. \A w, h, e : InStage(w, h, e, ans, sy2, tk2) => InStage(w, h, e, ans, sy, tk)
  BY <1>3, <1>7 DEF InStage
<1>9. ASSUME NEW h \in Group, h # g, NEW m \in DOMAIN sy, Of(sy[m], h) PROVE \E k \in DOMAIN sy2 : sy2[k] = sy[m]
  <2>1. sy[m].tables \cap TablesOf[g] = {}
    BY <1>9, GroupAssumption DEF Of
  <2> QED BY <2>1 DEF ClearedTo
<1>10. \A h \in Group : h # g => \A e : HasStage(h, e, ans, sy) => HasStage(h, e, ans, sy2)
  BY <1>9 DEF HasStage
<1>11. \A h \in Group : h # g => \A w, e : InStage(w, h, e, ans, sy, tk) => InStage(w, h, e, ans, sy2, tk2)
  BY <1>7, <1>9 DEF InStage
<1> QED BY <1>1, <1>4, <1>5, <1>6, <1>8, <1>10, <1>11 DEF AnswersOK, OthersStay

\* The table of an imm.
LEMMA TableOfImm ==
  ASSUME NEW w, NEW i, NEW d, InInst(w, i, d)
  PROVE  w.table = TableOf[i]
BY DEF InInst, InImms, Rec

\* What is pending after clear_tables.
LEMMA ClearedPending ==
  ASSUME NodeOK, DataOK, NEW g \in Group, ClearTables(TablesOf[g])
  PROVE  /\ PendingOK(written, instData', tasks', spilledData', tableData')
         /\ \A w : Pending(w, instData, tasks, spilledData) /\ w.table \notin TablesOf[g] => Pending(w, instData', tasks', spilledData')
         /\ \A t, e : HasEpoch(tableData, t, e) /\ t \notin TablesOf[g] => HasEpoch(tableData', t, e)
<1> DEFINE T == TablesOf[g]
<1>1. /\ InstsOutside(instData, instData', T) /\ TablesOutside(tableData, tableData', T)
      /\ ClearedTo(tasks, tasks', spilledData, spilledData', syncing, syncing', T) /\ Separates(unsyncEpochs, T)
  BY DatabaseCleared
<1> HIDE DEF T
<1>2. PendingOK(written, instData, tasks, spilledData, tableData)
  BY DataParts
<1>3. \A t, e : HasEpoch(tableData, t, e) /\ t \notin T => HasEpoch(tableData', t, e) /\ tableData'[t] = tableData[t]
  BY <1>1 DEF TablesOutside, HasEpoch
<1>4. ASSUME NEW x, IsSpill(x, tasks', spilledData') PROVE IsSpill(x, tasks, spilledData) /\ x.tables \cap T = {}
  BY <1>1, <1>4 DEF ClearedTo
<1>5. ASSUME NEW w, PendingInst(w, instData') PROVE PendingInst(w, instData) /\ w.table \notin T
  <2>1. PICK i \in DOMAIN instData' : InInst(w, i, instData'[i])
    BY <1>5 DEF PendingInst
  <2>2. i \in DOMAIN instData /\ TableOf[i] \notin T /\ instData'[i] = instData[i]
    BY <2>1, <1>1 DEF InstsOutside
  <2> QED BY <2>1, <2>2, TableOfImm DEF PendingInst
<1>6. ASSUME NEW x, NEW w, IsSpill(x, tasks', spilledData'), InInput(w, x.input)
      PROVE  /\ w.table \in x.tables /\ w.table \notin T /\ <<w.epoch, x.id>> \in tableData[w.table].spill
             /\ w \in written /\ HasEpoch(tableData, w.table, w.epoch)
  <2>1. IsSpill(x, tasks, spilledData) /\ x.tables \cap T = {}
    BY <1>4, <1>6
  <2>2. Pending(w, instData, tasks, spilledData)
    BY <2>1, <1>6 DEF Pending, PendingSpill
  <2> QED BY <2>1, <2>2, <1>2, <1>6 DEF PendingOK
<1>7. PendingOK(written, instData', tasks', spilledData', tableData')
  <2>1. ASSUME NEW w, Pending(w, instData', tasks', spilledData') PROVE w \in written /\ HasEpoch(tableData', w.table, w.epoch)
    <3>1. CASE PendingInst(w, instData')
      <4>1. w.table \notin T /\ Pending(w, instData, tasks, spilledData)
        BY <3>1, <1>5 DEF Pending
      <4> QED BY <4>1, <1>2, <1>3 DEF PendingOK
    <3>2. CASE PendingSpill(w, tasks', spilledData')
      BY <3>2, <1>3, <1>6 DEF PendingSpill
    <3> QED BY <3>1, <3>2, <2>1 DEF Pending
  <2>2. ASSUME NEW x, NEW w, IsSpill(x, tasks', spilledData'), InInput(w, x.input)
        PROVE  w.table \in x.tables /\ <<w.epoch, x.id>> \in tableData'[w.table].spill
    BY <2>2, <1>3, <1>6
  <2> QED BY <2>1, <2>2 DEF PendingOK
<1>8. ASSUME NEW w, Pending(w, instData, tasks, spilledData), w.table \notin T PROVE Pending(w, instData', tasks', spilledData')
  <2>1. CASE PendingInst(w, instData)
    <3>1. PICK i \in DOMAIN instData : InInst(w, i, instData[i])
      BY <2>1 DEF PendingInst
    <3>2. TableOf[i] \notin T
      BY <3>1, <1>8, TableOfImm
    <3>3. i \in DOMAIN instData' /\ instData'[i] = instData[i]
      BY <3>2, <1>1 DEF InstsOutside
    <3> QED BY <3>1, <3>3 DEF Pending, PendingInst
  <2>2. CASE PendingSpill(w, tasks, spilledData)
    <3>1. PICK x : IsSpill(x, tasks, spilledData) /\ InInput(w, x.input)
      BY <2>2 DEF PendingSpill
    <3>2. w.table \in x.tables
      BY <3>1, <1>2 DEF PendingOK
    <3>3. PICK u \in unsyncEpochs : SpillOf(x, u, tableData)
      BY <3>1, Parts DEF UploaderOK, SpillsKnown
    <3>4. x.tables \subseteq u.tables
      BY <3>3 DEF SpillOf
    <3>5. x.tables \cap T = {}
      BY <3>2, <3>4, <1>1, <1>8 DEF Separates
    <3>6. IsSpill(x, tasks', spilledData')
      BY <3>1, <3>5, <1>1 DEF ClearedTo
    <3> QED BY <3>1, <3>6 DEF Pending, PendingSpill
  <2> QED BY <2>1, <2>2, <1>8 DEF Pending
<1> QED BY <1>3, <1>7, <1>8 DEF T

\* SuspendedDatabaseState::reset.
LEMMA ResetData ==
  ASSUME NodeOK, DataOK, NEW g \in Group, ResetDatabase(g)
  PROVE  DataOK'
<1>1. /\ UNCHANGED <<tables, barriers, lastEpoch, command, version, written, nextImm>>
      /\ mode[g] = "suspended" /\ ClearTables(TablesOf[g]) /\ AwaitActors({g})
  BY DEF ResetDatabase
<1>2. /\ DOMAIN epoch' = Instance /\ mode'[g] = "cleared" /\ \A h \in Group : h # g => mode'[h] = mode[h]
      /\ actor' = [i \in Instance |-> IF GroupOf[i] = g THEN "none" ELSE actor[i]]
      /\ epoch' = [i \in Instance |-> IF GroupOf[i] = g THEN NoEpoch ELSE epoch[i]]
  BY <1>1 DEF AwaitActors
<1>3. /\ UNCHANGED <<working, answers>> /\ InstsOutside(instData, instData', TablesOf[g])
      /\ ClearedTo(tasks, tasks', spilledData, spilledData', syncing, syncing', TablesOf[g])
  BY <1>1, DatabaseCleared
<1>4. /\ PendingOK(written, instData', tasks', spilledData', tableData')
      /\ \A w : Pending(w, instData, tasks, spilledData) /\ w.table \notin TablesOf[g] => Pending(w, instData', tasks', spilledData')
      /\ \A t, e : HasEpoch(tableData, t, e) /\ t \notin TablesOf[g] => HasEpoch(tableData', t, e)
  BY <1>1, ClearedPending
<1>5. AnswersOK(answers, syncing)
  BY DataParts
<1>6. /\ AnswersOK(answers, syncing')
      /\ \A h, e : HasStage(h, e, answers, syncing') => HasStage(h, e, answers, syncing)
      /\ \A w, h, e : InStage(w, h, e, answers, syncing', tasks') => InStage(w, h, e, answers, syncing, tasks)
      /\ \A h \in Group : h # g =>
           /\ \A e : HasStage(h, e, answers, syncing) => HasStage(h, e, answers, syncing')
           /\ \A w, e : InStage(w, h, e, answers, syncing, tasks) => InStage(w, h, e, answers, syncing', tasks')
  <2>1. OthersStay(g, answers, syncing, syncing', tasks, tasks')
    BY <1>3, <1>5, ClearedStages
  <2> QED BY <2>1 DEF OthersStay
<1>7. Actors(actor, epoch, mode, barriers, lastEpoch, tables)
  BY DataParts
<1>8. barriers[g] = <<>> /\ DOMAIN barriers[g] = {}
  BY <1>1, Parts, EmptySeq DEF Chain, ChainOf
<1>9. ASSUME NEW i \in Instance
      PROVE  /\ actor'[i] # "none" => /\ actor'[i] = actor[i] /\ epoch'[i] = epoch[i] /\ GroupOf[i] # g
                                      /\ GroupOf[i] \in Group /\ TableOf[i] \in TablesOf[GroupOf[i]]
                                      /\ TableOf[i] \notin TablesOf[g]
             /\ TableOf[i] \in TablesOf[g] => actor'[i] = "none"
             /\ TableOf[i] \notin TablesOf[g] => actor'[i] = actor[i]
             /\ actor'[i] = "none" \/ actor'[i] = actor[i]
  <2>1. actor'[i] = (IF GroupOf[i] = g THEN "none" ELSE actor[i]) /\ epoch'[i] = IF GroupOf[i] = g THEN NoEpoch ELSE epoch[i]
    BY <1>2
  <2>2. actor[i] # "none" => GroupOf[i] \in Group /\ TableOf[i] \in TablesOf[GroupOf[i]]
    BY <1>7 DEF Actors
  <2>3. TableOf[i] \in TablesOf[g] => GroupOf[i] = g
    BY GroupIs
  <2> QED BY <2>1, <2>2, <2>3, OneGroup
<1>10. actor' \in [Instance -> ActorState]
  <2>1. \A i \in Instance : (IF GroupOf[i] = g THEN "none" ELSE actor[i]) \in ActorState
    BY <1>7 DEF Actors, ActorState
  <2> QED BY <1>2, <2>1
<1>11. \A i \in Instance : Live(actor'[i]) => actor'[i] # "none" /\ Live(actor[i])
  BY <1>9 DEF Live
<1>12. Actors(actor', epoch', mode', barriers, lastEpoch, tables)
  <2>1. ASSUME NEW i \in Instance, actor'[i] \in {"aborted", "dropping"} PROVE mode'[GroupOf[i]] = "suspended"
    BY <2>1, <1>2, <1>7, <1>9 DEF Actors
  <2>2. ASSUME NEW i \in Instance, Live(actor'[i])
        PROVE  /\ mode'[GroupOf[i]] = "running"
               /\ ActorOf(i, actor'[i], epoch'[i].curr, barriers[GroupOf[i]], lastEpoch[GroupOf[i]], tables[GroupOf[i]])
    <3>1. /\ actor'[i] = actor[i] /\ epoch'[i] = epoch[i] /\ GroupOf[i] # g /\ GroupOf[i] \in Group /\ Live(actor[i])
      BY <2>2, <1>9, <1>11
    <3> QED BY <3>1, <1>2, <1>7 DEF Actors
  <2> QED BY <2>1, <2>2, <1>2, <1>9, <1>10 DEF Actors
<1>13. ASSUME NEW h \in Group, mode'[h] = "running" PROVE h # g /\ mode[h] = "running"
  BY <1>2, <1>13
<1>14. \A i \in DOMAIN instData' : i \in DOMAIN instData /\ TableOf[i] \notin TablesOf[g] /\ instData'[i] = instData[i]
  BY <1>3 DEF InstsOutside
<1>15. \A i \in Instance : actor'[i] # "none" => actor[i] # "none"
  BY <1>9
<1>16. Commands(command, mode', barriers, actor') /\ Fresh(command, mode', instData')
  BY <1>13, <1>14, <1>15, DataParts DEF Commands, Fresh, Unchanged
<1>17. Unsynced(working', actor', epoch', barriers, tableData')
  <2> SUFFICES ASSUME working
               PROVE  /\ \A i \in Instance : actor'[i] \in {"spawned", "waiting", "running"} => HasEpoch(tableData', TableOf[i], epoch'[i].curr)
                      /\ \A h \in Group : \A k \in DOMAIN barriers[h] : \A i \in barriers[h][k].remaining \ barriers[h][k].stop :
                           HasEpoch(tableData', TableOf[i], barriers[h][k].curr)
    BY <1>3 DEF Unsynced
  <2>1. Unsynced(working, actor, epoch, barriers, tableData) /\ Forward(barriers)
    BY DataParts
  <2>2. ASSUME NEW i \in Instance, actor'[i] \in {"spawned", "waiting", "running"} PROVE HasEpoch(tableData', TableOf[i], epoch'[i].curr)
    <3>1. actor'[i] = actor[i] /\ epoch'[i] = epoch[i] /\ TableOf[i] \notin TablesOf[g]
      BY <2>2, <1>9
    <3> QED BY <3>1, <2>1, <2>2, <1>4 DEF Unsynced
  <2>3. ASSUME NEW h \in Group, NEW k \in DOMAIN barriers[h], NEW i \in barriers[h][k].remaining \ barriers[h][k].stop
        PROVE  HasEpoch(tableData', TableOf[i], barriers[h][k].curr)
    <3>1. h # g
      BY <2>3, <1>8
    <3>2. TableOf[i] \in TablesOf[h]
      BY <2>1, <2>3 DEF Forward
    <3>3. TableOf[i] \notin TablesOf[g]
      BY <3>1, <3>2, OneGroup
    <3> QED BY <3>3, <2>1, <2>3, <1>4 DEF Unsynced
  <2> QED BY <2>2, <2>3
<1>18. Instances(working', actor', epoch', instData')
  <2>1. ASSUME NEW i \in DOMAIN instData' PROVE i \in Instance /\ InstShape(instData'[i]) /\ InstanceOf(actor'[i], epoch'[i].curr, instData'[i])
    <3>1. i \in Instance /\ InstShape(instData[i]) /\ InstanceOf(actor[i], epoch[i].curr, instData[i]) /\ instData'[i] = instData[i]
      BY <2>1, <1>14, DataParts DEF Instances
    <3>2. actor'[i] = actor[i]
      BY <2>1, <3>1, <1>9, <1>14
    <3>3. actor[i] = "none" \/ epoch'[i] = epoch[i]
      BY <3>1, <3>2, <1>9
    <3> QED BY <3>1, <3>2, <3>3 DEF InstanceOf
  <2>2. ASSUME working, NEW i \in Instance, actor'[i] = "running" PROVE i \in DOMAIN instData'
    <3>1. actor[i] = "running" /\ TableOf[i] \notin TablesOf[g]
      BY <2>2, <1>9
    <3>2. i \in DOMAIN instData
      BY <2>2, <3>1, DataParts DEF Instances
    <3> QED BY <3>1, <3>2, <1>3 DEF InstsOutside
  <2> QED BY <2>1, <2>2, <1>3 DEF Instances
<1>19. Gone(mode', instData', syncing', actor')
  <2>1. Gone(mode, instData, syncing, actor)
    BY DataParts
  <2>2. \A k \in DOMAIN syncing' : syncing'[k].tables \cap TablesOf[g] = {} /\ \E m \in DOMAIN syncing : syncing'[k] = syncing[m]
    BY <1>3 DEF ClearedTo
  <2>3. ASSUME NEW h \in Group, mode'[h] = "cleared"
        PROVE  /\ \A i \in DOMAIN instData' : TableOf[i] \notin TablesOf[h]
               /\ \A k \in DOMAIN syncing' : syncing'[k].tables \cap TablesOf[h] = {}
               /\ \A i \in Instance : TableOf[i] \in TablesOf[h] => actor'[i] = "none"
    <3>1. CASE h = g
      BY <3>1, <2>2, <1>9, <1>14
    <3>2. CASE h # g
      <4>1. mode[h] = "cleared"
        BY <3>2, <2>3, <1>2
      <4> QED BY <4>1, <2>1, <2>2, <1>14, <1>15 DEF Gone
    <3> QED BY <3>1, <3>2
  <2> QED BY <2>3 DEF Gone
<1>20. Floors(mode', lastEpoch, barriers, actor', epoch', version, answers', syncing')
  <2>1. ASSUME NEW h \in Group, NEW e, Over(e, h, mode, lastEpoch, barriers[h], actor, epoch)
        PROVE  Over(e, h, mode', lastEpoch, barriers[h], actor', epoch')
    <3>1. \A i \in Instance : Live(actor'[i]) => Live(actor[i]) /\ epoch'[i] = epoch[i]
      BY <1>9, <1>11
    <3>2. mode'[h] = "running" => mode[h] = "running"
      BY <1>13
    <3> QED BY <2>1, <3>1, <3>2 DEF Over
  <2> QED BY <2>1, <1>3, <1>6, DataParts DEF Floors
<1>21. StageData(written, answers', syncing', tasks')
  BY <1>3, <1>6, DataParts DEF StageData
<1>22. StageFull(mode', version, written, answers', syncing', tasks')
  <2> SUFFICES ASSUME NEW h \in Group, mode'[h] = "running", NEW e, HasStage(h, e, answers, syncing'), NEW w \in written,
                      w.table \in TablesOf[h], version.epoch[h] < w.epoch, w.epoch <= e
               PROVE  \E f : f <= e /\ HasStage(h, f, answers, syncing') /\ InStage(w, h, f, answers, syncing', tasks')
    BY <1>3 DEF StageFull
  <2>1. h # g /\ mode[h] = "running" /\ HasStage(h, e, answers, syncing)
    BY <1>6, <1>13
  <2>2. PICK f : f <= e /\ HasStage(h, f, answers, syncing) /\ InStage(w, h, f, answers, syncing, tasks)
    BY <2>1, DataParts DEF StageFull
  <2> QED BY <2>1, <2>2, <1>6
<1>23. AllData(working', mode', version, written, answers', syncing', tasks', spilledData', instData')
  <2> SUFFICES ASSUME NEW h \in Group, working, mode'[h] = "running", NEW w \in written, w.table \in TablesOf[h]
               PROVE  \/ w.epoch <= version.epoch[h]
                      \/ Pending(w, instData', tasks', spilledData')
                      \/ \E e : HasStage(h, e, answers, syncing') /\ InStage(w, h, e, answers, syncing', tasks')
    BY <1>3 DEF AllData
  <2>1. h # g /\ mode[h] = "running" /\ w.table \notin TablesOf[g]
    BY <1>13, OneGroup
  <2>2. \/ w.epoch <= version.epoch[h]
        \/ Pending(w, instData, tasks, spilledData)
        \/ \E e : HasStage(h, e, answers, syncing) /\ InStage(w, h, e, answers, syncing, tasks)
    BY <2>1, DataParts DEF AllData
  <2> QED BY <2>1, <2>2, <1>4, <1>6
<1>24. AnswersOK(answers', syncing')
  BY <1>3, <1>6
<1> QED BY <1>1, <1>4, <1>12, <1>16, <1>17, <1>18, <1>19, <1>20, <1>21, <1>22, <1>23, <1>24, DataParts DEF DataOK

-----------------------------------------------------------------------------
\* Meta commits what a sync has answered

\* An answer is of one database.
LEMMA AnswersGroup ==
  ASSUME NEW a, a.tables # {}, NEW g \in Group, Of(a, g)
  PROVE  AnsweredGroup(a) = g /\ \A h \in Group : Of(a, h) => h = g
<1>1. ASSUME NEW h \in Group, a.tables \subseteq TablesOf[h] PROVE h = g
  BY <1>1, OneGroup DEF Of
<1>2. g \in Group /\ a.tables \subseteq TablesOf[g]
  BY DEF Of
<1> QED BY <1>1, <1>2 DEF AnsweredGroup, Of

\* The ids in the SSTs of an answer.
LEMMA ImmsAre ==
  ASSUME NEW a, NEW id
  PROVE  id \in ImmsOf(a) <=> \E w : InUploaded(w, a.uploaded) /\ w.id = id
<1>1. ASSUME id \in ImmsOf(a) PROVE \E w : InUploaded(w, a.uploaded) /\ w.id = id
  <2>1. PICK s \in Range(a.uploaded) : id \in UNION {Range(Ids(s[i])) : i \in DOMAIN s}
    BY <1>1 DEF ImmsOf
  <2>2. PICK k \in DOMAIN a.uploaded : s = a.uploaded[k]
    BY <2>1 DEF Range
  <2>3. PICK i \in DOMAIN s : id \in Range(Ids(s[i]))
    BY <2>1
  <2>4. PICK m \in DOMAIN s[i] : id = s[i][m].id
    BY <2>3 DEF Range, Ids
  <2>5. Rec(i, s[i][m]).id = id
    BY <2>4 DEF Rec
  <2>6. InUploaded(Rec(i, s[i][m]), a.uploaded)
    BY <2>2, <2>3, <2>4 DEF InUploaded, InInput, InImms
  <2> QED BY <2>5, <2>6
<1>2. ASSUME NEW w, InUploaded(w, a.uploaded), w.id = id PROVE id \in ImmsOf(a)
  <2>1. PICK k \in DOMAIN a.uploaded : InInput(w, a.uploaded[k])
    BY <1>2 DEF InUploaded
  <2> DEFINE s == a.uploaded[k]
  <2>2. PICK i \in DOMAIN s : InImms(w, i, s[i])
    BY <2>1 DEF InInput
  <2>3. PICK m \in DOMAIN s[i] : w = Rec(i, s[i][m])
    BY <2>2 DEF InImms
  <2>4. id = s[i][m].id
    BY <2>3, <1>2 DEF Rec
  <2>5. id \in Range(Ids(s[i]))
    BY <2>3, <2>4 DEF Range, Ids
  <2>6. s \in Range(a.uploaded)
    BY <2>1 DEF Range
  <2> HIDE DEF s
  <2> QED BY <2>2, <2>5, <2>6 DEF ImmsOf
<1> QED BY <1>1, <1>2

\* The stages of the first answer and of the ones after it.
AnswerIs(a, g) ==
  /\ a.tables # {} /\ Of(a, g) /\ a.epoch \in Nat /\ version.epoch[g] \in Nat /\ version.epoch[g] < a.epoch
  /\ Over(a.epoch, g, mode, lastEpoch, barriers[g], actor, epoch)
  /\ \A e : HasStage(g, e, Tail(answers), syncing) => a.epoch < e /\ e \in Nat
  /\ \A w : InUploaded(w, a.uploaded) => w \in written /\ w.table \in TablesOf[g] /\ w.epoch <= a.epoch /\ w.epoch \in Nat
  /\ mode[g] = "running" =>
       \A w \in written : w.table \in TablesOf[g] /\ version.epoch[g] < w.epoch /\ w.epoch <= a.epoch
                          => InUploaded(w, a.uploaded)

\* The first answer holds all that was written since the last commit, up to its epoch.
LEMMA AnswerHolds ==
  ASSUME NodeOK, DataOK, answers # <<>>, answers[1].ok
  PROVE  \E g \in Group : AnswerIs(answers[1], g)
<1> DEFINE a == answers[1]
<1>1. AnswersOK(answers, syncing)
  BY DataParts
<1>2. IsSeq(answers) /\ Grouped(answers, syncing) /\ 1 \in DOMAIN answers
  BY <1>1, NonEmptySeq DEF AnswersOK
<1>3. PICK g \in Group : Of(a, g)
  BY <1>2 DEF Grouped
<1>4. a.tables # {} /\ a.epoch \in Nat
  BY <1>2 DEF Grouped
<1>5. Answered(a, g, a.epoch) /\ HasStage(g, a.epoch, answers, syncing)
  BY <1>2, <1>3 DEF HasStage, Answered
<1>6. /\ \A h, e : HasStage(h, e, answers, syncing) <=> HasStage(h, e, Tail(answers), syncing) \/ Answered(a, h, e)
      /\ \A w, h, e : InStage(w, h, e, answers, syncing, tasks)
                      <=> InStage(w, h, e, Tail(answers), syncing, tasks) \/ (Answered(a, h, e) /\ InUploaded(w, a.uploaded))
      /\ \A h \in Group : \A e : a.ok /\ Of(a, h) /\ HasStage(h, e, Tail(answers), syncing) => a.epoch < e
  BY <1>1, AnswerTaken
<1> HIDE DEF a
<1>7. Floors(mode, lastEpoch, barriers, actor, epoch, version, answers, syncing)
  BY DataParts
<1>8. /\ version.epoch[g] \in Nat /\ version.epoch[g] < a.epoch
      /\ Over(a.epoch, g, mode, lastEpoch, barriers[g], actor, epoch)
      /\ \A e : HasStage(g, e, answers, syncing) => e \in Nat
  BY <1>5, <1>7 DEF Floors, Over
<1>9. \A e : HasStage(g, e, Tail(answers), syncing) => a.epoch < e /\ e \in Nat
  BY <1>3, <1>6, <1>8 DEF a
<1>10. ASSUME NEW w, InUploaded(w, a.uploaded)
       PROVE  w \in written /\ w.table \in TablesOf[g] /\ w.epoch <= a.epoch /\ w.epoch \in Nat
  <2>1. InStage(w, g, a.epoch, answers, syncing, tasks)
    BY <1>5, <1>6, <1>10
  <2>2. w \in written /\ w.table \in TablesOf[g] /\ w.epoch <= a.epoch
    BY <2>1, DataParts DEF StageData
  <2> QED BY <2>2, DataParts DEF Durability
<1>11. ASSUME mode[g] = "running", NEW w \in written, w.table \in TablesOf[g], version.epoch[g] < w.epoch, w.epoch <= a.epoch
       PROVE  InUploaded(w, a.uploaded)
  <2>1. PICK f : f <= a.epoch /\ HasStage(g, f, answers, syncing) /\ InStage(w, g, f, answers, syncing, tasks)
    BY <1>5, <1>11, DataParts DEF StageFull
  <2>2. ~InStage(w, g, f, Tail(answers), syncing, tasks)
    <3>1. SUFFICES ASSUME InStage(w, g, f, Tail(answers), syncing, tasks) PROVE FALSE
      OBVIOUS
    <3>2. a.epoch < f /\ f \in Nat
      BY <3>1, StageOf, <1>9
    <3> QED BY <3>2, <2>1, <1>4
  <2> QED BY <2>1, <2>2, <1>6
<1> QED BY <1>3, <1>4, <1>8, <1>9, <1>10, <1>11 DEF AnswerIs, a

\* What TakeSynced changes of the versions and the answers.
TakenBy(g) ==
  /\ g \in Group /\ answers # <<>> /\ answers[1].ok /\ AnswerIs(answers[1], g) /\ answers' = Tail(answers)
  /\ UNCHANGED <<working, instData, tableData, spilledData, tasks, syncing>>
  /\ UNCHANGED <<mode, tables, barriers, lastEpoch, command, actor, epoch, written, nextImm>>
  /\ IF mode[g] # "running" THEN version' = version
     ELSE version' = [epoch |-> Put(version.epoch, g, answers[1].epoch), data |-> version.data \cup ImmsOf(answers[1])]

\* TakeSynced takes the answer of one database.
LEMMA TakenIs ==
  ASSUME NodeOK, DataOK, TakeSynced
  PROVE  \E g \in Group : TakenBy(g)
<1>1. AnswersOK(answers, syncing) /\ answers # <<>>
  BY DataParts DEF TakeSynced
<1>2. Head(answers) = answers[1]
  BY <1>1, AnswerTaken
<1>3. answers[1].ok
  BY <1>2 DEF TakeSynced
<1>4. PICK g \in Group : AnswerIs(answers[1], g)
  BY <1>1, <1>3, AnswerHolds
<1>5. AnsweredGroup(answers[1]) = g
  BY <1>4, AnswersGroup DEF AnswerIs
<1>6. /\ answers' = Tail(answers) /\ UNCHANGED <<working, instData, tableData, spilledData, tasks, syncing>>
      /\ UNCHANGED <<mode, tables, barriers, lastEpoch, command, actor, epoch, written, nextImm>>
  BY DEF TakeSynced
<1>7. version' = IF mode[AnsweredGroup(answers[1])] # "running" THEN version
                 ELSE [epoch |-> Put(version.epoch, AnsweredGroup(answers[1]), answers[1].epoch),
                       data |-> version.data \cup ImmsOf(answers[1])]
  BY <1>2 DEF TakeSynced, Put
<1>8. IF mode[g] # "running" THEN version' = version
      ELSE version' = [epoch |-> Put(version.epoch, g, answers[1].epoch), data |-> version.data \cup ImmsOf(answers[1])]
  BY <1>5, <1>7
<1> QED BY <1>1, <1>3, <1>4, <1>6, <1>8 DEF TakenBy

\* What is committed.
CommittedTo(g, a) ==
  /\ version' = [epoch |-> version'.epoch, data |-> version'.data] /\ version'.epoch \in [Group -> Nat]
  /\ \A h \in Group : version'.epoch[h] = IF h = g /\ mode[g] = "running" THEN a.epoch ELSE version.epoch[h]
  /\ \A id : id \in version'.data <=>
       id \in version.data \/ (mode[g] = "running" /\ \E w : InUploaded(w, a.uploaded) /\ w.id = id)

\* The epoch of one database moves, and the data of the answer joins.
LEMMA CommitMoves ==
  ASSUME NodeOK, DataOK, NEW g, TakenBy(g)
  PROVE  CommittedTo(g, answers[1])
<1> DEFINE a == answers[1]
<1>1. g \in Group /\ a.epoch \in Nat
  BY DEF TakenBy, AnswerIs
<1>2. version = [epoch |-> version.epoch, data |-> version.data] /\ version.epoch \in [Group -> Nat]
  BY DataParts DEF Durability
<1>3. CASE mode[g] # "running"
  <2>1. version' = version
    BY <1>3 DEF TakenBy
  <2> QED BY <2>1, <1>2, <1>3 DEF CommittedTo
<1>4. CASE mode[g] = "running"
  <2> DEFINE E == Put(version.epoch, g, a.epoch)
             D == version.data \cup ImmsOf(a)
  <2>1. version' = [epoch |-> E, data |-> D]
    BY <1>4 DEF TakenBy
  <2>2. E \in [Group -> Nat] /\ \A h \in Group : E[h] = IF h = g THEN a.epoch ELSE version.epoch[h]
    BY <1>1, <1>2 DEF Put
  <2>3. \A id : id \in D <=> id \in version.data \/ \E w : InUploaded(w, a.uploaded) /\ w.id = id
    BY ImmsAre
  <2> HIDE DEF E, D
  <2>4. version'.epoch = E /\ version'.data = D
    BY <2>1
  <2> QED BY <2>1, <2>2, <2>3, <2>4, <1>4 DEF CommittedTo
<1> QED BY <1>3, <1>4

\* The new version is durable: all that was written up to its epochs, and nothing newer.
LEMMA CommitDurable ==
  ASSUME NodeOK, DataOK, NEW g, TakenBy(g)
  PROVE  Durability(written, version', nextImm)
<1> DEFINE a == answers[1]
<1>1. g \in Group /\ AnswerIs(a, g)
  BY DEF TakenBy
<1>2. CommittedTo(g, a) /\ Durability(written, version, nextImm)
  BY CommitMoves, DataParts
<1> HIDE DEF a
<1>3. \A w : InUploaded(w, a.uploaded) => w \in written /\ w.table \in TablesOf[g] /\ w.epoch <= a.epoch
  BY <1>1 DEF AnswerIs
<1>4. \A id \in version'.data : id \in Nat /\ id < nextImm
  BY <1>2, <1>3 DEF CommittedTo, Durability
<1>5. ASSUME NEW w \in written, NEW h \in Group, w.table \in TablesOf[h]
      PROVE  w.id \in version'.data <=> w.epoch <= version'.epoch[h]
  <2>1. (w.id \in version.data <=> w.epoch <= version.epoch[h]) /\ w.epoch \in Nat /\ version.epoch[h] \in Nat
    BY <1>2, <1>5 DEF Durability
  <2>2. ASSUME NEW x, InUploaded(x, a.uploaded), x.id = w.id PROVE x = w
    BY <2>2, <1>2, <1>3 DEF Durability
  <2>3. CASE h = g /\ mode[g] = "running"
    <3>1. version'.epoch[h] = a.epoch /\ a.epoch \in Nat /\ version.epoch[h] < a.epoch
      BY <2>3, <1>1, <1>2 DEF CommittedTo, AnswerIs
    <3>2. ASSUME w.epoch <= a.epoch, ~(w.epoch <= version.epoch[h]) PROVE InUploaded(w, a.uploaded)
      <4>1. version.epoch[g] < w.epoch
        BY <3>2, <2>1, <2>3
      <4> QED BY <4>1, <3>2, <2>3, <1>1, <1>5 DEF AnswerIs
    <3>3. w.id \in version'.data <=> w.id \in version.data \/ \E x : InUploaded(x, a.uploaded) /\ x.id = w.id
      BY <1>2, <2>3 DEF CommittedTo
    <3>4. w.id \in version'.data => w.epoch <= a.epoch
      BY <3>1, <3>3, <2>1, <2>2, <1>3
    <3>5. w.epoch <= a.epoch => w.id \in version'.data
      BY <3>2, <3>3, <2>1
    <3> QED BY <3>1, <3>4, <3>5
  <2>4. CASE ~(h = g /\ mode[g] = "running")
    <3>1. version'.epoch[h] = version.epoch[h]
      BY <2>4, <1>2 DEF CommittedTo
    <3>2. ASSUME mode[g] = "running", NEW x, InUploaded(x, a.uploaded), x.id = w.id PROVE FALSE
      BY <3>2, <2>2, <2>4, <1>1, <1>3, <1>5, OneGroup
    <3>3. w.id \in version'.data <=> w.id \in version.data
      BY <3>2, <1>2 DEF CommittedTo
    <3> QED BY <3>1, <3>3, <2>1
  <2> QED BY <2>3, <2>4
<1> QED BY <1>2, <1>4, <1>5 DEF Durability, CommittedTo

\* TakeSynced.
LEMMA SyncedData ==
  ASSUME NodeOK, DataOK, TakeSynced
  PROVE  DataOK'
<1>1. PICK g \in Group : TakenBy(g)
  BY TakenIs
<1> DEFINE a == answers[1]
           r == Tail(answers)
<1>2. /\ answers' = r /\ UNCHANGED <<working, instData, tableData, spilledData, tasks, syncing>>
      /\ UNCHANGED <<mode, tables, barriers, lastEpoch, command, actor, epoch, written, nextImm>>
      /\ AnswerIs(a, g) /\ answers # <<>> /\ a.ok
  BY <1>1 DEF TakenBy
<1>3. CommittedTo(g, a) /\ Durability(written, version', nextImm)
  BY <1>1, CommitMoves, CommitDurable
<1>4. AnswersOK(answers, syncing)
  BY DataParts
<1>5. /\ AnswersOK(r, syncing)
      /\ \A h, e : HasStage(h, e, answers, syncing) <=> HasStage(h, e, r, syncing) \/ Answered(a, h, e)
      /\ \A w, h, e : InStage(w, h, e, answers, syncing, tasks)
                      <=> InStage(w, h, e, r, syncing, tasks) \/ (Answered(a, h, e) /\ InUploaded(w, a.uploaded))
  BY <1>2, <1>4, AnswerTaken
<1>6. \A e : HasStage(g, e, r, syncing) => a.epoch < e /\ e \in Nat
  BY <1>2 DEF AnswerIs
<1> HIDE DEF a, r
<1>7. ASSUME NEW h \in Group, h # g, NEW e PROVE ~Answered(a, h, e)
  BY <1>2, <1>7, AnswersGroup DEF AnswerIs, Answered
<1>8. ASSUME NEW h \in Group, h = g => mode[g] # "running" PROVE version'.epoch[h] = version.epoch[h]
  BY <1>3, <1>8 DEF CommittedTo
<1>9. mode[g] = "running" => version'.epoch[g] = a.epoch
  BY <1>3 DEF CommittedTo
<1>10. a.epoch \in Nat /\ version.epoch[g] \in Nat /\ version.epoch[g] < a.epoch
  BY <1>2 DEF AnswerIs
<1>11. Floors(mode, lastEpoch, barriers, actor, epoch, version', r, syncing)
  <2> SUFFICES ASSUME NEW h \in Group
               PROVE  /\ Over(version'.epoch[h], h, mode, lastEpoch, barriers[h], actor, epoch)
                      /\ \A e : HasStage(h, e, r, syncing) =>
                           version'.epoch[h] < e /\ Over(e, h, mode, lastEpoch, barriers[h], actor, epoch)
    BY DEF Floors
  <2>1. /\ Over(version.epoch[h], h, mode, lastEpoch, barriers[h], actor, epoch)
        /\ \A e : HasStage(h, e, r, syncing) =>
             version.epoch[h] < e /\ Over(e, h, mode, lastEpoch, barriers[h], actor, epoch)
    BY <1>5, DataParts DEF Floors
  <2>2. CASE h = g /\ mode[g] = "running"
    BY <2>1, <2>2, <1>2, <1>6, <1>9 DEF AnswerIs
  <2>3. CASE ~(h = g /\ mode[g] = "running")
    BY <2>1, <2>3, <1>8
  <2> QED BY <2>2, <2>3
<1>12. StageData(written, r, syncing, tasks)
  BY <1>5, DataParts DEF StageData
<1>13. StageFull(mode, version', written, r, syncing, tasks)
  <2> SUFFICES ASSUME NEW h \in Group, mode[h] = "running", NEW e, HasStage(h, e, r, syncing), NEW w \in written,
                      w.table \in TablesOf[h], version'.epoch[h] < w.epoch, w.epoch <= e
               PROVE  \E f : f <= e /\ HasStage(h, f, r, syncing) /\ InStage(w, h, f, r, syncing, tasks)
    BY DEF StageFull
  <2>1. w.epoch \in Nat /\ HasStage(h, e, answers, syncing)
    BY <1>5, DataParts DEF Durability
  <2>2. version.epoch[h] < w.epoch
    BY <2>1, <1>8, <1>9, <1>10
  <2>3. PICK f : f <= e /\ InStage(w, h, f, answers, syncing, tasks)
    BY <2>1, <2>2, DataParts DEF StageFull
  <2>4. ~(Answered(a, h, f) /\ InUploaded(w, a.uploaded))
    <3>1. SUFFICES ASSUME Answered(a, h, f), InUploaded(w, a.uploaded) PROVE FALSE
      OBVIOUS
    <3>2. h = g
      BY <3>1, <1>7
    <3>3. w.epoch <= a.epoch
      BY <3>1, <1>2 DEF AnswerIs
    <3> QED BY <3>2, <3>3, <1>9, <1>10, <2>1
  <2>5. InStage(w, h, f, r, syncing, tasks)
    BY <2>3, <2>4, <1>5
  <2> QED BY <2>3, <2>5, StageOf
<1>14. AllData(working, mode, version', written, r, syncing, tasks, spilledData, instData)
  <2> SUFFICES ASSUME NEW h \in Group, working, mode[h] = "running", NEW w \in written, w.table \in TablesOf[h]
               PROVE  \/ w.epoch <= version'.epoch[h]
                      \/ Pending(w, instData, tasks, spilledData)
                      \/ \E e : HasStage(h, e, r, syncing) /\ InStage(w, h, e, r, syncing, tasks)
    BY DEF AllData
  <2>1. w.epoch \in Nat
    BY DataParts DEF Durability
  <2>2. \/ w.epoch <= version.epoch[h]
        \/ Pending(w, instData, tasks, spilledData)
        \/ \E e : HasStage(h, e, answers, syncing) /\ InStage(w, h, e, answers, syncing, tasks)
    BY DataParts DEF AllData
  <2>3. CASE w.epoch <= version.epoch[h]
    BY <2>1, <2>3, <1>8, <1>9, <1>10
  <2>4. ASSUME NEW e, InStage(w, h, e, answers, syncing, tasks)
        PROVE  w.epoch <= version'.epoch[h] \/ InStage(w, h, e, r, syncing, tasks)
    <3>1. CASE Answered(a, h, e) /\ InUploaded(w, a.uploaded)
      <4>1. h = g
        BY <3>1, <1>7
      <4>2. w.epoch <= a.epoch
        BY <3>1, <1>2 DEF AnswerIs
      <4> QED BY <4>1, <4>2, <1>9
    <3> QED BY <3>1, <2>4, <1>5
  <2> QED BY <2>2, <2>3, <2>4, StageOf
<1> QED BY <1>2, <1>3, <1>5, <1>11, <1>12, <1>13, <1>14, DataParts DEF DataOK

-----------------------------------------------------------------------------
\* A barrier completes

\* The first barrier of g leaves.
PopStep(g, br2) ==
  /\ g \in Group /\ mode[g] = "running" /\ barriers[g] # <<>> /\ barriers[g][1].remaining = {}
  /\ br2 = Popped(barriers, g)

\* The barriers that stay, and the epochs below all of them.
LEMMA PopFacts ==
  ASSUME NodeOK, DataOK, NEW g, NEW br2, PopStep(g, br2)
  PROVE  /\ \A h \in Group : h # g => br2[h] = barriers[h]
         /\ br2[g] = Tail(barriers[g]) /\ 1 \in DOMAIN barriers[g]
         /\ \A h \in Group : \A k \in DOMAIN br2[h] : \E m \in DOMAIN barriers[h] : br2[h][k] = barriers[h][m] /\ (h = g => 1 < m)
         /\ \A h \in Group : \A e : Over(e, h, mode, lastEpoch, barriers[h], actor, epoch) => Over(e, h, mode, lastEpoch, br2[h], actor, epoch)
<1>1. g \in Group /\ barriers[g] # <<>> /\ IsSeq(barriers[g]) /\ DOMAIN barriers = Group
  BY Parts, QueueFacts DEF PopStep, Chain
<1>2. /\ \A h \in Group : h # g => br2[h] = barriers[h]
      /\ br2[g] = Tail(barriers[g])
  BY <1>1 DEF PopStep, Popped
<1> DEFINE q == barriers[g]
<1>3. /\ IsSeq(Tail(q)) /\ Len(Tail(q)) = Len(q) - 1 /\ Len(q) \in Nat /\ Len(q) > 0
      /\ \A k \in 1..Len(Tail(q)) : Tail(q)[k] = q[k + 1] /\ k + 1 \in 1..Len(q)
  BY <1>1, SeqTail
<1>4. DOMAIN q = 1..Len(q) /\ DOMAIN Tail(q) = 1..Len(Tail(q))
  BY <1>1, <1>3, SeqDomain
<1>5. 1 \in DOMAIN q /\ \A k \in DOMAIN Tail(q) : k + 1 \in DOMAIN q /\ 1 < k + 1 /\ Tail(q)[k] = q[k + 1]
  BY <1>3, <1>4
<1> HIDE DEF q
<1>6. ASSUME NEW h \in Group, NEW k \in DOMAIN br2[h]
      PROVE  \E m \in DOMAIN barriers[h] : br2[h][k] = barriers[h][m] /\ (h = g => 1 < m)
  <2>1. CASE h = g
    <3>1. k \in DOMAIN Tail(q) /\ br2[h][k] = Tail(q)[k]
      BY <2>1, <1>2, <1>6 DEF q
    <3>2. k + 1 \in DOMAIN barriers[h] /\ 1 < k + 1 /\ br2[h][k] = barriers[h][k + 1]
      BY <3>1, <2>1, <1>5 DEF q
    <3> QED BY <3>2
  <2>2. CASE h # g
    BY <2>2, <1>2, <1>6
  <2> QED BY <2>1, <2>2
<1>7. ASSUME NEW h \in Group, NEW e, Over(e, h, mode, lastEpoch, barriers[h], actor, epoch)
      PROVE  Over(e, h, mode, lastEpoch, br2[h], actor, epoch)
  BY <1>6, <1>7 DEF Over
<1> QED BY <1>2, <1>5, <1>6, <1>7 DEF q

\* The parts of the invariant about the actors and their barriers.
LEMMA PopData ==
  ASSUME NodeOK, DataOK, NEW g, NEW br2, PopStep(g, br2)
  PROVE  /\ Actors(actor, epoch, mode, br2, lastEpoch, tables)
         /\ Forward(br2) /\ Commands(command, mode, br2, actor)
         /\ Unsynced(working, actor, epoch, br2, tableData)
         /\ \A i \in Instance : Live(actor[i]) /\ GroupOf[i] = g => barriers[g][1].curr <= epoch[i].curr
<1>1. /\ \A h \in Group : h # g => br2[h] = barriers[h]
      /\ br2[g] = Tail(barriers[g]) /\ 1 \in DOMAIN barriers[g]
      /\ \A h \in Group : \A k \in DOMAIN br2[h] : \E m \in DOMAIN barriers[h] : br2[h][k] = barriers[h][m]
  BY PopFacts
<1>2. g \in Group /\ barriers[g] # <<>> /\ barriers[g][1].remaining = {}
  BY DEF PopStep
<1>3. Actors(actor, epoch, mode, barriers, lastEpoch, tables)
  BY DataParts
<1>4. ASSUME NEW i \in Instance, Live(actor[i])
      PROVE  /\ ActorOf(i, actor[i], epoch[i].curr, br2[GroupOf[i]], lastEpoch[GroupOf[i]], tables[GroupOf[i]])
             /\ GroupOf[i] = g => barriers[g][1].curr <= epoch[i].curr
  <2>1. GroupOf[i] \in Group /\ ActorOf(i, actor[i], epoch[i].curr, barriers[GroupOf[i]], lastEpoch[GroupOf[i]], tables[GroupOf[i]])
    BY <1>4, LiveActor
  <2>2. CASE GroupOf[i] = g
    <3> DEFINE q == barriers[g]
               x == lastEpoch[g]
               y == tables[g]
               z == actor[i]
               e == epoch[i].curr
    <3>1. IsSeq(q) /\ q # <<>> /\ q[1].remaining = {} /\ ActorOf(i, z, e, q, x, y) /\ q[1].curr \in Nat
      BY <2>1, <2>2, <1>1, <1>2, QueueFacts
    <3> HIDE DEF q, x, y, z, e
    <3>2. ActorOf(i, z, e, Tail(q), x, y) /\ q[1].curr <= e
      BY <3>1, ActorPopped
    <3> QED BY <3>2, <2>2, <1>1 DEF q, x, y, z, e
  <2>3. CASE GroupOf[i] # g
    BY <2>1, <2>3, <1>1
  <2> QED BY <2>2, <2>3
<1>5. Actors(actor, epoch, mode, br2, lastEpoch, tables)
  BY <1>3, <1>4 DEF Actors
<1>6. Forward(br2)
  BY <1>1, DataParts DEF Forward
<1>7. Commands(command, mode, br2, actor)
  BY <1>1, DataParts DEF Commands
<1>8. Unsynced(working, actor, epoch, br2, tableData)
  BY <1>1, DataParts DEF Unsynced
<1> QED BY <1>4, <1>5, <1>6, <1>7, <1>8

\* The epoch that a checkpoint syncs is behind everything that is written from now on.
LEMMA CheckpointOver ==
  ASSUME NodeOK, DataOK, NEW g, NEW br2, PopStep(g, br2), barriers[g][1].kind = "checkpoint"
  PROVE  /\ Over(barriers[g][1].prev, g, mode, lastEpoch, br2[g], actor, epoch)
         /\ barriers[g][1].prev \in Nat /\ barriers[g][1].sync # {} /\ barriers[g][1].sync \subseteq TablesOf[g]
<1> DEFINE b == barriers[g][1]
<1>1. /\ 1 \in DOMAIN barriers[g] /\ g \in Group
      /\ \A k \in DOMAIN br2[g] : \E m \in DOMAIN barriers[g] : br2[g][k] = barriers[g][m] /\ 1 < m
  BY PopFacts DEF PopStep
<1>2. /\ b.prev \in Nat /\ b.curr \in Nat /\ b.prev < b.curr /\ b.curr <= lastEpoch[g] /\ lastEpoch[g] \in Nat
      /\ \A m \in DOMAIN barriers[g] : 1 < m => b.curr <= barriers[g][m].prev
      /\ \A m \in DOMAIN barriers[g] : barriers[g][m].prev \in Nat /\ barriers[g][m].curr \in Nat /\ barriers[g][m].prev < barriers[g][m].curr
  BY <1>1, QueueFacts
<1>3. b.sync # {} /\ b.sync \subseteq TablesOf[g]
  BY <1>1, Parts DEF Chain, ChainOf
<1>4. \A i \in Instance : Live(actor[i]) /\ GroupOf[i] = g => b.curr <= epoch[i].curr /\ epoch[i].curr \in Nat
  BY PopData, LiveActor
<1> HIDE DEF b
<1>5. \A k \in DOMAIN br2[g] : b.prev < br2[g][k].curr /\ b.prev < br2[g][k].prev
  BY <1>1, <1>2
<1>6. \A i \in Instance : Live(actor[i]) /\ GroupOf[i] = g => b.prev < epoch[i].curr
  BY <1>2, <1>4
<1>7. b.prev <= lastEpoch[g] /\ b.prev < lastEpoch[g]
  BY <1>2
<1>8. Over(b.prev, g, mode, lastEpoch, br2[g], actor, epoch)
  BY <1>2, <1>5, <1>6, <1>7 DEF Over
<1> QED BY <1>2, <1>3, <1>8 DEF b

\* What completes a barrier.
LEMMA CompleteIs ==
  ASSUME NodeOK, NEW g \in Group, CompleteBarrier(g)
  PROVE  /\ PopStep(g, barriers')
         /\ UNCHANGED <<mode, tables, lastEpoch, command, actor, epoch, version, written, nextImm>>
         /\ IF barriers[g][1].kind = "checkpoint" THEN StartSyncEpoch(barriers[g][1].prev, barriers[g][1].sync)
            ELSE UNCHANGED uploaderVars
<1>1. PICK b \in NextCollected(g) :
        IF b.kind = "checkpoint" THEN StartSyncEpoch(b.prev, b.sync) ELSE UNCHANGED uploaderVars
  BY DEF CompleteBarrier
<1>2. b = barriers[g][1] /\ 1 \in DOMAIN barriers[g] /\ b.remaining = {}
  BY <1>1 DEF NextCollected
<1>3. barriers[g] # <<>>
  BY <1>2, EmptySeq
<1>4. mode[g] = "running" /\ barriers' = Popped(barriers, g)
  BY DEF CompleteBarrier, Popped
<1>5. UNCHANGED <<mode, tables, lastEpoch, command, actor, epoch, version, written, nextImm>>
  BY DEF CompleteBarrier
<1> QED BY <1>1, <1>2, <1>3, <1>4, <1>5 DEF PopStep

\* A barrier that is no checkpoint, or the uploader has failed.
LEMMA CompleteIdle ==
  ASSUME NodeOK, DataOK, NEW g \in Group, CompleteBarrier(g), barriers[g][1].kind # "checkpoint" \/ ~working
  PROVE  DataOK'
<1>1. /\ PopStep(g, barriers')
      /\ UNCHANGED <<mode, tables, lastEpoch, command, actor, epoch, version, written, nextImm>>
      /\ IF barriers[g][1].kind = "checkpoint" THEN StartSyncEpoch(barriers[g][1].prev, barriers[g][1].sync)
         ELSE UNCHANGED uploaderVars
  BY CompleteIs
<1>2. /\ Actors(actor, epoch, mode, barriers', lastEpoch, tables)
      /\ Forward(barriers') /\ Commands(command, mode, barriers', actor)
      /\ Unsynced(working, actor, epoch, barriers', tableData)
  BY <1>1, PopData
<1>3. \A h \in Group : \A e : Over(e, h, mode, lastEpoch, barriers[h], actor, epoch) => Over(e, h, mode, lastEpoch, barriers'[h], actor, epoch)
  BY <1>1, PopFacts
<1>4. \A ans, sy : Floors(mode, lastEpoch, barriers, actor, epoch, version, ans, sy)
                   => Floors(mode, lastEpoch, barriers', actor, epoch, version, ans, sy)
  BY <1>3 DEF Floors
<1>5. CASE barriers[g][1].kind # "checkpoint"
  <2>1. UNCHANGED <<working, instData, tableData, spilledData, tasks, syncing, answers>>
    BY <1>1, <1>5 DEF uploaderVars
  <2>2. Floors(mode, lastEpoch, barriers', actor, epoch, version, answers, syncing)
    BY <1>4, DataParts
  <2> QED BY <1>1, <1>2, <2>1, <2>2, DataParts DEF DataOK
<1>6. CASE barriers[g][1].kind = "checkpoint" /\ ~working
  <2> DEFINE s == [tables |-> barriers[g][1].sync, epoch |-> barriers[g][1].prev]
             x == ErrorAnswer(s)
  <2>1. UNCHANGED <<working, instData, tableData, spilledData, tasks, syncing>> /\ answers' = Append(answers, x)
    BY <1>1, <1>6 DEF StartSyncEpoch
  <2>2. tasks = <<>> /\ syncing = <<>>
    BY <1>6, Parts DEF Idle
  <2>3. s.tables = barriers[g][1].sync /\ s.epoch = barriers[g][1].prev
    OBVIOUS
  <2> HIDE DEF s
  <2>4. ~x.ok /\ x.ok \in BOOLEAN /\ x.tables = s.tables /\ x.epoch = s.epoch
    BY ErrorIs
  <2> HIDE DEF x
  <2>5. s.tables # {} /\ s.tables \subseteq TablesOf[g] /\ s.epoch \in Nat
    BY <2>3, <1>1, <1>6, CheckpointOver
  <2>6. IsError(x)
    BY <2>4, <2>5 DEF IsError, Of
  <2>7. IsSeq(<<x>>) /\ \A k \in DOMAIN <<x>> : IsError(<<x>>[k])
    <3>1. <<x>> \in Seq({x}) /\ DOMAIN <<x>> = {1} /\ <<x>>[1] = x
      OBVIOUS
    <3> QED BY <3>1, <2>6 DEF IsSeq
  <2>8. IsSeq(answers)
    BY DataParts DEF AnswersOK
  <2>9. answers' = answers \o <<x>>
    BY <2>1, <2>8, SeqAppend
  <2>10. ErrorsAdded(answers, answers')
    BY <2>7, <2>8, <2>9, ErrorsBehind
  <2>11. /\ AnswersOK(answers', <<>>) /\ StageData(written, answers', <<>>, <<>>)
         /\ StageFull(mode, version, written, answers', <<>>, <<>>)
         /\ Floors(mode, lastEpoch, barriers, actor, epoch, version, answers', <<>>)
    BY <2>10, ErrorsData
  <2>12. Floors(mode, lastEpoch, barriers', actor, epoch, version, answers', <<>>)
    BY <2>11, <1>4
  <2>13. AllData(working', mode, version, written, answers', syncing', tasks', spilledData', instData')
    BY <2>1, <1>6 DEF AllData
  <2> QED BY <1>1, <1>2, <2>1, <2>2, <2>11, <2>12, <2>13, DataParts DEF DataOK
<1> QED BY <1>5, <1>6

\* A sync with id n takes the spill tasks ids, and a flush task of its own.
TakesTasks(tk, tk2, sp, sy, ids, n, flush, extra) ==
  /\ IsSeq(tk) /\ \A k \in DOMAIN tk : TaskShape(tk[k]) /\ tk[k].sync # n
  /\ n # 0 /\ extra.sync = n /\ \A k \in DOMAIN sy : sy[k].id # n /\ sy[k].id # 0
  /\ \A k \in DOMAIN tk : tk[k].id \in ids => tk[k].sync = 0
  /\ SyncTasks(tk, tk2, ids, n, flush, extra)

\* The tasks before and after.
LEMMA TakenTasks ==
  ASSUME NEW tk, NEW tk2, NEW sp, NEW sy, NEW ids, NEW n, NEW flush, NEW extra,
         TakesTasks(tk, tk2, sp, sy, ids, n, flush, extra)
  PROVE  /\ \A k \in DOMAIN tk2 : k \in DOMAIN tk \/ (flush /\ tk2[k] = extra)
         /\ flush => \E k \in DOMAIN tk2 : tk2[k] = extra
         /\ \A k \in DOMAIN tk : /\ k \in DOMAIN tk2 /\ tk2[k].input = tk[k].input
                                 /\ IF tk[k].id \in ids THEN tk[k].sync = 0 /\ tk2[k].sync = n ELSE tk2[k] = tk[k]
<1>1. Len(tk) \in Nat /\ DOMAIN tk = 1..Len(tk)
  BY SeqDomain DEF TakesTasks
<1>2. /\ DOMAIN tk2 = 1..(IF flush THEN Len(tk) + 1 ELSE Len(tk))
      /\ \A k \in 1..Len(tk) :
           /\ TaskShape(tk2[k])
           /\ tk2[k].id = tk[k].id /\ tk2[k].input = tk[k].input /\ tk2[k].tables = tk[k].tables
           /\ tk2[k].sync = IF tk[k].id \in ids THEN n ELSE tk[k].sync
      /\ flush => tk2[Len(tk) + 1] = extra
  BY DEF TakesTasks, SyncTasks
<1>3. \A k \in DOMAIN tk2 : k \in DOMAIN tk \/ (flush /\ tk2[k] = extra)
  BY <1>1, <1>2
<1>4. flush => \E k \in DOMAIN tk2 : tk2[k] = extra
  <2>1. flush => Len(tk) + 1 \in DOMAIN tk2
    BY <1>1, <1>2
  <2> QED BY <2>1, <1>2
<1>5. \A k \in DOMAIN tk : k \in DOMAIN tk2
  BY <1>1, <1>2
<1>6. ASSUME NEW k \in DOMAIN tk, tk[k].id \notin ids PROVE tk2[k] = tk[k]
  <2>1. TaskShape(tk2[k]) /\ TaskShape(tk[k])
    BY <1>1, <1>2 DEF TakesTasks
  <2>2. tk2[k].id = tk[k].id /\ tk2[k].input = tk[k].input /\ tk2[k].tables = tk[k].tables /\ tk2[k].sync = tk[k].sync
    BY <1>1, <1>2, <1>6
  <2> QED BY <2>1, <2>2 DEF TaskShape
<1>7. \A k \in DOMAIN tk : tk[k].id \in ids => tk[k].sync = 0 /\ tk2[k].sync = n
  BY <1>1, <1>2 DEF TakesTasks
<1>8. \A k \in DOMAIN tk : tk2[k].input = tk[k].input
  BY <1>1, <1>2
<1> QED BY <1>3, <1>4, <1>5, <1>6, <1>7, <1>8

\* What a sync holds that has taken the tasks ids and the task extra.
SyncTakes(w, s, tk, ids, flush, extra) ==
  \/ InUploaded(w, s.uploaded)
  \/ \E k \in DOMAIN tk : tk[k].id \in ids /\ InInput(w, tk[k].input)
  \/ flush /\ InInput(w, extra.input)

\* The spill tasks that are left, what the earlier syncs hold, and what the new one holds.
LEMMA TakenStages ==
  ASSUME NEW tk, NEW tk2, NEW sp, NEW sy, NEW ids, NEW n, NEW flush, NEW extra,
         TakesTasks(tk, tk2, sp, sy, ids, n, flush, extra)
  PROVE  /\ \A x : IsSpill(x, tk2, LeftSpills(sp, ids)) <=> IsSpill(x, tk, sp) /\ x.id \notin ids
         /\ \A k \in DOMAIN sy : \A w : InSync(w, sy[k], tk2) <=> InSync(w, sy[k], tk)
         /\ \A s, w : s.id = n => (InSync(w, s, tk2) <=> SyncTakes(w, s, tk, ids, flush, extra))
<1>1. /\ \A k \in DOMAIN tk2 : k \in DOMAIN tk \/ (flush /\ tk2[k] = extra)
      /\ flush => \E k \in DOMAIN tk2 : tk2[k] = extra
      /\ \A k \in DOMAIN tk : /\ k \in DOMAIN tk2 /\ tk2[k].input = tk[k].input
                              /\ IF tk[k].id \in ids THEN tk[k].sync = 0 /\ tk2[k].sync = n ELSE tk2[k] = tk[k]
  BY TakenTasks
<1>2. /\ \A k \in DOMAIN tk : tk[k].sync # n
      /\ n # 0 /\ extra.sync = n /\ \A k \in DOMAIN sy : sy[k].id # n /\ sy[k].id # 0
  BY DEF TakesTasks
<1>3. ASSUME NEW x, IsSpill(x, tk2, LeftSpills(sp, ids)) PROVE IsSpill(x, tk, sp) /\ x.id \notin ids
  BY <1>1, <1>2, <1>3 DEF IsSpill, LeftSpills
<1>4. ASSUME NEW x, IsSpill(x, tk, sp), x.id \notin ids PROVE IsSpill(x, tk2, LeftSpills(sp, ids))
  BY <1>1, <1>2, <1>4 DEF IsSpill, LeftSpills
<1>5. ASSUME NEW k \in DOMAIN sy, NEW w PROVE InSync(w, sy[k], tk2) <=> InSync(w, sy[k], tk)
  BY <1>1, <1>2, <1>5 DEF InSync
<1>6. ASSUME NEW s, NEW w, s.id = n
      PROVE  InSync(w, s, tk2) <=> SyncTakes(w, s, tk, ids, flush, extra)
  <2>1. ASSUME NEW j \in DOMAIN tk2, tk2[j].sync = n, InInput(w, tk2[j].input)
        PROVE  (\E k \in DOMAIN tk : tk[k].id \in ids /\ InInput(w, tk[k].input)) \/ (flush /\ InInput(w, extra.input))
    BY <2>1, <1>1, <1>2
  <2>2. ASSUME NEW k \in DOMAIN tk, tk[k].id \in ids, InInput(w, tk[k].input)
        PROVE  k \in DOMAIN tk2 /\ tk2[k].sync = n /\ InInput(w, tk2[k].input)
    BY <2>2, <1>1
  <2>3. ASSUME flush, InInput(w, extra.input) PROVE \E k \in DOMAIN tk2 : tk2[k].sync = n /\ InInput(w, tk2[k].input)
    BY <2>3, <1>1, <1>2
  <2> QED BY <2>1, <2>2, <2>3, <1>6 DEF InSync, SyncTakes
<1>7. \A x : IsSpill(x, tk2, LeftSpills(sp, ids)) <=> IsSpill(x, tk, sp) /\ x.id \notin ids
  BY <1>3, <1>4
<1> QED BY <1>5, <1>6, <1>7

\* What the new sync holds of the spilled data.
LEMMA NewestHolds ==
  ASSUME NEW S, IsFiniteSet(S), \A x \in S : x.id \in Nat, \A x, y \in S : x.id = y.id => x = y, NEW w
  PROVE  InUploaded(w, NewestFirst(S)) <=> \E x \in S : InInput(w, x.input)
<1>1. /\ \A k \in DOMAIN NewestFirst(S) : \E x \in S : NewestFirst(S)[k] = x.input
      /\ \A x \in S : \E k \in DOMAIN NewestFirst(S) : NewestFirst(S)[k] = x.input
  BY NewestFirstIs
<1> QED BY <1>1 DEF InUploaded

\* The data that a sync of the tables T up to the epoch e takes.
TakenSpill(w, e, T) == \E x : IsSpill(x, tasks, spilledData) /\ x.id \in TakenIds(tableData, e, T) /\ InInput(w, x.input)
TakenFlush(w, e, T) == \E i \in DOMAIN instData : TableOf[i] \in T /\ InImms(w, i, SealedBefore(instData[i], e))

\* A step of UploaderData::sync in a node of the invariant.
SyncingStep(g, e, T, s, extra, td1) ==
  /\ g \in Group /\ working /\ e \in Nat /\ T # {} /\ T \subseteq TablesOf[g] /\ T \subseteq DOMAIN tableData
  /\ ReachesOnly(unsyncEpochs, e, T) /\ SyncStep(e, T, s, extra, td1)

\* The stages after a sync has started: those before it, and the new one.
LEMMA SyncStages ==
  ASSUME NodeOK, DataOK, NEW g, NEW e, NEW T, NEW s, NEW extra, NEW td1, SyncingStep(g, e, T, s, extra, td1)
  PROVE  /\ \A x : IsSpill(x, tasks', spilledData') <=> IsSpill(x, tasks, spilledData) /\ x.id \notin TakenIds(tableData, e, T)
         /\ \A k \in DOMAIN syncing : \A w : InSync(w, syncing[k], tasks') <=> InSync(w, syncing[k], tasks)
         /\ \A w : InSync(w, s, tasks') <=> TakenSpill(w, e, T) \/ TakenFlush(w, e, T)
         /\ s.tables = T /\ s.epoch = e
<1> DEFINE ids == TakenIds(tableData, e, T)
           flush == Flushed(e, T) # {}
           S == TakenOf(spilledData, tableData, e, T)
<1>1. UploaderOK(tasks, spilledData, syncing, tableData, unsyncEpochs)
  BY Parts
<1>2. /\ Shapes(tasks, spilledData, syncing, tableData, unsyncEpochs) /\ UniqueIds(tasks, spilledData, syncing)
      /\ SyncsKnown(tasks, syncing)
  BY <1>1 DEF UploaderOK
<1>3. /\ NextSyncId \in Nat \ {0} /\ \A k \in DOMAIN syncing : syncing[k].id < NextSyncId
  BY <1>1, NextIds
<1>4. SyncStep(e, T, s, extra, td1) /\ e \in Nat /\ T \subseteq DOMAIN tableData
  BY DEF SyncingStep
<1>5. /\ extra = [id |-> NextTaskId, input |-> [i \in Flushed(e, T) |-> SealedBefore(instData[i], e)],
                  tables |-> {}, sync |-> NextSyncId]
      /\ s = [id |-> NextSyncId, epoch |-> e, tables |-> T, remaining |-> s.remaining, uploaded |-> NewestFirst(S)]
      /\ SyncTasks(tasks, tasks', ids, NextSyncId, flush, extra)
      /\ spilledData' = LeftSpills(spilledData, ids)
  BY <1>4 DEF SyncStep
<1>6. /\ extra.sync = NextSyncId /\ s.id = NextSyncId /\ s.epoch = e /\ s.tables = T /\ s.uploaded = NewestFirst(S)
      /\ DOMAIN extra.input = Flushed(e, T) /\ \A i \in Flushed(e, T) : extra.input[i] = SealedBefore(instData[i], e)
  BY <1>5
<1>7. \A id \in ids : \E x : IsSpill(x, tasks, spilledData) /\ x.id = id
  BY <1>1, <1>4, TakenAreSpills
<1> HIDE DEF ids, flush, S
<1>8. ASSUME NEW k \in DOMAIN tasks, tasks[k].id \in ids PROVE tasks[k].sync = 0
  <2>1. PICK x : IsSpill(x, tasks, spilledData) /\ x.id = tasks[k].id
    BY <1>7, <1>8
  <2> QED BY <2>1, <1>2, SpillById
<1>9. ASSUME NEW k \in DOMAIN tasks PROVE TaskShape(tasks[k]) /\ tasks[k].sync # NextSyncId
  <2>1. TaskShape(tasks[k])
    BY <1>2 DEF Shapes
  <2>2. tasks[k].sync # 0 => \E j \in DOMAIN syncing : syncing[j].id = tasks[k].sync
    BY <1>2 DEF SyncsKnown
  <2>3. \A j \in DOMAIN syncing : syncing[j].id # NextSyncId
    BY <1>2, <1>3 DEF Shapes, SyncShape
  <2> QED BY <2>1, <2>2, <2>3, <1>3
<1>10. IsSeq(tasks) /\ \A k \in DOMAIN syncing : syncing[k].id # NextSyncId /\ syncing[k].id # 0
  BY <1>2, <1>3 DEF Shapes, SyncShape
<1>11. TakesTasks(tasks, tasks', spilledData, syncing, ids, NextSyncId, flush, extra)
  BY <1>3, <1>5, <1>6, <1>8, <1>9, <1>10 DEF TakesTasks
<1>12. /\ \A x : IsSpill(x, tasks', spilledData') <=> IsSpill(x, tasks, spilledData) /\ x.id \notin ids
       /\ \A k \in DOMAIN syncing : \A w : InSync(w, syncing[k], tasks') <=> InSync(w, syncing[k], tasks)
       /\ \A w : InSync(w, s, tasks') <=> SyncTakes(w, s, tasks, ids, flush, extra)
  <2> DEFINE sp2 == LeftSpills(spilledData, ids)
  <2>1. /\ \A x : IsSpill(x, tasks', sp2) <=> IsSpill(x, tasks, spilledData) /\ x.id \notin ids
        /\ \A k \in DOMAIN syncing : \A w : InSync(w, syncing[k], tasks') <=> InSync(w, syncing[k], tasks)
        /\ \A r, w : r.id = NextSyncId => (InSync(w, r, tasks') <=> SyncTakes(w, r, tasks, ids, flush, extra))
    BY <1>11, TakenStages
  <2>2. sp2 = spilledData' /\ s.id = NextSyncId
    BY <1>5, <1>6
  <2> HIDE DEF sp2
  <2> QED BY <2>1, <2>2
<1>13. ASSUME NEW w PROVE InUploaded(w, s.uploaded) <=> \E x \in spilledData : x.id \in ids /\ InInput(w, x.input)
  <2>1. \A x : x \in S <=> x \in spilledData /\ x.id \in ids
    BY DEF S, TakenOf, ids
  <2>2. IsFiniteSet(S)
    <3>1. S \subseteq spilledData /\ IsFiniteSet(spilledData)
      BY <2>1, <1>2 DEF Shapes
    <3> QED BY <3>1, FS_Subset
  <2>3. (\A x \in S : x.id \in Nat) /\ \A x, y \in S : x.id = y.id => x = y
    BY <2>1, <1>2 DEF Shapes, TaskShape, UniqueIds
  <2>4. InUploaded(w, NewestFirst(S)) <=> \E x \in S : InInput(w, x.input)
    BY <2>2, <2>3, NewestHolds
  <2> QED BY <2>1, <2>4, <1>6
<1>14. ASSUME NEW w
       PROVE  TakenSpill(w, e, T) <=> \/ \E x \in spilledData : x.id \in ids /\ InInput(w, x.input)
                                      \/ \E k \in DOMAIN tasks : tasks[k].id \in ids /\ InInput(w, tasks[k].input)
  BY <1>8 DEF TakenSpill, IsSpill, ids
<1>15. ASSUME NEW w PROVE TakenFlush(w, e, T) <=> flush /\ InInput(w, extra.input)
  <2>1. ASSUME TakenFlush(w, e, T) PROVE flush /\ InInput(w, extra.input)
    <3>1. PICK i \in DOMAIN instData : TableOf[i] \in T /\ InImms(w, i, SealedBefore(instData[i], e))
      BY <2>1 DEF TakenFlush
    <3>2. i \in Flushed(e, T)
      BY <3>1, NoImms DEF Flushed, InstancesOf
    <3>3. flush
      BY <3>2 DEF flush
    <3> QED BY <3>1, <3>2, <3>3, <1>6 DEF InInput
  <2>2. ASSUME InInput(w, extra.input) PROVE TakenFlush(w, e, T)
    <3>1. PICK i \in Flushed(e, T) : InImms(w, i, SealedBefore(instData[i], e))
      BY <2>2, <1>6 DEF InInput
    <3>2. i \in DOMAIN instData /\ TableOf[i] \in T
      BY <3>1 DEF Flushed, InstancesOf
    <3> QED BY <3>1, <3>2 DEF TakenFlush
  <2> QED BY <2>1, <2>2
<1>16. \A w : InSync(w, s, tasks') <=> TakenSpill(w, e, T) \/ TakenFlush(w, e, T)
  BY <1>12, <1>13, <1>14, <1>15 DEF SyncTakes
<1> QED BY <1>6, <1>12, <1>16 DEF ids

\* A sync of g up to e that all actors of g have passed.
Passed(g, e) ==
  mode[g] = "running" /\ \A i \in Instance : Live(actor[i]) /\ GroupOf[i] = g => e < epoch[i].curr

\* An instance that is synced: it keeps what is newer, and all of that.
SyncedTo(i, e, d, d2) ==
  /\ InstShape(d2) /\ InstanceOf(actor[i], epoch[i].curr, d2) /\ (actor[i] = "running" => ~IsFinished(d2))
  /\ \A w : InInst(w, i, d) <=> InInst(w, i, d2) \/ InImms(w, i, SealedBefore(d, e))
  /\ \A w : InInst(w, i, d2) => w.epoch > e
  /\ \A w : InImms(w, i, SealedBefore(d, e)) => w.epoch <= e
  /\ IsFinished(d2) => \A w : ~InInst(w, i, d2)

\* No instance is overtaken by a sync.
LEMMA InstPassed ==
  ASSUME DataOK, NEW g \in Group, NEW e \in Nat, Passed(g, e), NEW i \in DOMAIN instData, TableOf[i] \in TablesOf[g],
         NEW d2, d2 = SyncInstance(instData[i], e)
  PROVE  SyncedTo(i, e, instData[i], d2)
<1> DEFINE d == instData[i]
           a == actor[i]
           c == epoch[i].curr
<1>1. i \in Instance /\ InstShape(d) /\ InstanceOf(a, c, d)
  BY DataParts DEF Instances
<1>2. GroupOf[i] = g
  BY <1>1, GroupIs
<1>3. a \in ActorState /\ (a \in {"aborted", "dropping"} => mode[g] = "suspended")
  BY <1>1, <1>2, DataParts DEF Actors
<1>4. a = "running" => e < c
  BY <1>1, <1>2 DEF Passed, Live
<1>5. a \in {"none", "running", "stopping"}
  BY <1>1, <1>3 DEF Passed, ActorState, InstanceOf
<1>6. d2 = SyncInstance(d, e)
  OBVIOUS
<1> HIDE DEF d, a, c
<1>7. (a = "running" => ~d.destroyed /\ d.current.epoch = c) /\ (a \in {"none", "stopping"} => d.current.imms = <<>>)
  BY <1>1 DEF InstanceOf
<1>8. (e < d.current.epoch \/ d.current.imms = <<>>) /\ (a = "running" => e < d.current.epoch)
  BY <1>4, <1>5, <1>7
<1>9. /\ InstShape(d2) /\ d2.destroyed = d.destroyed
      /\ e < d.current.epoch => d2.current = d.current
      /\ d.current.imms = <<>> => d2.current.imms = <<>>
  BY <1>1, <1>6, InstSynced
<1>10. InstanceOf(a, c, d2)
  BY <1>5, <1>7, <1>8, <1>9 DEF InstanceOf
<1>11. a = "running" => ~IsFinished(d2)
  BY <1>7, <1>9 DEF IsFinished
<1>12. ASSUME NEW w
       PROVE  /\ InInst(w, i, d) <=> InInst(w, i, d2) \/ InImms(w, i, SealedBefore(d, e))
              /\ InInst(w, i, d2) => w.epoch > e
              /\ InImms(w, i, SealedBefore(d, e)) => w.epoch <= e
  BY <1>1, <1>6, <1>8, SyncedImms
<1>13. ASSUME IsFinished(d2), NEW w PROVE ~InInst(w, i, d2)
  <2>1. d2.destroyed /\ d2.sealed = <<>>
    BY <1>13 DEF IsFinished
  <2>2. a # "running"
    BY <2>1, <1>7, <1>9
  <2>3. d2.current.imms = <<>>
    BY <2>2, <1>5, <1>7, <1>9
  <2> QED BY <2>1, <2>3, NoImms, EmptySeq DEF InInst
<1>14. SyncedTo(i, e, d, d2)
  BY <1>9, <1>10, <1>11, <1>12, <1>13 DEF SyncedTo, a, c
<1> QED BY <1>14 DEF d

\* The instances after a sync: what they lose is what the sync takes.
LEMMA SyncInsts ==
  ASSUME NodeOK, DataOK, NEW g, NEW e, NEW T, NEW s, NEW extra, NEW td1, SyncingStep(g, e, T, s, extra, td1), Passed(g, e)
  PROVE  /\ \A i \in DOMAIN instData' : i \in DOMAIN instData
         /\ Instances(working, actor, epoch, instData')
         /\ \A w : PendingInst(w, instData) <=> PendingInst(w, instData') \/ TakenFlush(w, e, T)
         /\ \A w : PendingInst(w, instData') /\ w.table \in T => w.epoch > e
         /\ \A w : TakenFlush(w, e, T) => w.table \in T /\ w.epoch <= e
<1>1. g \in Group /\ working /\ e \in Nat /\ T \subseteq TablesOf[g] /\ SyncStep(e, T, s, extra, td1)
  BY DEF SyncingStep
<1> DEFINE ins == SyncedInst(e, T)
           K == {i \in DOMAIN instData : ~(TableOf[i] \in T /\ IsFinished(ins[i]))}
<1>2. instData' = [i \in K |-> ins[i]]
  BY <1>1 DEF SyncStep
<1>3. \A i \in DOMAIN instData : ins[i] = IF TableOf[i] \in T THEN SyncInstance(instData[i], e) ELSE instData[i]
  BY DEF SyncedInst
<1>4. \A i : i \in K <=> i \in DOMAIN instData /\ ~(TableOf[i] \in T /\ IsFinished(ins[i]))
  OBVIOUS
<1> HIDE DEF ins, K
<1>5. DOMAIN instData' = K /\ \A i \in K : instData'[i] = ins[i]
  BY <1>2
<1>6. ASSUME NEW i \in DOMAIN instData, TableOf[i] \in T PROVE SyncedTo(i, e, instData[i], ins[i])
  <2>1. ins[i] = SyncInstance(instData[i], e) /\ TableOf[i] \in TablesOf[g]
    BY <1>1, <1>3, <1>6
  <2> DEFINE d2 == ins[i]
  <2>2. d2 = SyncInstance(instData[i], e)
    BY <2>1
  <2> HIDE DEF d2
  <2>3. SyncedTo(i, e, instData[i], d2)
    BY <1>1, <1>6, <2>1, <2>2, InstPassed
  <2> QED BY <2>3 DEF d2
<1>7. \A i \in DOMAIN instData' : i \in DOMAIN instData
  BY <1>4, <1>5
<1>8. \A i \in DOMAIN instData : i \in Instance /\ InstShape(instData[i]) /\ InstanceOf(actor[i], epoch[i].curr, instData[i])
  BY DataParts DEF Instances
<1>9. Instances(working, actor, epoch, instData')
  <2>1. ASSUME NEW i \in DOMAIN instData' PROVE i \in Instance /\ InstShape(instData'[i]) /\ InstanceOf(actor[i], epoch[i].curr, instData'[i])
    <3>1. i \in DOMAIN instData /\ instData'[i] = ins[i]
      BY <2>1, <1>4, <1>5
    <3>2. CASE TableOf[i] \in T
      BY <3>1, <3>2, <1>6, <1>8 DEF SyncedTo
    <3>3. CASE TableOf[i] \notin T
      BY <3>1, <3>3, <1>3, <1>8
    <3> QED BY <3>2, <3>3
  <2>2. ASSUME NEW i \in Instance, actor[i] = "running" PROVE i \in DOMAIN instData'
    <3>1. i \in DOMAIN instData
      BY <2>2, <1>1, DataParts DEF Instances
    <3>2. TableOf[i] \in T => ~IsFinished(ins[i])
      BY <3>1, <2>2, <1>6 DEF SyncedTo
    <3> QED BY <3>1, <3>2, <1>4, <1>5
  <2> QED BY <2>1, <2>2 DEF Instances
<1>10. ASSUME NEW w, PendingInst(w, instData) PROVE PendingInst(w, instData') \/ TakenFlush(w, e, T)
  <2>1. PICK i \in DOMAIN instData : InInst(w, i, instData[i])
    BY <1>10 DEF PendingInst
  <2>2. CASE TableOf[i] \in T
    <3>1. InInst(w, i, ins[i]) \/ InImms(w, i, SealedBefore(instData[i], e))
      BY <2>1, <2>2, <1>6 DEF SyncedTo
    <3>2. CASE InImms(w, i, SealedBefore(instData[i], e))
      BY <3>2, <2>2 DEF TakenFlush
    <3>3. CASE InInst(w, i, ins[i])
      <4>1. ~IsFinished(ins[i])
        BY <3>3, <2>2, <1>6 DEF SyncedTo
      <4>2. i \in DOMAIN instData' /\ instData'[i] = ins[i]
        BY <4>1, <1>4, <1>5
      <4> QED BY <4>2, <3>3 DEF PendingInst
    <3> QED BY <3>1, <3>2, <3>3
  <2>3. CASE TableOf[i] \notin T
    <3>1. i \in DOMAIN instData' /\ instData'[i] = instData[i]
      BY <2>3, <1>3, <1>4, <1>5
    <3> QED BY <2>1, <3>1 DEF PendingInst
  <2> QED BY <2>2, <2>3
<1>11. ASSUME NEW w, PendingInst(w, instData') PROVE PendingInst(w, instData) /\ (w.table \in T => w.epoch > e)
  <2>1. PICK i \in DOMAIN instData' : InInst(w, i, instData'[i])
    BY <1>11 DEF PendingInst
  <2>2. i \in DOMAIN instData /\ instData'[i] = ins[i] /\ w.table = TableOf[i]
    BY <2>1, <1>4, <1>5, TableOfImm
  <2>3. CASE TableOf[i] \in T
    BY <2>1, <2>2, <2>3, <1>6 DEF SyncedTo, PendingInst
  <2>4. CASE TableOf[i] \notin T
    BY <2>1, <2>2, <2>4, <1>3 DEF PendingInst
  <2> QED BY <2>3, <2>4
<1>12. ASSUME NEW w, TakenFlush(w, e, T) PROVE PendingInst(w, instData) /\ w.table \in T /\ w.epoch <= e
  <2>1. PICK i \in DOMAIN instData : TableOf[i] \in T /\ InImms(w, i, SealedBefore(instData[i], e))
    BY <1>12 DEF TakenFlush
  <2>2. InInst(w, i, instData[i]) /\ w.epoch <= e
    BY <2>1, <1>6 DEF SyncedTo
  <2> QED BY <2>1, <2>2, TableOfImm DEF PendingInst
<1>13. \A w : PendingInst(w, instData) <=> PendingInst(w, instData') \/ TakenFlush(w, e, T)
  BY <1>10, <1>11, <1>12
<1> QED BY <1>7, <1>9, <1>11, <1>12, <1>13

\* A write a spilling task or an uploaded spill carries has the epoch the task was started for, and
\* start_sync_epoch takes the task exactly when it reaches that epoch.
LEMMA SpilledWrite ==
  ASSUME NodeOK, DataOK, NEW g, NEW e, NEW T, NEW s, NEW extra, NEW td1, SyncingStep(g, e, T, s, extra, td1),
         NEW x, IsSpill(x, tasks, spilledData), NEW w, InInput(w, x.input)
  PROVE  /\ w \in written /\ w.epoch \in Nat
         /\ x.id \in TakenIds(tableData, e, T) => w.table \in T /\ w.epoch <= e
         /\ x.id \notin TakenIds(tableData, e, T) /\ w.table \in T => w.epoch > e
<1>1. e \in Nat /\ T \subseteq DOMAIN tableData /\ ReachesOnly(unsyncEpochs, e, T)
  BY DEF SyncingStep
<1>2. UploaderOK(tasks, spilledData, syncing, tableData, unsyncEpochs)
  BY Parts
<1>3. PICK u \in unsyncEpochs : SpillOf(x, u, tableData)
  BY <1>2 DEF UploaderOK, SpillsKnown
<1>4. x.id \in TakenIds(tableData, e, T) <=> u.epoch <= e /\ u.tables = T
  BY <1>1, <1>2, <1>3, TakenSpills DEF ReachesOnly
<1>5. Pending(w, instData, tasks, spilledData)
  BY DEF Pending, PendingSpill
<1>6. /\ w \in written /\ HasEpoch(tableData, w.table, w.epoch)
      /\ w.table \in x.tables /\ <<w.epoch, x.id>> \in tableData[w.table].spill
  BY <1>5, DataParts DEF PendingOK
<1>7. w.epoch \in Nat
  BY <1>6, DataParts DEF Durability
<1>8. w.table \in u.tables /\ <<u.epoch, x.id>> \in tableData[w.table].spill
  BY <1>3, <1>6 DEF SpillOf
<1>9. w.epoch = u.epoch
  <2> DEFINE y == <<w.epoch, x.id>>
             z == <<u.epoch, x.id>>
  <2>1. w.table \in DOMAIN tableData
    BY <1>6 DEF HasEpoch
  <2>2. y[2] = z[2]
    OBVIOUS
  <2>3. y = z
    <3> HIDE DEF y, z
    <3>1. y \in tableData[w.table].spill /\ z \in tableData[w.table].spill
      BY <1>6, <1>8 DEF y, z
    <3> QED BY <1>2, <2>1, <2>2, <3>1 DEF UploaderOK, SpillsExist
  <2> QED BY <2>3
<1>10. u.epoch <= e /\ w.table \in T => u.tables = T
  BY <1>1, <1>8 DEF ReachesOnly
<1> QED BY <1>1, <1>4, <1>6, <1>7, <1>8, <1>9, <1>10

\* What start_sync_epoch leaves unsynced was unsynced before, and is newer than the synced epoch when its table is synced.
SyncedApart(e, T, s, td1) ==
  /\ PendingOK(written, instData', tasks', spilledData', td1)
  /\ \A w : Pending(w, instData, tasks, spilledData)
            => w \in written /\ w.epoch \in Nat /\ (Pending(w, instData', tasks', spilledData') \/ InSync(w, s, tasks'))
  /\ \A w : Pending(w, instData', tasks', spilledData') => (w.table \in T => w.epoch > e)
  /\ \A w : InSync(w, s, tasks') => w \in written /\ w.table \in T /\ w.epoch <= e

\* start_sync_epoch splits the unsynced data into the data of the sync and what stays unsynced.
LEMMA SyncPending ==
  ASSUME NodeOK, DataOK, NEW g, NEW e, NEW T, NEW s, NEW extra, NEW td1, SyncingStep(g, e, T, s, extra, td1), Passed(g, e)
  PROVE  SyncedApart(e, T, s, td1)
<1>1. e \in Nat /\ LeftTables(tableData, td1, e, T)
  BY DEF SyncingStep, SyncStep
<1>2. /\ \A x : IsSpill(x, tasks', spilledData') <=> IsSpill(x, tasks, spilledData) /\ x.id \notin TakenIds(tableData, e, T)
      /\ \A w : InSync(w, s, tasks') <=> TakenSpill(w, e, T) \/ TakenFlush(w, e, T)
  BY SyncStages
<1>3. /\ \A w : PendingInst(w, instData) <=> PendingInst(w, instData') \/ TakenFlush(w, e, T)
      /\ \A w : PendingInst(w, instData') /\ w.table \in T => w.epoch > e
      /\ \A w : TakenFlush(w, e, T) => w.table \in T /\ w.epoch <= e
  BY SyncInsts
<1>4. \A x, w : IsSpill(x, tasks, spilledData) /\ InInput(w, x.input) =>
        /\ w \in written /\ w.epoch \in Nat
        /\ x.id \in TakenIds(tableData, e, T) => w.table \in T /\ w.epoch <= e
        /\ x.id \notin TakenIds(tableData, e, T) /\ w.table \in T => w.epoch > e
  BY SpilledWrite
<1>5. ASSUME NEW w, Pending(w, instData, tasks, spilledData)
      PROVE  w \in written /\ w.epoch \in Nat /\ HasEpoch(tableData, w.table, w.epoch)
  BY <1>5, DataParts DEF PendingOK, Durability
<1>6. ASSUME NEW w, PendingSpill(w, tasks, spilledData) PROVE PendingSpill(w, tasks', spilledData') \/ TakenSpill(w, e, T)
  BY <1>2, <1>6 DEF PendingSpill, TakenSpill
<1>7. ASSUME NEW w, PendingSpill(w, tasks', spilledData')
      PROVE  PendingSpill(w, tasks, spilledData) /\ (w.table \in T => w.epoch > e)
  BY <1>2, <1>4, <1>7 DEF PendingSpill
<1>8. ASSUME NEW w, TakenSpill(w, e, T) PROVE w \in written /\ w.table \in T /\ w.epoch <= e
  BY <1>4, <1>8 DEF TakenSpill
<1>9. ASSUME NEW w, Pending(w, instData', tasks', spilledData')
      PROVE  Pending(w, instData, tasks, spilledData) /\ (w.table \in T => w.epoch > e)
  BY <1>3, <1>7, <1>9 DEF Pending
<1>10. ASSUME NEW w, Pending(w, instData, tasks, spilledData)
       PROVE  Pending(w, instData', tasks', spilledData') \/ InSync(w, s, tasks')
  BY <1>2, <1>3, <1>6, <1>10 DEF Pending
<1>11. ASSUME NEW w, InSync(w, s, tasks') PROVE w \in written /\ w.table \in T /\ w.epoch <= e
  <2>1. CASE TakenSpill(w, e, T)
    BY <2>1, <1>8
  <2>2. CASE TakenFlush(w, e, T)
    <3>1. Pending(w, instData, tasks, spilledData)
      BY <2>2, <1>3 DEF Pending
    <3> QED BY <3>1, <2>2, <1>3, <1>5
  <2> QED BY <1>2, <1>11, <2>1, <2>2
<1>12. ASSUME NEW w, Pending(w, instData', tasks', spilledData') PROVE w \in written /\ HasEpoch(td1, w.table, w.epoch)
  <2>1. w \in written /\ HasEpoch(tableData, w.table, w.epoch) /\ (w.table \in T => w.epoch > e)
    BY <1>5, <1>9, <1>12
  <2> QED BY <2>1, <1>1 DEF LeftTables, HasEpoch
<1>13. ASSUME NEW x, NEW w, IsSpill(x, tasks', spilledData'), InInput(w, x.input)
       PROVE  w.table \in x.tables /\ <<w.epoch, x.id>> \in td1[w.table].spill
  <2>1. IsSpill(x, tasks, spilledData) /\ (w.table \in T => w.epoch > e)
    BY <1>2, <1>4, <1>13
  <2>2. w.table \in x.tables /\ <<w.epoch, x.id>> \in tableData[w.table].spill
    BY <2>1, <1>13, DataParts DEF PendingOK
  <2>3. w.table \in DOMAIN tableData
    <3>1. Pending(w, instData, tasks, spilledData)
      BY <2>1, <1>13 DEF Pending, PendingSpill
    <3> QED BY <3>1, <1>5 DEF HasEpoch
  <2> DEFINE y == <<w.epoch, x.id>>
  <2>4. y[1] = w.epoch /\ y \in tableData[w.table].spill
    BY <2>2
  <2> HIDE DEF y
  <2>5. y \in td1[w.table].spill
    BY <2>1, <2>3, <2>4, <1>1 DEF LeftTables
  <2> QED BY <2>2, <2>5 DEF y
<1>14. PendingOK(written, instData', tasks', spilledData', td1)
  BY <1>12, <1>13 DEF PendingOK
<1> QED BY <1>5, <1>9, <1>10, <1>11, <1>14 DEF SyncedApart

\* The stages once a sync of database g follows the others.
StageAdded(g, ans, sy, sy1, s, tk, tk2) ==
  /\ AnswersOK(ans, sy1)
  /\ \A k \in DOMAIN sy1 : (k \in DOMAIN sy /\ sy1[k] = sy[k]) \/ sy1[k] = s
  /\ \A h \in Group : \A f : HasStage(h, f, ans, sy1) <=> HasStage(h, f, ans, sy) \/ (h = g /\ f = s.epoch)
  /\ \A h \in Group : \A w, f : InStage(w, h, f, ans, sy1, tk2)
       <=> InStage(w, h, f, ans, sy, tk) \/ (h = g /\ f = s.epoch /\ InSync(w, s, tk2))

\* A sync of database g at an epoch above those of all its stages.
NewStage(g, ans, sy, s, tk, tk2) ==
  /\ g \in Group /\ AnswersOK(ans, sy) /\ IsSeq(sy) /\ s.tables # {} /\ Of(s, g)
  /\ \A f : HasStage(g, f, ans, sy) => f < s.epoch
  /\ \A k \in DOMAIN sy : \A w : InSync(w, sy[k], tk2) <=> InSync(w, sy[k], tk)

\* A new sync is the last stage of its database and leaves the other stages as they are.
LEMMA StagesAdded ==
  ASSUME NEW g, NEW ans, NEW sy, NEW sy1, NEW s, NEW tk, NEW tk2, NewStage(g, ans, sy, s, tk, tk2), sy1 = Append(sy, s)
  PROVE  StageAdded(g, ans, sy, sy1, s, tk, tk2)
<1>1. /\ g \in Group /\ AnswersOK(ans, sy) /\ IsSeq(sy) /\ s.tables # {} /\ Of(s, g)
      /\ \A f : HasStage(g, f, ans, sy) => f < s.epoch
      /\ \A k \in DOMAIN sy : \A w : InSync(w, sy[k], tk2) <=> InSync(w, sy[k], tk)
  BY DEF NewStage
<1> DEFINE n == Len(sy) + 1
<1>2. /\ IsSeq(sy1)
      /\ \A k \in DOMAIN sy : k \in DOMAIN sy1 /\ sy1[k] = sy[k] /\ k < n /\ k \in Nat
      /\ n \in DOMAIN sy1 /\ sy1[n] = s
      /\ \A k \in DOMAIN sy1 : k \in DOMAIN sy \/ k = n
  BY <1>1, AppendPlaces
<1>3. n \in Nat
  BY <1>1 DEF IsSeq
<1> HIDE DEF n
<1>4. \A h \in Group : Of(s, h) <=> h = g
  BY <1>1, OneGroup DEF Of
<1>5. \A k \in DOMAIN sy1 : (k \in DOMAIN sy /\ sy1[k] = sy[k]) \/ sy1[k] = s
  BY <1>2
<1>6. ASSUME NEW h \in Group, NEW f
      PROVE  HasStage(h, f, ans, sy1) <=> HasStage(h, f, ans, sy) \/ (h = g /\ f = s.epoch)
  BY <1>2, <1>4 DEF HasStage
<1>7. ASSUME NEW h \in Group, NEW w, NEW f
      PROVE  InStage(w, h, f, ans, sy1, tk2) <=> InStage(w, h, f, ans, sy, tk) \/ (h = g /\ f = s.epoch /\ InSync(w, s, tk2))
  <2>1. ASSUME InStage(w, h, f, ans, sy1, tk2) PROVE InStage(w, h, f, ans, sy, tk) \/ (h = g /\ f = s.epoch /\ InSync(w, s, tk2))
    BY <2>1, <1>1, <1>2, <1>4 DEF InStage
  <2>2. ASSUME InStage(w, h, f, ans, sy, tk) PROVE InStage(w, h, f, ans, sy1, tk2)
    BY <2>2, <1>1, <1>2 DEF InStage
  <2>3. ASSUME h = g, f = s.epoch, InSync(w, s, tk2) PROVE InStage(w, h, f, ans, sy1, tk2)
    BY <2>3, <1>2, <1>4 DEF InStage
  <2> QED BY <2>1, <2>2, <2>3
<1>8. Grouped(ans, sy1)
  BY <1>1, <1>5 DEF AnswersOK, Grouped
<1>9. Ordered(ans, sy1)
  <2>1. Ordered(ans, sy)
    BY <1>1 DEF AnswersOK
  <2>2. \A j \in DOMAIN ans : ans[j].ok /\ Of(ans[j], g) => ans[j].epoch < s.epoch
    BY <1>1 DEF HasStage, Answered
  <2>3. \A j \in DOMAIN sy : Of(sy[j], g) => sy[j].epoch < s.epoch
    BY <1>1 DEF HasStage
  <2>4. ASSUME NEW h \in Group, NEW j \in DOMAIN sy1, NEW k \in DOMAIN sy1, j < k, Of(sy1[j], h), Of(sy1[k], h)
        PROVE  sy1[j].epoch < sy1[k].epoch
    <3>1. CASE k \in DOMAIN sy
      <4>1. j \in DOMAIN sy
        BY <3>1, <2>4, <1>2, <1>3
      <4> QED BY <4>1, <3>1, <2>4, <2>1, <1>2 DEF Ordered
    <3>2. CASE k = n
      <4>1. j \in DOMAIN sy
        BY <3>2, <2>4, <1>2, <1>3
      <4> QED BY <4>1, <3>2, <2>4, <2>3, <1>2, <1>4
    <3> QED BY <3>1, <3>2, <1>2
  <2>5. ASSUME NEW h \in Group, NEW j \in DOMAIN ans, NEW k \in DOMAIN sy1, ans[j].ok, Of(ans[j], h), Of(sy1[k], h)
        PROVE  ans[j].epoch < sy1[k].epoch
    <3>1. CASE k \in DOMAIN sy
      BY <3>1, <2>5, <2>1, <1>2 DEF Ordered
    <3>2. CASE k = n
      BY <3>2, <2>5, <2>2, <1>2, <1>4
    <3> QED BY <3>1, <3>2, <1>2
  <2>6. \A h \in Group : \A j, k \in DOMAIN ans :
          j < k /\ ans[j].ok /\ ans[k].ok /\ Of(ans[j], h) /\ Of(ans[k], h) => ans[j].epoch < ans[k].epoch
    BY <2>1 DEF Ordered
  <2> QED BY <2>4, <2>5, <2>6 DEF Ordered
<1>10. AnswersOK(ans, sy1)
  BY <1>1, <1>8, <1>9 DEF AnswersOK
<1> QED BY <1>5, <1>6, <1>7, <1>10 DEF StageAdded

\* The checkpoint barrier at the head of a database's queue ends an epoch above those of all its stages, and above its version.
LEMMA EarlierStages ==
  ASSUME NodeOK, DataOK, NEW g, NEW br2, PopStep(g, br2), barriers[g][1].kind = "checkpoint"
  PROVE  /\ version.epoch[g] < barriers[g][1].prev
         /\ \A f : HasStage(g, f, answers, syncing) => f < barriers[g][1].prev
<1>1. g \in Group /\ 1 \in DOMAIN barriers[g]
  BY PopFacts DEF PopStep
<1>2. \A f : Over(f, g, mode, lastEpoch, barriers[g], actor, epoch) => f < barriers[g][1].prev
  BY <1>1 DEF Over
<1> QED BY <1>1, <1>2, DataParts DEF Floors

\* complete_barrier of a checkpoint barrier of database g at epoch e, with tables T.
CheckpointStep(g, e, T, s, extra, td1) ==
  /\ SyncingStep(g, e, T, s, extra, td1) /\ PopStep(g, barriers') /\ Passed(g, e)
  /\ barriers[g][1].kind = "checkpoint" /\ e = barriers[g][1].prev /\ T = barriers[g][1].sync
  /\ UNCHANGED <<mode, tables, lastEpoch, command, actor, epoch, version, written, nextImm, working>>

\* The unsynced data of database g up to the epoch of its checkpoint belongs to tables of that checkpoint.
LEMMA CheckpointReaches ==
  ASSUME NodeOK, DataOK, NEW g, NEW e, NEW T, NEW s, NEW extra, NEW td1, CheckpointStep(g, e, T, s, extra, td1),
         NEW w, Pending(w, instData, tasks, spilledData), w.table \in TablesOf[g], w.epoch <= e
  PROVE  w.table \in T
<1>1. g \in Group /\ 1 \in DOMAIN barriers[g] /\ barriers[g][1].kind = "checkpoint" /\ e = barriers[g][1].prev /\ T = barriers[g][1].sync
  BY PopFacts DEF CheckpointStep, PopStep
<1>2. HasEpoch(tableData, w.table, w.epoch)
  BY DataParts DEF PendingOK
<1>3. PICK u \in unsyncEpochs : u.epoch = w.epoch /\ w.table \in u.tables
  BY <1>2, Parts DEF UploaderOK, EpochsKnown, HasEpoch
<1>4. PICK h \in Group : EpochOf(u, h, barriers[h], tables[h], lastEpoch[h], mode[h])
  BY Parts DEF Epochs
<1>5. h = g
  BY <1>1, <1>3, <1>4, OneGroup DEF EpochOf
<1>6. \A j \in DOMAIN barriers[g] : ~(j < 1)
  <2>1. IsSeq(barriers[g])
    BY <1>1, Parts DEF Chain, ChainOf
  <2> QED BY <2>1 DEF IsSeq
<1>7. barriers[g][1].sync = u.tables
  BY <1>1, <1>3, <1>4, <1>5, <1>6 DEF EpochOf
<1> QED BY <1>1, <1>3, <1>7

\* What holds of the stages and the written data after a checkpoint is started, before finished syncs are answered.
StagesHold(ans, sy, tk) ==
  /\ Floors(mode, lastEpoch, barriers', actor, epoch, version, ans, sy)
  /\ StageData(written, ans, sy, tk)
  /\ StageFull(mode, version, written, ans, sy, tk)
  /\ AllData(working, mode, version, written, ans, sy, tk, spilledData', instData')

\* What relates the stages to the written data holds as well once finished syncs are answers.
LEMMA StagesKept ==
  ASSUME NEW ans, NEW ans2, NEW sy, NEW sy2, NEW tk, KeepsStages(ans, ans2, sy, sy2, tk, tk), StagesHold(ans, sy, tk)
  PROVE  StagesHold(ans2, sy2, tk)
<1>1. /\ \A g, e : HasStage(g, e, ans2, sy2) <=> HasStage(g, e, ans, sy)
      /\ \A w, g, e : InStage(w, g, e, ans2, sy2, tk) <=> InStage(w, g, e, ans, sy, tk)
  BY DEF KeepsStages
<1>2. Floors(mode, lastEpoch, barriers', actor, epoch, version, ans2, sy2)
  BY <1>1 DEF Floors, StagesHold
<1>3. StageData(written, ans2, sy2, tk)
  BY <1>1 DEF StageData, StagesHold
<1>4. StageFull(mode, version, written, ans2, sy2, tk)
  <2>1. StageFull(mode, version, written, ans, sy, tk)
    BY DEF StagesHold
  <2> QED BY <1>1, <2>1 DEF StageFull
<1>5. AllData(working, mode, version, written, ans2, sy2, tk, spilledData', instData')
  <2>1. AllData(working, mode, version, written, ans, sy, tk, spilledData', instData')
    BY DEF StagesHold
  <2> QED BY <1>1, <2>1 DEF AllData
<1> QED BY <1>2, <1>3, <1>4, <1>5 DEF StagesHold

\* The syncs and answers with the sync s of a checkpoint of database g.
CheckpointAdded(g, e, T, s, sy1) ==
  StageAdded(g, answers, syncing, sy1, s, tasks, tasks') /\ s.epoch = e /\ s.tables = T

\* The sync of a checkpoint is a new stage of its database.
LEMMA CheckpointAdds ==
  ASSUME NodeOK, DataOK, NEW g, NEW e, NEW T, NEW s, NEW extra, NEW td1, CheckpointStep(g, e, T, s, extra, td1),
         NEW sy1, sy1 = Append(syncing, s)
  PROVE  CheckpointAdded(g, e, T, s, sy1)
<1>1. SyncingStep(g, e, T, s, extra, td1)
  BY DEF CheckpointStep
<1>2. /\ \A k \in DOMAIN syncing : \A w : InSync(w, syncing[k], tasks') <=> InSync(w, syncing[k], tasks)
      /\ s.tables = T /\ s.epoch = e
  BY <1>1, SyncStages
<1>3. \A f : HasStage(g, f, answers, syncing) => f < e
  BY EarlierStages DEF CheckpointStep
<1>4. g \in Group /\ T # {} /\ T \subseteq TablesOf[g]
  BY <1>1 DEF SyncingStep
<1>5. IsSeq(syncing)
  BY Parts DEF UploaderOK, Shapes
<1>6. AnswersOK(answers, syncing)
  BY DataParts
<1>7. NewStage(g, answers, syncing, s, tasks, tasks')
  BY <1>2, <1>3, <1>4, <1>5, <1>6 DEF NewStage, Of
<1>8. StageAdded(g, answers, syncing, sy1, s, tasks, tasks')
  BY <1>7, StagesAdded
<1> QED BY <1>2, <1>8 DEF CheckpointAdded

\* A checkpoint's sync takes all that its database has written since the stage before it.
LEMMA CheckpointFull ==
  ASSUME NodeOK, DataOK, NEW g, NEW e, NEW T, NEW s, NEW extra, NEW td1, CheckpointStep(g, e, T, s, extra, td1),
         NEW w \in written, w.table \in TablesOf[g], version.epoch[g] < w.epoch, w.epoch <= e
  PROVE  InSync(w, s, tasks') \/ \E f : f < e /\ HasStage(g, f, answers, syncing) /\ InStage(w, g, f, answers, syncing, tasks)
<1>1. /\ SyncingStep(g, e, T, s, extra, td1) /\ Passed(g, e) /\ g \in Group /\ working /\ mode[g] = "running" /\ e \in Nat
  BY DEF CheckpointStep, SyncingStep, Passed
<1>2. w.epoch \in Nat /\ version.epoch[g] \in Nat
  BY <1>1, DataParts DEF Durability
<1>3. \/ Pending(w, instData, tasks, spilledData)
      \/ \E f : HasStage(g, f, answers, syncing) /\ InStage(w, g, f, answers, syncing, tasks)
  BY <1>1, <1>2, DataParts DEF AllData
<1>4. \A f : HasStage(g, f, answers, syncing) => f < e
  BY EarlierStages DEF CheckpointStep
<1>5. CASE Pending(w, instData, tasks, spilledData)
  <2>1. w.table \in T
    BY <1>5, CheckpointReaches
  <2>2. SyncedApart(e, T, s, td1)
    BY <1>1, SyncPending
  <2>3. ~(w.epoch > e)
    BY <1>1, <1>2
  <2> QED BY <1>5, <2>1, <2>2, <2>3 DEF SyncedApart
<1> QED BY <1>3, <1>4, <1>5

\* After a checkpoint is started the stages still hold, in order, what the databases have written.
LEMMA CheckpointStages ==
  ASSUME NodeOK, DataOK, NEW g, NEW e, NEW T, NEW s, NEW extra, NEW td1, CheckpointStep(g, e, T, s, extra, td1),
         NEW sy1, sy1 = Append(syncing, s)
  PROVE  StagesHold(answers, sy1, tasks')
<1>1. StageAdded(g, answers, syncing, sy1, s, tasks, tasks') /\ s.epoch = e /\ s.tables = T
  <2>1. CheckpointAdded(g, e, T, s, sy1)
    BY CheckpointAdds
  <2> QED BY <2>1 DEF CheckpointAdded
<1>2. /\ \A h \in Group : \A f : HasStage(h, f, answers, sy1) <=> HasStage(h, f, answers, syncing) \/ (h = g /\ f = e)
      /\ \A h \in Group : \A w, f : InStage(w, h, f, answers, sy1, tasks')
           <=> InStage(w, h, f, answers, syncing, tasks) \/ (h = g /\ f = e /\ InSync(w, s, tasks'))
  BY <1>1 DEF StageAdded
<1>3. /\ SyncingStep(g, e, T, s, extra, td1) /\ PopStep(g, barriers') /\ Passed(g, e) /\ g \in Group
      /\ T \subseteq TablesOf[g] /\ barriers[g][1].kind = "checkpoint" /\ e = barriers[g][1].prev /\ e \in Nat
  BY DEF CheckpointStep, SyncingStep
<1>4. SyncedApart(e, T, s, td1)
  BY <1>3, SyncPending
<1>5. Floors(mode, lastEpoch, barriers', actor, epoch, version, answers, sy1)
  <2>1. \A h \in Group : \A f : Over(f, h, mode, lastEpoch, barriers[h], actor, epoch) => Over(f, h, mode, lastEpoch, barriers'[h], actor, epoch)
    BY <1>3, PopFacts
  <2>2. Over(e, g, mode, lastEpoch, barriers'[g], actor, epoch)
    BY <1>3, CheckpointOver
  <2>3. version.epoch[g] < e
    BY <1>3, EarlierStages
  <2>4. Floors(mode, lastEpoch, barriers, actor, epoch, version, answers, syncing)
    BY DataParts
  <2> QED BY <1>2, <2>1, <2>2, <2>3, <2>4 DEF Floors
<1>6. StageData(written, answers, sy1, tasks')
  <2>1. \A w : InSync(w, s, tasks') => w \in written /\ w.table \in TablesOf[g] /\ w.epoch <= e
    BY <1>3, <1>4 DEF SyncedApart
  <2>2. StageData(written, answers, syncing, tasks)
    BY DataParts
  <2> QED BY <1>2, <2>1, <2>2 DEF StageData
<1>7. StageFull(mode, version, written, answers, sy1, tasks')
  <2> SUFFICES ASSUME NEW h \in Group, mode[h] = "running", NEW f, HasStage(h, f, answers, sy1), NEW w \in written,
                      w.table \in TablesOf[h], version.epoch[h] < w.epoch, w.epoch <= f
               PROVE  \E x : x <= f /\ HasStage(h, x, answers, sy1) /\ InStage(w, h, x, answers, sy1, tasks')
    BY DEF StageFull
  <2>1. CASE HasStage(h, f, answers, syncing)
    <3>1. PICK x : x <= f /\ HasStage(h, x, answers, syncing) /\ InStage(w, h, x, answers, syncing, tasks)
      BY <2>1, DataParts DEF StageFull
    <3> QED BY <3>1, <1>2
  <2>2. CASE h = g /\ f = e
    <3>1. InSync(w, s, tasks') \/ \E x : x < e /\ HasStage(g, x, answers, syncing) /\ InStage(w, g, x, answers, syncing, tasks)
      BY <2>2, CheckpointFull
    <3>2. CASE InSync(w, s, tasks')
      <4>1. e <= e
        BY <1>3
      <4> QED BY <2>2, <3>2, <4>1, <1>2
    <3>3. ASSUME NEW x, x < e, HasStage(g, x, answers, syncing), InStage(w, g, x, answers, syncing, tasks)
          PROVE  \E y : y <= f /\ HasStage(h, y, answers, sy1) /\ InStage(w, h, y, answers, sy1, tasks')
      <4>1. x \in Nat
        BY <3>3, <1>3, DataParts DEF Floors, Over
      <4>2. x <= e
        BY <4>1, <3>3, <1>3
      <4> QED BY <2>2, <3>3, <4>2, <1>2
    <3> QED BY <3>1, <3>2, <3>3
  <2> QED BY <1>2, <2>1, <2>2
<1>8. AllData(working, mode, version, written, answers, sy1, tasks', spilledData', instData')
  <2> SUFFICES ASSUME NEW h \in Group, working, mode[h] = "running", NEW w \in written, w.table \in TablesOf[h]
               PROVE  \/ w.epoch <= version.epoch[h]
                      \/ Pending(w, instData', tasks', spilledData')
                      \/ \E f : HasStage(h, f, answers, sy1) /\ InStage(w, h, f, answers, sy1, tasks')
    BY DEF AllData
  <2>1. \/ w.epoch <= version.epoch[h]
        \/ Pending(w, instData, tasks, spilledData)
        \/ \E f : HasStage(h, f, answers, syncing) /\ InStage(w, h, f, answers, syncing, tasks)
    BY DataParts DEF AllData
  <2>2. CASE Pending(w, instData, tasks, spilledData)
    <3>1. Pending(w, instData', tasks', spilledData') \/ InSync(w, s, tasks')
      BY <2>2, <1>4 DEF SyncedApart
    <3>2. CASE InSync(w, s, tasks')
      <4>1. w.table \in TablesOf[g]
        BY <3>2, <1>3, <1>4 DEF SyncedApart
      <4>2. h = g
        BY <4>1, <1>3, OneGroup
      <4> QED BY <3>2, <4>2, <1>2
    <3> QED BY <3>1, <3>2
  <2> QED BY <1>2, <2>1, <2>2
<1> QED BY <1>5, <1>6, <1>7, <1>8 DEF StagesHold

\* The epochs that actors write and barriers reach are still unsynced after a checkpoint is started.
LEMMA CheckpointUnsynced ==
  ASSUME NodeOK, DataOK, NEW g, NEW e, NEW T, NEW s, NEW extra, NEW td1, CheckpointStep(g, e, T, s, extra, td1),
         NEW td2, TablesStay(td1, td2)
  PROVE  Unsynced(working, actor, epoch, barriers', td2)
<1>1. /\ PopStep(g, barriers') /\ Passed(g, e) /\ g \in Group /\ T \subseteq TablesOf[g] /\ e \in Nat
      /\ barriers[g][1].kind = "checkpoint" /\ e = barriers[g][1].prev /\ LeftTables(tableData, td1, e, T)
  BY DEF CheckpointStep, SyncingStep, SyncStep
<1>2. Unsynced(working, actor, epoch, barriers', tableData) /\ Forward(barriers')
  BY <1>1, PopData
<1>3. Over(e, g, mode, lastEpoch, barriers'[g], actor, epoch)
  BY <1>1, CheckpointOver
<1>4. ASSUME NEW t, NEW f, HasEpoch(tableData, t, f), t \in T => f > e PROVE HasEpoch(td2, t, f)
  <2>1. HasEpoch(td1, t, f)
    BY <1>1, <1>4 DEF HasEpoch, LeftTables
  <2> QED BY <2>1 DEF TablesStay
<1>5. ASSUME working, NEW i \in Instance, actor[i] \in {"spawned", "waiting", "running"} PROVE HasEpoch(td2, TableOf[i], epoch[i].curr)
  <2>1. HasEpoch(tableData, TableOf[i], epoch[i].curr)
    BY <1>2, <1>5 DEF Unsynced
  <2>2. ASSUME TableOf[i] \in T PROVE epoch[i].curr > e
    <3>1. GroupOf[i] = g /\ Live(actor[i])
      BY <1>1, <1>5, <2>2, GroupIs DEF Live
    <3>2. e < epoch[i].curr
      BY <1>1, <3>1 DEF Passed
    <3> QED BY <3>2
  <2> QED BY <1>4, <2>1, <2>2
<1>6. ASSUME working, NEW h \in Group, NEW k \in DOMAIN barriers'[h], NEW i \in barriers'[h][k].remaining \ barriers'[h][k].stop
      PROVE  HasEpoch(td2, TableOf[i], barriers'[h][k].curr)
  <2>1. HasEpoch(tableData, TableOf[i], barriers'[h][k].curr)
    BY <1>2, <1>6 DEF Unsynced
  <2>2. ASSUME TableOf[i] \in T PROVE barriers'[h][k].curr > e
    <3>1. TableOf[i] \in TablesOf[h]
      BY <1>2, <1>6 DEF Forward
    <3>2. h = g
      BY <1>1, <2>2, <3>1, OneGroup
    <3>3. e < barriers'[g][k].curr
      BY <1>3, <3>2, <1>6 DEF Over
    <3> QED BY <3>2, <3>3
  <2> QED BY <1>4, <2>1, <2>2
<1> QED BY <1>5, <1>6 DEF Unsynced

\* A checkpoint's sync belongs to a running database: nothing of a database without a stream appears.
LEMMA CheckpointGone ==
  ASSUME NodeOK, DataOK, NEW g, NEW e, NEW T, NEW s, NEW extra, NEW td1, CheckpointStep(g, e, T, s, extra, td1),
         NEW sy1, CheckpointAdded(g, e, T, s, sy1), NEW ins2, \A i \in DOMAIN ins2 : i \in DOMAIN instData,
         NEW sy2, \A k \in DOMAIN sy2 : \E m \in DOMAIN sy1 : sy2[k].tables = sy1[m].tables
  PROVE  Gone(mode, ins2, sy2, actor) /\ Fresh(command, mode, ins2)
<1>1. g \in Group /\ T \subseteq TablesOf[g] /\ mode[g] = "running"
  BY DEF CheckpointStep, SyncingStep, Passed
<1>2. s.tables = T /\ \A k \in DOMAIN sy1 : (k \in DOMAIN syncing /\ sy1[k] = syncing[k]) \/ sy1[k] = s
  BY DEF CheckpointAdded, StageAdded
<1>3. Gone(mode, instData, syncing, actor) /\ Fresh(command, mode, instData)
  BY DataParts
<1>4. ASSUME NEW h \in Group, mode[h] = "cleared", NEW k \in DOMAIN sy2 PROVE sy2[k].tables \cap TablesOf[h] = {}
  <2>1. PICK m \in DOMAIN sy1 : sy2[k].tables = sy1[m].tables
    BY <1>4
  <2>2. CASE m \in DOMAIN syncing /\ sy1[m] = syncing[m]
    BY <1>3, <1>4, <2>1, <2>2 DEF Gone
  <2>3. CASE sy1[m] = s
    BY <1>1, <1>2, <1>4, <2>1, <2>3, OneGroup
  <2> QED BY <1>2, <2>2, <2>3
<1>5. Gone(mode, ins2, sy2, actor)
  BY <1>3, <1>4 DEF Gone
<1>6. Fresh(command, mode, ins2)
  BY <1>3 DEF Fresh
<1> QED BY <1>5, <1>6

\* complete_barrier of a checkpoint keeps the invariant.
LEMMA CheckpointData ==
  ASSUME NodeOK, DataOK, NEW g, NEW e, NEW T, NEW s, NEW extra, NEW td1, CheckpointStep(g, e, T, s, extra, td1)
  PROVE  DataOK'
<1> DEFINE sy1 == Append(syncing, s)
<1>1. /\ SyncingStep(g, e, T, s, extra, td1) /\ PopStep(g, barriers') /\ Passed(g, e)
      /\ UNCHANGED <<mode, tables, lastEpoch, command, actor, epoch, version, written, nextImm, working>>
  BY DEF CheckpointStep
<1>2. /\ UploaderOK(tasks', spilledData', sy1, td1, unsyncEpochs')
      /\ MayNotifySyncTask(sy1, td1, instData')
  BY <1>1 DEF SyncingStep, SyncStep
<1>3. sy1 = Append(syncing, s)
  OBVIOUS
<1> HIDE DEF sy1
<1>4. CheckpointAdded(g, e, T, s, sy1)
  BY <1>3, CheckpointAdds
<1>5. AnswersOK(answers, sy1)
  BY <1>4 DEF CheckpointAdded, StageAdded
<1>6. KeepsStages(answers, answers', sy1, syncing', tasks', tasks') /\ TablesStay(td1, tableData')
  BY <1>2, <1>5, NotifyingData
<1>7. StagesHold(answers, sy1, tasks')
  BY <1>3, CheckpointStages
<1>8. StagesHold(answers', syncing', tasks')
  BY <1>6, <1>7, StagesKept
<1>9. Unsynced(working, actor, epoch, barriers', tableData')
  BY <1>6, CheckpointUnsynced
<1>10. /\ \A i \in DOMAIN instData' : i \in DOMAIN instData
       /\ Instances(working, actor, epoch, instData')
  BY <1>1, SyncInsts
<1>11. AnswersOK(answers', syncing') /\ \A k \in DOMAIN syncing' : \E m \in DOMAIN sy1 : syncing'[k].tables = sy1[m].tables
  BY <1>6 DEF KeepsStages
<1>12. Gone(mode, instData', syncing', actor) /\ Fresh(command, mode, instData')
  BY <1>4, <1>10, <1>11, CheckpointGone
<1>13. PendingOK(written, instData', tasks', spilledData', td1)
  BY <1>1, SyncPending DEF SyncedApart
<1>14. PendingOK(written, instData', tasks', spilledData', tableData')
  BY <1>6, <1>13, PendingStays
<1>15. /\ Actors(actor, epoch, mode, barriers', lastEpoch, tables)
       /\ Forward(barriers') /\ Commands(command, mode, barriers', actor)
  BY <1>1, PopData
<1>16. Bounds(command, lastEpoch) /\ Durability(written, version, nextImm)
  BY DataParts
<1> QED BY <1>1, <1>8, <1>9, <1>10, <1>11, <1>12, <1>14, <1>15, <1>16 DEF DataOK, StagesHold

\* complete_barrier of a checkpoint starts a sync that the invariant describes.
LEMMA CheckpointTaken ==
  ASSUME NodeOK, DataOK, NEW g \in Group, CompleteBarrier(g), barriers[g][1].kind = "checkpoint", working
  PROVE  \E e, T, s, extra, td1 : CheckpointStep(g, e, T, s, extra, td1)
<1> DEFINE e == barriers[g][1].prev
           T == barriers[g][1].sync
<1>1. /\ PopStep(g, barriers')
      /\ UNCHANGED <<mode, tables, lastEpoch, command, actor, epoch, version, written, nextImm>>
      /\ StartSyncEpoch(e, T)
  BY CompleteIs
<1>2. mode[g] = "running" /\ barriers[g] # <<>>
  BY <1>1 DEF PopStep
<1>3. working' = working /\ \E s, extra, td1 : SyncStep(e, T, s, extra, td1)
  BY <1>1, <1>2, SyncKeeps
<1>4. e \in Nat /\ T \subseteq DOMAIN tableData /\ T # {} /\ T \subseteq TablesOf[g] /\ ReachesOnly(unsyncEpochs, e, T)
  <2>1. Awaiting(unsyncEpochs, g, barriers[g], tables[g], lastEpoch[g])
    BY <1>2, Parts DEF Queue
  <2>2. Chain(barriers, lastEpoch, mode) /\ Epochs(unsyncEpochs, barriers, tables, lastEpoch, mode) /\ EpochsKnown(tableData, unsyncEpochs)
    BY Parts DEF UploaderOK
  <2> QED BY <1>2, <2>1, <2>2, CheckpointTables
<1>5. Over(e, g, mode, lastEpoch, barriers'[g], actor, epoch)
  BY <1>1, CheckpointOver
<1>6. e = barriers[g][1].prev /\ T = barriers[g][1].sync
  OBVIOUS
<1> HIDE DEF e, T
<1>7. Passed(g, e)
  BY <1>2, <1>5 DEF Passed, Over
<1>8. PICK s, extra, td1 : SyncStep(e, T, s, extra, td1)
  BY <1>3
<1>9. SyncingStep(g, e, T, s, extra, td1)
  BY <1>4, <1>8 DEF SyncingStep
<1>10. CheckpointStep(g, e, T, s, extra, td1)
  BY <1>1, <1>3, <1>6, <1>7, <1>9 DEF CheckpointStep
<1> QED BY <1>10

\* Completing a barrier of a database keeps the invariant.
LEMMA CompleteData ==
  ASSUME NodeOK, DataOK, NEW g \in Group, CompleteBarrier(g)
  PROVE  DataOK'
<1>1. CASE barriers[g][1].kind # "checkpoint" \/ ~working
  BY <1>1, CompleteIdle
<1>2. CASE barriers[g][1].kind = "checkpoint" /\ working
  <2>1. PICK e, T, s, extra, td1 : CheckpointStep(g, e, T, s, extra, td1)
    BY <1>2, CheckpointTaken
  <2> QED BY <2>1, CheckpointData
<1> QED BY <1>1, <1>2, Parts

\* DataOK holds in the beginning.
LEMMA DataInitially ==
  ASSUME Init
  PROVE  DataOK
<1>1. /\ answers = <<>> /\ syncing = <<>> /\ tasks = <<>> /\ spilledData = {} /\ instData = Empty
      /\ mode = [g \in Group |-> "cleared"] /\ barriers = [g \in Group |-> <<>>] /\ lastEpoch = [g \in Group |-> 0]
      /\ command = [g \in Group |-> NoCommand] /\ actor = [i \in Instance |-> "none"]
      /\ epoch = [i \in Instance |-> NoEpoch] /\ written = {} /\ nextImm = 1
      /\ version = [epoch |-> [g \in Group |-> 0], data |-> {}]
  BY DEF Init, UploaderInit
<1>2. /\ \A g \in Group : mode[g] = "cleared" /\ DOMAIN barriers[g] = {} /\ lastEpoch[g] = 0
      /\ DOMAIN answers = {} /\ DOMAIN syncing = {} /\ DOMAIN tasks = {} /\ DOMAIN instData = {}
      /\ \A i \in Instance : actor[i] = "none"
  BY <1>1 DEF Empty
<1>3. Actors(actor, epoch, mode, barriers, lastEpoch, tables)
  BY <1>1, <1>2 DEF Actors, ActorState, Live
<1>4. Forward(barriers)
  BY <1>2 DEF Forward
<1>5. Commands(command, mode, barriers, actor)
  BY <1>2 DEF Commands, Unchanged
<1>6. Bounds(command, lastEpoch)
  BY <1>1, <1>2, GroupAssumption DEF Bounds
<1>7. Unsynced(working, actor, epoch, barriers, tableData)
  BY <1>2 DEF Unsynced
<1>8. Instances(working, actor, epoch, instData) /\ Fresh(command, mode, instData) /\ Gone(mode, instData, syncing, actor)
  BY <1>1, <1>2 DEF Instances, Fresh, Gone
<1>9. AnswersOK(answers, syncing)
  <2>1. IsSeq(answers)
    BY <1>1 DEF IsSeq
  <2> QED BY <1>2, <2>1 DEF AnswersOK, Ordered, Grouped
<1>10. \A g, e : ~HasStage(g, e, answers, syncing)
  BY <1>2 DEF HasStage
<1>11. version.epoch = [g \in Group |-> 0] /\ version.data = {} /\ version = [epoch |-> version.epoch, data |-> version.data]
  BY <1>1
<1>12. Floors(mode, lastEpoch, barriers, actor, epoch, version, answers, syncing)
  <2>1. \A g \in Group : Over(version.epoch[g], g, mode, lastEpoch, barriers[g], actor, epoch)
    BY <1>2, <1>11 DEF Over, Live
  <2> QED BY <1>10, <2>1 DEF Floors
<1>13. PendingOK(written, instData, tasks, spilledData, tableData)
  BY <1>1, NothingPending
<1>14. StageData(written, answers, syncing, tasks)
  BY <1>2 DEF StageData, InStage
<1>15. StageFull(mode, version, written, answers, syncing, tasks)
       /\ AllData(working, mode, version, written, answers, syncing, tasks, spilledData, instData)
  BY <1>1 DEF StageFull, AllData
<1>16. Durability(written, version, nextImm)
  BY <1>1, <1>11 DEF Durability
<1> QED BY <1>3, <1>4, <1>5, <1>6, <1>7, <1>8, <1>9, <1>12, <1>13, <1>14, <1>15, <1>16 DEF DataOK

\* Every step of the node keeps DataOK.
LEMMA DataStep ==
  ASSUME NodeOK, DataOK, [Next]_vars
  PROVE  DataOK'
<1>1. CASE Progress
  <2>1. CASE \E g \in Group : CompleteBarrier(g) \/ ResetDatabase(g)
    BY <2>1, CompleteData, ResetData
  <2>2. CASE \E i \in Instance : Build(i) \/ InitStore(i) \/ Seal(i) \/ DropStream(i)
    BY <2>2, BuildData, InitStoreData, SealData, DropData
  <2>3. CASE UploadedSst
    BY <2>3, UploadedData
  <2>4. CASE TakeSynced
    BY <2>4, SyncedData
  <2>5. CASE TakeSyncError
    BY <2>5, SyncErrorData
  <2>6. CASE ApplyVersionUpdate \/ NotifyVersion
    BY <2>6, VersionData
  <2>7. CASE AbortAll
    BY <2>7, FailData
  <2>8. CASE ResetNode
    BY <2>8, ResetNodeData
  <2> QED BY <1>1, <2>1, <2>2, <2>3, <2>4, <2>5, <2>6, <2>7, <2>8 DEF Progress
<1>2. CASE \E g \in Group : Inject(g) \/ ActorFails(g) \/ NodePanics(g)
  BY <1>2, InjectData, FailData
<1>3. CASE \E i \in Instance : Flush(i)
  BY <1>3, FlushData
<1>4. CASE SpillData \/ UploadFails
  BY <1>4, SpillingData, FailureData
<1>5. CASE UNCHANGED vars
  BY <1>5 DEF DataOK, vars, uploaderVars, nodeVars
<1> QED BY <1>1, <1>2, <1>3, <1>4, <1>5 DEF Next

\* The epochs of the abstract specification: all those the bounds let a database reach.
LEMMA EpochBound ==
  ASSUME NodeOK, DataOK, NEW g \in Group, NEW e \in Nat, e > 0, e <= lastEpoch[g]
  PROVE  e \in 1..(2 + Max({MaxEpoch[h] : h \in Group}))
<1> DEFINE S == {MaxEpoch[h] : h \in Group}
<1>1. S \subseteq Nat /\ S # {} /\ MaxEpoch[g] \in S /\ MaxEpoch[g] \in Nat
  BY GroupAssumption
<1>2. IsFiniteSet(S)
  <2> DEFINE f == [h \in Group |-> MaxEpoch[h]]
  <2>1. f \in Surjection(Group, S)
    BY DEF Surjection
  <2> HIDE DEF f, S
  <2> QED BY <2>1, GroupAssumption, FS_Surjection
<1> HIDE DEF S
<1>3. Max(S) \in Nat /\ MaxEpoch[g] <= Max(S)
  BY <1>1, <1>2, FiniteMax
<1>4. lastEpoch[g] \in Nat /\ lastEpoch[g] <= MaxEpoch[g] + 1
  BY DataParts, QueueFacts DEF Bounds
<1> DEFINE m == Max(S)
<1>5. m \in Nat /\ MaxEpoch[g] <= m
  BY <1>3
<1> HIDE DEF m
<1>6. e \in 1..(2 + m)
  BY <1>1, <1>4, <1>5
<1> QED BY <1>6 DEF m, S

\* A write of an actor is a write of the abstract specification.
LEMMA FlushWrites ==
  ASSUME NodeOK, DataOK, NEW i \in Instance, Flush(i)
  PROVE  Durable!Next
<1>1. /\ actor[i] = "running" /\ nextImm <= MaxImm /\ written' = written \cup {NewWrite(i)}
      /\ version' = version
  BY DEF Flush, NewWrite
<1> DEFINE w == NewWrite(i)
           g == GroupOf[i]
<1>2. /\ w.id = nextImm /\ w.table = TableOf[i] /\ w.epoch = epoch[i].curr /\ w.epoch \in Nat
      /\ g \in Group /\ w.table \in TablesOf[g]
      /\ version.epoch[g] < w.epoch /\ w.epoch <= lastEpoch[g]
      /\ nextImm \in Nat /\ nextImm > 0
      /\ \A x \in written : x.id < nextImm
  BY <1>1, NewWriteIs
<1>3. w = [id |-> nextImm, table |-> TableOf[i], epoch |-> epoch[i].curr]
  BY DEF NewWrite
<1> HIDE DEF w, g
<1>4. version.epoch[g] \in Nat
  BY <1>2, DataParts DEF Durability
<1>5. w.epoch \in 1..(2 + Max({MaxEpoch[h] : h \in Group}))
  <2>1. w.epoch > 0
    BY <1>2, <1>4
  <2> QED BY <1>2, <2>1, EpochBound
<1>6. nextImm \in 1..MaxImm
  BY <1>1, <1>2, GroupAssumption
<1>7. \A x \in written : x.id # nextImm
  <2>1. \A x \in written : x.id \in Nat
    BY DataParts DEF Durability
  <2> QED BY <1>2, <2>1
<1>8. w.epoch > version.epoch[g]
  BY <1>2, <1>4
<1>9. written' = written \cup {[id |-> nextImm, table |-> w.table, epoch |-> w.epoch]}
  BY <1>1, <1>2, <1>3 DEF w
<1>10. Durable!Write(nextImm, g, w.table, w.epoch)
  BY <1>1, <1>7, <1>8, <1>9 DEF Durable!Write
<1> QED BY <1>2, <1>5, <1>6, <1>10 DEF Durable!Next

\* The writes of database g up to epoch e.
UpTo(g, e) == {x.id : x \in {y \in written : y.table \in TablesOf[g] /\ y.epoch <= e}}

\* The version that meta commits for a synced answer holds all that the database wrote up to its epoch, and nothing else is new.
LEMMA CommittedIs ==
  ASSUME NodeOK, DataOK, NEW g, TakenBy(g), mode[g] = "running"
  PROVE  /\ answers[1].epoch > version.epoch[g]
         /\ answers[1].epoch \in 1..(2 + Max({MaxEpoch[h] : h \in Group}))
         /\ version'.epoch = [version.epoch EXCEPT ![g] = answers[1].epoch]
         /\ version'.data = version.data \cup UpTo(g, answers[1].epoch)
<1> DEFINE a == answers[1]
<1>1. g \in Group /\ AnswerIs(a, g) /\ version' = [epoch |-> Put(version.epoch, g, a.epoch), data |-> version.data \cup ImmsOf(a)]
  BY DEF TakenBy
<1> HIDE DEF a
<1>2. /\ a.epoch \in Nat /\ version.epoch[g] \in Nat /\ version.epoch[g] < a.epoch
      /\ Over(a.epoch, g, mode, lastEpoch, barriers[g], actor, epoch)
      /\ \A w : InUploaded(w, a.uploaded) => w \in written /\ w.table \in TablesOf[g] /\ w.epoch <= a.epoch /\ w.epoch \in Nat
      /\ \A w \in written : w.table \in TablesOf[g] /\ version.epoch[g] < w.epoch /\ w.epoch <= a.epoch
                            => InUploaded(w, a.uploaded)
  BY <1>1 DEF AnswerIs
<1>3. a.epoch \in 1..(2 + Max({MaxEpoch[h] : h \in Group}))
  <2>1. a.epoch > 0 /\ a.epoch <= lastEpoch[g]
    BY <1>2 DEF Over
  <2> QED BY <1>1, <1>2, <2>1, EpochBound
<1>4. version'.epoch = [version.epoch EXCEPT ![g] = a.epoch] /\ version'.data = version.data \cup ImmsOf(a)
  BY <1>1 DEF Put
<1>5. /\ \A w \in written : w.epoch \in Nat /\ (w.table \in TablesOf[g] => (w.id \in version.data <=> w.epoch <= version.epoch[g]))
  BY <1>1, DataParts DEF Durability
<1>6. ASSUME NEW id \in ImmsOf(a) PROVE id \in UpTo(g, a.epoch)
  <2>1. PICK w : InUploaded(w, a.uploaded) /\ w.id = id
    BY <1>6, ImmsAre
  <2> QED BY <2>1, <1>2 DEF UpTo
<1>7. ASSUME NEW id \in UpTo(g, a.epoch) PROVE id \in version.data \cup ImmsOf(a)
  <2>1. PICK w \in written : w.table \in TablesOf[g] /\ w.epoch <= a.epoch /\ w.id = id
    BY <1>7 DEF UpTo
  <2>2. CASE w.epoch <= version.epoch[g]
    BY <2>1, <2>2, <1>5
  <2>3. CASE version.epoch[g] < w.epoch
    <3>1. InUploaded(w, a.uploaded)
      BY <2>1, <2>3, <1>2
    <3> QED BY <2>1, <3>1, ImmsAre
  <2> QED BY <2>1, <2>2, <2>3, <1>2, <1>5
<1>8. version'.data = version.data \cup UpTo(g, a.epoch)
  BY <1>4, <1>6, <1>7
<1>9. a.epoch > version.epoch[g]
  BY <1>2
<1> QED BY <1>3, <1>4, <1>8, <1>9 DEF a

\* A committed checkpoint is a checkpoint of the abstract specification; an answer that is discarded is not visible.
LEMMA SyncedCheckpoints ==
  ASSUME NodeOK, DataOK, TakeSynced
  PROVE  Durable!Next \/ UNCHANGED <<written, version>>
<1>1. PICK g \in Group : TakenBy(g)
  BY TakenIs
<1>2. written' = written /\ (mode[g] # "running" => version' = version)
  BY <1>1 DEF TakenBy
<1>3. CASE mode[g] = "running"
  <2> DEFINE e == answers[1].epoch
  <2>1. /\ e > version.epoch[g] /\ e \in 1..(2 + Max({MaxEpoch[h] : h \in Group}))
        /\ version'.epoch = [version.epoch EXCEPT ![g] = e]
        /\ version'.data = version.data \cup UpTo(g, e)
    BY <1>1, <1>3, CommittedIs
  <2> HIDE DEF e
  <2>2. Durable!Checkpoint(g, e)
    BY <1>2, <2>1 DEF Durable!Checkpoint, UpTo
  <2> QED BY <2>1, <2>2 DEF Durable!Next
<1> QED BY <1>2, <1>3

\* The restart of a database rolls back what was not committed, in the abstract specification too.
LEMMA InitialRollsBack ==
  ASSUME NodeOK, DataOK, NEW g \in Group, InjectInitial(g)
  PROVE  Durable!Next
<1>1. /\ mode[g] = "cleared" /\ \A k \in DOMAIN answers : answers[k].tables \cap TablesOf[g] = {}
      /\ written' = RolledBack(g) /\ version' = version
  BY DEF InjectInitial, RolledBack
<1>2. \A w \in written : w \in RolledBack(g) <=> (w.table \in TablesOf[g] => w.epoch <= version.epoch[g])
  BY <1>1, RollbackData
<1>3. RolledBack(g) \subseteq written
  BY DEF RolledBack
<1>4. written' = {x \in written : x.table \in TablesOf[g] => x.epoch <= version.epoch[g]}
  BY <1>1, <1>2, <1>3
<1>5. Durable!Rollback(g)
  BY <1>1, <1>4 DEF Durable!Rollback
<1> QED BY <1>5 DEF Durable!Next

\* Every step of the node is a step of the abstract specification or invisible in it.
LEMMA DurableStep ==
  ASSUME NodeOK, DataOK, [Next]_vars
  PROVE  Durable!Next \/ UNCHANGED <<written, version>>
<1>1. CASE Progress
  <2>1. CASE \E g \in Group : CompleteBarrier(g) \/ ResetDatabase(g)
    BY <2>1 DEF CompleteBarrier, ResetDatabase
  <2>2. CASE \E i \in Instance : Build(i) \/ InitStore(i) \/ Seal(i) \/ DropStream(i)
    BY <2>2 DEF Build, InitStore, Seal, DropStream
  <2>3. CASE UploadedSst \/ TakeSyncError \/ ApplyVersionUpdate \/ NotifyVersion
    BY <2>3 DEF UploadedSst, TakeSyncError, ApplyVersionUpdate, NotifyVersion
  <2>4. CASE TakeSynced
    BY <2>4, SyncedCheckpoints
  <2>5. CASE AbortAll \/ ResetNode
    BY <2>5 DEF AbortAll, Suspend, ResetNode
  <2> QED BY <1>1, <2>1, <2>2, <2>3, <2>4, <2>5 DEF Progress
<1>2. ASSUME NEW g \in Group, Inject(g) PROVE Durable!Next \/ UNCHANGED <<written, version>>
  <2>1. CASE InjectInitial(g)
    BY <2>1, InitialRollsBack
  <2>2. CASE \E kind, cmd, T, stop, new : InjectCommand(g, kind, cmd, T, stop, new)
    BY <2>2 DEF InjectCommand
  <2> QED BY <1>2, <2>1, <2>2 DEF Inject, InjectPlain, InjectResume, InjectPause, InjectUpdate, InjectDrop
<1>3. CASE \E g \in Group : ActorFails(g) \/ NodePanics(g)
  BY <1>3 DEF ActorFails, NodePanics, Suspend
<1>4. CASE \E i \in Instance : Flush(i)
  BY <1>4, FlushWrites
<1>5. CASE SpillData \/ UploadFails
  BY <1>5 DEF SpillData, UploadFails, nodeVars
<1>6. CASE UNCHANGED vars
  BY <1>6 DEF vars, nodeVars
<1> QED BY <1>1, <1>2, <1>3, <1>4, <1>5, <1>6 DEF Next

\* For every set of databases, tables and instances, the storage of a node implements DurableState: a checkpoint that
\* meta commits holds all that its database wrote up to the epoch and nothing newer, whichever way each imm took, and
\* failures, resets and aborted databases can only roll back to the last checkpoint.
THEOREM NodeImplementsDurableState == Spec => ImplementsDurableState
<1>1. Init => NodeOK /\ DataOK
  BY InitialState, DataInitially
<1>2. NodeOK /\ DataOK /\ [Next]_vars => NodeOK' /\ DataOK'
  BY NodeStep, DataStep
<1>3. Init => Durable!Init
  BY DEF Init, Durable!Init
<1>4. NodeOK /\ DataOK /\ [Next]_vars => [Durable!Next]_(Durable!vars)
  <2>1. ASSUME NodeOK, DataOK, [Next]_vars PROVE Durable!Next \/ UNCHANGED Durable!vars
    <3>1. Durable!Next \/ UNCHANGED <<written, version>>
      BY <2>1, DurableStep
    <3> QED BY <3>1 DEF Durable!vars
  <2> QED BY <2>1
<1> QED BY <1>1, <1>2, <1>3, <1>4, PTL DEF Spec, ImplementsDurableState, Durable!Spec

=============================================================================
