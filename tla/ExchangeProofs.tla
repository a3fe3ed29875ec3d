--------------------------- MODULE ExchangeProofs ---------------------------
(***************************************************************************)
(* Proofs about Exchange, for any number of permits, any batch, any sizes  *)
(* of chunks and any number of messages.                                   *)
(*                                                                         *)
(* The permits in transit are a sum over three queues.  Each message is    *)
(* stamped with the total of the permits up to it, and the stamps of a     *)
(* queue form a chain from the total at which its reader is to the total   *)
(* at which its writer is: the steps need no induction over a queue, and   *)
(* one induction (ChainTotal) turns a chain into the sum over its queue.   *)
(***************************************************************************)
EXTENDS Exchange, WellFoundedInduction, TLAPS

AtMost(p, q) == p.rec <= q.rec /\ p.bar <= q.bar

\* The messages of q lead from the total first to the total last.
Chain(q, first, last) ==
  /\ AtMost(first, last)
  /\ q = <<>> => first = last
  /\ q # <<>> => /\ q[1].upto = Plus(first, q[1].permits)
                 /\ q[Len(q)].upto = last
  /\ \A i \in 1..Len(q) : AtMost(q[i].upto, last)
  /\ \A i \in 2..Len(q) : q[i].upto = Plus(q[i-1].upto, q[i].permits)

\* Every message takes permits of one semaphore only.
OneKind(p) == p.rec = 0 \/ p.bar = 0
OneKindEach(q) == \A i \in 1..Len(q) : OneKind(q[i].permits)

\* The permits given out and not given back are those missing.
Balance ==
  /\ AtMost(returned, acquired)
  /\ sem.rec = InitialPermits - (acquired.rec - returned.rec)
  /\ sem.bar = ConcurrentBarriers - (acquired.bar - returned.bar)

Chains ==
  /\ Chain(chan, forwarded, acquired)
  /\ link => /\ Chain(wire, received, forwarded)
             /\ Chain(back, returned, GivenBack)
  /\ OneKindEach(chan) /\ OneKindEach(wire)

\* RemoteInput never keeps a full batch.
BatchNotFull == accumulated = 0 \/ accumulated < BatchedPermits

\* A local edge and a lost connection have nothing in transit.
NoTransit ==
  /\ ~remote => /\ forwarded = received /\ received = returned
                /\ accumulated = 0 /\ link
  /\ (~remote \/ ~link) => wire = <<>> /\ back = <<>>

IInv == TypeOK /\ Balance /\ Chains /\ BatchNotFull /\ NoTransit

-----------------------------------------------------------------------------
Semaphores == [rec : 0..InitialPermits, bar : 0..ConcurrentBarriers]

\* Sums of permits are permits, computed by semaphore.
LEMMA PlusPermits ==
  ASSUME NEW p \in Permits, NEW q \in Permits
  PROVE  /\ Plus(p, q) \in Permits
         /\ Plus(p, q).rec = p.rec + q.rec /\ Plus(p, q).bar = p.bar + q.bar
         /\ p.rec \in Nat /\ p.bar \in Nat
  BY DEF Plus, Permits

\* Differences of permits are computed by semaphore.
LEMMA MinusPermits ==
  ASSUME NEW p \in Permits, NEW q \in Permits, AtMost(q, p)
  PROVE  /\ Minus(p, q) \in Permits
         /\ Minus(p, q).rec = p.rec - q.rec /\ Minus(p, q).bar = p.bar - q.bar
  BY DEF Minus, Permits, AtMost

\* A stamp is the total before the message and its permits.
LEMMA StampedPermits ==
  ASSUME NEW p \in Permits, NEW before \in Permits
  PROVE  /\ Stamped(p, before) \in StampedMessage
         /\ Stamped(p, before).permits = p
         /\ Stamped(p, before).upto = Plus(before, p)
  BY PlusPermits DEF Stamped, StampedMessage

\* The values of the semaphores are the permits within their initial numbers.
LEMMA SemaphoreValues ==
  /\ \A s \in Semaphores : s \in Permits /\ s.rec <= InitialPermits /\ s.bar <= ConcurrentBarriers
  /\ \A s \in Permits : s.rec <= InitialPermits /\ s.bar <= ConcurrentBarriers => s \in Semaphores
  BY PermitsAssumption DEF Semaphores, Permits

\* Appending a message stamped with the writer's total continues the chain.
LEMMA ChainAppend ==
  ASSUME NEW q \in Seq(StampedMessage), NEW first \in Permits, NEW last \in Permits,
         NEW p \in Permits, Chain(q, first, last)
  PROVE  Chain(Append(q, Stamped(p, last)), first, Plus(last, p))
<1> DEFINE m == Stamped(p, last)
           r == Append(q, m)
<1>1. m \in StampedMessage /\ m.upto = Plus(last, p) /\ m.permits = p
  BY DEF Stamped, StampedMessage, Plus, Permits
<1>2. /\ r \in Seq(StampedMessage) /\ Len(r) = Len(q) + 1 /\ r # <<>>
      /\ r[Len(q) + 1] = m
      /\ \A i \in 1..Len(q) : r[i] = q[i]
  BY <1>1
<1>3. AtMost(first, Plus(last, p)) /\ AtMost(last, Plus(last, p))
  BY DEF Chain, AtMost, Plus, Permits
<1>4. \A i \in 1..Len(r) : AtMost(r[i].upto, Plus(last, p))
  <2> SUFFICES ASSUME NEW i \in 1..Len(r) PROVE AtMost(r[i].upto, Plus(last, p))
    OBVIOUS
  <2>1. CASE i = Len(q) + 1
    BY <2>1, <1>1, <1>2, <1>3 DEF AtMost, Plus, Permits
  <2>2. CASE i \in 1..Len(q)
    <3>1. q[i] \in StampedMessage /\ AtMost(q[i].upto, last)
      BY <2>2 DEF Chain
    <3>2. r[i].upto = q[i].upto
      BY <2>2, <1>2
    <3>3. q[i].upto \in Permits
      BY <3>1 DEF StampedMessage
    <3>4. Plus(last, p) \in Permits
      BY PlusPermits
    <3>5. \A x, y, z \in Permits : AtMost(x, y) /\ AtMost(y, z) => AtMost(x, z)
      BY DEF AtMost, Permits
    <3> QED BY <3>1, <3>2, <3>3, <3>4, <3>5, <1>3
  <2> QED BY <2>1, <2>2, <1>2
<1>5. \A i \in 2..Len(r) : r[i].upto = Plus(r[i-1].upto, r[i].permits)
  <2> SUFFICES ASSUME NEW i \in 2..Len(r) PROVE r[i].upto = Plus(r[i-1].upto, r[i].permits)
    OBVIOUS
  <2>1. CASE i = Len(q) + 1
    <3>1. q # <<>> /\ r[i-1] = q[Len(q)]
      BY <2>1, <1>2
    <3>2. q[Len(q)].upto = last
      BY <3>1 DEF Chain
    <3> QED BY <2>1, <3>1, <3>2, <1>1, <1>2
  <2>2. CASE i \in 2..Len(q)
    BY <2>2, <1>2 DEF Chain
  <2> QED BY <2>1, <2>2, <1>2
<1>6. r[1].upto = Plus(first, r[1].permits)
  <2>1. CASE q = <<>>
    BY <2>1, <1>1, <1>2 DEF Chain
  <2>2. CASE q # <<>>
    BY <2>2, <1>2 DEF Chain
  <2> QED BY <2>1, <2>2
<1> QED BY <1>1, <1>2, <1>3, <1>4, <1>5, <1>6 DEF Chain

\* Taking the first message moves the reader's total to its stamp.
LEMMA ChainTail ==
  ASSUME NEW q \in Seq(StampedMessage), NEW first \in Permits, NEW last \in Permits,
         Chain(q, first, last), q # <<>>
  PROVE  /\ Chain(Tail(q), Head(q).upto, last)
         /\ Head(q) \in StampedMessage
         /\ Head(q).upto = Plus(first, Head(q).permits)
         /\ AtMost(first, Head(q).upto)
         /\ AtMost(Head(q).upto, last)
<1> DEFINE r == Tail(q)
<1>1. /\ r \in Seq(StampedMessage) /\ Len(r) = Len(q) - 1 /\ Len(q) >= 1
      /\ Head(q) = q[1] /\ q[1] \in StampedMessage
      /\ \A i \in 1..Len(r) : r[i] = q[i+1]
  OBVIOUS
<1>2. /\ Head(q).upto = Plus(first, Head(q).permits)
      /\ AtMost(Head(q).upto, last)
  BY <1>1 DEF Chain
<1>3. AtMost(first, Head(q).upto)
  BY <1>1, <1>2 DEF AtMost, Plus, Permits, StampedMessage
<1>4. r = <<>> => Head(q).upto = last
  <2>1. r = <<>> => Len(q) = 1
    <3>1. ASSUME NEW e, e = <<>> PROVE Len(e) = 0
      BY <3>1
    <3>2. r = <<>> => Len(r) = 0
      BY <3>1, Zenon
    <3>3. Len(r) = Len(q) - 1 /\ Len(q) \in Nat
      BY <1>1
    <3> HIDE DEF r
    <3> QED BY <3>2, <3>3
  <2>2. q[Len(q)].upto = last
    BY DEF Chain
  <2> QED BY <1>1, <2>1, <2>2
<1>5. r # <<>> => /\ r[1].upto = Plus(Head(q).upto, r[1].permits)
                  /\ r[Len(r)].upto = last
  BY <1>1 DEF Chain
<1>6. \A i \in 1..Len(r) : AtMost(r[i].upto, last)
  BY <1>1 DEF Chain
<1>7. \A i \in 2..Len(r) : r[i].upto = Plus(r[i-1].upto, r[i].permits)
  <2> SUFFICES ASSUME NEW i \in 2..Len(r) PROVE r[i].upto = Plus(r[i-1].upto, r[i].permits)
    OBVIOUS
  <2>1. r[i] = q[i+1] /\ r[i-1] = q[i] /\ i + 1 \in 2..Len(q)
    BY <1>1
  <2> QED BY <2>1 DEF Chain
<1> QED BY <1>1, <1>2, <1>3, <1>4, <1>5, <1>6, <1>7 DEF Chain

\* Queues of messages that each take permits of one semaphore stay so.
LEMMA OneKindQueues ==
  ASSUME NEW q \in Seq(StampedMessage), OneKindEach(q)
  PROVE  /\ \A m \in StampedMessage : OneKind(m.permits) => OneKindEach(Append(q, m))
         /\ q # <<>> => OneKindEach(Tail(q)) /\ OneKind(Head(q).permits)
<1>1. ASSUME NEW m \in StampedMessage, OneKind(m.permits) PROVE OneKindEach(Append(q, m))
  BY <1>1 DEF OneKindEach
<1>2. ASSUME q # <<>> PROVE OneKindEach(Tail(q)) /\ OneKind(Head(q).permits)
  BY <1>2 DEF OneKindEach
<1> QED BY <1>1, <1>2

\* What a sender waits for fits into an idle channel.
LEMMA MessagePermits ==
  ASSUME NEW m \in Message
  PROVE  /\ m.permits \in Permits /\ OneKind(m.permits)
         /\ m.permits.rec <= MaxChunkPermits /\ m.permits.bar <= 1
  BY PermitsAssumption
  DEF Message, ChunkPermits, Clamp, MaxChunkPermits, Record, Barrier, NoPermits, Permits, OneKind

-----------------------------------------------------------------------------
\* A fresh channel satisfies the invariant.
LEMMA InitIInv == Init => IInv
<1> SUFFICES ASSUME Init PROVE IInv
  OBVIOUS
<1>1. TypeOK
  <2>1. NoPermits \in Permits /\ sem \in Semaphores
    BY PermitsAssumption DEF Init, NoPermits, Permits, Semaphores
  <2>2. <<>> \in Seq(StampedMessage)
    OBVIOUS
  <2> QED BY <2>1, <2>2 DEF Init, TypeOK, Semaphores
<1>2. Balance /\ BatchNotFull /\ NoTransit
  BY PermitsAssumption DEF Init, Balance, BatchNotFull, NoTransit, AtMost, NoPermits
<1>3. Chain(<<>>, NoPermits, NoPermits)
  BY DEF Chain, AtMost, NoPermits
<1>4. GivenBack = NoPermits
  BY DEF Init, GivenBack, NoPermits
<1>5. OneKindEach(<<>>)
  BY DEF OneKindEach
<1>6. Chains
  BY <1>3, <1>4, <1>5 DEF Init, Chains
<1> QED BY <1>1, <1>2, <1>6 DEF IInv

\* send() with enough permits: the semaphores and the channel stay in balance.
LEMMA SendAcquiredIInv == IInv /\ SendAcquired => IInv'
<1> SUFFICES ASSUME IInv, SendAcquired PROVE IInv'
  OBVIOUS
<1> USE DEF IInv
<1> DEFINE p == pending.permits
<1>1. pending \in Message /\ p \in Permits /\ OneKind(p)
  BY MessagePermits DEF SendAcquired, TypeOK
<1>a. /\ acquired \in Permits /\ returned \in Permits /\ sem \in Permits
      /\ sem.rec <= InitialPermits /\ sem.bar <= ConcurrentBarriers
      /\ returned.rec \in Nat /\ returned.bar \in Nat
  BY SemaphoreValues, PlusPermits DEF TypeOK, Semaphores
<1>2. Stamped(p, acquired) \in StampedMessage /\ Stamped(p, acquired).permits = p
  BY <1>1, <1>a, StampedPermits
<1>3. /\ acquired' \in Permits
      /\ acquired'.rec = acquired.rec + p.rec /\ acquired'.bar = acquired.bar + p.bar
      /\ acquired.rec \in Nat /\ acquired.bar \in Nat /\ p.rec \in Nat /\ p.bar \in Nat
  BY <1>1, <1>a, PlusPermits DEF SendAcquired
<1>4. /\ sem' \in Semaphores
      /\ sem'.rec = sem.rec - p.rec /\ sem'.bar = sem.bar - p.bar
  <2>1. AtMost(p, sem) /\ sem' = Minus(sem, p)
    BY DEF SendAcquired, AtMost
  <2>2. /\ sem' \in Permits
        /\ sem'.rec = sem.rec - p.rec /\ sem'.bar = sem.bar - p.bar
    BY <1>1, <1>a, <2>1, MinusPermits
  <2>3. sem.rec \in Nat /\ sem.bar \in Nat
    BY <1>a, PlusPermits
  <2>4. sem'.rec <= InitialPermits /\ sem'.bar <= ConcurrentBarriers
    BY <1>a, <1>3, <2>2, <2>3, PermitsAssumption
  <2> QED BY <2>2, <2>4, SemaphoreValues
<1>5. TypeOK'
  BY <1>2, <1>3, <1>4 DEF SendAcquired, TypeOK, Semaphores
<1>6. Balance'
  <2>1. returned' = returned
    BY DEF SendAcquired
  <2> QED BY <1>a, <1>3, <1>4, <2>1, PermitsAssumption DEF Balance, AtMost
<1>7. Chain(chan', forwarded', acquired')
  BY <1>1, ChainAppend DEF SendAcquired, TypeOK, Chains
<1>8. OneKindEach(chan')
  BY <1>1, <1>2, OneKindQueues DEF SendAcquired, TypeOK, Chains
<1>9. Chains'
  BY <1>7, <1>8 DEF SendAcquired, Chains, GivenBack
<1> QED BY <1>5, <1>6, <1>9 DEF SendAcquired, BatchNotFull, NoTransit

\* Giving back permits that have been taken keeps the balance.
LEMMA GiveBack ==
  ASSUME Balance, NEW p \in Permits, sem \in Permits,
         acquired \in Permits, returned \in Permits,
         sem' = Plus(sem, p), returned' = Plus(returned, p), acquired' = acquired,
         AtMost(returned', acquired)
  PROVE  Balance' /\ sem' \in Semaphores
<1>1. /\ sem' \in Permits
      /\ sem'.rec = sem.rec + p.rec /\ sem'.bar = sem.bar + p.bar
      /\ returned'.rec = returned.rec + p.rec /\ returned'.bar = returned.bar + p.bar
  BY PlusPermits
<1>2. /\ {sem.rec, sem.bar, p.rec, p.bar} \subseteq Nat
      /\ {acquired.rec, acquired.bar, returned.rec, returned.bar} \subseteq Nat
  BY PlusPermits
<1>3. Balance'
  BY <1>1, <1>2, PermitsAssumption DEF Balance, AtMost
<1>4. sem'.rec <= InitialPermits /\ sem'.bar <= ConcurrentBarriers
  BY <1>1, <1>2, PermitsAssumption DEF Balance, AtMost
<1> QED BY <1>1, <1>3, <1>4, SemaphoreValues

\* A local receiver gives the permits of the message back at once.
LEMMA RecvIInv == IInv /\ Recv => IInv'
<1> SUFFICES ASSUME IInv, Recv PROVE IInv'
  OBVIOUS
<1> USE DEF IInv
<1> DEFINE m == Head(chan)
<1>1. /\ Chain(chan', m.upto, acquired)
      /\ m \in StampedMessage
      /\ m.upto = Plus(forwarded, m.permits)
      /\ AtMost(m.upto, acquired)
  BY ChainTail DEF Recv, TypeOK, Chains
<1>2. /\ forwarded' = m.upto /\ received' = m.upto /\ returned' = m.upto
      /\ acquired' = acquired /\ sem' = Plus(sem, m.permits)
      /\ link /\ accumulated = 0 /\ wire = <<>> /\ back = <<>> /\ returned = forwarded
  BY DEF Recv, NoTransit
<1>3. m.upto \in Permits /\ m.permits \in Permits
  BY <1>1 DEF StampedMessage
<1>4. Balance' /\ sem' \in Semaphores
  <2>1. sem \in Permits /\ forwarded \in Permits /\ acquired \in Permits
    BY SemaphoreValues DEF TypeOK, Semaphores
  <2> QED BY <1>1, <1>2, <1>3, <2>1, GiveBack
<1>6. TypeOK'
  BY <1>2, <1>3, <1>4 DEF Recv, TypeOK, Semaphores
<1>7. Chain(<<>>, m.upto, m.upto)
  BY <1>3 DEF Chain, AtMost, Permits
<1>8. GivenBack' = m.upto
  BY <1>2, <1>3 DEF Recv, GivenBack, Permits
<1>9. Chains'
  BY <1>1, <1>2, <1>7, <1>8, OneKindQueues DEF Recv, TypeOK, Chains
<1> QED BY <1>2, <1>4, <1>6, <1>9 DEF Recv, BatchNotFull, NoTransit

\* The exchange service moves a message from the channel to the wire.
LEMMA RecvRawIInv == IInv /\ RecvRaw => IInv'
<1> SUFFICES ASSUME IInv, RecvRaw PROVE IInv'
  OBVIOUS
<1> USE DEF IInv
<1> DEFINE m == Head(chan)
<1>1. /\ Chain(chan', m.upto, acquired)
      /\ m \in StampedMessage
      /\ m.upto = Plus(forwarded, m.permits)
  BY ChainTail DEF RecvRaw, TypeOK, Chains
<1>2. OneKindEach(chan') /\ OneKind(m.permits)
  BY OneKindQueues DEF RecvRaw, TypeOK, Chains
<1>3. m.upto \in Permits /\ m.permits \in Permits /\ m = Stamped(m.permits, forwarded)
  BY <1>1 DEF StampedMessage, Stamped
<1>4. TypeOK'
  BY <1>1, <1>3 DEF RecvRaw, TypeOK
<1>5. link => Chain(wire', received, m.upto)
  <2>1. forwarded \in Permits /\ received \in Permits /\ wire \in Seq(StampedMessage)
    BY DEF TypeOK
  <2>2. link => Chain(wire, received, forwarded) /\ wire' = Append(wire, m)
    BY DEF Chains, RecvRaw
  <2> QED BY <1>1, <1>3, <2>1, <2>2, ChainAppend
<1>6. OneKindEach(wire')
  BY <1>1, <1>2, OneKindQueues DEF RecvRaw, TypeOK, Chains
<1>7. Chains'
  BY <1>1, <1>2, <1>5, <1>6 DEF RecvRaw, Chains, GivenBack
<1> QED BY <1>4, <1>7 DEF RecvRaw, Balance, BatchNotFull, NoTransit

\* The exchange service adds permits that came back.
LEMMA AddPermitsIInv == IInv /\ AddPermits => IInv'
<1> SUFFICES ASSUME IInv, AddPermits PROVE IInv'
  OBVIOUS
<1> USE DEF IInv
<1> DEFINE m == Head(back)
<1>1. /\ Chain(chan, forwarded, acquired)
      /\ Chain(wire, received, forwarded)
      /\ Chain(back, returned, GivenBack)
  BY DEF AddPermits, Chains
<1>2. GivenBack \in Permits
  <2>1. /\ received.rec \in Nat /\ received.bar \in Nat
        /\ returned.rec \in Nat /\ accumulated \in Nat
    BY PlusPermits DEF TypeOK
  <2>2. returned.rec <= received.rec - accumulated
    BY <1>1 DEF Chain, AtMost, GivenBack
  <2>3. received.rec - accumulated \in Nat
    BY <2>1, <2>2
  <2> QED BY <2>1, <2>3 DEF GivenBack, Permits
<1>3. /\ Chain(back', m.upto, GivenBack)
      /\ m \in StampedMessage
      /\ m.upto = Plus(returned, m.permits)
      /\ AtMost(m.upto, GivenBack)
  BY <1>1, <1>2, ChainTail DEF AddPermits, TypeOK
<1>4. m.upto \in Permits /\ m.permits \in Permits
  BY <1>3 DEF StampedMessage
<1>5. AtMost(m.upto, acquired)
  <2>1. AtMost(received, forwarded) /\ AtMost(forwarded, acquired)
    BY <1>1 DEF Chain
  <2>2. {received.rec, received.bar, forwarded.rec, forwarded.bar, acquired.rec,
         acquired.bar, m.upto.rec, m.upto.bar, accumulated} \subseteq Nat
    <3>1. /\ received \in Permits /\ forwarded \in Permits /\ acquired \in Permits
          /\ accumulated \in Nat
      BY DEF TypeOK
    <3> QED BY <1>4, <3>1 DEF Permits
  <2>3. m.upto.rec <= received.rec - accumulated /\ m.upto.bar <= received.bar
    BY <1>3 DEF AtMost, GivenBack
  <2> QED BY <2>1, <2>2, <2>3 DEF AtMost
<1>6. Balance' /\ sem' \in Semaphores
  <2>1. sem \in Permits /\ acquired \in Permits /\ returned \in Permits
    BY SemaphoreValues DEF TypeOK, Semaphores
  <2>2. sem' = Plus(sem, m.permits) /\ returned' = m.upto /\ acquired' = acquired
    BY DEF AddPermits
  <2> QED BY <1>3, <1>4, <1>5, <2>1, <2>2, GiveBack
<1>7. TypeOK'
  BY <1>4, <1>6 DEF AddPermits, TypeOK, Semaphores
<1>8. Chains'
  BY <1>1, <1>3 DEF AddPermits, Chains, GivenBack
<1> QED BY <1>6, <1>7, <1>8 DEF AddPermits, BatchNotFull, NoTransit

\* The RemoteInput batches the permits of rows, and gives back what it must.
LEMMA RemoteRecvIInv == IInv /\ RemoteRecv => IInv'
<1> SUFFICES ASSUME IInv, RemoteRecv PROVE IInv'
  OBVIOUS
<1> USE DEF IInv
<1> DEFINE m == Head(wire)
           p == m.permits
           add == AddBack(p)
<1>1. link
  BY DEF RemoteRecv, NoTransit
<1>2. /\ Chain(chan, forwarded, acquired)
      /\ Chain(wire, received, forwarded)
      /\ Chain(back, returned, GivenBack)
  BY <1>1 DEF Chains
<1>3. /\ Chain(wire', m.upto, forwarded)
      /\ m \in StampedMessage
      /\ m.upto = Plus(received, p)
  BY <1>2, ChainTail DEF RemoteRecv, TypeOK
<1>4. OneKindEach(wire') /\ OneKind(p)
  BY OneKindQueues DEF RemoteRecv, TypeOK, Chains
<1>5. m.upto \in Permits /\ p \in Permits
  BY <1>3 DEF StampedMessage
<1>6. {received.rec, received.bar, p.rec, p.bar, accumulated, returned.rec} \subseteq Nat
  <2>1. received \in Permits /\ returned \in Permits /\ accumulated \in Nat
    BY DEF TypeOK
  <2> QED BY <1>5, <2>1 DEF Permits
<1>7. /\ received' = m.upto
      /\ received'.rec = received.rec + p.rec /\ received'.bar = received.bar + p.bar
  <2>1. received' = m.upto
    BY DEF RemoteRecv
  <2>2. received \in Permits
    BY DEF TypeOK
  <2> QED BY <1>3, <1>5, <2>1, <2>2, PlusPermits
<1>8. GivenBack \in Permits
  <2>1. returned.rec <= received.rec - accumulated
    BY <1>2 DEF Chain, AtMost, GivenBack
  <2>2. received.rec - accumulated \in Nat
    BY <1>6, <2>1
  <2> QED BY <1>6, <2>2 DEF GivenBack, Permits
<1>9. /\ add \in Permits
      /\ add.rec \in {0, accumulated + p.rec} /\ add.bar = p.bar
      /\ add.rec = 0 => p.rec = 0 \/ accumulated + p.rec < BatchedPermits
      /\ add.rec > 0 => add.rec = accumulated + p.rec
      /\ p.rec = 0 => add.rec = 0
  <2>1. CASE p.rec > 0
    BY <1>4, <1>6, <2>1, PermitsAssumption DEF AddBack, Record, NoPermits, Permits, OneKind
  <2>2. CASE p.rec = 0
    BY <1>6, <2>2 DEF AddBack, Barrier, NoPermits, Permits
  <2> QED BY <1>6, <2>1, <2>2
<1>10. accumulated' = (accumulated + p.rec) - add.rec
  BY DEF RemoteRecv
<1>11. accumulated' \in Nat /\ BatchNotFull'
  BY <1>6, <1>9, <1>10, PermitsAssumption DEF BatchNotFull
<1>12. GivenBack' = Plus(GivenBack, add)
  BY <1>6, <1>7, <1>9, <1>10 DEF GivenBack, Plus, Permits
<1>13. Chain(back', returned, GivenBack') /\ back' \in Seq(StampedMessage)
  <2>1. CASE add = NoPermits
    <3>1. back' = back
      BY <2>1 DEF RemoteRecv
    <3>2. GivenBack' = GivenBack
      BY <1>8, <1>12, <2>1 DEF NoPermits, Plus, Permits
    <3> QED BY <1>2, <3>1, <3>2 DEF TypeOK
  <2>2. CASE add # NoPermits
    <3>1. back' = Append(back, Stamped(add, GivenBack))
      BY <1>1, <2>2 DEF RemoteRecv
    <3> QED BY <1>2, <1>8, <1>9, <1>12, <3>1, ChainAppend, StampedPermits DEF TypeOK
  <2> QED BY <2>1, <2>2
<1>14. TypeOK'
  BY <1>5, <1>7, <1>11, <1>13 DEF RemoteRecv, TypeOK
<1>15. Chains'
  BY <1>2, <1>3, <1>4, <1>7, <1>13 DEF RemoteRecv, Chains
<1> QED BY <1>1, <1>11, <1>14, <1>15 DEF RemoteRecv, Balance, NoTransit

\* A lost connection drops what was on its way, and nothing returns after it.
LEMMA DisconnectIInv == IInv /\ Disconnect => IInv'
<1> SUFFICES ASSUME IInv, Disconnect PROVE IInv'
  OBVIOUS
<1>1. OneKindEach(<<>>) /\ <<>> \in Seq(StampedMessage)
  BY DEF OneKindEach
<1>2. /\ UNCHANGED <<remote, sem, closed, pending, sender, chan, accumulated, input, sent, history>>
      /\ remote /\ link' = FALSE /\ wire' = <<>> /\ back' = <<>>
  BY DEF Disconnect
<1>3. TypeOK'
  BY <1>1, <1>2 DEF IInv, TypeOK, history
<1>4. Chains'
  BY <1>1, <1>2 DEF IInv, Chains, history
<1>5. Balance' /\ BatchNotFull' /\ NoTransit'
  BY <1>2 DEF IInv, Balance, BatchNotFull, NoTransit, history
<1> QED BY <1>3, <1>4, <1>5 DEF IInv

\* The steps that move no permits.
LEMMA OtherIInv ==
  ASSUME IInv, UNCHANGED <<remote, sem, transport, link, history>>,
         pending' \in Message \cup {NoMessage}, closed' \in BOOLEAN, sent' \in Nat,
         sender' \in {"alive", "failed", "dropped"},
         input' \in {"running", "failed", "dropped"}
  PROVE  IInv'
<1>1. TypeOK'
  BY DEF IInv, TypeOK, transport, history
<1>2. Chains' /\ Balance' /\ BatchNotFull' /\ NoTransit'
  BY DEF IInv, Chains, GivenBack, Balance, BatchNotFull, NoTransit, transport, history
<1> QED BY <1>1, <1>2 DEF IInv

\* IInv is inductive.
LEMMA NextIInv == IInv /\ [Next]_vars => IInv'
<1> SUFFICES ASSUME IInv, [Next]_vars PROVE IInv'
  OBVIOUS
<1> USE OtherIInv
<1>1. CASE \E m \in Message : Send(m)
  <2>1. sent \in Nat /\ closed \in BOOLEAN /\ sender \in {"alive", "failed", "dropped"}
        /\ input \in {"running", "failed", "dropped"}
    BY DEF IInv, TypeOK
  <2>2. sent + 1 \in Nat
    BY <2>1
  <2> QED BY <1>1, <2>1, <2>2 DEF Send
<1>2. CASE SendErr
  BY <1>2 DEF SendErr, IInv, TypeOK
<1>3. CASE DropSender
  BY <1>3 DEF DropSender, IInv, TypeOK
<1>4. CASE LocalInputClosed
  BY <1>4 DEF LocalInputClosed, IInv, TypeOK
<1>5. CASE RemoteInputErr
  BY <1>5 DEF RemoteInputErr, IInv, TypeOK
<1>6. CASE DropInput
  BY <1>6 DEF DropInput, IInv, TypeOK
<1>7. CASE ReceiverEnds
  BY <1>7 DEF ReceiverEnds, IInv, TypeOK
<1>8. CASE ServiceDropped
  BY <1>8 DEF ServiceDropped, IInv, TypeOK
<1>9. CASE UNCHANGED vars
  BY <1>9 DEF vars, IInv, TypeOK
<1>10. CASE SendAcquired \/ Recv \/ RecvRaw \/ AddPermits \/ RemoteRecv \/ Disconnect
  BY <1>10, SendAcquiredIInv, RecvIInv, RecvRawIInv, AddPermitsIInv, RemoteRecvIInv,
     DisconnectIInv
<1> QED
  BY <1>1, <1>2, <1>3, <1>4, <1>5, <1>6, <1>7, <1>8, <1>9, <1>10
  DEF Next, Upstream, Downstream, Service

\* The inductive invariant holds in every reachable state of the channel.
THEOREM IInvHolds == Spec => []IInv
<1>1. Init => IInv
  BY InitIInv
<1>2. IInv /\ [Next]_vars => IInv'
  BY NextIInv
<1> QED BY <1>1, <1>2, PTL DEF Spec

\* Both semaphores always hold between zero and their initial permits, and every
\* part of the channel has its type: add_permits never overfills a semaphore.
THEOREM TypeCorrect == Spec => []TypeOK
<1>1. IInv => TypeOK
  BY DEF IInv
<1> QED BY <1>1, IInvHolds, PTL

\* In an idle channel the permits batched downstream leave enough for any message.
LEMMA IdleChannelAdmits == IInv => NoPermitDeadlock
<1> SUFFICES ASSUME IInv, pending # NoMessage, link,
                    chan = <<>>, wire = <<>>, back = <<>>
             PROVE  pending.permits.rec <= sem.rec /\ pending.permits.bar <= sem.bar
  BY DEF NoPermitDeadlock
<1>1. pending \in Message
  BY DEF IInv, TypeOK
<1>2. acquired = forwarded /\ forwarded = received /\ GivenBack = returned
  BY DEF IInv, Chains, Chain
<1>3. returned.rec = received.rec - accumulated /\ returned.bar = received.bar
  BY <1>2 DEF GivenBack
<1>4. {received.rec, received.bar, accumulated} \subseteq Nat
  <2>1. received \in Permits /\ accumulated \in Nat
    BY DEF IInv, TypeOK
  <2> QED BY <2>1 DEF Permits
<1>5. sem.rec = InitialPermits - accumulated /\ sem.bar = ConcurrentBarriers
  BY <1>2, <1>3, <1>4, PermitsAssumption DEF IInv, Balance
<1>6. sem.rec >= MaxChunkPermits /\ sem.bar >= 1
  BY <1>4, <1>5, PermitsAssumption DEF IInv, BatchNotFull, MaxChunkPermits
<1>7. /\ pending.permits \in Permits
      /\ pending.permits.rec <= MaxChunkPermits /\ pending.permits.bar <= 1
  BY <1>1, MessagePermits
<1>8. {pending.permits.rec, pending.permits.bar, sem.rec, sem.bar, MaxChunkPermits} \subseteq Int
  BY <1>4, <1>5, <1>7, PermitsAssumption DEF MaxChunkPermits, Permits
<1> QED BY <1>6, <1>7, <1>8

\* The batching of permits in RemoteInput never deadlocks with the sender.
THEOREM BatchingDeadlockFree == Spec => []NoPermitDeadlock
  BY IdleChannelAdmits, IInvHolds, PTL

-----------------------------------------------------------------------------
\* Every nonempty set of natural numbers has a least element: induction, in the only form
\* the provers can use.
LEMMA LeastNumber ==
  ASSUME NEW T, T \subseteq Nat, T # {}
  PROVE  \E n \in T : \A m \in T : n <= m
<1> DEFINE R == OpToRel(<, Nat)
<1>1. IsWellFoundedOn(R, Nat)
  BY NatLessThanWellFounded
<1>2. PICK n \in T : \A m \in T : ~(<<m, n>> \in R)
  BY <1>1, WFMin, Zenon
<1>3. \A m \in T : ~(m < n)
  BY <1>2 DEF OpToRel
<1> HIDE DEF R
<1> QED BY <1>3

\* One round of the recursion of Totals.
TotalsStep(q, f) ==
  [n \in 0..Len(q) |-> IF n = 0 THEN NoPermits ELSE Plus(f[n - 1], q[n].permits)]

\* A function that satisfies the recursion of Totals is enough for Totals to satisfy it.
LEMMA TotalsRecursion ==
  ASSUME NEW q, \E f : f = TotalsStep(q, f)
  PROVE  Totals(q) = TotalsStep(q, Totals(q))
<1> DEFINE P(f) == f = TotalsStep(q, f)
<1>1. Totals(q) = CHOOSE f : P(f)
  BY DEF Totals, TotalsStep
<1> HIDE DEF P
<1>2. (\E f : P(f)) => P(CHOOSE f : P(f))
  OBVIOUS
<1> QED BY <1>1, <1>2 DEF P

\* The permits of a chain of messages are those between its reader and its writer.
LEMMA ChainTotal ==
  ASSUME NEW q \in Seq(StampedMessage), NEW first \in Permits, NEW last \in Permits,
         Chain(q, first, last)
  PROVE  Total(q) = Minus(last, first)
<1> DEFINE F == [n \in 0..Len(q) |-> IF n = 0 THEN NoPermits ELSE Minus(q[n].upto, first)]
<1>1. \A n \in 1..Len(q) : q[n].permits \in Permits /\ q[n].upto \in Permits
  <2>1. \A n \in 1..Len(q) : q[n] \in StampedMessage
    OBVIOUS
  <2> HIDE DEF F
  <2> QED BY <2>1 DEF StampedMessage
<1>2. ASSUME NEW n \in 1..Len(q)
      PROVE  F[n] = Plus(F[n - 1], q[n].permits)
  <2>1. F[n] = Minus(q[n].upto, first)
    OBVIOUS
  <2>2. CASE n = 1
    <3>1. q[1].upto = Plus(first, q[1].permits) /\ F[n - 1] = NoPermits
      BY <2>2, <1>1 DEF Chain
    <3>2. \A b \in Permits : Minus(Plus(first, b), first) = Plus(NoPermits, b)
      BY DEF Plus, Minus, Permits, NoPermits
    <3> HIDE DEF F
    <3> QED BY <3>1, <3>2, <2>1, <2>2, <1>1
  <2>3. CASE n \in 2..Len(q)
    <3>1. q[n].upto = Plus(q[n - 1].upto, q[n].permits) /\ F[n - 1] = Minus(q[n - 1].upto, first)
      BY <2>3 DEF Chain
    <3>2. q[n - 1].upto \in Permits
      BY <2>3, <1>1
    <3>3. \A a, b \in Permits : Minus(Plus(a, b), first) = Plus(Minus(a, first), b)
      BY DEF Plus, Minus, Permits
    <3> HIDE DEF F
    <3> QED BY <3>1, <3>2, <3>3, <2>1, <1>1
  <2> QED BY <2>2, <2>3
<1>3. F = TotalsStep(q, F)
  <2>1. F[0] = NoPermits /\ Len(q) \in Nat
    OBVIOUS
  <2> QED BY <2>1, <1>2 DEF TotalsStep
<1>4. Totals(q) = TotalsStep(q, Totals(q))
  BY <1>3, TotalsRecursion
<1>5. \A n \in 0..Len(q) : Totals(q)[n] = F[n]
  <2> DEFINE T == {n \in 0..Len(q) : Totals(q)[n] # F[n]}
  <2> SUFFICES ASSUME T # {} PROVE FALSE
    OBVIOUS
  <2>1. PICK n \in T : \A m \in T : n <= m
    <3>1. T \subseteq Nat
      OBVIOUS
    <3> HIDE DEF T
    <3> QED BY <3>1, LeastNumber
  <2>2. n # 0
    <3>1. Totals(q)[0] = NoPermits
      BY <1>4 DEF TotalsStep
    <3>2. F[0] = NoPermits
      OBVIOUS
    <3> QED BY <2>1, <3>1, <3>2
  <2> HIDE DEF F
  <2>3. n \in 1..Len(q) /\ n - 1 \in 0..Len(q) /\ n - 1 \notin T
    BY <2>1, <2>2
  <2>4. Totals(q)[n - 1] = F[n - 1]
    BY <2>3
  <2>5. Totals(q)[n] = Plus(Totals(q)[n - 1], q[n].permits)
    BY <1>4, <2>3 DEF TotalsStep
  <2> QED BY <2>1, <2>3, <2>4, <2>5, <1>2
<1>6. Total(q) = F[Len(q)]
  BY <1>5 DEF Total
<1>7. CASE q = <<>>
  <2>1. first = last /\ F[Len(q)] = NoPermits
    BY <1>7 DEF Chain
  <2> HIDE DEF F
  <2> QED BY <2>1, <1>6 DEF Minus, Permits, NoPermits
<1>8. CASE q # <<>>
  <2>1. q[Len(q)].upto = last /\ F[Len(q)] = Minus(q[Len(q)].upto, first)
    BY <1>8 DEF Chain
  <2> QED BY <2>1, <1>6
<1> QED BY <1>7, <1>8

\* The inductive invariant implies the conservation of permits.
LEMMA IInvConserves == IInv => PermitsConserved
<1> SUFFICES ASSUME IInv, link
             PROVE  sem = Minus([rec |-> InitialPermits - accumulated, bar |-> ConcurrentBarriers],
                                Plus(Total(chan), Plus(Total(wire), Total(back))))
  BY DEF PermitsConserved
<1>1. /\ chan \in Seq(StampedMessage) /\ wire \in Seq(StampedMessage) /\ back \in Seq(StampedMessage)
      /\ acquired \in Permits /\ forwarded \in Permits /\ received \in Permits
      /\ returned \in Permits /\ accumulated \in Nat /\ sem \in Semaphores
  BY DEF IInv, TypeOK, Semaphores
<1>2. /\ Chain(chan, forwarded, acquired) /\ Chain(wire, received, forwarded)
      /\ Chain(back, returned, GivenBack)
  BY DEF IInv, Chains
<1>3. GivenBack \in Permits
  <2>1. AtMost(returned, GivenBack)
    BY <1>2 DEF Chain
  <2> QED BY <2>1, <1>1 DEF GivenBack, Permits, AtMost
<1>4. /\ Total(chan) = Minus(acquired, forwarded) /\ Total(wire) = Minus(forwarded, received)
      /\ Total(back) = Minus(GivenBack, returned)
  BY <1>1, <1>2, <1>3, ChainTotal
<1>5. Balance
  BY DEF IInv
<1> DEFINE all == Plus(Total(chan), Plus(Total(wire), Total(back)))
<1>6. /\ all.rec = acquired.rec - returned.rec - accumulated
      /\ all.bar = acquired.bar - returned.bar
  <2>1. /\ AtMost(forwarded, acquired) /\ AtMost(received, forwarded)
        /\ AtMost(returned, GivenBack)
    BY <1>2 DEF Chain
  <2>2. /\ Total(chan) \in Permits /\ Total(wire) \in Permits /\ Total(back) \in Permits
        /\ Total(chan).rec = acquired.rec - forwarded.rec
        /\ Total(chan).bar = acquired.bar - forwarded.bar
        /\ Total(wire).rec = forwarded.rec - received.rec
        /\ Total(wire).bar = forwarded.bar - received.bar
        /\ Total(back).rec = GivenBack.rec - returned.rec
        /\ Total(back).bar = GivenBack.bar - returned.bar
    BY <1>1, <1>3, <1>4, <2>1, MinusPermits
  <2>3. Plus(Total(wire), Total(back)) \in Permits
    BY <2>2, PlusPermits
  <2>4. /\ all.rec = Total(chan).rec + (Total(wire).rec + Total(back).rec)
        /\ all.bar = Total(chan).bar + (Total(wire).bar + Total(back).bar)
    BY <2>2, <2>3, PlusPermits
  <2>5. GivenBack.rec = received.rec - accumulated /\ GivenBack.bar = received.bar
    BY DEF GivenBack
  <2>6. /\ acquired.rec \in Nat /\ forwarded.rec \in Nat /\ received.rec \in Nat
        /\ returned.rec \in Nat /\ acquired.bar \in Nat /\ forwarded.bar \in Nat
        /\ received.bar \in Nat /\ returned.bar \in Nat /\ accumulated \in Nat
    BY <1>1 DEF Permits
  <2> HIDE DEF all
  <2> QED BY <2>2, <2>4, <2>5, <2>6
<1>7. sem = [rec |-> sem.rec, bar |-> sem.bar]
  BY <1>1 DEF Semaphores
<1>8. /\ sem.rec = InitialPermits - accumulated - all.rec
      /\ sem.bar = ConcurrentBarriers - all.bar
  <2>1. /\ sem.rec = InitialPermits - (acquired.rec - returned.rec)
        /\ sem.bar = ConcurrentBarriers - (acquired.bar - returned.bar)
    BY <1>5 DEF Balance
  <2>2. /\ acquired.rec \in Nat /\ returned.rec \in Nat /\ acquired.bar \in Nat
        /\ returned.bar \in Nat /\ accumulated \in Nat
        /\ InitialPermits \in Nat /\ ConcurrentBarriers \in Nat
    BY <1>1, PermitsAssumption DEF Permits
  <2> HIDE DEF all
  <2> QED BY <2>1, <2>2, <1>6
<1> HIDE DEF all
<1>9. Minus([rec |-> InitialPermits - accumulated, bar |-> ConcurrentBarriers], all)
        = [rec |-> sem.rec, bar |-> sem.bar]
  BY <1>8 DEF Minus
<1> QED BY <1>7, <1>9 DEF all

\* No permit is lost or made up on an edge that is up: what send() has taken of the two
\* semaphores is in the messages of the channel and of the wire, batched by the RemoteInput
\* or on its way back, whatever the sizes of the chunks and of the batch.
THEOREM NoPermitLost == Spec => []PermitsConserved
BY IInvHolds, IInvConserves, PTL
=============================================================================
