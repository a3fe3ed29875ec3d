----------------------- MODULE DatabaseRecoveryProofs -----------------------
(***************************************************************************)
(* Proofs about DatabaseRecovery, for any set of workers and any number of *)
(* barriers, failures, lost workers and commands.                          *)
(*                                                                         *)
(* What is under way between the meta node and a worker is a pipeline: the *)
(* responses, the barriers issued on the node, the requests.  The          *)
(* invariant says what the pipeline of a worker may hold in each state of  *)
(* the database: at most one reset, behind everything else; a graph to     *)
(* create only in front; the barriers in order, each of them awaited.      *)
(***************************************************************************)
EXTENDS DatabaseRecovery, TLAPS

Barriers == BarrierKind \cup {"CompleteBarrier"}

\* The barriers of q are in order; those of p come before those of q; those of q have
\* their numbers in N.
Increasing(q) ==
  \A k \in 1..Len(q) : \A j \in 1..(k - 1) :
    q[j].type \in Barriers /\ q[k].type \in Barriers => q[j].n < q[k].n
Below(p, q) ==
  \A j \in 1..Len(p), k \in 1..Len(q) :
    p[j].type \in Barriers /\ q[k].type \in Barriers => p[j].n < q[k].n
AllIn(q, N) == \A k \in 1..Len(q) : q[k].type \in Barriers => q[k].n \in N

\* The barriers in the responses r, the issued ones i and the requests q.
Ordered(r, i, q, N) ==
  /\ Increasing(r) /\ Increasing(i) /\ Increasing(q)
  /\ Below(r, i) /\ Below(r, q) /\ Below(i, q)
  /\ AllIn(r, N) /\ AllIn(i, N) /\ AllIn(q, N)

\* The epochs whose barriers the meta node may still collect from w.
Awaited(w) ==
  {n \in Nat :
     /\ status = "running" => \E i \in 1..Len(queue) : queue[i].prev = n /\ w \in queue[i].wait
     /\ status = "initializing" => w \in stage.remaining /\ n = stage.epoch}

-----------------------------------------------------------------------------
\* The parts of the invariant

MetaState ==
  /\ prev <= clock
  /\ \A i \in 1..Len(queue) : queue[i].prev < prev
  /\ Recovering => queue = <<>> /\ task = 0
  /\ status = "initializing" => stage.epoch = committed

Quiet(w) == req[w] = <<>> /\ resp[w] = <<>> /\ node[w] = Absent

NodeState(w) ==
  /\ node[w].st = "absent" => node[w] = Absent
  /\ node[w].st # "running" => node[w].issued = <<>>
  /\ \A k \in 1..Len(node[w].issued) : node[w].issued[k].type \in BarrierKind

\* Where there is nothing to wait for.
Silence(w) ==
  w \notin connected \/ status = "absent" \/ (status = "resetting" /\ w \notin stage.remaining)
    => Quiet(w)

\* A reset is under way only in Resetting, it is the current one, and nothing follows it.
Resets(w) ==
  /\ \A k \in 1..Len(resp[w]) : resp[w][k].type = "ResetDatabase" =>
       /\ status = "resetting" /\ resp[w][k].n = stage.id
       /\ k = Len(resp[w]) /\ node[w].st = "absent" /\ req[w] = <<>>
  /\ node[w].st = "resetting" =>
       /\ status = "resetting" /\ node[w].id = stage.id /\ req[w] = <<>>
  /\ \A k \in 1..Len(req[w]) : req[w][k].type = "ResetDatabase" =>
       /\ status = "resetting" /\ req[w][k].n = stage.id
       /\ k = Len(req[w])

\* A graph is created on a node without the database, and barriers are for one that has it;
\* a worker has the database while it runs, or will have it before the next barrier.
Requests(w) ==
  /\ w \in connected /\ status \in {"running", "initializing"} =>
       node[w].st \in {"running", "suspended"} \/ (req[w] # <<>> /\ req[w][1].type = "CreatePartialGraph")
  /\ \A k \in 1..Len(req[w]) : req[w][k].type = "CreatePartialGraph" => k = 1 /\ node[w].st = "absent"
  /\ \A k \in 1..Len(req[w]) : req[w][k].type \in BarrierKind =>
       node[w].st \in {"running", "suspended"} \/ req[w][1].type = "CreatePartialGraph"

\* The barriers under way are in order and awaited.
InOrder(w) == Ordered(resp[w], node[w].issued, req[w], Awaited(w))

Pipeline(w) == NodeState(w) /\ Silence(w) /\ Resets(w) /\ Requests(w) /\ InOrder(w)

IInv == TypeOK /\ MetaState /\ \A w \in Worker : Pipeline(w)

-----------------------------------------------------------------------------
\* Pipelines

LEMMA EmptyMsg ==
  ASSUME NEW q \in Seq(Msg)
  PROVE  Len(q) \in Nat /\ (q = <<>> <=> Len(q) = 0)
  OBVIOUS

LEMMA AppendMsg ==
  ASSUME NEW q \in Seq(Msg), NEW m \in Msg
  PROVE  /\ Append(q, m) \in Seq(Msg) /\ Len(Append(q, m)) = Len(q) + 1 /\ Len(q) \in Nat
         /\ Append(q, m)[Len(q) + 1] = m
         /\ \A k \in 1..Len(q) : Append(q, m)[k] = q[k]
         /\ q \o <<m>> = Append(q, m)
  OBVIOUS

LEMMA TwoMsgs ==
  ASSUME NEW a \in Msg, NEW b \in Msg
  PROVE  Append(<<a>>, b) = <<a, b>>
<1> DEFINE s == Append(<<a>>, b)
           t == <<a, b>>
<1>1. s \in Seq(Msg) /\ Len(s) = 2 /\ s[1] = a /\ s[2] = b
  OBVIOUS
<1>2. t \in Seq(Msg) /\ Len(t) = 2 /\ t[1] = a /\ t[2] = b
  OBVIOUS
<1> HIDE DEF s, t
<1>3. DOMAIN s = 1..2 /\ DOMAIN t = 1..2
  BY <1>1, <1>2
<1>4. s = [i \in 1..2 |-> s[i]] /\ t = [i \in 1..2 |-> t[i]]
  BY <1>1, <1>2, <1>3
<1>5. \A i \in 1..2 : s[i] = t[i]
  BY <1>1, <1>2
<1>6. s = t
  BY <1>4, <1>5
<1> QED BY <1>6 DEF s, t

LEMMA TailMsg ==
  ASSUME NEW q \in Seq(Msg), q # <<>>
  PROVE  /\ Head(q) \in Msg /\ Head(q) = q[1] /\ Len(q) \in Nat /\ Len(q) > 0
         /\ Tail(q) \in Seq(Msg) /\ Len(Tail(q)) = Len(q) - 1
         /\ \A k \in 1..Len(Tail(q)) : Tail(q)[k] = q[k + 1]
  OBVIOUS

LEMMA MsgKinds ==
  /\ \A m \in Msg : m.n \in Nat
  /\ \A e \in Nat : /\ Complete(e) \in Msg /\ Complete(e).type = "CompleteBarrier" /\ Complete(e).n = e
                    /\ Reset(e) \in Msg /\ Reset(e).type = "ResetDatabase" /\ Reset(e).n = e
  /\ \A e \in Nat, kind \in BarrierKind :
       /\ Inject(kind, e) \in Msg /\ Inject(kind, e).type = kind /\ Inject(kind, e).n = e
  /\ Create \in Msg /\ Create.type = "CreatePartialGraph"
  /\ Failure \in Msg /\ Failure.type = "ReportDatabaseFailure"
  /\ "ResetDatabase" \notin Barriers /\ "CreatePartialGraph" \notin Barriers
  /\ "ReportDatabaseFailure" \notin Barriers /\ "CompleteBarrier" \in Barriers /\ BarrierKind \subseteq Barriers
  BY DEF Msg, Complete, Reset, Inject, Create, Failure, BarrierKind, Barriers

\* What becomes of the order when a sequence loses its first message or gets one more.
LEMMA OrderTail ==
  ASSUME NEW q \in Seq(Msg), q # <<>>, NEW N
  PROVE  /\ Increasing(q) => Increasing(Tail(q))
         /\ AllIn(q, N) => AllIn(Tail(q), N)
         /\ \A p \in Seq(Msg) : Below(p, q) => Below(p, Tail(q))
         /\ \A p \in Seq(Msg) : Below(q, p) => Below(Tail(q), p)
<1>1. Increasing(q) => Increasing(Tail(q))
  BY TailMsg DEF Increasing
<1>2. AllIn(q, N) => AllIn(Tail(q), N)
  BY TailMsg DEF AllIn
<1>3. \A p \in Seq(Msg) : Below(p, q) => Below(p, Tail(q))
  BY TailMsg DEF Below
<1>4. \A p \in Seq(Msg) : Below(q, p) => Below(Tail(q), p)
  BY TailMsg DEF Below
<1> QED BY <1>1, <1>2, <1>3, <1>4

LEMMA OrderAppend ==
  ASSUME NEW q \in Seq(Msg), NEW m \in Msg, NEW N
  PROVE  /\ Increasing(q) /\ Below(q, <<m>>) => Increasing(Append(q, m))
         /\ AllIn(q, N) /\ AllIn(<<m>>, N) => AllIn(Append(q, m), N)
         /\ \A p \in Seq(Msg) : Below(p, q) /\ Below(p, <<m>>) => Below(p, Append(q, m))
         /\ \A p \in Seq(Msg) : Below(q, p) /\ Below(<<m>>, p) => Below(Append(q, m), p)
<1> DEFINE r == Append(q, m)
           one == <<m>>
<1>0. /\ Len(one) = 1 /\ one[1] = m
      /\ Len(r) = Len(q) + 1 /\ Len(q) \in Nat /\ r[Len(q) + 1] = m /\ \A k \in 1..Len(q) : r[k] = q[k]
  BY AppendMsg
<1> HIDE DEF r, one
<1>1. ASSUME Increasing(q), Below(q, one) PROVE Increasing(r)
  <2> SUFFICES ASSUME NEW k \in 1..Len(r), NEW j \in 1..(k - 1), r[j].type \in Barriers, r[k].type \in Barriers
               PROVE  r[j].n < r[k].n
    BY DEF Increasing
  <2>1. CASE k = Len(q) + 1
    BY <2>1, <1>0, <1>1 DEF Below
  <2>2. CASE k \in 1..Len(q)
    BY <2>2, <1>0, <1>1 DEF Increasing
  <2> QED BY <2>1, <2>2, <1>0
<1>2. AllIn(q, N) /\ AllIn(one, N) => AllIn(r, N)
  BY <1>0 DEF AllIn
<1>3. ASSUME NEW p \in Seq(Msg), Below(p, q), Below(p, one) PROVE Below(p, r)
  <2> SUFFICES ASSUME NEW j \in 1..Len(p), NEW k \in 1..Len(r), p[j].type \in Barriers, r[k].type \in Barriers
               PROVE  p[j].n < r[k].n
    BY DEF Below
  <2>1. CASE k = Len(q) + 1
    BY <2>1, <1>0, <1>3 DEF Below
  <2>2. CASE k \in 1..Len(q)
    BY <2>2, <1>0, <1>3 DEF Below
  <2> QED BY <2>1, <2>2, <1>0
<1>4. ASSUME NEW p \in Seq(Msg), Below(q, p), Below(one, p) PROVE Below(r, p)
  <2> SUFFICES ASSUME NEW k \in 1..Len(p), NEW j \in 1..Len(r), r[j].type \in Barriers, p[k].type \in Barriers
               PROVE  r[j].n < p[k].n
    BY DEF Below
  <2>1. CASE j = Len(q) + 1
    BY <2>1, <1>0, <1>4 DEF Below
  <2>2. CASE j \in 1..Len(q)
    BY <2>2, <1>0, <1>4 DEF Below
  <2> QED BY <2>1, <2>2, <1>0
<1> QED BY <1>1, <1>2, <1>3, <1>4 DEF r, one

\* A message that is no barrier has no place in the order.
LEMMA OtherMsg ==
  ASSUME NEW m \in Msg, m.type \notin Barriers, NEW p \in Seq(Msg), NEW N
  PROVE  Below(p, <<m>>) /\ Below(<<m>>, p) /\ AllIn(<<m>>, N)
  BY DEF Below, AllIn

LEMMA NoMsg ==
  ASSUME NEW p, NEW N
  PROVE  Increasing(<<>>) /\ Below(p, <<>>) /\ Below(<<>>, p) /\ AllIn(<<>>, N)
  BY DEF Increasing, Below, AllIn

\* What the first message of q is, it is alone.
LEMMA HeadMsg ==
  ASSUME NEW q \in Seq(Msg), q # <<>>, NEW N, NEW p \in Seq(Msg)
  PROVE  /\ Increasing(q) => Below(<<Head(q)>>, Tail(q))
         /\ Below(p, q) => Below(p, <<Head(q)>>)
         /\ Below(q, p) => Below(<<Head(q)>>, p)
         /\ AllIn(q, N) => AllIn(<<Head(q)>>, N)
<1>1. 1 \in 1..Len(q) /\ <<Head(q)>>[1] = q[1] /\ Len(<<Head(q)>>) = 1
  BY TailMsg
<1>2. Increasing(q) => Below(<<Head(q)>>, Tail(q))
  <2> DEFINE one == <<Head(q)>>
             t == Tail(q)
  <2>1. Len(one) = 1 /\ one[1] = q[1] /\ \A k \in 1..Len(t) : t[k] = q[k + 1] /\ k + 1 \in 1..Len(q) /\ 1 \in 1..k
    BY TailMsg
  <2> HIDE DEF one, t
  <2>2. Increasing(q) => Below(one, t)
    BY <2>1 DEF Increasing, Below
  <2> QED BY <2>2 DEF one, t
<1>3. Below(p, q) => Below(p, <<Head(q)>>)
  BY <1>1 DEF Below
<1>4. Below(q, p) => Below(<<Head(q)>>, p)
  BY <1>1 DEF Below
<1>5. AllIn(q, N) => AllIn(<<Head(q)>>, N)
  BY <1>1 DEF AllIn
<1> QED BY <1>2, <1>3, <1>4, <1>5

\* The node drops the first request, or issues it.
LEMMA OrderedRequest ==
  ASSUME NEW r \in Seq(Msg), NEW i \in Seq(Msg), NEW q \in Seq(Msg), NEW N, Ordered(r, i, q, N), q # <<>>
  PROVE  Ordered(r, i, Tail(q), N) /\ Ordered(r, Append(i, Head(q)), Tail(q), N)
<1>1. Head(q) \in Msg /\ Tail(q) \in Seq(Msg)
  BY TailMsg
<1>2. Ordered(r, i, Tail(q), N)
  BY OrderTail DEF Ordered
<1>3. /\ Below(<<Head(q)>>, Tail(q)) /\ Below(r, <<Head(q)>>) /\ Below(i, <<Head(q)>>)
      /\ AllIn(<<Head(q)>>, N)
  BY HeadMsg DEF Ordered
<1> QED BY <1>1, <1>2, <1>3, OrderAppend DEF Ordered

\* The node forgets the barriers issued.
LEMMA OrderedForget ==
  ASSUME NEW r \in Seq(Msg), NEW i \in Seq(Msg), NEW q \in Seq(Msg), NEW N, Ordered(r, i, q, N)
  PROVE  Ordered(r, <<>>, q, N)
  BY NoMsg DEF Ordered

\* The node responds with something else than a barrier.
LEMMA OrderedResponse ==
  ASSUME NEW r \in Seq(Msg), NEW i \in Seq(Msg), NEW q \in Seq(Msg), NEW N, Ordered(r, i, q, N),
         NEW m \in Msg, m.type \notin Barriers
  PROVE  Ordered(Append(r, m), i, q, N)
<1>1. Below(r, <<m>>) /\ Below(<<m>>, i) /\ Below(<<m>>, q) /\ AllIn(<<m>>, N)
  BY OtherMsg
<1> QED BY <1>1, OrderAppend DEF Ordered

\* The node completes the first barrier issued.
LEMMA OrderedComplete ==
  ASSUME NEW r \in Seq(Msg), NEW i \in Seq(Msg), NEW q \in Seq(Msg), NEW N, Ordered(r, i, q, N),
         i # <<>>, Head(i).type \in Barriers
  PROVE  Ordered(Append(r, Complete(Head(i).n)), Tail(i), q, N)
<1> DEFINE m == Complete(Head(i).n)
<1>1. Head(i) \in Msg /\ Tail(i) \in Seq(Msg) /\ m \in Msg /\ m.n = Head(i).n /\ m.type \in Barriers
  BY TailMsg, MsgKinds
<1>2. /\ Below(<<Head(i)>>, Tail(i)) /\ Below(<<Head(i)>>, q) /\ Below(r, <<Head(i)>>)
      /\ AllIn(<<Head(i)>>, N)
  BY HeadMsg DEF Ordered
<1> HIDE DEF m
<1>3. /\ \A p \in Seq(Msg) : Below(<<Head(i)>>, p) => Below(<<m>>, p)
      /\ \A p \in Seq(Msg) : Below(p, <<Head(i)>>) => Below(p, <<m>>)
      /\ AllIn(<<m>>, N)
  BY <1>1, <1>2 DEF Below, AllIn
<1>4. Ordered(Append(r, m), Tail(i), q, N)
  BY <1>1, <1>2, <1>3, OrderTail, OrderAppend DEF Ordered
<1> QED BY <1>4 DEF m

\* The meta node takes the first response; barriers before the others are not awaited again.
LEMMA OrderedCollect ==
  ASSUME NEW r \in Seq(Msg), NEW i \in Seq(Msg), NEW q \in Seq(Msg), NEW N, NEW N2,
         Ordered(r, i, q, N), r # <<>>,
         \A n \in N : (Head(r).type \in Barriers => Head(r).n < n) => n \in N2
  PROVE  Ordered(Tail(r), i, q, N2)
<1>1. Head(r) \in Msg /\ Tail(r) \in Seq(Msg)
  BY TailMsg
<1>2. Ordered(Tail(r), i, q, N)
  BY <1>1, OrderTail DEF Ordered
<1>3. Below(<<Head(r)>>, Tail(r)) /\ Below(<<Head(r)>>, i) /\ Below(<<Head(r)>>, q)
  BY HeadMsg DEF Ordered
<1>4. \A p \in Seq(Msg) : Below(<<Head(r)>>, p) /\ AllIn(p, N) => AllIn(p, N2)
  <2> SUFFICES ASSUME NEW p \in Seq(Msg), Below(<<Head(r)>>, p), AllIn(p, N), NEW k \in 1..Len(p), p[k].type \in Barriers
               PROVE  p[k].n \in N2
    BY DEF AllIn
  <2>1. Len(<<Head(r)>>) = 1 /\ <<Head(r)>>[1] = Head(r)
    OBVIOUS
  <2>2. Head(r).type \in Barriers => Head(r).n < p[k].n
    BY <2>1 DEF Below
  <2>3. p[k].n \in N
    BY DEF AllIn
  <2> QED BY <2>2, <2>3
<1> QED BY <1>1, <1>2, <1>3, <1>4 DEF Ordered

\* The meta node sends a message; a barrier is newer than all others.
LEMMA OrderedSend ==
  ASSUME NEW r \in Seq(Msg), NEW i \in Seq(Msg), NEW q \in Seq(Msg), NEW N, NEW N2, NEW m \in Msg,
         Ordered(r, i, q, N), N \subseteq N2,
         m.type \in Barriers => m.n \in N2 /\ \A n \in N : n < m.n
  PROVE  Ordered(r, i, Append(q, m), N2)
<1>1. \A p \in Seq(Msg) : AllIn(p, N) => AllIn(p, N2) /\ Below(p, <<m>>)
  BY DEF AllIn, Below
<1>2. AllIn(<<m>>, N2)
  BY DEF AllIn
<1> QED BY <1>1, <1>2, OrderAppend DEF Ordered

\* More barriers are awaited, or none is under way.
LEMMA OrderedSet ==
  ASSUME NEW r \in Seq(Msg), NEW i \in Seq(Msg), NEW q \in Seq(Msg), NEW N, NEW N2,
         Ordered(r, i, q, N), N \subseteq N2
  PROVE  Ordered(r, i, q, N2)
  BY DEF Ordered, AllIn

LEMMA OrderedEmpty ==
  ASSUME NEW N
  PROVE  Ordered(<<>>, <<>>, <<>>, N)
  BY NoMsg DEF Ordered

-----------------------------------------------------------------------------
\* Types

StageType == [remaining : SUBSET Worker, id : Nat, next : Nat, epoch : Nat, backoff : BOOLEAN]
EntryType == [prev : Nat, wait : SUBSET Worker]
NodeType == [st : {"absent", "running", "suspended", "resetting"}, id : Nat,
             actors : BOOLEAN, issued : Seq(Msg)]

Flags == graph \in BOOLEAN /\ jobs \in BOOLEAN /\ blocked \in BOOLEAN
Numbers == /\ prev \in Nat /\ task \in Nat /\ committed \in Nat /\ clock \in Nat
           /\ failures \in Nat /\ errors \in Nat /\ commands \in Nat
Control == /\ status \in {"running", "entering", "resetting", "initializing", "absent"}
           /\ stage \in StageType /\ queue \in Seq(EntryType)
           /\ sched \in Seq({"Drop", "Flush"}) /\ connected \subseteq Worker
Streams == /\ req \in [Worker -> Seq(Msg)] /\ resp \in [Worker -> Seq(Msg)]
           /\ node \in [Worker -> NodeType]

LEMMA TypeParts ==
  TypeOK <=> Flags /\ Numbers /\ Control /\ Streams
<1>1. {prev, task, committed, clock, failures, errors, commands} \subseteq Nat <=> Numbers
  BY DEF Numbers
<1> QED BY <1>1 DEF TypeOK, Flags, Control, Streams, StageType, EntryType, NodeType

LEMMA NodeValues ==
  /\ Absent \in NodeType /\ Absent.st = "absent" /\ Absent.issued = <<>>
  /\ NoActors \in NodeType /\ NoActors.st = "running" /\ NoActors.issued = <<>>
  /\ Built \in NodeType /\ Built.st = "running" /\ Built.issued = <<>>
<1>1. Absent \in NodeType /\ Absent.st = "absent" /\ Absent.issued = <<>>
  BY DEF Absent, NodeType
<1>2. NoActors \in NodeType /\ NoActors.st = "running" /\ NoActors.issued = <<>>
  BY <1>1 DEF NoActors, NodeType
<1>3. Built \in NodeType /\ Built.st = "running" /\ Built.issued = <<>>
  BY <1>2 DEF Built, NodeType
<1> QED BY <1>1, <1>2, <1>3

Suspended == [Absent EXCEPT !.st = "suspended"]
Resetting(i) == [Absent EXCEPT !.st = "resetting", !.id = i]

LEMMA NodeDown ==
  /\ Suspended \in NodeType /\ Suspended.st = "suspended" /\ Suspended.issued = <<>>
  /\ \A i \in Nat : /\ Resetting(i) \in NodeType /\ Resetting(i).st = "resetting"
                    /\ Resetting(i).id = i /\ Resetting(i).issued = <<>>
  BY NodeValues DEF Suspended, Resetting, NodeType

LEMMA TypeFacts ==
  ASSUME TypeOK
  PROVE  /\ \A w \in Worker : /\ req[w] \in Seq(Msg) /\ resp[w] \in Seq(Msg)
                              /\ node[w] \in NodeType /\ node[w].issued \in Seq(Msg)
                              /\ node[w].id \in Nat
         /\ stage \in StageType /\ stage.remaining \subseteq Worker
         /\ stage.id \in Nat /\ stage.next \in Nat /\ stage.epoch \in Nat
         /\ Len(queue) \in Nat
         /\ \A i \in 1..Len(queue) : queue[i].prev \in Nat /\ queue[i].wait \subseteq Worker
         /\ prev \in Nat /\ task \in Nat /\ committed \in Nat /\ clock \in Nat
<1> Flags /\ Numbers /\ Control /\ Streams
  BY TypeParts
<1>1. prev \in Nat /\ task \in Nat /\ committed \in Nat /\ clock \in Nat
  BY DEF Numbers
<1>2. Len(queue) \in Nat /\ \A i \in 1..Len(queue) : queue[i] \in EntryType
  BY DEF Control
<1>3. \A i \in 1..Len(queue) : queue[i].prev \in Nat /\ queue[i].wait \subseteq Worker
  BY <1>2 DEF EntryType
<1>4. \A w \in Worker : /\ req[w] \in Seq(Msg) /\ resp[w] \in Seq(Msg)
                        /\ node[w] \in NodeType /\ node[w].issued \in Seq(Msg) /\ node[w].id \in Nat
  BY DEF Streams, NodeType
<1>5. /\ stage \in StageType /\ stage.remaining \subseteq Worker
      /\ stage.id \in Nat /\ stage.next \in Nat /\ stage.epoch \in Nat
  BY DEF Control, StageType
<1> QED BY <1>1, <1>2, <1>3, <1>4, <1>5

\* The responses and the state of one node change.
LEMMA NodeStepType ==
  ASSUME TypeOK, NEW w \in Worker, NEW s \in NodeType, NEW r \in Seq(Msg), NEW q \in Seq(Msg),
         node' = [node EXCEPT ![w] = s], resp' = [resp EXCEPT ![w] = r], req' = [req EXCEPT ![w] = q],
         UNCHANGED <<metaVars, schedVars, connected, clock, errors>>, failures' \in Nat
  PROVE  /\ TypeOK' /\ node'[w] = s /\ resp'[w] = r /\ req'[w] = q
         /\ \A x \in Worker : x # w => node'[x] = node[x] /\ resp'[x] = resp[x] /\ req'[x] = req[x]
<1>1. UNCHANGED <<status, stage, graph, prev, queue, task, committed, jobs, sched, blocked, commands>>
  BY DEF metaVars, schedVars
<1>2. Flags /\ Numbers /\ Control /\ Streams
  BY TypeParts
<1>3. Streams'
  BY <1>2 DEF Streams
<1>4. Flags' /\ Numbers' /\ Control'
  BY <1>1, <1>2 DEF Flags, Numbers, Control
<1>5. TypeOK'
  BY <1>3, <1>4, TypeParts, PTL
<1> QED BY <1>2, <1>5 DEF Streams

-----------------------------------------------------------------------------
\* What the invariant implies

LEMMA RebuiltFromIInv ==
  IInv => RebuiltFromCommitted
  BY DEF IInv, MetaState, RebuiltFromCommitted

LEMMA ResponsesFromIInv ==
  IInv => ResponsesExpected
<1> SUFFICES ASSUME IInv, Polling, NEW w \in Worker, resp[w] # <<>>
             PROVE  LET m == Head(resp[w])
                    IN /\ status # "absent"
                       /\ m.type = "ResetDatabase" =>
                            /\ status = "resetting" /\ m.n <= stage.id
                            /\ m.n = stage.id => w \in stage.remaining
                       /\ m.type = "CompleteBarrier" =>
                            /\ status = "initializing" => w \in stage.remaining /\ m.n = stage.epoch
                            /\ status = "running" =>
                                 \E i \in 1..Len(queue) : queue[i].prev = m.n /\ w \in queue[i].wait
  BY DEF ResponsesExpected
<1> DEFINE m == Head(resp[w])
<1>1. Pipeline(w) /\ TypeOK
  BY DEF IInv
<1>2. m = resp[w][1] /\ 1 \in 1..Len(resp[w]) /\ stage.id \in Nat
  BY <1>1, TypeFacts, TailMsg
<1> HIDE DEF m
<1>3. status # "absent"
  BY <1>1 DEF Pipeline, Silence, Quiet
<1>4. ASSUME m.type = "ResetDatabase"
      PROVE  status = "resetting" /\ m.n <= stage.id /\ w \in stage.remaining
  BY <1>1, <1>2, <1>4 DEF Pipeline, Silence, Quiet, Resets
<1>5. ASSUME m.type = "CompleteBarrier" PROVE m.n \in Awaited(w)
  BY <1>1, <1>2, <1>5, MsgKinds DEF Pipeline, InOrder, Ordered, AllIn
<1> QED BY <1>3, <1>4, <1>5 DEF m, Awaited

LEMMA RequestsFromIInv ==
  IInv => RequestsExpected
<1> SUFFICES ASSUME IInv, NEW w \in Worker, req[w] # <<>>
             PROVE  LET m == Head(req[w])
                    IN /\ m.type = "ResetDatabase" => (node[w].st = "resetting" => m.n > node[w].id)
                       /\ m.type = "CreatePartialGraph" => node[w].st \in {"absent", "suspended"}
                       /\ m.type \in BarrierKind => node[w].st \in {"running", "suspended"}
  BY DEF RequestsExpected
<1>1. Pipeline(w) /\ TypeOK
  BY DEF IInv
<1>2. Head(req[w]) = req[w][1] /\ 1 \in 1..Len(req[w])
  BY <1>1, TypeFacts, TailMsg
<1>3. node[w].st = "resetting" => FALSE
  BY <1>1 DEF Pipeline, Resets
<1>4. "CreatePartialGraph" \notin BarrierKind
  BY DEF BarrierKind
<1> QED BY <1>1, <1>2, <1>3, <1>4 DEF Pipeline, Requests

-----------------------------------------------------------------------------
\* What a step leaves alone

\* What is under way stays, and is still expected.
LEMMA PipelineKept ==
  ASSUME TypeOK, NEW w \in Worker, Pipeline(w), req'[w] = req[w], resp'[w] = resp[w], node'[w] = node[w],
         w \in connected' <=> w \in connected, status' = "absent" => status = "absent",
         status' \in {"running", "initializing"} => status \in {"running", "initializing"},
         status = "resetting" => status' = "resetting" /\ stage'.id = stage.id,
         status' = "resetting" /\ w \notin stage'.remaining => status = "resetting" /\ w \notin stage.remaining,
         Awaited(w) \subseteq Awaited(w)'
  PROVE  Pipeline(w)'
<1>1. NodeState(w)' /\ Requests(w)'
  BY DEF Pipeline, NodeState, Requests
<1>2. Silence(w)'
  BY DEF Pipeline, Silence, Quiet
<1>3. Resets(w)'
  BY DEF Pipeline, Resets
<1>4. InOrder(w)'
  <2>1. Ordered(resp[w], node[w].issued, req[w], Awaited(w))
    BY DEF Pipeline, InOrder
  <2>2. Ordered(resp[w], node[w].issued, req[w], Awaited(w)')
    BY <2>1, TypeFacts, OrderedSet
  <2> QED BY <2>2 DEF InOrder
<1> QED BY <1>1, <1>2, <1>3, <1>4 DEF Pipeline

LEMMA PipelineFrame ==
  ASSUME TypeOK, NEW w \in Worker, Pipeline(w), req'[w] = req[w], resp'[w] = resp[w], node'[w] = node[w],
         w \in connected' <=> w \in connected, status' = status, stage'.id = stage.id,
         stage'.epoch = stage.epoch, w \in stage'.remaining <=> w \in stage.remaining, queue' = queue
  PROVE  Pipeline(w)'
<1>1. Awaited(w)' = Awaited(w)
  BY DEF Awaited
<1> QED BY <1>1, PipelineKept

\* A step of a node changes its own pipeline only.
LEMMA NodeStep ==
  ASSUME IInv, NEW w \in Worker, NEW s \in NodeType, NEW r \in Seq(Msg), NEW q \in Seq(Msg),
         node' = [node EXCEPT ![w] = s], resp' = [resp EXCEPT ![w] = r], req' = [req EXCEPT ![w] = q],
         UNCHANGED <<metaVars, schedVars, connected, clock, errors>>, failures' \in Nat,
         \* what is to be shown of the node
         s.st = "absent" => s = Absent, s.st # "running" => s.issued = <<>>,
         \A k \in 1..Len(s.issued) : s.issued[k].type \in BarrierKind,
         ~Quiet(w),
         \A k \in 1..Len(r) : r[k].type = "ResetDatabase" =>
           /\ status = "resetting" /\ r[k].n = stage.id
           /\ k = Len(r) /\ s.st = "absent" /\ q = <<>>,
         s.st = "resetting" => status = "resetting" /\ s.id = stage.id /\ q = <<>>,
         status # "resetting" => s.st \in {"running", "suspended"},
         \A k \in 1..Len(q) : q[k].type = "ResetDatabase" =>
           /\ status = "resetting" /\ q[k].n = stage.id
           /\ k = Len(q),
         \A k \in 1..Len(q) : q[k].type = "CreatePartialGraph" => k = 1 /\ s.st = "absent",
         \A k \in 1..Len(q) : q[k].type \in BarrierKind =>
           s.st \in {"running", "suspended"} \/ q[1].type = "CreatePartialGraph",
         Ordered(r, s.issued, q, Awaited(w))
  PROVE  IInv'
<1>1. /\ TypeOK' /\ node'[w] = s /\ resp'[w] = r /\ req'[w] = q
      /\ \A x \in Worker : x # w => node'[x] = node[x] /\ resp'[x] = resp[x] /\ req'[x] = req[x]
  BY NodeStepType DEF IInv
<1>2. UNCHANGED <<status, stage, graph, prev, queue, task, committed, connected, clock>>
  BY DEF metaVars
<1>3. MetaState'
  BY <1>2 DEF IInv, MetaState, Recovering
<1>4. ASSUME NEW x \in Worker, x # w PROVE Pipeline(x)'
  BY <1>1, <1>2, <1>4, PipelineFrame DEF IInv
<1>5. Pipeline(w)'
  <2>1. Awaited(w)' = Awaited(w)
    BY <1>2 DEF Awaited
  <2>2. NodeState(w)' /\ Requests(w)' /\ Resets(w)'
    BY <1>1, <1>2 DEF NodeState, Requests, Resets
  <2>3. Silence(w)'
    BY <1>2 DEF IInv, Pipeline, Silence
  <2> QED BY <1>1, <2>1, <2>2, <2>3 DEF Pipeline, InOrder
<1> QED BY <1>1, <1>3, <1>4, <1>5 DEF IInv

-----------------------------------------------------------------------------
\* The steps of the nodes

\* The first request is taken: nothing follows a reset, and a graph is created first.
LEMMA FirstRequest ==
  ASSUME IInv, NEW w \in Worker, req[w] # <<>>
  PROVE  /\ Head(req[w]) \in Msg /\ Tail(req[w]) \in Seq(Msg)
         /\ ~Quiet(w) /\ node[w].st # "resetting"
         /\ \A k \in 1..Len(resp[w]) : resp[w][k].type # "ResetDatabase"
         /\ Head(req[w]).type = "ResetDatabase" =>
              status = "resetting" /\ Head(req[w]).n = stage.id /\ Tail(req[w]) = <<>>
         /\ Head(req[w]).type = "CreatePartialGraph" => node[w] = Absent
         /\ Head(req[w]).type \in BarrierKind => node[w].st \in {"running", "suspended"}
         /\ \A k \in 1..Len(Tail(req[w])) :
              /\ Tail(req[w])[k].type = "ResetDatabase" =>
                   /\ status = "resetting" /\ Tail(req[w])[k].n = stage.id
                   /\ k = Len(Tail(req[w]))
              /\ Tail(req[w])[k].type # "CreatePartialGraph"
              /\ Tail(req[w])[k].type \in BarrierKind =>
                   node[w].st \in {"running", "suspended"} \/ Head(req[w]).type = "CreatePartialGraph"
<1> DEFINE q == Tail(req[w])
<1>1. Pipeline(w) /\ TypeOK
  BY DEF IInv
<1>2. /\ req[w] \in Seq(Msg) /\ Head(req[w]) \in Msg /\ Head(req[w]) = req[w][1] /\ q \in Seq(Msg)
      /\ 1 \in 1..Len(req[w]) /\ Len(q) = Len(req[w]) - 1 /\ Len(req[w]) \in Nat
      /\ \A k \in 1..Len(q) : q[k] = req[w][k + 1] /\ k + 1 \in 1..Len(req[w]) /\ k + 1 # 1
  BY <1>1, TypeFacts, TailMsg
<1>3. q = <<>> <=> Len(q) = 0
  BY <1>2, EmptyMsg
<1> HIDE DEF q
<1>4. ~Quiet(w) /\ node[w].st # "resetting" /\ \A k \in 1..Len(resp[w]) : resp[w][k].type # "ResetDatabase"
  BY <1>1 DEF Pipeline, Quiet, Resets
<1>5. Head(req[w]).type = "ResetDatabase" =>
        status = "resetting" /\ Head(req[w]).n = stage.id /\ q = <<>>
  BY <1>1, <1>2, <1>3 DEF Pipeline, Resets
<1>6. Head(req[w]).type = "CreatePartialGraph" => node[w] = Absent
  BY <1>1, <1>2 DEF Pipeline, Requests, NodeState
<1>7. "CreatePartialGraph" \notin BarrierKind
  BY DEF BarrierKind
<1>8. Head(req[w]).type \in BarrierKind => node[w].st \in {"running", "suspended"}
  BY <1>1, <1>2, <1>7 DEF Pipeline, Requests
<1>9. \A k \in 1..Len(q) : q[k].type = "ResetDatabase" =>
        status = "resetting" /\ q[k].n = stage.id /\ k = Len(q)
  <2>1. \A k \in 1..Len(req[w]) : req[w][k].type = "ResetDatabase" =>
          status = "resetting" /\ req[w][k].n = stage.id /\ k = Len(req[w])
    BY <1>1 DEF Pipeline, Resets
  <2> SUFFICES ASSUME NEW k \in 1..Len(q), q[k].type = "ResetDatabase"
               PROVE  status = "resetting" /\ q[k].n = stage.id /\ k = Len(q)
    OBVIOUS
  <2>2. q[k] = req[w][k + 1] /\ k + 1 \in 1..Len(req[w]) /\ Len(q) = Len(req[w]) - 1 /\ Len(req[w]) \in Nat
    BY <1>2
  <2> QED BY <2>1, <2>2
<1>10. \A k \in 1..Len(q) :
         /\ q[k].type # "CreatePartialGraph"
         /\ q[k].type \in BarrierKind =>
              node[w].st \in {"running", "suspended"} \/ Head(req[w]).type = "CreatePartialGraph"
  BY <1>1, <1>2 DEF Pipeline, Requests
<1> QED BY <1>2, <1>4, <1>5, <1>6, <1>8, <1>9, <1>10 DEF q

\* What a step that leaves a stream of w alone is as a change of it.
LEMMA SameStream ==
  ASSUME TypeOK, NEW w \in Worker
  PROVE  /\ resp = [resp EXCEPT ![w] = resp[w]] /\ req = [req EXCEPT ![w] = req[w]]
         /\ node = [node EXCEPT ![w] = node[w]]
  BY TypeParts DEF Streams

LEMMA AddPartialGraphStep ==
  ASSUME IInv, NEW w \in Worker, AddPartialGraph(w)
  PROVE  IInv'
<1> DEFINE q == Tail(req[w])
<1>1. TypeOK /\ Pipeline(w) /\ req[w] # <<>> /\ Head(req[w]) = Create
  BY DEF IInv, AddPartialGraph
<1>2. node[w] = Absent
  BY <1>1, FirstRequest, MsgKinds
<1>3. /\ node' = [node EXCEPT ![w] = NoActors] /\ req' = [req EXCEPT ![w] = q]
      /\ resp' = [resp EXCEPT ![w] = resp[w]]
      /\ UNCHANGED <<metaVars, schedVars, connected, clock, errors>> /\ failures' \in Nat
  <2>1. node' = [node EXCEPT ![w] = NoActors] /\ req' = [req EXCEPT ![w] = q] /\ resp' = resp
    BY <1>2, NodeValues DEF AddPartialGraph
  <2>2. UNCHANGED <<metaVars, schedVars, connected, clock, errors>> /\ failures' \in Nat
    BY <1>1, TypeParts DEF AddPartialGraph, bounds, Numbers
  <2> QED BY <1>1, <2>1, <2>2, SameStream
<1>4. Ordered(resp[w], NoActors.issued, q, Awaited(w))
  <2>1. Ordered(resp[w], node[w].issued, req[w], Awaited(w))
    BY <1>1 DEF Pipeline, InOrder
  <2> QED BY <2>1, <1>1, <1>2, NodeValues, TypeFacts, OrderedRequest
<1>5. resp[w] \in Seq(Msg)
  BY <1>1, TypeFacts
<1>6. /\ q \in Seq(Msg) /\ ~Quiet(w) /\ \A k \in 1..Len(resp[w]) : resp[w][k].type # "ResetDatabase"
      /\ \A k \in 1..Len(q) :
           /\ q[k].type = "ResetDatabase" => status = "resetting" /\ q[k].n = stage.id /\ k = Len(q)
           /\ q[k].type # "CreatePartialGraph"
  BY <1>1, FirstRequest
<1> HIDE DEF q
<1>7. /\ NoActors \in NodeType /\ NoActors.st = "running"
      /\ \A k \in 1..Len(NoActors.issued) : NoActors.issued[k].type \in BarrierKind
  BY NodeValues
<1> QED BY <1>3, <1>4, <1>5, <1>6, <1>7, NodeStep

LEMMA SendBarrierStep ==
  ASSUME IInv, NEW w \in Worker, SendBarrier(w)
  PROVE  IInv'
<1> DEFINE q == Tail(req[w])
           m == Head(req[w])
           s == IF node[w].st = "running"
                THEN [node[w] EXCEPT !.actors = TRUE, !.issued = Append(@, m)] ELSE node[w]
<1>1. TypeOK /\ Pipeline(w) /\ req[w] # <<>> /\ m.type \in BarrierKind
  BY DEF IInv, SendBarrier
<1>2. /\ node' = [node EXCEPT ![w] = s] /\ req' = [req EXCEPT ![w] = q]
      /\ resp' = [resp EXCEPT ![w] = resp[w]]
      /\ UNCHANGED <<metaVars, schedVars, connected, clock, errors>> /\ failures' \in Nat
  <2>1. node' = [node EXCEPT ![w] = s] /\ req' = [req EXCEPT ![w] = q] /\ resp' = resp
    BY DEF SendBarrier
  <2>2. UNCHANGED <<metaVars, schedVars, connected, clock, errors>> /\ failures' \in Nat
    BY <1>1, TypeParts DEF SendBarrier, bounds, Numbers
  <2> QED BY <1>1, <2>1, <2>2, SameStream
<1>3. resp[w] \in Seq(Msg) /\ req[w] \in Seq(Msg) /\ node[w] \in NodeType /\ node[w].issued \in Seq(Msg)
  BY <1>1, TypeFacts
<1>4. /\ m \in Msg /\ q \in Seq(Msg) /\ ~Quiet(w)
      /\ \A k \in 1..Len(resp[w]) : resp[w][k].type # "ResetDatabase"
      /\ node[w].st \in {"running", "suspended"}
      /\ \A k \in 1..Len(q) :
           /\ q[k].type = "ResetDatabase" => status = "resetting" /\ q[k].n = stage.id /\ k = Len(q)
           /\ q[k].type # "CreatePartialGraph"
  BY <1>1, FirstRequest
<1>5. Ordered(resp[w], node[w].issued, q, Awaited(w)) /\ Ordered(resp[w], Append(node[w].issued, m), q, Awaited(w))
  <2>1. Ordered(resp[w], node[w].issued, req[w], Awaited(w))
    BY <1>1 DEF Pipeline, InOrder
  <2> QED BY <2>1, <1>1, <1>3, OrderedRequest
<1> HIDE DEF q, m
<1>6. /\ s \in NodeType /\ s.st = node[w].st
      /\ s.issued = IF node[w].st = "running" THEN Append(node[w].issued, m) ELSE node[w].issued
  BY <1>3, <1>4, AppendMsg DEF NodeType
<1> HIDE DEF s
<1>7. Ordered(resp[w], s.issued, q, Awaited(w))
  BY <1>5, <1>6
<1>8. /\ node[w].st # "running" => node[w].issued = <<>>
      /\ \A k \in 1..Len(node[w].issued) : node[w].issued[k].type \in BarrierKind
  BY <1>1 DEF Pipeline, NodeState
<1>9. \A k \in 1..Len(s.issued) : s.issued[k].type \in BarrierKind
  BY <1>1, <1>3, <1>4, <1>6, <1>8, AppendMsg DEF m
<1> QED BY <1>2, <1>3, <1>4, <1>6, <1>7, <1>8, <1>9, NodeStep

\* A node that has the database has not answered a reset.
LEMMA NodeActs ==
  ASSUME IInv, NEW w \in Worker, node[w].st # "absent"
  PROVE  /\ ~Quiet(w)
         /\ \A k \in 1..Len(resp[w]) : resp[w][k].type # "ResetDatabase"
         /\ \A k \in 1..Len(req[w]) :
              /\ req[w][k].type = "ResetDatabase" => status = "resetting" /\ req[w][k].n = stage.id /\ k = Len(req[w])
              /\ req[w][k].type # "CreatePartialGraph"
              /\ req[w][k].type \in BarrierKind => node[w].st \in {"running", "suspended"}
<1>1. Pipeline(w) /\ TypeOK
  BY DEF IInv
<1>2. ~Quiet(w)
  BY NodeValues DEF Quiet
<1>3. \A k \in 1..Len(resp[w]) : resp[w][k].type # "ResetDatabase"
  BY <1>1 DEF Pipeline, Resets
<1>4. \A k \in 1..Len(req[w]) :
        req[w][k].type = "ResetDatabase" => status = "resetting" /\ req[w][k].n = stage.id /\ k = Len(req[w])
  BY <1>1 DEF Pipeline, Resets
<1>5. \A k \in 1..Len(req[w]) : req[w][k].type # "CreatePartialGraph"
  BY <1>1 DEF Pipeline, Requests
<1>6. \A k \in 1..Len(req[w]) : 1 \in 1..Len(req[w])
  BY <1>1, TypeFacts
<1>7. \A k \in 1..Len(req[w]) : req[w][k].type \in BarrierKind => node[w].st \in {"running", "suspended"}
  BY <1>1, <1>5, <1>6 DEF Pipeline, Requests
<1> QED BY <1>2, <1>3, <1>4, <1>5, <1>7

LEMMA OnEpochCompletedStep ==
  ASSUME IInv, NEW w \in Worker, OnEpochCompleted(w)
  PROVE  IInv'
<1> DEFINE i == node[w].issued
           m == Head(i)
           s == [node[w] EXCEPT !.issued = Tail(@), !.actors = @ /\ m.type # "Stop"]
           r == Append(resp[w], Complete(m.n))
<1>1. TypeOK /\ Pipeline(w) /\ node[w].st = "running" /\ i # <<>>
  BY DEF IInv, OnEpochCompleted
<1>2. /\ node' = [node EXCEPT ![w] = s] /\ resp' = [resp EXCEPT ![w] = r]
      /\ req' = [req EXCEPT ![w] = req[w]]
      /\ UNCHANGED <<metaVars, schedVars, connected, clock, errors>> /\ failures' \in Nat
  <2>1. resp' = [resp EXCEPT ![w] = r] /\ req' = req
    BY DEF OnEpochCompleted, Respond
  <2>3. node' = [node EXCEPT ![w] = s]
    BY DEF OnEpochCompleted
  <2>2. UNCHANGED <<metaVars, schedVars, connected, clock, errors>> /\ failures' \in Nat
    BY <1>1, TypeParts DEF OnEpochCompleted, bounds, Numbers
  <2> QED BY <1>1, <2>1, <2>2, <2>3, SameStream
<1>3. resp[w] \in Seq(Msg) /\ req[w] \in Seq(Msg) /\ node[w] \in NodeType /\ i \in Seq(Msg)
  BY <1>1, TypeFacts
<1>4. /\ m = i[1] /\ 1 \in 1..Len(i) /\ m \in Msg /\ Tail(i) \in Seq(Msg)
      /\ \A k \in 1..Len(Tail(i)) : Tail(i)[k] = i[k + 1] /\ k + 1 \in 1..Len(i)
  BY <1>1, <1>3, TailMsg
<1>5. \A k \in 1..Len(i) : i[k].type \in BarrierKind
  BY <1>1 DEF Pipeline, NodeState
<1>6. Ordered(r, Tail(i), req[w], Awaited(w))
  <2>1. Ordered(resp[w], i, req[w], Awaited(w))
    BY <1>1 DEF Pipeline, InOrder
  <2>2. m.type \in Barriers
    BY <1>4, <1>5, MsgKinds
  <2> QED BY <2>1, <2>2, <1>1, <1>3, OrderedComplete
<1>7. Complete(m.n) \in Msg /\ Complete(m.n).type = "CompleteBarrier"
  BY <1>4, MsgKinds
<1> DEFINE c == Complete(m.n)
<1> HIDE DEF c
<1>8. r \in Seq(Msg) /\ \A k \in 1..Len(r) : r[k].type # "ResetDatabase"
  <2>1. \A k \in 1..Len(resp[w]) : resp[w][k].type # "ResetDatabase"
    BY <1>1, NodeActs
  <2>2. c \in Msg /\ c.type = "CompleteBarrier" /\ r = Append(resp[w], c)
    BY <1>7 DEF c
  <2> HIDE DEF r
  <2> QED BY <2>1, <2>2, <1>3, AppendMsg
<1> HIDE DEF r, m
<1>9. s \in NodeType /\ s.st = "running" /\ s.issued = Tail(i)
  BY <1>1, <1>3, <1>4 DEF NodeType
<1> HIDE DEF s
<1>10. \A k \in 1..Len(s.issued) : s.issued[k].type \in BarrierKind
  BY <1>4, <1>5, <1>9
<1> HIDE DEF i
<1>11. Ordered(r, s.issued, req[w], Awaited(w))
  BY <1>6, <1>9
<1>12. /\ ~Quiet(w)
       /\ \A k \in 1..Len(req[w]) :
            /\ req[w][k].type = "ResetDatabase" => status = "resetting" /\ req[w][k].n = stage.id /\ k = Len(req[w])
            /\ req[w][k].type # "CreatePartialGraph"
  BY <1>1, NodeActs
<1> QED BY <1>2, <1>3, <1>8, <1>9, <1>10, <1>11, <1>12, NodeStep

\* The node sends a response m, and keeps its requests.
LEMMA Responds ==
  ASSUME NEW r \in Seq(Msg), NEW m \in Msg,
         \A k \in 1..Len(r) : r[k].type # "ResetDatabase"
  PROVE  /\ Append(r, m) \in Seq(Msg)
         /\ \A k \in 1..Len(Append(r, m)) : Append(r, m)[k].type = "ResetDatabase" =>
              k = Len(Append(r, m)) /\ Append(r, m)[k] = m
<1> DEFINE a == Append(r, m)
<1>1. /\ a \in Seq(Msg) /\ Len(a) = Len(r) + 1 /\ Len(r) \in Nat /\ a[Len(r) + 1] = m
      /\ \A k \in 1..Len(r) : a[k] = r[k]
  BY AppendMsg
<1> HIDE DEF a
<1>2. \A k \in 1..Len(a) : k \in 1..Len(r) \/ k = Len(r) + 1
  BY <1>1
<1>3. \A k \in 1..Len(a) : a[k].type = "ResetDatabase" => k = Len(a) /\ a[k] = m
  BY <1>1, <1>2
<1> QED BY <1>1, <1>3 DEF a

LEMMA OnDatabaseFailureStep ==
  ASSUME IInv, NEW w \in Worker, OnDatabaseFailure(w)
  PROVE  IInv'
<1> DEFINE r == Append(resp[w], Failure)
<1>1. TypeOK /\ Pipeline(w) /\ node[w].st = "running" /\ resp[w] \in Seq(Msg) /\ req[w] \in Seq(Msg)
  BY TypeFacts DEF IInv, OnDatabaseFailure
<1>2. /\ node' = [node EXCEPT ![w] = Suspended] /\ resp' = [resp EXCEPT ![w] = r]
      /\ req' = [req EXCEPT ![w] = req[w]]
      /\ UNCHANGED <<metaVars, schedVars, connected, clock, errors>> /\ failures' \in Nat
  <2>1. node' = [node EXCEPT ![w] = Suspended] /\ resp' = [resp EXCEPT ![w] = r] /\ req' = req
    BY DEF OnDatabaseFailure, Respond, Suspended
  <2>2. UNCHANGED <<metaVars, schedVars, connected, clock, errors>> /\ failures' \in Nat
    BY <1>1, TypeParts DEF OnDatabaseFailure, Numbers
  <2> QED BY <1>1, <2>1, <2>2, SameStream
<1>3. /\ ~Quiet(w)
      /\ \A k \in 1..Len(resp[w]) : resp[w][k].type # "ResetDatabase"
      /\ \A k \in 1..Len(req[w]) :
           /\ req[w][k].type = "ResetDatabase" => status = "resetting" /\ req[w][k].n = stage.id /\ k = Len(req[w])
           /\ req[w][k].type # "CreatePartialGraph"
  BY <1>1, NodeActs
<1>4. Failure \in Msg /\ Failure.type # "ResetDatabase" /\ Failure.type \notin Barriers
  BY MsgKinds
<1>5. r \in Seq(Msg) /\ \A k \in 1..Len(r) : r[k].type # "ResetDatabase"
  BY <1>1, <1>3, <1>4, Responds
<1>6. /\ Suspended \in NodeType /\ Suspended.st = "suspended" /\ Suspended.issued = <<>>
      /\ \A k \in 1..Len(Suspended.issued) : Suspended.issued[k].type \in BarrierKind
  BY NodeDown
<1>7. Ordered(r, Suspended.issued, req[w], Awaited(w))
  <2>1. Ordered(resp[w], node[w].issued, req[w], Awaited(w)) /\ node[w].issued \in Seq(Msg)
    BY <1>1, TypeFacts DEF Pipeline, InOrder
  <2>2. Ordered(resp[w], <<>>, req[w], Awaited(w)) /\ <<>> \in Seq(Msg)
    BY <2>1, <1>1, OrderedForget
  <2> QED BY <2>2, <1>1, <1>4, <1>6, OrderedResponse
<1> HIDE DEF r
<1> QED BY <1>1, <1>2, <1>3, <1>5, <1>6, <1>7, NodeStep

LEMMA ResetDatabaseStep ==
  ASSUME IInv, NEW w \in Worker, ResetDatabase(w)
  PROVE  IInv'
<1> DEFINE id == Head(req[w]).n
           q == Tail(req[w])
           r == Append(resp[w], Reset(id))
<1>1. /\ TypeOK /\ Pipeline(w) /\ req[w] # <<>> /\ Head(req[w]).type = "ResetDatabase"
      /\ resp[w] \in Seq(Msg) /\ req[w] \in Seq(Msg) /\ node[w].issued \in Seq(Msg)
  BY TypeFacts DEF IInv, ResetDatabase
<1>2. /\ req' = [req EXCEPT ![w] = q]
      /\ UNCHANGED <<metaVars, schedVars, connected, clock, errors>> /\ failures' \in Nat
  BY <1>1, TypeParts DEF ResetDatabase, bounds, Numbers
<1>3. /\ Head(req[w]) \in Msg /\ q \in Seq(Msg) /\ q = <<>> /\ ~Quiet(w)
      /\ \A k \in 1..Len(resp[w]) : resp[w][k].type # "ResetDatabase"
      /\ status = "resetting" /\ id = stage.id
  BY <1>1, FirstRequest
<1>4. id \in Nat /\ Reset(id) \in Msg /\ Reset(id).n = id /\ Reset(id).type \notin Barriers
  BY <1>3, MsgKinds
<1>5. Ordered(resp[w], node[w].issued, q, Awaited(w))
  <2>1. Ordered(resp[w], node[w].issued, req[w], Awaited(w))
    BY <1>1 DEF Pipeline, InOrder
  <2> QED BY <2>1, <1>1, OrderedRequest
<1> HIDE DEF q
<1>6. CASE node[w].st = "absent"
  <2>1. resp' = [resp EXCEPT ![w] = r] /\ node' = [node EXCEPT ![w] = Absent] /\ node[w] = Absent
    <3>1. resp' = [resp EXCEPT ![w] = r] /\ node' = node
      BY <1>6 DEF ResetDatabase, Respond
    <3>2. node[w] = Absent
      BY <1>1, <1>6 DEF Pipeline, NodeState
    <3> QED BY <1>1, <3>1, <3>2, SameStream
  <2>2. Ordered(r, Absent.issued, q, Awaited(w))
    BY <1>1, <1>3, <1>4, <1>5, <2>1, OrderedResponse
  <2>3. r \in Seq(Msg) /\ \A k \in 1..Len(r) : r[k].type = "ResetDatabase" => k = Len(r) /\ r[k].n = id
    BY <1>1, <1>3, <1>4, Responds
  <2>4. /\ Absent \in NodeType /\ Absent.st = "absent" /\ Absent.issued = <<>>
        /\ \A k \in 1..Len(Absent.issued) : Absent.issued[k].type \in BarrierKind
    BY NodeValues
  <2>5. \A k \in 1..Len(q) : FALSE
    BY <1>3, EmptyMsg
  <2> HIDE DEF r, q, id
  <2> QED BY <1>2, <1>3, <2>1, <2>2, <2>3, <2>4, <2>5, NodeStep
<1>7. CASE node[w].st # "absent"
  <2>1. resp' = [resp EXCEPT ![w] = resp[w]] /\ node' = [node EXCEPT ![w] = Resetting(id)]
    <3>1. resp' = resp /\ node' = [node EXCEPT ![w] = Resetting(id)]
      BY <1>7 DEF ResetDatabase, Resetting
    <3> QED BY <1>1, <3>1, SameStream
  <2>2. /\ Resetting(id) \in NodeType /\ Resetting(id).st = "resetting" /\ Resetting(id).issued = <<>>
        /\ Resetting(id).id = id
        /\ \A k \in 1..Len(Resetting(id).issued) : Resetting(id).issued[k].type \in BarrierKind
    BY <1>4, NodeDown
  <2>3. Ordered(resp[w], Resetting(id).issued, q, Awaited(w))
    BY <1>1, <1>3, <1>5, <2>2, OrderedForget
  <2>4. \A k \in 1..Len(q) : FALSE
    BY <1>3, EmptyMsg
  <2> DEFINE s == Resetting(id)
  <2> HIDE DEF r, q, id, s
  <2>5. /\ node' = [node EXCEPT ![w] = s] /\ s \in NodeType /\ s.st = "resetting" /\ s.issued = <<>> /\ s.id = id
        /\ \A k \in 1..Len(s.issued) : s.issued[k].type \in BarrierKind
        /\ Ordered(resp[w], s.issued, q, Awaited(w))
    BY <2>1, <2>2, <2>3 DEF s
  <2> QED BY <1>1, <1>2, <1>3, <2>1, <2>4, <2>5, NodeStep
<1> QED BY <1>6, <1>7

LEMMA AckDatabaseResetStep ==
  ASSUME IInv, NEW w \in Worker, AckDatabaseReset(w)
  PROVE  IInv'
<1> DEFINE id == node[w].id
           r == Append(resp[w], Reset(id))
<1>1. /\ TypeOK /\ Pipeline(w) /\ node[w].st = "resetting" /\ id \in Nat
      /\ resp[w] \in Seq(Msg) /\ req[w] \in Seq(Msg)
  BY TypeFacts DEF IInv, AckDatabaseReset
<1>2. /\ node' = [node EXCEPT ![w] = Absent] /\ resp' = [resp EXCEPT ![w] = r]
      /\ req' = [req EXCEPT ![w] = req[w]]
      /\ UNCHANGED <<metaVars, schedVars, connected, clock, errors>> /\ failures' \in Nat
  <2>1. node' = [node EXCEPT ![w] = Absent] /\ resp' = [resp EXCEPT ![w] = r] /\ req' = req
    BY DEF AckDatabaseReset, Respond
  <2>2. UNCHANGED <<metaVars, schedVars, connected, clock, errors>> /\ failures' \in Nat
    BY <1>1, TypeParts DEF AckDatabaseReset, bounds, Numbers
  <2> QED BY <1>1, <2>1, <2>2, SameStream
<1>3. status = "resetting" /\ id = stage.id /\ req[w] = <<>>
  BY <1>1 DEF Pipeline, Resets
<1>4. ~Quiet(w) /\ \A k \in 1..Len(resp[w]) : resp[w][k].type # "ResetDatabase"
  BY <1>1, NodeActs
<1>5. Reset(id) \in Msg /\ Reset(id).n = id /\ Reset(id).type \notin Barriers
  BY <1>1, MsgKinds
<1>6. r \in Seq(Msg) /\ \A k \in 1..Len(r) : r[k].type = "ResetDatabase" => k = Len(r) /\ r[k].n = id
  BY <1>1, <1>4, <1>5, Responds
<1>7. /\ Absent \in NodeType /\ Absent.st = "absent" /\ Absent.issued = <<>>
      /\ \A k \in 1..Len(Absent.issued) : Absent.issued[k].type \in BarrierKind
      /\ \A k \in 1..Len(req[w]) : FALSE
  BY <1>3, NodeValues
<1>8. Ordered(r, Absent.issued, req[w], Awaited(w))
  <2>1. Ordered(resp[w], node[w].issued, req[w], Awaited(w)) /\ node[w].issued = <<>> /\ <<>> \in Seq(Msg)
    BY <1>1 DEF Pipeline, InOrder, NodeState
  <2> QED BY <2>1, <1>1, <1>5, <1>7, OrderedResponse
<1> HIDE DEF r, id
<1> QED BY <1>1, <1>2, <1>3, <1>4, <1>6, <1>7, <1>8, NodeStep

-----------------------------------------------------------------------------
\* The cluster starts or recovers

\* Nothing is under way to or from w.
LEMMA FreshPipeline ==
  ASSUME NEW w \in Worker, req'[w] = <<>>, resp'[w] = <<>>,
         \/ node'[w] = Absent /\ (w \notin connected' \/ status' \notin {"running", "initializing"})
         \/ /\ node'[w] \in {NoActors, Built} /\ w \in connected'
            /\ status' \in {"running", "initializing"}
  PROVE  Pipeline(w)'
<1>1. node'[w].issued = <<>> /\ (node'[w].st = "absent" => node'[w] = Absent) /\ node'[w].st # "resetting"
  BY NodeValues
<1>2. NodeState(w)'
  BY <1>1 DEF NodeState
<1>3. Silence(w)'
  BY DEF Silence, Quiet
<1>4. Resets(w)'
  BY <1>1 DEF Resets
<1>6. Requests(w)'
  BY NodeValues DEF Requests
<1>5. InOrder(w)'
  BY <1>1, OrderedEmpty DEF InOrder
<1> QED BY <1>2, <1>3, <1>4, <1>5, <1>6 DEF Pipeline

LEMMA InitIInv ==
  Init => IInv
<1> SUFFICES ASSUME Init PROVE IInv
  OBVIOUS
<1>1. TypeOK
  <2>1. NoStage \in StageType
    BY DEF NoStage, StageType
  <2>2. Streams
    BY NodeValues DEF Init, Streams
  <2>3. Flags /\ Numbers
    BY DEF Init, Flags, Numbers
  <2>4. Control
    BY <2>1 DEF Init, Control
  <2> QED BY <2>2, <2>3, <2>4, TypeParts
<1>2. MetaState
  BY DEF Init, MetaState, Recovering
<1>3. ASSUME NEW w \in Worker PROVE Pipeline(w)
  <2>1. node[w] = Built /\ req[w] = <<>> /\ resp[w] = <<>> /\ w \in connected /\ status = "running"
    BY DEF Init
  <2>2. NodeState(w) /\ Silence(w)
    BY <2>1, NodeValues DEF NodeState, Silence
  <2>4. Resets(w) /\ Requests(w)
    BY <2>1, NodeValues DEF Resets, Requests
  <2>3. InOrder(w)
    BY <2>1, NodeValues, OrderedEmpty DEF InOrder
  <2> QED BY <2>2, <2>3, <2>4 DEF Pipeline
<1> QED BY <1>1, <1>2, <1>3 DEF IInv

LEMMA GlobalRecoveryStep ==
  ASSUME IInv, GlobalRecovery, failures' \in Nat, errors' \in Nat
  PROVE  IInv'
<1>1. TypeOK /\ Flags /\ Numbers
  BY TypeParts DEF IInv
<1>2. TypeOK'
  <2>1. NoStage \in StageType
    BY DEF NoStage, StageType
  <2>2. committed' \in Nat
    <3>1. /\ committed \in Nat /\ task \in Nat
          /\ \A i \in 1..Len(queue) : queue[i].prev \in Nat
      BY <1>1, TypeFacts
    <3>2. \/ committed' = committed \/ committed' = task
          \/ \E i \in 1..Len(queue) : committed' = queue[i].prev
      BY DEF GlobalRecovery
    <3> QED BY <3>1, <3>2
  <2>3. Numbers'
    BY <1>1, <2>2 DEF GlobalRecovery, Numbers
  <2>4. Streams'
    BY NodeValues DEF GlobalRecovery, Streams
  <2>5. Flags'
    BY <1>1 DEF GlobalRecovery, Flags
  <2>6. Control'
    BY <2>1 DEF GlobalRecovery, Control
  <2> QED BY <2>3, <2>4, <2>5, <2>6, TypeParts, PTL
<1>3. MetaState'
  BY <1>1 DEF GlobalRecovery, MetaState, Recovering, Numbers
<1>4. ASSUME NEW w \in Worker PROVE Pipeline(w)'
  <2>1. /\ req'[w] = <<>> /\ resp'[w] = <<>> /\ w \in connected'
        /\ jobs => node'[w] = Built /\ status' = "running"
        /\ ~jobs => node'[w] = Absent /\ status' = "absent"
    BY DEF GlobalRecovery
  <2> QED BY <2>1, FreshPipeline
<1> QED BY <1>2, <1>3, <1>4 DEF IInv

LEMMA GlobalRecoveries ==
  ASSUME IInv,
         InjectBarrierErr \/ CommandWhenNotRunning \/ CompleteBarrierErr \/ ReloadErr
  PROVE  IInv'
<1>1. failures \in Nat /\ errors \in Nat
  BY TypeParts DEF IInv, Numbers
<1>2. GlobalRecovery /\ failures' \in Nat /\ errors' \in Nat
  BY <1>1 DEF InjectBarrierErr, CommandWhenNotRunning, CompleteBarrierErr, ReloadErr
<1> QED BY <1>2, GlobalRecoveryStep

-----------------------------------------------------------------------------
\* Steps of the meta node and of the clients that leave the pipelines alone

LEMMA MetaFrame ==
  ASSUME IInv, TypeOK', MetaState', UNCHANGED <<status, queue, streamVars, node>>,
         stage'.id = stage.id, stage'.epoch = stage.epoch, stage'.remaining = stage.remaining
  PROVE  IInv'
<1>1. UNCHANGED <<status, queue, connected, req, resp, node>>
  BY DEF streamVars
<1>2. ASSUME NEW w \in Worker PROVE Pipeline(w)'
  <2>1. Pipeline(w) /\ TypeOK
    BY DEF IInv
  <2> QED BY <1>1, <2>1, PipelineFrame
<1> QED BY <1>2 DEF IInv

LEMMA SchedulerStep ==
  ASSUME IInv, SkipCommand \/ ScheduleDrop \/ ScheduleFlush
  PROVE  IInv'
<1>1. TypeOK /\ Flags /\ Numbers /\ Control /\ Streams
  BY TypeParts DEF IInv
<1>2. UNCHANGED <<metaVars, blocked, streamVars, node, bounds>> /\ jobs' \in BOOLEAN
  BY <1>1 DEF SkipCommand, ScheduleDrop, ScheduleFlush, Flags
<1>3. sched' \in Seq({"Drop", "Flush"}) /\ commands' \in Nat
  <2>1. sched \in Seq({"Drop", "Flush"}) /\ commands \in Nat
    BY <1>1 DEF Control, Numbers
  <2>2. CASE SkipCommand
    <3>1. sched # <<>> /\ sched' = Tail(sched) /\ commands' = commands
      BY <2>2 DEF SkipCommand
    <3> QED BY <3>1, <2>1
  <2>3. CASE ScheduleDrop
    BY <2>1, <2>3 DEF ScheduleDrop
  <2>4. CASE ScheduleFlush
    BY <2>1, <2>4 DEF ScheduleFlush
  <2> QED BY <2>2, <2>3, <2>4
<1>4. /\ UNCHANGED <<status, stage, graph, prev, queue, task, committed, blocked>>
      /\ UNCHANGED <<connected, req, resp, node, clock, failures, errors>>
  BY <1>2 DEF metaVars, streamVars, bounds
<1>5. TypeOK'
  <2>1. Flags'
    BY <1>1, <1>2, <1>4 DEF Flags
  <2>2. Numbers'
    BY <1>1, <1>3, <1>4 DEF Numbers
  <2>3. Control'
    BY <1>1, <1>3, <1>4 DEF Control
  <2>4. Streams'
    BY <1>1, <1>4 DEF Streams
  <2> QED BY <2>1, <2>2, <2>3, <2>4, TypeParts, PTL
<1>6. MetaState'
  BY <1>4 DEF IInv, MetaState, Recovering
<1> QED BY <1>2, <1>4, <1>5, <1>6, MetaFrame

LEMMA StutterStep ==
  ASSUME IInv, UNCHANGED vars
  PROVE  IInv'
<1>1. /\ UNCHANGED <<status, stage, graph, prev, queue, task, committed, blocked, jobs, sched, commands>>
      /\ UNCHANGED <<connected, req, resp, node, clock, failures, errors>>
  BY DEF vars, metaVars, schedVars, streamVars, bounds
<1>2. TypeOK'
  BY <1>1 DEF IInv, TypeOK
<1>3. MetaState'
  BY <1>1 DEF IInv, MetaState, Recovering
<1> QED BY <1>1, <1>2, <1>3, MetaFrame DEF streamVars

LEMMA BackoffElapsesStep ==
  ASSUME IInv, BackoffElapses
  PROVE  IInv'
<1>1. TypeOK /\ Flags /\ Numbers /\ Control /\ Streams
  BY TypeParts DEF IInv
<1>2. /\ UNCHANGED <<status, graph, prev, queue, task, committed, blocked, jobs, sched, commands>>
      /\ UNCHANGED <<connected, req, resp, node, clock, failures, errors>>
  BY DEF BackoffElapses, schedVars, streamVars, bounds
<1>3. /\ stage' \in StageType /\ stage'.id = stage.id /\ stage'.epoch = stage.epoch
      /\ stage'.remaining = stage.remaining
  <2>1. stage \in StageType
    BY <1>1, TypeFacts
  <2> QED BY <2>1 DEF BackoffElapses, StageType
<1>4. TypeOK'
  <2>1. Flags' /\ Numbers'
    BY <1>1, <1>2 DEF Flags, Numbers
  <2>2. Control' /\ Streams'
    BY <1>1, <1>2, <1>3 DEF Control, Streams
  <2> QED BY <2>1, <2>2, TypeParts, PTL
<1>5. MetaState'
  BY <1>2, <1>3 DEF IInv, MetaState, Recovering
<1> QED BY <1>2, <1>3, <1>4, <1>5, MetaFrame DEF streamVars

LEMMA CommitEpochStep ==
  ASSUME IInv, CommitEpoch
  PROVE  IInv'
<1>1. TypeOK /\ Flags /\ Numbers /\ Control /\ Streams
  BY TypeParts DEF IInv
<1>2. /\ UNCHANGED <<status, stage, graph, prev, queue, blocked, jobs, sched, commands>>
      /\ UNCHANGED <<connected, req, resp, node, clock, failures, errors>>
      /\ task # 0 /\ committed' = task /\ task' = 0
  BY DEF CommitEpoch, schedVars, streamVars, bounds
<1>3. TypeOK'
  <2>1. Flags' /\ Numbers'
    BY <1>1, <1>2 DEF Flags, Numbers
  <2>2. Control' /\ Streams'
    BY <1>1, <1>2 DEF Control, Streams
  <2> QED BY <2>1, <2>2, TypeParts, PTL
<1>4. MetaState'
  BY <1>2 DEF IInv, MetaState, Recovering
<1> QED BY <1>2, <1>3, <1>4, MetaFrame DEF streamVars

-----------------------------------------------------------------------------
\* Workers that leave and join

LEMMA LoseWorkerStep ==
  ASSUME IInv, NEW w \in Worker, LoseWorker(w), failures' \in Nat, errors' \in Nat
  PROVE  IInv'
<1>1. CASE IsFailedAtWorkerErr(w)
  BY <1>1, GlobalRecoveryStep DEF LoseWorker
<1>2. CASE ~IsFailedAtWorkerErr(w)
  <2>1. TypeOK /\ Flags /\ Numbers /\ Control /\ Streams
    BY TypeParts DEF IInv
  <2>2. /\ UNCHANGED <<status, stage, graph, prev, queue, task, committed, blocked, jobs, sched, commands, clock>>
        /\ StreamLost(w)
    BY <1>2 DEF LoseWorker, metaVars, schedVars
  <2>3. /\ connected' = connected \ {w} /\ req' = [req EXCEPT ![w] = <<>>]
        /\ resp' = [resp EXCEPT ![w] = <<>>] /\ node' = [node EXCEPT ![w] = Absent]
    BY <2>2 DEF StreamLost
  <2>4. TypeOK'
    <3>1. Flags' /\ Numbers'
      BY <2>1, <2>2 DEF Flags, Numbers
    <3>2. Control'
      BY <2>1, <2>2, <2>3 DEF Control
    <3>3. Streams'
      BY <2>1, <2>3, NodeValues DEF Streams
    <3> QED BY <3>1, <3>2, <3>3, TypeParts, PTL
  <2>5. MetaState'
    BY <2>2 DEF IInv, MetaState, Recovering
  <2>6. ASSUME NEW x \in Worker PROVE Pipeline(x)'
    <3>1. CASE x = w
      <4>1. req'[x] = <<>> /\ resp'[x] = <<>> /\ node'[x] = Absent /\ x \notin connected'
        BY <2>1, <2>3, <3>1 DEF Streams
      <4> QED BY <4>1, FreshPipeline
    <3>2. CASE x # w
      <4>1. req'[x] = req[x] /\ resp'[x] = resp[x] /\ node'[x] = node[x] /\ (x \in connected' <=> x \in connected)
        BY <2>1, <2>3, <3>2 DEF Streams
      <4>2. Pipeline(x) /\ TypeOK
        BY DEF IInv
      <4> QED BY <2>2, <4>1, <4>2, PipelineFrame
    <3> QED BY <3>1, <3>2
  <2> QED BY <2>4, <2>5, <2>6 DEF IInv
<1> QED BY <1>1, <1>2

LEMMA WorkerStep ==
  ASSUME IInv, NEW w \in Worker, WorkerError(w) \/ NodePanics(w)
  PROVE  IInv'
<1>1. failures \in Nat /\ errors \in Nat
  BY TypeParts DEF IInv, Numbers
<1>2. LoseWorker(w) /\ failures' \in Nat /\ errors' \in Nat
  BY <1>1 DEF WorkerError, NodePanics
<1> QED BY <1>2, LoseWorkerStep

LEMMA AddWorkerStep ==
  ASSUME IInv, NEW w \in Worker, AddWorker(w)
  PROVE  IInv'
<1> DEFINE s == IF status \in {"running", "initializing"} THEN NoActors ELSE Absent
<1>1. TypeOK /\ Flags /\ Numbers /\ Control /\ Streams
  BY TypeParts DEF IInv
<1>2. /\ UNCHANGED <<status, stage, graph, prev, queue, task, committed, blocked, jobs, sched, commands>>
      /\ UNCHANGED <<req, resp, clock, failures, errors>>
  BY DEF AddWorker, metaVars, schedVars, bounds
<1>3. w \notin connected /\ connected' = connected \cup {w} /\ node' = [node EXCEPT ![w] = s]
  BY DEF AddWorker
<1>4. s \in NodeType
  BY NodeValues
<1>5. TypeOK'
  <2>1. Flags' /\ Numbers'
    BY <1>1, <1>2 DEF Flags, Numbers
  <2>2. Control'
    BY <1>1, <1>2, <1>3 DEF Control
  <2>3. Streams'
    BY <1>1, <1>2, <1>3, <1>4 DEF Streams
  <2> QED BY <2>1, <2>2, <2>3, TypeParts, PTL
<1>6. MetaState'
  BY <1>2 DEF IInv, MetaState, Recovering
<1>7. ASSUME NEW x \in Worker PROVE Pipeline(x)'
  <2>0. Pipeline(x)
    BY DEF IInv
  <2>1. CASE x = w
    <3>1. req'[x] = <<>> /\ resp'[x] = <<>>
      BY <1>2, <1>3, <2>0, <2>1 DEF Pipeline, Silence, Quiet
    <3>2. node'[x] = s /\ x \in connected'
      BY <1>1, <1>3, <2>1 DEF Streams
    <3> QED BY <1>2, <3>1, <3>2, FreshPipeline
  <2>2. CASE x # w
    <3>1. node'[x] = node[x] /\ (x \in connected' <=> x \in connected)
      BY <1>1, <1>3, <2>2 DEF Streams
    <3> QED BY <1>1, <1>2, <2>0, <3>1, PipelineFrame
  <2> QED BY <2>1, <2>2
<1> QED BY <1>5, <1>6, <1>7 DEF IInv

-----------------------------------------------------------------------------
\* Barriers of the running database

LEMMA StartCompletingStep ==
  ASSUME IInv, StartCompleting
  PROVE  IInv'
<1>1. TypeOK /\ Flags /\ Numbers /\ Control /\ Streams
  BY TypeParts DEF IInv
<1>2. /\ UNCHANGED <<status, stage, graph, prev, committed, blocked, jobs, sched, commands>>
      /\ UNCHANGED <<connected, req, resp, node, clock, failures, errors>>
      /\ status = "running" /\ queue # <<>> /\ Head(queue).wait = {}
      /\ task' = Head(queue).prev /\ queue' = Tail(queue)
  BY DEF StartCompleting, schedVars, streamVars, bounds
<1>3. /\ queue \in Seq(EntryType) /\ Head(queue) = queue[1] /\ Len(queue) \in Nat /\ queue[1] \in EntryType
      /\ queue' \in Seq(EntryType) /\ Len(queue') = Len(queue) - 1
      /\ \A k \in 1..Len(queue') : queue'[k] = queue[k + 1] /\ k + 1 \in 1..Len(queue)
      /\ \A k \in 1..Len(queue) : k # 1 => k - 1 \in 1..Len(queue') /\ queue'[k - 1] = queue[k]
  <2>1. queue \in Seq(EntryType) /\ queue # <<>> /\ queue' = Tail(queue)
    BY <1>1, <1>2 DEF Control
  <2> QED BY <2>1
<1>4. task' \in Nat
  BY <1>2, <1>3 DEF EntryType
<1>5. TypeOK'
  <2>1. Flags' /\ Numbers'
    BY <1>1, <1>2, <1>4 DEF Flags, Numbers
  <2>2. Control' /\ Streams'
    BY <1>1, <1>2, <1>3 DEF Control, Streams
  <2> QED BY <2>1, <2>2, TypeParts, PTL
<1>6. MetaState'
  BY <1>2, <1>3 DEF IInv, MetaState, Recovering
<1>7. ASSUME NEW w \in Worker PROVE Pipeline(w)'
  <2>1. Awaited(w) \subseteq Awaited(w)'
    <3> SUFFICES ASSUME NEW n \in Nat, NEW i \in 1..Len(queue), queue[i].prev = n, w \in queue[i].wait
                 PROVE  \E k \in 1..Len(queue') : queue'[k].prev = n /\ w \in queue'[k].wait
      BY <1>2 DEF Awaited
    <3>1. i # 1
      BY <1>2, <1>3
    <3> QED BY <1>3, <3>1
  <2>2. Pipeline(w)
    BY DEF IInv
  <2> QED BY <1>1, <1>2, <2>1, <2>2, PipelineKept
<1> QED BY <1>5, <1>6, <1>7 DEF IInv

\* A barrier m, newer than those under way, is sent to w.
LEMMA SentBarrier ==
  ASSUME TypeOK, NEW w \in Worker, Pipeline(w), w \in connected, status = "running",
         UNCHANGED <<status, connected>>, resp'[w] = resp[w], node'[w] = node[w],
         NEW m \in Msg, m.type \in BarrierKind, req'[w] = Append(req[w], m),
         Awaited(w) \subseteq Awaited(w)', m.n \in Awaited(w)', \A n \in Awaited(w) : n < m.n
  PROVE  Pipeline(w)'
<1> DEFINE q == req[w]
           a == Append(q, m)
<1>1. /\ q \in Seq(Msg) /\ a \in Seq(Msg) /\ Len(a) = Len(q) + 1 /\ Len(q) \in Nat
      /\ a[Len(q) + 1] = m /\ \A k \in 1..Len(q) : a[k] = q[k]
      /\ req'[w] = a /\ (q = <<>> <=> Len(q) = 0) /\ (a = <<>> <=> Len(a) = 0)
  BY TypeFacts, AppendMsg, EmptyMsg
<1> HIDE DEF q, a
<1>2. \A k \in 1..Len(a) : k \in 1..Len(q) \/ k = Len(q) + 1
  BY <1>1
<1>3. m.type # "ResetDatabase" /\ m.type # "CreatePartialGraph"
  BY DEF BarrierKind
<1>4. NodeState(w)' /\ Silence(w)'
  BY DEF Pipeline, NodeState, Silence
<1>5. Resets(w)'
  <2>1. /\ node[w].st # "resetting" /\ \A k \in 1..Len(resp[w]) : resp[w][k].type # "ResetDatabase"
        /\ \A k \in 1..Len(q) : q[k].type # "ResetDatabase"
    BY DEF Pipeline, Resets, q
  <2>2. \A k \in 1..Len(a) : a[k].type # "ResetDatabase"
    BY <1>1, <1>2, <1>3, <2>1
  <2> QED BY <1>1, <2>1, <2>2 DEF Resets
<1>6. Requests(w)'
  <2>1. /\ node[w].st \in {"running", "suspended"} \/ (q # <<>> /\ q[1].type = "CreatePartialGraph")
        /\ \A k \in 1..Len(q) : q[k].type = "CreatePartialGraph" => k = 1 /\ node[w].st = "absent"
    BY DEF Pipeline, Requests, q
  <2>2. node[w].st \in {"running", "suspended"} \/ (a # <<>> /\ a[1].type = "CreatePartialGraph")
    BY <1>1, <2>1
  <2>3. \A k \in 1..Len(a) : a[k].type = "CreatePartialGraph" => k = 1 /\ node[w].st = "absent"
    BY <1>1, <1>2, <1>3, <2>1
  <2> QED BY <1>1, <2>2, <2>3 DEF Requests
<1>7. InOrder(w)'
  <2>1. Ordered(resp[w], node[w].issued, q, Awaited(w))
    BY DEF Pipeline, InOrder, q
  <2>2. Ordered(resp[w], node[w].issued, a, Awaited(w)')
    BY <1>1, <2>1, TypeFacts, OrderedSend DEF a
  <2> QED BY <1>1, <2>2 DEF InOrder
<1> QED BY <1>4, <1>5, <1>6, <1>7 DEF Pipeline

LEMMA NewBarrierStep ==
  ASSUME IInv, NEW kind \in {"Checkpoint", "Stop"}, NewBarrier(kind)
  PROVE  IInv'
<1> DEFINE m == Inject(kind, prev)
           e == [prev |-> prev, wait |-> connected]
<1>1. TypeOK /\ MetaState /\ Flags /\ Numbers /\ Control /\ Streams
  BY TypeParts DEF IInv
<1>2. /\ UNCHANGED <<status, stage, task, committed, blocked, jobs, commands>>
      /\ UNCHANGED <<connected, resp, node, failures, errors>>
      /\ status = "running" /\ connected = Worker
      /\ sched' = IF sched = <<>> THEN sched ELSE Tail(sched)
      /\ queue' = Append(queue, e) /\ req' = SendAll(<<m>>)
      /\ prev' = clock + 1 /\ clock' = clock + 1 /\ graph' \in BOOLEAN
  BY DEF NewBarrier
<1>3. /\ m \in Msg /\ m.type \in BarrierKind /\ m.n = prev
  BY <1>1, MsgKinds DEF Numbers, BarrierKind
<1> HIDE DEF m
<1>4. /\ queue' \in Seq(EntryType) /\ Len(queue') = Len(queue) + 1 /\ Len(queue) \in Nat
      /\ queue'[Len(queue) + 1].prev = prev /\ queue'[Len(queue) + 1].wait = Worker
      /\ \A k \in 1..Len(queue) : queue'[k] = queue[k]
  <2>1. queue \in Seq(EntryType) /\ e \in EntryType /\ e.prev = prev /\ e.wait = Worker
    BY <1>1, <1>2 DEF Control, EntryType, Numbers
  <2> HIDE DEF e
  <2> QED BY <1>2, <2>1
<1>5. sched' \in Seq({"Drop", "Flush"})
  <2>1. sched \in Seq({"Drop", "Flush"})
    BY <1>1 DEF Control
  <2> QED BY <1>2, <2>1
<1>6. ASSUME NEW w \in Worker PROVE req'[w] = Append(req[w], m)
  BY <1>1, <1>2, <1>3, TypeFacts, AppendMsg DEF SendAll
<1>7. TypeOK'
  <2>1. Flags' /\ Numbers'
    BY <1>1, <1>2 DEF Flags, Numbers
  <2>2. Control'
    BY <1>1, <1>2, <1>4, <1>5 DEF Control
  <2>3. Streams'
    <3>1. req' \in [Worker -> Seq(Msg)]
      <4>0. \A w \in Worker : req[w] \in Seq(Msg)
        BY <1>1, TypeFacts
      <4>1. \A w \in Worker : req'[w] \in Seq(Msg)
        BY <1>3, <1>6, <4>0, AppendMsg
      <4> QED BY <1>2, <4>1 DEF SendAll
    <3> QED BY <1>1, <1>2, <3>1 DEF Streams
  <2> QED BY <2>1, <2>2, <2>3, TypeParts, PTL
<1>8. MetaState'
  <2>1. \A k \in 1..Len(queue') : queue'[k].prev < prev'
    <3>1. \A k \in 1..Len(queue) : queue[k].prev < prev /\ queue[k].prev \in Nat
      BY <1>1, TypeFacts DEF MetaState
    <3>2. prev <= clock /\ prev \in Nat /\ clock \in Nat
      BY <1>1, TypeFacts DEF MetaState
    <3>3. \A k \in 1..Len(queue') : k \in 1..Len(queue) \/ k = Len(queue) + 1
      BY <1>4
    <3> QED BY <1>2, <1>4, <3>1, <3>2, <3>3
  <2> QED BY <1>1, <1>2, <2>1 DEF MetaState, Recovering, Numbers
<1>9. ASSUME NEW w \in Worker PROVE Pipeline(w)'
  <2>1. Awaited(w) \subseteq Awaited(w)'
    <3>1. \A k \in 1..Len(queue) : k \in 1..Len(queue')
      BY <1>4
    <3> QED BY <1>2, <1>4, <3>1 DEF Awaited
  <2>2. m.n \in Awaited(w)'
    <3>1. Len(queue) + 1 \in 1..Len(queue')
      BY <1>4
    <3> QED BY <1>1, <1>2, <1>3, <1>4, <3>1 DEF Awaited, Numbers
  <2>3. \A n \in Awaited(w) : n < m.n
    BY <1>1, <1>2, <1>3 DEF Awaited, MetaState
  <2>4. Pipeline(w)
    BY DEF IInv
  <2> QED BY <1>1, <1>2, <1>3, <1>6, <2>1, <2>2, <2>3, <2>4, SentBarrier
<1> QED BY <1>7, <1>8, <1>9 DEF IInv

-----------------------------------------------------------------------------
\* Responses

\* The meta node takes a response other than that to a reset.
LEMMA TakeResponse ==
  ASSUME TypeOK, NEW w \in Worker, Pipeline(w), resp[w] # <<>>, resp'[w] = Tail(resp[w]),
         req'[w] = req[w], node'[w] = node[w],
         w \in connected' <=> w \in connected, status' = "absent" => status = "absent",
         status' \in {"running", "initializing"} => status \in {"running", "initializing"},
         status = "resetting" => status' = "resetting" /\ stage'.id = stage.id,
         status' = "resetting" /\ w \notin stage'.remaining => status = "resetting" /\ w \notin stage.remaining,
         \A n \in Awaited(w) :
           (Head(resp[w]).type \in Barriers => Head(resp[w]).n < n) => n \in Awaited(w)'
  PROVE  Pipeline(w)'
<1> DEFINE r == Tail(resp[w])
<1>1. /\ resp[w] \in Seq(Msg) /\ r \in Seq(Msg) /\ Len(r) = Len(resp[w]) - 1 /\ Len(resp[w]) \in Nat
      /\ \A k \in 1..Len(r) : r[k] = resp[w][k + 1] /\ k + 1 \in 1..Len(resp[w])
  BY TypeFacts, TailMsg
<1> HIDE DEF r
<1>2. resp'[w] = r
  BY DEF r
<1>3. NodeState(w)' /\ Requests(w)'
  BY DEF Pipeline, NodeState, Requests
<1>4. Silence(w)'
  BY DEF Pipeline, Silence, Quiet
<1>5. Resets(w)'
  <2>1. \A k \in 1..Len(r) : r[k].type = "ResetDatabase" =>
          /\ status' = "resetting" /\ r[k].n = stage'.id
          /\ k = Len(r) /\ node[w].st = "absent" /\ req[w] = <<>>
    BY <1>1 DEF Pipeline, Resets
  <2>2. /\ node[w].st = "resetting" => status' = "resetting" /\ node[w].id = stage'.id /\ req[w] = <<>>
        /\ \A k \in 1..Len(req[w]) : req[w][k].type = "ResetDatabase" =>
             status' = "resetting" /\ req[w][k].n = stage'.id /\ k = Len(req[w])
    BY DEF Pipeline, Resets
  <2> QED BY <1>2, <2>1, <2>2 DEF Resets
<1>6. InOrder(w)'
  <2>1. Ordered(resp[w], node[w].issued, req[w], Awaited(w))
    BY DEF Pipeline, InOrder
  <2>2. Ordered(r, node[w].issued, req[w], Awaited(w)')
    BY <1>1, <2>1, TypeFacts, OrderedCollect DEF r
  <2> QED BY <1>2, <2>2 DEF InOrder
<1> QED BY <1>3, <1>4, <1>5, <1>6 DEF Pipeline

\* What a response taken changes in the streams.
LEMMA ResponseTaken ==
  ASSUME TypeOK, NEW w \in Worker, resp[w] # <<>>, resp' = [resp EXCEPT ![w] = Tail(@)]
  PROVE  /\ resp' \in [Worker -> Seq(Msg)] /\ resp'[w] = Tail(resp[w])
         /\ \A x \in Worker : x # w => resp'[x] = resp[x]
<1>1. Streams /\ Tail(resp[w]) \in Seq(Msg)
  BY TypeParts, TypeFacts, TailMsg
<1> QED BY <1>1 DEF Streams

LEMMA BarrierCollectedStep ==
  ASSUME IInv, NEW w \in Worker, BarrierCollected(w)
  PROVE  IInv'
<1> DEFINE e == Head(resp[w]).n
<1>1. TypeOK /\ MetaState /\ Flags /\ Numbers /\ Control /\ Streams
  BY TypeParts DEF IInv
<1>2. /\ UNCHANGED <<status, graph, prev, task, committed, blocked, jobs, sched, commands>>
      /\ UNCHANGED <<connected, req, node, clock, failures, errors>>
      /\ resp[w] # <<>> /\ Head(resp[w]).type = "CompleteBarrier" /\ resp' = [resp EXCEPT ![w] = Tail(@)]
      /\ stage' = IF status # "initializing" THEN stage ELSE [stage EXCEPT !.remaining = @ \ {w}]
      /\ queue' = IF status # "running" THEN queue
                  ELSE [i \in 1..Len(queue) |-> IF queue[i].prev = e
                          THEN [queue[i] EXCEPT !.wait = @ \ {w}] ELSE queue[i]]
  BY DEF BarrierCollected, schedVars, bounds
<1>3. /\ resp' \in [Worker -> Seq(Msg)] /\ resp'[w] = Tail(resp[w])
      /\ \A x \in Worker : x # w => resp'[x] = resp[x]
  BY <1>1, <1>2, ResponseTaken
<1> HIDE DEF e
<1>4. /\ queue' \in Seq(EntryType) /\ Len(queue') = Len(queue) /\ Len(queue) \in Nat
      /\ \A i \in 1..Len(queue) :
           /\ queue'[i].prev = queue[i].prev
           /\ \A x \in Worker : x \in queue[i].wait /\ (x # w \/ queue[i].prev # e) => x \in queue'[i].wait
  <2>1. queue \in Seq(EntryType) /\ Len(queue) \in Nat /\ \A i \in 1..Len(queue) : queue[i] \in EntryType
    BY <1>1 DEF Control
  <2>2. CASE status # "running"
    BY <1>2, <2>1, <2>2
  <2>3. CASE status = "running"
    <3> DEFINE f(i) == IF queue[i].prev = e THEN [queue[i] EXCEPT !.wait = @ \ {w}] ELSE queue[i]
    <3>1. \A i \in 1..Len(queue) :
            /\ f(i) \in EntryType /\ f(i).prev = queue[i].prev
            /\ \A x \in Worker : x \in queue[i].wait /\ (x # w \/ queue[i].prev # e) => x \in f(i).wait
      BY <2>1 DEF EntryType
    <3>2. queue' = [i \in 1..Len(queue) |-> f(i)]
      BY <1>2, <2>3
    <3> HIDE DEF f
    <3>3. queue' \in Seq(EntryType) /\ Len(queue') = Len(queue) /\ \A i \in 1..Len(queue) : queue'[i] = f(i)
      BY <2>1, <3>1, <3>2
    <3> QED BY <2>1, <3>1, <3>3
  <2> QED BY <2>2, <2>3
<1>5. /\ stage' \in StageType /\ stage'.id = stage.id /\ stage'.epoch = stage.epoch
      /\ \A x \in Worker : x \in stage.remaining /\ x # w => x \in stage'.remaining
      /\ status # "initializing" => stage' = stage
  <2>1. stage \in StageType
    BY <1>1, TypeFacts
  <2> QED BY <1>2, <2>1 DEF StageType
<1>6. TypeOK'
  <2>1. Flags' /\ Numbers'
    BY <1>1, <1>2 DEF Flags, Numbers
  <2>2. Control'
    BY <1>1, <1>2, <1>4, <1>5 DEF Control
  <2>3. Streams'
    BY <1>1, <1>2, <1>3 DEF Streams
  <2> QED BY <2>1, <2>2, <2>3, TypeParts, PTL
<1>7. MetaState'
  <2>1. Recovering => queue' = queue
    BY <1>2 DEF Recovering
  <2> QED BY <1>1, <1>2, <1>4, <1>5, <2>1 DEF MetaState, Recovering
<1>8. ASSUME NEW x \in Worker, NEW n \in Awaited(x), x # w \/ e < n PROVE n \in Awaited(x)'
  <2>0. n \in Nat
    BY DEF Awaited
  <2>1. CASE status = "running"
    BY <1>2, <1>4, <1>8, <2>0, <2>1 DEF Awaited
  <2>2. CASE status = "initializing"
    <3>1. x # w
      <4>1. Ordered(resp[w], node[w].issued, req[w], Awaited(w))
        BY DEF IInv, Pipeline, InOrder
      <4>2. Head(resp[w]) = resp[w][1] /\ 1 \in 1..Len(resp[w])
        BY <1>1, <1>2, TypeFacts, TailMsg
      <4>3. e \in Awaited(w)
        BY <1>2, <4>1, <4>2, MsgKinds DEF Ordered, AllIn, e
      <4> QED BY <1>8, <2>2, <4>3 DEF Awaited
    <3> QED BY <1>2, <1>5, <2>0, <2>2, <3>1 DEF Awaited
  <2>3. CASE status \notin {"running", "initializing"}
    BY <1>2, <2>0, <2>3 DEF Awaited
  <2> QED BY <2>1, <2>2, <2>3
<1>9. ASSUME NEW x \in Worker PROVE Pipeline(x)'
  <2>1. Pipeline(x)
    BY DEF IInv
  <2>2. CASE x # w
    <3>1. Awaited(x) \subseteq Awaited(x)'
      BY <1>8, <2>2
    <3> QED BY <1>1, <1>2, <1>3, <1>5, <2>1, <2>2, <3>1, PipelineKept
  <2>3. CASE x = w
    <3>1. \A n \in Awaited(x) : e < n => n \in Awaited(x)'
      BY <1>8, <2>3
    <3>2. Head(resp[w]).type \in Barriers
      BY <1>2, MsgKinds
    <3> QED BY <1>1, <1>2, <1>3, <1>5, <2>1, <2>3, <3>1, <3>2, TakeResponse DEF e
  <2> QED BY <2>2, <2>3
<1> QED BY <1>6, <1>7, <1>9 DEF IInv

-----------------------------------------------------------------------------
\* Resets

\* A reset is sent after all that is under way to w; a response may be taken.
LEMMA ResetSent ==
  ASSUME TypeOK, NEW w \in Worker, Pipeline(w), status # "resetting", status' = "resetting",
         connected' = connected, stage'.remaining = connected, stage'.id \in Nat, node'[w] = node[w],
         resp'[w] = resp[w] \/ (resp[w] # <<>> /\ resp'[w] = Tail(resp[w])),
         w \in connected => req'[w] = Append(req[w], Reset(stage'.id)),
         w \notin connected => req'[w] = req[w]
  PROVE  Pipeline(w)'
<1>1. CASE w \notin connected
  <2>1. req'[w] = <<>> /\ resp'[w] = <<>> /\ node'[w] = Absent
    BY <1>1 DEF Pipeline, Silence, Quiet
  <2> QED BY <1>1, <2>1, FreshPipeline
<1>2. CASE w \in connected
  <2> DEFINE q == req[w]
             m == Reset(stage'.id)
             a == Append(q, m)
             r == resp'[w]
  <2>1. m \in Msg /\ m.type = "ResetDatabase" /\ m.n = stage'.id /\ m.type \notin Barriers
    BY MsgKinds
  <2> HIDE DEF m
  <2>2. /\ q \in Seq(Msg) /\ a \in Seq(Msg) /\ Len(a) = Len(q) + 1 /\ Len(q) \in Nat
        /\ a[Len(q) + 1] = m /\ \A k \in 1..Len(q) : a[k] = q[k]
        /\ (q = <<>> <=> Len(q) = 0)
    BY <2>1, TypeFacts, AppendMsg, EmptyMsg
  <2> HIDE DEF q, a
  <2>3. \A k \in 1..Len(a) : k \in 1..Len(q) \/ k = Len(q) + 1
    BY <2>2
  <2>4. req'[w] = a
    BY <1>2 DEF a, q, m
  <2>5. m.type # "CreatePartialGraph" /\ m.type \notin BarrierKind
    BY <2>1, MsgKinds
  <2>6. /\ \A k \in 1..Len(resp[w]) : resp[w][k].type # "ResetDatabase"
        /\ \A k \in 1..Len(q) : q[k].type # "ResetDatabase"
        /\ node[w].st # "resetting"
    BY DEF Pipeline, Resets, q
  <2>7. Awaited(w)' = Nat
    BY DEF Awaited
  <2>8. /\ \A k \in 1..Len(r) : r[k].type # "ResetDatabase"
        /\ r \in Seq(Msg) /\ Ordered(r, node[w].issued, q, Nat)
    <3>1. resp[w] \in Seq(Msg) /\ node[w].issued \in Seq(Msg)
      BY TypeFacts
    <3>2. Ordered(resp[w], node[w].issued, q, Nat)
      <4>1. Ordered(resp[w], node[w].issued, q, Awaited(w)) /\ Awaited(w) \subseteq Nat
        BY DEF Pipeline, InOrder, q, Awaited
      <4> QED BY <2>2, <3>1, <4>1, OrderedSet
    <3>3. CASE r = resp[w]
      BY <2>6, <3>1, <3>2, <3>3
    <3>4. CASE resp[w] # <<>> /\ r = Tail(resp[w])
      <4>1. Ordered(r, node[w].issued, q, Nat)
        BY <2>2, <3>1, <3>2, <3>4, OrderedCollect
      <4>2. r \in Seq(Msg) /\ \A k \in 1..Len(r) : r[k] = resp[w][k + 1] /\ k + 1 \in 1..Len(resp[w])
        BY <3>1, <3>4, TailMsg
      <4> QED BY <2>6, <4>1, <4>2
    <3> QED BY <3>3, <3>4
  <2> HIDE DEF r
  <2>9. NodeState(w)' /\ Silence(w)'
    BY <1>2 DEF Pipeline, NodeState, Silence
  <2>10. Resets(w)'
    <3>1. \A k \in 1..Len(a) : a[k].type = "ResetDatabase" => a[k].n = stage'.id /\ k = Len(a)
      BY <2>1, <2>2, <2>3, <2>6
    <3>2. \A k \in 1..Len(resp'[w]) : resp'[w][k].type # "ResetDatabase"
      BY <2>8 DEF r
    <3> QED BY <2>4, <2>6, <3>1, <3>2 DEF Resets
  <2>11. Requests(w)'
    <3>1. \A k \in 1..Len(q) :
            /\ q[k].type = "CreatePartialGraph" => k = 1 /\ node[w].st = "absent"
            /\ q[k].type \in BarrierKind =>
                 node[w].st \in {"running", "suspended"} \/ q[1].type = "CreatePartialGraph"
      BY DEF Pipeline, Requests, q
    <3>2. \A k \in 1..Len(q) : a[1] = q[1]
      BY <2>2
    <3>3. \A k \in 1..Len(a) :
            /\ a[k].type = "CreatePartialGraph" => k = 1 /\ node[w].st = "absent"
            /\ a[k].type \in BarrierKind =>
                 node[w].st \in {"running", "suspended"} \/ a[1].type = "CreatePartialGraph"
      BY <2>2, <2>3, <2>5, <3>1, <3>2
    <3> QED BY <2>4, <3>3 DEF Requests
  <2>12. InOrder(w)'
    <3>1. Ordered(r, node[w].issued, a, Nat)
      BY <2>1, <2>2, <2>8, TypeFacts, OrderedSend DEF a
    <3> QED BY <2>4, <2>7, <3>1 DEF InOrder, r
  <2> QED BY <2>9, <2>10, <2>11, <2>12 DEF Pipeline
<1> QED BY <1>1, <1>2

\* What EnterResetting, with nothing sent before, does to stage and requests.
LEMMA EnterResettingFacts ==
  ASSUME TypeOK, NEW id \in Nat, NEW next \in Nat, NEW b \in BOOLEAN, EnterResetting(<<>>, id, next, b)
  PROVE  /\ status' = "resetting" /\ stage' \in StageType /\ stage'.remaining = connected /\ stage'.id = id
         /\ req' \in [Worker -> Seq(Msg)]
         /\ \A w \in Worker : req'[w] = IF w \in connected THEN Append(req[w], Reset(id)) ELSE req[w]
<1> DEFINE m == Reset(id)
<1>1. m \in Msg
  BY MsgKinds
<1>2. status' = "resetting" /\ req' = SendAll(Append(<<>>, m))
      /\ stage' = [remaining |-> connected, id |-> id, next |-> next, epoch |-> 0, backoff |-> b]
  BY DEF EnterResetting
<1>3. connected \subseteq Worker
  BY TypeParts DEF Control
<1> HIDE DEF m
<1>4. Append(<<>>, m) = <<m>>
  OBVIOUS
<1>8. \A w \in Worker : req[w] \in Seq(Msg) /\ req[w] \o <<m>> = Append(req[w], m) /\ Append(req[w], m) \in Seq(Msg)
  BY <1>1, TypeFacts, AppendMsg
<1>5. \A w \in Worker : req'[w] = IF w \in connected THEN Append(req[w], m) ELSE req[w]
  BY <1>2, <1>4, <1>8 DEF SendAll
<1>6. req' \in [Worker -> Seq(Msg)]
  <2>1. \A w \in Worker : req'[w] \in Seq(Msg)
    BY <1>5, <1>8
  <2> QED BY <1>2, <2>1 DEF SendAll
<1>7. stage' \in StageType /\ stage'.remaining = connected /\ stage'.id = id
  BY <1>2, <1>3 DEF StageType
<1> QED BY <1>2, <1>5, <1>6, <1>7 DEF m

LEMMA EnterResetStep ==
  ASSUME IInv, EnterReset
  PROVE  IInv'
<1>1. TypeOK /\ MetaState /\ Flags /\ Numbers /\ Control /\ Streams
  BY TypeParts DEF IInv
<1>2. /\ UNCHANGED <<graph, prev, task, committed, blocked, jobs, sched, commands>>
      /\ UNCHANGED <<connected, resp, node, clock, failures, errors>>
      /\ status = "entering" /\ task = 0 /\ queue' = <<>> /\ EnterResetting(<<>>, 0, 1, FALSE)
  BY DEF EnterReset, schedVars, bounds
<1>3. /\ status' = "resetting" /\ stage' \in StageType /\ stage'.remaining = connected /\ stage'.id = 0
      /\ req' \in [Worker -> Seq(Msg)]
      /\ \A w \in Worker : req'[w] = IF w \in connected THEN Append(req[w], Reset(0)) ELSE req[w]
  BY <1>1, <1>2, EnterResettingFacts
<1>4. TypeOK'
  <2>1. Flags' /\ Numbers'
    BY <1>1, <1>2 DEF Flags, Numbers
  <2>2. Control'
    BY <1>1, <1>2, <1>3 DEF Control
  <2>3. Streams'
    BY <1>1, <1>2, <1>3 DEF Streams
  <2> QED BY <2>1, <2>2, <2>3, TypeParts, PTL
<1>5. MetaState'
  BY <1>1, <1>2, <1>3 DEF MetaState, Recovering
<1>6. ASSUME NEW w \in Worker PROVE Pipeline(w)'
  <2>1. Pipeline(w)
    BY DEF IInv
  <2> QED BY <1>1, <1>2, <1>3, <2>1, ResetSent
<1> QED BY <1>4, <1>5, <1>6 DEF IInv

LEMMA OnReportFailureStep ==
  ASSUME IInv, NEW w \in Worker, OnReportFailure(w)
  PROVE  IInv'
<1>1. TypeOK /\ MetaState /\ Flags /\ Numbers /\ Control /\ Streams
  BY TypeParts DEF IInv
<1>2. /\ UNCHANGED <<graph, prev, queue, task, committed, jobs, commands>>
      /\ UNCHANGED <<connected, node, clock, failures, errors>>
      /\ resp[w] # <<>> /\ Head(resp[w]) = Failure /\ resp' = [resp EXCEPT ![w] = Tail(@)]
  BY DEF OnReportFailure, bounds
<1>3. /\ resp' \in [Worker -> Seq(Msg)] /\ resp'[w] = Tail(resp[w])
      /\ \A x \in Worker : x # w => resp'[x] = resp[x]
  BY <1>1, <1>2, ResponseTaken
<1>4. Head(resp[w]).type \notin Barriers
  BY <1>2, MsgKinds
<1>5. CASE status = "initializing"
  <2>1. /\ EnterResetting(<<>>, stage.next, stage.next + 1, TRUE)
        /\ UNCHANGED <<blocked, sched>>
    BY <1>5 DEF OnReportFailure
  <2>2. stage.next \in Nat /\ stage.next + 1 \in Nat
    BY <1>1, TypeFacts
  <2>3. /\ status' = "resetting" /\ stage' \in StageType /\ stage'.remaining = connected /\ stage'.id = stage.next
        /\ req' \in [Worker -> Seq(Msg)]
        /\ \A x \in Worker : req'[x] = IF x \in connected THEN Append(req[x], Reset(stage.next)) ELSE req[x]
    BY <1>1, <2>1, <2>2, EnterResettingFacts
  <2>4. TypeOK'
    <3>1. Flags' /\ Numbers'
      BY <1>1, <1>2, <2>1 DEF Flags, Numbers
    <3>2. Control'
      BY <1>1, <1>2, <2>1, <2>3 DEF Control
    <3>3. Streams'
      BY <1>1, <1>2, <1>3, <2>3 DEF Streams
    <3> QED BY <3>1, <3>2, <3>3, TypeParts, PTL
  <2>5. MetaState'
    BY <1>1, <1>2, <1>5, <2>3 DEF MetaState, Recovering
  <2>6. ASSUME NEW x \in Worker PROVE Pipeline(x)'
    <3>1. Pipeline(x)
      BY DEF IInv
    <3>2. resp'[x] = resp[x] \/ (resp[x] # <<>> /\ resp'[x] = Tail(resp[x]))
      BY <1>2, <1>3
    <3> QED BY <1>1, <1>2, <1>5, <2>2, <2>3, <3>1, <3>2, ResetSent
  <2> QED BY <2>4, <2>5, <2>6 DEF IInv
<1>6. CASE status # "initializing"
  <2>1. /\ stage' = stage /\ req' = req /\ blocked' \in BOOLEAN /\ sched' \in {sched, <<>>}
        /\ \/ status = "running" /\ status' = "entering"
           \/ status = "resetting" /\ status' = "resetting"
    BY <1>1, <1>6 DEF OnReportFailure, Flags
  <2>2. TypeOK'
    <3>1. Flags' /\ Numbers'
      BY <1>1, <1>2, <2>1 DEF Flags, Numbers
    <3>0. sched \in Seq({"Drop", "Flush"}) /\ <<>> \in Seq({"Drop", "Flush"})
      BY <1>1 DEF Control
    <3>4. sched' \in Seq({"Drop", "Flush"})
      BY <2>1, <3>0
    <3>2. Control'
      BY <1>1, <1>2, <2>1, <3>4 DEF Control
    <3>3. Streams'
      BY <1>1, <1>2, <1>3, <2>1 DEF Streams
    <3> QED BY <3>1, <3>2, <3>3, TypeParts, PTL
  <2>3. MetaState'
    BY <1>1, <1>2, <2>1 DEF MetaState, Recovering
  <2>4. ASSUME NEW x \in Worker PROVE Pipeline(x)'
    <3>1. Pipeline(x)
      BY DEF IInv
    <3>2. Awaited(x) \subseteq Awaited(x)'
      BY <2>1 DEF Awaited
    <3>3. CASE x # w
      BY <1>1, <1>2, <1>3, <2>1, <3>1, <3>2, <3>3, PipelineKept
    <3>4. CASE x = w
      BY <1>1, <1>2, <1>3, <2>1, <3>1, <3>2, <3>4, TakeResponse
    <3> QED BY <3>3, <3>4
  <2> QED BY <2>2, <2>3, <2>4 DEF IInv
<1> QED BY <1>5, <1>6

LEMMA OnResetDatabaseRespStep ==
  ASSUME IInv, NEW w \in Worker, OnResetDatabaseResp(w)
  PROVE  IInv'
<1>1. TypeOK /\ MetaState /\ Flags /\ Numbers /\ Control /\ Streams
  BY TypeParts DEF IInv
<1>2. /\ UNCHANGED <<status, graph, prev, queue, task, committed, blocked, jobs, sched, commands>>
      /\ UNCHANGED <<connected, req, node, clock, failures, errors>>
      /\ resp[w] # <<>> /\ Head(resp[w]).type = "ResetDatabase" /\ resp' = [resp EXCEPT ![w] = Tail(@)]
      /\ stage' = IF Head(resp[w]).n < stage.id THEN stage ELSE [stage EXCEPT !.remaining = @ \ {w}]
  BY DEF OnResetDatabaseResp, schedVars, bounds
<1>3. /\ resp' \in [Worker -> Seq(Msg)] /\ resp'[w] = Tail(resp[w])
      /\ \A x \in Worker : x # w => resp'[x] = resp[x]
  BY <1>1, <1>2, ResponseTaken
<1>4. /\ stage' \in StageType /\ stage'.id = stage.id /\ stage'.epoch = stage.epoch
      /\ \A x \in Worker : x # w => (x \in stage'.remaining <=> x \in stage.remaining)
  <2>1. stage \in StageType
    BY <1>1, TypeFacts
  <2> QED BY <1>2, <2>1 DEF StageType
<1>5. TypeOK'
  <2>1. Flags' /\ Numbers'
    BY <1>1, <1>2 DEF Flags, Numbers
  <2>2. Control'
    BY <1>1, <1>2, <1>4 DEF Control
  <2>3. Streams'
    BY <1>1, <1>2, <1>3 DEF Streams
  <2> QED BY <2>1, <2>2, <2>3, TypeParts, PTL
<1>6. MetaState'
  BY <1>1, <1>2, <1>4 DEF MetaState, Recovering
<1>7. ASSUME NEW x \in Worker PROVE Pipeline(x)'
  <2>1. Pipeline(x)
    BY DEF IInv
  <2>2. CASE x # w
    BY <1>1, <1>2, <1>3, <1>4, <2>1, <2>2, PipelineFrame
  <2>3. CASE x = w
    <3>1. /\ Head(resp[w]) = resp[w][1] /\ 1 \in 1..Len(resp[w]) /\ Tail(resp[w]) \in Seq(Msg)
          /\ Len(Tail(resp[w])) = Len(resp[w]) - 1
      BY <1>1, <1>2, TypeFacts, TailMsg
    <3>2. status = "resetting" /\ Len(resp[w]) = 1 /\ node[w].st = "absent" /\ req[w] = <<>>
      BY <1>2, <2>1, <2>3, <3>1 DEF Pipeline, Resets
    <3>3. node[w] = Absent
      BY <2>1, <2>3, <3>2 DEF Pipeline, NodeState
    <3> DEFINE t == Tail(resp[w])
    <3>5. t \in Seq(Msg) /\ Len(t) = 0
      BY <3>1, <3>2
    <3> HIDE DEF t
    <3>6. t = <<>>
      BY <3>5, EmptyMsg
    <3>4. Tail(resp[w]) = <<>>
      BY <3>6 DEF t
    <3> QED BY <1>2, <1>3, <2>3, <3>2, <3>3, <3>4, FreshPipeline
  <2> QED BY <2>2, <2>3
<1> QED BY <1>5, <1>6, <1>7 DEF IInv

-----------------------------------------------------------------------------
\* From one stage of the recovery to the next

LEMMA EnterRunningStep ==
  ASSUME IInv, EnterRunning
  PROVE  IInv'
<1>1. TypeOK /\ MetaState /\ Flags /\ Numbers /\ Control /\ Streams
  BY TypeParts DEF IInv
<1>2. /\ UNCHANGED <<graph, prev, queue, task, committed, jobs, sched, commands>>
      /\ UNCHANGED <<connected, req, resp, node, clock, failures, errors>>
      /\ status = "initializing" /\ status' = "running" /\ stage' = NoStage /\ blocked' = FALSE
      /\ stage.remaining = {}
  BY DEF EnterRunning, streamVars, bounds, EventReady
<1>3. TypeOK'
  <2>1. NoStage \in StageType
    BY DEF NoStage, StageType
  <2>2. Flags' /\ Numbers'
    BY <1>1, <1>2 DEF Flags, Numbers
  <2>3. Control'
    BY <1>1, <1>2, <2>1 DEF Control
  <2>4. Streams'
    BY <1>1, <1>2 DEF Streams
  <2> QED BY <2>2, <2>3, <2>4, TypeParts, PTL
<1>4. MetaState'
  BY <1>1, <1>2 DEF MetaState, Recovering
<1>5. ASSUME NEW w \in Worker PROVE Pipeline(w)'
  <2>1. Awaited(w) \subseteq Awaited(w)'
    BY <1>2 DEF Awaited
  <2>2. Pipeline(w)
    BY DEF IInv
  <2> QED BY <1>1, <1>2, <2>1, <2>2, PipelineKept
<1> QED BY <1>3, <1>4, <1>5 DEF IInv

\* Once all workers are reset, nothing is under way.
LEMMA AllQuiet ==
  ASSUME IInv, EventReady, status = "resetting", NEW w \in Worker
  PROVE  Quiet(w)
<1>1. Pipeline(w) /\ stage.remaining = {}
  BY DEF IInv, EventReady
<1> QED BY <1>1 DEF Pipeline, Silence

\* A graph is created on a node without the database, and followed by one message.
LEMMA GraphSent ==
  ASSUME NEW w \in Worker, NEW m \in Msg, resp'[w] = <<>>, node'[w] = Absent, req'[w] = <<Create, m>>,
         w \in connected', w \in stage'.remaining,
         \/ m.type = "ResetDatabase" /\ m.n = stage'.id /\ status' = "resetting"
         \/ m.type \in BarrierKind /\ m.n = stage'.epoch /\ m.n \in Nat /\ status' = "initializing"
  PROVE  Pipeline(w)'
<1> DEFINE q == <<Create, m>>
<1>1. /\ q \in Seq(Msg) /\ Len(q) = 2 /\ q[1] = Create /\ q[2] = m /\ req'[w] = q /\ q # <<>>
      /\ Create \in Msg /\ Create.type = "CreatePartialGraph" /\ Create.type \notin Barriers
  BY MsgKinds
<1> HIDE DEF q
<1>2. \A k \in 1..Len(q) : (k = 1 /\ q[k] = Create) \/ (k = 2 /\ q[k] = m)
  BY <1>1
<1>3. NodeState(w)'
  BY NodeValues DEF NodeState
<1>4. Silence(w)'
  BY DEF Silence
<1>5. "ResetDatabase" \notin BarrierKind /\ "CreatePartialGraph" \notin BarrierKind
  BY DEF BarrierKind
<1>6. Resets(w)'
  <2>1. \A k \in 1..Len(q) : q[k].type = "ResetDatabase" =>
          status' = "resetting" /\ q[k].n = stage'.id /\ k = Len(q)
    BY <1>1, <1>2, <1>5
  <2> QED BY <1>1, <2>1, NodeValues DEF Resets
<1>7. Requests(w)'
  <2>1. \A k \in 1..Len(q) : q[k].type = "CreatePartialGraph" => k = 1
    BY <1>1, <1>2, <1>5
  <2> QED BY <1>1, <2>1, NodeValues DEF Requests
<1>8. InOrder(w)'
  <2>1. m.type \in Barriers => m.n \in Awaited(w)'
    BY <1>5, MsgKinds DEF Awaited
  <2> DEFINE N == Awaited(w)'
  <2>2. Increasing(q) /\ AllIn(q, N)
    BY <1>1, <1>2, <2>1 DEF Increasing, AllIn
  <2>3. Ordered(<<>>, <<>>, q, N)
    BY <2>2, NoMsg DEF Ordered
  <2> QED BY <1>1, <2>3, NodeValues DEF InOrder
<1> QED BY <1>3, <1>4, <1>6, <1>7, <1>8 DEF Pipeline

\* The streams after a graph and one message were sent to all.
LEMMA GraphsSent ==
  ASSUME IInv, EventReady, status = "resetting", NEW m \in Msg, req' = SendAll(<<Create, m>>)
  PROVE  /\ req' \in [Worker -> Seq(Msg)]
         /\ \A w \in Worker : req'[w] = IF w \in connected THEN <<Create, m>> ELSE <<>>
<1>1. \A w \in Worker : req[w] = <<>>
  BY AllQuiet DEF Quiet
<1>2. Create \in Msg
  BY MsgKinds
<1> DEFINE q == <<Create, m>>
<1>3. q \in Seq(Msg) /\ <<>> \o q = q
  BY <1>2
<1> HIDE DEF q
<1>0. req' = SendAll(q)
  BY DEF q
<1>4. \A w \in Worker : req'[w] = IF w \in connected THEN q ELSE <<>>
  BY <1>0, <1>1, <1>3 DEF SendAll
<1>5. req' \in [Worker -> Seq(Msg)]
  <2>0. <<>> \in Seq(Msg)
    OBVIOUS
  <2>1. \A w \in Worker : req'[w] \in Seq(Msg)
    BY <1>3, <1>4, <2>0
  <2> QED BY <1>0, <2>1 DEF SendAll
<1> QED BY <1>4, <1>5 DEF q

LEMMA InitialBarrierErrStep ==
  ASSUME IInv, InitialBarrierErr
  PROVE  IInv'
<1> DEFINE m == Reset(stage.next)
<1>1. TypeOK /\ MetaState /\ Flags /\ Numbers /\ Control /\ Streams
  BY TypeParts DEF IInv
<1>2. /\ UNCHANGED <<graph, prev, queue, task, committed, blocked, jobs, commands>>
      /\ UNCHANGED <<connected, resp, node, clock, failures, errors>>
      /\ EventReady /\ status = "resetting" /\ status' = "resetting" /\ sched' = <<>>
      /\ stage' = [remaining |-> connected, id |-> stage.next, next |-> stage.next + 1, epoch |-> 0,
                   backoff |-> TRUE]
      /\ req' = SendAll(Append(<<Create>>, m))
  BY DEF InitialBarrierErr, EnterResetting, bounds
<1>3. m \in Msg /\ m.type = "ResetDatabase" /\ m.n = stage.next /\ stage.next \in Nat
  BY <1>1, TypeFacts, MsgKinds
<1>4. Append(<<Create>>, m) = <<Create, m>>
  BY <1>3, MsgKinds, TwoMsgs
<1>5. /\ req' \in [Worker -> Seq(Msg)]
      /\ \A w \in Worker : req'[w] = IF w \in connected THEN <<Create, m>> ELSE <<>>
  BY <1>2, <1>3, <1>4, GraphsSent
<1> HIDE DEF m
<1>6. stage' \in StageType /\ stage'.id = stage.next /\ stage'.remaining = connected
  BY <1>1, <1>2, <1>3 DEF Control, StageType
<1>7. TypeOK'
  <2>1. Flags' /\ Numbers'
    BY <1>1, <1>2 DEF Flags, Numbers
  <2>2. Control'
    BY <1>1, <1>2, <1>6 DEF Control
  <2>3. Streams'
    BY <1>1, <1>2, <1>5 DEF Streams
  <2> QED BY <2>1, <2>2, <2>3, TypeParts, PTL
<1>8. MetaState'
  BY <1>1, <1>2 DEF MetaState, Recovering
<1>9. ASSUME NEW w \in Worker PROVE Pipeline(w)'
  <2>1. resp'[w] = <<>> /\ node'[w] = Absent
    BY <1>2, AllQuiet DEF Quiet
  <2>2. CASE w \in connected
    BY <1>2, <1>3, <1>5, <1>6, <2>1, <2>2, GraphSent
  <2>3. CASE w \notin connected
    BY <1>2, <1>5, <2>1, <2>3, FreshPipeline
  <2> QED BY <2>2, <2>3
<1> QED BY <1>7, <1>8, <1>9 DEF IInv

LEMMA EnterInitializingStep ==
  ASSUME IInv, EnterInitializing
  PROVE  IInv'
<1>1. TypeOK /\ MetaState /\ Flags /\ Numbers /\ Control /\ Streams
  BY TypeParts DEF IInv
<1>2. /\ UNCHANGED <<queue, task, committed, blocked, jobs, commands>>
      /\ UNCHANGED <<connected, resp, node, failures, errors>>
      /\ EventReady /\ status = "resetting" /\ sched' = <<>>
  BY DEF EnterInitializing
<1>3. ASSUME NEW w \in Worker PROVE req[w] = <<>> /\ resp'[w] = <<>> /\ node'[w] = Absent
  BY <1>2, AllQuiet DEF Quiet
<1>4. CASE ~jobs
  <2>1. status' = "absent" /\ stage' = NoStage /\ UNCHANGED <<req, prev, graph, clock>>
    BY <1>4 DEF EnterInitializing
  <2>2. TypeOK'
    <3>1. NoStage \in StageType
      BY DEF NoStage, StageType
    <3>2. Flags' /\ Numbers'
      BY <1>1, <1>2, <2>1 DEF Flags, Numbers
    <3>3. Control'
      BY <1>1, <1>2, <2>1, <3>1 DEF Control
    <3>4. Streams'
      BY <1>1, <1>2, <2>1 DEF Streams
    <3> QED BY <3>2, <3>3, <3>4, TypeParts, PTL
  <2>3. MetaState'
    BY <1>1, <1>2, <2>1 DEF MetaState, Recovering
  <2>4. ASSUME NEW w \in Worker PROVE Pipeline(w)'
    BY <1>3, <2>1, FreshPipeline
  <2> QED BY <2>2, <2>3, <2>4 DEF IInv
<1>5. CASE jobs
  <2> DEFINE m == Inject("Initial", committed)
  <2>1. /\ connected = Worker /\ status' = "initializing"
        /\ stage' = [stage EXCEPT !.remaining = connected, !.epoch = committed]
        /\ req' = SendAll(<<Create, m>>)
        /\ prev' = clock + 1 /\ clock' = clock + 1 /\ graph' = TRUE
    BY <1>5 DEF EnterInitializing
  <2>2. m \in Msg /\ m.type \in BarrierKind /\ m.n = committed /\ committed \in Nat
    BY <1>1, MsgKinds DEF Numbers, BarrierKind
  <2>3. /\ req' \in [Worker -> Seq(Msg)]
        /\ \A w \in Worker : req'[w] = <<Create, m>>
    BY <1>2, <2>1, <2>2, GraphsSent
  <2> HIDE DEF m
  <2>4. stage' \in StageType /\ stage'.epoch = committed /\ stage'.remaining = Worker
    BY <1>1, <2>1, <2>2 DEF Control, StageType
  <2>5. TypeOK'
    <3>1. Flags' /\ Numbers'
      BY <1>1, <1>2, <2>1 DEF Flags, Numbers
    <3>2. Control'
      BY <1>1, <1>2, <2>1, <2>4 DEF Control
    <3>3. Streams'
      BY <1>1, <1>2, <2>3 DEF Streams
    <3> QED BY <3>1, <3>2, <3>3, TypeParts, PTL
  <2>6. MetaState'
    <3>1. queue = <<>> /\ task = 0
      BY <1>1, <1>2 DEF MetaState, Recovering
    <3> QED BY <1>1, <1>2, <2>1, <2>4, <3>1 DEF MetaState, Numbers
  <2>7. ASSUME NEW w \in Worker PROVE Pipeline(w)'
    BY <1>2, <1>3, <2>1, <2>2, <2>3, <2>4, GraphSent
  <2> QED BY <2>5, <2>6, <2>7 DEF IInv
<1> QED BY <1>4, <1>5, <1>1 DEF Flags

-----------------------------------------------------------------------------
\* The theorems

LEMMA NextIInv ==
  ASSUME IInv, [Next]_vars
  PROVE  IInv'
<1>1. CASE Meta
  <2>1. ASSUME NEW kind \in {"Checkpoint", "Stop"}, NewBarrier(kind) PROVE IInv'
    BY <2>1, NewBarrierStep
  <2> QED BY <1>1, <2>1, GlobalRecoveries, SchedulerStep, StartCompletingStep, CommitEpochStep,
             EnterResetStep, BackoffElapsesStep, EnterInitializingStep, InitialBarrierErrStep,
             EnterRunningStep DEF Meta
<1>2. ASSUME NEW w \in Worker, Node(w) PROVE IInv'
  BY <1>2, AddPartialGraphStep, SendBarrierStep, OnEpochCompletedStep, ResetDatabaseStep,
     AckDatabaseResetStep DEF Node
<1>3. ASSUME NEW w \in Worker, Responses(w) PROVE IInv'
  BY <1>3, BarrierCollectedStep, OnReportFailureStep, OnResetDatabaseRespStep DEF Responses
<1>4. ASSUME NEW w \in Worker, OnDatabaseFailure(w) \/ WorkerError(w) \/ NodePanics(w) \/ AddWorker(w)
      PROVE  IInv'
  BY <1>4, OnDatabaseFailureStep, WorkerStep, AddWorkerStep
<1>5. CASE ScheduleDrop \/ ScheduleFlush
  BY <1>5, SchedulerStep
<1>6. CASE UNCHANGED vars
  BY <1>6, StutterStep
<1> QED BY <1>1, <1>2, <1>3, <1>4, <1>5, <1>6 DEF Next

\* The inductive invariant: in every interleaving of failures, lost workers, resets and
\* barriers, the pipeline of every worker holds only what the state of its database allows.
THEOREM IInvHolds == Spec => []IInv
<1>1. Init => IInv
  BY InitIInv
<1>2. IInv /\ [Next]_vars => IInv'
  BY NextIInv
<1> QED BY <1>1, <1>2, PTL DEF Spec

\* Type correctness of the recovery of one database: the state of the meta node, the
\* control streams and the nodes.
THEOREM TypeCorrect == Spec => []TypeOK
<1>1. IInv => TypeOK
  BY DEF IInv
<1> QED BY <1>1, IInvHolds, PTL

\* on_reset_database_resp, barrier_collected and on_report_failure never meet the response
\* they call unreachable: a reset is answered only while the database is being reset and
\* once per worker, a barrier only if it is awaited from the worker.
THEOREM ResponsesAreExpected == Spec => []ResponsesExpected
<1>1. IInv => ResponsesExpected
  BY ResponsesFromIInv
<1> QED BY <1>1, IInvHolds, PTL

\* The local barrier worker never meets a request that it does not expect in the status of
\* the database: reset_database, add_partial_graph and send_barrier do not panic.
THEOREM RequestsAreExpected == Spec => []RequestsExpected
<1>1. IInv => RequestsExpected
  BY RequestsFromIInv
<1> QED BY <1>1, IInvHolds, PTL

\* A database is rebuilt from the epoch that is committed when its initial barrier is
\* collected: EnterReset waits for the completing task, and none is started before it runs.
THEOREM RebuiltFromCommittedEpoch == Spec => []RebuiltFromCommitted
<1>1. IInv => RebuiltFromCommitted
  BY RebuiltFromIInv
<1> QED BY <1>1, IInvHolds, PTL
=============================================================================
