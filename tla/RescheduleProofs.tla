-------------------------- MODULE RescheduleProofs --------------------------
(***************************************************************************)
(* Proofs about Reschedule, for any actors, vnodes and configurations and  *)
(* any number of barriers, reschedules, rows and watermarks.               *)
(*                                                                         *)
(* An actor lives in consecutive epochs, so the epochs in which an         *)
(* upstream and a downstream actor are linked are consecutive too.  The    *)
(* invariant gives each actor the configuration of the epoch it is in and  *)
(* each channel its content: of the barriers that the merge expects from   *)
(* this upstream, exactly those that the one has dispatched and the other  *)
(* has not received, in order, and between them the rows of their epochs.  *)
(***************************************************************************)
EXTENDS Reschedule, TLAPS, WellFoundedInduction, FiniteSetTheorems

Msg == [type : {"row"}, vnode : VNode, value : Nat]
         \cup [type : {"watermark", "barrier"}, value : Nat]

\* u and d exchange rows in epoch n of plan p.
Linked(p, u, d, n) == u \in p[n].up /\ d \in p[n].down

\* The merge of d expects barrier n from u.
Reads(p, u, d, n) == Linked(p, u, d, n) \/ (n > 1 /\ Linked(p, u, d, n - 1))

\* The dispatcher of u broadcasts barrier n to d: also when n removes u and adds d, in
\* which case nobody reads it.
Sends(p, u, d, n) == Reads(p, u, d, n) \/ (u \in p[n - 1].up /\ d \in p[n].down)

\* An actor lives in consecutive epochs.
Plans ==
  {p \in Seq(Config) :
     /\ p # <<>>
     /\ \A m \in 1..Len(p), n \in 1..Len(p) : \A k \in m..n :
          p[m].up \cap p[n].up \subseteq p[k].up /\ p[m].down \cap p[n].down \subseteq p[k].down}

\* The last barrier that d has received from u, or would have if it were linked to u.
Read(d, u) ==
  IF u \in blocked[d] \/ (adding[d] # {} /\ u \notin adding[d]) THEN passed[d] + 1 ELSE passed[d]

-----------------------------------------------------------------------------
\* The parts of the invariant.  Of the state of watermarks no type is needed.

Types ==
  /\ plan \in Plans
  /\ issued \in [up : 1..Len(plan), down : 1..Len(plan)]
  /\ state \in [Up \cup Down -> {"none", "running", "exited"}]
  /\ passed \in [Up \cup Down -> 0..Len(plan)]
  /\ outputs \in [Up -> SUBSET Down]
  /\ hashMapping \in [Up -> [VNode -> Down]]
  /\ upstreams \in [Down -> SUBSET Up]
  /\ blocked \in [Down -> SUBSET Up]
  /\ adding \in [Down -> SUBSET Up]
  /\ chan \in [Up -> [Down -> Seq(Msg)]]

\* An upstream actor has the configuration of its epoch, or of the one that adds it.
UpState(u) ==
  /\ state[u] = "none" =>
       passed[u] = 0 /\ \A n \in 1..issued.up : u \notin plan[n].up
  /\ state[u] = "running" =>
       /\ passed[u] \in 1..issued.up
       /\ u \in plan[passed[u]].up =>
            outputs[u] = plan[passed[u]].down /\ hashMapping[u] = plan[passed[u]].map
       /\ u \notin plan[passed[u]].up =>
            /\ passed[u] < issued.up /\ u \in plan[passed[u] + 1].up
            /\ outputs[u] = plan[passed[u] + 1].down /\ hashMapping[u] = plan[passed[u] + 1].map
  /\ state[u] = "exited" =>
       /\ passed[u] \in 2..issued.up
       /\ u \in plan[passed[u] - 1].up /\ u \notin plan[passed[u]].up

\* So has a downstream actor; it waits for added upstreams only between two epochs in
\* both of which it is there.
DownState(d) ==
  /\ state[d] = "none" =>
       passed[d] = 0 /\ \A n \in 1..issued.down : d \notin plan[n].down
  /\ state[d] = "running" =>
       /\ passed[d] \in 1..issued.down
       /\ d \in plan[passed[d]].down => upstreams[d] = plan[passed[d]].up
       /\ d \notin plan[passed[d]].down =>
            /\ passed[d] < issued.down /\ d \in plan[passed[d] + 1].down
            /\ upstreams[d] = plan[passed[d] + 1].up
       /\ blocked[d] \subseteq upstreams[d]
       /\ blocked[d] # {} => passed[d] < Len(plan)
       /\ adding[d] # {} =>
            /\ blocked[d] = {} /\ passed[d] < issued.down
            /\ d \in plan[passed[d]].down /\ d \in plan[passed[d] + 1].down
            /\ adding[d] \subseteq plan[passed[d] + 1].up \ plan[passed[d]].up
  /\ state[d] = "exited" =>
       /\ passed[d] \in 2..issued.down
       /\ d \in plan[passed[d] - 1].down /\ d \notin plan[passed[d]].down
  /\ state[d] # "running" => blocked[d] = {} /\ adding[d] = {}

\* What is in the channel from u to d, when u has dispatched the barriers up to sent and d
\* has received those up to read.
Expected(p, m, sent, read, u, d) ==
  /\ m.type = "barrier" =>
       /\ m.value \in 2..sent /\ Sends(p, u, d, m.value)
       /\ Reads(p, u, d, m.value) => read < m.value
  /\ m.type = "row" =>
       /\ m.value \in 1..sent /\ Linked(p, u, d, m.value)
       /\ p[m.value].map[m.vnode] = d
       /\ read <= m.value
  /\ m.type = "watermark" => \E n \in 1..sent : Linked(p, u, d, n)

\* Message a may come before message b.
Before(p, a, b, u, d) ==
  /\ a.type # "watermark" /\ b.type = "barrier" => a.value < b.value
  /\ a.type = "barrier" /\ b.type = "row" => a.value <= b.value
  /\ a.type = "watermark" /\ b.type = "barrier" => Linked(p, u, d, b.value - 1)

Has(q, m) == \E k \in 1..Len(q) : q[k] = m

Content(p, q, sent, read, u, d) ==
  /\ \A k \in 1..Len(q) : Expected(p, q[k], sent, read, u, d)
  /\ \A k \in 1..Len(q) : \A j \in 1..(k - 1) : Before(p, q[j], q[k], u, d)
  /\ \A n \in 1..Len(p) : Reads(p, u, d, n) =>
       /\ n <= read => n <= sent
       /\ read < n /\ n <= sent => Has(q, Barrier(n))

Channel(u, d) == Content(plan, chan[u][d], passed[u], Read(d, u), u, d)

IInv ==
  /\ Types
  /\ \A u \in Up : UpState(u)
  /\ \A d \in Down : DownState(d)
  /\ \A u \in Up, d \in Down : Channel(u, d)

-----------------------------------------------------------------------------
\* A configuration has actors of both fragments, and its mapping is onto the downstream ones.
LEMMA ConfigFields ==
  ASSUME NEW c \in Config
  PROVE  /\ c.up \subseteq Up /\ c.down \subseteq Down
         /\ c.map \in [VNode -> c.down] /\ c.map \in [VNode -> Down]
         /\ c["up"] = c.up /\ c["down"] = c.down
<1>1. c \in [up : (SUBSET Up) \ {{}}, down : (SUBSET Down) \ {{}}, map : [VNode -> Down]]
  BY DEF Config
<1>2. c.map \in Mapping(c.down)
  BY DEF Config
<1> QED BY <1>1, <1>2 DEF Mapping

\* The configuration of an epoch.
LEMMA PlanFields ==
  ASSUME NEW p \in Plans, NEW n \in 1..Len(p)
  PROVE  /\ p[n].up \subseteq Up /\ p[n].down \subseteq Down
         /\ p[n].map \in [VNode -> p[n].down] /\ p[n].map \in [VNode -> Down]
<1>1. p[n] \in Config
  BY DEF Plans
<1> QED BY <1>1, ConfigFields

\* An actor that is there in epochs m and n is there in between.
LEMMA ActorInterval ==
  ASSUME NEW p \in Plans, NEW a, NEW m \in 1..Len(p), NEW n \in 1..Len(p), NEW k \in 1..Len(p),
         m <= k, k <= n
  PROVE  /\ a \in p[m].up /\ a \in p[n].up => a \in p[k].up
         /\ a \in p[m].down /\ a \in p[n].down => a \in p[k].down
  BY DEF Plans

\* Two actors are linked in consecutive epochs.
LEMMA LinkedInterval ==
  ASSUME NEW p \in Plans, NEW u, NEW d, NEW m \in 1..Len(p), NEW n \in 1..Len(p), NEW k \in m..n,
         Linked(p, u, d, m), Linked(p, u, d, n)
  PROVE  Linked(p, u, d, k)
  BY DEF Linked, Plans

\* Of two actors that are ever linked, the one reads every barrier the other sends it.
LEMMA SentIsRead ==
  ASSUME NEW p \in Plans, NEW u, NEW d, NEW m \in 1..Len(p), NEW n \in 2..Len(p),
         Linked(p, u, d, m), Sends(p, u, d, n)
  PROVE  Reads(p, u, d, n)
<1> SUFFICES ASSUME u \in p[n - 1].up, d \in p[n].down PROVE Reads(p, u, d, n)
  BY DEF Sends
<1>1. CASE m < n
  <2>1. d \in p[n - 1].down
    BY <1>1 DEF Linked, Plans
  <2> QED BY <2>1 DEF Reads, Linked
<1>2. CASE n <= m
  <2>1. u \in p[n].up
    BY <1>2 DEF Linked, Plans
  <2> QED BY <2>1 DEF Reads, Linked
<1> QED BY <1>1, <1>2

\* The fields of the mutation of barrier n.
LEMMA MutationFields ==
  ASSUME NEW n
  PROVE  /\ Added(n, "up") = plan[n].up \ plan[n - 1].up
         /\ Added(n, "down") = plan[n].down \ plan[n - 1].down
         /\ Removed(n, "up") = plan[n - 1].up \ plan[n].up
         /\ Removed(n, "down") = plan[n - 1].down \ plan[n].down
  BY DEF Added, Removed

-----------------------------------------------------------------------------
\* A channel as its writer and its reader see it.

LEMMA AppendMsg ==
  ASSUME NEW q \in Seq(Msg), NEW m \in Msg
  PROVE  /\ Append(q, m) \in Seq(Msg) /\ Len(Append(q, m)) = Len(q) + 1
         /\ Append(q, m)[Len(q) + 1] = m /\ Has(Append(q, m), m)
         /\ \A k \in 1..Len(q) : Append(q, m)[k] = q[k]
         /\ \A x : Has(q, x) => Has(Append(q, m), x)
<1>1. /\ Append(q, m) \in Seq(Msg) /\ Len(Append(q, m)) = Len(q) + 1
      /\ Append(q, m)[Len(q) + 1] = m
      /\ \A k \in 1..Len(q) : Append(q, m)[k] = q[k]
  OBVIOUS
<1>2. Len(q) \in Nat
  OBVIOUS
<1> QED BY <1>1, <1>2 DEF Has

LEMMA TailMsg ==
  ASSUME NEW q \in Seq(Msg), q # <<>>
  PROVE  /\ Head(q) \in Msg /\ Head(q) = q[1] /\ Len(q) > 0
         /\ Tail(q) \in Seq(Msg) /\ Len(Tail(q)) = Len(q) - 1
         /\ \A k \in 1..Len(Tail(q)) : Tail(q)[k] = q[k + 1]
         /\ \A x : Has(q, x) /\ x # Head(q) => Has(Tail(q), x)
<1>1. /\ Head(q) \in Msg /\ Head(q) = q[1] /\ Len(q) \in Nat /\ Len(q) > 0
      /\ Tail(q) \in Seq(Msg) /\ Len(Tail(q)) = Len(q) - 1
      /\ \A k \in 1..Len(Tail(q)) : Tail(q)[k] = q[k + 1]
  OBVIOUS
<1>2. ASSUME NEW x, Has(q, x), x # Head(q) PROVE Has(Tail(q), x)
  <2>1. PICK k \in 1..Len(q) : q[k] = x
    BY <1>2 DEF Has
  <2>2. k - 1 \in 1..Len(Tail(q)) /\ Tail(q)[k - 1] = x
    BY <2>1, <1>1, <1>2
  <2> QED BY <2>2 DEF Has
<1> QED BY <1>1, <1>2

\* The three kinds of messages.
LEMMA MsgKinds ==
  /\ \A m \in Msg : /\ m.value \in Nat /\ m.type \in {"row", "watermark", "barrier"}
                    /\ m.type = "barrier" => m = Barrier(m.value)
                    /\ m.type = "row" => m.vnode \in VNode
  /\ \A n \in Nat : Barrier(n) \in Msg /\ Barrier(n).type = "barrier" /\ Barrier(n).value = n
  /\ \A n \in Nat : Watermark(n) \in Msg /\ Watermark(n).type = "watermark"
  /\ \A n \in Nat, v \in VNode : /\ Row(v, n) \in Msg /\ Row(v, n).type = "row"
                                 /\ Row(v, n).vnode = v /\ Row(v, n).value = n
  BY DEF Msg, Barrier, Watermark, Row

\* Sender and reader may pass barriers that the other does not know of.
LEMMA ContentQuiet ==
  ASSUME NEW p \in Plans, NEW q \in Seq(Msg), NEW u, NEW d, NEW s \in Nat, NEW r \in Nat,
         NEW s2 \in 0..Len(p), NEW r2 \in 0..Len(p), s <= s2, r <= r2,
         Content(p, q, s, r, u, d),
         \A n \in 1..Len(p) : Reads(p, u, d, n) => ~(r < n /\ n <= r2) /\ ~(s < n /\ n <= s2)
  PROVE  Content(p, q, s2, r2, u, d)
<1> Len(p) \in Nat
  BY DEF Plans
<1>1. ASSUME NEW k \in 1..Len(q) PROVE Expected(p, q[k], s2, r2, u, d)
  <2>1. q[k] \in Msg /\ Expected(p, q[k], s, r, u, d)
    BY DEF Content
  <2>2. q[k].value \in Nat
    BY <2>1, MsgKinds
  <2>3. CASE q[k].type = "barrier"
    BY <2>1, <2>2, <2>3 DEF Expected
  <2>4. CASE q[k].type = "row"
    <3>1. q[k].value \in 1..s /\ Linked(p, u, d, q[k].value) /\ r <= q[k].value
      BY <2>1, <2>4 DEF Expected
    <3>2. q[k].value < Len(p) => Reads(p, u, d, q[k].value + 1)
      BY <3>1, <2>2 DEF Reads
    <3>3. r2 <= q[k].value
      BY <3>1, <3>2, <2>2
    <3> QED BY <2>1, <2>2, <2>4, <3>1, <3>3 DEF Expected
  <2>5. CASE q[k].type = "watermark"
    BY <2>1, <2>5 DEF Expected
  <2> QED BY <2>1, <2>3, <2>4, <2>5, MsgKinds
<1> QED BY <1>1 DEF Content

\* A message is appended that is expected and that may come last.
LEMMA ContentAppend ==
  ASSUME NEW p \in Plans, NEW q \in Seq(Msg), NEW u, NEW d, NEW s \in Nat, NEW r \in Nat,
         NEW m \in Msg, Content(p, q, s, r, u, d), Expected(p, m, s, r, u, d),
         \A k \in 1..Len(q) : Before(p, q[k], m, u, d)
  PROVE  Content(p, Append(q, m), s, r, u, d)
<1> DEFINE q2 == Append(q, m)
<1>1. ASSUME NEW k \in 1..Len(q2)
      PROVE  /\ Expected(p, q2[k], s, r, u, d)
             /\ \A j \in 1..(k - 1) : Before(p, q2[j], q2[k], u, d)
  <2>1. CASE k = Len(q) + 1
    BY <2>1, AppendMsg
  <2>2. CASE k # Len(q) + 1
    <3>1. k \in 1..Len(q) /\ q2[k] = q[k] /\ \A j \in 1..(k - 1) : q2[j] = q[j]
      BY <2>2, AppendMsg
    <3> QED BY <3>1 DEF Content
  <2> QED BY <2>1, <2>2
<1>2. \A n : Has(q, Barrier(n)) => Has(q2, Barrier(n))
  BY AppendMsg
<1> HIDE DEF q2
<1>3. Content(p, q2, s, r, u, d)
  BY <1>1, <1>2 DEF Content
<1> QED BY <1>3 DEF q2

\* A row of the epoch of its sender.
LEMMA ContentRow ==
  ASSUME NEW p \in Plans, NEW q \in Seq(Msg), NEW u, NEW d, NEW s \in 1..Len(p), NEW r \in 0..Len(p),
         NEW v \in VNode, Content(p, q, s, r, u, d), Linked(p, u, d, s), p[s].map[v] = d
  PROVE  Content(p, Append(q, Row(v, s)), s, r, u, d)
<1> Len(p) \in Nat
  BY DEF Plans
<1>1. Row(v, s) \in Msg /\ Row(v, s).type = "row" /\ Row(v, s).value = s /\ Row(v, s).vnode = v
  BY MsgKinds
<1>2. r <= s
  <2>1. s < Len(p) => Reads(p, u, d, s + 1)
    BY DEF Reads
  <2>2. s < Len(p) /\ s + 1 <= r => s + 1 <= s
    BY <2>1 DEF Content
  <2> QED BY <2>2
<1>3. Expected(p, Row(v, s), s, r, u, d)
  BY <1>1, <1>2 DEF Expected
<1>4. ASSUME NEW k \in 1..Len(q) PROVE Before(p, q[k], Row(v, s), u, d)
  <2>1. Expected(p, q[k], s, r, u, d)
    BY DEF Content
  <2> QED BY <2>1, <1>1 DEF Expected, Before
<1> QED BY <1>1, <1>3, <1>4, ContentAppend

\* A watermark of a sender that is linked.
LEMMA ContentWatermark ==
  ASSUME NEW p \in Plans, NEW q \in Seq(Msg), NEW u, NEW d, NEW s \in 1..Len(p), NEW r \in Nat,
         NEW w \in Nat, Content(p, q, s, r, u, d), Linked(p, u, d, s)
  PROVE  Content(p, Append(q, Watermark(w)), s, r, u, d)
<1>1. Watermark(w) \in Msg /\ Watermark(w).type = "watermark"
  BY MsgKinds
<1>2. Expected(p, Watermark(w), s, r, u, d)
  BY <1>1 DEF Expected
<1>3. \A k \in 1..Len(q) : Before(p, q[k], Watermark(w), u, d)
  BY <1>1 DEF Before
<1> QED BY <1>1, <1>2, <1>3, ContentAppend

\* The next barrier, to a downstream actor that reads it or that nobody links to the sender.
LEMMA ContentBarrier ==
  ASSUME NEW p \in Plans, NEW q \in Seq(Msg), NEW u, NEW d, NEW s \in Nat, NEW r \in 0..Len(p),
         s >= 1, s + 1 <= Len(p), Content(p, q, s, r, u, d), Sends(p, u, d, s + 1)
  PROVE  Content(p, Append(q, Barrier(s + 1)), s + 1, r, u, d)
<1> DEFINE m == Barrier(s + 1)
           q2 == Append(q, m)
<1> Len(p) \in Nat
  BY DEF Plans
<1>1. m \in Msg /\ m.type = "barrier" /\ m.value = s + 1
  BY MsgKinds
<1> HIDE DEF m
<1>2. Reads(p, u, d, s + 1) => r < s + 1
  BY DEF Content
<1>3. Expected(p, m, s + 1, r, u, d)
  BY <1>1, <1>2 DEF Expected
<1>4. ASSUME NEW k \in 1..Len(q)
      PROVE  Expected(p, q[k], s + 1, r, u, d) /\ Before(p, q[k], m, u, d)
  <2>1. q[k] \in Msg /\ Expected(p, q[k], s, r, u, d)
    BY DEF Content
  <2>2. q[k].value \in Nat
    BY <2>1, MsgKinds
  <2>3. CASE q[k].type # "watermark"
    <3>1. q[k].type \in {"row", "barrier"} /\ q[k].value \in 1..s
      BY <2>1, <2>3, MsgKinds DEF Expected
    <3>2. Before(p, q[k], m, u, d)
      BY <1>1, <3>1 DEF Before
    <3>3. Expected(p, q[k], s + 1, r, u, d)
      BY <2>1, <2>2, <3>1 DEF Expected
    <3> QED BY <3>2, <3>3
  <2>4. CASE q[k].type = "watermark"
    <3>1. PICK n \in 1..s : Linked(p, u, d, n)
      BY <2>1, <2>4 DEF Expected
    <3>2. Reads(p, u, d, s + 1)
      BY <3>1, SentIsRead
    <3>3. Linked(p, u, d, s)
      BY <3>1, <3>2, LinkedInterval DEF Reads
    <3> QED BY <3>1, <3>3, <2>4, <1>1 DEF Expected, Before
  <2> QED BY <2>3, <2>4
<1>5. ASSUME NEW k \in 1..Len(q2)
      PROVE  /\ Expected(p, q2[k], s + 1, r, u, d)
             /\ \A j \in 1..(k - 1) : Before(p, q2[j], q2[k], u, d)
  <2>1. CASE k = Len(q) + 1
    BY <2>1, <1>1, <1>3, <1>4, AppendMsg
  <2>2. CASE k # Len(q) + 1
    <3>1. k \in 1..Len(q) /\ q2[k] = q[k] /\ \A j \in 1..(k - 1) : q2[j] = q[j]
      BY <2>2, <1>1, AppendMsg
    <3> QED BY <3>1, <1>4 DEF Content
  <2> QED BY <2>1, <2>2
<1>6. ASSUME NEW n \in 1..Len(p), Reads(p, u, d, n)
      PROVE  /\ n <= r => n <= s + 1
             /\ r < n /\ n <= s + 1 => Has(q2, Barrier(n))
  <2>1. CASE n = s + 1
    BY <2>1, <1>1, AppendMsg DEF m
  <2>2. CASE n # s + 1
    BY <2>2, <1>1, <1>6, AppendMsg DEF Content
  <2> QED BY <2>1, <2>2
<1> HIDE DEF q2
<1>7. Content(p, q2, s + 1, r, u, d)
  BY <1>5, <1>6 DEF Content
<1> QED BY <1>7 DEF q2, m

\* The messages after the first one.
LEMMA ContentTail ==
  ASSUME NEW p \in Plans, NEW q \in Seq(Msg), NEW u, NEW d, NEW s \in Nat, NEW r \in Nat, NEW r2 \in Nat,
         q # <<>>, Content(p, q, s, r, u, d),
         \/ r2 = r /\ Head(q).type # "barrier"
         \/ r2 = r + 1 /\ Head(q) = Barrier(r + 1)
  PROVE  Content(p, Tail(q), s, r2, u, d)
<1> DEFINE q2 == Tail(q)
<1> Len(p) \in Nat
  BY DEF Plans
<1>1. Head(q) \in Msg /\ Head(q) = q[1] /\ 1 \in 1..Len(q) /\ Expected(p, Head(q), s, r, u, d)
  BY TailMsg DEF Content
<1>2. ASSUME NEW k \in 1..Len(q2)
      PROVE  /\ k + 1 \in 1..Len(q) /\ q2[k] = q[k + 1] /\ Expected(p, q[k + 1], s, r, u, d)
             /\ Before(p, Head(q), q[k + 1], u, d)
             /\ \A j \in 1..(k - 1) : Before(p, q2[j], q2[k], u, d)
  <2>1. k + 1 \in 1..Len(q) /\ q2[k] = q[k + 1] /\ \A j \in 1..(k - 1) : q2[j] = q[j + 1] /\ j + 1 \in 1..k
    BY TailMsg
  <2> HIDE DEF q2
  <2> QED BY <2>1, <1>1 DEF Content
<1>3. ASSUME NEW k \in 1..Len(q2) PROVE Expected(p, q2[k], s, r2, u, d)
  <2>1. CASE r2 = r
    BY <2>1, <1>2
  <2>2. CASE r2 = r + 1 /\ Head(q) = Barrier(r + 1)
    <3>1. q[k + 1] \in Msg /\ q[k + 1].value \in Nat
      BY <1>2, MsgKinds
    <3>2. Head(q).type = "barrier" /\ Head(q).value = r + 1
      BY <2>2, MsgKinds
    <3>3. /\ q[k + 1].type = "barrier" => r + 1 < q[k + 1].value
          /\ q[k + 1].type = "row" => r + 1 <= q[k + 1].value
      BY <1>2, <3>2 DEF Before
    <3> QED BY <2>2, <3>1, <3>3, <1>2 DEF Expected
  <2> QED BY <2>1, <2>2
<1>4. ASSUME NEW n \in 1..Len(p), Reads(p, u, d, n)
      PROVE  /\ n <= r2 => n <= s
             /\ r2 < n /\ n <= s => Has(q2, Barrier(n))
  <2>1. n <= r2 => n <= s
    <3>1. CASE r2 = r
      BY <3>1, <1>4 DEF Content
    <3>2. CASE r2 = r + 1 /\ Head(q) = Barrier(r + 1)
      <4>1. r + 1 <= s
        BY <3>2, <1>1, MsgKinds DEF Expected
      <4> QED BY <4>1, <3>2
    <3> QED BY <3>1, <3>2
  <2>2. ASSUME r2 < n, n <= s PROVE Has(q2, Barrier(n))
    <3>1. Has(q, Barrier(n))
      BY <1>4, <2>2 DEF Content
    <3>2. Barrier(n) # Head(q)
      BY <2>2, MsgKinds
    <3> QED BY <3>1, <3>2, TailMsg
  <2> QED BY <2>1, <2>2
<1> HIDE DEF q2
<1>5. Content(p, q2, s, r2, u, d)
  BY <1>2, <1>3, <1>4 DEF Content
<1> QED BY <1>5 DEF q2

\* A barrier that comes first is the next one, if that one is to be read.
LEMMA FirstBarrierIsNext ==
  ASSUME NEW p \in Plans, NEW q \in Seq(Msg), NEW u, NEW d, NEW s \in 0..Len(p), NEW r \in Nat,
         Content(p, q, s, r, u, d), q # <<>>, Head(q).type = "barrier",
         NEW m \in 1..Len(p), Linked(p, u, d, m),
         r + 1 <= Len(p) => Reads(p, u, d, r + 1)
  PROVE  Head(q) = Barrier(r + 1) /\ r + 1 <= s
<1> Len(p) \in Nat
  BY DEF Plans
<1>1. Head(q) \in Msg /\ Head(q) = q[1] /\ 1 \in 1..Len(q) /\ Expected(p, Head(q), s, r, u, d)
  BY TailMsg DEF Content
<1>2. Head(q) = Barrier(Head(q).value) /\ Head(q).value \in Nat
  BY <1>1, MsgKinds
<1> DEFINE n == Head(q).value
<1>3. n \in 2..s /\ Sends(p, u, d, n) /\ (Reads(p, u, d, n) => r < n)
  BY <1>1 DEF Expected
<1> HIDE DEF n
<1>4. Reads(p, u, d, n) /\ r < n
  BY <1>3, SentIsRead
<1>5. Has(q, Barrier(r + 1))
  BY <1>3, <1>4 DEF Content
<1>6. PICK k \in 1..Len(q) : q[k] = Barrier(r + 1)
  BY <1>5 DEF Has
<1>7. k # 1 => Before(p, q[1], q[k], u, d)
  BY <1>1 DEF Content
<1>8. k # 1 => n < r + 1
  BY <1>7, <1>6, <1>1, MsgKinds DEF Before, n
<1> QED BY <1>8, <1>6, <1>4, <1>3, <1>1

\* The first message of an upstream that barrier r + 1 adds is that barrier.
LEMMA FirstIsBarrier ==
  ASSUME NEW p \in Plans, NEW q \in Seq(Msg), NEW u, NEW d, NEW s \in 0..Len(p), NEW r \in Nat,
         Content(p, q, s, r, u, d), q # <<>>,
         r >= 1, r + 1 <= Len(p), Linked(p, u, d, r + 1), ~Linked(p, u, d, r)
  PROVE  Head(q) = Barrier(r + 1) /\ r + 1 <= s
<1> Len(p) \in Nat
  BY DEF Plans
<1>1. Head(q) \in Msg /\ Head(q) = q[1] /\ 1 \in 1..Len(q) /\ Expected(p, Head(q), s, r, u, d)
  BY TailMsg DEF Content
<1>2. \A n \in 1..Len(p) : Linked(p, u, d, n) => r + 1 <= n
  <2> SUFFICES ASSUME NEW n \in 1..Len(p), Linked(p, u, d, n), n <= r PROVE FALSE
    OBVIOUS
  <2> QED BY LinkedInterval
<1>3. Reads(p, u, d, r + 1)
  BY DEF Reads
<1>4. CASE Head(q).type = "barrier"
  BY <1>3, <1>4, FirstBarrierIsNext
<1>5. CASE Head(q).type # "barrier"
  <2>1. r + 1 <= s
    BY <1>1, <1>2, <1>5, MsgKinds DEF Expected
  <2>2. PICK k \in 1..Len(q) : q[k] = Barrier(r + 1)
    BY <1>3, <2>1 DEF Content, Has
  <2>3. k # 1
    BY <2>2, <1>1, <1>5, MsgKinds
  <2>4. Before(p, Head(q), Barrier(r + 1), u, d)
    BY <2>2, <2>3, <1>1 DEF Content
  <2>5. CASE Head(q).type = "row"
    <3>1. Head(q).value < r + 1
      BY <2>4, <2>5, MsgKinds DEF Before
    <3>2. Head(q).value \in 1..s /\ Linked(p, u, d, Head(q).value)
      BY <1>1, <2>5 DEF Expected
    <3> QED BY <3>1, <3>2, <1>2
  <2>6. CASE Head(q).type = "watermark"
    BY <2>4, <2>6, MsgKinds DEF Before
  <2> QED BY <2>5, <2>6, <1>1, <1>5, MsgKinds
<1> QED BY <1>4, <1>5

\* A new epoch does not touch what is on its way.
LEMMA ContentPlan ==
  ASSUME NEW p \in Plans, NEW c, Append(p, c) \in Plans, NEW q \in Seq(Msg), NEW u, NEW d,
         NEW s \in 0..Len(p), NEW r \in 0..Len(p), Content(p, q, s, r, u, d)
  PROVE  Content(Append(p, c), q, s, r, u, d)
<1> DEFINE p2 == Append(p, c)
<1>1. /\ Len(p) \in Nat /\ Len(p2) = Len(p) + 1
      /\ \A n \in 1..Len(p) : p2[n] = p[n]
  BY DEF Plans
<1> HIDE DEF p2
<1>2. \A n \in 1..Len(p) : /\ Linked(p2, u, d, n) <=> Linked(p, u, d, n)
                           /\ Reads(p2, u, d, n) <=> Reads(p, u, d, n)
                           /\ n > 1 => (Sends(p2, u, d, n) <=> Sends(p, u, d, n))
  BY <1>1 DEF Linked, Reads, Sends
<1>3. ASSUME NEW k \in 1..Len(q) PROVE Expected(p2, q[k], s, r, u, d)
  <2>1. Expected(p, q[k], s, r, u, d) /\ q[k] \in Msg
    BY DEF Content
  <2> QED BY <1>1, <1>2, <2>1, MsgKinds DEF Expected
<1>4. ASSUME NEW k \in 1..Len(q), NEW j \in 1..(k - 1) PROVE Before(p2, q[j], q[k], u, d)
  <2>1. Expected(p, q[k], s, r, u, d) /\ q[k] \in Msg /\ Before(p, q[j], q[k], u, d)
    BY DEF Content
  <2> QED BY <1>1, <1>2, <2>1, MsgKinds DEF Expected, Before
<1>5. Content(p2, q, s, r, u, d)
  BY <1>1, <1>2, <1>3, <1>4 DEF Content
<1> QED BY <1>5 DEF p2

-----------------------------------------------------------------------------
\* What the invariant implies.

LEMMA BasicTypes ==
  ASSUME IInv
  PROVE  /\ plan \in Plans /\ Len(plan) \in Nat /\ Len(plan) >= 1
         /\ issued.up \in 1..Len(plan) /\ issued.down \in 1..Len(plan)
         /\ \A a \in Up \cup Down : /\ passed[a] \in 0..Len(plan) /\ passed[a] \in Nat
                                    /\ state[a] \in {"none", "running", "exited"}
         /\ \A u \in Up, d \in Down : chan[u][d] \in Seq(Msg)
         /\ \A u \in Up : UpState(u) /\ \A d \in Down : Channel(u, d)
         /\ \A d \in Down : DownState(d)
<1>1. Types
  BY DEF IInv
<1>2. plan \in Seq(Config) /\ plan # <<>>
  BY <1>1 DEF Types, Plans
<1> QED BY <1>1, <1>2 DEF IInv, Types

\* How far a merge has read.
LEMMA ReadBounds ==
  ASSUME IInv, NEW u \in Up, NEW d \in Down
  PROVE  /\ Read(d, u) \in 0..Len(plan) /\ passed[d] <= Read(d, u)
         /\ Read(d, u) = passed[d] \/ Read(d, u) = passed[d] + 1
         /\ state[d] # "running" => Read(d, u) = passed[d]
  BY BasicTypes DEF Read, DownState

\* A merge reads the next barrier from the upstreams that it polls.
LEMMA PolledIsLinked ==
  ASSUME IInv, NEW u \in Up, NEW d \in Down, state[d] = "running",
         u \in (IF adding[d] = {} THEN Active(d) ELSE adding[d])
  PROVE  /\ Read(d, u) = passed[d] /\ passed[d] >= 1
         /\ \E m \in 1..Len(plan) : m \in {passed[d], passed[d] + 1} /\ Linked(plan, u, d, m)
         /\ passed[d] + 1 <= Len(plan) => Reads(plan, u, d, passed[d] + 1)
         /\ u \in adding[d] => /\ passed[d] + 1 <= Len(plan)
                               /\ Linked(plan, u, d, passed[d] + 1) /\ ~Linked(plan, u, d, passed[d])
<1>1. DownState(d) /\ passed[d] \in 1..issued.down /\ issued.down \in 1..Len(plan)
  BY BasicTypes DEF DownState
<1>2. CASE adding[d] = {}
  <2>1. u \in upstreams[d] /\ u \notin blocked[d]
    BY <1>2 DEF Active
  <2>2. CASE d \in plan[passed[d]].down
    BY <2>1, <2>2, <1>1, <1>2, BasicTypes DEF DownState, Linked, Reads, Read
  <2>3. CASE d \notin plan[passed[d]].down
    BY <2>1, <2>3, <1>1, <1>2, BasicTypes DEF DownState, Linked, Reads, Read
  <2> QED BY <2>2, <2>3
<1>3. CASE adding[d] # {}
  <2>1. /\ blocked[d] = {} /\ passed[d] < issued.down
        /\ u \in plan[passed[d] + 1].up /\ u \notin plan[passed[d]].up
        /\ d \in plan[passed[d]].down /\ d \in plan[passed[d] + 1].down
    BY <1>1, <1>3 DEF DownState
  <2> QED BY <2>1, <1>1, <1>3, BasicTypes DEF Linked, Reads, Read
<1> QED BY <1>2, <1>3

LEMMA AlignedFromIInv ==
  IInv => BarriersAligned
<1> SUFFICES ASSUME IInv, NEW d \in Down, state[d] = "running"
             PROVE  /\ \A u \in Active(d) :
                         chan[u][d] # <<>> /\ Head(chan[u][d]).type = "barrier" /\ adding[d] = {}
                           => Head(chan[u][d]).value = passed[d] + 1
                    /\ \A u \in adding[d] :
                         chan[u][d] # <<>> => Head(chan[u][d]) = Barrier(passed[d] + 1)
  BY DEF BarriersAligned
<1>1. Active(d) \subseteq Up /\ adding[d] \subseteq Up
  BY DEF IInv, Types, Active
<1>2. ASSUME NEW u \in Active(d), chan[u][d] # <<>>, Head(chan[u][d]).type = "barrier", adding[d] = {}
      PROVE  Head(chan[u][d]).value = passed[d] + 1
  <2>1. u \in Up /\ Content(plan, chan[u][d], passed[u], passed[d], u, d)
    BY <1>1, <1>2, PolledIsLinked, BasicTypes DEF Channel
  <2>2. PICK m \in 1..Len(plan) : Linked(plan, u, d, m)
    BY <1>1, <1>2, PolledIsLinked
  <2>3. Head(chan[u][d]) = Barrier(passed[d] + 1)
    BY <2>1, <2>2, <1>2, PolledIsLinked, FirstBarrierIsNext, BasicTypes, SMTT(30)
  <2> QED BY <2>3, BasicTypes, MsgKinds
<1>3. ASSUME NEW u \in adding[d], chan[u][d] # <<>>
      PROVE  Head(chan[u][d]) = Barrier(passed[d] + 1)
  <2>1. u \in Up /\ Content(plan, chan[u][d], passed[u], passed[d], u, d)
    BY <1>1, <1>3, PolledIsLinked, BasicTypes DEF Channel
  <2> QED BY <2>1, <1>3, PolledIsLinked, FirstIsBarrier, BasicTypes
<1> QED BY <1>2, <1>3

LEMMA OpenFromIInv ==
  IInv => ChannelsOpen
<1> SUFFICES ASSUME IInv PROVE ChannelsOpen
  OBVIOUS
<1>1. ASSUME NEW d \in Down, state[d] = "running",
             NEW u \in (IF adding[d] = {} THEN Active(d) ELSE adding[d]),
             chan[u][d] = <<>>, SenderDropped(u, d)
      PROVE  FALSE
  <2>1. u \in Up
    BY DEF IInv, Types, Active
  <2>2. UpState(u) /\ passed[u] \in 0..Len(plan) /\ passed[d] \in 0..Len(plan)
    BY <2>1, BasicTypes
  <2>3. PICK m \in 1..Len(plan) : m \in {passed[d], passed[d] + 1} /\ Linked(plan, u, d, m)
    BY <1>1, <2>1, PolledIsLinked
  <2>4. m < passed[u]
    <3>1. CASE state[u] = "exited"
      <4>1. /\ passed[u] \in 2..Len(plan)
            /\ u \in plan[passed[u] - 1].up /\ u \notin plan[passed[u]].up /\ u \in plan[m].up
        BY <3>1, <2>2, <2>3, BasicTypes DEF UpState, Linked
      <4> QED BY <4>1, BasicTypes, ActorInterval, SMTT(30)
    <3>2. CASE state[u] # "exited"
      <4>1. Started(u) /\ d \notin plan[passed[u]].down
        BY <3>2, <2>2, <1>1, BasicTypes DEF SenderDropped, UpState, Started
      <4>2. PICK n \in 1..passed[u] : d \in plan[n].down
        BY <3>2, <1>1 DEF SenderDropped
      <4>3. d \in plan[m].down /\ passed[u] \in 1..Len(plan)
        BY <2>3, <4>1, BasicTypes, <2>1 DEF Linked, Started
      <4>4. n \in 1..Len(plan) /\ n <= passed[u]
        BY <4>2, <4>3
      <4> QED BY <4>1, <4>2, <4>3, <4>4, BasicTypes, ActorInterval
    <3> QED BY <3>1, <3>2
  <2>5. passed[d] + 1 \in 1..Len(plan) /\ passed[d] + 1 <= passed[u] /\ Reads(plan, u, d, passed[d] + 1)
    BY <1>1, <2>1, <2>2, <2>3, <2>4, PolledIsLinked, BasicTypes
  <2>6. Has(chan[u][d], Barrier(passed[d] + 1))
    <3>1. Content(plan, chan[u][d], passed[u], passed[d], u, d)
      BY <1>1, <2>1, PolledIsLinked, BasicTypes DEF Channel
    <3> QED BY <3>1, <2>5, <2>2 DEF Content
  <2> QED BY <2>6, <1>1 DEF Has
<1>2. ASSUME NEW u \in Up, state[u] = "running", NEW d \in outputs[u], state[d] = "exited"
      PROVE  FALSE
  <2>1. d \in Down
    BY DEF IInv, Types
  <2>2. /\ UpState(u) /\ passed[u] \in 1..Len(plan)
        /\ passed[d] \in 2..Len(plan) /\ d \in plan[passed[d] - 1].down /\ d \notin plan[passed[d]].down
    BY <2>1, <1>2, BasicTypes DEF UpState, DownState
  <2>3. PICK m \in {passed[u], passed[u] + 1} : m \in 1..Len(plan) /\ Linked(plan, u, d, m)
    BY <1>2, <2>2, BasicTypes DEF UpState, Linked
  <2>4. m < passed[d]
    <3>1. passed[d] - 1 \in 1..Len(plan) /\ d \in plan[m].down
      BY <2>2, <2>3 DEF Linked
    <3> QED BY <3>1, <2>2, <2>3, BasicTypes, ActorInterval
  <2>5. passed[u] + 1 \in 1..Len(plan) /\ passed[u] + 1 <= passed[d] /\ Reads(plan, u, d, passed[u] + 1)
    BY <2>2, <2>3, <2>4 DEF Reads
  <2>6. passed[d] <= Read(d, u) /\ Read(d, u) \in Nat
    BY <2>1, ReadBounds, BasicTypes
  <2>7. Channel(u, d)
    BY <2>1, BasicTypes
  <2> QED BY <2>2, <2>5, <2>6, <2>7 DEF Channel, Content
<1> QED BY <1>1, <1>2 DEF ChannelsOpen

LEMMA OwnerFromIInv ==
  IInv => RowsReachOwner
<1> SUFFICES ASSUME IInv PROVE RowsReachOwner
  OBVIOUS
<1>1. ASSUME NEW u \in Up, Started(u), NEW v \in VNode
      PROVE  hashMapping[u][v] = plan[passed[u]].map[v] /\ hashMapping[u][v] \in outputs[u]
  <2>1. /\ passed[u] \in 1..Len(plan)
        /\ outputs[u] = plan[passed[u]].down /\ hashMapping[u] = plan[passed[u]].map
    BY <1>1, BasicTypes DEF UpState, Started
  <2>2. plan[passed[u]].map \in [VNode -> plan[passed[u]].down]
    BY <2>1, BasicTypes, PlanFields
  <2> QED BY <2>1, <2>2
<1>2. ASSUME NEW u \in Up, NEW d \in Down, NEW k \in DOMAIN chan[u][d], chan[u][d][k].type = "row"
      PROVE  LET m == chan[u][d][k] IN
             /\ plan[m.value].map[m.vnode] = d
             /\ state[d] # "exited" /\ passed[d] <= m.value
             /\ passed[d] = m.value => u \in Active(d)
  <2> DEFINE m == chan[u][d][k]
             n == m.value
  <2>1. k \in 1..Len(chan[u][d]) /\ passed[u] \in 0..Len(plan) /\ passed[d] \in 0..Len(plan)
    BY BasicTypes
  <2>2. Expected(plan, m, passed[u], Read(d, u), u, d)
    BY <2>1, BasicTypes DEF Channel, Content
  <2>3. /\ n \in 1..Len(plan) /\ Linked(plan, u, d, n) /\ plan[n].map[m.vnode] = d /\ Read(d, u) <= n
    BY <2>1, <2>2, <1>2, BasicTypes, SMTT(30) DEF Expected
  <2> HIDE DEF n, m
  <2>4. passed[d] <= n
    BY <2>1, <2>3, ReadBounds
  <2>5. state[d] # "exited"
    <3> SUFFICES ASSUME state[d] = "exited" PROVE FALSE
      OBVIOUS
    <3>1. passed[d] \in 2..Len(plan) /\ d \in plan[passed[d] - 1].down /\ d \notin plan[passed[d]].down
      BY BasicTypes DEF DownState
    <3> QED BY <3>1, <2>3, <2>4, BasicTypes, SMTT(30) DEF Linked, Plans
  <2>6. ASSUME passed[d] = n PROVE u \in Active(d)
    <3>1. state[d] = "running"
      BY <2>5, <2>6, <2>3, BasicTypes DEF DownState
    <3>2. u \in upstreams[d]
      BY <3>1, <2>6, <2>3, BasicTypes DEF DownState, Linked
    <3>3. u \notin blocked[d]
      BY <2>3, <2>6, <2>1 DEF Read
    <3> QED BY <3>2, <3>3 DEF Active
  <2> QED BY <2>3, <2>4, <2>5, <2>6 DEF n, m
<1> QED BY <1>1, <1>2 DEF RowsReachOwner

-----------------------------------------------------------------------------
\* What a step leaves alone.

LEMMA UpFrame ==
  ASSUME NEW u \in Up, UpState(u), plan' = plan, issued'.up = issued.up, state'[u] = state[u],
         passed'[u] = passed[u], outputs'[u] = outputs[u], hashMapping'[u] = hashMapping[u]
  PROVE  UpState(u)'
  BY DEF UpState

LEMMA DownFrame ==
  ASSUME NEW d \in Down, DownState(d), plan' = plan, issued'.down = issued.down, state'[d] = state[d],
         passed'[d] = passed[d], upstreams'[d] = upstreams[d], blocked'[d] = blocked[d],
         adding'[d] = adding[d]
  PROVE  DownState(d)'
  BY DEF DownState

LEMMA ChannelFrame ==
  ASSUME NEW u \in Up, NEW d \in Down, Channel(u, d), plan' = plan, chan'[u][d] = chan[u][d],
         passed'[u] = passed[u], passed'[d] = passed[d], blocked'[d] = blocked[d], adding'[d] = adding[d]
  PROVE  Channel(u, d)'
<1>1. Read(d, u)' = Read(d, u)
  BY DEF Read
<1> QED BY <1>1 DEF Channel

LEMMA BroadcastChan ==
  ASSUME Types, NEW u \in Up, NEW D, NEW m \in Msg, Broadcast(u, D, m)
  PROVE  /\ chan' \in [Up -> [Down -> Seq(Msg)]]
         /\ \A x \in Up, d \in Down :
              chan'[x][d] = IF x = u /\ d \in D THEN Append(chan[x][d], m) ELSE chan[x][d]
<1>1. chan \in [Up -> [Down -> Seq(Msg)]]
  BY DEF Types
<1>2. chan' = [chan EXCEPT ![u] = [d \in Down |-> IF d \in D THEN Append(chan[u][d], m) ELSE chan[u][d]]]
  BY DEF Broadcast
<1>3. [d \in Down |-> IF d \in D THEN Append(chan[u][d], m) ELSE chan[u][d]] \in [Down -> Seq(Msg)]
  BY <1>1, AppendMsg
<1> QED BY <1>1, <1>2, <1>3

LEMMA ReceiveChan ==
  ASSUME Types, NEW u \in Up, NEW d \in Down, chan[u][d] # <<>>, Receive(d, u)
  PROVE  /\ chan' \in [Up -> [Down -> Seq(Msg)]]
         /\ \A x \in Up, y \in Down :
              chan'[x][y] = IF x = u /\ y = d THEN Tail(chan[x][y]) ELSE chan[x][y]
<1>1. chan \in [Up -> [Down -> Seq(Msg)]]
  BY DEF Types
<1>2. Tail(chan[u][d]) \in Seq(Msg)
  BY <1>1, TailMsg
<1> QED BY <1>1, <1>2 DEF Receive

-----------------------------------------------------------------------------
\* The initial states.
LEMMA InitIInv ==
  Init => IInv
<1> SUFFICES ASSUME Init PROVE IInv
  OBVIOUS
<1>1. First \in Config /\ Up \cap Down = {}
  BY RescheduleAssumption
<1>2. /\ First.up \subseteq Up /\ First.down \subseteq Down /\ First.map \in [VNode -> Down]
  BY <1>1, ConfigFields
<1>3. /\ plan \in Seq(Config) /\ plan # <<>> /\ Len(plan) = 1 /\ plan[1] = First
  BY <1>1 DEF Init
<1>4. plan \in Plans
  BY <1>3, SMTT(30) DEF Plans
<1>5. chan \in [Up -> [Down -> Seq(Msg)]] /\ \A u \in Up, d \in Down : chan[u][d] = <<>>
  BY DEF Init
<1>6. Types
  BY <1>1, <1>2, <1>3, <1>4, <1>5 DEF Init, Types
<1>7. ASSUME NEW u \in Up PROVE UpState(u)
  BY <1>1, <1>2, <1>3 DEF Init, UpState
<1>8. ASSUME NEW d \in Down PROVE DownState(d)
  BY <1>1, <1>2, <1>3 DEF Init, DownState
<1>9. ASSUME NEW u \in Up, NEW d \in Down PROVE Channel(u, d)
  <2>1. Read(d, u) = passed[d]
    BY DEF Read, Init
  <2>2. Linked(plan, u, d, 1) => passed[u] = 1 /\ passed[d] = 1
    BY <1>3 DEF Linked, Init
  <2> QED BY <1>3, <1>5, <2>1, <2>2 DEF Channel, Content, Reads
<1> QED BY <1>6, <1>7, <1>8, <1>9 DEF IInv

\* Meta begins an epoch; the actors it adds have not been there before.
LEMMA NewEpochIInv ==
  ASSUME IInv, NEW c \in Config, plan' = Append(plan, c),
         \A n \in 1..Len(plan) : /\ (c.up \ plan[Len(plan)].up) \cap plan[n].up = {}
                                 /\ (c.down \ plan[Len(plan)].down) \cap plan[n].down = {},
         UNCHANGED <<issued, state, passed, chan, upVars, downVars>>
  PROVE  IInv'
<1> USE BasicTypes
<1> UNCHANGED <<issued, state, passed, chan, outputs, hashMapping, upstreams, blocked, adding>>
  BY DEF upVars, downVars
<1>1. /\ plan' \in Seq(Config) /\ plan' # <<>> /\ Len(plan') = Len(plan) + 1
      /\ plan'[Len(plan) + 1] = c /\ \A n \in 1..Len(plan) : plan'[n] = plan[n]
  BY DEF Plans
<1>2. plan' \in Plans
  <2> DEFINE p == plan'
  <2> HIDE DEF p
  <2> SUFFICES ASSUME NEW m \in 1..Len(p), NEW n \in 1..Len(p), NEW k \in m..n
               PROVE  p[m].up \cap p[n].up \subseteq p[k].up /\ p[m].down \cap p[n].down \subseteq p[k].down
    BY <1>1 DEF Plans, p
  <2> SUFFICES ASSUME NEW a
               PROVE  /\ a \in plan'[m].up /\ a \in plan'[n].up => a \in plan'[k].up
                      /\ a \in plan'[m].down /\ a \in plan'[n].down => a \in plan'[k].down
    BY DEF p
  <2> USE DEF p
  <2>1. CASE n \in 1..Len(plan)
    <3>1. m \in 1..Len(plan) /\ k \in 1..Len(plan) /\ m <= k /\ k <= n
      BY <2>1
    <3> QED BY <3>1, <2>1, <1>1, ActorInterval
  <2>2. CASE n \notin 1..Len(plan)
    <3>1. n = Len(plan) + 1
      BY <2>2, <1>1
    <3>2. CASE k = n \/ m = n
      BY <3>2, <3>1
    <3>3. CASE k # n /\ m # n
      <4>1. m \in 1..Len(plan) /\ k \in 1..Len(plan) /\ m <= k /\ k <= Len(plan) /\ Len(plan) \in 1..Len(plan)
        BY <3>1, <3>3, <1>1
      <4>2. /\ a \in plan[m].up /\ a \in c.up => a \in plan[Len(plan)].up
            /\ a \in plan[m].down /\ a \in c.down => a \in plan[Len(plan)].down
        BY <4>1
      <4> QED BY <4>1, <4>2, <3>1, <1>1, ActorInterval
    <3> QED BY <3>2, <3>3
  <2> QED BY <2>1, <2>2
<1>3. Types'
  <2>1. Types
    BY DEF IInv
  <2> QED BY <1>1, <1>2, <2>1 DEF Types
<1>4. ASSUME NEW u \in Up PROVE UpState(u)'
  <2>1. UpState(u)
    OBVIOUS
  <2> QED BY <1>1, <2>1, SMTT(30) DEF UpState
<1>5. ASSUME NEW d \in Down PROVE DownState(d)'
  <2>1. DownState(d)
    OBVIOUS
  <2> QED BY <1>1, <2>1, SMTT(30) DEF DownState
<1>6. ASSUME NEW u \in Up, NEW d \in Down PROVE Channel(u, d)'
  <2>1. Read(d, u)' = Read(d, u)
    BY DEF Read
  <2> QED BY <1>2, <2>1, ContentPlan, ReadBounds DEF Channel
<1> QED BY <1>3, <1>4, <1>5, <1>6 DEF IInv

LEMMA NewBarrierIInv ==
  ASSUME IInv, NewBarrier
  PROVE  IInv'
<1>1. plan[Len(plan)] \in Config
  BY BasicTypes DEF Plans
<1>2. plan' = Append(plan, plan[Len(plan)])
  BY DEF NewBarrier, Last
<1>3. UNCHANGED <<issued, state, passed, chan, upVars, downVars>>
  BY DEF NewBarrier
<1> QED BY <1>1, <1>2, <1>3, NewEpochIInv

LEMMA RescheduleIInv ==
  ASSUME IInv, NEW c \in Targets, RescheduleFragment(c)
  PROVE  IInv'
<1>1. c \in Config
  BY RescheduleAssumption
<1>2. \A n \in 1..Len(plan) : /\ (c.up \ plan[Len(plan)].up) \cap plan[n].up = {}
                              /\ (c.down \ plan[Len(plan)].down) \cap plan[n].down = {}
  <2>1. DOMAIN plan = 1..Len(plan)
    BY BasicTypes DEF Plans
  <2>2. \A n \in DOMAIN plan : \A f \in {"up", "down"} :
          (c[f] \ plan[Len(plan)][f]) \cap plan[n][f] = {}
    BY DEF RescheduleFragment, Last
  <2> QED BY <2>1, <2>2
<1>3. plan' = Append(plan, c) /\ UNCHANGED <<issued, state, passed, chan, upVars, downVars>>
  BY DEF RescheduleFragment
<1> QED BY <1>1, <1>2, <1>3, NewEpochIInv

\* An actor that barrier n adds is not there before.
LEMMA AddedIsNew ==
  ASSUME NEW p \in Plans, NEW n \in 2..Len(p), NEW a, NEW m \in 1..(n - 1)
  PROVE  /\ a \in p[n].up /\ a \notin p[n - 1].up => a \notin p[m].up
         /\ a \in p[n].down /\ a \notin p[n - 1].down => a \notin p[m].down
<1>1. Len(p) \in Nat
  BY DEF Plans
<1>2. m \in 1..Len(p) /\ n \in 1..Len(p) /\ n - 1 \in 1..Len(p) /\ m <= n - 1 /\ n - 1 <= n
  BY <1>1
<1> QED BY <1>2, ActorInterval

\* Nothing is read in a channel before the barrier that adds one of its ends.
LEMMA ReadsOfNew ==
  ASSUME NEW p \in Plans, NEW n \in 2..Len(p), NEW u, NEW d,
         (u \in p[n].up /\ u \notin p[n - 1].up) \/ (d \in p[n].down /\ d \notin p[n - 1].down)
  PROVE  \A m \in 1..Len(p) : Reads(p, u, d, m) => ~(m <= n - 1)
<1> SUFFICES ASSUME NEW m \in 1..Len(p), Reads(p, u, d, m), m <= n - 1 PROVE FALSE
  OBVIOUS
<1>1. Len(p) \in Nat
  BY DEF Plans
<1>2. PICK k \in {m, m - 1} : k \in 1..(n - 1) /\ Linked(p, u, d, k)
  BY <1>1 DEF Reads
<1> QED BY <1>2, AddedIsNew DEF Linked

LEMMA IssueUpIInv ==
  ASSUME IInv, IssueUp
  PROVE  IInv'
<1> USE BasicTypes
<1> DEFINE n == issued.up + 1
           new == plan[n].up \ plan[n - 1].up
<1>0. Added(n, "up") = new
  BY DEF Added
<1> HIDE DEF new
<1>1. /\ n \in 2..Len(plan)
      /\ issued' = [issued EXCEPT !.up = n]
      /\ state' = [a \in Up \cup Down |-> IF a \in new THEN "running" ELSE state[a]]
      /\ passed' = [a \in Up \cup Down |-> IF a \in new THEN n - 1 ELSE passed[a]]
      /\ outputs' = [u \in Up |-> IF u \in new THEN plan[n].down ELSE outputs[u]]
      /\ hashMapping' = [u \in Up |-> IF u \in new THEN plan[n].map ELSE hashMapping[u]]
      /\ UNCHANGED <<plan, chan, upstreams, blocked, adding>>
  BY <1>0 DEF IssueUp, downVars
<1> USE DEF new
<1>2. /\ new \subseteq Up /\ plan[n].down \subseteq Down /\ plan[n].map \in [VNode -> Down]
      /\ Up \cap Down = {}
  BY <1>1, PlanFields, RescheduleAssumption
<1>3. issued'.up = n /\ issued'.down = issued.down /\ issued' \in [up : 1..Len(plan), down : 1..Len(plan)]
  <2>1. issued \in [up : 1..Len(plan), down : 1..Len(plan)]
    BY DEF IInv, Types
  <2> HIDE DEF n
  <2>2. n \in 1..Len(plan) /\ issued' = [issued EXCEPT !.up = n]
    BY <1>1
  <2> QED BY <2>1, <2>2
<1>4. \A u \in new : state[u] = "none" /\ passed[u] = 0
  <2> SUFFICES ASSUME NEW u \in new, state[u] # "none" PROVE FALSE
    BY <1>2 DEF UpState
  <2>1. PICK m \in 1..(n - 1) : u \in plan[m].up
    <3>1. u \in Up /\ UpState(u) /\ state[u] \in {"running", "exited"}
      BY <1>2
    <3>2. CASE state[u] = "running" /\ u \in plan[passed[u]].up
      BY <3>1, <3>2 DEF UpState
    <3>3. CASE state[u] = "running" /\ u \notin plan[passed[u]].up
      <4>1. passed[u] + 1 \in 1..(n - 1) /\ u \in plan[passed[u] + 1].up
        BY <3>1, <3>3 DEF UpState
      <4> QED BY <4>1
    <3>4. CASE state[u] = "exited"
      <4>1. passed[u] - 1 \in 1..(n - 1) /\ u \in plan[passed[u] - 1].up
        BY <3>1, <3>4 DEF UpState
      <4> QED BY <4>1
    <3> QED BY <3>1, <3>2, <3>3, <3>4
  <2> QED BY <2>1, <1>1, AddedIsNew
<1> HIDE DEF new, n
<1>5. Types'
  <2>1. Types
    BY DEF IInv
  <2> QED BY <1>1, <1>2, <1>3, <2>1 DEF Types
<1>6. ASSUME NEW u \in Up PROVE UpState(u)'
  <2>1. CASE u \in new
    <3>1. /\ state'[u] = "running" /\ passed'[u] = n - 1 /\ outputs'[u] = plan[n].down
          /\ hashMapping'[u] = plan[n].map
      BY <1>1, <2>1
    <3>2. u \in plan[n].up /\ u \notin plan[n - 1].up
      BY <2>1 DEF new
    <3> QED BY <3>1, <3>2, <1>1, <1>3 DEF UpState
  <2>2. CASE u \notin new
    <3>1. /\ state'[u] = state[u] /\ passed'[u] = passed[u] /\ outputs'[u] = outputs[u]
          /\ hashMapping'[u] = hashMapping[u] /\ plan' = plan
      BY <1>1, <2>2
    <3>2. UpState(u) /\ issued.up = n - 1 /\ issued.up \in 1..Len(plan)
      BY DEF n
    <3>3. CASE state[u] = "none"
      <4>1. u \notin plan[n - 1].up
        BY <3>2, <3>3 DEF UpState
      <4>2. u \notin plan[n].up
        BY <4>1, <2>2 DEF new
      <4> QED BY <3>1, <3>2, <3>3, <4>2, <1>3 DEF UpState
    <3>4. CASE state[u] # "none"
      BY <3>1, <3>2, <3>4, <1>3 DEF UpState
    <3> QED BY <3>3, <3>4
  <2> QED BY <2>1, <2>2
<1>7. ASSUME NEW d \in Down PROVE DownState(d)'
  BY <1>1, <1>2, <1>3, DownFrame
<1>8. ASSUME NEW u \in Up, NEW d \in Down PROVE Channel(u, d)'
  <2>1. passed'[d] = passed[d] /\ Read(d, u)' = Read(d, u)
    BY <1>1, <1>2 DEF Read
  <2>2. CASE u \notin new
    BY <1>1, <2>1, <2>2, ChannelFrame
  <2>3. CASE u \in new
    <3>1. passed'[u] = n - 1 /\ passed[u] = 0
      BY <1>1, <1>4, <2>3
    <3>3. \A m \in 1..Len(plan) : Reads(plan, u, d, m) => ~(m <= n - 1)
      BY <2>3, <1>1, ReadsOfNew DEF new
    <3>4. Content(plan, chan[u][d], passed'[u], Read(d, u), u, d)
      <4>1. /\ passed'[u] \in 0..Len(plan) /\ passed[u] \in Nat /\ passed[u] <= passed'[u]
            /\ Read(d, u) \in 0..Len(plan) /\ Read(d, u) \in Nat
        BY <3>1, <1>1, ReadBounds
      <4>2. Content(plan, chan[u][d], passed[u], Read(d, u), u, d)
        BY DEF Channel
      <4>3. \A m \in 1..Len(plan) : Reads(plan, u, d, m) => ~(m <= passed'[u])
        BY <3>1, <3>3, <1>1
      <4> QED BY <4>1, <4>2, <4>3, ContentQuiet
    <3> QED BY <3>4, <2>1, <1>1 DEF Channel
  <2> QED BY <2>2, <2>3
<1> QED BY <1>5, <1>6, <1>7, <1>8 DEF IInv

LEMMA IssueDownIInv ==
  ASSUME IInv, IssueDown
  PROVE  IInv'
<1> USE BasicTypes
<1> DEFINE n == issued.down + 1
           new == plan[n].down \ plan[n - 1].down
<1>0. Added(n, "down") = new
  BY DEF Added
<1> HIDE DEF new
<1>1. /\ n \in 2..Len(plan)
      /\ issued' = [issued EXCEPT !.down = n]
      /\ state' = [a \in Up \cup Down |-> IF a \in new THEN "running" ELSE state[a]]
      /\ passed' = [a \in Up \cup Down |-> IF a \in new THEN n - 1 ELSE passed[a]]
      /\ upstreams' = [d \in Down |-> IF d \in new THEN plan[n].up ELSE upstreams[d]]
      /\ UNCHANGED <<plan, chan, outputs, hashMapping, blocked, adding>>
  BY <1>0 DEF IssueDown, upVars
<1> USE DEF new
<1>2. new \subseteq Down /\ plan[n].up \subseteq Up /\ Up \cap Down = {}
  BY <1>1, PlanFields, RescheduleAssumption, SMTT(30)
<1>3. issued'.down = n /\ issued'.up = issued.up /\ issued' \in [up : 1..Len(plan), down : 1..Len(plan)]
  <2>1. issued \in [up : 1..Len(plan), down : 1..Len(plan)]
    BY DEF IInv, Types
  <2> HIDE DEF n
  <2>2. n \in 1..Len(plan) /\ issued' = [issued EXCEPT !.down = n]
    BY <1>1
  <2> QED BY <2>1, <2>2
<1>4. \A d \in new : state[d] = "none" /\ passed[d] = 0 /\ blocked[d] = {} /\ adding[d] = {}
  <2> SUFFICES ASSUME NEW d \in new, state[d] # "none" PROVE FALSE
    BY <1>2 DEF DownState
  <2>1. PICK m \in 1..(n - 1) : d \in plan[m].down
    <3>1. d \in Down /\ DownState(d) /\ state[d] \in {"running", "exited"}
      BY <1>2
    <3>2. CASE state[d] = "running" /\ d \in plan[passed[d]].down
      BY <3>1, <3>2 DEF DownState
    <3>3. CASE state[d] = "running" /\ d \notin plan[passed[d]].down
      <4>1. passed[d] + 1 \in 1..(n - 1) /\ d \in plan[passed[d] + 1].down
        BY <3>1, <3>3 DEF DownState
      <4> QED BY <4>1
    <3>4. CASE state[d] = "exited"
      <4>1. passed[d] - 1 \in 1..(n - 1) /\ d \in plan[passed[d] - 1].down
        BY <3>1, <3>4 DEF DownState
      <4> QED BY <4>1
    <3> QED BY <3>1, <3>2, <3>3, <3>4
  <2> QED BY <2>1, <1>1, AddedIsNew
<1> HIDE DEF new, n
<1>5. Types'
  <2>1. Types
    BY DEF IInv
  <2> QED BY <1>1, <1>2, <1>3, <2>1 DEF Types
<1>6. ASSUME NEW u \in Up PROVE UpState(u)'
  BY <1>1, <1>2, <1>3, UpFrame
<1>7. ASSUME NEW d \in Down PROVE DownState(d)'
  <2>1. CASE d \in new
    <3>1. /\ state'[d] = "running" /\ passed'[d] = n - 1 /\ upstreams'[d] = plan[n].up
          /\ blocked'[d] = {} /\ adding'[d] = {}
      BY <1>1, <1>4, <2>1
    <3>2. d \in plan[n].down /\ d \notin plan[n - 1].down
      BY <2>1 DEF new
    <3> QED BY <3>1, <3>2, <1>1, <1>3 DEF DownState
  <2>2. CASE d \notin new
    <3>1. /\ state'[d] = state[d] /\ passed'[d] = passed[d] /\ upstreams'[d] = upstreams[d]
          /\ blocked'[d] = blocked[d] /\ adding'[d] = adding[d] /\ plan' = plan
      BY <1>1, <2>2
    <3>2. DownState(d) /\ issued.down = n - 1 /\ issued.down \in 1..Len(plan)
      BY DEF n
    <3>3. CASE state[d] = "none"
      <4>1. d \notin plan[n - 1].down
        BY <3>2, <3>3 DEF DownState
      <4>2. d \notin plan[n].down
        BY <4>1, <2>2 DEF new
      <4> QED BY <3>1, <3>2, <3>3, <4>2, <1>3 DEF DownState
    <3>4. CASE state[d] # "none"
      BY <3>1, <3>2, <3>4, <1>3 DEF DownState
    <3> QED BY <3>3, <3>4
  <2> QED BY <2>1, <2>2
<1>8. ASSUME NEW u \in Up, NEW d \in Down PROVE Channel(u, d)'
  <2>1. passed'[u] = passed[u] /\ plan' = plan /\ chan' = chan
    BY <1>1, <1>2
  <2>2. CASE d \notin new
    BY <1>1, <2>1, <2>2, ChannelFrame
  <2>3. CASE d \in new
    <3>1. Read(d, u) = 0 /\ Read(d, u)' = n - 1
      BY <1>1, <1>4, <2>3 DEF Read
    <3>3. \A m \in 1..Len(plan) : Reads(plan, u, d, m) => ~(m <= n - 1)
      BY <2>3, <1>1, ReadsOfNew DEF new
    <3>4. Content(plan, chan[u][d], passed[u], 0, u, d)
      BY <3>1 DEF Channel
    <3>5. n - 1 \in 0..Len(plan)
      BY <1>1
    <3>6. Content(plan, chan[u][d], passed[u], n - 1, u, d)
      BY <3>3, <3>4, <3>5, ContentQuiet
    <3> QED BY <3>6, <3>1, <2>1 DEF Channel
  <2> QED BY <2>2, <2>3
<1> QED BY <1>5, <1>6, <1>7, <1>8 DEF IInv

-----------------------------------------------------------------------------
\* Dispatch

\* An actor that has started has the configuration of its epoch.
LEMMA StartedState ==
  ASSUME IInv, NEW u \in Up, Started(u)
  PROVE  /\ passed[u] \in 1..Len(plan) /\ u \in plan[passed[u]].up
         /\ outputs[u] = plan[passed[u]].down /\ hashMapping[u] = plan[passed[u]].map
  BY BasicTypes DEF Started, UpState

LEMMA DispatchRowIInv ==
  ASSUME IInv, NEW u \in Up, NEW v \in VNode, DispatchRow(u, v)
  PROVE  IInv'
<1> USE BasicTypes
<1> DEFINE s == passed[u]
           D == {hashMapping[u][v]} \cap outputs[u]
<1>1. /\ Broadcast(u, D, Row(v, s))
      /\ UNCHANGED <<plan, issued, state, passed, outputs, hashMapping, upstreams, blocked, adding>>
  BY DEF DispatchRow, upVars, downVars
<1>2. /\ s \in 1..Len(plan) /\ u \in plan[s].up /\ outputs[u] = plan[s].down
      /\ hashMapping[u] = plan[s].map
  BY StartedState DEF DispatchRow
<1>3. Types /\ Row(v, s) \in Msg
  BY <1>2, MsgKinds DEF IInv
<1>4. /\ chan' \in [Up -> [Down -> Seq(Msg)]]
      /\ \A x \in Up, d \in Down :
           chan'[x][d] = IF x = u /\ d \in D THEN Append(chan[x][d], Row(v, s)) ELSE chan[x][d]
  BY <1>1, <1>3, BroadcastChan
<1>5. Types'
  BY <1>1, <1>3, <1>4 DEF Types
<1>6. ASSUME NEW x \in Up PROVE UpState(x)'
  BY <1>1, UpFrame
<1>7. ASSUME NEW d \in Down PROVE DownState(d)'
  BY <1>1, DownFrame
<1>8. ASSUME NEW x \in Up, NEW d \in Down PROVE Channel(x, d)'
  <2>1. CASE ~(x = u /\ d \in D)
    BY <2>1, <1>1, <1>4, ChannelFrame
  <2>2. CASE x = u /\ d \in D
    <3>1. Read(d, x)' = Read(d, x)
      BY <1>1 DEF Read
    <3>2. Linked(plan, u, d, s) /\ plan[s].map[v] = d
      BY <2>2, <1>2 DEF Linked
    <3>3. Content(plan, chan[u][d], s, Read(d, u), u, d) /\ Read(d, u) \in 0..Len(plan)
      BY ReadBounds DEF Channel
    <3>4. Content(plan, Append(chan[u][d], Row(v, s)), s, Read(d, u), u, d)
      BY <3>2, <3>3, <1>2, ContentRow
    <3> QED BY <3>1, <3>4, <2>2, <1>1, <1>4 DEF Channel
  <2> QED BY <2>1, <2>2
<1> QED BY <1>5, <1>6, <1>7, <1>8 DEF IInv

LEMMA DispatchWatermarkIInv ==
  ASSUME IInv, NEW u \in Up, NEW w \in Nat, DispatchWatermark(u, w)
  PROVE  IInv'
<1> USE BasicTypes
<1> DEFINE s == passed[u]
           D == outputs[u]
<1>1. /\ Broadcast(u, D, Watermark(w))
      /\ UNCHANGED <<plan, issued, state, passed, outputs, hashMapping, upstreams, blocked, adding>>
  BY DEF DispatchWatermark, downVars
<1>2. s \in 1..Len(plan) /\ u \in plan[s].up /\ outputs[u] = plan[s].down
  BY StartedState DEF DispatchWatermark
<1>3. Types /\ Watermark(w) \in Msg
  BY MsgKinds DEF IInv
<1>4. /\ chan' \in [Up -> [Down -> Seq(Msg)]]
      /\ \A x \in Up, d \in Down :
           chan'[x][d] = IF x = u /\ d \in D THEN Append(chan[x][d], Watermark(w)) ELSE chan[x][d]
  BY <1>1, <1>3, BroadcastChan
<1>5. Types'
  BY <1>1, <1>3, <1>4 DEF Types
<1>6. ASSUME NEW x \in Up PROVE UpState(x)'
  BY <1>1, UpFrame
<1>7. ASSUME NEW d \in Down PROVE DownState(d)'
  BY <1>1, DownFrame
<1>8. ASSUME NEW x \in Up, NEW d \in Down PROVE Channel(x, d)'
  <2>1. CASE ~(x = u /\ d \in D)
    BY <2>1, <1>1, <1>4, ChannelFrame
  <2>2. CASE x = u /\ d \in D
    <3>1. Read(d, x)' = Read(d, x)
      BY <1>1 DEF Read
    <3>2. Linked(plan, u, d, s)
      BY <2>2, <1>2 DEF Linked
    <3>3. Content(plan, chan[u][d], s, Read(d, u), u, d) /\ Read(d, u) \in Nat
      BY ReadBounds DEF Channel
    <3>4. Content(plan, Append(chan[u][d], Watermark(w)), s, Read(d, u), u, d)
      BY <3>2, <3>3, <1>2, ContentWatermark
    <3> QED BY <3>1, <3>4, <2>2, <1>1, <1>4 DEF Channel
  <2> QED BY <2>1, <2>2
<1> QED BY <1>5, <1>6, <1>7, <1>8 DEF IInv

\* Where a barrier goes, and what the dispatcher is afterwards.
LEMMA DispatcherAfter ==
  ASSUME IInv, NEW u \in Up, state[u] = "running", passed[u] < issued.up,
         NEW n, n = passed[u] + 1, NEW outs, outs = PreMutateDispatchers(u, n)
  PROVE  /\ n \in 2..Len(plan)
         /\ u \in plan[n - 1].up \/ u \in plan[n].up
         /\ \A d \in Down : d \in outs => Sends(plan, u, d, n)
         /\ \A d \in Down : Reads(plan, u, d, n) => d \in outs
         /\ PostMutateDispatchers(u, n, outs) = plan[n].down
         /\ PostUpdateMapping(u, n) = plan[n].map
<1>1. /\ n \in 2..Len(plan) /\ n - 1 = passed[u] /\ UpState(u) /\ passed[u] \in 1..issued.up
  BY BasicTypes DEF UpState
<1>2. CASE u \in plan[n - 1].up
  <2>1. outputs[u] = plan[n - 1].down /\ hashMapping[u] = plan[n - 1].map
    BY <1>1, <1>2 DEF UpState
  <2>2. outs = plan[n - 1].down \cup plan[n].down
    BY <2>1, <1>2 DEF PreMutateDispatchers, DispatcherUpdates, Added
  <2>3. PostMutateDispatchers(u, n, outs) = plan[n].down
    BY <2>2 DEF PostMutateDispatchers, Removed
  <2>4. PostUpdateMapping(u, n) = plan[n].map
    BY <2>1, <1>2 DEF PostUpdateMapping, DispatcherUpdates
  <2> QED BY <1>1, <1>2, <2>2, <2>3, <2>4 DEF Sends, Reads, Linked
<1>3. CASE u \notin plan[n - 1].up
  <2>1. u \in plan[n].up /\ outputs[u] = plan[n].down /\ hashMapping[u] = plan[n].map
    BY <1>1, <1>3 DEF UpState
  <2>2. u \notin DispatcherUpdates(n)
    BY <1>3 DEF DispatcherUpdates
  <2>3. outs = plan[n].down
    BY <2>1, <2>2 DEF PreMutateDispatchers
  <2>4. PostMutateDispatchers(u, n, outs) = plan[n].down
    BY <2>3 DEF PostMutateDispatchers, Removed
  <2>5. PostUpdateMapping(u, n) = plan[n].map
    BY <2>1, <2>2 DEF PostUpdateMapping
  <2> QED BY <1>1, <1>3, <2>1, <2>3, <2>4, <2>5 DEF Sends, Reads, Linked
<1> QED BY <1>2, <1>3

LEMMA DispatchBarrierIInv ==
  ASSUME IInv, NEW u \in Up, DispatchBarrier(u)
  PROVE  IInv'
<1> USE BasicTypes
<1> DEFINE s == passed[u]
           n == passed[u] + 1
           outs == PreMutateDispatchers(u, n)
<1> Up \cap Down = {} /\ s \in Nat
  BY RescheduleAssumption
<1>1. /\ state[u] = "running" /\ n <= issued.up
      /\ Broadcast(u, outs, Barrier(n))
      /\ outputs' = [outputs EXCEPT ![u] = PostMutateDispatchers(u, n, outs)]
      /\ hashMapping' = [hashMapping EXCEPT ![u] = PostUpdateMapping(u, n)]
      /\ passed' = [passed EXCEPT ![u] = n]
      /\ state' = [state EXCEPT ![u] = IF u \in Dropped(n) THEN "exited" ELSE @]
      /\ UNCHANGED <<plan, issued, upstreams, blocked, adding>>
  BY DEF DispatchBarrier, downVars
<1>2. /\ n \in 2..Len(plan)
      /\ u \in plan[n - 1].up \/ u \in plan[n].up
      /\ \A d \in Down : d \in outs => Sends(plan, u, d, n)
      /\ \A d \in Down : Reads(plan, u, d, n) => d \in outs
      /\ PostMutateDispatchers(u, n, outs) = plan[n].down
      /\ PostUpdateMapping(u, n) = plan[n].map
  BY <1>1, DispatcherAfter
<1> HIDE DEF n, outs
<1>3. u \in Dropped(n) <=> u \notin plan[n].up
  <2>1. u \notin Removed(n, "down")
    BY <1>2, PlanFields DEF Removed
  <2> QED BY <2>1, <1>2 DEF Dropped, Removed
<1>4. Types /\ Barrier(n) \in Msg /\ plan[n].down \subseteq Down /\ plan[n].map \in [VNode -> Down]
  BY <1>2, MsgKinds, PlanFields DEF IInv
<1>5. /\ chan' \in [Up -> [Down -> Seq(Msg)]]
      /\ \A x \in Up, d \in Down :
           chan'[x][d] = IF x = u /\ d \in outs THEN Append(chan[x][d], Barrier(n)) ELSE chan[x][d]
  BY <1>1, <1>4, BroadcastChan
<1>6. Types'
  <2>1. /\ state' \in [Up \cup Down -> {"none", "running", "exited"}]
        /\ passed' \in [Up \cup Down -> 0..Len(plan)]
    BY <1>1, <1>2, <1>4, SMTT(30) DEF Types
  <2>2. outputs' \in [Up -> SUBSET Down] /\ hashMapping' \in [Up -> [VNode -> Down]]
    BY <1>1, <1>2, <1>4 DEF Types
  <2> QED BY <2>1, <2>2, <1>1, <1>4, <1>5 DEF Types
<1>7. /\ state'[u] = IF u \in plan[n].up THEN "running" ELSE "exited"
      /\ passed'[u] = n /\ outputs'[u] = plan[n].down /\ hashMapping'[u] = plan[n].map
  BY <1>1, <1>2, <1>3, <1>4 DEF Types
<1>8. \A a \in Up \cup Down : a # u => state'[a] = state[a] /\ passed'[a] = passed[a]
  BY <1>1, <1>4 DEF Types
<1>9. ASSUME NEW x \in Up PROVE UpState(x)'
  <2>1. CASE x = u
    <3>1. issued' = issued /\ plan' = plan /\ n \in 2..issued.up
      BY <1>1, <1>2
    <3> QED BY <2>1, <3>1, <1>2, <1>7 DEF UpState
  <2>2. CASE x # u
    <3>1. outputs'[x] = outputs[x] /\ hashMapping'[x] = hashMapping[x]
      BY <2>2, <1>1, <1>4 DEF Types
    <3> QED BY <2>2, <3>1, <1>1, <1>8, UpFrame
  <2> QED BY <2>1, <2>2
<1>10. ASSUME NEW d \in Down PROVE DownState(d)'
  BY <1>1, <1>8, DownFrame
<1>11. ASSUME NEW x \in Up, NEW d \in Down PROVE Channel(x, d)'
  <2>1. d # u /\ passed'[d] = passed[d]
    BY <1>8
  <2>2. CASE x # u
    BY <2>1, <2>2, <1>1, <1>5, <1>8, ChannelFrame
  <2>3. CASE x = u
    <3>1. Read(d, x)' = Read(d, x) /\ Read(d, x) \in 0..Len(plan) /\ Read(d, x) \in Nat
      BY <2>1, <1>1, ReadBounds DEF Read
    <3>2. Content(plan, chan[u][d], s, Read(d, u), u, d) /\ chan[u][d] \in Seq(Msg)
      BY DEF Channel
    <3>3. n = s + 1 /\ s >= 1 /\ s + 1 <= Len(plan) /\ s + 1 \in 0..Len(plan)
      BY <1>2 DEF n
    <3>4. CASE d \in outs
      <4>1. Content(plan, Append(chan[u][d], Barrier(s + 1)), s + 1, Read(d, u), u, d)
        BY <2>3, <3>1, <3>2, <3>3, <3>4, <1>2, ContentBarrier
      <4> QED BY <4>1, <2>3, <3>1, <3>3, <3>4, <1>1, <1>5, <1>7 DEF Channel
    <3>5. CASE d \notin outs
      <4>1. \A m \in 1..Len(plan) : Reads(plan, u, d, m) => ~(s < m /\ m <= s + 1)
        BY <3>3, <3>5, <1>2
      <4>2. Content(plan, chan[u][d], s + 1, Read(d, u), u, d)
        BY <2>3, <3>1, <3>2, <3>3, <4>1, ContentQuiet
      <4> QED BY <4>2, <2>3, <3>1, <3>3, <3>5, <1>1, <1>5, <1>7 DEF Channel
    <3> QED BY <3>4, <3>5
  <2> QED BY <2>2, <2>3
<1> QED BY <1>6, <1>9, <1>10, <1>11 DEF IInv

-----------------------------------------------------------------------------
\* Merge

\* A message that is no barrier.
LEMMA ReceiveDataIInv ==
  ASSUME IInv, NEW d \in Down, NEW u \in Up, NEW type, type # "barrier", Polled(d, u, type), Receive(d, u),
         UNCHANGED <<plan, issued, state, passed, outputs, hashMapping, upstreams, blocked, adding>>
  PROVE  IInv'
<1> USE BasicTypes
<1>1. chan[u][d] # <<>> /\ Head(chan[u][d]).type # "barrier"
  BY DEF Polled
<1>2. Types
  BY DEF IInv
<1>3. /\ chan' \in [Up -> [Down -> Seq(Msg)]]
      /\ \A x \in Up, y \in Down :
           chan'[x][y] = IF x = u /\ y = d THEN Tail(chan[x][y]) ELSE chan[x][y]
  BY <1>1, <1>2, ReceiveChan
<1>4. Types'
  BY <1>2, <1>3 DEF Types
<1>5. ASSUME NEW x \in Up PROVE UpState(x)'
  BY UpFrame
<1>6. ASSUME NEW y \in Down PROVE DownState(y)'
  BY DownFrame
<1>7. ASSUME NEW x \in Up, NEW y \in Down PROVE Channel(x, y)'
  <2>1. CASE ~(x = u /\ y = d)
    BY <2>1, <1>3, ChannelFrame
  <2>2. CASE x = u /\ y = d
    <3>1. Read(d, u)' = Read(d, u) /\ Read(d, u) \in Nat
      BY ReadBounds DEF Read
    <3>2. Content(plan, chan[u][d], passed[u], Read(d, u), u, d)
      BY DEF Channel
    <3>3. Content(plan, Tail(chan[u][d]), passed[u], Read(d, u), u, d)
      BY <3>1, <3>2, <1>1, ContentTail
    <3> QED BY <3>1, <3>3, <2>2, <1>3 DEF Channel
  <2> QED BY <2>1, <2>2
<1> QED BY <1>4, <1>5, <1>6, <1>7 DEF IInv

LEMMA ReceiveBarrierIInv ==
  ASSUME IInv, NEW d \in Down, NEW u \in Up, ReceiveBarrier(d, u)
  PROVE  IInv'
<1> USE BasicTypes
<1>1. /\ state[d] = "running" /\ adding[d] = {} /\ u \in upstreams[d] /\ u \notin blocked[d]
      /\ u \in Active(d) /\ chan[u][d] # <<>> /\ Head(chan[u][d]).type = "barrier"
      /\ Receive(d, u) /\ blocked' = [blocked EXCEPT ![d] = @ \cup {u}]
      /\ UNCHANGED <<plan, issued, state, passed, outputs, hashMapping, upstreams, adding>>
  BY DEF ReceiveBarrier, Polled, Active, upVars
<1>2. Types
  BY DEF IInv
<1>3. /\ chan' \in [Up -> [Down -> Seq(Msg)]]
      /\ \A x \in Up, y \in Down :
           chan'[x][y] = IF x = u /\ y = d THEN Tail(chan[x][y]) ELSE chan[x][y]
  BY <1>1, <1>2, ReceiveChan
<1>4. /\ blocked'[d] = blocked[d] \cup {u} /\ \A y \in Down : y # d => blocked'[y] = blocked[y]
      /\ blocked' \in [Down -> SUBSET Up]
  BY <1>1, <1>2 DEF Types
<1>5. Types'
  BY <1>1, <1>2, <1>3, <1>4 DEF Types
<1>6. Head(chan[u][d]) = Barrier(passed[d] + 1) /\ passed[d] + 1 <= passed[u]
  <2>1. Content(plan, chan[u][d], passed[u], passed[d], u, d)
    BY <1>1, PolledIsLinked DEF Channel
  <2>2. PICK m \in 1..Len(plan) : Linked(plan, u, d, m)
    BY <1>1, PolledIsLinked
  <2> QED BY <2>1, <2>2, <1>1, PolledIsLinked, FirstBarrierIsNext
<1>7. ASSUME NEW x \in Up PROVE UpState(x)'
  BY <1>1, UpFrame
<1>8. ASSUME NEW y \in Down PROVE DownState(y)'
  <2>1. CASE y # d
    BY <2>1, <1>1, <1>4, DownFrame
  <2>2. CASE y = d
    <3>1. DownState(d) /\ passed[d] < Len(plan)
      BY <1>6
    <3> QED BY <2>2, <3>1, <1>1, <1>4 DEF DownState
  <2> QED BY <2>1, <2>2
<1>9. ASSUME NEW x \in Up, NEW y \in Down PROVE Channel(x, y)'
  <2>1. CASE y # d
    BY <2>1, <1>1, <1>3, <1>4, ChannelFrame
  <2>2. CASE y = d /\ x # u
    <3>1. Read(y, x)' = Read(y, x)
      BY <2>2, <1>1, <1>4 DEF Read
    <3> QED BY <3>1, <2>2, <1>1, <1>3 DEF Channel
  <2>3. CASE y = d /\ x = u
    <3>1. Read(d, u) = passed[d] /\ Read(d, u)' = passed[d] + 1
      BY <1>1, <1>4 DEF Read
    <3>2. Content(plan, chan[u][d], passed[u], passed[d], u, d)
      BY <3>1 DEF Channel
    <3>3. Content(plan, Tail(chan[u][d]), passed[u], passed[d] + 1, u, d)
      BY <3>2, <1>1, <1>6, ContentTail
    <3> QED BY <3>1, <3>3, <2>3, <1>1, <1>3 DEF Channel
  <2> QED BY <2>1, <2>2, <2>3
<1> QED BY <1>5, <1>7, <1>8, <1>9 DEF IInv

\* The upstreams of a merge after the barrier.
LEMMA MergeAfter ==
  ASSUME IInv, NEW d \in Down, state[d] = "running", passed[d] < issued.down, NEW n, n = passed[d] + 1
  PROVE  /\ n \in 2..Len(plan) /\ n - 1 = passed[d]
         /\ d \in Dropped(n) <=> d \in plan[n - 1].down /\ d \notin plan[n].down
         /\ d \in plan[n].down => UpdateUpstreams(d, n, upstreams[d]) = plan[n].up
         /\ d \in plan[n - 1].down \/ d \in plan[n].down
         /\ UpdateUpstreams(d, n, upstreams[d]) \subseteq Up
<1>1. n \in 2..Len(plan) /\ n - 1 = passed[d] /\ DownState(d) /\ n - 1 \in 1..Len(plan)
  BY BasicTypes DEF DownState
<1>2. /\ plan[n].up \subseteq Up /\ plan[n - 1].up \subseteq Up /\ upstreams[d] \subseteq Up
      /\ Up \cap Down = {}
  BY <1>1, BasicTypes, PlanFields, RescheduleAssumption DEF IInv, Types
<1>3. d \in Dropped(n) <=> d \in plan[n - 1].down /\ d \notin plan[n].down
  BY <1>2 DEF Dropped, Removed
<1>4. d \in plan[n - 1].down \/ d \in plan[n].down
  BY <1>1 DEF DownState
<1>5. UpdateUpstreams(d, n, upstreams[d]) \subseteq Up
  BY <1>2 DEF UpdateUpstreams, Added
<1>6. ASSUME d \in plan[n].down PROVE UpdateUpstreams(d, n, upstreams[d]) = plan[n].up
  <2>1. CASE d \in plan[n - 1].down
    <3>1. upstreams[d] = plan[n - 1].up
      BY <1>1, <2>1 DEF DownState
    <3>2. d \in MergeUpdates(n) <=> plan[n].up # plan[n - 1].up
      BY <1>6, <2>1 DEF MergeUpdates, Removed
    <3> QED BY <3>1, <3>2 DEF UpdateUpstreams, Added, Removed
  <2>2. CASE d \notin plan[n - 1].down
    <3>1. upstreams[d] = plan[n].up
      BY <1>1, <2>2 DEF DownState
    <3>2. d \notin MergeUpdates(n)
      BY <2>2 DEF MergeUpdates
    <3> QED BY <3>1, <3>2 DEF UpdateUpstreams
  <2> QED BY <2>1, <2>2
<1> QED BY <1>1, <1>3, <1>4, <1>5, <1>6

\* A merge waits for added upstreams if it is there before and after the barrier.
LEMMA WaitsForAdded ==
  ASSUME NEW n, NEW d
  PROVE  /\ d \in MergeUpdates(n) /\ Added(n, "up") # {} <=>
              /\ d \in plan[n - 1].down /\ d \in plan[n].down
              /\ plan[n].up \ plan[n - 1].up # {}
         /\ Added(n, "up") = plan[n].up \ plan[n - 1].up
  BY DEF MergeUpdates, Added, Removed

\* A merge that is through with a barrier is in the next epoch or exits.
LEMMA PassBarrierState ==
  ASSUME IInv, NEW d \in Down, state[d] = "running", passed[d] < issued.down, NEW n, n = passed[d] + 1,
         NEW buf, PassBarrier(d, n, buf), blocked'[d] = {}, adding'[d] = {}, UNCHANGED <<plan, issued>>
  PROVE  /\ DownState(d)' /\ passed'[d] = n
         /\ state' \in [Up \cup Down -> {"none", "running", "exited"}]
         /\ passed' \in [Up \cup Down -> 0..Len(plan)]
         /\ upstreams' \in [Down -> SUBSET Up]
         /\ \A a \in Up \cup Down : a # d => state'[a] = state[a] /\ passed'[a] = passed[a]
         /\ \A y \in Down : y # d => upstreams'[y] = upstreams[y]
<1> USE BasicTypes
<1>1. /\ n \in 2..Len(plan) /\ n \in 2..issued.down
      /\ d \in Dropped(n) <=> d \in plan[n - 1].down /\ d \notin plan[n].down
      /\ d \in plan[n].down => UpdateUpstreams(d, n, upstreams[d]) = plan[n].up
      /\ d \in plan[n - 1].down \/ d \in plan[n].down
      /\ UpdateUpstreams(d, n, upstreams[d]) \subseteq Up
  <2>1. n \in 2..issued.down
    BY DEF DownState
  <2> QED BY <2>1, MergeAfter
<1>2. /\ upstreams' = [upstreams EXCEPT ![d] = UpdateUpstreams(d, n, upstreams[d])]
      /\ passed' = [passed EXCEPT ![d] = n]
      /\ state' = [state EXCEPT ![d] = IF d \in Dropped(n) THEN "exited" ELSE "running"]
  BY DEF PassBarrier
<1>3. Types
  BY DEF IInv
<1>4. /\ state'[d] = IF d \in Dropped(n) THEN "exited" ELSE "running"
      /\ passed'[d] = n /\ upstreams'[d] = UpdateUpstreams(d, n, upstreams[d])
  BY <1>2, <1>3 DEF Types
<1>5. /\ state' \in [Up \cup Down -> {"none", "running", "exited"}]
      /\ \A a \in Up \cup Down : a # d => state'[a] = state[a]
  BY <1>2, <1>3 DEF Types
<1>6. /\ passed' \in [Up \cup Down -> 0..Len(plan)]
      /\ \A a \in Up \cup Down : a # d => passed'[a] = passed[a]
  BY <1>1, <1>2, <1>3 DEF Types
<1>7. /\ upstreams' \in [Down -> SUBSET Up]
      /\ \A y \in Down : y # d => upstreams'[y] = upstreams[y]
  BY <1>1, <1>2, <1>3 DEF Types
<1>8. DownState(d)'
  BY <1>1, <1>4 DEF DownState
<1> QED BY <1>4, <1>5, <1>6, <1>7, <1>8

\* A merge that has all barriers moves on to n for the upstreams it does not wait for.
LEMMA ReadMovesOn ==
  ASSUME IInv, NEW d \in Down, NEW u \in Up, NEW n \in 1..Len(plan), Read(d, u) \in {n - 1, n},
         Reads(plan, u, d, n) => Read(d, u) = n
  PROVE  Content(plan, chan[u][d], passed[u], n, u, d)
<1> USE BasicTypes
<1>1. Content(plan, chan[u][d], passed[u], Read(d, u), u, d)
  BY DEF Channel
<1>2. Read(d, u) \in Nat /\ Read(d, u) <= n /\ n \in 0..Len(plan)
  OBVIOUS
<1>3. \A m \in 1..Len(plan) : Reads(plan, u, d, m) => ~(Read(d, u) < m /\ m <= n)
  OBVIOUS
<1> QED BY <1>1, <1>2, <1>3, ContentQuiet

LEMMA AlignBarrierIInv ==
  ASSUME IInv, NEW d \in Down, AlignBarrier(d)
  PROVE  IInv'
<1> USE BasicTypes
<1> DEFINE n == passed[d] + 1
           waits == d \in MergeUpdates(n) /\ Added(n, "up") # {}
<1> Up \cap Down = {}
  BY RescheduleAssumption
<1>1. /\ state[d] = "running" /\ adding[d] = {} /\ Active(d) = {} /\ n <= issued.down
      /\ blocked' = [blocked EXCEPT ![d] = {}]
      /\ waits => adding' = [adding EXCEPT ![d] = Added(n, "up")] /\ UNCHANGED <<upstreams, passed, state>>
      /\ ~waits => PassBarrier(d, n, Cleared(d, n)) /\ UNCHANGED adding
      /\ UNCHANGED <<plan, issued, chan, outputs, hashMapping>>
  BY DEF AlignBarrier, upVars
<1>2. Types /\ DownState(d)
  BY DEF IInv
<1>3. /\ n \in 2..Len(plan) /\ n - 1 = passed[d] /\ passed[d] < issued.down
  BY <1>1, <1>2 DEF DownState
<1>4. blocked[d] = upstreams[d]
  BY <1>1, <1>2 DEF DownState, Active
<1>5. waits <=> /\ d \in plan[n - 1].down /\ d \in plan[n].down
                /\ plan[n].up \ plan[n - 1].up # {}
  <2> HIDE DEF n
  <2>1. waits <=> d \in MergeUpdates(n) /\ Added(n, "up") # {}
    OBVIOUS
  <2> HIDE DEF waits
  <2> QED BY <2>1, WaitsForAdded
<1>6. Added(n, "up") = plan[n].up \ plan[n - 1].up /\ plan[n].up \subseteq Up
  <2> HIDE DEF n
  <2>1. n \in 1..Len(plan)
    BY <1>3
  <2>2. plan[n].up \subseteq Up
    BY <2>1, PlanFields
  <2> QED BY <2>2 DEF Added
<1>7. /\ blocked'[d] = {} /\ blocked' \in [Down -> SUBSET Up]
      /\ \A y \in Down : y # d => blocked'[y] = blocked[y]
  BY <1>1, <1>2 DEF Types
<1> HIDE DEF n, waits
\* From the upstreams that it does not have yet to wait for it has the barrier.
<1>8. ASSUME NEW u \in Up
      PROVE  /\ Read(d, u) \in {n - 1, n}
             /\ Reads(plan, u, d, n) /\ ~(waits /\ u \in plan[n].up \ plan[n - 1].up) => Read(d, u) = n
             /\ waits /\ u \in plan[n].up \ plan[n - 1].up => Read(d, u) = n - 1
  <2>1. Read(d, u) = IF u \in upstreams[d] THEN n ELSE n - 1
    BY <1>1, <1>3, <1>4 DEF Read, n
  <2>2. CASE d \in plan[n - 1].down
    <3>1. upstreams[d] = plan[n - 1].up
      BY <2>2, <1>1, <1>2, <1>3 DEF DownState
    <3> QED BY <2>1, <2>2, <3>1, <1>5 DEF Reads, Linked
  <2>3. CASE d \notin plan[n - 1].down
    <3>1. upstreams[d] = plan[n].up
      BY <2>3, <1>1, <1>2, <1>3 DEF DownState
    <3> QED BY <2>1, <2>3, <3>1, <1>5 DEF Reads, Linked
  <2> QED BY <2>2, <2>3
<1>9. CASE waits
  <2>1. /\ adding'[d] = plan[n].up \ plan[n - 1].up /\ adding' \in [Down -> SUBSET Up]
        /\ \A y \in Down : y # d => adding'[y] = adding[y]
    <3>1. adding' = [adding EXCEPT ![d] = plan[n].up \ plan[n - 1].up]
      BY <1>1, <1>6, <1>9
    <3>2. adding \in [Down -> SUBSET Up] /\ plan[n].up \ plan[n - 1].up \subseteq Up
      BY <1>2, <1>6 DEF Types
    <3> QED BY <3>1, <3>2
  <2>2. Types'
    BY <2>1, <1>1, <1>2, <1>7, <1>9 DEF Types
  <2>3. ASSUME NEW x \in Up PROVE UpState(x)'
    BY <1>1, <1>9, UpFrame
  <2>4. ASSUME NEW y \in Down PROVE DownState(y)'
    <3>1. CASE y # d
      BY <3>1, <2>1, <1>1, <1>7, <1>9, DownFrame
    <3>2. CASE y = d
      <4>1. /\ passed[d] \in 1..issued.down /\ passed[d] < issued.down /\ passed[d] + 1 = n
            /\ d \in plan[n - 1].down /\ d \in plan[n].down /\ n - 1 = passed[d]
            /\ upstreams[d] = plan[passed[d]].up
        BY <1>1, <1>2, <1>3, <1>5, <1>9 DEF DownState, n
      <4>2. /\ plan' = plan /\ issued' = issued /\ state'[d] = "running" /\ passed'[d] = passed[d]
            /\ upstreams'[d] = upstreams[d] /\ blocked'[d] = {}
        BY <1>1, <1>7, <1>9
      <4> QED BY <3>2, <4>1, <4>2, <2>1 DEF DownState
    <3> QED BY <3>1, <3>2
  <2>5. ASSUME NEW x \in Up, NEW y \in Down PROVE Channel(x, y)'
    <3>1. CASE y # d
      BY <3>1, <2>1, <1>1, <1>7, <1>9, ChannelFrame
    <3>2. CASE y = d /\ x \in plan[n].up \ plan[n - 1].up
      <4>1. Read(d, x)' = n - 1
        BY <3>2, <2>1, <1>1, <1>3, <1>7, <1>9 DEF Read
      <4> QED BY <4>1, <3>2, <1>1, <1>8, <1>9 DEF Channel
    <3>3. CASE y = d /\ x \notin plan[n].up \ plan[n - 1].up
      <4>1. Read(d, x)' = n
        BY <3>3, <2>1, <1>1, <1>3, <1>5, <1>7, <1>9 DEF Read
      <4>2. Content(plan, chan[x][d], passed[x], n, x, d)
        BY <3>3, <1>3, <1>8, ReadMovesOn
      <4> QED BY <4>1, <4>2, <3>3, <1>1, <1>9 DEF Channel
    <3> QED BY <3>1, <3>2, <3>3
  <2> QED BY <2>2, <2>3, <2>4, <2>5 DEF IInv
<1>10. CASE ~waits
  <2>1. PassBarrier(d, n, Cleared(d, n)) /\ adding' = adding /\ adding'[d] = {} /\ UNCHANGED <<plan, issued>>
    BY <1>1, <1>10
  <2>2. /\ DownState(d)' /\ passed'[d] = n
        /\ state' \in [Up \cup Down -> {"none", "running", "exited"}]
        /\ passed' \in [Up \cup Down -> 0..Len(plan)]
        /\ upstreams' \in [Down -> SUBSET Up]
        /\ \A a \in Up \cup Down : a # d => state'[a] = state[a] /\ passed'[a] = passed[a]
        /\ \A y \in Down : y # d => upstreams'[y] = upstreams[y]
    BY <2>1, <1>1, <1>3, <1>7, PassBarrierState DEF n
  <2>3. Types'
    BY <2>1, <2>2, <1>1, <1>2, <1>7 DEF Types
  <2>4. ASSUME NEW x \in Up PROVE UpState(x)'
    <3>1. x # d
      OBVIOUS
    <3> QED BY <3>1, <2>2, <1>1, UpFrame
  <2>5. ASSUME NEW y \in Down PROVE DownState(y)'
    <3>1. CASE y # d
      BY <3>1, <2>1, <2>2, <1>1, <1>7, DownFrame
    <3> QED BY <3>1, <2>2
  <2>6. ASSUME NEW x \in Up, NEW y \in Down PROVE Channel(x, y)'
    <3>1. x # d /\ passed'[x] = passed[x]
      BY <2>2
    <3>2. CASE y # d
      BY <3>1, <3>2, <2>1, <2>2, <1>1, <1>7, ChannelFrame
    <3>3. CASE y = d
      <4>1. Read(d, x)' = n
        BY <2>1, <2>2, <1>7 DEF Read
      <4>2. Content(plan, chan[x][d], passed[x], n, x, d)
        BY <1>3, <1>8, <1>10, ReadMovesOn
      <4> QED BY <4>1, <4>2, <3>1, <3>3, <1>1 DEF Channel
    <3> QED BY <3>2, <3>3
  <2> QED BY <2>3, <2>4, <2>5, <2>6 DEF IInv
<1> QED BY <1>9, <1>10

LEMMA ReceiveFirstBarrierIInv ==
  ASSUME IInv, NEW d \in Down, NEW u \in Up, ReceiveFirstBarrier(d, u)
  PROVE  IInv'
<1> USE BasicTypes
<1> DEFINE n == passed[d] + 1
           last == adding[d] = {u}
<1> Up \cap Down = {}
  BY RescheduleAssumption
<1>1. /\ state[d] = "running" /\ u \in adding[d] /\ chan[u][d] # <<>> /\ Receive(d, u)
      /\ adding' = [adding EXCEPT ![d] = @ \ {u}]
      /\ last => PassBarrier(d, n, buffers[d])
      /\ ~last => UNCHANGED <<upstreams, passed, state>>
      /\ UNCHANGED <<plan, issued, outputs, hashMapping, blocked>>
  BY DEF ReceiveFirstBarrier, upVars
<1>2. Types /\ DownState(d)
  BY DEF IInv
<1>3. /\ blocked[d] = {} /\ passed[d] < issued.down /\ n \in 2..Len(plan)
  BY <1>1, <1>2 DEF DownState
<1>4. /\ adding'[d] = adding[d] \ {u} /\ adding' \in [Down -> SUBSET Up]
      /\ \A y \in Down : y # d => adding'[y] = adding[y]
  BY <1>1, <1>2 DEF Types
<1>5. /\ chan' \in [Up -> [Down -> Seq(Msg)]]
      /\ \A x \in Up, y \in Down :
           chan'[x][y] = IF x = u /\ y = d THEN Tail(chan[x][y]) ELSE chan[x][y]
  BY <1>1, <1>2, ReceiveChan
<1>6. Content(plan, Tail(chan[u][d]), passed[u], n, u, d)
  <2>1. Content(plan, chan[u][d], passed[u], passed[d], u, d)
    BY <1>1, PolledIsLinked DEF Channel
  <2>2. Head(chan[u][d]) = Barrier(passed[d] + 1)
    BY <2>1, <1>1, PolledIsLinked, FirstIsBarrier
  <2> QED BY <2>1, <2>2, <1>1, ContentTail
<1>7. \A x \in Up : x # u /\ x \notin adding[d] => Read(d, x) = n
  BY <1>1 DEF Read
<1> HIDE DEF n
<1>8. CASE last
  <2>1. /\ DownState(d)' /\ passed'[d] = n
        /\ state' \in [Up \cup Down -> {"none", "running", "exited"}]
        /\ passed' \in [Up \cup Down -> 0..Len(plan)]
        /\ upstreams' \in [Down -> SUBSET Up]
        /\ \A a \in Up \cup Down : a # d => state'[a] = state[a] /\ passed'[a] = passed[a]
        /\ \A y \in Down : y # d => upstreams'[y] = upstreams[y]
    <3>1. blocked'[d] = {} /\ adding'[d] = {} /\ UNCHANGED <<plan, issued>>
      BY <1>1, <1>3, <1>4, <1>8
    <3>2. PassBarrier(d, n, buffers[d])
      BY <1>1, <1>8
    <3> QED BY <3>1, <3>2, <1>1, <1>3, PassBarrierState DEF n
  <2>2. Types'
    BY <2>1, <1>1, <1>2, <1>4, <1>5 DEF Types
  <2>3. ASSUME NEW x \in Up PROVE UpState(x)'
    <3>1. x # d
      OBVIOUS
    <3> QED BY <3>1, <2>1, <1>1, UpFrame
  <2>4. ASSUME NEW y \in Down PROVE DownState(y)'
    <3>1. CASE y # d
      BY <3>1, <2>1, <1>1, <1>4, DownFrame
    <3> QED BY <3>1, <2>1
  <2>5. ASSUME NEW x \in Up, NEW y \in Down PROVE Channel(x, y)'
    <3>1. x # d /\ passed'[x] = passed[x]
      BY <2>1
    <3>2. CASE y # d
      <4>1. chan'[x][y] = chan[x][y] /\ passed'[y] = passed[y] /\ adding'[y] = adding[y]
        BY <3>2, <2>1, <1>4, <1>5
      <4>2. plan' = plan /\ blocked'[y] = blocked[y]
        BY <1>1
      <4> QED BY <3>1, <4>1, <4>2, ChannelFrame
    <3>3. CASE y = d
      <4>1. Read(d, x)' = n
        BY <2>1, <1>1, <1>3, <1>4, <1>8 DEF Read
      <4>2. CASE x = u
        BY <4>1, <4>2, <3>1, <3>3, <1>1, <1>5, <1>6 DEF Channel
      <4>3. CASE x # u
        <5>1. Content(plan, chan[x][d], passed[x], n, x, d)
          BY <4>3, <1>7, <1>8 DEF Channel
        <5> QED BY <5>1, <4>1, <4>3, <3>1, <3>3, <1>1, <1>5 DEF Channel
      <4> QED BY <4>2, <4>3
    <3> QED BY <3>2, <3>3
  <2> QED BY <2>2, <2>3, <2>4, <2>5 DEF IInv
<1>9. CASE ~last
  <2>1. UNCHANGED <<plan, issued, state, passed, outputs, hashMapping, upstreams, blocked>>
    BY <1>1, <1>9
  <2>2. Types'
    BY <2>1, <1>2, <1>4, <1>5 DEF Types
  <2>3. ASSUME NEW x \in Up PROVE UpState(x)'
    BY <2>1, UpFrame
  <2>4. ASSUME NEW y \in Down PROVE DownState(y)'
    <3>1. CASE y # d
      BY <3>1, <2>1, <1>4, DownFrame
    <3>2. CASE y = d
      <4>1. /\ passed[d] \in 1..issued.down /\ passed[d] < issued.down /\ blocked[d] = {}
            /\ d \in plan[passed[d]].down /\ d \in plan[passed[d] + 1].down
            /\ upstreams[d] = plan[passed[d]].up
            /\ adding[d] \subseteq plan[passed[d] + 1].up \ plan[passed[d]].up
        BY <1>1, <1>2 DEF DownState
      <4>2. adding'[d] \subseteq plan[passed[d] + 1].up \ plan[passed[d]].up
        BY <4>1, <1>4
      <4> QED BY <3>2, <4>1, <4>2, <2>1, <1>1 DEF DownState
    <3> QED BY <3>1, <3>2
  <2>5. ASSUME NEW x \in Up, NEW y \in Down PROVE Channel(x, y)'
    <3>1. CASE y # d
      BY <3>1, <2>1, <1>4, <1>5, ChannelFrame
    <3>2. CASE y = d /\ x # u
      <4>1. adding'[d] # {}
        BY <1>1, <1>4, <1>9
      <4>2. Read(d, x)' = Read(d, x)
        BY <4>1, <3>2, <2>1, <1>1, <1>4 DEF Read
      <4> QED BY <4>2, <3>2, <2>1, <1>5 DEF Channel
    <3>3. CASE y = d /\ x = u
      <4>1. adding'[d] # {}
        BY <1>1, <1>4, <1>9
      <4>2. Read(d, u)' = n
        BY <4>1, <2>1, <1>4 DEF Read, n
      <4> QED BY <4>2, <3>3, <2>1, <1>5, <1>6 DEF Channel
    <3> QED BY <3>1, <3>2, <3>3
  <2> QED BY <2>2, <2>3, <2>4, <2>5 DEF IInv
<1> QED BY <1>8, <1>9

-----------------------------------------------------------------------------
\* No step leaves the invariant.
LEMMA NextIInv ==
  IInv /\ [Next]_vars => IInv'
<1> SUFFICES ASSUME IInv, [Next]_vars PROVE IInv'
  OBVIOUS
<1>1. CASE NewBarrier
  BY <1>1, NewBarrierIInv
<1>2. CASE \E c \in Targets : RescheduleFragment(c)
  BY <1>2, RescheduleIInv
<1>3. CASE IssueUp
  BY <1>3, IssueUpIInv
<1>4. CASE IssueDown
  BY <1>4, IssueDownIInv
<1>5. CASE \E u \in Up, v \in VNode : DispatchRow(u, v)
  BY <1>5, DispatchRowIInv
<1>6. CASE \E u \in Up, w \in 1..MaxWatermark : DispatchWatermark(u, w)
  BY <1>6, DispatchWatermarkIInv, RescheduleAssumption
<1>7. CASE \E u \in Up : DispatchBarrier(u)
  BY <1>7, DispatchBarrierIInv
<1>8. CASE \E d \in Down : AlignBarrier(d)
  BY <1>8, AlignBarrierIInv
<1>9. ASSUME NEW d \in Down, NEW u \in Up, ReceiveRow(d, u) PROVE IInv'
  <2>1. /\ Polled(d, u, "row") /\ Receive(d, u)
        /\ UNCHANGED <<plan, issued, state, passed, outputs, hashMapping, upstreams, blocked, adding>>
    BY <1>9 DEF ReceiveRow, upVars, downVars
  <2> QED BY <2>1, ReceiveDataIInv
<1>10. ASSUME NEW d \in Down, NEW u \in Up, ReceiveWatermark(d, u) PROVE IInv'
  <2>1. /\ Polled(d, u, "watermark") /\ Receive(d, u)
        /\ UNCHANGED <<plan, issued, state, passed, outputs, hashMapping, upstreams, blocked, adding>>
    BY <1>10 DEF ReceiveWatermark, upVars
  <2> QED BY <2>1, ReceiveDataIInv
<1>11. CASE \E d \in Down, u \in Up : ReceiveBarrier(d, u)
  BY <1>11, ReceiveBarrierIInv
<1>12. CASE \E d \in Down, u \in Up : ReceiveFirstBarrier(d, u)
  BY <1>12, ReceiveFirstBarrierIInv
<1>13. CASE UNCHANGED vars
  <2>1. UNCHANGED <<plan, issued, state, passed, chan, outputs, hashMapping, upstreams, blocked, adding>>
    BY <1>13 DEF vars, upVars, downVars
  <2>2. Types'
    BY <2>1 DEF IInv, Types
  <2>3. \A u \in Up : UpState(u)'
    BY <2>1, BasicTypes, UpFrame
  <2>4. \A d \in Down : DownState(d)'
    BY <2>1, BasicTypes, DownFrame
  <2>5. \A u \in Up, d \in Down : Channel(u, d)'
    BY <2>1, BasicTypes, ChannelFrame
  <2> QED BY <2>2, <2>3, <2>4, <2>5 DEF IInv
<1> QED BY <1>1, <1>2, <1>3, <1>4, <1>5, <1>6, <1>7, <1>8, <1>9, <1>10, <1>11, <1>12, <1>13
        DEF Next, Progress

\* In every behaviour the channels between the two fragments hold exactly the barriers on
\* their way, in order, and every actor has the configuration of its epoch
\* (DispatchExecutor, MergeExecutor, the mutations of RescheduleFragment).
THEOREM IInvHolds ==
  Spec => []IInv
<1> QED BY InitIInv, NextIInv, PTL DEF Spec

\* A merge never meets a barrier of another epoch, and the first message of an added
\* upstream is the barrier that adds it, however the two workers get out of step, for any
\* fragments and any sequence of reschedules (align_barrier, expect_first_barrier).
THEOREM MergeAligned ==
  Spec => []BarriersAligned
<1> QED BY IInvHolds, AlignedFromIInv, PTL

\* No actor polls or sends to a channel whose other end is gone, so no reschedule ends in
\* ExchangeChannelClosed.
THEOREM NoClosedChannel ==
  Spec => []ChannelsOpen
<1> QED BY IInvHolds, OpenFromIInv, PTL

\* Every row is on its way to the actor that owns its vnode in the epoch of the row, which
\* has not left that epoch (dispatch_data, post_update_dispatcher).
THEOREM OwnersGetRows ==
  Spec => []RowsReachOwner
<1> QED BY IInvHolds, OwnerFromIInv, PTL

-----------------------------------------------------------------------------
(***************************************************************************)
(* Proofs about the watermarks of Reschedule: that a merge emits the       *)
(* minimum, for any actors and configurations and any number of            *)
(* reschedules and watermarks.                                             *)
(*                                                                         *)
(* Above the invariant IInv of the barriers, WInv says that the watermarks *)
(* of a channel rise above the one its merge received last, that a buffer  *)
(* holds the watermarks of its upstream above the emitted one, newest      *)
(* last, and that some buffer is empty.  The loop of check_watermark_heap  *)
(* keeps the first two; that it leaves an empty buffer needs that it ends, *)
(* which it does because each round takes one of the watermarks that were  *)
(* ever sent.  The buffers are cleared at every reschedule, also when only *)
(* the downstream fragment changes, except by an actor that the reschedule *)
(* itself adds: that one has received nothing yet (Untouched).             *)
(***************************************************************************)

\* The principle of induction, in the form that the proofs below use.
LEMMA LeastNumber ==
  ASSUME NEW T, T \subseteq Nat, T # {}
  PROVE  \E n \in T : \A m \in T : n <= m
<1> DEFINE R == OpToRel(<, Nat)
<1>1. IsWellFoundedOn(R, Nat)
  BY NatLessThanWellFounded
<1>2. PICK n \in T : \A m \in T : ~(<<m, n>> \in R)
  BY <1>1, WFMin, Zenon
<1>3. \A m \in T : ~(m < n)
  BY <1>2 DEF OpToRel
<1> HIDE DEF R
<1> QED BY <1>3

-----------------------------------------------------------------------------
\* Watermarks.

\* The buffers of a merge: for each upstream its watermarks, oldest first.
Buffered == UNION {[U -> Seq(Nat)] : U \in SUBSET Up}

WatermarkTypes ==
  /\ watermark \in [Up -> Nat] /\ watermarks \in 0..MaxWatermarks
  /\ newest \in [Down -> [Up -> Nat]] /\ emitted \in [Down -> Nat]
  /\ buffers \in [Down -> Buffered]

Rising(q) == \A k \in 1..Len(q) : \A j \in 1..(k - 1) : q[j] < q[k]

\* The watermarks from u to d rise above the one that d received last.
InOrder(q, low, high) ==
  /\ low <= high
  /\ \A k \in 1..Len(q) : q[k].type = "watermark" =>
       /\ low < q[k].value /\ q[k].value <= high
       /\ \A j \in 1..(k - 1) : q[j].type = "watermark" => q[j].value < q[k].value

\* Every buffer holds the watermarks of its upstream above the emitted one, and one of
\* the upstreams has none of them.
Buffer(q, new, out) ==
  /\ Rising(q)
  /\ q = <<>> => new = out
  /\ q # <<>> => q[Len(q)] = new /\ out < q[1]

Settled(buf, new, out) ==
  /\ \A u \in DOMAIN buf : Buffer(buf[u], new[u], out)
  /\ \E u \in DOMAIN buf : buf[u] = <<>>

\* A merge that has received no watermark since the last reschedule.
Fresh(d) ==
  /\ emitted[d] = 0 /\ newest[d] = [u \in Up |-> 0]
  /\ \A u \in DOMAIN buffers[d] : buffers[d][u] = <<>>

MergeWatermarks(d) ==
  /\ state[d] = "none" => buffers[d] = Nothing
  /\ buffers[d] = Nothing => Fresh(d)
  /\ state[d] = "running" /\ buffers[d] # Nothing =>
       /\ DOMAIN buffers[d] = upstreams[d]
       /\ Settled(buffers[d], newest[d], emitted[d])
       /\ adding[d] # {} => Fresh(d)

\* What is buffered is in S, a set of pairs of an upstream and a watermark.
Covered(S, buf) == \A u \in DOMAIN buf : \A k \in 1..Len(buf[u]) : <<u, buf[u][k]>> \in S

\* So is what is on its way.
Carried(S, q, u) == \A k \in 1..Len(q) : q[k].type = "watermark" => <<u, q[k].value>> \in S

\* No merge has more to buffer than the watermarks that were sent: the loop of
\* check_watermark_heap comes to its end within its bound.
Counted ==
  \E S : /\ IsFiniteSet(S) /\ Cardinality(S) <= watermarks
         /\ \A u \in Up, d \in Down : Carried(S, chan[u][d], u)
         /\ \A d \in Down : Covered(S, buffers[d])

\* A merge that has yet to pass the barrier that adds it has received no watermark.
Untouched ==
  \A d \in Down : state[d] = "running" /\ d \notin plan[passed[d]].down => buffers[d] = Nothing

WInv ==
  /\ WatermarkTypes
  /\ \A u \in Up, d \in Down : InOrder(chan[u][d], newest[d][u], watermark[u])
  /\ \A d \in Down : MergeWatermarks(d)
  /\ Counted

-----------------------------------------------------------------------------
\* One round of the loop of check_watermark_heap for every k.
Rounds(buf, f, N) ==
  [k \in 0..N |-> IF k = 0 THEN [buf |-> buf, out |-> 0] ELSE PopHeap(f[k - 1])]

\* The loop has a result after any number of rounds.
LEMMA RoundsExist ==
  ASSUME NEW buf, NEW N \in Nat
  PROVE  \E f : f = Rounds(buf, f, N)
<1> DEFINE T == {n \in Nat : ~ \E f : f = Rounds(buf, f, n)}
<1> SUFFICES ASSUME T # {} PROVE FALSE
  OBVIOUS
<1>1. PICK n \in T : \A m \in T : n <= m
  <2>1. T \subseteq Nat
    OBVIOUS
  <2> HIDE DEF T
  <2> QED BY <2>1, LeastNumber
<1>2. n # 0
  <2>1. CASE n = 0
    <3> DEFINE g == [k \in 0..0 |-> [buf |-> buf, out |-> 0]]
    <3>1. g = Rounds(buf, g, 0)
      BY DEF Rounds
    <3> HIDE DEF g
    <3> QED BY <3>1, <2>1, <1>1
  <2> QED BY <2>1
<1>3. n - 1 \in Nat /\ n - 1 \notin T
  BY <1>1, <1>2
<1>4. PICK f : f = Rounds(buf, f, n - 1)
  BY <1>3
<1> DEFINE g == [k \in 0..n |-> IF k = n THEN PopHeap(f[n - 1]) ELSE f[k]]
<1>5. \A k \in 0..n : g[k] = Rounds(buf, g, n)[k]
  <2> SUFFICES ASSUME NEW k \in 0..n PROVE g[k] = Rounds(buf, g, n)[k]
    OBVIOUS
  <2>1. CASE k = n
    BY <2>1, <1>2 DEF Rounds
  <2>2. CASE k # n
    <3>1. k \in 0..(n - 1) /\ g[k] = f[k]
      BY <2>2
    <3>2. k # 0 => k - 1 \in 0..n /\ k - 1 # n /\ g[k - 1] = f[k - 1]
      BY <2>2
    <3>3. f[k] = IF k = 0 THEN [buf |-> buf, out |-> 0] ELSE PopHeap(f[k - 1])
      BY <3>1, <1>4 DEF Rounds
    <3> HIDE DEF g
    <3> QED BY <3>1, <3>2, <3>3 DEF Rounds
  <2> QED BY <2>1, <2>2
<1>6. g = Rounds(buf, g, n)
  <2>1. g = [k \in 0..n |-> g[k]] /\ Rounds(buf, g, n) = [k \in 0..n |-> Rounds(buf, g, n)[k]]
    BY DEF Rounds
  <2> HIDE DEF g
  <2> QED BY <2>1, <1>5
<1> HIDE DEF g
<1> QED BY <1>1, <1>6

\* check_watermark_heap as the last of a sequence of rounds.
LEMMA HeapLoop ==
  ASSUME NEW buf
  PROVE  \E f : f = Rounds(buf, f, MaxWatermarks) /\ CheckWatermarkHeap(buf) = f[MaxWatermarks]
<1> DEFINE P(f) == f = Rounds(buf, f, MaxWatermarks)
<1>1. CheckWatermarkHeap(buf) = (CHOOSE f : P(f))[MaxWatermarks]
  BY DEF CheckWatermarkHeap, Rounds
<1>2. \E f : P(f)
  BY RoundsExist, RescheduleAssumption
<1> HIDE DEF P
<1>3. P(CHOOSE f : P(f))
  BY <1>2
<1> QED BY <1>1, <1>3 DEF P

\* A round that takes the first element of the buffer of id away.
Pops(U, buf, out, s, id) ==
  /\ buf[id] # <<>>
  /\ PopHeap(s) = [buf |-> [buf EXCEPT ![id] = Tail(@)], out |-> buf[id][1]]
  /\ \A u \in U : buf[u] # <<>> => buf[id][1] <= buf[u][1]
  /\ (\A u \in U : buf[u] # <<>>) \/ out = buf[id][1]

\* The loop ends.
Stops(U, buf, out, s) ==
  /\ PopHeap(s) = s
  /\ \E u \in U : buf[u] = <<>>
  /\ \A u \in U : buf[u] # <<>> =>
       \E v \in U : buf[v] # <<>> /\ buf[v][1] <= buf[u][1] /\ buf[v][1] # out

\* A round either takes the smallest first element away, and then all buffers have one or
\* it has just been emitted, or the loop ends.
LEMMA PopHeapCases ==
  ASSUME NEW U, U # {}, NEW buf \in [U -> Seq(Nat)], NEW out \in Nat,
         NEW s, s = [buf |-> buf, out |-> out]
  PROVE  Stops(U, buf, out, s) \/ \E id \in U : Pops(U, buf, out, s, id)
<1> DEFINE heap == {u \in DOMAIN s.buf : s.buf[u] # <<>>}
           firsts == {Head(s.buf[u]) : u \in heap}
           min  == Min(firsts)
           id   == CHOOSE u \in heap : Head(s.buf[u]) = min
           res == [buf |-> [s.buf EXCEPT ![id] = Tail(@)], out |-> min]
<1>0. s.buf = buf /\ s.out = out /\ DOMAIN buf = U
  OBVIOUS
<1>1. PopHeap(s) = IF heap # {} /\ (heap = DOMAIN s.buf \/ s.out = min) THEN res ELSE s
  BY DEF PopHeap
<1>2. heap = {u \in U : buf[u] # <<>>}
  BY <1>0
<1>3. \A u \in heap : Head(s.buf[u]) = buf[u][1] /\ buf[u][1] \in Nat
  BY <1>0, <1>2
<1>4. CASE heap = {}
  <2>1. PopHeap(s) = s
    BY <1>1, <1>4
  <2> HIDE DEF heap, min, id, res
  <2> QED BY <2>1, <1>2, <1>4 DEF Stops
<1>5. CASE heap # {}
  <2>1. min \in firsts /\ \A y \in firsts : min <= y
    <3>1. firsts \subseteq Nat /\ firsts # {}
      <4> HIDE DEF heap
      <4> QED BY <1>3, <1>5
    <3> HIDE DEF firsts
    <3>2. \E x \in firsts : \A y \in firsts : x <= y
      BY <3>1, LeastNumber
    <3> QED BY <3>2 DEF Min
  <2>2. \E u \in heap : Head(s.buf[u]) = min
    <3> HIDE DEF heap, min
    <3> QED BY <2>1 DEF firsts
  <2>3. id \in heap /\ Head(s.buf[id]) = min
    <3> HIDE DEF heap, min
    <3> QED BY <2>2
  <2>4. \A u \in heap : min <= buf[u][1]
    <3>1. \A u \in heap : Head(s.buf[u]) \in firsts
      OBVIOUS
    <3> HIDE DEF heap, min, firsts
    <3> QED BY <3>1, <2>1, <1>3
  <2>5. min = buf[id][1] /\ id \in U /\ buf[id] # <<>>
    <3> HIDE DEF heap, min, firsts, id
    <3> QED BY <2>3, <1>2, <1>3
  <2>6. res = [buf |-> [buf EXCEPT ![id] = Tail(@)], out |-> buf[id][1]]
    <3> HIDE DEF heap, min, firsts, id
    <3> QED BY <2>5, <1>0
  <2> HIDE DEF heap, min, firsts, id, res
  <2>7. CASE heap = U \/ out = min
    <3>1. PopHeap(s) = res
      BY <2>7, <1>1, <1>5, <1>0
    <3> QED BY <3>1, <2>5, <2>6, <2>4, <1>2, <2>7 DEF Pops
  <2>8. CASE heap # U /\ out # min
    <3>1. PopHeap(s) = s
      BY <2>8, <1>1, <1>0
    <3>2. \E u \in U : buf[u] = <<>>
      BY <2>8, <1>2
    <3>3. \A u \in U : buf[u] # <<>> => buf[id][1] <= buf[u][1] /\ buf[id][1] # out
      BY <2>4, <2>5, <2>8, <1>2
    <3> QED BY <3>1, <3>2, <3>3, <2>5 DEF Stops
  <2> QED BY <2>7, <2>8
<1> QED BY <1>4, <1>5

-----------------------------------------------------------------------------
\* A buffer in the middle of the loop, which has emitted out and before it last.
Draining(q, new, last, out) ==
  /\ Rising(q)
  /\ q = <<>> => new = IF out = 0 THEN last ELSE out
  /\ q # <<>> => q[Len(q)] = new /\ last < q[1] /\ out <= q[1]

Drained(U, s, new, last) ==
  \E buf \in [U -> Seq(Nat)], out \in Nat :
    /\ s = [buf |-> buf, out |-> out]
    /\ out = 0 \/ last < out
    /\ \A u \in U : Draining(buf[u], new[u], last, out)

\* A sequence is empty or has a first element.
LEMMA EmptyOrFirst ==
  ASSUME NEW S, NEW q \in Seq(S)
  PROVE  /\ Len(q) \in Nat /\ (q = <<>> <=> Len(q) = 0)
         /\ \A k \in 1..Len(q) : q[k] \in S
         /\ q # <<>> => q[1] \in S /\ q[Len(q)] \in S
  OBVIOUS

\* Without its first element a rising buffer rises, ends as before and is above it.
LEMMA RisingTail ==
  ASSUME NEW q \in Seq(Nat), q # <<>>, Rising(q)
  PROVE  /\ Tail(q) \in Seq(Nat) /\ Rising(Tail(q))
         /\ \A k \in 1..Len(Tail(q)) : Tail(q)[k] = q[k + 1] /\ k + 1 \in 1..Len(q) /\ q[1] < q[k + 1]
         /\ Tail(q) = <<>> => q[1] = q[Len(q)]
         /\ Tail(q) # <<>> => Tail(q)[Len(Tail(q))] = q[Len(q)] /\ q[1] < Tail(q)[1]
         /\ q[1] \in Nat /\ q[1] <= q[Len(q)]
<1>1. /\ Tail(q) \in Seq(Nat) /\ Len(Tail(q)) = Len(q) - 1 /\ Len(q) \in Nat /\ Len(q) > 0
      /\ \A k \in 1..Len(Tail(q)) : Tail(q)[k] = q[k + 1] /\ k + 1 \in 1..Len(q)
      /\ \A k \in 1..Len(q) : q[k] \in Nat
  OBVIOUS
<1>2. \A k \in 2..Len(q) : q[1] < q[k]
  BY <1>1 DEF Rising
<1>3. Rising(Tail(q))
  BY <1>1 DEF Rising
<1>4. Tail(q) = <<>> <=> Len(q) = 1
  <2> DEFINE t == Tail(q)
  <2>1. t \in Seq(Nat) /\ Len(t) = Len(q) - 1
    BY <1>1
  <2> HIDE DEF t
  <2>2. t = <<>> <=> Len(t) = 0
    BY <2>1, EmptyOrFirst
  <2>3. t = <<>> <=> Len(q) = 1
    BY <2>1, <2>2, <1>1
  <2> QED BY <2>3 DEF t
<1>5. ASSUME Tail(q) # <<>>
      PROVE  Tail(q)[Len(Tail(q))] = q[Len(q)] /\ q[1] < Tail(q)[1]
  <2>1. Len(Tail(q)) \in 1..Len(Tail(q)) /\ 1 \in 1..Len(Tail(q))
    BY <1>5, <1>1, <1>4
  <2>2. Tail(q)[Len(Tail(q))] = q[Len(q)] /\ Tail(q)[1] = q[2] /\ 2 \in 2..Len(q)
    BY <2>1, <1>1
  <2> QED BY <2>2, <1>2
<1>6. q[1] <= q[Len(q)]
  BY <1>1, <1>2
<1>7. \A k \in 1..Len(Tail(q)) : q[1] < q[k + 1]
  BY <1>1, <1>2
<1>8. q[1] \in Nat /\ (Tail(q) = <<>> => q[1] = q[Len(q)])
  BY <1>1, <1>4
<1> QED BY <1>1, <1>3, <1>5, <1>6, <1>7, <1>8, Zenon

\* A round keeps the buffers drained.
LEMMA PopHeapDrained ==
  ASSUME NEW U, U # {}, NEW s, NEW new \in [U -> Nat], NEW last \in Nat,
         Drained(U, s, new, last)
  PROVE  Drained(U, PopHeap(s), new, last)
<1>1. PICK buf \in [U -> Seq(Nat)], out \in Nat :
        /\ s = [buf |-> buf, out |-> out]
        /\ out = 0 \/ last < out
        /\ \A u \in U : Draining(buf[u], new[u], last, out)
  BY DEF Drained
<1>2. CASE PopHeap(s) = s
  BY <1>2
<1>3. CASE \E id \in U : Pops(U, buf, out, s, id)
  <2>1. PICK id \in U : Pops(U, buf, out, s, id)
    BY <1>3
  <2> DEFINE buf2 == [buf EXCEPT ![id] = Tail(@)]
             min == buf[id][1]
  <2>2. buf[id] \in Seq(Nat) /\ Rising(buf[id]) /\ buf[id][Len(buf[id])] = new[id] /\ last < min
    BY <1>1, <2>1 DEF Draining, Pops
  <2>3. /\ Tail(buf[id]) \in Seq(Nat) /\ Rising(Tail(buf[id]))
        /\ Tail(buf[id]) = <<>> => min = new[id]
        /\ Tail(buf[id]) # <<>> =>
             Tail(buf[id])[Len(Tail(buf[id]))] = new[id] /\ min < Tail(buf[id])[1]
        /\ min \in Nat
    BY <2>1, <2>2, RisingTail DEF Pops
  <2>4. buf2 \in [U -> Seq(Nat)] /\ buf2[id] = Tail(buf[id]) /\ \A u \in U \ {id} : buf2[u] = buf[u]
    BY <2>3
  <2> HIDE DEF buf2, min
  <2>5. min > 0 /\ (min = 0 \/ last < min)
    BY <2>2, <2>3
  <2>6. ASSUME NEW u \in U PROVE Draining(buf2[u], new[u], last, min)
    <3>1. CASE u = id
      <4> DEFINE q == Tail(buf[id])
      <4>1. q # <<>> => q[1] \in Nat
        BY <2>3, EmptyOrFirst
      <4>2. /\ Rising(q) /\ (q = <<>> => min = new[id])
            /\ q # <<>> => q[Len(q)] = new[id] /\ min < q[1]
        BY <2>3
      <4>3. buf2[u] = q
        BY <3>1, <2>4
      <4> HIDE DEF q
      <4> QED BY <3>1, <4>1, <4>2, <4>3, <2>2, <2>3, <2>5 DEF Draining
    <3>2. CASE u # id
      <4>1. buf2[u] = buf[u] /\ Draining(buf[u], new[u], last, out) /\ buf[u] \in Seq(Nat)
        BY <3>2, <2>4, <1>1
      <4>2. CASE buf[u] = <<>>
        <5>1. out = min
          BY <4>2, <2>1 DEF min, Pops
        <5> QED BY <5>1, <4>1
      <4>3. CASE buf[u] # <<>>
        <5>1. min <= buf[u][1]
          BY <4>3, <2>1 DEF min, Pops
        <5> QED BY <5>1, <4>1, <4>3 DEF Draining
      <4> QED BY <4>2, <4>3
    <3> QED BY <3>1, <3>2
  <2>7. PopHeap(s) = [buf |-> buf2, out |-> min]
    BY <2>1 DEF buf2, min, Pops
  <2> QED BY <2>3, <2>4, <2>5, <2>6, <2>7 DEF Drained
<1>4. Stops(U, buf, out, s) \/ \E id \in U : Pops(U, buf, out, s, id)
  BY <1>1, PopHeapCases
<1> QED BY <1>2, <1>3, <1>4 DEF Stops

\* When the loop ends, what is buffered is above the emitted watermark.
LEMMA DrainedSettles ==
  ASSUME NEW U, U # {}, NEW s, NEW new \in [U -> Nat], NEW last \in Nat,
         Drained(U, s, new, last), NEW buf \in [U -> Seq(Nat)], NEW out \in Nat,
         s = [buf |-> buf, out |-> out], Stops(U, buf, out, s)
  PROVE  Settled(buf, new, IF out = 0 THEN last ELSE out)
<1>1. PICK buf2 \in [U -> Seq(Nat)], out2 \in Nat :
        /\ s = [buf |-> buf2, out |-> out2]
        /\ \A u \in U : Draining(buf2[u], new[u], last, out2)
  BY DEF Drained
<1>2. s.buf = buf /\ s.buf = buf2 /\ s.out = out /\ s.out = out2
  BY <1>1
<1>3. \A u \in U : Draining(buf[u], new[u], last, out)
  BY <1>1, <1>2
<1>4. ASSUME NEW u \in U
      PROVE  Buffer(buf[u], new[u], IF out = 0 THEN last ELSE out)
  <2>1. CASE buf[u] = <<>>
    BY <2>1, <1>3 DEF Draining, Buffer
  <2>2. CASE buf[u] # <<>>
    <3>1. PICK v \in U : buf[v] # <<>> /\ buf[v][1] <= buf[u][1] /\ buf[v][1] # out
      BY <2>2 DEF Stops
    <3>2. buf[u][1] \in Nat /\ buf[v][1] \in Nat
      BY <3>1, <2>2, EmptyOrFirst
    <3>3. out <= buf[v][1] /\ last < buf[u][1]
      BY <3>1, <2>2, <1>3 DEF Draining
    <3>4. out < buf[u][1]
      <4> DEFINE x == buf[u][1]
                 y == buf[v][1]
      <4>1. x \in Nat /\ y \in Nat /\ out <= y /\ y <= x /\ y # out
        BY <3>1, <3>2, <3>3
      <4> HIDE DEF x, y
      <4>2. out < x
        BY <4>1
      <4> QED BY <4>2 DEF x
    <3>5. Rising(buf[u]) /\ buf[u][Len(buf[u])] = new[u]
      BY <2>2, <1>3 DEF Draining
    <3> QED BY <3>3, <3>4, <3>5, <2>2 DEF Buffer
  <2> QED BY <2>1, <2>2
<1> QED BY <1>4 DEF Settled, Stops

-----------------------------------------------------------------------------
\* The part of S that is buffered.
Contents(S, buf) ==
  {x \in S : x[1] \in DOMAIN buf /\ \E k \in 1..Len(buf[x[1]]) : buf[x[1]][k] = x[2]}

\* A round that takes an element away leaves one less.
LEMMA PopsContents ==
  ASSUME NEW U, NEW buf \in [U -> Seq(Nat)], NEW id \in U, buf[id] # <<>>, Rising(buf[id]),
         NEW S, Covered(S, buf), NEW buf2 \in [U -> Seq(Nat)], buf2[id] = Tail(buf[id]),
         \A u \in U \ {id} : buf2[u] = buf[u]
  PROVE  /\ Covered(S, buf2)
         /\ <<id, buf[id][1]>> \in Contents(S, buf)
         /\ Contents(S, buf2) \subseteq Contents(S, buf) \ {<<id, buf[id][1]>>}
<1> DEFINE q == buf[id]
<1>1. q \in Seq(Nat) /\ 1 \in 1..Len(q)
  BY EmptyOrFirst
<1>2. /\ Tail(q) \in Seq(Nat)
      /\ \A k \in 1..Len(Tail(q)) : Tail(q)[k] = q[k + 1] /\ k + 1 \in 1..Len(q) /\ q[1] < q[k + 1]
  BY <1>1, RisingTail
<1>3. DOMAIN buf2 = U /\ buf2[id] = Tail(q) /\ \A u \in U \ {id} : buf2[u] = buf[u]
  OBVIOUS
<1>4. DOMAIN buf = U
  OBVIOUS
<1>5. ASSUME NEW u \in U, NEW k \in 1..Len(buf2[u])
      PROVE  /\ \E j \in 1..Len(buf[u]) : buf[u][j] = buf2[u][k]
             /\ ~(u = id /\ buf2[u][k] = buf[id][1])
  <2>1. CASE u = id
    <3>1. k \in 1..Len(Tail(q)) /\ buf2[u][k] = q[k + 1]
      BY <2>1, <1>2, <1>3
    <3>2. k + 1 \in 1..Len(q) /\ q[1] < q[k + 1] /\ q[1] \in Nat /\ q[k + 1] \in Nat
      BY <3>1, <1>1, <1>2, EmptyOrFirst
    <3>3. q[1] # q[k + 1]
      <4> HIDE DEF q
      <4> QED BY <3>2
    <3> QED BY <3>1, <3>2, <3>3, <2>1
  <2>2. CASE u # id
    <3>1. buf2[u] = buf[u]
      BY <2>2, <1>3
    <3> QED BY <3>1, <2>2
  <2> QED BY <2>1, <2>2
<1>6. Covered(S, buf2)
  BY <1>3, <1>4, <1>5 DEF Covered
<1>7. <<id, buf[id][1]>> \in Contents(S, buf)
  BY <1>1, <1>4 DEF Covered, Contents
<1>8. ASSUME NEW x \in Contents(S, buf2)
      PROVE  x \in Contents(S, buf) /\ x # <<id, buf[id][1]>>
  <2>1. x \in S /\ x[1] \in U
    BY <1>3 DEF Contents
  <2>2. PICK k \in 1..Len(buf2[x[1]]) : buf2[x[1]][k] = x[2]
    BY DEF Contents
  <2>3. \E j \in 1..Len(buf[x[1]]) : buf[x[1]][j] = x[2]
    BY <1>5, <2>1, <2>2
  <2>4. ~(x[1] = id /\ x[2] = buf[id][1])
    <3>1. ~(x[1] = id /\ buf2[x[1]][k] = buf[id][1])
      BY <1>5, <2>1
    <3> QED BY <3>1, <2>2
  <2>5. x = <<id, buf[id][1]>> => x[1] = id /\ x[2] = buf[id][1]
    OBVIOUS
  <2> QED BY <2>1, <2>3, <2>4, <2>5, <1>4 DEF Contents
<1> QED BY <1>6, <1>7, <1>8

\* What the loop makes of buffers to which one watermark has been added, when it takes as
\* many rounds as watermarks were ever sent.
LEMMA CheckHeap ==
  ASSUME NEW U, U # {}, NEW buf \in [U -> Seq(Nat)], NEW new \in [U -> Nat], NEW last \in Nat,
         \A u \in U : Draining(buf[u], new[u], last, 0),
         NEW S, IsFiniteSet(S), Cardinality(S) <= MaxWatermarks, Covered(S, buf)
  PROVE  \E buf2 \in [U -> Seq(Nat)], out \in Nat :
           /\ CheckWatermarkHeap(buf) = [buf |-> buf2, out |-> out]
           /\ Covered(S, buf2)
           /\ Settled(buf2, new, IF out = 0 THEN last ELSE out)
<1> MaxWatermarks \in Nat
  BY RescheduleAssumption
<1>1. PICK f : f = Rounds(buf, f, MaxWatermarks) /\ CheckWatermarkHeap(buf) = f[MaxWatermarks]
  BY HeapLoop
<1>2. f[0] = [buf |-> buf, out |-> 0]
  BY <1>1 DEF Rounds
<1>3. \A k \in 0..MaxWatermarks : k # 0 => k - 1 \in 0..MaxWatermarks /\ f[k] = PopHeap(f[k - 1])
  BY <1>1 DEF Rounds
<1> DEFINE Good(k) == /\ Drained(U, f[k], new, last) /\ Covered(S, f[k].buf)
                      /\ \/ PopHeap(f[k]) = f[k]
                         \/ Cardinality(Contents(S, f[k].buf)) + k <= MaxWatermarks
<1>4. \A s \in SUBSET S : IsFiniteSet(s) /\ Cardinality(s) \in Nat
  BY FS_Subset, FS_CardinalityType
<1>5. \A b : Contents(S, b) \in SUBSET S
  BY DEF Contents
<1>6. Good(0)
  <2>1. Drained(U, f[0], new, last)
    <3>1. 0 = 0 \/ last < 0
      OBVIOUS
    <3> QED BY <1>2, <3>1 DEF Drained
  <2>2. f[0].buf = buf
    BY <1>2
  <2>3. Cardinality(Contents(S, buf)) <= Cardinality(S)
    BY <1>5, FS_Subset
  <2>4. Cardinality(Contents(S, buf)) \in Nat /\ Cardinality(S) \in Nat
    BY <1>4, <1>5
  <2>5. Cardinality(Contents(S, buf)) + 0 <= MaxWatermarks
    BY <2>3, <2>4
  <2> QED BY <2>1, <2>2, <2>5
<1>7. ASSUME NEW k \in 0..MaxWatermarks, k # 0, Good(k - 1)
      PROVE  Good(k)
  <2>1. f[k] = PopHeap(f[k - 1]) /\ k - 1 \in Nat
    BY <1>3, <1>7
  <2>2. Drained(U, f[k], new, last)
    BY <2>1, <1>7, PopHeapDrained
  <2>3. CASE PopHeap(f[k - 1]) = f[k - 1]
    BY <2>1, <2>2, <2>3, <1>7
  <2>4. CASE PopHeap(f[k - 1]) # f[k - 1]
    <3>1. PICK b \in [U -> Seq(Nat)], o \in Nat :
            f[k - 1] = [buf |-> b, out |-> o] /\ \A u \in U : Draining(b[u], new[u], last, o)
      BY <1>7 DEF Drained
    <3>2. PICK id \in U : Pops(U, b, o, f[k - 1], id)
      BY <3>1, <2>4, PopHeapCases DEF Stops
    <3> DEFINE b2 == [b EXCEPT ![id] = Tail(@)]
    <3>3. b[id] # <<>> /\ f[k].buf = b2
      BY <3>2, <2>1 DEF Pops
    <3>4. f[k - 1].buf = b
      BY <3>1
    <3>5. Rising(b[id])
      BY <3>1 DEF Draining
    <3>6. /\ Covered(S, b2)
          /\ <<id, b[id][1]>> \in Contents(S, b)
          /\ Contents(S, b2) \subseteq Contents(S, b) \ {<<id, b[id][1]>>}
      <4>1. Covered(S, b)
        BY <3>4, <1>7
      <4> HIDE DEF Good
      <4>2. b[id] # <<>>
        BY <3>3
      <4>3. b2 \in [U -> Seq(Nat)] /\ b2[id] = Tail(b[id]) /\ \A u \in U \ {id} : b2[u] = b[u]
        <5>1. Tail(b[id]) \in Seq(Nat)
          BY <4>2
        <5> QED BY <5>1
      <4> HIDE DEF b2
      <4> QED BY <4>1, <4>2, <4>3, <3>5, PopsContents
    <3>7. Cardinality(Contents(S, b)) + (k - 1) <= MaxWatermarks
      BY <3>4, <2>4, <1>7
    <3> HIDE DEF b2
    <3> DEFINE A == Contents(S, b)
               B == Contents(S, b2)
               x == <<id, b[id][1]>>
    <3>8. IsFiniteSet(A) /\ Cardinality(A) \in Nat /\ Cardinality(B) \in Nat
      BY <1>4, <1>5
    <3>9. x \in A /\ B \subseteq A \ {x}
      BY <3>6
    <3> HIDE DEF A, B, x
    <3>10. IsFiniteSet(A \ {x}) /\ Cardinality(A \ {x}) = Cardinality(A) - 1
      BY <3>8, <3>9, FS_RemoveElement
    <3>11. Cardinality(B) <= Cardinality(A \ {x})
      BY <3>9, <3>10, FS_Subset
    <3>12. Cardinality(B) + k <= MaxWatermarks
      BY <3>7, <3>8, <3>10, <3>11 DEF A
    <3> QED BY <2>2, <3>3, <3>6, <3>12 DEF B
  <2> QED BY <2>3, <2>4
<1>8. Good(MaxWatermarks)
  <2> DEFINE T == {k \in 0..MaxWatermarks : ~Good(k)}
  <2> HIDE DEF Good
  <2> SUFFICES ASSUME T # {} PROVE FALSE
    BY DEF T
  <2>1. PICK k \in T : \A m \in T : k <= m
    <3>1. T \subseteq Nat
      BY DEF T
    <3> HIDE DEF T
    <3> QED BY <3>1, LeastNumber
  <2>2. k # 0
    BY <2>1, <1>6
  <2>3. k - 1 \in 0..MaxWatermarks /\ Good(k - 1)
    BY <2>1, <2>2
  <2> QED BY <2>1, <2>2, <2>3, <1>7
<1> DEFINE r == CheckWatermarkHeap(buf)
<1>9. /\ Drained(U, r, new, last) /\ Covered(S, r.buf)
      /\ PopHeap(r) = r \/ Cardinality(Contents(S, r.buf)) + MaxWatermarks <= MaxWatermarks
  BY <1>1, <1>8
<1> HIDE DEF r, Good
<1>10. PICK b \in [U -> Seq(Nat)], o \in Nat :
         r = [buf |-> b, out |-> o] /\ \A u \in U : Draining(b[u], new[u], last, o)
  BY <1>9 DEF Drained
<1>11. r.buf = b
  BY <1>10
<1>12. Stops(U, b, o, r)
  <2> SUFFICES ASSUME NEW id \in U, Pops(U, b, o, r, id) PROVE FALSE
    BY <1>10, PopHeapCases
  <2>1. b[id] # <<>> /\ Rising(b[id]) /\ PopHeap(r) = [buf |-> [b EXCEPT ![id] = Tail(@)], out |-> b[id][1]]
    BY <1>10 DEF Pops, Draining
  <2>2. PopHeap(r) # r
    <3>1. b[id] \in Seq(Nat) /\ Len(Tail(b[id])) = Len(b[id]) - 1 /\ Len(b[id]) \in Nat
      BY <2>1
    <3>2. Len(Tail(b[id])) # Len(b[id])
      <4> DEFINE m == Len(b[id])
                 n == Len(Tail(b[id]))
      <4>1. m \in Nat /\ n = m - 1
        BY <3>1
      <4> HIDE DEF m, n
      <4>2. n # m
        BY <4>1
      <4> QED BY <4>2 DEF m, n
    <3>3. PopHeap(r).buf[id] = Tail(b[id]) /\ r.buf[id] = b[id]
      BY <2>1, <1>11
    <3> QED BY <3>2, <3>3
  <2>3. <<id, b[id][1]>> \in Contents(S, b)
    <3>1. b[id] \in Seq(Nat) /\ 1 \in 1..Len(b[id])
      BY <2>1, EmptyOrFirst
    <3> QED BY <3>1, <1>9, <1>11 DEF Covered, Contents
  <2>4. Contents(S, b) # {} /\ IsFiniteSet(Contents(S, b))
    BY <2>3, <1>4, <1>5
  <2>5. Cardinality(Contents(S, b)) # 0 /\ Cardinality(Contents(S, b)) \in Nat
    BY <2>4, <1>4, <1>5, FS_EmptySet
  <2> QED BY <2>2, <2>5, <1>9, <1>11
<1>13. Settled(b, new, IF o = 0 THEN last ELSE o)
  BY <1>9, <1>10, <1>12, DrainedSettles
<1> QED BY <1>9, <1>10, <1>11, <1>13 DEF r

-----------------------------------------------------------------------------
LEMMA MinIs ==
  ASSUME NEW N, N \subseteq Nat, NEW e \in N, \A x \in N : e <= x
  PROVE  Min(N) = e
<1>1. Min(N) \in N /\ \A x \in N : Min(N) <= x
  BY DEF Min
<1> DEFINE m == Min(N)
<1>2. m \in Nat /\ e \in Nat /\ m <= e /\ e <= m
  BY <1>1
<1> HIDE DEF m
<1>3. m = e
  BY <1>2
<1> QED BY <1>3 DEF m

\* What a merge has emitted is the minimum.
LEMMA MinimumFromWInv ==
  ASSUME IInv, WInv
  PROVE  WatermarkIsMinimum
<1> SUFFICES ASSUME NEW d \in Down, state[d] = "running"
             PROVE  /\ emitted[d] = Min({newest[d][u] : u \in upstreams[d]})
                    /\ buffers[d] # Nothing => DOMAIN buffers[d] = upstreams[d]
  BY DEF WatermarkIsMinimum
<1>1. upstreams[d] # {} /\ upstreams[d] \subseteq Up
  <2>1. DownState(d) /\ \E n \in 1..Len(plan) : upstreams[d] = plan[n].up
    BY BasicTypes DEF DownState
  <2>2. \A n \in 1..Len(plan) : plan[n].up # {} /\ plan[n].up \subseteq Up
    <3>1. \A n \in 1..Len(plan) : plan[n] \in Config
      BY BasicTypes DEF Plans
    <3> QED BY <3>1 DEF Config
  <2> QED BY <2>1, <2>2
<1>2. newest[d] \in [Up -> Nat] /\ emitted[d] \in Nat /\ buffers[d] \in Buffered
  BY DEF WInv, WatermarkTypes
<1>3. MergeWatermarks(d)
  BY DEF WInv
<1> DEFINE N == {newest[d][u] : u \in upstreams[d]}
<1>4. emitted[d] \in N /\ \A x \in N : emitted[d] <= x
  <2>1. CASE buffers[d] = Nothing
    <3>1. emitted[d] = 0 /\ \A u \in upstreams[d] : newest[d][u] = 0
      BY <2>1, <1>1, <1>3 DEF MergeWatermarks, Fresh
    <3> QED BY <3>1, <1>1
  <2>2. CASE buffers[d] # Nothing
    <3>1. DOMAIN buffers[d] = upstreams[d] /\ Settled(buffers[d], newest[d], emitted[d])
      BY <2>2, <1>3 DEF MergeWatermarks
    <3>2. \A u \in upstreams[d] : buffers[d][u] \in Seq(Nat) /\ Buffer(buffers[d][u], newest[d][u], emitted[d])
      BY <3>1, <1>2 DEF Settled, Buffered
    <3>3. ASSUME NEW u \in upstreams[d] PROVE emitted[d] <= newest[d][u]
      <4>1. CASE buffers[d][u] = <<>>
        BY <4>1, <3>2, <1>2 DEF Buffer
      <4>2. CASE buffers[d][u] # <<>>
        <5> DEFINE q == buffers[d][u]
        <5>1. q \in Seq(Nat) /\ q # <<>> /\ Rising(q) /\ q[Len(q)] = newest[d][u] /\ emitted[d] < q[1]
          BY <4>2, <3>2 DEF Buffer
        <5> HIDE DEF q
        <5>2. q[1] \in Nat /\ q[1] <= q[Len(q)]
          BY <5>1, RisingTail
        <5> QED BY <5>1, <5>2, <1>1, <1>2
      <4> QED BY <4>1, <4>2
    <3>4. \E u \in upstreams[d] : newest[d][u] = emitted[d]
      BY <3>1, <3>2 DEF Settled, Buffer
    <3> QED BY <3>3, <3>4
  <2> QED BY <2>1, <2>2
<1>5. N \subseteq Nat
  BY <1>1, <1>2
<1> HIDE DEF N
<1>6. emitted[d] = Min(N)
  BY <1>4, <1>5, MinIs
<1> QED BY <1>3, <1>6 DEF N, MergeWatermarks

\* The channels after a step that sends no watermark.
Quiet(u, d) ==
  \/ chan'[u][d] = chan[u][d]
  \/ chan[u][d] # <<>> /\ chan'[u][d] = Tail(chan[u][d])
  \/ \E m \in Msg : m.type # "watermark" /\ chan'[u][d] = Append(chan[u][d], m)

\* A merge receives the first message of a channel.
LEMMA InOrderTail ==
  ASSUME NEW q \in Seq(Msg), q # <<>>, NEW low \in Nat, NEW high \in Nat, InOrder(q, low, high)
  PROVE  /\ InOrder(Tail(q), low, high)
         /\ Head(q).type = "watermark" =>
              /\ low < Head(q).value /\ Head(q).value \in Nat
              /\ InOrder(Tail(q), Head(q).value, high)
<1>1. /\ Head(q) \in Msg /\ Head(q) = q[1] /\ Len(q) > 0
      /\ Tail(q) \in Seq(Msg) /\ Len(Tail(q)) = Len(q) - 1
      /\ \A k \in 1..Len(Tail(q)) : Tail(q)[k] = q[k + 1]
  BY TailMsg
<1>2. Len(q) \in Nat /\ \A k \in 1..Len(q) : q[k].value \in Nat
  BY MsgKinds
<1>3. ASSUME NEW k \in 1..Len(Tail(q)), Tail(q)[k].type = "watermark"
      PROVE  /\ low < Tail(q)[k].value /\ Tail(q)[k].value <= high
             /\ Head(q).type = "watermark" => Head(q).value < Tail(q)[k].value
             /\ \A j \in 1..(k - 1) : Tail(q)[j].type = "watermark" => Tail(q)[j].value < Tail(q)[k].value
  <2>1. k + 1 \in 1..Len(q) /\ Tail(q)[k] = q[k + 1] /\ 1 \in 1..((k + 1) - 1)
    BY <1>1, <1>2
  <2>2. /\ low < q[k + 1].value /\ q[k + 1].value <= high
        /\ \A j \in 1..((k + 1) - 1) : q[j].type = "watermark" => q[j].value < q[k + 1].value
    BY <2>1, <1>3 DEF InOrder
  <2>3. \A j \in 1..(k - 1) : j + 1 \in 1..((k + 1) - 1) /\ Tail(q)[j] = q[j + 1]
    BY <1>1, <1>2
  <2> QED BY <2>1, <2>2, <2>3, <1>1
<1>4. Head(q).type = "watermark" => low < Head(q).value /\ Head(q).value <= high
  BY <1>1, <1>2 DEF InOrder
<1> QED BY <1>1, <1>2, <1>3, <1>4 DEF InOrder

\* A message that is no watermark is sent.
LEMMA InOrderQuiet ==
  ASSUME NEW q \in Seq(Msg), NEW m \in Msg, m.type # "watermark", NEW low, NEW high, InOrder(q, low, high)
  PROVE  InOrder(Append(q, m), low, high)
<1>1. /\ Len(Append(q, m)) = Len(q) + 1 /\ Append(q, m)[Len(q) + 1] = m
      /\ \A k \in 1..Len(q) : Append(q, m)[k] = q[k]
  BY AppendMsg
<1> DEFINE r == Append(q, m)
<1>2. Len(q) \in Nat
  OBVIOUS
<1> HIDE DEF r
<1>3. ASSUME NEW k \in 1..Len(r), r[k].type = "watermark"
      PROVE  k \in 1..Len(q) /\ r[k] = q[k] /\ \A j \in 1..(k - 1) : r[j] = q[j]
  BY <1>1, <1>2, <1>3 DEF r
<1>4. InOrder(r, low, high)
  BY <1>3 DEF InOrder
<1> QED BY <1>4 DEF r

\* The history of a merge is cleared.
LEMMA InOrderLower ==
  ASSUME NEW q \in Seq(Msg), NEW low \in Nat, NEW high \in Nat, NEW low2 \in Nat, low2 <= low,
         InOrder(q, low, high)
  PROVE  InOrder(q, low2, high)
<1>1. \A k \in 1..Len(q) : q[k].value \in Nat
  BY MsgKinds
<1> QED BY <1>1 DEF InOrder

\* A step that sends no watermark adds none to those on their way.
LEMMA CarriedQuiet ==
  ASSUME NEW q \in Seq(Msg), NEW S, NEW u, Carried(S, q, u)
  PROVE  /\ q # <<>> => Carried(S, Tail(q), u)
         /\ \A m \in Msg : m.type # "watermark" => Carried(S, Append(q, m), u)
<1>1. ASSUME q # <<>> PROVE Carried(S, Tail(q), u)
  <2>1. /\ Len(Tail(q)) = Len(q) - 1 /\ \A k \in 1..Len(Tail(q)) : Tail(q)[k] = q[k + 1]
    BY <1>1, TailMsg
  <2>2. \A k \in 1..Len(Tail(q)) : k + 1 \in 1..Len(q)
    BY <2>1
  <2> QED BY <2>1, <2>2 DEF Carried
<1>2. ASSUME NEW m \in Msg, m.type # "watermark" PROVE Carried(S, Append(q, m), u)
  <2>1. /\ Len(Append(q, m)) = Len(q) + 1 /\ Append(q, m)[Len(q) + 1] = m
        /\ \A k \in 1..Len(q) : Append(q, m)[k] = q[k]
    BY AppendMsg
  <2>2. \A k \in 1..(Len(q) + 1) : k \in 1..Len(q) \/ k = Len(q) + 1
    OBVIOUS
  <2> QED BY <2>1, <2>2, <1>2 DEF Carried
<1> QED BY <1>1, <1>2

\* A step that sends and receives no watermark.
LEMMA WatermarkStep ==
  ASSUME IInv, WInv, UNCHANGED <<watermark, watermarks>>, WatermarkTypes',
         \A u \in Up, d \in Down : Quiet(u, d),
         \A u \in Up, d \in Down : newest'[d][u] = newest[d][u] \/ newest'[d][u] = 0,
         \A d \in Down : MergeWatermarks(d)',
         \A S : \A d \in Down : Covered(S, buffers[d]) => Covered(S, buffers'[d])
  PROVE  WInv'
<1>1. ASSUME NEW u \in Up, NEW d \in Down
      PROVE  InOrder(chan'[u][d], newest'[d][u], watermark'[u])
  <2>1. /\ chan[u][d] \in Seq(Msg) /\ newest[d][u] \in Nat /\ watermark[u] \in Nat
        /\ newest'[d][u] \in Nat /\ newest'[d][u] <= newest[d][u]
        /\ InOrder(chan[u][d], newest[d][u], watermark[u])
    <3>1. /\ newest \in [Down -> [Up -> Nat]] /\ newest' \in [Down -> [Up -> Nat]]
          /\ watermark \in [Up -> Nat]
          /\ InOrder(chan[u][d], newest[d][u], watermark[u])
      BY DEF WInv, WatermarkTypes
    <3>2. newest'[d][u] = newest[d][u] \/ newest'[d][u] = 0
      OBVIOUS
    <3>3. newest[d][u] \in Nat /\ newest'[d][u] \in Nat /\ watermark[u] \in Nat
      BY <3>1
    <3>4. newest'[d][u] <= newest[d][u]
      BY <3>2, <3>3
    <3> QED BY <3>1, <3>3, <3>4, BasicTypes
  <2>2. InOrder(chan[u][d], newest'[d][u], watermark[u])
    BY <2>1, InOrderLower
  <2> QED BY <2>1, <2>2, InOrderTail, InOrderQuiet DEF Quiet
<1>2. Counted'
  <2>1. PICK S : /\ IsFiniteSet(S) /\ Cardinality(S) <= watermarks
                 /\ \A u \in Up, d \in Down : Carried(S, chan[u][d], u)
                 /\ \A d \in Down : Covered(S, buffers[d])
    BY DEF WInv, Counted
  <2>2. \A u \in Up, d \in Down : Carried(S, chan'[u][d], u)
    BY <2>1, BasicTypes, CarriedQuiet DEF Quiet
  <2>3. \A d \in Down : Covered(S, buffers'[d])
    BY <2>1
  <2> QED BY <2>1, <2>2, <2>3 DEF Counted
<1> QED BY <1>1, <1>2 DEF WInv

-----------------------------------------------------------------------------
\* A merge that a step leaves alone.
LEMMA MergeFrame ==
  ASSUME NEW d \in Down, MergeWatermarks(d), state'[d] = state[d], upstreams'[d] = upstreams[d],
         adding'[d] = adding[d], buffers'[d] = buffers[d], emitted'[d] = emitted[d],
         newest'[d] = newest[d]
  PROVE  MergeWatermarks(d)'
  BY DEF MergeWatermarks, Fresh

\* A step that leaves all buffers alone, and the state of every merge that has some.
LEMMA QuietStep ==
  ASSUME IInv, WInv, UNCHANGED <<watermark, watermarks, buffers, emitted, newest>>,
         \A u \in Up, d \in Down : Quiet(u, d),
         \A d \in Down : \/ /\ state'[d] = state[d] /\ upstreams'[d] = upstreams[d]
                            /\ adding'[d] = adding[d]
                         \/ state[d] = "none" /\ state'[d] = "running"
  PROVE  WInv'
<1>1. WatermarkTypes'
  BY DEF WInv, WatermarkTypes
<1>2. ASSUME NEW d \in Down PROVE MergeWatermarks(d)'
  <2>1. MergeWatermarks(d)
    BY DEF WInv
  <2>2. CASE /\ state'[d] = state[d] /\ upstreams'[d] = upstreams[d] /\ adding'[d] = adding[d]
    BY <2>1, <2>2, MergeFrame
  <2>3. CASE state[d] = "none" /\ state'[d] = "running"
    BY <2>1, <2>3 DEF MergeWatermarks, Fresh
  <2> QED BY <2>2, <2>3
<1> QED BY <1>1, <1>2, WatermarkStep

LEMMA InitWInv ==
  Init => WInv
<1> SUFFICES ASSUME Init PROVE WInv
  OBVIOUS
<1>1. MaxWatermarks \in Nat
  BY RescheduleAssumption
<1>2. Nothing \in Buffered
  <2>1. Nothing \in [{} -> Seq(Nat)]
    BY DEF Nothing
  <2> QED BY <2>1 DEF Buffered
<1>3. WatermarkTypes
  BY <1>1, <1>2 DEF Init, WatermarkTypes
<1>4. \A u \in Up, d \in Down : chan[u][d] = <<>> /\ newest[d][u] = 0 /\ watermark[u] = 0
  BY DEF Init
<1>5. \A u \in Up, d \in Down : InOrder(chan[u][d], newest[d][u], watermark[u])
  BY <1>4 DEF InOrder
<1>6. DOMAIN Nothing = {} /\ \A d \in Down : buffers[d] = Nothing
  BY DEF Nothing, Init
<1>7. \A d \in Down : MergeWatermarks(d)
  BY <1>6 DEF Init, MergeWatermarks, Fresh
<1>8. Counted
  <2>1. IsFiniteSet({}) /\ Cardinality({}) <= watermarks
    BY FS_EmptySet DEF Init
  <2>2. \A u \in Up, d \in Down : Carried({}, chan[u][d], u)
    BY <1>4 DEF Carried
  <2>3. \A d \in Down : Covered({}, buffers[d])
    BY <1>6 DEF Covered
  <2> QED BY <2>1, <2>2, <2>3 DEF Counted
<1> QED BY <1>3, <1>5, <1>7, <1>8 DEF WInv

\* Meta and the workers, and the dispatch of rows and barriers, leave the watermarks alone.
LEMMA NewEpochWInv ==
  ASSUME IInv, WInv, NewBarrier \/ \E c \in Targets : RescheduleFragment(c)
  PROVE  WInv'
<1>1. UNCHANGED <<state, chan, watermark, watermarks, upstreams, adding, buffers, emitted, newest>>
  BY DEF NewBarrier, RescheduleFragment, upVars, downVars
<1>2. \A u \in Up, d \in Down : Quiet(u, d)
  BY <1>1 DEF Quiet
<1> QED BY <1>1, <1>2, QuietStep

LEMMA IssueUpWInv ==
  ASSUME IInv, WInv, IssueUp
  PROVE  WInv'
<1>1. /\ UNCHANGED <<chan, watermark, watermarks, upstreams, adding, buffers, emitted, newest>>
      /\ issued.up + 1 <= Len(plan)
      /\ state' = [a \in Up \cup Down |->
                     IF a \in Added(issued.up + 1, "up") THEN "running" ELSE state[a]]
  BY DEF IssueUp, downVars
<1>2. \A u \in Up, d \in Down : Quiet(u, d)
  BY <1>1 DEF Quiet
<1>3. \A d \in Down : d \notin Added(issued.up + 1, "up")
  <2>1. issued.up + 1 \in 1..Len(plan)
    BY <1>1, BasicTypes
  <2>2. plan[issued.up + 1].up \subseteq Up
    BY <2>1, BasicTypes, PlanFields
  <2> QED BY <2>2, RescheduleAssumption DEF Added
<1> QED BY <1>1, <1>2, <1>3, QuietStep

\* An actor that the next barrier adds is not there yet, and its merge has no buffers.
LEMMA AddedHasNone ==
  ASSUME IInv, WInv, issued.down + 1 <= Len(plan), NEW d \in Down, d \in Added(issued.down + 1, "down")
  PROVE  state[d] = "none" /\ buffers[d] = Nothing
<1> DEFINE n == issued.down + 1
<1>1. n <= Len(plan) /\ d \in Added(n, "down")
  OBVIOUS
<1>2. state[d] = "none"
  <2>1. n \in 2..Len(plan) /\ plan \in Plans /\ Len(plan) \in Nat /\ n - 1 = issued.down
    BY <1>1, BasicTypes
  <2>2. d \in plan[n].down /\ d \notin plan[n - 1].down
    BY <1>1 DEF Added
  <2>3. \A m \in 1..(n - 1) : d \notin plan[m].down
    <3> HIDE DEF n
    <3> QED BY <2>1, <2>2, AddedIsNew
  <2>4. DownState(d) /\ state[d] \in {"none", "running", "exited"}
    BY BasicTypes
  <2>5. state[d] # "running"
    <3> SUFFICES ASSUME state[d] = "running" PROVE FALSE
      OBVIOUS
    <3>1. passed[d] \in 1..issued.down /\ (d \in plan[passed[d]].down \/ 
            (passed[d] < issued.down /\ d \in plan[passed[d] + 1].down))
      BY <2>4 DEF DownState
    <3>2. issued.down \in Nat
      BY BasicTypes
    <3> QED BY <3>1, <3>2, <2>1, <2>3
  <2>6. state[d] # "exited"
    <3> SUFFICES ASSUME state[d] = "exited" PROVE FALSE
      OBVIOUS
    <3>1. passed[d] \in 2..issued.down /\ d \in plan[passed[d] - 1].down
      BY <2>4 DEF DownState
    <3>2. issued.down \in Nat
      BY BasicTypes
    <3> QED BY <3>1, <3>2, <2>1, <2>3
  <2> QED BY <2>4, <2>5, <2>6
<1> QED BY <1>2 DEF WInv, MergeWatermarks

LEMMA IssueDownWInv ==
  ASSUME IInv, WInv, IssueDown
  PROVE  WInv'
<1> DEFINE n == issued.down + 1
           new == Added(n, "down")
<1>1. /\ UNCHANGED <<chan, watermark, watermarks, adding, buffers, emitted, newest>>
      /\ n <= Len(plan)
      /\ state' = [a \in Up \cup Down |-> IF a \in new THEN "running" ELSE state[a]]
      /\ upstreams' = [d \in Down |-> IF d \in new THEN plan[n].up ELSE upstreams[d]]
  BY DEF IssueDown, upVars
<1>2. \A u \in Up, d \in Down : Quiet(u, d)
  BY <1>1 DEF Quiet
<1>3. \A d \in Down : d \in new => state[d] = "none"
  BY <1>1, AddedHasNone
<1> HIDE DEF new
<1>4. ASSUME NEW d \in Down
      PROVE  \/ state'[d] = state[d] /\ upstreams'[d] = upstreams[d] /\ adding'[d] = adding[d]
             \/ state[d] = "none" /\ state'[d] = "running"
  BY <1>1, <1>3
<1> QED BY <1>1, <1>2, <1>4, QuietStep

LEMMA DispatchRowWInv ==
  ASSUME IInv, WInv, NEW u \in Up, NEW v \in VNode, DispatchRow(u, v)
  PROVE  WInv'
<1>1. /\ Broadcast(u, {hashMapping[u][v]} \cap outputs[u], Row(v, passed[u]))
      /\ UNCHANGED <<state, watermark, watermarks, upstreams, adding, buffers, emitted, newest>>
  BY DEF DispatchRow, upVars, downVars
<1>2. Row(v, passed[u]) \in Msg /\ Row(v, passed[u]).type = "row" /\ Types
  BY BasicTypes, MsgKinds DEF IInv
<1>3. ASSUME NEW x \in Up, NEW d \in Down PROVE Quiet(x, d)
  <2> DEFINE D == {hashMapping[u][v]} \cap outputs[u]
             m == Row(v, passed[u])
  <2>1. m \in Msg /\ m.type # "watermark" /\ Broadcast(u, D, m)
    BY <1>1, <1>2
  <2> HIDE DEF D, m
  <2>2. chan'[x][d] = IF x = u /\ d \in D THEN Append(chan[x][d], m) ELSE chan[x][d]
    BY <1>2, <2>1, BroadcastChan
  <2> QED BY <2>1, <2>2 DEF Quiet
<1> QED BY <1>1, <1>3, QuietStep

LEMMA DispatchBarrierWInv ==
  ASSUME IInv, WInv, NEW u \in Up, DispatchBarrier(u)
  PROVE  WInv'
<1> DEFINE n == passed[u] + 1
<1>1. /\ Broadcast(u, PreMutateDispatchers(u, n), Barrier(n))
      /\ UNCHANGED <<watermark, watermarks, upstreams, adding, buffers, emitted, newest>>
      /\ state' = [state EXCEPT ![u] = IF u \in Dropped(n) THEN "exited" ELSE @]
  BY DEF DispatchBarrier, downVars
<1>2. Barrier(n) \in Msg /\ Barrier(n).type = "barrier" /\ Types
  BY BasicTypes, MsgKinds DEF IInv
<1>3. ASSUME NEW x \in Up, NEW d \in Down PROVE Quiet(x, d)
  <2> DEFINE D == PreMutateDispatchers(u, n)
             m == Barrier(n)
  <2>1. m \in Msg /\ m.type # "watermark" /\ Broadcast(u, D, m)
    BY <1>1, <1>2
  <2> HIDE DEF D, m
  <2>2. chan'[x][d] = IF x = u /\ d \in D THEN Append(chan[x][d], m) ELSE chan[x][d]
    BY <1>2, <2>1, BroadcastChan
  <2> QED BY <2>1, <2>2 DEF Quiet
<1>4. \A d \in Down : state'[d] = state[d]
  BY <1>1, <1>2, RescheduleAssumption DEF Types
<1> QED BY <1>1, <1>3, <1>4, QuietStep

LEMMA ReceiveOtherWInv ==
  ASSUME IInv, WInv, NEW d \in Down, NEW u \in Up, ReceiveRow(d, u) \/ ReceiveBarrier(d, u)
  PROVE  WInv'
<1>1. /\ chan[u][d] # <<>> /\ Receive(d, u)
      /\ UNCHANGED <<state, watermark, watermarks, upstreams, adding, buffers, emitted, newest>>
  BY DEF ReceiveRow, ReceiveBarrier, Polled, upVars, downVars
<1>2. Types
  BY DEF IInv
<1>3. \A x \in Up, y \in Down : Quiet(x, y)
  BY <1>1, <1>2, ReceiveChan DEF Quiet
<1> QED BY <1>1, <1>3, QuietStep

\* A watermark is sent: there is one more.
LEMMA DispatchWatermarkWInv ==
  ASSUME IInv, WInv, NEW u \in Up, NEW w \in Nat, DispatchWatermark(u, w)
  PROVE  WInv'
<1> MaxWatermarks \in Nat
  BY RescheduleAssumption
<1>1. /\ Broadcast(u, outputs[u], Watermark(w)) /\ w > watermark[u] /\ watermarks < MaxWatermarks
      /\ watermark' = [watermark EXCEPT ![u] = w] /\ watermarks' = watermarks + 1
      /\ UNCHANGED <<state, upstreams, adding, buffers, emitted, newest>>
  BY DEF DispatchWatermark, downVars
<1>2. /\ Watermark(w) \in Msg /\ Watermark(w).type = "watermark" /\ Watermark(w).value = w /\ Types
  BY MsgKinds DEF IInv, Watermark
<1>3. WatermarkTypes
  BY DEF WInv
<1>4. WatermarkTypes'
  BY <1>1, <1>3 DEF WatermarkTypes
<1>5. \A d \in Down : MergeWatermarks(d)'
  BY <1>1, MergeFrame DEF WInv
<1>6. \A x \in Up, d \in Down :
        chan'[x][d] = IF x = u /\ d \in outputs[u] THEN Append(chan[x][d], Watermark(w)) ELSE chan[x][d]
  BY <1>1, <1>2, BroadcastChan
<1>7. ASSUME NEW x \in Up, NEW d \in Down
      PROVE  InOrder(chan'[x][d], newest'[d][x], watermark'[x])
  <2> DEFINE q == chan[x][d]
             low == newest[d][x]
  <2>1. InOrder(q, low, watermark[x]) /\ q \in Seq(Msg) /\ low \in Nat /\ watermark[x] \in Nat
    BY BasicTypes, <1>3 DEF WInv, WatermarkTypes
  <2>2. newest'[d][x] = low /\ watermark'[x] \in Nat /\ watermark[x] <= watermark'[x]
        /\ (x = u => watermark'[x] = w /\ watermark[x] < w)
    BY <1>1, <1>3, <2>1 DEF WatermarkTypes
  <2> HIDE DEF q, low
  <2>3. \A k \in 1..Len(q) : q[k].value \in Nat
    BY <2>1, MsgKinds
  <2>4. InOrder(q, low, watermark'[x])
    BY <2>1, <2>2, <2>3 DEF InOrder
  <2>5. CASE ~(x = u /\ d \in outputs[u])
    BY <2>2, <2>4, <2>5, <1>6 DEF q
  <2>6. CASE x = u /\ d \in outputs[u]
    <3> DEFINE r == Append(q, Watermark(w))
    <3>1. /\ Len(r) = Len(q) + 1 /\ r[Len(q) + 1] = Watermark(w) /\ Len(q) \in Nat
          /\ \A k \in 1..Len(q) : r[k] = q[k]
      BY <2>1, <1>2, AppendMsg
    <3> HIDE DEF r
    <3>2. ASSUME NEW k \in 1..Len(r), r[k].type = "watermark"
          PROVE  /\ low < r[k].value /\ r[k].value <= w
                 /\ \A j \in 1..(k - 1) : r[j].type = "watermark" => r[j].value < r[k].value
      <4>1. CASE k \in 1..Len(q)
        <5>1. r[k] = q[k] /\ \A j \in 1..(k - 1) : r[j] = q[j]
          BY <4>1, <3>1
        <5> QED BY <5>1, <4>1, <3>2, <2>2, <2>4, <2>6 DEF InOrder
      <4>2. CASE k = Len(q) + 1
        <5>1. r[k].value = w /\ \A j \in 1..(k - 1) : j \in 1..Len(q) /\ r[j] = q[j]
          BY <4>2, <3>1, <1>2
        <5>2. \A j \in 1..Len(q) : q[j].type = "watermark" => q[j].value <= watermark[x]
          BY <2>1 DEF InOrder
        <5>3. low <= watermark[x] /\ watermark[x] < w
          BY <2>1, <2>2, <2>6 DEF InOrder
        <5>4. \A j \in 1..Len(q) : q[j].type = "watermark" => q[j].value < w
          BY <5>2, <5>3, <2>1, <2>3
        <5> QED BY <5>1, <5>3, <5>4, <2>1
      <4> QED BY <4>1, <4>2, <3>1
    <3>3. InOrder(r, low, w)
      <4>1. low <= w
        BY <2>1, <2>2, <2>6 DEF InOrder
      <4> QED BY <3>2, <4>1 DEF InOrder
    <3> QED BY <3>3, <2>2, <2>6, <1>6 DEF r, q
  <2> QED BY <2>5, <2>6
<1>8. Counted'
  <2>1. PICK S : /\ IsFiniteSet(S) /\ Cardinality(S) <= watermarks
                 /\ \A x \in Up, d \in Down : Carried(S, chan[x][d], x)
                 /\ \A d \in Down : Covered(S, buffers[d])
    BY DEF WInv, Counted
  <2> DEFINE R == S \cup {<<u, w>>}
  <2>2. IsFiniteSet(R) /\ Cardinality(R) <= watermarks'
    <3>1. Cardinality(S) \in Nat /\ watermarks \in Nat
      BY <2>1, <1>3, FS_CardinalityType DEF WatermarkTypes
    <3>2. IsFiniteSet(R) /\ (Cardinality(R) = Cardinality(S) \/ Cardinality(R) = Cardinality(S) + 1)
      BY <2>1, FS_AddElement
    <3> HIDE DEF R
    <3> QED BY <3>1, <3>2, <2>1, <1>1
  <2>3. ASSUME NEW x \in Up, NEW d \in Down PROVE Carried(R, chan'[x][d], x)
    <3>1. chan[x][d] \in Seq(Msg) /\ Carried(S, chan[x][d], x)
      BY <2>1, BasicTypes
    <3>2. CASE ~(x = u /\ d \in outputs[u])
      BY <3>1, <3>2, <1>6 DEF Carried
    <3>3. CASE x = u /\ d \in outputs[u]
      <4> DEFINE q == chan[x][d]
                 r == Append(q, Watermark(w))
      <4>1. /\ Len(r) = Len(q) + 1 /\ r[Len(q) + 1] = Watermark(w) /\ Len(q) \in Nat
            /\ \A k \in 1..Len(q) : r[k] = q[k]
        BY <3>1, <1>2, AppendMsg
      <4>2. Carried(S, q, x) /\ chan'[x][d] = r
        BY <3>1, <3>3, <1>6
      <4> HIDE DEF q, r
      <4>3. ASSUME NEW k \in 1..Len(r), r[k].type = "watermark" PROVE <<x, r[k].value>> \in R
        <5>1. CASE k \in 1..Len(q)
          <6>1. r[k] = q[k]
            BY <5>1, <4>1
          <6>2. <<x, q[k].value>> \in S
            BY <5>1, <6>1, <4>2, <4>3 DEF Carried
          <6> QED BY <6>1, <6>2
        <5>2. CASE k = Len(q) + 1
          BY <5>2, <4>1, <1>2, <3>3
        <5> QED BY <5>1, <5>2, <4>1
      <4> QED BY <4>2, <4>3 DEF Carried
    <3> QED BY <3>2, <3>3
  <2>4. \A d \in Down : Covered(R, buffers'[d])
    BY <2>1, <1>1 DEF Covered
  <2> HIDE DEF R
  <2> QED BY <2>2, <2>3, <2>4 DEF Counted
<1> QED BY <1>4, <1>5, <1>7, <1>8 DEF WInv

-----------------------------------------------------------------------------
\* A merge receives a watermark.

\* handle_watermark settles the buffers again.
LEMMA HandleSettles ==
  ASSUME NEW U, NEW buf \in [U -> Seq(Nat)], NEW new \in [Up -> Nat], NEW last \in Nat, U \subseteq Up,
         Settled(buf, new, last), NEW u \in U, NEW w \in Nat, new[u] < w, last < w,
         NEW S, IsFiniteSet(S), Cardinality(S) <= MaxWatermarks, Covered(S, buf), <<u, w>> \in S
  PROVE  \E buf2 \in [U -> Seq(Nat)], out \in Nat :
           /\ HandleWatermark(buf, u, w) = [buf |-> buf2, out |-> out]
           /\ Covered(S, buf2)
           /\ Settled(buf2, [new EXCEPT ![u] = w], IF out = 0 THEN last ELSE out)
<1> DEFINE new2 == [new EXCEPT ![u] = w]
<1>0. new2 \in [Up -> Nat] /\ new2[u] = w /\ \A x \in U \ {u} : new2[x] = new[x]
  OBVIOUS
<1>00. DOMAIN buf = U /\ \A x \in U : Buffer(buf[x], new[x], last) /\ buf[x] \in Seq(Nat)
  BY DEF Settled
<1> HIDE DEF new2
<1>1. CASE buf[u] # <<>>
  <2> DEFINE q == buf[u]
             r == Append(q, w)
             buf2 == [buf EXCEPT ![u] = Append(@, w)]
  <2>1. /\ r \in Seq(Nat) /\ Len(r) = Len(q) + 1 /\ r[Len(q) + 1] = w
        /\ \A k \in 1..Len(q) : r[k] = q[k] /\ r # <<>>
    OBVIOUS
  <2>2. buf2 \in [U -> Seq(Nat)] /\ buf2[u] = r /\ \A x \in U \ {u} : buf2[x] = buf[x]
    BY <2>1
  <2>3. HandleWatermark(buf, u, w) = [buf |-> buf2, out |-> 0]
    BY <1>1 DEF HandleWatermark
  <2>4. q \in Seq(Nat) /\ q # <<>> /\ Rising(q) /\ q[Len(q)] = new[u] /\ last < q[1]
    BY <1>1, <1>00 DEF Buffer
  <2> HIDE DEF q, r, buf2
  <2>5. /\ Len(q) \in Nat /\ Len(q) > 0 /\ 1 \in 1..Len(q) /\ Len(q) \in 1..Len(q)
        /\ \A k \in 1..Len(q) : q[k] \in Nat
    BY <2>4, EmptyOrFirst
  <2>6. \A k \in 1..Len(q) : q[k] < w
    <3> SUFFICES ASSUME NEW k \in 1..Len(q) PROVE q[k] < w
      OBVIOUS
    <3>1. CASE k = Len(q)
      BY <3>1, <2>4
    <3>2. CASE k < Len(q)
      <4>1. Len(q) \in 1..Len(q) /\ k \in 1..(Len(q) - 1)
        BY <3>2, <2>5
      <4>2. q[k] < q[Len(q)]
        BY <4>1, <2>4 DEF Rising
      <4> QED BY <4>2, <2>4, <2>5
    <3> QED BY <3>1, <3>2, <2>5
  <2>7. Rising(r)
    <3> SUFFICES ASSUME NEW k \in 1..Len(r), NEW j \in 1..(k - 1) PROVE r[j] < r[k]
      BY DEF Rising
    <3>1. j \in 1..Len(q) /\ r[j] = q[j]
      BY <2>1, <2>5
    <3>2. CASE k = Len(q) + 1
      BY <3>1, <3>2, <2>1, <2>6
    <3>3. CASE k \in 1..Len(q)
      BY <3>1, <3>3, <2>1, <2>4 DEF Rising
    <3> QED BY <3>2, <3>3, <2>1, <2>5
  <2>8. Buffer(r, w, last)
    <3>1. r # <<>> /\ r[Len(r)] = w /\ last < r[1]
      BY <2>1, <2>4, <2>5
    <3> QED BY <3>1, <2>7 DEF Buffer
  <2>9. Settled(buf2, new2, last)
    <3>1. DOMAIN buf2 = U
      BY <2>2
    <3>2. \A x \in U : Buffer(buf2[x], new2[x], last)
      BY <2>2, <2>8, <1>0, <1>00
    <3>3. \E x \in U : buf2[x] = <<>>
      BY <1>1, <1>00, <2>2 DEF Settled
    <3> QED BY <3>1, <3>2, <3>3 DEF Settled
  <2>10. Covered(S, buf2)
    <3> SUFFICES ASSUME NEW x \in U, NEW k \in 1..Len(buf2[x]) PROVE <<x, buf2[x][k]>> \in S
      BY <2>2 DEF Covered
    <3>1. CASE x # u
      BY <3>1, <2>2, <1>00 DEF Covered
    <3>2. CASE x = u /\ k = Len(q) + 1
      BY <3>2, <2>1, <2>2
    <3>3. CASE x = u /\ k \in 1..Len(q)
      <4>1. buf2[x][k] = q[k] /\ <<u, q[k]>> \in S
        BY <3>3, <2>1, <2>2, <1>00 DEF Covered, q
      <4> QED BY <4>1, <3>3
    <3> QED BY <3>1, <3>2, <3>3, <2>1, <2>2, <2>5
  <2> QED BY <2>2, <2>3, <2>9, <2>10 DEF new2
<1>2. CASE buf[u] = <<>>
  <2> DEFINE b == [buf EXCEPT ![u] = <<w>>]
  <2>1. <<w>> \in Seq(Nat) /\ Len(<<w>>) = 1 /\ <<w>>[1] = w /\ <<w>> # <<>>
    OBVIOUS
  <2>2. b \in [U -> Seq(Nat)] /\ b[u] = <<w>> /\ \A x \in U \ {u} : b[x] = buf[x]
    BY <2>1
  <2>3. HandleWatermark(buf, u, w) = CheckWatermarkHeap(b)
    BY <1>2 DEF HandleWatermark
  <2> HIDE DEF b
  <2>4. ASSUME NEW x \in U PROVE Draining(b[x], new2[x], last, 0)
    <3>1. CASE x = u
      <4>1. Rising(<<w>>)
        BY <2>1 DEF Rising
      <4>2. Draining(<<w>>, w, last, 0)
        BY <4>1, <2>1 DEF Draining
      <4> QED BY <3>1, <4>2, <2>2, <1>0
    <3>2. CASE x # u
      <4>1. b[x] = buf[x] /\ new2[x] = new[x] /\ Buffer(buf[x], new[x], last) /\ buf[x] \in Seq(Nat)
        BY <3>2, <2>2, <1>0, <1>00
      <4>2. buf[x] # <<>> => buf[x][1] \in Nat
        BY <4>1, EmptyOrFirst
      <4> QED BY <4>1, <4>2 DEF Buffer, Draining
    <3> QED BY <3>1, <3>2
  <2>5. Covered(S, b)
    <3> SUFFICES ASSUME NEW x \in U, NEW k \in 1..Len(b[x]) PROVE <<x, b[x][k]>> \in S
      BY <2>2 DEF Covered
    <3>1. CASE x # u
      BY <3>1, <2>2, <1>00 DEF Covered
    <3>2. CASE x = u
      <4>1. k = 1 /\ b[x][k] = w
        BY <3>2, <2>1, <2>2
      <4> QED BY <4>1, <3>2
    <3> QED BY <3>1, <3>2
  <2> DEFINE new3 == [x \in U |-> new2[x]]
  <2>6. new3 \in [U -> Nat] /\ \A x \in U : new3[x] = new2[x]
    BY <1>0
  <2> HIDE DEF new3
  <2>7. \A x \in U : Draining(b[x], new3[x], last, 0)
    BY <2>4, <2>6
  <2>8. PICK buf2 \in [U -> Seq(Nat)], out \in Nat :
           /\ CheckWatermarkHeap(b) = [buf |-> buf2, out |-> out]
           /\ Covered(S, buf2)
           /\ Settled(buf2, new3, IF out = 0 THEN last ELSE out)
    BY <2>2, <2>5, <2>6, <2>7, CheckHeap
  <2>9. Settled(buf2, new2, IF out = 0 THEN last ELSE out)
    BY <2>6, <2>8 DEF Settled
  <2> QED BY <2>3, <2>8, <2>9 DEF new2
<1> QED BY <1>1, <1>2

LEMMA ReceiveWatermarkWInv ==
  ASSUME IInv, WInv, NEW d \in Down, NEW u \in Up, ReceiveWatermark(d, u)
  PROVE  WInv'
<1> MaxWatermarks \in Nat
  BY RescheduleAssumption
<1> DEFINE w   == Head(chan[u][d]).value
           buf == IF buffers[d] = Nothing THEN [x \in upstreams[d] |-> <<>>] ELSE buffers[d]
           res == HandleWatermark(buf, u, w)
           U   == upstreams[d]
           q   == chan[u][d]
<1>1. /\ state[d] = "running" /\ adding[d] = {} /\ u \in U /\ q # <<>> /\ Head(q).type = "watermark"
      /\ Receive(d, u)
      /\ buffers' = [buffers EXCEPT ![d] = res.buf]
      /\ emitted' = [emitted EXCEPT ![d] = IF res.out = 0 THEN @ ELSE res.out]
      /\ newest' = [newest EXCEPT ![d][u] = w]
      /\ UNCHANGED <<state, watermark, watermarks, upstreams, adding>>
  BY DEF ReceiveWatermark, Polled, Active, upVars
<1>2. Types /\ WatermarkTypes /\ MergeWatermarks(d)
  BY DEF IInv, WInv
<1>3. /\ \A x \in Up, y \in Down :
           chan'[x][y] = IF x = u /\ y = d THEN Tail(chan[x][y]) ELSE chan[x][y]
  BY <1>1, <1>2, ReceiveChan
<1>4. U \subseteq Up /\ newest[d] \in [Up -> Nat] /\ emitted[d] \in Nat /\ buffers[d] \in Buffered
      /\ q \in Seq(Msg) /\ newest[d][u] \in Nat /\ watermark[u] \in Nat
  BY <1>2 DEF Types, WatermarkTypes
<1>5. InOrder(q, newest[d][u], watermark[u])
  BY DEF WInv
<1>6. /\ newest[d][u] < w /\ w \in Nat /\ InOrder(Tail(q), w, watermark[u])
  BY <1>1, <1>4, <1>5, InOrderTail
<1>7. PICK S : /\ IsFiniteSet(S) /\ Cardinality(S) <= watermarks
               /\ \A x \in Up, y \in Down : Carried(S, chan[x][y], x)
               /\ \A y \in Down : Covered(S, buffers[y])
  BY DEF WInv, Counted
<1>8. Cardinality(S) <= MaxWatermarks
  <2>1. Cardinality(S) \in Nat
    BY <1>7, FS_CardinalityType
  <2> QED BY <2>1, <1>2, <1>7 DEF WatermarkTypes
<1>9. <<u, w>> \in S
  <2>1. 1 \in 1..Len(q) /\ Head(q) = q[1]
    BY <1>1, <1>4, TailMsg
  <2> QED BY <2>1, <1>1, <1>7 DEF Carried
<1>10. buf \in [U -> Seq(Nat)] /\ Settled(buf, newest[d], emitted[d]) /\ Covered(S, buf)
  <2>1. CASE buffers[d] = Nothing
    <3>1. emitted[d] = 0 /\ \A x \in Up : newest[d][x] = 0
      BY <2>1, <1>2 DEF MergeWatermarks, Fresh
    <3>2. buf = [x \in U |-> <<>>]
      BY <2>1
    <3>3. buf \in [U -> Seq(Nat)] /\ DOMAIN buf = U /\ \A x \in U : buf[x] = <<>>
      <4> HIDE DEF buf, U
      <4>1. <<>> \in Seq(Nat)
        OBVIOUS
      <4> QED BY <3>2, <4>1
    <3> HIDE DEF buf
    <3>4. \A x \in U : Buffer(buf[x], newest[d][x], emitted[d])
      BY <3>1, <3>3, <1>4 DEF Buffer, Rising
    <3>5. Covered(S, buf)
      BY <3>3 DEF Covered
    <3> QED BY <3>3, <3>4, <3>5, <1>1 DEF Settled
  <2>2. CASE buffers[d] # Nothing
    <3>1. buf = buffers[d]
      BY <2>2
    <3>2. DOMAIN buf = U /\ Settled(buf, newest[d], emitted[d])
      BY <2>2, <3>1, <1>1, <1>2 DEF MergeWatermarks
    <3>3. buf \in [U -> Seq(Nat)]
      <4> HIDE DEF buf, U
      <4> QED BY <3>1, <3>2, <1>4 DEF Buffered
    <3> QED BY <3>1, <3>2, <3>3, <1>7
  <2> QED BY <2>1, <2>2
<1>11. emitted[d] < w
  <2> DEFINE b == buf[u]
  <2>1. Buffer(b, newest[d][u], emitted[d]) /\ b \in Seq(Nat)
    BY <1>1, <1>10 DEF Settled
  <2> HIDE DEF b, w
  <2>2. CASE b = <<>>
    BY <2>1, <2>2, <1>6, <1>4 DEF Buffer
  <2>3. CASE b # <<>>
    <3>1. emitted[d] < b[1] /\ b[Len(b)] = newest[d][u] /\ Rising(b)
      BY <2>1, <2>3 DEF Buffer
    <3>2. b[1] \in Nat /\ b[1] <= b[Len(b)]
      BY <2>1, <2>3, <3>1, RisingTail
    <3> QED BY <3>1, <3>2, <1>4, <1>6
  <2> QED BY <2>2, <2>3
<1> DEFINE new2 == [newest[d] EXCEPT ![u] = w]
<1>12. PICK buf2 \in [U -> Seq(Nat)], out \in Nat :
           /\ res = [buf |-> buf2, out |-> out]
           /\ Covered(S, buf2)
           /\ Settled(buf2, new2, IF out = 0 THEN emitted[d] ELSE out)
  <2> DEFINE new == newest[d]
             e0  == emitted[d]
  <2>1. /\ new \in [Up -> Nat] /\ e0 \in Nat /\ U \subseteq Up /\ u \in U
        /\ buf \in [U -> Seq(Nat)] /\ Settled(buf, new, e0) /\ w \in Nat /\ new[u] < w /\ e0 < w
        /\ IsFiniteSet(S) /\ Cardinality(S) <= MaxWatermarks /\ Covered(S, buf) /\ <<u, w>> \in S
    BY <1>1, <1>4, <1>6, <1>7, <1>8, <1>9, <1>10, <1>11
  <2>2. res = HandleWatermark(buf, u, w) /\ new2 = [new EXCEPT ![u] = w]
    OBVIOUS
  <2> HIDE DEF buf, w, U, new, e0, res, new2
  <2>3. \E buf2 \in [U -> Seq(Nat)], out \in Nat :
           /\ HandleWatermark(buf, u, w) = [buf |-> buf2, out |-> out]
           /\ Covered(S, buf2)
           /\ Settled(buf2, [new EXCEPT ![u] = w], IF out = 0 THEN e0 ELSE out)
    BY <2>1, HandleSettles
  <2> QED BY <2>2, <2>3 DEF e0
<1>13. res.buf = buf2 /\ res.out = out
  BY <1>12
<1> HIDE DEF res, buf
<1> DEFINE e == IF out = 0 THEN emitted[d] ELSE out
<1>14. /\ buffers'[d] = buf2 /\ emitted'[d] = e /\ newest'[d] = new2
       /\ \A y \in Down \ {d} : buffers'[y] = buffers[y] /\ emitted'[y] = emitted[y] /\ newest'[y] = newest[y]
  BY <1>1, <1>2, <1>13 DEF WatermarkTypes
<1>15. WatermarkTypes'
  <2>1. buf2 \in Buffered
    BY <1>4 DEF Buffered
  <2>2. e \in Nat /\ new2 \in [Up -> Nat]
    BY <1>4, <1>6
  <2>3. /\ newest \in [Down -> [Up -> Nat]] /\ emitted \in [Down -> Nat] /\ buffers \in [Down -> Buffered]
    BY <1>2 DEF WatermarkTypes
  <2>4. /\ newest' = [newest EXCEPT ![d] = new2] /\ emitted' = [emitted EXCEPT ![d] = e]
        /\ buffers' = [buffers EXCEPT ![d] = buf2]
    BY <1>1, <1>13, <2>3
  <2> HIDE DEF e, new2, w
  <2>5. /\ newest' \in [Down -> [Up -> Nat]] /\ emitted' \in [Down -> Nat] /\ buffers' \in [Down -> Buffered]
    BY <2>1, <2>2, <2>3, <2>4
  <2> QED BY <2>5, <1>1, <1>2 DEF WatermarkTypes
<1>16. ASSUME NEW x \in Up, NEW y \in Down
       PROVE  InOrder(chan'[x][y], newest'[y][x], watermark'[x])
  <2>1. CASE x = u /\ y = d
    <3>1. newest'[d][u] = w
      BY <1>14, <1>4
    <3> QED BY <2>1, <3>1, <1>1, <1>3, <1>6
  <2>2. CASE ~(x = u /\ y = d)
    <3>1. newest'[y][x] = newest[y][x]
      <4>1. CASE y = d
        BY <4>1, <2>2, <1>14, <1>4
      <4>2. CASE y # d
        BY <4>2, <1>14
      <4> QED BY <4>1, <4>2
    <3> QED BY <2>2, <3>1, <1>1, <1>3 DEF WInv
  <2> QED BY <2>1, <2>2
<1>17. ASSUME NEW y \in Down PROVE MergeWatermarks(y)'
  <2>1. CASE y # d
    BY <2>1, <1>1, <1>14, MergeFrame DEF WInv
  <2>2. CASE y = d
    <3>1. state'[d] = "running" /\ adding'[d] = {} /\ upstreams'[d] = U
      BY <1>1
    <3>2. DOMAIN buffers'[d] = U /\ Settled(buffers'[d], newest'[d], emitted'[d])
      BY <1>12, <1>14
    <3>3. buffers'[d] # Nothing
      <4>1. DOMAIN Nothing = {}
        BY DEF Nothing
      <4> QED BY <4>1, <3>2, <1>1
    <3> QED BY <2>2, <3>1, <3>2, <3>3 DEF MergeWatermarks
  <2> QED BY <2>1, <2>2
<1>18. Counted'
  <2>1. \A x \in Up, y \in Down : Carried(S, chan'[x][y], x)
    BY <1>1, <1>3, <1>7, BasicTypes, CarriedQuiet
  <2>2. \A y \in Down : Covered(S, buffers'[y])
    BY <1>7, <1>12, <1>14
  <2> QED BY <1>1, <1>7, <2>1, <2>2 DEF Counted
<1> QED BY <1>15, <1>16, <1>17, <1>18 DEF WInv

-----------------------------------------------------------------------------
\* A merge passes a barrier.

\* Buffers without a watermark.
Drawn(buf) == \A u \in DOMAIN buf : buf[u] = <<>>

\* check_watermark_heap makes nothing of buffers without a watermark.
LEMMA CheckDrawn ==
  ASSUME NEW U, NEW x0 \in U, NEW b \in [U -> Seq(Nat)], Drawn(b)
  PROVE  CheckWatermarkHeap(b).buf \in [U -> Seq(Nat)] /\ Drawn(CheckWatermarkHeap(b).buf)
<1>1. ASSUME NEW new \in [U -> Nat], NEW last \in Nat, NEW S,
             new = [x \in U |-> 0], last = 0, S = {}
      PROVE  CheckWatermarkHeap(b).buf \in [U -> Seq(Nat)] /\ Drawn(CheckWatermarkHeap(b).buf)
  <2>1. \A x \in U : new[x] = 0 /\ b[x] = <<>>
    BY <1>1 DEF Drawn
  <2>2. Draining(<<>>, 0, 0, 0)
    BY DEF Draining, Rising
  <2>3. \A x \in U : Draining(b[x], new[x], last, 0)
    BY <1>1, <2>1, <2>2
  <2>4. IsFiniteSet(S) /\ Cardinality(S) <= MaxWatermarks
    BY <1>1, FS_EmptySet, RescheduleAssumption
  <2>5. Covered(S, b)
    BY <2>1 DEF Covered
  <2>6. PICK buf2 \in [U -> Seq(Nat)], out \in Nat :
             /\ CheckWatermarkHeap(b) = [buf |-> buf2, out |-> out]
             /\ Covered(S, buf2)
             /\ Settled(buf2, new, IF out = 0 THEN last ELSE out)
    BY <2>3, <2>4, <2>5, CheckHeap
  <2>7. CheckWatermarkHeap(b).buf = buf2
    BY <2>6
  <2>8. ASSUME NEW x \in U PROVE buf2[x] = <<>>
    <3>1. buf2[x] \in Seq(Nat) /\ 1 \notin 1..Len(buf2[x])
      BY <1>1, <2>6 DEF Covered
    <3> QED BY <3>1, EmptyOrFirst
  <2> QED BY <2>7, <2>8 DEF Drawn
<1> QED BY <1>1

\* The buffers of a merge whose upstreams change have been cleared, and stay so.
LEMMA UpdatedBuffers ==
  ASSUME IInv, NEW d \in Down, state[d] = "running", passed[d] < issued.down, NEW n, n = passed[d] + 1,
         NEW buf \in Buffered, buf # Nothing => DOMAIN buf = upstreams[d],
         d \in MergeUpdates(n) => Drawn(buf)
  PROVE  /\ d \notin MergeUpdates(n) \/ buf = Nothing => UpdateBuffers(d, n, buf) = buf
         /\ d \in MergeUpdates(n) /\ buf # Nothing =>
              /\ Drawn(UpdateBuffers(d, n, buf)) /\ UpdateUpstreams(d, n, upstreams[d]) # {}
              /\ UpdateBuffers(d, n, buf) \in [UpdateUpstreams(d, n, upstreams[d]) -> Seq(Nat)]
         /\ UpdateBuffers(d, n, buf) \in Buffered
<1>1. ASSUME d \notin MergeUpdates(n) \/ buf = Nothing PROVE UpdateBuffers(d, n, buf) = buf
  BY <1>1 DEF UpdateBuffers
<1>2. ASSUME d \in MergeUpdates(n), buf # Nothing
      PROVE  /\ Drawn(UpdateBuffers(d, n, buf)) /\ UpdateUpstreams(d, n, upstreams[d]) # {}
             /\ UpdateUpstreams(d, n, upstreams[d]) \subseteq Up
             /\ UpdateBuffers(d, n, buf) \in [UpdateUpstreams(d, n, upstreams[d]) -> Seq(Nat)]
  <2> DEFINE U == UpdateUpstreams(d, n, upstreams[d])
             b == [u \in U |-> IF u \in DOMAIN buf THEN buf[u] ELSE <<>>]
  <2>1. DOMAIN buf = upstreams[d] /\ Drawn(buf)
    BY <1>2
  <2>2. U # {} /\ U \subseteq Up
    <3>1. d \in plan[n].down
      BY <1>2 DEF MergeUpdates, Removed
    <3>2. n \in 2..Len(plan) /\ U = plan[n].up /\ U \subseteq Up
      BY <3>1, MergeAfter
    <3>3. plan[n] \in Config
      BY <3>2, BasicTypes DEF Plans
    <3> QED BY <3>2, <3>3 DEF Config
  <2>3. UpdateBuffers(d, n, buf) = IF Removed(n, "up") = {} THEN b ELSE CheckWatermarkHeap(b).buf
    BY <1>2, <2>1 DEF UpdateBuffers
  <2> HIDE DEF U
  <2>4. b \in [U -> Seq(Nat)] /\ Drawn(b)
    <3>1. <<>> \in Seq(Nat) /\ \A u \in DOMAIN buf : buf[u] = <<>>
      BY <2>1 DEF Drawn
    <3>2. \A u \in U : b[u] = <<>>
      BY <3>1
    <3> QED BY <3>1, <3>2 DEF Drawn
  <2> HIDE DEF b
  <2>5. CheckWatermarkHeap(b).buf \in [U -> Seq(Nat)] /\ Drawn(CheckWatermarkHeap(b).buf)
    BY <2>2, <2>4, CheckDrawn
  <2>6. UpdateBuffers(d, n, buf) \in [U -> Seq(Nat)] /\ Drawn(UpdateBuffers(d, n, buf))
    BY <2>3, <2>4, <2>5
  <2> QED BY <2>2, <2>6 DEF U
<1>3. UpdateBuffers(d, n, buf) \in Buffered
  BY <1>1, <1>2 DEF Buffered
<1> QED BY <1>1, <1>2, <1>3

\* The watermarks of a merge that is through with a barrier.
LEMMA PassedMerge ==
  ASSUME IInv, NEW d \in Down, state[d] = "running", passed[d] < issued.down, NEW n, n = passed[d] + 1,
         buffers \in [Down -> Buffered], NEW buf \in Buffered,
         buf # Nothing => DOMAIN buf = upstreams[d] /\ Settled(buf, newest'[d], emitted'[d]),
         buf = Nothing => emitted'[d] = 0 /\ newest'[d] = [u \in Up |-> 0],
         d \in MergeUpdates(n) => emitted'[d] = 0 /\ newest'[d] = [u \in Up |-> 0] /\ Drawn(buf),
         PassBarrier(d, n, buf), adding'[d] = {}
  PROVE  /\ MergeWatermarks(d)' /\ buffers'[d] \in Buffered
         /\ \A S : Covered(S, buf) => Covered(S, buffers'[d])
         /\ \A y \in Down \ {d} : /\ buffers'[y] = buffers[y] /\ upstreams'[y] = upstreams[y]
                                  /\ state'[y] = state[y]
<1> DEFINE b == UpdateBuffers(d, n, buf)
           U == UpdateUpstreams(d, n, upstreams[d])
<1>1. Types /\ DOMAIN Nothing = {}
  BY DEF IInv, Nothing
<1>2. /\ upstreams'[d] = U /\ buffers'[d] = b
      /\ state'[d] \in {"running", "exited"}
      /\ \A y \in Down \ {d} : /\ buffers'[y] = buffers[y] /\ upstreams'[y] = upstreams[y]
                               /\ state'[y] = state[y]
  BY <1>1 DEF PassBarrier, Types
<1>3. /\ d \notin MergeUpdates(n) \/ buf = Nothing => b = buf
      /\ d \in MergeUpdates(n) /\ buf # Nothing => Drawn(b) /\ U # {} /\ b \in [U -> Seq(Nat)]
      /\ b \in Buffered
  BY UpdatedBuffers
<1>4. d \notin MergeUpdates(n) => U = upstreams[d]
  BY DEF UpdateUpstreams
<1>5. buf = Nothing => emitted'[d] = 0 /\ newest'[d] = [u \in Up |-> 0]
  OBVIOUS
<1> HIDE DEF b, U
<1>6. CASE buf = Nothing
  <2>1. buffers'[d] = Nothing
    BY <1>6, <1>2, <1>3
  <2>2. MergeWatermarks(d)'
    BY <2>1, <1>1, <1>2, <1>5, <1>6 DEF MergeWatermarks, Fresh
  <2> QED BY <2>1, <2>2, <1>2, <1>3, <1>6
<1>7. CASE buf # Nothing /\ d \notin MergeUpdates(n)
  <2>1. buffers'[d] = buf /\ upstreams'[d] = upstreams[d] /\ buf # Nothing
    BY <1>2, <1>3, <1>4, <1>7
  <2>2. MergeWatermarks(d)'
    BY <2>1, <1>2 DEF MergeWatermarks
  <2> QED BY <2>1, <2>2, <1>2, <1>3
<1>8. CASE buf # Nothing /\ d \in MergeUpdates(n)
  <2>1. Drawn(b) /\ U # {} /\ b \in [U -> Seq(Nat)] /\ DOMAIN b = U
    BY <1>3, <1>8
  <2>2. b # Nothing
    BY <2>1, <1>1
  <2>3. emitted'[d] = 0 /\ newest'[d] = [u \in Up |-> 0] /\ U \subseteq Up
    BY <1>8, MergeAfter DEF U
  <2>4. Settled(b, newest'[d], emitted'[d])
    <3>1. Buffer(<<>>, 0, 0)
      BY DEF Buffer, Rising
    <3>2. \A u \in U : newest'[d][u] = 0 /\ b[u] = <<>>
      BY <2>1, <2>3 DEF Drawn
    <3> QED BY <3>1, <3>2, <2>1, <2>3 DEF Settled
  <2>5. MergeWatermarks(d)'
    BY <2>1, <2>2, <2>4, <1>2 DEF MergeWatermarks
  <2>6. \A S : Covered(S, b)
    BY <2>1 DEF Covered, Drawn
  <2> QED BY <2>5, <2>6, <1>2, <1>3
<1> QED BY <1>6, <1>7, <1>8

\* A merge that was there before a reschedule clears its buffers at it and only then,
\* whichever fragment is rescheduled: its upstreams are those of the dispatcher updates.
LEMMA ClearsAtReschedule ==
  ASSUME IInv, NEW d \in Down, state[d] = "running", NEW n, n = passed[d] + 1, n <= issued.down
  PROVE  /\ ClearsWatermarks(d, n) => plan[n] # plan[n - 1]
         /\ plan[n] # plan[n - 1] /\ d \in plan[passed[d]].down => ClearsWatermarks(d, n)
<1>1. /\ n - 1 = passed[d] /\ n \in 1..Len(plan) /\ n - 1 \in 1..Len(plan) /\ DownState(d)
      /\ plan \in Plans
  BY BasicTypes DEF DownState
<1>2. /\ plan[n] \in Config /\ plan[n - 1] \in Config
  BY <1>1 DEF Plans
<1>3. ClearsWatermarks(d, n) => plan[n] # plan[n - 1]
  BY DEF ClearsWatermarks, MergeUpdates, DispatcherUpdates
<1>4. ASSUME plan[n] # plan[n - 1], d \in plan[n - 1].down PROVE ClearsWatermarks(d, n)
  <2>1. upstreams[d] = plan[n - 1].up
    BY <1>1, <1>4 DEF DownState
  <2>2. plan[n - 1].up # {}
    BY <1>2 DEF Config
  <2>3. CASE plan[n].down # plan[n - 1].down \/ plan[n].map # plan[n - 1].map
    BY <2>1, <2>2, <2>3 DEF ClearsWatermarks, DispatcherUpdates
  <2>4. CASE plan[n].down = plan[n - 1].down /\ plan[n].map = plan[n - 1].map
    <3>1. plan[n].up # plan[n - 1].up
      BY <2>4, <1>2, <1>4 DEF Config
    <3>2. d \in MergeUpdates(n)
      BY <3>1, <2>4, <1>4 DEF MergeUpdates, Removed
    <3> QED BY <3>2 DEF ClearsWatermarks
  <2> QED BY <2>3, <2>4
<1> QED BY <1>1, <1>3, <1>4

\* A merge that has passed a barrier and still runs is there in the epoch.
LEMMA PassedIsThere ==
  ASSUME IInv, NEW d \in Down, state[d] = "running", passed[d] < issued.down, NEW n, n = passed[d] + 1,
         NEW buf, PassBarrier(d, n, buf), UNCHANGED plan, buffers \in [Down -> Buffered], Untouched
  PROVE  Untouched'
<1>1. Types
  BY DEF IInv
<1>2. /\ d \in Dropped(n) <=> d \in plan[n - 1].down /\ d \notin plan[n].down
      /\ d \in plan[n - 1].down \/ d \in plan[n].down
  BY MergeAfter
<1>3. /\ passed'[d] = n /\ state'[d] = IF d \in Dropped(n) THEN "exited" ELSE "running"
      /\ \A y \in Down \ {d} : /\ passed'[y] = passed[y] /\ state'[y] = state[y]
                               /\ buffers'[y] = buffers[y]
  BY <1>1 DEF PassBarrier, Types
<1> QED BY <1>2, <1>3 DEF Untouched

\* No step gives a watermark to a merge that is yet to pass its first barrier.
LEMMA NextUntouched ==
  IInv /\ WInv /\ Untouched /\ [Next]_vars => Untouched'
<1> SUFFICES ASSUME IInv, WInv, Untouched, [Next]_vars PROVE Untouched'
  OBVIOUS
<1> USE BasicTypes
<1>0. Types /\ WatermarkTypes /\ Up \cap Down = {}
  BY RescheduleAssumption DEF IInv, WInv
<1>1. CASE NewBarrier \/ \E c \in Targets : RescheduleFragment(c)
  <2>1. UNCHANGED <<state, passed, buffers>> /\ \E c : plan' = Append(plan, c)
    BY <1>1 DEF NewBarrier, RescheduleFragment, downVars
  <2>2. \A k \in 1..Len(plan) : plan'[k] = plan[k]
    BY <2>1 DEF Plans
  <2>3. \A d \in Down : state[d] = "running" => passed[d] \in 1..Len(plan)
    BY DEF DownState
  <2> QED BY <2>1, <2>2, <2>3 DEF Untouched
<1>2. CASE IssueUp
  <2>1. issued.up + 1 \in 1..Len(plan)
    BY <1>2 DEF IssueUp
  <2>2. plan[issued.up + 1].up \subseteq Up
    BY <2>1, PlanFields
  <2>3. \A d \in Down : d \notin Added(issued.up + 1, "up")
    BY <2>2, <1>0 DEF Added
  <2>4. \A d \in Down : state'[d] = state[d] /\ passed'[d] = passed[d]
    BY <2>3, <1>2 DEF IssueUp
  <2>5. UNCHANGED <<plan, buffers>>
    BY <1>2 DEF IssueUp, downVars
  <2> QED BY <2>4, <2>5 DEF Untouched
<1>3. CASE IssueDown
  <2>1. \A d \in Added(issued.down + 1, "down") \cap Down : buffers[d] = Nothing
    BY <1>3, AddedHasNone DEF IssueDown
  <2>2. \A d \in Down : d \in Added(issued.down + 1, "down") \/ (state'[d] = state[d] /\ passed'[d] = passed[d])
    BY <1>3 DEF IssueDown
  <2>3. UNCHANGED <<plan, buffers>>
    BY <1>3 DEF IssueDown
  <2> QED BY <2>1, <2>2, <2>3 DEF Untouched
<1>4. CASE \/ \E u \in Up, v \in VNode : DispatchRow(u, v)
           \/ \E u \in Up, w \in 1..MaxWatermark : DispatchWatermark(u, w)
           \/ \E d \in Down, u \in Up : ReceiveRow(d, u) \/ ReceiveBarrier(d, u)
           \/ UNCHANGED vars
  <2>1. UNCHANGED <<plan, state, passed, buffers>>
    BY <1>4 DEF DispatchRow, DispatchWatermark, ReceiveRow, ReceiveBarrier, vars, downVars
  <2> QED BY <2>1 DEF Untouched
<1>5. CASE \E u \in Up : DispatchBarrier(u)
  <2>1. PICK u \in Up : DispatchBarrier(u)
    BY <1>5
  <2>2. UNCHANGED <<plan, buffers>> /\ \A d \in Down : state'[d] = state[d] /\ passed'[d] = passed[d]
    BY <2>1, <1>0 DEF DispatchBarrier, downVars, Types
  <2> QED BY <2>2 DEF Untouched
<1>6. CASE \E d \in Down : AlignBarrier(d)
  <2>1. PICK d \in Down : AlignBarrier(d)
    BY <1>6
  <2> DEFINE n == passed[d] + 1
  <2>2. state[d] = "running" /\ n <= issued.down /\ UNCHANGED plan
    BY <2>1 DEF AlignBarrier
  <2>3. CASE d \in MergeUpdates(n) /\ Added(n, "up") # {}
    <3>1. UNCHANGED <<state, passed>> /\ buffers' = [buffers EXCEPT ![d] = Cleared(d, n)]
      BY <2>1, <2>3 DEF AlignBarrier
    <3>2. d \in plan[passed[d]].down
      BY <2>2, <2>3 DEF MergeUpdates
    <3>3. \A y \in Down \ {d} : buffers'[y] = buffers[y]
      BY <3>1, <1>0 DEF WatermarkTypes
    <3> QED BY <3>1, <3>2, <3>3, <2>2 DEF Untouched
  <2>4. CASE ~(d \in MergeUpdates(n) /\ Added(n, "up") # {})
    <3>1. PassBarrier(d, n, Cleared(d, n))
      BY <2>1, <2>4 DEF AlignBarrier
    <3>2. passed[d] < issued.down /\ buffers \in [Down -> Buffered]
      BY <2>2, <1>0 DEF WatermarkTypes
    <3> HIDE DEF n
    <3> QED BY <3>1, <3>2, <2>2, PassedIsThere DEF n
  <2> QED BY <2>3, <2>4
<1>7. CASE \E d \in Down, u \in Up : ReceiveWatermark(d, u)
  <2>1. PICK d \in Down, u \in Up : ReceiveWatermark(d, u)
    BY <1>7
  <2>2. /\ state[d] = "running" /\ adding[d] = {} /\ u \in Active(d)
        /\ chan[u][d] # <<>> /\ Head(chan[u][d]).type = "watermark"
        /\ UNCHANGED <<plan, state, passed>>
        /\ \A y \in Down \ {d} : buffers'[y] = buffers[y]
    BY <2>1, <1>0 DEF ReceiveWatermark, Polled, WatermarkTypes
  <2>3. ASSUME d \notin plan[passed[d]].down PROVE FALSE
    <3>1. /\ Read(d, u) = passed[d] /\ passed[d] >= 1
          /\ \E m \in 1..Len(plan) : m \in {passed[d], passed[d] + 1} /\ Linked(plan, u, d, m)
      BY <2>2, PolledIsLinked
    <3>2. /\ ~Linked(plan, u, d, passed[d]) /\ Linked(plan, u, d, passed[d] + 1)
          /\ passed[d] + 1 <= Len(plan)
      BY <3>1, <2>3 DEF Linked
    <3>3. /\ Content(plan, chan[u][d], passed[u], passed[d], u, d) /\ chan[u][d] \in Seq(Msg)
          /\ passed[u] \in 0..Len(plan) /\ passed[d] \in Nat
      BY <3>1 DEF Channel
    <3>4. Head(chan[u][d]) = Barrier(passed[d] + 1)
      BY <3>1, <3>2, <3>3, <2>2, FirstIsBarrier
    <3> QED BY <3>4, <2>2 DEF Barrier
  <2> QED BY <2>2, <2>3 DEF Untouched
<1>8. CASE \E d \in Down, u \in Up : ReceiveFirstBarrier(d, u)
  <2>1. PICK d \in Down, u \in Up : ReceiveFirstBarrier(d, u)
    BY <1>8
  <2>2. state[d] = "running" /\ adding[d] # {} /\ UNCHANGED plan
    BY <2>1 DEF ReceiveFirstBarrier
  <2>3. CASE adding[d] = {u}
    <3>1. PassBarrier(d, passed[d] + 1, buffers[d])
      BY <2>1, <2>3 DEF ReceiveFirstBarrier
    <3>2. passed[d] < issued.down /\ buffers \in [Down -> Buffered]
      BY <2>2, <1>0 DEF DownState, WatermarkTypes
    <3> QED BY <3>1, <3>2, <2>2, PassedIsThere
  <2>4. CASE adding[d] # {u}
    <3>1. UNCHANGED <<state, passed, buffers>>
      BY <2>1, <2>4 DEF ReceiveFirstBarrier
    <3> QED BY <3>1, <2>2 DEF Untouched
  <2> QED BY <2>3, <2>4
<1> QED BY <1>1, <1>2, <1>3, <1>4, <1>5, <1>6, <1>7, <1>8 DEF Next, Progress

\* All barriers have come: a merge clears its buffers if it must, and passes the barrier on
\* unless it waits for added upstreams.
LEMMA AlignBarrierWInv ==
  ASSUME IInv, WInv, Untouched, NEW d \in Down, AlignBarrier(d)
  PROVE  WInv'
<1> DEFINE n == passed[d] + 1
           clears == ClearsWatermarks(d, n)
           resets == plan[n] # plan[n - 1]
           waits == d \in MergeUpdates(n) /\ Added(n, "up") # {}
           buf == Cleared(d, n)
<1>1. /\ state[d] = "running" /\ adding[d] = {} /\ n <= issued.down
      /\ resets => /\ emitted' = [emitted EXCEPT ![d] = 0]
                   /\ newest' = [newest EXCEPT ![d] = [u \in Up |-> 0]]
      /\ ~resets => UNCHANGED <<emitted, newest>>
      /\ waits => /\ adding' = [adding EXCEPT ![d] = Added(n, "up")]
                  /\ buffers' = [buffers EXCEPT ![d] = buf]
                  /\ UNCHANGED <<upstreams, state>>
      /\ ~waits => PassBarrier(d, n, buf) /\ UNCHANGED adding
      /\ UNCHANGED <<chan, watermark, watermarks>>
  BY DEF AlignBarrier, upVars
<1>2. Types /\ WatermarkTypes /\ MergeWatermarks(d) /\ passed[d] < issued.down
  BY <1>1, BasicTypes DEF IInv, WInv
<1>3. /\ newest \in [Down -> [Up -> Nat]] /\ emitted \in [Down -> Nat] /\ buffers \in [Down -> Buffered]
      /\ DOMAIN Nothing = {}
  BY <1>2 DEF WatermarkTypes, Nothing
<1>4. /\ d \in MergeUpdates(n) => clears
      /\ clears => resets
      /\ resets => clears \/ buffers[d] = Nothing
  <2>1. d \in MergeUpdates(n) => clears
    BY DEF ClearsWatermarks
  <2>2. /\ clears => resets
        /\ resets /\ d \in plan[passed[d]].down => clears
    BY <1>1, ClearsAtReschedule
  <2>3. d \notin plan[passed[d]].down => buffers[d] = Nothing
    BY <1>1 DEF Untouched
  <2> HIDE DEF resets, clears
  <2> QED BY <2>1, <2>2, <2>3
<1>5. buf = IF clears THEN [u \in DOMAIN buffers[d] |-> <<>>] ELSE buffers[d]
  BY DEF Cleared
<1> HIDE DEF n, clears, resets, waits, buf
<1>6. /\ newest' \in [Down -> [Up -> Nat]] /\ emitted' \in [Down -> Nat]
      /\ resets => emitted'[d] = 0 /\ newest'[d] = [u \in Up |-> 0]
      /\ ~resets => emitted'[d] = emitted[d] /\ newest'[d] = newest[d]
      /\ \A y \in Down \ {d} : emitted'[y] = emitted[y] /\ newest'[y] = newest[y]
  <2>1. CASE resets
    <3> DEFINE zero == [u \in Up |-> 0]
    <3>1. /\ emitted' = [emitted EXCEPT ![d] = 0] /\ newest' = [newest EXCEPT ![d] = zero]
          /\ zero \in [Up -> Nat]
      BY <2>1, <1>1
    <3> HIDE DEF zero
    <3>2. /\ newest' \in [Down -> [Up -> Nat]] /\ newest'[d] = zero
          /\ \A y \in Down \ {d} : newest'[y] = newest[y]
      BY <3>1, <1>3
    <3>3. /\ emitted' \in [Down -> Nat] /\ emitted'[d] = 0
          /\ \A y \in Down \ {d} : emitted'[y] = emitted[y]
      BY <3>1, <1>3
    <3> QED BY <3>2, <3>3, <2>1 DEF zero
  <2>2. CASE ~resets
    BY <2>2, <1>1, <1>3
  <2> QED BY <2>1, <2>2
<1>7. ASSUME NEW u \in Up, NEW y \in Down
      PROVE  newest'[y][u] = newest[y][u] \/ newest'[y][u] = 0
  BY <1>6
<1>8. /\ buf \in Buffered /\ DOMAIN buf = DOMAIN buffers[d]
      /\ clears => Drawn(buf)
      /\ ~clears => buf = buffers[d]
      /\ \A S : Covered(S, buffers[d]) => Covered(S, buf)
  <2>1. PICK U \in SUBSET Up : buffers[d] \in [U -> Seq(Nat)]
    BY <1>3 DEF Buffered
  <2>2. CASE clears
    <3>1. buf = [u \in U |-> <<>>]
      BY <2>1, <2>2, <1>5
    <3>2. <<>> \in Seq(Nat)
      OBVIOUS
    <3>3. buf \in [U -> Seq(Nat)] /\ \A u \in U : buf[u] = <<>>
      BY <3>1, <3>2
    <3> QED BY <3>3, <2>1, <2>2 DEF Buffered, Drawn, Covered
  <2>3. CASE ~clears
    BY <2>3, <1>3, <1>5
  <2> QED BY <2>2, <2>3
<1>9. buf = Nothing <=> buffers[d] = Nothing
  <2>1. \A b \in Buffered : DOMAIN b = {} => b = Nothing
    BY DEF Buffered, Nothing
  <2> QED BY <2>1, <1>3, <1>8
<1>10. /\ buf # Nothing => DOMAIN buf = upstreams[d] /\ Settled(buf, newest'[d], emitted'[d])
       /\ buf = Nothing => emitted'[d] = 0 /\ newest'[d] = [u \in Up |-> 0]
  <2>1. CASE ~resets
    BY <2>1, <1>1, <1>2, <1>4, <1>6, <1>8 DEF MergeWatermarks, Fresh
  <2>2. CASE clears
    <3>1. emitted'[d] = 0 /\ newest'[d] = [u \in Up |-> 0] /\ Drawn(buf)
      BY <2>2, <1>4, <1>6, <1>8
    <3>2. ASSUME buf # Nothing PROVE DOMAIN buf = upstreams[d] /\ DOMAIN buf # {}
      BY <3>2, <1>1, <1>2, <1>8, <1>9 DEF MergeWatermarks, Settled
    <3>3. upstreams[d] \subseteq Up
      BY <1>2 DEF Types
    <3>4. Buffer(<<>>, 0, 0)
      BY DEF Buffer, Rising
    <3> QED BY <3>1, <3>2, <3>3, <3>4 DEF Settled, Drawn
  <2>3. CASE resets /\ ~clears
    BY <2>3, <1>4, <1>6, <1>9
  <2> QED BY <2>1, <2>2, <2>3
<1>11. d \in MergeUpdates(n) => emitted'[d] = 0 /\ newest'[d] = [u \in Up |-> 0] /\ Drawn(buf)
  BY <1>4, <1>6, <1>8
<1>12. /\ buffers'[d] \in Buffered /\ MergeWatermarks(d)'
       /\ \A S : Covered(S, buffers[d]) => Covered(S, buffers'[d])
       /\ \A y \in Down \ {d} : /\ buffers'[y] = buffers[y] /\ upstreams'[y] = upstreams[y]
                                /\ state'[y] = state[y] /\ adding'[y] = adding[y]
       /\ DOMAIN buffers' = Down /\ buffers' = [y \in Down |-> buffers'[y]]
  <2>1. CASE waits
    <3>1. /\ buffers'[d] = buf /\ upstreams'[d] = upstreams[d] /\ state'[d] = "running"
          /\ emitted'[d] = 0 /\ newest'[d] = [u \in Up |-> 0] /\ Drawn(buf)
      BY <2>1, <1>1, <1>3, <1>11 DEF waits
    <3>2. MergeWatermarks(d)'
      BY <3>1, <1>8, <1>10 DEF MergeWatermarks, Fresh, Drawn
    <3>3. \A y \in Down \ {d} : buffers'[y] = buffers[y] /\ adding'[y] = adding[y]
      BY <2>1, <1>1, <1>2, <1>3 DEF Types
    <3>4. buffers' = [y \in Down |-> buffers'[y]]
      BY <2>1, <1>1, <1>3
    <3> QED BY <3>1, <3>2, <3>3, <3>4, <2>1, <1>1, <1>8
  <2>2. CASE ~waits
    <3>1. PassBarrier(d, n, buf) /\ UNCHANGED adding /\ adding'[d] = {}
      BY <2>2, <1>1
    <3>2. /\ MergeWatermarks(d)' /\ buffers'[d] \in Buffered
          /\ \A S : Covered(S, buf) => Covered(S, buffers'[d])
          /\ \A y \in Down \ {d} : /\ buffers'[y] = buffers[y] /\ upstreams'[y] = upstreams[y]
                                   /\ state'[y] = state[y]
      BY <3>1, <1>1, <1>2, <1>3, <1>8, <1>10, <1>11, PassedMerge DEF n
    <3>3. buffers' = [y \in Down |-> buffers'[y]]
      BY <3>1, <1>3 DEF PassBarrier
    <3> QED BY <3>1, <3>2, <3>3, <1>8
  <2> QED BY <2>1, <2>2
<1>13. WatermarkTypes'
  <2>1. \A y \in Down : buffers'[y] \in Buffered
    BY <1>3, <1>12
  <2>2. buffers' \in [Down -> Buffered]
    BY <2>1, <1>12
  <2> QED BY <2>2, <1>1, <1>2, <1>6 DEF WatermarkTypes
<1>14. ASSUME NEW y \in Down PROVE MergeWatermarks(y)'
  <2>1. CASE y = d
    BY <2>1, <1>12
  <2>2. CASE y # d
    BY <2>2, <1>6, <1>12, MergeFrame DEF WInv
  <2> QED BY <2>1, <2>2
<1>15. \A u \in Up, y \in Down : Quiet(u, y)
  BY <1>1 DEF Quiet
<1>16. \A S : \A y \in Down : Covered(S, buffers[y]) => Covered(S, buffers'[y])
  BY <1>12
<1> QED BY <1>1, <1>7, <1>13, <1>14, <1>15, <1>16, WatermarkStep

\* A merge that waits for added upstreams has cleared its buffers.
LEMMA ReceiveFirstBarrierWInv ==
  ASSUME IInv, WInv, NEW d \in Down, NEW u \in Up, ReceiveFirstBarrier(d, u)
  PROVE  WInv'
<1> DEFINE n == passed[d] + 1
           last == adding[d] = {u}
<1>1. /\ state[d] = "running" /\ u \in adding[d] /\ chan[u][d] # <<>> /\ Receive(d, u)
      /\ adding' = [adding EXCEPT ![d] = @ \ {u}]
      /\ last => PassBarrier(d, n, buffers[d])
      /\ ~last => UNCHANGED <<upstreams, buffers, state>>
      /\ UNCHANGED <<watermark, watermarks, emitted, newest>>
  BY DEF ReceiveFirstBarrier, upVars
<1>2. Types /\ WatermarkTypes /\ MergeWatermarks(d) /\ DownState(d)
  BY DEF IInv, WInv
<1>3. \A x \in Up, y \in Down : Quiet(x, y)
  BY <1>1, <1>2, ReceiveChan DEF Quiet
<1>4. buffers \in [Down -> Buffered] /\ buffers[d] \in Buffered
  BY <1>2 DEF WatermarkTypes
<1>5. /\ adding'[d] = adding[d] \ {u}
      /\ \A y \in Down \ {d} : adding'[y] = adding[y]
  BY <1>1, <1>2 DEF Types
<1>6. Fresh(d) /\ passed[d] < issued.down
  BY <1>1, <1>2 DEF MergeWatermarks, DownState
<1> HIDE DEF n, last
<1>7. /\ buffers'[d] \in Buffered /\ MergeWatermarks(d)'
      /\ \A S : Covered(S, buffers[d]) => Covered(S, buffers'[d])
      /\ \A y \in Down \ {d} : /\ buffers'[y] = buffers[y] /\ upstreams'[y] = upstreams[y]
                               /\ state'[y] = state[y]
      /\ buffers' = [y \in Down |-> buffers'[y]]
  <2>1. CASE last
    <3>1. PassBarrier(d, n, buffers[d]) /\ adding'[d] = {}
      BY <2>1, <1>1, <1>5 DEF last
    <3>2. /\ buffers[d] # Nothing => /\ DOMAIN buffers[d] = upstreams[d]
                                     /\ Settled(buffers[d], newest'[d], emitted'[d])
          /\ emitted'[d] = 0 /\ newest'[d] = [x \in Up |-> 0] /\ Drawn(buffers[d])
      BY <1>1, <1>2, <1>6 DEF MergeWatermarks, Fresh, Drawn
    <3>3. /\ MergeWatermarks(d)' /\ buffers'[d] \in Buffered
          /\ \A S : Covered(S, buffers[d]) => Covered(S, buffers'[d])
          /\ \A y \in Down \ {d} : /\ buffers'[y] = buffers[y] /\ upstreams'[y] = upstreams[y]
                                   /\ state'[y] = state[y]
      BY <3>1, <3>2, <1>1, <1>4, <1>6, PassedMerge DEF n
    <3>4. buffers' = [y \in Down |-> buffers'[y]]
      BY <3>1, <1>4 DEF PassBarrier
    <3> QED BY <3>3, <3>4
  <2>2. CASE ~last
    <3>1. UNCHANGED <<upstreams, buffers, state, emitted, newest>>
      BY <2>2, <1>1
    <3>2. MergeWatermarks(d)'
      BY <3>1, <1>1, <1>2, <1>6 DEF MergeWatermarks, Fresh
    <3> QED BY <3>1, <3>2, <1>4
  <2> QED BY <2>1, <2>2
<1>8. WatermarkTypes'
  <2>1. \A y \in Down : buffers'[y] \in Buffered
    BY <1>4, <1>7
  <2>2. buffers' \in [Down -> Buffered]
    BY <2>1, <1>7
  <2> QED BY <2>2, <1>1, <1>2 DEF WatermarkTypes
<1>9. ASSUME NEW y \in Down PROVE MergeWatermarks(y)'
  <2>1. CASE y = d
    BY <2>1, <1>7
  <2>2. CASE y # d
    BY <2>2, <1>1, <1>5, <1>7, MergeFrame DEF WInv
  <2> QED BY <2>1, <2>2
<1>10. \A S : \A y \in Down : Covered(S, buffers[y]) => Covered(S, buffers'[y])
  BY <1>7
<1> QED BY <1>1, <1>3, <1>8, <1>9, <1>10, WatermarkStep

-----------------------------------------------------------------------------
\* No step leaves the invariant of the watermarks.
LEMMA NextWInv ==
  IInv /\ WInv /\ Untouched /\ [Next]_vars => WInv'
<1> SUFFICES ASSUME IInv, WInv, Untouched, [Next]_vars PROVE WInv'
  OBVIOUS
<1>1. CASE NewBarrier \/ \E c \in Targets : RescheduleFragment(c)
  BY <1>1, NewEpochWInv
<1>2. CASE IssueUp
  BY <1>2, IssueUpWInv
<1>3. CASE IssueDown
  BY <1>3, IssueDownWInv
<1>4. CASE \E u \in Up, v \in VNode : DispatchRow(u, v)
  BY <1>4, DispatchRowWInv
<1>5. CASE \E u \in Up, w \in 1..MaxWatermark : DispatchWatermark(u, w)
  BY <1>5, DispatchWatermarkWInv, RescheduleAssumption
<1>6. CASE \E u \in Up : DispatchBarrier(u)
  BY <1>6, DispatchBarrierWInv
<1>7. CASE \E d \in Down : AlignBarrier(d)
  BY <1>7, AlignBarrierWInv
<1>8. CASE \E d \in Down, u \in Up : ReceiveRow(d, u) \/ ReceiveBarrier(d, u)
  BY <1>8, ReceiveOtherWInv
<1>9. CASE \E d \in Down, u \in Up : ReceiveWatermark(d, u)
  BY <1>9, ReceiveWatermarkWInv
<1>10. CASE \E d \in Down, u \in Up : ReceiveFirstBarrier(d, u)
  BY <1>10, ReceiveFirstBarrierWInv
<1>11. CASE UNCHANGED vars
  <2>1. UNCHANGED <<state, chan, watermark, watermarks, upstreams, adding, buffers, emitted, newest>>
    BY <1>11 DEF vars, upVars, downVars
  <2>2. \A u \in Up, d \in Down : Quiet(u, d)
    BY <2>1 DEF Quiet
  <2> QED BY <2>1, <2>2, QuietStep
<1> QED BY <1>1, <1>2, <1>3, <1>4, <1>5, <1>6, <1>7, <1>8, <1>9, <1>10, <1>11 DEF Next, Progress

\* What a merge has emitted since the last reschedule of either fragment is the minimum of
\* the newest watermarks its upstreams have sent since then, and each upstream has its buffer,
\* through any sequence of reschedules (handle_watermark, check_watermark_heap, clear,
\* add_upstreams_from, remove_upstreams).
THEOREM MergeEmitsMinimum ==
  Spec => []WatermarkIsMinimum
<1>1. IInv /\ WInv /\ Untouched /\ [Next]_vars => (IInv /\ WInv /\ Untouched)'
  BY NextIInv, NextWInv, NextUntouched
<1>2. IInv /\ WInv => WatermarkIsMinimum
  BY MinimumFromWInv
<1>3. Init => Untouched
  BY DEF Init, Untouched
<1> QED BY <1>1, <1>2, <1>3, InitIInv, InitWInv, PTL DEF Spec

=============================================================================
