----------------------------- MODULE Reschedule -----------------------------
(***************************************************************************)
(* The data plane of a reschedule: an upstream fragment whose actors end   *)
(* in a DispatchExecutor with a hash dispatcher, a downstream fragment     *)
(* whose actors begin with a MergeExecutor, the channels between them, and *)
(* the Update barriers by which meta adds and removes actors of both       *)
(* fragments and moves vnodes, all in one step (stream/src/executor:       *)
(* dispatch.rs, merge.rs, watermark/mod.rs; meta: command.rs, scale.rs).   *)
(*                                                                         *)
(* A barrier is identified with its number n, which is also the epoch that *)
(* it begins; plan[n] is the configuration of that epoch.  The two         *)
(* fragments are on different workers: each worker receives the barriers,  *)
(* with their mutations, from meta at its own time, while the barriers in  *)
(* the channels carry no mutation.  Channels are unbounded here (Exchange  *)
(* models their permits).  Rows and watermarks may come in every epoch:    *)
(* the sources are paused around an Update, but nothing below relies on    *)
(* that.  A row is its vnode, with the epoch in which it was sent as       *)
(* history.                                                                *)
(***************************************************************************)
EXTENDS Naturals, Sequences, SequencesExt, FiniteSetsExt, Functions, TLC

CONSTANTS Up, Down,     \* actors of the two fragments; an id is used once
          VNode,        \* vnodes of the downstream fragment
          First,        \* the configuration of the first epoch
          Targets,      \* configurations that reschedules lead to
          MaxEpoch,     \* bound: barriers
          MaxUpdates,   \* bound: Update barriers
          MaxRows,      \* bound: rows, in a behaviour without watermarks
          MaxWatermarks,\* bound: watermarks, in a behaviour without rows
          MaxWatermark  \* bound: values of watermarks

Mapping(D) == {m \in [VNode -> D] : \A d \in D : \E v \in VNode : m[v] = d}

Config ==
  {c \in [up : (SUBSET Up) \ {{}}, down : (SUBSET Down) \ {{}}, map : [VNode -> Down]] :
     c.map \in Mapping(c.down)}

ASSUME RescheduleAssumption ==
  /\ Up \cap Down = {}
  /\ First \in Config /\ Targets \subseteq Config
  /\ MaxEpoch \in Nat /\ MaxUpdates \in Nat /\ MaxRows \in Nat
  /\ MaxWatermarks \in Nat /\ MaxWatermark \in Nat

VARIABLES
  plan,       \* the configuration of each epoch that meta has begun
  issued,     \* barriers the worker of each fragment has received
  state,      \* of an actor: "none", "running" or "exited"
  passed,     \* the last barrier an actor has passed
  outputs,    \* outputs of the dispatcher of an upstream actor
  hashMapping,\* its hash_mapping
  watermark,  \* the last watermark it has dispatched
  chan,       \* chan[u][d]: messages on their way
  upstreams,  \* SelectReceivers of a merge: active and blocked upstreams
  blocked,    \* its blocked upstreams
  adding,     \* select_new: added upstreams, while the merge waits for their first barrier
  buffers,    \* BufferedWatermarks, by upstream; empty until the first watermark
  emitted,    \* history: the watermark last emitted since the last reschedule
  newest,     \* history: newest watermark of each upstream since then
  rows,       \* rows so far
  watermarks  \* watermarks so far

upVars == <<outputs, hashMapping, watermark>>
downVars == <<upstreams, blocked, adding, buffers, emitted, newest>>
vars == <<plan, issued, state, passed, chan, rows, watermarks, upVars, downVars>>

Row(v, n)   == [type |-> "row", vnode |-> v, value |-> n]
Watermark(w) == [type |-> "watermark", value |-> w]
Barrier(n)  == [type |-> "barrier", value |-> n]

Nothing == [x \in {} |-> x]

-----------------------------------------------------------------------------
\* The command.  Fields of the mutation of barrier n, derived from two configurations.

Added(n, f)   == plan[n][f] \ plan[n - 1][f]
Removed(n, f) == plan[n - 1][f] \ plan[n][f]

\* dropped_actors
Dropped(n) == Removed(n, "up") \cup Removed(n, "down")

\* The actors that have a dispatcher update: all upstream actors before the reschedule,
\* those that it removes included.
DispatcherUpdates(n) ==
  IF plan[n].down # plan[n - 1].down \/ plan[n].map # plan[n - 1].map
  THEN plan[n - 1].up ELSE {}

\* Mutant: downstream actors that are removed get the update too.
MergeUpdatesForAll(n) == IF plan[n].up # plan[n - 1].up THEN plan[n - 1].down ELSE {}

\* The actors that have a merge update: "Downstream removed actors should be skipped".
MergeUpdates(n) ==
  IF plan[n].up # plan[n - 1].up THEN plan[n - 1].down \ Removed(n, "down") ELSE {}

-----------------------------------------------------------------------------
\* Meta

\* A periodic barrier.
NewBarrier ==
  /\ Len(plan) < MaxEpoch
  /\ plan' = Append(plan, Last(plan))
  /\ UNCHANGED <<issued, state, passed, chan, rows, watermarks, upVars, downVars>>

\* A RescheduleFragment command.  The ids of added actors are new.
RescheduleFragment(c) ==
  /\ Len(plan) < MaxEpoch
  /\ c # Last(plan)
  /\ Cardinality({n \in 2..Len(plan) : plan[n] # plan[n - 1]}) < MaxUpdates
  /\ \A n \in DOMAIN plan : \A f \in {"up", "down"} :
       (c[f] \ Last(plan)[f]) \cap plan[n][f] = {}
  /\ plan' = Append(plan, c)
  /\ UNCHANGED <<issued, state, passed, chan, rows, watermarks, upVars, downVars>>

\* A worker gets the next barrier and builds the actors it adds.  A new actor has the
\* upstreams, the outputs and the mapping after the reschedule.
IssueUp ==
  LET n == issued.up + 1
      new == Added(n, "up")
  IN  /\ n <= Len(plan)
      /\ issued' = [issued EXCEPT !.up = n]
      /\ state' = [a \in Up \cup Down |-> IF a \in new THEN "running" ELSE state[a]]
      /\ passed' = [a \in Up \cup Down |-> IF a \in new THEN n - 1 ELSE passed[a]]
      /\ outputs' = [u \in Up |-> IF u \in new THEN plan[n].down ELSE outputs[u]]
      /\ hashMapping' = [u \in Up |-> IF u \in new THEN plan[n].map ELSE hashMapping[u]]
      /\ UNCHANGED <<plan, watermark, chan, rows, watermarks, downVars>>

IssueDown ==
  LET n == issued.down + 1
      new == Added(n, "down")
  IN  /\ n <= Len(plan)
      /\ issued' = [issued EXCEPT !.down = n]
      /\ state' = [a \in Up \cup Down |-> IF a \in new THEN "running" ELSE state[a]]
      /\ passed' = [a \in Up \cup Down |-> IF a \in new THEN n - 1 ELSE passed[a]]
      /\ upstreams' = [d \in Down |-> IF d \in new THEN plan[n].up ELSE upstreams[d]]
      /\ UNCHANGED <<plan, chan, rows, watermarks, upVars, blocked, adding, buffers, emitted, newest>>

-----------------------------------------------------------------------------
\* DispatchExecutor of an upstream actor

\* The first message of an actor is the barrier that adds it.
Started(u) == state[u] = "running" /\ passed[u] > 0 /\ u \in plan[passed[u]].up

Broadcast(u, D, msg) ==
  chan' = [chan EXCEPT ![u] = [d \in Down |-> IF d \in D THEN Append(@[d], msg) ELSE @[d]]]

\* dispatch_data of the hash dispatcher: the row goes to the output with the actor id
\* of its vnode, if there is one.
DispatchRow(u, v) ==
  /\ Started(u)
  /\ rows < MaxRows /\ watermarks = 0
  /\ Broadcast(u, {hashMapping[u][v]} \cap outputs[u], Row(v, passed[u]))
  /\ rows' = rows + 1
  /\ UNCHANGED <<plan, issued, state, passed, watermarks, upVars, downVars>>

\* dispatch_watermark: "always broadcast watermark"
DispatchWatermark(u, w) ==
  /\ Started(u)
  /\ watermarks < MaxWatermarks /\ rows = 0
  /\ w > watermark[u]
  /\ Broadcast(u, outputs[u], Watermark(w))
  /\ watermark' = [watermark EXCEPT ![u] = w]
  /\ watermarks' = watermarks + 1
  /\ UNCHANGED <<plan, issued, state, passed, rows, outputs, hashMapping, downVars>>

\* pre_mutate_dispatchers
PreMutateDispatchers(u, n) ==
  outputs[u] \cup IF u \in DispatcherUpdates(n) THEN Added(n, "down") ELSE {}

\* Mutant: removed downstream actors stay outputs.
OutputsKept(u, n, outs) == outs

\* post_mutate_dispatchers
PostMutateDispatchers(u, n, outs) == outs \ Removed(n, "down")

\* Mutant: the hash mapping is left as it was.
MappingKept(u, n) == hashMapping[u]

\* post_update_dispatcher: "finally update the hash mapping"
PostUpdateMapping(u, n) == IF u \in DispatcherUpdates(n) THEN plan[n].map ELSE hashMapping[u]

\* dispatch of a barrier: add outputs, broadcast it, remove outputs and set the mapping.
\* An actor that is dropped exits then; its senders are closed.
DispatchBarrier(u) ==
  LET n == passed[u] + 1
      outs == PreMutateDispatchers(u, n)
  IN  /\ state[u] = "running" /\ n <= issued.up
      /\ Broadcast(u, outs, Barrier(n))
      /\ outputs' = [outputs EXCEPT ![u] = PostMutateDispatchers(u, n, outs)]
      /\ hashMapping' = [hashMapping EXCEPT ![u] = PostUpdateMapping(u, n)]
      /\ passed' = [passed EXCEPT ![u] = n]
      /\ state' = [state EXCEPT ![u] = IF u \in Dropped(n) THEN "exited" ELSE @]
      /\ UNCHANGED <<plan, issued, watermark, rows, watermarks, downVars>>

-----------------------------------------------------------------------------
\* BufferedWatermarks.  The first element of a buffer is the one in the heap.

\* One round of the loop of check_watermark_heap.
PopHeap(s) ==
  LET heap == {u \in DOMAIN s.buf : s.buf[u] # <<>>}
      min  == Min({Head(s.buf[u]) : u \in heap})
      id   == CHOOSE u \in heap : Head(s.buf[u]) = min
  IN  IF heap # {} /\ (heap = DOMAIN s.buf \/ s.out = min)
      THEN [buf |-> [s.buf EXCEPT ![id] = Tail(@)], out |-> min]
      ELSE s

\* check_watermark_heap: what is left, and the watermark to emit or 0.
CheckWatermarkHeap(buf) ==
  LET rounds == MaxWatermarks
      loop[k \in 0..rounds] == IF k = 0 THEN [buf |-> buf, out |-> 0] ELSE PopHeap(loop[k - 1])
  IN  loop[rounds]

\* handle_watermark
HandleWatermark(buf, u, w) ==
  IF buf[u] # <<>> THEN [buf |-> [buf EXCEPT ![u] = Append(@, w)], out |-> 0]
  ELSE CheckWatermarkHeap([buf EXCEPT ![u] = <<w>>])

-----------------------------------------------------------------------------
\* MergeExecutor of a downstream actor

Active(d) == upstreams[d] \ blocked[d]

\* A message of an upstream that is polled.
Polled(d, u, type) ==
  /\ state[d] = "running" /\ adding[d] = {}
  /\ u \in Active(d)
  /\ chan[u][d] # <<>> /\ Head(chan[u][d]).type = type

Receive(d, u) == chan' = [chan EXCEPT ![u][d] = Tail(@)]

ReceiveRow(d, u) ==
  /\ Polled(d, u, "row")
  /\ Receive(d, u)
  /\ UNCHANGED <<plan, issued, state, passed, rows, watermarks, upVars, downVars>>

\* SelectReceivers::handle_watermark: the first watermark of a column makes its buffers.
ReceiveWatermark(d, u) ==
  LET w   == Head(chan[u][d]).value
      buf == IF buffers[d] = Nothing THEN [x \in upstreams[d] |-> <<>>] ELSE buffers[d]
      res == HandleWatermark(buf, u, w)
  IN  /\ Polled(d, u, "watermark")
      /\ Receive(d, u)
      /\ buffers' = [buffers EXCEPT ![d] = res.buf]
      /\ emitted' = [emitted EXCEPT ![d] = IF res.out = 0 THEN @ ELSE res.out]
      /\ newest' = [newest EXCEPT ![d][u] = w]
      /\ UNCHANGED <<plan, issued, state, passed, rows, watermarks, upVars, upstreams, blocked, adding>>

\* Mutant: the upstream of a barrier stays active.
BarrierDoesNotBlock(d, u) ==
  /\ Polled(d, u, "barrier")
  /\ Receive(d, u)
  /\ UNCHANGED <<plan, issued, state, passed, rows, watermarks, upVars, downVars>>

\* A barrier blocks its upstream.
ReceiveBarrier(d, u) ==
  /\ Polled(d, u, "barrier")
  /\ Receive(d, u)
  /\ blocked' = [blocked EXCEPT ![d] = @ \cup {u}]
  /\ UNCHANGED <<plan, issued, state, passed, rows, watermarks, upVars, upstreams, adding, buffers,
                 emitted, newest>>

\* Mutant: only the merge update clears, not the rescheduling of its own fragment.
ClearedByMergeUpdate(d, n) == d \in MergeUpdates(n)

\* Watermarks "may become stale" when either fragment is rescheduled.
ClearsWatermarks(d, n) == d \in MergeUpdates(n) \/ upstreams[d] \cap DispatcherUpdates(n) # {}

Cleared(d, n) ==
  IF ClearsWatermarks(d, n) THEN [u \in DOMAIN buffers[d] |-> <<>>] ELSE buffers[d]

\* add_upstreams_from and remove_upstreams, with the buffers of the watermarks.
UpdateUpstreams(d, n, U) ==
  IF d \in MergeUpdates(n) THEN (U \cup Added(n, "up")) \ Removed(n, "up") ELSE U

UpdateBuffers(d, n, buf) ==
  IF buf = Nothing \/ d \notin MergeUpdates(n) THEN buf
  ELSE LET b == [u \in UpdateUpstreams(d, n, DOMAIN buf) |->
                   IF u \in DOMAIN buf THEN buf[u] ELSE <<>>]
       IN  IF Removed(n, "up") = {} THEN b ELSE CheckWatermarkHeap(b).buf

\* The barrier is passed on; a dropped actor exits.
PassBarrier(d, n, buf) ==
  /\ upstreams' = [upstreams EXCEPT ![d] = UpdateUpstreams(d, n, @)]
  /\ buffers' = [buffers EXCEPT ![d] = UpdateBuffers(d, n, buf)]
  /\ passed' = [passed EXCEPT ![d] = n]
  /\ state' = [state EXCEPT ![d] = IF d \in Dropped(n) THEN "exited" ELSE @]

\* All upstreams are blocked and the barrier has come from the worker too.  Added
\* upstreams are waited for before the barrier is passed on.
AlignBarrier(d) ==
  LET n == passed[d] + 1 IN
  /\ state[d] = "running" /\ adding[d] = {}
  /\ Active(d) = {} /\ n <= issued.down
  /\ blocked' = [blocked EXCEPT ![d] = {}]
  /\ IF plan[n] # plan[n - 1]     \* history
     THEN /\ emitted' = [emitted EXCEPT ![d] = 0]
          /\ newest' = [newest EXCEPT ![d] = [u \in Up |-> 0]]
     ELSE UNCHANGED <<emitted, newest>>
  /\ IF d \in MergeUpdates(n) /\ Added(n, "up") # {}
     THEN /\ adding' = [adding EXCEPT ![d] = Added(n, "up")]
          /\ buffers' = [buffers EXCEPT ![d] = Cleared(d, n)]
          /\ UNCHANGED <<upstreams, passed, state>>
     ELSE /\ PassBarrier(d, n, Cleared(d, n))
          /\ UNCHANGED adding
  /\ UNCHANGED <<plan, issued, chan, rows, watermarks, upVars>>

\* expect_first_barrier of the added upstreams; only these are polled meanwhile.
ReceiveFirstBarrier(d, u) ==
  /\ state[d] = "running" /\ u \in adding[d]
  /\ chan[u][d] # <<>>
  /\ Receive(d, u)
  /\ adding' = [adding EXCEPT ![d] = @ \ {u}]
  /\ IF adding[d] = {u} THEN PassBarrier(d, passed[d] + 1, buffers[d])
     ELSE UNCHANGED <<upstreams, buffers, passed, state>>
  /\ UNCHANGED <<plan, issued, rows, watermarks, upVars, blocked, emitted, newest>>

-----------------------------------------------------------------------------
\* Every actor has passed the first barrier.
Init ==
  /\ plan = <<First>>
  /\ issued = [up |-> 1, down |-> 1]
  /\ state = [a \in Up \cup Down |-> IF a \in First.up \cup First.down THEN "running" ELSE "none"]
  /\ passed = [a \in Up \cup Down |-> IF a \in First.up \cup First.down THEN 1 ELSE 0]
  /\ outputs = [u \in Up |-> IF u \in First.up THEN First.down ELSE {}]
  /\ hashMapping = [u \in Up |-> First.map]
  /\ watermark = [u \in Up |-> 0]
  /\ chan = [u \in Up |-> [d \in Down |-> <<>>]]
  /\ upstreams = [d \in Down |-> IF d \in First.down THEN First.up ELSE {}]
  /\ blocked = [d \in Down |-> {}]
  /\ adding = [d \in Down |-> {}]
  /\ buffers = [d \in Down |-> Nothing]
  /\ emitted = [d \in Down |-> 0]
  /\ newest = [d \in Down |-> [u \in Up |-> 0]]
  /\ rows = 0 /\ watermarks = 0

\* What goes on when meta begins no epoch and no row and no watermark comes: requests
\* reach the workers and actors are polled.
Progress ==
  \/ IssueUp \/ IssueDown
  \/ \E u \in Up : DispatchBarrier(u)
  \/ \E d \in Down : \/ AlignBarrier(d)
                     \/ \E u \in Up : \/ ReceiveRow(d, u) \/ ReceiveWatermark(d, u)
                                      \/ ReceiveBarrier(d, u) \/ ReceiveFirstBarrier(d, u)

Next ==
  \/ Progress
  \/ NewBarrier
  \/ \E c \in Targets : RescheduleFragment(c)
  \/ \E u \in Up : \/ \E v \in VNode : DispatchRow(u, v)
                   \/ \E w \in 1..MaxWatermark : DispatchWatermark(u, w)

Spec == Init /\ [][Next]_vars

-----------------------------------------------------------------------------
\* Correctness

\* Whatever the two workers have received and processed, a merge never meets a barrier
\* of another epoch (align_barrier), and the first message of an added upstream is the
\* barrier that adds it ("the first message must be a barrier", "It must be the same as
\* the one we polled from original upstreams").
BarriersAligned ==
  \A d \in Down : state[d] = "running" =>
    /\ \A u \in Active(d) :
         chan[u][d] # <<>> /\ Head(chan[u][d]).type = "barrier" /\ adding[d] = {}
           => Head(chan[u][d]).value = passed[d] + 1
    /\ \A u \in adding[d] : chan[u][d] # <<>> => Head(chan[u][d]) = Barrier(passed[d] + 1)

\* The sender of a channel was taken and is gone.
SenderDropped(u, d) ==
  \/ state[u] = "exited"
  \/ /\ Started(u) /\ d \notin outputs[u]
     /\ \E n \in 1..passed[u] : d \in plan[n].down

\* Nobody uses a channel whose other end is gone (ExchangeChannelClosed): a merge lets
\* go of a removed upstream before it would poll it again, and a dispatcher of a removed
\* downstream before it would send to it again.
ChannelsOpen ==
  /\ \A d \in Down : state[d] = "running" =>
       \A u \in (IF adding[d] = {} THEN Active(d) ELSE adding[d]) :
         chan[u][d] = <<>> => ~SenderDropped(u, d)
  /\ \A u \in Up : state[u] = "running" => \A d \in outputs[u] : state[d] # "exited"

\* Every row reaches the one actor that owns its vnode in the epoch of the row, in that
\* epoch: it is sent by the mapping of the epoch, to an output that exists, and it is in
\* the channel of an actor that has yet to receive it in that epoch and will poll it.
RowsReachOwner ==
  /\ \A u \in Up : Started(u) => \A v \in VNode :
       /\ hashMapping[u][v] = plan[passed[u]].map[v]
       /\ hashMapping[u][v] \in outputs[u]
  /\ \A u \in Up, d \in Down : \A k \in DOMAIN chan[u][d] :
       LET m == chan[u][d][k] IN
       m.type = "row" =>
         /\ plan[m.value].map[m.vnode] = d
         /\ state[d] # "exited" /\ passed[d] <= m.value
         /\ passed[d] = m.value => u \in Active(d)

\* What a merge has emitted since the last reschedule of either fragment is the smallest of
\* the newest watermarks that its upstreams have sent since then, those without one counting
\* as 0: no watermark from before a reschedule, which "may become stale" (merge.rs), is used
\* after it.  And each upstream has its buffer (handle_watermark unwraps it).
WatermarkIsMinimum ==
  \A d \in Down : state[d] = "running" =>
    /\ emitted[d] = Min({newest[d][u] : u \in upstreams[d]})
    /\ buffers[d] # Nothing => DOMAIN buffers[d] = upstreams[d]

\* No barrier is stuck, also when both fragments change at once and the workers are not in
\* step: when both have received all barriers and the upstream actors have dispatched them,
\* some merge can go on until all have passed the last one.  A step of Progress passes a
\* barrier on or uses up a message, so every barrier passes.
NoBarrierStuck ==
  /\ issued.up = Len(plan) /\ issued.down = Len(plan)
  /\ \A u \in Up : state[u] = "running" => passed[u] = Len(plan)
  /\ \E n \in 2..Len(plan) : \E d \in plan[n].down \cup Removed(n, "down") : passed[d] < n
  => ENABLED Progress
=============================================================================
