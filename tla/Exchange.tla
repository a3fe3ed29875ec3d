------------------------------ MODULE Exchange ------------------------------
(***************************************************************************)
(* One edge between an upstream and a downstream actor: the permit-based   *)
(* exchange channel.  A sender takes permits of two semaphores (rows and   *)
(* barriers) for each message; a local receiver gives them back when it    *)
(* takes the message, a remote one through the exchange service, with the  *)
(* permits of rows given back in batches.                                  *)
(*                                                                         *)
(* Modelled: stream/src/executor/exchange/permit.rs, LocalInput and        *)
(* RemoteInput of exchange/input.rs, and get_stream_impl of                *)
(* compute/src/rpc/service/exchange_service.rs.  A message is its kind and *)
(* its permits; both directions of the gRPC stream are reliable and        *)
(* ordered until the connection is lost.                                   *)
(***************************************************************************)
EXTENDS Integers, Sequences

CONSTANTS
  InitialPermits,      \* exchange_initial_permits
  BatchedPermits,      \* exchange_batched_permits
  ConcurrentBarriers,  \* exchange_concurrent_barriers
  Cardinalities,       \* numbers of rows a chunk may have
  MaxMessages          \* bound: messages sent

\* channel() computes initial_permits - batched_permits in usize, and clamp
\* panics unless the difference is at least 1.
ASSUME PermitsAssumption ==
  /\ InitialPermits \in Nat /\ BatchedPermits \in Nat
  /\ BatchedPermits < InitialPermits
  /\ ConcurrentBarriers \in Nat \ {0}
  /\ Cardinalities \subseteq Nat
  /\ MaxMessages \in Nat

VARIABLES
  remote,       \* the downstream actor is on another compute node
  sem,          \* available permits of the two semaphores
  closed,       \* the Receiver is dropped, and with it the semaphores closed
  pending,      \* the message of the send() under way, or NoMessage
  sender,       \* "alive", "failed" (send returned an error), "dropped"
  chan,         \* the mpsc channel
  wire,         \* GetStreamResponse messages on their way to the RemoteInput
  back,         \* AddPermits messages on their way to the exchange service
  accumulated,  \* batched_permits_accumulated of the RemoteInput
  input,        \* the LocalInput or RemoteInput: "running", "failed", "dropped"
  link,         \* the gRPC connection is up
  sent,         \* number of messages sent
  \* history: permits taken so far, those of the messages that have left the
  \* channel and that have reached the input, and those given back
  acquired, forwarded, received, returned

transport == <<chan, wire, back, accumulated>>
history   == <<acquired, forwarded, received, returned>>
vars == <<remote, sem, closed, pending, sender, transport, input, link, sent, history>>

\* permits::Value, as permits of both semaphores: Record(p) and Barrier(p).
Permits    == [rec : Nat, bar : Nat]
NoPermits  == [rec |-> 0, bar |-> 0]
Record(p)  == [rec |-> p, bar |-> 0]
Barrier(p) == [rec |-> 0, bar |-> p]
Plus(p, q)  == [rec |-> p.rec + q.rec, bar |-> p.bar + q.bar]
Minus(p, q) == [rec |-> p.rec - q.rec, bar |-> p.bar - q.bar]

\* MessageWithPermits and AddPermits.  upto is history: the total of the
\* permits up to and including this message.
Stamped(p, before) == [permits |-> p, upto |-> Plus(before, p)]
NoMessage == [kind |-> "none", permits |-> NoPermits]

\* Mutant: a chunk may take all permits, batched ones included.
AllPermits == InitialPermits

MaxChunkPermits == InitialPermits - BatchedPermits

Clamp(n, low, high) == IF n < low THEN low ELSE IF n > high THEN high ELSE n

(***************************************************************************)
(* Upstream: Sender                                                        *)
(***************************************************************************)

\* The permits that send() asks for.
ChunkPermits(card) == Record(Clamp(card, 1, MaxChunkPermits))

Message ==
  {[kind |-> "Chunk", permits |-> ChunkPermits(card)] : card \in Cardinalities}
  \cup {[kind |-> "Barrier", permits |-> Barrier(1)],
        [kind |-> "Watermark", permits |-> NoPermits]}

\* The upstream actor calls send(), and waits for acquire_permits.
Send(m) ==
  /\ sender = "alive" /\ pending = NoMessage
  /\ sent < MaxMessages
  /\ sent' = sent + 1
  /\ pending' = m
  /\ UNCHANGED <<remote, sem, closed, sender, transport, input, link, history>>

\* Mutant: barriers do not wait for a permit.
BarriersDoNotWait ==
  /\ pending # NoMessage /\ ~closed
  /\ pending.permits.rec <= sem.rec
  /\ sem' = Minus(sem, pending.permits)
  /\ chan' = Append(chan, Stamped(pending.permits, acquired))
  /\ acquired' = Plus(acquired, pending.permits)
  /\ pending' = NoMessage
  /\ UNCHANGED <<remote, closed, sender, wire, back, accumulated, input, link, sent,
                 forwarded, received, returned>>

\* acquire_permits returns, and the message enters the unbounded channel.
SendAcquired ==
  /\ pending # NoMessage /\ ~closed
  /\ pending.permits.rec <= sem.rec /\ pending.permits.bar <= sem.bar
  /\ sem' = Minus(sem, pending.permits)
  /\ chan' = Append(chan, Stamped(pending.permits, acquired))
  /\ acquired' = Plus(acquired, pending.permits)
  /\ pending' = NoMessage
  /\ UNCHANGED <<remote, closed, sender, wire, back, accumulated, input, link, sent,
                 forwarded, received, returned>>

\* acquire_permits or the channel finds the receive half closed: the message
\* is returned to the caller, whose actor fails.
SendErr ==
  /\ pending # NoMessage /\ closed
  /\ pending' = NoMessage /\ sender' = "failed"
  /\ UNCHANGED <<remote, sem, closed, transport, input, link, sent, history>>

\* The upstream actor stops and drops the Sender, with a send under way or not.
DropSender ==
  /\ sender = "alive"
  /\ sender' = "dropped" /\ pending' = NoMessage
  /\ UNCHANGED <<remote, sem, closed, transport, input, link, sent, history>>

(***************************************************************************)
(* Downstream on the same node: LocalInput and Receiver::recv              *)
(***************************************************************************)
Recv ==
  /\ ~remote /\ input = "running" /\ chan # <<>>
  /\ LET m == Head(chan)
     IN /\ sem' = Plus(sem, m.permits)
        /\ forwarded' = m.upto /\ received' = m.upto /\ returned' = m.upto
  /\ chan' = Tail(chan)
  /\ UNCHANGED <<remote, closed, pending, sender, wire, back, accumulated, input, link,
                 sent, acquired>>

\* Mutant: the end of the channel is not an error.
EndOfChannelIgnored ==
  /\ ~remote /\ input = "running" /\ chan = <<>> /\ sender # "alive"
  /\ closed' = TRUE
  /\ UNCHANGED <<remote, sem, pending, sender, transport, input, link, sent, history>>

\* recv returns None: the input emits an error and drops the Receiver.
LocalInputClosed ==
  /\ ~remote /\ input = "running" /\ chan = <<>> /\ sender # "alive"
  /\ input' = "failed" /\ closed' = TRUE
  /\ UNCHANGED <<remote, sem, pending, sender, transport, link, sent, history>>

(***************************************************************************)
(* Exchange service of the upstream node: get_stream_impl                  *)
(***************************************************************************)

\* The service takes the next message and forwards it with its permits.
RecvRaw ==
  /\ remote /\ ~closed /\ chan # <<>>
  /\ wire' = IF link THEN Append(wire, Head(chan)) ELSE wire
  /\ forwarded' = Head(chan).upto
  /\ chan' = Tail(chan)
  /\ UNCHANGED <<remote, sem, closed, pending, sender, back, accumulated, input, link, sent,
                 acquired, received, returned>>

\* ... or the next AddPermits request.
AddPermits ==
  /\ remote /\ back # <<>> /\ link /\ (closed => input = "running")
  /\ sem' = Plus(sem, Head(back).permits)
  /\ returned' = Head(back).upto
  /\ back' = Tail(back)
  /\ UNCHANGED <<remote, closed, pending, sender, chan, wire, accumulated, input, link, sent,
                 acquired, forwarded, received>>

\* Mutant: the Receiver is dropped with messages left in the channel.
ReceiverEndsEarly ==
  /\ remote /\ ~closed /\ sender # "alive"
  /\ closed' = TRUE
  /\ UNCHANGED <<remote, sem, pending, sender, transport, input, link, sent, history>>

\* recv_raw returns None: the Receiver is dropped.  The select of the two
\* streams goes on waiting for AddPermits.
ReceiverEnds ==
  /\ remote /\ ~closed /\ chan = <<>> /\ sender # "alive"
  /\ closed' = TRUE
  /\ UNCHANGED <<remote, sem, pending, sender, transport, input, link, sent, history>>

\* The downstream is gone: the stream of the service is dropped.
ServiceDropped ==
  /\ remote /\ ~closed /\ (~link \/ input # "running")
  /\ closed' = TRUE
  /\ UNCHANGED <<remote, sem, pending, sender, transport, input, link, sent, history>>

(***************************************************************************)
(* Downstream on another node: RemoteInput                                 *)
(***************************************************************************)

\* Mutant: the permits of barriers are not given back.
BarrierPermitsLost(p) ==
  IF p.rec > 0 /\ accumulated + p.rec >= BatchedPermits
  THEN Record(accumulated + p.rec) ELSE NoPermits

\* Permits of rows are given back when they reach the limit, the permit of a
\* barrier at once.
AddBack(p) ==
  CASE p.rec > 0 -> IF accumulated + p.rec >= BatchedPermits
                    THEN Record(accumulated + p.rec) ELSE NoPermits
    [] p.bar > 0 -> Barrier(p.bar)
    [] OTHER     -> NoPermits

\* What has been given back, or is on its way.
GivenBack == [rec |-> received.rec - accumulated, bar |-> received.bar]

RemoteRecv ==
  /\ remote /\ input = "running" /\ wire # <<>>
  /\ LET m   == Head(wire)
         add == AddBack(m.permits)
     IN /\ accumulated' = (accumulated + m.permits.rec) - add.rec
        /\ back' = IF add # NoPermits /\ link THEN Append(back, Stamped(add, GivenBack)) ELSE back
        /\ received' = m.upto
  /\ wire' = Tail(wire)
  /\ UNCHANGED <<remote, sem, closed, pending, sender, chan, input, link, sent,
                 acquired, forwarded, returned>>

\* The RemoteInput sees that the connection is lost.
RemoteInputErr ==
  /\ remote /\ input = "running" /\ ~link
  /\ input' = "failed"
  /\ UNCHANGED <<remote, sem, closed, pending, sender, transport, link, sent, history>>

\* The connection is lost, with what was on its way.
Disconnect ==
  /\ remote /\ link
  /\ link' = FALSE
  /\ wire' = <<>> /\ back' = <<>>
  /\ UNCHANGED <<remote, sem, closed, pending, sender, chan, accumulated, input, sent, history>>

\* Mutant: dropping the Receiver does not close its semaphores.
DropWithoutClosing ==
  /\ input = "running"
  /\ input' = "dropped"
  /\ UNCHANGED <<remote, sem, closed, pending, sender, transport, link, sent, history>>

\* The downstream actor stops and drops its input; a local one drops the
\* Receiver with it.
DropInput ==
  /\ input = "running"
  /\ input' = "dropped"
  /\ closed' = (closed \/ ~remote)
  /\ UNCHANGED <<remote, sem, pending, sender, transport, link, sent, history>>

Init ==
  /\ remote \in BOOLEAN
  /\ sem = [rec |-> InitialPermits, bar |-> ConcurrentBarriers]
  /\ closed = FALSE
  /\ pending = NoMessage /\ sender = "alive"
  /\ chan = <<>> /\ wire = <<>> /\ back = <<>>
  /\ accumulated = 0
  /\ input = "running" /\ link = TRUE
  /\ sent = 0
  /\ acquired = NoPermits /\ forwarded = NoPermits
  /\ received = NoPermits /\ returned = NoPermits

Upstream   == (\E m \in Message : Send(m)) \/ SendAcquired \/ SendErr \/ DropSender
Downstream == Recv \/ LocalInputClosed \/ RemoteRecv \/ RemoteInputErr \/ DropInput
Service    == RecvRaw \/ AddPermits \/ ReceiverEnds \/ ServiceDropped

Next == Upstream \/ Downstream \/ Service \/ Disconnect

\* Both actors and the service are polled, and the downstream goes on reading
\* its input.  Nothing obliges an actor to stop or a connection to break.
Fairness ==
  /\ WF_vars(SendAcquired) /\ WF_vars(SendErr)
  /\ WF_vars(Recv) /\ WF_vars(LocalInputClosed)
  /\ WF_vars(RemoteRecv) /\ WF_vars(RemoteInputErr)
  /\ WF_vars(RecvRaw) /\ WF_vars(AddPermits)
  /\ WF_vars(ReceiverEnds) /\ WF_vars(ServiceDropped)

Spec == Init /\ [][Next]_vars
FairSpec == Spec /\ Fairness

(***************************************************************************)
(* Properties                                                              *)
(***************************************************************************)
StampedMessage == [permits : Permits, upto : Permits]

\* The type invariant of the channel: both semaphores hold natural numbers of
\* permits, never more than they were created with (the semaphore would let a
\* sender run ahead of the limits, or overflow).
TypeOK ==
  /\ remote \in BOOLEAN /\ closed \in BOOLEAN /\ link \in BOOLEAN
  /\ sem \in [rec : 0..InitialPermits, bar : 0..ConcurrentBarriers]
  /\ pending \in Message \cup {NoMessage}
  /\ sender \in {"alive", "failed", "dropped"}
  /\ chan \in Seq(StampedMessage) /\ wire \in Seq(StampedMessage)
  /\ back \in Seq(StampedMessage)
  /\ accumulated \in Nat
  /\ input \in {"running", "failed", "dropped"}
  /\ sent \in Nat
  /\ acquired \in Permits /\ forwarded \in Permits
  /\ received \in Permits /\ returned \in Permits

\* The permits of the first n messages of q, for each n, and of all of them.
Totals(q) ==
  LET sum[n \in 0..Len(q)] == IF n = 0 THEN NoPermits ELSE Plus(sum[n - 1], q[n].permits)
  IN  sum
Total(q) == Totals(q)[Len(q)]

\* No permit is lost or made up: as long as the edge is up, the permits in the
\* semaphores, with the messages in the channel and on the wire, batched in the
\* RemoteInput and on their way back are those channel() created.
PermitsConserved ==
  link => sem = Minus([rec |-> InitialPermits - accumulated, bar |-> ConcurrentBarriers],
                      Plus(Total(chan), Plus(Total(wire), Total(back))))

\* Sender: "BATCHED_PERMITS is subtracted to avoid deadlock with batching": when
\* nothing is under way in either direction, whatever message the sender waits
\* to send can be sent, although permits are still batched downstream.
NoPermitDeadlock ==
  /\ pending # NoMessage
  /\ link /\ chan = <<>> /\ wire = <<>> /\ back = <<>>
  => pending.permits.rec <= sem.rec /\ pending.permits.bar <= sem.bar

\* send() returns: with Ok once there are enough permits, or with an error
\* because the Receiver was dropped, the connection lost or the input stopped.
SendReturns == (pending # NoMessage) ~> (pending = NoMessage)

\* A message that entered the channel reaches the downstream actor, unless the
\* downstream stops or the connection is lost.
MessagesArrive ==
  (chan # <<>> \/ wire # <<>>) ~> \/ chan = <<>> /\ wire = <<>>
                                  \/ input # "running" \/ ~link

\* ExchangeChannelClosed: "when an actor exits on a significant error, all
\* connected actor will then exit with the `ExchangeChannelClosed` error": once
\* the upstream actor is gone, the input of the downstream actor fails.
UpstreamExitReachesInput == (sender # "alive") ~> (input # "running")

\* The same for an actor on the same node, whose LocalInput sees the end of the
\* channel.
UpstreamExitReachesLocalInput == (sender # "alive" /\ ~remote) ~> (input # "running")
=============================================================================
