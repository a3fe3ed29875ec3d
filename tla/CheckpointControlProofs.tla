----------------------- MODULE CheckpointControlProofs -----------------------
(***************************************************************************)
(* Proofs about CheckpointControl, for any databases, workers and jobs,    *)
(* any limit of barriers in flight, any frequency of checkpoints and any   *)
(* number of commands, ticks and failures.                                 *)
(*                                                                         *)
(* The invariant orders the epochs of a database: committed, then in the   *)
(* completing task, then in the queue of barriers, then the one to close   *)
(* next; it says which command may be where, and that what a worker has    *)
(* yet to collect is in the queue and waits for it.                        *)
(***************************************************************************)
EXTENDS CheckpointControl, FiniteSetTheorems, WellFoundedInduction, TLAPS

\* Types.  A task has an info for every database of which it commits a checkpoint.
Info     == [prev : Epoch, epochs : Seq(Epoch)]
TaskType(D) == [stage : {"none", "commit", "post", "finish", "ok", "err"}, infos : [D -> Info],
                notifiers : SUBSET Command, finished : SUBSET Job]
CmdType  == [kind : Kind \cup {"None"}, db : Database \cup {"None"}, job : Job \cup {NoJob}]
Results  == {"none", "removed", "scheduled", "started"} \cup Resolved
Phases   == {"running", "clearing", "recovering", "initializing"}

LoopType ==
  /\ clock \in Nat /\ running \subseteq Database /\ phase \in Phases /\ blocked \in BOOLEAN
  /\ periodic \in [force : BOOLEAN, uncheckpointed : Nat]
  /\ connected \subseteq Worker /\ created \subseteq Job
DbType     == db \in [Database -> DatabaseState] /\ committed \in [Database -> Nat]
TaskOK     == DOMAIN task.infos \subseteq Database /\ task \in TaskType(DOMAIN task.infos)
StreamType == stream \in [Worker -> [Database -> Seq(Nat)]] /\ doneAt \in [Job -> Nat]
CommandType ==
  /\ cmd \in [Command -> CmdType] /\ asked \in [Command -> Nat] /\ result \in [Command -> Results]
  /\ sched \in [Database -> Seq(Command)]

Types == LoopType /\ DbType /\ TaskOK /\ StreamType /\ CommandType

-----------------------------------------------------------------------------
\* The parts of the invariant

\* The barriers of a queue close one epoch after the other.
Chain(q) ==
  /\ \A k \in 1..Len(q) : q[k].prev < q[k].curr
  /\ \A k \in 1..Len(q) : \A j \in 1..(k - 1) : q[j].curr <= q[k].prev

QueueOK(s, now) ==
  /\ Chain(s.queue)
  /\ \A k \in 1..Len(s.queue) : s.queue[k].curr <= s.prev
  /\ s.prev <= now

Idle(s) == Len(s.queue) = 0 /\ ~s.completing.pause

Queues ==
  \A d \in Database : /\ QueueOK(db[d], clock)
                      /\ d \notin running => Idle(db[d])

\* An epoch below all that a database has under way.
Below(e, s) == \A k \in 1..Len(s.queue) : e < s.queue[k].prev

\* What is committed, what the task commits, and what is to be closed.
Commits ==
  \A d \in Database :
    /\ committed[d] <= clock /\ (phase # "recovering" => committed[d] < clock)
    /\ d \in running /\ phase # "clearing" => committed[d] < db[d].prev
    /\ Below(committed[d], db[d])
    /\ d \in DOMAIN task.infos =>
         /\ d \in running
         /\ task.infos[d].prev < db[d].prev /\ Below(task.infos[d].prev, db[d])
         /\ task.stage = "commit" => committed[d] < task.infos[d].prev
         /\ task.stage = "post" => committed[d] = task.infos[d].prev

\* What w has yet to collect of a database with state s is in its queue and waits for w.
StreamOK(w, q, s) ==
  /\ \A i \in 1..Len(q) : \A j \in 1..(i - 1) : q[j] < q[i]
  /\ \A i \in 1..Len(q) : \E k \in 1..Len(s.queue) : s.queue[k].prev = q[i] /\ w \in s.queue[k].wait

Streams == \A w \in Worker, d \in Database : StreamOK(w, stream[w][d], db[d])

\* During a recovery nothing is under way.
Recovery ==
  /\ blocked <=> phase \in {"recovering", "initializing"}
  /\ blocked => task = NoTask /\ \A d \in Database : Idle(db[d])
  /\ phase # "recovering" => \A j \in created : JobDatabase[j] \in running
  /\ \A j \in task.finished : JobDatabase[j] \in running
  /\ \A d \in Database : \A j \in db[d].tracking \cup db[d].stash : JobDatabase[j] = d

\* The commands are numbered, and know their database.
Numbered == \E n \in 0..MaxCommands : {c \in Command : cmd[c].kind # "None"} = 1..n

Placed ==
  \A c \in Command : cmd[c].kind # "None" =>
    /\ cmd[c].db \in Database
    /\ cmd[c].kind \in {"Create", "Drop"} => cmd[c].job \in Job /\ JobDatabase[cmd[c].job] = cmd[c].db

IsFor(c, d) == c \in Command /\ cmd[c].kind # "None" /\ cmd[c].db = d

Scheduled ==
  \A d \in Database : \A i \in 1..Len(sched[d]) :
    /\ IsFor(sched[d][i], d) /\ asked[sched[d][i]] <= clock
    /\ d \in running /\ phase # "clearing" => asked[sched[d][i]] <= db[d].prev
    /\ blocked => cmd[sched[d][i]].kind = "Drop"

NodeOK(n, d) ==
  n.cmd # NoCommand =>
    IsFor(n.cmd, d) /\ asked[n.cmd] <= n.prev /\ (NeedCheckpoint(n.cmd) => IsCheckpoint(n))

Queued == \A d \in Database : \A k \in 1..Len(db[d].queue) : NodeOK(db[d].queue[k], d)

Notified ==
  \A c \in task.notifiers :
    /\ cmd[c].kind # "None" /\ cmd[c].db \in DOMAIN task.infos
    /\ asked[c] <= task.infos[cmd[c].db].prev

Clients ==
  \A c \in Command :
    /\ result[c] = "collected" =>
         /\ cmd[c].kind # "None"
         /\ cmd[c].kind \notin {"Resume", "ConfigResume", "Drop"} => asked[c] <= committed[cmd[c].db]
    /\ result[c] = "removed" => cmd[c].kind = "Drop" /\ asked[c] = 0
    /\ cmd[c].kind = "None" => asked[c] = 0

Commands == Numbered /\ Placed /\ Scheduled /\ Queued /\ Notified /\ Clients

\* No barrier follows a pause for a change of the configuration.
Pauses ==
  /\ \A d, e \in Database : \A i \in 1..Len(db[d].queue), k \in 1..Len(db[e].queue) :
       ShouldPauseInjectBarrier(db[d].queue[i].cmd) => db[e].queue[k].curr <= db[d].queue[i].curr
  /\ \A d \in Database : db[d].completing.pause =>
       /\ Len(db[d].queue) = 0
       /\ \A e \in Database : \A k \in 1..Len(db[e].queue) :
            db[e].queue[k].curr <= db[d].completing.curr

IInv == Types /\ Queues /\ Commits /\ Streams /\ Recovery /\ Commands /\ Pauses

-----------------------------------------------------------------------------
\* The theorems' properties follow from the invariant

LEMMA TypeFromIInv ==
  Types => TypeOK
<1> SUFFICES ASSUME Types PROVE TypeOK
  OBVIOUS
<1>1. /\ clock \in Epoch /\ running \subseteq Database /\ created \subseteq Job /\ connected \subseteq Worker
      /\ periodic \in [force : BOOLEAN, uncheckpointed : Nat] /\ blocked \in BOOLEAN
      /\ phase \in {"running", "clearing", "recovering", "initializing"}
  BY DEF Types, LoopType, Phases, Epoch
<1>2. db \in [Database -> DatabaseState] /\ committed \in [Database -> Epoch]
  BY DEF Types, DbType, Epoch
<1>3. /\ task.stage \in {"none", "commit", "post", "finish", "ok", "err"}
      /\ DOMAIN task.infos \subseteq Database
      /\ task.notifiers \subseteq Command /\ task.finished \subseteq Job
  BY DEF Types, TaskOK, TaskType
<1>4. stream \in [Worker -> [Database -> Seq(Epoch)]] /\ doneAt \in [Job -> Epoch]
  BY DEF Types, StreamType, Epoch
<1>5. /\ sched \in [Database -> Seq(Command)] /\ asked \in [Command -> Epoch]
      /\ result \in [Command -> {"none", "removed", "scheduled", "started"} \cup Resolved]
      /\ \A c \in Command : cmd[c].kind \in Kind \cup {"None"}
  BY DEF Types, CommandType, Epoch, Results, CmdType
<1> QED BY <1>1, <1>2, <1>3, <1>4, <1>5 DEF TypeOK

\* The state of a database and the nodes of its queue.
LEMMA DbFacts ==
  ASSUME NEW s \in DatabaseState
  PROVE  /\ s.prev \in Nat /\ s.pending \in Seq(Nat) /\ s.jobs \subseteq Job /\ s.queue \in Seq(Node)
         /\ s.paused \in {"none", "Manual", "ConfigChange"}
         /\ s.completing \in [prev : Nat, curr : Nat, pause : BOOLEAN]
         /\ s.completing.curr \in Nat /\ s.completing.pause \in BOOLEAN
         /\ s.tracking \subseteq Job /\ s.stash \subseteq Job /\ Len(s.queue) \in Nat
         /\ \A k \in 1..Len(s.queue) :
              /\ s.queue[k] \in Node /\ s.queue[k].prev \in Nat /\ s.queue[k].curr \in Nat
              /\ s.queue[k].cmd \in 0..MaxCommands /\ s.queue[k].epochs \in Seq(Nat)
              /\ s.queue[k].jobs \subseteq Job /\ s.queue[k].wait \subseteq Worker
              /\ s.queue[k].done \subseteq Job
<1>1. /\ s.prev \in Nat /\ s.pending \in Seq(Nat) /\ s.jobs \subseteq Job /\ s.queue \in Seq(Node)
      /\ s.paused \in {"none", "Manual", "ConfigChange"}
      /\ s.completing \in [prev : Nat, curr : Nat, pause : BOOLEAN]
      /\ s.tracking \subseteq Job /\ s.stash \subseteq Job
  BY DEF DatabaseState, Epoch
<1>2. Len(s.queue) \in Nat /\ \A k \in 1..Len(s.queue) : s.queue[k] \in Node
  BY <1>1
<1>3. \A n \in Node : /\ n.prev \in Nat /\ n.curr \in Nat /\ n.cmd \in 0..MaxCommands
                      /\ n.epochs \in Seq(Nat) /\ n.jobs \subseteq Job /\ n.wait \subseteq Worker
                      /\ n.done \subseteq Job
  BY DEF Node, Epoch
<1> QED BY <1>1, <1>2, <1>3

LEMMA CommittedFromIInv ==
  IInv => CommittedIsCollected
<1> SUFFICES ASSUME IInv, NEW w \in Worker, NEW d \in Database, NEW i \in 1..Len(stream[w][d])
             PROVE  stream[w][d][i] > committed[d]
  BY DEF CommittedIsCollected
<1>1. PICK k \in 1..Len(db[d].queue) : db[d].queue[k].prev = stream[w][d][i]
  BY DEF IInv, Streams, StreamOK
<1>2. committed[d] < db[d].queue[k].prev
  BY DEF IInv, Commits, Below
<1>3. committed[d] \in Nat /\ db[d] \in DatabaseState
  BY DEF IInv, Types, DbType
<1> QED BY <1>1, <1>2, <1>3, DbFacts

LEMMA DurableFromIInv ==
  IInv => CollectedIsDurable
<1> SUFFICES ASSUME IInv, NEW c \in Command, result[c] = "collected",
                    cmd[c].kind \notin {"Resume", "ConfigResume", "Drop"}
             PROVE  committed[cmd[c].db] >= asked[c]
  BY DEF CollectedIsDurable
<1>1. cmd[c].kind # "None" /\ asked[c] <= committed[cmd[c].db]
  BY DEF IInv, Commands, Clients
<1>2. asked[c] \in Nat /\ cmd[c].db \in Database
  BY <1>1 DEF IInv, Types, CommandType, Commands, Placed
<1>3. committed[cmd[c].db] \in Nat
  BY <1>2 DEF IInv, Types, DbType
<1> QED BY <1>1, <1>2, <1>3

LEMMA PauseFromIInv ==
  IInv => PauseBarrierIsLast
  BY DEF IInv, Pauses, PauseBarrierIsLast, Types, LoopType

LEMMA QueuedFromIInv ==
  IInv => QueuedCommandsAreExpected
<1> SUFFICES ASSUME IInv PROVE QueuedCommandsAreExpected
  OBVIOUS
<1>1. ASSUME phase \in {"recovering", "initializing"}, NEW d \in Database, NEW i \in 1..Len(sched[d])
      PROVE  KindOf(sched[d][i]) = "Drop"
  <2>1. blocked
    BY <1>1 DEF IInv, Recovery
  <2>2. IsFor(sched[d][i], d) /\ cmd[sched[d][i]].kind = "Drop"
    BY <2>1 DEF IInv, Commands, Scheduled
  <2> QED BY <2>2 DEF KindOf, IsFor, Command, NoCommand
<1> QED BY <1>1 DEF QueuedCommandsAreExpected

-----------------------------------------------------------------------------
\* The least and the greatest of a set of numbers

LEMMA LeastNat ==
  ASSUME NEW T \in SUBSET Nat, T # {}
  PROVE  \E x \in T : \A y \in T : x <= y
<1> DEFINE R == OpToRel(<, Nat)
<1>1. \A x, y \in Nat : <<y, x>> \in R <=> y < x
  BY DEF OpToRel
<1>2. IsWellFoundedOn(R, Nat)
  BY NatLessThanWellFounded
<1> HIDE DEF R
<1>3. PICK x \in T : \A y \in T : ~(<<y, x>> \in R)
  BY <1>2, WFMin
<1>4. \A y \in T : ~(y < x)
  BY <1>1, <1>3
<1>5. \A y \in T : x <= y
  BY <1>4
<1> QED BY <1>5

LEMMA GreatestBelow ==
  ASSUME NEW N \in Nat, NEW S \in SUBSET (0..N), S # {}
  PROVE  Max(S) \in S /\ \A y \in S : y <= Max(S)
<1> DEFINE T == {N - x : x \in S}
<1>0. \A x \in S : N - x \in Nat
  OBVIOUS
<1>1. T \in SUBSET Nat /\ T # {}
  BY <1>0
<1>2. PICK t \in T : \A y \in T : t <= y
  BY <1>1, LeastNat
<1>3. PICK x \in S : t = N - x
  OBVIOUS
<1>4. \A y \in S : x >= y
  BY <1>2, <1>3
<1> QED BY <1>4 DEF Max

\* next_complete_barrier_task takes collected barriers, of which at most the last is a checkpoint.
LEMMA PoppedFacts ==
  ASSUME NEW q \in Seq(Node)
  PROVE  /\ Popped(q) \in 0..Len(q)
         /\ \A i \in 1..Popped(q) : ~IsInflight(q[i])
         /\ \A i \in 1..(Popped(q) - 1) : ~IsCheckpoint(q[i])
<1> DEFINE S == {n \in 0..Len(q) : \A i \in 1..n : ~IsInflight(q[i])}
           T == {n \in S : \A i \in 1..(n - 1) : ~IsCheckpoint(q[i])}
<1>1. Len(q) \in Nat /\ T \in SUBSET (0..Len(q)) /\ 0 \in T
  OBVIOUS
<1>2. Popped(q) = Max(T)
  BY DEF Popped
<1>3. Max(T) \in T
  BY <1>1, GreatestBelow
<1> QED BY <1>2, <1>3

-----------------------------------------------------------------------------
\* What a part of the invariant depends on

LEMMA Frame ==
  /\ Queues /\ UNCHANGED <<db, clock, running>> => Queues'
  /\ Commits /\ UNCHANGED <<committed, clock, phase, running, db, task>> => Commits'
  /\ Streams /\ UNCHANGED <<stream, db>> => Streams'
  /\ Recovery /\ UNCHANGED <<blocked, phase, task, db, created, running>> => Recovery'
  /\ Numbered /\ UNCHANGED cmd => Numbered'
  /\ Placed /\ UNCHANGED cmd => Placed'
  /\ Scheduled /\ UNCHANGED <<sched, cmd, asked, clock, running, phase, db, blocked>> => Scheduled'
  /\ Queued /\ UNCHANGED <<db, cmd, asked>> => Queued'
  /\ Notified /\ UNCHANGED <<task, cmd, asked>> => Notified'
  /\ Clients /\ UNCHANGED <<result, cmd, asked, committed>> => Clients'
  /\ Pauses /\ UNCHANGED <<db, cmd>> => Pauses'
<1>1. Queues /\ UNCHANGED <<db, clock, running>> => Queues'
  BY DEF Queues, QueueOK, Chain, Idle
<1>2. Commits /\ UNCHANGED <<committed, clock, phase, running, db, task>> => Commits'
  BY DEF Commits, Below
<1>3. Streams /\ UNCHANGED <<stream, db>> => Streams'
  <2> SUFFICES ASSUME Streams, stream' = stream, db' = db PROVE Streams'
    OBVIOUS
  <2>1. \A w \in Worker, d \in Database : StreamOK(w, stream[w][d], db[d])
    BY DEF Streams
  <2>2. \A w \in Worker, d \in Database : StreamOK(w, stream'[w][d], db'[d])
    BY <2>1
  <2> QED BY <2>2 DEF Streams, StreamOK
<1>4. Recovery /\ UNCHANGED <<blocked, phase, task, db, created, running>> => Recovery'
  BY DEF Recovery, Idle
<1>5. Numbered /\ UNCHANGED cmd => Numbered'
  BY DEF Numbered
<1>6. Placed /\ UNCHANGED cmd => Placed'
  BY DEF Placed
<1>7. Scheduled /\ UNCHANGED <<sched, cmd, asked, clock, running, phase, db, blocked>> => Scheduled'
  BY DEF Scheduled, IsFor
<1>8. Queued /\ UNCHANGED <<db, cmd, asked>> => Queued'
  BY DEF Queued, NodeOK, IsFor, NeedCheckpoint, KindOf, IsCheckpoint
<1>9. Notified /\ UNCHANGED <<task, cmd, asked>> => Notified'
  BY DEF Notified
<1>10. Clients /\ UNCHANGED <<result, cmd, asked, committed>> => Clients'
  BY DEF Clients
<1>11. Pauses /\ UNCHANGED <<db, cmd>> => Pauses'
  BY DEF Pauses, ShouldPauseInjectBarrier, KindOf
<1> QED BY <1>1, <1>2, <1>3, <1>4, <1>5, <1>6, <1>7, <1>8, <1>9, <1>10, <1>11

\* The commands do not change, and those in the queues are as expected.
LEMMA QueuedNext ==
  ASSUME UNCHANGED <<cmd, asked>>,
         \A d \in Database : \A k \in 1..Len(db'[d].queue) : NodeOK(db'[d].queue[k], d)
  PROVE  Queued'
<1> SUFFICES ASSUME NEW d \in Database, NEW k \in 1..Len(db'[d].queue)
             PROVE  NodeOK(db'[d].queue[k], d)
  BY DEF Queued, NodeOK, IsFor, NeedCheckpoint, KindOf, IsCheckpoint
<1> QED OBVIOUS

\* The loop starts to clear up.
LEMMA ClearingStep ==
  ASSUME IInv, phase = "running", phase' = "clearing",
         UNCHANGED <<clock, running, db, periodic, taskVars, nodeVars, schedVars, result>>
  PROVE  IInv'
<1> USE DEF taskVars, nodeVars, schedVars
<1>1. Types'
  BY DEF IInv, Types, LoopType, Phases, DbType, TaskOK, StreamType, CommandType
<1>2. Queues' /\ Streams' /\ Pauses'
  BY Frame DEF IInv
<1>3. Commits'
  BY DEF IInv, Commits, Below
<1>4. Recovery'
  BY DEF IInv, Recovery, Idle
<1>5. Scheduled'
  BY DEF IInv, Commands, Scheduled, IsFor
<1>6. Commands'
  BY <1>5, Frame DEF IInv, Commands
<1> QED BY <1>1, <1>2, <1>3, <1>4, <1>6 DEF IInv

LEMMA ClearingSteps ==
  IInv /\ (CompletingTaskErr \/ AdhocRecovery) => IInv'
  BY ClearingStep DEF CompletingTaskErr, AdhocRecovery, Polling, dbVars

\* A recovery is tried again.
LEMMA RetryStep ==
  IInv /\ RecoveryRetry => IInv'
<1> SUFFICES ASSUME IInv, RecoveryRetry PROVE IInv'
  OBVIOUS
<1> USE DEF RecoveryRetry, dbVars, taskVars, nodeVars, schedVars
<1>1. Types'
  BY DEF IInv, Types, LoopType, Phases, DbType, TaskOK, StreamType, CommandType
<1>2. Queues' /\ Streams' /\ Pauses'
  BY Frame DEF IInv
<1>3. Commits'
  BY DEF IInv, Commits, Below
<1>4. Recovery'
  BY DEF IInv, Recovery, Idle
<1>5. Scheduled'
  BY DEF IInv, Commands, Scheduled, IsFor
<1>6. Commands'
  BY <1>5, Frame DEF IInv, Commands
<1> QED BY <1>1, <1>2, <1>3, <1>4, <1>6 DEF IInv

\* The cluster is recovered.
LEMMA MarkReadyStep ==
  IInv /\ MarkReady => IInv'
<1> SUFFICES ASSUME IInv, MarkReady PROVE IInv'
  OBVIOUS
<1> USE DEF MarkReady, dbVars, taskVars, nodeVars, schedVars
<1>1. Types'
  BY DEF IInv, Types, LoopType, Phases, DbType, TaskOK, StreamType, CommandType
<1>2. Queues' /\ Streams' /\ Pauses'
  BY Frame DEF IInv
<1>3. Commits'
  BY DEF IInv, Commits, Below
<1>4. Recovery'
  BY DEF IInv, Recovery, Idle
<1>5. Scheduled'
  BY DEF IInv, Commands, Scheduled, IsFor
<1>6. Commands'
  BY <1>5, Frame DEF IInv, Commands
<1> QED BY <1>1, <1>2, <1>3, <1>4, <1>6 DEF IInv

LEMMA AddWorkerStep ==
  ASSUME IInv, NEW w \in Worker, AddWorker(w)
  PROVE  IInv'
<1> USE DEF AddWorker, dbVars, taskVars, nodeVars, schedVars
<1>1. Types'
  BY DEF IInv, Types, LoopType, Phases, DbType, TaskOK, StreamType, CommandType
<1>2. Queues' /\ Streams' /\ Pauses' /\ Commits' /\ Recovery' /\ Commands'
  BY Frame DEF IInv, Commands
<1> QED BY <1>1, <1>2 DEF IInv

\* The barriers that w had to collect are lost with its stream.
LEMMA WorkerErrorStep ==
  ASSUME IInv, NEW w \in Worker, WorkerError(w)
  PROVE  IInv'
<1> USE DEF WorkerError, dbVars, taskVars, nodeVars, schedVars, Polling
<1>0. phase = "running" /\ phase' \in {"running", "clearing"}
  OBVIOUS
<1>1. stream \in [Worker -> [Database -> Seq(Nat)]]
  BY DEF IInv, Types, StreamType
<1>2. \A v \in Worker : stream'[v] = IF v = w THEN [d \in Database |-> <<>>] ELSE stream[v]
  BY <1>1
<1>3. [d \in Database |-> <<>>] \in [Database -> Seq(Nat)]
  OBVIOUS
<1>4. stream' \in [Worker -> [Database -> Seq(Nat)]]
  BY <1>1, <1>2, <1>3
<1>5. Types'
  BY <1>0, <1>4 DEF IInv, Types, LoopType, Phases, DbType, TaskOK, StreamType, CommandType
<1>6. Queues' /\ Pauses'
  BY Frame DEF IInv
<1>7. Streams'
  <2> SUFFICES ASSUME NEW v \in Worker, NEW d \in Database
               PROVE  StreamOK(v, stream'[v][d], db[d])
    BY DEF Streams, StreamOK
  <2>1. CASE v = w
    BY <2>1, <1>2 DEF StreamOK
  <2>2. CASE v # w
    BY <2>2, <1>2 DEF IInv, Streams
  <2> QED BY <2>1, <2>2
<1>8. Commits'
  BY <1>0 DEF IInv, Commits, Below
<1>9. Recovery'
  BY <1>0 DEF IInv, Recovery, Idle
<1>10. Scheduled'
  BY <1>0 DEF IInv, Commands, Scheduled, IsFor
<1>11. Commands'
  BY <1>10, Frame DEF IInv, Commands
<1> QED BY <1>5, <1>6, <1>7, <1>8, <1>9, <1>11 DEF IInv

-----------------------------------------------------------------------------
\* The completing task

LEMMA TaskStage ==
  ASSUME TaskOK, NEW stage \in {"none", "commit", "post", "finish", "ok", "err"},
         task' = [task EXCEPT !.stage = stage]
  PROVE  /\ TaskOK' /\ task'.stage = stage /\ task'.infos = task.infos
         /\ task'.notifiers = task.notifiers /\ task'.finished = task.finished
  BY DEF TaskOK, TaskType

LEMMA TaskRuns ==
  ASSUME IInv, task.stage # "none"
  PROVE  phase \in {"running", "clearing"} /\ ~blocked
<1>1. ~blocked
  BY DEF IInv, Recovery, NoTask
<1> QED BY <1>1 DEF IInv, Recovery, Types, LoopType, Phases

LEMMA TaskInfo ==
  ASSUME IInv, NEW d \in DOMAIN task.infos
  PROVE  d \in Database /\ task.infos[d].prev \in Nat
<1>1. d \in Database /\ task.infos[d] \in Info
  BY DEF IInv, Types, TaskOK, TaskType
<1> QED BY <1>1 DEF Info, Epoch

LEMMA CommitStep ==
  IInv /\ CommitEpoch => IInv'
<1> SUFFICES ASSUME IInv, CommitEpoch PROVE IInv'
  OBVIOUS
<1> USE DEF nodeVars, schedVars
<1>0. /\ UNCHANGED <<clock, running, db, periodic, created, nodeVars, schedVars, phase, result>>
      /\ task.stage = "commit"
      /\ committed' = [d \in Database |-> IF d \in DOMAIN task.infos
                                          THEN task.infos[d].prev ELSE committed[d]]
  BY DEF CommitEpoch
<1>1. /\ TaskOK' /\ task'.stage = "post" /\ task'.infos = task.infos
      /\ task'.notifiers = task.notifiers /\ task'.finished = task.finished
  BY TaskStage DEF CommitEpoch, IInv, Types
<1>2. phase \in {"running", "clearing"} /\ ~blocked
  BY <1>0, TaskRuns
<1>3. committed' \in [Database -> Nat] /\ committed \in [Database -> Nat]
  BY <1>0, TaskInfo DEF IInv, Types, DbType
<1>4. Types'
  BY <1>0, <1>1, <1>3 DEF IInv, Types, LoopType, Phases, DbType, StreamType, CommandType
<1>5. Queues' /\ Streams' /\ Pauses'
  BY <1>0, Frame DEF IInv
<1>6. \A d \in Database : db[d] \in DatabaseState /\ db[d].prev \in Nat /\ clock \in Nat /\ db[d].prev <= clock
  BY DbFacts DEF IInv, Types, LoopType, DbType, Queues, QueueOK
<1>7. ASSUME NEW d \in Database
      PROVE  /\ committed'[d] <= clock' /\ (phase' # "recovering" => committed'[d] < clock')
             /\ d \in running' /\ phase' # "clearing" => committed'[d] < db'[d].prev
             /\ Below(committed'[d], db'[d])
             /\ d \in DOMAIN task'.infos =>
                  /\ d \in running'
                  /\ task'.infos[d].prev < db'[d].prev /\ Below(task'.infos[d].prev, db'[d])
                  /\ task'.stage = "commit" => committed'[d] < task'.infos[d].prev
                  /\ task'.stage = "post" => committed'[d] = task'.infos[d].prev
  <2>1. CASE d \in DOMAIN task.infos
    <3>1. /\ d \in running /\ task.infos[d].prev < db[d].prev /\ Below(task.infos[d].prev, db[d])
          /\ task.infos[d].prev \in Nat
      BY <2>1, TaskInfo DEF IInv, Commits
    <3>2. committed'[d] = task.infos[d].prev
      BY <2>1, <1>0
    <3> QED BY <3>1, <3>2, <1>0, <1>1, <1>2, <1>6
  <2>2. CASE d \notin DOMAIN task.infos
    BY <2>2, <1>0, <1>1 DEF IInv, Commits
  <2> QED BY <2>1, <2>2
<1>8. Commits'
  BY <1>7 DEF Commits, Below
<1>9. Recovery'
  BY <1>0, <1>1, <1>2 DEF IInv, Recovery, Idle
<1>10. Clients'
  <2> SUFFICES ASSUME NEW c \in Command, result[c] = "collected",
                      cmd[c].kind \notin {"Resume", "ConfigResume", "Drop"}
               PROVE  cmd[c].kind # "None" /\ asked[c] <= committed'[cmd[c].db]
    BY <1>0 DEF IInv, Commands, Clients
  <2>1. cmd[c].kind # "None" /\ asked[c] <= committed[cmd[c].db]
    BY DEF IInv, Commands, Clients
  <2>2. cmd[c].db \in Database /\ asked[c] \in Nat
    BY <2>1 DEF IInv, Commands, Placed, Types, CommandType
  <2>3. CASE cmd[c].db \in DOMAIN task.infos
    <3>1. committed[cmd[c].db] < task.infos[cmd[c].db].prev /\ task.infos[cmd[c].db].prev \in Nat
      BY <2>2, <2>3, <1>0, TaskInfo DEF IInv, Commits
    <3> QED BY <2>1, <2>2, <2>3, <3>1, <1>0, <1>3
  <2>4. CASE cmd[c].db \notin DOMAIN task.infos
    BY <2>1, <2>2, <2>4, <1>0
  <2> QED BY <2>3, <2>4
<1>11. Notified'
  BY <1>0, <1>1 DEF IInv, Commands, Notified
<1>12. Commands'
  BY <1>0, <1>10, <1>11, Frame DEF IInv, Commands
<1> QED BY <1>4, <1>5, <1>8, <1>9, <1>12 DEF IInv

\* A step of the task after the commit, or its failure, that answers some commands and
\* may finish some of the jobs.
LEMMA TaskStep ==
  ASSUME IInv, task.stage # "none", NEW stage \in {"finish", "ok", "err"},
         task' = [task EXCEPT !.stage = stage], NEW part \in SUBSET task.finished,
         created' = created \cup part, result' \in [Command -> Results], Clients',
         UNCHANGED <<dbVars, committed, nodeVars, schedVars, phase>>
  PROVE  IInv'
<1> USE DEF nodeVars, schedVars, dbVars
<1>1. /\ TaskOK' /\ task'.stage = stage /\ task'.infos = task.infos
      /\ task'.notifiers = task.notifiers /\ task'.finished = task.finished
  BY TaskStage DEF IInv, Types
<1>2. phase \in {"running", "clearing"} /\ ~blocked
  BY TaskRuns
<1>3. task.finished \subseteq Job
  BY DEF IInv, Types, TaskOK, TaskType
<1>4. Types'
  BY <1>1, <1>3 DEF IInv, Types, LoopType, Phases, DbType, StreamType, CommandType
<1>5. Queues' /\ Streams' /\ Pauses'
  BY Frame DEF IInv
<1>6. Commits'
  BY <1>1 DEF IInv, Commits, Below
<1>7. Recovery'
  BY <1>1, <1>2, <1>3 DEF IInv, Recovery, Idle
<1>8. Notified'
  BY <1>1 DEF IInv, Commands, Notified
<1>9. Commands'
  BY <1>8, Frame DEF IInv, Commands
<1> QED BY <1>4, <1>5, <1>6, <1>7, <1>9 DEF IInv

LEMMA PostCollectStep ==
  IInv /\ PostCollectCommand => IInv'
<1> SUFFICES ASSUME IInv, PostCollectCommand PROVE IInv'
  OBVIOUS
<1>0. /\ task.stage = "post" /\ task' = [task EXCEPT !.stage = "finish"]
      /\ result' = [c \in Command |-> IF c \in task.notifiers THEN "collected" ELSE result[c]]
      /\ UNCHANGED <<dbVars, committed, nodeVars, schedVars, phase>> /\ created' = created \cup {}
  BY DEF PostCollectCommand
<1>1. result' \in [Command -> Results]
  BY <1>0 DEF IInv, Types, CommandType, Results, Resolved
<1>2. Clients'
  <2>0. /\ \A c \in Command : result'[c] = "removed" => result[c] = "removed"
        /\ UNCHANGED <<cmd, asked, committed>>
    BY <1>0 DEF schedVars
  <2> SUFFICES ASSUME NEW c \in Command, result'[c] = "collected"
               PROVE  /\ cmd[c].kind # "None"
                      /\ cmd[c].kind \notin {"Resume", "ConfigResume", "Drop"}
                           => asked[c] <= committed[cmd[c].db]
    BY <2>0 DEF IInv, Commands, Clients
  <2>1. CASE c \in task.notifiers
    <3>1. /\ cmd[c].kind # "None" /\ cmd[c].db \in DOMAIN task.infos
          /\ asked[c] <= task.infos[cmd[c].db].prev
      BY <2>1 DEF IInv, Commands, Notified
    <3>2. committed[cmd[c].db] = task.infos[cmd[c].db].prev
      BY <3>1, <1>0, TaskInfo DEF IInv, Commits
    <3> QED BY <3>1, <3>2
  <2>2. CASE c \notin task.notifiers
    BY <2>2, <1>0 DEF IInv, Commands, Clients
  <2> QED BY <2>1, <2>2
<1> QED BY <1>0, <1>1, <1>2, TaskStep

LEMMA FinishStep ==
  IInv /\ FinishCreatingJob => IInv'
<1> SUFFICES ASSUME IInv, FinishCreatingJob PROVE IInv'
  OBVIOUS
<1>0. /\ task.stage = "finish" /\ task' = [task EXCEPT !.stage = "ok"]
      /\ UNCHANGED <<dbVars, committed, nodeVars, schedVars, phase, result>>
      /\ created' = created \cup task.finished
  BY DEF FinishCreatingJob
<1>1. result' \in [Command -> Results]
  BY <1>0 DEF IInv, Types, CommandType
<1>2. Clients'
  BY <1>0, Frame DEF IInv, Commands, schedVars
<1> QED BY <1>0, <1>1, <1>2, TaskStep

LEMMA TaskFailsStep ==
  IInv /\ CompleteBarrierFails => IInv'
<1> SUFFICES ASSUME IInv, CompleteBarrierFails PROVE IInv'
  OBVIOUS
<1>0. /\ task.stage \in {"commit", "post", "finish"} /\ task' = [task EXCEPT !.stage = "err"]
      /\ result' = [c \in Command |-> IF c \in task.notifiers /\ task.stage # "finish"
                                      THEN "failed" ELSE result[c]]
      /\ UNCHANGED <<dbVars, committed, nodeVars, schedVars, phase>>
  BY DEF CompleteBarrierFails
<1>1. PICK part \in SUBSET task.finished : created' = created \cup part
  <2>1. PICK p \in SUBSET task.finished :
          created' = IF task.stage = "finish" THEN created \cup p ELSE created
    BY DEF CompleteBarrierFails
  <2>2. {} \in SUBSET task.finished /\ created = created \cup {}
    OBVIOUS
  <2> QED BY <2>1, <2>2
<1>2. result' \in [Command -> Results]
  BY <1>0 DEF IInv, Types, CommandType, Results, Resolved
<1>3. Clients'
  BY <1>0 DEF IInv, Commands, Clients, schedVars
<1> QED BY <1>0, <1>1, <1>2, <1>3, TaskStep

\* The task is joined: nothing of its databases is completing any more.
LEMMA AckStep ==
  IInv /\ AckCompleted => IInv'
<1> SUFFICES ASSUME IInv, AckCompleted PROVE IInv'
  OBVIOUS
<1> USE DEF nodeVars, schedVars
<1>0. /\ task.stage = "ok" /\ task' = NoTask
      /\ db' = [d \in Database |-> IF d \in DOMAIN task.infos
                                   THEN [db[d] EXCEPT !.completing = NoBarrier] ELSE db[d]]
      /\ UNCHANGED <<clock, running, periodic, committed, created, nodeVars, schedVars, phase, result>>
  BY DEF AckCompleted
<1>1. db \in [Database -> DatabaseState]
  BY DEF IInv, Types, DbType
<1>2. NoBarrier \in [prev : Epoch, curr : Epoch, pause : BOOLEAN] /\ NoBarrier.pause = FALSE
  BY DEF NoBarrier, Epoch
<1>3. \A d \in Database :
        /\ db'[d] \in DatabaseState /\ db'[d].queue = db[d].queue /\ db'[d].prev = db[d].prev
        /\ db'[d].tracking = db[d].tracking /\ db'[d].stash = db[d].stash
        /\ db'[d].completing.pause => db'[d].completing = db[d].completing
  <2> TAKE d \in Database
  <2> DEFINE t == [db[d] EXCEPT !.completing = NoBarrier]
  <2>1. /\ t \in DatabaseState /\ t.queue = db[d].queue /\ t.prev = db[d].prev
        /\ t.tracking = db[d].tracking /\ t.stash = db[d].stash /\ t.completing = NoBarrier
    BY <1>1, <1>2 DEF DatabaseState
  <2>2. db'[d] = IF d \in DOMAIN task.infos THEN t ELSE db[d]
    BY <1>0
  <2>3. db[d] \in DatabaseState
    BY <1>1
  <2> HIDE DEF t
  <2>4. CASE d \in DOMAIN task.infos
    BY <2>1, <2>2, <2>4, <1>2
  <2>5. CASE d \notin DOMAIN task.infos
    BY <2>2, <2>3, <2>5
  <2> QED BY <2>4, <2>5
<1>4. db' \in [Database -> DatabaseState]
  BY <1>0, <1>3
<1>5. TaskOK' /\ task'.infos = <<>> /\ task'.notifiers = {} /\ task'.finished = {} /\ DOMAIN task'.infos = {}
  BY <1>0 DEF NoTask, TaskOK, TaskType
<1>6. Types'
  BY <1>0, <1>4, <1>5 DEF IInv, Types, LoopType, Phases, DbType, StreamType, CommandType
<1>7. phase \in {"running", "clearing"} /\ ~blocked
  BY <1>0, TaskRuns
<1>8. \A d \in Database : db[d].completing.pause \in BOOLEAN /\ db'[d].completing.pause \in BOOLEAN
  BY <1>1, <1>4, DbFacts
<1>9. Queues'
  BY <1>0, <1>3, <1>8 DEF IInv, Queues, QueueOK, Chain, Idle
<1>10. Streams'
  BY <1>0, <1>3 DEF IInv, Streams, StreamOK
<1>11. Commits'
  BY <1>0, <1>3, <1>5 DEF IInv, Commits, Below
<1>12. Recovery'
  BY <1>0, <1>3, <1>5, <1>7 DEF IInv, Recovery, Idle
<1>13. Scheduled' /\ Notified'
  BY <1>0, <1>3, <1>5 DEF IInv, Commands, Scheduled, IsFor, Notified
<1>14. Queued'
  BY <1>0, <1>3 DEF IInv, Commands, Queued, NodeOK, IsFor, NeedCheckpoint, KindOf, IsCheckpoint
<1>15. Commands'
  BY <1>0, <1>13, <1>14, Frame DEF IInv, Commands
<1>16. Pauses'
  BY <1>0, <1>3 DEF IInv, Pauses, ShouldPauseInjectBarrier, KindOf
<1> QED BY <1>6, <1>9, <1>10, <1>11, <1>12, <1>15, <1>16 DEF IInv

-----------------------------------------------------------------------------
\* The recovery of the cluster, and the start

LEMMA NewDatabaseFacts ==
  ASSUME NEW prev \in Nat, NEW jobs \in SUBSET Job, NEW t, t = NewDatabase(prev, jobs)
  PROVE  /\ t \in DatabaseState /\ t.prev = prev /\ Len(t.queue) = 0 /\ ~t.completing.pause
         /\ t.tracking = {} /\ t.stash = {} /\ t.jobs = jobs
<1>1. NoBarrier \in [prev : Epoch, curr : Epoch, pause : BOOLEAN] /\ NoBarrier.pause = FALSE
  BY DEF NoBarrier, Epoch
<1>2. <<>> \in Seq(Epoch) /\ <<>> \in Seq(Node)
  OBVIOUS
<1> QED BY <1>1, <1>2 DEF NewDatabase, DatabaseState, Epoch

LEMMA EmptyDatabase ==
  ASSUME NEW t, t = NewDatabase(0, {})
  PROVE  /\ t \in DatabaseState /\ t.prev = 0 /\ Len(t.queue) = 0 /\ ~t.completing.pause
         /\ t.tracking = {} /\ t.stash = {}
  BY NewDatabaseFacts

\* All databases are new, and nothing is under way.
LEMMA Fresh ==
  ASSUME db' \in [Database -> DatabaseState], task' = NoTask, Types',
         \A d \in Database : /\ Len(db'[d].queue) = 0 /\ ~db'[d].completing.pause
                             /\ db'[d].tracking = {} /\ db'[d].stash = {} /\ db'[d].prev <= clock',
         stream' = NoStreams
  PROVE  Queues' /\ Streams' /\ Pauses' /\ Queued' /\ Notified'
<1>0. Len(<<>>) = 0
  OBVIOUS
<1>1. Queues'
  BY <1>0 DEF Queues, QueueOK, Chain, Idle
<1>2. Streams'
  BY <1>0 DEF Streams, StreamOK, NoStreams
<1>3. Pauses'
  BY <1>0 DEF Pauses
<1>4. Queued'
  BY <1>0 DEF Queued
<1>5. Notified'
  BY DEF Notified, NoTask
<1> QED BY <1>1, <1>2, <1>3, <1>4, <1>5

LEMMA NoTaskOK ==
  NoTask \in TaskType(DOMAIN NoTask.infos) /\ DOMAIN NoTask.infos = {} /\ NoTask.finished = {}
  BY DEF NoTask, TaskType

LEMMA NoStreamsOK ==
  NoStreams \in [Worker -> [Database -> Seq(Nat)]]
  BY DEF NoStreams

LEMMA InitStep ==
  Init => IInv
<1> SUFFICES ASSUME Init PROVE IInv
  OBVIOUS
<1> USE DEF Init
<1>1. \A d \in Database :
        /\ db[d] \in DatabaseState /\ Len(db[d].queue) = 0 /\ ~db[d].completing.pause
        /\ db[d].tracking = {} /\ db[d].stash = {} /\ db[d].prev = 0
  BY EmptyDatabase
<1>2. db \in [Database -> DatabaseState]
  BY <1>1
<1>3. LoopType
  BY DEF LoopType, Phases
<1>4. DbType
  BY <1>2 DEF DbType
<1>5. TaskOK
  BY NoTaskOK DEF TaskOK
<1>6. StreamType
  BY NoStreamsOK DEF StreamType
<1>7. CommandType
  BY DEF CommandType, CmdType, Results
<1>8. Types
  BY <1>3, <1>4, <1>5, <1>6, <1>7 DEF Types
<1>9. Len(<<>>) = 0
  OBVIOUS
<1>10. Queues
  BY <1>1, <1>9 DEF Queues, QueueOK, Chain, Idle
<1>11. Commits
  BY <1>1, <1>9, NoTaskOK DEF Commits, Below
<1>12. Streams
  BY <1>9 DEF Streams, StreamOK, NoStreams
<1>13. Recovery
  BY <1>1, NoTaskOK DEF Recovery, Idle
<1>14. Numbered
  <2>1. {c \in Command : cmd[c].kind # "None"} = 1..0
    OBVIOUS
  <2>2. 0 \in 0..MaxCommands
    BY ConstantsOK
  <2> QED BY <2>1, <2>2 DEF Numbered
<1>15. Placed /\ Clients
  BY DEF Placed, Clients
<1>16. Scheduled
  BY <1>9 DEF Scheduled
<1>17. Queued /\ Notified
  BY <1>1, <1>9 DEF Queued, Notified, NoTask
<1>18. Pauses
  BY <1>1, <1>9 DEF Pauses
<1> QED BY <1>8, <1>10, <1>11, <1>12, <1>13, <1>14, <1>15, <1>16, <1>17, <1>18 DEF IInv, Commands

\* A recovery starts, after a failure or when the meta node boots again.
LEMMA StartRecoveryStep ==
  ASSUME IInv, StartRecovery, UNCHANGED <<clock, committed, doneAt, cmd, asked>>, created' \subseteq Job,
         periodic' \in [force : BOOLEAN, uncheckpointed : Nat], result' \in [Command -> Results],
         \A c \in Command : result'[c] = result[c] \/ result'[c] = "failed"
  PROVE  IInv'
<1>0. /\ phase' = "recovering" /\ running' = {} /\ blocked' = TRUE
      /\ sched' = [d \in Database |-> <<>>] /\ db' = [d \in Database |-> NewDatabase(0, {})]
      /\ task' = NoTask /\ connected' = {} /\ stream' = NoStreams
  BY DEF StartRecovery
<1>1. \A d \in Database :
        /\ db'[d] \in DatabaseState /\ Len(db'[d].queue) = 0 /\ ~db'[d].completing.pause
        /\ db'[d].tracking = {} /\ db'[d].stash = {} /\ db'[d].prev = 0
  BY <1>0, EmptyDatabase
<1>2. db' \in [Database -> DatabaseState]
  BY <1>0, <1>1
<1>3. LoopType' /\ DbType'
  BY <1>0, <1>2 DEF IInv, Types, LoopType, Phases, DbType
<1>4. TaskOK' /\ StreamType'
  BY <1>0, NoTaskOK, NoStreamsOK DEF IInv, Types, StreamType, TaskOK
<1>5. CommandType'
  BY <1>0 DEF IInv, Types, CommandType
<1>6. Types'
  BY <1>3, <1>4, <1>5 DEF Types
<1>7. clock' \in Nat
  BY <1>6 DEF Types, LoopType
<1>8. Queues' /\ Streams' /\ Pauses' /\ Queued' /\ Notified'
  <2>1. \A d \in Database : db'[d].prev <= clock'
    BY <1>1, <1>7
  <2> QED BY <1>0, <1>1, <1>2, <1>6, <2>1, Fresh
<1>9. Len(<<>>) = 0
  OBVIOUS
<1>10. Commits'
  BY <1>0, <1>1, <1>9, NoTaskOK DEF IInv, Commits, Below
<1>11. Recovery'
  BY <1>0, <1>1, NoTaskOK DEF Recovery, Idle
<1>12. Scheduled'
  BY <1>0, <1>9 DEF Scheduled
<1>13. Clients'
  BY <1>0 DEF IInv, Commands, Clients
<1>14. Commands'
  BY <1>0, <1>8, <1>12, <1>13, Frame DEF IInv, Commands
<1> QED BY <1>6, <1>8, <1>10, <1>11, <1>14 DEF IInv

LEMMA ClearStep ==
  IInv /\ ClearOnErr => IInv'
<1> SUFFICES ASSUME IInv, ClearOnErr PROVE IInv'
  OBVIOUS
<1> DEFINE left == UNION {{db[d].queue[i].cmd : i \in 1..Len(db[d].queue)} : d \in running}
           aborted == UNION {Range(sched[d]) : d \in Database}
<1>1. /\ result' = [c \in Command |-> IF c \in left \cup aborted THEN "failed" ELSE result[c]]
      /\ StartRecovery /\ UNCHANGED <<clock, periodic, committed, created, doneAt, cmd, asked>>
  BY DEF ClearOnErr
<1> HIDE DEF left, aborted
<1>2. /\ result' \in [Command -> Results]
      /\ \A c \in Command : result'[c] = result[c] \/ result'[c] = "failed"
  BY <1>1 DEF IInv, Types, CommandType, Results, Resolved
<1>3. created' \subseteq Job /\ periodic' \in [force : BOOLEAN, uncheckpointed : Nat]
  BY <1>1 DEF IInv, Types, LoopType
<1> QED BY <1>1, <1>2, <1>3, StartRecoveryStep

LEMMA PanicStep ==
  ASSUME IInv, NEW d \in Database, MetaPanics(d)
  PROVE  IInv'
<1>1. /\ result' = [c \in Command |-> IF result[c] \in {"removed", "scheduled", "started"}
                                      THEN "failed" ELSE result[c]]
      /\ periodic' = [force |-> FALSE, uncheckpointed |-> 0]
      /\ StartRecovery /\ UNCHANGED <<clock, committed, doneAt, cmd, asked>>
  BY DEF MetaPanics
<1>2. /\ result' \in [Command -> Results]
      /\ \A c \in Command : result'[c] = result[c] \/ result'[c] = "failed"
  BY <1>1 DEF IInv, Types, CommandType, Results, Resolved
<1>3. created' \subseteq Job
  <2>1. created \subseteq Job /\ task.finished \subseteq Job
    BY DEF IInv, Types, LoopType, TaskOK, TaskType
  <2> QED BY <2>1 DEF MetaPanics
<1>4. periodic' \in [force : BOOLEAN, uncheckpointed : Nat]
  BY <1>1
<1> QED BY <1>1, <1>2, <1>3, <1>4, StartRecoveryStep

LEMMA ReloadStep ==
  IInv /\ ReloadRuntimeInfo => IInv'
<1> SUFFICES ASSUME IInv, ReloadRuntimeInfo PROVE IInv'
  OBVIOUS
<1> DEFINE buffered == UNION {Range(sched[d]) : d \in Database}
           jobsOf(d) == {j \in created : JobDatabase[j] = d}
<1>0. /\ phase = "recovering" /\ phase' = "initializing" /\ clock' = clock + 1 /\ connected' = Worker
      /\ result' = [c \in Command |-> IF c \in buffered THEN "collected" ELSE result[c]]
      /\ sched' = [d \in Database |-> <<>>] /\ running' = {d \in Database : jobsOf(d) # {}}
      /\ db' = [d \in Database |-> IF d \in running' THEN NewDatabase(clock + 1, jobsOf(d))
                                   ELSE NewDatabase(0, {})]
      /\ UNCHANGED <<periodic, taskVars, stream, doneAt, blocked, cmd, asked>>
  BY DEF ReloadRuntimeInfo
<1>1. /\ blocked /\ task = NoTask /\ \A d \in Database : Idle(db[d])
      /\ clock \in Nat /\ created \subseteq Job /\ committed \in [Database -> Nat]
  BY <1>0 DEF IInv, Recovery, Types, LoopType, DbType
<1>2. \A d \in Database :
        /\ db'[d] \in DatabaseState /\ Len(db'[d].queue) = 0 /\ ~db'[d].completing.pause
        /\ db'[d].tracking = {} /\ db'[d].stash = {}
        /\ db'[d].prev = IF d \in running' THEN clock + 1 ELSE 0
  <2> TAKE d \in Database
  <2>1. jobsOf(d) \in SUBSET Job /\ clock + 1 \in Nat /\ {} \in SUBSET Job /\ 0 \in Nat
    BY <1>1
  <2>2. db'[d] = IF d \in running' THEN NewDatabase(clock + 1, jobsOf(d)) ELSE NewDatabase(0, {})
    BY <1>0
  <2> DEFINE J == jobsOf(d)  n == clock + 1  t == NewDatabase(n, J)
  <2>3. J \in SUBSET Job /\ n \in Nat /\ db'[d] = IF d \in running' THEN t ELSE NewDatabase(0, {})
    BY <2>1, <2>2
  <2> HIDE DEF J, n, t
  <2>4. /\ t \in DatabaseState /\ Len(t.queue) = 0 /\ ~t.completing.pause
        /\ t.tracking = {} /\ t.stash = {} /\ t.prev = n
    BY <2>3, NewDatabaseFacts DEF t
  <2>5. CASE d \in running'
    BY <2>3, <2>4, <2>5 DEF n
  <2>6. CASE d \notin running'
    BY <2>3, <2>6, EmptyDatabase
  <2> QED BY <2>5, <2>6
<1>3. \A j \in created : JobDatabase[j] \in running'
  BY <1>0, <1>1, ConstantsOK
<1>4. running' \subseteq Database
  BY <1>0
<1>5. \A w \in Worker, d \in Database : stream[w][d] = <<>>
  <2> SUFFICES ASSUME NEW w \in Worker, NEW d \in Database, stream[w][d] # <<>> PROVE FALSE
    OBVIOUS
  <2>1. stream[w][d] \in Seq(Nat) /\ Len(db[d].queue) = 0
    BY <1>1 DEF IInv, Types, StreamType, Idle
  <2>2. 1 \in 1..Len(stream[w][d])
    BY <2>1
  <2>3. PICK k \in 1..Len(db[d].queue) : TRUE
    BY <2>2 DEF IInv, Streams, StreamOK
  <2> QED BY <2>1, <2>3
<1>6. stream' = NoStreams
  BY <1>0, <1>5 DEF IInv, Types, StreamType, NoStreams
<1>7. \A c \in buffered : cmd[c].kind = "Drop"
  <2> SUFFICES ASSUME NEW d \in Database, NEW c \in Range(sched[d]) PROVE cmd[c].kind = "Drop"
    OBVIOUS
  <2>1. sched[d] \in Seq(Command)
    BY DEF IInv, Types, CommandType
  <2>2. PICK i \in 1..Len(sched[d]) : c = sched[d][i]
    BY <2>1 DEF Range
  <2> QED BY <2>2, <1>1 DEF IInv, Commands, Scheduled
<1> HIDE DEF buffered, jobsOf
<1>8. db' \in [Database -> DatabaseState]
  BY <1>0, <1>2
<1>9. LoopType' /\ DbType'
  BY <1>0, <1>1, <1>4, <1>8 DEF IInv, Types, LoopType, Phases, DbType, taskVars
<1>10. TaskOK' /\ StreamType'
  BY <1>0 DEF IInv, Types, StreamType, TaskOK, taskVars
<1>11. CommandType'
  BY <1>0 DEF IInv, Types, CommandType, Results, Resolved
<1>12. Types'
  BY <1>9, <1>10, <1>11 DEF Types
<1>13. \A d \in Database : db'[d].prev <= clock'
  BY <1>0, <1>1, <1>2
<1>14. Queues' /\ Streams' /\ Pauses' /\ Queued' /\ Notified'
  BY <1>0, <1>1, <1>2, <1>6, <1>8, <1>12, <1>13, Fresh DEF taskVars
<1>15. Len(<<>>) = 0
  OBVIOUS
<1>16. \A d \in Database : committed[d] < clock + 1
  BY <1>1 DEF IInv, Commits
<1>17. Commits'
  BY <1>0, <1>1, <1>2, <1>15, <1>16, NoTaskOK DEF Commits, Below, taskVars
<1>18. Recovery'
  BY <1>0, <1>1, <1>2, <1>3, NoTaskOK DEF Recovery, Idle, taskVars
<1>19. Scheduled'
  BY <1>0, <1>15 DEF Scheduled
<1>20. Clients'
  BY <1>0, <1>7 DEF IInv, Commands, Clients, taskVars
<1>21. Commands'
  BY <1>0, <1>14, <1>19, <1>20, Frame DEF IInv, Commands
<1> QED BY <1>12, <1>14, <1>17, <1>18, <1>21 DEF IInv

LEMMA SetInduction ==
  ASSUME NEW P \in SUBSET Nat, 0 \in P, \A n \in P : n + 1 \in P
  PROVE  \A n \in Nat : n \in P
<1> SUFFICES ASSUME Nat \ P # {} PROVE FALSE
  OBVIOUS
<1> DEFINE T == Nat \ P
<1>1. T \in SUBSET Nat /\ T # {}
  OBVIOUS
<1>2. PICK x \in T : \A y \in T : x <= y
  BY <1>1, LeastNat
<1>3. x \in Nat /\ x # 0
  OBVIOUS
<1>4. x - 1 \in Nat /\ x - 1 \notin T
  BY <1>2, <1>3
<1>5. (x - 1) + 1 \in P
  BY <1>4
<1> QED BY <1>3, <1>5

-----------------------------------------------------------------------------
\* The progress tracker, over the barriers that are completed

Tracker(J) == [tracking : SUBSET J, stash : SUBSET J]

JobsOf(d) == {j \in Job : JobDatabase[j] = d}

LEMMA ApplyFacts ==
  ASSUME NEW d \in Database, NEW node \in Node, NodeOK(node, d), Placed, NEW t \in Tracker(JobsOf(d))
  PROVE  ApplyCollected(t, node) \in Tracker(JobsOf(d))
<1> DEFINE J       == JobsOf(d)
           new     == IF KindOf(node.cmd) = "Create" THEN {cmd[node.cmd].job} ELSE {}
           dropped == IF KindOf(node.cmd) = "Drop" THEN {cmd[node.cmd].job} ELSE {}
           tracking == t.tracking \cup (new \cap Backfill)
           finished == (new \ Backfill) \cup (node.done \cap tracking)
<1>1. new \subseteq J
  <2> SUFFICES ASSUME KindOf(node.cmd) = "Create" PROVE cmd[node.cmd].job \in J
    OBVIOUS
  <2>1. node.cmd # NoCommand /\ cmd[node.cmd].kind = "Create"
    BY DEF KindOf
  <2>2. node.cmd \in Command /\ cmd[node.cmd].db = d
    BY <2>1 DEF NodeOK, IsFor
  <2>3. cmd[node.cmd].job \in Job /\ JobDatabase[cmd[node.cmd].job] = d
    BY <2>1, <2>2 DEF Placed
  <2> QED BY <2>3 DEF JobsOf
<1>2. t.tracking \subseteq J /\ t.stash \subseteq J
  BY DEF Tracker
<1>3. ApplyCollected(t, node) = [tracking |-> (tracking \ node.done) \ dropped,
                                 stash |-> (t.stash \cup finished) \ dropped]
  BY DEF ApplyCollected
<1> HIDE DEF J, new, dropped
<1>4. (tracking \ node.done) \ dropped \in SUBSET J /\ (t.stash \cup finished) \ dropped \in SUBSET J
  BY <1>1, <1>2
<1> HIDE DEF tracking, finished
<1> QED BY <1>3, <1>4 DEF Tracker, J

\* The equation of the trackers that Completed goes through.
TrackersOf(f, s, n) ==
  f = [i \in 0..n |-> IF i = 0 THEN [tracking |-> s.tracking, stash |-> s.stash]
                      ELSE ApplyCollected(f[i - 1], s.queue[i])]

LEMMA TrackersExist ==
  ASSUME NEW s, NEW n \in Nat
  PROVE  \E f : TrackersOf(f, s, n)
<1> DEFINE base == [tracking |-> s.tracking, stash |-> s.stash]
           P == {m \in Nat : \E f : TrackersOf(f, s, m)}
<1>1. 0 \in P
  <2> DEFINE f == [i \in 0..0 |-> base]
  <2>1. \A i \in 0..0 : i = 0
    OBVIOUS
  <2>2. TrackersOf(f, s, 0)
    BY <2>1 DEF TrackersOf
  <2> QED BY <2>2
<1>2. ASSUME NEW m \in P PROVE m + 1 \in P
  <2>1. m \in Nat
    OBVIOUS
  <2>2. PICK f : TrackersOf(f, s, m)
    OBVIOUS
  <2> DEFINE g == [i \in 0..(m + 1) |-> IF i = m + 1 THEN ApplyCollected(f[m], s.queue[m + 1]) ELSE f[i]]
             h(i) == IF i = 0 THEN base ELSE ApplyCollected(g[i - 1], s.queue[i])
  <2>3. ASSUME NEW i \in 0..(m + 1) PROVE g[i] = h(i)
    <3>1. CASE i = m + 1
      <4>1. i # 0 /\ i - 1 = m /\ m \in 0..(m + 1) /\ m # m + 1
        BY <3>1, <2>1
      <4>2. g[i - 1] = f[m]
        BY <4>1
      <4>3. g[i] = ApplyCollected(f[m], s.queue[m + 1])
        BY <3>1
      <4> QED BY <3>1, <4>1, <4>2, <4>3
    <3>2. CASE i # m + 1
      <4>1. i \in 0..m /\ g[i] = f[i]
        BY <3>2, <2>1
      <4>2. f[i] = IF i = 0 THEN base ELSE ApplyCollected(f[i - 1], s.queue[i])
        BY <4>1, <2>2 DEF TrackersOf
      <4>3. CASE i = 0
        BY <4>1, <4>2, <4>3
      <4>4. CASE i # 0
        <5>1. i - 1 \in 0..(m + 1) /\ i - 1 # m + 1
          BY <4>1, <4>4, <2>1
        <5>2. g[i - 1] = f[i - 1]
          BY <5>1
        <5> QED BY <4>1, <4>2, <4>4, <5>2
      <4> QED BY <4>3, <4>4
    <3> QED BY <3>1, <3>2
  <2>4. g = [i \in 0..(m + 1) |-> h(i)]
    <3>1. DOMAIN g = 0..(m + 1)
      OBVIOUS
    <3>2. g = [i \in 0..(m + 1) |-> g[i]]
      OBVIOUS
    <3> HIDE DEF g, h
    <3> QED BY <2>3, <3>2
  <2>5. TrackersOf(g, s, m + 1)
    BY <2>4 DEF TrackersOf
  <2> HIDE DEF g
  <2> QED BY <2>1, <2>5
<1> HIDE DEF P
<1>3. n \in P
  BY <1>1, <1>2, SetInduction DEF P
<1> QED BY <1>3 DEF P

LEMMA TrackersTyped ==
  ASSUME NEW d \in Database, NEW s \in DatabaseState, NEW n \in 0..Len(s.queue), NEW f,
         TrackersOf(f, s, n), Placed, \A k \in 1..Len(s.queue) : NodeOK(s.queue[k], d),
         s.tracking \subseteq JobsOf(d), s.stash \subseteq JobsOf(d)
  PROVE  f[n] \in Tracker(JobsOf(d))
<1> DEFINE P == {m \in Nat : m <= n => f[m] \in Tracker(JobsOf(d))}
<1>0. n \in Nat /\ Len(s.queue) \in Nat /\ \A k \in 1..Len(s.queue) : s.queue[k] \in Node
  BY DbFacts
<1>1. 0 \in P
  <2>1. 0 \in 0..n
    BY <1>0
  <2>2. f[0] = [tracking |-> s.tracking, stash |-> s.stash]
    BY <2>1 DEF TrackersOf
  <2> QED BY <2>2 DEF Tracker
<1>2. ASSUME NEW m \in P PROVE m + 1 \in P
  <2>1. m \in Nat /\ (m <= n => f[m] \in Tracker(JobsOf(d)))
    OBVIOUS
  <2> SUFFICES ASSUME m + 1 <= n PROVE f[m + 1] \in Tracker(JobsOf(d))
    BY <2>1
  <2>2. /\ m + 1 \in 0..n /\ m + 1 # 0 /\ (m + 1) - 1 = m /\ m <= n
        /\ m + 1 \in 1..Len(s.queue)
    BY <2>1, <1>0
  <2>3. f[m + 1] = ApplyCollected(f[m], s.queue[m + 1])
    BY <2>2 DEF TrackersOf
  <2> QED BY <2>1, <2>2, <2>3, <1>0, ApplyFacts
<1> HIDE DEF P
<1>3. P \in SUBSET Nat
  BY DEF P
<1>4. n \in P
  BY <1>0, <1>1, <1>2, <1>3, SetInduction
<1> QED BY <1>0, <1>4 DEF P

LEMMA SuffixFacts ==
  ASSUME NEW q \in Seq(Node), NEW n \in 0..Len(q), NEW r, r = SubSeq(q, n + 1, Len(q))
  PROVE  Len(r) = Len(q) - n /\ \A k \in 1..(Len(q) - n) : n + k \in 1..Len(q) /\ r[k] = q[n + k]
<1>1. Len(r) = Len(q) - n
  OBVIOUS
<1>2. ASSUME NEW k \in 1..(Len(q) - n) PROVE n + k \in 1..Len(q) /\ r[k] = q[n + k]
  <2>1. n + k \in 1..Len(q) /\ (n + 1) + k - 1 = n + k
    OBVIOUS
  <2>2. r[k] = q[(n + 1) + k - 1]
    OBVIOUS
  <2> QED BY <2>1, <2>2
<1> QED BY <1>1, <1>2

\* The jobs of the tracker after n nodes: tracked, or finished, or to be finished.
Tracked(f, s, n, out) ==
  /\ TrackersOf(f, s, n)
  /\ out.state.tracking = f[n].tracking
  /\ out.state.stash = IF out.ckpt THEN {} ELSE f[n].stash
  /\ out.finished = IF out.ckpt THEN f[n].stash ELSE {}

\* What next_complete_barrier_task makes of the state s of database d, when it takes n nodes.
CompletedOK(d, s, n, out) ==
  /\ out.ckpt <=> (n > 0 /\ IsCheckpoint(s.queue[n]))
  /\ out.ckpt => /\ out.info = [prev |-> s.queue[n].prev, epochs |-> s.queue[n].epochs]
                 /\ out.notifiers = {s.queue[n].cmd} \ {NoCommand}
                 /\ out.state.completing.pause <=> ShouldPauseInjectBarrier(s.queue[n].cmd)
                 /\ out.state.completing.prev = s.queue[n].prev
                 /\ out.state.completing.curr = s.queue[n].curr
  /\ ~out.ckpt => out.state.completing = s.completing
  /\ \A c \in out.notified :
       c # NoCommand /\ \E k \in 1..Len(s.queue) : c = s.queue[k].cmd /\ ~IsCheckpoint(s.queue[k])
  /\ out.finished \subseteq JobsOf(d)
  /\ out.state \in DatabaseState /\ out.state.prev = s.prev
  /\ out.state.tracking \subseteq JobsOf(d) /\ out.state.stash \subseteq JobsOf(d)
  /\ Len(out.state.queue) = Len(s.queue) - n
  /\ \A k \in 1..Len(out.state.queue) :
       n + k \in 1..Len(s.queue) /\ out.state.queue[k] = s.queue[n + k]
  /\ out.force \in BOOLEAN
  /\ out.state.pending = s.pending
  /\ \E f : Tracked(f, s, n, out)

LEMMA CompletedFacts ==
  ASSUME NEW d \in Database, NEW s \in DatabaseState, Placed,
         \A k \in 1..Len(s.queue) : NodeOK(s.queue[k], d),
         s.tracking \subseteq JobsOf(d), s.stash \subseteq JobsOf(d),
         NEW n, n = Popped(s.queue), NEW out, out = Completed(s)
  PROVE  CompletedOK(d, s, n, out)
<1> DEFINE T == CHOOSE f : TrackersOf(f, s, n)
           tr == T[n]
           rest == SubSeq(s.queue, n + 1, Len(s.queue))
           ckpt == n > 0 /\ IsCheckpoint(s.queue[n])
           last == s.queue[n]
           force == /\ n > 0 /\ ~ckpt /\ tr.stash # {}
                    /\ \A i \in 1..Len(rest) : ~IsCheckpoint(rest[i])
           pop == SubSeq(s.queue, 1, n)
           mark == [prev |-> last.prev, curr |-> last.curr, pause |-> ShouldPauseInjectBarrier(last.cmd)]
           state == [s EXCEPT !.queue = rest, !.tracking = tr.tracking,
                          !.stash = IF ckpt THEN {} ELSE tr.stash,
                          !.completing = IF ckpt THEN mark ELSE @]
<1>1. out = [ckpt |-> ckpt, force |-> force,
      info |-> IF ckpt THEN [prev |-> last.prev, epochs |-> last.epochs] ELSE [prev |-> 0, epochs |-> <<>>],
      notified  |-> {pop[i].cmd : i \in {k \in 1..n : ~IsCheckpoint(pop[k])}} \ {NoCommand},
      notifiers |-> IF ckpt THEN {last.cmd} \ {NoCommand} ELSE {},
      finished  |-> IF ckpt THEN tr.stash ELSE {},
      state |-> state]
  BY DEF Completed, TrackersOf, Remaining
<1>2. n \in 0..Len(s.queue) /\ s.queue \in Seq(Node)
  BY PoppedFacts, DbFacts
<1>3. TrackersOf(T, s, n)
  <2>1. n \in Nat
    BY <1>2, DbFacts
  <2>2. \E f : TrackersOf(f, s, n)
    BY <2>1, TrackersExist
  <2> QED BY <2>2, Zenon
<1> HIDE DEF T
<1>4. tr \in Tracker(JobsOf(d))
  BY <1>2, <1>3, TrackersTyped
<1> HIDE DEF tr
<1>5. tr.tracking \subseteq JobsOf(d) /\ tr.stash \subseteq JobsOf(d)
  BY <1>4 DEF Tracker
<1>6. rest \in Seq(Node)
  BY <1>2, DbFacts
<1>7. ckpt \in BOOLEAN /\ force \in BOOLEAN
  OBVIOUS
<1>8. ckpt => mark \in [prev : Epoch, curr : Epoch, pause : BOOLEAN]
  <2>1. ckpt => last.prev \in Epoch /\ last.curr \in Epoch
    BY <1>2, DbFacts DEF Epoch
  <2> QED BY <2>1 DEF ShouldPauseInjectBarrier
<1>9. (mark.pause <=> ShouldPauseInjectBarrier(last.cmd)) /\ mark.prev = last.prev /\ mark.curr = last.curr
  OBVIOUS
<1> HIDE DEF rest, force, mark, last, pop
<1>10. /\ out.ckpt = ckpt /\ out.force = force /\ out.state = state
       /\ ckpt => /\ out.info = [prev |-> last.prev, epochs |-> last.epochs]
                  /\ out.notifiers = {last.cmd} \ {NoCommand}
       /\ out.notified = {pop[i].cmd : i \in {k \in 1..n : ~IsCheckpoint(pop[k])}} \ {NoCommand}
       /\ out.finished = IF ckpt THEN tr.stash ELSE {}
  BY <1>1
<1> HIDE DEF ckpt
<1>11. /\ state \in DatabaseState /\ state.prev = s.prev /\ state.queue = rest
       /\ state.tracking = tr.tracking /\ state.stash = IF ckpt THEN {} ELSE tr.stash
       /\ state.completing = (IF ckpt THEN mark ELSE s.completing) /\ state.pending = s.pending
  <2>1. JobsOf(d) \subseteq Job
    BY DEF JobsOf
  <2> QED BY <1>5, <1>6, <1>7, <1>8, <2>1 DEF DatabaseState
<1> HIDE DEF state
<1>12. /\ (out.ckpt <=> ckpt) /\ out.force \in BOOLEAN
       /\ out.ckpt => /\ out.info = [prev |-> last.prev, epochs |-> last.epochs]
                      /\ out.notifiers = {last.cmd} \ {NoCommand}
                      /\ out.state.completing.pause <=> ShouldPauseInjectBarrier(last.cmd)
                      /\ out.state.completing.prev = last.prev
                      /\ out.state.completing.curr = last.curr
       /\ ~out.ckpt => out.state.completing = s.completing
  BY <1>7, <1>9, <1>10, <1>11
<1>13. /\ out.finished \subseteq JobsOf(d) /\ out.state \in DatabaseState /\ out.state.prev = s.prev
       /\ out.state.tracking \subseteq JobsOf(d) /\ out.state.stash \subseteq JobsOf(d)
       /\ out.state.queue = rest /\ out.state.pending = s.pending
  BY <1>5, <1>10, <1>11
<1>14. out.notified = {pop[i].cmd : i \in {k \in 1..n : ~IsCheckpoint(pop[k])}} \ {NoCommand}
  BY <1>10
<1>15. out.ckpt <=> (n > 0 /\ IsCheckpoint(s.queue[n]))
  BY <1>12 DEF ckpt
<1> HIDE DEF ckpt
<1>16. out.ckpt => /\ out.info = [prev |-> s.queue[n].prev, epochs |-> s.queue[n].epochs]
                   /\ out.notifiers = {s.queue[n].cmd} \ {NoCommand}
                   /\ out.state.completing.pause <=> ShouldPauseInjectBarrier(s.queue[n].cmd)
                   /\ out.state.completing.prev = s.queue[n].prev
                   /\ out.state.completing.curr = s.queue[n].curr
  BY <1>12 DEF last
<1>17. Len(rest) = Len(s.queue) - n /\ \A k \in 1..(Len(s.queue) - n) :
                                            n + k \in 1..Len(s.queue) /\ rest[k] = s.queue[n + k]
  BY <1>2, SuffixFacts DEF rest
<1>18. /\ Len(out.state.queue) = Len(s.queue) - n
       /\ \A k \in 1..Len(out.state.queue) :
            n + k \in 1..Len(s.queue) /\ out.state.queue[k] = s.queue[n + k]
  BY <1>13, <1>17
<1>19. ASSUME NEW c \in out.notified
       PROVE  c # NoCommand /\ \E k \in 1..Len(s.queue) : c = s.queue[k].cmd /\ ~IsCheckpoint(s.queue[k])
  <2>1. \A k \in 1..n : pop[k] = s.queue[k] /\ k \in 1..Len(s.queue)
    BY <1>2 DEF pop
  <2>2. PICK k \in 1..n : ~IsCheckpoint(pop[k]) /\ c = pop[k].cmd
    BY <1>14
  <2>3. c # NoCommand
    BY <1>14
  <2> QED BY <2>1, <2>2, <2>3
<1>20. Tracked(T, s, n, out)
  <2>1. /\ out.state.tracking = tr.tracking
        /\ out.state.stash = IF out.ckpt THEN {} ELSE tr.stash
        /\ out.finished = IF out.ckpt THEN tr.stash ELSE {}
    BY <1>7, <1>10, <1>11
  <2> QED BY <1>3, <2>1 DEF Tracked, tr
<1> QED BY <1>12, <1>13, <1>15, <1>16, <1>18, <1>19, <1>20 DEF CompletedOK

\* The same, of a database d of the cluster with queue q, of which n nodes are taken.
DoneOK(d, q, n, out) ==
  /\ n \in 0..Len(q) /\ Len(q) \in Nat
  /\ \A k \in 1..n : q[k].wait = {}
  /\ out.ckpt => /\ n \in 1..Len(q) /\ IsCheckpoint(q[n])
                 /\ out.info = [prev |-> q[n].prev, epochs |-> q[n].epochs]
                 /\ out.notifiers = {q[n].cmd} \ {NoCommand}
                 /\ out.state.completing.pause <=> ShouldPauseInjectBarrier(q[n].cmd)
                 /\ out.state.completing.prev = q[n].prev
                 /\ out.state.completing.curr = q[n].curr
  /\ ~out.ckpt => out.state.completing = db[d].completing
  /\ \A c \in out.notified : c # NoCommand /\ \E k \in 1..Len(q) : c = q[k].cmd /\ ~IsCheckpoint(q[k])
  /\ out.finished \subseteq JobsOf(d)
  /\ out.state \in DatabaseState /\ out.state.prev = db[d].prev
  /\ out.state.tracking \subseteq JobsOf(d) /\ out.state.stash \subseteq JobsOf(d)
  /\ Len(out.state.queue) = Len(q) - n
  /\ \A k \in 1..Len(out.state.queue) : n + k \in 1..Len(q) /\ out.state.queue[k] = q[n + k]
  /\ \A k \in 1..(n - 1) : ~IsCheckpoint(q[k])
  /\ n > 0 /\ ~out.ckpt => ~IsCheckpoint(q[n])
  /\ out.state.pending = db[d].pending
  /\ \E f : Tracked(f, db[d], n, out)

LEMMA DoneFacts ==
  ASSUME IInv, NEW d \in Database
  PROVE  DoneOK(d, db[d].queue, Popped(db[d].queue), Completed(db[d]))
<1> SUFFICES ASSUME NEW q, q = db[d].queue, NEW n, n = Popped(q), NEW out, out = Completed(db[d])
             PROVE  DoneOK(d, q, n, out)
  OBVIOUS
<1>1. db[d] \in DatabaseState /\ Placed /\ \A k \in 1..Len(q) : NodeOK(q[k], d)
  BY DEF IInv, Types, DbType, Commands, Queued
<1>2. db[d].tracking \subseteq JobsOf(d) /\ db[d].stash \subseteq JobsOf(d)
  BY <1>1, DbFacts DEF IInv, Recovery, JobsOf
<1>3. q \in Seq(Node) /\ Len(q) \in Nat
  BY <1>1, DbFacts
<1>4. /\ n \in 0..Len(q) /\ \A k \in 1..n : q[k].wait = {}
      /\ \A k \in 1..(n - 1) : ~IsCheckpoint(q[k])
  BY <1>3, PoppedFacts DEF IsInflight
<1>5. /\ out.ckpt <=> (n > 0 /\ IsCheckpoint(q[n]))
      /\ out.ckpt => /\ out.info = [prev |-> q[n].prev, epochs |-> q[n].epochs]
                     /\ out.notifiers = {q[n].cmd} \ {NoCommand}
                     /\ out.state.completing.pause <=> ShouldPauseInjectBarrier(q[n].cmd)
                     /\ out.state.completing.prev = q[n].prev
                     /\ out.state.completing.curr = q[n].curr
      /\ ~out.ckpt => out.state.completing = db[d].completing
      /\ \A c \in out.notified :
           c # NoCommand /\ \E k \in 1..Len(q) : c = q[k].cmd /\ ~IsCheckpoint(q[k])
      /\ out.finished \subseteq JobsOf(d)
      /\ out.state \in DatabaseState /\ out.state.prev = db[d].prev
      /\ out.state.tracking \subseteq JobsOf(d) /\ out.state.stash \subseteq JobsOf(d)
      /\ Len(out.state.queue) = Len(q) - n
      /\ \A k \in 1..Len(out.state.queue) : n + k \in 1..Len(q) /\ out.state.queue[k] = q[n + k]
      /\ out.state.pending = db[d].pending /\ \E f : Tracked(f, db[d], n, out)
  <2>1. ASSUME NEW s, s = db[d] PROVE CompletedOK(d, s, n, out)
    <3>1. /\ s \in DatabaseState /\ Placed /\ s.tracking \subseteq JobsOf(d) /\ s.stash \subseteq JobsOf(d)
          /\ \A k \in 1..Len(s.queue) : NodeOK(s.queue[k], d)
          /\ n = Popped(s.queue) /\ out = Completed(s)
      BY <1>1, <1>2, <2>1
    <3> QED BY <3>1, CompletedFacts
  <2>2. CompletedOK(d, db[d], n, out) /\ db[d].queue = q
    BY <2>1
  <2> QED BY <2>2 DEF CompletedOK
<1>9. out.ckpt => n \in 1..Len(q) /\ IsCheckpoint(q[n])
  BY <1>4, <1>5
<1> QED BY <1>3, <1>4, <1>5, <1>9 DEF DoneOK

\* In a queue, a barrier that pauses the injection is the last.
LEMMA PauseIsLast ==
  ASSUME IInv, NEW d \in Database, NEW k \in 1..Len(db[d].queue),
         ShouldPauseInjectBarrier(db[d].queue[k].cmd)
  PROVE  k = Len(db[d].queue)
<1> DEFINE q == db[d].queue  n == Len(q)
<1>1. db[d] \in DatabaseState
  BY DEF IInv, Types, DbType
<1>2. n \in Nat /\ \A j \in 1..n : q[j].prev \in Nat /\ q[j].curr \in Nat
  BY <1>1, DbFacts
<1> SUFFICES ASSUME k # n PROVE FALSE
  OBVIOUS
<1>3. n \in 1..n /\ k \in 1..(n - 1)
  BY <1>2
<1>4. q[n].curr <= q[k].curr
  BY <1>3 DEF IInv, Pauses
<1>5. q[n].prev < q[n].curr /\ q[k].curr <= q[n].prev
  BY <1>3 DEF IInv, Queues, QueueOK, Chain
<1>6. /\ q[n].prev \in Nat /\ q[n].curr \in Nat /\ q[k].curr \in Nat
  BY <1>2, <1>3
<1> HIDE DEF q, n
<1> QED BY <1>4, <1>5, <1>6

LEMMA CompleteStep ==
  IInv /\ StartCompleting => IInv'
<1> SUFFICES ASSUME IInv, StartCompleting PROVE IInv'
  OBVIOUS
<1> DEFINE out  == [d \in running |-> Completed(db[d])]
           ckpt == {d \in running : out[d].ckpt}
           notified == UNION {out[d].notified : d \in running}
           new  == [stage |-> "commit", infos |-> [d \in ckpt |-> out[d].info],
                    notifiers |-> UNION {out[d].notifiers : d \in ckpt},
                    finished  |-> UNION {out[d].finished : d \in ckpt}]
           N(d) == Popped(db[d].queue)
<1> USE DEF nodeVars, schedVars
<1>0. /\ phase \in {"running", "clearing"}
      /\ db' = [d \in Database |-> IF d \in running THEN out[d].state ELSE db[d]]
      /\ task' = IF ckpt = {} THEN NoTask ELSE new
      /\ result' = [c \in Command |-> IF c \in notified THEN "collected" ELSE result[c]]
      /\ periodic' = [periodic EXCEPT !.force = TRUE] \/ periodic' = periodic
      /\ UNCHANGED <<clock, running, committed, created, nodeVars, schedVars, phase>>
  BY DEF StartCompleting, NextCompleteBarrierTask
<1>1. /\ running \subseteq Database /\ ~blocked /\ db \in [Database -> DatabaseState]
      /\ periodic \in [force : BOOLEAN, uncheckpointed : Nat]
  BY <1>0 DEF IInv, Types, LoopType, DbType, Recovery
<1>2. \A d \in running : DoneOK(d, db[d].queue, N(d), out[d])
  BY <1>1, DoneFacts
<1> HIDE DEF out, N
<1>3. \A d \in Database :
        /\ db'[d] \in DatabaseState /\ db'[d].prev = db[d].prev
        /\ d \notin running => db'[d] = db[d]
        /\ d \in running => db'[d] = out[d].state
  <2> TAKE d \in Database
  <2>1. d \in running => out[d].state \in DatabaseState /\ out[d].state.prev = db[d].prev
    BY <1>2 DEF DoneOK
  <2>2. db'[d] = IF d \in running THEN out[d].state ELSE db[d]
    BY <1>0
  <2> QED BY <2>1, <2>2, <1>1
<1>4. db' \in [Database -> DatabaseState]
  BY <1>0, <1>3
<1>5. ASSUME NEW d \in running
      PROVE  /\ d \in Database /\ N(d) \in 0..Len(db[d].queue) /\ Len(db[d].queue) \in Nat
             /\ N(d) \in Nat /\ Len(db'[d].queue) \in Nat
             /\ Len(db'[d].queue) = Len(db[d].queue) - N(d)
             /\ \A k \in 1..Len(db'[d].queue) :
                  N(d) + k \in 1..Len(db[d].queue) /\ db'[d].queue[k] = db[d].queue[N(d) + k]
  <2>1. db'[d] = out[d].state /\ DoneOK(d, db[d].queue, N(d), out[d])
    BY <1>1, <1>2, <1>3
  <2>2. /\ N(d) \in 0..Len(db[d].queue) /\ Len(db[d].queue) \in Nat
        /\ Len(out[d].state.queue) = Len(db[d].queue) - N(d)
        /\ \A k \in 1..Len(out[d].state.queue) :
             N(d) + k \in 1..Len(db[d].queue) /\ out[d].state.queue[k] = db[d].queue[N(d) + k]
    BY <2>1 DEF DoneOK
  <2>3. \A x, n : x \in Nat /\ n \in 0..x => n \in Nat /\ x - n \in Nat
    OBVIOUS
  <2>4. N(d) \in Nat /\ Len(db[d].queue) - N(d) \in Nat
    BY <2>2, <2>3
  <2> QED BY <2>1, <2>2, <2>4, <1>1
\* Every node of a queue was a node of it before.
<1>6. ASSUME NEW d \in Database, NEW k \in 1..Len(db'[d].queue)
      PROVE  \E j \in 1..Len(db[d].queue) : db'[d].queue[k] = db[d].queue[j]
  <2>1. CASE d \in running
    BY <2>1, <1>5
  <2>2. CASE d \notin running
    BY <2>2, <1>3
  <2> QED BY <2>1, <2>2
<1>7. ASSUME NEW d \in ckpt
      PROVE  /\ d \in running /\ N(d) \in 1..Len(db[d].queue)
             /\ out[d].info = [prev |-> db[d].queue[N(d)].prev, epochs |-> db[d].queue[N(d)].epochs]
             /\ out[d].notifiers = {db[d].queue[N(d)].cmd} \ {NoCommand}
             /\ db'[d].completing.pause <=> ShouldPauseInjectBarrier(db[d].queue[N(d)].cmd)
             /\ db'[d].completing.curr = db[d].queue[N(d)].curr
             /\ out[d].finished \subseteq JobsOf(d)
  <2>1. d \in running /\ out[d].ckpt
    OBVIOUS
  <2>2. DoneOK(d, db[d].queue, N(d), out[d]) /\ db'[d] = out[d].state
    BY <2>1, <1>1, <1>2, <1>3
  <2> QED BY <2>1, <2>2 DEF DoneOK
<1>8. \A d \in Database \ ckpt : db'[d].completing = db[d].completing
  <2> TAKE d \in Database \ ckpt
  <2>1. CASE d \in running
    <3>1. DoneOK(d, db[d].queue, N(d), out[d]) /\ db'[d] = out[d].state /\ ~out[d].ckpt
      BY <2>1, <1>2, <1>3
    <3> QED BY <3>1 DEF DoneOK
  <2>2. CASE d \notin running
    BY <2>2, <1>3
  <2> QED BY <2>1, <2>2
<1>9. \A d \in Database : db'[d].tracking \subseteq JobsOf(d) /\ db'[d].stash \subseteq JobsOf(d)
  <2> TAKE d \in Database
  <2>1. CASE d \in running
    <3>1. DoneOK(d, db[d].queue, N(d), out[d]) /\ db'[d] = out[d].state
      BY <2>1, <1>2, <1>3
    <3> QED BY <3>1 DEF DoneOK
  <2>2. CASE d \notin running
    <3>1. db[d].tracking \subseteq Job /\ db[d].stash \subseteq Job
      BY <1>1, DbFacts
    <3> QED BY <2>2, <3>1, <1>3 DEF IInv, Recovery, JobsOf
  <2> QED BY <2>1, <2>2
<1>10. ASSUME NEW c \in notified
       PROVE  cmd[c].kind # "None" /\ cmd[c].kind \in {"Resume", "ConfigResume"}
  <2>1. PICK d \in running : c \in out[d].notified
    OBVIOUS
  <2>2. DoneOK(d, db[d].queue, N(d), out[d]) /\ d \in Database
    BY <1>1, <1>2
  <2>3. c # NoCommand /\ \E k \in 1..Len(db[d].queue) : c = db[d].queue[k].cmd /\ ~IsCheckpoint(db[d].queue[k])
    BY <2>1, <2>2 DEF DoneOK
  <2>4. PICK k \in 1..Len(db[d].queue) : c = db[d].queue[k].cmd /\ ~IsCheckpoint(db[d].queue[k])
    BY <2>3
  <2>5. NodeOK(db[d].queue[k], d)
    BY <2>2 DEF IInv, Commands, Queued
  <2>6. IsFor(c, d) /\ ~NeedCheckpoint(c)
    BY <2>3, <2>4, <2>5 DEF NodeOK
  <2> QED BY <2>3, <2>6 DEF IsFor, NeedCheckpoint, KindOf
<1> HIDE DEF notified
<1>11. \A d \in Database : /\ db[d] \in DatabaseState /\ db[d].prev \in Nat /\ Len(db[d].queue) \in Nat
                           /\ \A k \in 1..Len(db[d].queue) :
                                /\ db[d].queue[k].prev \in Nat /\ db[d].queue[k].curr \in Nat
                                /\ db[d].queue[k].epochs \in Seq(Nat)
                                /\ db[d].queue[k].cmd \in 0..MaxCommands
  BY <1>1, DbFacts
<1>111. ASSUME NEW d \in ckpt
        PROVE  /\ out[d].info \in Info /\ out[d].info.prev = db[d].queue[N(d)].prev
               /\ \A c \in out[d].notifiers : c \in Command /\ c = db[d].queue[N(d)].cmd /\ c # NoCommand
  <2> DEFINE L == db[d].queue[N(d)]
  <2>1. /\ out[d].info = [prev |-> L.prev, epochs |-> L.epochs] /\ out[d].notifiers = {L.cmd} \ {NoCommand}
        /\ d \in Database /\ N(d) \in 1..Len(db[d].queue)
    BY <1>1, <1>7
  <2>2. L.prev \in Nat /\ L.epochs \in Seq(Nat) /\ L.cmd \in 0..MaxCommands
    BY <2>1, <1>11
  <2> HIDE DEF L
  <2>3. out[d].info \in Info /\ out[d].info.prev = L.prev
    BY <2>1, <2>2 DEF Info, Epoch
  <2>4. \A c \in out[d].notifiers : c \in Command /\ c = L.cmd /\ c # NoCommand
    <3> TAKE c \in out[d].notifiers
    <3>1. c = L.cmd /\ c # NoCommand
      BY <2>1
    <3> QED BY <3>1, <2>2, ConstantsOK DEF Command, NoCommand
  <2> QED BY <2>3, <2>4 DEF L
<1>12. TaskOK' /\ \A j \in task'.finished : JobDatabase[j] \in running
  <2>1. CASE ckpt = {}
    BY <2>1, <1>0, NoTaskOK DEF TaskOK
  <2>2. CASE ckpt # {}
    <3>1. task' = new
      BY <2>2, <1>0
    <3>2. [d \in ckpt |-> out[d].info] \in [ckpt -> Info]
      <4>1. ASSUME NEW d \in ckpt PROVE out[d].info \in Info
        BY <1>111
      <4> QED BY <4>1
    <3>3. new.notifiers \subseteq Command
      <4> SUFFICES ASSUME NEW d \in ckpt, NEW c \in out[d].notifiers PROVE c \in Command
        OBVIOUS
      <4> QED BY <1>111
    <3>4. \A j \in new.finished : j \in Job /\ JobDatabase[j] \in running
      <4> SUFFICES ASSUME NEW d \in ckpt, NEW j \in out[d].finished
                   PROVE  j \in Job /\ JobDatabase[j] \in running
        OBVIOUS
      <4> QED BY <1>7 DEF JobsOf
    <3>5. DOMAIN new.infos = ckpt /\ ckpt \subseteq Database
      BY <1>1
    <3>6. new \in TaskType(ckpt)
      BY <3>2, <3>3, <3>4 DEF TaskType
    <3> QED BY <3>1, <3>4, <3>5, <3>6 DEF TaskOK
  <2> QED BY <2>1, <2>2
<1>13. \A d \in DOMAIN task'.infos :
         /\ d \in ckpt /\ task'.infos[d].prev = db[d].queue[N(d)].prev /\ task'.stage = "commit"
  <2>1. CASE ckpt = {}
    BY <2>1, <1>0, NoTaskOK
  <2>2. CASE ckpt # {}
    <3>1. task' = new
      BY <2>2, <1>0
    <3>2. task'.infos = [d \in ckpt |-> out[d].info] /\ task'.stage = "commit"
      BY <3>1
    <3> HIDE DEF ckpt, new
    <3> QED BY <3>2, <1>111
  <2> QED BY <2>1, <2>2
<1>14. \A c \in task'.notifiers : \E d \in ckpt : /\ d \in DOMAIN task'.infos
                                                  /\ c = db[d].queue[N(d)].cmd /\ c # NoCommand
  <2>1. CASE ckpt = {}
    BY <2>1, <1>0 DEF NoTask
  <2>2. CASE ckpt # {}
    <3>1. task' = new
      BY <2>2, <1>0
    <3>2. task'.infos = [d \in ckpt |-> out[d].info] /\ task'.notifiers = UNION {out[d].notifiers : d \in ckpt}
      BY <3>1
    <3> HIDE DEF ckpt, new
    <3> TAKE c \in task'.notifiers
    <3>3. PICK d \in ckpt : c \in out[d].notifiers
      BY <3>2
    <3>4. d \in DOMAIN task'.infos
      BY <3>2
    <3> QED BY <3>3, <3>4, <1>111
  <2> QED BY <2>1, <2>2
<1> HIDE DEF ckpt, new
<1>15. Types'
  <2>1. LoopType'
    BY <1>0, <1>1 DEF IInv, Types, LoopType
  <2>2. CommandType'
    BY <1>0 DEF IInv, Types, CommandType, Results, Resolved
  <2>3. DbType' /\ StreamType'
    BY <1>0, <1>4 DEF IInv, Types, DbType, StreamType
  <2> QED BY <2>1, <2>2, <2>3, <1>12 DEF Types
<1>16. Queues'
  <2> SUFFICES ASSUME NEW d \in Database
               PROVE  QueueOK(db'[d], clock) /\ (d \notin running => Idle(db'[d]))
    BY <1>0 DEF Queues, QueueOK, Chain, Idle
  <2>1. QueueOK(db[d], clock) /\ (d \notin running => Idle(db[d]))
    BY DEF IInv, Queues
  <2>2. CASE d \notin running
    BY <2>1, <2>2, <1>3
  <2>3. CASE d \in running
    <3> DEFINE q == db[d].queue  r == db'[d].queue  n == N(d)
    <3>1. /\ n \in Nat /\ Len(r) \in Nat
          /\ \A k \in 1..Len(r) : n + k \in 1..Len(q) /\ r[k] = q[n + k]
      BY <2>3, <1>5
    <3>2. Chain(q) /\ (\A k \in 1..Len(q) : q[k].curr <= db[d].prev) /\ db[d].prev <= clock
      BY <2>1 DEF QueueOK
    <3> HIDE DEF q, r, n
    <3>3. Chain(r)
      <4>1. ASSUME NEW k \in 1..Len(r) PROVE r[k].prev < r[k].curr
        BY <3>1, <3>2 DEF Chain
      <4>2. ASSUME NEW k \in 1..Len(r), NEW j \in 1..(k - 1) PROVE r[j].curr <= r[k].prev
        <5>1. j \in 1..Len(r) /\ n + j \in 1..((n + k) - 1) /\ n + k \in 1..Len(q)
          BY <3>1
        <5> QED BY <5>1, <3>1, <3>2 DEF Chain
      <4> QED BY <4>1, <4>2 DEF Chain
    <3>4. \A k \in 1..Len(r) : r[k].curr <= db'[d].prev
      BY <3>1, <3>2, <1>3
    <3> QED BY <2>3, <3>2, <3>3, <3>4, <1>3 DEF QueueOK, r
  <2> QED BY <2>2, <2>3
<1>17. Commits'
  <2> SUFFICES ASSUME NEW d \in Database
               PROVE  /\ d \in running /\ phase # "clearing" => committed[d] < db'[d].prev
                      /\ Below(committed[d], db'[d])
                      /\ d \in DOMAIN task'.infos =>
                         /\ d \in running
                         /\ task'.infos[d].prev < db'[d].prev /\ Below(task'.infos[d].prev, db'[d])
                         /\ committed[d] < task'.infos[d].prev
                         /\ task'.stage = "commit"
    BY <1>0 DEF IInv, Commits, Below
  <2>1. /\ d \in running /\ phase # "clearing" => committed[d] < db'[d].prev
        /\ Below(committed[d], db[d])
    BY <1>3 DEF IInv, Commits
  <2>2. Below(committed[d], db'[d])
    BY <2>1, <1>6 DEF Below
  <2>3. ASSUME d \in DOMAIN task'.infos
        PROVE  /\ d \in running
               /\ task'.infos[d].prev < db'[d].prev /\ Below(task'.infos[d].prev, db'[d])
               /\ committed[d] < task'.infos[d].prev
               /\ task'.stage = "commit"
    <3> DEFINE q == db[d].queue  r == db'[d].queue  n == N(d)
    <3>1. /\ d \in ckpt /\ task'.infos[d].prev = q[n].prev /\ task'.stage = "commit"
          /\ d \in running /\ n \in 1..Len(q)
      BY <2>3, <1>13, <1>7
    <3>2. /\ n \in Nat /\ Len(r) \in Nat /\ Len(q) \in Nat
          /\ \A k \in 1..Len(r) : n + k \in 1..Len(q) /\ r[k] = q[n + k]
      BY <3>1, <1>5
    <3>3. Chain(q) /\ \A k \in 1..Len(q) : q[k].curr <= db[d].prev
      BY DEF IInv, Queues, QueueOK
    <3>4. db[d].prev \in Nat /\ \A k \in 1..Len(q) : q[k].prev \in Nat /\ q[k].curr \in Nat
      BY <1>11
    <3>5. committed[d] < q[n].prev
      BY <2>1, <3>1 DEF Below
    <3> HIDE DEF q, n
    <3>6. q[n].prev < db[d].prev
      BY <3>1, <3>3, <3>4 DEF Chain
    <3>7. \A k \in 1..Len(r) : q[n].prev < r[k].prev
      <4> HIDE DEF r
      <4> TAKE k \in 1..Len(r)
      <4>1. n + k \in 1..Len(q) /\ r[k] = q[n + k] /\ n \in 1..((n + k) - 1)
        BY <3>1, <3>2
      <4>2. q[n].prev < q[n].curr /\ q[n].curr <= q[n + k].prev
        BY <4>1, <3>1, <3>3 DEF Chain
      <4> QED BY <4>1, <4>2, <3>1, <3>4
    <3> QED BY <3>1, <3>5, <3>6, <3>7, <1>3 DEF Below
  <2> QED BY <2>1, <2>2, <2>3
<1>18. Streams'
  <2> SUFFICES ASSUME NEW w \in Worker, NEW d \in Database
               PROVE  StreamOK(w, stream[w][d], db'[d])
    BY <1>0 DEF Streams, StreamOK
  <2>1. StreamOK(w, stream[w][d], db[d])
    BY DEF IInv, Streams
  <2>2. CASE d \notin running
    BY <2>1, <2>2, <1>3
  <2>3. CASE d \in running
    <3> DEFINE q == db[d].queue  r == db'[d].queue  n == N(d)
    <3>1. /\ n \in 0..Len(q) /\ Len(q) \in Nat /\ Len(r) = Len(q) - n
          /\ \A k \in 1..Len(r) : n + k \in 1..Len(q) /\ r[k] = q[n + k]
      BY <2>3, <1>5
    <3>2. \A k \in 1..n : q[k].wait = {}
      <4>1. DoneOK(d, q, n, out[d])
        BY <2>3, <1>2
      <4> QED BY <4>1 DEF DoneOK
    <3>3. ASSUME NEW i \in 1..Len(stream[w][d])
          PROVE  \E k \in 1..Len(r) : r[k].prev = stream[w][d][i] /\ w \in r[k].wait
      <4>1. PICK k \in 1..Len(q) : q[k].prev = stream[w][d][i] /\ w \in q[k].wait
        BY <2>1 DEF StreamOK
      <4> HIDE DEF q, r, n
      <4>2. ~(k \in 1..n)
        BY <4>1, <3>2
      <4>3. k - n \in 1..Len(r) /\ n + (k - n) = k
        BY <4>2, <3>1
      <4>4. r[k - n] = q[n + (k - n)]
        BY <4>3, <3>1
      <4> QED BY <4>1, <4>3, <4>4
    <3> QED BY <2>1, <3>3 DEF StreamOK
  <2> QED BY <2>2, <2>3
<1>19. Recovery'
  BY <1>0, <1>1, <1>9, <1>12 DEF IInv, Recovery, Idle, JobsOf
<1>20. Scheduled'
  BY <1>0, <1>3 DEF IInv, Commands, Scheduled, IsFor
<1>21. Queued'
  <2>1. ASSUME NEW d \in Database, NEW k \in 1..Len(db'[d].queue) PROVE NodeOK(db'[d].queue[k], d)
    <3>1. PICK j \in 1..Len(db[d].queue) : db'[d].queue[k] = db[d].queue[j]
      BY <1>6
    <3>2. NodeOK(db[d].queue[j], d)
      BY DEF IInv, Commands, Queued
    <3> QED BY <3>1, <3>2
  <2>2. UNCHANGED <<cmd, asked>>
    BY <1>0
  <2> QED BY <2>1, <2>2, QueuedNext
<1>22. Notified'
  <2> SUFFICES ASSUME NEW c \in task'.notifiers
               PROVE  /\ cmd[c].kind # "None" /\ cmd[c].db \in DOMAIN task'.infos
                      /\ asked[c] <= task'.infos[cmd[c].db].prev
    BY <1>0 DEF Notified
  <2>1. PICK d \in ckpt : /\ d \in DOMAIN task'.infos
                          /\ c = db[d].queue[N(d)].cmd /\ c # NoCommand
    BY <1>14
  <2>2. d \in Database /\ N(d) \in 1..Len(db[d].queue) /\ task'.infos[d].prev = db[d].queue[N(d)].prev
    BY <2>1, <1>1, <1>7, <1>13
  <2>3. NodeOK(db[d].queue[N(d)], d)
    BY <2>2 DEF IInv, Commands, Queued
  <2>4. cmd[c].kind # "None" /\ cmd[c].db = d /\ asked[c] <= db[d].queue[N(d)].prev
    BY <2>1, <2>3 DEF NodeOK, IsFor
  <2> QED BY <2>1, <2>2, <2>4
<1>23. Clients'
  BY <1>0, <1>10 DEF IInv, Commands, Clients
<1>24. Commands'
  BY <1>0, <1>20, <1>21, <1>22, <1>23, Frame DEF IInv, Commands
<1>25. \A d, e \in Database : \A i \in 1..Len(db'[d].queue), k \in 1..Len(db'[e].queue) :
         ShouldPauseInjectBarrier(db'[d].queue[i].cmd) => db'[e].queue[k].curr <= db'[d].queue[i].curr
  <2> TAKE d, e \in Database
  <2> TAKE i \in 1..Len(db'[d].queue), k \in 1..Len(db'[e].queue)
  <2>1. PICK j \in 1..Len(db[d].queue) : db'[d].queue[i] = db[d].queue[j]
    BY <1>6
  <2>2. PICK m \in 1..Len(db[e].queue) : db'[e].queue[k] = db[e].queue[m]
    BY <1>6
  <2>3. ShouldPauseInjectBarrier(db[d].queue[j].cmd) => db[e].queue[m].curr <= db[d].queue[j].curr
    BY DEF IInv, Pauses
  <2> QED BY <2>1, <2>2, <2>3
<1>26. ASSUME NEW d \in Database, db'[d].completing.pause
       PROVE  /\ Len(db'[d].queue) = 0
              /\ \A e \in Database : \A k \in 1..Len(db'[e].queue) : db'[e].queue[k].curr <= db'[d].completing.curr
  <2>1. CASE d \in ckpt
    <3> DEFINE n == N(d)
    <3>1. /\ d \in running /\ n \in 1..Len(db[d].queue)
          /\ ShouldPauseInjectBarrier(db[d].queue[n].cmd)
      BY <2>1, <1>7, <1>26
    <3>2. n = Len(db[d].queue)
      BY <3>1, PauseIsLast
    <3>3. Len(db'[d].queue) = 0
      BY <3>1, <3>2, <1>5
    <3>4. ASSUME NEW e \in Database, NEW k \in 1..Len(db'[e].queue)
          PROVE  db'[e].queue[k].curr <= db'[d].completing.curr
      <4>1. PICK m \in 1..Len(db[e].queue) : db'[e].queue[k] = db[e].queue[m]
        BY <1>6
      <4>2. db[e].queue[m].curr <= db[d].queue[n].curr
        BY <3>1 DEF IInv, Pauses
      <4>3. db'[d].completing.curr = db[d].queue[n].curr
        BY <2>1, <1>7
      <4> QED BY <4>1, <4>2, <4>3
    <3> QED BY <3>3, <3>4
  <2>2. CASE d \notin ckpt
    <3>1. db[d].completing.pause
      BY <2>2, <1>8, <1>26
    <3>2. /\ Len(db[d].queue) = 0
          /\ \A e \in Database : \A k \in 1..Len(db[e].queue) : db[e].queue[k].curr <= db[d].completing.curr
      BY <3>1 DEF IInv, Pauses
    <3>3. Len(db'[d].queue) = 0
      <4>1. CASE d \in running
        BY <4>1, <3>2, <1>5
      <4>2. CASE d \notin running
        BY <4>2, <3>2, <1>3
      <4> QED BY <4>1, <4>2
    <3>4. ASSUME NEW e \in Database, NEW k \in 1..Len(db'[e].queue)
          PROVE  db'[e].queue[k].curr <= db'[d].completing.curr
      <4>1. PICK m \in 1..Len(db[e].queue) : db'[e].queue[k] = db[e].queue[m]
        BY <1>6
      <4>2. db'[d].completing = db[d].completing
        BY <2>2, <1>8
      <4> QED BY <4>1, <4>2, <3>2
    <3> QED BY <3>3, <3>4
  <2> QED BY <2>1, <2>2
<1>27. Pauses'
  BY <1>0, <1>25, <1>26 DEF Pauses, ShouldPauseInjectBarrier, KindOf
<1> QED BY <1>15, <1>16, <1>17, <1>18, <1>19, <1>24, <1>27 DEF IInv

-----------------------------------------------------------------------------
\* A worker answers

LEMMA TailFacts ==
  ASSUME NEW q \in Seq(Nat), q # <<>>, NEW t, t = Tail(q)
  PROVE  /\ t \in Seq(Nat) /\ Len(q) \in Nat /\ Len(t) = Len(q) - 1 /\ Head(q) = q[1] /\ 1 \in 1..Len(q)
         /\ \A i \in 1..Len(t) : i + 1 \in 1..Len(q) /\ t[i] = q[i + 1]
  OBVIOUS

\* The effect of BarrierCollected(w, d): w has collected barrier i of d, whose actors report
\* that the backfill of the jobs in done is finished.
CollectedOf(w, d, i, done) ==
  /\ phase = "running" /\ stream[w][d] # <<>> /\ i \in 1..Len(db[d].queue)
  /\ done \subseteq Backfill /\ done \subseteq db[d].queue[i].jobs /\ \A j \in done : doneAt[j] = 0
  /\ db[d].queue[i].prev = Head(stream[w][d])
  /\ doneAt' = [j \in Job |-> IF j \in done THEN Head(stream[w][d]) ELSE doneAt[j]]
  /\ \A f \in Database : f # d => db'[f] = db[f]
  /\ db' \in [Database -> DatabaseState]
  /\ \A f \in Database : /\ db'[f].prev = db[f].prev /\ db'[f].completing = db[f].completing
                         /\ db'[f].tracking = db[f].tracking /\ db'[f].stash = db[f].stash
                         /\ db'[f].pending = db[f].pending /\ Len(db'[f].queue) = Len(db[f].queue)
  /\ \A f \in Database : \A k \in 1..Len(db[f].queue) :
       LET new == db'[f].queue[k]
           old == db[f].queue[k]
       IN /\ new.prev = old.prev /\ new.curr = old.curr /\ new.cmd = old.cmd /\ new.epochs = old.epochs
          /\ new.jobs = old.jobs
          /\ (f # d \/ k # i) => new.wait = old.wait /\ new.done = old.done
          /\ (f = d /\ k = i) => new.wait = old.wait \ {w} /\ new.done = old.done \cup done

LEMMA CollectedFacts ==
  ASSUME IInv, NEW w \in Worker, NEW d \in Database, BarrierCollected(w, d)
  PROVE  \E i, done : CollectedOf(w, d, i, done)
<1> DEFINE e == Head(stream[w][d])
<1>0. phase = "running" /\ stream[w][d] # <<>>
  BY DEF BarrierCollected, Polling
<1>1. PICK i \in 1..Len(db[d].queue), done \in SUBSET Backfill :
        /\ db[d].queue[i].prev = e /\ done \subseteq db[d].queue[i].jobs /\ \A j \in done : doneAt[j] = 0
        /\ db' = [db EXCEPT ![d].queue[i] =
                    [db[d].queue[i] EXCEPT !.wait = @ \ {w}, !.done = @ \cup done]]
        /\ doneAt' = [j \in Job |-> IF j \in done THEN e ELSE doneAt[j]]
  BY DEF BarrierCollected
<1>2. db \in [Database -> DatabaseState] /\ db[d] \in DatabaseState
  BY DEF IInv, Types, DbType
<1> HIDE DEF e
<1> DEFINE old == db[d].queue[i]
           node == [old EXCEPT !.wait = @ \ {w}, !.done = @ \cup done]
<1>5. /\ node \in Node /\ node.prev = old.prev /\ node.curr = old.curr /\ node.cmd = old.cmd
      /\ node.epochs = old.epochs /\ node.wait = old.wait \ {w} /\ node.jobs = old.jobs
      /\ node.done = old.done \cup done
  <2>1. old \in Node /\ done \subseteq Job
    BY <1>2, DbFacts, ConstantsOK
  <2> HIDE DEF old
  <2> QED BY <2>1 DEF Node
<1> HIDE DEF node
<1>6. \A f \in Database : f # d => db'[f] = db[f]
  BY <1>1, <1>2
<1> DEFINE q == db[d].queue  r == [q EXCEPT ![i] = node]  s == [db[d] EXCEPT !.queue = r]
<1>7. db' = [db EXCEPT ![d] = s]
  BY <1>1, <1>2 DEF node, DatabaseState
<1>8. r \in Seq(Node) /\ Len(r) = Len(q) /\ Len(q) \in Nat
      /\ \A k \in 1..Len(q) : r[k] = IF k = i THEN node ELSE q[k]
  BY <1>2, <1>5, DbFacts
<1>9. /\ s \in DatabaseState /\ s.queue = r /\ s.prev = db[d].prev /\ s.completing = db[d].completing
      /\ s.tracking = db[d].tracking /\ s.stash = db[d].stash /\ s.pending = db[d].pending
  <2> HIDE DEF r
  <2> QED BY <1>2, <1>8 DEF DatabaseState
<1>10. db'[d] = s /\ db' \in [Database -> DatabaseState]
  <2> HIDE DEF s
  <2> QED BY <1>2, <1>7, <1>9
<1>11. ASSUME NEW f \in Database
       PROVE  /\ db'[f].prev = db[f].prev
              /\ db'[f].completing = db[f].completing
              /\ db'[f].tracking = db[f].tracking /\ db'[f].stash = db[f].stash
              /\ db'[f].pending = db[f].pending
              /\ Len(db'[f].queue) = Len(db[f].queue)
  <2> HIDE DEF s, r, q
  <2>1. CASE f = d
    BY <2>1, <1>8, <1>9, <1>10 DEF q
  <2>2. CASE f # d
    BY <2>2, <1>2, <1>6
  <2> QED BY <2>1, <2>2
<1>12. ASSUME NEW f \in Database, NEW k \in 1..Len(db[f].queue)
       PROVE  /\ db'[f].queue[k].prev = db[f].queue[k].prev /\ db'[f].queue[k].curr = db[f].queue[k].curr
              /\ db'[f].queue[k].cmd = db[f].queue[k].cmd
              /\ db'[f].queue[k].epochs = db[f].queue[k].epochs
              /\ db'[f].queue[k].jobs = db[f].queue[k].jobs
              /\ (f # d \/ k # i) => /\ db'[f].queue[k].wait = db[f].queue[k].wait
                                     /\ db'[f].queue[k].done = db[f].queue[k].done
              /\ (f = d /\ k = i) => /\ db'[f].queue[k].wait = db[f].queue[k].wait \ {w}
                                     /\ db'[f].queue[k].done = db[f].queue[k].done \cup done
  <2>1. CASE f # d
    BY <2>1, <1>6
  <2>2. CASE f = d /\ k # i
    <3>1. db'[f].queue[k] = q[k]
      BY <2>2, <1>8, <1>9, <1>10
    <3> QED BY <2>2, <3>1
  <2>3. CASE f = d /\ k = i
    <3>1. db'[f].queue[k] = node
      BY <2>3, <1>8, <1>9, <1>10
    <3> QED BY <2>3, <3>1, <1>5
  <2> QED BY <2>1, <2>2, <2>3
<1> HIDE DEF s, r, q, old
<1>13. CollectedOf(w, d, i, done)
  <2>1. /\ i \in 1..Len(db[d].queue) /\ done \subseteq Backfill /\ done \subseteq db[d].queue[i].jobs
        /\ \A j \in done : doneAt[j] = 0
        /\ db[d].queue[i].prev = Head(stream[w][d])
        /\ doneAt' = [j \in Job |-> IF j \in done THEN Head(stream[w][d]) ELSE doneAt[j]]
    BY <1>1 DEF e
  <2> QED BY <2>1, <1>0, <1>6, <1>10, <1>11, <1>12 DEF CollectedOf
<1> QED BY <1>13

LEMMA CollectedStep ==
  ASSUME IInv, NEW w \in Worker, NEW d \in Database, BarrierCollected(w, d)
  PROVE  IInv'
<1> DEFINE st == stream[w][d]  e == Head(st)  t == Tail(st)
<1> USE DEF taskVars, schedVars
<1>0. /\ phase = "running" /\ st # <<>> /\ stream' = [stream EXCEPT ![w][d] = Tail(@)]
      /\ UNCHANGED <<clock, running, periodic, taskVars, connected, schedVars, phase, result>>
  BY DEF BarrierCollected, Polling
<1>10. PICK i, done : CollectedOf(w, d, i, done)
  BY CollectedFacts
<1>1. /\ i \in 1..Len(db[d].queue) /\ db[d].queue[i].prev = e
      /\ doneAt' = [j \in Job |-> IF j \in done THEN e ELSE doneAt[j]]
  BY <1>10 DEF CollectedOf
<1>2. /\ db \in [Database -> DatabaseState] /\ db[d] \in DatabaseState
      /\ stream \in [Worker -> [Database -> Seq(Nat)]] /\ doneAt \in [Job -> Nat] /\ st \in Seq(Nat)
  BY DEF IInv, Types, DbType, StreamType
<1>3. /\ t \in Seq(Nat) /\ Len(st) \in Nat /\ Len(t) = Len(st) - 1 /\ e = st[1] /\ 1 \in 1..Len(st)
      /\ \A k \in 1..Len(t) : k + 1 \in 1..Len(st) /\ t[k] = st[k + 1]
  BY <1>0, <1>2, TailFacts
<1>4. \A v \in Worker, f \in Database : stream'[v][f] = IF v = w /\ f = d THEN t ELSE stream[v][f]
  BY <1>0, <1>2
<1>41. stream' \in [Worker -> [Database -> Seq(Nat)]]
  BY <1>0, <1>2, <1>3
<1> HIDE DEF t, st, e
<1>6. \A f \in Database : f # d => db'[f] = db[f]
  BY <1>10 DEF CollectedOf
<1>7. db' \in [Database -> DatabaseState]
  BY <1>10 DEF CollectedOf
<1>11. \A f \in Database :
         /\ db'[f] \in DatabaseState /\ db'[f].prev = db[f].prev
         /\ db'[f].completing = db[f].completing
         /\ db'[f].tracking = db[f].tracking /\ db'[f].stash = db[f].stash
         /\ Len(db'[f].queue) = Len(db[f].queue)
  BY <1>10 DEF CollectedOf
<1>12. \A f \in Database : \A k \in 1..Len(db[f].queue) :
         /\ db'[f].queue[k].prev = db[f].queue[k].prev /\ db'[f].queue[k].curr = db[f].queue[k].curr
         /\ db'[f].queue[k].cmd = db[f].queue[k].cmd
         /\ db'[f].queue[k].epochs = db[f].queue[k].epochs
         /\ (f # d \/ k # i) => db'[f].queue[k].wait = db[f].queue[k].wait
         /\ (f = d /\ k = i) => db'[f].queue[k].wait = db[f].queue[k].wait \ {w}
  BY <1>10 DEF CollectedOf
<1>13. Types'
  <2>1. doneAt' \in [Job -> Nat]
    <3>1. e \in Nat
      BY <1>2, <1>3
    <3> QED BY <3>1, <1>1, <1>2
  <2> QED BY <2>1, <1>0, <1>7, <1>41 DEF IInv, Types, LoopType, DbType, TaskOK, StreamType, CommandType
<1>14. Queues'
  <2>1. ASSUME NEW f \in Database
        PROVE  QueueOK(db'[f], clock) /\ (f \notin running => Idle(db'[f]))
    <3>1. QueueOK(db[f], clock) /\ (f \notin running => Idle(db[f]))
      BY DEF IInv, Queues
    <3>2. Chain(db'[f].queue)
      <4>1. \A k \in 1..Len(db[f].queue) : \A j \in 1..(k - 1) : j \in 1..Len(db[f].queue)
        BY <1>2, DbFacts
      <4>2. Chain(db[f].queue)
        BY <3>1 DEF QueueOK
      <4>3. ASSUME NEW k \in 1..Len(db[f].queue) PROVE db'[f].queue[k].prev < db'[f].queue[k].curr
        BY <4>2, <1>12 DEF Chain
      <4>4. ASSUME NEW k \in 1..Len(db[f].queue), NEW j \in 1..(k - 1)
            PROVE  db'[f].queue[j].curr <= db'[f].queue[k].prev
        <5>1. db[f].queue[j].curr <= db[f].queue[k].prev
          BY <4>2 DEF Chain
        <5> QED BY <5>1, <4>1, <1>12
      <4> QED BY <4>3, <4>4, <1>11 DEF Chain
    <3>3. (\A k \in 1..Len(db'[f].queue) : db'[f].queue[k].curr <= db'[f].prev) /\ db'[f].prev <= clock
      <4>1. (\A k \in 1..Len(db[f].queue) : db[f].queue[k].curr <= db[f].prev) /\ db[f].prev <= clock
        BY <3>1 DEF QueueOK
      <4>2. db'[f].prev = db[f].prev /\ Len(db'[f].queue) = Len(db[f].queue)
        BY <1>11
      <4>3. \A k \in 1..Len(db[f].queue) : db'[f].queue[k].curr = db[f].queue[k].curr
        BY <1>12
      <4> QED BY <4>1, <4>2, <4>3
    <3> QED BY <3>1, <3>2, <3>3, <1>11 DEF QueueOK, Idle
  <2> QED BY <2>1, <1>0 DEF Queues, QueueOK, Chain, Idle
<1>15. Commits'
  BY <1>0, <1>11, <1>12 DEF IInv, Commits, Below
<1>16. Recovery'
  BY <1>0, <1>11 DEF IInv, Recovery, Idle
<1>17. Scheduled'
  BY <1>0, <1>11 DEF IInv, Commands, Scheduled, IsFor
<1>18. Queued'
  <2>1. ASSUME NEW f \in Database, NEW k \in 1..Len(db'[f].queue) PROVE NodeOK(db'[f].queue[k], f)
    <3>1. k \in 1..Len(db[f].queue)
      BY <1>11
    <3>2. NodeOK(db[f].queue[k], f)
      BY <3>1 DEF IInv, Commands, Queued
    <3>3. /\ db'[f].queue[k].prev = db[f].queue[k].prev /\ db'[f].queue[k].cmd = db[f].queue[k].cmd
          /\ db'[f].queue[k].epochs = db[f].queue[k].epochs
      BY <3>1, <1>12
    <3> QED BY <3>2, <3>3 DEF NodeOK, IsCheckpoint
  <2>2. UNCHANGED <<cmd, asked>>
    BY <1>0
  <2> QED BY <2>1, <2>2, QueuedNext
<1>19. Commands'
  BY <1>0, <1>17, <1>18, Frame DEF IInv, Commands
<1>20. Pauses'
  <2>1. ASSUME NEW f \in Database, NEW g \in Database,
               NEW j \in 1..Len(db'[f].queue), NEW k \in 1..Len(db'[g].queue),
               ShouldPauseInjectBarrier(db'[f].queue[j].cmd)
        PROVE  db'[g].queue[k].curr <= db'[f].queue[j].curr
    <3>1. j \in 1..Len(db[f].queue) /\ k \in 1..Len(db[g].queue)
      BY <1>11
    <3>2. ShouldPauseInjectBarrier(db[f].queue[j].cmd)
      BY <2>1, <3>1, <1>12
    <3>3. db[g].queue[k].curr <= db[f].queue[j].curr
      BY <3>1, <3>2 DEF IInv, Pauses
    <3> QED BY <3>1, <3>3, <1>12
  <2>2. ASSUME NEW f \in Database, db'[f].completing.pause
        PROVE  /\ Len(db'[f].queue) = 0
               /\ \A g \in Database : \A k \in 1..Len(db'[g].queue) : db'[g].queue[k].curr <= db'[f].completing.curr
    <3>1. /\ Len(db[f].queue) = 0
          /\ \A g \in Database : \A k \in 1..Len(db[g].queue) : db[g].queue[k].curr <= db[f].completing.curr
      BY <2>2, <1>11 DEF IInv, Pauses
    <3> QED BY <3>1, <1>11, <1>12
  <2> QED BY <2>1, <2>2, <1>0 DEF Pauses, ShouldPauseInjectBarrier, KindOf
<1>21. ASSUME NEW v \in Worker, NEW f \in Database
       PROVE  StreamOK(v, stream'[v][f], db'[f])
  <2>1. StreamOK(v, stream[v][f], db[f])
    BY DEF IInv, Streams
  <2>2. CASE f # d
    BY <2>1, <2>2, <1>4, <1>6
  <2>3. CASE f = d /\ v # w
    <3>1. stream'[v][f] = stream[v][f]
      BY <2>3, <1>4
    <3>2. \A k \in 1..Len(db[f].queue) : v \in db[f].queue[k].wait => v \in db'[f].queue[k].wait
      BY <2>3, <1>12
    <3>3. ASSUME NEW k \in 1..Len(stream[v][f])
          PROVE  \E m \in 1..Len(db'[f].queue) :
                   db'[f].queue[m].prev = stream[v][f][k] /\ v \in db'[f].queue[m].wait
      <4>1. PICK m \in 1..Len(db[f].queue) :
              db[f].queue[m].prev = stream[v][f][k] /\ v \in db[f].queue[m].wait
        BY <2>1 DEF StreamOK
      <4> QED BY <4>1, <3>2, <1>11, <1>12
    <3>4. \A k \in 1..Len(stream[v][f]) : \A j \in 1..(k - 1) : stream[v][f][j] < stream[v][f][k]
      BY <2>1 DEF StreamOK
    <3>5. StreamOK(v, stream[v][f], db'[f])
      BY <3>3, <3>4 DEF StreamOK
    <3> QED BY <3>1, <3>5
  <2>4. CASE f = d /\ v = w
    <3>1. stream'[v][f] = t /\ stream[v][f] = st
      BY <2>4, <1>4 DEF st
    <3>2. /\ \A k \in 1..Len(st) : \A j \in 1..(k - 1) : st[j] < st[k]
          /\ \A k \in 1..Len(st) : \E m \in 1..Len(db[d].queue) :
               db[d].queue[m].prev = st[k] /\ w \in db[d].queue[m].wait
      BY <2>1, <2>4, <3>1 DEF StreamOK
    <3>3. ASSUME NEW k \in 1..Len(t), NEW j \in 1..(k - 1) PROVE t[j] < t[k]
      <4>1. j \in 1..Len(t) /\ j + 1 \in 1..((k + 1) - 1)
        BY <1>3
      <4> QED BY <4>1, <3>2, <1>3
    <3>4. ASSUME NEW k \in 1..Len(t)
          PROVE  \E m \in 1..Len(db'[d].queue) : db'[d].queue[m].prev = t[k] /\ w \in db'[d].queue[m].wait
      <4>1. t[k] = st[k + 1] /\ k + 1 \in 1..Len(st) /\ 1 \in 1..((k + 1) - 1)
        <5>1. t[k] = st[k + 1] /\ k + 1 \in 1..Len(st) /\ Len(t) \in Nat
          BY <1>3
        <5>2. 1 \in 1..((k + 1) - 1)
          BY <5>1
        <5> QED BY <5>1, <5>2
      <4>2. e < t[k] /\ e \in Nat /\ t[k] \in Nat
        <5>1. st[1] < st[k + 1]
          BY <4>1, <3>2
        <5>2. st[1] \in Nat /\ st[k + 1] \in Nat
          <6>1. st \in Seq(Nat)
            BY <1>2
          <6>2. \A x \in 1..Len(st) : st[x] \in Nat
            BY <6>1
          <6> QED BY <6>2, <4>1, <1>3
        <5> QED BY <5>1, <5>2, <4>1, <1>3
      <4>3. PICK m \in 1..Len(db[d].queue) : db[d].queue[m].prev = st[k + 1] /\ w \in db[d].queue[m].wait
        BY <4>1, <3>2
      <4>4. m # i
        BY <4>1, <4>2, <4>3, <1>1
      <4> QED BY <4>1, <4>3, <4>4, <1>11, <1>12
    <3> QED BY <2>4, <3>1, <3>3, <3>4 DEF StreamOK
  <2> QED BY <2>2, <2>3, <2>4
<1>22. Streams'
  BY <1>21 DEF Streams, StreamOK
<1> QED BY <1>13, <1>14, <1>15, <1>16, <1>19, <1>20, <1>22 DEF IInv

-----------------------------------------------------------------------------
\* The queues of scheduled commands

\* Commands leave the queues: what is left is as expected.
LEMMA FewerScheduled ==
  ASSUME Scheduled, UNCHANGED <<cmd, asked, clock, running, phase, db, blocked>>,
         \A d \in Database : \A i \in 1..Len(sched'[d]) :
           \E k \in 1..Len(sched[d]) : sched'[d][i] = sched[d][k]
  PROVE  Scheduled'
<1> SUFFICES ASSUME NEW d \in Database, NEW i \in 1..Len(sched'[d])
             PROVE  /\ IsFor(sched'[d][i], d) /\ asked[sched'[d][i]] <= clock
                    /\ d \in running /\ phase # "clearing" => asked[sched'[d][i]] <= db[d].prev
                    /\ blocked => cmd[sched'[d][i]].kind = "Drop"
  BY DEF Scheduled, IsFor
<1>1. PICK k \in 1..Len(sched[d]) : sched'[d][i] = sched[d][k]
  OBVIOUS
<1> QED BY <1>1 DEF Scheduled

LEMMA RemoveAtFacts ==
  ASSUME NEW S, NEW s \in Seq(S), NEW i \in 1..Len(s), NEW t, t = RemoveAt(s, i)
  PROVE  t \in Seq(S) /\ \A j \in 1..Len(t) : \E k \in 1..Len(s) : t[j] = s[k]
<1> DEFINE a == SubSeq(s, 1, i - 1)  b == SubSeq(s, i + 1, Len(s))
<1>1. t = a \o b
  BY DEF RemoveAt
<1>2. a \in Seq(S) /\ Len(a) = i - 1 /\ \A j \in 1..Len(a) : j \in 1..Len(s) /\ a[j] = s[j]
  OBVIOUS
<1>3. b \in Seq(S) /\ Len(b) = Len(s) - i
  OBVIOUS
<1>4. \A j \in 1..Len(b) : i + j \in 1..Len(s) /\ b[j] = s[i + j]
  <2> TAKE j \in 1..Len(b)
  <2>1. i + j \in 1..Len(s) /\ (i + 1) + j - 1 = i + j
    BY <1>3
  <2>2. b[j] = s[(i + 1) + j - 1]
    BY <1>3
  <2> QED BY <2>1, <2>2
<1> HIDE DEF a, b
<1>5. t \in Seq(S) /\ Len(t) = Len(a) + Len(b) /\ Len(a) \in Nat /\ Len(b) \in Nat
  <2>1. a \in Seq(S) /\ b \in Seq(S)
    BY <1>2, <1>3
  <2>2. a \o b \in Seq(S) /\ Len(a \o b) = Len(a) + Len(b) /\ Len(a) \in Nat /\ Len(b) \in Nat
    BY <2>1
  <2> QED BY <1>1, <2>2
<1>6. ASSUME NEW j \in 1..Len(t) PROVE \E k \in 1..Len(s) : t[j] = s[k]
  <2>1. CASE j \in 1..Len(a)
    <3>1. t[j] = a[j]
      BY <2>1, <1>1, <1>2, <1>3
    <3> QED BY <2>1, <3>1, <1>2
  <2>2. CASE j \notin 1..Len(a)
    <3>1. j - Len(a) \in 1..Len(b)
      BY <2>2, <1>5
    <3>2. t[j] = b[j - Len(a)]
      <4>1. j \in 1..(Len(a) + Len(b)) /\ ~(j <= Len(a)) /\ a \in Seq(S) /\ b \in Seq(S)
        BY <2>2, <1>2, <1>3, <1>5
      <4>2. (a \o b)[j] = b[j - Len(a)]
        BY <4>1
      <4> QED BY <4>2, <1>1
    <3> QED BY <3>1, <3>2, <1>4
  <2> QED BY <2>1, <2>2
<1> QED BY <1>5, <1>6

LEMMA CancelStep ==
  ASSUME IInv, NEW c \in Command, CancelScheduledCreate(c)
  PROVE  IInv'
<1> USE DEF dbVars, taskVars, nodeVars
<1>0. /\ result' = [result EXCEPT ![c] = "cancelled"]
      /\ UNCHANGED <<dbVars, taskVars, nodeVars, blocked, cmd, asked, phase>>
  BY DEF CancelScheduledCreate
<1>11. PICK d \in Database : \E i \in 1..Len(sched[d]) : sched' = [sched EXCEPT ![d] = RemoveAt(@, i)]
  BY DEF CancelScheduledCreate
<1>1. PICK i \in 1..Len(sched[d]) : sched' = [sched EXCEPT ![d] = RemoveAt(@, i)]
  BY <1>11
<1>2. sched \in [Database -> Seq(Command)] /\ result \in [Command -> Results]
  BY DEF IInv, Types, CommandType
<1> DEFINE t == RemoveAt(sched[d], i)
<1>3. t \in Seq(Command) /\ \A j \in 1..Len(t) : \E k \in 1..Len(sched[d]) : t[j] = sched[d][k]
  <2> DEFINE s == sched[d]
  <2>1. s \in Seq(Command) /\ i \in 1..Len(s) /\ t = RemoveAt(s, i)
    BY <1>2
  <2> HIDE DEF s, t
  <2>2. t \in Seq(Command) /\ \A j \in 1..Len(t) : \E k \in 1..Len(s) : t[j] = s[k]
    BY <2>1, RemoveAtFacts
  <2> QED BY <2>2 DEF s
<1>4. sched' = [sched EXCEPT ![d] = t]
  BY <1>1
<1> HIDE DEF t
<1>5. sched' \in [Database -> Seq(Command)] /\ result' \in [Command -> Results]
  BY <1>0, <1>2, <1>3, <1>4 DEF Results, Resolved
<1>6. ASSUME NEW e \in Database, NEW j \in 1..Len(sched'[e])
      PROVE  \E k \in 1..Len(sched[e]) : sched'[e][j] = sched[e][k]
  <2>1. CASE e = d
    BY <2>1, <1>2, <1>3, <1>4
  <2>2. CASE e # d
    BY <2>2, <1>2, <1>4
  <2> QED BY <2>1, <2>2
<1>7. Scheduled'
  BY <1>0, <1>6, FewerScheduled DEF IInv, Commands
<1>8. Types'
  BY <1>0, <1>5 DEF IInv, Types, LoopType, DbType, TaskOK, StreamType, CommandType
<1>9. Clients'
  BY <1>0, <1>2 DEF IInv, Commands, Clients
<1>10. Queues' /\ Commits' /\ Streams' /\ Recovery' /\ Pauses'
  BY <1>0, Frame DEF IInv
<1>12. Commands'
  BY <1>0, <1>7, <1>9, Frame DEF IInv, Commands
<1> QED BY <1>8, <1>10, <1>12 DEF IInv

\* New commands are issued, and those that are known stay as they are.
LEMMA KnownCommands ==
  ASSUME IInv, UNCHANGED <<db, task>>,
         \A c \in Command : cmd[c].kind # "None" => cmd'[c] = cmd[c] /\ asked'[c] = asked[c]
  PROVE  Queued' /\ Notified' /\ Pauses'
<1>1. ASSUME NEW e \in Database, NEW c, IsFor(c, e)
       PROVE  /\ c \in Command /\ cmd'[c].kind # "None" /\ cmd'[c].db = e
              /\ cmd'[c] = cmd[c] /\ asked'[c] = asked[c]
  BY <1>1 DEF IsFor
<1>2. Queued'
  <2> SUFFICES ASSUME NEW e \in Database, NEW k \in 1..Len(db[e].queue)
               PROVE  NodeOK(db[e].queue[k], e)'
    BY DEF Queued, NodeOK
  <2>1. NodeOK(db[e].queue[k], e)
    BY DEF IInv, Commands, Queued
  <2> DEFINE c == db[e].queue[k].cmd
  <2> SUFFICES ASSUME c # NoCommand
               PROVE  /\ c \in Command /\ cmd'[c].kind # "None" /\ cmd'[c].db = e
                      /\ asked'[c] <= db[e].queue[k].prev
                      /\ cmd'[c].kind \notin {"Resume", "ConfigResume"} => IsCheckpoint(db[e].queue[k])
    BY DEF NodeOK, IsCheckpoint, IsFor, NeedCheckpoint, KindOf
  <2>2. IsFor(c, e) /\ asked[c] <= db[e].queue[k].prev /\ (NeedCheckpoint(c) => IsCheckpoint(db[e].queue[k]))
    BY <2>1 DEF NodeOK
  <2>3. c \in Command /\ cmd'[c].kind # "None" /\ cmd'[c].db = e /\ cmd'[c] = cmd[c] /\ asked'[c] = asked[c]
    BY <2>2, <1>1
  <2> QED BY <2>2, <2>3 DEF NeedCheckpoint, KindOf
<1>3. Notified'
  <2> SUFFICES ASSUME NEW c \in task.notifiers
               PROVE  /\ cmd'[c].kind # "None" /\ cmd'[c].db \in DOMAIN task.infos
                      /\ asked'[c] <= task.infos[cmd'[c].db].prev
    BY DEF Notified
  <2>1. /\ cmd[c].kind # "None" /\ cmd[c].db \in DOMAIN task.infos
        /\ asked[c] <= task.infos[cmd[c].db].prev /\ c \in Command
    BY DEF IInv, Commands, Notified, Types, TaskOK, TaskType
  <2> QED BY <2>1
<1>4. Pauses'
  <2>1. ASSUME NEW e \in Database, NEW k \in 1..Len(db[e].queue),
               ShouldPauseInjectBarrier(db[e].queue[k].cmd)'
        PROVE  ShouldPauseInjectBarrier(db[e].queue[k].cmd)
    <3> DEFINE c == db[e].queue[k].cmd
    <3>1. c' = c
      OBVIOUS
    <3>2. c # NoCommand
      BY <2>1, <3>1 DEF ShouldPauseInjectBarrier, KindOf
    <3>3. IsFor(c, e)
      BY <3>2 DEF IInv, Commands, Queued, NodeOK
    <3>4. cmd'[c] = cmd[c]
      BY <3>3, <1>1
    <3> HIDE DEF c
    <3>5. ShouldPauseInjectBarrier(c)
      BY <2>1, <3>1, <3>2, <3>4 DEF ShouldPauseInjectBarrier, KindOf, c
    <3> QED BY <3>5 DEF c
  <2> QED BY <2>1 DEF IInv, Pauses
<1> QED BY <1>2, <1>3, <1>4

\* The number of the commands that are known.
LEMMA NumberedFacts ==
  ASSUME Numbered, NEW n, n = Cardinality({c \in Command : cmd[c].kind # "None"})
  PROVE  n \in 0..MaxCommands /\ {c \in Command : cmd[c].kind # "None"} = 1..n
<1>1. PICK m \in 0..MaxCommands : {c \in Command : cmd[c].kind # "None"} = 1..m
  BY DEF Numbered
<1>2. m \in Int
  BY <1>1, ConstantsOK
<1>3. Cardinality(1..m) = m
  BY <1>2, <1>1, FS_Interval
<1> QED BY <1>1, <1>3

LEMMA ScheduleStep ==
  ASSUME IInv, NEW batch \in Batch, NEW d \in Database, NEW j \in Job \cup {NoJob}, Schedule(batch, d, j)
  PROVE  IInv'
<1> USE DEF dbVars, taskVars, nodeVars
<1> DEFINE n    == Cardinality({c \in Command : cmd[c].kind # "None"})
           ids  == [i \in 1..Len(batch) |-> n + i]
           kinds == Range(batch)
           rejected == ~ValidateItem(kinds)
           L == Len(batch)
<1>0. /\ n + L <= MaxCommands
      /\ "Drop" \notin kinds
      /\ IF "Create" \in kinds THEN j \in Job /\ JobDatabase[j] = d ELSE j = NoJob
      /\ cmd' = [c \in Command |-> IF c \in Range(ids)
                   THEN [kind |-> batch[c - n], db |-> d, job |-> j] ELSE cmd[c]]
      /\ asked' = [c \in Command |-> IF c \in Range(ids) THEN db[d].prev ELSE asked[c]]
      /\ result' = [c \in Command |-> IF c \in Range(ids)
                   THEN (IF rejected THEN "rejected" ELSE "scheduled") ELSE result[c]]
      /\ sched' = [sched EXCEPT ![d] = IF rejected THEN @ ELSE @ \o ids]
      /\ UNCHANGED <<dbVars, taskVars, nodeVars, blocked, phase>>
  BY DEF Schedule
<1>1. batch \in Seq(Kind)
  BY BatchOK
<1>2. n \in 0..MaxCommands /\ {c \in Command : cmd[c].kind # "None"} = 1..n
  BY NumberedFacts DEF IInv, Commands
<1>3. L \in Nat /\ MaxCommands \in Nat /\ n \in Nat /\ \A i \in 1..L : batch[i] \in Kind /\ batch[i] \in kinds
  BY <1>1, <1>2, ConstantsOK DEF Range
<1>4. \A x \in kinds : x \in Kind
  BY <1>1 DEF Range
<1> HIDE DEF n, kinds, L
<1>5. Range(ids) = (n + 1)..(n + L)
  <2>1. Range(ids) = {n + i : i \in 1..L}
    BY DEF Range, L
  <2>2. ASSUME NEW x \in (n + 1)..(n + L) PROVE \E i \in 1..L : x = n + i
    <3>1. x - n \in 1..L /\ x = n + (x - n)
      BY <1>3
    <3> QED BY <3>1
  <2>3. \A i \in 1..L : n + i \in (n + 1)..(n + L)
    BY <1>3
  <2> HIDE DEF ids
  <2> QED BY <2>1, <2>2, <2>3
<1>6. ids \in Seq(Command) /\ Len(ids) = L /\ \A i \in 1..L : ids[i] = n + i
  <2>1. \A i \in 1..L : n + i \in Command
    BY <1>0, <1>3 DEF Command
  <2> QED BY <2>1, <1>3 DEF L
<1> HIDE DEF ids
<1> DEFINE new == (n + 1)..(n + L)
<1>7. /\ cmd' = [c \in Command |-> IF c \in new THEN [kind |-> batch[c - n], db |-> d, job |-> j] ELSE cmd[c]]
      /\ asked' = [c \in Command |-> IF c \in new THEN db[d].prev ELSE asked[c]]
      /\ result' = [c \in Command |-> IF c \in new
                   THEN (IF rejected THEN "rejected" ELSE "scheduled") ELSE result[c]]
  BY <1>0, <1>5
\* A command that is known already is left alone.
<1>8. \A c \in Command : cmd[c].kind # "None" => cmd'[c] = cmd[c] /\ asked'[c] = asked[c]
  <2> TAKE c \in Command
  <2> SUFFICES ASSUME cmd[c].kind # "None" PROVE c \notin new
    BY <1>7
  <2>1. c \in 1..n
    BY <1>2
  <2> QED BY <2>1, <1>3
<1>9. \A c \in new : c \in Command /\ c - n \in 1..L /\ cmd'[c] = [kind |-> batch[c - n], db |-> d, job |-> j]
                     /\ asked'[c] = db[d].prev
  <2> TAKE c \in new
  <2>1. c \in Command /\ c - n \in 1..L
    BY <1>0, <1>3 DEF Command
  <2> QED BY <2>1, <1>7
<1>10. db[d] \in DatabaseState /\ db[d].prev \in Nat /\ db[d].prev <= clock
  BY DbFacts DEF IInv, Types, DbType, Queues, QueueOK
<1>11. /\ sched \in [Database -> Seq(Command)] /\ cmd \in [Command -> CmdType]
       /\ asked \in [Command -> Nat] /\ result \in [Command -> Results]
  BY DEF IInv, Types, CommandType
<1>12. sched' \in [Database -> Seq(Command)]
  <2>1. sched[d] \o ids \in Seq(Command)
    BY <1>6, <1>11
  <2> HIDE DEF rejected
  <2> QED BY <2>1, <1>0, <1>11
<1>13. ASSUME NEW c \in new
       PROVE  /\ cmd'[c].kind \in Kind /\ cmd'[c].kind \in kinds /\ cmd'[c].kind # "None"
              /\ cmd'[c].db = d /\ cmd'[c].job = j /\ cmd'[c] \in CmdType
  <2> DEFINE x == batch[c - n]
  <2>1. x \in Kind /\ x \in kinds /\ cmd'[c] = [kind |-> x, db |-> d, job |-> j]
    BY <1>3, <1>9
  <2> HIDE DEF x, new
  <2>2. cmd'[c].kind = x /\ cmd'[c].db = d /\ cmd'[c].job = j
    BY <2>1
  <2>3. x # "None"
    BY <2>1 DEF Kind
  <2>4. cmd'[c] \in CmdType
    BY <2>1 DEF CmdType
  <2> QED BY <2>1, <2>2, <2>3, <2>4
<1> HIDE DEF new, rejected
<1>14. CommandType'
  <2>1. \A c \in Command : cmd'[c] \in CmdType
    BY <1>7, <1>11, <1>13
  <2>2. cmd' \in [Command -> CmdType]
    BY <2>1, <1>7
  <2>3. asked' \in [Command -> Nat]
    BY <1>7, <1>10, <1>11
  <2>4. result' \in [Command -> Results]
    BY <1>7, <1>11 DEF Results, Resolved
  <2> QED BY <2>2, <2>3, <2>4, <1>12 DEF CommandType
<1>16. Types'
  BY <1>0, <1>14 DEF IInv, Types, LoopType, DbType, TaskOK, StreamType
<1>17. Queues' /\ Commits' /\ Streams' /\ Recovery'
  BY <1>0, Frame DEF IInv
<1>19. Numbered'
  <2>1. n + L \in 0..MaxCommands
    BY <1>0, <1>3
  <2>2. ASSUME NEW c \in Command PROVE cmd'[c].kind # "None" <=> c \in 1..(n + L)
    <3>1. CASE c \in new
      BY <3>1, <1>3, <1>13 DEF new
    <3>2. CASE c \notin new
      <4>1. cmd'[c] = cmd[c]
        BY <3>2, <1>7
      <4>2. cmd[c].kind # "None" <=> c \in 1..n
        BY <1>2
      <4>3. c \in Nat /\ (c \in 1..n <=> c \in 1..(n + L))
        BY <3>2, <1>3 DEF new, Command
      <4> QED BY <4>1, <4>2, <4>3
    <3> QED BY <3>1, <3>2
  <2>3. 1..(n + L) \subseteq Command
    BY <1>0, <1>3 DEF Command
  <2>4. {c \in Command : cmd'[c].kind # "None"} = 1..(n + L)
    BY <2>2, <2>3
  <2> QED BY <2>1, <2>4 DEF Numbered
<1>20. Placed'
  <2> SUFFICES ASSUME NEW c \in Command, cmd'[c].kind # "None"
               PROVE  /\ cmd'[c].db \in Database
                      /\ cmd'[c].kind \in {"Create", "Drop"} =>
                           cmd'[c].job \in Job /\ JobDatabase[cmd'[c].job] = cmd'[c].db
    BY DEF Placed
  <2>1. CASE c \in new
    BY <2>1, <1>0, <1>13
  <2>2. CASE c \notin new
    <3>1. cmd'[c] = cmd[c]
      BY <2>2, <1>7
    <3> QED BY <3>1 DEF IInv, Commands, Placed
  <2> QED BY <2>1, <2>2
<1>21. ASSUME NEW e \in Database, NEW c, IsFor(c, e)
       PROVE  /\ c \in Command /\ cmd'[c].kind # "None" /\ cmd'[c].db = e
              /\ cmd'[c] = cmd[c] /\ asked'[c] = asked[c]
  BY <1>8, <1>21 DEF IsFor
<1>22. Scheduled'
  <2> SUFFICES ASSUME NEW e \in Database, NEW i \in 1..Len(sched'[e])
               PROVE  /\ sched'[e][i] \in Command /\ cmd'[sched'[e][i]].kind # "None"
                      /\ cmd'[sched'[e][i]].db = e /\ asked'[sched'[e][i]] <= clock
                      /\ e \in running /\ phase # "clearing" => asked'[sched'[e][i]] <= db[e].prev
                      /\ blocked => cmd'[sched'[e][i]].kind = "Drop"
    <3>1. UNCHANGED <<clock, running, phase, db, blocked>>
      BY <1>0
    <3> QED BY <3>1 DEF Scheduled, IsFor
  <2> DEFINE c == sched'[e][i]
  <2>1. CASE \E k \in 1..Len(sched[e]) : c = sched[e][k]
    <3>1. PICK k \in 1..Len(sched[e]) : c = sched[e][k]
      BY <2>1
    <3> HIDE DEF c
    <3>2. /\ IsFor(c, e) /\ asked[c] <= clock
          /\ e \in running /\ phase # "clearing" => asked[c] <= db[e].prev
          /\ blocked => cmd[c].kind = "Drop"
      BY <3>1 DEF IInv, Commands, Scheduled
    <3>3. c \in Command /\ cmd'[c].kind # "None" /\ cmd'[c].db = e /\ cmd'[c] = cmd[c] /\ asked'[c] = asked[c]
      BY <3>2, <1>21
    <3> QED BY <3>2, <3>3 DEF c
  <2>2. CASE ~\E k \in 1..Len(sched[e]) : c = sched[e][k]
    <3>1. e = d /\ ~rejected
      <4>1. e # d \/ rejected => sched'[e] = sched[e]
        BY <1>0, <1>11
      <4> QED BY <2>2, <4>1
    <3>2. sched'[e] = sched[e] \o ids /\ sched[e] \in Seq(Command)
      BY <3>1, <1>0, <1>11
    <3>3. c \in new
      <4> DEFINE a == sched[e]
      <4>1. a \in Seq(Command) /\ Len(a) \in Nat /\ i \in 1..Len(a \o ids)
        BY <3>2
      <4>2. i \notin 1..Len(a)
        <5>1. i \in 1..Len(a) => (a \o ids)[i] = a[i]
          BY <4>1, <1>6
        <5> QED BY <5>1, <2>2, <3>2
      <4> HIDE DEF a
      <4>3. i - Len(a) \in 1..L
        BY <4>1, <4>2, <1>3, <1>6
      <4>4. (a \o ids)[i] = ids[i - Len(a)]
        BY <4>1, <4>2, <1>6
      <4>5. c = n + (i - Len(a))
        BY <4>3, <4>4, <3>2, <1>6 DEF a
      <4> QED BY <4>3, <4>5, <1>3 DEF new
    <3> HIDE DEF c
    <3>4. c \in Command /\ asked'[c] = db[d].prev
      BY <3>3, <1>9 DEF new
    <3>5. cmd'[c].kind # "None" /\ cmd'[c].db = e
      BY <3>1, <3>3, <1>13
    <3>6. blocked => cmd'[c].kind = "Drop"
      <4>1. blocked => kinds = {"Drop"}
        BY <3>1 DEF rejected, ValidateItem
      <4> QED BY <4>1, <3>3, <1>13
    <3> QED BY <3>1, <3>4, <3>5, <3>6, <1>10 DEF c
  <2> QED BY <2>1, <2>2
<1>23. Queued' /\ Notified' /\ Pauses'
  BY <1>0, <1>8, KnownCommands
<1>25. Clients'
  <2> SUFFICES ASSUME NEW c \in Command
               PROVE  /\ result'[c] = "collected" =>
                           /\ cmd'[c].kind # "None"
                           /\ cmd'[c].kind \notin {"Resume", "ConfigResume", "Drop"}
                                => asked'[c] <= committed[cmd'[c].db]
                      /\ result'[c] = "removed" => cmd'[c].kind = "Drop" /\ asked'[c] = 0
                      /\ cmd'[c].kind = "None" => asked'[c] = 0
    BY <1>0 DEF Clients
  <2>1. CASE c \in new
    BY <2>1, <1>7, <1>13
  <2>2. CASE c \notin new
    <3>1. cmd'[c] = cmd[c] /\ asked'[c] = asked[c] /\ result'[c] = result[c]
      BY <2>2, <1>7
    <3> QED BY <3>1 DEF IInv, Commands, Clients
  <2> QED BY <2>1, <2>2
<1>27. Commands'
  BY <1>19, <1>20, <1>22, <1>23, <1>25 DEF Commands
<1> QED BY <1>16, <1>17, <1>23, <1>27 DEF IInv

\* A job is removed from the catalog, and its drop is known from then on.
LEMMA DropObjectStep ==
  ASSUME IInv, NEW j \in Job, DropObject(j)
  PROVE  IInv'
<1> USE DEF dbVars, nodeVars
<1> DEFINE n == Cardinality({c \in Command : cmd[c].kind # "None"})
           new == [kind |-> "Drop", db |-> JobDatabase[j], job |-> j]
<1>0. /\ n + 1 <= MaxCommands /\ created' = created \ {j}
      /\ cmd' = [cmd EXCEPT ![n + 1] = new] /\ result' = [result EXCEPT ![n + 1] = "removed"]
      /\ UNCHANGED <<dbVars, task, committed, nodeVars, sched, blocked, asked, phase>>
  BY DEF DropObject
<1>1. n \in 0..MaxCommands /\ {c \in Command : cmd[c].kind # "None"} = 1..n
  BY NumberedFacts DEF IInv, Commands
<1> HIDE DEF n
<1>2. n \in Nat /\ MaxCommands \in Nat /\ n + 1 \in Command
  BY <1>0, <1>1, ConstantsOK DEF Command
<1>3. cmd[n + 1].kind = "None"
  BY <1>1, <1>2
<1>4. /\ sched \in [Database -> Seq(Command)] /\ cmd \in [Command -> CmdType]
      /\ asked \in [Command -> Nat] /\ result \in [Command -> Results]
  BY DEF IInv, Types, CommandType
<1>5. /\ new \in CmdType /\ new.kind = "Drop" /\ new.db = JobDatabase[j] /\ new.job = j
      /\ JobDatabase[j] \in Database
  BY ConstantsOK DEF CmdType, Kind
<1> HIDE DEF new
<1>6. /\ cmd'[n + 1] = new /\ result'[n + 1] = "removed"
      /\ \A c \in Command : c # n + 1 => cmd'[c] = cmd[c] /\ result'[c] = result[c]
  BY <1>0, <1>2, <1>4
<1>7. Types'
  <2>1. CommandType'
    BY <1>0, <1>4, <1>5 DEF CommandType, Results
  <2> QED BY <2>1, <1>0 DEF IInv, Types, LoopType, DbType, TaskOK, StreamType
<1>8. Queues' /\ Commits' /\ Streams'
  BY <1>0, Frame DEF IInv
<1>9. Recovery'
  BY <1>0 DEF IInv, Recovery, Idle
<1>10. Queued' /\ Notified' /\ Pauses'
  BY <1>0, <1>3, <1>6, KnownCommands
<1>11. Numbered'
  <2>1. n + 1 \in 0..MaxCommands
    BY <1>0, <1>2
  <2>2. ASSUME NEW c \in Command PROVE cmd'[c].kind # "None" <=> c \in 1..(n + 1)
    <3>1. CASE c = n + 1
      BY <3>1, <1>2, <1>5, <1>6
    <3>2. CASE c # n + 1
      <4>1. cmd'[c] = cmd[c] /\ (cmd[c].kind # "None" <=> c \in 1..n)
        BY <3>2, <1>1, <1>6
      <4>2. c \in Nat /\ (c \in 1..n <=> c \in 1..(n + 1))
        BY <3>2, <1>2 DEF Command
      <4> QED BY <4>1, <4>2
    <3> QED BY <3>1, <3>2
  <2>3. 1..(n + 1) \subseteq Command
    BY <1>0, <1>2 DEF Command
  <2>4. {c \in Command : cmd'[c].kind # "None"} = 1..(n + 1)
    BY <2>2, <2>3
  <2> QED BY <2>1, <2>4 DEF Numbered
<1>12. Placed'
  <2> SUFFICES ASSUME NEW c \in Command, cmd'[c].kind # "None"
               PROVE  /\ cmd'[c].db \in Database
                      /\ cmd'[c].kind \in {"Create", "Drop"} =>
                           cmd'[c].job \in Job /\ JobDatabase[cmd'[c].job] = cmd'[c].db
    BY DEF Placed
  <2>1. CASE c = n + 1
    BY <2>1, <1>5, <1>6
  <2>2. CASE c # n + 1
    <3>1. cmd'[c] = cmd[c]
      BY <2>2, <1>6
    <3> QED BY <3>1 DEF IInv, Commands, Placed
  <2> QED BY <2>1, <2>2
<1>13. Scheduled'
  <2> SUFFICES ASSUME NEW e \in Database, NEW i \in 1..Len(sched[e])
               PROVE  /\ sched[e][i] \in Command /\ cmd'[sched[e][i]].kind # "None"
                      /\ cmd'[sched[e][i]].db = e /\ asked[sched[e][i]] <= clock
                      /\ e \in running /\ phase # "clearing" => asked[sched[e][i]] <= db[e].prev
                      /\ blocked => cmd'[sched[e][i]].kind = "Drop"
    BY <1>0 DEF Scheduled, IsFor
  <2> DEFINE c == sched[e][i]
  <2>1. /\ IsFor(c, e) /\ asked[c] <= clock
        /\ e \in running /\ phase # "clearing" => asked[c] <= db[e].prev
        /\ blocked => cmd[c].kind = "Drop"
    BY DEF IInv, Commands, Scheduled
  <2> HIDE DEF c
  <2>2. c \in Command /\ cmd[c].kind # "None" /\ cmd[c].db = e
    BY <2>1 DEF IsFor
  <2>3. cmd'[c] = cmd[c]
    BY <2>2, <1>3, <1>6
  <2> QED BY <2>1, <2>2, <2>3 DEF c
<1>14. Clients'
  <2> SUFFICES ASSUME NEW c \in Command
               PROVE  /\ result'[c] = "collected" =>
                           /\ cmd'[c].kind # "None"
                           /\ cmd'[c].kind \notin {"Resume", "ConfigResume", "Drop"}
                                => asked[c] <= committed[cmd'[c].db]
                      /\ result'[c] = "removed" => cmd'[c].kind = "Drop" /\ asked[c] = 0
                      /\ cmd'[c].kind = "None" => asked[c] = 0
    BY <1>0 DEF Clients
  <2>1. CASE c = n + 1
    <3>1. asked[n + 1] = 0
      BY <1>2, <1>3 DEF IInv, Commands, Clients
    <3> QED BY <2>1, <3>1, <1>5, <1>6
  <2>2. CASE c # n + 1
    <3>1. cmd'[c] = cmd[c] /\ result'[c] = result[c]
      BY <2>2, <1>6
    <3> QED BY <3>1 DEF IInv, Commands, Clients
  <2> QED BY <2>1, <2>2
<1>15. Commands'
  BY <1>10, <1>11, <1>12, <1>13, <1>14 DEF Commands
<1> QED BY <1>7, <1>8, <1>9, <1>10, <1>15 DEF IInv

\* The drop of a job that has been removed is scheduled, in a blocked queue as well.
LEMMA DropScheduledStep ==
  ASSUME IInv, NEW c \in Command, DropStreamingJobs(c)
  PROVE  IInv'
<1> USE DEF dbVars, taskVars, nodeVars
<1> DEFINE d == cmd[c].db
<1>0. /\ result[c] = "removed" /\ sched' = [sched EXCEPT ![d] = Append(@, c)]
      /\ result' = [result EXCEPT ![c] = "scheduled"]
      /\ UNCHANGED <<dbVars, taskVars, nodeVars, blocked, cmd, asked, phase>>
  BY DEF DropStreamingJobs
<1>1. cmd[c].kind = "Drop" /\ asked[c] = 0
  BY <1>0 DEF IInv, Commands, Clients
<1>2. d \in Database
  BY <1>1 DEF IInv, Commands, Placed
<1>3. sched \in [Database -> Seq(Command)] /\ result \in [Command -> Results]
  BY DEF IInv, Types, CommandType
<1>4. IsFor(c, d)
  BY <1>1 DEF IsFor
<1> HIDE DEF d
<1>5. clock \in Nat /\ \A e \in Database : db[e] \in DatabaseState /\ db[e].prev \in Nat
  BY DbFacts DEF IInv, Types, LoopType, DbType
<1>6. sched' \in [Database -> Seq(Command)] /\ result' \in [Command -> Results]
  <2>1. Append(sched[d], c) \in Seq(Command)
    BY <1>2, <1>3
  <2> QED BY <2>1, <1>0, <1>3 DEF Results
<1>7. Scheduled'
  <2> SUFFICES ASSUME NEW e \in Database, NEW i \in 1..Len(sched'[e]), NEW x, x = sched'[e][i]
               PROVE  /\ IsFor(x, e) /\ asked[x] <= clock
                      /\ e \in running /\ phase # "clearing" => asked[x] <= db[e].prev
                      /\ blocked => cmd[x].kind = "Drop"
    BY <1>0 DEF Scheduled, IsFor
  <2>1. CASE \E k \in 1..Len(sched[e]) : x = sched[e][k]
    BY <2>1 DEF IInv, Commands, Scheduled
  <2>2. CASE ~\E k \in 1..Len(sched[e]) : x = sched[e][k]
    <3>1. e = d
      <4>1. e # d => sched'[e] = sched[e]
        BY <1>0, <1>3
      <4> QED BY <2>2, <4>1
    <3>2. x = c
      <4>1. sched'[e] = Append(sched[e], c) /\ sched[e] \in Seq(Command)
        BY <3>1, <1>0, <1>2, <1>3
      <4>2. i \in 1..(Len(sched[e]) + 1) /\ (i \in 1..Len(sched[e]) => sched'[e][i] = sched[e][i])
            /\ sched'[e][Len(sched[e]) + 1] = c
        BY <4>1
      <4> QED BY <4>2, <2>2, <4>1
    <3> QED BY <3>1, <3>2, <1>1, <1>4, <1>5
  <2> QED BY <2>1, <2>2
<1>8. Types'
  BY <1>0, <1>6 DEF IInv, Types, LoopType, DbType, TaskOK, StreamType, CommandType
<1>9. Clients'
  BY <1>0, <1>3 DEF IInv, Commands, Clients
<1>10. Queues' /\ Commits' /\ Streams' /\ Recovery' /\ Pauses'
  BY <1>0, Frame DEF IInv
<1>11. Commands'
  BY <1>0, <1>7, <1>9, Frame DEF IInv, Commands
<1> QED BY <1>8, <1>10, <1>11 DEF IInv

-----------------------------------------------------------------------------
\* Injecting a barrier

\* No client is told that its command is done, and no job is removed from the catalog.
NoneCollected ==
  \A c \in Command : \A x \in {"collected", "removed"} : result'[c] = x => result[c] = x

\* While barriers can be injected, no pause is under way.
LEMMA NoPauses ==
  ASSUME IInv, \A d \in running : CanInjectBarrier(d), NEW d \in Database
  PROVE  /\ ~db[d].completing.pause
         /\ \A k \in 1..Len(db[d].queue) : ~ShouldPauseInjectBarrier(db[d].queue[k].cmd)
<1> DEFINE q == db[d].queue  n == Len(q)
<1>0. n \in Nat /\ db[d] \in DatabaseState
  BY DbFacts DEF IInv, Types, DbType
<1>1. CASE d \notin running
  <2>1. n = 0 /\ ~db[d].completing.pause
    BY <1>1 DEF IInv, Queues, Idle
  <2> QED BY <2>1
<1>2. CASE d \in running
  <2>1. ~(IF n > 0 /\ q[n].cmd # NoCommand THEN ShouldPauseInjectBarrier(q[n].cmd)
          ELSE db[d].completing.pause)
    BY <1>2 DEF CanInjectBarrier, ShouldPause
  <2>2. ~db[d].completing.pause
    <3> SUFFICES ASSUME db[d].completing.pause PROVE FALSE
      OBVIOUS
    <3>1. n = 0
      BY DEF IInv, Pauses
    <3> QED BY <2>1, <3>1
  <2>3. ASSUME NEW k \in 1..n, ShouldPauseInjectBarrier(q[k].cmd) PROVE FALSE
    <3>1. k = n
      BY <2>3, PauseIsLast
    <3>2. q[n].cmd # NoCommand
      BY <2>3, <3>1 DEF ShouldPauseInjectBarrier, KindOf
    <3> QED BY <1>0, <2>1, <2>3, <3>1, <3>2
  <2> QED BY <2>2, <2>3
<1> QED BY <1>1, <1>2

\* The state t of a database with state s, after a barrier with command c.
Injected(s, c, checkpoint, curr, t) ==
  /\ t \in DatabaseState /\ t.prev = curr /\ t.completing = s.completing
  /\ t.tracking = s.tracking /\ t.stash = s.stash
  /\ Len(t.queue) = Len(s.queue) + 1 /\ Len(s.queue) \in Nat
  /\ \A k \in 1..Len(s.queue) : t.queue[k] = s.queue[k]
  /\ t.queue[Len(t.queue)].prev = s.prev /\ t.queue[Len(t.queue)].curr = curr
  /\ t.queue[Len(t.queue)].cmd = c /\ t.queue[Len(t.queue)].wait = connected
  /\ checkpoint => IsCheckpoint(t.queue[Len(t.queue)])
  /\ t.queue[Len(t.queue)].epochs = IF checkpoint THEN Append(s.pending, s.prev) ELSE <<>>
  /\ t.pending = IF checkpoint THEN <<>> ELSE Append(s.pending, s.prev)
  /\ t.queue[Len(t.queue)].done = {}

LEMMA InjectedFacts ==
  ASSUME NEW s \in DatabaseState, NEW c \in 0..MaxCommands, NEW d \in Database,
         c # NoCommand => IsFor(c, d), Placed, connected \subseteq Worker,
         NEW checkpoint \in BOOLEAN, NEW curr \in Nat
  PROVE  Injected(s, c, checkpoint, curr, WithNewBarrier(s, c, checkpoint, curr))
<1> DEFINE epochs == Append(s.pending, s.prev)
           jobs == PreApplied(s, c)
           post == PostApplied(s, c)
           paused == NextPausedReason(c, s.paused)
           node == [prev |-> s.prev, curr |-> curr, cmd |-> c,
                    epochs |-> IF checkpoint THEN epochs ELSE <<>>,
                    jobs |-> jobs, wait |-> connected, done |-> {}]
           pending == IF checkpoint THEN <<>> ELSE epochs
           q == Append(s.queue, node)
           t == [s EXCEPT !.prev = curr, !.pending = pending, !.jobs = post, !.paused = paused, !.queue = q]
<1>1. WithNewBarrier(s, c, checkpoint, curr) = t
  BY DEF WithNewBarrier
<1>2. /\ s.prev \in Nat /\ s.pending \in Seq(Nat) /\ s.jobs \subseteq Job /\ s.queue \in Seq(Node)
      /\ s.paused \in {"none", "Manual", "ConfigChange"} /\ Len(s.queue) \in Nat
  BY DbFacts
<1>3. jobs \subseteq Job
  <2>1. KindOf(c) = "Create" => cmd[c].job \in Job
    <3> SUFFICES ASSUME KindOf(c) = "Create" PROVE cmd[c].job \in Job
      OBVIOUS
    <3>1. c # NoCommand /\ cmd[c].kind = "Create"
      BY DEF KindOf
    <3>2. c \in Command
      BY <3>1 DEF IsFor
    <3> QED BY <3>1, <3>2 DEF Placed
  <2> QED BY <2>1, <1>2 DEF PreApplied
<1>4. post \subseteq Job
  BY <1>2, <1>3 DEF PostApplied
<1>5. paused \in {"none", "Manual", "ConfigChange"}
  BY <1>2 DEF NextPausedReason
<1> HIDE DEF jobs, post, paused
<1>6. epochs \in Seq(Nat) /\ epochs # <<>>
  <2>1. \A p \in Seq(Nat), e \in Nat : Append(p, e) \in Seq(Nat) /\ Append(p, e) # <<>>
    OBVIOUS
  <2> QED BY <1>2, <2>1
<1> HIDE DEF epochs
<1>7. node \in Node
  BY <1>2, <1>3, <1>6 DEF Node, Epoch
<1>8. /\ node.prev = s.prev /\ node.curr = curr /\ node.cmd = c /\ node.wait = connected
      /\ checkpoint => IsCheckpoint(node)
      /\ node.epochs = (IF checkpoint THEN epochs ELSE <<>>) /\ node.done = {}
  BY <1>6 DEF IsCheckpoint
<1>9. pending \in Seq(Nat) /\ pending = IF checkpoint THEN <<>> ELSE epochs
  BY <1>6
<1> HIDE DEF node, pending
<1>10. /\ q \in Seq(Node) /\ Len(q) = Len(s.queue) + 1 /\ q[Len(q)] = node
       /\ \A k \in 1..Len(s.queue) : q[k] = s.queue[k]
  BY <1>2, <1>7
<1> HIDE DEF q
<1>11. /\ t \in DatabaseState /\ t.prev = curr /\ t.completing = s.completing
       /\ t.tracking = s.tracking /\ t.stash = s.stash /\ t.queue = q /\ t.pending = pending
  BY <1>4, <1>5, <1>9, <1>10 DEF DatabaseState, Epoch
<1> HIDE DEF t
<1> QED BY <1>1, <1>2, <1>8, <1>9, <1>10, <1>11 DEF Injected, epochs

\* The state s of database d, before a barrier is injected into the databases of R at time now.
Ready(d, s, R, now) ==
  /\ s \in DatabaseState /\ QueueOK(s, now) /\ (d \notin R => Idle(s))
  /\ Below(committed[d], s) /\ (d \in R => committed[d] < s.prev)
  /\ d \in DOMAIN task.infos => task.infos[d].prev < s.prev /\ Below(task.infos[d].prev, s)
  /\ \A w \in Worker : StreamOK(w, stream[w][d], s)
  /\ \A j \in s.tracking \cup s.stash : JobDatabase[j] = d
  /\ ~s.completing.pause
  /\ \A k \in 1..Len(s.queue) : NodeOK(s.queue[k], d) /\ ~ShouldPauseInjectBarrier(s.queue[k].cmd)
  /\ d \in R => \A i \in 1..Len(sched[d]) : asked[sched[d][i]] <= s.prev

\* The same state t, with the barrier (of command c) or without it.
Passed(d, s, R, c, curr, t) ==
  /\ t \in DatabaseState /\ QueueOK(t, curr) /\ (d \notin R => Idle(t))
  /\ Below(committed[d], t) /\ s.prev <= t.prev
  /\ d \in DOMAIN task.infos => task.infos[d].prev < t.prev /\ Below(task.infos[d].prev, t)
  /\ t.tracking = s.tracking /\ t.stash = s.stash /\ ~t.completing.pause
  /\ \A k \in 1..Len(t.queue) : /\ NodeOK(t.queue[k], d) /\ t.queue[k].curr <= curr
                                /\ ShouldPauseInjectBarrier(t.queue[k].cmd) => t.queue[k].curr = curr

LEMMA BarrierPasses ==
  ASSUME NEW d \in Database, NEW s, NEW R, NEW now \in Nat, NEW c \in 0..MaxCommands,
         NEW checkpoint \in BOOLEAN, NEW t,
         Types, Ready(d, s, R, now), d \in R,
         c # NoCommand => /\ IsFor(c, d) /\ asked[c] <= s.prev
                          /\ NeedCheckpoint(c) => checkpoint,
         d \in DOMAIN task.infos => task.infos[d].prev \in Nat,
         Injected(s, c, checkpoint, now + 1, t)
  PROVE  Passed(d, s, R, c, now + 1, t)
<1> DEFINE q == s.queue  r == t.queue  n == Len(q)  curr == now + 1
<1>1. /\ t \in DatabaseState /\ t.prev = curr /\ t.completing = s.completing
      /\ t.tracking = s.tracking /\ t.stash = s.stash
      /\ Len(r) = n + 1 /\ n \in Nat
      /\ \A k \in 1..n : r[k] = q[k]
      /\ r[n + 1].prev = s.prev /\ r[n + 1].curr = curr /\ r[n + 1].cmd = c
      /\ checkpoint => IsCheckpoint(r[n + 1])
  BY DEF Injected
<1>2. /\ s \in DatabaseState /\ s.prev \in Nat /\ curr \in Nat /\ committed[d] \in Nat
      /\ \A k \in 1..n : q[k].prev \in Nat /\ q[k].curr \in Nat
  BY DbFacts DEF Ready, Types, DbType
<1>3. /\ Chain(q) /\ (\A k \in 1..n : q[k].curr <= s.prev) /\ s.prev <= now
      /\ \A k \in 1..n : committed[d] < q[k].prev
      /\ committed[d] < s.prev /\ ~s.completing.pause
      /\ \A k \in 1..n : NodeOK(q[k], d) /\ ~ShouldPauseInjectBarrier(q[k].cmd)
  BY DEF Ready, QueueOK, Below
<1>4. d \in DOMAIN task.infos => task.infos[d].prev < s.prev /\ \A k \in 1..n : task.infos[d].prev < q[k].prev
  BY DEF Ready, Below
<1>5. NodeOK(r[n + 1], d)
  BY <1>1 DEF NodeOK
<1> HIDE DEF q, r, n, curr
<1>6. s.prev < curr
  BY <1>2, <1>3 DEF curr
<1>7. \A k \in 1..(n + 1) : k \in 1..n \/ k = n + 1
  BY <1>1
<1>8. Chain(r)
  <2>0. /\ \A k \in 1..n : q[k].prev < q[k].curr
        /\ \A k \in 1..n : \A j \in 1..(k - 1) : q[j].curr <= q[k].prev
    BY <1>3 DEF Chain, n
  <2>1. ASSUME NEW k \in 1..Len(r) PROVE r[k].prev < r[k].curr
    <3>1. CASE k \in 1..n
      BY <3>1, <2>0, <1>1
    <3>2. CASE k = n + 1
      BY <3>2, <1>1, <1>6
    <3> QED BY <3>1, <3>2, <1>1, <1>7
  <2>2. ASSUME NEW k \in 1..Len(r), NEW j \in 1..(k - 1) PROVE r[j].curr <= r[k].prev
    <3>1. j \in 1..n /\ r[j] = q[j]
      BY <1>1
    <3>2. CASE k \in 1..n
      BY <3>1, <3>2, <2>0, <1>1
    <3>3. CASE k = n + 1
      BY <3>1, <3>3, <1>1, <1>3
    <3> QED BY <3>2, <3>3, <1>1, <1>7
  <2> QED BY <2>1, <2>2 DEF Chain
<1>9. \A k \in 1..Len(r) : r[k].curr <= curr
  <2> TAKE k \in 1..Len(r)
  <2>1. CASE k \in 1..n
    BY <2>1, <1>1, <1>2, <1>3, <1>6
  <2>2. CASE k = n + 1
    BY <2>2, <1>1, <1>2
  <2> QED BY <2>1, <2>2, <1>1, <1>7
<1>10. \A k \in 1..Len(r) : committed[d] < r[k].prev
  <2> TAKE k \in 1..Len(r)
  <2> QED BY <1>1, <1>3, <1>7
<1>11. d \in DOMAIN task.infos => task.infos[d].prev < t.prev /\ \A k \in 1..Len(r) : task.infos[d].prev < r[k].prev
  <2> SUFFICES ASSUME d \in DOMAIN task.infos
               PROVE  task.infos[d].prev < t.prev /\ \A k \in 1..Len(r) : task.infos[d].prev < r[k].prev
    OBVIOUS
  <2>1. task.infos[d].prev < t.prev
    BY <1>1, <1>2, <1>4, <1>6
  <2>2. ASSUME NEW k \in 1..Len(r) PROVE task.infos[d].prev < r[k].prev
    BY <1>1, <1>4, <1>7
  <2> QED BY <2>1, <2>2
<1>12. \A k \in 1..Len(r) : /\ NodeOK(r[k], d)
                            /\ ShouldPauseInjectBarrier(r[k].cmd) => r[k].curr = curr
  <2> TAKE k \in 1..Len(r)
  <2> QED BY <1>1, <1>3, <1>5, <1>7
<1>13. QueueOK(t, curr)
  BY <1>1, <1>2, <1>8, <1>9 DEF QueueOK, r
<1>14. s.prev <= t.prev
  BY <1>1, <1>2, <1>6
<1> QED BY <1>1, <1>3, <1>9, <1>10, <1>11, <1>12, <1>13, <1>14 DEF Passed, Below, r, curr

LEMMA BarrierSkips ==
  ASSUME NEW d \in Database, NEW s, NEW R, NEW now \in Nat, NEW c, Ready(d, s, R, now)
  PROVE  Passed(d, s, R, c, now + 1, s)
<1>1. /\ s \in DatabaseState /\ s.prev \in Nat /\ \A k \in 1..Len(s.queue) : s.queue[k].curr \in Nat
  BY DbFacts DEF Ready
<1>2. QueueOK(s, now + 1) /\ \A k \in 1..Len(s.queue) : s.queue[k].curr <= now + 1
  <2>1. Chain(s.queue) /\ (\A k \in 1..Len(s.queue) : s.queue[k].curr <= s.prev) /\ s.prev <= now
    BY DEF Ready, QueueOK
  <2> QED BY <2>1, <1>1 DEF QueueOK
<1> QED BY <1>1, <1>2 DEF Ready, Passed

\* A worker that is connected has one more barrier to collect, which waits for it.
LEMMA StreamGrows ==
  ASSUME NEW d \in Database, NEW s, NEW R, NEW now \in Nat, NEW c, NEW checkpoint, NEW t, NEW w \in Worker,
         Ready(d, s, R, now), Injected(s, c, checkpoint, now + 1, t),
         NEW old \in Seq(Nat), old = stream[w][d],
         NEW new, new = IF w \in connected THEN Append(old, s.prev) ELSE old
  PROVE  StreamOK(w, new, t)
<1> DEFINE q == s.queue  r == t.queue  n == Len(q)
<1>1. /\ Len(r) = n + 1 /\ n \in Nat /\ \A k \in 1..n : r[k] = q[k]
      /\ r[n + 1].prev = s.prev /\ r[n + 1].wait = connected
  BY DEF Injected
<1>2. s.prev \in Nat /\ \A k \in 1..n : q[k].prev \in Nat /\ q[k].curr \in Nat
  BY DbFacts DEF Ready
<1>3. \A k \in 1..n : q[k].prev < q[k].curr /\ q[k].curr <= s.prev
  BY DEF Ready, QueueOK, Chain
<1>4. /\ \A i \in 1..Len(old) : \A j \in 1..(i - 1) : old[j] < old[i]
      /\ \A i \in 1..Len(old) : \E k \in 1..n : q[k].prev = old[i] /\ w \in q[k].wait
  BY DEF Ready, StreamOK
<1> HIDE DEF q, r, n
<1>5. ASSUME NEW i \in 1..Len(old) PROVE \E k \in 1..Len(r) : r[k].prev = old[i] /\ w \in r[k].wait
  <2>1. PICK k \in 1..n : q[k].prev = old[i] /\ w \in q[k].wait
    BY <1>4
  <2>2. k \in 1..Len(r) /\ r[k] = q[k]
    BY <1>1
  <2> QED BY <2>1, <2>2
<1>6. CASE w \notin connected
  BY <1>4, <1>5, <1>6 DEF StreamOK, r
<1>7. CASE w \in connected
  <2>1. /\ Len(new) = Len(old) + 1 /\ Len(old) \in Nat /\ \A i \in 1..Len(old) : new[i] = old[i]
        /\ new[Len(old) + 1] = s.prev
    BY <1>2, <1>7
  <2>2. \A i \in 1..Len(old) : old[i] < s.prev
    <3> TAKE i \in 1..Len(old)
    <3>1. PICK k \in 1..n : q[k].prev = old[i]
      BY <1>4
    <3>2. q[k].prev \in Nat /\ q[k].curr \in Nat /\ q[k].prev < q[k].curr /\ q[k].curr <= s.prev
      BY <1>2, <1>3
    <3>3. q[k].prev < s.prev
      BY <3>2, <1>2
    <3> QED BY <3>1, <3>3
  <2>3. ASSUME NEW i \in 1..Len(new), NEW j \in 1..(i - 1) PROVE new[j] < new[i]
    <3>1. j \in 1..Len(old) /\ (i \in 1..Len(old) \/ i = Len(old) + 1)
      BY <2>1
    <3> QED BY <3>1, <2>1, <2>2, <1>4
  <2>4. ASSUME NEW i \in 1..Len(new) PROVE \E k \in 1..Len(r) : r[k].prev = new[i] /\ w \in r[k].wait
    <3>1. CASE i \in 1..Len(old)
      <4>1. PICK k \in 1..Len(r) : r[k].prev = old[i] /\ w \in r[k].wait
        BY <3>1, <1>5
      <4>2. new[i] = old[i]
        BY <3>1, <2>1
      <4> QED BY <4>1, <4>2
    <3>2. CASE i = Len(old) + 1
      <4>1. n + 1 \in 1..Len(r)
        BY <1>1
      <4> QED BY <3>2, <4>1, <2>1, <1>1, <1>7
    <3> QED BY <3>1, <3>2, <2>1
  <2> QED BY <2>3, <2>4 DEF StreamOK, r
<1> QED BY <1>6, <1>7

\* The conditions under which a barrier is injected into the databases of running'.
InjectOK(s, of, checkpoint, now) ==
  /\ s \in [Database -> DatabaseState] /\ of \in [Database -> 0..MaxCommands] /\ checkpoint \in BOOLEAN
  /\ now \in Nat /\ clock <= now
  /\ \A d \in Database :
       /\ Ready(d, s[d], running', now)
       /\ of[d] # NoCommand => /\ IsFor(of[d], d) /\ asked[of[d]] <= s[d].prev
                               /\ NeedCheckpoint(of[d]) => checkpoint

\* The queues of commands lose what the barrier takes.
Taken ==
  /\ sched' \in [Database -> Seq(Command)]
  /\ \A d \in Database : \A i \in 1..Len(sched'[d]) : \E k \in 1..Len(sched[d]) : sched'[d][i] = sched[d][k]

LEMMA InjectStep ==
  ASSUME IInv, phase = "running", running \subseteq running', running' \subseteq Database,
         NEW s, NEW of, NEW checkpoint, NEW now, InjectOK(s, of, checkpoint, now), Taken,
         InjectBarrier(running', s, of, checkpoint, now + 1),
         periodic' \in [force : BOOLEAN, uncheckpointed : Nat],
         UNCHANGED <<taskVars, connected, doneAt, blocked, cmd, asked>>
  PROVE  IInv'
<1> USE DEF taskVars
<1> DEFINE hit == {d \in running' : ~NothingToDo(s[d], of[d])}
           commands == {of[d] : d \in running'} \ {NoCommand}
           fails == hit # {} /\ ~(Placement \subseteq connected)
           answer(c) == IF c \notin commands THEN result[c]
                        ELSE IF \A d \in hit : of[d] # c THEN "skipped"
                        ELSE IF fails THEN "failed" ELSE "started"
<1>0. /\ IF fails
         THEN phase' = "clearing" /\ UNCHANGED <<db, stream>>
         ELSE /\ db' = [d \in Database |-> IF d \in hit
                         THEN WithNewBarrier(s[d], of[d], checkpoint, now + 1) ELSE s[d]]
              /\ stream' = [w \in Worker |-> [d \in Database |->
                             IF w \in connected /\ d \in hit
                             THEN Append(stream[w][d], s[d].prev) ELSE stream[w][d]]]
              /\ phase' = phase
      /\ result' = [c \in Command |-> answer(c)]
      /\ clock' = now + 1
  BY DEF InjectBarrier
<1>1. /\ db \in [Database -> DatabaseState] /\ clock \in Nat /\ ~blocked
      /\ result \in [Command -> Results] /\ connected \subseteq Worker
      /\ stream \in [Worker -> [Database -> Seq(Nat)]]
  BY DEF IInv, Types, DbType, LoopType, CommandType, StreamType, Recovery
<1>2. /\ s \in [Database -> DatabaseState] /\ of \in [Database -> 0..MaxCommands] /\ checkpoint \in BOOLEAN
      /\ now \in Nat /\ clock <= now /\ \A d \in Database : Ready(d, s[d], running', now)
  BY DEF InjectOK
<1>3. hit \subseteq running' /\ hit \subseteq Database
  OBVIOUS
<1>4. \A c \in Command : /\ answer(c) \in Results
                         /\ \A x \in {"collected", "removed"} : answer(c) = x => result[c] = x
  BY <1>1 DEF Results, Resolved
<1> HIDE DEF hit, commands, fails, answer
<1>5. result' \in [Command -> Results] /\ NoneCollected
  BY <1>0, <1>4 DEF NoneCollected
<1>6. clock' \in Nat /\ clock < clock'
  BY <1>0, <1>1, <1>2
<1>7. Clients'
  BY <1>5 DEF IInv, Commands, Clients, NoneCollected, taskVars
<1>8. CommandType' /\ TaskOK' /\ doneAt' \in [Job -> Nat] /\ committed' \in [Database -> Nat]
  BY <1>5 DEF IInv, Types, CommandType, Taken, TaskOK, StreamType, DbType
<1>9. \A d \in Database : committed[d] \in Nat /\ committed[d] < clock
  BY DEF IInv, Types, DbType, Commits
<1>10. \A c \in Command : asked[c] \in Nat
  BY DEF IInv, Types, CommandType
<1>11. CASE fails
  <2>0. /\ phase' = "clearing" /\ UNCHANGED <<db, stream>>
    BY <1>11, <1>0
  <2>1. Types'
    BY <2>0, <1>1, <1>6, <1>8 DEF IInv, Types, LoopType, Phases, DbType, StreamType
  <2>2. Queues'
    <3>1. ASSUME NEW d \in Database
          PROVE  QueueOK(db[d], clock') /\ (d \notin running' => Idle(db[d]))
      <4>1. QueueOK(db[d], clock) /\ (d \notin running => Idle(db[d]))
        BY DEF IInv, Queues
      <4>2. db[d].prev \in Nat
        BY <1>1, DbFacts
      <4> QED BY <4>1, <4>2, <1>1, <1>6 DEF QueueOK
    <3> QED BY <3>1, <2>0 DEF Queues, QueueOK, Chain, Idle
  <2>3. Commits'
    <3>1. \A d \in Database : committed[d] <= clock' /\ committed[d] < clock'
      BY <1>1, <1>6, <1>9
    <3> QED BY <2>0, <3>1 DEF IInv, Commits, Below
  <2>4. Streams' /\ Pauses' /\ Queued' /\ Notified'
    BY <2>0, Frame DEF IInv, Commands
  <2>5. Recovery'
    BY <2>0, <1>1 DEF IInv, Recovery, Idle
  <2>6. Scheduled'
    <3> SUFFICES ASSUME NEW d \in Database, NEW i \in 1..Len(sched'[d])
                 PROVE  /\ IsFor(sched'[d][i], d) /\ asked[sched'[d][i]] <= clock'
      BY <2>0, <1>1 DEF Scheduled, IsFor
    <3>1. PICK k \in 1..Len(sched[d]) : sched'[d][i] = sched[d][k]
      BY DEF Taken
    <3> DEFINE c == sched[d][k]
    <3>2. IsFor(c, d) /\ asked[c] <= clock
      BY DEF IInv, Commands, Scheduled
    <3>3. asked[c] \in Nat
      BY <3>2, <1>10 DEF IsFor
    <3> HIDE DEF c
    <3>4. asked[c] <= clock'
      BY <3>2, <3>3, <1>1, <1>6
    <3> QED BY <3>1, <3>2, <3>4 DEF c
  <2>7. Commands'
    BY <2>4, <2>6, <1>7, Frame DEF IInv, Commands
  <2> QED BY <2>1, <2>2, <2>3, <2>4, <2>5, <2>7 DEF IInv
<1>12. CASE ~fails
  <2>0. /\ db' = [d \in Database |-> IF d \in hit
                   THEN WithNewBarrier(s[d], of[d], checkpoint, now + 1) ELSE s[d]]
        /\ stream' = [w \in Worker |-> [d \in Database |->
                       IF w \in connected /\ d \in hit
                       THEN Append(stream[w][d], s[d].prev) ELSE stream[w][d]]]
        /\ phase' = "running"
    BY <1>12, <1>0
  <2>1. ASSUME NEW d \in hit PROVE Injected(s[d], of[d], checkpoint, now + 1, db'[d])
    <3> DEFINE x == s[d]  c == of[d]  curr == now + 1
    <3>1. /\ d \in Database /\ x \in DatabaseState /\ c \in 0..MaxCommands /\ curr \in Nat
          /\ c # NoCommand => IsFor(c, d)
      BY <1>2, <1>3 DEF InjectOK
    <3>2. Placed
      BY DEF IInv, Commands
    <3>3. db'[d] = WithNewBarrier(x, c, checkpoint, curr)
      BY <2>0, <3>1
    <3> HIDE DEF x, c, curr
    <3>4. Injected(x, c, checkpoint, curr, WithNewBarrier(x, c, checkpoint, curr))
      BY <3>1, <3>2, <1>1, <1>2, InjectedFacts
    <3> QED BY <3>3, <3>4 DEF x, c, curr
  <2>2. ASSUME NEW d \in Database PROVE Passed(d, s[d], running', of[d], clock', db'[d])
    <3> DEFINE x == s[d]  c == of[d]  t == db'[d]
    <3>0. Ready(d, x, running', now) /\ c \in 0..MaxCommands
      BY <1>2
    <3>1. CASE d \in hit
      <4>1. Injected(x, c, checkpoint, now + 1, t)
        BY <3>1, <2>1
      <4>2. c # NoCommand => /\ IsFor(c, d) /\ asked[c] <= x.prev
                             /\ NeedCheckpoint(c) => checkpoint
        BY DEF InjectOK
      <4>3. d \in running' /\ (d \in DOMAIN task.infos => task.infos[d].prev \in Nat)
        BY <3>1, <1>3, TaskInfo
      <4>4. Types
        BY DEF IInv
      <4> HIDE DEF x, c, t
      <4>5. Passed(d, x, running', c, now + 1, t)
        BY <3>0, <4>1, <4>2, <4>3, <4>4, <1>2, BarrierPasses
      <4> QED BY <4>5, <1>0 DEF x, c, t
    <3>2. CASE d \notin hit
      <4>1. t = x
        BY <3>2, <2>0
      <4> HIDE DEF x, c, t
      <4>2. Passed(d, x, running', c, now + 1, x)
        BY <3>0, <1>2, BarrierSkips
      <4> QED BY <4>1, <4>2, <1>0 DEF x, c, t
    <3> QED BY <3>1, <3>2
  <2>3. ASSUME NEW w \in Worker, NEW d \in Database PROVE StreamOK(w, stream'[w][d], db'[d])
    <3> DEFINE x == s[d]  c == of[d]  t == db'[d]  old == stream[w][d]  new == stream'[w][d]
    <3>0. Ready(d, x, running', now) /\ old \in Seq(Nat)
      BY <1>1, <1>2
    <3>1. CASE d \in hit
      <4>1. Injected(x, c, checkpoint, now + 1, t)
        BY <3>1, <2>1
      <4>2. new = IF w \in connected THEN Append(old, x.prev) ELSE old
        BY <3>1, <2>0
      <4>3. old = stream[w][d]
        OBVIOUS
      <4> HIDE DEF x, c, t, old, new
      <4>4. StreamOK(w, new, t)
        BY <3>0, <4>1, <4>2, <4>3, <1>2, StreamGrows
      <4> QED BY <4>4 DEF new, t
    <3>2. CASE d \notin hit
      <4>1. t = x /\ new = old
        BY <3>2, <2>0
      <4>2. StreamOK(w, old, x)
        BY <3>0 DEF Ready
      <4> HIDE DEF x, c, t, old, new
      <4> QED BY <4>1, <4>2 DEF new, t
    <3> QED BY <3>1, <3>2
  <2>4. db' \in [Database -> DatabaseState]
    <3>1. \A d \in Database : db'[d] \in DatabaseState
      BY <2>2 DEF Passed
    <3> QED BY <3>1, <2>0
  <2>5. stream' \in [Worker -> [Database -> Seq(Nat)]]
    <3>1. ASSUME NEW w \in Worker, NEW d \in Database PROVE stream'[w][d] \in Seq(Nat)
      <4>1. stream[w][d] \in Seq(Nat) /\ s[d].prev \in Nat
        BY <1>1, <1>2, DbFacts
      <4>2. Append(stream[w][d], s[d].prev) \in Seq(Nat)
        BY <4>1
      <4> QED BY <2>0, <4>1, <4>2
    <3> QED BY <3>1, <2>0
  <2>6. Types'
    BY <2>0, <2>4, <2>5, <1>1, <1>6, <1>8 DEF IInv, Types, LoopType, Phases, DbType, StreamType
  <2>7. Queues'
    <3>1. \A d \in Database : QueueOK(db'[d], clock') /\ (d \notin running' => Idle(db'[d]))
      BY <2>2 DEF Passed
    <3> QED BY <3>1 DEF Queues, QueueOK, Chain, Idle
  <2>8. Commits'
    <3>1. ASSUME NEW d \in Database
          PROVE  /\ committed[d] <= clock' /\ committed[d] < clock'
                 /\ d \in running' => committed[d] < db'[d].prev
                 /\ Below(committed[d], db'[d])
                 /\ d \in DOMAIN task.infos =>
                      /\ d \in running'
                      /\ task.infos[d].prev < db'[d].prev /\ Below(task.infos[d].prev, db'[d])
                      /\ task.stage = "commit" => committed[d] < task.infos[d].prev
                      /\ task.stage = "post" => committed[d] = task.infos[d].prev
      <4>1. committed[d] <= clock' /\ committed[d] < clock'
        BY <1>1, <1>6, <1>9
      <4>2. d \in running' => committed[d] < db'[d].prev
        <5>1. d \in running' => committed[d] < s[d].prev
          BY <1>2 DEF Ready
        <5>2. s[d].prev <= db'[d].prev
          BY <2>2 DEF Passed
        <5>3. s[d].prev \in Nat /\ db'[d].prev \in Nat
          BY <1>2, <2>4, DbFacts
        <5> QED BY <5>1, <5>2, <5>3, <1>9
      <4>3. /\ Below(committed[d], db'[d])
            /\ d \in DOMAIN task.infos =>
                 task.infos[d].prev < db'[d].prev /\ Below(task.infos[d].prev, db'[d])
        BY <2>2 DEF Passed
      <4>4. d \in DOMAIN task.infos =>
              /\ d \in running
              /\ task.stage = "commit" => committed[d] < task.infos[d].prev
              /\ task.stage = "post" => committed[d] = task.infos[d].prev
        BY DEF IInv, Commits
      <4> QED BY <4>1, <4>2, <4>3, <4>4
    <3> QED BY <3>1, <2>0 DEF Commits, Below
  <2>9. Streams'
    BY <2>3 DEF Streams, StreamOK
  <2>10. Recovery'
    <3>1. \A d \in Database : \A j \in db'[d].tracking \cup db'[d].stash : JobDatabase[j] = d
      <4> TAKE d \in Database
      <4>1. db'[d].tracking = s[d].tracking /\ db'[d].stash = s[d].stash
        BY <2>2 DEF Passed
      <4> QED BY <4>1, <1>2 DEF Ready
    <3> QED BY <3>1, <2>0, <1>1 DEF IInv, Recovery, Idle
  <2>11. Scheduled'
    <3> SUFFICES ASSUME NEW d \in Database, NEW i \in 1..Len(sched'[d])
                 PROVE  /\ IsFor(sched'[d][i], d) /\ asked[sched'[d][i]] <= clock'
                        /\ d \in running' => asked[sched'[d][i]] <= db'[d].prev
      BY <2>0, <1>1 DEF Scheduled, IsFor
    <3>1. PICK k \in 1..Len(sched[d]) : sched'[d][i] = sched[d][k]
      BY DEF Taken
    <3> DEFINE c == sched[d][k]
    <3>2. IsFor(c, d) /\ asked[c] <= clock
      BY DEF IInv, Commands, Scheduled
    <3>3. asked[c] \in Nat
      BY <3>2, <1>10 DEF IsFor
    <3>4. d \in running' => asked[c] <= s[d].prev
      BY <1>2 DEF Ready
    <3>5. s[d].prev <= db'[d].prev
      BY <2>2 DEF Passed
    <3>6. s[d].prev \in Nat /\ db'[d].prev \in Nat
      BY <1>2, <2>4, DbFacts
    <3> HIDE DEF c
    <3>7. asked[c] <= clock' /\ (d \in running' => asked[c] <= db'[d].prev)
      BY <3>2, <3>3, <3>4, <3>5, <3>6, <1>1, <1>6
    <3> QED BY <3>1, <3>2, <3>7 DEF c
  <2>12. ASSUME NEW d \in Database, NEW k \in 1..Len(db'[d].queue)
         PROVE  /\ NodeOK(db'[d].queue[k], d) /\ db'[d].queue[k].curr <= clock'
                /\ ShouldPauseInjectBarrier(db'[d].queue[k].cmd) => db'[d].queue[k].curr = clock'
    BY <2>2 DEF Passed
  <2>13. Queued'
    BY <2>12 DEF Queued, NodeOK, IsFor, NeedCheckpoint, KindOf, IsCheckpoint
  <2>14. Commands'
    BY <2>11, <2>13, <1>7, Frame DEF IInv, Commands
  <2>15. Pauses'
    <3>1. \A d \in Database : ~db'[d].completing.pause
      BY <2>2 DEF Passed
    <3> QED BY <3>1, <2>12 DEF Pauses, ShouldPauseInjectBarrier, KindOf
  <2> QED BY <2>6, <2>7, <2>8, <2>9, <2>10, <2>14, <2>15 DEF IInv
<1> QED BY <1>11, <1>12

\* What a new barrier does: a barrier is injected into the databases, one of which may be new.
InjectsBarrier ==
  \E s, of, checkpoint, now :
    /\ InjectOK(s, of, checkpoint, now)
    /\ InjectBarrier(running', s, of, checkpoint, now + 1)
    /\ \A d \in Database : \/ s[d] = db[d] /\ (d \in running' => d \in running)
                           \/ d \notin running /\ d \in running' /\ s[d] = NewDatabase(now, {})

\* What every new barrier leaves alone.
AroundInjection ==
  /\ phase = "running" /\ running \subseteq running' /\ running' \subseteq Database /\ Taken
  /\ periodic' \in [force : BOOLEAN, uncheckpointed : Nat]
  /\ UNCHANGED <<taskVars, connected, doneAt, blocked, cmd, asked>>

\* Or no database is there, or the one with the command is not, and no barrier is injected.
NoInjection ==
  /\ result' \in [Command -> Results]
  /\ NoneCollected
  /\ UNCHANGED <<clock, running, db, injected, stream, phase>>

LEMMA InjectionStep ==
  ASSUME IInv, AroundInjection, InjectsBarrier
  PROVE  IInv'
<1>1. PICK s, of, checkpoint, now : InjectOK(s, of, checkpoint, now)
                                    /\ InjectBarrier(running', s, of, checkpoint, now + 1)
  BY DEF InjectsBarrier
<1> QED BY <1>1, InjectStep DEF AroundInjection

LEMMA NoInjectionStep ==
  ASSUME IInv, AroundInjection, NoInjection
  PROVE  IInv'
<1>0. /\ UNCHANGED <<clock, running, db, injected, stream, phase>>
      /\ UNCHANGED <<task, committed, created, connected, doneAt, blocked, cmd, asked>> /\ Taken
      /\ periodic' \in [force : BOOLEAN, uncheckpointed : Nat]
      /\ result' \in [Command -> Results]
      /\ NoneCollected
  BY DEF AroundInjection, NoInjection, taskVars
<1>1. Types'
  BY <1>0 DEF IInv, Types, LoopType, DbType, TaskOK, StreamType, CommandType, Taken
<1>2. Scheduled'
  BY <1>0, FewerScheduled DEF IInv, Commands, Taken
<1>3. Clients'
  BY <1>0 DEF IInv, Commands, Clients, NoneCollected
<1>4. Queues' /\ Commits' /\ Streams' /\ Recovery' /\ Pauses'
  BY <1>0, Frame DEF IInv
<1>5. Commands'
  BY <1>0, <1>2, <1>3, Frame DEF IInv, Commands
<1> QED BY <1>1, <1>4, <1>5 DEF IInv

\* While barriers can be injected, every database is ready for one.
LEMMA ReadyNow ==
  ASSUME IInv, phase = "running", \A e \in running : CanInjectBarrier(e), NEW d \in Database
  PROVE  Ready(d, db[d], running, clock)
<1>1. db[d] \in DatabaseState /\ QueueOK(db[d], clock) /\ (d \notin running => Idle(db[d]))
  BY DEF IInv, Types, DbType, Queues
<1>2. /\ Below(committed[d], db[d]) /\ (d \in running => committed[d] < db[d].prev)
      /\ d \in DOMAIN task.infos => task.infos[d].prev < db[d].prev /\ Below(task.infos[d].prev, db[d])
  BY DEF IInv, Commits
<1>3. \A w \in Worker : StreamOK(w, stream[w][d], db[d])
  BY DEF IInv, Streams
<1>4. \A j \in db[d].tracking \cup db[d].stash : JobDatabase[j] = d
  BY DEF IInv, Recovery
<1>5. /\ ~db[d].completing.pause
      /\ \A k \in 1..Len(db[d].queue) : ~ShouldPauseInjectBarrier(db[d].queue[k].cmd)
  BY NoPauses
<1>6. \A k \in 1..Len(db[d].queue) : NodeOK(db[d].queue[k], d)
  BY DEF IInv, Commands, Queued
<1>7. d \in running => \A i \in 1..Len(sched[d]) : asked[sched[d][i]] <= db[d].prev
  BY DEF IInv, Commands, Scheduled
<1> QED BY <1>1, <1>2, <1>3, <1>4, <1>5, <1>6, <1>7 DEF Ready

\* The count of barriers without a checkpoint is a number.
LEMMA PeriodicType ==
  ASSUME Types, NEW checkpoint \in BOOLEAN, UpdateNumUncheckpointedBarrier(checkpoint)
  PROVE  periodic' \in [force : BOOLEAN, uncheckpointed : Nat]
<1>1. periodic \in [force : BOOLEAN, uncheckpointed : Nat]
  BY DEF Types, LoopType
<1>2. periodic' = IF checkpoint THEN [force |-> FALSE, uncheckpointed |-> 0]
                  ELSE [periodic EXCEPT !.uncheckpointed = @ + 1]
  BY DEF UpdateNumUncheckpointedBarrier
<1>3. CASE checkpoint
  BY <1>2, <1>3
<1>4. CASE ~checkpoint
  <2>1. periodic' = [periodic EXCEPT !.uncheckpointed = @ + 1]
    BY <1>2, <1>4
  <2> QED BY <1>1, <2>1
<1> QED BY <1>3, <1>4

\* Nothing changes but the counters of the loop.
LEMMA CountersStep ==
  ASSUME IInv, periodic' \in [force : BOOLEAN, uncheckpointed : Nat],
         UNCHANGED <<clock, running, db, taskVars, nodeVars, schedVars, phase, result>>
  PROVE  IInv'
<1> USE DEF taskVars, nodeVars, schedVars
<1>1. Types'
  BY DEF IInv, Types, LoopType, DbType, TaskOK, StreamType, CommandType
<1>2. Queues' /\ Commits' /\ Streams' /\ Recovery' /\ Pauses'
  BY Frame DEF IInv
<1>3. Commands'
  BY Frame DEF IInv, Commands
<1> QED BY <1>1, <1>2, <1>3 DEF IInv

LEMMA PeriodicCases ==
  ASSUME IInv, NewPeriodicBarrier
  PROVE  AroundInjection /\ (InjectsBarrier \/ NoInjection)
<1>0. /\ phase = "running" /\ \A e \in running : CanInjectBarrier(e)
      /\ UpdateNumUncheckpointedBarrier(TryGetCheckpoint)
      /\ IF running = {}
         THEN UNCHANGED <<clock, db, stream, injected, phase, result>>
         ELSE InjectBarrier(running, db, NoCommands, TryGetCheckpoint, clock + 1)
      /\ UNCHANGED <<running, taskVars, connected, doneAt, schedVars>>
  BY DEF NewPeriodicBarrier, CanInject, Polling
<1>1. TryGetCheckpoint \in BOOLEAN
  BY DEF TryGetCheckpoint
<1>2. periodic' \in [force : BOOLEAN, uncheckpointed : Nat]
  BY <1>0, <1>1, PeriodicType DEF IInv
<1>3. /\ db \in [Database -> DatabaseState] /\ clock \in Nat /\ running \subseteq Database
      /\ sched \in [Database -> Seq(Command)] /\ result \in [Command -> Results]
  BY DEF IInv, Types, DbType, LoopType, CommandType
<1>4. AroundInjection
  <2>1. sched' = sched
    BY <1>0 DEF schedVars
  <2>2. Taken
    BY <1>3, <2>1 DEF Taken
  <2> QED BY <1>0, <1>2, <1>3, <2>2 DEF AroundInjection, schedVars
<1>5. CASE running = {}
  BY <1>0, <1>3, <1>4, <1>5 DEF NoInjection, NoneCollected
<1>6. CASE running # {}
  <2> DEFINE checkpoint == TryGetCheckpoint
  <2>1. InjectBarrier(running', db, NoCommands, checkpoint, clock + 1) /\ running' = running
    BY <1>0, <1>6
  <2>2. NoCommands \in [Database -> 0..MaxCommands] /\ \A d \in Database : NoCommands[d] = NoCommand
    BY ConstantsOK DEF NoCommands, NoCommand
  <2>3. \A d \in Database : Ready(d, db[d], running', clock)
    <3> TAKE d \in Database
    <3>1. Ready(d, db[d], running, clock)
      BY <1>0, ReadyNow
    <3> QED BY <3>1, <2>1
  <2> HIDE DEF checkpoint
  <2>4. InjectOK(db, NoCommands, checkpoint, clock)
    BY <1>1, <1>3, <2>2, <2>3 DEF InjectOK, checkpoint
  <2> QED BY <1>4, <2>1, <2>4 DEF InjectsBarrier
<1> QED BY <1>5, <1>6

\* The first command of a queue is taken.
LEMMA TakeFirst ==
  ASSUME sched \in [Database -> Seq(Command)], NEW d \in Database, sched[d] # <<>>,
         sched' = [sched EXCEPT ![d] = Tail(@)]
  PROVE  Taken /\ Head(sched[d]) = sched[d][1] /\ 1 \in 1..Len(sched[d])
<1> DEFINE q == sched[d]  t == Tail(q)
<1>1. q \in Seq(Command) /\ q # <<>>
  OBVIOUS
<1>2. sched' = [sched EXCEPT ![d] = t]
  OBVIOUS
<1> HIDE DEF q
<1>3. /\ t \in Seq(Command) /\ Len(q) \in Nat /\ Len(t) = Len(q) - 1 /\ Head(q) = q[1] /\ 1 \in 1..Len(q)
      /\ \A i \in 1..Len(t) : i + 1 \in 1..Len(q) /\ t[i] = q[i + 1]
  BY <1>1
<1> HIDE DEF t
<1>4. \A i \in 1..Len(t) : \E k \in 1..Len(q) : t[i] = q[k]
  BY <1>3
<1>5. sched' \in [Database -> Seq(Command)]
  BY <1>2, <1>3
<1>6. ASSUME NEW e \in Database, NEW i \in 1..Len(sched'[e])
      PROVE  \E k \in 1..Len(sched[e]) : sched'[e][i] = sched[e][k]
  <2>1. CASE e = d
    BY <2>1, <1>2, <1>4 DEF q
  <2>2. CASE e # d
    BY <2>2, <1>2
  <2> QED BY <2>1, <2>2
<1> QED BY <1>3, <1>5, <1>6 DEF Taken, q

\* A database that is not running yet is ready once it is added, with the time as its epoch.
LEMMA ReadyNew ==
  ASSUME IInv, phase = "running", NEW d \in Database, d \notin running, NEW R, NEW now \in Nat,
         clock <= now, NEW t, t = NewDatabase(now, {})
  PROVE  Ready(d, t, R, now)
<1>1. /\ t \in DatabaseState /\ t.prev = now /\ Len(t.queue) = 0 /\ ~t.completing.pause
      /\ t.tracking = {} /\ t.stash = {}
  BY NewDatabaseFacts
<1>2. clock \in Nat /\ committed[d] \in Nat /\ committed[d] < clock
  BY DEF IInv, Types, LoopType, DbType, Commits
<1>3. d \notin DOMAIN task.infos
  BY DEF IInv, Commits
<1>4. QueueOK(t, now) /\ Below(committed[d], t)
  BY <1>1 DEF QueueOK, Chain, Below
<1>5. committed[d] < t.prev
  BY <1>1, <1>2
<1>6. ASSUME NEW w \in Worker PROVE StreamOK(w, stream[w][d], t)
  <2> DEFINE q == stream[w][d]
  <2>1. StreamOK(w, q, db[d]) /\ Len(db[d].queue) = 0
    BY DEF IInv, Streams, Queues, Idle
  <2>2. q \in Seq(Nat)
    BY DEF IInv, Types, StreamType
  <2> HIDE DEF q
  <2>3. Len(q) \in Nat
    BY <2>2
  <2>4. \A i \in 1..Len(q) : FALSE
    BY <2>1, <2>3 DEF StreamOK
  <2>5. StreamOK(w, q, t)
    BY <2>4 DEF StreamOK
  <2> QED BY <2>5 DEF q
<1>7. \A i \in 1..Len(sched[d]) : asked[sched[d][i]] <= t.prev
  <2> TAKE i \in 1..Len(sched[d])
  <2>1. IsFor(sched[d][i], d) /\ asked[sched[d][i]] <= clock
    BY DEF IInv, Commands, Scheduled
  <2>2. asked[sched[d][i]] \in Nat
    BY <2>1 DEF IsFor, IInv, Types, CommandType
  <2> QED BY <2>1, <2>2, <1>1, <1>2
<1> QED BY <1>1, <1>3, <1>4, <1>5, <1>6, <1>7 DEF Ready, Idle

\* A database that is ready at some time is ready later.
LEMMA ReadyLater ==
  ASSUME NEW d \in Database, NEW s, NEW R, NEW Q, NEW m \in Nat, NEW now \in Nat, m <= now,
         Ready(d, s, R, m), d \in R <=> d \in Q
  PROVE  Ready(d, s, Q, now)
<1>1. s \in DatabaseState /\ QueueOK(s, m)
  BY DEF Ready
<1>2. s.prev \in Nat
  BY <1>1, DbFacts
<1>3. QueueOK(s, now)
  BY <1>1, <1>2 DEF QueueOK
<1> QED BY <1>3 DEF Ready

LEMMA CommandCases ==
  ASSUME IInv, NEW d \in Database, NewCommandBarrier(d)
  PROVE  AroundInjection /\ (InjectsBarrier \/ NoInjection)
<1> DEFINE c == Head(sched[d])
           checkpoint == NeedCheckpoint(c) \/ TryGetCheckpoint
           of == [NoCommands EXCEPT ![d] = c]
           added == /\ d \notin running
                    /\ running' = running \cup {d}
                    /\ \E now \in {clock, clock + 1} :
                         InjectBarrier(running', [db EXCEPT ![d] = NewDatabase(now, {})],
                                       of, checkpoint, now + 1)
           skipped == /\ result' = [result EXCEPT ![c] = "skipped"]
                      /\ UNCHANGED <<clock, running, db, injected, stream, phase>>
<1>0. /\ phase = "running" /\ \A e \in running : CanInjectBarrier(e)
      /\ sched[d] # <<>> /\ sched' = [sched EXCEPT ![d] = Tail(@)]
      /\ UpdateNumUncheckpointedBarrier(checkpoint)
      /\ \/ d \in running /\ InjectBarrier(running, db, of, checkpoint, clock + 1) /\ UNCHANGED running
         \/ added
         \/ skipped
      /\ UNCHANGED <<taskVars, connected, doneAt, blocked, cmd, asked>>
  BY DEF NewCommandBarrier, CanInject, Polling
<1>1. checkpoint \in BOOLEAN
  BY DEF NeedCheckpoint, TryGetCheckpoint
<1>2. periodic' \in [force : BOOLEAN, uncheckpointed : Nat]
  BY <1>0, <1>1, PeriodicType DEF IInv
<1>3. /\ db \in [Database -> DatabaseState] /\ clock \in Nat /\ running \subseteq Database
      /\ sched \in [Database -> Seq(Command)] /\ result \in [Command -> Results]
  BY DEF IInv, Types, DbType, LoopType, CommandType
<1>4. Taken /\ c = sched[d][1] /\ 1 \in 1..Len(sched[d])
  BY <1>0, <1>3, TakeFirst
<1>5. IsFor(c, d) /\ asked[c] <= clock /\ (d \in running => asked[c] <= db[d].prev)
  BY <1>0, <1>4 DEF IInv, Commands, Scheduled
<1>6. c \in Command /\ asked[c] \in Nat
  BY <1>5 DEF IsFor, IInv, Types, CommandType
<1> HIDE DEF c
<1>7. /\ of \in [Database -> 0..MaxCommands] /\ of[d] = c
      /\ \A e \in Database : e # d => of[e] = NoCommand
  BY <1>6, ConstantsOK DEF NoCommands, NoCommand, Command
<1>8. NeedCheckpoint(c) => checkpoint
  OBVIOUS
<1> HIDE DEF checkpoint, of, added, skipped
<1>9. CASE d \in running /\ InjectBarrier(running, db, of, checkpoint, clock + 1) /\ UNCHANGED running
  <2>1. InjectBarrier(running', db, of, checkpoint, clock + 1) /\ running' = running
    BY <1>9
  <2>2. ASSUME NEW e \in Database
        PROVE  /\ Ready(e, db[e], running', clock)
               /\ of[e] # NoCommand => /\ IsFor(of[e], e) /\ asked[of[e]] <= db[e].prev
                                       /\ NeedCheckpoint(of[e]) => checkpoint
    <3>1. Ready(e, db[e], running, clock)
      BY <1>0, ReadyNow
    <3>2. Ready(e, db[e], running', clock)
      BY <2>1, <3>1
    <3>3. CASE e = d
      BY <3>2, <3>3, <1>5, <1>7, <1>8, <1>9
    <3>4. CASE e # d
      BY <3>2, <3>4, <1>7
    <3> QED BY <3>3, <3>4
  <2>3. InjectOK(db, of, checkpoint, clock)
    BY <1>1, <1>3, <1>7, <2>2 DEF InjectOK
  <2>4. running \subseteq running' /\ running' \subseteq Database
    BY <2>1, <1>3
  <2>5. InjectsBarrier
    BY <2>1, <2>3 DEF InjectsBarrier
  <2> QED BY <1>0, <1>2, <1>4, <2>4, <2>5 DEF AroundInjection
<1>10. CASE added
  <2>0. d \notin running /\ running' = running \cup {d}
    BY <1>10 DEF added
  <2>1. PICK now \in {clock, clock + 1} :
          InjectBarrier(running', [db EXCEPT ![d] = NewDatabase(now, {})], of, checkpoint, now + 1)
    BY <1>10 DEF added
  <2>2. now \in Nat /\ clock <= now
    BY <2>1, <1>3
  <2> DEFINE t == NewDatabase(now, {})  s == [db EXCEPT ![d] = t]
  <2>3. t \in DatabaseState /\ t.prev = now /\ Ready(d, t, running', now)
    <3>1. t = NewDatabase(now, {})
      OBVIOUS
    <3> HIDE DEF t
    <3>2. t \in DatabaseState /\ t.prev = now
      BY <3>1, <2>2, NewDatabaseFacts
    <3>3. Ready(d, t, running', now)
      BY <1>0, <2>0, <2>2, <3>1, ReadyNew
    <3> QED BY <3>2, <3>3
  <2>4. InjectBarrier(running', s, of, checkpoint, now + 1)
    BY <2>1
  <2> HIDE DEF t
  <2>5. s \in [Database -> DatabaseState] /\ s[d] = t /\ \A e \in Database : e # d => s[e] = db[e]
    BY <1>3, <2>3
  <2> HIDE DEF s
  <2>6. ASSUME NEW e \in Database
        PROVE  /\ Ready(e, s[e], running', now)
               /\ of[e] # NoCommand => /\ IsFor(of[e], e) /\ asked[of[e]] <= s[e].prev
                                       /\ NeedCheckpoint(of[e]) => checkpoint
    <3>1. CASE e = d
      <4>1. asked[c] <= t.prev
        BY <1>3, <1>5, <1>6, <2>2, <2>3
      <4> QED BY <3>1, <4>1, <2>3, <2>5, <1>5, <1>7, <1>8
    <3>2. CASE e # d
      <4>1. Ready(e, db[e], running, clock)
        BY <1>0, ReadyNow
      <4>2. e \in running <=> e \in running'
        BY <2>0, <3>2
      <4>3. Ready(e, db[e], running', now)
        BY <4>1, <4>2, <1>3, <2>2, ReadyLater
      <4> QED BY <3>2, <4>3, <2>5, <1>7
    <3> QED BY <3>1, <3>2
  <2>7. InjectOK(s, of, checkpoint, now)
    BY <1>1, <1>7, <2>2, <2>5, <2>6 DEF InjectOK
  <2>8. running \subseteq running' /\ running' \subseteq Database
    BY <2>0, <1>3
  <2>9. \A e \in Database : \/ s[e] = db[e] /\ (e \in running' => e \in running)
                            \/ e \notin running /\ e \in running' /\ s[e] = NewDatabase(now, {})
    <3>1. t = NewDatabase(now, {})
      BY DEF t
    <3> TAKE e \in Database
    <3>2. CASE e = d
      BY <2>0, <2>5, <3>1, <3>2
    <3>3. CASE e # d
      BY <2>0, <2>5, <3>3
    <3> QED BY <3>2, <3>3
  <2>10. InjectsBarrier
    BY <2>4, <2>7, <2>9 DEF InjectsBarrier
  <2> QED BY <1>0, <1>2, <1>4, <2>8, <2>10 DEF AroundInjection
<1>11. CASE skipped
  <2>0. /\ result' = [result EXCEPT ![c] = "skipped"]
        /\ UNCHANGED <<clock, running, db, injected, stream, phase>>
        /\ UNCHANGED <<task, committed, created, connected, doneAt, blocked, cmd, asked>>
    BY <1>0, <1>11 DEF skipped, taskVars
  <2>1. result' \in [Command -> Results] /\ NoneCollected
    BY <1>3, <1>6, <2>0 DEF Results, Resolved, NoneCollected
  <2>2. NoInjection
    BY <2>0, <2>1 DEF NoInjection
  <2> QED BY <1>0, <1>2, <1>3, <1>4, <2>0, <2>2 DEF AroundInjection
<1> QED BY <1>0, <1>9, <1>10, <1>11

LEMMA BarrierStep ==
  ASSUME IInv, NewPeriodicBarrier \/ \E d \in Database : NewCommandBarrier(d)
  PROVE  IInv'
<1>1. AroundInjection /\ (InjectsBarrier \/ NoInjection)
  BY PeriodicCases, CommandCases
<1> QED BY <1>1, InjectionStep, NoInjectionStep

LEMMA NextStep ==
  ASSUME IInv, [Next]_vars
  PROVE  IInv'
<1>1. CASE Client
  BY <1>1, ScheduleStep, DropObjectStep, DropScheduledStep, CancelStep DEF Client
<1>2. CASE Loop
  <2>1. CASE \E d \in Database : NewCommandBarrier(d) \/ MetaPanics(d)
    BY <2>1, BarrierStep, PanicStep
  <2>2. CASE NewPeriodicBarrier
    BY <2>2, BarrierStep
  <2>3. CASE \E w \in Worker, d \in Database : BarrierCollected(w, d)
    BY <2>3, CollectedStep
  <2>4. CASE StartCompleting
    BY <2>4, CompleteStep
  <2>5. CASE AckCompleted
    BY <2>5, AckStep
  <2>6. CASE CompletingTaskErr
    BY <2>6, ClearingSteps
  <2>7. CASE ClearOnErr
    BY <2>7, ClearStep
  <2>8. CASE ReloadRuntimeInfo
    BY <2>8, ReloadStep
  <2>9. CASE MarkReady
    BY <2>9, MarkReadyStep
  <2> QED BY <1>2, <2>1, <2>2, <2>3, <2>4, <2>5, <2>6, <2>7, <2>8, <2>9 DEF Loop
<1>3. CASE CompleteBarrier
  BY <1>3, CommitStep, PostCollectStep, FinishStep DEF CompleteBarrier
<1>4. CASE Fault
  <2>1. CASE \E w \in Worker : WorkerError(w) \/ AddWorker(w)
    BY <2>1, WorkerErrorStep, AddWorkerStep
  <2>2. CASE AdhocRecovery
    BY <2>2, ClearingSteps
  <2>3. CASE CompleteBarrierFails
    BY <2>3, TaskFailsStep
  <2>4. CASE RecoveryRetry
    BY <2>4, RetryStep
  <2> QED BY <1>4, <2>1, <2>2, <2>3, <2>4 DEF Fault
<1>5. CASE UNCHANGED vars
  <2>1. periodic' \in [force : BOOLEAN, uncheckpointed : Nat]
    BY <1>5 DEF vars, dbVars, IInv, Types, LoopType
  <2>2. UNCHANGED <<clock, running, db, taskVars, nodeVars, schedVars, phase, result>>
    BY <1>5 DEF vars, dbVars
  <2> QED BY <2>1, <2>2, CountersStep
<1> QED BY <1>1, <1>2, <1>3, <1>4, <1>5 DEF Next

-----------------------------------------------------------------------------
\* The theorems

\* The inductive invariant of the global barrier worker: through commands, barriers,
\* completing tasks, lost workers and recoveries, the epochs of every database are in order
\* (committed, being committed, in flight, open) and every command is where it may be.
THEOREM IInvHolds == Spec => []IInv
<1>1. Init => IInv
  BY InitStep
<1>2. IInv /\ [Next]_vars => IInv'
  BY NextStep
<1> QED BY <1>1, <1>2, PTL DEF Spec

\* Type correctness of the barrier worker's state (BarrierWorkerState,
\* DatabaseCheckpointControl, PeriodicBarriers, CompletingTask).
THEOREM TypeCorrect == Spec => []TypeOK
<1>1. IInv => TypeOK
  BY TypeFromIInv DEF IInv
<1> QED BY <1>1, IInvHolds, PTL

\* CompleteBarrierTask commits a checkpoint only after every worker has collected its barrier
\* and all barriers before it: what a worker has yet to collect is above the committed epoch.
THEOREM CommittedWasCollected == Spec => []CommittedIsCollected
<1>1. IInv => CommittedIsCollected
  BY CommittedFromIInv
<1> QED BY <1>1, IInvHolds, PTL

\* A client that is told its command is collected (Notifier::notify_collected) finds the epoch
\* that was open when it scheduled the command committed, through failures and recoveries.
THEOREM CollectedCommandsAreDurable == Spec => []CollectedIsDurable
<1>1. IInv => CollectedIsDurable
  BY DurableFromIInv
<1> QED BY <1>1, IInvHolds, PTL

\* can_inject_barrier lets no barrier of any database follow a pause for a change of the
\* configuration, neither while the pause is in flight nor while its checkpoint is completing:
\* none has a later epoch than the pause itself.
THEOREM NothingAfterPause == Spec => []PauseBarrierIsLast
<1>1. IInv => PauseBarrierIsLast
  BY PauseFromIInv
<1> QED BY <1>1, IInvHolds, PTL

\* pre_apply_drop_cancel_scheduled never meets a command that it panics on: while the cluster
\* recovers, the blocked queue holds drops only.
THEOREM QueuedAsExpected == Spec => []QueuedCommandsAreExpected
<1>1. IInv => QueuedCommandsAreExpected
  BY QueuedFromIInv
<1> QED BY <1>1, IInvHolds, PTL

\* The committed epoch of a database never goes back: no action writes an epoch to Hummock
\* (commit_epoch) that is not above the one committed, not even after a failed task or a recovery.
THEOREM CommittedEpochsGrow ==
  Spec => [][\A d \in Database : committed'[d] >= committed[d]]_committed
<1> DEFINE Grows == \A d \in Database : committed'[d] >= committed[d]
<1>1. ASSUME IInv, [Next]_vars PROVE [Grows]_committed
  <2> SUFFICES ASSUME committed' # committed PROVE Grows
    OBVIOUS
  <2> USE DEF vars, dbVars, taskVars, nodeVars, schedVars
  <2>0. ~UNCHANGED vars /\ Next
    BY <1>1
  <2>1. ~Client
    BY DEF Client, Schedule, DropObject, DropStreamingJobs, CancelScheduledCreate
  <2>2. ~Loop
    <3>1. ~NewPeriodicBarrier /\ ~(\E d \in Database : NewCommandBarrier(d) \/ MetaPanics(d))
      BY DEF NewCommandBarrier, NewPeriodicBarrier, MetaPanics
    <3>2. ~StartCompleting /\ ~(\E w \in Worker, d \in Database : BarrierCollected(w, d))
      BY DEF BarrierCollected, StartCompleting, NextCompleteBarrierTask
    <3>3. ~AckCompleted /\ ~CompletingTaskErr /\ ~ClearOnErr /\ ~ReloadRuntimeInfo /\ ~MarkReady
      BY DEF AckCompleted, CompletingTaskErr, ClearOnErr, ReloadRuntimeInfo, MarkReady
    <3> QED BY <3>1, <3>2, <3>3 DEF Loop
  <2>3. ~Fault
    BY DEF Fault, WorkerError, AddWorker, AdhocRecovery, CompleteBarrierFails, RecoveryRetry
  <2>4. ~PostCollectCommand /\ ~FinishCreatingJob
    BY DEF PostCollectCommand, FinishCreatingJob
  <2>5. CommitEpoch
    BY <2>0, <2>1, <2>2, <2>3, <2>4 DEF Next, CompleteBarrier
  <2> SUFFICES ASSUME NEW d \in Database PROVE committed'[d] >= committed[d]
    OBVIOUS
  <2>6. committed[d] \in Nat
    BY <1>1 DEF IInv, Types, DbType
  <2>7. task.stage = "commit" /\ committed' = [e \in Database |-> IF e \in DOMAIN task.infos
                                                THEN task.infos[e].prev ELSE committed[e]]
    BY <2>5 DEF CommitEpoch
  <2>8. CASE d \in DOMAIN task.infos
    <3>1. committed[d] < task.infos[d].prev /\ task.infos[d].prev \in Nat
      BY <1>1, <2>7, <2>8, TaskInfo DEF IInv, Commits
    <3> QED BY <2>6, <2>7, <2>8, <3>1
  <2>9. CASE d \notin DOMAIN task.infos
    BY <2>6, <2>7, <2>9
  <2> QED BY <2>8, <2>9
<1> QED BY <1>1, IInvHolds, PTL DEF Spec
=============================================================================
