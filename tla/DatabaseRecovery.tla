-------------------------- MODULE DatabaseRecovery --------------------------
(***************************************************************************)
(* Recovery of one database while the rest of the cluster goes on: the     *)
(* global barrier worker of the meta node and the local barrier workers of *)
(* the compute nodes, with the control streams between them.  When actors  *)
(* of the database fail on a node, the meta node resets the database on    *)
(* all nodes, and builds it again from the committed epoch.                *)
(*                                                                         *)
(* Modelled: meta/src/barrier/checkpoint/recovery.rs with the parts of     *)
(* control.rs, worker.rs, rpc.rs and schedule.rs it uses, and the handling *)
(* of requests in stream/src/task/barrier_manager.rs with DatabaseStatus   *)
(* of managed_state.rs.                                                    *)
(*                                                                         *)
(* Simplifications: one database with one job, whose actors run on every   *)
(* worker; every barrier is a checkpoint; the recovery of the whole        *)
(* cluster (CheckpointControl) is one step.                                *)
(***************************************************************************)
EXTENDS Integers, Sequences, FiniteSets, SequencesExt

CONSTANTS
  Worker,               \* compute nodes
  InFlightBarrierNums,  \* limit of barriers in flight
  MaxEpoch,             \* bound: epochs handed out
  MaxFailures,          \* bound: failures of actors
  MaxWorkerErrors,      \* bound: control streams and completing tasks lost
  MaxCommands,          \* bound: commands scheduled
  MaxRetries            \* bound: resets tried again for want of a worker

ASSUME ConstantsOK ==
  /\ Worker # {}
  /\ InFlightBarrierNums \in Nat \ {0}
  /\ {MaxEpoch, MaxFailures, MaxWorkerErrors, MaxCommands, MaxRetries} \subseteq Nat

VARIABLES
  \* meta node
  status,     \* the DatabaseCheckpointControlStatus, "absent", or "entering":
              \* the loop waits for the completing task before a reset
  stage,      \* the DatabaseRecoveringStage: remaining workers, ids, epoch
  graph,      \* the running database has a job
  prev,       \* in_flight_prev_epoch of the running database
  queue,      \* its command_ctx_queue: barriers and who has to collect them
  task,       \* epoch that the completing task commits, 0 if none
  committed,  \* committed epoch of the database in Hummock
  jobs,       \* the catalog holds the job
  sched,      \* the scheduled commands of the database
  blocked,    \* ... and whether its queue is Blocked
  \* control streams
  connected,  \* workers with a control stream
  req, resp,  \* req[w], resp[w]: requests to and responses from w
  \* compute nodes
  node,       \* node[w]: the DatabaseStatus on w
  \* bounds
  clock, failures, errors, commands

metaVars   == <<status, stage, graph, prev, queue, task, committed>>
schedVars  == <<jobs, sched, blocked, commands>>
streamVars == <<connected, req, resp>>
bounds     == <<clock, failures, errors>>
vars == <<metaVars, schedVars, streamVars, node, bounds>>

\* Requests and responses, with the epoch or the reset_request_id they carry.  A
\* barrier builds actors (the initial one), or stops them, or neither.
Create          == [type |-> "CreatePartialGraph", n |-> 0]
Inject(kind, e) == [type |-> kind, n |-> e]
Reset(id)       == [type |-> "ResetDatabase", n |-> id]
BarrierKind     == {"Initial", "Checkpoint", "Stop"}

Complete(e)     == [type |-> "CompleteBarrier", n |-> e]
Failure         == [type |-> "ReportDatabaseFailure", n |-> 0]

NoStage == [remaining |-> {}, id |-> 0, next |-> 0, epoch |-> 0, backoff |-> FALSE]

\* A node without the database, with an empty graph of it, and with its actors.
Absent   == [st |-> "absent", id |-> 0, actors |-> FALSE, issued |-> <<>>]
NoActors == [Absent EXCEPT !.st = "running"]
Built    == [NoActors EXCEPT !.actors = TRUE]

Recovering == status \in {"resetting", "initializing"}

\* ControlStreamManager: append requests to the streams of all workers.
SendAll(msgs) == [w \in Worker |-> IF w \in connected THEN req[w] \o msgs ELSE req[w]]

(***************************************************************************)
(* Compute node: LocalBarrierWorker                                        *)
(***************************************************************************)
Respond(w, m) == resp' = [resp EXCEPT ![w] = Append(@, m)]

\* A panic, or a crash: the stream ends, with what it carried.
StreamLost(w) ==
  /\ connected' = connected \ {w}
  /\ req' = [req EXCEPT ![w] = <<>>] /\ resp' = [resp EXCEPT ![w] = <<>>]
  /\ node' = [node EXCEPT ![w] = Absent]

\* add_partial_graph.  A suspended database ignores it.
AddPartialGraph(w) ==
  /\ req[w] # <<>> /\ Head(req[w]) = Create
  /\ node' = [node EXCEPT ![w] = IF @.st = "absent" THEN NoActors ELSE @]
  /\ req' = [req EXCEPT ![w] = Tail(@)]
  /\ UNCHANGED <<metaVars, schedVars, connected, resp, bounds>>

\* send_barrier and transform_to_issued.  The initial barrier builds actors; any
\* other barrier expects them.
SendBarrier(w) ==
  LET m == Head(req[w])
      s == node[w]
  IN
  /\ req[w] # <<>> /\ m.type \in BarrierKind
  /\ s.st = "running" => m.type = "Initial" \/ s.actors
  /\ node' = [node EXCEPT ![w] = IF s.st = "running"
                THEN [s EXCEPT !.actors = TRUE, !.issued = Append(@, m)] ELSE s]
  /\ req' = [req EXCEPT ![w] = Tail(@)]
  /\ UNCHANGED <<metaVars, schedVars, connected, resp, bounds>>

\* complete_barrier and on_epoch_completed of the oldest barrier issued.
OnEpochCompleted(w) ==
  /\ node[w].st = "running" /\ node[w].issued # <<>>
  /\ LET m == Head(node[w].issued)
     IN /\ Respond(w, Complete(m.n))
        /\ node' = [node EXCEPT ![w] = [node[w] EXCEPT !.issued = Tail(@),
                                                      !.actors = @ /\ m.type # "Stop"]]
  /\ UNCHANGED <<metaVars, schedVars, connected, req, bounds>>

\* An actor fails: on_database_failure suspends the database and reports it.
OnDatabaseFailure(w) ==
  /\ node[w].st = "running" /\ node[w].actors /\ failures < MaxFailures
  /\ failures' = failures + 1
  /\ node' = [node EXCEPT ![w] = [Absent EXCEPT !.st = "suspended"]]
  /\ Respond(w, Failure)
  /\ UNCHANGED <<metaVars, schedVars, connected, req, clock, errors>>

\* Mutant: a reset is acknowledged before the actors are joined.
ResetAnsweredAtOnce(w) ==
  /\ req[w] # <<>> /\ Head(req[w]).type = "ResetDatabase"
  /\ Respond(w, Reset(Head(req[w]).n))
  /\ node' = [node EXCEPT ![w] = IF @.st = "absent" THEN @
                 ELSE [Absent EXCEPT !.st = "resetting", !.id = Head(req[w]).n]]
  /\ req' = [req EXCEPT ![w] = Tail(@)]
  /\ UNCHANGED <<metaVars, schedVars, connected, bounds>>

\* reset_database.  A node without the database answers at once; otherwise the
\* actors are aborted, and joined by a spawned task.
ResetDatabase(w) ==
  /\ req[w] # <<>> /\ Head(req[w]).type = "ResetDatabase"
  /\ LET id == Head(req[w]).n
     IN IF node[w].st = "absent"
        THEN Respond(w, Reset(id)) /\ UNCHANGED node
        ELSE /\ node' = [node EXCEPT ![w] = [Absent EXCEPT !.st = "resetting", !.id = id]]
             /\ UNCHANGED resp
  /\ req' = [req EXCEPT ![w] = Tail(@)]
  /\ UNCHANGED <<metaVars, schedVars, connected, bounds>>

\* The spawned task ends: ack_database_reset removes the database.
AckDatabaseReset(w) ==
  /\ node[w].st = "resetting"
  /\ Respond(w, Reset(node[w].id))
  /\ node' = [node EXCEPT ![w] = Absent]
  /\ UNCHANGED <<metaVars, schedVars, connected, req, bounds>>

(***************************************************************************)
(* Meta node: recovery of the whole cluster, in one step                   *)
(***************************************************************************)

\* The completing task is joined (it may have failed), and barriers collected
\* meanwhile are completed too; scheduled commands are aborted, the control
\* streams are new, and the database is rebuilt from the catalog.
GlobalRecovery ==
  /\ clock' = clock + 1
  /\ status' = IF jobs THEN "running" ELSE "absent"
  /\ stage' = NoStage /\ queue' = <<>>
  /\ graph' = jobs /\ prev' = clock + 1
  /\ sched' = <<>> /\ blocked' = FALSE
  /\ connected' = Worker
  /\ req' = [w \in Worker |-> <<>>] /\ resp' = [w \in Worker |-> <<>>]
  /\ node' = [w \in Worker |-> IF jobs THEN Built ELSE Absent]
  /\ committed' \in {committed} \cup ({task} \ {0})
                  \cup {queue[i].prev : i \in {k \in 1..Len(queue) :
                                                 \A n \in 1..k : queue[n].wait = {}}}
  /\ task' = 0
  /\ UNCHANGED <<jobs, commands>>

(***************************************************************************)
(* Meta node: the loop of the global barrier worker                        *)
(***************************************************************************)

\* poll_next_event.  The loop polls it before responses and new barriers.
EventReady ==
  \/ status = "resetting" /\ stage.remaining = {} /\ ~stage.backoff
  \/ status = "initializing" /\ stage.remaining = {}

Polling == status # "entering" /\ ~EventReady

\* can_inject_barrier holds for a database that is not running.
CanInject == Polling /\ (status = "running" =>
  Cardinality({i \in 1..Len(queue) : queue[i].wait # {}}) < InFlightBarrierNums)

\* next_barrier and handle_new_barrier, on a tick or with a command.
NewBarrier(kind) ==
  /\ CanInject /\ status = "running" /\ graph /\ connected = Worker
  /\ clock < MaxEpoch
  /\ kind = (IF sched # <<>> /\ Head(sched) = "Drop" THEN "Stop" ELSE "Checkpoint")
  /\ sched' = IF sched = <<>> THEN sched ELSE Tail(sched)
  /\ queue' = Append(queue, [prev |-> prev, wait |-> connected])
  /\ req' = SendAll(<<Inject(kind, prev)>>)
  /\ prev' = clock + 1 /\ clock' = clock + 1
  /\ graph' = (kind # "Stop")
  /\ UNCHANGED <<status, stage, task, committed, jobs, blocked, commands, connected, resp,
                 node, failures, errors>>

\* A worker that hosts actors is not connected.
InjectBarrierErr ==
  /\ CanInject /\ status = "running" /\ graph /\ connected # Worker
  /\ GlobalRecovery
  /\ UNCHANGED <<failures, errors>>

\* next_scheduled hands out commands of a blocked queue too, and
\* handle_new_barrier expects the database to be running: the process of the
\* meta node panics, and its successor recovers the cluster.
CommandWhenNotRunning ==
  /\ CanInject /\ Recovering /\ sched # <<>>
  /\ GlobalRecovery
  /\ UNCHANGED <<failures, errors>>

\* Commands for a database that is absent or without jobs are skipped.
SkipCommand ==
  /\ CanInject /\ sched # <<>>
  /\ status = "absent" \/ (status = "running" /\ ~graph)
  /\ sched' = Tail(sched)
  /\ UNCHANGED <<metaVars, jobs, blocked, commands, streamVars, node, bounds>>

\* Mutant: in every stage of a recovery, a barrier counts as the worker's answer.
AnyAnswerCounts(w) ==
  /\ Polling /\ resp[w] # <<>> /\ Head(resp[w]).type = "CompleteBarrier"
  /\ resp' = [resp EXCEPT ![w] = Tail(@)]
  /\ queue' = IF status # "running" THEN queue
              ELSE [i \in 1..Len(queue) |-> IF queue[i].prev = Head(resp[w]).n
                      THEN [queue[i] EXCEPT !.wait = @ \ {w}] ELSE queue[i]]
  /\ stage' = IF Recovering THEN [stage EXCEPT !.remaining = @ \ {w}] ELSE stage
  /\ UNCHANGED <<status, graph, prev, task, committed, schedVars, connected, req, node, bounds>>

\* barrier_collected, in each of the states of the database.
BarrierCollected(w) ==
  LET e == Head(resp[w]).n
  IN
  /\ Polling /\ resp[w] # <<>> /\ Head(resp[w]).type = "CompleteBarrier"
  /\ resp' = [resp EXCEPT ![w] = Tail(@)]
  /\ queue' = IF status # "running" THEN queue
              ELSE [i \in 1..Len(queue) |-> IF queue[i].prev = e
                      THEN [queue[i] EXCEPT !.wait = @ \ {w}] ELSE queue[i]]
  /\ stage' = IF status # "initializing" THEN stage
              ELSE [stage EXCEPT !.remaining = @ \ {w}]
  /\ UNCHANGED <<status, graph, prev, task, committed, schedVars, connected, req, node, bounds>>

\* The loop and the completing task it spawns: one checkpoint at a time.
StartCompleting ==
  /\ status = "running" /\ task = 0
  /\ queue # <<>> /\ Head(queue).wait = {}
  /\ task' = Head(queue).prev
  /\ queue' = Tail(queue)
  /\ UNCHANGED <<status, stage, graph, prev, committed, schedVars, streamVars, node, bounds>>

CommitEpoch ==
  /\ task # 0
  /\ committed' = task /\ task' = 0
  /\ UNCHANGED <<status, stage, graph, prev, queue, schedVars, streamVars, node, bounds>>

\* The task fails: the cluster recovers.
CompleteBarrierErr ==
  /\ task # 0 /\ errors < MaxWorkerErrors
  /\ errors' = errors + 1
  /\ GlobalRecovery
  /\ UNCHANGED failures

\* Mutant: the id of the request before the next is sent.
ResetWithOldId(sent, id, next, backoff) ==
  /\ status' = "resetting"
  /\ stage' = [remaining |-> connected, id |-> id - 1, next |-> next, epoch |-> 0,
               backoff |-> backoff]
  /\ req' = SendAll(Append(sent, Reset(id - 1)))

\* DatabaseRecoveringStage::Resetting, with requests to all workers after those
\* already sent.
EnterResetting(sent, id, next, backoff) ==
  /\ status' = "resetting"
  /\ stage' = [remaining |-> connected, id |-> id, next |-> next, epoch |-> 0,
               backoff |-> backoff]
  /\ req' = SendAll(Append(sent, Reset(id)))

\* on_report_failure.  A running database is blocked, and its reset waits for the
\* completing task; one that is initializing starts over; otherwise ignored.
OnReportFailure(w) ==
  /\ Polling /\ resp[w] # <<>> /\ Head(resp[w]) = Failure
  /\ resp' = [resp EXCEPT ![w] = Tail(@)]
  /\ \/ /\ status = "running"
        /\ status' = "entering"
        /\ blocked' = TRUE /\ sched' = <<>>
        /\ UNCHANGED <<stage, req>>
     \/ /\ status = "initializing"
        /\ EnterResetting(<<>>, stage.next, stage.next + 1, TRUE)
        /\ UNCHANGED <<blocked, sched>>
     \/ /\ status = "resetting"
        /\ UNCHANGED <<status, stage, req, blocked, sched>>
  /\ UNCHANGED <<graph, prev, queue, task, committed, jobs, commands, connected, node, bounds>>

\* Mutant: the reset does not wait for the completing task.
EnterResetAtOnce ==
  /\ status = "entering"
  /\ EnterResetting(<<>>, 0, 1, FALSE)
  /\ queue' = <<>>
  /\ UNCHANGED <<graph, prev, task, committed, schedVars, connected, resp, node, bounds>>

\* wait_completing_task returns, and EnterReset::enter drops the old state.
EnterReset ==
  /\ status = "entering" /\ task = 0
  /\ EnterResetting(<<>>, 0, 1, FALSE)
  /\ queue' = <<>>
  /\ UNCHANGED <<graph, prev, task, committed, schedVars, connected, resp, node, bounds>>

OnResetDatabaseResp(w) ==
  /\ Polling /\ resp[w] # <<>> /\ Head(resp[w]).type = "ResetDatabase"
  /\ resp' = [resp EXCEPT ![w] = Tail(@)]
  /\ stage' = IF Head(resp[w]).n < stage.id THEN stage
              ELSE [stage EXCEPT !.remaining = @ \ {w}]
  /\ UNCHANGED <<status, graph, prev, queue, task, committed, schedVars, connected, req,
                 node, bounds>>

BackoffElapses ==
  /\ status = "resetting" /\ stage.backoff
  /\ stage' = [stage EXCEPT !.backoff = FALSE]
  /\ UNCHANGED <<status, graph, prev, queue, task, committed, schedVars, streamVars, node, bounds>>

\* All workers are reset.  The buffered drops are applied; a database that has no
\* job left is removed, and another one is built from its committed epoch.
EnterInitializing ==
  /\ EventReady /\ status = "resetting"
  /\ sched' = <<>>
  /\ \/ /\ ~jobs
        /\ status' = "absent" /\ stage' = NoStage
        /\ UNCHANGED <<req, prev, graph, clock>>
     \/ /\ jobs /\ connected = Worker
        /\ status' = "initializing"
        /\ stage' = [stage EXCEPT !.remaining = connected, !.epoch = committed]
        /\ req' = SendAll(<<Create, Inject("Initial", committed)>>)
        /\ prev' = clock + 1 /\ clock' = clock + 1
        /\ graph' = TRUE
  /\ UNCHANGED <<queue, task, committed, jobs, blocked, commands, connected, resp, node,
                 failures, errors>>

\* A worker that hosts actors is not connected, but not yet known to be gone: the
\* graph is added on the others, the initial barrier fails, and the reset starts
\* over.
InitialBarrierErr ==
  /\ EventReady /\ status = "resetting" /\ jobs /\ connected # Worker
  /\ stage.next <= MaxRetries
  /\ EnterResetting(<<Create>>, stage.next, stage.next + 1, TRUE)
  /\ sched' = <<>>
  /\ UNCHANGED <<graph, prev, queue, task, committed, jobs, blocked, commands, connected,
                 resp, node, bounds>>

\* The runtime info is not valid without one of the workers: the whole cluster
\* recovers.
ReloadErr ==
  /\ EventReady /\ status = "resetting" /\ jobs /\ connected # Worker
  /\ GlobalRecovery
  /\ UNCHANGED <<failures, errors>>

EnterRunning ==
  /\ EventReady /\ status = "initializing"
  /\ status' = "running" /\ stage' = NoStage
  /\ blocked' = FALSE
  /\ UNCHANGED <<graph, prev, queue, task, committed, jobs, sched, commands, streamVars,
                 node, bounds>>

(***************************************************************************)
(* Workers that leave and join                                             *)
(***************************************************************************)
\* Mutant: a worker lost during the recovery of the database is ignored.
IgnoreRecovering(w) ==
  status = "running" /\ (graph \/ \E i \in 1..Len(queue) : w \in queue[i].wait)

IsFailedAtWorkerErr(w) ==
  \/ Recovering /\ w \in stage.remaining
  \/ status = "running" /\ (graph \/ \E i \in 1..Len(queue) : w \in queue[i].wait)

\* The control stream of w is lost.  It is ignored if nothing waits for w.
LoseWorker(w) ==
  /\ Polling /\ w \in connected
  /\ IF IsFailedAtWorkerErr(w)
     THEN GlobalRecovery
     ELSE StreamLost(w) /\ UNCHANGED <<metaVars, schedVars, clock>>

WorkerError(w) ==
  /\ errors < MaxWorkerErrors
  /\ errors' = errors + 1
  /\ LoseWorker(w)
  /\ UNCHANGED failures

\* transform_to_issued panics on a barrier for actors that were never built.
NodePanics(w) ==
  /\ req[w] # <<>> /\ Head(req[w]).type \in {"Checkpoint", "Stop"}
  /\ node[w].st = "running" /\ ~node[w].actors
  /\ LoseWorker(w)
  /\ UNCHANGED <<failures, errors>>

\* add_worker: the new stream carries the graphs of the databases that are
\* running or initializing.
AddWorker(w) ==
  /\ Polling /\ w \notin connected
  /\ connected' = connected \cup {w}
  /\ node' = [node EXCEPT ![w] =
                IF status \in {"running", "initializing"} THEN NoActors ELSE Absent]
  /\ UNCHANGED <<metaVars, schedVars, req, resp, bounds>>

(***************************************************************************)
(* Clients: BarrierScheduler::push                                         *)
(***************************************************************************)

\* The job is dropped from the catalog, then its actors by a command, which a
\* blocked queue accepts.
ScheduleDrop ==
  /\ jobs /\ commands < MaxCommands
  /\ jobs' = FALSE
  /\ sched' = Append(sched, "Drop")
  /\ commands' = commands + 1
  /\ UNCHANGED <<metaVars, blocked, streamVars, node, bounds>>

\* Any other command is rejected while the queue is blocked.
ScheduleFlush ==
  /\ ~blocked /\ commands < MaxCommands
  /\ sched' = Append(sched, "Flush")
  /\ commands' = commands + 1
  /\ UNCHANGED <<metaVars, jobs, blocked, streamVars, node, bounds>>

\* The database runs with its job, after a recovery of the cluster.
Init ==
  /\ status = "running" /\ stage = NoStage
  /\ graph = TRUE /\ prev = 2 /\ queue = <<>>
  /\ task = 0 /\ committed = 1
  /\ jobs = TRUE /\ sched = <<>> /\ blocked = FALSE /\ commands = 0
  /\ connected = Worker
  /\ req = [w \in Worker |-> <<>>] /\ resp = [w \in Worker |-> <<>>]
  /\ node = [w \in Worker |-> Built]
  /\ clock = 2 /\ failures = 0 /\ errors = 0

Node(w) == \/ AddPartialGraph(w) \/ SendBarrier(w) \/ OnEpochCompleted(w)
           \/ ResetDatabase(w) \/ AckDatabaseReset(w)

Responses(w) == BarrierCollected(w) \/ OnReportFailure(w) \/ OnResetDatabaseResp(w)

Meta == \/ \E kind \in {"Checkpoint", "Stop"} : NewBarrier(kind)
        \/ InjectBarrierErr \/ CommandWhenNotRunning \/ SkipCommand
        \/ StartCompleting \/ CommitEpoch \/ CompleteBarrierErr
        \/ EnterReset \/ BackoffElapses
        \/ EnterInitializing \/ InitialBarrierErr \/ ReloadErr \/ EnterRunning

Next ==
  \/ Meta
  \/ \E w \in Worker : Node(w) \/ Responses(w)
  \/ \E w \in Worker : OnDatabaseFailure(w) \/ WorkerError(w) \/ NodePanics(w) \/ AddWorker(w)
  \/ ScheduleDrop \/ ScheduleFlush

\* Nodes handle the requests and end resets, the loop and the completing task are
\* polled.  New barriers, failures and clients are not obliged to come.
Fairness ==
  /\ \A w \in Worker : WF_vars(Node(w)) /\ WF_vars(Responses(w)) /\ WF_vars(NodePanics(w))
  /\ WF_vars(StartCompleting) /\ WF_vars(CommitEpoch)
  /\ WF_vars(EnterReset) /\ WF_vars(BackoffElapses)
  /\ WF_vars(EnterInitializing) /\ WF_vars(ReloadErr) /\ WF_vars(EnterRunning)

Spec == Init /\ [][Next]_vars
FairSpec == Spec /\ Fairness

(***************************************************************************)
(* Properties                                                              *)
(***************************************************************************)
Msg == [type : {"CreatePartialGraph", "ResetDatabase", "CompleteBarrier",
                "ReportDatabaseFailure"} \cup BarrierKind, n : Nat]

\* The type invariant of the state of the database on the meta node, the control
\* streams and the nodes.
TypeOK ==
  /\ status \in {"running", "entering", "resetting", "initializing", "absent"}
  /\ stage \in [remaining : SUBSET Worker, id : Nat, next : Nat, epoch : Nat, backoff : BOOLEAN]
  /\ graph \in BOOLEAN /\ jobs \in BOOLEAN /\ blocked \in BOOLEAN
  /\ {prev, task, committed, clock, failures, errors, commands} \subseteq Nat
  /\ queue \in Seq([prev : Nat, wait : SUBSET Worker])
  /\ sched \in Seq({"Drop", "Flush"})
  /\ connected \subseteq Worker
  /\ req \in [Worker -> Seq(Msg)] /\ resp \in [Worker -> Seq(Msg)]
  /\ node \in [Worker -> [st : {"absent", "running", "suspended", "resetting"}, id : Nat,
                          actors : BOOLEAN, issued : Seq(Msg)]]

\* No response makes the meta node panic, whatever was under way when the database
\* failed: "on `DatabaseReset`: unreachable" outside of Resetting and only once per
\* worker, the initial barrier is the only one collected in Initializing, a barrier
\* collected while running is known and awaited from the worker, and nothing comes
\* from a database that is removed.
ResponsesExpected ==
  Polling => \A w \in Worker : resp[w] # <<>> =>
    LET m == Head(resp[w])
    IN /\ status # "absent"
       /\ m.type = "ResetDatabase" =>
            /\ status = "resetting" /\ m.n <= stage.id
            /\ m.n = stage.id => w \in stage.remaining
       /\ m.type = "CompleteBarrier" =>
            /\ status = "initializing" => w \in stage.remaining /\ m.n = stage.epoch
            /\ status = "running" =>
                 \E i \in 1..Len(queue) : queue[i].prev = m.n /\ w \in queue[i].wait

\* No request makes a compute node panic: "should not receive further request during
\* cleaning" but a newer reset, barriers only for a database it has, and a graph is
\* created once.
RequestsExpected ==
  \A w \in Worker : req[w] # <<>> =>
    LET m == Head(req[w])
    IN /\ m.type = "ResetDatabase" => (node[w].st = "resetting" => m.n > node[w].id)
       /\ m.type = "CreatePartialGraph" => node[w].st \in {"absent", "suspended"}
       /\ m.type \in BarrierKind => node[w].st \in {"running", "suspended"}

\* EnterReset waits "for the inflight BarrierCompletingTask to finish": the epoch a
\* database is rebuilt from is still its committed epoch when it runs again, so no
\* commit of the old incarnation lands behind the initial barrier.
RebuiltFromCommitted ==
  /\ Recovering => task = 0
  /\ status = "initializing" => stage.epoch = committed

\* A database that recovers blocks nothing forever: it runs again or is removed,
\* however failures, lost workers and dropped jobs interleave with the recovery.
RecoveryEnds == (status \in {"entering", "resetting", "initializing"})
                  ~> (status \in {"running", "absent"})

\* handle_new_barrier: "should not have command when not running".  validate_item
\* buffers the drop of a job "and execute it when the cluster is ready".
NoCommandWhenNotRunning == CanInject /\ Recovering => sched = <<>>

\* Commands are rejected because the "cluster is under recovering" only while the
\* database recovers.
BlockedOnlyWhileRecovering == blocked => status \in {"entering", "resetting", "initializing"}

\* transform_to_issued expects the actors of a barrier on the node: "should exist".
ActorsExist ==
  \A w \in Worker : req[w] # <<>> /\ Head(req[w]).type \in {"Checkpoint", "Stop"} =>
    (node[w].st = "running" => node[w].actors)
=============================================================================
