-------------------------- MODULE CheckpointControl --------------------------
(***************************************************************************)
(* The global barrier worker of the meta node: it schedules commands,      *)
(* injects barriers into the compute nodes, collects them, and commits a   *)
(* checkpoint of every database in a background task.  On a failure it     *)
(* drains what is already collected, fails the rest and recovers every     *)
(* database from the epochs committed in Hummock.                          *)
(*                                                                         *)
(* Modelled: meta/src/barrier/{schedule,worker,complete_task,notifier}.rs, *)
(* checkpoint/{control,state}.rs, progress.rs and the barrier part of      *)
(* rpc.rs.  Not here: recovery of a single database (DatabaseRecovery) and *)
(* jobs created by snapshot backfill.                                      *)
(*                                                                         *)
(* Simplifications: all actors of a job run on the workers in Placement; a *)
(* job of Backfill has one actor that reports progress; jobs are created   *)
(* in the foreground, so recovery removes the ones that are not finished.  *)
(***************************************************************************)
EXTENDS Integers, Sequences, FiniteSets, SequencesExt

CONSTANTS
  Database,             \* databases of the cluster
  Worker,               \* compute nodes
  Placement,            \* the workers that host actors
  Job,                  \* streaming jobs
  Backfill,             \* the jobs that report backfill progress
  JobDatabase,          \* JobDatabase[j]: the database job j belongs to
  InFlightBarrierNums,  \* limit of barriers in flight, per database
  CheckpointFrequency,  \* a checkpoint every so many barriers
  Batch,                \* the batches of commands that clients may schedule
  MaxCommands,          \* bound: commands scheduled
  MaxTicks,             \* bound: periodic barriers
  MaxFailures           \* bound: failures of workers, tasks and recoveries

ASSUME ConstantsOK ==
  /\ "NoJob" \notin Job
  /\ Placement \subseteq Worker /\ Placement # {}
  /\ Backfill \subseteq Job
  /\ JobDatabase \in [Job -> Database]
  /\ InFlightBarrierNums \in Nat \ {0}
  /\ CheckpointFrequency \in Nat \ {0}
  /\ {MaxCommands, MaxTicks, MaxFailures} \subseteq Nat

\* The kinds of commands.  run_config_change_command_with_pause schedules a change of
\* the configuration between a pause and a resume.
Kind == {"Flush", "Pause", "Resume", "ConfigPause", "ConfigResume", "Reschedule", "Create", "Drop"}

ASSUME BatchOK ==
  \A b \in Batch :
    /\ b \in Seq(Kind)
    /\ Range(b) \cap {"Reschedule", "ConfigResume"} # {} => "ConfigPause" \in Range(b)

VARIABLES
  clock,      \* the largest epoch handed out so far (physical time)
  running,    \* the databases in CheckpointControl.databases
  db,         \* db[d]: the DatabaseCheckpointControl of d
  periodic,   \* PeriodicBarriers: force_checkpoint, num_uncheckpointed_barrier
  task,       \* the CompletingTask and the CompleteBarrierTask it runs
  committed,  \* committed[d]: committed epoch of d's tables in Hummock
  created,    \* jobs the catalog holds as created; recovery rebuilds these
  connected,  \* the workers with a control stream
  stream,     \* stream[w][d]: prev epochs injected into w, not yet collected
  phase,      \* where the worker loop is
  sched,      \* sched[d]: queue of scheduled commands of d
  blocked,    \* the scheduled queue is Blocked
  cmd,        \* cmd[c]: kind, database and job of the c-th command
  result,     \* result[c]: what the client of command c has been told
  asked,      \* history: epoch open in the database when c was scheduled (no drop)
  injected,   \* history: epochs closed by a barrier since the last commit
  doneAt,     \* history: epoch in which the backfill of a job reported done
  ticks, failures

dbVars    == <<clock, running, db, periodic, injected>>
taskVars  == <<task, committed, created>>
nodeVars  == <<connected, stream, doneAt>>
schedVars == <<sched, blocked, cmd, asked>>
vars == <<dbVars, taskVars, nodeVars, schedVars, phase, result, ticks, failures>>

Command   == 1..MaxCommands
NoCommand == 0
Epoch     == Nat
NoJob     == "NoJob"

Resolved  == {"collected", "skipped", "failed", "rejected", "cancelled"}

KindOf(c) == IF c = NoCommand THEN "None" ELSE cmd[c].kind

(***************************************************************************)
(* Commands                                                                *)
(***************************************************************************)
ShouldPauseInjectBarrier(c) == KindOf(c) = "ConfigPause"

\* Mutant: a flush waits for a barrier of any kind.
FlushWithoutCheckpoint(c) == KindOf(c) \notin {"Resume", "ConfigResume", "Flush"}

NeedCheckpoint(c) == KindOf(c) \notin {"Resume", "ConfigResume"}

\* A pause is kept until it is resumed for the reason it was made for.
NextPausedReason(c, current) ==
  CASE KindOf(c) = "Pause"       /\ current = "none"         -> "Manual"
    [] KindOf(c) = "ConfigPause" /\ current = "none"         -> "ConfigChange"
    [] KindOf(c) = "Resume"      /\ current = "Manual"       -> "none"
    [] KindOf(c) = "ConfigResume" /\ current = "ConfigChange" -> "none"
    [] OTHER -> current

(***************************************************************************)
(* State of one database                                                   *)
(***************************************************************************)
NoBarrier == [prev |-> 0, curr |-> 0, pause |-> FALSE]

NewDatabase(prev, jobs) ==
  [prev |-> prev, pending |-> <<>>, jobs |-> jobs, paused |-> "none",
   queue |-> <<>>, completing |-> NoBarrier, tracking |-> {}, stash |-> {}]

IsCheckpoint(node) == node.epochs # <<>>

\* Mutant: a barrier counts as collected once some worker has answered.
AnyWorkerCollects(node) == node.wait = Worker

IsInflight(node) == node.wait # {}

NoTask == [stage |-> "none", infos |-> <<>>, notifiers |-> {}, finished |-> {}]

(***************************************************************************)
(* Clients: BarrierScheduler                                               *)
(***************************************************************************)

\* Mutant: a blocked queue accepts every command.
ValidateNothing(kinds) == TRUE

\* A queue that is blocked accepts nothing but drops.
ValidateItem(kinds) == blocked => kinds = {"Drop"}

\* A reschedule reads the jobs of the database from the catalog before it schedules
\* its commands: they may have been dropped since.
HadJobs(d) ==
  \E k \in Job : /\ JobDatabase[k] = d
                 /\ k \in created \/ \E c \in Command : cmd[c].kind = "Drop" /\ cmd[c].job = k

\* BarrierScheduler::push of a batch of commands other than a drop.  The DDL layer creates
\* every job once, and changes the configuration only of a database that has or had jobs.
Schedule(batch, d, j) ==
  LET n    == Cardinality({c \in Command : cmd[c].kind # "None"})
      ids  == [i \in 1..Len(batch) |-> n + i]
      kinds == Range(batch)
      rejected == ~ValidateItem(kinds)
  IN
  /\ n + Len(batch) <= MaxCommands
  /\ "Drop" \notin kinds
  /\ IF "Create" \in kinds THEN j \in Job /\ JobDatabase[j] = d ELSE j = NoJob
  /\ "Create" \in kinds => /\ j \notin created
                           /\ \A c \in Command : cmd[c].job # j
  /\ "ConfigPause" \in kinds => HadJobs(d)
  /\ cmd' = [c \in Command |-> IF c \in Range(ids)
               THEN [kind |-> batch[c - n], db |-> d, job |-> j] ELSE cmd[c]]
  /\ asked' = [c \in Command |-> IF c \in Range(ids) THEN db[d].prev ELSE asked[c]]
  /\ result' = [c \in Command |-> IF c \in Range(ids)
               THEN (IF rejected THEN "rejected" ELSE "scheduled") ELSE result[c]]
  /\ sched' = [sched EXCEPT ![d] = IF rejected THEN @ ELSE @ \o ids]
  /\ UNCHANGED <<dbVars, taskVars, nodeVars, blocked, phase, ticks, failures>>

\* DdlController::drop_object, first part: the job is removed from the catalog.
DropObject(j) ==
  LET n == Cardinality({c \in Command : cmd[c].kind # "None"})
  IN
  /\ <<"Drop">> \in Batch /\ n + 1 <= MaxCommands /\ j \in created
  /\ created' = created \ {j}
  /\ cmd' = [cmd EXCEPT ![n + 1] = [kind |-> "Drop", db |-> JobDatabase[j], job |-> j]]
  /\ result' = [result EXCEPT ![n + 1] = "removed"]
  /\ UNCHANGED <<dbVars, task, committed, nodeVars, sched, blocked, asked, phase, ticks, failures>>

\* Second part, after it has awaited the source manager: drop_streaming_jobs schedules
\* the command, which a blocked queue accepts as well.
DropStreamingJobs(c) ==
  /\ result[c] = "removed"
  /\ sched' = [sched EXCEPT ![cmd[c].db] = Append(@, c)]
  /\ result' = [result EXCEPT ![c] = "scheduled"]
  /\ UNCHANGED <<dbVars, taskVars, nodeVars, blocked, cmd, asked, phase, ticks, failures>>

\* BarrierScheduler::try_cancel_scheduled_create: the notifiers are dropped.
CancelScheduledCreate(c) ==
  /\ KindOf(c) = "Create"
  /\ \E d \in Database : \E i \in 1..Len(sched[d]) :
       /\ sched[d][i] = c
       /\ sched' = [sched EXCEPT ![d] = RemoveAt(@, i)]
  /\ result' = [result EXCEPT ![c] = "cancelled"]
  /\ UNCHANGED <<dbVars, taskVars, nodeVars, blocked, cmd, asked, phase, ticks, failures>>

(***************************************************************************)
(* Injecting a barrier                                                     *)
(***************************************************************************)

\* Mutant: the barrier that is completing no longer pauses the injection.
PauseOnlyInQueue(s) ==
  LET n == Len(s.queue)
  IN n > 0 /\ s.queue[n].cmd # NoCommand /\ ShouldPauseInjectBarrier(s.queue[n].cmd)

ShouldPause(s) ==
  LET n == Len(s.queue)
  IN IF n > 0 /\ s.queue[n].cmd # NoCommand THEN ShouldPauseInjectBarrier(s.queue[n].cmd)
     ELSE s.completing.pause

CanInjectBarrier(d) ==
  LET inflight == {i \in 1..Len(db[d].queue) : IsInflight(db[d].queue[i])}
  IN Cardinality(inflight) < InFlightBarrierNums /\ ~ShouldPause(db[d])

TryGetCheckpoint ==
  periodic.uncheckpointed + 1 >= CheckpointFrequency \/ periodic.force

\* Mutant: a checkpoint takes its period off the count, though it may be forced.
SubtractFrequency(checkpoint) ==
  periodic' = IF checkpoint
              THEN [force |-> FALSE, uncheckpointed |-> periodic.uncheckpointed - CheckpointFrequency]
              ELSE [periodic EXCEPT !.uncheckpointed = @ + 1]

UpdateNumUncheckpointedBarrier(checkpoint) ==
  periodic' = IF checkpoint THEN [force |-> FALSE, uncheckpointed |-> 0]
              ELSE [periodic EXCEPT !.uncheckpointed = @ + 1]

\* BarrierWorkerState::next_barrier_info returns None.
NothingToDo(s, c) == s.jobs = {} /\ KindOf(c) # "Create"

\* The jobs while the barrier of c passes (pre_apply) and after it.
PreApplied(s, c)  == IF KindOf(c) = "Create" THEN s.jobs \cup {cmd[c].job} ELSE s.jobs
PostApplied(s, c) == IF KindOf(c) = "Drop" THEN s.jobs \ {cmd[c].job} ELSE PreApplied(s, c)

\* Mutant: the pending epochs are left in place by a checkpoint.
PendingNotTaken(s, c, checkpoint, curr) ==
  LET epochs == Append(s.pending, s.prev)
      node == [prev |-> s.prev, curr |-> curr, cmd |-> c,
               epochs |-> IF checkpoint THEN epochs ELSE <<>>,
               jobs |-> PreApplied(s, c), wait |-> connected, done |-> {}]
  IN [s EXCEPT !.prev = curr, !.pending = epochs, !.jobs = PostApplied(s, c),
               !.paused = NextPausedReason(c, s.paused), !.queue = Append(s.queue, node)]

\* DatabaseCheckpointControl::handle_new_barrier of a database with state s:
\* next_barrier_info, apply_command and enqueue_command.
WithNewBarrier(s, c, checkpoint, curr) ==
  LET epochs == Append(s.pending, s.prev)
      node == [prev |-> s.prev, curr |-> curr, cmd |-> c,
               epochs |-> IF checkpoint THEN epochs ELSE <<>>,
               jobs |-> PreApplied(s, c), wait |-> connected, done |-> {}]
  IN [s EXCEPT !.prev = curr,
               !.pending = IF checkpoint THEN <<>> ELSE epochs,
               !.jobs = PostApplied(s, c),
               !.paused = NextPausedReason(c, s.paused),
               !.queue = Append(s.queue, node)]

\* CheckpointControl::handle_new_barrier for the databases in dbs, where of
\* holds the command of one of them (or none), and s their states before.
\* When a worker that hosts actors is not connected, inject_barrier fails
\* and the worker loop starts a recovery, which discards these states.
InjectBarrier(dbs, s, of, checkpoint, curr) ==
  LET hit == {d \in dbs : ~NothingToDo(s[d], of[d])}
      commands == {of[d] : d \in dbs} \ {NoCommand}
      fails == hit # {} /\ ~(Placement \subseteq connected)
  IN /\ IF fails
        THEN /\ phase' = "clearing"
             /\ UNCHANGED <<db, stream, injected>>
        ELSE /\ db' = [d \in Database |-> IF d \in hit
                         THEN WithNewBarrier(s[d], of[d], checkpoint, curr) ELSE s[d]]
             /\ stream' = [w \in Worker |-> [d \in Database |->
                             IF w \in connected /\ d \in hit
                             THEN Append(stream[w][d], s[d].prev) ELSE stream[w][d]]]
             /\ injected' = [d \in Database |-> IF d \in hit
                               THEN injected[d] \cup {s[d].prev} ELSE injected[d]]
             /\ phase' = phase
     /\ result' = [c \in Command |->
          IF c \notin commands THEN result[c]
          ELSE IF \A d \in hit : of[d] # c THEN "skipped"
          ELSE IF fails THEN "failed" ELSE "started"]
     /\ clock' = curr

\* The worker loop is polled, and next_completed_barrier, which every
\* iteration evaluates first, found nothing more to start completing.
HasCollected == \E d \in running : /\ db[d].queue # <<>>
                                   /\ ~IsInflight(Head(db[d].queue))
Polling == phase = "running" /\ ~(task.stage = "none" /\ HasCollected)

\* Mutant: one database that can take a barrier is enough.
SomeCanInject == Polling /\ (running = {} \/ \E d \in running : CanInjectBarrier(d))

CanInject == Polling /\ \A d \in running : CanInjectBarrier(d)

NoCommands == [d \in Database |-> NoCommand]

\* The first command of d's queue panics: it is for a database that is absent
\* (handle_new_barrier), or drops a job that its database does not have (post_apply; a
\* database without jobs gets no barrier).
Unexpected(d) ==
  LET c == Head(sched[d])
  IN IF d \in running THEN KindOf(c) = "Drop" /\ db[d].jobs # {} /\ cmd[c].job \notin db[d].jobs
     ELSE KindOf(c) \notin {"Create", "Flush", "Pause", "Resume"}

\* PeriodicBarriers::next_barrier takes a scheduled command of database d, and
\* CheckpointControl::handle_new_barrier injects it into d and a plain barrier
\* into every other database.  The first job of a database adds it, with the
\* physical time as its epoch.  Other commands on a database that is absent are
\* skipped, without a barrier for anyone.
NewCommandBarrier(d) ==
  LET c == Head(sched[d])
      checkpoint == NeedCheckpoint(c) \/ TryGetCheckpoint
      of == [NoCommands EXCEPT ![d] = c]
  IN
  /\ CanInject /\ sched[d] # <<>> /\ ~Unexpected(d)
  /\ sched' = [sched EXCEPT ![d] = Tail(@)]
  /\ UpdateNumUncheckpointedBarrier(checkpoint)
  /\ \/ /\ d \in running
        /\ InjectBarrier(running, db, of, checkpoint, clock + 1)
        /\ UNCHANGED running
     \/ /\ d \notin running /\ KindOf(c) = "Create"
        /\ running' = running \cup {d}
        /\ \E now \in {clock, clock + 1} :
             InjectBarrier(running', [db EXCEPT ![d] = NewDatabase(now, {})],
                           of, checkpoint, now + 1)
     \/ /\ d \notin running /\ KindOf(c) \in {"Flush", "Pause", "Resume"}
        /\ result' = [result EXCEPT ![c] = "skipped"]
        /\ UNCHANGED <<clock, running, db, injected, stream, phase>>
  /\ UNCHANGED <<taskVars, connected, doneAt, blocked, cmd, asked, ticks, failures>>

\* The interval ticks, and no command is scheduled (the select is biased).
NewPeriodicBarrier ==
  /\ CanInject /\ ticks < MaxTicks
  /\ \A d \in Database : sched[d] = <<>>
  /\ ticks' = ticks + 1
  /\ UpdateNumUncheckpointedBarrier(TryGetCheckpoint)
  /\ IF running = {}
     THEN UNCHANGED <<clock, db, stream, injected, phase, result>>
     ELSE InjectBarrier(running, db, NoCommands, TryGetCheckpoint, clock + 1)
  /\ UNCHANGED <<running, taskVars, connected, doneAt, schedVars, failures>>

(***************************************************************************)
(* Collecting barriers, and errors of the control streams                  *)
(***************************************************************************)

\* Worker w has collected the oldest barrier it has of database d from its
\* actors, some of which report that their backfill is done.
BarrierCollected(w, d) ==
  LET e == Head(stream[w][d])
  IN
  /\ Polling /\ stream[w][d] # <<>>
  /\ \E i \in 1..Len(db[d].queue) :
       /\ db[d].queue[i].prev = e
       /\ \E done \in SUBSET {j \in db[d].queue[i].jobs \cap Backfill :
                                w \in Placement /\ doneAt[j] = 0} :
            /\ db' = [db EXCEPT ![d].queue[i] =
                        [db[d].queue[i] EXCEPT !.wait = @ \ {w}, !.done = @ \cup done]]
            /\ doneAt' = [j \in Job |-> IF j \in done THEN e ELSE doneAt[j]]
  /\ stream' = [stream EXCEPT ![w][d] = Tail(@)]
  /\ UNCHANGED <<clock, running, periodic, injected, taskVars, connected, schedVars,
                 phase, result, ticks, failures>>

\* Mutant: only workers with actors matter.
OnlyActorsFail(w) == \E d \in running : db[d].jobs # {} /\ w \in Placement

IsFailedAtWorkerErr(w) ==
  \E d \in running : \/ \E i \in 1..Len(db[d].queue) : w \in db[d].queue[i].wait
                     \/ db[d].jobs # {} /\ w \in Placement

\* The control stream of w ends.  The node is removed; a recovery follows
\* unless no database needs the worker.
WorkerError(w) ==
  /\ Polling /\ w \in connected /\ failures < MaxFailures
  /\ failures' = failures + 1
  /\ connected' = connected \ {w}
  /\ stream' = [stream EXCEPT ![w] = [d \in Database |-> <<>>]]
  /\ phase' = IF IsFailedAtWorkerErr(w) THEN "clearing" ELSE phase
  /\ UNCHANGED <<dbVars, taskVars, doneAt, schedVars, result, ticks>>

\* ControlStreamManager::add_worker, when the worker joins again.
AddWorker(w) ==
  /\ Polling /\ w \notin connected
  /\ connected' = connected \cup {w}
  /\ UNCHANGED <<dbVars, taskVars, stream, doneAt, schedVars, phase, result, ticks, failures>>

\* A user asks for a recovery.
AdhocRecovery ==
  /\ Polling /\ failures < MaxFailures
  /\ failures' = failures + 1
  /\ phase' = "clearing"
  /\ UNCHANGED <<dbVars, taskVars, nodeVars, schedVars, result, ticks>>

(***************************************************************************)
(* Completing barriers                                                     *)
(***************************************************************************)

\* Mutant: all barriers collected are taken together, checkpoints among them.
PopAllCollected(queue) ==
  Max({n \in 0..Len(queue) : \A i \in 1..n : ~IsInflight(queue[i])})

\* Mutant: once the first barrier is collected, all up to a checkpoint are taken.
PopToCheckpoint(queue) ==
  IF queue = <<>> \/ IsInflight(Head(queue)) THEN 0
  ELSE Max({n \in 0..Len(queue) : \A i \in 1..(n-1) : ~IsCheckpoint(queue[i])})

\* The leading nodes that next_complete_barrier_task takes from a queue: the
\* collected ones, up to the first checkpoint among them.
Popped(queue) ==
  LET collected == {n \in 0..Len(queue) : \A i \in 1..n : ~IsInflight(queue[i])}
      upToCheckpoint == {n \in collected : \A i \in 1..(n-1) : ~IsCheckpoint(queue[i])}
  IN Max(upToCheckpoint)

\* Mutant: a job is finished although its actors have yet to report progress.
FinishedAtCreation(tracker, node) ==
  LET new     == IF KindOf(node.cmd) = "Create" THEN {cmd[node.cmd].job} ELSE {}
      dropped == IF KindOf(node.cmd) = "Drop" THEN {cmd[node.cmd].job} ELSE {}
  IN [tracking |-> {}, stash |-> (tracker.stash \cup new) \ dropped]

\* CreateMviewProgressTracker::apply_collected_command, without the take.
ApplyCollected(tracker, node) ==
  LET new      == IF KindOf(node.cmd) = "Create" THEN {cmd[node.cmd].job} ELSE {}
      dropped  == IF KindOf(node.cmd) = "Drop" THEN {cmd[node.cmd].job} ELSE {}
      tracking == tracker.tracking \cup (new \cap Backfill)
      finished == (new \ Backfill) \cup (node.done \cap tracking)
  IN [tracking |-> (tracking \ node.done) \ dropped,
      stash    |-> (tracker.stash \cup finished) \ dropped]

\* Mutant: the barriers that are completed are not taken from the queue.
KeepsCompleted(queue, n) == queue

Remaining(queue, n) == SubSeq(queue, n + 1, Len(queue))

\* next_complete_barrier_task for one database with state s.
Completed(s) ==
  LET n    == Popped(s.queue)
      pop  == SubSeq(s.queue, 1, n)
      rest == Remaining(s.queue, n)
      trackers[i \in 0..n] ==
        IF i = 0 THEN [tracking |-> s.tracking, stash |-> s.stash]
        ELSE ApplyCollected(trackers[i - 1], s.queue[i])
      tr   == trackers[n]
      ckpt == n > 0 /\ IsCheckpoint(s.queue[n])
      last == s.queue[n]
  IN [ckpt  |-> ckpt,
      force |-> /\ n > 0 /\ ~ckpt /\ tr.stash # {}
                /\ \A i \in 1..Len(rest) : ~IsCheckpoint(rest[i]),
      info  |-> IF ckpt THEN [prev |-> last.prev, epochs |-> last.epochs] ELSE [prev |-> 0, epochs |-> <<>>],
      notified  |-> {pop[i].cmd : i \in {k \in 1..n : ~IsCheckpoint(pop[k])}} \ {NoCommand},
      notifiers |-> IF ckpt THEN {last.cmd} \ {NoCommand} ELSE {},
      finished  |-> IF ckpt THEN tr.stash ELSE {},
      state |-> [s EXCEPT !.queue = rest, !.tracking = tr.tracking,
                          !.stash = IF ckpt THEN {} ELSE tr.stash,
                          !.completing = IF ckpt
                             THEN [prev |-> last.prev, curr |-> last.curr,
                                   pause |-> ShouldPauseInjectBarrier(last.cmd)]
                             ELSE @]]

\* CheckpointControl::next_complete_barrier_task: one task commits the next
\* checkpoint of every database that has collected one.
NextCompleteBarrierTask ==
  LET out  == [d \in running |-> Completed(db[d])]
      ckpt == {d \in running : out[d].ckpt}
      notified == UNION {out[d].notified : d \in running}
  IN
  /\ task.stage = "none" /\ HasCollected
  /\ db' = [d \in Database |-> IF d \in running THEN out[d].state ELSE db[d]]
  /\ task' = IF ckpt = {} THEN NoTask
             ELSE [stage |-> "commit", infos |-> [d \in ckpt |-> out[d].info],
                   notifiers |-> UNION {out[d].notifiers : d \in ckpt},
                   finished  |-> UNION {out[d].finished : d \in ckpt}]
  /\ result' = [c \in Command |-> IF c \in notified THEN "collected" ELSE result[c]]
  /\ periodic' = IF phase = "running" /\ \E d \in running : out[d].force
                 THEN [periodic EXCEPT !.force = TRUE] ELSE periodic
  /\ UNCHANGED <<clock, running, injected, committed, created, nodeVars, schedVars,
                 phase, ticks, failures>>

\* At the top of each iteration of the loop, and again and again in clear_on_err.
StartCompleting == phase \in {"running", "clearing"} /\ NextCompleteBarrierTask

\* The spawned task, CompleteBarrierTask::complete_barrier: commit_epoch ...
CommitEpoch ==
  /\ task.stage = "commit"
  /\ task' = [task EXCEPT !.stage = "post"]
  /\ committed' = [d \in Database |-> IF d \in DOMAIN task.infos
                                      THEN task.infos[d].prev ELSE committed[d]]
  /\ injected' = [d \in Database |-> IF d \in DOMAIN task.infos
                    THEN {e \in injected[d] : e > task.infos[d].prev}
                    ELSE injected[d]]
  /\ UNCHANGED <<clock, running, db, periodic, created, nodeVars, schedVars,
                 phase, result, ticks, failures>>

\* ... then post_collect_command of each command, then the notifiers ...
PostCollectCommand ==
  /\ task.stage = "post"
  /\ task' = [task EXCEPT !.stage = "finish"]
  /\ result' = [c \in Command |-> IF c \in task.notifiers THEN "collected" ELSE result[c]]
  /\ UNCHANGED <<dbVars, committed, created, nodeVars, schedVars, phase, ticks, failures>>

\* ... then finish_creating_job of the jobs that are finished.
FinishCreatingJob ==
  /\ task.stage = "finish"
  /\ task' = [task EXCEPT !.stage = "ok"]
  /\ created' = created \cup task.finished
  /\ UNCHANGED <<dbVars, committed, nodeVars, schedVars, phase, result, ticks, failures>>

\* Any of these steps fails.  The notifiers learn of it unless they have been
\* notified already; finishing the jobs may have succeeded for some of them.
CompleteBarrierFails ==
  /\ task.stage \in {"commit", "post", "finish"} /\ failures < MaxFailures
  /\ failures' = failures + 1
  /\ task' = [task EXCEPT !.stage = "err"]
  /\ result' = [c \in Command |-> IF c \in task.notifiers /\ task.stage # "finish"
                                  THEN "failed" ELSE result[c]]
  /\ \E part \in SUBSET task.finished :
       created' = IF task.stage = "finish" THEN created \cup part ELSE created
  /\ UNCHANGED <<dbVars, committed, nodeVars, schedVars, phase, ticks>>

\* Mutant: the completed barrier is not taken.
AckKeepsCompleting ==
  /\ task.stage = "ok"
  /\ task' = NoTask
  /\ UNCHANGED <<dbVars, committed, created, nodeVars, schedVars, phase, result, ticks, failures>>

\* CheckpointControl::ack_completed, from the loop or from clear_on_err.
AckCompleted ==
  /\ task.stage = "ok"
  /\ task' = NoTask
  /\ db' = [d \in Database |-> IF d \in DOMAIN task.infos
                               THEN [db[d] EXCEPT !.completing = NoBarrier] ELSE db[d]]
  /\ UNCHANGED <<clock, running, periodic, injected, committed, created, nodeVars,
                 schedVars, phase, result, ticks, failures>>

\* Mutant: the result of the completing task is dropped.
IgnoreCompletingTaskErr == phase = "running" /\ task.stage = "err" /\ UNCHANGED vars

\* The loop sees that the completing task has failed.
CompletingTaskErr ==
  /\ phase = "running" /\ task.stage = "err"
  /\ phase' = "clearing"
  /\ UNCHANGED <<dbVars, taskVars, nodeVars, schedVars, result, ticks, failures>>

(***************************************************************************)
(* Recovery of the whole cluster                                           *)
(***************************************************************************)
NoStreams == [w \in Worker |-> [d \in Database |-> <<>>]]

\* What a recovery starts from: no database, task or control stream is left, and the
\* queue is empty and blocked.
StartRecovery ==
  /\ sched' = [d \in Database |-> <<>>]
  /\ blocked' = TRUE
  /\ running' = {}
  /\ db' = [d \in Database |-> NewDatabase(0, {})]
  /\ injected' = [d \in Database |-> {}]
  /\ task' = NoTask
  /\ connected' = {} /\ stream' = NoStreams
  /\ phase' = "recovering"

\* The end of clear_on_err, once the completing task is joined and the
\* collected barriers are completed (or completing one of them failed), and
\* the start of recovery: every barrier left and every scheduled command
\* fails, the queue is blocked and the control streams are closed.
ClearOnErr ==
  LET left == UNION {{db[d].queue[i].cmd : i \in 1..Len(db[d].queue)} : d \in running}
      aborted == UNION {Range(sched[d]) : d \in Database}
  IN
  /\ phase = "clearing"
  /\ task.stage = "err" \/ (task.stage = "none" /\ ~HasCollected)
  /\ result' = [c \in Command |-> IF c \in left \cup aborted THEN "failed" ELSE result[c]]
  /\ StartRecovery
  /\ UNCHANGED <<clock, periodic, committed, created, doneAt, cmd, asked, ticks, failures>>

\* The loop takes a command that panics, which aborts the process (set_panic_hook): the
\* clients lose their connection, and the meta node boots again.  Finishing the jobs of
\* the completing task may have succeeded for some of them.
MetaPanics(d) ==
  /\ CanInject /\ sched[d] # <<>> /\ Unexpected(d)
  /\ result' = [c \in Command |-> IF result[c] \in {"removed", "scheduled", "started"}
                                  THEN "failed" ELSE result[c]]
  /\ periodic' = [force |-> FALSE, uncheckpointed |-> 0]
  /\ \E part \in SUBSET task.finished :
       created' = IF task.stage = "finish" THEN created \cup part ELSE created
  /\ StartRecovery
  /\ UNCHANGED <<clock, committed, doneAt, cmd, asked, ticks, failures>>

\* One attempt of recovery_inner: buffered drops are applied, the jobs and
\* the committed epochs are loaded, the workers are reset, and an initial
\* barrier is injected from the committed epoch to a new one.
ReloadRuntimeInfo ==
  LET buffered == UNION {Range(sched[d]) : d \in Database}
      jobsOf(d) == {j \in created : JobDatabase[j] = d}
  IN
  /\ phase = "recovering"
  /\ result' = [c \in Command |-> IF c \in buffered THEN "collected" ELSE result[c]]
  /\ sched' = [d \in Database |-> <<>>]
  /\ running' = {d \in Database : jobsOf(d) # {}}
  /\ clock' = clock + 1
  /\ db' = [d \in Database |-> IF d \in running' THEN NewDatabase(clock + 1, jobsOf(d))
                               ELSE NewDatabase(0, {})]
  /\ connected' = Worker
  /\ phase' = "initializing"
  /\ UNCHANGED <<periodic, injected, taskVars, stream, doneAt, blocked, cmd, asked,
                 ticks, failures>>

\* The attempt fails before the initial barriers are collected: retry.
RecoveryRetry ==
  /\ phase = "initializing" /\ failures < MaxFailures
  /\ failures' = failures + 1
  /\ phase' = "recovering"
  /\ UNCHANGED <<dbVars, taskVars, nodeVars, schedVars, result, ticks>>

\* The initial barriers are collected: the loop runs on the new state.
MarkReady ==
  /\ phase = "initializing"
  /\ blocked' = FALSE
  /\ phase' = "running"
  /\ UNCHANGED <<dbVars, taskVars, nodeVars, sched, cmd, asked, result, ticks, failures>>

\* The meta node boots by recovering the jobs of its catalog.
Init ==
  /\ clock = 1
  /\ running = {}
  /\ db = [d \in Database |-> NewDatabase(0, {})]
  /\ periodic = [force |-> FALSE, uncheckpointed |-> 0]
  /\ task = NoTask
  /\ created \in SUBSET Job
  /\ committed = [d \in Database |-> IF \E j \in created : JobDatabase[j] = d THEN 1 ELSE 0]
  /\ connected = {} /\ stream = NoStreams
  /\ phase = "recovering"
  /\ sched = [d \in Database |-> <<>>]
  /\ blocked = TRUE
  /\ cmd = [c \in Command |-> [kind |-> "None", db |-> "None", job |-> NoJob]]
  /\ result = [c \in Command |-> "none"]
  /\ asked = [c \in Command |-> 0]
  /\ injected = [d \in Database |-> {}]
  /\ doneAt = [j \in Job |-> 0]
  /\ ticks = 0 /\ failures = 0

Client ==
  \/ \E batch \in Batch, d \in Database, j \in Job \cup {NoJob} : Schedule(batch, d, j)
  \/ \E j \in Job : DropObject(j)
  \/ \E c \in Command : DropStreamingJobs(c) \/ CancelScheduledCreate(c)

Loop ==
  \/ \E d \in Database : NewCommandBarrier(d) \/ MetaPanics(d)
  \/ NewPeriodicBarrier
  \/ \E w \in Worker, d \in Database : BarrierCollected(w, d)
  \/ StartCompleting
  \/ AckCompleted
  \/ CompletingTaskErr
  \/ ClearOnErr
  \/ ReloadRuntimeInfo
  \/ MarkReady

CompleteBarrier == CommitEpoch \/ PostCollectCommand \/ FinishCreatingJob

Fault ==
  \/ \E w \in Worker : WorkerError(w) \/ AddWorker(w)
  \/ AdhocRecovery
  \/ CompleteBarrierFails
  \/ RecoveryRetry

Next == Client \/ Loop \/ CompleteBarrier \/ Fault

\* The loop, the spawned task and the request of a client that drops a job are tokio
\* tasks that are always polled, a process that aborts is seen to do so, and every worker
\* that is alive collects the barriers injected into it.
Fairness ==
  /\ \A d \in Database : WF_vars(NewCommandBarrier(d)) /\ WF_vars(MetaPanics(d))
  /\ \A c \in Command : WF_vars(DropStreamingJobs(c))
  /\ \A w \in Worker, d \in Database : WF_vars(BarrierCollected(w, d))
  /\ WF_vars(StartCompleting)
  /\ WF_vars(CompleteBarrier)
  /\ WF_vars(AckCompleted) /\ WF_vars(CompletingTaskErr)
  /\ WF_vars(ClearOnErr) /\ WF_vars(ReloadRuntimeInfo) /\ WF_vars(MarkReady)

Spec == Init /\ [][Next]_vars
FairSpec == Spec /\ Fairness

(***************************************************************************)
(* Properties                                                              *)
(***************************************************************************)
Node == [prev : Epoch, curr : Epoch, cmd : 0..MaxCommands, epochs : Seq(Epoch),
         jobs : SUBSET Job, wait : SUBSET Worker, done : SUBSET Job]

DatabaseState ==
  [prev : Epoch, pending : Seq(Epoch), jobs : SUBSET Job,
   paused : {"none", "Manual", "ConfigChange"}, queue : Seq(Node),
   completing : [prev : Epoch, curr : Epoch, pause : BOOLEAN],
   tracking : SUBSET Job, stash : SUBSET Job]

\* The type invariant of the barrier worker's state (BarrierWorkerState,
\* DatabaseCheckpointControl, PeriodicBarriers, CompletingTask).
TypeOK ==
  /\ clock \in Epoch
  /\ running \subseteq Database
  /\ db \in [Database -> DatabaseState]
  /\ periodic \in [force : BOOLEAN, uncheckpointed : Nat]
  /\ task.stage \in {"none", "commit", "post", "finish", "ok", "err"}
  /\ DOMAIN task.infos \subseteq Database
  /\ task.notifiers \subseteq Command /\ task.finished \subseteq Job
  /\ committed \in [Database -> Epoch]
  /\ created \subseteq Job /\ connected \subseteq Worker
  /\ stream \in [Worker -> [Database -> Seq(Epoch)]]
  /\ phase \in {"running", "clearing", "recovering", "initializing"}
  /\ sched \in [Database -> Seq(Command)]
  /\ blocked \in BOOLEAN
  /\ \A c \in Command : cmd[c].kind \in Kind \cup {"None"}
  /\ result \in [Command -> {"none", "removed", "scheduled", "started"} \cup Resolved]
  /\ asked \in [Command -> Epoch]
  /\ doneAt \in [Job -> Epoch]

\* The lists of epochs of a database: that of the checkpoint being committed, that of
\* each barrier in the queue, and what is left for the next checkpoint.
EpochLists(d) ==
  LET n == Len(db[d].queue) IN
  [i \in 0..(n + 1) |->
     IF i = 0 THEN IF task.stage = "commit" /\ d \in DOMAIN task.infos
                   THEN task.infos[d].epochs ELSE <<>>
     ELSE IF i <= n THEN db[d].queue[i].epochs ELSE db[d].pending]

\* BarrierKind::Checkpoint holds "a list of previous non-checkpoint prev-epoch +
\* current prev-epoch": each epoch closed by a barrier and not yet committed is
\* in the list of exactly one checkpoint, in order, whatever barriers have been
\* popped, completed or skipped meanwhile, and none is at or below the committed
\* epoch.
EpochsCovered ==
  phase = "running" /\ task.stage # "err" =>
    \A d \in running :
      LET lists == EpochLists(d) IN
      /\ \A i, j \in DOMAIN lists : \A a \in DOMAIN lists[i], b \in DOMAIN lists[j] :
           i < j \/ (i = j /\ a < b) => lists[i][a] < lists[j][b]
      /\ UNION {Range(lists[i]) : i \in DOMAIN lists} = injected[d]
      /\ \A e \in injected[d] : e > committed[d]

\* can_inject_barrier: "Whether some command requires pausing concurrent barrier.
\* If so, it must be the last one": from the injection of a configuration-change
\* pause until its checkpoint is acknowledged, no database gets another barrier.
PauseBarrierIsLast ==
  \A d \in running :
    /\ \A i \in 1..Len(db[d].queue) :
         ShouldPauseInjectBarrier(db[d].queue[i].cmd) =>
           \A e \in running : \A k \in 1..Len(db[e].queue) :
             db[e].queue[k].curr <= db[d].queue[i].curr
    /\ db[d].completing.pause =>
         \A e \in running : \A k \in 1..Len(db[e].queue) :
           db[e].queue[k].curr <= db[d].completing.curr

\* The assertions of DatabaseCheckpointControl.  enqueue_command: a barrier closes the
\* epoch that the one before it in the queue has opened.  next_complete_barrier_task and
\* ack_completed: the barrier that completes is the one of the task, and none when
\* the task has none of the database.  can_inject_barrier: the last command decides
\* whether any barrier of the database pauses the injection.
AssertionsHold ==
  \A d \in running :
    LET s == db[d]
        n == Len(s.queue)
    IN /\ \A k \in 1..n : s.queue[k].curr = IF k = n THEN s.prev ELSE s.queue[k + 1].prev
       /\ IF d \in DOMAIN task.infos THEN s.completing.prev = task.infos[d].prev
          ELSE s.completing = NoBarrier
       /\ ShouldPause(s) <=> \/ s.completing.pause
                             \/ \E k \in 1..n : ShouldPauseInjectBarrier(s.queue[k].cmd)

\* barrier_collected panics on a barrier it does not know or a worker that has
\* answered already, and a barrier that waits for a lost worker would never
\* complete: a worker has yet to collect exactly the barriers that wait for it.
AwaitedBarriersAreOutstanding ==
  phase = "running" => \A w \in Worker, d \in Database :
    LET outstanding == stream[w][d]
        waiting == {k \in 1..Len(db[d].queue) : w \in db[d].queue[k].wait}
    IN /\ \A i, j \in DOMAIN outstanding : i < j => outstanding[i] < outstanding[j]
       /\ Range(outstanding) = {db[d].queue[k].prev : k \in waiting}

\* A checkpoint is committed only when every worker has collected its barrier
\* and all barriers before it.
CommittedIsCollected ==
  \A w \in Worker, d \in Database : \A i \in 1..Len(stream[w][d]) :
    stream[w][d][i] > committed[d]

\* BarrierScheduler::flush and every command that needs a checkpoint: when the
\* client is told that the command is done, the epoch that was open when it was
\* scheduled is committed.  (Resume needs no checkpoint, and a drop buffered
\* during recovery is done without a barrier.)
CollectedIsDurable ==
  \A c \in Command :
    /\ result[c] = "collected"
    /\ cmd[c].kind \notin {"Resume", "ConfigResume", "Drop"}
    => committed[cmd[c].db] >= asked[c]

\* "Stash of finished jobs. They will be finally finished on checkpoint.": a job
\* becomes visible as created only after the epoch in which its backfill reported
\* to be done, and the one in which it was created, are committed.
JobFinishedIsDurable ==
  [][\A j \in created' \ created :
       /\ j \in Backfill => doneAt[j] # 0
       /\ doneAt[j] <= committed[JobDatabase[j]]
       /\ \E c \in Command : /\ cmd[c].kind = "Create" /\ cmd[c].job = j
                             /\ asked[c] <= committed[JobDatabase[j]]]_created

\* pre_apply_drop_cancel_scheduled panics on anything but a drop: while the cluster
\* recovers, the queue holds nothing else, whatever clients have scheduled before,
\* during and since the failure.
QueuedCommandsAreExpected ==
  phase \in {"recovering", "initializing"} =>
    \A d \in Database : \A i \in 1..Len(sched[d]) : KindOf(sched[d][i]) = "Drop"

\* Every client that waits for a command gets an answer (run_multiple_commands
\* never hangs), through failures and recoveries, and so does one that has yet to
\* schedule the drop of a job it has removed from the catalog.
EveryCommandResolved ==
  \A c \in Command :
    result[c] \in {"removed", "scheduled", "started"} ~> result[c] \in Resolved

\* A recovery ends: clear_on_err and recovery_inner do not wait for each other.
RecoveryEnds == (phase # "running") ~> (phase = "running")
=============================================================================
