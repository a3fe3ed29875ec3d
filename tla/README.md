# Verification of the checkpoint protocol, the exchange and the state store

The Rust system of this repository is a copy of RisingWave, a distributed
streaming database, under `src/06-spark-risingwave-example-ingestion-framework`.
Paths below are relative to its `src/` directory. (The other top-level
directories hold tutorials, sample data and a vendored copy of Delta Lake.)

A meta node drives compute nodes. Streaming jobs are graphs of actors on the
compute nodes. The meta node regularly *injects a barrier*, which flows through
all actors; when every compute node has *collected* it, the epoch it closes is
complete, and a barrier that is a checkpoint makes it durable in the storage
engine (Hummock). Everything else, such as creating and dropping jobs, pausing,
and recovering from failures, happens at barriers. This project models that
protocol, from the queue of the client to the semaphores of the channels the
barriers travel in, the actors that align and dispatch them, and the storage of a
compute node that turns the data of an epoch into files.

## Inventory

| component | state | operations | interacts with |
|---|---|---|---|
| **Barrier scheduling** `meta/src/barrier/schedule.rs` | queue of commands per database, blocked or ready; count of barriers since the last checkpoint | push, cancel, next_barrier, abort_and_mark_blocked, mark_ready, pre_apply_drop_cancel | DDL clients (oneshot notifiers), worker loop |
| **Checkpoint control** `meta/src/barrier/checkpoint/{control,state}.rs` | per database: epoch in flight, epochs pending, jobs, pause, queue of barriers, completing barrier | can_inject_barrier, handle_new_barrier, barrier_collected, next_complete_barrier_task, ack_completed | control streams, completing task |
| **Completing task** `meta/src/barrier/complete_task.rs` | one task at a time | commit_epoch, post_collect, notify, finish_creating_job | Hummock manager, catalog, clients |
| **Global barrier worker** `meta/src/barrier/worker.rs` | the event loop | select over events, clear_on_err, recovery with retry | all of the above |
| **Recovery of one database** `meta/src/barrier/checkpoint/recovery.rs` | Running / Resetting / Initializing, remaining workers, reset ids, backoff | enter_reset, on_reset_database_resp, enter_initializing, enter_running, remove | control streams, scheduling |
| **Progress of creating jobs** `meta/src/barrier/progress.rs` | jobs tracked, jobs stashed | add, update, apply_collected_command, take_finished_jobs, cancel | checkpoint control |
| **Control streams** `meta/src/barrier/rpc.rs` | connected workers | inject_barrier, reset_database, add_worker, next_event | compute nodes |
| **Local barrier worker** `stream/src/task/barrier_manager.rs`, `…/managed_state.rs` | per database: running, suspended, resetting; barriers issued | send_barrier, on_epoch_completed, on_database_failure, reset_database | meta node, actors |
| **Exchange** `stream/src/executor/exchange/*`, `compute/src/rpc/service/exchange_service.rs` | two semaphores, a channel, permits batched by the receiver | send, recv, recv_raw, add_permits, close on drop | actors, gRPC |
| Snapshot-backfill jobs `meta/src/barrier/checkpoint/creating_job/*` | a second barrier stream per job | inject, collect, complete, finish | checkpoint control |
| **Barrier alignment** `stream/src/executor/merge.rs`, `barrier_align.rs`, `watermark/mod.rs` | blocked upstreams, buffered watermarks | poll, align, add and remove upstreams, clear watermarks | exchange, dispatch |
| **Dispatch and rescheduling** `stream/src/executor/dispatch.rs`, `meta/src/stream/scale.rs`, `meta/src/barrier/command.rs` | outputs and hash mapping of a dispatcher; actors and vnodes of fragments | dispatch of rows, watermarks and barriers, pre_ and post_mutate_dispatchers, RescheduleFragment | exchange, alignment |
| DML channel `dml/src/*` | semaphore, channel, transactions | begin, write, end, rollback | batch and stream executors |
| **Hummock uploader and event handler** `storage/src/hummock/event_handler/*`, `storage/src/hummock/store/{version,local_hummock_storage}.rs` | per instance: current, sealed and flushing data; per table: epochs unsynced, syncing, synced; upload tasks; pinned version and read versions | init, flush, seal, spill, sync, upload, clear, version update | local barrier worker, actors, Hummock manager |
| Hummock manager `meta/src/hummock/*` | versions, pins, compaction tasks | commit_epoch, compaction, time travel, GC | completing task |
| Sink coordination `meta/src/manager/sink_coordination/*` | coordinators and writers of a sink | start, commit request, epoch commit, stop | sink executors |

What is hard in this code: several barriers of several databases are in flight at
once and are collected in any order, but have to be completed in order; one
background task commits while the loop goes on; failures of nodes, of the task and
of recoveries hit between any two steps; resets are retried while the answers to
earlier ones are under way; a client waits on a channel that is handed along four
data structures; permits are counted in four places; one uploader serves databases
that write, sync, fail and are cleared independently, and what an actor has written
is found in turn in five places; a reschedule changes both ends of a channel by one
barrier that the ends meet at different times. `PROJECT.json` lists these
hazards at their lines, with the property that covers each.

## Modules

| module | models |
|---|---|
| `CheckpointControl` | scheduling, checkpoint control, completing task, progress tracking, worker loop and recovery of the cluster |
| `CheckpointControlProofs` | theorems about it: order of epochs, collection and commit, commands, pauses |
| `CheckpointEpochProofs` | theorems about it: the epochs of each checkpoint, the barriers awaited, the assertions of the code, when a job becomes visible as created |
| `SnapshotBackfillWhenPaused` | extends it with a command that `handle_new_barrier` refuses |
| `DatabaseRecovery` | recovery of one database, composed with the control streams and the local barrier workers |
| `DatabaseRecoveryProofs` | theorems about `DatabaseRecovery` |
| `Exchange` | one edge between two actors, local or remote |
| `ExchangeProofs` | theorems about `Exchange` |
| `HummockUploader` | the uploader: instances, tables, spilling, syncing, upload tasks, clearing |
| `StateStoreNode` | extends it with the read versions, the pinned and the committed version, the actors, the local barrier worker and resets |
| `StateStoreProofs` | theorem about `HummockUploader` and `StateStoreNode`: the tasks of the uploader |
| `StateStoreDataProofs` | theorem about `StateStoreNode`: it implements `DurableState` |
| `StateStoreOrderProofs` | theorem about `StateStoreNode`: the order of the stages of a table |
| `DurableState` | abstract: a log of writes with a durable part; `StateStoreNode` implements it |
| `Reschedule` | dispatchers, channels and merges of two fragments, and the barriers that reschedule them |
| `RescheduleProofs` | theorems about `Reschedule`: barriers, channels, rows, the watermarks of a merge |
| `MC…` | the sets and functions that the `.cfg` files give to the constants |

Operators named as mutants in a comment are plausible mistakes in the definition
that follows them. They are used by no specification; replacing the definition by
its mutant shows that a property would notice.

### CheckpointControl

`db[d]` is the `DatabaseCheckpointControl` of a database: `prev` and `pending` are
`in_flight_prev_epoch` and `pending_non_checkpoint_barriers` of
`BarrierWorkerState`, `queue` is `command_ctx_queue`, each node with its prev and
curr epoch, its command, the list of epochs if it is a checkpoint, and the workers
it waits for; `tracking` and `stash` are the progress tracker. `running` is the
map of databases, `task` the completing task, with a stage for each of its awaits.
`stream[w][d]` are the barriers a worker has been given and has not collected.
`phase` is the position of the worker loop: running, in `clear_on_err`, or in
recovery before or after the initial barriers are injected.

One action is one iteration of the loop, as in `GlobalBarrierWorker::run_inner`.
The loop evaluates `next_completed_barrier` first in each iteration, so other
events are taken (`Polling`) only when there is nothing left to start completing.
`NewCommandBarrier` is the whole way from `next_barrier` to `enqueue_command` for
all databases, including the failure of `inject_barrier`. `BarrierCollected`,
`WorkerError`, `AddWorker` are the events of the control streams.
`StartCompleting` is `next_complete_barrier_task`; `CommitEpoch`,
`PostCollectCommand`, `FinishCreatingJob` are the awaits of the spawned task, each
of which may fail (`CompleteBarrierFails`). `ClearOnErr`, `ReloadRuntimeInfo`,
`RecoveryRetry`, `MarkReady` are the recovery. `Schedule`, `CancelScheduledCreate`,
`DropObject` and `DropStreamingJobs` are the clients. A drop is two steps, as in
`drop_object`: the job leaves the catalog, and only after an await is the command
scheduled; any step of the loop may come in between, a whole recovery included. A
configuration change may have read the catalog before a drop (`HadJobs`). A command may
therefore reach `handle_new_barrier` after its job is gone (`Unexpected`); the code panics,
which aborts the process, and the meta node boots again into a recovery (`MetaPanics`).

Abstractions: an epoch is a counter; a job runs on the fixed set of workers
`Placement`, the other workers get barriers too but host no actors; a job of
`Backfill` has one actor that reports progress; jobs are created in the
foreground. `asked`, `injected` and `doneAt` are history variables for the
properties; no guard reads them.

### DatabaseRecovery

`status` and `stage` are `DatabaseCheckpointControlStatus` and
`DatabaseRecoveringStage`; the status `entering` is the await of
`wait_completing_task` in the middle of handling a reported failure. `req[w]` and
`resp[w]` are the two directions of a control stream, ordered and reliable until
the stream is lost. `node[w]` is the `DatabaseStatus` on a compute node. A loss of
a worker that the database depends on, and a failure of the completing task, lead
to the recovery of the cluster, which is one step here (`GlobalRecovery`) since
`CheckpointControl` has it in detail. A panic is modelled by what follows it: the
control stream of a compute node is lost, and a new meta node recovers the cluster.

### Exchange

`sem` are the two semaphores, `chan` the unbounded channel, `wire` and `back` the
two directions of the gRPC stream, `accumulated` the permits that `RemoteInput`
batches. A message is its kind and the permits it carries, computed from the
cardinality of a chunk as in `Sender::send`. Either actor may stop at any step and
the connection may break at any step. `acquired`, `forwarded`, `received`,
`returned` and the stamps `upto` on messages are history, for the proofs.

### HummockUploader and StateStoreNode

The uploader is a state machine driven by one task, `HummockEventHandler`, that
takes events from an unbounded queue; every event is one action. `instData[i]` is
`LocalInstanceUnsyncData` (current epoch, sealed epochs, flushing imms, destroyed),
`tableData[t]` is `TableUnsyncData` (unsynced epochs, spill tasks, the epoch it
stopped at, syncing epochs, the last synced epoch), `unsyncEpochs`, `spilledData`,
`tasks` and `syncing` are the fields of `UnsyncData`, `TaskManager` and
`UploaderData`, `working` is `UploaderState`. `answers` is what has been sent to the
local barrier worker. `MayFlush` is the spiller, `StartSyncEpoch` is
`UploaderData::sync` followed by `may_notify_sync_task`, `NextUploadedSst` and
`SyncTaskFailed` are the two ways an upload ends, `ClearTables` and `ClearAll` are
the resets. The sizes are left out: data may be spilled whenever there is some. An
imm is its batch id and epoch; an SST is the imms it holds, by instance.

`StateStoreNode` puts the uploader where it works. A group is a database, whose
tables start epochs and sync together. `barriers[g]` is `epoch_barrier_state_map`,
each barrier with the actors that have yet to collect it; `Inject…` are the commands
that matter to storage: initial barrier, periodic barriers with or without a
checkpoint, the Pause, Update and Resume of a configuration change, and the drop of a
job. `Build`, `InitStore`, `Flush`, `Seal`, `DropStream` are the life of an actor
with its one local instance: the read version is registered when the actor is built,
the first barrier is passed on before the state table is initialised, which waits for
the previous epoch to be committed, and the stop barrier is collected only after the
stream is dropped. `CompleteBarrier` starts the sync. `TakeSynced` is the way of an
answer to meta and `commit_epoch`, in one step: a commit that lands after the database was
suspended on the node is in `DatabaseRecovery` (`RebuiltFromCommitted`). `ApplyVersionUpdate` and `NotifyVersion` are the
two halves of `apply_version_update`, between which the event handler takes no event;
what an actor does in between commutes with the second half, and is modelled after it. `ActorFails`, `UploadFails`, `TakeSyncError`, `AbortAll`,
`ResetDatabase` and `ResetNode` are failures and what follows. What an actor writes
after `on_database_failure` has aborted it is left out, since it is cleared before
anybody can read it. An actor that
stops hands its stream to a blocking task and awaits it; aborting the actor cancels the
await and not the task (`AbortActor`). `AwaitActors` is the case in which all such tasks end
before the clear. In `NodePanics` one does not: `clear_tables` or `handle_clear` meets an
instance that is not destroyed and panics, the process aborts, and the node starts again
with nothing, as after a reset.
The history variable `written` is the log of the abstract
specification; no guard reads it.

`DurableState` is what the streaming jobs rely on. A checkpoint makes exactly the
writes of one database up to one epoch durable, at once; no write is added to a
durable epoch; a rollback drops exactly the writes of one database that are not
durable. The refinement maps `log` to `written`, `committed` to the epochs of meta's
version and `durable` to its data. `Seal`, spills, uploads, version updates and
resets are stuttering steps; `TakeSynced` is `Checkpoint`; `InjectInitial` is
`Rollback`.

### Reschedule

`plan[n]` is the configuration (actors of the two fragments and the mapping of vnodes
to downstream actors) of the epoch that barrier `n` begins. The fragments are on
different workers, which get the barriers with their mutations at their own pace
(`IssueUp`, `IssueDown`), as the barriers in channels carry none. From two consecutive
configurations follow the fields of the mutation as `to_mutation` computes them:
`DispatcherUpdates`, `MergeUpdates`, `Dropped`. `DispatchBarrier` is `dispatch` of a
barrier: outputs are added, the barrier is broadcast, outputs are removed and the
mapping is set. `ReceiveRow`, `ReceiveWatermark` and `ReceiveBarrier` are
`poll_next` of `SelectReceivers`; `AlignBarrier` is what `execute_inner` does when all
upstreams are blocked, up to its await for the first barrier of the added upstreams,
and `ReceiveFirstBarrier` goes on from there. Channels are unbounded and reliable, as
`Exchange` shows for edges that are not closed. A row carries, as history, the epoch in
which it was sent. `emitted` and `newest` are history too, reset at every reschedule of
either fragment, while the buffers are cleared where `execute_inner` clears them; a clear
that is missing leaves in a buffer what `newest` no longer knows.

## Runs

| run | instance | shows |
|---|---|---|
| `checkpoint_ddl` | one database, two workers of which one hosts actors, a job with backfill, batches of create, drop, flush and resume, 2 commands, 2 ticks, 1 failure | the safety properties of `CheckpointControl` |
| `checkpoint_databases` | two databases on one worker, configuration changes that pause and resume, 4 commands, 2 ticks, 1 failure | properties that relate databases |
| `checkpoint_live` | one database, all kinds of commands, one barrier in flight | every client gets an answer, every recovery ends |
| `exchange` | 4 permits, batches of 2, 1 barrier, chunks of 0, a few and too many rows, 4 messages | safety and liveness of an edge |
| `database_recovery` | two workers, 3 failures of actors, 1 lost worker or task, 2 commands, 2 retries | safety and liveness of the recovery of a database |
| `state_store` | two databases on a node: one with two tables, an actor that is replaced and a job that is dropped, 3 epochs (one more to resume), the other with one table and one epoch; 2 imms, 2 barriers in flight, 1 failure | the uploader and the read versions keep their promises, and the node implements `DurableState` |
| `reschedule` | two actors in each fragment and a third id for each, two vnodes, four targets, of which one leaves the upstream fragment alone, 3 epochs, 1 row or 2 watermarks | alignment, channels, routing and watermarks survive a reschedule |

The properties:

* `EpochsCovered`: each epoch closed by a barrier and not yet committed is in the
  list of exactly one checkpoint, in order, and is above the committed epoch.
* `PauseBarrierIsLast`: after a configuration-change pause, no database gets a
  barrier of a later epoch than the pause itself, neither while the pause is in the queue
  nor while its checkpoint is completing.
* `AssertionsHold`: the assertions of `enqueue_command` (a barrier continues the one
  before it), of `next_complete_barrier_task` and `ack_completed` (the barrier that
  completes is the one of the task) and of `can_inject_barrier` (the last command alone
  decides whether injection pauses).
* `AwaitedBarriersAreOutstanding`: a barrier waits for exactly the workers that
  still have to collect it, so neither panics `barrier_collected` nor waits a
  barrier for a worker that is lost.
* `CommittedIsCollected`: nothing is committed that a worker has yet to collect.
* `CollectedIsDurable`, `JobFinishedIsDurable`: what a client is told, and what the
  catalog shows as created, survives a recovery.
* `QueuedCommandsAreExpected`: while the cluster recovers, the queues hold only drops, so
  that the panic of `pre_apply_drop_cancel` is unreachable.
* `EveryCommandResolved`, `RecoveryEnds`: nobody waits forever.
* `PermitsConserved`, `NoPermitDeadlock`, `SendReturns`, `MessagesArrive`,
  `UpstreamExitReachesLocalInput`: permits are neither lost nor made up, batching
  never blocks the sender, `send` returns, messages arrive, and the end of a local
  channel is noticed.
* `ResponsesExpected`, `RequestsExpected`: no message that is late, repeated or
  belongs to an earlier attempt makes either side of a control stream panic.
* `RebuiltFromCommitted`: no commit of the old incarnation of a database lands
  after its recovery has read the committed epoch.
* `ImplementsDurableState`: the refinement above. An epoch that meta commits holds all
  that was written up to it and nothing newer, whichever way each write took.
* `FlushedInOrder`, `UploadedNewestFirst`: uploads are acknowledged, and listed in the
  answer of a sync, in the order of the data they hold.
* `StagesOrdered`: the documented order of synced, syncing and unsynced epochs, down
  to the data of each instance; in particular no sync overtakes an instance.
* `TaskConsistency`: what `check_upload_task_consistency` asserts in debug builds,
  through clears of single databases.
* `ReadYourWrites`: an instance reads each write of its table exactly once, in the
  right order, at every moment of its way into the committed version. (The comment at
  `storage/src/hummock/store/version.rs:151`, that a smaller batch id may be added later,
  is out of date; the `debug_assert` at line 307 says what the property says.)
* `StagingEmptyAtUpdate`: the assertion of `update_vnode_bitmap`.
* `NoneStuck`, `NoBarrierStuck`: no cyclic wait (see Fairness).
* `BarriersAligned`, `ChannelsOpen`: a merge meets no foreign barrier, and nobody uses
  a channel whose other end is gone.
* `RowsReachOwner`: a row reaches the owner of its vnode in the epoch it was sent in.
* `WatermarkIsMinimum`: the watermark emitted is the least of the newest ones of the
  present upstreams, both since the last reschedule of either fragment.

### Bounds

Every bound is a constant named `Max…` that a guard compares a counter with.
`CheckpointFrequency = 2` is the smallest that has barriers with and without a
checkpoint; two barriers in flight with two ticks and two commands give queues in
which a non-checkpoint barrier is collected before, between and after checkpoints.
One failure is enough to have a recovery at every step, and the failure of a
recovery is one of the choices. Four commands over two databases are two batches
of pause and resume. In `Exchange`, 4 permits with a batch of 2 allow a batch that
is part full while the largest chunk waits, and 4 messages wrap round the
semaphore. In `DatabaseRecovery` three failures are one while running, one while
resetting and one while initializing; `MaxEpoch = 4` leaves room for barriers in
flight before and after the recovery.

In `StateStoreNode` two imms give two writes of one instance in different epochs or
tasks, of two instances in one task, of an instance and its successor, or of two
databases; with two barriers in flight one actor may be two barriers ahead of another,
so that a sync meets instances in different epochs; three epochs are one that is being
synced, one sealed and one written, and the fourth lets a configuration change end.
One failure is enough to have a reset at every step; the database that restarts needs
no second one. The second database has one epoch, since it only has to be there with
data, tasks and syncs of its own when the first is cleared. In `Reschedule` the
property about rows is one about each row, so one row suffices, sent by any actor, for
any vnode, in any epoch. Watermarks never interact with rows; behaviours have one or
the other. Three epochs have a barrier before or after the Update. The targets replace
all actors, replace some, shrink either fragment, move a vnode between actors that
stay, or change the downstream fragment alone, whose merges then keep their upstreams and
only clear their buffers.

Deadlock is not checked, since a bounded
system stops when its bounds are used up; the liveness properties, `NoneStuck` and
`NoBarrierStuck` take its place.

### Fairness

`CheckpointControl` and `DatabaseRecovery` assume weak fairness of the steps of
the worker loop and of the spawned task, which the tokio runtime polls, and of the
compute nodes, which handle the requests they have received as long as they are
alive. In `CheckpointControl` a request that has removed its job from the catalog goes on to
schedule the command (`DropStreamingJobs`), since its task is polled too, and a loop that
meets an unexpected command panics. `Exchange` assumes it of both actors and of the exchange service, and that
a downstream actor goes on reading. Ticks, clients, failures and the stopping of
an actor are not fair: nothing obliges them to happen. In `checkpoint_live` the
limit of one barrier in flight keeps the graph small; the failure paths do not
depend on the limit.

`StateStoreNode` and `Reschedule` state no fairness: their graphs are too large for
TLC's liveness checking. Instead `NoneStuck` and `NoBarrierStuck` say, as invariants,
that whenever meta waits for something, a step that runs by itself is enabled. Each
such step uses up a barrier, a message, a task, an answer, an actor or a version, of
which there are finitely many until meta or a client acts again; so under weak fairness
of these steps, which are polled by the runtime, the waiting ends. This last argument
is not checked by a tool.

### Disagreements between the code and what it says

Each is a run in which TLC finds the quoted statement violated.

* `snapshot_backfill_paused` (`meta/src/barrier/checkpoint/control.rs:985`): a job
  with snapshot backfill is refused in a paused database after `next_barrier_info`
  has already moved the database to the next epoch. The next barrier does not
  continue the last one, which `enqueue_command` asserts.
* `exchange_upstream_exit` (`compute/src/rpc/service/exchange_service.rs:158`): the
  exchange service selects over the messages and the permits and ends when both
  end, so a remote downstream actor does not learn that its upstream has exited.
* `recovery_drop` (`meta/src/barrier/checkpoint/control.rs:164`): a drop buffered in
  the blocked queue of a recovering database is handed out at once, and
  `handle_new_barrier` expects the database to be running.
* `recovery_blocked` (`meta/src/barrier/worker.rs:337`): when a recovery ends with
  the removal of a database without jobs, its queue stays blocked.
* `recovery_rejoin` (`meta/src/barrier/checkpoint/control.rs:301`): a worker that has
  collected the initial barrier and restarts before the database runs gets
  barriers for actors it never built.

Two more panics are reachable. They are actions of the models, with what follows them, so
the properties of the passing runs hold in spite of them:

* `MetaPanics`: the cluster recovers between the removal of a job from the catalog and the
  scheduling of its drop (`meta/src/rpc/ddl_controller.rs:1287`). The command is accepted
  afterwards, and `handle_new_barrier` panics on a database that is not there
  (`control.rs:203`), or `post_apply` on a fragment that is not (`info.rs:261`). The
  comment of `drop_streaming_jobs`, which leaves the cleaning to the recovery, does not see
  this order.
* `NodePanics`: an actor is aborted while a blocking task drops its stream
  (`stream/src/executor/actor.rs:304`), is joined at once, and the data of its database is
  cleared while the task still holds the instance.

## Proofs

All theorems are of the form `Spec => []P` (two are `Spec => [][A]_v`) and are checked
with TLAPS for every value of the constants that the named assumptions allow. Each rests
on an inductive invariant, which TLC has checked on the instances above before it was
proved (all but `Counted` of `RescheduleProofs`, which says that some set exists). A proof
module states the parts of its invariant first, then lemmas about the data structures, then
one lemma for each action, and the theorems last.

### CheckpointControl

Assumptions: `ConstantsOK` (jobs have a database, some worker hosts actors, the limits
are at least one) and `BatchOK` (a reschedule or a resume after a configuration change
comes only in a batch with its pause, as in `run_config_change_command_with_pause`). Any
number of databases, workers, jobs, commands, ticks and failures is allowed.

| theorem | states |
|---|---|
| `TypeCorrect` | `TypeOK` |
| `CommittedWasCollected` | `CommittedIsCollected` |
| `CollectedCommandsAreDurable` | `CollectedIsDurable` |
| `NothingAfterPause` | `PauseBarrierIsLast` |
| `QueuedAsExpected` | `QueuedCommandsAreExpected` |
| `CommittedEpochsGrow` | the committed epoch of a database never goes back |
| `EpochsAreCovered` | `EpochsCovered` |
| `AwaitedAreOutstanding` | `AwaitedBarriersAreOutstanding` |
| `AssertionsNeverFail` | `AssertionsHold` |
| `JobsFinishDurably` | `JobFinishedIsDurable` |

The first six follow from `IInv` of `CheckpointControlProofs`, whose parts need each
other: `Queues` orders the barriers of a queue below the open epoch and the clock,
`Commits` puts the committed epoch and the one being committed below all of them, and
`Streams` says that what a worker has yet to collect is in the queue and waits for it.
Together they give `CommittedIsCollected`: the first barriers of the queue are popped only
when nobody is awaited, so everything outstanding is above. `Recovery` says what is idle
during a recovery, without which a late commit could overtake a reloaded epoch.
`Commands` follows each command from the queue to the notifier, with the epoch that was
open when it was scheduled, and `Pauses` is `PauseBarrierIsLast` for all databases, also
those that are not running.

The next three follow from `EInv` of `CheckpointEpochProofs`, inductive relative to
`IInv`: `Awaited` is the converse of `Streams`, `Asserted` links the barriers of a queue
and the completing barrier with the task, and `Covers` says where the epochs closed since
the last commit are. `EpochsCovered` is not inductive: a node that is no checkpoint is
popped before a checkpoint behind it is collected, and its epoch has to be in the list of
that checkpoint or of a later one. `Segments` therefore bounds the list of every barrier
from below by all checkpoints before it and from above by its own epoch, `CommitOK` does
the same for the list being committed, and the lemmas `InjectCovered`, `CompleteCovered`
and `CommitCovered` say what an injection, a completion and a commit do to them.

`JobFinishedIsDurable` follows from `JInv` of the same module, again relative to
`IInv`. A job goes from its command to the tracker, to the stash, to the task and to the
catalog, over barriers that are popped at different times, and the action that makes it
visible sees none of the earlier ones. `JInv` says of every place how far back its
knowledge reaches: of a job that is tracked or stashed the epoch of its command, and of
one that is stashed also that of its report, is at or below every epoch that the database
has yet to commit (`Bounds`); of a job of the task, at or below the epoch that the task
commits, and afterwards the committed one. `Reports` ties the reports on their way to the
epoch of their barrier. `ApplyKeeps` shows that one node keeps this while the bounds
shrink by its own epoch, and `TrackersKeep` extends it to all popped nodes.

`next_complete_barrier_task` applies the popped nodes to the progress tracker one by one,
a recursive function in the model. The installed provers cannot instantiate the library's
induction theorems, so `LeastNat` derives from `WFMin` that a set of numbers has a least
element, and `SetInduction` derives from it the induction for a set of numbers; with it
`TrackersExist`, `TrackersTyped` and `TrackersKeep` are proved.

### DatabaseRecovery

Assumption: `ConstantsOK` (there is a worker; the limit of barriers is at least one).

* `TypeCorrect`, `ResponsesAreExpected`, `RequestsAreExpected`,
  `RebuiltFromCommittedEpoch`: `TypeOK`, `ResponsesExpected`, `RequestsExpected` and
  `RebuiltFromCommitted`.

The invariant takes what is under way between the meta node and a worker as a pipeline:
the responses, then the barriers issued on the node, then the requests. `Resets` says that
a reset is the last thing in the pipeline and is the current one, `Requests` that a graph is created only
in front and on a node without the database, `InOrder` that the barriers are in order and
each is awaited, and `Silence` that the pipeline of a worker that has answered, or that is
not connected, is empty. This is why a late answer to an earlier reset does no harm: it
cannot be followed by anything of the new incarnation.

### Reschedule

Assumption: `RescheduleAssumption` (the two fragments have different actor ids, as they
have in the catalog; the first and all later configurations are well formed).

* `MergeAligned`, `NoClosedChannel`, `OwnersGetRows`: `BarriersAligned`, `ChannelsOpen`
  and `RowsReachOwner`, for any fragments, mappings and sequences of plans.

The two ends of a channel pass a barrier at different times, so the invariant relates each
end to the plan instead of to the other end. `UpState` and `DownState` give an actor the
configuration of the epoch it is in. `Content` says which messages a channel holds when
one end has dispatched up to barrier `sent` and the other has received up to `read`: all
barriers in between that the merge expects, in order, and rows only between the barriers
of their epoch. It depends on an actor living in consecutive epochs (`Plans`), which the
fresh actor ids of a reschedule give.

* `MergeEmitsMinimum`: `WatermarkIsMinimum`, for any sequence of
  reschedules and any number of watermarks.

Its invariant `WInv` is inductive relative to `IInv`. `InOrder` says that the watermarks of
a channel rise above the one that its merge received last. `Untouched` says that an actor
which has yet to pass the barrier that adds it has no buffers. `Settled` says that a buffer
holds the watermarks of its upstream above the emitted one, in order and the newest last,
and that some buffer is empty: the upstream of an empty buffer is the one whose newest
watermark was emitted, and no other has an older one. At a reschedule of either fragment the
buffers are cleared (`ClearsAtReschedule`: the merge is updated, or a dispatcher of one of its
upstreams is, and `execute_inner` clears in both cases), and stay `Fresh` while the merge waits for added upstreams. The
loop of `check_watermark_heap` is a recursive function, of which `CheckHeap` says what it
computes: its rounds keep every buffer in order above what is emitted, and it ends with an
empty buffer. That it ends within its rounds needs a measure: each round takes an entry of
a finite set of watermarks, and `Counted` says that no merge holds more of them than were
sent.

### Exchange

Assumption: `PermitsAssumption` (the batch is smaller than the initial permits, without
which `channel` panics, and there is at least one barrier permit).

* `TypeCorrect`: a semaphore never holds less than zero nor more permits than it was
  created with (`TypeOK`);
* `BatchingDeadlockFree`: `NoPermitDeadlock`;
* `NoPermitLost`: `PermitsConserved`.

None is inductive: that giving back permits does
not overfill a semaphore depends on the permits of all messages in three queues.
Their sum would need an induction over sequences in the proof of every action.
Instead every message carries, as history, the total of the permits up to
it, and `Chains` says that the stamps in `chan` lead from `forwarded` to
`acquired`, those in `wire` from `received` to `forwarded`, and those in `back`
from `returned` to what the input has given back. `Balance` says that the permits
missing in the semaphores are `acquired - returned`. The lemmas `ChainAppend` and
`ChainTail` give the effect of a send and of a receive on a chain; there is one
lemma for each action that moves permits and one for the others. When all three
queues are empty, the chains collapse: only `accumulated` permits are missing,
which `BatchNotFull` bounds below the batch, so that the largest chunk, clamped to
the initial permits less the batch, can be sent. `ChainTotal` is the one induction over
a queue: the permits in a chain are the difference of its ends, which turns `Balance` into
`PermitsConserved`. It uses the principle of the least number, which `LeastNumber` derives
from the well-foundedness of the naturals (as `LeastNat` does above).

### HummockUploader and StateStoreNode

Assumptions: `TableOfAssumption` (every instance has a table) and `GroupAssumption` (finitely
many databases with disjoint tables, each with a table that is never dropped; a successor is
an instance of the same table). Any number of tables, instances, epochs, imms, barriers in
flight and failures is allowed.

* `NodeTaskConsistency`: `TaskConsistency`.
* `NodeImplementsDurableState` (`StateStoreDataProofs`): the refinement of `DurableState`.
* `NodeStagesOrdered` (`StateStoreOrderProofs`): `StagesOrdered`.

The assertion of the code compares what each table and each sync know of the tasks with what
the task manager holds, and it is not inductive. A spill task holds data of several tables; a
sync takes over the tasks of its own tables, and `clear_tables` aborts those of the cleared
ones. A task that is taken from one of its tables has to be taken from all of them, and this
is not decided in the uploader: it depends on which epochs and which tables the barriers
of the local worker sync together, after tables were dropped and other databases failed.

The inductive invariant is `NodeOK`. `UploaderOK` is its part about the uploader: ids are
unique and ordered (`UniqueIds`); every spill task belongs to one unsynced epoch and is known
under it to all its tables, which are among those that share the epoch (`SpillsKnown`); what
a table knows exists (`SpillsExist`); the tasks of a sync are those it waits for
(`SyncsKnown`); the epochs are unsynced in all their tables (`EpochsKnown`). The other parts are
about the barriers: `Chain` orders those in flight of a database, `Epochs` says that an
unsynced epoch has exactly the tables that the first checkpoint after it will sync, or those
of the database now if there is none, and `Queue` that the epoch of each checkpoint in flight
is still unsynced. From these `ReachesOnly` follows for the checkpoint that completes: the
epochs up to it that share a table with it have the same tables. For `clear_tables`, the
databases separate the epochs. `Idle` is needed since an uploader that has failed ignores all
events until the node is reset, while barriers go on.

The parts have the variables as parameters, so that an action that leaves those alone keeps
the part, and so that the events that the uploader handles in two halves (a sync and
`may_notify_sync_task`) are proved as two steps over the state in between. `Keep` is a
recursive function: `KeepIs` proves with `LeastNumber` that it keeps the elements at the given
places, each once and in their order. `NewestFirst` is a choice, and `NewestFirstIs` shows
that there is something to choose.

The refinement needs to know where the data of every write is. It is in the current or a sealed
epoch of an instance, in a spill task or an uploaded spill (`Pending`), or in a *stage* of its
database: the sync of an epoch, with what it has uploaded and the tasks it still waits for, or
the answer to it (`HasStage`, `InStage`). `DataOK` is the inductive invariant. Its main parts:

* `AllData`: as long as the uploader works, what a running database wrote after its committed
  epoch is pending or in a stage, so nothing is lost on the way; `StageFull`: all
  that was written up to the epoch of a stage is in that stage or an earlier one, and
  `StageData` that nothing newer is. When the first stage is answered and committed, the two
  give exactly the set of `Checkpoint`. `StageFull` does not need the uploader to work: after a
  failed upload the answers that were already sent still commit what they promise.
* `Floors`: the committed epoch and the epochs of the stages are below all that can still be
  written or synced (`Over`: the barriers in flight, the epochs of the live actors). This is
  why a write never comes too late for its checkpoint. `AnswersOK` orders the stages.
* `PendingOK`: pending data is of an epoch that its table has not synced, and a spill
  is known to that table under the epoch of its data. This connects `DataOK` with
  `NodeOK`: a checkpoint reaches every pending write up to its epoch since, by `Epochs`, the
  tables of that epoch are its own (`CheckpointReaches`).
* `Actors`, `Forward`, `Unsynced`, `Instances`: an actor that has not reached a barrier is awaited by it, so
  that a barrier completes only when all actors write later epochs (`PopData`); the
  epoch an actor writes is unsynced; a running actor has its instance and writes
  its current epoch, and an instance that is stopped holds nothing in the current epoch.
* `Gone`: nothing is left of a database that was reset, so that its restart rolls back exactly
  what was not committed. `Fresh` and `Commands` say that an instance is not started twice,
  `Bounds` that the epochs stay in the range of the abstract specification, and `Durability`
  relates the committed imms to the committed epochs.

There is a lemma for each action (`FlushData`, `SpillingData`, `UploadedData`, `CompleteData`,
`ResetData`, ...). The hard one is `CompleteData` for a checkpoint: `SyncStages` and `SyncInsts`
follow the data through the sync, `SyncPending` splits what was pending into what the sync takes
and what stays, `CheckpointStages` shows the invariant with the new stage, and `NotifyingData` that
answering finished syncs changes no stage. In the refinement, `FlushWrites` maps a flush to
`Write`, `SyncedCheckpoints` a committed answer to `Checkpoint`, `InitialRollsBack` the restart
of a database to `Rollback`; all other actions are invisible.

`StagesOrdered` compares what each table has synced, is syncing and has not synced, and what its
instances still hold. Its inductive invariant `OrderOK` is relative to `NodeOK` and `DataOK`:

* `Syncs` ties the epochs that a table is syncing to the syncs of the uploader, in both
  directions, so that a sync that finishes is the oldest one of each of its tables.
* `Marks` says of each database that its committed epoch, its stages and the synced epochs of its
  tables are below its unsynced epochs and below what its instances write (`Low`).
  `SyncedReached`, `Versions` and `Homes` are needed when a database starts again or gets a
  new table: the table takes the epoch of the version that the node was last told of, which may
  be behind the committed one but never ahead of it.
* `Stops` says that an actor stops once and at a checkpoint that syncs its table. `InstOrder` and
  `StopOf` give a stopped instance the epoch of that checkpoint: the sync takes the instance with
  all its data (`CheckpointInsts`), so that no later sync overtakes what it holds.

The hard action is again the completion of a checkpoint (`CompleteOrder`): `CheckpointBelow` shows
that its epoch is below what the instances of its database write, `CheckpointLeaves` that
it is below the epochs that stay unsynced, `CheckpointSyncs` that tables and uploader agree on the
new sync, and `CheckpointEnds` that they still do once the finished syncs are answered.

### Only model-checked

All liveness properties, since fairness is out of the prover's reach; `NoneStuck` and
`NoBarrierStuck`, which use `ENABLED`. Of `HummockUploader` and `StateStoreNode` also
`FlushedInOrder`, `UploadedNewestFirst`, `ReadYourWrites` and
`StagingEmptyAtUpdate`, which speak of the concatenation of sequences of sequences: each
step would need an induction over them.

## Not modelled

Within the modelled components: migration of actors during recovery, recovery of
background jobs, run-time changes of the barrier interval and the checkpoint
frequency, the partial graphs of snapshot-backfill jobs, and the mutations of barriers
other than those of a reschedule, a pause and a drop. In `DatabaseRecovery` a job is
dropped from the catalog and its command scheduled in one step; `CheckpointControl` has the
two steps of the code. In `StateStoreNode`, table watermarks, the cache refill between a new version and its use,
replicated instances, and memory limits (spilling is possible at any time instead). In `Reschedule`, dispatchers other than the
hash dispatcher, and how the scale controller chooses a plan. The notes of the
components in `PROJECT.json` say more.

Whole components: snapshot-backfill jobs, DML channel, sink coordination, Hummock
manager (see the plan). The rest of the repository is by far its larger part: SQL parser,
planner and optimizer, expressions and functions, batch and stream executors,
connectors, object stores, tools, and the other top-level directories. It is data
transformation over unbounded domains, input and output, or code without state of its
own; a model of it would be a second implementation, and the properties that matter
there (a join returns the right rows) are better tested than model-checked. This is
why the modules cover a small share of the repository's lines: they cover the part
where processes interact.

## Plan

Done: `CheckpointControl`, `DatabaseRecovery` and `Reschedule`, `Exchange`, with their
proofs; `HummockUploader` with `StateStoreNode` and the abstract `DurableState`, with the
proofs that the tasks of the uploader are consistent, that the node implements
`DurableState` and that the stages of a table are in order.

1. `CreatingJob`: snapshot-backfill jobs beside the barriers of their database
   (`creating_job/*`), composed with `CheckpointControl`.
2. `DmlChannel` and `SinkCoordinator`.
3. The drop of a job in two steps in `DatabaseRecovery`, with the catalog as state.
4. An abstract specification of the checkpoint service (a committed epoch per database
   that only grows, answers only after the commit), with `CheckpointControl` shown
   to implement it; the theorems `CommittedEpochsGrow` and
   `CollectedCommandsAreDurable` are its two halves.
5. Versions, pins and garbage collection in the Hummock manager.

Theorems to prove next, relative to `NodeOK`, `DataOK` and `OrderOK`: the orders of
imms, `FlushedInOrder` first.
