--------------------------- MODULE StateStoreNode ---------------------------
(***************************************************************************)
(* The storage of one compute node at work: the uploader, the read         *)
(* versions of the local instances (HummockReadVersion), the versions that *)
(* meta commits and the node pins, and around them the local barrier       *)
(* worker, the actors that write, seal and drop the instances, and the     *)
(* resets of one database or of the node.                                  *)
(*                                                                         *)
(* A group is a database: its tables start their epochs and sync together. *)
(* An actor is identified with the one local instance it owns.  Epochs are *)
(* numbered per group.  A configuration change is the commands Pause,      *)
(* Update and Resume of run_config_change_command_with_pause; sources are  *)
(* paused in between, so nothing is written.                               *)
(***************************************************************************)
EXTENDS HummockUploader

CONSTANTS Group,        \* databases
          TablesOf,     \* the tables of each group
          Successor,    \* partial: the instance a configuration change replaces,
                        \* and the one that takes over its vnodes
          Droppable,    \* tables a DropStreamingJobs command may drop
          MaxEpoch,     \* bound: epochs of each group, and one more for a Resume;
                        \* commands come early enough that a barrier can follow
          MaxImm,       \* bound: imms written
          MaxInFlight,  \* bound: barriers in flight in a group
          MaxFaults     \* bound: failures of actors and of uploads

ASSUME GroupAssumption ==
  /\ IsFiniteSet(Group) /\ TablesOf \in [Group -> SUBSET Table]
  /\ \A g, h \in Group : g # h => TablesOf[g] \cap TablesOf[h] = {}
  /\ Droppable \subseteq Table /\ \A g \in Group : ~(TablesOf[g] \subseteq Droppable)
  /\ DOMAIN Successor \subseteq Instance
  /\ \A i \in DOMAIN Successor : Successor[i] \in Instance /\ TableOf[Successor[i]] = TableOf[i]
  /\ MaxEpoch \in [Group -> Nat] /\ MaxImm \in Nat /\ MaxInFlight \in Nat /\ MaxFaults \in Nat

VARIABLES
  mode,       \* of a group: "running", "suspended" (actors aborted) or "cleared"
  tables,     \* the tables of the group's running jobs
  barriers,   \* epoch_barrier_state_map of a group, in order
  lastEpoch,  \* the newest epoch of a group
  command,    \* the newest command of a group that is not plain, its prev epoch, and the
              \* epochs in which sources are paused
  actor,      \* state of the actor of each instance
  epoch,      \* the newest EpochPair of each actor; curr is LocalHummockStorage::epoch
  readVersion,\* staging version of the registered instances
  recent,     \* the version in the read versions (recent_versions)
  notified,   \* the version in version_update_notifier_tx
  version,    \* the version at meta: committed epoch of each group, committed imms
  written,    \* history: imms that were written and not rolled back
  nextImm,    \* the next batch id
  faults,     \* failures so far
  resetting   \* the control stream has been reset with an error

nodeVars == <<mode, tables, barriers, lastEpoch, command, actor, epoch, readVersion, recent,
              notified, version, written, nextImm, faults, resetting>>
vars == <<uploaderVars, nodeVars>>

GroupOf == [i \in Instance |-> CHOOSE g \in Group : TableOf[i] \in TablesOf[g]]

\* Instances that exist from the start: not the successors.
Originals == Instance \ {Successor[i] : i \in DOMAIN Successor}

Alive(g) == {i \in Instance : TableOf[i] \in TablesOf[g] /\ actor[i] # "none"}

\* The actors of a group after the commands in flight.
Members(g) == Alive(g) \ UNION {b.stop : b \in Range(barriers[g])}

\* The event handler has updated the read versions and not yet told the notifier
\* and the uploader: it takes no event.
Applying == recent # notified

\* The committed epochs of the tables in a version.
CommittedEpochs(v) == [t \in UNION {TablesOf[g] : g \in Group} |->
                         v.epoch[CHOOSE g \in Group : t \in TablesOf[g]]]

-----------------------------------------------------------------------------
\* Barriers

NoEpoch == [prev |-> 0, curr |-> 0]

NoCommand == [cmd |-> "none", prev |-> 0, paused |-> {}]

\* Start, Update and Drop barriers change the actors.
Barrier(g, kind, cmd, stop, new) ==
  [prev |-> IF kind = "initial" THEN version.epoch[g] ELSE lastEpoch[g],
   curr |-> lastEpoch[g] + 1,
   kind |-> kind, cmd |-> cmd, stop |-> stop,
   sync |-> IF kind = "checkpoint" THEN tables[g] ELSE {},
   remaining |-> Members(g) \cup new]

\* send_barrier and transform_to_issued: the epoch is started before the barrier
\* reaches an actor; a checkpoint syncs the tables of the previous barrier.
Issue(g, b, T, new) ==
  /\ StartEpoch(b.curr, T, CommittedEpochs(notified))
  /\ barriers' = [barriers EXCEPT ![g] = Append(@, b)]
  /\ lastEpoch' = [lastEpoch EXCEPT ![g] = b.curr]
  /\ tables' = [tables EXCEPT ![g] = T]
  /\ actor' = [i \in Instance |-> IF i \in new THEN "spawned" ELSE actor[i]]
  /\ epoch' = [i \in Instance |-> IF i \in new THEN [prev |-> b.prev, curr |-> b.curr]
                                 ELSE epoch[i]]

\* The first barrier of a group that starts, or restarts from the committed epoch:
\* what was not committed is rolled back.
InjectInitial(g) ==
  LET new == {i \in Originals : TableOf[i] \in tables[g]} IN
  /\ mode[g] = "cleared" /\ ~resetting /\ ~Applying
  /\ \A k \in DOMAIN answers : answers[k].tables \cap TablesOf[g] = {}   \* discarded
  /\ lastEpoch[g] < MaxEpoch[g]
  /\ Issue(g, Barrier(g, "initial", "none", {}, new), tables[g], new)
  /\ mode' = [mode EXCEPT ![g] = "running"]
  /\ command' = [command EXCEPT ![g] = NoCommand]
  /\ written' = {w \in written : w.table \notin TablesOf[g] \/ w.id \in version.data}
  /\ UNCHANGED <<readVersion, recent, notified, version, nextImm, faults, resetting>>

\* Mutant: the next barrier follows as soon as the Pause is collected.
PauseOnlyCollected == TRUE

\* post_collect of a configuration-change Pause: wait_epoch_commit asks the node to
\* wait for the committed epoch.  Until then nobody gets another barrier.
WaitEpochCommit ==
  \A g \in Group : command[g].cmd = "Pause" => notified.epoch[g] >= command[g].prev

CanInject(g) ==
  /\ mode[g] = "running" /\ ~resetting /\ ~Applying
  /\ lastEpoch[g] < MaxEpoch[g] \/ command[g].cmd = "Update"
  /\ Len(barriers[g]) < MaxInFlight
  /\ WaitEpochCommit

InjectCommand(g, kind, cmd, T, stop, new) ==
  /\ Issue(g, Barrier(g, kind, cmd, stop, new), T, new)
  /\ command' = IF cmd = "none" THEN command
                ELSE [command EXCEPT ![g] =
                        [cmd |-> cmd, prev |-> lastEpoch[g],
                         paused |-> IF cmd \in {"Pause", "Update"}
                                    THEN @.paused \cup {lastEpoch[g] + 1} ELSE @.paused]]
  /\ UNCHANGED <<mode, readVersion, recent, notified, version, written, nextImm, faults,
                 resetting>>

\* A periodic barrier.
InjectPlain(g, kind) ==
  /\ CanInject(g)
  /\ command[g].cmd \notin {"Pause", "Update"}
  /\ InjectCommand(g, kind, "none", tables[g], {}, {})

\* The three commands of a configuration change are executed continuously.
InjectPause(g) ==
  /\ CanInject(g)
  /\ command[g].cmd = "none" /\ lastEpoch[g] + 1 < MaxEpoch[g]
  /\ Members(g) \cap DOMAIN Successor # {}
  /\ InjectCommand(g, "checkpoint", "Pause", tables[g], {}, {})

InjectUpdate(g) ==
  LET stop == Members(g) \cap DOMAIN Successor IN
  /\ CanInject(g)
  /\ command[g].cmd = "Pause"
  /\ InjectCommand(g, "checkpoint", "Update", tables[g], stop, {Successor[i] : i \in stop})

InjectResume(g, kind) ==
  /\ CanInject(g)
  /\ command[g].cmd = "Update"
  /\ InjectCommand(g, kind, "Resume", tables[g], {}, {})

\* Drop a job: its table does not start the next epoch and its actors stop.
InjectDrop(g, t) ==
  /\ CanInject(g)
  /\ command[g].cmd = "none" /\ lastEpoch[g] + 1 < MaxEpoch[g]
  /\ t \in tables[g]
  /\ InjectCommand(g, "checkpoint", "Drop", tables[g] \ {t},
                   {i \in Members(g) : TableOf[i] = t}, {})

\* The actor i has collected the barrier b.
Without(b, i) == [b EXCEPT !.remaining = @ \ {i}]

Collect(i, b) ==
  barriers' = [barriers EXCEPT ![GroupOf[i]] =
                 [k \in DOMAIN @ |-> IF @[k].curr = b.curr THEN Without(@[k], i) ELSE @[k]]]

\* The barrier an actor processes next.
NextBarriers(i) ==
  {b \in Range(barriers[GroupOf[i]]) :
     i \in b.remaining /\ IF actor[i] = "spawned" THEN b.curr = epoch[i].curr
                          ELSE b.prev = epoch[i].curr}

\* next_collected_epoch: the first barrier, if all actors have collected it.
NextCollected(g) ==
  {barriers[g][k] : k \in {j \in DOMAIN barriers[g] : j = 1 /\ barriers[g][j].remaining = {}}}

\* complete_barrier: barriers complete in order; a checkpoint starts a sync.
CompleteBarrier(g) ==
  /\ mode[g] = "running" /\ ~Applying
  /\ \E b \in NextCollected(g) :
       IF b.kind = "checkpoint" THEN StartSyncEpoch(b.prev, b.sync) ELSE UNCHANGED uploaderVars
  /\ barriers' = [barriers EXCEPT ![g] = Tail(@)]
  /\ UNCHANGED <<mode, tables, lastEpoch, command, actor, epoch, readVersion, recent, notified,
                 version, written, nextImm, faults, resetting>>

-----------------------------------------------------------------------------
\* Actors

\* Mutant: the executor initialises its state before it passes the first barrier on.
BuildAfterCommit(i) ==
  /\ actor[i] = "spawned" /\ ~Applying
  /\ notified.epoch[GroupOf[i]] >= epoch[i].prev
  /\ \E b \in NextBarriers(i) : Collect(i, b)
  /\ actor' = [actor EXCEPT ![i] = "waiting"]
  /\ readVersion' = (i :> [imm |-> <<>>, sst |-> <<>>]) @@ readVersion
  /\ UNCHANGED <<mode, tables, lastEpoch, command, epoch, recent, notified, version, written,
                 nextImm, faults, resetting, uploaderVars>>

\* The actor is built: RegisterReadVersion gives its instance the recent version.
\* The executor passes the first barrier on before it initialises its state.
Build(i) ==
  /\ actor[i] = "spawned" /\ ~Applying
  /\ \E b \in NextBarriers(i) : Collect(i, b)
  /\ actor' = [actor EXCEPT ![i] = "waiting"]
  /\ readVersion' = (i :> [imm |-> <<>>, sst |-> <<>>]) @@ readVersion
  /\ UNCHANGED <<mode, tables, lastEpoch, command, epoch, recent, notified, version, written,
                 nextImm, faults, resetting, uploaderVars>>

\* init of the local state store waits until the epoch before its first is
\* committed (wait_for_epoch), then sends InitEpoch.
InitStore(i) ==
  /\ actor[i] = "waiting" /\ ~Applying
  /\ notified.epoch[GroupOf[i]] >= epoch[i].prev
  /\ InitInstance(i, epoch[i].curr)
  /\ actor' = [actor EXCEPT ![i] = "running"]
  /\ UNCHANGED <<mode, tables, barriers, lastEpoch, command, epoch, readVersion, recent,
                 notified, version, written, nextImm, faults, resetting>>

\* flush_inner: the imm goes to the read version, then to the uploader.
Flush(i) ==
  LET imm == [id |-> nextImm, epoch |-> epoch[i].curr] IN
  /\ actor[i] = "running" /\ ~Applying
  /\ epoch[i].curr \notin command[GroupOf[i]].paused
  /\ nextImm <= MaxImm
  /\ readVersion' = [readVersion EXCEPT ![i].imm = <<imm>> \o @]
  /\ AddImm(i, imm)
  /\ written' = written \cup {[id |-> nextImm, table |-> TableOf[i], epoch |-> epoch[i].curr]}
  /\ nextImm' = nextImm + 1
  /\ UNCHANGED <<mode, tables, barriers, lastEpoch, command, actor, epoch, recent, notified,
                 version, faults, resetting>>

\* Mutant: the stop barrier is collected like any other, before the stream is dropped.
AlwaysCollectsAtSeal(i, b) == TRUE

\* An actor collects the barrier when it has sealed the epoch; one that stops
\* collects it later, in DropStream.
CollectsAtSeal(i, b) == i \notin b.stop

\* The executor commits its state table at a barrier (seal_current_epoch); at an
\* Update it then installs the new vnode bitmap, which requires that nothing is
\* staged (update_vnode_bitmap, see StagingEmptyAtUpdate).
Seal(i) ==
  /\ actor[i] = "running" /\ ~Applying
  /\ \E b \in NextBarriers(i) :
       /\ LocalSealEpoch(i, b.curr)
       /\ epoch' = [epoch EXCEPT ![i] = [prev |-> b.prev, curr |-> b.curr]]
       /\ actor' = [actor EXCEPT ![i] = IF i \in b.stop THEN "stopping" ELSE @]
       /\ IF CollectsAtSeal(i, b) THEN Collect(i, b) ELSE UNCHANGED barriers
  /\ UNCHANGED <<mode, tables, lastEpoch, command, readVersion, recent, notified, version,
                 written, nextImm, faults, resetting>>

\* run_consumer of an actor that stops: the stream is dropped, which destroys the
\* instance, and only then the stop barrier is collected.
DropStream(i) ==
  /\ actor[i] = "stopping" /\ ~Applying
  /\ MayDestroyInstance(i)
  /\ readVersion' = [j \in DOMAIN readVersion \ {i} |-> readVersion[j]]
  /\ actor' = [actor EXCEPT ![i] = "none"]
  /\ epoch' = [epoch EXCEPT ![i] = NoEpoch]
  /\ barriers' = [barriers EXCEPT ![GroupOf[i]] =
                   [k \in DOMAIN @ |-> IF i \in @[k].stop THEN Without(@[k], i) ELSE @[k]]]
  /\ UNCHANGED <<mode, tables, lastEpoch, command, recent, notified, version, written, nextImm,
                 faults, resetting>>

-----------------------------------------------------------------------------
\* Uploads, answers and versions

SpillData ==
  /\ ~Applying /\ MayFlush
  /\ UNCHANGED nodeVars

\* handle_uploaded_sst: in every read version of the SST, the SST takes the place
\* of its imms, which must be the oldest ones.
StageSst(r, imms) ==
  [imm |-> PopBack(r.imm, Len(imms)), sst |-> <<imms>> \o r.sst]

UploadedSst ==
  /\ ~Applying /\ NextUploadedSst
  /\ readVersion' = [i \in DOMAIN readVersion |->
       IF i \in DOMAIN Head(tasks).input THEN StageSst(readVersion[i], Head(tasks).input[i])
       ELSE readVersion[i]]
  /\ UNCHANGED <<mode, tables, barriers, lastEpoch, command, actor, epoch, recent, notified,
                 version, written, nextImm, faults, resetting>>

UploadFails ==
  /\ ~Applying /\ faults < MaxFaults
  /\ SyncTaskFailed
  /\ faults' = faults + 1
  /\ UNCHANGED <<mode, tables, barriers, lastEpoch, command, actor, epoch, readVersion, recent,
                 notified, version, written, nextImm, resetting>>

\* The imms in the SSTs of an answer.
ImmsOf(a) == UNION {UNION {Range(Ids(s[i])) : i \in DOMAIN s} : s \in Range(a.uploaded)}

\* The group of an answer.
AnsweredGroup(a) == CHOOSE g \in Group : a.tables \subseteq TablesOf[g]

\* The worker takes an answer, on_epoch_completed reports it and meta commits it
\* (commit_epoch), all in one step: a commit that lands after the database was suspended
\* is in DatabaseRecovery.  Suspending discards the futures that are still waited for.
TakeSynced ==
  /\ answers # <<>> /\ Head(answers).ok
  /\ LET a == Head(answers) IN
     version' = IF mode[AnsweredGroup(a)] # "running" THEN version
                ELSE [epoch |-> [version.epoch EXCEPT ![AnsweredGroup(a)] = a.epoch],
                      data  |-> version.data \cup ImmsOf(a)]
  /\ answers' = Tail(answers)
  /\ UNCHANGED <<working, instData, tableData, unsyncEpochs, spilledData, tasks, syncing, mode,
                 tables, barriers, lastEpoch, command, actor, epoch, readVersion, recent,
                 notified, written, nextImm, faults, resetting>>

\* An error resets the control stream.
TakeSyncError ==
  /\ answers # <<>> /\ ~Head(answers).ok
  /\ resetting' = (resetting \/ mode[AnsweredGroup(Head(answers))] = "running")
  /\ answers' = Tail(answers)
  /\ UNCHANGED <<working, instData, tableData, unsyncEpochs, spilledData, tasks, syncing, mode,
                 tables, barriers, lastEpoch, command, actor, epoch, readVersion, recent,
                 notified, version, written, nextImm, faults>>

\* Mutant: a staged SST of the committed epoch itself stays.
CommittedSstStays(r, committed) ==
  [r EXCEPT !.sst = SelectSeq(@, LAMBDA s : s[1].epoch >= committed)]

\* VersionUpdate::CommittedSnapshot: staged SSTs up to the committed epoch go.
\* Epochs are sorted from newest to oldest, so the first imm has the newest.
CommittedSnapshot(r, committed) ==
  [r EXCEPT !.sst = SelectSeq(@, LAMBDA s : s[1].epoch > committed)]

\* apply_version_update, first half: the read versions get the new version.
ApplyVersionUpdate ==
  /\ ~Applying /\ version # recent
  /\ recent' = version
  /\ readVersion' = [i \in DOMAIN readVersion |->
                       CommittedSnapshot(readVersion[i], version.epoch[GroupOf[i]])]
  /\ UNCHANGED <<mode, tables, barriers, lastEpoch, command, actor, epoch, notified, version,
                 written, nextImm, faults, resetting, uploaderVars>>

\* Second half: those who wait for an epoch are notified, and the uploader is.
NotifyVersion ==
  /\ Applying
  /\ notified' = recent
  /\ UpdatePinnedVersion(CommittedEpochs(recent))
  /\ UNCHANGED <<mode, tables, barriers, lastEpoch, command, actor, epoch, readVersion, recent,
                 version, written, nextImm, faults, resetting>>

-----------------------------------------------------------------------------
\* Failures and resets

\* What aborting does to an actor.  One that stops may await the blocking task that drops
\* its stream (spawn_blocking_drop_stream): the await is cancelled, the task is not.
AbortActor(a) ==
  IF a = "none" THEN a ELSE IF a = "stopping" THEN "dropping" ELSE "aborted"

\* The actors of the groups G are aborted; their barriers are forgotten.
Suspend(G) ==
  /\ mode' = [g \in Group |-> IF g \in G THEN "suspended" ELSE mode[g]]
  /\ barriers' = [g \in Group |-> IF g \in G THEN <<>> ELSE barriers[g]]
  /\ actor' = [i \in Instance |-> IF GroupOf[i] \in G THEN AbortActor(actor[i]) ELSE actor[i]]
  /\ UNCHANGED <<tables, lastEpoch, command, epoch, readVersion, recent, notified, version,
                 written, nextImm, uploaderVars>>

\* on_database_failure
ActorFails(g) ==
  /\ mode[g] = "running" /\ faults < MaxFaults
  /\ faults' = faults + 1
  /\ Suspend({g})
  /\ UNCHANGED resetting

\* NewControlStream after an error: LocalBarrierWorker::reset aborts every database.
AbortAll ==
  /\ resetting
  /\ \E g \in Group : mode[g] = "running"
  /\ Suspend({g \in Group : mode[g] = "running"})
  /\ UNCHANGED <<faults, resetting>>

\* await_actors joins the aborted actor while the blocking task still holds the instance, and
\* the clear meets an instance that is not destroyed ("should be clear when dropping the
\* read version instance" in clear_tables, "read version mapping not empty when clear" in
\* handle_clear).  The panic aborts the process.  A new one starts with nothing, as after a
\* reset of the node.
NodePanics(g) ==
  /\ mode[g] = "suspended" /\ ~Applying
  /\ \E i \in Instance : GroupOf[i] = g /\ actor[i] = "dropping"
  /\ resetting' = TRUE
  /\ Suspend({h \in Group : mode[h] = "running"})
  /\ UNCHANGED faults

\* await_actors: the aborted actors of the groups G are gone, and with them, all blocking
\* tasks having ended, their instances.  Their destruction changes only what is cleared
\* right after it.
AwaitActors(G) ==
  /\ actor' = [i \in Instance |-> IF GroupOf[i] \in G THEN "none" ELSE actor[i]]
  /\ epoch' = [i \in Instance |-> IF GroupOf[i] \in G THEN NoEpoch ELSE epoch[i]]
  /\ readVersion' = [i \in {j \in DOMAIN readVersion : GroupOf[j] \notin G} |-> readVersion[i]]
  /\ mode' = [g \in Group |-> IF g \in G THEN "cleared" ELSE mode[g]]

\* SuspendedDatabaseState::reset: clear_tables when the actors are gone.
ResetDatabase(g) ==
  /\ mode[g] = "suspended" /\ ~Applying
  /\ AwaitActors({g})
  /\ ClearTables(TablesOf[g])
  /\ UNCHANGED <<tables, barriers, lastEpoch, command, recent, notified, version, written,
                 nextImm, faults, resetting>>

\* LocalBarrierWorker::reset: clear_shared_buffer when no actor is left.
ResetNode ==
  /\ resetting /\ ~Applying
  /\ \A g \in Group : mode[g] # "running"
  /\ AwaitActors(Group)
  /\ ClearAll
  /\ resetting' = FALSE
  /\ UNCHANGED <<tables, barriers, lastEpoch, command, recent, notified, version, written,
                 nextImm, faults>>

-----------------------------------------------------------------------------
Init ==
  /\ UploaderInit
  /\ mode = [g \in Group |-> "cleared"]
  /\ tables = TablesOf
  /\ barriers = [g \in Group |-> <<>>]
  /\ lastEpoch = [g \in Group |-> 0]
  /\ command = [g \in Group |-> NoCommand]
  /\ actor = [i \in Instance |-> "none"]
  /\ epoch = [i \in Instance |-> NoEpoch]
  /\ readVersion = Empty
  /\ version = [epoch |-> [g \in Group |-> 0], data |-> {}]
  /\ recent = version /\ notified = version
  /\ written = {} /\ nextImm = 1 /\ faults = 0 /\ resetting = FALSE

Inject(g) ==
  \/ InjectInitial(g)
  \/ \E kind \in {"barrier", "checkpoint"} : InjectPlain(g, kind) \/ InjectResume(g, kind)
  \/ InjectPause(g)
  \/ InjectUpdate(g)
  \/ \E t \in Droppable : InjectDrop(g, t)

\* What runs without meta injecting a barrier, data coming in, memory pressure or a
\* failure: the actors, the event handler, the worker, and meta's commit.
Progress ==
  \/ \E g \in Group : CompleteBarrier(g) \/ ResetDatabase(g)
  \/ \E i \in Instance : Build(i) \/ InitStore(i) \/ Seal(i) \/ DropStream(i)
  \/ UploadedSst \/ TakeSynced \/ TakeSyncError
  \/ ApplyVersionUpdate \/ NotifyVersion
  \/ AbortAll \/ ResetNode

Next ==
  \/ Progress
  \/ \E g \in Group : Inject(g) \/ ActorFails(g) \/ NodePanics(g)
  \/ \E i \in Instance : Flush(i)
  \/ SpillData \/ UploadFails

Spec == Init /\ [][Next]_vars

-----------------------------------------------------------------------------
\* Correctness

\* What an instance has staged, newest first.
Staged(i) == Ids(readVersion[i].imm) \o FlattenSeq([k \in DOMAIN readVersion[i].sst |->
                                                     Ids(readVersion[i].sst[k])])

\* A running instance reads every imm of its table exactly once and newest first:
\* as an imm, in a staged SST or in the committed version.  This holds through
\* spills, uploads and version updates, and for what the instance that it replaced,
\* or an earlier incarnation, has written; HummockReadVersion::update asserts parts.
ReadYourWrites ==
  \A i \in DOMAIN readVersion : actor[i] \in {"running", "stopping"} =>
    /\ Descending(Staged(i))
    /\ Range(Staged(i)) =
         {w.id : w \in {x \in written : x.table = TableOf[i]}} \ recent.data

\* SyncedData::uploaded_ssts: "newer data at the front", for every instance, though
\* some SSTs were spilled before the sync, some were on their way and one is new.
UploadedNewestFirst ==
  \A s \in Range(syncing) \cup Range(answers) : \A i \in Instance :
    Descending(FlattenSeq([k \in DOMAIN s.uploaded |->
      IF i \in DOMAIN s.uploaded[k] THEN Ids(s.uploaded[k][i]) ELSE <<>>]))

\* update_vnode_bitmap: "There is uncommitted staging data in read version ... on
\* vnode bitmap update".  When an Update barrier reaches an actor, what it wrote
\* before the Pause is committed and known to the node.
StagingEmptyAtUpdate ==
  \A i \in DOMAIN readVersion : \A b \in NextBarriers(i) :
    b.cmd = "Update" /\ actor[i] = "running" => Staged(i) = <<>>

\* Meta waits for a group: a barrier is in flight, an actor starts or ends, a reset is
\* under way, or a Pause waits for its epoch to be committed.
Awaited(g) ==
  \/ barriers[g] # <<>> \/ mode[g] = "suspended" \/ resetting
  \/ \E i \in Alive(g) : actor[i] # "running"
  \/ command[g].cmd = "Pause" /\ mode[g] = "running" /\ notified.epoch[g] < command[g].prev

\* As long as meta waits for a group, something can go on even when all uploads, answers
\* and version updates have been dealt with: no actor waits for an epoch whose commit
\* waits for the actor, no sync loses its answer to the reset of another database, and
\* every reset goes on, also that of a node that has panicked.  Every step of Progress uses
\* up a barrier, a task, an answer, an actor or a version, so meta does not wait for ever.
NoneStuck ==
  /\ tasks = <<>> /\ answers = <<>> /\ version = notified
  /\ \E g \in Group : Awaited(g)
  => ENABLED Progress

\* The node, meta's versions and the resets implement DurableState: written is its log and
\* a version its durable part.  Uploads, version updates and resets of the node are
\* invisible in it; a failed upload or an aborted database can only roll back.  The epoch
\* that meta commits holds all that was written up to it and nothing newer, whichever way
\* (spilled, being spilled, flushed by the sync) each imm took.
Durable == INSTANCE DurableState WITH
  Owner     <- Group,
  Id        <- 1..MaxImm,
  Epoch     <- 1..(2 + Max({MaxEpoch[g] : g \in Group})),
  log       <- written,
  committed <- version.epoch,
  durable   <- version.data

ImplementsDurableState == Durable!Spec
=============================================================================
