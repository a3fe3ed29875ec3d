-------------------------- MODULE HummockUploader --------------------------
(***************************************************************************)
(* The shared-buffer uploader of a compute node: HummockUploader, its      *)
(* UnsyncData, Spiller and TaskManager                                     *)
(* (storage/src/hummock/event_handler/uploader).                           *)
(*                                                                         *)
(* An immutable memtable (imm) is [id, epoch]; batch ids grow.  Data moves *)
(* from the current epoch of a local instance to its sealed epochs, from   *)
(* there into an upload task (a spill task under memory pressure, or the   *)
(* flush task of a sync), and from the uploaded SST into the answer of the *)
(* sync.  Sequences follow the code: newer data at the front, except tasks *)
(* and syncing, which are listed oldest first.                             *)
(*                                                                         *)
(* The event handler is one task that takes the events one at a time from  *)
(* an unbounded queue, so every event is one action.  Sizes are left out:  *)
(* the uploader may spill any unsynced epoch at any time, which covers     *)
(* every memory limit.  Table watermarks and has_spilled, which only       *)
(* assertions read, are left out too.                                      *)
(***************************************************************************)
EXTENDS Naturals, Sequences, SequencesExt, FiniteSetsExt, TLC

CONSTANTS Table,      \* state tables
          Instance,   \* local instances (LocalHummockStorage) of the tables
          TableOf     \* the table of each instance

ASSUME TableOfAssumption == TableOf \in [Instance -> Table]

VARIABLES
  working,       \* UploaderState::Working, else UploaderState::Err
  instData,      \* instance_data of all tables, by instance
  tableData,     \* UnsyncData::table_data
  unsyncEpochs,  \* UnsyncData::unsync_epochs: the tables that share an epoch
  spilledData,   \* UnsyncData::spilled_data: spill tasks that are uploaded
  tasks,         \* TaskManager: tasks in task_order, oldest first
  syncing,       \* syncing_data, in the order of the sync ids
  answers        \* what the sync_result_senders have sent

uploaderVars == <<working, instData, tableData, unsyncEpochs, spilledData,
                  tasks, syncing, answers>>

Empty == [x \in {} |-> x]

\* Ids of a sequence of imms.
Ids(imms) == [k \in DOMAIN imms |-> imms[k].id]

\* A prefix of s without its last n elements: pop_back n times.
PopBack(s, n) == SubSeq(s, 1, Len(s) - n)

\* The elements of s at the places of I, in their order (retain, extract_if, ...).
Keep(s, I) ==
  LET kept[n \in 0..Len(s)] == IF n = 0 THEN <<>>
                               ELSE IF n \in I THEN Append(kept[n - 1], s[n]) ELSE kept[n - 1]
  IN  kept[Len(s)]

\* Ids only grow and only the order of the live ones is ever looked at: the next id
\* is above all that are in use.
NextTaskId == LET used == {0} \cup {tasks[k].id : k \in DOMAIN tasks}
                             \cup {s.id : s \in spilledData}
              IN  1 + Max(used)

NextSyncId == IF syncing = <<>> THEN 1 ELSE 1 + Last(syncing).id

InstancesOf(T) == {i \in DOMAIN instData : TableOf[i] \in T}

-----------------------------------------------------------------------------
\* LocalInstanceUnsyncData

EpochData(e) == [epoch |-> e, imms |-> <<>>]

NewInstance(e) ==
  [current |-> EpochData(e), sealed |-> <<>>, flushing |-> <<>>, destroyed |-> FALSE]

\* local_seal_epoch of one instance: an epoch without imms is not kept.
SealInstance(d, next) ==
  [d EXCEPT !.current = EpochData(next),
            !.sealed = IF d.current.imms = <<>> THEN @ ELSE <<d.current>> \o @]

\* spillable_data_info: the oldest epoch of an instance that still holds imms.
Spillable(d) == IF d.sealed # <<>> THEN Last(d.sealed) ELSE d.current

\* spill: take that epoch out; its imms join flushing_imms.
SpillInstance(d) ==
  LET imms == Spillable(d).imms IN
  [d EXCEPT !.sealed   = IF @ # <<>> THEN Front(@) ELSE @,
            !.current  = IF d.sealed # <<>> THEN @ ELSE EpochData(@.epoch),
            !.flushing = Ids(imms) \o @]

\* The imms that LocalInstanceUnsyncData::sync returns, newest first.
SealedBefore(d, e) ==
  FlattenSeq([k \in DOMAIN d.sealed |->
                IF d.sealed[k].epoch <= e THEN d.sealed[k].imms ELSE <<>>])

\* Mutant: the imms of a sync are put behind the ones that were spilled before.
SyncedPutBehind(d, e) ==
  [d EXCEPT !.sealed   = Keep(@, {k \in DOMAIN @ : @[k].epoch > e}),
            !.flushing = @ \o Ids(SealedBefore(d, e)),
            !.current  = IF @.epoch <= e THEN EpochData(0) ELSE @]

\* What it leaves behind.  An instance that the sync overtakes loses its
\* current epoch (a debug build panics here): epoch 0 stands for None.
SyncInstance(d, e) ==
  [d EXCEPT !.sealed   = Keep(@, {k \in DOMAIN @ : @[k].epoch > e}),
            !.flushing = Ids(SealedBefore(d, e)) \o @,
            !.current  = IF @.epoch <= e THEN EpochData(0) ELSE @]

\* is_finished
IsFinished(d) == d.destroyed /\ d.sealed = <<>>

-----------------------------------------------------------------------------
\* Events of instances.  In UploaderState::Err all of them are ignored.

\* start_epoch of a graph's tables T; committed is the pinned version's epoch.
StartEpoch(e, T, committed) ==
  /\ tableData' =
       IF ~working THEN tableData
       ELSE [t \in DOMAIN tableData \cup T |->
               LET d == IF t \in DOMAIN tableData THEN tableData[t]
                        ELSE [unsync |-> {}, spill |-> {}, stopped |-> 0,
                              syncing |-> <<>>, synced |-> committed[t]]
               IN  IF t \in T THEN [d EXCEPT !.unsync = @ \cup {e}] ELSE d]
  /\ unsyncEpochs' = IF working /\ T # {}
                     THEN unsyncEpochs \cup {[epoch |-> e, tables |-> T]}
                     ELSE unsyncEpochs
  /\ UNCHANGED <<working, instData, spilledData, tasks, syncing, answers>>

InitInstance(i, e) ==
  /\ instData' = IF ~working THEN instData
                 ELSE [j \in DOMAIN instData \cup {i} |->
                         IF j = i THEN NewInstance(e) ELSE instData[j]]
  /\ UNCHANGED <<working, tableData, unsyncEpochs, spilledData, tasks, syncing, answers>>

AddImm(i, imm) ==
  /\ instData' = IF working THEN [instData EXCEPT ![i].current.imms = <<imm>> \o @]
                 ELSE instData
  /\ UNCHANGED <<working, tableData, unsyncEpochs, spilledData, tasks, syncing, answers>>

\* A table whose next epoch was not started has stopped.
LocalSealEpoch(i, next) ==
  /\ instData' = IF working THEN [instData EXCEPT ![i] = SealInstance(@, next)] ELSE instData
  /\ tableData' =
       IF working /\ next \notin tableData[TableOf[i]].unsync
       THEN [tableData EXCEPT ![TableOf[i]].stopped = IF @ = 0 THEN next ELSE @]
       ELSE tableData
  /\ UNCHANGED <<working, unsyncEpochs, spilledData, tasks, syncing, answers>>

\* may_destroy_instance
MayDestroyInstance(i) ==
  /\ instData' = IF i \in DOMAIN instData THEN [instData EXCEPT ![i].destroyed = TRUE]
                 ELSE instData
  /\ UNCHANGED <<working, tableData, unsyncEpochs, spilledData, tasks, syncing, answers>>

-----------------------------------------------------------------------------
\* Spilling and syncing

\* The instances the Spiller puts into one payload: those whose oldest data is of
\* this epoch and whose tables share it.
SpillTogether(u) ==
  {i \in InstancesOf(u.tables) :
     Spillable(instData[i]).imms # <<>> /\ Spillable(instData[i]).epoch = u.epoch}

\* may_flush spills one payload.  The loop of the code spills several, which is
\* this action several times.
MayFlush ==
  /\ working
  /\ \E u \in unsyncEpochs :
       LET S == SpillTogether(u)
           task == [id     |-> NextTaskId,
                    input  |-> [i \in S |-> Spillable(instData[i]).imms],
                    tables |-> {TableOf[i] : i \in S},
                    sync   |-> 0]
       IN  /\ S # {}
           /\ instData' = [i \in DOMAIN instData |->
                             IF i \in S THEN SpillInstance(instData[i]) ELSE instData[i]]
           /\ tableData' = [t \in DOMAIN tableData |->
                              IF t \in task.tables
                              THEN [tableData[t] EXCEPT !.spill = @ \cup {<<u.epoch, NextTaskId>>}]
                              ELSE tableData[t]]
           /\ tasks' = Append(tasks, task)
  /\ UNCHANGED <<working, unsyncEpochs, spilledData, syncing, answers>>

\* Mutant: a sync is answered as soon as its own tasks are done.
FinishedInAnyOrder(sy) == {sy[k] : k \in {j \in DOMAIN sy : sy[j].remaining = {}}}

\* The syncs that can be answered: each only after all with smaller ids.
Finished(sy) == {sy[k] : k \in {j \in DOMAIN sy : \A l \in 1..j : sy[l].remaining = {}}}

\* may_notify_sync_task: syncs are answered, and a table with nothing left is removed.
\* sy, td, ins are the syncs, the tables and the instances it finds.
MayNotifySyncTask(sy, td, ins) ==
  LET done == Keep(sy, {k \in DOMAIN sy : sy[k] \in Finished(sy)})
      \* the epochs of the answered syncs of a table
      Acked(t) == {s.epoch : s \in {x \in Finished(sy) : t \in x.tables}}
      AckSynced(t) ==
        IF Acked(t) = {} THEN td[t]
        ELSE [td[t] EXCEPT !.syncing = PopBack(@, Cardinality(Acked(t))), !.synced = Max(Acked(t))]
      IsEmpty(t) == /\ AckSynced(t).syncing = <<>>
                    /\ AckSynced(t).unsync = {}
                    /\ \A i \in DOMAIN ins : TableOf[i] # t
  IN  /\ syncing' = Keep(sy, {k \in DOMAIN sy : sy[k] \notin Finished(sy)})
      /\ tableData' = [t \in {x \in DOMAIN td : ~(Acked(x) # {} /\ IsEmpty(x))} |-> AckSynced(t)]
      /\ answers' = answers \o
           [k \in DOMAIN done |-> [tables |-> done[k].tables, epoch |-> done[k].epoch,
                                   ok |-> TRUE, uploaded |-> done[k].uploaded]]

ErrorAnswer(s) == [tables |-> s.tables, epoch |-> s.epoch, ok |-> FALSE, uploaded |-> <<>>]

\* Mutant: from the smallest task id to the largest.
OldestFirst(S) ==
  LET sorted == SetToSortSeq(S, LAMBDA x, y : x.id < y.id)
  IN  [k \in DOMAIN sorted |-> sorted[k].input]

\* The SSTs of spilled tasks, from the largest task id to the smallest.  An SST is
\* the imms it holds, by instance.
NewestFirst(S) ==
  LET sorted == CHOOSE f \in [1..Cardinality(S) -> S] :
                  \A j, k \in 1..Cardinality(S) : j < k => f[j].id > f[k].id
  IN  [k \in DOMAIN sorted |-> sorted[k].input]

\* start_sync_epoch of the tables T: UploaderData::sync, then may_notify_sync_task.
StartSyncEpoch(e, T) ==
  \/ /\ ~working
     /\ answers' = Append(answers, ErrorAnswer([tables |-> T, epoch |-> e]))
     /\ UNCHANGED <<working, instData, tableData, unsyncEpochs, spilledData, tasks, syncing>>
  \/ /\ working
     /\ LET synced   == [i \in DOMAIN instData |->
                           IF TableOf[i] \in T THEN SyncInstance(instData[i], e) ELSE instData[i]]
            kept     == {i \in DOMAIN instData : ~(TableOf[i] \in T /\ IsFinished(synced[i]))}
            flush    == {i \in InstancesOf(T) : SealedBefore(instData[i], e) # <<>>}
            extra    == [id |-> NextTaskId,
                         input |-> [i \in flush |-> SealedBefore(instData[i], e)],
                         tables |-> {}, sync |-> NextSyncId]
            taskIds  == {x[2] : x \in {y \in UNION {tableData[t].spill : t \in T} : y[1] <= e}}
            uploaded == {s \in spilledData : s.id \in taskIds}
            remaining == (taskIds \ {s.id : s \in uploaded})
                           \cup IF flush = {} THEN {} ELSE {NextTaskId}
            ins      == [i \in kept |-> synced[i]]
        IN  /\ instData' = ins
            /\ unsyncEpochs' = {u \in unsyncEpochs : ~(u.tables = T /\ u.epoch <= e)}
            /\ spilledData' = spilledData \ uploaded
            /\ tasks' = [k \in DOMAIN tasks |->
                           IF tasks[k].id \in taskIds THEN [tasks[k] EXCEPT !.sync = NextSyncId]
                           ELSE tasks[k]]
                        \o IF flush = {} THEN <<>> ELSE <<extra>>
            /\ MayNotifySyncTask(
                 Append(syncing, [id |-> NextSyncId, epoch |-> e, tables |-> T,
                                  remaining |-> remaining, uploaded |-> NewestFirst(uploaded)]),
                 [t \in DOMAIN tableData |->
                    IF t \notin T THEN tableData[t]
                    ELSE [tableData[t] EXCEPT !.unsync  = {x \in @ : x > e},
                                              !.spill   = {x \in @ : x[1] > e},
                                              !.syncing = <<e>> \o @]],
                 ins)
     /\ UNCHANGED working

\* next_uploaded_sst with an uploaded SST: only the oldest task is polled, whatever
\* the order in which uploads end.  A spill task that fails is started again by
\* poll_ok_with_retry and stays where it is.
AckFlushed(task) ==
  [i \in DOMAIN instData |->
     IF i \in DOMAIN task.input
     THEN [instData[i] EXCEPT !.flushing = PopBack(@, Len(task.input[i]))]
     ELSE instData[i]]

NextUploadedSst ==
  /\ working /\ tasks # <<>>
  /\ LET task == Head(tasks) IN
     /\ instData' = AckFlushed(task)
     /\ \/ /\ task.sync = 0
           /\ spilledData' = spilledData \cup {task}
           /\ UNCHANGED <<tableData, syncing, answers>>
        \/ /\ task.sync # 0
           /\ MayNotifySyncTask(
                [k \in DOMAIN syncing |->
                   IF syncing[k].id = task.sync
                   THEN [syncing[k] EXCEPT !.uploaded = <<task.input>> \o @,
                                           !.remaining = @ \ {task.id}]
                   ELSE syncing[k]],
                tableData, instData')
           /\ UNCHANGED spilledData
  /\ tasks' = Tail(tasks)
  /\ UNCHANGED <<working, unsyncEpochs>>

\* All data is dropped: the state of UploaderData::default().
ResetUploaderData ==
  /\ instData' = Empty
  /\ tableData' = Empty
  /\ unsyncEpochs' = {}
  /\ spilledData' = {}
  /\ tasks' = <<>>
  /\ syncing' = <<>>

\* next_uploaded_sst with a failed upload of a sync: that sync is answered first,
\* then UploaderData::abort answers all others, and the uploader stops.
SyncTaskFailed ==
  /\ working /\ tasks # <<>>
  /\ Head(tasks).sync # 0
  /\ LET failed == Keep(syncing, {k \in DOMAIN syncing : syncing[k].id = Head(tasks).sync})
         others == Keep(syncing, {k \in DOMAIN syncing : syncing[k].id # Head(tasks).sync})
         all    == failed \o others
     IN  answers' = answers \o [k \in DOMAIN all |-> ErrorAnswer(all[k])]
  /\ working' = FALSE
  /\ ResetUploaderData

\* Mutant: only the spill tasks are aborted, not those the removed syncs wait for.
AbortedSpills(T) ==
  {x[2] : x \in UNION {tableData[t].spill : t \in DOMAIN tableData \cap T}}

\* The tasks that clear_tables aborts: spill tasks of the tables, and all tasks that
\* syncs of the tables wait for.
AbortedTasks(T) ==
  {x[2] : x \in UNION {tableData[t].spill : t \in DOMAIN tableData \cap T}}
    \cup UNION {syncing[k].remaining :
                  k \in {j \in DOMAIN syncing : syncing[j].tables \cap T # {}}}

\* clear(Some(tables)): nothing happens in UploaderState::Err.  The senders of the
\* removed syncs are dropped without an answer.
ClearTables(T) ==
  IF ~working \/ T = {} THEN UNCHANGED uploaderVars
  ELSE
    /\ tableData' = [t \in DOMAIN tableData \ T |-> tableData[t]]
    /\ instData' = [i \in DOMAIN instData \ InstancesOf(T) |-> instData[i]]
    /\ spilledData' = {s \in spilledData : s.id \notin AbortedTasks(T)}
    /\ tasks' = Keep(tasks, {k \in DOMAIN tasks : tasks[k].id \notin AbortedTasks(T)})
    /\ unsyncEpochs' = {u \in unsyncEpochs : u.tables \cap T = {}}
    /\ syncing' = Keep(syncing, {k \in DOMAIN syncing : syncing[k].tables \cap T = {}})
    /\ UNCHANGED <<working, answers>>

\* clear(None), the only way out of UploaderState::Err.
ClearAll ==
  /\ answers' = answers \o [k \in DOMAIN syncing |-> ErrorAnswer(syncing[k])]
  /\ working' = TRUE
  /\ ResetUploaderData

\* update_pinned_version: ack_committed of every table that is known.
UpdatePinnedVersion(committed) ==
  /\ tableData' = [t \in DOMAIN tableData |->
                     [tableData[t] EXCEPT !.synced = IF @ < committed[t] THEN committed[t] ELSE @]]
  /\ UNCHANGED <<working, instData, unsyncEpochs, spilledData, tasks, syncing, answers>>

UploaderInit ==
  /\ working = TRUE
  /\ instData = Empty /\ tableData = Empty /\ unsyncEpochs = {} /\ spilledData = {}
  /\ tasks = <<>> /\ syncing = <<>> /\ answers = <<>>

-----------------------------------------------------------------------------
\* Correctness of the uploader

\* s is strictly decreasing: newer data at the front.
Descending(s) == \A j, k \in DOMAIN s : j < k => s[j] > s[k]

\* ack_flushed asserts that the imms of an uploaded SST are the oldest ones its
\* instance is flushing, although spills and syncs of several instances share
\* tasks and uploads end in any order: task by task, oldest first, the queue of
\* tasks holds exactly flushing_imms of every instance.
FlushedInOrder ==
  \A i \in DOMAIN instData :
    /\ Descending(instData[i].flushing)
    /\ instData[i].flushing =
         FlattenSeq([k \in DOMAIN tasks |->
           LET t == tasks[Len(tasks) + 1 - k] IN
           IF i \in DOMAIN t.input THEN Ids(t.input[i]) ELSE <<>>])

\* struct HummockUploader: "(epochs of `synced_data`) <= `max_synced_epoch` <
\* (epochs of `syncing_data`) <= `max_syncing_epoch` < (epochs of `unsync_data`)",
\* for every table and for the data of its instances, a destroyed one included: no
\* sync ever overtakes the epoch an instance writes.
StagesOrdered ==
  \A t \in DOMAIN tableData :
    LET d == tableData[t]
        maxSync == IF d.syncing # <<>> THEN Head(d.syncing) ELSE d.synced
    IN  /\ Descending(d.syncing)
        /\ d.syncing # <<>> => d.synced < Last(d.syncing)
        /\ \A e \in d.unsync : e > maxSync
        /\ \A x \in d.spill : x[1] > maxSync
        /\ \A i \in InstancesOf({t}) :
             /\ instData[i].current.epoch > maxSync
             /\ \A k \in DOMAIN instData[i].sealed : instData[i].sealed[k].epoch > maxSync

\* Tasks in UploadingTaskStatus::Spilling.
Spilling == {tasks[k] : k \in {j \in DOMAIN tasks : tasks[j].sync = 0}}

\* check_upload_task_consistency: what the tables and the syncs know of the spill
\* tasks and of the tasks they wait for is what the task manager and the spilled
\* data hold.
TaskConsistency ==
  /\ UNION {{<<x[2], t>> : x \in tableData[t].spill} : t \in DOMAIN tableData}
       = UNION {{<<s.id, t>> : t \in s.tables} : s \in spilledData \cup Spilling}
  /\ \A k \in DOMAIN syncing :
       syncing[k].remaining = {tasks[j].id : j \in {j \in DOMAIN tasks : tasks[j].sync = syncing[k].id}}
  /\ \A j \in DOMAIN tasks : tasks[j].sync # 0 => \E k \in DOMAIN syncing : syncing[k].id = tasks[j].sync
=============================================================================
