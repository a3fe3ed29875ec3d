--------------------- MODULE SnapshotBackfillWhenPaused ---------------------
(***************************************************************************)
(* CheckpointControl with one more command: creating a job by snapshot     *)
(* backfill in a database that is paused.  handle_new_barrier refuses it,  *)
(* but only after next_barrier_info has moved the database to the next     *)
(* epoch.  (Creating such a job in a database that is not paused starts a  *)
(* CreatingStreamingJobControl, which is not modelled.)                    *)
(***************************************************************************)
EXTENDS CheckpointControl

\* The state that next_barrier_info leaves behind when no barrier follows: the
\* command needs a checkpoint, so the pending epochs are taken.
RefusedAfterNextBarrierInfo(s, curr) == [s EXCEPT !.prev = curr, !.pending = <<>>]

\* next_barrier takes the command, and handle_new_barrier reports to its client
\* that the job cannot be created when paused; the other databases get a barrier.
CreateSnapshotBackfillWhenPaused(d) ==
  LET curr == clock + 1
  IN
  /\ CanInject /\ ticks < MaxTicks
  /\ d \in running /\ db[d].paused # "none"
  /\ ticks' = ticks + 1
  /\ UpdateNumUncheckpointedBarrier(TRUE)
  /\ InjectBarrier(running \ {d}, [db EXCEPT ![d] = RefusedAfterNextBarrierInfo(@, curr)],
                   NoCommands, TRUE, curr)
  /\ UNCHANGED <<running, taskVars, connected, doneAt, schedVars, failures>>

NextWithSnapshotBackfill ==
  \/ Next
  \/ \E d \in Database : CreateSnapshotBackfillWhenPaused(d)

SpecWithSnapshotBackfill == Init /\ [][NextWithSnapshotBackfill]_vars

\* enqueue_command asserts that a barrier continues the one before it: its
\* prev_epoch is the curr_epoch of the last barrier in the queue.
BarrierChain ==
  \A d \in running : \A i \in 2..Len(db[d].queue) :
    db[d].queue[i].prev = db[d].queue[i - 1].curr
=============================================================================
