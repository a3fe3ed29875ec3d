------------------------ MODULE MCCheckpointControl ------------------------
(***************************************************************************)
(* Instances of CheckpointControl for TLC.                                 *)
(***************************************************************************)
EXTENDS CheckpointControl, TLC

CONSTANTS d1, d2, w1, w2, j1, j2

\* One batch per command of a client; a configuration change is a pause, the
\* change and a resume (run_config_change_command_with_pause).
ConfigChange == <<"ConfigPause", "Reschedule", "ConfigResume">>

DdlBatches    == {<<k>> : k \in {"Flush", "Resume", "Create", "Drop"}}
ConfigBatches == {<<"Create">>, ConfigChange}
AllBatches    == {<<k>> : k \in {"Flush", "Pause", "Resume", "Create", "Drop"}}

\* Each database has a job of its own.
OwnJobs == (j1 :> d1) @@ (j2 :> d2)
\* All jobs are in one database.
OneDatabase == (j1 :> d1)
=============================================================================
