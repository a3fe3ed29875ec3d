-------------------- MODULE MCSnapshotBackfillWhenPaused --------------------
(***************************************************************************)
(* An instance of SnapshotBackfillWhenPaused for TLC: one database that    *)
(* clients may pause.                                                      *)
(***************************************************************************)
EXTENDS SnapshotBackfillWhenPaused, TLC

CONSTANTS d1, w1, j1

PauseOnly == {<<"Pause">>}
OneJob    == (j1 :> d1)
=============================================================================
