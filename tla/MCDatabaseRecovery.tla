------------------------- MODULE MCDatabaseRecovery -------------------------
(***************************************************************************)
(* Instances of DatabaseRecovery for TLC.                                  *)
(***************************************************************************)
EXTENDS DatabaseRecovery, TLC

CONSTANTS w1, w2
=============================================================================
