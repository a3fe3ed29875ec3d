---------------------------- MODULE DurableState ----------------------------
(***************************************************************************)
(* What the state store promises to the streaming jobs of the databases: a *)
(* log of writes of which a growing part is durable.  A checkpoint makes   *)
(* all writes of a database up to an epoch durable at once, and nothing    *)
(* else; no write is added to an epoch that is durable; a recovery rolls   *)
(* back to the last checkpoint of the database, and touches no other one.  *)
(*                                                                         *)
(* This module models no code of its own: StateStoreNode implements it.    *)
(***************************************************************************)
EXTENDS Naturals

CONSTANTS Owner,    \* databases
          TablesOf, \* the tables of each database
          Id,       \* ids of writes
          Epoch     \* epochs, positive numbers, counted per database

VARIABLES log,       \* writes [id, table, epoch] that were not rolled back
          committed, \* the last durable epoch of each database
          durable    \* ids of the durable writes

vars == <<log, committed, durable>>

Init ==
  /\ log = {}
  /\ committed = [o \in Owner |-> 0]
  /\ durable = {}

Write(id, o, t, e) ==
  /\ e > committed[o]
  /\ \A x \in log : x.id # id
  /\ log' = log \cup {[id |-> id, table |-> t, epoch |-> e]}
  /\ UNCHANGED <<committed, durable>>

Checkpoint(o, e) ==
  /\ e > committed[o]
  /\ committed' = [committed EXCEPT ![o] = e]
  /\ durable' = durable \cup {x.id : x \in {y \in log : y.table \in TablesOf[o] /\ y.epoch <= e}}
  /\ UNCHANGED log

Rollback(o) ==
  /\ log' = {x \in log : x.table \in TablesOf[o] => x.epoch <= committed[o]}
  /\ UNCHANGED <<committed, durable>>

Next ==
  \E o \in Owner :
    \/ Rollback(o)
    \/ \E e \in Epoch : \/ Checkpoint(o, e)
                        \/ \E id \in Id, t \in TablesOf[o] : Write(id, o, t, e)

Spec == Init /\ [][Next]_vars
=============================================================================
