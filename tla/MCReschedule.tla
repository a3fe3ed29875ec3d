---------------------------- MODULE MCReschedule ----------------------------
(***************************************************************************)
(* An instance of Reschedule for TLC: two fragments of two actors each,    *)
(* with one more id for each.                                              *)
(***************************************************************************)
EXTENDS Reschedule

CONSTANTS u1, u2, u3, d1, d2, d3, v1, v2

FirstConfig == [up |-> {u1, u2}, down |-> {d1, d2}, map |-> (v1 :> d1) @@ (v2 :> d2)]

TargetConfigs ==
  { \* all actors are replaced
    [up |-> {u3}, down |-> {d3}, map |-> (v1 :> d3) @@ (v2 :> d3)],
    \* an upstream actor is replaced, the downstream fragment shrinks
    [up |-> {u2, u3}, down |-> {d1}, map |-> (v1 :> d1) @@ (v2 :> d1)],
    \* the upstream fragment shrinks, a downstream actor is replaced and vnodes move
    [up |-> {u2}, down |-> {d2, d3}, map |-> (v1 :> d2) @@ (v2 :> d3)],
    \* only the downstream fragment is rescheduled: an actor is replaced
    [up |-> {u1, u2}, down |-> {d1, d3}, map |-> (v1 :> d1) @@ (v2 :> d3)] }
=============================================================================
