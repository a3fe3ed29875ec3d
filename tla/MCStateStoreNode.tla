-------------------------- MODULE MCStateStoreNode --------------------------
(***************************************************************************)
(* An instance of StateStoreNode for TLC: two databases.                   *)
(***************************************************************************)
EXTENDS StateStoreNode

CONSTANTS g1, g2, t1, t2, t3, i1, i2, i3, i4

Tables      == (g1 :> {t1, t2}) @@ (g2 :> {t3})
Owner       == (i1 :> t1) @@ (i2 :> t2) @@ (i3 :> t1) @@ (i4 :> t3)
Replacement == i1 :> i3
Epochs      == (g1 :> 3) @@ (g2 :> 1)
=============================================================================
