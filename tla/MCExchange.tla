----------------------------- MODULE MCExchange -----------------------------
(***************************************************************************)
(* Instances of Exchange for TLC.                                          *)
(***************************************************************************)
EXTENDS Exchange

\* An empty chunk, small ones, and one larger than the channel allows.
MCCardinalities == {0, 1, 2, 9}
=============================================================================
