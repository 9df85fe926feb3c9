------------------------------ MODULE MCCollect ------------------------------
(***************************************************************************)
(* Three prompts and three runs for TLC.                                   *)
(***************************************************************************)
EXTENDS Collect

CONSTANTS p1, p2, p3

MCPrompts == {p1, p2, p3}
MCDataset == <<p1, p2, p3>>
=============================================================================
