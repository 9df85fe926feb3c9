------------------------------ MODULE MCRoute ------------------------------
(***************************************************************************)
(* A small serial request for TLC: the drafter of MCExecutor.              *)
(***************************************************************************)
EXTENDS Route

MCStreams == {D}
MCChunks == [s \in MCStreams |-> { <<>>, <<0>>, <<2>>, <<3>>, <<2, 0>>, <<1, 3>> }]
=============================================================================
