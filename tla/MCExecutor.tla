----------------------------- MODULE MCExecutor -----------------------------
(***************************************************************************)
(* A small request for TLC: a window of two tokens, entropies that are     *)
(* cold (0), exactly at the soft threshold (1), above it (2) and above the *)
(* hard threshold (3), chunks of none, one and two tokens, and a           *)
(* heavyweight whose chunks carry no entropies.                            *)
(***************************************************************************)
EXTENDS Executor

MCStreams == {D, H}
MCChunks == [s \in MCStreams |->
               IF s = D THEN { <<>>, <<0>>, <<2>>, <<3>>, <<2, 0>>, <<1, 3>> }
                        ELSE { <<>> }]
=============================================================================
