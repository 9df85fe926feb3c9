---------------------------- MODULE MCChatRequest ----------------------------
(***************************************************************************)
(* A small request for TLC, in every mode: with and without speculation,   *)
(* with and without a cache, as JSON and as events.                        *)
(***************************************************************************)
EXTENDS ChatRequest

MCStreams == {H}
MCChunks == [s \in MCStreams |-> { <<>> }]
=============================================================================
