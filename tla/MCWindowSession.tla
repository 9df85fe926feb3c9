-------------------------- MODULE MCWindowSession --------------------------
(***************************************************************************)
(* Small windows for TLC: 3 slots, entropies below, at and above the       *)
(* threshold, and enough tokens for the ring to wrap twice.                *)
(***************************************************************************)
EXTENDS WindowSession

CONSTANTS
    Entropies,  \* the entropies a token may have, a small set
    Thresholds, \* the thresholds a window may have
    MaxTokens   \* bound: Add calls between two Resets

MCEntropies == {0, 2, 3, 5}

MCNext ==
    \/ Reset
    \/ \E e \in Entropies : Len(seen) < MaxTokens /\ Add(e)

\* SessionInit, with a threshold of Thresholds.
MCInit ==
    /\ limit \in Thresholds
    /\ sessionWindow = NewWindow
    /\ seen = << >>
    /\ decisions = << >>

MCSpec == MCInit /\ [][MCNext]_sessionVars
=============================================================================
