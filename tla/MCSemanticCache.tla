-------------------------- MODULE MCSemanticCache --------------------------
(***************************************************************************)
(* A small cache for TLC: two inserts, whose entries may be of the same    *)
(* prompt or of prompts that are just not similar enough, looked up twice  *)
(* and evicted once.                                                       *)
(***************************************************************************)
EXTENDS SemanticCache, TLC

MCSimilarity == [p \in Prompts |-> [q \in Prompts |-> IF p = q THEN 100 ELSE 94]]

\* Lookups are interchangeable, and so are inserts and, as their similarity is
\* symmetric, prompts.
MCSymmetry == Permutations(Lookups) \cup Permutations(Inserts) \cup Permutations(Prompts)
=============================================================================
