------------------------------ MODULE MCSweep ------------------------------
(***************************************************************************)
(* All files of up to MaxLines lines of a few kinds, and two of twenty     *)
(* records at and below an accuracy of 95%.                                *)
(***************************************************************************)
EXTENDS Sweep

CONSTANT MaxLines

Rec(tokens, acceptable, error, category) ==
    [kind |-> "record", tokens |-> tokens, acceptable |-> acceptable, error |-> error,
     category |-> category, draftUsed |-> Len(tokens), heavyUsed |-> 2]
Other(kind) == [kind |-> kind]

\* Cold; an early spike; a hot window after a cold start; hot for low thresholds.
Drafts == {<<0, 0, 1>>, <<5, 0>>, <<0, 0, 3, 3>>, <<1, 2>>}
MCLines == {Rec(d, a, FALSE, "facts") : d \in Drafts, a \in BOOLEAN}
           \cup {Rec(<<5>>, TRUE, TRUE, "code"), Rec(<<>>, TRUE, FALSE, "code")}
           \cup {Other("blank"), Other("malformed"), Other("long")}

TwentyWith(bad) == [i \in 1..20 |-> Rec(<<0, 0, 1>>, i > bad, FALSE, "facts")]
MCInputs == UNION {[1..n -> MCLines] : n \in 0..MaxLines} \cup {TwentyWith(1), TwentyWith(2)}
MCSweeps == {<<1, 2, 4>>, <<4, 2, 1>>, <<2, 0>>}
=============================================================================
