--------------------------- MODULE EntropyWindow ---------------------------
(***************************************************************************)
(* The sliding window of token entropies, internal/analysis/window.go.    *)
(*                                                                         *)
(* A window is a ring buffer of Size entropies with a running sum.  An     *)
(* entropy is an integer: the float64 bits of the code are scaled to a     *)
(* fixed point, so the model has the comparisons and the incremental sum   *)
(* of the code but not its rounding.  The operators carry no state and     *)
(* take the threshold as a parameter, so that executor, router and sweep   *)
(* share them.                                                             *)
(***************************************************************************)
EXTENDS Integers, Sequences

CONSTANTS
    Size,           \* WindowConfig.Size
    EarlyExitCount  \* WindowConfig.EarlyExitCount

\* What config.validate establishes (window_size >= 1); the early exit count is
\* not validated and may be any integer.
ASSUME WindowAssumption ==
    /\ Size \in Nat \ {0}
    /\ EarlyExitCount \in Int

Window == [ buf    : [0..Size-1 -> Nat],
            pos    : 0..Size-1,
            count  : Nat,
            sum    : Int,
            filled : BOOLEAN ]

\* NewWindow, and what Reset leaves behind.
NewWindow == [ buf    |-> [i \in 0..Size-1 |-> 0],
               pos    |-> 0,
               count  |-> 0,
               sum    |-> 0,
               filled |-> FALSE ]

\* Mutants of Slide: the ring index does not wrap; the overwritten entropy stays
\* in the running sum.
SlideNoWrap(w, entropy) ==
    [ buf    |-> [w.buf EXCEPT ![w.pos] = entropy],
      pos    |-> w.pos + 1,
      count  |-> w.count + 1,
      sum    |-> w.sum - (IF w.filled THEN w.buf[w.pos] ELSE 0) + entropy,
      filled |-> w.filled \/ w.count + 1 >= Size ]

SlideNoSubtract(w, entropy) ==
    [ buf    |-> [w.buf EXCEPT ![w.pos] = entropy],
      pos    |-> (w.pos + 1) % Size,
      count  |-> w.count + 1,
      sum    |-> w.sum + entropy,
      filled |-> w.filled \/ w.count + 1 >= Size ]

\* The part of Window.Add that changes the window.
Slide(w, entropy) ==
    [ buf    |-> [w.buf EXCEPT ![w.pos] = entropy],
      pos    |-> (w.pos + 1) % Size,
      count  |-> w.count + 1,
      sum    |-> w.sum - (IF w.filled THEN w.buf[w.pos] ELSE 0) + entropy,
      filled |-> w.filled \/ w.count + 1 >= Size ]

\* How many entropies the window holds: the divisor in Window.Average.
Occupied(w) == IF w.count > Size THEN Size ELSE w.count

\* Average() > limit, without the division; the average of no entropy is 0.
AverageExceeds(w, limit) ==
    IF Occupied(w) = 0 THEN 0 > limit ELSE w.sum > limit * Occupied(w)

\* Mutants of Escalates: the early exit is off by one; there is no early exit.
EscalatesOffByOne(w, entropy, threshold) ==
    \/ w.count < EarlyExitCount /\ entropy > threshold
    \/ w.filled /\ AverageExceeds(w, threshold)
EscalatesWhenFilled(w, entropy, threshold) == w.filled /\ AverageExceeds(w, threshold)

\* The decision Window.Add returns once w has taken in entropy.
Escalates(w, entropy, threshold) ==
    \/ w.count <= EarlyExitCount /\ entropy > threshold
    \/ w.filled /\ AverageExceeds(w, threshold)

-----------------------------------------------------------------------------
\* The sums of the first n entropies of s, for every n, and of all of them.
PrefixSums(s) ==
    LET sum[n \in 0..Len(s)] == IF n = 0 THEN 0 ELSE sum[n - 1] + s[n] IN sum
Total(s) == PrefixSums(s)[Len(s)]

\* The reference for the properties, without a ring: after n tokens of s the
\* rule asks for escalation, as the n-th is an early spike or the mean of the
\* last Size is above the threshold.
Hot(s, n, threshold) ==
    \/ n <= EarlyExitCount /\ s[n] > threshold
    \/ n >= Size /\ Total(SubSeq(s, n - Size + 1, n)) > threshold * Size
=============================================================================
