--------------------------- MODULE WindowSession ---------------------------
(***************************************************************************)
(* One window over a sequence of Add and Reset calls, with what its caller *)
(* saw: the entropies added since the last Reset and the decision returned *)
(* for each.  Its names are not those of the modules that use a window of  *)
(* their own, so that the lemmas proved beside it serve them too.          *)
(***************************************************************************)
EXTENDS EntropyWindow

VARIABLES
    limit,          \* its Threshold
    sessionWindow,  \* the Window
    seen,           \* the entropies added since the last Reset
    decisions       \* the decisions returned for them

sessionVars == <<limit, sessionWindow, seen, decisions>>

Decision == {"continue", "escalate"}

\* Any threshold that config.validate lets pass.
SessionInit ==
    /\ limit \in Nat \ {0}
    /\ sessionWindow = NewWindow
    /\ seen = << >>
    /\ decisions = << >>

Add(e) ==
    LET w == Slide(sessionWindow, e) IN
    /\ sessionWindow' = w
    /\ seen' = Append(seen, e)
    /\ decisions' = Append(decisions,
                           IF Escalates(w, e, limit) THEN "escalate" ELSE "continue")
    /\ UNCHANGED limit

\* Mutant of Reset: the ring index is left where it was.
ResetKeepsPos ==
    /\ sessionWindow' = [NewWindow EXCEPT !.pos = sessionWindow.pos]
    /\ seen' = << >>
    /\ decisions' = << >>
    /\ UNCHANGED limit

Reset ==
    /\ sessionWindow' = NewWindow
    /\ seen' = << >>
    /\ decisions' = << >>
    /\ UNCHANGED limit

SessionNext == Reset \/ \E e \in Nat : Add(e)

SessionSpec == SessionInit /\ [][SessionNext]_sessionVars

-----------------------------------------------------------------------------
\* The window is what the code's struct can hold, and the caller has one
\* decision per entropy it added.
SessionTypeOK ==
    /\ limit \in Nat \ {0}
    /\ sessionWindow \in Window
    /\ seen \in Seq(Nat)
    /\ decisions \in Seq(Decision)
    /\ Len(decisions) = Len(seen)

\* The last k elements of a sequence.
LastOf(s, k) == SubSeq(s, Len(s) - k + 1, Len(s))

MinOf(a, b) == IF a < b THEN a ELSE b

\* The running sum, which Add maintains by subtracting the entropy it
\* overwrites, is at all times the sum of the last Size entropies, also after
\* the ring has wrapped several times and after a Reset.
SumIsOfLastEntropies ==
    sessionWindow.sum = Total(LastOf(seen, MinOf(Len(seen), Size)))

\* Every decision ever returned is the reference decision on the history, which has no
\* ring and no running sum.
DecisionsAreReference ==
    \A n \in 1..Len(seen) :
        decisions[n] = "escalate" <=> Hot(seen, n, limit)

\* The ring buffer holds the most recent entropies, each at its index modulo
\* Size: position (n-1) % Size holds the n-th entropy until Size later ones
\* were added.
RingHoldsRecent ==
    /\ sessionWindow.count = Len(seen)
    /\ \A n \in 1..Len(seen) :
         n > Len(seen) - Size => sessionWindow.buf[(n - 1) % Size] = seen[n]

\* While no Add has asked for escalation the mean of the window is at most the
\* threshold, also while the window is still filling, provided the early exit
\* covers the filling (EarlyExitCount >= Size - 1, as in the defaults, 10 and 10).
QuietMeansCold ==
    (EarlyExitCount >= Size - 1 /\ \A n \in 1..Len(decisions) : decisions[n] = "continue")
        => sessionWindow.sum <= limit * Occupied(sessionWindow)
=============================================================================
