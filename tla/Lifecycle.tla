----------------------------- MODULE Lifecycle -----------------------------
(***************************************************************************)
(* What speculative execution promises of one request: the states of       *)
(* internal/parallel/state.go, and with each of them what happened to the  *)
(* heavyweight call.  A call that was started is never forgotten: it       *)
(* is handed to the caller by an escalation, or cancelled.                 *)
(***************************************************************************)
VARIABLES
    phase,  \* State, or "failed" when Execute returns an error
    heavy   \* the heavyweight call of this request

vars == <<phase, heavy>>

Final == {"escalated", "draft_accepted", "failed"}

TypeOK ==
    /\ phase \in {"drafting", "speculating"} \cup Final
    /\ heavy \in {"none", "running", "handed", "cancelled"}

Init ==
    /\ phase = "drafting"
    /\ heavy = "none"

\* The soft threshold fired and the heavyweight call is up.
Speculate ==
    /\ phase = "drafting"
    /\ phase' = "speculating"
    /\ heavy' = "running"

\* What becomes of the call in a final state.
Settle(fate) == heavy' = IF heavy = "running" THEN fate ELSE heavy

Escalate ==
    /\ phase \notin Final
    /\ phase' = "escalated"
    /\ Settle("handed")

Accept ==
    /\ phase \notin Final
    /\ phase' = "draft_accepted"
    /\ Settle("cancelled")

Fail ==
    /\ phase \notin Final
    /\ phase' = "failed"
    /\ Settle("cancelled")

Next == Speculate \/ Escalate \/ Accept \/ Fail

\* Every request comes to an end.
Ends == Escalate \/ Accept \/ Fail

Spec == Init /\ [][Next]_vars

FairSpec == Spec /\ WF_vars(Ends)
=============================================================================
