------------------------------- MODULE Route -------------------------------
(***************************************************************************)
(* Serial routing of one request, internal/router/router.go.               *)
(*                                                                         *)
(* Route reads the drafter's stream to its end, or to the first token at   *)
(* which the entropy window asks for the heavyweight; the caller starts    *)
(* the heavyweight itself.  It runs beside the drafter's goroutine, the    *)
(* goroutine that drains what an escalation leaves, and a client that may  *)
(* go away at any time.                                                    *)
(***************************************************************************)
EXTENDS EntropyWindow, ChunkStream

CONSTANT
    Threshold  \* WindowConfig.Threshold, fixed point

\* validate: 0 < Threshold.  There is one stream.
ASSUME RouteAssumption ==
    /\ Threshold \in Nat \ {0}
    /\ Streams = {"drafter"}

VARIABLES
    pc,         \* where Route is
    todo,       \* entropies of the current chunk not yet looked at
    window,     \* the entropy window
    entropies,  \* result.Entropies
    draftLen,   \* length of result.DraftChunks
    outcome,    \* the decision or the error Route returned
    drained     \* the channels a background goroutine is emptying

routeVars == <<pc, todo, window, entropies, draftLen, outcome, drained>>
vars == <<streamVars, routeVars>>

D == "drafter"

\* "select": at the select of the loop; "tokens": in the loop over a chunk's
\* tokens; "returned".
RouteAt == {"select", "tokens", "returned"}
Outcome == {"none", "escalate", "continue", "ctx_error", "drafter_error"}

\* The handler calls Route with the drafter's stream just opened.
Init ==
    /\ producer = [s \in Streams |-> "scan"]
    /\ channel = [s \in Streams |-> << >>]
    /\ offer = [s \in Streams |-> << >>]
    /\ read = [s \in Streams |-> 0]
    /\ ending = [s \in Streams |-> "open"]
    /\ cancelled = [s \in Streams |-> FALSE]
    /\ pc = "select"
    /\ todo = << >>
    /\ window = NewWindow
    /\ entropies = << >>
    /\ draftLen = 0
    /\ outcome = "none"
    /\ drained = {}

-----------------------------------------------------------------------------
\* The client disconnects, or the handler returns.
ClientGone ==
    /\ ~cancelled[D]
    /\ cancelled' = [s \in Streams |-> TRUE]
    /\ UNCHANGED <<producer, channel, offer, read, ending, routeVars>>

ProduceStep == Produce(D) /\ UNCHANGED routeVars

Drain ==
    /\ D \in drained
    /\ Receive(D)
    /\ UNCHANGED <<cancelled, routeVars>>

-----------------------------------------------------------------------------
Return(what) ==
    /\ pc' = "returned"
    /\ outcome' = what

\* case <-ctx.Done()
CtxDone ==
    /\ pc = "select"
    /\ cancelled[D]
    /\ Return("ctx_error")
    /\ UNCHANGED <<streamVars, todo, window, entropies, draftLen, drained>>

\* The drafter's channel is closed: the draft stands.
DrafterClosed ==
    /\ pc = "select"
    /\ Closed(D)
    /\ Return("continue")
    /\ UNCHANGED <<streamVars, todo, window, entropies, draftLen, drained>>

\* The drafter's stream broke.
DrafterErr ==
    /\ pc = "select"
    /\ Receive(D)
    /\ Received(D).err
    /\ Return("drafter_error")
    /\ UNCHANGED <<cancelled, todo, window, entropies, draftLen, drained>>

\* Where the loop goes on with the given tokens left in the chunk.
ResumeWith(tokens) == IF tokens = << >> THEN "select" ELSE "tokens"

\* Mutant of DrafterChunk: a chunk that brings no entropy is skipped before it
\* joins the draft.
DrafterChunkSkipsSilent ==
    /\ pc = "select"
    /\ Receive(D)
    /\ ~Received(D).err
    /\ draftLen' = draftLen + (IF Received(D).tokens = << >> THEN 0 ELSE 1)
    /\ todo' = Received(D).tokens
    /\ pc' = ResumeWith(todo')
    /\ UNCHANGED <<cancelled, window, entropies, outcome, drained>>

\* A chunk joins the draft, and its token entropies are computed.
DrafterChunk ==
    /\ pc = "select"
    /\ Receive(D)
    /\ ~Received(D).err
    /\ draftLen' = draftLen + 1
    /\ todo' = Received(D).tokens
    /\ pc' = ResumeWith(todo')
    /\ UNCHANGED <<cancelled, window, entropies, outcome, drained>>

\* What every token does: its entropy is recorded and enters the window.
TakeToken(entropy) ==
    /\ pc = "tokens"
    /\ entropies' = Append(entropies, entropy)
    /\ window' = Slide(window, entropy)
    /\ todo' = Tail(todo)
    /\ UNCHANGED <<streamVars, draftLen>>

\* Mutant of Escalate: the rest of the draft is left in its channel.
EscalateNoDrain ==
    LET e == Head(todo) IN
    /\ TakeToken(e)
    /\ Escalates(window', e, Threshold)
    /\ Return("escalate")
    /\ UNCHANGED drained

\* The window asks for escalation: the rest of the draft is drained.
Escalate ==
    LET e == Head(todo) IN
    /\ TakeToken(e)
    /\ Escalates(window', e, Threshold)
    /\ drained' = drained \cup {D}
    /\ Return("escalate")

\* Any other token.
PassToken ==
    LET e == Head(todo) IN
    /\ TakeToken(e)
    /\ ~Escalates(window', e, Threshold)
    /\ pc' = ResumeWith(todo')
    /\ UNCHANGED <<outcome, drained>>

\* Route itself.
Step == \/ CtxDone \/ DrafterClosed \/ DrafterErr \/ DrafterChunk
        \/ Escalate \/ PassToken

Next == ClientGone \/ ProduceStep \/ Drain \/ Step

Spec == Init /\ [][Next]_vars

\* As for the executor: the runtime is fair to goroutines, and the http.Client
\* timeout bounds every read of the body.
FairSpec == Spec /\ WF_vars(Step) /\ WF_vars(ProduceStep) /\ WF_vars(Drain)

-----------------------------------------------------------------------------
(* Properties.                                                             *)

\* Every variable is in its type.
TypeOK ==
    /\ StreamTypeOK
    /\ pc \in RouteAt
    /\ todo \in Seq(Nat)
    /\ window \in Window
    /\ entropies \in Seq(Nat)
    /\ draftLen \in Nat
    /\ outcome \in Outcome
    /\ drained \subseteq Streams

\* The decision is the one the routing rule gives for the tokens seen, however
\* they were cut into chunks: Route escalates at the first token at which the
\* rule holds, and lets a draft stand only if it holds at none.
RoutedByTheRule ==
    /\ \A n \in 1..Len(entropies) - 1 : ~Hot(entropies, n, Threshold)
    /\ entropies # << >> => (Hot(entropies, Len(entropies), Threshold) <=> outcome = "escalate")

\* A draft that stands has all the chunks the upstream sent, those without
\* tokens too, unless a cancellation cut its stream short.
DraftIsWhole ==
    outcome = "continue" /\ ending[D] # "cancelled" =>
        /\ ending[D] \in {"done", "eof"}
        /\ draftLen = read[D]
        /\ todo = << >>

\* Route comes back from every request.
RouteReturns == <>(outcome # "none")

\* The drafter's goroutine ends, except when Route left on ctx.Done and the
\* goroutine has an error for a full channel.
DrafterEndsOrIsStuck ==
    <>[](\/ producer[D] = "ended"
         \/ outcome = "ctx_error" /\ StuckOnFault(D))
=============================================================================
