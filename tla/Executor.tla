------------------------------ MODULE Executor ------------------------------
(***************************************************************************)
(* Speculative execution of one request, internal/parallel/executor.go.    *)
(*                                                                         *)
(* Execute reads the drafter's stream, watches the entropy of its tokens,  *)
(* starts the heavyweight model when a token passes the soft threshold and *)
(* ends the request in one of the states of Lifecycle.  It runs beside the *)
(* goroutines of both streams (ChunkStream), the goroutines it leaves      *)
(* behind to drain a channel, and a client that may go away at any time.   *)
(***************************************************************************)
EXTENDS EntropyWindow, ChunkStream, FiniteSets

CONSTANTS
    Threshold,      \* WindowConfig.Threshold, fixed point
    SoftThreshold   \* Threshold * SoftThresholdMult

\* validate: 0 < Threshold, 0 < SoftThresholdMult < 1.  There are two streams.
ASSUME ExecutorAssumption ==
    /\ Threshold \in Nat \ {0}
    /\ SoftThreshold \in Nat \ {0}
    /\ SoftThreshold < Threshold
    /\ Streams = {"drafter", "heavyweight"}

VARIABLES
    pc,             \* where Execute is
    todo,           \* entropies of the current chunk not yet looked at
    window,         \* the entropy window
    state,          \* result.State
    softTriggered,  \* the local variable
    heavyHeld,      \* heavyCh and heavyCancel are set (they are set together)
    entropies,      \* result.Entropies
    draftLen,       \* length of result.DraftChunks
    outcome,        \* what Execute returned
    handed,         \* result.HeavyCh and HeavyCancel are set
    drained,        \* the channels a background goroutine is emptying
    starts,         \* successful calls of heavyweight.Stream
    metrics         \* the recorder's counters for this request

execVars == <<pc, todo, window, state, softTriggered, heavyHeld, entropies,
              draftLen, outcome, handed, drained, starts, metrics>>
vars == <<streamVars, execVars>>

D == "drafter"
H == "heavyweight"

\* "select": at the select of the loop; "tokens": in the loop over a chunk's
\* tokens; "starting": in heavyweight.Stream; "returned".
ExecuteAt == {"select", "tokens", "starting", "returned"}
State == {"drafting", "speculating", "escalated", "draft_accepted"}
Outcome == {"none", "escalated", "draft_accepted", "ctx_error", "drafter_error"}

\* The handler calls Execute with the drafter's stream just opened.
Init ==
    /\ producer = [s \in Streams |-> IF s = D THEN "scan" ELSE "idle"]
    /\ channel = [s \in Streams |-> << >>]
    /\ offer = [s \in Streams |-> << >>]
    /\ read = [s \in Streams |-> 0]
    /\ ending = [s \in Streams |-> "open"]
    /\ cancelled = [s \in Streams |-> FALSE]
    /\ pc = "select"
    /\ todo = << >>
    /\ window = NewWindow
    /\ state = "drafting"
    /\ softTriggered = FALSE
    /\ heavyHeld = FALSE
    /\ entropies = << >>
    /\ draftLen = 0
    /\ outcome = "none"
    /\ handed = FALSE
    /\ drained = {}
    /\ starts = 0
    /\ metrics = [trigger |-> 0, cancellation |-> 0, saved |-> 0]

-----------------------------------------------------------------------------
(* The client, the streams and the draining goroutines.                    *)

\* The client disconnects, or the handler returns: the request's context and
\* the heavyweight's, derived from it, are cancelled.
ClientGone ==
    /\ ~cancelled[D]
    /\ cancelled' = [s \in Streams |-> TRUE]
    /\ UNCHANGED <<producer, channel, offer, read, ending, execVars>>

ProduceStep(s) == Produce(s) /\ UNCHANGED execVars

Drain(s) ==
    /\ s \in drained
    /\ Receive(s)
    /\ UNCHANGED <<cancelled, execVars>>

-----------------------------------------------------------------------------
(* Execute.                                                                *)

\* Mutants of ReleaseHeavy: the call is cancelled and its channel left full; it
\* is drained and runs to its end.
ReleaseHeavyNoDrain ==
    /\ cancelled' = IF heavyHeld THEN [cancelled EXCEPT ![H] = TRUE] ELSE cancelled
    /\ UNCHANGED drained
ReleaseHeavyNoCancel ==
    /\ drained' = IF heavyHeld THEN drained \cup {H} ELSE drained
    /\ UNCHANGED cancelled

\* heavyCancel() and drainChannel(heavyCh), when they are set.
ReleaseHeavy ==
    IF heavyHeld
    THEN /\ cancelled' = [cancelled EXCEPT ![H] = TRUE]
         /\ drained' = drained \cup {H}
    ELSE UNCHANGED <<cancelled, drained>>

Return(what) ==
    /\ pc' = "returned"
    /\ outcome' = what

\* case <-ctx.Done()
CtxDone ==
    /\ pc = "select"
    /\ cancelled[D]
    /\ ReleaseHeavy
    /\ Return("ctx_error")
    /\ UNCHANGED <<producer, channel, offer, read, ending, todo, window, state,
                   softTriggered, heavyHeld, entropies, draftLen, handed,
                   starts, metrics>>

\* The drafter's channel is closed: the draft is accepted and the heavyweight
\* call, if there is one, is stopped.
DrafterClosed ==
    /\ pc = "select"
    /\ Closed(D)
    /\ IF softTriggered /\ heavyHeld
       THEN /\ metrics' = [metrics EXCEPT !.cancellation = @ + 1]
            /\ ReleaseHeavy
       ELSE UNCHANGED <<metrics, cancelled, drained>>
    /\ state' = "draft_accepted"
    /\ Return("draft_accepted")
    /\ UNCHANGED <<producer, channel, offer, read, ending, todo, window,
                   softTriggered, heavyHeld, entropies, draftLen, handed, starts>>

\* The drafter's stream broke.
DrafterErr ==
    /\ pc = "select"
    /\ Receive(D)
    /\ Received(D).err
    /\ ReleaseHeavy
    /\ Return("drafter_error")
    /\ UNCHANGED <<todo, window, state, softTriggered, heavyHeld, entropies,
                   draftLen, handed, starts, metrics>>

\* Where the loop goes on with the given tokens left in the chunk.
ResumeWith(tokens) == IF tokens = << >> THEN "select" ELSE "tokens"

\* A chunk joins the draft, and its token entropies are computed.
DrafterChunk ==
    /\ pc = "select"
    /\ Receive(D)
    /\ ~Received(D).err
    /\ draftLen' = draftLen + 1
    /\ todo' = Received(D).tokens
    /\ pc' = ResumeWith(todo')
    /\ UNCHANGED <<cancelled, window, state, softTriggered, heavyHeld,
                   entropies, outcome, handed, drained, starts, metrics>>

\* What every token does: its entropy is recorded and enters the window.
TakeToken(entropy) ==
    /\ pc = "tokens"
    /\ entropies' = Append(entropies, entropy)
    /\ window' = Slide(window, entropy)
    /\ todo' = Tail(todo)
    /\ UNCHANGED <<streamVars, draftLen, heavyHeld, starts>>

\* The window asks for escalation: a heavyweight call under way is handed to
\* the caller, and the rest of the draft is drained behind its back.
Escalate ==
    LET e == Head(todo) IN
    /\ TakeToken(e)
    /\ Escalates(window', e, Threshold)
    /\ state' = "escalated"
    /\ IF softTriggered /\ heavyHeld
       THEN /\ handed' = TRUE
            /\ metrics' = [metrics EXCEPT !.saved = @ + 1]
       ELSE UNCHANGED <<handed, metrics>>
    /\ drained' = drained \cup {D}
    /\ Return("escalated")
    /\ UNCHANGED softTriggered

\* Mutant of FiresSoft: every hot token fires.
FiresAgain(entropy) == entropy > SoftThreshold

\* The condition of the soft trigger.
FiresSoft(entropy) == ~softTriggered /\ entropy > SoftThreshold

\* The first token above the soft threshold starts the heavyweight model.
SoftTrigger ==
    LET e == Head(todo) IN
    /\ TakeToken(e)
    /\ ~Escalates(window', e, Threshold)
    /\ FiresSoft(e)
    /\ softTriggered' = TRUE
    /\ metrics' = [metrics EXCEPT !.trigger = @ + 1]
    /\ pc' = "starting"
    /\ UNCHANGED <<state, outcome, handed, drained>>

\* Any other token.
PassToken ==
    LET e == Head(todo) IN
    /\ TakeToken(e)
    /\ ~Escalates(window', e, Threshold)
    /\ ~FiresSoft(e)
    /\ pc' = ResumeWith(todo')
    /\ UNCHANGED <<state, softTriggered, outcome, handed, drained, metrics>>

\* heavyweight.Stream succeeds: Execute holds its channel and its cancel.  A
\* request is not sent under a context that is already cancelled.
StartHeavy ==
    /\ pc = "starting"
    /\ ~cancelled[D]
    /\ Open(H)
    /\ heavyHeld' = TRUE
    /\ starts' = starts + 1
    /\ state' = "speculating"
    /\ pc' = ResumeWith(todo)
    /\ UNCHANGED <<cancelled, todo, window, softTriggered, entropies, draftLen,
                   outcome, handed, drained, metrics>>

\* Mutant of StartFails: softTriggered is not reset.
StartFailsForGood ==
    /\ pc = "starting"
    /\ pc' = ResumeWith(todo)
    /\ UNCHANGED <<streamVars, todo, window, state, softTriggered, heavyHeld,
                   entropies, draftLen, outcome, handed, drained, starts, metrics>>

\* Mutant of StartFails: the continue leaves the chunk, not its current token.
StartFailsSkipsChunk ==
    /\ pc = "starting"
    /\ softTriggered' = FALSE
    /\ pc' = "select"
    /\ UNCHANGED <<streamVars, todo, window, state, heavyHeld, entropies,
                   draftLen, outcome, handed, drained, starts, metrics>>

\* heavyweight.Stream fails: a later token may trigger again.
StartFails ==
    /\ pc = "starting"
    /\ softTriggered' = FALSE
    /\ pc' = ResumeWith(todo)
    /\ UNCHANGED <<streamVars, todo, window, state, heavyHeld, entropies,
                   draftLen, outcome, handed, drained, starts, metrics>>

Token == Escalate \/ SoftTrigger \/ PassToken
Start == StartHeavy \/ StartFails
Select == CtxDone \/ DrafterClosed \/ DrafterErr \/ DrafterChunk

Execute == Select \/ Token \/ Start

Next ==
    \/ ClientGone
    \/ \E s \in Streams : ProduceStep(s)
    \/ \E s \in Streams : Drain(s)
    \/ Execute

Spec == Init /\ [][Next]_vars

\* Execute never waits on anything but the drafter's stream and the start of
\* the heavyweight call; the http.Client timeout bounds that call and every
\* read of a body, so the scanners move too; the goroutines are scheduled
\* fairly by the runtime.
Fairness ==
    /\ WF_vars(Execute)
    /\ \A s \in {"drafter", "heavyweight"} :
         /\ WF_vars(ProduceStep(s))
         /\ WF_vars(Drain(s))

FairSpec == Spec /\ Fairness

-----------------------------------------------------------------------------
(* Properties.                                                             *)

\* Every variable is in its type.
TypeOK ==
    /\ StreamTypeOK
    /\ pc \in ExecuteAt
    /\ todo \in Seq(Nat)
    /\ window \in Window
    /\ state \in State
    /\ softTriggered \in BOOLEAN
    /\ heavyHeld \in BOOLEAN
    /\ entropies \in Seq(Nat)
    /\ draftLen \in Nat
    /\ outcome \in Outcome
    /\ handed \in BOOLEAN
    /\ drained \subseteq Streams
    /\ starts \in Nat
    /\ metrics \in [trigger : Nat, cancellation : Nat, saved : Nat]

\* A heavyweight call that was started is, once Execute has returned, either
\* the caller's (handed over, its channel untouched) or stopped (cancelled and
\* drained), never both and never neither, on every return path; and a caller
\* is handed nothing that was not started.
HeavyHasOneOwner ==
    outcome # "none" =>
        /\ heavyHeld <=> producer[H] # "idle"
        /\ heavyHeld => (handed <=> H \notin drained)
        /\ H \in drained => cancelled[H]
        /\ handed => heavyHeld /\ outcome = "escalated"

\* At most one heavyweight call is up in a request, however often its start
\* failed before and however hot the later tokens are.
AtMostOneHeavy == starts <= 1 /\ (starts = 1 <=> heavyHeld)

\* Until the request is decided the speculative call is neither cancelled by
\* Execute nor read from: the chunks it sent are all still there.
\* The same holds of a call handed to the caller until the caller reads it: its
\* stream is whole, so the caller misses none of the head start.
HeadStartIsWhole ==
    (heavyHeld /\ (outcome = "none" \/ handed)) =>
        /\ cancelled[H] = cancelled[D]
        /\ Len(channel[H]) + Unsent(H) = read[H] + ErrSent(H)

\* The speculation counters add up: a trigger that is not being served either
\* started a call or failed to, a cancellation is recorded exactly when the
\* draft is accepted over a running call, and saved latency exactly when a call
\* is handed over.
SpeculationIsAccounted ==
    /\ softTriggered <=> (heavyHeld \/ pc = "starting")
    /\ metrics.trigger >= starts + (IF pc = "starting" THEN 1 ELSE 0)
    /\ metrics.cancellation = IF outcome = "draft_accepted" THEN starts ELSE 0
    /\ metrics.saved = IF outcome = "escalated" THEN starts ELSE 0

\* An accepted draft whose stream was not cut by a cancellation has all the
\* chunks the upstream sent, and every token of it was looked at.
AcceptedDraftIsWhole ==
    outcome = "draft_accepted" /\ ending[D] # "cancelled" =>
        /\ ending[D] \in {"done", "eof"}
        /\ draftLen = read[D]
        /\ todo = << >>

\* Where the early exit covers the filling of the window, the mean of the last
\* tokens of an accepted draft is at most the threshold, however short it is.
AcceptedDraftIsCold ==
    outcome = "draft_accepted" /\ EarlyExitCount >= Size - 1 =>
        window.sum <= Threshold * Occupied(window)

\* Execute comes back from every request.
ExecuteReturns == <>(outcome # "none")

\* The drafter's goroutine ends, except in one case: Execute left on ctx.Done
\* without draining, and the goroutine has an error for a full channel, which
\* it sends outside any select.
DrafterEndsOrIsStuck ==
    <>[](\/ producer[D] = "ended"
         \/ outcome = "ctx_error" /\ StuckOnFault(D))

\* The goroutine of a heavyweight call that was not handed over always ends.
ReleasedHeavyEnds ==
    [](outcome # "none" /\ heavyHeld /\ ~handed => <>(producer[H] = "ended"))

\* Execute implements the request lifecycle: its abstract state ...
phaseBar ==
    CASE outcome = "none" -> state
      [] outcome \in {"escalated", "draft_accepted"} -> outcome
      [] OTHER -> "failed"
heavyBar ==
    CASE ~heavyHeld -> "none"
      [] heavyHeld /\ handed -> "handed"
      [] heavyHeld /\ ~handed -> IF H \in drained THEN "cancelled" ELSE "running"

L == INSTANCE Lifecycle WITH phase <- phaseBar, heavy <- heavyBar

\* ... takes only the steps of Lifecycle, and reaches one of its final states.
ImplementsLifecycle == L!FairSpec

\* What the serial router would know of this request: the drafter's stream, and
\* Execute without its speculation.
drafterOnly(f) == [s \in {D} |-> f[s]]
pcRoute == IF pc = "starting" THEN ResumeWith(todo) ELSE pc
outcomeRoute == CASE outcome = "escalated" -> "escalate"
                  [] outcome = "draft_accepted" -> "continue"
                  [] OTHER -> outcome

R == INSTANCE Route WITH
        Streams <- {D}, Chunks <- drafterOnly(Chunks),
        producer <- drafterOnly(producer), channel <- drafterOnly(channel),
        offer <- drafterOnly(offer), read <- drafterOnly(read),
        ending <- drafterOnly(ending), cancelled <- drafterOnly(cancelled),
        pc <- pcRoute, outcome <- outcomeRoute, drained <- drained \cap {D}

\* Speculation decides nothing: on the drafter's side Execute takes only the
\* steps of the serial router, so both modes route a draft in the same way,
\* whatever the heavyweight call does and however often its start fails.
RoutesLikeTheRouter == R!Spec

\* internal/parallel/executor_test.go:349: a cancelled request is an error.
CancelledRequestIsAnError ==
    outcome = "draft_accepted" => ending[D] # "cancelled"
=============================================================================
