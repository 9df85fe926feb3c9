----------------------------- MODULE ChatRequest -----------------------------
(***************************************************************************)
(* One chat request in the gateway, internal/gateway/handler.go: the cache *)
(* lookup, the drafter's call, the routing in either mode, and the answer  *)
(* as JSON or as server-sent events.                                       *)
(*                                                                         *)
(* The routing is the abstract Lifecycle, which Executor implements; a     *)
(* serial request is one without speculation.  The heavyweight's stream,   *)
(* which the handler may have to read while it is written, is a stream of  *)
(* ChunkStream.                                                            *)
(***************************************************************************)
EXTENDS ChunkStream

ASSUME ChatAssumption == Streams = {"heavyweight"}

VARIABLES
    mode,       \* the configuration, and the kind of response asked for
    pc,         \* where the handler is
    phase,      \* result.State, as in Lifecycle
    heavy,      \* the heavyweight call of Execute, as in Lifecycle
    ctxDone,    \* the request's context is done
    failure,    \* why the last call of a model failed
    status,     \* the status line of the response
    body,       \* where the content of the response comes from
    sent,       \* heavyweight chunks in the response
    broken,     \* a write to the client failed
    decision,   \* RecordRoutingDecision
    counted,    \* the statuses RecordRequest recorded
    errors,     \* the errors RecordError recorded
    inserting   \* the cacheInsert goroutine was started

answerVars == <<failure, status, body, sent, broken, decision, counted, errors, inserting>>
chatVars == <<mode, pc, phase, heavy, ctxDone, answerVars>>
vars == <<streamVars, chatVars>>

H == "heavyweight"

L == INSTANCE Lifecycle

\* "start": ServeHTTP; "lookup": in cache.Lookup; "draft": in drafter.Stream;
\* "route": in Route or Execute; "call": in heavyweight.Complete or Stream;
\* "collect": in the loop that assembles a response from the channel;
\* "relay": in the loop of streamSSE; "returned".
HandlerAt == {"start", "lookup", "draft", "route", "call", "collect", "relay", "returned"}

\* "upstream": the status the model's server answered with.
Status == {"200", "400", "500", "504", "upstream"}
Body == {"none", "error", "cached", "draft", "heavy"}

\* Why a call fails: a status other than 200, no answer, no answer in the time
\* of the http.Client, an answer that cannot be read or parsed.
Failure == {"status", "no_answer", "timeout", "unreadable"}
UpstreamKind == {"upstream_error", "upstream_timeout", "internal_error"}
ErrorKind == UpstreamKind \cup {"invalid_request", "routing_error", "stream_error"}

Init ==
    /\ producer = [s \in Streams |-> "idle"]
    /\ channel = [s \in Streams |-> << >>]
    /\ offer = [s \in Streams |-> << >>]
    /\ read = [s \in Streams |-> 0]
    /\ ending = [s \in Streams |-> "open"]
    /\ cancelled = [s \in Streams |-> FALSE]
    /\ mode \in [speculative : BOOLEAN, cache : BOOLEAN, stream : BOOLEAN]
    /\ pc = "start"
    /\ L!Init
    /\ ctxDone = FALSE
    /\ failure = "none"
    /\ status = "none"
    /\ body = "none"
    /\ sent = 0
    /\ broken = FALSE
    /\ decision = "none"
    /\ counted = << >>
    /\ errors = {}
    /\ inserting = FALSE

-----------------------------------------------------------------------------
(* The server, the heavyweight's stream and the goroutine of drainChannel. *)

\* The client disconnects, or net/http ends a request whose handler returned.
ContextEnds ==
    /\ ~ctxDone
    /\ ctxDone' = TRUE
    /\ cancelled' = [s \in Streams |-> TRUE]
    /\ UNCHANGED <<producer, channel, offer, read, ending, mode, pc, phase, heavy, answerVars>>

ProduceStep == Produce(H) /\ UNCHANGED chatVars

\* Execute drains the call it cancelled.
Drain ==
    /\ heavy = "cancelled"
    /\ Receive(H)
    /\ UNCHANGED <<cancelled, chatVars>>

-----------------------------------------------------------------------------
(* Answers.                                                                *)

Respond(code, content) ==
    /\ status' = code
    /\ body' = content

RecordRequest(code) == counted' = Append(counted, code)
RecordError(kind) == errors' = errors \cup {kind}

\* HeavyCancel.
CancelHeavy == cancelled' = [cancelled EXCEPT ![H] = TRUE]

\* The handler returns; it defers HeavyCancel when it was handed a call.
Return ==
    /\ pc' = "returned"
    /\ IF heavy = "handed" THEN CancelHeavy ELSE UNCHANGED cancelled

\* The error of a call: a timeout is one whose context was done, which is not
\* the deadline of the http.Client.
KindOf(cause) ==
    CASE cause = "status" -> "upstream_error"
      [] cause \in {"no_answer", "timeout"} /\ ctxDone -> "upstream_timeout"
      [] OTHER -> "internal_error"

StatusOf(kind) ==
    CASE kind = "upstream_error" -> "upstream"
      [] kind = "upstream_timeout" -> "504"
      [] kind = "internal_error" -> "500"

\* handleUpstreamError, and the return after it.
FailUpstream(cause) ==
    LET kind == KindOf(cause) IN
    /\ failure' = cause
    /\ RecordError(kind)
    /\ RecordRequest(StatusOf(kind))
    /\ Respond(StatusOf(kind), "error")
    /\ pc' = "returned"
    /\ UNCHANGED <<streamVars, mode, phase, heavy, ctxDone, sent, broken, decision, inserting>>

-----------------------------------------------------------------------------
(* Up to the routing decision.                                             *)

\* Wrong method, which is not recorded; broken JSON or no messages.
BadRequest ==
    /\ pc = "start"
    /\ \/ UNCHANGED errors
       \/ RecordError("invalid_request")
    /\ Respond("400", "error")
    /\ pc' = "returned"
    /\ UNCHANGED <<streamVars, mode, phase, heavy, ctxDone, failure, sent, broken,
                   decision, counted, inserting>>

Begin ==
    /\ pc = "start"
    /\ pc' = IF mode.cache THEN "lookup" ELSE "draft"
    /\ UNCHANGED <<streamVars, mode, phase, heavy, ctxDone, answerVars>>

\* Writing a response at one go: a streamed one may break off.
Replay == broken' \in (IF mode.stream THEN BOOLEAN ELSE {FALSE})

\* Mutant of LookupHit: the handler goes on to the drafter.
LookupHitNoReturn ==
    /\ pc = "lookup"
    /\ Respond("200", "cached")
    /\ decision' = "cache_hit"
    /\ RecordRequest("200")
    /\ Replay
    /\ pc' = "draft"
    /\ UNCHANGED <<streamVars, mode, phase, heavy, ctxDone, failure, sent, errors, inserting>>

LookupHit ==
    /\ pc = "lookup"
    /\ Respond("200", "cached")
    /\ decision' = "cache_hit"
    /\ RecordRequest("200")
    /\ Replay
    /\ pc' = "returned"
    /\ UNCHANGED <<streamVars, mode, phase, heavy, ctxDone, failure, sent, errors, inserting>>

\* No hit, or an error of the cache, which is logged.
LookupMiss ==
    /\ pc = "lookup"
    /\ pc' = "draft"
    /\ UNCHANGED <<streamVars, mode, phase, heavy, ctxDone, answerVars>>

\* drafter.Stream fails, or returns a stream, which it cannot when the context
\* is done.
DraftFails ==
    /\ pc = "draft"
    /\ \E cause \in Failure \ {"unreadable"} : FailUpstream(cause)

DraftOpens ==
    /\ pc = "draft"
    /\ ~ctxDone
    /\ pc' = "route"
    /\ UNCHANGED <<streamVars, mode, phase, heavy, ctxDone, answerVars>>

\* Execute starts the heavyweight.
Speculate ==
    /\ pc = "route"
    /\ mode.speculative
    /\ ~ctxDone
    /\ L!Speculate
    /\ Open(H)
    /\ UNCHANGED <<cancelled, mode, pc, ctxDone, answerVars>>

\* The escalated request reads the call it is handed, or makes its own.
Escalates ==
    /\ pc = "route"
    /\ L!Escalate
    /\ decision' = "escalate"
    /\ IF heavy' = "handed"
       THEN IF mode.stream THEN pc' = "relay" /\ Respond("200", "heavy")
                           ELSE pc' = "collect" /\ UNCHANGED <<status, body>>
       ELSE pc' = "call" /\ UNCHANGED <<status, body>>
    /\ UNCHANGED <<streamVars, mode, ctxDone, failure, sent, broken, counted, errors, inserting>>

\* What Execute does to a running call when it does not escalate.
ReleaseRunning == IF heavy = "running" THEN CancelHeavy ELSE UNCHANGED cancelled

\* The draft is the answer, and goes into the cache.
Accepts ==
    /\ pc = "route"
    /\ L!Accept
    /\ ReleaseRunning
    /\ decision' = "accept"
    /\ inserting' = mode.cache
    /\ Respond("200", "draft")
    /\ Replay
    /\ RecordRequest("200")
    /\ pc' = "returned"
    /\ UNCHANGED <<producer, channel, offer, read, ending, mode, ctxDone, failure, sent, errors>>

\* Route or Execute returns an error.
RoutingFails ==
    /\ pc = "route"
    /\ L!Fail
    /\ ReleaseRunning
    /\ RecordError("routing_error")
    /\ Respond("500", "error")
    /\ pc' = "returned"
    /\ UNCHANGED <<producer, channel, offer, read, ending, mode, ctxDone, failure, sent,
                   broken, decision, counted, inserting>>

-----------------------------------------------------------------------------
(* After an escalation.                                                    *)

CallFails ==
    /\ pc = "call"
    /\ \E cause \in Failure :
         /\ cause = "unreadable" => ~mode.stream
         /\ FailUpstream(cause)

\* heavyweight.Complete returns the response.
Completes ==
    /\ pc = "call"
    /\ ~mode.stream
    /\ Respond("200", "heavy")
    /\ RecordRequest("200")
    /\ pc' = "returned"
    /\ UNCHANGED <<streamVars, mode, phase, heavy, ctxDone, failure, sent, broken,
                   decision, errors, inserting>>

\* heavyweight.Stream returns a stream, and the response begins.
CallOpens ==
    /\ pc = "call"
    /\ mode.stream
    /\ ~ctxDone
    /\ Open(H)
    /\ Respond("200", "heavy")
    /\ pc' = "relay"
    /\ UNCHANGED <<cancelled, mode, phase, heavy, ctxDone, failure, sent, broken,
                   decision, counted, errors, inserting>>

\* The handler takes an item from the heavyweight's channel.
Take(at, err) ==
    /\ pc = at
    /\ Receive(H)
    /\ Received(H).err = err

CollectChunk ==
    /\ Take("collect", FALSE)
    /\ sent' = sent + 1
    /\ UNCHANGED <<cancelled, mode, pc, phase, heavy, ctxDone, failure, status, body,
                   broken, decision, counted, errors, inserting>>

\* Mutant of CollectErr: an error ends the stream like its closing does.
CollectErrIsEnd ==
    /\ Take("collect", TRUE)
    /\ Respond("200", "heavy")
    /\ RecordRequest("200")
    /\ Return
    /\ UNCHANGED <<mode, phase, heavy, ctxDone, failure, sent, broken, decision,
                   errors, inserting>>

CollectErr ==
    /\ Take("collect", TRUE)
    /\ RecordError("stream_error")
    /\ Respond("500", "error")
    /\ Return
    /\ UNCHANGED <<mode, phase, heavy, ctxDone, failure, sent, broken, decision,
                   counted, inserting>>

\* Mutant of CollectClosed: the status is recorded before there is one.
CollectClosedCountsFirst ==
    /\ pc = "collect"
    /\ Closed(H)
    /\ Respond("200", "heavy")
    /\ RecordRequest(status)
    /\ Return
    /\ UNCHANGED <<producer, channel, offer, read, ending, mode, phase, heavy, ctxDone,
                   failure, sent, broken, decision, errors, inserting>>

CollectClosed ==
    /\ pc = "collect"
    /\ Closed(H)
    /\ Respond("200", "heavy")
    /\ RecordRequest("200")
    /\ Return
    /\ UNCHANGED <<producer, channel, offer, read, ending, mode, phase, heavy, ctxDone,
                   failure, sent, broken, decision, errors, inserting>>

\* streamSSE after its loop, whatever ended it.
EndStream ==
    /\ RecordRequest("200")
    /\ Return
    /\ UNCHANGED <<mode, phase, heavy, ctxDone, failure, status, body, decision, inserting>>

RelayChunk ==
    /\ Take("relay", FALSE)
    /\ sent' = sent + 1
    /\ UNCHANGED <<cancelled, mode, pc, phase, heavy, ctxDone, failure, status, body,
                   broken, decision, counted, errors, inserting>>

\* The write of a chunk fails: the client is gone, or WriteTimeout is over.
RelayBreaks ==
    /\ Take("relay", FALSE)
    /\ broken' = TRUE
    /\ EndStream
    /\ UNCHANGED <<sent, errors>>

\* Mutant of RelayErr: the failure is counted as such.
RelayErrCounts500 ==
    /\ Take("relay", TRUE)
    /\ RecordError("stream_error")
    /\ RecordRequest("500")
    /\ Return
    /\ UNCHANGED <<mode, phase, heavy, ctxDone, failure, status, body, sent, broken,
                   decision, inserting>>

RelayErr ==
    /\ Take("relay", TRUE)
    /\ RecordError("stream_error")
    /\ EndStream
    /\ UNCHANGED <<sent, broken>>

RelayClosed ==
    /\ pc = "relay"
    /\ Closed(H)
    /\ EndStream
    /\ UNCHANGED <<producer, channel, offer, read, ending, sent, broken, errors>>

-----------------------------------------------------------------------------
Route == Escalates \/ Accepts \/ RoutingFails
Prepare == BadRequest \/ Begin \/ LookupHit \/ LookupMiss \/ DraftFails \/ DraftOpens
Call == CallFails \/ Completes \/ CallOpens
Collect == CollectChunk \/ CollectErr \/ CollectClosed
Relay == RelayChunk \/ RelayBreaks \/ RelayErr \/ RelayClosed

Handler == Prepare \/ Route \/ Call \/ Collect \/ Relay

Next == ContextEnds \/ ProduceStep \/ Drain \/ Speculate \/ Handler

Spec == Init /\ [][Next]_vars

\* net/http ends the context of a request whose handler returned.
RequestOver == pc = "returned" /\ ContextEnds

\* Every call of the handler has a timeout, the routing ends (Executor, Route),
\* goroutines are scheduled fairly and a read of a body is bounded in time.
FairSpec ==
    /\ Spec
    /\ WF_vars(Handler)
    /\ WF_vars(ProduceStep)
    /\ WF_vars(Drain)
    /\ WF_vars(RequestOver)

-----------------------------------------------------------------------------
(* Properties.                                                             *)

\* Every variable is in its type.
TypeOK ==
    /\ StreamTypeOK
    /\ mode \in [speculative : BOOLEAN, cache : BOOLEAN, stream : BOOLEAN]
    /\ pc \in HandlerAt
    /\ L!TypeOK
    /\ ctxDone \in BOOLEAN
    /\ failure \in Failure \cup {"none"}
    /\ status \in Status \cup {"none"}
    /\ body \in Body
    /\ sent \in Nat
    /\ broken \in BOOLEAN
    /\ decision \in {"none", "cache_hit", "accept", "escalate"}
    /\ counted \in Seq(Status)
    /\ errors \subseteq ErrorKind
    /\ inserting \in BOOLEAN

\* An answer read from the heavyweight's stream, whether the call was handed
\* over with a head start or made after the escalation, has every chunk the
\* model sent, unless an error is on record, the client cannot be written to or
\* its request was cancelled.
AnswerIsWhole ==
    pc = "returned" /\ body = "heavy" /\ producer[H] # "idle" /\ errors = {} /\ ~broken =>
        \/ ending[H] = "cancelled" /\ ctxDone
        \/ ending[H] \in {"done", "eof"} /\ sent = read[H]

\* Metrics and cache agree with the response: a request is counted at most once
\* and with the status it was answered with, the routing decision on record is
\* the one the answer was made by, only a draft that was the answer goes into the
\* cache, and an answer hides no error but one in the middle of its stream.
RecordsAgree ==
    /\ counted # << >> => pc = "returned" /\ counted = <<status>>
    /\ decision = "escalate" <=> phase = "escalated"
    /\ decision = "accept" <=> body = "draft"
    /\ decision = "cache_hit" <=> body = "cached"
    /\ inserting <=> mode.cache /\ body = "draft"
    /\ status = "200" => errors \subseteq {"stream_error"} /\ body # "error"

\* The request as the client and the rest of the gateway see it.
Exchanged == INSTANCE Exchange WITH
    Requests <- {"chat"},
    caching <- [r \in {"chat"} |-> mode.cache],
    request <- [r \in {"chat"} |->
                  [answer |-> body, done |-> pc = "returned", inserting |-> inserting]]

\* However lookup, drafter, routing, heavyweight and client behave, the response
\* has one source, which never changes, the handler does not return without one,
\* and an insert follows exactly the draft answers of a gateway with a cache.
ImplementsExchange == Exchanged!Spec

\* The handler comes back.
HandlerReturns == <>(pc = "returned")

\* The goroutine of the heavyweight's stream ends, except in one case: the
\* client could not be written to, and the goroutine has an error for a full
\* channel that nobody reads.
HeavyEndsOrIsStuck ==
    <>[](\/ producer[H] \in {"idle", "ended"}
         \/ broken /\ StuckOnFault(H))

\* docs/METRICS.md:13: requests_total is the total of the requests; those refused
\* as malformed left aside.
EveryRequestIsCounted == pc = "returned" /\ status # "400" => counted # << >>

\* internal/gateway/handler_test.go:672: an upstream timeout is a 504.
TimeoutIs504 == failure = "timeout" => status = "504"
=============================================================================
