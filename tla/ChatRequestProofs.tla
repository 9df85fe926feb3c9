-------------------------- MODULE ChatRequestProofs --------------------------
(***************************************************************************)
(* Proofs about one chat request, for every channel capacity and every     *)
(* behaviour of the cache, the models and the client.                      *)
(***************************************************************************)
EXTENDS ChatRequest, ChunkStreamProofs

LEMMA HIsTheStream == Streams = {H}
BY ChatAssumption DEF H

-----------------------------------------------------------------------------
(* Type correctness.                                                       *)

LEMMA TypeInit == Init => TypeOK
<1> SUFFICES ASSUME Init PROVE TypeOK
  OBVIOUS
<1>1. StreamTypeOK
  <2>1. << >> \in Seq(Item) /\ << >> \in Seq(Nat)
    OBVIOUS
  <2> QED
    BY <2>1 DEF Init, StreamTypeOK, ProducerAt, Ending
<1>2. counted \in Seq(Status) /\ errors \subseteq ErrorKind
  BY DEF Init
<1>3. L!TypeOK
  BY DEF Init, L!Init, L!TypeOK
<1> QED
  BY <1>1, <1>2, <1>3 DEF Init, TypeOK, HandlerAt, Body

\* The kind and the status of a failed call.
LEMMA UpstreamFacts ==
    ASSUME NEW cause
    PROVE  /\ KindOf(cause) \in UpstreamKind
           /\ StatusOf(KindOf(cause)) \in {"upstream", "504", "500"}
BY DEF KindOf, StatusOf, UpstreamKind

LEMMA CountType ==
    ASSUME counted \in Seq(Status), NEW code \in Status, RecordRequest(code)
    PROVE  counted' \in Seq(Status)
BY DEF RecordRequest

\* Cancelling keeps the streams typed.
LEMMA CancelType ==
    ASSUME StreamTypeOK, CancelHeavy \/ UNCHANGED cancelled
    PROVE  cancelled' \in [Streams -> BOOLEAN]
BY HIsTheStream DEF CancelHeavy, StreamTypeOK

\* A step that leaves the streams alone, or only cancels one, keeps their types.
LEMMA StreamsKept ==
    ASSUME StreamTypeOK, UNCHANGED <<producer, channel, offer, read, ending>>,
           CancelHeavy \/ UNCHANGED cancelled
    PROVE  StreamTypeOK'
BY CancelType DEF StreamTypeOK

LEMMA FailUpstreamType ==
    ASSUME TypeOK, NEW cause \in Failure, FailUpstream(cause)
    PROVE  TypeOK'
<1>1. KindOf(cause) \in ErrorKind /\ StatusOf(KindOf(cause)) \in Status
  BY UpstreamFacts DEF ErrorKind, UpstreamKind, Status
<1>2. counted' \in Seq(Status)
  BY <1>1, CountType DEF FailUpstream, TypeOK
<1>3. StreamTypeOK'
  BY StreamsKept DEF FailUpstream, TypeOK, streamVars
<1> QED
  BY <1>1, <1>2, <1>3
     DEF FailUpstream, TypeOK, L!TypeOK, RecordError, Respond, HandlerAt, Body

LEMMA TypeStep == TypeOK /\ [Next]_vars => TypeOK'
<1> SUFFICES ASSUME TypeOK, [Next]_vars PROVE TypeOK'
  OBVIOUS
<1> USE HIsTheStream DEF HandlerAt, Body
<1>s. "200" \in Status /\ "400" \in Status /\ "500" \in Status
  BY DEF Status
<1>e. "invalid_request" \in ErrorKind /\ "routing_error" \in ErrorKind
      /\ "stream_error" \in ErrorKind
  BY DEF ErrorKind
<1>1. CASE ContextEnds
  BY <1>1 DEF ContextEnds, answerVars, TypeOK, StreamTypeOK, L!TypeOK
<1>2. CASE ProduceStep
  <2>1. StreamTypeOK'
    BY <1>2, ProduceType DEF ProduceStep, TypeOK
  <2> QED
    BY <1>2, <2>1 DEF ProduceStep, chatVars, answerVars, TypeOK, L!TypeOK
<1>3. CASE Drain
  <2>1. StreamTypeOK'
    BY <1>3, ReceiveType DEF Drain, TypeOK, StreamTypeOK
  <2> QED
    BY <1>3, <2>1 DEF Drain, chatVars, answerVars, TypeOK, L!TypeOK
<1>4. CASE Speculate
  <2>1. StreamTypeOK'
    BY <1>4, OpenType DEF Speculate, TypeOK
  <2> QED
    BY <1>4, <2>1 DEF Speculate, answerVars, TypeOK, L!TypeOK, L!Speculate
<1>5. CASE BadRequest
  <2>1. StreamTypeOK'
    BY <1>5, StreamsKept DEF BadRequest, TypeOK, streamVars
  <2> QED
    BY <1>5, <1>s, <1>e, <2>1
       DEF BadRequest, RecordError, Respond, TypeOK, L!TypeOK
<1>6. CASE Begin \/ LookupMiss \/ DraftOpens
  <2>1. StreamTypeOK'
    BY <1>6, StreamsKept DEF Begin, LookupMiss, DraftOpens, TypeOK, streamVars
  <2> QED
    BY <1>6, <2>1 DEF Begin, LookupMiss, DraftOpens, answerVars, TypeOK, L!TypeOK
<1>7. CASE LookupHit
  <2>1. StreamTypeOK'
    BY <1>7, StreamsKept DEF LookupHit, TypeOK, streamVars
  <2>2. counted' \in Seq(Status)
    BY <1>7, <1>s, CountType DEF LookupHit, TypeOK
  <2> QED
    BY <1>7, <1>s, <2>1, <2>2 DEF LookupHit, Replay, Respond, TypeOK, L!TypeOK
<1>8. CASE DraftFails \/ CallFails
  BY <1>8, FailUpstreamType DEF DraftFails, CallFails
<1>9. CASE Escalates
  <2>1. StreamTypeOK'
    BY <1>9, StreamsKept DEF Escalates, TypeOK, streamVars
  <2>2. L!TypeOK'
    BY <1>9 DEF Escalates, L!Escalate, L!Settle, L!TypeOK, L!Final, TypeOK
  <2> QED
    BY <1>9, <1>s, <2>1, <2>2 DEF Escalates, Respond, TypeOK
<1>10. CASE Accepts
  <2>1. StreamTypeOK'
    BY <1>10, StreamsKept DEF Accepts, ReleaseRunning, TypeOK
  <2>2. L!TypeOK'
    BY <1>10 DEF Accepts, L!Accept, L!Settle, L!TypeOK, L!Final, TypeOK
  <2>3. counted' \in Seq(Status)
    BY <1>10, <1>s, CountType DEF Accepts, TypeOK
  <2> QED
    BY <1>10, <1>s, <2>1, <2>2, <2>3 DEF Accepts, Replay, Respond, TypeOK
<1>11. CASE RoutingFails
  <2>1. StreamTypeOK'
    BY <1>11, StreamsKept DEF RoutingFails, ReleaseRunning, TypeOK
  <2>2. L!TypeOK'
    BY <1>11 DEF RoutingFails, L!Fail, L!Settle, L!TypeOK, L!Final, TypeOK
  <2> QED
    BY <1>11, <1>s, <1>e, <2>1, <2>2 DEF RoutingFails, RecordError, Respond, TypeOK
<1>12. CASE Completes
  <2>1. StreamTypeOK'
    BY <1>12, StreamsKept DEF Completes, TypeOK, streamVars
  <2>2. counted' \in Seq(Status)
    BY <1>12, <1>s, CountType DEF Completes, TypeOK
  <2> QED
    BY <1>12, <1>s, <2>1, <2>2 DEF Completes, Respond, TypeOK, L!TypeOK
<1>13. CASE CallOpens
  <2>1. StreamTypeOK'
    BY <1>13, OpenType DEF CallOpens, TypeOK
  <2> QED
    BY <1>13, <1>s, <2>1 DEF CallOpens, Respond, TypeOK, L!TypeOK
<1>14. CASE CollectChunk \/ RelayChunk
  <2>1. StreamTypeOK'
    BY <1>14, ReceiveType DEF CollectChunk, RelayChunk, Take, TypeOK, StreamTypeOK
  <2> QED
    BY <1>14, <2>1 DEF CollectChunk, RelayChunk, Take, TypeOK, L!TypeOK
<1>15. CASE CollectErr
  <2>1. StreamTypeOK'
    <3>1. cancelled' \in [Streams -> BOOLEAN]
      BY <1>15, CancelType DEF CollectErr, Return, TypeOK
    <3> QED
      BY <1>15, <3>1, ReceiveType DEF CollectErr, Take, TypeOK
  <2> QED
    BY <1>15, <1>s, <1>e, <2>1
       DEF CollectErr, RecordError, Respond, Return, TypeOK, L!TypeOK
<1>16. CASE CollectClosed
  <2>1. StreamTypeOK'
    BY <1>16, StreamsKept DEF CollectClosed, Return, TypeOK
  <2>2. counted' \in Seq(Status)
    BY <1>16, <1>s, CountType DEF CollectClosed, TypeOK
  <2> QED
    BY <1>16, <1>s, <2>1, <2>2 DEF CollectClosed, Respond, Return, TypeOK, L!TypeOK
<1>17. CASE RelayBreaks \/ RelayErr
  <2>1. EndStream /\ Receive(H)
    BY <1>17 DEF RelayBreaks, RelayErr, Take
  <2>2. cancelled' \in [Streams -> BOOLEAN]
    BY <2>1, CancelType DEF EndStream, Return, TypeOK
  <2>3. StreamTypeOK'
    BY <2>1, <2>2, ReceiveType DEF TypeOK
  <2>4. counted' \in Seq(Status)
    BY <2>1, <1>s, CountType DEF EndStream, TypeOK
  <2>5. sent' \in Nat /\ broken' \in BOOLEAN /\ errors' \subseteq ErrorKind
    BY <1>17, <1>e DEF RelayBreaks, RelayErr, RecordError, TypeOK
  <2>6. /\ UNCHANGED <<mode, phase, heavy, ctxDone, failure, status, body, decision, inserting>>
        /\ pc' \in HandlerAt
    BY <2>1 DEF EndStream, Return
  <2> QED
    BY <2>3, <2>4, <2>5, <2>6 DEF TypeOK, L!TypeOK
<1>18. CASE RelayClosed
  <2>1. StreamTypeOK'
    BY <1>18, StreamsKept DEF RelayClosed, EndStream, Return, TypeOK
  <2>2. counted' \in Seq(Status)
    BY <1>18, <1>s, CountType DEF RelayClosed, EndStream, TypeOK
  <2> QED
    BY <1>18, <2>1, <2>2 DEF RelayClosed, EndStream, Return, TypeOK, L!TypeOK
<1>19. CASE UNCHANGED vars
  BY <1>19 DEF vars, streamVars, chatVars, answerVars, TypeOK, StreamTypeOK, L!TypeOK
<1> QED
  BY <1>1, <1>2, <1>3, <1>4, <1>5, <1>6, <1>7, <1>8, <1>9, <1>10, <1>11, <1>12,
     <1>13, <1>14, <1>15, <1>16, <1>17, <1>18, <1>19
     DEF Next, Handler, Prepare, Route, Call, Collect, Relay

\* Every reachable state has its variables in their types.
THEOREM ChatType == Spec => []TypeOK
BY TypeInit, TypeStep, PTL DEF Spec

-----------------------------------------------------------------------------
(* The response and its records.                                           *)

\* What the handler has done by the time it is where it is.
ControlInv ==
    /\ status = "none" <=> pc \notin {"relay", "returned"}
    /\ body = "none" <=> status = "none"
    /\ pc = "relay" => status = "200" /\ body = "heavy"
    /\ pc # "returned" => counted = << >> /\ errors = {} /\ ~inserting
    /\ pc = "lookup" => mode.cache
    /\ pc \in {"start", "lookup", "draft", "route"} => decision = "none" /\ phase \notin L!Final
    /\ pc \in {"call", "collect", "relay"} => decision = "escalate" /\ phase = "escalated"

RecordInv == ControlInv /\ RecordsAgree

LEMMA RecordInit == Init => RecordInv
BY DEF Init, L!Init, L!Final, RecordInv, ControlInv, RecordsAgree

\* The first status that is recorded is the only one.
LEMMA CountOnce ==
    ASSUME NEW code, counted = << >>, RecordRequest(code)
    PROVE  counted' = <<code>>
BY DEF RecordRequest

LEMMA RecordFailUpstream ==
    ASSUME RecordInv, pc \in {"draft", "call"}, NEW cause \in Failure, FailUpstream(cause)
    PROVE  RecordInv'
<1> DEFINE kind == KindOf(cause)
<1>1. /\ kind \in UpstreamKind
      /\ StatusOf(kind) \in {"upstream", "504", "500"}
  BY UpstreamFacts
<1>2. counted' = <<StatusOf(kind)>>
  BY CountOnce DEF FailUpstream, RecordInv, ControlInv
<1>3. /\ status' = StatusOf(kind) /\ body' = "error" /\ pc' = "returned"
      /\ UNCHANGED <<mode, phase, heavy, ctxDone, decision, inserting>>
  BY DEF FailUpstream, Respond
<1> HIDE DEF kind
<1> QED
  BY <1>1, <1>2, <1>3 DEF RecordInv, ControlInv, RecordsAgree, L!Final

\* Every step keeps the records and the response in agreement.
LEMMA RecordStep == TypeOK /\ RecordInv /\ [Next]_vars => RecordInv'
<1> SUFFICES ASSUME TypeOK, RecordInv, [Next]_vars PROVE RecordInv'
  OBVIOUS
<1>m. mode.cache \in BOOLEAN
  BY DEF TypeOK
<1> USE DEF RecordInv, ControlInv, RecordsAgree
<1>1. CASE ContextEnds
  BY <1>1 DEF ContextEnds, answerVars, TypeOK
<1>2. CASE ProduceStep \/ Drain \/ UNCHANGED vars
  BY <1>2 DEF ProduceStep, Drain, vars, chatVars, answerVars
<1>4. CASE Speculate
  BY <1>4 DEF Speculate, answerVars, L!Speculate, L!Final
<1>5. CASE BadRequest
  <2>1. errors' \subseteq ErrorKind
    BY <1>5 DEF BadRequest, RecordError, TypeOK, ErrorKind
  <2> QED
    BY <1>5 DEF BadRequest, Respond, L!Final
<1>6. CASE Begin \/ LookupMiss \/ DraftOpens
  BY <1>6 DEF Begin, LookupMiss, DraftOpens, answerVars, L!Final
<1>7. CASE LookupHit
  <2>1. counted' = <<"200">>
    BY <1>7, CountOnce DEF LookupHit
  <2> QED
    BY <1>7, <2>1 DEF LookupHit, Respond, L!Final
<1>8. CASE DraftFails \/ CallFails
  BY <1>8, RecordFailUpstream DEF DraftFails, CallFails
<1>9. CASE Escalates
  BY <1>9 DEF Escalates, L!Escalate, Respond, L!Final
<1>10. CASE Accepts
  <2>1. counted' = <<"200">>
    BY <1>10, CountOnce DEF Accepts
  <2> QED
    BY <1>m, <1>10, <2>1 DEF Accepts, L!Accept, Respond, L!Final
<1>11. CASE RoutingFails
  BY <1>11 DEF RoutingFails, L!Fail, Respond, L!Final
<1>12. CASE Completes
  <2>1. counted' = <<"200">>
    BY <1>12, CountOnce DEF Completes
  <2> QED
    BY <1>12, <2>1 DEF Completes, Respond, L!Final
<1>13. CASE CallOpens
  BY <1>13 DEF CallOpens, Respond, L!Final
<1>14. CASE CollectChunk \/ RelayChunk
  BY <1>14 DEF CollectChunk, RelayChunk, Take, L!Final
<1>15. CASE CollectErr
  BY <1>15 DEF CollectErr, Take, Respond, Return, L!Final
<1>16. CASE CollectClosed
  <2>1. counted' = <<"200">>
    BY <1>16, CountOnce DEF CollectClosed
  <2> QED
    BY <1>16, <2>1 DEF CollectClosed, Respond, Return, L!Final
<1>17. CASE RelayBreaks \/ RelayErr \/ RelayClosed
  <2>1. pc = "relay" /\ EndStream
    BY <1>17 DEF RelayBreaks, RelayErr, RelayClosed, Take
  <2>2. counted' = <<"200">>
    BY <2>1, CountOnce DEF EndStream
  <2>3. errors' \subseteq {"stream_error"}
    BY <1>17, <2>1 DEF RelayBreaks, RelayErr, RelayClosed, RecordError
  <2> QED
    BY <2>1, <2>2, <2>3 DEF EndStream, Return, L!Final
<1> QED
  BY <1>1, <1>2, <1>4, <1>5, <1>6, <1>7, <1>8, <1>9, <1>10, <1>11, <1>12,
     <1>13, <1>14, <1>15, <1>16, <1>17
     DEF Next, Handler, Prepare, Route, Call, Collect, Relay

LEMMA RecordInvariant == Spec => [](TypeOK /\ RecordInv)
BY TypeInit, TypeStep, RecordInit, RecordStep, PTL DEF Spec

\* Metrics and cache agree with the response, whichever way the request went.
THEOREM ChatRecords == Spec => []RecordsAgree
<1>1. RecordInv => RecordsAgree
  BY DEF RecordInv
<1> QED
  BY RecordInvariant, <1>1, PTL

-----------------------------------------------------------------------------
(* The exchange.                                                           *)

ExchangeStep == [Exchanged!Next]_(Exchanged!exchangeVars)

\* What the client sees of a step that leaves the mode alone, by what it sees
\* before: an open request, or a streamed answer that has begun.
LEMMA SeesReply ==
    ASSUME mode' = mode, body = "none", pc # "returned", inserting = FALSE,
           body' \in Exchanged!Answers, pc' = "returned",
           body' = "cached" => mode.cache,
           inserting' = (body' = "draft" /\ mode.cache)
    PROVE  ExchangeStep
<1>1. (pc = "returned") = FALSE /\ (pc' = "returned") = TRUE
  OBVIOUS
<1>2. Exchanged!Reply("chat", body')
  BY <1>1 DEF Exchanged!Reply, Exchanged!Unanswered
<1> QED
  BY <1>2 DEF ExchangeStep, Exchanged!Next, Exchanged!Step

LEMMA SeesBegin ==
    ASSUME mode' = mode, body = "none", pc # "returned", inserting = FALSE,
           body' = "heavy", pc' # "returned", inserting' = FALSE
    PROVE  ExchangeStep
<1>1. (pc = "returned") = FALSE /\ (pc' = "returned") = FALSE
  OBVIOUS
<1>2. Exchanged!Begin("chat")
  BY <1>1 DEF Exchanged!Begin, Exchanged!Unanswered
<1> QED
  BY <1>2 DEF ExchangeStep, Exchanged!Next, Exchanged!Step

LEMMA SeesEnd ==
    ASSUME mode' = mode, body # "none", pc # "returned", pc' = "returned",
           UNCHANGED <<body, inserting>>
    PROVE  ExchangeStep
<1>1. Exchanged!End("chat")
  BY DEF Exchanged!End
<1> QED
  BY <1>1 DEF ExchangeStep, Exchanged!Next, Exchanged!Step

LEMMA SeesNothing ==
    ASSUME mode' = mode, UNCHANGED <<body, inserting>>,
           pc' = "returned" <=> pc = "returned"
    PROVE  ExchangeStep
BY DEF ExchangeStep, Exchanged!exchangeVars

LEMMA ExchangeSteps == TypeOK /\ RecordInv /\ RecordInv' /\ [Next]_vars => ExchangeStep
<1> SUFFICES ASSUME TypeOK, RecordInv, RecordInv', [Next]_vars PROVE ExchangeStep
  OBVIOUS
<1>1. /\ pc # "returned" => inserting = FALSE
      /\ pc \notin {"relay", "returned"} => body = "none"
      /\ pc = "relay" => body = "heavy"
      /\ inserting \in BOOLEAN /\ mode.cache \in BOOLEAN
  BY DEF RecordInv, ControlInv, TypeOK
<1>2. CASE \/ ContextEnds \/ ProduceStep \/ Drain \/ Speculate \/ UNCHANGED vars
           \/ Begin \/ LookupMiss \/ DraftOpens \/ CollectChunk \/ RelayChunk
  <2>1. UNCHANGED <<mode, body, inserting>> /\ (pc' = "returned" <=> pc = "returned")
    BY <1>2
       DEF ContextEnds, ProduceStep, Drain, Speculate, vars, chatVars, answerVars, Begin,
           LookupMiss, DraftOpens, CollectChunk, RelayChunk
  <2> QED
    BY <2>1, SeesNothing
<1>3. CASE BadRequest \/ DraftFails \/ CallFails \/ RoutingFails \/ Completes
           \/ CollectErr \/ CollectClosed
  <2>1. /\ mode' = mode /\ inserting' = inserting /\ pc' = "returned"
        /\ body' \in {"error", "heavy"} /\ pc \notin {"relay", "returned"}
    BY <1>3
       DEF BadRequest, DraftFails, CallFails, FailUpstream, RoutingFails, Completes,
           CollectErr, CollectClosed, Respond, Take, Return
  <2> QED
    BY <1>1, <2>1, SeesReply DEF Exchanged!Answers
<1>4. CASE LookupHit
  <2>1. /\ mode' = mode /\ inserting' = inserting /\ pc' = "returned" /\ pc = "lookup"
        /\ body' = "cached" /\ decision' = "cache_hit"
    BY <1>4 DEF LookupHit, Respond
  <2>2. mode.cache
    BY <1>1, <2>1 DEF RecordInv, ControlInv
  <2> QED
    BY <1>1, <2>1, <2>2, SeesReply DEF Exchanged!Answers
<1>5. CASE Accepts
  <2>1. /\ mode' = mode /\ inserting' = mode.cache /\ pc' = "returned" /\ pc = "route"
        /\ body' = "draft"
    BY <1>5 DEF Accepts, Respond
  <2> QED
    BY <1>1, <2>1, SeesReply DEF Exchanged!Answers
<1>6. CASE Escalates \/ CallOpens
  <2>1. /\ mode' = mode /\ inserting' = inserting
        /\ pc \in {"route", "call"}
        /\ \/ pc' = "relay" /\ body' = "heavy"
           \/ pc' \in {"collect", "call"} /\ body' = body
    BY <1>6 DEF Escalates, CallOpens, Respond
  <2> QED
    BY <1>1, <2>1, SeesBegin, SeesNothing
<1>7. CASE RelayBreaks \/ RelayErr \/ RelayClosed
  <2>1. pc = "relay" /\ pc' = "returned" /\ UNCHANGED <<mode, body, inserting>>
    BY <1>7 DEF RelayBreaks, RelayErr, RelayClosed, Take, EndStream, Return
  <2> QED
    BY <1>1, <2>1, SeesEnd
<1> QED
  BY <1>2, <1>3, <1>4, <1>5, <1>6, <1>7
     DEF Next, Handler, Prepare, Route, Call, Collect, Relay

\* To its client and to the gateway a request is one exchange: one answer, from
\* one source, and an insert of exactly the draft answers.
THEOREM ChatRefinesExchange == Spec => ImplementsExchange
<1>1. Init => Exchanged!Init
  BY DEF Init, Exchanged!Init, Exchanged!Unanswered
<1>2. Spec => [](TypeOK /\ RecordInv)
  BY RecordInvariant
<1> QED
  BY <1>1, <1>2, ExchangeSteps, PTL
     DEF Spec, ExchangeStep, ImplementsExchange, Exchanged!Spec

-----------------------------------------------------------------------------
(* What the heavyweight sent is in the answer.                             *)

\* Where the call of the heavyweight is, by where the handler is.
HeavyInv ==
    /\ pc \in {"start", "lookup", "draft"} => phase = "drafting"
    /\ phase = "drafting" => heavy = "none"
    /\ pc # "returned" => heavy # "cancelled"
    /\ pc = "call" => heavy = "none"
    /\ pc \in {"collect", "relay"} \/ body = "heavy" => heavy \in {"none", "handed"}
    /\ heavy = "none" /\ pc \notin {"collect", "relay", "returned"} => producer[H] = "idle"

\* While the handler reads, what it sent on and what is on its way make up what
\* the goroutine read, and only the client has cancelled.
StreamInv ==
    pc # "returned" =>
        /\ sent + Balance(H) = 0
        /\ ErrWaits(H)
        /\ cancelled[H] => ctxDone
        /\ ending[H] = "cancelled" => ctxDone
        /\ pc \notin {"collect", "relay"} => sent = 0

\* AnswerIsWhole, and the goroutine it is about will not change that.
WholeAtEnd ==
    pc = "returned" /\ body = "heavy" /\ producer[H] # "idle" /\ errors = {} /\ ~broken =>
        /\ producer[H] = "ended"
        /\ \/ ending[H] = "cancelled" /\ ctxDone
           \/ ending[H] \in {"done", "eof"} /\ sent = read[H]

WholeInv == EndingInv /\ HeavyInv /\ StreamInv /\ WholeAtEnd

LEMMA WholeInit == Init => WholeInv
<1> SUFFICES ASSUME Init PROVE WholeInv
  OBVIOUS
<1>1. Len(channel[H]) = 0 /\ producer[H] = "idle" /\ read[H] = 0 /\ ending[H] = "open"
  BY HIsTheStream DEF Init
<1>2. Balance(H) = 0 /\ ErrWaits(H)
  BY <1>1 DEF Balance, ErrWaits, Unsent, ErrSent
<1>3. EndingInv
  BY DEF Init, EndingInv
<1>4. cancelled[H] = FALSE
  BY HIsTheStream DEF Init
<1> QED
  BY <1>1, <1>2, <1>3, <1>4 DEF Init, L!Init, WholeInv, HeavyInv, StreamInv, WholeAtEnd

\* A stream that opens is in balance.
LEMMA OpenBalance ==
    ASSUME StreamTypeOK, EndingInv, Open(H)
    PROVE  /\ EndingInv' /\ Balance(H)' = 0 /\ ErrWaits(H)' /\ ending'[H] = "open"
           /\ producer'[H] = "scan"
<1>1. /\ producer'[H] = "scan" /\ ending'[H] = "open" /\ read'[H] = 0
      /\ channel'[H] = << >>
  BY HIsTheStream DEF Open, StreamTypeOK
<1>2. EndingInv'
  BY <1>1, HIsTheStream DEF EndingInv
<1> QED
  BY <1>1, <1>2 DEF Balance, ErrWaits, Unsent, ErrSent

\* At the close of the channel all that was read is in the answer, unless the
\* goroutine dropped a chunk for a client that left.
LEMMA ClosedIsWhole ==
    ASSUME TypeOK, EndingInv, StreamInv, pc # "returned", Closed(H)
    PROVE  \/ ending[H] = "cancelled" /\ ctxDone
           \/ ending[H] \in {"done", "eof"} /\ sent = read[H]
<1>1. producer[H] = "ended" /\ Len(channel[H]) = 0 /\ ending[H] \in Ending
  BY HIsTheStream DEF Closed, TypeOK, StreamTypeOK
<1>2. ErrSent(H) # 1
  BY <1>1 DEF StreamInv, ErrWaits
<1>3. ending[H] \in {"done", "eof", "cancelled"}
  BY <1>1, <1>2, HIsTheStream DEF EndingInv, ErrSent, Ending
<1>4. ending[H] = "cancelled" => ctxDone
  BY DEF StreamInv
<1>5. CASE ending[H] \in {"done", "eof"}
  <2>1. read[H] \in Nat /\ sent \in Nat
    BY HIsTheStream DEF TypeOK, StreamTypeOK
  <2>2. Unsent(H) = 0 /\ ErrSent(H) = 0
    BY <1>1, <1>5 DEF Unsent, ErrSent
  <2> QED
    BY <1>1, <1>5, <2>1, <2>2 DEF StreamInv, Balance
<1> QED
  BY <1>3, <1>4, <1>5

LEMMA WholeStep == TypeOK /\ RecordInv /\ WholeInv /\ [Next]_vars => WholeInv'
<1> SUFFICES ASSUME TypeOK, RecordInv, WholeInv, [Next]_vars PROVE WholeInv'
  OBVIOUS
<1>h. H \in Streams /\ Balance(H) \in Int /\ sent \in Nat
  BY HIsTheStream, BalanceType DEF TypeOK
<1>t. StreamTypeOK /\ EndingInv
  BY DEF TypeOK, WholeInv
<1>r. ControlInv
  BY DEF RecordInv
\* A step that does not touch the stream keeps its part of the invariant.
<1>k. ASSUME UNCHANGED <<producer, channel, read, ending>>
      PROVE  /\ EndingInv'
             /\ Balance(H)' = Balance(H)
             /\ ErrWaits(H)' <=> ErrWaits(H)
             /\ producer'[H] = producer[H] /\ ending'[H] = ending[H] /\ read'[H] = read[H]
  BY <1>h, <1>t, <1>k, StreamsUnchanged
<1> USE DEF WholeInv, HeavyInv, StreamInv, WholeAtEnd
<1>1. CASE ContextEnds
  BY <1>1, <1>k DEF ContextEnds, answerVars
<1>2. CASE ProduceStep
  <2>1. /\ EndingInv'
        /\ Balance(H)' = Balance(H)
        /\ ErrWaits(H) => ErrWaits(H)'
        /\ producer[H] # "ended"
    BY <1>2, <1>h, <1>t, ProduceBalance DEF ProduceStep
  <2>2. (producer'[H] = "idle" <=> producer[H] = "idle") /\ UNCHANGED cancelled
    BY <1>2, <1>h, <1>t, ProduceIdle DEF ProduceStep
  <2>3. UNCHANGED <<pc, phase, heavy, ctxDone, body, sent, broken, errors>>
    BY <1>2 DEF ProduceStep, chatVars, answerVars
  <2>4. ending'[H] = "cancelled" => ending[H] = "cancelled" \/ cancelled[H]
    BY <1>2, <1>h
       DEF ProduceStep, Produce, Scan, ScanChunk, ScanEnd, ScanFault, StopScanning,
           SendChunk, DropChunk, SendFault, TypeOK, StreamTypeOK
  <2>5. HeavyInv'
    BY <2>2, <2>3
  <2>7. StreamInv'
    BY <2>1, <2>2, <2>3, <2>4
  <2>6. WholeAtEnd'
    BY <2>1, <2>2, <2>3
  <2> QED
    BY <2>1, <2>5, <2>6, <2>7
<1>3. CASE Drain
  <2>1. EndingInv' /\ UNCHANGED producer
    BY <1>3, <1>h, <1>t, ReceiveBalance DEF Drain
  <2> QED
    BY <1>3, <2>1 DEF Drain, chatVars, answerVars
<1>4. CASE Speculate
  <2>1. /\ EndingInv' /\ Balance(H)' = 0 /\ ErrWaits(H)' /\ ending'[H] = "open"
    BY <1>4, <1>t, OpenBalance DEF Speculate
  <2>2. HeavyInv'
    BY <1>4, <1>r DEF Speculate, L!Speculate, answerVars, ControlInv
  <2>3. StreamInv'
    BY <1>4, <2>1 DEF Speculate, answerVars
  <2>4. WholeAtEnd'
    BY <1>4 DEF Speculate
  <2> QED
    BY <2>1, <2>2, <2>3, <2>4
<1>5. CASE BadRequest \/ LookupHit \/ DraftFails \/ CallFails \/ RoutingFails
  <2>1. /\ pc' = "returned" /\ body' # "heavy"
        /\ UNCHANGED <<producer, channel, read, ending>>
        /\ phase' = "drafting" => phase = "drafting" /\ UNCHANGED heavy
    BY <1>5
       DEF BadRequest, LookupHit, DraftFails, CallFails, RoutingFails, FailUpstream,
           L!Fail, Respond, streamVars
  <2> QED
    BY <1>k, <2>1
<1>6. CASE Begin \/ LookupMiss \/ DraftOpens
  BY <1>6, <1>k DEF Begin, LookupMiss, DraftOpens, answerVars, streamVars
<1>9. CASE Escalates
  BY <1>9, <1>k, <1>r
     DEF Escalates, L!Escalate, L!Settle, L!TypeOK, TypeOK, Respond, streamVars, ControlInv
<1>10. CASE Accepts
  BY <1>10, <1>k DEF Accepts, L!Accept, Respond
<1>12. CASE Completes
  BY <1>12, <1>k DEF Completes, Respond, streamVars
<1>13. CASE CallOpens
  <2>1. /\ EndingInv' /\ Balance(H)' = 0 /\ ErrWaits(H)' /\ ending'[H] = "open"
    BY <1>13, <1>t, OpenBalance DEF CallOpens
  <2> QED
    BY <1>13, <1>r, <2>1 DEF CallOpens, Respond, ControlInv
<1>14. CASE CollectChunk \/ RelayChunk
  <2>1. Receive(H) /\ ~Received(H).err /\ pc \in {"collect", "relay"}
    BY <1>14 DEF CollectChunk, RelayChunk, Take
  <2>2. /\ EndingInv'
        /\ Balance(H)' = Balance(H) - 1
        /\ ErrWaits(H) => ErrWaits(H)'
        /\ UNCHANGED <<producer, ending>>
    BY <1>h, <1>t, <2>1, ReceiveBalance
  <2>3. /\ sent' = sent + 1
        /\ UNCHANGED <<cancelled, pc, phase, heavy, ctxDone, body, broken, errors>>
    BY <1>14 DEF CollectChunk, RelayChunk
  <2> QED
    BY <1>h, <2>1, <2>2, <2>3
<1>15. CASE CollectErr \/ RelayBreaks \/ RelayErr
  <2>1. EndingInv'
    BY <1>15, <1>h, <1>t, ReceiveBalance DEF CollectErr, RelayBreaks, RelayErr, Take
  <2>2. errors' # {} \/ broken'
    BY <1>15 DEF CollectErr, RelayBreaks, RelayErr, RecordError
  <2>3. pc' = "returned" /\ UNCHANGED <<phase, heavy>> /\ pc \in {"collect", "relay"}
    BY <1>15 DEF CollectErr, RelayBreaks, RelayErr, Take, Return, EndStream
  <2>4. HeavyInv' /\ StreamInv'
    BY <2>3, <1>15 DEF CollectErr, RelayBreaks, RelayErr, EndStream, Respond
  <2>5. WholeAtEnd'
    BY <2>2
  <2> QED
    BY <2>1, <2>4, <2>5
<1>16. CASE CollectClosed \/ RelayClosed
  <2>1. Closed(H) /\ pc \in {"collect", "relay"} /\ pc' = "returned"
    BY <1>16 DEF CollectClosed, RelayClosed, EndStream, Return
  <2>2. UNCHANGED <<producer, channel, read, ending, sent, phase, heavy, ctxDone>>
    BY <1>16 DEF CollectClosed, RelayClosed, EndStream
  <2>3. \/ ending[H] = "cancelled" /\ ctxDone
        \/ ending[H] \in {"done", "eof"} /\ sent = read[H]
    BY <1>t, <2>1, ClosedIsWhole
  <2>4. producer[H] = "ended"
    BY <2>1 DEF Closed
  <2> QED
    BY <1>k, <2>1, <2>2, <2>3, <2>4
<1>17. CASE UNCHANGED vars
  BY <1>17, <1>k DEF vars, streamVars, chatVars, answerVars
<1> QED
  BY <1>1, <1>2, <1>3, <1>4, <1>5, <1>6, <1>9, <1>10, <1>12, <1>13, <1>14, <1>15,
     <1>16, <1>17
     DEF Next, Handler, Prepare, Route, Call, Collect, Relay

\* An answer from the heavyweight's stream has every chunk of it, unless an error
\* is on record, the client cannot be written to or its request was cancelled.
THEOREM ChatAnswerWhole == Spec => []AnswerIsWhole
<1>1. WholeInv => AnswerIsWhole
  BY DEF WholeInv, WholeAtEnd, AnswerIsWhole
<1> QED
  BY RecordInvariant, WholeInit, WholeStep, <1>1, PTL DEF Spec
=============================================================================
