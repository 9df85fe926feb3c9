--------------------------- MODULE ExecutorProofs ---------------------------
(***************************************************************************)
(* Proofs about speculative execution, for every window, threshold,        *)
(* channel capacity and upstream behaviour.                                *)
(***************************************************************************)
EXTENDS Executor, EntropyWindowProofs, ChunkStreamProofs

-----------------------------------------------------------------------------
(* Type correctness.                                                       *)

\* Execute has tokens to look at exactly in the loop over a chunk's tokens, or
\* while the heavyweight call of the last token is being started.
TodoInv ==
    /\ pc = "tokens" => todo # << >>
    /\ pc = "select" => todo = << >>

LEMMA DInStreams == D \in Streams /\ H \in Streams /\ D # H
BY ExecutorAssumption DEF D, H

\* Releasing the heavyweight keeps the contexts and the drained set typed.
LEMMA ReleaseType ==
    ASSUME TypeOK, ReleaseHeavy
    PROVE  cancelled' \in [Streams -> BOOLEAN] /\ drained' \subseteq Streams
BY DInStreams DEF TypeOK, StreamTypeOK, ReleaseHeavy

\* What a token does to the typed variables it changes.
LEMMA TakeTokenType ==
    ASSUME TypeOK, TodoInv, TakeToken(Head(todo))
    PROVE  /\ StreamTypeOK'
           /\ Head(todo) \in Nat
           /\ entropies' \in Seq(Nat)
           /\ window' \in Window
           /\ todo' \in Seq(Nat)
           /\ UNCHANGED <<draftLen, heavyHeld, starts>>
<1>1. todo \in Seq(Nat) /\ todo # << >>
  BY DEF TypeOK, TodoInv, TakeToken
<1>2. Head(todo) \in Nat /\ Tail(todo) \in Seq(Nat)
  BY <1>1
<1>3. window' \in Window
  BY <1>2, SlideType DEF TakeToken, TypeOK
<1>4. entropies' \in Seq(Nat)
  BY <1>2 DEF TakeToken, TypeOK
<1>5. StreamTypeOK'
  BY DEF TakeToken, TypeOK, StreamTypeOK, streamVars
<1> QED
  BY <1>2, <1>3, <1>4, <1>5 DEF TakeToken

\* Counting an event keeps the counters natural numbers.
LEMMA MetricsType ==
    ASSUME NEW m \in [trigger : Nat, cancellation : Nat, saved : Nat]
    PROVE  /\ [m EXCEPT !.trigger = @ + 1]
                \in [trigger : Nat, cancellation : Nat, saved : Nat]
           /\ [m EXCEPT !.cancellation = @ + 1]
                \in [trigger : Nat, cancellation : Nat, saved : Nat]
           /\ [m EXCEPT !.saved = @ + 1]
                \in [trigger : Nat, cancellation : Nat, saved : Nat]
OBVIOUS

LEMMA TypeInit == Init => TypeOK /\ TodoInv
<1> SUFFICES ASSUME Init PROVE TypeOK /\ TodoInv
  OBVIOUS
<1>1. << >> \in Seq(Item) /\ << >> \in Seq(Nat)
  OBVIOUS
<1>2. StreamTypeOK
  BY <1>1 DEF Init, StreamTypeOK, ProducerAt, Ending
<1>3. metrics \in [trigger : Nat, cancellation : Nat, saved : Nat]
  BY DEF Init
<1> QED
  BY <1>1, <1>2, <1>3, NewWindowType
     DEF Init, TypeOK, TodoInv, ExecuteAt, State, Outcome

LEMMA TypeStep == TypeOK /\ TodoInv /\ [Next]_vars => TypeOK' /\ TodoInv'
<1> SUFFICES ASSUME TypeOK, TodoInv, [Next]_vars PROVE TypeOK' /\ TodoInv'
  OBVIOUS
<1> USE DInStreams DEF ExecuteAt, State, Outcome
<1>1. CASE ClientGone
  BY <1>1 DEF ClientGone, execVars, TypeOK, StreamTypeOK, TodoInv
<1>2. ASSUME NEW s \in Streams, ProduceStep(s) PROVE TypeOK' /\ TodoInv'
  <2>1. StreamTypeOK'
    BY <1>2, ProduceType DEF ProduceStep, TypeOK
  <2> QED
    BY <1>2, <2>1 DEF ProduceStep, execVars, TypeOK, TodoInv
<1>3. ASSUME NEW s \in Streams, Drain(s) PROVE TypeOK' /\ TodoInv'
  <2>1. StreamTypeOK'
    BY <1>3, ReceiveType DEF Drain, TypeOK, StreamTypeOK
  <2> QED
    BY <1>3, <2>1 DEF Drain, execVars, TypeOK, TodoInv
<1>4. CASE CtxDone
  <2>1. cancelled' \in [Streams -> BOOLEAN] /\ drained' \subseteq Streams
    BY <1>4, ReleaseType DEF CtxDone
  <2> QED
    BY <1>4, <2>1 DEF CtxDone, Return, TypeOK, StreamTypeOK, TodoInv
<1>5. CASE DrafterClosed
  <2>1. cancelled' \in [Streams -> BOOLEAN] /\ drained' \subseteq Streams
    BY <1>5, ReleaseType DEF DrafterClosed, TypeOK, StreamTypeOK
  <2>2. metrics' \in [trigger : Nat, cancellation : Nat, saved : Nat]
    BY <1>5, MetricsType DEF DrafterClosed, TypeOK
  <2> QED
    BY <1>5, <2>1, <2>2 DEF DrafterClosed, Return, TypeOK, StreamTypeOK, TodoInv
<1>6. CASE DrafterErr
  <2>1. cancelled' \in [Streams -> BOOLEAN] /\ drained' \subseteq Streams
    BY <1>6, ReleaseType DEF DrafterErr
  <2>2. StreamTypeOK'
    BY <1>6, <2>1, ReceiveType DEF DrafterErr, TypeOK
  <2> QED
    BY <1>6, <2>1, <2>2 DEF DrafterErr, Return, TypeOK, TodoInv
<1>7. CASE DrafterChunk
  <2>1. StreamTypeOK' /\ Received(D) \in Item
    BY <1>7, ReceiveType DEF DrafterChunk, TypeOK, StreamTypeOK
  <2>2. todo' \in Seq(Nat)
    BY <1>7, <2>1 DEF DrafterChunk, Item
  <2> QED
    BY <1>7, <2>1, <2>2 DEF DrafterChunk, ResumeWith, TypeOK, TodoInv
<1>8. CASE Escalate
  <2>1. TakeToken(Head(todo))
    BY <1>8 DEF Escalate
  <2>2. metrics' \in [trigger : Nat, cancellation : Nat, saved : Nat]
    BY <1>8, MetricsType DEF Escalate, TypeOK
  <2> QED
    BY <1>8, <2>1, <2>2, TakeTokenType DEF Escalate, Return, TypeOK, TodoInv
<1>9. CASE SoftTrigger
  <2>1. TakeToken(Head(todo))
    BY <1>9 DEF SoftTrigger
  <2>2. metrics' \in [trigger : Nat, cancellation : Nat, saved : Nat]
    BY <1>9, MetricsType DEF SoftTrigger, TypeOK
  <2> QED
    BY <1>9, <2>1, <2>2, TakeTokenType DEF SoftTrigger, TypeOK, TodoInv
<1>10. CASE PassToken
  <2>1. TakeToken(Head(todo))
    BY <1>10 DEF PassToken
  <2> QED
    BY <1>10, <2>1, TakeTokenType DEF PassToken, ResumeWith, TypeOK, TodoInv
<1>11. CASE StartHeavy
  <2>1. StreamTypeOK'
    BY <1>11, OpenType DEF StartHeavy, TypeOK
  <2> QED
    BY <1>11, <2>1 DEF StartHeavy, ResumeWith, TypeOK, TodoInv
<1>12. CASE StartFails
  BY <1>12 DEF StartFails, ResumeWith, streamVars, TypeOK, StreamTypeOK, TodoInv
<1>13. CASE UNCHANGED vars
  BY <1>13 DEF vars, streamVars, execVars, TypeOK, StreamTypeOK, TodoInv
<1> QED
  BY <1>1, <1>2, <1>3, <1>4, <1>5, <1>6, <1>7, <1>8, <1>9, <1>10, <1>11, <1>12,
     <1>13 DEF Next, Execute, Select, Token, Start

\* Every reachable state has its variables in their types.
THEOREM ExecutorType == Spec => []TypeOK
<1>1. Spec => [](TypeOK /\ TodoInv)
  BY TypeInit, TypeStep, PTL DEF Spec
<1> QED
  BY <1>1, PTL

-----------------------------------------------------------------------------
(* The heavyweight call.                                                   *)

\* Where Execute is, and what it has set, agree.
ControlInv ==
    /\ pc = "returned" <=> outcome # "none"
    /\ softTriggered <=> (heavyHeld \/ pc = "starting")
    /\ pc = "starting" => ~heavyHeld
    /\ outcome = "none" => state = IF heavyHeld THEN "speculating" ELSE "drafting"
    /\ outcome = "none" => drained = {}

\* The whereabouts of the call: held exactly if it was started, handed over
\* exactly by an escalation, drained exactly by the other returns.
HeavyInv ==
    /\ heavyHeld <=> producer[H] # "idle"
    /\ starts = IF heavyHeld THEN 1 ELSE 0
    /\ handed <=> heavyHeld /\ outcome = "escalated"
    /\ H \in drained <=> heavyHeld /\ outcome \notin {"none", "escalated"}
    /\ H \in drained => cancelled[H]
    /\ H \notin drained => (cancelled[H] <=> cancelled[D])

\* The counters follow the call.
CounterInv ==
    /\ metrics.trigger >= starts + (IF pc = "starting" THEN 1 ELSE 0)
    /\ metrics.cancellation = IF outcome = "draft_accepted" THEN starts ELSE 0
    /\ metrics.saved = IF outcome = "escalated" THEN starts ELSE 0

OwnerInv == ControlInv /\ HeavyInv /\ CounterInv

LEMMA OwnerInit == Init => OwnerInv
BY DInStreams DEF Init, OwnerInv, ControlInv, HeavyInv, CounterInv

LEMMA OwnerStep == TypeOK /\ OwnerInv /\ [Next]_vars => OwnerInv'
<1> SUFFICES ASSUME TypeOK, OwnerInv, [Next]_vars PROVE OwnerInv'
  OBVIOUS
<1> USE DInStreams DEF OwnerInv, ControlInv, HeavyInv, CounterInv
<1>t. /\ cancelled \in [Streams -> BOOLEAN]
      /\ producer \in [Streams -> ProducerAt]
      /\ drained \subseteq Streams
      /\ metrics \in [trigger : Nat, cancellation : Nat, saved : Nat]
      /\ pc \in ExecuteAt
      /\ outcome \in Outcome
      /\ heavyHeld \in BOOLEAN /\ handed \in BOOLEAN /\ softTriggered \in BOOLEAN
  BY DEF TypeOK, StreamTypeOK
<1>1. CASE ClientGone
  BY <1>1, <1>t DEF ClientGone, execVars
<1>2. ASSUME NEW s \in Streams, ProduceStep(s) PROVE OwnerInv'
  <2>1. (producer'[H] = "idle" <=> producer[H] = "idle") /\ UNCHANGED cancelled
    BY <1>2, ProduceIdle DEF ProduceStep, TypeOK
  <2> QED
    BY <1>2, <2>1 DEF ProduceStep, execVars
<1>3. ASSUME NEW s \in Streams, Drain(s) PROVE OwnerInv'
  BY <1>3 DEF Drain, Receive, execVars
<1>4. CASE CtxDone
  BY <1>4, <1>t DEF CtxDone, Return, ReleaseHeavy
<1>5. CASE DrafterClosed
  BY <1>5, <1>t DEF DrafterClosed, Return, ReleaseHeavy
<1>6. CASE DrafterErr
  BY <1>6, <1>t DEF DrafterErr, Return, ReleaseHeavy, Receive
<1>7. CASE DrafterChunk
  BY <1>7, <1>t DEF DrafterChunk, ResumeWith, Receive
<1>8. CASE Escalate
  BY <1>8, <1>t DEF Escalate, TakeToken, Return, streamVars
<1>9. CASE SoftTrigger
  BY <1>9, <1>t DEF SoftTrigger, FiresSoft, TakeToken, streamVars
<1>10. CASE PassToken
  BY <1>10, <1>t DEF PassToken, ResumeWith, TakeToken, streamVars
<1>11. CASE StartHeavy
  BY <1>11, <1>t DEF StartHeavy, ResumeWith, Open
<1>12. CASE StartFails
  BY <1>12, <1>t DEF StartFails, ResumeWith, streamVars
<1>13. CASE UNCHANGED vars
  BY <1>13 DEF vars, streamVars, execVars
<1> QED
  BY <1>1, <1>2, <1>3, <1>4, <1>5, <1>6, <1>7, <1>8, <1>9, <1>10, <1>11, <1>12,
     <1>13 DEF Next, Execute, Select, Token, Start

LEMMA OwnerInvariant == Spec => [](TypeOK /\ TodoInv /\ OwnerInv)
BY TypeInit, TypeStep, OwnerInit, OwnerStep, PTL DEF Spec

\* On every return path the heavyweight call has exactly one owner.
THEOREM ExecutorOwner == Spec => []HeavyHasOneOwner
<1>1. OwnerInv => HeavyHasOneOwner
  BY DEF OwnerInv, HeavyInv, HeavyHasOneOwner
<1> QED
  BY <1>1, OwnerInvariant, PTL

\* A request never starts a second heavyweight call.
THEOREM ExecutorOneHeavy == Spec => []AtMostOneHeavy
<1>1. OwnerInv => AtMostOneHeavy
  BY DEF OwnerInv, HeavyInv, AtMostOneHeavy
<1> QED
  BY <1>1, OwnerInvariant, PTL

\* The speculation counters add up.
THEOREM ExecutorCounters == Spec => []SpeculationIsAccounted
<1>1. OwnerInv => SpeculationIsAccounted
  BY DEF OwnerInv, ControlInv, CounterInv, SpeculationIsAccounted
<1> QED
  BY <1>1, OwnerInvariant, PTL

-----------------------------------------------------------------------------
(* Nothing of a stream is lost.                                            *)

\* Every chunk is either in the draft or on its way to it, and so for the head
\* start of a call that may still be used.
WholeInv ==
    /\ EndingInv
    /\ outcome = "none" => draftLen + Balance(D) = 0 /\ ErrWaits(D)
    /\ outcome = "draft_accepted" => producer[D] = "ended" /\ AcceptedDraftIsWhole
    /\ heavyHeld /\ H \notin drained => Balance(H) = 0

LEMMA WholeInit == Init => WholeInv
<1> SUFFICES ASSUME Init PROVE WholeInv
  OBVIOUS
<1>1. EndingInv
  BY DEF Init, EndingInv
<1>2. Balance(D) = 0 /\ ErrWaits(D)
  BY DInStreams DEF Init, Balance, ErrWaits, Unsent, ErrSent
<1> QED
  BY <1>1, <1>2, DInStreams DEF Init, WholeInv

LEMMA WholeStep ==
    TypeOK /\ TodoInv /\ OwnerInv /\ OwnerInv' /\ WholeInv /\ [Next]_vars => WholeInv'
<1> SUFFICES ASSUME TypeOK, TodoInv, OwnerInv, OwnerInv', WholeInv, [Next]_vars
             PROVE  WholeInv'
  OBVIOUS
<1> USE DInStreams DEF WholeInv
<1>o. /\ pc = "returned" <=> outcome # "none"
      /\ heavyHeld <=> producer[H] # "idle"
      /\ H \in drained <=> heavyHeld /\ outcome \notin {"none", "escalated"}
      /\ heavyHeld' <=> producer'[H] # "idle"
      /\ H \in drained' <=> heavyHeld' /\ outcome' \notin {"none", "escalated"}
  BY DEF OwnerInv, ControlInv, HeavyInv
<1>t. /\ StreamTypeOK
      /\ draftLen \in Nat
      /\ \A s \in Streams : Balance(s) \in Int
  BY BalanceType DEF TypeOK
<1>1. CASE ClientGone
  BY <1>1, StreamsUnchanged DEF ClientGone, execVars, AcceptedDraftIsWhole
<1>2. ASSUME NEW s \in Streams, ProduceStep(s) PROVE WholeInv'
  <2>1. Produce(s) /\ UNCHANGED execVars
    BY <1>2 DEF ProduceStep
  <2>2. /\ EndingInv'
        /\ \A t \in Streams : Balance(t)' = Balance(t)
        /\ \A t \in Streams : ErrWaits(t) => ErrWaits(t)'
        /\ producer[s] # "ended"
        /\ \A t \in Streams \ {s} : UNCHANGED <<producer[t], ending[t], read[t]>>
    BY <2>1, <1>t, ProduceBalance
  <2>3. ASSUME outcome = "draft_accepted"
        PROVE  producer'[D] = "ended" /\ AcceptedDraftIsWhole'
    <3>1. D # s
      BY <2>2, <2>3
    <3>2. UNCHANGED <<producer[D], ending[D], read[D]>>
      BY <2>2, <3>1
    <3> QED
      BY <2>1, <2>3, <3>2 DEF AcceptedDraftIsWhole, execVars
  <2>4. heavyHeld /\ H \notin drained => Balance(H)' = 0
    BY <2>2
  <2>5. outcome = "none" => draftLen + Balance(D)' = 0 /\ ErrWaits(D)'
    BY <2>2
  <2> QED
    BY <2>1, <2>2, <2>3, <2>4, <2>5 DEF execVars
<1>3. ASSUME NEW s \in Streams, Drain(s) PROVE WholeInv'
  <2>1. s \in drained /\ Receive(s) /\ UNCHANGED execVars
    BY <1>3 DEF Drain
  <2>2. /\ EndingInv'
        /\ \A t \in Streams \ {s} : Balance(t)' = Balance(t)
        /\ UNCHANGED <<producer, ending, read>>
    BY <2>1, <1>t, ReceiveBalance
  <2>3. outcome = "draft_accepted" => AcceptedDraftIsWhole'
    BY <2>1, <2>2 DEF AcceptedDraftIsWhole, execVars
  <2>4. heavyHeld /\ H \notin drained => Balance(H)' = 0
    BY <2>1, <2>2
  <2>5. outcome # "none"
    BY <2>1 DEF OwnerInv, ControlInv
  <2> QED
    BY <2>1, <2>2, <2>3, <2>4, <2>5 DEF execVars
<1>4. CASE CtxDone
  BY <1>4, <1>o, StreamsUnchanged DEF CtxDone, Return
<1>5. CASE DrafterClosed
  <2>1. /\ outcome = "none"
        /\ producer[D] = "ended"
        /\ channel[D] = << >>
        /\ todo = << >>
    BY <1>5, <1>o DEF DrafterClosed, Closed, TodoInv
  <2>2. Len(channel[D]) = 0
    BY <2>1
  <2>3. ErrSent(D) = 0
    BY <2>1, <2>2 DEF ErrWaits, ErrSent
  <2>4. ending[D] \in {"done", "eof", "cancelled"}
    <3>1. ending[D] \in Ending
      BY <1>t DEF StreamTypeOK
    <3>2. ending[D] # "open"
      BY <2>1 DEF EndingInv
    <3>3. ending[D] # "fault"
      BY <2>1, <2>3 DEF ErrSent
    <3> QED
      BY <3>1, <3>2, <3>3 DEF Ending
  <2>5. ending[D] # "cancelled" => draftLen = read[D]
    <3>1. read[D] \in Nat
      BY <1>t DEF StreamTypeOK
    <3> QED
      BY <2>1, <2>2, <2>3, <3>1, <1>t DEF Balance, Unsent
  <2>6. AcceptedDraftIsWhole'
    BY <1>5, <2>1, <2>4, <2>5 DEF DrafterClosed, AcceptedDraftIsWhole
  <2> QED
    BY <1>5, <1>o, <2>1, <2>6, StreamsUnchanged DEF DrafterClosed, Return
<1>6. CASE DrafterErr
  <2>1. /\ EndingInv'
        /\ Balance(H)' = Balance(H)
    BY <1>6, <1>t, ReceiveBalance DEF DrafterErr
  <2> QED
    BY <1>6, <1>o, <2>1 DEF DrafterErr, Return
<1>7. CASE DrafterChunk
  <2>1. /\ EndingInv'
        /\ Balance(D)' = Balance(D) - 1
        /\ Balance(H)' = Balance(H)
        /\ ErrWaits(D) => ErrWaits(D)'
        /\ outcome = "none"
    BY <1>7, <1>o, <1>t, ReceiveBalance DEF DrafterChunk
  <2>2. draftLen' + Balance(D)' = 0
    BY <1>7, <1>t, <2>1 DEF DrafterChunk
  <2> QED
    BY <1>7, <1>o, <2>1, <2>2 DEF DrafterChunk
<1>8. CASE Escalate
  BY <1>8, <1>o, StreamsUnchanged DEF Escalate, TakeToken, Return, streamVars
<1>9. CASE SoftTrigger
  BY <1>9, <1>o, StreamsUnchanged DEF SoftTrigger, TakeToken, streamVars
<1>10. CASE PassToken
  BY <1>10, <1>o, StreamsUnchanged DEF PassToken, TakeToken, streamVars
<1>11. CASE StartHeavy
  <2>1. /\ EndingInv'
        /\ Balance(H)' = 0
        /\ Balance(D)' = Balance(D)
        /\ ErrWaits(D)' = ErrWaits(D)
    <3>1. /\ producer'[H] = "scan" /\ channel'[H] = << >> /\ read'[H] = 0
          /\ ending'[H] = "open"
          /\ UNCHANGED <<producer[D], channel[D], read[D], ending[D]>>
      BY <1>11, <1>t DEF StartHeavy, Open, StreamTypeOK
    <3>2. Len(channel'[H]) = 0
      BY <3>1
    <3>3. Balance(H)' = 0
      BY <3>1, <3>2 DEF Balance, Unsent, ErrSent
    <3>4. EndingInv'
      BY <3>1, ExecutorAssumption DEF EndingInv, D, H
    <3> QED
      BY <3>1, <3>3, <3>4 DEF Balance, Unsent, ErrSent, ErrWaits
  <2>2. outcome = "none"
    BY <1>11, <1>o DEF StartHeavy
  <2> QED
    BY <1>11, <2>1, <2>2 DEF StartHeavy
<1>12. CASE StartFails
  BY <1>12, <1>o, StreamsUnchanged DEF StartFails, streamVars
<1>13. CASE UNCHANGED vars
  BY <1>13, StreamsUnchanged DEF vars, streamVars, execVars, AcceptedDraftIsWhole
<1> QED
  BY <1>1, <1>2, <1>3, <1>4, <1>5, <1>6, <1>7, <1>8, <1>9, <1>10, <1>11, <1>12,
     <1>13 DEF Next, Execute, Select, Token, Start

LEMMA WholeInvariant == Spec => [](TypeOK /\ OwnerInv /\ WholeInv)
<1>1. TypeOK /\ TodoInv /\ OwnerInv /\ WholeInv /\ [Next]_vars
        => (TypeOK /\ TodoInv /\ OwnerInv /\ WholeInv)'
  BY TypeStep, OwnerStep, WholeStep
<1> QED
  BY TypeInit, OwnerInit, WholeInit, <1>1, PTL DEF Spec

\* An accepted draft is whole.
THEOREM ExecutorDraftWhole == Spec => []AcceptedDraftIsWhole
<1>1. WholeInv => AcceptedDraftIsWhole
  BY DEF WholeInv, AcceptedDraftIsWhole
<1> QED
  BY <1>1, WholeInvariant, PTL

\* The head start of the heavyweight call is whole.
THEOREM ExecutorHeadStartWhole == Spec => []HeadStartIsWhole
<1>1. TypeOK /\ OwnerInv /\ WholeInv => HeadStartIsWhole
  <2> SUFFICES ASSUME TypeOK, OwnerInv, WholeInv, heavyHeld,
                      outcome = "none" \/ handed
               PROVE  /\ cancelled[H] = cancelled[D]
                      /\ Len(channel[H]) + Unsent(H) = read[H] + ErrSent(H)
    BY DEF HeadStartIsWhole
  <2>1. H \notin drained
    BY DEF OwnerInv, HeavyInv
  <2>2. cancelled[H] = cancelled[D]
    BY <2>1, DInStreams DEF OwnerInv, HeavyInv, TypeOK, StreamTypeOK
  <2>3. Balance(H) = 0
    BY <2>1 DEF WholeInv
  <2>4. /\ Len(channel[H]) \in Nat /\ read[H] \in Nat
              /\ Unsent(H) \in Nat /\ ErrSent(H) \in Nat
    BY DInStreams, BalanceType DEF TypeOK
  <2>5. Len(channel[H]) + Unsent(H) = read[H] + ErrSent(H)
    BY <2>3, <2>4 DEF Balance
  <2> QED
    BY <2>2, <2>5
<1> QED
  BY <1>1, WholeInvariant, PTL

-----------------------------------------------------------------------------
(* Accepted drafts are cold.                                               *)

\* As long as the window has not asked for escalation it is cold.
ColdInv == EarlyExitCount >= Size - 1 /\ outcome # "escalated" => Cold(window, Threshold)

LEMMA ColdInvStep == TypeOK /\ TodoInv /\ OwnerInv /\ ColdInv /\ [Next]_vars => ColdInv'
<1> SUFFICES ASSUME TypeOK, TodoInv, OwnerInv, ColdInv, [Next]_vars,
                    EarlyExitCount >= Size - 1, outcome' # "escalated"
             PROVE  Cold(window', Threshold)
  BY DEF ColdInv
<1>1. CASE UNCHANGED window
  <2>1. outcome # "escalated"
    <3>1. CASE Execute
      BY <3>1, <1>1 DEF Execute, Select, CtxDone, DrafterClosed, DrafterErr,
         DrafterChunk, Token, Escalate, SoftTrigger, PassToken, TakeToken, Start,
         StartHeavy, StartFails, OwnerInv, ControlInv
    <3>2. CASE UNCHANGED outcome
      BY <3>2
    <3> QED
      BY <3>1, <3>2 DEF Next, ClientGone, ProduceStep, Drain, execVars, vars
  <2> QED
    BY <1>1, <2>1 DEF ColdInv
<1>2. ASSUME TakeToken(Head(todo)), ~Escalates(window', Head(todo), Threshold), UNCHANGED outcome
      PROVE  Cold(window', Threshold)
  <2>1. Head(todo) \in Nat
    BY <1>2, TakeTokenType
  <2>2. window' = Slide(window, Head(todo)) /\ Cold(window, Threshold)
    BY <1>2 DEF TakeToken, ColdInv
  <2> QED
    BY <1>2, <2>1, <2>2, ColdStep, ExecutorAssumption
<1>3. CASE Token
  BY <1>2, <1>3 DEF Token, Escalate, SoftTrigger, PassToken, Return
<1> QED
  BY <1>1, <1>3 DEF Next, Execute, Select, Start, CtxDone, DrafterClosed,
     DrafterErr, DrafterChunk, StartHeavy, StartFails, ClientGone, ProduceStep,
     Drain, execVars, vars

\* The mean of the last tokens of an accepted draft is at most the threshold.
THEOREM ExecutorDraftCold == Spec => []AcceptedDraftIsCold
<1>1. Init => ColdInv
  BY NewWindowCold, ExecutorAssumption DEF Init, ColdInv
<1>2. ColdInv => AcceptedDraftIsCold
  BY DEF ColdInv, AcceptedDraftIsCold, Cold
<1> QED
  BY <1>1, <1>2, ColdInvStep, OwnerInvariant, PTL DEF Spec

-----------------------------------------------------------------------------
(* The decision.                                                           *)

\* Execute escalates at the first token at which the rule of the window holds, and
\* at no other: Route's RoutedByTheRule, for the speculative mode.
EscalatedByTheRule == ByTheRule(entropies, Threshold, outcome = "escalated")

RuleInv == Reflects(window, entropies) /\ EscalatedByTheRule

LEMMA RuleStep == TypeOK /\ TodoInv /\ OwnerInv /\ RuleInv /\ [Next]_vars => RuleInv'
<1> SUFFICES ASSUME TypeOK, TodoInv, OwnerInv, RuleInv, [Next]_vars PROVE RuleInv'
  OBVIOUS
<1>1. ASSUME UNCHANGED <<window, entropies>>, outcome' = "escalated" <=> outcome = "escalated"
      PROVE  RuleInv'
  BY <1>1 DEF RuleInv, EscalatedByTheRule, ByTheRule
<1>2. CASE Token
  <2>1. TakeToken(Head(todo))
    BY <1>2 DEF Token, Escalate, SoftTrigger, PassToken
  <2>2. outcome = "none"
    BY <2>1 DEF OwnerInv, ControlInv, TakeToken
  <2>3. outcome' = "escalated" <=> Escalates(window', Head(todo), Threshold)
    BY <1>2, <2>2 DEF Token, Escalate, SoftTrigger, PassToken, Return
  <2>4. Head(todo) \in Nat
    BY <2>1, TakeTokenType
  <2>5. entropies' = Append(entropies, Head(todo)) /\ window' = Slide(window, Head(todo))
    BY <2>1 DEF TakeToken
  <2>6. ByTheRule(entropies, Threshold, FALSE) /\ Reflects(window, entropies)
    BY <2>2 DEF RuleInv, EscalatedByTheRule, ByTheRule
  <2>7. Reflects(window', entropies') /\ ByTheRule(entropies', Threshold, Escalates(window', Head(todo), Threshold))
    BY <2>4, <2>5, <2>6, AppendByTheRule, ExecutorAssumption
  <2> QED
    BY <2>3, <2>7 DEF RuleInv, EscalatedByTheRule, ByTheRule
<1>3. CASE Select
  BY <1>1, <1>3 DEF Select, CtxDone, DrafterClosed, DrafterErr, DrafterChunk, Return,
     OwnerInv, ControlInv
<1>4. CASE Start
  BY <1>1, <1>4 DEF Start, StartHeavy, StartFails
<1>5. CASE ~Execute
  BY <1>1, <1>5 DEF Next, ClientGone, ProduceStep, Drain, execVars, vars
<1> QED
  BY <1>2, <1>3, <1>4, <1>5 DEF Execute

\* Speculation changes nothing about the decision: it is the one the rule gives for
\* the tokens seen, for every window, both thresholds and every early exit count.
THEOREM ExecutorByTheRule == Spec => []EscalatedByTheRule
<1>1. Init => RuleInv
  <2> SUFFICES ASSUME Init PROVE RuleInv
    OBVIOUS
  <2>1. Reflects(window, entropies) /\ entropies = << >>
    BY NewWindowReflects DEF Init
  <2> QED
    BY <2>1 DEF RuleInv, EscalatedByTheRule, ByTheRule
<1>2. RuleInv => EscalatedByTheRule
  BY DEF RuleInv
<1> QED
  BY <1>1, <1>2, RuleStep, OwnerInvariant, PTL DEF Spec

-----------------------------------------------------------------------------
(* Refinement.                                                             *)

LEMMA LifecycleInit == Init => L!Init
BY DInStreams DEF Init, L!Init, phaseBar, heavyBar

\* Every step of Execute is a step of the lifecycle or leaves it alone.
LEMMA LifecycleStep ==
    TypeOK /\ OwnerInv /\ OwnerInv' /\ [Next]_vars => [L!Next]_(L!vars)
<1> SUFFICES ASSUME TypeOK, OwnerInv, OwnerInv', [Next]_vars
             PROVE  [L!Next]_(L!vars)
  OBVIOUS
<1> USE DInStreams
<1>o. /\ pc = "returned" <=> outcome # "none"
      /\ pc = "starting" => ~heavyHeld
      /\ outcome = "none" => state = IF heavyHeld THEN "speculating" ELSE "drafting"
      /\ handed <=> heavyHeld /\ outcome = "escalated"
      /\ H \in drained <=> heavyHeld /\ outcome \notin {"none", "escalated"}
      /\ outcome \in Outcome
      /\ heavyHeld \in BOOLEAN
  BY DEF OwnerInv, ControlInv, HeavyInv, TypeOK
<1>p. /\ pc' = "returned" <=> outcome' # "none"
      /\ outcome' = "none" =>
            state' = IF heavyHeld' THEN "speculating" ELSE "drafting"
      /\ handed' <=> heavyHeld' /\ outcome' = "escalated"
      /\ H \in drained' <=> heavyHeld' /\ outcome' \notin {"none", "escalated"}
  BY DEF OwnerInv, ControlInv, HeavyInv
\* The abstract state is a function of outcome and heavyHeld.
<1>q. /\ outcome = "none" =>
             /\ phaseBar = IF heavyHeld THEN "speculating" ELSE "drafting"
             /\ heavyBar = IF heavyHeld THEN "running" ELSE "none"
      /\ outcome = "escalated" =>
             /\ phaseBar = "escalated"
             /\ heavyBar = IF heavyHeld THEN "handed" ELSE "none"
      /\ outcome = "draft_accepted" =>
             /\ phaseBar = "draft_accepted"
             /\ heavyBar = IF heavyHeld THEN "cancelled" ELSE "none"
      /\ outcome \in {"ctx_error", "drafter_error"} =>
             /\ phaseBar = "failed"
             /\ heavyBar = IF heavyHeld THEN "cancelled" ELSE "none"
  BY <1>o DEF phaseBar, heavyBar
<1>r. /\ outcome' = "none" =>
             /\ phaseBar' = IF heavyHeld' THEN "speculating" ELSE "drafting"
             /\ heavyBar' = IF heavyHeld' THEN "running" ELSE "none"
      /\ outcome' = "escalated" =>
             /\ phaseBar' = "escalated"
             /\ heavyBar' = IF heavyHeld' THEN "handed" ELSE "none"
      /\ outcome' = "draft_accepted" =>
             /\ phaseBar' = "draft_accepted"
             /\ heavyBar' = IF heavyHeld' THEN "cancelled" ELSE "none"
      /\ outcome' \in {"ctx_error", "drafter_error"} =>
             /\ phaseBar' = "failed"
             /\ heavyBar' = IF heavyHeld' THEN "cancelled" ELSE "none"
  BY <1>p DEF phaseBar, heavyBar
<1>1. ASSUME UNCHANGED <<outcome, heavyHeld>> PROVE UNCHANGED L!vars
  BY <1>1, <1>o, <1>q, <1>r DEF L!vars, Outcome
<1>2. CASE CtxDone \/ DrafterErr
  <2>1. /\ outcome = "none" /\ UNCHANGED heavyHeld
        /\ outcome' \in {"ctx_error", "drafter_error"}
    BY <1>2, <1>o DEF CtxDone, DrafterErr, Return
  <2>2. L!Fail
    BY <2>1, <1>q, <1>r DEF L!Fail, L!Final, L!Settle
  <2> QED
    BY <2>2 DEF L!Next
<1>3. CASE DrafterClosed
  <2>1. /\ outcome = "none" /\ UNCHANGED heavyHeld
        /\ outcome' = "draft_accepted"
    BY <1>3, <1>o DEF DrafterClosed, Return
  <2>2. L!Accept
    BY <2>1, <1>q, <1>r DEF L!Accept, L!Final, L!Settle
  <2> QED
    BY <2>2 DEF L!Next
<1>4. CASE Escalate
  <2>1. /\ outcome = "none" /\ UNCHANGED heavyHeld
        /\ outcome' = "escalated"
    BY <1>4, <1>o DEF Escalate, TakeToken, Return
  <2>2. L!Escalate
    BY <2>1, <1>q, <1>r DEF L!Escalate, L!Final, L!Settle
  <2> QED
    BY <2>2 DEF L!Next
<1>5. CASE StartHeavy
  <2>1. outcome = "none" /\ outcome' = "none" /\ ~heavyHeld /\ heavyHeld'
    BY <1>5, <1>o DEF StartHeavy
  <2>2. L!Speculate
    BY <2>1, <1>q, <1>r DEF L!Speculate
  <2> QED
    BY <2>2 DEF L!Next
<1>6. CASE DrafterChunk \/ SoftTrigger \/ PassToken \/ StartFails
  BY <1>1, <1>6 DEF DrafterChunk, SoftTrigger, PassToken, StartFails, TakeToken
<1>7. CASE ClientGone \/ \E s \in Streams : ProduceStep(s) \/ Drain(s)
  BY <1>1, <1>7 DEF ClientGone, ProduceStep, Drain, execVars
<1>8. CASE UNCHANGED vars
  BY <1>1, <1>8 DEF vars, execVars
<1> QED
  BY <1>2, <1>3, <1>4, <1>5, <1>6, <1>7, <1>8
     DEF Next, Execute, Select, Token, Start

\* Execute implements the safety part of the request lifecycle: a heavyweight
\* call, once running, is handed over or cancelled, and nothing else.
THEOREM ExecutorRefinesLifecycle == Spec => L!Spec
<1>1. Spec => [](TypeOK /\ OwnerInv)
  BY OwnerInvariant, PTL
<1> QED
  BY <1>1, LifecycleInit, LifecycleStep, PTL DEF Spec, L!Spec

-----------------------------------------------------------------------------
(* Speculation decides nothing.                                            *)

\* What the drafter's part of a function on the streams sees of an update.
LEMMA DrafterOnlyFacts ==
    ASSUME NEW f, DOMAIN f = Streams, NEW x
    PROVE  /\ drafterOnly(f)[D] = f[D]
           /\ drafterOnly([f EXCEPT ![D] = x]) = [drafterOnly(f) EXCEPT ![D] = x]
           /\ drafterOnly([f EXCEPT ![H] = x]) = drafterOnly(f)
BY DInStreams DEF drafterOnly

\* The streams of the serial router.
routeStreams == <<drafterOnly(producer), drafterOnly(channel), drafterOnly(offer),
                  drafterOnly(read), drafterOnly(ending), drafterOnly(cancelled)>>

\* A step of the drafter's goroutine is one in the serial router too.
LEMMA RouteProduce ==
    ASSUME StreamTypeOK, Produce(D)
    PROVE  R!Produce(D)
<1>t. /\ DOMAIN producer = Streams /\ DOMAIN channel = Streams
      /\ DOMAIN offer = Streams /\ DOMAIN read = Streams
      /\ DOMAIN ending = Streams /\ DOMAIN cancelled = Streams
  BY DEF StreamTypeOK
<1>d. /\ drafterOnly(producer)[D] = producer[D]
      /\ drafterOnly(channel)[D] = channel[D]
      /\ drafterOnly(offer)[D] = offer[D]
      /\ drafterOnly(read)[D] = read[D]
      /\ drafterOnly(cancelled)[D] = cancelled[D]
      /\ drafterOnly(Chunks)[D] = Chunks[D]
  BY DEF drafterOnly
<1>p. /\ drafterOnly(producer)' = drafterOnly(producer')
      /\ drafterOnly(channel)' = drafterOnly(channel')
      /\ drafterOnly(offer)' = drafterOnly(offer')
      /\ drafterOnly(read)' = drafterOnly(read')
      /\ drafterOnly(ending)' = drafterOnly(ending')
      /\ drafterOnly(cancelled)' = drafterOnly(cancelled')
  BY DEF drafterOnly
<1>1. CASE ScanChunk(D)
  <2>1. PICK tokens \in Chunks[D] : offer' = [offer EXCEPT ![D] = tokens]
    BY <1>1 DEF ScanChunk
  <2>2. drafterOnly(offer)' = [drafterOnly(offer) EXCEPT ![D] = tokens]
    BY <1>t, <1>p, <2>1, DrafterOnlyFacts
  <2>3. /\ drafterOnly(producer)' = [drafterOnly(producer) EXCEPT ![D] = "offer"]
        /\ UNCHANGED <<drafterOnly(channel), drafterOnly(ending),
                       drafterOnly(cancelled)>>
    BY <1>1, <1>t, <1>p, DrafterOnlyFacts DEF ScanChunk
  <2>4. drafterOnly(read)' = [drafterOnly(read) EXCEPT ![D] = read[D] + 1]
    BY <1>1, <1>t, DInStreams DEF ScanChunk, drafterOnly
  <2>5. R!ScanChunk(D)
    BY <1>1, <1>d, <2>2, <2>3, <2>4 DEF ScanChunk, R!ScanChunk
  <2> QED
    BY <2>5 DEF R!Produce, R!Scan
<1>2. CASE ScanEnd(D)
  <2>1. PICK reason \in {"done", "eof"} : StopScanning(D, reason, "ended")
    BY <1>2 DEF ScanEnd
  <2>2. R!StopScanning(D, reason, "ended")
    BY <1>t, <1>p, <2>1, DrafterOnlyFacts DEF StopScanning, R!StopScanning
  <2>3. R!ScanEnd(D)
    BY <1>2, <1>d, <1>p, <2>2 DEF ScanEnd, R!ScanEnd
  <2> QED
    BY <2>3 DEF R!Produce, R!Scan
<1>3. CASE ScanFault(D)
  BY <1>3, <1>t, <1>d, <1>p, DrafterOnlyFacts
     DEF ScanFault, StopScanning, R!ScanFault, R!StopScanning, R!Produce, R!Scan
<1>4. CASE SendChunk(D)
  <2>1. drafterOnly(channel)' =
          [drafterOnly(channel) EXCEPT ![D] = Append(channel[D], R!ChunkItem(offer[D]))]
    BY <1>4, <1>t, DInStreams DEF SendChunk, ChunkItem, R!ChunkItem, drafterOnly
  <2>2. drafterOnly(producer)' = [drafterOnly(producer) EXCEPT ![D] = "scan"]
    BY <1>4, <1>t, <1>p, DrafterOnlyFacts DEF SendChunk
  <2>3. R!SendChunk(D)
    BY <1>4, <1>d, <1>p, <2>1, <2>2 DEF SendChunk, R!SendChunk
  <2> QED
    BY <2>3 DEF R!Produce
<1>5. CASE DropChunk(D)
  BY <1>5, <1>t, <1>d, <1>p, DrafterOnlyFacts
     DEF DropChunk, StopScanning, R!DropChunk, R!StopScanning, R!Produce
<1>6. CASE SendFault(D)
  <2>1. drafterOnly(channel)' =
          [drafterOnly(channel) EXCEPT ![D] = Append(channel[D], R!ErrItem)]
    BY <1>6, <1>t, DInStreams DEF SendFault, ErrItem, R!ErrItem, drafterOnly
  <2>2. drafterOnly(producer)' = [drafterOnly(producer) EXCEPT ![D] = "ended"]
    BY <1>6, <1>t, <1>p, DrafterOnlyFacts DEF SendFault
  <2>3. R!SendFault(D)
    BY <1>6, <1>d, <1>p, <2>1, <2>2 DEF SendFault, R!SendFault
  <2> QED
    BY <2>3 DEF R!Produce
<1> QED
  BY <1>1, <1>2, <1>3, <1>4, <1>5, <1>6 DEF Produce, Scan

\* The heavyweight's goroutine does not exist there.
LEMMA RouteNoHeavy ==
    ASSUME StreamTypeOK, Produce(H)
    PROVE  UNCHANGED routeStreams
<1>t. /\ DOMAIN producer = Streams /\ DOMAIN channel = Streams
      /\ DOMAIN offer = Streams /\ DOMAIN read = Streams
      /\ DOMAIN ending = Streams
  BY DEF StreamTypeOK
<1>1. /\ \A s \in {D} : UNCHANGED <<producer[s], channel[s], offer[s], read[s], ending[s]>>
      /\ UNCHANGED cancelled
  BY <1>t, DInStreams DEF Produce, Scan, ScanChunk, ScanEnd, ScanFault, SendChunk,
     DropChunk, SendFault, StopScanning
<1> QED
  BY <1>1 DEF routeStreams, drafterOnly

\* A receive from the drafter's channel is one in the serial router.
LEMMA RouteReceive ==
    ASSUME StreamTypeOK, Receive(D)
    PROVE  R!Receive(D) /\ R!Received(D) = Received(D)
<1>1. DOMAIN channel = Streams
  BY DEF StreamTypeOK
<1>2. drafterOnly(channel)[D] = channel[D]
  BY DEF drafterOnly
<1>3. drafterOnly(channel)' = [drafterOnly(channel) EXCEPT ![D] = Tail(channel[D])]
  BY <1>1, DInStreams DEF Receive, drafterOnly
<1>4. UNCHANGED <<drafterOnly(producer), drafterOnly(offer), drafterOnly(read),
                  drafterOnly(ending)>>
  BY DEF Receive, drafterOnly
<1> QED
  BY <1>2, <1>3, <1>4 DEF Receive, Received, R!Receive, R!Received

\* What the streams of the serial router depend on.
LEMMA RouteStreamsUnchanged ==
    ASSUME \A s \in {D} : UNCHANGED <<producer[s], channel[s], offer[s], read[s],
                                      ending[s], cancelled[s]>>
    PROVE  UNCHANGED routeStreams
BY DEF routeStreams, drafterOnly

\* The rest of its state, where it is not Execute's own.
routeRest == <<pcRoute, todo, window, entropies, draftLen, outcomeRoute, drained \cap {D}>>

LEMMA RouteVars ==
    UNCHANGED routeStreams /\ UNCHANGED routeRest => UNCHANGED R!vars
BY DEF routeStreams, routeRest, R!vars, R!streamVars, R!routeVars

LEMMA RouteInit == Init => R!Init
<1> SUFFICES ASSUME Init PROVE R!Init
  OBVIOUS
<1>1. /\ drafterOnly(producer) = [s \in {D} |-> "scan"]
      /\ drafterOnly(channel) = [s \in {D} |-> << >>]
      /\ drafterOnly(offer) = [s \in {D} |-> << >>]
      /\ drafterOnly(read) = [s \in {D} |-> 0]
      /\ drafterOnly(ending) = [s \in {D} |-> "open"]
      /\ drafterOnly(cancelled) = [s \in {D} |-> FALSE]
  BY DInStreams DEF Init, drafterOnly
<1>2. pcRoute = "select" /\ outcomeRoute = "none" /\ drained \cap {D} = {}
  BY DEF Init, pcRoute, outcomeRoute
<1>3. window = R!NewWindow
  BY DEF Init, NewWindow, R!NewWindow
<1> QED
  BY <1>1, <1>2, <1>3 DEF Init, R!Init

\* Every step of Execute is a step of the serial router or leaves it alone.
LEMMA RouteStep ==
    TypeOK /\ OwnerInv /\ OwnerInv' /\ [Next]_vars => [R!Next]_(R!vars)
<1> SUFFICES ASSUME TypeOK, OwnerInv, OwnerInv', [Next]_vars
             PROVE  [R!Next]_(R!vars)
  OBVIOUS
<1> USE DInStreams
<1>t. /\ StreamTypeOK
      /\ Streams = {D, H}
      /\ DOMAIN cancelled = Streams
      /\ pc \in ExecuteAt
      /\ outcome \in Outcome
  BY ExecutorAssumption DEF TypeOK, StreamTypeOK, D, H
<1>o. /\ pc = "returned" <=> outcome # "none"
      /\ outcome = "none" => drained = {}
  BY DEF OwnerInv, ControlInv
<1>m. /\ pc # "starting" => pcRoute = pc
      /\ pc = "starting" => pcRoute = ResumeWith(todo)
      /\ pc' # "starting" => pcRoute' = pc'
      /\ pc' = "starting" => pcRoute' = ResumeWith(todo')
      /\ \A l : ResumeWith(l) # "starting" /\ R!ResumeWith(l) = ResumeWith(l)
  BY DEF pcRoute, ResumeWith, R!ResumeWith
<1>n. /\ UNCHANGED outcome => UNCHANGED outcomeRoute
      /\ outcome' = "escalated" => outcomeRoute' = "escalate"
      /\ outcome' = "draft_accepted" => outcomeRoute' = "continue"
      /\ outcome' = "ctx_error" => outcomeRoute' = "ctx_error"
      /\ outcome' = "drafter_error" => outcomeRoute' = "drafter_error"
  BY DEF outcomeRoute
<1>d. R!D = D /\ drafterOnly(cancelled)[D] = cancelled[D]
  BY DEF R!D, D, drafterOnly
<1>w. ASSUME NEW e
      PROVE  /\ R!Slide(window, e) = Slide(window, e)
             /\ \A w : R!Escalates(w, e, Threshold) <=> Escalates(w, e, Threshold)
  BY DEF R!Slide, Slide, R!Escalates, Escalates, R!AverageExceeds, AverageExceeds,
     R!Occupied, Occupied
<1>1. CASE ClientGone
  <2>1. drafterOnly(cancelled)' = [s \in {D} |-> TRUE]
    BY <1>1 DEF ClientGone, drafterOnly
  <2>2. UNCHANGED <<drafterOnly(producer), drafterOnly(channel), drafterOnly(offer),
                    drafterOnly(read), drafterOnly(ending)>>
    BY <1>1 DEF ClientGone, drafterOnly
  <2>3. UNCHANGED routeRest
    BY <1>1 DEF ClientGone, execVars, routeRest, pcRoute, outcomeRoute, ResumeWith
  <2>4. R!ClientGone
    BY <1>1, <1>d, <2>1, <2>2, <2>3 DEF ClientGone, R!ClientGone, R!routeVars, routeRest
  <2> QED
    BY <2>4 DEF R!Next
<1>2. CASE ProduceStep(D)
  <2>1. R!Produce(D)
    BY <1>2, <1>t, RouteProduce DEF ProduceStep
  <2>2. UNCHANGED routeRest
    BY <1>2 DEF ProduceStep, execVars, routeRest, pcRoute, outcomeRoute, ResumeWith
  <2>3. R!ProduceStep
    BY <1>d, <2>1, <2>2 DEF R!ProduceStep, R!routeVars, routeRest
  <2> QED
    BY <2>3 DEF R!Next
<1>3. CASE ProduceStep(H)
  <2>1. UNCHANGED routeStreams
    BY <1>3, <1>t, RouteNoHeavy DEF ProduceStep
  <2>2. UNCHANGED routeRest
    BY <1>3 DEF ProduceStep, execVars, routeRest, pcRoute, outcomeRoute, ResumeWith
  <2> QED
    BY <2>1, <2>2, RouteVars
<1>4. CASE Drain(D)
  <2>1. R!Receive(D) /\ UNCHANGED drafterOnly(cancelled)
    BY <1>4, <1>t, RouteReceive DEF Drain, drafterOnly
  <2>2. UNCHANGED routeRest
    BY <1>4 DEF Drain, execVars, routeRest, pcRoute, outcomeRoute, ResumeWith
  <2>3. R!Drain
    BY <1>4, <1>d, <2>1, <2>2 DEF Drain, R!Drain, R!routeVars, routeRest
  <2> QED
    BY <2>3 DEF R!Next
<1>5. CASE Drain(H)
  <2>1. UNCHANGED routeStreams
    BY <1>5, <1>t, RouteStreamsUnchanged DEF Drain, Receive, StreamTypeOK
  <2>2. UNCHANGED routeRest
    BY <1>5 DEF Drain, execVars, routeRest, pcRoute, outcomeRoute, ResumeWith
  <2> QED
    BY <2>1, <2>2, RouteVars
<1>6. CASE CtxDone
  <2>1. UNCHANGED routeStreams
    BY <1>6, <1>t, RouteStreamsUnchanged DEF CtxDone, ReleaseHeavy
  <2>2. UNCHANGED (drained \cap {D})
    BY <1>6 DEF CtxDone, ReleaseHeavy
  <2>3. R!CtxDone
    BY <1>6, <1>m, <1>n, <1>d, <2>1, <2>2
       DEF CtxDone, Return, R!CtxDone, R!Return, R!streamVars, routeStreams
  <2> QED
    BY <2>3 DEF R!Next, R!Step
<1>7. CASE DrafterClosed
  <2>1. UNCHANGED routeStreams
    BY <1>7, <1>t, RouteStreamsUnchanged DEF DrafterClosed, ReleaseHeavy
  <2>2. UNCHANGED (drained \cap {D})
    BY <1>7 DEF DrafterClosed, ReleaseHeavy
  <2>3. R!Closed(D)
    BY <1>7 DEF DrafterClosed, Closed, R!Closed, drafterOnly
  <2>4. R!DrafterClosed
    BY <1>7, <1>m, <1>n, <1>d, <2>1, <2>2, <2>3
       DEF DrafterClosed, Return, R!DrafterClosed, R!Return, R!streamVars, routeStreams
  <2> QED
    BY <2>4 DEF R!Next, R!Step
<1>8. CASE DrafterErr
  <2>1. R!Receive(D) /\ R!Received(D) = Received(D)
    BY <1>8, <1>t, RouteReceive DEF DrafterErr
  <2>2. UNCHANGED drafterOnly(cancelled)
    BY <1>8, <1>t DEF DrafterErr, ReleaseHeavy, drafterOnly
  <2>3. UNCHANGED (drained \cap {D})
    BY <1>8 DEF DrafterErr, ReleaseHeavy
  <2>4. R!DrafterErr
    BY <1>8, <1>m, <1>n, <1>d, <2>1, <2>2, <2>3
       DEF DrafterErr, Return, R!DrafterErr, R!Return
  <2> QED
    BY <2>4 DEF R!Next, R!Step
<1>9. CASE DrafterChunk
  <2>1. R!Receive(D) /\ R!Received(D) = Received(D)
    BY <1>9, <1>t, RouteReceive DEF DrafterChunk
  <2>2. UNCHANGED drafterOnly(cancelled)
    BY <1>9 DEF DrafterChunk, drafterOnly
  <2>3. R!DrafterChunk
    BY <1>9, <1>m, <1>n, <1>d, <2>1, <2>2 DEF DrafterChunk, R!DrafterChunk
  <2> QED
    BY <2>3 DEF R!Next, R!Step
<1>10. ASSUME TakeToken(Head(todo))
       PROVE  R!TakeToken(Head(todo))
  <2>1. UNCHANGED routeStreams
    BY <1>10, <1>t, RouteStreamsUnchanged DEF TakeToken, streamVars
  <2> QED
    BY <1>10, <1>m, <1>w, <2>1 DEF TakeToken, R!TakeToken, R!streamVars, routeStreams
<1>11. CASE Escalate
  <2>1. /\ R!TakeToken(Head(todo))
        /\ R!Escalates(window', Head(todo), Threshold)
    BY <1>10, <1>11, <1>w DEF Escalate
  <2>2. (drained \cap {D})' = (drained \cap {D}) \cup {D}
    BY <1>11 DEF Escalate
  <2>3. R!Return("escalate")
    BY <1>11, <1>m, <1>n DEF Escalate, Return, R!Return
  <2>4. R!Escalate
    BY <1>d, <2>1, <2>2, <2>3 DEF R!Escalate
  <2> QED
    BY <2>4 DEF R!Next, R!Step
<1>12. CASE SoftTrigger \/ PassToken
  <2>1. /\ R!TakeToken(Head(todo))
        /\ ~R!Escalates(window', Head(todo), Threshold)
    BY <1>10, <1>12, <1>w DEF SoftTrigger, PassToken
  <2>2. pcRoute' = ResumeWith(todo')
    BY <1>12, <1>m DEF SoftTrigger, PassToken
  <2>3. R!PassToken
    BY <1>12, <1>m, <1>n, <2>1, <2>2 DEF SoftTrigger, PassToken, R!PassToken
  <2> QED
    BY <2>3 DEF R!Next, R!Step
<1>13. CASE StartHeavy
  <2>1. UNCHANGED routeStreams
    BY <1>13, <1>t, RouteStreamsUnchanged DEF StartHeavy, Open, StreamTypeOK
  <2>2. UNCHANGED routeRest
    BY <1>13, <1>m, <1>n DEF StartHeavy, routeRest
  <2> QED
    BY <2>1, <2>2, RouteVars
<1>14. CASE StartFails
  <2>1. UNCHANGED routeStreams
    BY <1>14, RouteStreamsUnchanged DEF StartFails, streamVars
  <2>2. UNCHANGED routeRest
    BY <1>14, <1>m, <1>n DEF StartFails, routeRest
  <2> QED
    BY <2>1, <2>2, RouteVars
<1>15. CASE UNCHANGED vars
  <2>1. UNCHANGED routeStreams
    BY <1>15, RouteStreamsUnchanged DEF vars, streamVars
  <2>2. UNCHANGED routeRest
    BY <1>15, <1>m, <1>n DEF vars, execVars, routeRest, pcRoute
  <2> QED
    BY <2>1, <2>2, RouteVars
<1> QED
  BY <1>t, <1>1, <1>2, <1>3, <1>4, <1>5, <1>6, <1>7, <1>8, <1>9, <1>11, <1>12, <1>13,
     <1>14, <1>15 DEF Next, Execute, Select, Token, Start

\* Speculation decides nothing: on the drafter's side every behaviour of Execute
\* is one of the serial router.
THEOREM ExecutorRefinesRoute == Spec => RoutesLikeTheRouter
<1>1. Spec => [](TypeOK /\ OwnerInv)
  BY OwnerInvariant, PTL
<1> QED
  BY <1>1, RouteInit, RouteStep, PTL DEF Spec, RoutesLikeTheRouter, R!Spec
=============================================================================
