----------------------------- MODULE RouteProofs -----------------------------
(***************************************************************************)
(* Proofs about serial routing, for every window, threshold, channel       *)
(* capacity and upstream behaviour.                                        *)
(***************************************************************************)
EXTENDS Route, EntropyWindowProofs, ChunkStreamProofs

LEMMA DIsTheStream == Streams = {D}
BY RouteAssumption DEF D

-----------------------------------------------------------------------------
(* Type correctness.                                                       *)

\* Route has tokens to look at in the loop over a chunk's tokens, and none when
\* it waits for the next chunk; it drains only what it left.
ControlInv ==
    /\ pc = "tokens" => todo # << >>
    /\ pc = "select" => todo = << >>
    /\ pc = "returned" <=> outcome # "none"
    /\ drained # {} => outcome = "escalate"

LEMMA TypeInit == Init => TypeOK /\ ControlInv
<1> SUFFICES ASSUME Init PROVE TypeOK /\ ControlInv
  OBVIOUS
<1>1. << >> \in Seq(Item) /\ << >> \in Seq(Nat)
  OBVIOUS
<1>2. StreamTypeOK
  BY <1>1 DEF Init, StreamTypeOK, ProducerAt, Ending
<1> QED
  BY <1>1, <1>2, NewWindowType DEF Init, TypeOK, ControlInv, RouteAt, Outcome

\* What a token does to the typed variables it changes.
LEMMA TakeTokenType ==
    ASSUME TypeOK, ControlInv, TakeToken(Head(todo))
    PROVE  /\ StreamTypeOK'
           /\ entropies' \in Seq(Nat)
           /\ window' \in Window
           /\ todo' \in Seq(Nat)
           /\ pc = "tokens"
           /\ UNCHANGED draftLen
<1>1. todo \in Seq(Nat) /\ todo # << >>
  BY DEF TypeOK, ControlInv, TakeToken
<1>2. Head(todo) \in Nat /\ Tail(todo) \in Seq(Nat)
  BY <1>1
<1>3. window' \in Window
  BY <1>2, SlideType DEF TakeToken, TypeOK
<1>4. entropies' \in Seq(Nat)
  BY <1>2 DEF TakeToken, TypeOK
<1>5. StreamTypeOK'
  BY DEF TakeToken, TypeOK, StreamTypeOK, streamVars
<1> QED
  BY <1>2, <1>3, <1>4, <1>5 DEF TakeToken

LEMMA TypeStep == TypeOK /\ ControlInv /\ [Next]_vars => TypeOK' /\ ControlInv'
<1> SUFFICES ASSUME TypeOK, ControlInv, [Next]_vars PROVE TypeOK' /\ ControlInv'
  OBVIOUS
<1> USE DIsTheStream DEF RouteAt, Outcome
<1>1. CASE ClientGone
  BY <1>1 DEF ClientGone, routeVars, TypeOK, StreamTypeOK, ControlInv
<1>2. CASE ProduceStep
  <2>1. StreamTypeOK'
    BY <1>2, ProduceType DEF ProduceStep, TypeOK
  <2> QED
    BY <1>2, <2>1 DEF ProduceStep, routeVars, TypeOK, ControlInv
<1>3. CASE Drain
  <2>1. StreamTypeOK'
    BY <1>3, ReceiveType DEF Drain, TypeOK, StreamTypeOK
  <2> QED
    BY <1>3, <2>1 DEF Drain, routeVars, TypeOK, ControlInv
<1>4. CASE CtxDone
  BY <1>4 DEF CtxDone, Return, streamVars, TypeOK, StreamTypeOK, ControlInv
<1>5. CASE DrafterClosed
  BY <1>5 DEF DrafterClosed, Return, streamVars, TypeOK, StreamTypeOK, ControlInv
<1>6. CASE DrafterErr
  <2>1. StreamTypeOK'
    BY <1>6, ReceiveType DEF DrafterErr, TypeOK, StreamTypeOK
  <2> QED
    BY <1>6, <2>1 DEF DrafterErr, Return, TypeOK, ControlInv
<1>7. CASE DrafterChunk
  <2>1. StreamTypeOK' /\ Received(D) \in Item
    BY <1>7, ReceiveType DEF DrafterChunk, TypeOK, StreamTypeOK
  <2>2. todo' \in Seq(Nat)
    BY <1>7, <2>1 DEF DrafterChunk, Item
  <2> QED
    BY <1>7, <2>1, <2>2 DEF DrafterChunk, ResumeWith, TypeOK, ControlInv
<1>8. CASE Escalate
  <2>1. TakeToken(Head(todo))
    BY <1>8 DEF Escalate
  <2> QED
    BY <1>8, <2>1, TakeTokenType DEF Escalate, Return, TypeOK, ControlInv
<1>9. CASE PassToken
  <2>1. TakeToken(Head(todo))
    BY <1>9 DEF PassToken
  <2> QED
    BY <1>9, <2>1, TakeTokenType DEF PassToken, ResumeWith, TypeOK, ControlInv
<1>10. CASE UNCHANGED vars
  BY <1>10 DEF vars, streamVars, routeVars, TypeOK, StreamTypeOK, ControlInv
<1> QED
  BY <1>1, <1>2, <1>3, <1>4, <1>5, <1>6, <1>7, <1>8, <1>9, <1>10 DEF Next, Step

\* Every reachable state has its variables in their types.
THEOREM RouteType == Spec => []TypeOK
<1>1. Spec => [](TypeOK /\ ControlInv)
  BY TypeInit, TypeStep, PTL DEF Spec
<1> QED
  BY <1>1, PTL

-----------------------------------------------------------------------------
(* Drafts that stand.                                                      *)

\* Every chunk is in the draft or on its way to it until Route returns.
WholeInv ==
    /\ EndingInv
    /\ outcome = "none" => draftLen + Balance(D) = 0 /\ ErrWaits(D)
    /\ outcome = "continue" => producer[D] = "ended" /\ DraftIsWhole

LEMMA WholeInit == Init => WholeInv
<1> SUFFICES ASSUME Init PROVE WholeInv
  OBVIOUS
<1>1. EndingInv
  BY DEF Init, EndingInv
<1>2. Balance(D) = 0 /\ ErrWaits(D)
  BY DIsTheStream DEF Init, Balance, ErrWaits, Unsent, ErrSent
<1> QED
  BY <1>1, <1>2 DEF Init, WholeInv

LEMMA WholeStep == TypeOK /\ ControlInv /\ WholeInv /\ [Next]_vars => WholeInv'
<1> SUFFICES ASSUME TypeOK, ControlInv, WholeInv, [Next]_vars PROVE WholeInv'
  OBVIOUS
<1> USE DIsTheStream DEF WholeInv
<1>o. /\ pc = "returned" <=> outcome # "none"
      /\ drained # {} => outcome = "escalate"
      /\ pc = "select" => todo = << >>
  BY DEF ControlInv
<1>t. /\ StreamTypeOK
      /\ draftLen \in Nat
      /\ Balance(D) \in Int
  BY BalanceType DEF TypeOK
<1>1. CASE ClientGone
  BY <1>1, StreamsUnchanged DEF ClientGone, routeVars, DraftIsWhole
<1>2. CASE ProduceStep
  <2>1. Produce(D) /\ UNCHANGED routeVars
    BY <1>2 DEF ProduceStep
  <2>2. /\ EndingInv'
        /\ Balance(D)' = Balance(D)
        /\ ErrWaits(D) => ErrWaits(D)'
        /\ producer[D] # "ended"
    BY <2>1, <1>t, ProduceBalance
  <2> QED
    BY <2>1, <2>2 DEF routeVars
<1>3. CASE Drain
  <2>1. EndingInv'
    BY <1>3, <1>t, ReceiveBalance DEF Drain
  <2>2. outcome' = "escalate"
    BY <1>3, <1>o DEF Drain, routeVars
  <2> QED
    BY <2>1, <2>2
<1>4. CASE CtxDone
  BY <1>4, StreamsUnchanged DEF CtxDone, Return, streamVars
<1>5. CASE DrafterClosed
  <2>1. /\ outcome = "none"
        /\ producer[D] = "ended"
        /\ channel[D] = << >>
        /\ todo = << >>
    BY <1>5, <1>o DEF DrafterClosed, Closed
  <2>2. Len(channel[D]) = 0
    BY <2>1
  <2>3. ErrSent(D) = 0
    BY <2>1, <2>2 DEF ErrWaits, ErrSent
  <2>4. ending[D] \in {"done", "eof", "cancelled"}
    <3>1. ending[D] \in Ending
      BY <1>t DEF StreamTypeOK
    <3>2. ending[D] # "open" /\ ending[D] # "fault"
      BY <2>1, <2>3 DEF EndingInv, ErrSent
    <3> QED
      BY <3>1, <3>2 DEF Ending
  <2>5. ending[D] # "cancelled" => draftLen = read[D]
    <3>1. read[D] \in Nat
      BY <1>t DEF StreamTypeOK
    <3> QED
      BY <2>1, <2>2, <2>3, <3>1, <1>t DEF Balance, Unsent
  <2>6. DraftIsWhole'
    BY <1>5, <2>1, <2>4, <2>5 DEF DrafterClosed, streamVars, DraftIsWhole
  <2> QED
    BY <1>5, <2>1, <2>6, StreamsUnchanged DEF DrafterClosed, Return, streamVars
<1>6. CASE DrafterErr
  <2>1. EndingInv'
    BY <1>6, <1>t, ReceiveBalance DEF DrafterErr
  <2> QED
    BY <1>6, <2>1 DEF DrafterErr, Return
<1>7. CASE DrafterChunk
  <2>1. /\ EndingInv'
        /\ Balance(D)' = Balance(D) - 1
        /\ ErrWaits(D) => ErrWaits(D)'
        /\ outcome = "none"
    BY <1>7, <1>o, <1>t, ReceiveBalance DEF DrafterChunk
  <2>2. draftLen' + Balance(D)' = 0
    BY <1>7, <1>t, <2>1 DEF DrafterChunk
  <2> QED
    BY <1>7, <2>1, <2>2 DEF DrafterChunk
<1>8. CASE Escalate
  BY <1>8, StreamsUnchanged DEF Escalate, TakeToken, Return, streamVars
<1>9. CASE PassToken
  <2>1. outcome = "none"
    BY <1>9, <1>o DEF PassToken, TakeToken
  <2> QED
    BY <1>9, <2>1, StreamsUnchanged DEF PassToken, TakeToken, streamVars
<1>10. CASE UNCHANGED vars
  BY <1>10, StreamsUnchanged DEF vars, streamVars, routeVars, DraftIsWhole
<1> QED
  BY <1>1, <1>2, <1>3, <1>4, <1>5, <1>6, <1>7, <1>8, <1>9, <1>10 DEF Next, Step

\* A draft that stands has every chunk its upstream sent.
THEOREM RouteDraftWhole == Spec => []DraftIsWhole
<1>1. WholeInv => DraftIsWhole
  BY DEF WholeInv, DraftIsWhole
<1>2. TypeOK /\ ControlInv /\ WholeInv /\ [Next]_vars
        => (TypeOK /\ ControlInv /\ WholeInv)'
  BY TypeStep, WholeStep
<1> QED
  BY <1>1, <1>2, TypeInit, WholeInit, PTL DEF Spec

-----------------------------------------------------------------------------
(* The decision.                                                           *)

\* RoutedByTheRule is inductive once the window is known to reflect the entropies
\* that were recorded.
RuleInv ==
    /\ Reflects(window, entropies)
    /\ ByTheRule(entropies, Threshold, outcome = "escalate")

LEMMA RuleInit == Init => RuleInv
<1> SUFFICES ASSUME Init PROVE RuleInv
  OBVIOUS
<1>1. Reflects(window, entropies)
  BY NewWindowReflects DEF Init
<1>2. entropies = << >>
  BY DEF Init
<1> QED
  BY <1>1, <1>2 DEF RuleInv, ByTheRule

\* A token that Route looks at.
LEMMA TakeTokenByTheRule ==
    ASSUME TypeOK, ControlInv, RuleInv, TakeToken(Head(todo))
    PROVE  /\ Reflects(window', entropies')
           /\ ByTheRule(entropies', Threshold, Escalates(window', Head(todo), Threshold))
<1>1. Head(todo) \in Nat
  <2>1. todo \in Seq(Nat) /\ todo # << >>
    BY DEF TypeOK, ControlInv, TakeToken
  <2> QED
    BY <2>1
<1>2. entropies' = Append(entropies, Head(todo)) /\ window' = Slide(window, Head(todo))
  BY DEF TakeToken
<1>3. ByTheRule(entropies, Threshold, FALSE)
  BY DEF RuleInv, ByTheRule, ControlInv, TakeToken
<1> QED
  BY <1>1, <1>2, <1>3, AppendByTheRule, RouteAssumption DEF RuleInv

LEMMA RuleStep == TypeOK /\ ControlInv /\ RuleInv /\ [Next]_vars => RuleInv'
<1> SUFFICES ASSUME TypeOK, ControlInv, RuleInv, [Next]_vars PROVE RuleInv'
  OBVIOUS
\* Steps that look at no token do not escalate.
<1>0. ASSUME UNCHANGED <<window, entropies>>, outcome' = "escalate" <=> outcome = "escalate"
      PROVE  RuleInv'
  BY <1>0 DEF RuleInv, ByTheRule
<1>1. CASE ClientGone
  BY <1>0, <1>1 DEF ClientGone, routeVars
<1>2. CASE ProduceStep
  BY <1>0, <1>2 DEF ProduceStep, routeVars
<1>3. CASE Drain
  BY <1>0, <1>3 DEF Drain, routeVars
<1>4. CASE CtxDone
  BY <1>0, <1>4 DEF CtxDone, Return, ControlInv
<1>5. CASE DrafterClosed
  BY <1>0, <1>5 DEF DrafterClosed, Return, ControlInv
<1>6. CASE DrafterErr
  BY <1>0, <1>6 DEF DrafterErr, Return, ControlInv
<1>7. CASE DrafterChunk
  BY <1>0, <1>7 DEF DrafterChunk
<1>8. CASE Escalate
  <2>1. TakeToken(Head(todo)) /\ Escalates(window', Head(todo), Threshold) /\ outcome' = "escalate"
    BY <1>8 DEF Escalate, Return
  <2> QED
    BY <2>1, TakeTokenByTheRule DEF RuleInv, ByTheRule
<1>9. CASE PassToken
  <2>1. TakeToken(Head(todo)) /\ ~Escalates(window', Head(todo), Threshold) /\ outcome' = "none"
    BY <1>9 DEF PassToken, TakeToken, ControlInv
  <2> QED
    BY <2>1, TakeTokenByTheRule DEF RuleInv, ByTheRule
<1>10. CASE UNCHANGED vars
  BY <1>0, <1>10 DEF vars, routeVars
<1> QED
  BY <1>1, <1>2, <1>3, <1>4, <1>5, <1>6, <1>7, <1>8, <1>9, <1>10 DEF Next, Step

\* The decision is the one the routing rule gives for the tokens seen, however they
\* were cut into chunks, for every window, threshold and early exit count.
THEOREM RouteByTheRule == Spec => []RoutedByTheRule
<1>1. TypeOK /\ ControlInv /\ RuleInv /\ [Next]_vars
        => (TypeOK /\ ControlInv /\ RuleInv)'
  BY TypeStep, RuleStep
<1>2. RuleInv => RoutedByTheRule
  BY DEF RuleInv, ByTheRule, RoutedByTheRule
<1> QED
  BY <1>1, <1>2, TypeInit, RuleInit, PTL DEF Spec
=============================================================================
