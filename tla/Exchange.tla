------------------------------ MODULE Exchange ------------------------------
(***************************************************************************)
(* What a chat request is to its client and to the rest of the gateway,    *)
(* internal/gateway/handler.go seen from outside: it is answered once, by  *)
(* an error, a cached response, the draft or the heavyweight, and its      *)
(* handler returns.  Only a heavyweight answer, which may be streamed, is  *)
(* seen to begin before it ends.  Only a draft answer starts an insert.    *)
(***************************************************************************)
CONSTANT Requests

VARIABLES
    caching,  \* for each request: the gateway that serves it has a cache
    request   \* its answer, whether it is over, whether it is to be inserted

exchangeVars == <<caching, request>>

Answers == {"error", "cached", "draft", "heavy"}
Unanswered == [answer |-> "none", done |-> FALSE, inserting |-> FALSE]

Init ==
    /\ caching \in [Requests -> BOOLEAN]
    /\ request = [r \in Requests |-> Unanswered]

\* The answer and the return of the handler, which are one step to the client.
Reply(r, answer) ==
    /\ request[r] = Unanswered
    /\ answer = "cached" => caching[r]
    /\ request' = [request EXCEPT ![r] =
                     [answer |-> answer, done |-> TRUE,
                      inserting |-> answer = "draft" /\ caching[r]]]
    /\ UNCHANGED caching

Begin(r) ==
    /\ request[r] = Unanswered
    /\ request' = [request EXCEPT ![r] =
                     [answer |-> "heavy", done |-> FALSE, inserting |-> FALSE]]
    /\ UNCHANGED caching

End(r) ==
    /\ request[r].answer # "none" /\ ~request[r].done
    /\ request' = [request EXCEPT ![r] =
                     [answer |-> request[r].answer, done |-> TRUE,
                      inserting |-> request[r].inserting]]
    /\ UNCHANGED caching

Step(r) == (\E answer \in Answers : Reply(r, answer)) \/ Begin(r) \/ End(r)

Next == \E r \in Requests : Step(r)

Spec == Init /\ [][Next]_exchangeVars
=============================================================================
