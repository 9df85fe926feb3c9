------------------------------- MODULE Gateway -------------------------------
(***************************************************************************)
(* The life of the gateway process, cmd/gateway/main.go and                *)
(* internal/gateway/server.go, around the requests it serves: it loads a   *)
(* configuration, opens the cache, listens, and stops on a signal or is    *)
(* killed, while handlers run; a later process finds what is in the cache. *)
(*                                                                         *)
(* A chat request is the Exchange that ChatRequest implements, and the     *)
(* cache is the CacheContract that SemanticCache implements; the id of an  *)
(* inserted response is the request that it answered.                      *)
(***************************************************************************)
EXTENDS Config

CONSTANTS
    Requests, Evictions,            \* chat requests, DELETE /v1/cache/<id>
    Prompts, Similarity, MinScore,  \* of CacheContract
    RawConfigs,                     \* what the file may hold
    MaxRuns                         \* bound: how often the process is started

ASSUME GatewayAssumption ==
    /\ Requests \cap Evictions = {}
    /\ \A raw \in RawConfigs : Parsed(raw)

VARIABLES
    process,   \* "off", "loaded" (config read), "serving", "stopping"
    runs,      \* how often it has been started
    config,    \* what Load returned, as long as it is "loaded"
    cacheOn,   \* cacheStore is not nil
    listener,  \* "idle", "opening", "open", "closed"; "failed": in errCh
    notified,  \* signal.Notify has been called
    quit,      \* a signal is, or was, in the channel quit
    exit,      \* how the last process ended: "none" yet, "clean", "fatal", "killed"
    arrived,   \* the run in which each call arrived, 0 if it has not
    request,                               \* of Exchange
    prompt, entry, lookup, insert, evict   \* of CacheContract

X == INSTANCE Exchange WITH caching <- [r \in Requests |-> cacheOn]
C == INSTANCE CacheContract WITH Lookups <- Requests, Inserts <- Requests

mainVars == <<process, config, cacheOn, notified, quit, exit>>
cacheVars == <<prompt, entry, lookup, insert, evict>>
vars == <<mainVars, runs, listener, arrived, request, cacheVars>>

NoConfig == "none"
Calls == Requests \cup Evictions

Init ==
    /\ process = "off" /\ runs = 0 /\ config = NoConfig /\ cacheOn = FALSE
    /\ listener = "idle" /\ notified = FALSE /\ quit = FALSE /\ exit = "none"
    /\ arrived = [x \in Calls |-> 0]
    /\ request = [r \in Requests |-> X!Unanswered]
    /\ C!Init

-----------------------------------------------------------------------------
\* The handlers under way.
Returned(x) == IF x \in Requests THEN request[x].done ELSE evict[x] # C!Open
Handling == {x \in Calls : process # "off" /\ arrived[x] = runs /\ ~Returned(x)}

\* The process is gone, and what it was doing in the cache with it.
Ends(how) ==
    /\ process' = "off" /\ exit' = how
    /\ config' = NoConfig /\ notified' = FALSE /\ quit' = FALSE
    /\ listener' = "idle"
    /\ C!Down({r \in Handling \cap Requests : cacheOn /\ lookup[r] = C!Open},
              {r \in Requests : request[r].inserting /\ insert[r] = "open"},
              Handling \cap Evictions)
    /\ UNCHANGED <<runs, cacheOn, arrived, request>>

\* config.Load and OPENAI_API_KEY: no file, a refused one or no key is fatal.
Load ==
    /\ process = "off" /\ runs < MaxRuns
    /\ runs' = runs + 1
    /\ \/ /\ exit' = "fatal"
          /\ UNCHANGED <<process, config, cacheOn>>
       \/ \E raw \in RawConfigs :
            LET cfg == applyDefaults(raw) IN
            /\ ~Refused(cfg)
            /\ process' = "loaded" /\ exit' = "none"
            /\ config' = cfg
            /\ cacheOn' = CacheEnabled(cfg)
    /\ UNCHANGED <<listener, notified, quit, arrived, request, cacheVars>>

\* mux.Handle panics on a path that the mux already has.
PathTaken(cfg) ==
    /\ cfg.metrics
    /\ cfg.metricsPath \in {"/health", "/v1/chat/completions"}
                             \cup (IF CacheEnabled(cfg) THEN {"/v1/cache/"} ELSE {})

\* cache.New, NewServer and go srv.Start(): the cache may not be there, or not
\* within the startup timeout.
Open ==
    /\ process = "loaded"
    /\ \/ (cacheOn \/ PathTaken(config)) /\ Ends("fatal")
       \/ /\ ~PathTaken(config)
          /\ cacheOn => config.startupTimeout > 0
          /\ process' = "serving" /\ listener' = "opening" /\ config' = NoConfig
          /\ UNCHANGED <<runs, cacheOn, notified, quit, exit, arrived, request, cacheVars>>

\* ListenAndServe, in its goroutine.
ListenOpens ==
    /\ listener = "opening"
    /\ listener' = "open"
    /\ UNCHANGED <<mainVars, runs, arrived, request, cacheVars>>

ListenFails ==
    /\ listener \in {"opening", "open"}
    /\ listener' = "failed"
    /\ UNCHANGED <<mainVars, runs, arrived, request, cacheVars>>

Notify ==
    /\ process = "serving" /\ ~notified
    /\ notified' = TRUE
    /\ UNCHANGED <<process, runs, config, cacheOn, listener, quit, exit, arrived, request,
                   cacheVars>>

\* SIGINT or SIGTERM: without signal.Notify it kills the process.
Signal ==
    /\ process # "off"
    /\ \/ ~notified /\ Ends("killed")
       \/ /\ notified /\ quit' = TRUE
          /\ UNCHANGED <<process, runs, config, cacheOn, listener, notified, exit, arrived,
                         request, cacheVars>>

\* The select of main; when both channels are ready, either one.
Select ==
    /\ process = "serving" /\ notified
    /\ \/ listener = "failed" /\ Ends("fatal")
       \/ /\ quit
          /\ process' = "stopping" /\ listener' = "closed"
          /\ UNCHANGED <<runs, config, cacheOn, notified, quit, exit, arrived, request,
                         cacheVars>>

\* Mutants: Shutdown does not wait, or has no deadline.
StopAtOnce == process = "stopping" /\ Ends("clean")
StopNever == FALSE /\ Ends("fatal")

\* Shutdown returns when no handler is left, or after ten seconds with an error.
StopClean == process = "stopping" /\ Handling = {} /\ Ends("clean")
StopDeadline == process = "stopping" /\ Handling # {} /\ Ends("fatal")

\* SIGKILL, or a panic outside the handlers' goroutines, which
\* recoveryMiddleware does not see.
Crash == process # "off" /\ Ends("killed")

Main == Open \/ Notify \/ Select \/ StopClean \/ StopDeadline

-----------------------------------------------------------------------------
\* A call reaches the mux; without a cache there is no path to evict.
Arrive(x) ==
    /\ listener = "open" /\ arrived[x] = 0
    /\ x \in Evictions => cacheOn
    /\ arrived' = [arrived EXCEPT ![x] = runs]
    /\ UNCHANGED <<mainVars, runs, listener, request, cacheVars>>

CacheStep == UNCHANGED <<mainVars, runs, listener, arrived, request>>

LookupEnds(r) ==
    /\ r \in Handling /\ cacheOn /\ request[r] = X!Unanswered
    /\ CacheStep
    /\ C!HasNone(r) \/ \E i \in Requests : C!Hits(r, i)

\* The error may come before the lookup (bad request) or after it.
Answer(r) ==
    /\ r \in Handling
    /\ UNCHANGED <<mainVars, runs, listener, arrived, cacheVars>>
    /\ \/ X!Reply(r, "error")
       \/ lookup[r].is = "hit" /\ X!Reply(r, "cached")
       \/ /\ cacheOn => lookup[r].is \in {"miss", "failed"}
          /\ X!Reply(r, "draft") \/ X!Reply(r, "heavy") \/ X!Begin(r)
       \/ X!End(r)

\* Mutant of InsertRuns: the response is inserted whichever model gave it.
InsertRunsAny(r) ==
    /\ process # "off" /\ cacheOn /\ request[r].answer \in {"draft", "heavy"}
    /\ CacheStep
    /\ C!Add(r) \/ C!InsertSucceeds(r) \/ C!InsertFails(r)

\* The goroutine of cacheInsert: no handler and no Shutdown waits for it.
InsertRuns(r) ==
    /\ process # "off" /\ request[r].inserting
    /\ CacheStep
    /\ C!Add(r) \/ C!InsertSucceeds(r) \/ C!InsertFails(r)

\* DELETE; a bad method, an empty id or an error of the cache is a failure.
EvictEnds(e) ==
    /\ e \in Handling
    /\ CacheStep
    /\ C!EvictFails(e) \/ \E i \in Requests : C!Evicts(e, i)

\* Redis expires an entry, whether or not a gateway runs.
Expire(i) == CacheStep /\ C!Vanish(i)

Next ==
    \/ Load \/ Main \/ ListenOpens \/ ListenFails \/ Signal \/ Crash
    \/ \E x \in Calls : Arrive(x)
    \/ \E r \in Requests : LookupEnds(r) \/ Answer(r) \/ InsertRuns(r) \/ Expire(r)
    \/ \E e \in Evictions : EvictEnds(e)

Spec == Init /\ [][Next]_vars

\* main runs on, and the ten seconds of Shutdown pass; no handler need return.
FairSpec == Spec /\ WF_vars(Main)

-----------------------------------------------------------------------------
\* Every variable is in its type; there is a configuration between Load and Open.
TypeOK ==
    /\ process \in {"off", "loaded", "serving", "stopping"}
    /\ runs \in Nat
    /\ IF process = "loaded" THEN Parsed(config) ELSE config = NoConfig
    /\ {cacheOn, notified, quit} \subseteq BOOLEAN
    /\ listener \in {"idle", "opening", "open", "closed", "failed"}
    /\ exit \in {"none", "clean", "fatal", "killed"}
    /\ arrived \in [Calls -> Nat]
    /\ request \in [Requests -> [answer : X!Answers \cup {"none"},
                                 done : BOOLEAN, inserting : BOOLEAN]]
    /\ prompt \in [Requests -> Prompts]
    /\ entry \in [Requests -> {"absent", "live", "gone"}]
    /\ lookup \in [Requests -> [is : {"open", "hit", "miss", "failed"},
                                id : Requests \cup {C!None}]]
    /\ insert \in [Requests -> {"open", "ok", "failed"}]
    /\ evict \in [Evictions -> [is : {"open", "ok", "failed"}, id : Requests \cup {C!None}]]

\* A configuration that Load returns is what the other modules assume of it
\* (WindowAssumption, the executor's lower threshold, two distinct models, the
\* similarity of the cache), with two exceptions that validate lets pass: each of
\* the three fractions may be NaN, and the threshold may be infinite, when the
\* lower threshold is not below it.  (Products are exact here.)
LoadedConfigFits ==
    process = "loaded" =>
        /\ config.windowSize \in Nat \ {0} /\ config.earlyExitCount \in Int
        /\ config.threshold \in (Nat \ {0}) \cup {NaN, Inf}
        /\ config.softThresholdMult \in 1..9 \cup {NaN}
        /\ config.threshold \in Int /\ config.softThresholdMult \in Int =>
              config.threshold * config.softThresholdMult \in 1..(config.threshold * 10 - 1)
        /\ <<config.drafterURL, config.drafterModel>> # <<config.heavyURL, config.heavyModel>>
        /\ cacheOn =>
              /\ config.similarity \in 1..100 \cup {NaN}
              /\ config.ttl > 0 /\ config.dimensions > 0

\* Once "gateway stopped" is logged, every call that had arrived has been
\* answered and its handler has returned: Shutdown closes the listener first and
\* then waits for the handlers.  (The inserts may be cut off.)
CleanStopAnswersAll ==
    exit = "clean" => \A x \in Calls : arrived[x] = runs => Returned(x)

\* Over restarts, evictions and failed inserts, a request that is answered from
\* the cache gets the accepted draft of another request with a similar prompt,
\* never a heavyweight response.
CachedAnswersAreDrafts ==
    \A r \in Requests : request[r].answer = "cached" =>
        \E i \in Requests \ {r} :
            /\ lookup[r] = C!Answer("hit", i)
            /\ request[i].answer = "draft" /\ request[i].inserting
            /\ C!Similar(r, i)

\* A process that was told to stop ends, whatever its handlers do.
StopEnds == quit ~> process = "off"
=============================================================================
