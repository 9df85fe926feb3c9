---------------------------- MODULE GatewayProofs ----------------------------
(***************************************************************************)
(* Proofs about the gateway process, for any number of requests, evictions *)
(* and processes, and for every configuration file.                        *)
(***************************************************************************)
EXTENDS Gateway, TLAPS

-----------------------------------------------------------------------------
(* The configuration.                                                      *)

Numbers == {"port", "writeTimeout", "drafterTimeout", "heavyTimeout", "windowSize",
            "earlyExitCount", "topLogprobs", "ttl", "dimensions", "startupTimeout",
            "insertTimeout"}

LEMMA DefaultsType ==
    /\ \A f \in DOMAIN Defaults \ (Texts \cup Fractions) : Defaults[f] \in Int
    /\ \A f \in Fractions : f \in DOMAIN Defaults /\ f \notin Texts /\ Defaults[f] \in Int
    /\ DOMAIN Defaults \cap {"speculative", "cache", "metrics"} = {}
<1>1. DOMAIN Defaults = Numbers \cup Texts \cup Fractions
  <2>1. DOMAIN Defaults =
          {"port", "writeTimeout", "drafterURL", "drafterModel", "drafterTimeout",
           "heavyURL", "heavyModel", "heavyTimeout", "threshold", "windowSize",
           "earlyExitCount", "topLogprobs", "softThresholdMult", "metricsPath",
           "similarity", "ttl", "dimensions", "startupTimeout", "insertTimeout"}
    BY Zenon DEF Defaults
  <2>2. DOMAIN Defaults \subseteq Numbers \cup Texts \cup Fractions
    BY <2>1, Zenon DEF Numbers, Texts, Fractions
  <2>3. Numbers \subseteq DOMAIN Defaults
    BY <2>1, Zenon DEF Numbers
  <2>4. Texts \cup Fractions \subseteq DOMAIN Defaults
    BY <2>1, Zenon DEF Texts, Fractions
  <2> QED
    BY <2>2, <2>3, <2>4
<1>2. \A f \in Numbers : Defaults[f] \in Int
  BY DEF Defaults, Numbers
<1>3. \A f \in Fractions : f \notin Texts /\ Defaults[f] \in Int
  BY DEF Defaults, Texts, Fractions
<1>4. (Numbers \cup Texts \cup Fractions) \cap {"speculative", "cache", "metrics"} = {}
  BY DEF Numbers, Texts, Fractions
<1> QED
  BY <1>1, <1>2, <1>3, <1>4

LEMMA BlankDomain ==
    DOMAIN Blank = DOMAIN Defaults \cup {"speculative", "cache", "metrics"}
BY DEF Blank, Empty

LEMMA AppliedType ==
    ASSUME NEW raw, Parsed(raw)
    PROVE  Parsed(applyDefaults(raw))
<1> DEFINE cfg == applyDefaults(raw)
<1>1. DOMAIN cfg = DOMAIN Blank
  BY DEF Parsed, applyDefaults
<1>2. \A f \in DOMAIN Defaults :
         cfg[f] = IF raw[f] = Zero(f) THEN Defaults[f] ELSE raw[f]
  BY BlankDomain DEF Parsed, applyDefaults
<1>3. \A f \in {"speculative", "cache", "metrics"} : cfg[f] = raw[f]
  BY BlankDomain, DefaultsType DEF Parsed, applyDefaults
<1> HIDE DEF cfg
<1>4. \A f \in DOMAIN Defaults \ (Texts \cup Fractions) : cfg[f] \in Int
  BY <1>2, DefaultsType DEF Parsed
<1>5. \A f \in Fractions : cfg[f] \in Floats
  BY <1>2, DefaultsType DEF Parsed, Floats
<1>6. {cfg.speculative, cfg.cache} \subseteq {"unset", "true", "false"} /\ cfg.metrics \in BOOLEAN
  BY <1>3 DEF Parsed
<1> QED
  BY <1>1, <1>4, <1>5, <1>6 DEF Parsed, cfg

\* What the fields that validate looks at may hold.
LEMMA FieldTypes ==
    ASSUME NEW cfg, Parsed(cfg)
    PROVE  /\ cfg.windowSize \in Int /\ cfg.earlyExitCount \in Int
           /\ cfg.ttl \in Int /\ cfg.dimensions \in Int
           /\ {cfg.threshold, cfg.softThresholdMult, cfg.similarity} \subseteq Floats
<1>1. {"windowSize", "earlyExitCount", "ttl", "dimensions"}
        \subseteq DOMAIN Defaults \ (Texts \cup Fractions)
  BY DEF Defaults, Texts, Fractions
<1>2. {"threshold", "softThresholdMult", "similarity"} = Fractions
  BY DEF Fractions
<1> QED
  BY <1>1, <1>2 DEF Parsed

\* The soft threshold is below the hard one and not below zero.
LEMMA SoftBelowHard ==
    ASSUME NEW t \in Int, NEW m \in Int, t >= 1, 1 <= m, m <= 9
    PROVE  t * m \in 1..(t * 10 - 1)
<1>1. m = 1 \/ m = 2 \/ m = 3 \/ m = 4 \/ m = 5 \/ m = 6 \/ m = 7 \/ m = 8 \/ m = 9
  OBVIOUS
<1> QED
  BY <1>1

\* A float that lies, by the comparisons of validate, above a number and not above
\* another is a number between them or NaN; without the upper one it may be Inf.
LEMMA FloatAbove ==
    ASSUME NEW x \in Floats, NEW low \in Int, ~Below(x, low)
    PROVE  x \in {NaN, Inf} \/ (x \in Int /\ low <= x)
<1>1. NaN \notin {x, low} \/ x = NaN
  BY ConfigAssumption
<1>2. x # NegInf \/ x = NaN
  BY <1>1, ConfigAssumption DEF Below
<1>3. x \in Int => low <= x
  BY ConfigAssumption DEF Below
<1> QED
  BY <1>2, <1>3 DEF Floats

LEMMA FloatBetween ==
    ASSUME NEW x \in Floats, NEW low \in Int, NEW high \in Int,
           ~Below(x, low), ~Below(high, x)
    PROVE  x \in low..high \cup {NaN}
<1>1. x # Inf
  BY ConfigAssumption DEF Below
<1>2. x \in Int => x <= high
  BY ConfigAssumption DEF Below
<1> QED
  BY <1>1, <1>2, FloatAbove

\* What LoadedConfigFits says of a configuration.
Fits(cfg) ==
    /\ cfg.windowSize \in Nat \ {0} /\ cfg.earlyExitCount \in Int
    /\ cfg.threshold \in (Nat \ {0}) \cup {NaN, Inf}
    /\ cfg.softThresholdMult \in 1..9 \cup {NaN}
    /\ cfg.threshold \in Int /\ cfg.softThresholdMult \in Int =>
          cfg.threshold * cfg.softThresholdMult \in 1..(cfg.threshold * 10 - 1)
    /\ <<cfg.drafterURL, cfg.drafterModel>> # <<cfg.heavyURL, cfg.heavyModel>>
    /\ CacheEnabled(cfg) =>
          /\ cfg.similarity \in 1..100 \cup {NaN}
          /\ cfg.ttl > 0 /\ cfg.dimensions > 0

LEMMA AcceptedFits ==
    ASSUME NEW cfg, Parsed(cfg), ~Refused(cfg)
    PROVE  Fits(cfg)
<1>1. cfg.windowSize \in Nat \ {0} /\ cfg.earlyExitCount \in Int
  BY FieldTypes DEF Refused
<1>2. cfg.threshold \in (Nat \ {0}) \cup {NaN, Inf}
  <2>1. cfg.threshold \in Floats /\ ~Below(cfg.threshold, 1)
    BY FieldTypes DEF Refused
  <2> QED
    BY <2>1, FloatAbove
<1>3. cfg.softThresholdMult \in 1..9 \cup {NaN}
  <2>1. /\ cfg.softThresholdMult \in Floats
        /\ ~Below(cfg.softThresholdMult, 1) /\ ~Below(9, cfg.softThresholdMult)
    BY FieldTypes DEF Refused
  <2> QED
    BY <2>1, FloatBetween
<1>4. cfg.threshold \in Int /\ cfg.softThresholdMult \in Int =>
        cfg.threshold * cfg.softThresholdMult \in 1..(cfg.threshold * 10 - 1)
  BY <1>2, <1>3, SoftBelowHard, ConfigAssumption
<1>5. <<cfg.drafterURL, cfg.drafterModel>> # <<cfg.heavyURL, cfg.heavyModel>>
  BY DEF Refused
<1>6. CacheEnabled(cfg) => cfg.similarity \in 1..100 \cup {NaN}
  <2>1. CacheEnabled(cfg) =>
          /\ cfg.similarity \in Floats
          /\ ~Below(cfg.similarity, 1) /\ ~Below(100, cfg.similarity)
    BY FieldTypes DEF Refused
  <2> QED
    BY <2>1, FloatBetween
<1>7. CacheEnabled(cfg) => cfg.ttl > 0 /\ cfg.dimensions > 0
  BY FieldTypes DEF Refused
<1> QED
  BY <1>1, <1>2, <1>3, <1>4, <1>5, <1>6, <1>7 DEF Fits

-----------------------------------------------------------------------------
(* What a step does to the requests and to the cache.                      *)

RequestRecord == [answer : X!Answers \cup {"none"}, done : BOOLEAN, inserting : BOOLEAN]
LookupRecord == [is : {"open", "hit", "miss", "failed"}, id : Requests \cup {C!None}]
EvictRecord == [is : {"open", "ok", "failed"}, id : Requests \cup {C!None}]

RequestType == request \in [Requests -> RequestRecord]

CacheType ==
    /\ prompt \in [Requests -> Prompts]
    /\ entry \in [Requests -> {"absent", "live", "gone"}]
    /\ lookup \in [Requests -> LookupRecord]
    /\ insert \in [Requests -> {"open", "ok", "failed"}]
    /\ evict \in [Evictions -> EvictRecord]

\* An answer is given once, is kept, and is a cached one only after a hit.
RequestMoves ==
    /\ RequestType'
    /\ \A r \in Requests :
         /\ request[r].answer # "none" =>
              /\ request'[r].answer = request[r].answer
              /\ request'[r].inserting = request[r].inserting
         /\ request[r].done => request'[r].done
         /\ request'[r].inserting /\ ~request[r].inserting => request'[r].answer = "draft"
         /\ request'[r].answer = "cached" /\ request[r].answer # "cached" =>
              lookup[r].is = "hit"

\* An entry once added stays known, and comes from an insert; a hit stays what it
\* is, and was on a live entry.
CacheMoves ==
    /\ CacheType' /\ prompt' = prompt
    /\ \A i \in Requests :
         /\ entry[i] # "absent" => entry'[i] # "absent"
         /\ entry[i] = "absent" /\ entry'[i] # "absent" => request[i].inserting
    /\ \A r \in Requests :
         /\ lookup[r].is = "hit" => lookup'[r] = lookup[r]
         /\ lookup'[r].is = "hit" /\ lookup[r].is # "hit" =>
              \E i \in Requests :
                lookup'[r] = C!Answer("hit", i) /\ entry[i] = "live" /\ C!Similar(r, i)
    /\ \A e \in Evictions : evict[e] # C!Open => evict'[e] = evict[e]

LEMMA AnswerMoves ==
    ASSUME RequestType, cacheOn \in BOOLEAN, NEW r \in Requests, Answer(r)
    PROVE  RequestMoves
<1>1. CASE \E answer \in X!Answers :
             /\ X!Reply(r, answer)
             /\ answer = "cached" => lookup[r].is = "hit"
  <2>1. PICK answer \in X!Answers :
          /\ X!Reply(r, answer)
          /\ answer = "cached" => lookup[r].is = "hit"
    BY <1>1
  <2> DEFINE new == [answer |-> answer, done |-> TRUE,
                     inserting |-> answer = "draft" /\ cacheOn]
  <2>2. request[r] = X!Unanswered /\ request' = [request EXCEPT ![r] = new]
    BY <2>1 DEF X!Reply
  <2>3. new \in RequestRecord
    BY DEF RequestRecord
  <2> QED
    BY <2>1, <2>2, <2>3 DEF RequestMoves, RequestType, X!Unanswered, RequestRecord
<1>2. CASE X!Begin(r)
  <2> DEFINE new == [answer |-> "heavy", done |-> FALSE, inserting |-> FALSE]
  <2>1. request[r] = X!Unanswered /\ request' = [request EXCEPT ![r] = new]
    BY <1>2 DEF X!Begin
  <2>2. new \in RequestRecord /\ new.answer = "heavy" /\ ~new.inserting
    BY DEF RequestRecord, X!Answers
  <2>3. request[r].answer = "none" /\ ~request[r].done /\ ~request[r].inserting
    BY <2>1 DEF X!Unanswered
  <2> HIDE DEF new
  <2>4. request' \in [Requests -> RequestRecord] /\ request'[r] = new
        /\ \A q \in Requests \ {r} : request'[q] = request[q]
    BY <2>1, <2>2 DEF RequestType
  <2> QED
    BY <2>2, <2>3, <2>4 DEF RequestMoves, RequestType
<1>3. CASE X!End(r)
  BY <1>3 DEF X!End, RequestMoves, RequestType, RequestRecord
<1> QED
  BY <1>1, <1>2, <1>3 DEF Answer, X!Answers

LEMMA LookupMoves ==
    ASSUME CacheType, NEW r \in Requests, LookupEnds(r)
    PROVE  CacheMoves
<1>1. CASE C!HasNone(r)
  BY <1>1 DEF C!HasNone, C!Answer, C!Open, CacheMoves, CacheType, LookupRecord
<1>2. CASE \E i \in Requests : C!Hits(r, i)
  BY <1>2 DEF C!Hits, C!Answer, C!Open, CacheMoves, CacheType, LookupRecord
<1> QED
  BY <1>1, <1>2 DEF LookupEnds

LEMMA InsertMoves ==
    ASSUME CacheType, NEW r \in Requests, InsertRuns(r)
    PROVE  CacheMoves
<1>1. CASE C!Add(r)
  BY <1>1 DEF InsertRuns, C!Add, CacheMoves, CacheType
<1>2. CASE C!InsertSucceeds(r)
  BY <1>2 DEF C!InsertSucceeds, CacheMoves, CacheType
<1>3. CASE C!InsertFails(r)
  BY <1>3 DEF InsertRuns, C!InsertFails, CacheMoves, CacheType
<1> QED
  BY <1>1, <1>2, <1>3 DEF InsertRuns

LEMMA EvictMoves ==
    ASSUME CacheType, NEW e \in Evictions, EvictEnds(e)
    PROVE  CacheMoves
<1>1. CASE C!EvictFails(e)
  BY <1>1 DEF C!EvictFails, C!Answer, C!Open, CacheMoves, CacheType, EvictRecord
<1>2. CASE \E i \in Requests : C!Evicts(e, i)
  BY <1>2 DEF C!Evicts, C!Answer, C!Open, CacheMoves, CacheType, EvictRecord
<1> QED
  BY <1>1, <1>2 DEF EvictEnds

LEMMA ExpireMoves ==
    ASSUME CacheType, NEW i \in Requests, Expire(i)
    PROVE  CacheMoves
BY DEF Expire, C!Vanish, CacheMoves, CacheType

LEMMA EndsMoves ==
    ASSUME CacheType, NEW how, Ends(how)
    PROVE  CacheMoves
<1> DEFINE ls == {r \in Handling \cap Requests : cacheOn /\ lookup[r] = C!Open}
           is == {r \in Requests : request[r].inserting /\ insert[r] = "open"}
           es == Handling \cap Evictions
<1>1. C!Down(ls, is, es)
  BY DEF Ends
<1>2. \A i \in is : i \in Requests /\ request[i].inserting
  OBVIOUS
<1>3. \A l \in ls : l \in Requests /\ lookup[l] = C!Open
  OBVIOUS
<1> HIDE DEF ls, is, es
<1>4. /\ prompt' = prompt
      /\ lookup' = [l \in Requests |-> IF l \in ls THEN C!Answer("failed", C!None) ELSE lookup[l]]
      /\ insert' = [i \in Requests |-> IF i \in is THEN "failed" ELSE insert[i]]
      /\ evict' = [e \in Evictions |-> IF e \in es THEN C!Answer("failed", C!None) ELSE evict[e]]
      /\ entry' = [i \in Requests |-> IF i \in is /\ entry[i] = "absent" THEN "gone" ELSE entry[i]]
      /\ \A e \in es : evict[e] = C!Open
  BY <1>1 DEF C!Down
<1>5. CacheType'
  BY <1>4 DEF CacheType, C!Answer, LookupRecord, EvictRecord
<1>6. \A i \in Requests :
        /\ entry[i] # "absent" => entry'[i] # "absent"
        /\ entry[i] = "absent" /\ entry'[i] # "absent" => request[i].inserting
  BY <1>2, <1>4
<1>7. \A r \in Requests :
        /\ lookup[r].is = "hit" => lookup'[r] = lookup[r]
        /\ lookup'[r].is = "hit" => lookup[r].is = "hit"
  BY <1>3, <1>4 DEF C!Answer, C!Open
<1>8. \A e \in Evictions : evict[e] # C!Open => evict'[e] = evict[e]
  BY <1>4
<1> QED
  BY <1>4, <1>5, <1>6, <1>7, <1>8 DEF CacheMoves

LEMMA CacheStays ==
    ASSUME CacheType, UNCHANGED cacheVars
    PROVE  CacheMoves
BY DEF cacheVars, CacheMoves, CacheType

LEMMA RequestsStay ==
    ASSUME RequestType, request' = request
    PROVE  RequestMoves
BY DEF RequestMoves, RequestType

-----------------------------------------------------------------------------
(* The steps of the process.                                               *)

LEMMA MainIsProcess ==
    ASSUME Load \/ Open \/ ListenOpens \/ ListenFails \/ Notify \/ Signal \/ Select
             \/ StopClean \/ StopDeadline \/ Crash
    PROVE  \/ UNCHANGED <<arrived, request, cacheVars>>
           \/ \E how \in {"clean", "fatal", "killed"} : Ends(how)
BY DEF Load, Open, ListenOpens, ListenFails, Notify, Signal, Select, StopClean,
       StopDeadline, Crash

ProcessStep ==
    Load \/ Open \/ ListenOpens \/ ListenFails \/ Notify \/ Signal \/ Select
      \/ StopClean \/ StopDeadline \/ Crash

\* Every step is one of the process, of a call, or of the cache.
LEMMA Steps ==
    ASSUME [Next]_vars
    PROVE  \/ ProcessStep \/ UNCHANGED vars
           \/ \E x \in Calls : Arrive(x)
           \/ \E r \in Requests : LookupEnds(r) \/ Answer(r) \/ InsertRuns(r) \/ Expire(r)
           \/ \E e \in Evictions : EvictEnds(e)
BY DEF Next, Main, ProcessStep

LEMMA AllMove ==
    ASSUME RequestType, CacheType, cacheOn \in BOOLEAN, [Next]_vars
    PROVE  RequestMoves /\ CacheMoves
<1>1. CASE ProcessStep
  <2>1. CASE UNCHANGED <<arrived, request, cacheVars>>
    BY <2>1, RequestsStay, CacheStays
  <2>2. CASE \E how \in {"clean", "fatal", "killed"} : Ends(how)
    BY <2>2, RequestsStay, EndsMoves DEF Ends
  <2> QED
    BY <1>1, <2>1, <2>2, MainIsProcess DEF ProcessStep
<1>2. CASE UNCHANGED vars
  BY <1>2, RequestsStay, CacheStays DEF vars
<1>3. ASSUME NEW x \in Calls, Arrive(x) PROVE RequestMoves /\ CacheMoves
  BY <1>3, RequestsStay, CacheStays DEF Arrive
<1>4. ASSUME NEW r \in Requests, LookupEnds(r) PROVE RequestMoves /\ CacheMoves
  BY <1>4, RequestsStay, LookupMoves DEF LookupEnds, CacheStep
<1>5. ASSUME NEW r \in Requests, Answer(r) PROVE RequestMoves /\ CacheMoves
  BY <1>5, AnswerMoves, CacheStays DEF Answer
<1>6. ASSUME NEW r \in Requests, InsertRuns(r) PROVE RequestMoves /\ CacheMoves
  BY <1>6, RequestsStay, InsertMoves DEF InsertRuns, CacheStep
<1>7. ASSUME NEW r \in Requests, Expire(r) PROVE RequestMoves /\ CacheMoves
  BY <1>7, RequestsStay, ExpireMoves DEF Expire, CacheStep
<1>8. ASSUME NEW e \in Evictions, EvictEnds(e) PROVE RequestMoves /\ CacheMoves
  BY <1>8, RequestsStay, EvictMoves DEF EvictEnds, CacheStep
<1> QED
  BY <1>1, <1>2, <1>3, <1>4, <1>5, <1>6, <1>7, <1>8, Steps

-----------------------------------------------------------------------------
(* Type correctness.                                                       *)

\* The types of main's own variables, and of the arrivals.
MainType ==
    /\ process \in {"off", "loaded", "serving", "stopping"}
    /\ runs \in Nat
    /\ IF process = "loaded" THEN Parsed(config) ELSE config = NoConfig
    /\ cacheOn \in BOOLEAN /\ notified \in BOOLEAN /\ quit \in BOOLEAN
    /\ listener \in {"idle", "opening", "open", "closed", "failed"}
    /\ exit \in {"none", "clean", "fatal", "killed"}
    /\ arrived \in [Calls -> Nat]

LEMMA TypeParts == TypeOK <=> MainType /\ RequestType /\ CacheType
BY DEF TypeOK, MainType, RequestType, CacheType, RequestRecord, LookupRecord, EvictRecord

LEMMA LoadType ==
    ASSUME MainType, Load
    PROVE  MainType'
<1>1. runs' \in Nat /\ UNCHANGED <<listener, notified, quit, arrived>>
  BY DEF Load, MainType
<1>2. CASE exit' = "fatal" /\ UNCHANGED <<process, config, cacheOn>>
  BY <1>1, <1>2 DEF MainType
<1>3. ASSUME NEW raw \in RawConfigs,
             process' = "loaded" /\ exit' = "none",
             config' = applyDefaults(raw), cacheOn' = CacheEnabled(applyDefaults(raw))
      PROVE  MainType'
  BY <1>1, <1>3, AppliedType, GatewayAssumption DEF MainType, CacheEnabled
<1> QED
  BY <1>2, <1>3 DEF Load

LEMMA EndsType ==
    ASSUME MainType, NEW how \in {"clean", "fatal", "killed"}, Ends(how)
    PROVE  MainType'
BY DEF Ends, MainType

LEMMA ProcessType ==
    ASSUME MainType, ProcessStep
    PROVE  MainType'
<1>1. CASE Load
  BY <1>1, LoadType
<1>2. CASE \E how \in {"clean", "fatal", "killed"} : Ends(how)
  BY <1>2, EndsType
<1>3. CASE Open
  BY <1>2, <1>3 DEF Open, MainType
<1>4. CASE ListenOpens \/ ListenFails
  BY <1>4 DEF ListenOpens, ListenFails, mainVars, MainType
<1>5. CASE Notify
  BY <1>5 DEF Notify, MainType
<1>6. CASE Signal
  BY <1>2, <1>6 DEF Signal, MainType
<1>7. CASE Select
  BY <1>2, <1>7 DEF Select, MainType
<1>8. CASE StopClean \/ StopDeadline \/ Crash
  BY <1>2, <1>8 DEF StopClean, StopDeadline, Crash
<1> QED
  BY <1>1, <1>3, <1>4, <1>5, <1>6, <1>7, <1>8 DEF ProcessStep

\* A step that is not one of the process leaves main alone.
LEMMA OthersStay ==
    ASSUME [Next]_vars, ~ProcessStep
    PROVE  /\ UNCHANGED <<mainVars, runs, listener>>
           /\ \/ arrived' = arrived
              \/ \E x \in Calls : listener = "open" /\ arrived' = [arrived EXCEPT ![x] = runs]
<1>1. CASE UNCHANGED vars
  BY <1>1 DEF vars
<1>2. CASE \E x \in Calls : Arrive(x)
  BY <1>2 DEF Arrive
<1>3. CASE \E r \in Requests : LookupEnds(r) \/ Answer(r) \/ InsertRuns(r) \/ Expire(r)
  BY <1>3 DEF LookupEnds, Answer, InsertRuns, Expire, CacheStep
<1>4. CASE \E e \in Evictions : EvictEnds(e)
  BY <1>4 DEF EvictEnds, CacheStep
<1> QED
  BY <1>1, <1>2, <1>3, <1>4, Steps

LEMMA InitType == Init => TypeOK
<1> SUFFICES ASSUME Init PROVE TypeOK
  OBVIOUS
<1>1. MainType
  BY DEF Init, MainType
<1>2. RequestType
  BY DEF Init, RequestType, RequestRecord, X!Unanswered
<1>3. CacheType
  BY DEF Init, C!Init, CacheType, C!Open, LookupRecord, EvictRecord
<1> QED
  BY <1>1, <1>2, <1>3, TypeParts

LEMMA StepType == TypeOK /\ [Next]_vars => TypeOK'
<1> SUFFICES ASSUME TypeOK, [Next]_vars PROVE TypeOK'
  OBVIOUS
<1>1. MainType /\ RequestType /\ CacheType
  BY TypeParts
<1>2. RequestType' /\ CacheType'
  <2>1. cacheOn \in BOOLEAN
    BY <1>1 DEF MainType
  <2>2. RequestMoves /\ CacheMoves
    BY <1>1, <2>1, AllMove
  <2> QED
    BY <2>2 DEF RequestMoves, CacheMoves
<1>3. MainType'
  <2>1. CASE ProcessStep
    BY <1>1, <2>1, ProcessType
  <2>2. CASE ~ProcessStep
    <3>1. UNCHANGED <<process, runs, config, cacheOn, notified, quit, exit, listener>>
      BY <2>2, OthersStay DEF mainVars
    <3>2. arrived' \in [Calls -> Nat]
      BY <1>1, <2>2, OthersStay DEF MainType
    <3> QED
      BY <1>1, <3>1, <3>2 DEF MainType
  <2> QED
    BY <2>1, <2>2
<1> QED
  BY <1>2, <1>3 DEF TypeOK, MainType, RequestType, CacheType, RequestRecord,
                    LookupRecord, EvictRecord

\* Every variable is in its type in every reachable state; what Load puts into
\* config has the types of config.go.
THEOREM GatewayType == Spec => []TypeOK
BY InitType, StepType, PTL DEF Spec

-----------------------------------------------------------------------------
(* The configuration that Load returns.                                    *)

ConfigInv == process = "loaded" => Fits(config) /\ cacheOn = CacheEnabled(config)

\* Only Load makes the process "loaded", and nothing changes its configuration.
LEMMA OnlyLoadLoads ==
    ASSUME [Next]_vars, ~Load, process' = "loaded"
    PROVE  process = "loaded" /\ config' = config /\ cacheOn' = cacheOn
<1>1. CASE ~ProcessStep
  BY <1>1, OthersStay DEF mainVars
<1>2. CASE ProcessStep
  <2>1. ~(\E how : Ends(how))
    BY DEF Ends
  <2>2. CASE Open \/ Signal \/ Select \/ StopClean \/ StopDeadline \/ Crash
    BY <2>1, <2>2 DEF Open, Signal, Select, StopClean, StopDeadline, Crash
  <2>3. CASE ListenOpens \/ ListenFails \/ Notify
    BY <2>3 DEF ListenOpens, ListenFails, Notify, mainVars
  <2> QED
    BY <1>2, <2>2, <2>3 DEF ProcessStep
<1> QED
  BY <1>1, <1>2

LEMMA ConfigStep == ConfigInv /\ [Next]_vars => ConfigInv'
<1> SUFFICES ASSUME ConfigInv, [Next]_vars, process' = "loaded"
             PROVE  Fits(config)' /\ cacheOn' = CacheEnabled(config)'
  BY DEF ConfigInv
<1>1. CASE Load /\ exit' # "fatal"
  <2>1. PICK raw \in RawConfigs :
          /\ ~Refused(applyDefaults(raw))
          /\ config' = applyDefaults(raw)
          /\ cacheOn' = CacheEnabled(applyDefaults(raw))
    BY <1>1 DEF Load
  <2>2. Fits(applyDefaults(raw))
    BY <2>1, AppliedType, AcceptedFits, GatewayAssumption
  <2> QED
    BY <2>1, <2>2 DEF Fits, CacheEnabled, SpeculativeEnabled
<1>2. CASE Load /\ exit' = "fatal"
  <2>1. process = "off" /\ process' = "off"
    BY <1>2 DEF Load
  <2> QED
    BY <2>1
<1>3. CASE ~Load
  <2>1. process = "loaded" /\ config' = config /\ cacheOn' = cacheOn
    BY <1>3, OnlyLoadLoads
  <2> QED
    BY <2>1 DEF ConfigInv, Fits, CacheEnabled, SpeculativeEnabled
<1> QED
  BY <1>1, <1>2, <1>3

\* A configuration that Load lets through is what the window, the executor, the
\* router and the cache assume of it, except that validate stops neither a NaN in
\* the threshold, the multiplier or the similarity nor an infinite threshold.
\* (Products are exact here; float64 rounds them.)
THEOREM GatewayConfigFits == Spec => []LoadedConfigFits
<1>1. Init => ConfigInv
  BY DEF Init, ConfigInv
<1>2. ConfigInv => LoadedConfigFits
  BY DEF ConfigInv, Fits, LoadedConfigFits
<1> QED
  BY <1>1, <1>2, ConfigStep, PTL DEF Spec

-----------------------------------------------------------------------------
(* Stopping.                                                               *)

\* A clean stop leaves no handler of its run, and no listener lets a call in.
StopInv ==
    /\ process = "off" => listener = "idle"
    /\ process # "off" => runs > 0
    /\ exit = "clean" => process = "off" /\ \A x \in Calls : arrived[x] = runs => Returned(x)

\* A handler that has returned has returned for good.
LEMMA ReturnedStays ==
    ASSUME RequestMoves, CacheMoves, NEW x \in Calls, Returned(x)
    PROVE  Returned(x)'
<1>1. CASE x \in Requests
  BY <1>1 DEF Returned, RequestMoves
<1>2. CASE x \notin Requests
  BY <1>2 DEF Returned, CacheMoves, Calls
<1> QED
  BY <1>1, <1>2

LEMMA EndsStop ==
    ASSUME RequestMoves, CacheMoves, NEW how, Ends(how), how = "clean" => Handling = {} /\ process # "off"
    PROVE  StopInv'
<1>1. process' = "off" /\ listener' = "idle" /\ exit' = how /\ runs' = runs /\ arrived' = arrived
  BY DEF Ends
<1>2. ASSUME how = "clean", NEW x \in Calls, arrived[x] = runs PROVE Returned(x)'
  BY <1>2, ReturnedStays DEF Handling
<1> QED
  BY <1>1, <1>2 DEF StopInv

LEMMA StopStep == TypeOK /\ StopInv /\ [Next]_vars => StopInv'
<1> SUFFICES ASSUME TypeOK, StopInv, [Next]_vars PROVE StopInv'
  OBVIOUS
<1>1. RequestMoves /\ CacheMoves
  <2>1. RequestType /\ CacheType /\ cacheOn \in BOOLEAN
    BY TypeParts DEF MainType
  <2> QED
    BY <2>1, AllMove
<1>2. runs \in Nat
  BY DEF TypeOK
<1>3. CASE Load
  BY <1>2, <1>3 DEF Load, StopInv
<1>4. CASE Open
  <2>1. CASE Ends("fatal")
    BY <1>1, <2>1, EndsStop
  <2>2. CASE ~Ends("fatal")
    BY <1>4, <2>2 DEF Open, StopInv
  <2> QED
    BY <2>1, <2>2
<1>5. CASE ListenOpens \/ ListenFails
  BY <1>5 DEF ListenOpens, ListenFails, mainVars, StopInv
<1>6. CASE Notify
  BY <1>6 DEF Notify, StopInv
<1>7. CASE Signal
  <2>1. CASE Ends("killed")
    BY <1>1, <2>1, EndsStop
  <2>2. CASE ~Ends("killed")
    BY <1>7, <2>2 DEF Signal, StopInv
  <2> QED
    BY <2>1, <2>2
<1>8. CASE Select
  <2>1. CASE Ends("fatal")
    BY <1>1, <2>1, EndsStop
  <2>2. CASE ~Ends("fatal")
    BY <1>8, <2>2 DEF Select, StopInv
  <2> QED
    BY <2>1, <2>2
<1>9. CASE StopClean
  BY <1>1, <1>9, EndsStop DEF StopClean, StopInv
<1>10. CASE StopDeadline
  BY <1>1, <1>10, EndsStop DEF StopDeadline
<1>11. CASE Crash
  BY <1>1, <1>11, EndsStop DEF Crash
<1>12. CASE ~ProcessStep
  <2>1. UNCHANGED <<process, runs, listener, exit>>
    BY <1>12, OthersStay DEF mainVars
  <2>2. exit = "clean" => arrived' = arrived
    BY <1>12, OthersStay DEF StopInv
  <2>3. ASSUME exit = "clean", NEW x \in Calls, arrived[x] = runs PROVE Returned(x)'
    BY <1>1, <2>3, ReturnedStays DEF StopInv
  <2> QED
    BY <2>1, <2>2, <2>3 DEF StopInv
<1> QED
  BY <1>3, <1>4, <1>5, <1>6, <1>7, <1>8, <1>9, <1>10, <1>11, <1>12 DEF ProcessStep

\* When the process has stopped cleanly, no call that had reached it is left
\* without its answer, however many there were.
THEOREM GatewayCleanStop == Spec => []CleanStopAnswersAll
<1>1. Init => StopInv
  BY DEF Init, StopInv
<1>2. StopInv => CleanStopAnswersAll
  BY DEF StopInv, CleanStopAnswersAll
<1> QED
  BY <1>1, <1>2, StopStep, GatewayType, PTL DEF Spec

-----------------------------------------------------------------------------
(* Cached answers.                                                         *)

\* A hit is on an entry that was there; an entry comes from an insert, an insert
\* from an accepted draft; a cached answer follows a hit.
CacheInv ==
    /\ \A r \in Requests : lookup[r].is = "hit" =>
         \E i \in Requests :
           lookup[r] = C!Answer("hit", i) /\ entry[i] # "absent" /\ C!Similar(r, i)
    /\ \A i \in Requests :
         /\ entry[i] # "absent" => request[i].inserting
         /\ request[i].inserting => request[i].answer = "draft"
         /\ request[i].answer = "cached" => lookup[i].is = "hit"

LEMMA CacheInvStep == TypeOK /\ CacheInv /\ [Next]_vars => CacheInv'
<1> SUFFICES ASSUME TypeOK, CacheInv, [Next]_vars PROVE CacheInv'
  OBVIOUS
<1>1. RequestMoves /\ CacheMoves
  <2>1. RequestType /\ CacheType /\ cacheOn \in BOOLEAN
    BY TypeParts DEF MainType
  <2> QED
    BY <2>1, AllMove
<1>2. ASSUME NEW r \in Requests, lookup'[r].is = "hit"
      PROVE  \E i \in Requests :
               lookup'[r] = C!Answer("hit", i) /\ entry'[i] # "absent" /\ C!Similar(r, i)'
  <2>1. CASE lookup[r].is = "hit"
    <3>1. lookup'[r] = lookup[r] /\ prompt' = prompt
      BY <1>1, <2>1 DEF CacheMoves
    <3>2. PICK i \in Requests :
            lookup[r] = C!Answer("hit", i) /\ entry[i] # "absent" /\ C!Similar(r, i)
      BY <2>1 DEF CacheInv
    <3>3. entry'[i] # "absent"
      BY <1>1, <3>2 DEF CacheMoves
    <3> QED
      BY <3>1, <3>2, <3>3 DEF C!Similar
  <2>2. CASE lookup[r].is # "hit"
    <3>1. PICK i \in Requests :
            lookup'[r] = C!Answer("hit", i) /\ entry[i] = "live" /\ C!Similar(r, i)
      BY <1>1, <1>2, <2>2 DEF CacheMoves
    <3>2. entry'[i] # "absent" /\ prompt' = prompt
      BY <1>1, <3>1 DEF CacheMoves
    <3> QED
      BY <3>1, <3>2 DEF C!Similar
  <2> QED
    BY <2>1, <2>2
<1>3. ASSUME NEW i \in Requests, entry'[i] # "absent" PROVE request'[i].inserting
  <2>1. request[i].inserting /\ request[i].answer = "draft"
    BY <1>1, <1>3 DEF CacheMoves, CacheInv
  <2> QED
    BY <1>1, <2>1 DEF RequestMoves
<1>4. ASSUME NEW i \in Requests, request'[i].inserting PROVE request'[i].answer = "draft"
  BY <1>1, <1>4 DEF RequestMoves, CacheInv
<1>5. ASSUME NEW r \in Requests, request'[r].answer = "cached" PROVE lookup'[r].is = "hit"
  BY <1>1, <1>5 DEF RequestMoves, CacheMoves, CacheInv
<1> QED
  BY <1>2, <1>3, <1>4, <1>5 DEF CacheInv

\* A request answered from the cache gets the accepted draft of another, similar
\* request, over any number of restarts, evictions and failed inserts.
THEOREM GatewayCachedAreDrafts == Spec => []CachedAnswersAreDrafts
<1>1. Init => CacheInv
  BY DEF Init, CacheInv, C!Init, C!Open, X!Unanswered
<1>2. CacheInv => CachedAnswersAreDrafts
  BY DEF CacheInv, CachedAnswersAreDrafts
<1> QED
  BY <1>1, <1>2, CacheInvStep, GatewayType, PTL DEF Spec
=============================================================================
