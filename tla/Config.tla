------------------------------- MODULE Config -------------------------------
(***************************************************************************)
(* The configuration file, internal/config: the zero value of a field, be  *)
(* it left out or written, becomes its default, and what results is        *)
(* checked.  Fractions are scaled: threshold and multiplier to tenths,     *)
(* similarity to hundredths.  A model and its base URL are small names.    *)
(***************************************************************************)
EXTENDS Integers

\* The floats that YAML writes .nan, .inf and -.inf.
CONSTANTS NaN, Inf, NegInf

ASSUME ConfigAssumption ==
    /\ NaN \notin Int
    /\ Inf \notin Int \cup {NaN}
    /\ NegInf \notin Int \cup {NaN, Inf}

Floats == Int \cup {NaN, Inf, NegInf}

\* Fields without a default are "unset", "true" or "false", as they are pointers,
\* or a boolean.
Texts == {"drafterURL", "drafterModel", "heavyURL", "heavyModel", "metricsPath"}

Defaults == [
    port |-> 8080, writeTimeout |-> 120,
    drafterURL |-> "openai", drafterModel |-> "nano", drafterTimeout |-> 30,
    heavyURL |-> "openai", heavyModel |-> "large", heavyTimeout |-> 60,
    threshold |-> 20, windowSize |-> 10, earlyExitCount |-> 10, topLogprobs |-> 5,
    softThresholdMult |-> 8, metricsPath |-> "/metrics",
    similarity |-> 95, ttl |-> 3600, dimensions |-> 1536,
    startupTimeout |-> 10, insertTimeout |-> 5]

Zero(field) == IF field \in Texts THEN "" ELSE 0

\* The configuration of an empty file.
Empty == [speculative |-> "unset", cache |-> "unset", metrics |-> FALSE]
Blank == [f \in DOMAIN Defaults \cup DOMAIN Empty |->
            IF f \in DOMAIN Defaults THEN Zero(f) ELSE Empty[f]]

\* The types of the fields: what a file may put into them.  A text may be any,
\* as texts are only compared.
Fractions == {"threshold", "softThresholdMult", "similarity"}
Parsed(cfg) ==
    /\ DOMAIN cfg = DOMAIN Blank
    /\ \A f \in DOMAIN Defaults \ (Texts \cup Fractions) : cfg[f] \in Int
    /\ \A f \in Fractions : cfg[f] \in Floats
    /\ {cfg.speculative, cfg.cache} \subseteq {"unset", "true", "false"}
    /\ cfg.metrics \in BOOLEAN

applyDefaults(cfg) ==
    [f \in DOMAIN cfg |-> IF f \in DOMAIN Defaults /\ cfg[f] = Zero(f) THEN Defaults[f]
                                                                       ELSE cfg[f]]

CacheEnabled(cfg) == cfg.cache = "true"
SpeculativeEnabled(cfg) == cfg.speculative # "false"

\* a < b of two floats: false whenever one of them is NaN.
Below(a, b) ==
    /\ NaN \notin {a, b} /\ a # b
    /\ a = NegInf \/ b = Inf \/ ({a, b} \subseteq Int /\ a < b)

\* Mutant of Refused: the multiplier may be one.
RefusedAboveOne(cfg) ==
    \/ cfg.port < 1 \/ cfg.port > 65535
    \/ Below(cfg.threshold, 1)
    \/ cfg.windowSize < 1
    \/ cfg.topLogprobs < 1 \/ cfg.topLogprobs > 20
    \/ Below(cfg.softThresholdMult, 1) \/ Below(10, cfg.softThresholdMult)
    \/ cfg.drafterModel = cfg.heavyModel /\ cfg.drafterURL = cfg.heavyURL
    \/ /\ CacheEnabled(cfg)
       /\ \/ Below(cfg.similarity, 1) \/ Below(100, cfg.similarity)
          \/ cfg.ttl <= 0
          \/ cfg.dimensions <= 0

\* validate returns an error.  Names are never empty after applyDefaults.
Refused(cfg) ==
    \/ cfg.port < 1 \/ cfg.port > 65535
    \/ Below(cfg.threshold, 1)
    \/ cfg.windowSize < 1
    \/ cfg.topLogprobs < 1 \/ cfg.topLogprobs > 20
    \/ Below(cfg.softThresholdMult, 1) \/ Below(9, cfg.softThresholdMult)
    \/ cfg.drafterModel = cfg.heavyModel /\ cfg.drafterURL = cfg.heavyURL
    \/ /\ CacheEnabled(cfg)
       /\ \/ Below(cfg.similarity, 1) \/ Below(100, cfg.similarity)
          \/ cfg.ttl <= 0
          \/ cfg.dimensions <= 0
=============================================================================
