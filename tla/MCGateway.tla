----------------------------- MODULE MCGateway -----------------------------
(***************************************************************************)
(* Two chat requests and one eviction over two processes.  The raw         *)
(* configurations differ from an empty file in a field or two, with each   *)
(* boundary of validate on both sides.                                     *)
(***************************************************************************)
EXTENDS Gateway, TLC

MCPrompts == {"p", "q"}
MCSimilarity == [a \in MCPrompts |-> [b \in MCPrompts |-> IF a = b THEN 10 ELSE 6]]

\* The values of one field that are worth a try.
Values(f) ==
    CASE f = "port"              -> {-1, 1, 65535, 65536}
      [] f = "threshold"         -> {-1, 1, 20, NaN, Inf, NegInf}
      [] f = "windowSize"        -> {-1, 1}
      [] f = "earlyExitCount"    -> {-1}
      [] f = "topLogprobs"       -> {-1, 20, 21}
      [] f = "softThresholdMult" -> {-1, 1, 9, 10, NaN, Inf, NegInf}
      [] f = "similarity"        -> {-1, 1, 100, 101, NaN, Inf, NegInf}
      [] f \in {"ttl", "dimensions", "startupTimeout"} -> {-1, 1}
      [] f = "heavyModel"        -> {"nano"}
      [] OTHER                   -> {}

OneField == {Blank} \cup UNION {{[Blank EXCEPT ![f] = v] : v \in Values(f)} : f \in DOMAIN Blank}

\* Also with the cache, and with a metrics path that is taken.
MCRawConfigs ==
    UNION {{[cfg EXCEPT !.cache = c] : c \in {"unset", "true"}} : cfg \in OneField}
      \cup {[Blank EXCEPT !.metrics = TRUE, !.metricsPath = "/health"],
            [Blank EXCEPT !.heavyModel = "nano", !.heavyURL = "other"]}
=============================================================================
