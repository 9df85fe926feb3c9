-------------------------------- MODULE Sweep --------------------------------
(***************************************************************************)
(* The threshold sweep, benchmarks/cmd/sweep and benchmarks/internal/sweep:*)
(* collected drafts are replayed through the entropy window under each     *)
(* threshold, and the best threshold is selected.  A line of the input is  *)
(* a record with a kind; a ratio is <<numerator, denominator>>, not        *)
(* rounded; money is in tenths of a millionth of a dollar.  A loop of the  *)
(* code is a function from the number of its passes to what it has         *)
(* accumulated.  Size is -window-size, taken to be at least one: with less *)
(* the window cannot take in a token.                                      *)
(***************************************************************************)
EXTENDS EntropyWindow, FiniteSets

CONSTANTS
    Inputs,         \* the files: sequences of lines
    Sweeps,         \* what -thresholds may hold: non-empty sequences of integers
    Categories

\* What JSON may hold: entropies are sums of -p log p, counts are not negative.
Records ==
    [kind : {"record"}, tokens : Seq(Nat), acceptable : BOOLEAN, error : BOOLEAN,
     category : Categories, draftUsed : Nat, heavyUsed : Nat]
Lines == Records \cup [kind : {"blank", "malformed", "long"}]

ASSUME SweepAssumption ==
    /\ Inputs \subseteq Seq(Lines)
    /\ Sweeps \subseteq Seq(Int)

VARIABLES
    input, thresholds,
    phase,     \* "parse", "load", "sweep", "done", "fatal"
    line,      \* how many lines the scanner has returned
    records,   \* those that loadRecords has kept
    stats,     \* allStats
    selected   \* what SelectBestThreshold returned: an index of stats, 0 for none

sweepVars == <<input, thresholds, phase, line, records, stats, selected>>

SweepInit ==
    /\ input \in Inputs /\ thresholds \in Sweeps
    /\ phase = "parse" /\ line = 0 /\ records = <<>> /\ stats = <<>> /\ selected = 0

-----------------------------------------------------------------------------
\* The window after n tokens, and whether it has escalated: at that token the
\* replay stops.
Untouched == [window |-> NewWindow, escalated |-> FALSE]

\* Mutant of Replayed: the comparison is the wrong way round.
ReplayedBelow(s, entropy, t) ==
    LET w == Slide(s.window, entropy) IN
    IF s.escalated THEN s ELSE [window |-> w, escalated |-> ~Escalates(w, entropy, t)]

\* One token of Replay.
Replayed(s, entropy, t) ==
    LET w == Slide(s.window, entropy) IN
    IF s.escalated THEN s ELSE [window |-> w, escalated |-> Escalates(w, entropy, t)]

Replay(tokens, t) ==
    LET after[n \in 0..Len(tokens)] ==
            IF n = 0 THEN Untouched ELSE Replayed(after[n - 1], tokens[n], t)
    IN  after

WouldEscalate(r, t) == Replay(r.tokens, t)[Len(r.tokens)].escalated

\* DefaultPricing, output tokens.
DrafterPrice == 8
HeavyPrice == 100

EstimateCost(r, escalated) ==
    r.draftUsed * DrafterPrice + (IF escalated THEN r.heavyUsed * HeavyPrice ELSE 0)
BaselineCost(r) == r.heavyUsed * HeavyPrice

Cell(acceptable, escalated) ==
    IF escalated THEN IF acceptable THEN "FP" ELSE "TP"
                 ELSE IF acceptable THEN "TN" ELSE "FN"
Cells == {"TP", "FP", "TN", "FN"}

\* The counters of ThresholdStats, and those of each CategoryStats.
Nothing == [cells |-> [cell \in Cells |-> 0],
            count |-> [category \in Categories |-> [cell \in Cells |-> 0]],
            escalated |-> 0, estimated |-> 0, baseline |-> 0]

\* One record in the loop of ComputeStats.
Tally(s, r, t) ==
    LET escalated == WouldEscalate(r, t)
        cell == Cell(r.acceptable, escalated)
    IN  [cells     |-> [s.cells EXCEPT ![cell] = @ + 1],
         count     |-> [s.count EXCEPT ![r.category][cell] = @ + 1],
         escalated |-> s.escalated + (IF escalated THEN 1 ELSE 0),
         estimated |-> s.estimated + EstimateCost(r, escalated),
         baseline  |-> s.baseline + BaselineCost(r)]

\* The loop of ComputeStats, after n of the records.
Tallies(rs, t) ==
    LET after[n \in 0..Len(rs)] ==
            IF n = 0 THEN Nothing ELSE Tally(after[n - 1], rs[n], t)
    IN  after

\* Mutant of Ratio: there is no look at the divisor.
RatioUnchecked(a, b) == <<a, b>>

Ratio(a, b) == IF b > 0 THEN <<a, b>> ELSE <<0, 1>>
Greater(x, y) == x[1] * y[2] > y[1] * x[2]

\* The harmonic mean of precision and recall, zero when both are.
HarmonicMean(p, r) == Ratio(2 * p[1] * r[1], p[1] * r[2] + r[1] * p[2])

ComputeStats(rs, t) ==
    LET sums == Tallies(rs, t)[Len(rs)]
        cells == sums.cells
    IN  [threshold |-> t, cells |-> cells, count |-> sums.count,
         escalated |-> sums.escalated,
         accuracy  |-> Ratio(cells["TN"], cells["TN"] + cells["FN"]),
         f1        |-> HarmonicMean(Ratio(cells["TP"], cells["TP"] + cells["FP"]),
                                    Ratio(cells["TP"], cells["TP"] + cells["FN"])),
         estimated |-> sums.estimated,
         reduction |-> Ratio(sums.baseline - sums.estimated, sums.baseline)]

\* Mutant of Better: a tie goes to the later threshold.
BetterOrEqual(i, best) ==
    /\ ~Greater(<<95, 100>>, stats[i].accuracy)
    /\ best = 0 \/ ~Greater(stats[best].f1, stats[i].f1)

Better(i, best) ==
    /\ ~Greater(<<95, 100>>, stats[i].accuracy)
    /\ best = 0 \/ Greater(stats[i].f1, stats[best].f1)

\* The loop of SelectBestThreshold, after n of the thresholds.
Best ==
    LET after[n \in 0..Len(stats)] ==
            IF n = 0 THEN 0 ELSE IF Better(n, after[n - 1]) THEN n ELSE after[n - 1]
    IN  after
SelectBestThreshold == Best[Len(stats)]

-----------------------------------------------------------------------------
parseThresholds ==
    /\ phase = "parse"
    /\ phase' = IF \E i \in DOMAIN thresholds : thresholds[i] <= 0 THEN "fatal" ELSE "load"
    /\ UNCHANGED <<input, thresholds, line, records, stats, selected>>

\* Mutant of Kept: a record with an error counts.
KeptAnyway(l) == l.kind = "record"

\* The line is a record, and main does not filter it out.
Kept(l) == l.kind = "record" /\ ~l.error

\* One line of loadRecords: blank and malformed ones are skipped, one that does
\* not fit the scanner's buffer ends the program.
Scan ==
    /\ phase = "load" /\ line < Len(input)
    /\ line' = line + 1
    /\ phase' = IF input[line'].kind = "long" THEN "fatal" ELSE "load"
    /\ records' = IF Kept(input[line']) THEN Append(records, input[line']) ELSE records
    /\ UNCHANGED <<input, thresholds, stats, selected>>

Loaded ==
    /\ phase = "load" /\ line = Len(input)
    /\ phase' = "sweep"
    /\ UNCHANGED <<input, thresholds, line, records, stats, selected>>

SweepOne ==
    /\ phase = "sweep" /\ Len(stats) < Len(thresholds)
    /\ stats' = Append(stats, ComputeStats(records, thresholds[Len(stats) + 1]))
    /\ UNCHANGED <<input, thresholds, phase, line, records, selected>>

\* WriteSummary.
Summarise ==
    /\ phase = "sweep" /\ Len(stats) = Len(thresholds)
    /\ selected' = SelectBestThreshold
    /\ phase' = "done"
    /\ UNCHANGED <<input, thresholds, line, records, stats>>

SweepNext == parseThresholds \/ Scan \/ Loaded \/ SweepOne \/ Summarise

SweepSpec == SweepInit /\ [][SweepNext]_sweepVars

-----------------------------------------------------------------------------
Counts == [Cells -> Nat]
ThresholdStats ==
    [threshold : Nat \ {0}, cells : Counts, count : [Categories -> Counts],
     escalated : Nat, estimated : Nat,
     accuracy : Nat \X (Nat \ {0}), f1 : Nat \X (Nat \ {0}),
     reduction : Int \X (Nat \ {0})]

\* Only records are kept, and statistics are taken of positive thresholds, with
\* ratios that never have a zero to divide by.
SweepTypeOK ==
    /\ input \in Seq(Lines) /\ thresholds \in Seq(Int)
    /\ phase \in {"parse", "load", "sweep", "done", "fatal"}
    /\ line \in 0..Len(input)
    /\ records \in Seq(Records)
    /\ stats \in Seq(ThresholdStats)
    /\ selected \in 0..Len(stats)

\* The numbers of a threshold are those of the rule of the window, applied to the
\* lines of the file without a ring or running sums: a record would escalate when
\* one of its tokens is an early spike or ends a hot window.
Asks(l, t) == \E n \in DOMAIN l.tokens : Hot(l.tokens, n, t)

StatsAreReference ==
    \A k \in DOMAIN stats :
        LET t == thresholds[k]
            In(cell) == {i \in DOMAIN input :
                           /\ input[i].kind = "record" /\ ~input[i].error
                           /\ cell = Cell(input[i].acceptable, Asks(input[i], t))}
        IN  \A cell \in Cells :
                /\ stats[k].cells[cell] = Cardinality(In(cell))
                /\ \A category \in Categories :
                     stats[k].count[category][cell] =
                       Cardinality({i \in In(cell) : input[i].category = category})

\* A higher threshold never escalates more records, and never costs more.
EscalationFallsWithThreshold ==
    \A i, j \in DOMAIN stats : stats[i].threshold <= stats[j].threshold =>
        /\ stats[i].escalated >= stats[j].escalated
        /\ stats[i].estimated >= stats[j].estimated

\* The selected threshold accepts drafts, at least 95% of them good ones, and no
\* threshold that does so has a better F1; of equal ones it is the first.
SelectedIsBest ==
    phase = "done" =>
        LET Accurate == {i \in DOMAIN stats :
                           stats[i].accuracy[1] * 100 >= stats[i].accuracy[2] * 95}
        IN  /\ selected = 0 <=> Accurate = {}
            /\ selected # 0 =>
                 /\ selected \in Accurate
                 /\ stats[selected].escalated < Len(records)
                 /\ \A i \in Accurate :
                      /\ ~Greater(stats[i].f1, stats[selected].f1)
                      /\ i < selected => Greater(stats[selected].f1, stats[i].f1)
=============================================================================
