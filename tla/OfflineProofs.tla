---------------------------- MODULE OfflineProofs ----------------------------
(***************************************************************************)
(* Proofs about the offline programs: the sweep, for every file, any       *)
(* thresholds, window size and early exit count; the collection, for every *)
(* dataset, every capacity of the semaphore and any number of runs,        *)
(* interruptions and crashes.                                              *)
(***************************************************************************)
EXTENDS Collect, Sweep, EntropyWindowProofs, FiniteSetTheorems

-----------------------------------------------------------------------------
(* The replay of a draft.                                                  *)

Replaying == [window : Window, escalated : BOOLEAN]

LEMMA ReplayedType ==
    ASSUME NEW s \in Replaying, NEW e \in Nat, NEW t
    PROVE  Replayed(s, e, t) \in Replaying
<1>1. Slide(s.window, e) \in Window
  BY SlideType DEF Replaying
<1>2. Escalates(Slide(s.window, e), e, t) \in BOOLEAN
  BY Zenon DEF Escalates
<1> QED
  BY <1>1, <1>2 DEF Replayed, Replaying

\* Replay is what its loop says.
LEMMA ReplayDef ==
    ASSUME NEW s \in Seq(Nat), NEW t
    PROVE  /\ \A n \in 0..Len(s) : Replay(s, t)[n] \in Replaying
           /\ Replay(s, t)[0] = Untouched
           /\ \A n \in 1..Len(s) : Replay(s, t)[n] = Replayed(Replay(s, t)[n - 1], s[n], t)
<1> DEFINE L == Len(s)
           step == [n \in 1..L |-> [x \in Replaying |-> Replayed(x, s[n], t)]]
           Equation(g) == g = [n \in 0..L |-> IF n = 0 THEN Untouched
                                              ELSE Replayed(g[n - 1], s[n], t)]
           G == CHOOSE g : Equation(g)
<1>1. L \in Nat /\ (\A n \in 1..L : s[n] \in Nat) /\ Untouched \in Replaying
  BY NewWindowType DEF Untouched, Replaying
<1> HIDE DEF L
<1>2. PICK f : Passes(f, L, Replaying, Untouched, step)
  <2>1. step \in [1..L -> [Replaying -> Replaying]]
    BY <1>1, ReplayedType
  <2> HIDE DEF step
  <2> QED
    BY <1>1, <2>1, Recursion
<1>3. /\ f \in [0..L -> Replaying] /\ f[0] = Untouched
      /\ \A n \in 1..L : f[n] = Replayed(f[n - 1], s[n], t)
  <2>1. f \in [0..L -> Replaying] /\ f[0] = Untouched
    BY <1>2 DEF Passes
  <2>2. ASSUME NEW n \in 1..L PROVE f[n] = Replayed(f[n - 1], s[n], t)
    <3>1. n - 1 \in 0..L
      BY <1>1
    <3>2. f[n - 1] \in Replaying /\ f[n] = step[n][f[n - 1]]
      BY <1>2, <3>1 DEF Passes
    <3> QED
      BY <3>2
  <2> QED
    BY <2>1, <2>2
<1> HIDE DEF step
<1>4. Equation(f)
  BY <1>1, <1>3
<1>5. Equation(G)
  BY <1>4
<1>6. Replay(s, t) = G
  BY DEF Replay, L
<1> HIDE DEF G
<1>7. G[0] = Untouched /\ \A n \in 1..L : G[n] = Replayed(G[n - 1], s[n], t)
  BY <1>1, <1>5
<1>8. \A n \in 0..L : G[n] \in Replaying
  <2>1. \A n \in 1..L : G[n - 1] \in Replaying => G[n] \in Replaying
    BY <1>1, <1>7, ReplayedType
  <2> QED
    BY <1>1, <1>7, <2>1, Loop
<1> QED
  BY <1>6, <1>7, <1>8 DEF L

\* What the rule says of a token does not depend on later ones.
LEMMA HotPrefix ==
    ASSUME NEW s \in Seq(Nat), NEW m \in 1..Len(s), NEW t
    PROVE  Hot(SubSeq(s, 1, m), m, t) <=> Hot(s, m, t)
<1> DEFINE u == SubSeq(s, 1, m)
<1>1. u \in Seq(Nat) /\ Len(u) = m /\ (\A i \in 1..m : u[i] = s[i]) /\ m \in 1..m
  OBVIOUS
<1>2. ASSUME m >= Size PROVE SubSeq(u, m - Size + 1, m) = SubSeq(s, m - Size + 1, m)
  BY <1>2, WindowAssumption
<1> HIDE DEF u
<1>3. u[m] = s[m]
  BY <1>1
<1>4. Hot(u, m, t) <=> Hot(s, m, t)
  BY <1>2, <1>3 DEF Hot
<1> QED
  BY <1>4 DEF u

\* The replay escalates at the first token that is hot.
LEMMA ReplayByTheRule ==
    ASSUME NEW s \in Seq(Nat), NEW t \in Nat \ {0}
    PROVE  Replay(s, t)[Len(s)].escalated <=> \E n \in 1..Len(s) : Hot(s, n, t)
<1> DEFINE L == Len(s)
           R == Replay(s, t)
           Right(n) == /\ R[n].escalated => \E i \in 1..n : Hot(s, i, t)
                       /\ ~R[n].escalated => /\ Reflects(R[n].window, SubSeq(s, 1, n))
                                             /\ \A i \in 1..n : ~Hot(s, i, t)
           T == {n \in 0..L : Right(n)}
<1>1. L \in Nat /\ R[0] = Untouched /\ \A n \in 0..L : R[n] \in Replaying
  BY ReplayDef
<1>2. \A n \in 1..L : R[n] = Replayed(R[n - 1], s[n], t)
  BY ReplayDef
<1> HIDE DEF L, R
<1>3. Right(0)
  <2>1. R[0].window = NewWindow /\ ~R[0].escalated
    BY <1>1 DEF Untouched
  <2>2. SubSeq(s, 1, 0) = << >>
    OBVIOUS
  <2>3. Reflects(R[0].window, SubSeq(s, 1, 0))
    BY <2>1, <2>2, NewWindowReflects, Zenon
  <2>4. \A i \in 1..0 : ~Hot(s, i, t)
    OBVIOUS
  <2> QED
    BY <2>1, <2>3, <2>4
<1>4. ASSUME NEW n \in 0..L-1, Right(n) PROVE Right(n + 1)
  <2> DEFINE m == n + 1
  <2>1. m \in 1..L /\ m - 1 = n /\ n \in 0..L /\ \A i \in 1..m : i = m \/ i \in 1..n
    BY <1>1
  <2>2. R[m] = Replayed(R[n], s[m], t)
    BY <1>2, <2>1
  <2>a. m \in 1..m /\ \A i \in 1..n : i \in 1..m
    OBVIOUS
  <2> HIDE DEF m
  <2>3. CASE R[n].escalated
    <3>1. R[m] = R[n]
      BY <2>2, <2>3 DEF Replayed
    <3> QED
      BY <1>4, <2>3, <2>a, <3>1 DEF m
  <2>4. CASE ~R[n].escalated
    <3> DEFINE v == Slide(R[n].window, s[m])
               u == SubSeq(s, 1, n)
    <3>1. R[m].window = v /\ R[m].escalated = Escalates(v, s[m], t)
      BY <2>2, <2>4 DEF Replayed
    <3>2. s[m] \in Nat /\ SubSeq(s, 1, m) = Append(u, s[m])
      BY <2>1 DEF L, m
    <3>3. Reflects(v, SubSeq(s, 1, m))
      BY <1>4, <2>4, <3>2, SlideReflects
    <3>4. Escalates(v, s[m], t) <=> Hot(s, m, t)
      <4> DEFINE p == SubSeq(s, 1, m)
      <4>1. p \in Seq(Nat) /\ Len(p) = m /\ p[m] = s[m] /\ p # << >>
        BY <2>1 DEF L
      <4>2. Reflects(v, p)
        BY <3>3
      <4> HIDE DEF p, v
      <4>3. Escalates(v, s[m], t) <=> Hot(p, m, t)
        BY <4>1, <4>2, EscalatesByTheRule
      <4>4. Hot(p, m, t) <=> Hot(s, m, t)
        BY <2>1, HotPrefix DEF p, L
      <4> QED
        BY <4>3, <4>4
    <3> HIDE DEF v, u
    <3>5. \A i \in 1..n : ~Hot(s, i, t)
      BY <1>4, <2>4
    <3>6. Right(m)
      BY <2>1, <2>a, <3>1, <3>3, <3>4, <3>5
    <3> QED
      BY <3>6 DEF m
  <2> QED
    BY <2>3, <2>4
<1>5. L \in T
  <2>1. 0 \in T /\ \A n \in 0..L-1 : n \in T => n + 1 \in T
    <3> HIDE DEF Right
    <3> QED
      BY <1>1, <1>3, <1>4
  <2>2. L \in 0..L
    BY <1>1
  <2> HIDE DEF T
  <2>3. \A n \in 0..L : n \in T
    BY <1>1, <2>1, Induction
  <2> QED
    BY <2>2, <2>3
<1>6. Right(L)
  BY <1>5
<1> QED
  BY <1>6 DEF L, R

\* A record would escalate when the rule asks for it.
LEMMA EscalatesWhenAsked ==
    ASSUME NEW r \in Records, NEW t \in Nat \ {0}
    PROVE  WouldEscalate(r, t) <=> Asks(r, t)
<1>1. r.tokens \in Seq(Nat) /\ DOMAIN r.tokens = 1..Len(r.tokens)
  BY DEF Records
<1> QED
  BY <1>1, ReplayByTheRule DEF WouldEscalate, Asks

\* A total of entropies is not negative and a higher threshold asks for less.
LEMMA AsksFalls ==
    ASSUME NEW r \in Records, NEW t \in Nat \ {0}, NEW u \in Nat \ {0}, t <= u, Asks(r, u)
    PROVE  Asks(r, t)
<1> DEFINE s == r.tokens
<1>1. s \in Seq(Nat) /\ DOMAIN s = 1..Len(s)
  BY DEF Records
<1> HIDE DEF s
<1>2. PICK n \in DOMAIN s : Hot(s, n, u)
  BY DEF Asks, s
<1>3. n \in 1..Len(s) /\ s[n] \in Nat
  BY <1>1
<1>4. CASE n <= EarlyExitCount /\ s[n] > u
  <2>1. Hot(s, n, t)
    BY <1>3, <1>4 DEF Hot
  <2> QED
    BY <2>1 DEF Asks, s
<1>5. CASE n >= Size /\ Total(SubSeq(s, n - Size + 1, n)) > u * Size
  <2> DEFINE x == Total(SubSeq(s, n - Size + 1, n))
             i == n - Size + 1
  <2>1. x \in Int
    <3>1. n \in 0..Len(s) /\ i \in 1..n+1 /\ i - 1 \in 0..Len(s)
      BY <1>3, <1>5, WindowAssumption
    <3> HIDE DEF i
    <3>2. Total(SubSeq(s, i, n)) = PrefixSums(s)[n] - PrefixSums(s)[i - 1]
      BY <1>1, <3>1, TotalOfStretch
    <3>3. PrefixSums(s)[n] \in Nat /\ PrefixSums(s)[i - 1] \in Nat
      BY <1>1, <3>1, PrefixSumsDef
    <3>4. Total(SubSeq(s, i, n)) \in Int
      BY <3>2, <3>3
    <3> QED
      BY <3>4 DEF i
  <2>2. t * Size <= u * Size /\ t * Size \in Nat /\ u * Size \in Nat
    BY WindowAssumption
  <2> HIDE DEF x
  <2>3. x > t * Size
    BY <1>5, <2>1, <2>2 DEF x
  <2>4. Hot(s, n, t)
    BY <1>5, <2>3 DEF Hot, x
  <2> QED
    BY <2>4 DEF Asks, s
<1> QED
  BY <1>2, <1>4, <1>5 DEF Hot

-----------------------------------------------------------------------------
(* The counters of a threshold.                                            *)

Sums == [cells : Counts, count : [Categories -> Counts],
         escalated : Nat, estimated : Nat, baseline : Nat]

\* The cell of a record under a threshold.
CellOf(r, t) == Cell(r.acceptable, WouldEscalate(r, t))

LEMMA CellOfType ==
    ASSUME NEW r, NEW t
    PROVE  /\ CellOf(r, t) \in Cells
           /\ CellOf(r, t) \in {"TP", "FP"} <=> WouldEscalate(r, t)
BY DEF CellOf, Cell, Cells

\* What one record adds.
LEMMA TallyFields ==
    ASSUME NEW s \in Sums, NEW r \in Records, NEW t
    PROVE  /\ Tally(s, r, t) \in Sums
           /\ \A cell \in Cells :
                Tally(s, r, t).cells[cell] = s.cells[cell] + IF cell = CellOf(r, t) THEN 1 ELSE 0
           /\ \A category \in Categories, cell \in Cells :
                Tally(s, r, t).count[category][cell] =
                  s.count[category][cell]
                    + IF category = r.category /\ cell = CellOf(r, t) THEN 1 ELSE 0
           /\ Tally(s, r, t).escalated = s.escalated + IF WouldEscalate(r, t) THEN 1 ELSE 0
           /\ Tally(s, r, t).estimated = s.estimated + EstimateCost(r, WouldEscalate(r, t))
<1> DEFINE e == WouldEscalate(r, t)
           c == CellOf(r, t)
           k == r.category
<1>1. c \in Cells /\ k \in Categories
  BY CellOfType DEF Records
<1>2. EstimateCost(r, e) \in Nat /\ BaselineCost(r) \in Nat
  <2>1. r.draftUsed \in Nat /\ r.heavyUsed \in Nat
    BY DEF Records
  <2>2. r.draftUsed * 8 \in Nat /\ r.heavyUsed * 100 \in Nat
    BY <2>1
  <2> QED
    BY <2>2 DEF EstimateCost, BaselineCost, DrafterPrice, HeavyPrice
<1>3. /\ s.cells \in [Cells -> Nat] /\ s.count \in [Categories -> [Cells -> Nat]]
      /\ s.escalated \in Nat /\ s.estimated \in Nat /\ s.baseline \in Nat
  BY DEF Sums, Counts
<1> DEFINE cells == [s.cells EXCEPT ![c] = @ + 1]
           count == [s.count EXCEPT ![k][c] = @ + 1]
           escalated == s.escalated + (IF e THEN 1 ELSE 0)
           estimated == s.estimated + EstimateCost(r, e)
           baseline == s.baseline + BaselineCost(r)
<1>4. Tally(s, r, t) = [cells |-> cells, count |-> count, escalated |-> escalated,
                        estimated |-> estimated, baseline |-> baseline]
  BY DEF Tally, CellOf
<1> HIDE DEF e, c, k
<1>5. /\ cells \in [Cells -> Nat]
      /\ \A x \in Cells : cells[x] = s.cells[x] + IF x = c THEN 1 ELSE 0
  BY <1>1, <1>3
<1>6. /\ count \in [Categories -> [Cells -> Nat]]
      /\ \A y \in Categories, x \in Cells :
           count[y][x] = s.count[y][x] + IF y = k /\ x = c THEN 1 ELSE 0
  <2>1. s.count[k] \in [Cells -> Nat]
    BY <1>1, <1>3
  <2>2. /\ [s.count[k] EXCEPT ![c] = @ + 1] \in [Cells -> Nat]
        /\ \A x \in Cells :
             [s.count[k] EXCEPT ![c] = @ + 1][x] = s.count[k][x] + IF x = c THEN 1 ELSE 0
    BY <1>1, <2>1
  <2>3. count = [s.count EXCEPT ![k] = [s.count[k] EXCEPT ![c] = @ + 1]]
    BY <1>1, <1>3
  <2> DEFINE row == [s.count[k] EXCEPT ![c] = @ + 1]
  <2>4. row \in [Cells -> Nat] /\ count = [s.count EXCEPT ![k] = row]
    BY <2>2, <2>3
  <2> HIDE DEF row, count
  <2>5. count \in [Categories -> [Cells -> Nat]]
    BY <1>1, <1>3, <2>4
  <2>6. ASSUME NEW y \in Categories, NEW x \in Cells
        PROVE  count[y][x] = s.count[y][x] + IF y = k /\ x = c THEN 1 ELSE 0
    <3>1. s.count[y][x] \in Nat
      BY <1>3
    <3>2. CASE y = k
      BY <1>1, <1>3, <2>2, <2>4, <3>2 DEF row
    <3>3. CASE y # k
      BY <1>1, <1>3, <2>4, <3>1, <3>3
    <3> QED
      BY <3>2, <3>3
  <2> QED
    BY <2>5, <2>6
<1>7. escalated \in Nat /\ estimated \in Nat /\ baseline \in Nat
  BY <1>2, <1>3
<1> HIDE DEF cells, count, escalated, estimated, baseline
<1>8. Tally(s, r, t) \in Sums
  BY <1>4, <1>5, <1>6, <1>7 DEF Sums, Counts
<1>9. /\ Tally(s, r, t).cells = cells /\ Tally(s, r, t).count = count
      /\ Tally(s, r, t).escalated = escalated /\ Tally(s, r, t).estimated = estimated
  BY <1>4
<1> QED
  BY <1>5, <1>6, <1>8, <1>9 DEF escalated, estimated, e, c, k

LEMMA NothingType == Nothing \in Sums
BY DEF Nothing, Sums, Counts

\* Tallies is what its loop says.
LEMMA TalliesDef ==
    ASSUME NEW s \in Seq(Records), NEW t
    PROVE  /\ \A n \in 0..Len(s) : Tallies(s, t)[n] \in Sums
           /\ Tallies(s, t)[0] = Nothing
           /\ \A n \in 1..Len(s) : Tallies(s, t)[n] = Tally(Tallies(s, t)[n - 1], s[n], t)
<1> DEFINE L == Len(s)
           step == [n \in 1..L |-> [x \in Sums |-> Tally(x, s[n], t)]]
           Equation(g) == g = [n \in 0..L |-> IF n = 0 THEN Nothing ELSE Tally(g[n - 1], s[n], t)]
           G == CHOOSE g : Equation(g)
<1>1. L \in Nat /\ (\A n \in 1..L : s[n] \in Records) /\ Nothing \in Sums
  BY NothingType
<1> HIDE DEF L
<1>a. \A n \in 1..L : \A x \in Sums : Tally(x, s[n], t) \in Sums
  BY <1>1, TallyFields
<1>2. PICK f : Passes(f, L, Sums, Nothing, step)
  <2>1. step \in [1..L -> [Sums -> Sums]]
    BY <1>1, <1>a
  <2> HIDE DEF step
  <2> QED
    BY <1>1, <2>1, Recursion
<1>3. /\ f \in [0..L -> Sums] /\ f[0] = Nothing
      /\ \A n \in 1..L : f[n] = Tally(f[n - 1], s[n], t)
  <2>1. f \in [0..L -> Sums] /\ f[0] = Nothing
    BY <1>2 DEF Passes
  <2>2. ASSUME NEW n \in 1..L PROVE f[n] = Tally(f[n - 1], s[n], t)
    <3>1. n - 1 \in 0..L
      BY <1>1
    <3>2. f[n - 1] \in Sums /\ f[n] = step[n][f[n - 1]]
      BY <1>2, <3>1 DEF Passes
    <3> QED
      BY <3>2
  <2> QED
    BY <2>1, <2>2
<1> HIDE DEF step
<1>4. Equation(f)
  BY <1>1, <1>3
<1>5. Equation(G)
  BY <1>4
<1>6. Tallies(s, t) = G
  BY DEF Tallies, L
<1> HIDE DEF G
<1>7. G[0] = Nothing /\ \A n \in 1..L : G[n] = Tally(G[n - 1], s[n], t)
  BY <1>1, <1>5
<1>8. \A n \in 0..L : G[n] \in Sums
  <2>1. \A n \in 1..L : G[n - 1] \in Sums => G[n] \in Sums
    BY <1>7, <1>a
  <2> QED
    BY <1>1, <1>7, <2>1, Loop
<1> QED
  BY <1>6, <1>7, <1>8 DEF L

\* A higher threshold never escalates more of the records and never costs more.
LEMMA TalliesFall ==
    ASSUME NEW s \in Seq(Records), NEW t \in Nat \ {0}, NEW u \in Nat \ {0}, t <= u
    PROVE  /\ Tallies(s, t)[Len(s)].escalated >= Tallies(s, u)[Len(s)].escalated
           /\ Tallies(s, t)[Len(s)].estimated >= Tallies(s, u)[Len(s)].estimated
<1> DEFINE L == Len(s)
           A == Tallies(s, t)
           B == Tallies(s, u)
           Falls(n) == A[n].escalated >= B[n].escalated /\ A[n].estimated >= B[n].estimated
           T == {n \in 0..L : Falls(n)}
<1>1. /\ L \in Nat /\ \A n \in 0..L : A[n] \in Sums /\ B[n] \in Sums
      /\ A[0] = Nothing /\ B[0] = Nothing
  BY TalliesDef
<1>2. \A n \in 1..L : A[n] = Tally(A[n - 1], s[n], t) /\ B[n] = Tally(B[n - 1], s[n], u)
  BY TalliesDef
<1>3. \A n \in 1..L : s[n] \in Records
  OBVIOUS
<1> HIDE DEF L, A, B
<1>4. Falls(0)
  BY <1>1 DEF Nothing
<1>5. ASSUME NEW n \in 0..L-1, Falls(n) PROVE Falls(n + 1)
  <2> DEFINE m == n + 1
             r == s[m]
  <2>1. m \in 1..L /\ m - 1 = n /\ n \in 0..L
    BY <1>1
  <2>2. r \in Records /\ A[m] = Tally(A[n], r, t) /\ B[m] = Tally(B[n], r, u)
    BY <1>2, <1>3, <2>1
  <2>3. A[n] \in Sums /\ B[n] \in Sums
    BY <1>1, <2>1
  <2> HIDE DEF m, r
  <2>4. WouldEscalate(r, u) => WouldEscalate(r, t)
    BY <2>2, EscalatesWhenAsked, AsksFalls
  <2>5. EstimateCost(r, WouldEscalate(r, t)) >= EstimateCost(r, WouldEscalate(r, u))
        /\ EstimateCost(r, WouldEscalate(r, t)) \in Nat
        /\ EstimateCost(r, WouldEscalate(r, u)) \in Nat
    <3>1. r.draftUsed \in Nat /\ r.heavyUsed \in Nat
      BY <2>2 DEF Records
    <3>2. r.draftUsed * 8 \in Nat /\ r.heavyUsed * 100 \in Nat
      BY <3>1
    <3> QED
      BY <2>4, <3>2 DEF EstimateCost, DrafterPrice, HeavyPrice
  <2>6. /\ A[m].escalated = A[n].escalated + IF WouldEscalate(r, t) THEN 1 ELSE 0
        /\ A[m].estimated = A[n].estimated + EstimateCost(r, WouldEscalate(r, t))
    BY <2>2, <2>3, TallyFields
  <2>7. /\ B[m].escalated = B[n].escalated + IF WouldEscalate(r, u) THEN 1 ELSE 0
        /\ B[m].estimated = B[n].estimated + EstimateCost(r, WouldEscalate(r, u))
    BY <2>2, <2>3, TallyFields
  <2>8. /\ A[n].escalated \in Nat /\ A[n].estimated \in Nat
        /\ B[n].escalated \in Nat /\ B[n].estimated \in Nat
    BY <2>3 DEF Sums
  <2>9. A[m].escalated >= B[m].escalated
    BY <1>5, <2>4, <2>6, <2>7, <2>8
  <2>10. A[m].estimated >= B[m].estimated
    BY <1>5, <2>5, <2>6, <2>7, <2>8
  <2> QED
    BY <2>9, <2>10 DEF m
<1>6. L \in T
  <2> HIDE DEF Falls
  <2>1. 0 \in T /\ \A n \in 0..L-1 : n \in T => n + 1 \in T
    BY <1>1, <1>4, <1>5
  <2>2. L \in 0..L
    BY <1>1
  <2> HIDE DEF T
  <2>3. \A n \in 0..L : n \in T
    BY <1>1, <2>1, Induction
  <2> QED
    BY <2>2, <2>3
<1>7. Falls(L)
  BY <1>6
<1> QED
  BY <1>7 DEF L, A, B

\* How many of the first n elements of s are in A.
Count(s, n, A) == Cardinality({k \in 1..n : s[k] \in A})

LEMMA CountStep ==
    ASSUME NEW s, NEW A, NEW n \in Nat
    PROVE  /\ Count(s, 0, A) = 0
           /\ Count(s, n, A) \in Nat
           /\ Count(s, n + 1, A) = Count(s, n, A) + IF s[n + 1] \in A THEN 1 ELSE 0
<1> DEFINE K(m) == {k \in 1..m : s[k] \in A}
<1>1. K(0) = {} /\ Count(s, 0, A) = 0
  BY FS_EmptySet DEF Count
<1>2. IsFiniteSet(K(n)) /\ Cardinality(K(n)) \in Nat
  <2>1. IsFiniteSet(1..n)
    BY FS_Interval
  <2>2. K(n) \subseteq 1..n
    OBVIOUS
  <2> HIDE DEF K
  <2> QED
    BY <2>1, <2>2, FS_Subset, FS_CardinalityType
<1>3. CASE s[n + 1] \in A
  <2>1. K(n + 1) = K(n) \cup {n + 1} /\ n + 1 \notin K(n)
    BY <1>3
  <2> HIDE DEF K
  <2>2. Cardinality(K(n + 1)) = Cardinality(K(n)) + 1
    BY <1>2, <2>1, FS_AddElement
  <2> QED
    BY <1>1, <1>2, <1>3, <2>2 DEF Count, K
<1>4. CASE s[n + 1] \notin A
  <2>1. K(n + 1) = K(n)
    BY <1>4
  <2> HIDE DEF K
  <2> QED
    BY <1>1, <1>2, <1>4, <2>1 DEF Count, K
<1> QED
  BY <1>3, <1>4

\* The records of the rule: what it puts in a cell, and what is of a category.
InCell(cell, t) == {r \in Records : cell = Cell(r.acceptable, Asks(r, t))}
InCategory(category) == {r \in Records : r.category = category}

\* The counters of n records: each is the number of records it is meant for, and
\* together they are n.
Counted(s, n, t, sums) ==
    /\ \A cell \in Cells :
         /\ sums.cells[cell] = Count(s, n, InCell(cell, t))
         /\ \A category \in Categories :
              sums.count[category][cell] = Count(s, n, InCell(cell, t) \cap InCategory(category))
    /\ sums.escalated = sums.cells["TP"] + sums.cells["FP"]
    /\ n = sums.escalated + sums.cells["TN"] + sums.cells["FN"]

LEMMA TallyCounts ==
    ASSUME NEW s \in Seq(Records), NEW n \in Nat, n + 1 <= Len(s), NEW t \in Nat \ {0},
           NEW sums \in Sums, Counted(s, n, t, sums)
    PROVE  Counted(s, n + 1, t, Tally(sums, s[n + 1], t))
<1> DEFINE r == s[n + 1]
           c == CellOf(r, t)
           after == Tally(sums, r, t)
<1>1. r \in Records
  OBVIOUS
<1> HIDE DEF r
<1>2. /\ after \in Sums
      /\ \A cell \in Cells : after.cells[cell] = sums.cells[cell] + IF cell = c THEN 1 ELSE 0
      /\ \A category \in Categories, cell \in Cells :
           after.count[category][cell] =
             sums.count[category][cell] + IF category = r.category /\ cell = c THEN 1 ELSE 0
      /\ after.escalated = sums.escalated + IF WouldEscalate(r, t) THEN 1 ELSE 0
  BY <1>1, TallyFields
<1>3. c \in Cells /\ (c \in {"TP", "FP"} <=> WouldEscalate(r, t))
  BY CellOfType
<1>4. \A cell \in Cells : r \in InCell(cell, t) <=> cell = c
  BY <1>1, EscalatesWhenAsked DEF InCell, CellOf, Cell
<1>5. \A category \in Categories : r \in InCategory(category) <=> category = r.category
  BY <1>1 DEF InCategory
<1> HIDE DEF after, c
<1>6. ASSUME NEW cell \in Cells
      PROVE  /\ after.cells[cell] = Count(s, n + 1, InCell(cell, t))
             /\ \A category \in Categories :
                  after.count[category][cell]
                    = Count(s, n + 1, InCell(cell, t) \cap InCategory(category))
  <2>1. Count(s, n + 1, InCell(cell, t))
          = Count(s, n, InCell(cell, t)) + IF cell = c THEN 1 ELSE 0
    <3> DEFINE A == InCell(cell, t)
    <3>1. Count(s, n + 1, A) = Count(s, n, A) + IF r \in A THEN 1 ELSE 0
      BY CountStep DEF r
    <3>2. r \in A <=> cell = c
      BY <1>4
    <3> HIDE DEF A
    <3>3. Count(s, n + 1, A) = Count(s, n, A) + IF cell = c THEN 1 ELSE 0
      BY <3>1, <3>2
    <3> QED
      BY <3>3 DEF A
  <2>2. ASSUME NEW category \in Categories
        PROVE  after.count[category][cell]
                 = Count(s, n + 1, InCell(cell, t) \cap InCategory(category))
    <3> DEFINE A == InCell(cell, t) \cap InCategory(category)
    <3>1. Count(s, n + 1, A) = Count(s, n, A) + IF r \in A THEN 1 ELSE 0
      BY CountStep DEF r
    <3>2. r \in A <=> category = r.category /\ cell = c
      BY <1>4, <1>5
    <3>3. sums.count[category][cell] = Count(s, n, A)
      BY DEF Counted
    <3> HIDE DEF A
    <3>4. after.count[category][cell] = Count(s, n + 1, A)
      BY <1>2, <3>1, <3>2, <3>3
    <3> QED
      BY <3>4 DEF A
  <2>3. sums.cells[cell] = Count(s, n, InCell(cell, t))
    BY DEF Counted
  <2>4. after.cells[cell] = Count(s, n + 1, InCell(cell, t))
    BY <1>2, <2>1, <2>3
  <2> QED
    BY <2>2, <2>4
<1>7. /\ after.escalated = after.cells["TP"] + after.cells["FP"]
      /\ n + 1 = after.escalated + after.cells["TN"] + after.cells["FN"]
  <2>1. /\ sums.escalated = sums.cells["TP"] + sums.cells["FP"]
        /\ n = sums.escalated + sums.cells["TN"] + sums.cells["FN"]
    BY DEF Counted
  <2>2. /\ sums.cells["TP"] \in Nat /\ sums.cells["FP"] \in Nat
        /\ sums.cells["TN"] \in Nat /\ sums.cells["FN"] \in Nat
    BY DEF Sums, Counts, Cells
  <2> DEFINE tp == sums.cells["TP"]
             fp == sums.cells["FP"]
             tn == sums.cells["TN"]
             fn == sums.cells["FN"]
  <2>3. /\ after.cells["TP"] = tp + IF c = "TP" THEN 1 ELSE 0
        /\ after.cells["FP"] = fp + IF c = "FP" THEN 1 ELSE 0
        /\ after.cells["TN"] = tn + IF c = "TN" THEN 1 ELSE 0
        /\ after.cells["FN"] = fn + IF c = "FN" THEN 1 ELSE 0
    BY <1>2 DEF Cells
  <2>4. after.escalated = sums.escalated + IF c \in {"TP", "FP"} THEN 1 ELSE 0
    BY <1>2, <1>3
  <2>5. c = "TP" \/ c = "FP" \/ c = "TN" \/ c = "FN"
    BY <1>3 DEF Cells
  <2>6. /\ tp \in Nat /\ fp \in Nat /\ tn \in Nat /\ fn \in Nat
        /\ sums.escalated = tp + fp /\ n = sums.escalated + tn + fn
    BY <2>1, <2>2
  <2> HIDE DEF tp, fp, tn, fn
  <2>7. CASE c = "TP"
    BY <2>3, <2>4, <2>6, <2>7
  <2>8. CASE c = "FP"
    BY <2>3, <2>4, <2>6, <2>8
  <2>9. CASE c = "TN"
    BY <2>3, <2>4, <2>6, <2>9
  <2>10. CASE c = "FN"
    BY <2>3, <2>4, <2>6, <2>10
  <2> QED
    BY <2>5, <2>7, <2>8, <2>9, <2>10
<1>8. Counted(s, n + 1, t, after)
  BY <1>6, <1>7 DEF Counted
<1> QED
  BY <1>8 DEF after, r

LEMMA TalliesCount ==
    ASSUME NEW s \in Seq(Records), NEW t \in Nat \ {0}
    PROVE  Counted(s, Len(s), t, Tallies(s, t)[Len(s)])
<1> DEFINE L == Len(s)
           A == Tallies(s, t)
           T == {n \in 0..L : Counted(s, n, t, A[n])}
<1>1. L \in Nat /\ A[0] = Nothing /\ (\A n \in 0..L : A[n] \in Sums)
  BY TalliesDef
<1>2. \A n \in 1..L : A[n] = Tally(A[n - 1], s[n], t)
  BY TalliesDef
<1> HIDE DEF A
<1>3. Counted(s, 0, t, A[0])
  <2>1. \A S : Count(s, 0, S) = 0
    BY CountStep
  <2>2. /\ A[0].escalated = 0 /\ \A cell \in Cells : A[0].cells[cell] = 0
        /\ \A category \in Categories, cell \in Cells : A[0].count[category][cell] = 0
    BY <1>1 DEF Nothing
  <2> QED
    BY <2>1, <2>2 DEF Counted, Cells
<1>4. ASSUME NEW n \in 0..L-1, n \in T PROVE n + 1 \in T
  <2>1. n + 1 \in 1..L /\ n + 1 - 1 = n /\ n \in 0..L /\ n + 1 \in 0..L /\ n + 1 <= Len(s)
    BY <1>1
  <2>2. A[n + 1] = Tally(A[n], s[n + 1], t) /\ A[n] \in Sums
    BY <1>1, <1>2, <2>1
  <2>3. Counted(s, n + 1, t, A[n + 1])
    BY <1>4, <2>1, <2>2, TallyCounts
  <2> QED
    BY <2>1, <2>3
<1>5. \A n \in 0..L : n \in T
  <2>1. 0 \in T
    BY <1>1, <1>3
  <2> HIDE DEF T, L
  <2> QED
    BY <1>1, <1>4, <2>1, Induction
<1>6. L \in 0..L
  BY <1>1
<1> QED
  BY <1>5, <1>6 DEF A

-----------------------------------------------------------------------------
(* Ratios, and the best of them.                                           *)

LEMMA RatioType ==
    ASSUME NEW a \in Int, NEW b \in Int
    PROVE  /\ Ratio(a, b) \in Int \X (Nat \ {0})
           /\ a \in Nat => Ratio(a, b) \in Nat \X (Nat \ {0})
BY DEF Ratio

LEMMA HarmonicMeanType ==
    ASSUME NEW p \in Nat \X (Nat \ {0}), NEW r \in Nat \X (Nat \ {0})
    PROVE  HarmonicMean(p, r) \in Nat \X (Nat \ {0})
<1>1. p[1] \in Nat /\ p[2] \in Nat /\ r[1] \in Nat /\ r[2] \in Nat
  OBVIOUS
<1>2. p[1] * r[1] \in Nat /\ p[1] * r[2] \in Nat /\ r[1] * p[2] \in Nat
  BY <1>1
<1>3. 2 * p[1] * r[1] \in Nat /\ p[1] * r[2] + r[1] * p[2] \in Nat
  BY <1>1, <1>2
<1> QED
  BY <1>3, RatioType DEF HarmonicMean

\* A product is compared as its factors are.
LEMMA Product ==
    ASSUME NEW a \in Int, NEW b \in Int, NEW c \in Nat \ {0}
    PROVE  /\ a < b <=> a * c < b * c
           /\ a <= b <=> a * c <= b * c
BY SMT

\* What is greater than y is greater than what is not.
LEMMA GreaterThanOthers ==
    ASSUME NEW x \in Nat \X (Nat \ {0}), NEW y \in Nat \X (Nat \ {0}),
           NEW z \in Nat \X (Nat \ {0}), Greater(x, y), ~Greater(z, y)
    PROVE  Greater(x, z) /\ ~Greater(z, x)
<1> DEFINE a == x[1]  b == x[2]  c == y[1]  d == y[2]  e == z[1]  f == z[2]
<1>1. /\ a \in Nat /\ c \in Nat /\ e \in Nat
      /\ b \in Nat \ {0} /\ d \in Nat \ {0} /\ f \in Nat \ {0}
  OBVIOUS
<1>2. a * d > c * b /\ ~(e * d > c * f)
  BY DEF Greater
<1> HIDE DEF a, b, c, d, e, f
<1>3. /\ a * d \in Int /\ c * b \in Int /\ e * d \in Int /\ c * f \in Int
      /\ a * f \in Int /\ e * b \in Int
  BY <1>1
<1>4. (a * d) * f > (c * b) * f /\ (e * d) * b <= (c * f) * b
  <2>1. c * b < a * d /\ e * d <= c * f
    BY <1>2, <1>3
  <2> QED
    BY <1>1, <1>3, <2>1, Product
<1>5. /\ (a * d) * f = (a * f) * d /\ (e * d) * b = (e * b) * d
      /\ (c * b) * f = (c * f) * b
  BY <1>1
<1>6. /\ (a * f) * d \in Int /\ (e * b) * d \in Int /\ (c * f) * b \in Int
  BY <1>1, <1>3
<1>7. (e * b) * d < (a * f) * d
  BY <1>4, <1>5, <1>6
<1>8. e * b < a * f
  BY <1>1, <1>3, <1>7, Product
<1> QED
  BY <1>3, <1>8 DEF Greater, a, b, e, f

\* Nothing is greater than itself.
LEMMA GreaterIrreflexive ==
    ASSUME NEW x \in Nat \X (Nat \ {0})
    PROVE  ~Greater(x, x)
<1>1. x[1] * x[2] \in Nat
  OBVIOUS
<1> QED
  BY <1>1 DEF Greater

\* Best is what its loop says.
LEMMA BestDef ==
    ASSUME stats \in Seq(ThresholdStats)
    PROVE  /\ \A n \in 0..Len(stats) : Best[n] \in 0..n
           /\ \A n \in 1..Len(stats) : Best[n] = IF Better(n, Best[n - 1]) THEN n ELSE Best[n - 1]
<1> DEFINE L == Len(stats)
           S == 0..L
           step == [n \in 1..L |-> [x \in S |-> IF Better(n, x) THEN n ELSE x]]
           Equation(g) == g = [n \in 0..L |-> IF n = 0 THEN 0
                                              ELSE IF Better(n, g[n - 1]) THEN n ELSE g[n - 1]]
           G == CHOOSE g : Equation(g)
<1>1. L \in Nat
  OBVIOUS
<1> HIDE DEF L
<1>2. PICK f : Passes(f, L, S, 0, step)
  <2>1. step \in [1..L -> [S -> S]] /\ 0 \in S
    BY <1>1
  <2> HIDE DEF step, S
  <2> QED
    BY <1>1, <2>1, Recursion
<1>3. /\ f \in [0..L -> S] /\ f[0] = 0
      /\ \A n \in 1..L : f[n] = IF Better(n, f[n - 1]) THEN n ELSE f[n - 1]
  <2>1. f \in [0..L -> S] /\ f[0] = 0
    BY <1>2 DEF Passes
  <2>2. ASSUME NEW n \in 1..L
        PROVE  f[n] = IF Better(n, f[n - 1]) THEN n ELSE f[n - 1]
    <3>1. n - 1 \in 0..L
      BY <1>1
    <3>2. f[n - 1] \in S /\ f[n] = step[n][f[n - 1]]
      BY <1>2, <3>1 DEF Passes
    <3> QED
      BY <3>2
  <2> QED
    BY <2>1, <2>2
<1> HIDE DEF step, S
<1>4. Equation(f)
  <2>1. \A n \in 0..L : n # 0 => n \in 1..L
    BY <1>1
  <2>2. \A n \in 0..L : f[n] = IF n = 0 THEN 0 ELSE IF Better(n, f[n - 1]) THEN n ELSE f[n - 1]
    BY <1>3, <2>1, Zenon
  <2> QED
    BY <1>3, <2>2
<1>5. Equation(G)
  BY <1>4
<1>6. Best = G
  BY DEF Best, L
<1> HIDE DEF G
<1>7. /\ G[0] = 0
      /\ \A n \in 1..L : G[n] = IF Better(n, G[n - 1]) THEN n ELSE G[n - 1]
  BY <1>1, <1>5
<1>8. \A n \in 0..L : G[n] \in 0..n
  <2> DEFINE T == {n \in 0..L : G[n] \in 0..n}
  <2>1. 0 \in T
    BY <1>1, <1>7
  <2>2. ASSUME NEW n \in 0..L-1, n \in T PROVE n + 1 \in T
    <3>1. n + 1 \in 1..L /\ n + 1 - 1 = n
      BY <1>1
    <3>2. G[n + 1] = IF Better(n + 1, G[n]) THEN n + 1 ELSE G[n]
      BY <1>7, <3>1
    <3> QED
      BY <2>2, <3>1, <3>2
  <2>3. \A n \in 0..L : n \in T
    <3> HIDE DEF T
    <3> QED
      BY <1>1, <2>1, <2>2, Induction
  <2> QED
    BY <2>3
<1> QED
  BY <1>6, <1>7, <1>8 DEF L

Accurate(i) == ~Greater(<<95, 100>>, stats[i].accuracy)

\* b is the best of the first n thresholds.
IsBest(b, n) ==
    /\ b = 0 <=> \A i \in 1..n : ~Accurate(i)
    /\ b # 0 => /\ b \in 1..n /\ Accurate(b)
                /\ \A i \in 1..n : Accurate(i) =>
                     /\ ~Greater(stats[i].f1, stats[b].f1)
                     /\ i < b => Greater(stats[b].f1, stats[i].f1)

LEMMA BestIsBest ==
    ASSUME stats \in Seq(ThresholdStats)
    PROVE  IsBest(SelectBestThreshold, Len(stats))
<1> DEFINE L == Len(stats)
           F == Nat \X (Nat \ {0})
           T == {n \in 0..L : IsBest(Best[n], n)}
<1>1. L \in Nat /\ \A i \in 1..L : stats[i].f1 \in F
  <2>1. L \in Nat /\ \A i \in 1..L : stats[i] \in ThresholdStats
    OBVIOUS
  <2> QED
    BY <2>1 DEF ThresholdStats
<1>2. /\ \A n \in 0..L : Best[n] \in 0..n
      /\ \A n \in 1..L : Best[n] = IF Better(n, Best[n - 1]) THEN n ELSE Best[n - 1]
  BY BestDef
<1> HIDE DEF L
<1>3. 0 \in T
  BY <1>1, <1>2 DEF IsBest
<1>4. ASSUME NEW n \in 0..L-1, n \in T PROVE n + 1 \in T
  <2> DEFINE m == n + 1
             b == Best[n]
  <2>1. /\ m \in 1..L /\ m - 1 = n /\ n \in 0..L /\ m \in 0..L /\ m > n /\ m # 0 /\ m \in 1..m
        /\ \A i \in 1..m : (i = m \/ i \in 1..n) /\ i \in 1..L
        /\ \A i \in 1..n : i \in 1..m /\ i < m
    BY <1>1
  <2>2. b \in 0..n /\ Best[m] = IF Better(m, b) THEN m ELSE b
    BY <1>2, <2>1
  <2>3. IsBest(b, n)
    BY <1>4
  <2> HIDE DEF m, b
  <2>4. ~Greater(stats[m].f1, stats[m].f1)
    BY <1>1, <2>1, GreaterIrreflexive
  <2>5. CASE b = 0
    <3>1. \A i \in 1..n : ~Accurate(i)
      BY <2>3, <2>5 DEF IsBest
    <3>2. Better(m, b) <=> Accurate(m)
      BY <2>5 DEF Better, Accurate
    <3>3. CASE Accurate(m)
      <4>1. Best[m] = m
        BY <2>2, <3>2, <3>3
      <4>2. \A i \in 1..m : Accurate(i) => i = m
        BY <2>1, <3>1
      <4> QED
        BY <2>1, <2>4, <3>3, <4>1, <4>2 DEF IsBest, m
    <3>4. CASE ~Accurate(m)
      <4>1. Best[m] = 0
        BY <2>2, <2>5, <3>2, <3>4
      <4>2. \A i \in 1..m : ~Accurate(i)
        BY <2>1, <3>1, <3>4
      <4> QED
        BY <2>1, <4>1, <4>2 DEF IsBest, m
    <3> QED
      BY <3>3, <3>4
  <2>6. CASE b # 0
    <3>1. /\ b \in 1..n /\ Accurate(b)
          /\ \A i \in 1..n : Accurate(i) =>
               /\ ~Greater(stats[i].f1, stats[b].f1)
               /\ i < b => Greater(stats[b].f1, stats[i].f1)
      BY <2>3, <2>6 DEF IsBest
    <3>2. Better(m, b) <=> Accurate(m) /\ Greater(stats[m].f1, stats[b].f1)
      BY <2>6 DEF Better, Accurate
    <3>3. CASE Better(m, b)
      <4>1. Best[m] = m /\ Accurate(m)
        BY <2>2, <3>2, <3>3
      <4>2. ASSUME NEW i \in 1..n, Accurate(i)
            PROVE  Greater(stats[m].f1, stats[i].f1) /\ ~Greater(stats[i].f1, stats[m].f1)
        <5>1. stats[m].f1 \in F /\ stats[b].f1 \in F /\ stats[i].f1 \in F
          BY <1>1, <2>1, <3>1
        <5>2. Greater(stats[m].f1, stats[b].f1) /\ ~Greater(stats[i].f1, stats[b].f1)
          BY <3>1, <3>2, <3>3, <4>2
        <5> QED
          BY <5>1, <5>2, GreaterThanOthers
      <4>3. IsBest(m, m)
        BY <2>1, <2>4, <4>1, <4>2 DEF IsBest
      <4> QED
        BY <2>1, <4>1, <4>3 DEF m
    <3>4. CASE ~Better(m, b)
      <4>1. Best[m] = b
        BY <2>2, <3>4
      <4>2. Accurate(m) => ~Greater(stats[m].f1, stats[b].f1)
        BY <3>2, <3>4
      <4>3. b < m /\ ~(m < b) /\ b \in 1..m
        BY <2>1, <3>1
      <4>4. IsBest(b, m)
        BY <2>1, <2>6, <3>1, <4>2, <4>3 DEF IsBest
      <4> QED
        BY <2>1, <4>1, <4>4 DEF m
    <3> QED
      BY <3>3, <3>4
  <2> QED
    BY <2>5, <2>6
<1>5. \A n \in 0..L : n \in T
  <2> HIDE DEF T
  <2> QED
    BY <1>1, <1>3, <1>4, Induction
<1>6. L \in 0..L
  BY <1>1
<1> QED
  BY <1>5, <1>6 DEF SelectBestThreshold, L

-----------------------------------------------------------------------------
(* The invariant of the sweep.                                             *)

\* The numbers of a threshold are of their types, and its counters are those of
\* Tallies.
LEMMA ComputeStatsFields ==
    ASSUME NEW s \in Seq(Records), NEW t \in Nat \ {0}
    PROVE  /\ ComputeStats(s, t) \in ThresholdStats
           /\ ComputeStats(s, t).threshold = t
           /\ \E sums \in Sums :
                /\ sums = Tallies(s, t)[Len(s)] /\ Counted(s, Len(s), t, sums)
                /\ ComputeStats(s, t).cells = sums.cells
                /\ ComputeStats(s, t).count = sums.count
                /\ ComputeStats(s, t).escalated = sums.escalated
                /\ ComputeStats(s, t).estimated = sums.estimated
                /\ ComputeStats(s, t).accuracy
                     = Ratio(sums.cells["TN"], sums.cells["TN"] + sums.cells["FN"])
<1> DEFINE sums == Tallies(s, t)[Len(s)]
           cells == sums.cells
           accuracy == Ratio(cells["TN"], cells["TN"] + cells["FN"])
           precision == Ratio(cells["TP"], cells["TP"] + cells["FP"])
           recall == Ratio(cells["TP"], cells["TP"] + cells["FN"])
           f1 == HarmonicMean(precision, recall)
           reduction == Ratio(sums.baseline - sums.estimated, sums.baseline)
<1>1. sums \in Sums /\ Counted(s, Len(s), t, sums)
  BY TalliesDef, TalliesCount
<1>2. ComputeStats(s, t) =
        [threshold |-> t, cells |-> cells, count |-> sums.count, escalated |-> sums.escalated,
         accuracy |-> accuracy, f1 |-> f1, estimated |-> sums.estimated,
         reduction |-> reduction]
  BY DEF ComputeStats
<1> HIDE DEF sums
<1>3. /\ cells \in Counts /\ sums.count \in [Categories -> Counts]
      /\ sums.escalated \in Nat /\ sums.estimated \in Nat /\ sums.baseline \in Nat
  BY <1>1 DEF Sums
<1>4. cells["TP"] \in Nat /\ cells["FP"] \in Nat /\ cells["TN"] \in Nat /\ cells["FN"] \in Nat
  BY <1>3 DEF Counts, Cells
<1> HIDE DEF cells
<1>5. /\ accuracy \in Nat \X (Nat \ {0})
      /\ precision \in Nat \X (Nat \ {0}) /\ recall \in Nat \X (Nat \ {0})
  <2>1. \A a, b \in Nat : a \in Int /\ a + b \in Int
    OBVIOUS
  <2> QED
    BY <1>4, <2>1, RatioType
<1>6. f1 \in Nat \X (Nat \ {0})
  <2> HIDE DEF precision, recall
  <2> QED
    BY <1>5, HarmonicMeanType
<1>7. reduction \in Int \X (Nat \ {0})
  <2>1. sums.baseline - sums.estimated \in Int /\ sums.baseline \in Int
    BY <1>3
  <2> QED
    BY <2>1, RatioType
<1>8. ComputeStats(s, t) \in ThresholdStats
  <2> HIDE DEF accuracy, f1, reduction
  <2> QED
    BY <1>2, <1>3, <1>5, <1>6, <1>7 DEF ThresholdStats
<1>9. /\ ComputeStats(s, t).threshold = t
      /\ ComputeStats(s, t).cells = cells /\ ComputeStats(s, t).count = sums.count
      /\ ComputeStats(s, t).escalated = sums.escalated
      /\ ComputeStats(s, t).estimated = sums.estimated
      /\ ComputeStats(s, t).accuracy = accuracy
  <2> HIDE DEF accuracy, f1, reduction
  <2> QED
    BY <1>2
<1> QED
  BY <1>1, <1>8, <1>9 DEF cells, sums

\* What loadRecords keeps of a set of lines.
KeptOf(A) == {l \in A : Kept(l)}

\* The thresholds are positive once they are parsed.
PositiveInv ==
    phase \in {"load", "sweep", "done"} => \A k \in 1..Len(thresholds) : thresholds[k] \in Nat \ {0}

\* Of the lines read so far, the kept ones are the records: counted in any set.
KeptInv ==
    /\ \A A \in SUBSET Records : Count(input, line, KeptOf(A)) = Count(records, Len(records), A)
    /\ phase \in {"sweep", "done"} => line = Len(input)

\* What is computed is what ComputeStats returns for the threshold of its place.
ComputedInv ==
    /\ Len(stats) <= Len(thresholds)
    /\ stats # << >> => phase \in {"sweep", "done"}
    /\ \A k \in 1..Len(stats) : stats[k] = ComputeStats(records, thresholds[k])

\* What is selected is the best.
SelectedInv == phase = "done" => IsBest(selected, Len(stats))

SweepInv == SweepTypeOK /\ PositiveInv /\ KeptInv /\ ComputedInv /\ SelectedInv

LEMMA SweepInvInit == SweepInit => SweepInv
<1> SUFFICES ASSUME SweepInit PROVE SweepInv
  OBVIOUS
<1>1. /\ input \in Seq(Lines) /\ thresholds \in Seq(Int) /\ phase = "parse" /\ line = 0
      /\ records = << >> /\ stats = << >> /\ selected = 0
  BY SweepAssumption DEF SweepInit
<1>2. SweepTypeOK
  BY <1>1 DEF SweepTypeOK
<1>3. KeptInv
  <2>1. \A s, A : Count(s, 0, A) = 0
    BY CountStep
  <2> QED
    BY <1>1, <2>1 DEF KeptInv
<1>4. PositiveInv /\ ComputedInv /\ SelectedInv
  BY <1>1 DEF PositiveInv, ComputedInv, SelectedInv
<1> QED
  BY <1>2, <1>3, <1>4 DEF SweepInv

LEMMA ParseStep == SweepInv /\ parseThresholds => SweepInv'
<1> SUFFICES ASSUME SweepInv, parseThresholds PROVE SweepInv'
  OBVIOUS
<1>1. /\ phase = "parse" /\ phase' \in {"load", "fatal"}
      /\ phase' = "load" => \A k \in DOMAIN thresholds : ~(thresholds[k] <= 0)
      /\ UNCHANGED <<input, thresholds, line, records, stats, selected>>
  BY DEF parseThresholds
<1>2. SweepTypeOK'
  BY <1>1 DEF SweepInv, SweepTypeOK
<1>3. PositiveInv'
  <2>1. DOMAIN thresholds = 1..Len(thresholds) /\ \A k \in 1..Len(thresholds) : thresholds[k] \in Int
    BY DEF SweepInv, SweepTypeOK
  <2> QED
    BY <1>1, <2>1 DEF PositiveInv
<1>4. KeptInv'
  BY <1>1 DEF SweepInv, KeptInv
<1>5. ComputedInv' /\ SelectedInv'
  BY <1>1 DEF SweepInv, ComputedInv, SelectedInv
<1> QED
  BY <1>2, <1>3, <1>4, <1>5 DEF SweepInv

LEMMA ScanStep == SweepInv /\ Scan => SweepInv'
<1> SUFFICES ASSUME SweepInv, Scan PROVE SweepInv'
  OBVIOUS
<1> DEFINE l == input[line + 1]
<1>1. /\ phase = "load" /\ phase' \in {"load", "fatal"} /\ line' = line + 1
      /\ records' = IF Kept(l) THEN Append(records, l) ELSE records
      /\ UNCHANGED <<input, thresholds, stats, selected>>
  BY DEF Scan
<1>2. input \in Seq(Lines) /\ line \in 0..Len(input) /\ line < Len(input) /\ records \in Seq(Records)
  BY DEF SweepInv, SweepTypeOK, Scan
<1>3. l \in Lines /\ line + 1 \in 0..Len(input) /\ line \in Nat
  BY <1>2
<1>4. Kept(l) => l \in Records
  BY <1>3 DEF Kept, Lines
<1> HIDE DEF l
<1>5. SweepTypeOK'
  <2>1. records' \in Seq(Records)
    BY <1>1, <1>2, <1>4
  <2> QED
    BY <1>1, <1>3, <2>1 DEF SweepInv, SweepTypeOK
<1>6. KeptInv'
  <2>1. ASSUME NEW A \in SUBSET Records
        PROVE  Count(input, line + 1, KeptOf(A)) = Count(records', Len(records'), A)
    <3> DEFINE L == Len(records)
               B == KeptOf(A)
    <3>1. Count(input, line, B) = Count(records, L, A) /\ L \in Nat
      BY <1>2 DEF SweepInv, KeptInv
    <3>2. l \in B <=> Kept(l) /\ l \in A
      BY DEF KeptOf
    <3> HIDE DEF B
    <3>3. Count(input, line + 1, B) = Count(input, line, B) + IF l \in B THEN 1 ELSE 0
      <4>1. line \in Nat
        BY <1>3
      <4>2. Count(input, line + 1, B)
              = Count(input, line, B) + IF input[line + 1] \in B THEN 1 ELSE 0
        BY <4>1, CountStep
      <4> QED
        BY <4>2 DEF l
    <3>4. CASE Kept(l)
      <4>1. records' = Append(records, l) /\ Len(records') = L + 1 /\ records'[L + 1] = l
        BY <1>1, <1>2, <1>4, <3>4
      <4>2. Count(records', L + 1, A) = Count(records', L, A) + IF l \in A THEN 1 ELSE 0
        <5> DEFINE r == records'
        <5>1. r[L + 1] = l
          BY <4>1
        <5> HIDE DEF L, r
        <5>2. Count(r, L + 1, A) = Count(r, L, A) + IF r[L + 1] \in A THEN 1 ELSE 0
          BY <3>1, CountStep
        <5>3. Count(r, L + 1, A) = Count(r, L, A) + IF l \in A THEN 1 ELSE 0
          BY <5>1, <5>2
        <5> QED
          BY <5>3 DEF r, L
      <4>3. Count(records', L, A) = Count(records, L, A)
        <5>1. \A k \in 1..L : records'[k] = records[k]
          BY <1>2, <1>4, <3>4, <4>1
        <5> QED
          BY <5>1 DEF Count
      <4> QED
        BY <3>1, <3>2, <3>3, <3>4, <4>1, <4>2, <4>3 DEF B
    <3>5. CASE ~Kept(l)
      <4>1. records' = records /\ l \notin B
        BY <1>1, <3>2, <3>5
      <4>2. Count(input, line, B) \in Nat
        BY <1>3, CountStep
      <4> QED
        BY <3>1, <3>3, <4>1, <4>2 DEF B
    <3> QED
      BY <3>4, <3>5
  <2> QED
    BY <1>1, <2>1 DEF KeptInv
<1>7. PositiveInv'
  BY <1>1 DEF SweepInv, PositiveInv
<1>8. ComputedInv' /\ SelectedInv'
  <2>1. stats' = << >> /\ Len(stats') = 0
    BY <1>1 DEF SweepInv, ComputedInv
  <2>2. thresholds \in Seq(Int)
    BY DEF SweepInv, SweepTypeOK
  <2> QED
    BY <1>1, <2>1, <2>2 DEF ComputedInv, SelectedInv
<1> QED
  BY <1>5, <1>6, <1>7, <1>8 DEF SweepInv

LEMMA LoadedStep == SweepInv /\ Loaded => SweepInv'
<1> SUFFICES ASSUME SweepInv, Loaded PROVE SweepInv'
  OBVIOUS
<1>1. /\ phase = "load" /\ line = Len(input) /\ phase' = "sweep"
      /\ UNCHANGED <<input, thresholds, line, records, stats, selected>>
  BY DEF Loaded
<1>2. SweepTypeOK'
  BY <1>1 DEF SweepInv, SweepTypeOK
<1>3. PositiveInv' /\ KeptInv'
  BY <1>1 DEF SweepInv, PositiveInv, KeptInv
<1>4. ComputedInv' /\ SelectedInv'
  BY <1>1 DEF SweepInv, ComputedInv, SelectedInv
<1> QED
  BY <1>2, <1>3, <1>4 DEF SweepInv

LEMMA SweepOneStep == SweepInv /\ SweepOne => SweepInv'
<1> SUFFICES ASSUME SweepInv, SweepOne PROVE SweepInv'
  OBVIOUS
<1> DEFINE m == Len(stats) + 1
           s == ComputeStats(records, thresholds[m])
<1>1. /\ phase = "sweep" /\ m - 1 < Len(thresholds) /\ stats' = Append(stats, s)
      /\ UNCHANGED <<input, thresholds, phase, line, records, selected>>
  <2>1. Len(stats) + 1 - 1 = Len(stats)
    BY DEF SweepInv, SweepTypeOK
  <2> QED
    BY <2>1 DEF SweepOne
<1>2. /\ records \in Seq(Records) /\ stats \in Seq(ThresholdStats) /\ thresholds \in Seq(Int)
      /\ Len(stats) \in Nat /\ Len(thresholds) \in Nat
  BY DEF SweepInv, SweepTypeOK
<1>3. m \in 1..Len(thresholds)
  BY <1>1, <1>2
<1>4. s \in ThresholdStats
  BY <1>1, <1>2, <1>3, ComputeStatsFields DEF SweepInv, PositiveInv
<1> HIDE DEF s
<1>5. /\ stats' \in Seq(ThresholdStats) /\ Len(stats') = m /\ stats'[m] = s
      /\ \A k \in 1..m : k # m => k \in 1..Len(stats) /\ stats'[k] = stats[k]
  BY <1>1, <1>2, <1>4
<1>6. SweepTypeOK'
  <2>1. selected \in 0..m
    BY <1>2 DEF SweepInv, SweepTypeOK
  <2> QED
    BY <1>1, <1>5, <2>1 DEF SweepInv, SweepTypeOK
<1>7. PositiveInv' /\ KeptInv'
  BY <1>1 DEF SweepInv, PositiveInv, KeptInv
<1>8. ComputedInv'
  <2>1. \A k \in 1..Len(stats) : stats[k] = ComputeStats(records, thresholds[k])
    BY DEF SweepInv, ComputedInv
  <2>2. \A k \in 1..m : stats'[k] = ComputeStats(records, thresholds[k])
    BY <1>5, <2>1 DEF s
  <2>3. m <= Len(thresholds)
    BY <1>3
  <2> HIDE DEF m
  <2> QED
    BY <1>1, <1>5, <2>2, <2>3 DEF ComputedInv
<1>9. SelectedInv'
  BY <1>1 DEF SelectedInv
<1> QED
  BY <1>6, <1>7, <1>8, <1>9 DEF SweepInv

LEMMA SummariseStep == SweepInv /\ Summarise => SweepInv'
<1> SUFFICES ASSUME SweepInv, Summarise PROVE SweepInv'
  OBVIOUS
<1>1. /\ phase = "sweep" /\ selected' = SelectBestThreshold /\ phase' = "done"
      /\ UNCHANGED <<input, thresholds, line, records, stats>>
  BY DEF Summarise
<1>2. stats \in Seq(ThresholdStats) /\ Len(stats) \in Nat
  BY DEF SweepInv, SweepTypeOK
<1>3. SelectBestThreshold \in 0..Len(stats)
  BY <1>2, BestDef DEF SelectBestThreshold
<1>4. SweepTypeOK'
  BY <1>1, <1>3 DEF SweepInv, SweepTypeOK
<1>5. SelectedInv'
  <2>1. IsBest(selected', Len(stats))
    BY <1>1, <1>2, BestIsBest
  <2> QED
    BY <1>1, <2>1 DEF SelectedInv, IsBest, Accurate
<1>6. PositiveInv' /\ KeptInv'
  BY <1>1 DEF SweepInv, PositiveInv, KeptInv
<1>7. ComputedInv'
  BY <1>1 DEF SweepInv, ComputedInv
<1> QED
  BY <1>4, <1>5, <1>6, <1>7 DEF SweepInv

LEMMA SweepInvariant == SweepSpec => []SweepInv
<1>1. SweepInv /\ UNCHANGED sweepVars => SweepInv'
  <2> SUFFICES ASSUME SweepInv, UNCHANGED sweepVars PROVE SweepInv'
    OBVIOUS
  <2>1. SweepTypeOK' /\ PositiveInv' /\ KeptInv'
    BY DEF sweepVars, SweepInv, SweepTypeOK, PositiveInv, KeptInv
  <2>2. ComputedInv' /\ SelectedInv'
    BY DEF sweepVars, SweepInv, ComputedInv, SelectedInv, IsBest, Accurate
  <2> QED
    BY <2>1, <2>2 DEF SweepInv
<1>2. SweepInv /\ [SweepNext]_sweepVars => SweepInv'
  BY <1>1, ParseStep, ScanStep, LoadedStep, SweepOneStep, SummariseStep DEF SweepNext
<1> QED
  BY <1>2, SweepInvInit, PTL DEF SweepSpec

\* In every reachable state the sweep's variables are of their types: no ratio is
\* over zero, whatever the file and the thresholds are.
THEOREM SweepType == SweepSpec => []SweepTypeOK
<1>1. SweepInv => SweepTypeOK
  BY DEF SweepInv
<1> QED
  BY <1>1, SweepInvariant, PTL

\* What the invariant says of the threshold of a place of stats.
LEMMA StatsOf ==
    ASSUME SweepInv, NEW k \in 1..Len(stats)
    PROVE  /\ thresholds[k] \in Nat \ {0}
           /\ records \in Seq(Records)
           /\ stats[k] = ComputeStats(records, thresholds[k])
           /\ line = Len(input)
<1>1. stats # << >> /\ k \in 1..Len(thresholds)
  BY DEF SweepInv, SweepTypeOK, ComputedInv
<1>2. phase \in {"sweep", "done"}
  BY <1>1 DEF SweepInv, ComputedInv
<1> QED
  BY <1>1, <1>2 DEF SweepInv, SweepTypeOK, PositiveInv, KeptInv, ComputedInv

\* The numbers of every threshold are those of the rule of the window, applied to
\* the lines of the file, for any file, thresholds, window size and early exit.
THEOREM SweepStats == SweepSpec => []StatsAreReference
<1>1. ASSUME SweepInv PROVE StatsAreReference
  <2>1. input \in Seq(Lines) /\ stats \in Seq(ThresholdStats)
    BY <1>1 DEF SweepInv, SweepTypeOK
  <2>2. DOMAIN stats = 1..Len(stats) /\ DOMAIN input = 1..Len(input)
    BY <2>1
  <2> DEFINE In(cell, t) == {i \in DOMAIN input :
                               /\ input[i].kind = "record" /\ ~input[i].error
                               /\ cell = Cell(input[i].acceptable, Asks(input[i], t))}
  <2>3. ASSUME NEW A \in SUBSET Records, line = Len(input)
        PROVE  Count(records, Len(records), A)
                 = Cardinality({i \in DOMAIN input : Kept(input[i]) /\ input[i] \in A})
    <3>1. Count(input, Len(input), KeptOf(A)) = Count(records, Len(records), A)
      BY <1>1, <2>3 DEF SweepInv, KeptInv
    <3>2. {i \in 1..Len(input) : input[i] \in KeptOf(A)}
            = {i \in DOMAIN input : Kept(input[i]) /\ input[i] \in A}
      BY <2>2 DEF KeptOf
    <3> QED
      BY <3>1, <3>2 DEF Count
  <2>4. ASSUME NEW i \in DOMAIN input PROVE Kept(input[i]) => input[i] \in Records
    <3>1. input[i] \in Lines
      BY <2>1, <2>2
    <3> QED
      BY <3>1 DEF Kept, Lines
  <2>5. ASSUME NEW k \in DOMAIN stats, NEW cell \in Cells
        PROVE  /\ stats[k].cells[cell] = Cardinality(In(cell, thresholds[k]))
               /\ \A category \in Categories :
                    stats[k].count[category][cell] =
                      Cardinality({i \in In(cell, thresholds[k]) : input[i].category = category})
    <3> DEFINE t == thresholds[k]
    <3>1. /\ t \in Nat \ {0} /\ records \in Seq(Records) /\ line = Len(input)
          /\ stats[k] = ComputeStats(records, t)
      BY <1>1, <2>2, StatsOf
    <3> HIDE DEF t
    <3>2. PICK sums \in Sums : /\ Counted(records, Len(records), t, sums)
                               /\ stats[k].cells = sums.cells /\ stats[k].count = sums.count
      BY <3>1, ComputeStatsFields
    <3>3. stats[k].cells[cell] = Cardinality(In(cell, t))
      <4>1. stats[k].cells[cell] = Count(records, Len(records), InCell(cell, t))
        BY <3>2 DEF Counted
      <4>2. {i \in DOMAIN input : Kept(input[i]) /\ input[i] \in InCell(cell, t)} = In(cell, t)
        BY <2>4 DEF InCell, Kept
      <4>3. InCell(cell, t) \in SUBSET Records
        BY DEF InCell
      <4> HIDE DEF In
      <4> QED
        BY <2>3, <3>1, <4>1, <4>2, <4>3
    <3>4. ASSUME NEW category \in Categories
          PROVE  stats[k].count[category][cell] =
                   Cardinality({i \in In(cell, t) : input[i].category = category})
      <4> DEFINE A == InCell(cell, t) \cap InCategory(category)
                 J == {i \in In(cell, t) : input[i].category = category}
      <4>1. stats[k].count[category][cell] = Count(records, Len(records), A)
        BY <3>2 DEF Counted
      <4>2. {i \in DOMAIN input : Kept(input[i]) /\ input[i] \in A} = J
        BY <2>4 DEF InCell, InCategory, Kept
      <4>3. A \in SUBSET Records
        BY DEF InCell
      <4> HIDE DEF A, J
      <4>4. stats[k].count[category][cell] = Cardinality(J)
        BY <2>3, <3>1, <4>1, <4>2, <4>3
      <4> QED
        BY <4>4 DEF J
    <3> QED
      BY <3>3, <3>4 DEF t
  <2> QED
    BY <2>5 DEF StatsAreReference
<1> QED
  BY <1>1, SweepInvariant, PTL

\* A higher threshold never escalates more records and never costs more, for any
\* file, thresholds, window size and early exit.
THEOREM SweepEscalationFalls == SweepSpec => []EscalationFallsWithThreshold
<1>1. ASSUME SweepInv PROVE EscalationFallsWithThreshold
  <2>1. DOMAIN stats = 1..Len(stats)
    BY <1>1 DEF SweepInv, SweepTypeOK
  <2>2. ASSUME NEW i \in DOMAIN stats, NEW j \in DOMAIN stats,
               stats[i].threshold <= stats[j].threshold
        PROVE  /\ stats[i].escalated >= stats[j].escalated
               /\ stats[i].estimated >= stats[j].estimated
    <3> DEFINE t == thresholds[i]
               u == thresholds[j]
    <3>1. /\ t \in Nat \ {0} /\ records \in Seq(Records)
          /\ stats[i] = ComputeStats(records, t)
      BY <1>1, <2>1, StatsOf
    <3>2. u \in Nat \ {0} /\ stats[j] = ComputeStats(records, u)
      BY <1>1, <2>1, StatsOf
    <3> HIDE DEF t, u
    <3>3. /\ stats[i].threshold = t
          /\ stats[i].escalated = Tallies(records, t)[Len(records)].escalated
          /\ stats[i].estimated = Tallies(records, t)[Len(records)].estimated
      BY <3>1, ComputeStatsFields
    <3>4. /\ stats[j].threshold = u
          /\ stats[j].escalated = Tallies(records, u)[Len(records)].escalated
          /\ stats[j].estimated = Tallies(records, u)[Len(records)].estimated
      BY <3>1, <3>2, ComputeStatsFields
    <3>5. t <= u
      BY <2>2, <3>3, <3>4
    <3> QED
      BY <3>1, <3>2, <3>3, <3>4, <3>5, TalliesFall
  <2> QED
    BY <2>2 DEF EscalationFallsWithThreshold
<1> QED
  BY <1>1, SweepInvariant, PTL

\* The selected threshold accepts drafts, at least 95% of them good ones, and no
\* other such threshold has a better F1, or the same one and comes before it.
THEOREM SweepSelects == SweepSpec => []SelectedIsBest
<1>1. ASSUME SweepInv, phase = "done"
      PROVE  LET A == {i \in DOMAIN stats :
                         stats[i].accuracy[1] * 100 >= stats[i].accuracy[2] * 95}
             IN  /\ selected = 0 <=> A = {}
                 /\ selected # 0 =>
                      /\ selected \in A
                      /\ stats[selected].escalated < Len(records)
                      /\ \A i \in A :
                           /\ ~Greater(stats[i].f1, stats[selected].f1)
                           /\ i < selected => Greater(stats[selected].f1, stats[i].f1)
  <2> DEFINE A == {i \in DOMAIN stats :
                     stats[i].accuracy[1] * 100 >= stats[i].accuracy[2] * 95}
             L == Len(stats)
  <2>1. stats \in Seq(ThresholdStats) /\ DOMAIN stats = 1..L /\ L \in Nat
    BY <1>1 DEF SweepInv, SweepTypeOK
  <2>2. IsBest(selected, L)
    BY <1>1 DEF SweepInv, SelectedInv
  <2>3. ASSUME NEW i \in 1..L PROVE i \in A <=> Accurate(i)
    <3> DEFINE x == stats[i].accuracy
    <3>1. x[1] \in Nat /\ x[2] \in Nat
      <4>1. stats[i] \in ThresholdStats
        BY <2>1
      <4>2. x \in Nat \X (Nat \ {0})
        BY <4>1 DEF ThresholdStats
      <4> QED
        BY <4>2
    <3>2. Accurate(i) <=> ~(95 * x[2] > x[1] * 100)
      BY DEF Accurate, Greater
    <3>3. i \in A <=> x[1] * 100 >= x[2] * 95
      BY <2>1
    <3> HIDE DEF A, x
    <3> QED
      BY <3>1, <3>2, <3>3
  <2>4. A \subseteq 1..L
    BY <2>1
  <2> HIDE DEF A, L
  <2>5. selected = 0 <=> A = {}
    BY <2>2, <2>3, <2>4 DEF IsBest
  <2>6. ASSUME selected # 0
        PROVE  /\ selected \in A
               /\ \A i \in A : /\ ~Greater(stats[i].f1, stats[selected].f1)
                               /\ i < selected => Greater(stats[selected].f1, stats[i].f1)
    BY <2>2, <2>3, <2>4, <2>6 DEF IsBest
  <2>7. ASSUME selected # 0 PROVE stats[selected].escalated < Len(records)
    <3> DEFINE t == thresholds[selected]
    <3>1. selected \in 1..L /\ Accurate(selected)
      BY <2>3, <2>4, <2>6, <2>7
    <3>2. /\ t \in Nat \ {0} /\ records \in Seq(Records)
          /\ stats[selected] = ComputeStats(records, t)
      BY <1>1, <3>1, StatsOf DEF L
    <3> HIDE DEF t
    <3>3. PICK sums \in Sums : /\ Counted(records, Len(records), t, sums)
                               /\ stats[selected].escalated = sums.escalated
                               /\ stats[selected].accuracy
                                    = Ratio(sums.cells["TN"], sums.cells["TN"] + sums.cells["FN"])
      BY <3>2, ComputeStatsFields
    <3>4. /\ sums.cells["TN"] \in Nat /\ sums.cells["FN"] \in Nat /\ sums.escalated \in Nat
      BY DEF Sums, Counts, Cells
    <3>5. Len(records) = sums.escalated + sums.cells["TN"] + sums.cells["FN"]
      BY <3>3 DEF Counted
    <3>6. sums.cells["TN"] + sums.cells["FN"] # 0
      <4>1. SUFFICES ASSUME sums.cells["TN"] + sums.cells["FN"] = 0 PROVE FALSE
        OBVIOUS
      <4>2. stats[selected].accuracy = <<0, 1>>
        BY <3>3, <4>1 DEF Ratio
      <4> QED
        BY <3>1, <4>2 DEF Accurate, Greater
    <3> DEFINE a == sums.escalated
               b == sums.cells["TN"] + sums.cells["FN"]
    <3>7. a \in Nat /\ b \in Nat /\ b # 0 /\ Len(records) = a + b
      BY <3>4, <3>5, <3>6
    <3> HIDE DEF a, b
    <3>8. a < Len(records)
      BY <3>7
    <3> QED
      BY <3>3, <3>8 DEF a
  <2> QED
    BY <2>5, <2>6, <2>7 DEF A
<1>2. SweepInv => SelectedIsBest
  BY <1>1 DEF SelectedIsBest
<1> QED
  BY <1>2, SweepInvariant, PTL

-----------------------------------------------------------------------------
(* The invariant of a collection.                                          *)

\* The prompts the loop has not come to have no goroutine.
LoopInv ==
    /\ main \in {"loop", "acquire"} =>
         \A i \in next..Len(Dataset) : worker[Dataset[i]] = "none"
    /\ main = "delay" => \A i \in next+1..Len(Dataset) : worker[Dataset[i]] = "none"
    /\ main \in {"acquire", "delay"} => next <= Len(Dataset)
    /\ main = "acquire" => Dataset[next] \notin collected
    /\ main \in {"off", "end"} => Busy = {}

\* Every goroutine holds a slot, and main one that it took when interrupted.
SlotInv ==
    /\ IsFiniteSet(Busy)
    /\ held \in {Cardinality(Busy), Cardinality(Busy) + 1}
    /\ held <= Concurrency
    /\ held = Cardinality(Busy) + 1 => main \in {"wait", "end"}

\* A goroutine works on a prompt without a record: what the file has, the store
\* knows of, or its Append failed.
FileInv ==
    /\ unended => file # << >>
    /\ main # "off" => \A p \in Readable : p \in collected \/ worker[p] = "unstored"
    /\ \A p \in Prompts : worker[p] \in Running => p \notin collected
    /\ OneRecordEach

Covered(p) == p \in collected \/ worker[p] \in Running \cup {"unstored"}

\* What the loop has passed in a run that is not interrupted is covered.
PassedInv ==
    ~ctxDone =>
        /\ main \in {"loop", "acquire", "delay", "wait", "end"} =>
             \A i \in 1..next-1 : Covered(Dataset[i])
        /\ main = "delay" => Covered(Dataset[next])
        /\ main \in {"wait", "end"} => next > Len(Dataset)

MemoryOK ==
    /\ file \in Seq(Line)
    /\ unended \in BOOLEAN
    /\ runs \in 0..MaxRuns
    /\ main \in MainAt
    /\ next \in 1..Len(Dataset) + 1
    /\ ctxDone \in BOOLEAN
    /\ collected \subseteq Prompts
    /\ worker \in [Prompts -> WorkerAt]
    /\ retry \in [Prompts -> 0..Retries]
    /\ \A p \in Prompts : worker[p] = "backoff" => retry[p] < Retries

CollectInv == MemoryOK /\ LoopInv /\ SlotInv /\ FileInv /\ PassedInv

LEMMA DatasetSize ==
    /\ Len(Dataset) \in Nat /\ \A i \in 1..Len(Dataset) : Dataset[i] \in Prompts
    /\ Concurrency \in Nat \ {0} /\ Retries \in Nat /\ MaxRuns \in Nat
BY CollectAssumption

-----------------------------------------------------------------------------
(* What the steps do.                                                      *)

\* What may be written for a prompt without a record.
LEMMA PutEffect ==
    ASSUME file \in Seq(Line), FileInv, NEW p \in Prompts, p \notin Readable,
           NEW text \in {p, Garbage}, NEW newline \in BOOLEAN, Put(text, newline)
    PROVE  /\ file' \in Seq(Line) /\ unended' \in BOOLEAN
           /\ file' # << >>
           /\ Readable' \subseteq Readable \cup {p}
           /\ OneRecordEach'
<1> USE DEF Line
<1>1. CASE unended
  <2>1. file' = [file EXCEPT ![Len(file)] = Garbage] /\ Len(file) \in 1..Len(file)
    BY <1>1 DEF Put, FileInv
  <2>2. /\ Len(file') = Len(file) /\ file' \in Seq(Line)
        /\ \A i \in 1..Len(file) : file'[i] = IF i = Len(file) THEN Garbage ELSE file[i]
    BY <2>1
  <2>3. Readable' \subseteq Readable
    BY <2>2 DEF Readable
  <2>4. OneRecordEach'
    BY <2>2 DEF FileInv, OneRecordEach
  <2>5. file' # << >>
    BY <2>1, <2>2
  <2>6. unended' \in BOOLEAN
    BY DEF Put
  <2> QED
    BY <2>2, <2>3, <2>4, <2>5, <2>6
<1>2. CASE ~unended
  <2>1. file' = Append(file, text)
    BY <1>2 DEF Put
  <2>2. /\ Len(file') = Len(file) + 1 /\ file' \in Seq(Line) /\ Len(file) \in Nat
        /\ file'[Len(file) + 1] = text
        /\ \A i \in 1..Len(file) : file'[i] = file[i]
    BY <2>1
  <2>3. \A i \in 1..Len(file) : file[i] # p \/ p = Garbage
    BY DEF Readable
  <2>4. Readable' \subseteq Readable \cup {p}
    BY <2>2 DEF Readable
  <2>5. OneRecordEach'
    BY <2>2, <2>3 DEF FileInv, OneRecordEach
  <2> QED
    BY <1>2, <2>2, <2>4, <2>5 DEF Put
<1> QED
  BY <1>1, <1>2

\* One step of a goroutine.
LEMMA WorkerEffect ==
    ASSUME MemoryOK, NEW p \in Prompts, Worker(p)
    PROVE  /\ worker[p] \in Running
           /\ worker' \in [Prompts -> WorkerAt]
           /\ \A q \in Prompts \ {p} : worker'[q] = worker[q]
           /\ \/ worker'[p] \in Running /\ held' = held
              \/ worker'[p] \in {"stored", "unstored", "left"} /\ held' = held - 1
           /\ worker'[p] = "left" => ctxDone
           /\ \/ collected' = collected /\ worker'[p] # "stored"
              \/ collected' = collected \cup {p} /\ worker'[p] = "stored"
           /\ \/ UNCHANGED <<file, unended>>
              \/ /\ worker'[p] \in {"stored", "unstored"}
                 /\ \E text \in {p, Garbage}, newline \in BOOLEAN : Put(text, newline)
           /\ retry' \in [Prompts -> 0..Retries]
           /\ \A q \in Prompts : worker'[q] = "backoff" => retry'[q] < Retries
           /\ UNCHANGED <<runs, main, next, ctxDone>>
<1> USE DatasetSize DEF MemoryOK, Running, WorkerAt
<1>1. CASE CollectReturns(p)
  BY <1>1 DEF CollectReturns
<1>2. CASE BackoffOver(p)
  <2>1. worker[p] = "backoff" /\ retry[p] \in 0..Retries - 1
    BY <1>2 DEF BackoffOver
  <2>2. worker' = [worker EXCEPT ![p] = "collect"]
        /\ retry' = [retry EXCEPT ![p] = retry[p] + 1]
    BY <1>2 DEF BackoffOver
  <2>3. retry[p] + 1 \in 0..Retries
    BY <2>1
  <2>4. /\ worker' \in [Prompts -> WorkerAt] /\ worker'[p] = "collect"
        /\ \A q \in Prompts \ {p} : worker'[q] = worker[q] /\ retry'[q] = retry[q]
        /\ retry' \in [Prompts -> 0..Retries]
    BY <2>2, <2>3
  <2>5. UNCHANGED <<file, unended, runs, main, next, ctxDone, held, collected>>
    BY <1>2 DEF BackoffOver
  <2>6. \A q \in Prompts : worker'[q] = "backoff" => retry'[q] < Retries
    BY <2>4
  <2> QED
    BY <2>1, <2>4, <2>5, <2>6
<1>3. CASE BackoffInterrupted(p)
  BY <1>3 DEF BackoffInterrupted, Leave
<1>4. CASE AppendOk(p)
  BY <1>4 DEF AppendOk, Leave
<1>5. CASE AppendFails(p)
  <2>1. \/ UNCHANGED <<file, unended>>
        \/ \E text \in {p, Garbage}, newline \in BOOLEAN : Put(text, newline)
    BY <1>5 DEF AppendFails, PutPart
  <2> QED
    BY <1>5, <2>1 DEF AppendFails, Leave
<1> QED
  BY <1>1, <1>2, <1>3, <1>4, <1>5 DEF Worker

\* Busy, where a goroutine starts, goes on or ends.
LEMMA BusyEffect ==
    ASSUME MemoryOK, IsFiniteSet(Busy), NEW p \in Prompts,
           \A q \in Prompts \ {p} : worker'[q] = worker[q]
    PROVE  /\ IsFiniteSet(Busy)' /\ Cardinality(Busy) \in Nat
           /\ worker[p] \in Running /\ worker'[p] \in Running => Busy' = Busy
           /\ worker[p] \in Running /\ worker'[p] \notin Running
                => Cardinality(Busy') = Cardinality(Busy) - 1
           /\ worker[p] \notin Running /\ worker'[p] \in Running
                => Cardinality(Busy') = Cardinality(Busy) + 1
<1>1. Busy' = IF worker'[p] \in Running THEN Busy \cup {p} ELSE Busy \ {p}
  BY DEF Busy
<1>2. p \in Busy <=> worker[p] \in Running
  BY DEF Busy
<1>3. /\ IsFiniteSet(Busy \cup {p}) /\ IsFiniteSet(Busy \ {p})
      /\ Cardinality(Busy \cup {p})
           = IF p \in Busy THEN Cardinality(Busy) ELSE Cardinality(Busy) + 1
      /\ Cardinality(Busy \ {p})
           = IF p \in Busy THEN Cardinality(Busy) - 1 ELSE Cardinality(Busy)
  BY FS_AddElement, FS_RemoveElement
<1>4. Cardinality(Busy) \in Nat
  BY FS_CardinalityType
<1>5. worker[p] \in Running /\ worker'[p] \in Running => Busy' = Busy
  BY <1>1, <1>2
<1> QED
  BY <1>1, <1>2, <1>3, <1>4, <1>5

\* A run that begins, or a process that is gone, has no goroutine.
LEMMA FreshEffect ==
    ASSUME NEW at \in {"off", "loop"}, NEW known, Fresh(at, known)
    PROVE  /\ Busy' = {} /\ SlotInv' /\ LoopInv'
           /\ worker' \in [Prompts -> WorkerAt] /\ retry' \in [Prompts -> 0..Retries]
           /\ next' \in 1..Len(Dataset) + 1
           /\ \A p \in Prompts : worker'[p] = "none"
<1>1. \A p \in Prompts : worker'[p] = "none"
  BY DEF Fresh
<1>2. Busy' = {}
  BY <1>1 DEF Busy, Running
<1>3. Cardinality(Busy') = 0 /\ IsFiniteSet(Busy')
  BY <1>2, FS_EmptySet
<1>4. SlotInv'
  BY <1>3, DatasetSize DEF SlotInv, Fresh
<1>5. LoopInv'
  BY <1>1, <1>2, DatasetSize DEF LoopInv, Fresh
<1> QED
  BY <1>1, <1>2, <1>4, <1>5, DatasetSize DEF Fresh, WorkerAt

-----------------------------------------------------------------------------
(* The steps.                                                              *)

LEMMA WorkerStep ==
    ASSUME CollectInv, NEW p \in Prompts, Worker(p)
    PROVE  CollectInv'
<1> USE DEF CollectInv
<1>1. /\ worker[p] \in Running
      /\ worker' \in [Prompts -> WorkerAt]
      /\ \A q \in Prompts \ {p} : worker'[q] = worker[q]
      /\ \/ worker'[p] \in Running /\ held' = held
         \/ worker'[p] \in {"stored", "unstored", "left"} /\ held' = held - 1
      /\ worker'[p] = "left" => ctxDone
      /\ \/ collected' = collected /\ worker'[p] # "stored"
         \/ collected' = collected \cup {p} /\ worker'[p] = "stored"
      /\ \/ UNCHANGED <<file, unended>>
         \/ /\ worker'[p] \in {"stored", "unstored"}
            /\ \E text \in {p, Garbage}, newline \in BOOLEAN : Put(text, newline)
      /\ retry' \in [Prompts -> 0..Retries]
      /\ \A q \in Prompts : worker'[q] = "backoff" => retry'[q] < Retries
      /\ UNCHANGED <<runs, main, next, ctxDone>>
  BY WorkerEffect
<1>2. p \in Busy /\ main \notin {"off", "end"} /\ p \notin collected
  BY <1>1 DEF Busy, LoopInv, FileInv
<1>3. p \notin Readable
  BY <1>1, <1>2 DEF FileInv, Running
<1>4. /\ file' \in Seq(Line) /\ unended' \in BOOLEAN /\ OneRecordEach'
      /\ unended' => file' # << >>
      /\ Readable' \subseteq Readable \cup {p}
      /\ Readable' # Readable => worker'[p] \in {"stored", "unstored"}
  <2>1. CASE UNCHANGED <<file, unended>>
    BY <2>1 DEF MemoryOK, FileInv, OneRecordEach, Readable
  <2>2. CASE /\ worker'[p] \in {"stored", "unstored"}
             /\ \E text \in {p, Garbage}, newline \in BOOLEAN : Put(text, newline)
    BY <1>3, <2>2, PutEffect DEF MemoryOK
  <2> QED
    BY <1>1, <2>1, <2>2
<1>5. MemoryOK'
  BY <1>1, <1>4 DEF MemoryOK
<1>6. LoopInv'
  <2>1. ASSUME NEW i \in 1..Len(Dataset), worker[Dataset[i]] = "none"
        PROVE  worker'[Dataset[i]] = "none"
    BY <1>1, <2>1, DatasetSize DEF Running
  <2>2. main = "acquire" => Dataset[next] \notin collected'
    <3>1. main = "acquire" => worker[Dataset[next]] = "none" /\ next \in 1..Len(Dataset)
      BY DatasetSize DEF LoopInv, MemoryOK
    <3> QED
      BY <1>1, <3>1 DEF LoopInv, Running
  <2>3. \A i \in next..Len(Dataset) : i \in 1..Len(Dataset)
    BY DatasetSize DEF MemoryOK
  <2>4. \A i \in next+1..Len(Dataset) : i \in 1..Len(Dataset)
    BY DatasetSize DEF MemoryOK
  <2> QED
    BY <1>1, <1>2, <2>1, <2>2, <2>3, <2>4 DEF LoopInv
<1>7. SlotInv'
  <2>1. IsFiniteSet(Busy)' /\ Cardinality(Busy) \in Nat
    BY <1>1, BusyEffect DEF SlotInv
  <2>2. CASE worker'[p] \in Running /\ held' = held
    <3>1. Busy' = Busy
      BY <1>1, <2>2, BusyEffect DEF SlotInv
    <3> QED
      BY <1>1, <2>1, <2>2, <3>1 DEF SlotInv
  <2>3. CASE worker'[p] \in {"stored", "unstored", "left"} /\ held' = held - 1
    <3>1. Cardinality(Busy') = Cardinality(Busy) - 1
      BY <1>1, <2>3, BusyEffect DEF SlotInv, Running
    <3> QED
      BY <1>1, <2>1, <2>3, <3>1, DatasetSize DEF SlotInv
  <2> QED
    BY <1>1, <2>2, <2>3
<1>8. FileInv'
  <2>1. ASSUME NEW q \in Readable' PROVE q \in collected' \/ worker'[q] = "unstored"
    <3>1. CASE q = p
      BY <1>1, <1>3, <1>4, <2>1, <3>1
    <3>2. CASE q # p
      <4>1. q \in Readable
        BY <1>4, <2>1, <3>2
      <4>2. q \in Prompts
        BY <4>1 DEF Readable, MemoryOK, Line
      <4> QED
        BY <1>1, <1>2, <3>2, <4>1, <4>2 DEF FileInv
    <3> QED
      BY <3>1, <3>2
  <2>2. ASSUME NEW q \in Prompts, worker'[q] \in Running PROVE q \notin collected'
    BY <1>1, <2>2 DEF FileInv, Running
  <2> QED
    BY <1>4, <2>1, <2>2 DEF FileInv
<1>9. PassedInv'
  <2>1. ASSUME NEW q \in Prompts, ~ctxDone, Covered(q) PROVE Covered(q)'
    BY <1>1, <2>1 DEF Covered, Running
  <2>2. \A i \in 1..next-1 : Dataset[i] \in Prompts
    BY DatasetSize DEF MemoryOK
  <2>3. main = "delay" => Dataset[next] \in Prompts
    BY DatasetSize DEF MemoryOK, LoopInv
  <2> QED
    BY <1>1, <2>1, <2>2, <2>3 DEF PassedInv
<1> QED
  BY <1>5, <1>6, <1>7, <1>8, <1>9

\* A step of main leaves the file alone; all but Acquire leave the goroutines, too.
LEMMA MainStep == CollectInv /\ Main => CollectInv'
<1> SUFFICES ASSUME CollectInv, Main PROVE CollectInv'
  OBVIOUS
<1> USE DatasetSize DEF CollectInv
<1>k. ASSUME UNCHANGED <<file, unended, runs, ctxDone, held, collected, worker, retry>>,
             main' \in MainAt \ {"off", "end"}, main # "off", main # "wait", main # "end",
             next' \in 1..Len(Dataset) + 1, LoopInv', PassedInv'
      PROVE  CollectInv'
  <2>1. MemoryOK'
    BY <1>k DEF MemoryOK
  <2>2. Busy' = Busy
    BY <1>k DEF Busy
  <2>3. SlotInv'
    BY <1>k, <2>2 DEF SlotInv
  <2>4. FileInv'
    BY <1>k DEF FileInv, OneRecordEach, Readable
  <2> QED
    BY <1>k, <2>1, <2>3, <2>4
<1>1. CASE LoopEnds \/ GiveUp
  <2>1. /\ UNCHANGED <<file, unended, runs, ctxDone, held, collected, worker, retry, next>>
        /\ main \in {"loop", "acquire"} /\ main' = "wait"
        /\ ctxDone \/ next > Len(Dataset)
    BY <1>1 DEF LoopEnds, GiveUp
  <2>2. LoopInv'
    BY <2>1 DEF LoopInv
  <2>3. PassedInv'
    BY <2>1 DEF PassedInv, Covered
  <2> QED
    BY <2>1, <2>2, <2>3, <1>k DEF MainAt, MemoryOK
<1>2. CASE LoopNext
  <2>1. /\ UNCHANGED <<file, unended, runs, ctxDone, held, collected, worker, retry>>
        /\ main = "loop" /\ next \in 1..Len(Dataset) /\ ~ctxDone
        /\ \/ Dataset[next] \in collected /\ next' = next + 1 /\ main' = "loop"
           \/ Dataset[next] \notin collected /\ next' = next /\ main' = "acquire"
    BY <1>2 DEF LoopNext, MemoryOK
  <2>2. LoopInv'
    BY <2>1 DEF LoopInv
  <2>3. PassedInv'
    BY <2>1 DEF PassedInv, Covered
  <2> QED
    BY <2>1, <2>2, <2>3, <1>k DEF MainAt
<1>3. CASE Delay
  <2>1. /\ UNCHANGED <<file, unended, runs, ctxDone, held, collected, worker, retry>>
        /\ main = "delay" /\ next \in 1..Len(Dataset)
        /\ next' = next + 1 /\ main' = "loop"
    BY <1>3 DEF Delay, MemoryOK, LoopInv
  <2>2. LoopInv'
    BY <2>1 DEF LoopInv
  <2>3. PassedInv'
    BY <2>1 DEF PassedInv, Covered
  <2> QED
    BY <2>1, <2>2, <2>3, <1>k DEF MainAt
<1>4. CASE WaitOver
  <2>1. /\ UNCHANGED <<file, unended, runs, ctxDone, held, collected, worker, retry, next>>
        /\ main = "wait" /\ main' = "end" /\ Busy = {} /\ Busy' = Busy
    BY <1>4 DEF WaitOver, Busy
  <2>2. MemoryOK'
    BY <2>1 DEF MemoryOK, MainAt
  <2>3. LoopInv' /\ SlotInv'
    BY <2>1 DEF LoopInv, SlotInv
  <2>4. FileInv' /\ PassedInv'
    BY <2>1 DEF FileInv, OneRecordEach, Readable, PassedInv, Covered
  <2> QED
    BY <2>2, <2>3, <2>4
<1>5. CASE Acquire /\ ctxDone
  <2>1. /\ UNCHANGED <<file, unended, runs, ctxDone, collected, worker, retry, next>>
        /\ main = "acquire" /\ main' = "wait" /\ ctxDone
        /\ held < Concurrency /\ held' = held + 1 /\ Busy' = Busy
    BY <1>5 DEF Acquire, Busy
  <2>2. MemoryOK'
    BY <2>1 DEF MemoryOK, MainAt
  <2>3. LoopInv'
    BY <2>1 DEF LoopInv
  <2>4. SlotInv'
    <3>1. Cardinality(Busy) \in Nat
      BY FS_CardinalityType DEF SlotInv
    <3> QED
      BY <2>1, <3>1, DatasetSize DEF SlotInv
  <2>5. FileInv' /\ PassedInv'
    BY <2>1 DEF FileInv, OneRecordEach, Readable, PassedInv
  <2> QED
    BY <2>2, <2>3, <2>4, <2>5
<1>6. CASE Acquire /\ ~ctxDone
  <2> DEFINE p == Dataset[next]
  <2>1. /\ UNCHANGED <<file, unended, runs, ctxDone, collected, retry, next>>
        /\ main = "acquire" /\ main' = "delay" /\ ~ctxDone
        /\ held < Concurrency /\ held' = held + 1
        /\ worker' = [worker EXCEPT ![p] = "collect"]
        /\ next \in 1..Len(Dataset) /\ p \in Prompts
    BY <1>6 DEF Acquire, LoopInv, MemoryOK
  <2>2. worker[p] = "none" /\ p \notin collected
    BY <2>1 DEF LoopInv
  <2>3. /\ worker'[p] = "collect" /\ \A q \in Prompts \ {p} : worker'[q] = worker[q]
        /\ worker' \in [Prompts -> WorkerAt]
    BY <2>1 DEF MemoryOK, WorkerAt, Running
  <2>d. \A i \in 1..Len(Dataset) : Dataset[i] = p => i = next
    BY <2>1, CollectAssumption
  <2> HIDE DEF p
  <2>4. MemoryOK'
    BY <2>1, <2>3 DEF MemoryOK, MainAt
  <2>5. LoopInv'
    <3>1. ASSUME NEW i \in next+1..Len(Dataset) PROVE worker'[Dataset[i]] = "none"
      <4>1. i \in next..Len(Dataset) /\ i \in 1..Len(Dataset) /\ i # next
        BY <2>1
      <4> QED
        BY <2>1, <2>3, <2>d, <4>1 DEF LoopInv
    <3> QED
      BY <2>1, <3>1 DEF LoopInv
  <2>6. SlotInv'
    <3>1. /\ IsFiniteSet(Busy)' /\ Cardinality(Busy) \in Nat
          /\ Cardinality(Busy') = Cardinality(Busy) + 1
      BY <2>1, <2>2, <2>3, BusyEffect DEF SlotInv, Running
    <3> QED
      BY <2>1, <3>1, DatasetSize DEF SlotInv
  <2>7. FileInv'
    <3>1. ASSUME NEW q \in Readable PROVE q \in collected \/ worker'[q] = "unstored"
      <4>1. q \in Prompts
        BY <3>1 DEF Readable, MemoryOK, Line
      <4>2. q \in collected \/ worker[q] = "unstored"
        BY <2>1, <3>1 DEF FileInv
      <4> QED
        BY <2>2, <2>3, <4>1, <4>2
    <3> QED
      BY <2>1, <2>2, <2>3, <3>1 DEF FileInv, OneRecordEach, Readable
  <2>8. PassedInv'
    <3>1. \A q \in Prompts : Covered(q) => Covered(q)'
      BY <2>1, <2>2, <2>3 DEF Covered, Running
    <3>2. worker'[p] \in Running
      BY <2>3 DEF Running
    <3>3. \A i \in 1..next-1 : i \in 1..Len(Dataset)
      BY <2>1
    <3> QED
      BY <2>1, <3>1, <3>2, <3>3 DEF PassedInv, Covered, p
  <2> QED
    BY <2>4, <2>5, <2>6, <2>7, <2>8
<1> QED
  BY <1>1, <1>2, <1>3, <1>4, <1>5, <1>6 DEF Main

LEMMA StartStep == CollectInv /\ Start => CollectInv'
<1> SUFFICES ASSUME CollectInv, Start PROVE CollectInv'
  OBVIOUS
<1> USE DatasetSize DEF CollectInv
<1>1. UNCHANGED <<file, unended>> /\ runs' = runs + 1 /\ runs < MaxRuns
  BY DEF Start
<1>2. Readable \subseteq Prompts /\ Readable' = Readable
  BY <1>1 DEF MemoryOK, Readable, Line
<1>3. PICK at \in {"off", "loop"}, known \in SUBSET Prompts :
        Fresh(at, known) /\ (at = "loop" => known = Readable)
  BY <1>2 DEF Start, ReadBack
<1>4. /\ Busy' = {} /\ SlotInv' /\ LoopInv'
      /\ worker' \in [Prompts -> WorkerAt] /\ retry' \in [Prompts -> 0..Retries]
      /\ next' \in 1..Len(Dataset) + 1
      /\ \A p \in Prompts : worker'[p] = "none"
  BY <1>3, FreshEffect
<1>5. /\ collected' = known /\ main' = at /\ next' = 1 /\ ctxDone' = FALSE
      /\ at = "loop" => known = Readable
  BY <1>3 DEF Fresh
<1>6. /\ runs' \in 0..MaxRuns
      /\ file' \in Seq(Line) /\ unended' \in BOOLEAN
  BY <1>1 DEF MemoryOK
<1>7. MemoryOK'
  BY <1>4, <1>5, <1>2, <1>6 DEF MemoryOK, MainAt
<1>8. FileInv'
  BY <1>1, <1>4, <1>5, <1>2 DEF FileInv, OneRecordEach, Running
<1>9. PassedInv'
  BY <1>5 DEF PassedInv
<1> QED
  BY <1>4, <1>7, <1>8, <1>9

LEMMA CrashStep == CollectInv /\ Crash => CollectInv'
<1> SUFFICES ASSUME CollectInv, Crash PROVE CollectInv'
  OBVIOUS
<1> USE DatasetSize DEF CollectInv
<1>1. Fresh("off", {}) /\ main # "off" /\ UNCHANGED runs
  BY DEF Crash
<1>2. /\ Busy' = {} /\ SlotInv' /\ LoopInv'
      /\ worker' \in [Prompts -> WorkerAt] /\ retry' \in [Prompts -> 0..Retries]
      /\ next' \in 1..Len(Dataset) + 1
      /\ \A p \in Prompts : worker'[p] = "none"
  BY <1>1, FreshEffect
<1>3. collected' = {} /\ main' = "off" /\ ctxDone' = FALSE
  BY <1>1 DEF Fresh
<1>4. /\ file' \in Seq(Line) /\ unended' \in BOOLEAN /\ OneRecordEach'
      /\ unended' => file' # << >>
  <2>1. CASE UNCHANGED <<file, unended>>
    BY <2>1 DEF MemoryOK, FileInv, OneRecordEach
  <2>2. ASSUME NEW p \in Prompts, worker[p] = "append", PutPart(p) \/ Put(p, TRUE)
        PROVE  /\ file' \in Seq(Line) /\ unended' \in BOOLEAN /\ OneRecordEach'
               /\ unended' => file' # << >>
    <3>1. PICK text \in {p, Garbage}, newline \in BOOLEAN : Put(text, newline)
      BY <2>2 DEF PutPart
    <3>2. p \notin Readable
      BY <1>1, <2>2 DEF FileInv, Running
    <3> QED
      BY <3>1, <3>2, PutEffect DEF MemoryOK
  <2> QED
    BY <2>1, <2>2 DEF Crash
<1>5. MemoryOK'
  BY <1>1, <1>2, <1>3, <1>4 DEF MemoryOK, MainAt
<1>6. FileInv'
  BY <1>2, <1>3, <1>4 DEF FileInv, Running
<1>7. PassedInv'
  BY <1>3 DEF PassedInv
<1> QED
  BY <1>2, <1>5, <1>6, <1>7

LEMMA CollectInvInit == Init => CollectInv
<1> SUFFICES ASSUME Init PROVE CollectInv
  OBVIOUS
<1> USE DatasetSize DEF Init
<1>1. Busy = {} /\ Readable = {} /\ \A p \in Prompts : worker[p] = "none"
  BY DEF Busy, Running, Readable
<1>2. MemoryOK
  <2>1. file \in Seq(Line) /\ collected \subseteq Prompts
    OBVIOUS
  <2>2. runs \in 0..MaxRuns /\ next \in 1..Len(Dataset) + 1
    OBVIOUS
  <2>5. unended \in BOOLEAN /\ ctxDone \in BOOLEAN
    BY Zenon
  <2>3. main \in MainAt /\ worker \in [Prompts -> WorkerAt]
    BY DEF MainAt, WorkerAt
  <2>4. retry \in [Prompts -> 0..Retries]
    OBVIOUS
  <2> QED
    BY <1>1, <2>1, <2>2, <2>3, <2>4, <2>5 DEF MemoryOK
<1>3. SlotInv
  BY <1>1, FS_EmptySet DEF SlotInv
<1>4. FileInv
  BY <1>1 DEF FileInv, OneRecordEach, Running
<1> QED
  BY <1>1, <1>2, <1>3, <1>4 DEF CollectInv, LoopInv, PassedInv

LEMMA CollectInvStep == CollectInv /\ [Next]_vars => CollectInv'
<1>1. CollectInv /\ Interrupt => CollectInv'
  BY DEF CollectInv, Interrupt, MemoryOK, LoopInv, SlotInv, FileInv, PassedInv, OneRecordEach,
         Readable, Busy
<1>2. CollectInv /\ UNCHANGED vars => CollectInv'
  BY DEF CollectInv, vars, runVars, MemoryOK, LoopInv, SlotInv, FileInv, PassedInv, OneRecordEach,
         Readable, Busy, Covered
<1> QED
  BY <1>1, <1>2, WorkerStep, MainStep, StartStep, CrashStep DEF Next

LEMMA CollectInvariant == Spec => []CollectInv
BY CollectInvInit, CollectInvStep, PTL DEF Spec

-----------------------------------------------------------------------------
\* Every reachable state has its variables in their types.
THEOREM CollectType == Spec => []TypeOK
<1>1. CollectInv => TypeOK
  <2> SUFFICES ASSUME CollectInv PROVE TypeOK
    OBVIOUS
  <2>1. Cardinality(Busy) \in Nat
    BY FS_CardinalityType DEF CollectInv, SlotInv
  <2>2. held \in 0..Concurrency
    BY <2>1, DatasetSize DEF CollectInv, SlotInv
  <2> QED
    BY <2>2 DEF CollectInv, MemoryOK, TypeOK
<1> QED
  BY <1>1, CollectInvariant, PTL

\* For every capacity of the semaphore no more goroutines than it admits are at
\* work at any time, and none when main has returned.
THEOREM CollectBounded == Spec => []WorkersAreBounded
<1>1. CollectInv => WorkersAreBounded
  <2> SUFFICES ASSUME CollectInv PROVE WorkersAreBounded
    OBVIOUS
  <2>1. Cardinality(Busy) \in Nat
    BY FS_CardinalityType DEF CollectInv, SlotInv
  <2>2. Cardinality(Busy) <= Concurrency
    BY <2>1, DatasetSize DEF CollectInv, SlotInv
  <2> QED
    BY <2>2 DEF CollectInv, LoopInv, WorkersAreBounded
<1> QED
  BY <1>1, CollectInvariant, PTL

\* However many runs are interrupted, crash and are resumed, no prompt has two
\* records in the file.
THEOREM CollectOneRecordEach == Spec => []OneRecordEach
<1>1. CollectInv => OneRecordEach
  BY DEF CollectInv, FileInv
<1> QED
  BY <1>1, CollectInvariant, PTL

\* A run that was not interrupted has a record of every prompt, except where its
\* Append failed.
THEOREM CollectComplete == Spec => []RunIsComplete
<1>1. CollectInv => RunIsComplete
  <2> SUFFICES ASSUME CollectInv, main = "end", ~ctxDone, NEW p \in Prompts
               PROVE  p \in collected \/ worker[p] = "unstored"
    BY DEF RunIsComplete
  <2>1. PICK i \in 1..Len(Dataset) : Dataset[i] = p
    BY CollectAssumption
  <2>2. i \in 1..next-1
    BY <2>1, DatasetSize DEF CollectInv, PassedInv, MemoryOK
  <2>3. Covered(p)
    BY <2>1, <2>2 DEF CollectInv, PassedInv
  <2>4. worker[p] \notin Running
    BY DEF CollectInv, LoopInv, Busy
  <2> QED
    BY <2>3, <2>4 DEF Covered
<1> QED
  BY <1>1, CollectInvariant, PTL
=============================================================================
