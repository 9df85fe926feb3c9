------------------------ MODULE EntropyWindowProofs ------------------------
(***************************************************************************)
(* Proofs about the entropy window, for every size, threshold and early    *)
(* exit count and for histories of any length: lemmas about the operators  *)
(* of EntropyWindow, which the proofs of the router and the executor use   *)
(* too, and theorems about a session of Add and Reset calls.               *)
(***************************************************************************)
EXTENDS WindowSession, WellFoundedInduction, TLAPS

-----------------------------------------------------------------------------
(* One step of a window.                                                   *)

\* The ring index stays in the ring.
LEMMA NextIndex ==
    ASSUME NEW i \in 0..Size-1
    PROVE  (i + 1) % Size = IF i + 1 = Size THEN 0 ELSE i + 1
BY WindowAssumption, SMT

\* A new window is a window.
LEMMA NewWindowType == NewWindow \in Window
BY WindowAssumption DEF NewWindow, Window

\* A record of the five fields is a window.
LEMMA WindowRecord ==
    ASSUME NEW b \in [0..Size-1 -> Nat], NEW p \in 0..Size-1, NEW c \in Nat,
           NEW s \in Int, NEW f \in BOOLEAN
    PROVE  [buf |-> b, pos |-> p, count |-> c, sum |-> s, filled |-> f] \in Window
BY SMT DEF Window

\* The fields of a window after Add that the proofs use.
LEMMA SlideFields ==
    ASSUME NEW w, NEW e
    PROVE  /\ Slide(w, e).count = w.count + 1
           /\ Slide(w, e).sum =
                w.sum - (IF w.filled THEN w.buf[w.pos] ELSE 0) + e
           /\ Slide(w, e).filled = (w.filled \/ w.count + 1 >= Size)
BY SMT DEF Slide

\* Sliding an entropy in keeps a window a window.
LEMMA SlideType ==
    ASSUME NEW w \in Window, NEW e \in Nat
    PROVE  Slide(w, e) \in Window
<1>1. (w.pos + 1) % Size \in 0..Size-1
  BY WindowAssumption, NextIndex DEF Window
<1>2. [w.buf EXCEPT ![w.pos] = e] \in [0..Size-1 -> Nat]
  BY DEF Window
<1>3. w.count + 1 \in Nat
  BY DEF Window
<1>4. w.sum - (IF w.filled THEN w.buf[w.pos] ELSE 0) + e \in Int
  <2>1. w.buf[w.pos] \in Nat /\ w.sum \in Int
    BY DEF Window
  <2>2. (IF w.filled THEN w.buf[w.pos] ELSE 0) \in Nat
    BY <2>1
  <2> QED
    BY <2>1, <2>2
<1>5. (w.filled \/ w.count + 1 >= Size) \in BOOLEAN
  OBVIOUS
<1> QED
  BY <1>1, <1>2, <1>3, <1>4, <1>5, WindowRecord DEF Slide

\* A new window holds nothing and is not filled.
LEMMA NewWindowFields ==
    NewWindow.count = 0 /\ NewWindow.sum = 0 /\ NewWindow.filled = FALSE
BY SMT DEF NewWindow

\* A window whose mean does not exceed the threshold, and whose filled flag says
\* that it holds Size entropies.
Cold(w, threshold) ==
    /\ w \in Window
    /\ w.filled <=> w.count >= Size
    /\ w.sum <= threshold * Occupied(w)

LEMMA NewWindowCold ==
    ASSUME NEW threshold \in Nat \ {0}
    PROVE  Cold(NewWindow, threshold)
BY NewWindowType, NewWindowFields, WindowAssumption DEF Cold, Occupied

\* When the early exit covers the filling of the window, a cold window stays cold
\* through every Add that does not ask for escalation.
LEMMA ColdStep ==
    ASSUME NEW threshold \in Nat \ {0}, NEW w, Cold(w, threshold), NEW e \in Nat,
           EarlyExitCount >= Size - 1, ~Escalates(Slide(w, e), e, threshold)
    PROVE  Cold(Slide(w, e), threshold)
<1> DEFINE v == Slide(w, e)
<1>1. v \in Window /\ w \in Window
  BY SlideType DEF Cold
<1>2. v.count = w.count + 1 /\ w.count \in Nat /\ v.count \in Nat
  BY <1>1, SlideFields DEF Window
<1>3. v.sum \in Int /\ w.sum \in Int
  BY <1>1 DEF Window
<1>4. v.filled <=> v.count >= Size
  <2>1. v.filled <=> (w.filled \/ w.count + 1 >= Size)
    BY SlideFields
  <2>2. w.filled <=> w.count >= Size
    BY DEF Cold
  <2> QED
    BY <2>1, <2>2, <1>2, WindowAssumption
<1>5. ~(v.count <= EarlyExitCount /\ e > threshold)
  BY DEF Escalates
<1>6. ~(v.filled /\ AverageExceeds(v, threshold))
  BY DEF Escalates
<1>7. w.sum <= threshold * Occupied(w)
  BY DEF Cold
<1>9. v.sum <= threshold * Occupied(v)
  <2> HIDE DEF v
  <2>1. CASE v.count >= Size
    <3>1. Occupied(v) = Size /\ Size # 0
      BY <2>1, <1>2, WindowAssumption DEF Occupied
    <3>2. ~AverageExceeds(v, threshold)
      BY <2>1, <1>4, <1>6
    <3>3. threshold * Size \in Int
      BY WindowAssumption
    <3> QED
      BY <3>1, <3>2, <3>3, <1>3 DEF AverageExceeds
  <2>2. CASE ~(v.count >= Size)
    <3>1. Occupied(w) = w.count /\ Occupied(v) = w.count + 1
      BY <2>2, <1>2, WindowAssumption DEF Occupied
    <3>2. ~w.filled
      BY <2>2, <1>2, WindowAssumption DEF Cold
    <3>3. v.sum = w.sum + e
      BY <3>2, <1>3, SlideFields DEF v
    <3>4. e <= threshold
      BY <1>5, <1>2, <2>2, WindowAssumption
    <3>5. /\ threshold * (w.count + 1) = threshold * w.count + threshold
          /\ threshold * w.count \in Int
      BY <1>2, WindowAssumption
    <3> QED
      BY <3>1, <3>3, <3>4, <3>5, <1>3, <1>7, WindowAssumption
  <2> QED
    BY <2>1, <2>2
<1> QED
  BY <1>1, <1>4, <1>9 DEF Cold

-----------------------------------------------------------------------------
(* Sums of histories.                                                     *)

\* Every non-empty set of naturals has a least element.
LEMMA LeastNatural ==
    ASSUME NEW T, T \subseteq Nat, T # {}
    PROVE  \E m \in T : \A k \in T : ~(k < m)
<1> DEFINE R == {ss \in Nat \X Nat : ss[1] < ss[2]}
<1>1. IsWellFoundedOn(R, Nat)
  BY NatLessThanWellFounded, Zenon DEF OpToRel
<1>2. \A x, y \in Nat : x < y <=> <<x, y>> \in R
  OBVIOUS
<1> HIDE DEF R
<1>3. \E x \in T : \A y \in T : ~ (<<y, x>> \in R)
  BY <1>1, WFMin
<1> QED
  BY <1>2, <1>3

\* Induction up to a bound, of a set instead of a predicate.
LEMMA Induction ==
    ASSUME NEW S, NEW N \in Nat, 0 \in S, \A n \in 0..N-1 : n \in S => n + 1 \in S
    PROVE  \A n \in 0..N : n \in S
<1> SUFFICES ASSUME NEW n \in 0..N, n \notin S PROVE FALSE
  OBVIOUS
<1> DEFINE T == {i \in 0..N : i \notin S}
<1>1. PICK m \in T : \A k \in T : ~(k < m)
  <2>1. T \subseteq Nat /\ T # {}
    OBVIOUS
  <2> HIDE DEF T
  <2> QED
    BY <2>1, LeastNatural
<1>2. m # 0 /\ m - 1 \in 0..N-1 /\ m - 1 < m /\ m - 1 + 1 = m
  BY <1>1
<1>3. m - 1 \in S
  BY <1>1, <1>2
<1>4. m \in S
  BY <1>2, <1>3
<1> QED
  BY <1>1, <1>4

\* f says what a loop has accumulated after each of its N passes.
Passes(f, N, S, base, step) ==
    /\ f \in [0..N -> S]
    /\ f[0] = base
    /\ \A n \in 1..N : f[n] = step[n][f[n - 1]]

\* Every loop has such a function.
LEMMA Recursion ==
    ASSUME NEW N \in Nat, NEW S, NEW base \in S, NEW step \in [1..N -> [S -> S]]
    PROVE  \E f : Passes(f, N, S, base, step)
<1> DEFINE T == {n \in 0..N : \E f : Passes(f, n, S, base, step)}
<1>1. 0 \in T
  <2> DEFINE g == [i \in 0..0 |-> base]
  <2>1. Passes(g, 0, S, base, step)
    BY DEF Passes
  <2> HIDE DEF g
  <2> QED
    BY <2>1
<1>2. ASSUME NEW n \in 0..N-1, n \in T PROVE n + 1 \in T
  <2>1. PICK f : Passes(f, n, S, base, step)
    BY <1>2
  <2> DEFINE last == step[n + 1][f[n]]
             g == [i \in 0..n+1 |-> IF i = n + 1 THEN last ELSE f[i]]
  <2>2. last \in S
    <3>1. f[n] \in S /\ n + 1 \in 1..N
      BY <2>1 DEF Passes
    <3> QED
      BY <3>1
  <2>3. g \in [0..n+1 -> S] /\ g[0] = base
    <3> HIDE DEF last
    <3> QED
      BY <2>1, <2>2 DEF Passes
  <2>4. ASSUME NEW i \in 1..n+1 PROVE g[i] = step[i][g[i - 1]]
    <3>1. /\ i \in 0..n+1 /\ i - 1 \in 0..n+1 /\ i - 1 # n + 1
          /\ i # n + 1 => i \in 1..n
          /\ i = n + 1 => i - 1 = n
      OBVIOUS
    <3>2. g[i - 1] = f[i - 1] /\ g[i] = IF i = n + 1 THEN last ELSE f[i]
      BY <3>1
    <3> HIDE DEF g
    <3> QED
      BY <2>1, <3>1, <3>2 DEF Passes
  <2>5. Passes(g, n + 1, S, base, step)
    BY <2>3, <2>4 DEF Passes
  <2> HIDE DEF g
  <2> QED
    BY <2>5
<1>3. N \in T
  <2> HIDE DEF T
  <2>1. \A n \in 0..N : n \in T
    BY <1>1, <1>2, Induction
  <2>2. N \in 0..N
    OBVIOUS
  <2> QED
    BY <2>1, <2>2
<1> QED
  BY <1>3

\* What takes the steps of a loop from its base stays in S.
LEMMA Loop ==
    ASSUME NEW N \in Nat, NEW S, NEW g, g[0] \in S,
           \A n \in 1..N : g[n - 1] \in S => g[n] \in S
    PROVE  \A n \in 0..N : g[n] \in S
<1> DEFINE T == {n \in 0..N : g[n] \in S}
<1>1. 0 \in T
  OBVIOUS
<1>2. ASSUME NEW n \in 0..N-1, n \in T PROVE n + 1 \in T
  <2>1. n + 1 \in 1..N /\ n + 1 - 1 = n
    OBVIOUS
  <2> QED
    BY <1>2, <2>1
<1>3. \A n \in 0..N : n \in T
  <2> HIDE DEF T
  <2> QED
    BY <1>1, <1>2, Induction
<1> QED
  BY <1>3

\* PrefixSums is what its recursion says.
LEMMA PrefixSumsDef ==
    ASSUME NEW s \in Seq(Nat)
    PROVE  /\ PrefixSums(s) \in [0..Len(s) -> Nat]
           /\ PrefixSums(s)[0] = 0
           /\ \A n \in 1..Len(s) : PrefixSums(s)[n] = PrefixSums(s)[n - 1] + s[n]
<1> DEFINE L == Len(s)
           step == [n \in 1..L |-> [x \in Nat |-> x + s[n]]]
           Equation(g) == g = [n \in 0..L |-> IF n = 0 THEN 0 ELSE g[n - 1] + s[n]]
           G == CHOOSE g : Equation(g)
<1>1. L \in Nat /\ \A n \in 1..L : s[n] \in Nat
  OBVIOUS
<1> HIDE DEF L
<1>2. PICK f : Passes(f, L, Nat, 0, step)
  <2>1. step \in [1..L -> [Nat -> Nat]]
    BY <1>1
  <2> HIDE DEF step
  <2> QED
    BY <1>1, <2>1, Recursion
<1>3. f \in [0..L -> Nat] /\ f[0] = 0 /\ \A n \in 1..L : f[n] = f[n - 1] + s[n]
  <2>1. f \in [0..L -> Nat] /\ f[0] = 0
    BY <1>2 DEF Passes
  <2>2. ASSUME NEW n \in 1..L PROVE f[n] = f[n - 1] + s[n]
    <3>1. n - 1 \in 0..L
      BY <1>1
    <3>2. f[n - 1] \in Nat /\ f[n] = step[n][f[n - 1]]
      BY <1>2, <3>1 DEF Passes
    <3> QED
      BY <3>2
  <2> QED
    BY <2>1, <2>2
<1> HIDE DEF step
<1>4. Equation(f)
  BY <1>1, <1>3
<1>5. Equation(G)
  BY <1>4
<1>6. PrefixSums(s) = G
  BY DEF PrefixSums, L
<1> HIDE DEF G
<1>7. G[0] = 0 /\ \A n \in 1..L : G[n] = G[n - 1] + s[n]
  BY <1>1, <1>5
<1>8. \A n \in 0..L : G[n] \in Nat
  <2> DEFINE S == Nat
  <2>1. G[0] \in S /\ L \in Nat
    BY <1>1, <1>7
  <2>2. \A n \in 1..L : G[n - 1] \in S => G[n] \in S
    BY <1>1, <1>7
  <2> HIDE DEF S
  <2>3. \A n \in 0..L : G[n] \in S
    BY <2>1, <2>2, Loop
  <2> QED
    BY <2>3 DEF S
<1>9. G \in [0..L -> Nat]
  <2>1. G = [n \in 0..L |-> G[n]]
    BY <1>5
  <2> QED
    BY <2>1, <1>8
<1> QED
  BY <1>6, <1>7, <1>9 DEF L

\* Sums of equal stretches of two sequences are equal.
LEMMA PrefixSumsOfStretch ==
    ASSUME NEW u \in Seq(Nat), NEW s \in Seq(Nat), NEW k \in Nat, NEW m \in Nat,
           m <= Len(u), k + m <= Len(s), \A n \in 1..m : u[n] = s[k + n]
    PROVE  \A n \in 0..m : PrefixSums(u)[n] = PrefixSums(s)[k + n] - PrefixSums(s)[k]
<1> DEFINE P == PrefixSums(u)
           Q == PrefixSums(s)
           T == {n \in 0..m : P[n] = Q[k + n] - Q[k]}
<1>1. P[0] = 0 /\ \A n \in 1..Len(u) : P[n] = P[n - 1] + u[n]
  BY PrefixSumsDef
<1>2. \A n \in 1..Len(s) : Q[n] = Q[n - 1] + s[n]
  BY PrefixSumsDef
<1>3. \A n \in 0..Len(s) : Q[n] \in Nat
  BY PrefixSumsDef
<1>l. Len(u) \in Nat /\ Len(s) \in Nat
  OBVIOUS
<1> HIDE DEF P, Q
<1>4. 0 \in T
  BY <1>1, <1>3, <1>l
<1>5. ASSUME NEW n \in 0..m-1, n \in T PROVE n + 1 \in T
  <2>1. n + 1 \in 1..Len(u) /\ n + 1 \in 1..m /\ n + 1 - 1 = n
    BY <1>l
  <2>2. k + (n + 1) \in 1..Len(s) /\ k + (n + 1) - 1 = k + n /\ k \in 0..Len(s)
        /\ k + n \in 0..Len(s)
    BY <1>l
  <2>3. P[n + 1] = P[n] + u[n + 1]
    BY <1>1, <2>1
  <2>4. Q[k + (n + 1)] = Q[k + n] + s[k + (n + 1)]
    BY <1>2, <2>2
  <2>5. u[n + 1] = s[k + (n + 1)] /\ u[n + 1] \in Nat
    BY <2>1
  <2>6. P[n] = Q[k + n] - Q[k]
    BY <1>5
  <2>7. Q[k + n] \in Nat /\ Q[k] \in Nat
    BY <1>3, <2>2
  <2>8. P[n + 1] = Q[k + (n + 1)] - Q[k]
    <3> DEFINE x == u[n + 1]  y == Q[k + n]  z == Q[k]
    <3>1. P[n + 1] = (y - z) + x /\ Q[k + (n + 1)] = y + x
      BY <2>3, <2>4, <2>5, <2>6
    <3>2. x \in Nat /\ y \in Nat /\ z \in Nat
      BY <2>5, <2>7
    <3> HIDE DEF x, y, z
    <3>3. P[n + 1] = Q[k + (n + 1)] - z
      BY <3>1, <3>2
    <3> QED
      BY <3>3 DEF z
  <2>9. n + 1 \in 0..m
    BY <2>1
  <2> QED
    BY <2>8, <2>9
<1>6. \A n \in 0..m : n \in T
  <2> HIDE DEF T
  <2> QED
    BY <1>4, <1>5, Induction
<1> QED
  BY <1>6 DEF P, Q

\* The sum of a stretch is a difference of two prefix sums.
LEMMA TotalOfStretch ==
    ASSUME NEW s \in Seq(Nat), NEW j \in 0..Len(s), NEW i \in 1..j+1
    PROVE  Total(SubSeq(s, i, j)) = PrefixSums(s)[j] - PrefixSums(s)[i - 1]
<1> DEFINE u == SubSeq(s, i, j)
           m == j - i + 1
           k == i - 1
<1>1. u \in Seq(Nat) /\ Len(u) = m
  OBVIOUS
<1>2. m \in Nat /\ k \in Nat /\ k + m = j /\ k + m <= Len(s)
  OBVIOUS
<1>3. \A n \in 1..m : u[n] = s[k + n]
  OBVIOUS
<1> HIDE DEF u, m, k
<1>4. \A n \in 0..m : PrefixSums(u)[n] = PrefixSums(s)[k + n] - PrefixSums(s)[k]
  <2>1. m <= Len(u)
    BY <1>1, <1>2
  <2> QED
    BY <1>1, <1>2, <1>3, <2>1, PrefixSumsOfStretch
<1>5. m \in 0..m
  BY <1>2
<1> QED
  BY <1>1, <1>2, <1>4, <1>5 DEF Total, u, k

\* One more entropy adds one prefix sum and leaves the others.
LEMMA PrefixSumsAppend ==
    ASSUME NEW s \in Seq(Nat), NEW e \in Nat
    PROVE  /\ \A n \in 0..Len(s) : PrefixSums(Append(s, e))[n] = PrefixSums(s)[n]
           /\ PrefixSums(Append(s, e))[Len(s) + 1] = PrefixSums(s)[Len(s)] + e
<1> DEFINE u == Append(s, e)
           L == Len(s)
<1>1. u \in Seq(Nat) /\ Len(u) = L + 1 /\ L \in Nat /\ u[L + 1] = e
  OBVIOUS
<1>2. \A n \in 1..L : u[n] = s[0 + n]
  OBVIOUS
<1>3. ASSUME NEW n \in 0..L PROVE PrefixSums(u)[n] = PrefixSums(s)[n]
  <2> HIDE DEF u
  <2>1. \A i \in 0..L : PrefixSums(u)[i] = PrefixSums(s)[0 + i] - PrefixSums(s)[0]
    <3>1. 0 \in Nat /\ L <= Len(u) /\ 0 + L <= Len(s)
      BY <1>1
    <3> QED
      BY <1>1, <1>2, <3>1, PrefixSumsOfStretch
  <2>2. PrefixSums(s)[0] = 0 /\ PrefixSums(s)[n] \in Nat
    BY PrefixSumsDef
  <2> QED
    BY <2>1, <2>2
<1>4. PrefixSums(u)[L + 1] = PrefixSums(u)[L] + e
  <2>1. L + 1 \in 1..Len(u) /\ L + 1 - 1 = L
    BY <1>1
  <2> HIDE DEF u
  <2> QED
    BY <1>1, <2>1, PrefixSumsDef
<1> QED
  BY <1>1, <1>3, <1>4

\* What the rule says of a token does not depend on later ones.
LEMMA HotAppend ==
    ASSUME NEW s \in Seq(Nat), NEW e \in Nat, NEW n \in 1..Len(s),
           NEW threshold \in Nat \ {0}
    PROVE  Hot(Append(s, e), n, threshold) <=> Hot(s, n, threshold)
<1> DEFINE u == Append(s, e)
<1>1. u \in Seq(Nat) /\ Len(u) = Len(s) + 1 /\ u[n] = s[n] /\ Len(s) \in Nat
  OBVIOUS
<1>2. CASE n >= Size
  <2> DEFINE i == n - Size + 1
  <2>1. n \in 0..Len(s) /\ n \in 0..Len(u) /\ i \in 1..n+1 /\ i - 1 \in 0..Len(s)
    BY <1>1, <1>2, WindowAssumption
  <2> HIDE DEF u, i
  <2>2. Total(SubSeq(u, i, n)) = PrefixSums(u)[n] - PrefixSums(u)[i - 1]
    BY <1>1, <2>1, TotalOfStretch
  <2>3. Total(SubSeq(s, i, n)) = PrefixSums(s)[n] - PrefixSums(s)[i - 1]
    BY <1>1, <2>1, TotalOfStretch
  <2>4. /\ PrefixSums(u)[n] = PrefixSums(s)[n]
        /\ PrefixSums(u)[i - 1] = PrefixSums(s)[i - 1]
    BY <2>1, PrefixSumsAppend DEF u
  <2>5. Total(SubSeq(u, i, n)) = Total(SubSeq(s, i, n))
    BY <2>2, <2>3, <2>4
  <2> QED
    BY <1>1, <2>5 DEF Hot, u, i
<1>3. CASE ~(n >= Size)
  BY <1>1, <1>3 DEF Hot
<1> QED
  BY <1>2, <1>3

-----------------------------------------------------------------------------
(* What a window knows of its history.                                     *)

\* The slot that was written k calls of Add ago.
Back(w, k) == IF k <= w.pos THEN w.pos - k ELSE w.pos - k + Size

\* The ring has gone round a whole number of times, and pos slots further.
Turned(w) == \E q \in Nat : w.count = Size * q + w.pos

\* What modulo means of a number that is written with quotient and remainder.
LEMMA Remainder ==
    ASSUME NEW q \in Nat, NEW r \in 0..Size-1
    PROVE  (Size * q + r) % Size = r
BY WindowAssumption, SMT

\* Add moves pos one slot on, or back to the first one after a whole turn.
LEMMA SlideTurned ==
    ASSUME NEW w \in Window, NEW e \in Nat, Turned(w)
    PROVE  Turned(Slide(w, e))
<1> DEFINE v == Slide(w, e)
<1>1. PICK q \in Nat : w.count = Size * q + w.pos
  BY DEF Turned
<1>2. /\ v.count = w.count + 1
      /\ v.pos = IF w.pos + 1 = Size THEN 0 ELSE w.pos + 1
      /\ w.pos \in 0..Size-1
  BY NextIndex DEF Slide, Window
<1>3. CASE w.pos + 1 = Size
  <2>1. Size * (q + 1) = Size * q + Size
    BY WindowAssumption
  <2>2. v.count = Size * (q + 1) + v.pos
    BY <1>1, <1>2, <1>3, <2>1, WindowAssumption
  <2> QED
    BY <2>2 DEF Turned
<1>4. CASE w.pos + 1 # Size
  <2>1. v.count = Size * q + v.pos
    BY <1>1, <1>2, <1>4, WindowAssumption
  <2> QED
    BY <2>1 DEF Turned
<1> QED
  BY <1>3, <1>4

\* After Add the new entropy is one slot back, and the others are one further.
LEMMA SlideBack ==
    ASSUME NEW w \in Window, NEW e \in Nat, NEW k \in 1..Size
    PROVE  Slide(w, e).buf[Back(Slide(w, e), k)] = IF k = 1 THEN e ELSE w.buf[Back(w, k - 1)]
<1> DEFINE v == Slide(w, e)
<1>1. /\ w.pos \in 0..Size-1 /\ w.buf \in [0..Size-1 -> Nat]
      /\ v.pos = IF w.pos + 1 = Size THEN 0 ELSE w.pos + 1
      /\ v.buf = [w.buf EXCEPT ![w.pos] = e]
  BY NextIndex DEF Slide, Window
<1>2. Back(v, k) = IF k = 1 THEN w.pos ELSE Back(w, k - 1)
  <2> DEFINE p == w.pos
  <2>1. p \in 0..Size-1 /\ Size \in Nat \ {0}
    BY <1>1, WindowAssumption
  <2>2. v.pos = IF p + 1 = Size THEN 0 ELSE p + 1
    BY <1>1
  <2>3. /\ Back(v, k) = IF k <= v.pos THEN v.pos - k ELSE v.pos - k + Size
        /\ Back(w, k - 1) = IF k - 1 <= p THEN p - (k - 1) ELSE p - (k - 1) + Size
    BY DEF Back
  <2> HIDE DEF v, p
  <2>4. CASE p + 1 = Size
    BY <2>1, <2>2, <2>3, <2>4 DEF p
  <2>5. CASE p + 1 # Size
    BY <2>1, <2>2, <2>3, <2>5 DEF p
  <2> QED
    BY <2>4, <2>5
<1>3. k # 1 => Back(w, k - 1) \in 0..Size-1 /\ Back(w, k - 1) # w.pos
  BY <1>1, WindowAssumption DEF Back
<1>4. v.buf[Back(v, k)] = IF k = 1 THEN e ELSE w.buf[Back(w, k - 1)]
  <2> HIDE DEF v
  <2>1. CASE k = 1
    BY <1>1, <1>2, <2>1
  <2>2. CASE k # 1
    BY <1>1, <1>2, <1>3, <2>2
  <2> QED
    BY <2>1, <2>2
<1> QED
  BY <1>4

\* How many entropies of s have left the window.
Gone(s) == IF Len(s) > Size THEN Len(s) - Size ELSE 0

\* w is a window that was given the entropies s since it was new: its slots, counted
\* backwards from pos, are the last ones of s, and its sum is theirs.
Reflects(w, s) ==
    /\ w \in Window /\ s \in Seq(Nat)
    /\ w.count = Len(s)
    /\ w.filled <=> Len(s) >= Size
    /\ Turned(w)
    /\ \A k \in 1..Size : k <= Len(s) => w.buf[Back(w, k)] = s[Len(s) - k + 1]
    /\ w.sum = PrefixSums(s)[Len(s)] - PrefixSums(s)[Gone(s)]

LEMMA NewWindowReflects == Reflects(NewWindow, << >>)
<1>1. << >> \in Seq(Nat) /\ Len(<< >>) = 0 /\ Gone(<< >>) = 0
  BY WindowAssumption DEF Gone
<1>2. PrefixSums(<< >>)[0] = 0
  BY <1>1, PrefixSumsDef
<1>3. NewWindow.count = 0 /\ NewWindow.pos = 0 /\ NewWindow.sum = 0 /\ NewWindow.filled = FALSE
  BY DEF NewWindow
<1>4. Turned(NewWindow)
  <2>1. NewWindow.count = Size * 0 + NewWindow.pos
    BY <1>3, WindowAssumption
  <2> QED
    BY <2>1 DEF Turned
<1> QED
  BY <1>1, <1>2, <1>3, <1>4, NewWindowType, WindowAssumption DEF Reflects

\* Add keeps the sum that of the last entropies: what it overwrites in a full ring
\* is the entropy of Size calls ago.
LEMMA SlideSum ==
    ASSUME NEW w, NEW s, Reflects(w, s), NEW e \in Nat
    PROVE  Slide(w, e).sum
             = PrefixSums(Append(s, e))[Len(s) + 1] - PrefixSums(Append(s, e))[Gone(Append(s, e))]
<1> DEFINE u == Append(s, e)
           L == Len(s)
           P == PrefixSums(s)
           Q == PrefixSums(u)
<1>1. w \in Window /\ s \in Seq(Nat) /\ u \in Seq(Nat) /\ L \in Nat /\ Len(u) = L + 1
  BY DEF Reflects
<1>2. Q[L + 1] = P[L] + e /\ \A n \in 0..L : Q[n] = P[n]
  BY <1>1, PrefixSumsAppend
<1>3. \A n \in 0..L : P[n] \in Nat
  BY <1>1, PrefixSumsDef
<1>4. w.sum = P[L] - P[Gone(s)]
  BY DEF Reflects
<1>5. Slide(w, e).sum = w.sum - (IF w.filled THEN w.buf[w.pos] ELSE 0) + e
  BY SlideFields
<1>6. CASE L >= Size
  <2>1. w.filled
    BY <1>6 DEF Reflects
  <2>2. w.buf[w.pos] = s[L - Size + 1]
    <3>1. Back(w, Size) = w.pos
      BY <1>1, WindowAssumption DEF Back, Window
    <3>2. Size \in 1..Size /\ Size <= L
      BY <1>6, WindowAssumption
    <3> QED
      BY <3>1, <3>2 DEF Reflects
  <2>3. Gone(s) = L - Size /\ Gone(u) = L - Size + 1
    BY <1>1, <1>6, WindowAssumption DEF Gone
  <2>4. /\ L - Size \in 0..L /\ L - Size + 1 \in 1..L
        /\ L - Size + 1 - 1 = L - Size /\ L - Size + 1 \in 0..L /\ L \in 0..L
    BY <1>1, <1>6, WindowAssumption
  <2> DEFINE i == L - Size + 1
  <2>5. P[i] = P[L - Size] + s[i]
    <3>1. P[i] = P[i - 1] + s[i]
      BY <1>1, <2>4, PrefixSumsDef
    <3> QED
      BY <2>4, <3>1
  <2>6. s[i] \in Nat
    BY <1>1, <2>4
  <2>7. Q[i] = P[i]
    BY <1>2, <2>4
  <2> DEFINE a == P[L]  b == P[L - Size]  c == s[i]
  <2>8. a \in Nat /\ b \in Nat /\ c \in Nat
    BY <1>3, <2>4, <2>6
  <2>9. Slide(w, e).sum = (a - b) - c + e /\ Q[L + 1] = a + e /\ Q[Gone(u)] = b + c
    BY <1>2, <1>4, <1>5, <2>1, <2>2, <2>3, <2>5, <2>7
  <2> HIDE DEF a, b, c
  <2>10. Slide(w, e).sum = Q[L + 1] - Q[Gone(u)]
    BY <2>8, <2>9
  <2> QED
    BY <2>10
<1>7. CASE ~(L >= Size)
  <2>1. ~w.filled
    BY <1>7 DEF Reflects
  <2>2. Gone(s) = 0 /\ Gone(u) = 0
    BY <1>1, <1>7, WindowAssumption DEF Gone
  <2>3. 0 \in 0..L /\ L \in 0..L
    BY <1>1
  <2> DEFINE a == P[L]  b == P[0]
  <2>4. a \in Nat /\ b \in Nat
    BY <1>3, <2>3
  <2>5. Slide(w, e).sum = (a - b) - 0 + e /\ Q[L + 1] = a + e /\ Q[Gone(u)] = b
    BY <1>2, <1>4, <1>5, <2>1, <2>2, <2>3
  <2> HIDE DEF a, b
  <2>6. Slide(w, e).sum = Q[L + 1] - Q[Gone(u)]
    BY <2>4, <2>5
  <2> QED
    BY <2>6
<1> QED
  BY <1>6, <1>7

\* Add takes a window that reflects a history to one that reflects it with the new
\* entropy: the step of every inductive invariant about a window and its history.
LEMMA SlideReflects ==
    ASSUME NEW w, NEW s, Reflects(w, s), NEW e \in Nat
    PROVE  Reflects(Slide(w, e), Append(s, e))
<1> DEFINE v == Slide(w, e)
           u == Append(s, e)
<1>1. w \in Window /\ s \in Seq(Nat) /\ w.count = Len(s) /\ Len(s) \in Nat
  BY DEF Reflects
<1>2. u \in Seq(Nat) /\ Len(u) = Len(s) + 1 /\ u[Len(s) + 1] = e
  BY <1>1
<1>3. v \in Window
  BY <1>1, SlideType
<1>4. v.count = Len(u)
  BY <1>1, <1>2, SlideFields
<1>5. v.filled <=> Len(u) >= Size
  <2>1. v.filled <=> (w.filled \/ w.count + 1 >= Size)
    BY SlideFields
  <2>2. w.filled <=> Len(s) >= Size
    BY DEF Reflects
  <2> HIDE DEF v, u
  <2> QED
    BY <1>1, <1>2, <2>1, <2>2, WindowAssumption
<1>6. Turned(v)
  BY <1>1, SlideTurned DEF Reflects
<1>7. ASSUME NEW k \in 1..Size, k <= Len(u)
      PROVE  v.buf[Back(v, k)] = u[Len(u) - k + 1]
  <2>1. v.buf[Back(v, k)] = IF k = 1 THEN e ELSE w.buf[Back(w, k - 1)]
    BY <1>1, SlideBack
  <2>2. CASE k = 1
    BY <1>1, <1>2, <2>1, <2>2
  <2>3. CASE k # 1
    <3>1. k - 1 \in 1..Size /\ k - 1 <= Len(s)
      BY <1>1, <1>2, <1>7, <2>3, WindowAssumption
    <3>2. w.buf[Back(w, k - 1)] = s[Len(s) - (k - 1) + 1]
      BY <3>1 DEF Reflects
    <3>3. Len(s) - (k - 1) + 1 = Len(u) - k + 1 /\ Len(u) - k + 1 \in 1..Len(s)
      BY <1>1, <1>2, <2>3, <3>1
    <3>4. u[Len(u) - k + 1] = s[Len(u) - k + 1]
      BY <1>1, <3>3
    <3> QED
      BY <2>1, <2>3, <3>2, <3>3, <3>4
  <2> QED
    BY <2>2, <2>3
<1>8. v.sum = PrefixSums(u)[Len(u)] - PrefixSums(u)[Gone(u)]
  BY <1>2, SlideSum
<1> QED
  BY <1>2, <1>3, <1>4, <1>5, <1>6, <1>7, <1>8 DEF Reflects

\* The sum of a window is that of the last Size entropies of its history.
LEMMA ReflectedSum ==
    ASSUME NEW w, NEW s, Reflects(w, s)
    PROVE  w.sum = Total(SubSeq(s, Gone(s) + 1, Len(s)))
<1> DEFINE i == Gone(s) + 1
<1>1. s \in Seq(Nat) /\ Len(s) \in 0..Len(s) /\ i \in 1..Len(s)+1 /\ i - 1 = Gone(s)
  BY WindowAssumption DEF Reflects, Gone
<1> HIDE DEF i
<1>2. Total(SubSeq(s, i, Len(s))) = PrefixSums(s)[Len(s)] - PrefixSums(s)[i - 1]
  BY <1>1, TotalOfStretch
<1> QED
  BY <1>1, <1>2 DEF Reflects, i

\* The window decides by the rule: what Add returns is what the history asks for.
LEMMA EscalatesByTheRule ==
    ASSUME NEW threshold \in Nat \ {0}, NEW w, NEW s, Reflects(w, s), s # << >>
    PROVE  Escalates(w, s[Len(s)], threshold) <=> Hot(s, Len(s), threshold)
<1> DEFINE L == Len(s)
<1>1. w.count = L /\ L \in Nat /\ (w.filled <=> L >= Size)
  BY DEF Reflects
<1>2. ASSUME L >= Size
      PROVE  AverageExceeds(w, threshold) <=> Total(SubSeq(s, L - Size + 1, L)) > threshold * Size
  <2>1. Gone(s) = L - Size
    BY <1>1, <1>2, WindowAssumption DEF Gone
  <2>2. Occupied(w) = Size /\ Size # 0
    BY <1>1, <1>2, WindowAssumption DEF Occupied
  <2>3. w.sum = Total(SubSeq(s, L - Size + 1, L))
    BY <2>1, ReflectedSum
  <2> QED
    BY <2>2, <2>3 DEF AverageExceeds
<1> QED
  BY <1>1, <1>2 DEF Escalates, Hot

\* A reader of tokens that stops at the first one that is hot has seen s: none
\* before the last is, and the last one if the reader has escalated.
ByTheRule(s, threshold, escalated) ==
    /\ \A n \in 1..Len(s)-1 : ~Hot(s, n, threshold)
    /\ s # << >> => (Hot(s, Len(s), threshold) <=> escalated)

\* Such a reader goes on by the rule if it escalates when the window does.
LEMMA AppendByTheRule ==
    ASSUME NEW threshold \in Nat \ {0}, NEW w, NEW s, Reflects(w, s),
           ByTheRule(s, threshold, FALSE), NEW e \in Nat
    PROVE  /\ Reflects(Slide(w, e), Append(s, e))
           /\ ByTheRule(Append(s, e), threshold, Escalates(Slide(w, e), e, threshold))
<1> DEFINE u == Append(s, e)
           L == Len(s)
<1>1. s \in Seq(Nat) /\ L \in Nat
  BY DEF Reflects
<1>2. Len(u) = L + 1 /\ u[L + 1] = e /\ u # << >>
  BY <1>1
<1>3. Reflects(Slide(w, e), u)
  BY SlideReflects
<1>4. Hot(u, L + 1, threshold) <=> Escalates(Slide(w, e), e, threshold)
  <2> HIDE DEF u
  <2> QED
    BY <1>2, <1>3, EscalatesByTheRule
<1>5. \A n \in 1..L : ~Hot(s, n, threshold)
  <2>1. \A n \in 1..L : n \in 1..L-1 \/ (n = L /\ s # << >>)
    BY <1>1
  <2> QED
    BY <2>1 DEF ByTheRule
<1>6. \A n \in 1..L : ~Hot(u, n, threshold)
  BY <1>1, <1>5, HotAppend
<1>7. ByTheRule(u, threshold, Escalates(Slide(w, e), e, threshold))
  <2> HIDE DEF u
  <2>1. Len(u) - 1 = L
    BY <1>1, <1>2
  <2> QED
    BY <1>2, <1>4, <1>6, <2>1 DEF ByTheRule
<1> QED
  BY <1>3, <1>7

-----------------------------------------------------------------------------
(* Sessions.                                                               *)

\* Every reachable state of a session has its variables in their types: in
\* particular the ring index never leaves the ring.
THEOREM SessionType == SessionSpec => []SessionTypeOK
<1>1. SessionInit => SessionTypeOK
  BY NewWindowType DEF SessionInit, SessionTypeOK
<1>2. SessionTypeOK /\ [SessionNext]_sessionVars => SessionTypeOK'
  <2> SUFFICES ASSUME SessionTypeOK, [SessionNext]_sessionVars PROVE SessionTypeOK'
    OBVIOUS
  <2>1. CASE Reset
    BY <2>1, NewWindowType DEF Reset, SessionTypeOK
  <2>2. ASSUME NEW e \in Nat, Add(e) PROVE SessionTypeOK'
    <3>1. e \in Nat
      OBVIOUS
    <3>2. sessionWindow' \in Window
      BY <2>2, <3>1, SlideType DEF Add, SessionTypeOK
    <3> DEFINE d == IF Escalates(sessionWindow', e, limit) THEN "escalate" ELSE "continue"
    <3>3. seen' = Append(seen, e) /\ decisions' = Append(decisions, d)
      BY <2>2 DEF Add
    <3>4. d \in Decision
      BY DEF Decision
    <3>5. limit' = limit
      BY <2>2 DEF Add
    <3> HIDE DEF d
    <3> QED
      BY <3>1, <3>2, <3>3, <3>4, <3>5 DEF SessionTypeOK
  <2>3. CASE UNCHANGED sessionVars
    BY <2>3 DEF sessionVars, SessionTypeOK
  <2> QED
    BY <2>1, <2>2, <2>3 DEF SessionNext
<1> QED
  BY <1>1, <1>2, PTL DEF SessionSpec

\* No Add has returned Escalate since the last Reset.
Quiet(ds) == \A n \in 1..Len(ds) : ds[n] = "continue"

\* QuietMeansCold is inductive once it also ties filled to the count (Cold).
SessionColdInv == EarlyExitCount >= Size - 1 /\ Quiet(decisions) => Cold(sessionWindow, limit)

\* While no Add has returned Escalate, the mean of the window is at most the
\* threshold, for windows of any size that the early exit covers.
THEOREM SessionCold == SessionSpec => []QuietMeansCold
<1>1. SessionInit => SessionColdInv
  BY NewWindowCold DEF SessionInit, SessionColdInv
<1>2. SessionTypeOK /\ SessionColdInv /\ [SessionNext]_sessionVars => SessionColdInv'
  <2> SUFFICES ASSUME SessionTypeOK, SessionColdInv, [SessionNext]_sessionVars,
                      EarlyExitCount >= Size - 1, Quiet(decisions')
               PROVE  Cold(sessionWindow', limit')
    BY DEF SessionColdInv
  <2>1. CASE Reset
    BY <2>1, NewWindowCold DEF Reset, SessionTypeOK
  <2>2. ASSUME NEW e \in Nat, Add(e) PROVE Cold(sessionWindow', limit')
    <3> DEFINE d == IF Escalates(sessionWindow', e, limit) THEN "escalate" ELSE "continue"
    <3>1. sessionWindow' = Slide(sessionWindow, e) /\ decisions' = Append(decisions, d)
      BY <2>2 DEF Add
    <3>2. decisions \in Seq(Decision) /\ d \in Decision
      BY DEF SessionTypeOK, Decision
    <3>3. d = "continue" /\ Quiet(decisions)
      <4> HIDE DEF d
      <4>1. /\ decisions'[Len(decisions')] = d
            /\ Len(decisions') \in 1..Len(decisions')
        BY <3>1, <3>2
      <4>2. \A n \in 1..Len(decisions) :
               n \in 1..Len(decisions') /\ decisions'[n] = decisions[n]
        BY <3>1, <3>2
      <4> QED
        BY <4>1, <4>2 DEF Quiet
    <3>4. ~Escalates(Slide(sessionWindow, e), e, limit)
      BY <3>1, <3>3
    <3>5. Cold(sessionWindow, limit)
      BY <3>3 DEF SessionColdInv
    <3>6. limit' = limit /\ limit \in Nat \ {0}
      BY <2>2 DEF Add, SessionTypeOK
    <3> QED
      BY <3>1, <3>4, <3>5, <3>6, ColdStep
  <2>3. CASE UNCHANGED sessionVars
    BY <2>3 DEF sessionVars, SessionColdInv
  <2> QED
    BY <2>1, <2>2, <2>3 DEF SessionNext
<1>3. SessionColdInv => QuietMeansCold
  BY DEF SessionColdInv, QuietMeansCold, Quiet, Cold
<1> QED
  BY <1>1, <1>2, <1>3, SessionType, PTL DEF SessionSpec

\* The window reflects what the session has added since the last Reset.
SessionInv == Reflects(sessionWindow, seen)

LEMMA SessionInvariant == SessionSpec => []SessionInv
<1>1. SessionInit => SessionInv
  BY NewWindowReflects DEF SessionInit, SessionInv
<1>2. SessionInv /\ [SessionNext]_sessionVars => SessionInv'
  <2> SUFFICES ASSUME SessionInv, [SessionNext]_sessionVars PROVE SessionInv'
    OBVIOUS
  <2>1. CASE Reset
    BY <2>1, NewWindowReflects DEF Reset, SessionInv
  <2>2. ASSUME NEW e \in Nat, Add(e) PROVE SessionInv'
    BY <2>2, SlideReflects DEF Add, SessionInv
  <2>3. CASE UNCHANGED sessionVars
    BY <2>3 DEF sessionVars, SessionInv
  <2> QED
    BY <2>1, <2>2, <2>3 DEF SessionNext
<1> QED
  BY <1>1, <1>2, PTL DEF SessionSpec

\* The running sum is the sum of the last Size entropies at all times, for windows
\* of any size and sessions of any length.
THEOREM SessionSum == SessionSpec => []SumIsOfLastEntropies
<1>1. SessionInv => SumIsOfLastEntropies
  <2> SUFFICES ASSUME SessionInv PROVE SumIsOfLastEntropies
    OBVIOUS
  <2>1. Len(seen) \in Nat
    BY DEF SessionInv, Reflects
  <2>2. Len(seen) - MinOf(Len(seen), Size) + 1 = Gone(seen) + 1
    <3>1. CASE Len(seen) < Size
      BY <2>1, <3>1, WindowAssumption DEF MinOf, Gone
    <3>2. CASE Len(seen) = Size
      BY <2>1, <3>2, WindowAssumption DEF MinOf, Gone
    <3>3. CASE Len(seen) > Size
      <4>1. MinOf(Len(seen), Size) = Size /\ Gone(seen) = Len(seen) - Size
        BY <2>1, <3>3, WindowAssumption DEF MinOf, Gone
      <4> QED
        BY <2>1, <4>1, WindowAssumption
    <3> QED
      BY <2>1, <3>1, <3>2, <3>3, WindowAssumption
  <2> QED
    BY <2>2, ReflectedSum DEF SessionInv, SumIsOfLastEntropies, LastOf
<1> QED
  BY <1>1, SessionInvariant, PTL

\* Every decision is the one that the rule gives for the history at its time, and a
\* later token does not change what the rule says of an earlier one.
THEOREM SessionDecisions == SessionSpec => []DecisionsAreReference
<1>1. SessionInit => DecisionsAreReference
  BY DEF SessionInit, DecisionsAreReference
<1>2. SessionInv /\ SessionTypeOK /\ DecisionsAreReference /\ [SessionNext]_sessionVars
        /\ SessionInv' => DecisionsAreReference'
  <2> SUFFICES ASSUME SessionInv, SessionTypeOK, DecisionsAreReference,
                      [SessionNext]_sessionVars, SessionInv'
               PROVE  DecisionsAreReference'
    OBVIOUS
  <2>1. CASE Reset
    BY <2>1 DEF Reset, DecisionsAreReference
  <2>2. ASSUME NEW e \in Nat, Add(e) PROVE DecisionsAreReference'
    <3> DEFINE L == Len(seen)
               d == IF Escalates(sessionWindow', e, limit) THEN "escalate" ELSE "continue"
    <3>1. seen' = Append(seen, e) /\ decisions' = Append(decisions, d)
      BY <2>2 DEF Add
    <3>2. seen \in Seq(Nat) /\ decisions \in Seq(Decision) /\ Len(decisions) = L /\ L \in Nat
          /\ d \in Decision /\ limit \in Nat \ {0}
      BY DEF SessionTypeOK, Decision
    <3>l. limit' = limit
      BY <2>2 DEF Add
    <3> HIDE DEF d
    <3>3. /\ Len(seen') = L + 1 /\ seen'[L + 1] = e
          /\ decisions'[L + 1] = d
          /\ \A n \in 1..L : decisions'[n] = decisions[n]
      BY <3>1, <3>2
    <3>4. ASSUME NEW n \in 1..L+1 PROVE decisions'[n] = "escalate" <=> Hot(seen', n, limit)
      <4>1. CASE n = L + 1
        <5>1. Reflects(sessionWindow', seen') /\ seen' # << >>
          BY <3>2, <3>3 DEF SessionInv
        <5>2. Escalates(sessionWindow', e, limit) <=> Hot(seen', L + 1, limit)
          BY <3>2, <3>3, <5>1, EscalatesByTheRule
        <5>3. d = "escalate" <=> Escalates(sessionWindow', e, limit)
          BY DEF d
        <5> QED
          BY <3>3, <4>1, <5>2, <5>3
      <4>2. CASE n # L + 1
        <5>1. n \in 1..L
          BY <3>2, <4>2
        <5>2. Hot(seen', n, limit) <=> Hot(seen, n, limit)
          BY <3>1, <3>2, <5>1, HotAppend
        <5> QED
          BY <3>3, <5>1, <5>2 DEF DecisionsAreReference
      <4> QED
        BY <4>1, <4>2
    <3> QED
      BY <3>3, <3>4, <3>l DEF DecisionsAreReference
  <2>3. CASE UNCHANGED sessionVars
    BY <2>3 DEF sessionVars, DecisionsAreReference
  <2> QED
    BY <2>1, <2>2, <2>3 DEF SessionNext
<1> QED
  BY <1>1, <1>2, SessionInvariant, SessionType, PTL DEF SessionSpec

\* The ring holds the last Size entropies at all times, each at its index modulo
\* Size, for windows of any size and sessions of any length.
THEOREM SessionRing == SessionSpec => []RingHoldsRecent
<1>1. SessionInv => RingHoldsRecent
  <2> SUFFICES ASSUME SessionInv, NEW n \in 1..Len(seen), n > Len(seen) - Size
               PROVE  sessionWindow.buf[(n - 1) % Size] = seen[n]
    BY DEF RingHoldsRecent, SessionInv, Reflects
  <2> DEFINE w == sessionWindow
             k == Len(seen) - n + 1
  <2>1. Len(seen) \in Nat /\ w.pos \in 0..Size-1 /\ Size \in Nat \ {0}
    BY WindowAssumption DEF SessionInv, Reflects, Window
  <2>2. k \in 1..Size /\ k <= Len(seen) /\ Len(seen) - k + 1 = n
    BY <2>1
  <2>3. PICK q \in Nat : Len(seen) = Size * q + w.pos
    BY DEF SessionInv, Reflects, Turned
  <2>4. (n - 1) % Size = Back(w, k)
    <3> DEFINE m == Size * q
    <3>1. m \in Nat /\ Len(seen) = m + w.pos
      BY <2>1, <2>3
    <3>2. CASE k <= w.pos
      <4>1. n - 1 = m + (w.pos - k) /\ w.pos - k \in 0..Size-1
        <5> HIDE DEF m, k, w
        <5>1. w.pos - k \in 0..Size-1 /\ n = Len(seen) + 1 - k
          BY <2>1, <2>2, <3>2
        <5> QED
          BY <2>1, <2>2, <3>1, <5>1
      <4> QED
        BY <3>2, <4>1, Remainder DEF Back
    <3>3. CASE ~(k <= w.pos)
      <4> DEFINE j == Size * (q - 1)
      <4>1. q # 0
        BY <2>1, <2>2, <2>3, <3>3
      <4>2. q - 1 \in Nat /\ j \in Int /\ m = j + Size
        BY <4>1, <2>1
      <4>3. n - 1 = j + (w.pos - k + Size) /\ w.pos - k + Size \in 0..Size-1
        <5> HIDE DEF m, j, k, w
        <5> QED
          BY <2>1, <2>2, <3>1, <3>3, <4>2
      <4> QED
        BY <3>3, <4>2, <4>3, Remainder DEF Back
    <3> QED
      BY <3>2, <3>3
  <2>5. w.buf[Back(w, k)] = seen[Len(seen) - k + 1]
    BY <2>2 DEF SessionInv, Reflects
  <2> QED
    BY <2>2, <2>4, <2>5
<1> QED
  BY <1>1, SessionInvariant, PTL
=============================================================================
