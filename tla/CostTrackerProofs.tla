------------------------- MODULE CostTrackerProofs -------------------------
(***************************************************************************)
(* The costs of a report and its token counts, for any number of pods,     *)
(* windows and models.  The sums are folds over finite sets: what they do  *)
(* is shown from the equation of a fold and a smallest counterexample      *)
(* among the subsets of a finite set, which stands in for induction.       *)
(***************************************************************************)
EXTENDS CostTracker, FiniteSetTheorems, WellFoundedInduction, TLAPS

(***************************************************************************)
(* Sums over finite sets                                                   *)
(***************************************************************************)
Pick(s) == CHOOSE x \in s : TRUE
IsSum(f, S, g) == g = [s \in SUBSET S |-> IF s = {} THEN 0 ELSE f[Pick(s)] + g[s \ {Pick(s)}]]
SumOver(f, S) == (CHOOSE g : IsSum(f, S, g))[S]

LEMMA SumIsSumOver == \A f, S : SumFunctionOnSet(f, S) = SumOver(f, S)
  BY DEF SumFunctionOnSet, FoldFunctionOnSet, MapThenFoldSet, SumOver, IsSum, Pick

LEMMA PickInSet == ASSUME NEW s, s # {} PROVE Pick(s) \in s
  BY DEF Pick

\* A set of subsets of a finite set that is not empty has a smallest member:
\* the form in which induction over finite sets is used here.
LEMMA SmallestSubset ==
  ASSUME NEW S, IsFiniteSet(S), NEW Bad, Bad \subseteq SUBSET S, Bad # {}
  PROVE  \E T \in Bad : \A U \in Bad : U \subseteq T => U = T
<1>1. IsWellFoundedOn(StrictSubsetOrdering(S), SUBSET S)
  BY FS_StrictSubsetOrderingWellFounded, FS_FiniteSubsetsOfFinite
<1>2. PICK T \in Bad : \A U \in Bad : ~(<<U, T>> \in StrictSubsetOrdering(S))
  BY <1>1, WFMin
<1>3. ASSUME NEW U \in Bad, U \subseteq T, U # T PROVE FALSE
  BY <1>2, <1>3 DEF StrictSubsetOrdering
<1> QED
  BY <1>3

LEMMA SumUnfold ==
  ASSUME NEW f, NEW S, NEW g, IsSum(f, S, g)
  PROVE  /\ g[{}] = 0
         /\ \A s \in SUBSET S : s # {} => g[s] = f[Pick(s)] + g[s \ {Pick(s)}]
<1> DEFINE body(s) == IF s = {} THEN 0 ELSE f[Pick(s)] + g[s \ {Pick(s)}]
<1>1. g = [s \in SUBSET S |-> body(s)]
  BY DEF IsSum
<1> HIDE DEF body
<1>2. \A s \in SUBSET S : g[s] = body(s)
  BY <1>1
<1>3. {} \in SUBSET S
  OBVIOUS
<1> QED
  BY <1>2, <1>3 DEF body

LEMMA SumUnique ==
  ASSUME NEW f, NEW S, IsFiniteSet(S), NEW T, NEW g, NEW h, IsSum(f, S, g), IsSum(f, T, h),
         S \subseteq T
  PROVE  \A s \in SUBSET S : g[s] = h[s]
<1> DEFINE Bad == {s \in SUBSET S : g[s] # h[s]}
<1>1. SUFFICES ASSUME Bad # {} PROVE FALSE
  OBVIOUS
<1>2. PICK s \in Bad : \A u \in Bad : u \subseteq s => u = s
  <2>1. Bad \subseteq SUBSET S
    OBVIOUS
  <2> HIDE DEF Bad
  <2> QED
    BY <1>1, <2>1, SmallestSubset
<1>3. s # {}
  BY <1>2, SumUnfold
<1> DEFINE r == s \ {Pick(s)}
<1>4. r \subseteq s /\ r # s
  BY <1>3, PickInSet
<1>5. r \in SUBSET S /\ s \in SUBSET S /\ s \in SUBSET T
  BY <1>2, <1>4
<1>6. g[r] = h[r]
  BY <1>2, <1>4, <1>5
<1>7. g[s] = f[Pick(s)] + g[r]
  BY <1>3, <1>5, SumUnfold
<1>8. h[s] = f[Pick(s)] + h[r]
  BY <1>3, <1>5, SumUnfold
<1> QED
  BY <1>2, <1>6, <1>7, <1>8

LEMMA SumExists ==
  ASSUME NEW f, NEW S, IsFiniteSet(S)
  PROVE  \E g : IsSum(f, S, g)
<1> DEFINE Bad == {s \in SUBSET S : ~\E g : IsSum(f, s, g)}
<1>1. SUFFICES ASSUME Bad # {} PROVE FALSE
  OBVIOUS
<1>2. PICK T \in Bad : \A U \in Bad : U \subseteq T => U = T
  <2>1. Bad \subseteq SUBSET S
    OBVIOUS
  <2> HIDE DEF Bad
  <2> QED
    BY <1>1, <2>1, SmallestSubset
<1> DEFINE G(s) == CHOOSE g : IsSum(f, s, g)
           body(s) == IF s = {} THEN 0 ELSE f[Pick(s)] + G(s \ {Pick(s)})[s \ {Pick(s)}]
           h == [s \in SUBSET T |-> body(s)]
<1>3. \A s \in SUBSET T : s # T => IsSum(f, s, G(s))
  BY <1>2
<1>4. \A s \in SUBSET T : IsFiniteSet(s)
  BY <1>2, FS_Subset
<1> HIDE DEF G
<1>5. ASSUME NEW s \in SUBSET T, s # T PROVE h[s] = G(s)[s]
  <2>1. CASE s = {}
    BY <1>3, <1>5, <2>1, SumUnfold
  <2>2. CASE s # {}
    <3> DEFINE r == s \ {Pick(s)}
    <3>1. r \in SUBSET s /\ r \in SUBSET T /\ r # T /\ IsFiniteSet(r)
      BY <1>4, <1>5, <2>2, PickInSet
    <3>2. IsSum(f, s, G(s)) /\ IsSum(f, r, G(r)) /\ s \in SUBSET s
      <4> HIDE DEF r
      <4> QED
        BY <1>3, <1>5, <3>1
    <3>3. G(s)[s] = f[Pick(s)] + G(s)[r]
      BY <2>2, <3>2, SumUnfold
    <3>4. r \subseteq s /\ r \in SUBSET r
      BY <3>1
    <3>5. \A u \in SUBSET r : G(r)[u] = G(s)[u]
      <4> HIDE DEF r
      <4> QED
        BY <3>1, <3>2, <3>4, SumUnique
    <3>6. G(r)[r] = G(s)[r]
      BY <3>4, <3>5
    <3>7. h[s] = f[Pick(s)] + G(r)[r]
      BY <2>2
    <3> HIDE DEF r, h
    <3> QED
      BY <3>3, <3>6, <3>7
  <2> QED
    BY <2>1, <2>2
<1> DEFINE body2(s) == IF s = {} THEN 0 ELSE f[Pick(s)] + h[s \ {Pick(s)}]
<1>6. \A s \in SUBSET T : body(s) = body2(s)
  <2> SUFFICES ASSUME NEW s \in SUBSET T, s # {} PROVE body(s) = body2(s)
    OBVIOUS
  <2>1. s \ {Pick(s)} \in SUBSET T /\ s \ {Pick(s)} # T
    BY PickInSet
  <2>2. h[s \ {Pick(s)}] = G(s \ {Pick(s)})[s \ {Pick(s)}]
    BY <1>5, <2>1
  <2> HIDE DEF h
  <2> QED
    BY <2>2
<1>7. h = [s \in SUBSET T |-> body2(s)]
  <2> HIDE DEF body, body2
  <2> QED
    BY <1>6
<1>8. IsSum(f, T, h)
  <2> HIDE DEF h
  <2> QED
    BY <1>7 DEF IsSum
<1> QED
  BY <1>2, <1>8

\* The sum over a finite set, element by element.
LEMMA SumEquation ==
  ASSUME NEW f, NEW S, IsFiniteSet(S)
  PROVE  /\ SumOver(f, {}) = 0
         /\ S # {} => SumOver(f, S) = f[Pick(S)] + SumOver(f, S \ {Pick(S)})
<1> DEFINE G(s) == CHOOSE g : IsSum(f, s, g)
<1>1. \A s : IsFiniteSet(s) => IsSum(f, s, G(s))
  BY SumExists
<1>2. \A s : SumOver(f, s) = G(s)[s]
  BY DEF SumOver
<1> HIDE DEF G
<1>3. SumOver(f, {}) = 0
  BY <1>1, <1>2, FS_EmptySet, SumUnfold
<1>4. ASSUME S # {} PROVE SumOver(f, S) = f[Pick(S)] + SumOver(f, S \ {Pick(S)})
  <2> DEFINE r == S \ {Pick(S)}
  <2>1. r \in SUBSET r /\ r \subseteq S /\ IsFiniteSet(r) /\ S \in SUBSET S
    BY FS_Subset
  <2>2. IsSum(f, S, G(S)) /\ IsSum(f, r, G(r))
    BY <1>1, <2>1
  <2>3. G(S)[S] = f[Pick(S)] + G(S)[r]
    BY <1>4, <2>1, <2>2, SumUnfold
  <2>4. G(r)[r] = G(S)[r]
    BY <2>1, <2>2, SumUnique
  <2> QED
    BY <1>2, <2>3, <2>4
<1> QED
  BY <1>3, <1>4

\* A sum of numbers that are not negative is one.
LEMMA SumIsNat ==
  ASSUME NEW f, NEW S, IsFiniteSet(S), \A x \in S : f[x] \in Nat
  PROVE  SumOver(f, S) \in Nat
<1> DEFINE Bad == {s \in SUBSET S : SumOver(f, s) \notin Nat}
<1>1. SUFFICES ASSUME Bad # {} PROVE FALSE
  OBVIOUS
<1>2. PICK s \in Bad : \A u \in Bad : u \subseteq s => u = s
  <2>1. Bad \subseteq SUBSET S
    OBVIOUS
  <2> HIDE DEF Bad
  <2> QED
    BY <1>1, <2>1, SmallestSubset
<1>3. s \subseteq S /\ IsFiniteSet(s) /\ SumOver(f, s) \notin Nat
  BY <1>2, FS_Subset
<1>4. s # {} /\ SumOver(f, s) = f[Pick(s)] + SumOver(f, s \ {Pick(s)})
  <2>1. SumOver(f, {}) = 0 /\ (s # {} => SumOver(f, s) = f[Pick(s)] + SumOver(f, s \ {Pick(s)}))
    BY <1>3, SumEquation
  <2>2. s # {}
    <3>1. SUFFICES ASSUME s = {} PROVE FALSE
      OBVIOUS
    <3>2. SumOver(f, s) = 0 /\ SumOver(f, s) \notin Nat
      BY <1>3, <2>1, <3>1, Zenon
    <3> QED
      BY <3>2
  <2> QED
    BY <2>1, <2>2
<1>5. Pick(s) \in s
  BY <1>4, PickInSet
<1>6. SumOver(f, s \ {Pick(s)}) \in Nat
  BY <1>2, <1>3, <1>5
<1>7. f[Pick(s)] \in Nat
  BY <1>3, <1>5
<1> QED
  BY <1>3, <1>4, <1>6, <1>7

\* No summand exceeds a sum of numbers that are not negative.
LEMMA SumBoundsParts ==
  ASSUME NEW f, NEW S, IsFiniteSet(S), \A x \in S : f[x] \in Nat, NEW y \in S
  PROVE  f[y] <= SumOver(f, S)
<1> DEFINE Bad == {s \in SUBSET S : y \in s /\ ~(f[y] <= SumOver(f, s))}
<1>1. SUFFICES ASSUME Bad # {} PROVE FALSE
  OBVIOUS
<1>2. PICK s \in Bad : \A u \in Bad : u \subseteq s => u = s
  <2>1. Bad \subseteq SUBSET S
    OBVIOUS
  <2> HIDE DEF Bad
  <2> QED
    BY <1>1, <2>1, SmallestSubset
<1> DEFINE r == s \ {Pick(s)}
<1>3. s \subseteq S /\ IsFiniteSet(s) /\ y \in s /\ ~(f[y] <= SumOver(f, s))
  BY <1>2, FS_Subset
<1>4. SumOver(f, s) = f[Pick(s)] + SumOver(f, r)
  BY <1>3, SumEquation
<1>5. Pick(s) \in s
  BY <1>3, PickInSet
<1>6. IsFiniteSet(r) /\ r \subseteq S
  BY <1>3, FS_Subset
<1>7. SumOver(f, r) \in Nat
  <2> HIDE DEF r
  <2> QED
    BY <1>6, SumIsNat
<1>8. f[Pick(s)] \in Nat /\ f[y] \in Nat
  BY <1>3, <1>5
<1>9. CASE y = Pick(s)
  BY <1>3, <1>4, <1>7, <1>8, <1>9
<1>10. CASE y # Pick(s)
  <2>1. r \notin Bad
    BY <1>2, <1>5
  <2>2. f[y] <= SumOver(f, r)
    BY <1>3, <1>6, <1>10, <2>1
  <2> QED
    BY <1>3, <1>4, <1>7, <1>8, <2>2
<1> QED
  BY <1>9, <1>10

\* A sum of zeros is zero.
LEMMA SumOfZeros ==
  ASSUME NEW f, NEW S, IsFiniteSet(S), \A x \in S : f[x] = 0
  PROVE  SumOver(f, S) = 0
<1> DEFINE Bad == {s \in SUBSET S : SumOver(f, s) # 0}
<1>1. SUFFICES ASSUME Bad # {} PROVE FALSE
  OBVIOUS
<1>2. PICK s \in Bad : \A u \in Bad : u \subseteq s => u = s
  <2>1. Bad \subseteq SUBSET S
    OBVIOUS
  <2> HIDE DEF Bad
  <2> QED
    BY <1>1, <2>1, SmallestSubset
<1>3. s \subseteq S /\ IsFiniteSet(s) /\ SumOver(f, s) # 0
  BY <1>2, FS_Subset
<1>4. s # {} /\ SumOver(f, s) = f[Pick(s)] + SumOver(f, s \ {Pick(s)})
  BY <1>3, SumEquation
<1>5. Pick(s) \in s
  BY <1>4, PickInSet
<1>6. SumOver(f, s \ {Pick(s)}) = 0
  BY <1>2, <1>3, <1>5
<1> QED
  BY <1>3, <1>4, <1>5, <1>6

\* Where f's members are g's scaled by b / a within c, so is f's sum, within c for
\* each summand.
LEMMA SumsStayNear ==
  ASSUME NEW f, NEW g, NEW S, IsFiniteSet(S), NEW a \in Int, NEW b \in Int, NEW c \in Int,
         \A x \in S : f[x] \in Nat /\ g[x] \in Nat,
         \A x \in S : a * f[x] - b * g[x] <= c /\ b * g[x] - a * f[x] <= c
  PROVE  /\ a * SumOver(f, S) - b * SumOver(g, S) <= c * Cardinality(S)
         /\ b * SumOver(g, S) - a * SumOver(f, S) <= c * Cardinality(S)
<1> DEFINE Holds(s) == /\ a * SumOver(f, s) - b * SumOver(g, s) <= c * Cardinality(s)
                       /\ b * SumOver(g, s) - a * SumOver(f, s) <= c * Cardinality(s)
           Bad == {s \in SUBSET S : ~Holds(s)}
<1>1. SUFFICES ASSUME Bad # {} PROVE FALSE
  OBVIOUS
<1>2. PICK s \in Bad : \A u \in Bad : u \subseteq s => u = s
  <2>1. Bad \subseteq SUBSET S
    OBVIOUS
  <2> HIDE DEF Bad
  <2> QED
    BY <1>1, <2>1, SmallestSubset
<1>3. s \subseteq S /\ IsFiniteSet(s) /\ ~Holds(s)
  BY <1>2, FS_Subset
<1>4. s # {}
  <2>1. SUFFICES ASSUME s = {} PROVE FALSE
    OBVIOUS
  <2>2. SumOver(f, {}) = 0 /\ SumOver(g, {}) = 0 /\ Cardinality({}) = 0
    BY FS_EmptySet, SumEquation
  <2>3. a * 0 - b * 0 <= c * 0 /\ b * 0 - a * 0 <= c * 0
    OBVIOUS
  <2> QED
    BY <1>3, <2>1, <2>2, <2>3
<1> DEFINE x == Pick(s)
           r == s \ {x}
<1>5. x \in s /\ x \in S
  BY <1>3, <1>4, PickInSet
<1>6. IsFiniteSet(r) /\ r \subseteq S /\ r \subseteq s /\ r # s
  BY <1>3, <1>5, FS_Subset
<1>7. Cardinality(r) \in Nat /\ Cardinality(s) = Cardinality(r) + 1
  <2>1. Cardinality(r) = Cardinality(s) - 1 /\ Cardinality(s) \in Nat
    BY <1>3, <1>5, FS_RemoveElement, FS_CardinalityType
  <2>2. Cardinality(r) \in Nat
    BY <1>6, FS_CardinalityType
  <2> QED
    BY <2>1, <2>2
<1>8. SumOver(f, s) = f[x] + SumOver(f, r) /\ SumOver(g, s) = g[x] + SumOver(g, r)
  BY <1>3, <1>4, SumEquation
<1> HIDE DEF r, x
<1>9. SumOver(f, r) \in Nat /\ SumOver(g, r) \in Nat
  BY <1>6, SumIsNat
<1>10. Holds(r)
  BY <1>2, <1>6
<1>11. f[x] \in Nat /\ g[x] \in Nat /\ a * f[x] - b * g[x] <= c /\ b * g[x] - a * f[x] <= c
  BY <1>5
<1>12. \A u, v, y, z \in Nat, k \in Nat :
          a * u - b * v <= c /\ a * y - b * z <= c * k
             => a * (u + y) - b * (v + z) <= c * (k + 1)
  OBVIOUS
<1>13. \A u, v, y, z \in Nat, k \in Nat :
          b * v - a * u <= c /\ b * z - a * y <= c * k
             => b * (v + z) - a * (u + y) <= c * (k + 1)
  OBVIOUS
<1>14. a * (f[x] + SumOver(f, r)) - b * (g[x] + SumOver(g, r)) <= c * (Cardinality(r) + 1)
  BY <1>7, <1>9, <1>10, <1>11, <1>12
<1>15. b * (g[x] + SumOver(g, r)) - a * (f[x] + SumOver(f, r)) <= c * (Cardinality(r) + 1)
  BY <1>7, <1>9, <1>10, <1>11, <1>13
<1>16. Holds(s)
  BY <1>7, <1>8, <1>14, <1>15
<1> HIDE DEF Holds
<1> QED
  BY <1>3, <1>16

(***************************************************************************)
(* What the cost tracker keeps true                                        *)
(***************************************************************************)
\* A number for each of finitely many models.
Tally(f) == f \in [DOMAIN f -> Nat] /\ IsFiniteSet(DOMAIN f)

\* A model's prompt tokens are counted with its inferences.
SeriesInv ==
    /\ Tally(counter) /\ Tally(tokens.prompt)
    /\ DOMAIN tokens = {"prompt", "completion"}
    /\ DOMAIN tokens.prompt = DOMAIN counter
    /\ \A m \in DOMAIN counter : counter[m] <= tokens.prompt[m]

MoneyInv == cost \in Nat /\ period \in Periods

\* What the request has read, at each of its awaits.
ReadInv ==
    /\ Tally(counts) /\ DOMAIN found = {"prompt", "completion"}
    /\ step \in {"new", "counts"} => counts = Empty
    /\ step \in {"new", "counts", "prompt"} => failed = {} /\ found.prompt = Empty
    /\ step = "prompt" =>
          reset \/ \A m \in DOMAIN counts : m \in DOMAIN counter /\ counts[m] <= counter[m]
    /\ step \in {"completion", "done"} =>
          IF "prompt" \in failed THEN found.prompt = Empty
          ELSE reset \/ \A m \in DOMAIN counts : counts[m] <= At(found.prompt, m)

ReportInv ==
    step = "done" =>
        IF DOMAIN counts = {} THEN lines = Estimated
        ELSE lines = [m \in DOMAIN counts |-> Metered(m, found)]

CostInv == SeriesInv /\ MoneyInv /\ ReadInv /\ ReportInv

LEMMA EmptyIsTally == Tally(Empty) /\ DOMAIN Empty = {}
<1>1. DOMAIN Empty = {} /\ Empty \in [{} -> Nat]
  BY DEF Empty
<1> QED
  BY <1>1, FS_EmptySet DEF Tally

LEMMA WithIsTally ==
  ASSUME NEW f, Tally(f), NEW m, NEW v \in Nat
  PROVE  Tally(With(f, m, v)) /\ DOMAIN With(f, m, v) = DOMAIN f \union {m}
<1>1. IsFiniteSet(DOMAIN f \union {m})
  BY FS_AddElement DEF Tally
<1> QED
  BY <1>1 DEF With, Tally

LEMMA ResetIsTally ==
  ASSUME NEW f, Tally(f), NEW m
  PROVE  Tally([f EXCEPT ![m] = 0]) /\ DOMAIN [f EXCEPT ![m] = 0] = DOMAIN f
  BY DEF Tally

LEMMA AtIsNat == ASSUME NEW f, Tally(f), NEW m PROVE At(f, m) \in Nat
  BY DEF At, Tally

LEMMA CostInit == Init => CostInv
<1> SUFFICES ASSUME Init PROVE CostInv
  OBVIOUS
<1>1. SeriesInv
  BY EmptyIsTally DEF Init, SeriesInv
<1>2. MoneyInv
  BY DEF Init, MoneyInv
<1>3. ReadInv
  BY EmptyIsTally DEF Init, ReadInv
<1>4. ReportInv
  BY DEF Init, ReportInv
<1> QED
  BY <1>1, <1>2, <1>3, <1>4 DEF CostInv

\* The entries of an answer add up to a cost.
LEMMA AnswerAddsUp ==
  ASSUME NEW answer \in Answers, NEW pods
  PROVE  /\ SumFunctionOnSet(answer.value, Entries(answer, pods)) \in Nat
         /\ PodCosts(answer, pods) \in {0, SumFunctionOnSet(answer.value, Entries(answer, pods))}
<1>1. PICK named \in SUBSET (Windows \X Pods) : answer \in [value : [named -> Costs], garbled : SUBSET named]
  BY DEF Answers
<1>2. answer.value \in [named -> Costs]
  BY <1>1
<1>3. Entries(answer, pods) \subseteq named
  BY <1>2 DEF Entries
<1>4. IsFiniteSet(Windows \X Pods)
  BY FS_Product, CostConstants
<1>5. IsFiniteSet(Entries(answer, pods))
  BY <1>1, <1>3, <1>4, FS_Subset
<1>6. \A e \in Entries(answer, pods) : answer.value[e] \in Nat
  BY <1>2, <1>3, CostConstants
<1>7. SumOver(answer.value, Entries(answer, pods)) \in Nat
  BY <1>5, <1>6, SumIsNat
<1> QED
  BY <1>7, SumIsSumOver DEF PodCosts

LEMMA ServeKeeps == ASSUME CostInv, NEW m \in Models, Serve(m) PROVE CostInv'
<1> USE DEF CostInv
<1>1. At(counter, m) + 1 \in Nat /\ At(tokens.prompt, m) + 1 \in Nat
  BY AtIsNat DEF SeriesInv
<1>2. counter' = With(counter, m, At(counter, m) + 1)
  BY DEF Serve
<1>3. /\ tokens'.prompt = With(tokens.prompt, m, At(tokens.prompt, m) + 1)
      /\ DOMAIN tokens' = {"prompt", "completion"}
  BY DEF Serve
<1>4. /\ Tally(counter') /\ DOMAIN counter' = DOMAIN counter \union {m}
      /\ Tally(tokens'.prompt) /\ DOMAIN tokens'.prompt = DOMAIN counter \union {m}
  <2>1. Tally(counter) /\ Tally(tokens.prompt) /\ DOMAIN tokens.prompt = DOMAIN counter
    BY DEF SeriesInv
  <2> DEFINE c == With(counter, m, At(counter, m) + 1)
             p == With(tokens.prompt, m, At(tokens.prompt, m) + 1)
  <2>2. Tally(c) /\ DOMAIN c = DOMAIN counter \union {m}
    BY <1>1, <2>1, WithIsTally, Zenon
  <2>3. Tally(p) /\ DOMAIN p = DOMAIN tokens.prompt \union {m}
    BY <1>1, <2>1, WithIsTally, Zenon
  <2> HIDE DEF c, p
  <2>4. counter' = c /\ tokens'.prompt = p
    BY <1>2, <1>3 DEF c, p
  <2> QED
    BY <2>1, <2>2, <2>3, <2>4
<1>5. \A k \in DOMAIN counter' : counter'[k] <= tokens'.prompt[k]
  BY <1>2, <1>3, <1>4 DEF SeriesInv, With, At, Tally
<1>6. SeriesInv'
  BY <1>3, <1>4, <1>5 DEF SeriesInv, Tally
<1>7. \A k \in DOMAIN counter : k \in DOMAIN counter' /\ counter[k] <= counter'[k]
  BY <1>2, <1>4 DEF SeriesInv, With, At, Tally
<1>8. ReadInv'
  <2>1. UNCHANGED <<step, reset, counts, found, failed>>
    BY DEF Serve, metrics
  <2>2. \A k \in DOMAIN counts : k \in DOMAIN counter /\ counts[k] <= counter[k]
           => k \in DOMAIN counter' /\ counts[k] <= counter'[k]
    BY <1>4, <1>7 DEF ReadInv, SeriesInv, Tally
  <2> QED
    BY <2>1, <2>2 DEF ReadInv, Tally, At
<1>9. MoneyInv'
  BY DEF Serve, MoneyInv
<1>10. ReportInv'
  BY DEF Serve, Running, ReportInv
<1> QED
  BY <1>6, <1>8, <1>9, <1>10

LEMMA RestartKeeps == ASSUME CostInv, NEW m \in Models, Restart(m) PROVE CostInv'
<1> USE DEF CostInv
<1>1. counter' = [counter EXCEPT ![m] = 0]
  BY DEF Restart
<1>2. /\ tokens'.prompt = [tokens.prompt EXCEPT ![m] = 0]
      /\ DOMAIN tokens' = {"prompt", "completion"}
  BY DEF Restart, SeriesInv
<1>3. SeriesInv'
  <2>1. Tally(counter) /\ Tally(tokens.prompt) /\ DOMAIN tokens.prompt = DOMAIN counter
    BY DEF SeriesInv
  <2>2. Tally(counter') /\ DOMAIN counter' = DOMAIN counter
    BY <1>1, <2>1, ResetIsTally
  <2>3. Tally(tokens'.prompt) /\ DOMAIN tokens'.prompt = DOMAIN tokens.prompt
    <3>1. Tally([tokens.prompt EXCEPT ![m] = 0])
          /\ DOMAIN [tokens.prompt EXCEPT ![m] = 0] = DOMAIN tokens.prompt
      BY <2>1, ResetIsTally, Zenon
    <3> QED
      BY <1>2, <3>1
  <2>4. \A k \in DOMAIN counter : counter'[k] <= tokens'.prompt[k]
    <3>1. \A k \in DOMAIN counter : counter[k] <= tokens.prompt[k]
      BY DEF SeriesInv
    <3> QED
      BY <1>1, <1>2, <2>1, <3>1 DEF Tally
  <2> QED
    BY <1>2, <2>1, <2>2, <2>3, <2>4 DEF SeriesInv
<1>4. ReadInv'
  <2>1. /\ UNCHANGED <<step, counts, found, failed>>
        /\ reset' = (reset \/ step # "new")
    BY DEF Restart, metrics
  <2> QED
    BY <2>1 DEF ReadInv, Tally, At
<1>5. MoneyInv'
  BY DEF Restart, MoneyInv
<1>6. ReportInv'
  BY DEF Restart, Running, ReportInv
<1> QED
  BY <1>3, <1>4, <1>5, <1>6

LEMMA AskKeeps ==
  ASSUME CostInv, NEW answer \in Answers, AskBreakdown(answer) \/ AskCosts(answer)
  PROVE  CostInv'
<1> USE DEF CostInv
<1>1. SeriesInv'
  BY DEF AskBreakdown, AskCosts, world, SeriesInv, Tally
<1>2. MoneyInv'
  BY AnswerAddsUp DEF AskBreakdown, AskCosts, MoneyInv
<1>3. ReadInv'
  BY DEF AskBreakdown, AskCosts, metrics, ReadInv, Tally, At
<1>4. ReportInv'
  BY DEF AskBreakdown, AskCosts, ReportInv
<1> QED
  BY <1>1, <1>2, <1>3, <1>4

LEMMA AwayKeeps == ASSUME CostInv, OpenCostAway PROVE CostInv'
<1> USE DEF CostInv, OpenCostAway
<1>1. SeriesInv'
  BY DEF world, SeriesInv, Tally
<1>2. MoneyInv'
  BY DEF MoneyInv
<1>3. ReadInv'
  BY DEF metrics, ReadInv, Tally, At
<1>4. ReportInv'
  BY DEF ReportInv
<1> QED
  BY <1>1, <1>2, <1>3, <1>4

LEMMA CountsKeep == ASSUME CostInv, QueryCounts PROVE CostInv'
<1> USE DEF CostInv, QueryCounts
<1>1. SeriesInv'
  BY DEF world, SeriesInv, Tally
<1>2. MoneyInv'
  BY DEF MoneyInv
<1>3. ReadInv'
  BY DEF world, ReadInv, SeriesInv, Tally, At
<1>4. ReportInv'
  BY DEF ReportInv
<1> QED
  BY <1>1, <1>2, <1>3, <1>4

LEMMA CountsFailKeeps == ASSUME CostInv, QueryCountsFails PROVE CostInv'
<1> USE DEF CostInv, QueryCountsFails
<1>1. SeriesInv'
  BY DEF world, SeriesInv, Tally
<1>2. MoneyInv'
  BY DEF MoneyInv
<1>3. UNCHANGED <<counts, found, failed, reset>> /\ counts = Empty /\ failed = {}
  BY DEF metrics, ReadInv
<1>4. ReadInv'
  BY <1>3, EmptyIsTally DEF ReadInv, Tally, At
<1>5. ReportInv'
  BY <1>3, EmptyIsTally DEF ReportInv, Estimated, EstimatedCount
<1> QED
  BY <1>1, <1>2, <1>4, <1>5

LEMMA TokensKeep ==
  ASSUME CostInv, NEW type \in {"prompt", "completion"}, QueryTokens(type) \/ QueryTokensFails(type)
  PROVE  CostInv'
<1> USE DEF CostInv
<1> DEFINE tok == found'
<1>1. Finish(type, tok) /\ UNCHANGED counts
  BY DEF QueryTokens, QueryTokensFails, Finish
<1>2. SeriesInv'
  BY <1>1 DEF Finish, world, SeriesInv, Tally
<1>3. MoneyInv'
  BY <1>1 DEF Finish, MoneyInv
<1>4. ReportInv'
  BY <1>1 DEF Finish, After, ReportInv, Estimated, EstimatedCount, Metered, Priced
<1>5. ReadInv'
  <2>1. CASE type = "prompt" /\ QueryTokens(type)
    <3>1. /\ step = "prompt" /\ step' = "completion" /\ found'.prompt = tokens.prompt
          /\ DOMAIN found' = {"prompt", "completion"} /\ UNCHANGED <<reset, counts, failed>>
      BY <2>1 DEF QueryTokens, Finish, After, ReadInv
    <3>2. \A m \in DOMAIN counts : m \in DOMAIN counter /\ counts[m] <= counter[m]
             => counts[m] <= At(found'.prompt, m)
      BY <3>1 DEF SeriesInv, ReadInv, Tally, At
    <3> QED
      BY <3>1, <3>2 DEF ReadInv, Tally
  <2>2. CASE type = "completion" /\ QueryTokens(type)
    <3>1. /\ step = "completion" /\ step' = "done" /\ found'.prompt = found.prompt
          /\ DOMAIN found' = {"prompt", "completion"} /\ UNCHANGED <<reset, counts, failed>>
      BY <2>2 DEF QueryTokens, Finish, After, ReadInv
    <3> QED
      BY <3>1 DEF ReadInv, Tally
  <2>3. CASE QueryTokensFails(type)
    <3>1. /\ step = type /\ step' = After(type) /\ failed' = failed \union {type}
          /\ UNCHANGED <<reset, counts, found>>
      BY <2>3 DEF QueryTokensFails, Finish
    <3> QED
      BY <3>1 DEF ReadInv, Tally, After, At
  <2> QED
    BY <2>1, <2>2, <2>3
<1> QED
  BY <1>2, <1>3, <1>4, <1>5

LEMMA RestKeeps == ASSUME CostInv, Broken \/ UNCHANGED vars PROVE CostInv'
<1> USE DEF CostInv
<1>1. CASE Broken
  <2>1. SeriesInv'
    BY <1>1 DEF Broken, world, SeriesInv, Tally
  <2>2. MoneyInv'
    BY <1>1 DEF Broken, MoneyInv
  <2>3. ReadInv'
    BY <1>1 DEF Broken, metrics, ReadInv, Tally
  <2>4. ReportInv'
    BY <1>1 DEF Broken, ReportInv
  <2> QED
    BY <2>1, <2>2, <2>3, <2>4
<1>2. CASE UNCHANGED vars
  <2>1. SeriesInv'
    BY <1>2 DEF vars, SeriesInv, Tally
  <2>2. MoneyInv'
    BY <1>2 DEF vars, MoneyInv
  <2>3. ReadInv'
    BY <1>2 DEF vars, ReadInv, Tally, At
  <2>4. ReportInv'
    BY <1>2 DEF vars, ReportInv, Estimated, EstimatedCount, Metered, Priced
  <2> QED
    BY <2>1, <2>2, <2>3, <2>4
<1> QED
  BY <1>1, <1>2

LEMMA CostInductive == Spec => []CostInv
<1>1. CostInv /\ [Next]_vars => CostInv'
  <2> SUFFICES ASSUME CostInv, [Next]_vars PROVE CostInv'
    OBVIOUS
  <2>1. CASE UNCHANGED vars
    BY <2>1, RestKeeps
  <2>2. ASSUME NEW m \in Models, Serve(m) \/ Restart(m) PROVE CostInv'
    BY <2>2, ServeKeeps, RestartKeeps
  <2>3. ASSUME NEW answer \in Answers, AskBreakdown(answer) \/ AskCosts(answer) PROVE CostInv'
    BY <2>3, AskKeeps
  <2>4. ASSUME NEW type \in {"prompt", "completion"}, QueryTokens(type) \/ QueryTokensFails(type)
        PROVE  CostInv'
    BY <2>4, TokensKeep
  <2>5. CASE OpenCostAway \/ QueryCounts \/ QueryCountsFails \/ Broken
    BY <2>5, AwayKeeps, CountsKeep, CountsFailKeeps, RestKeeps
  <2> QED
    BY <2>1, <2>2, <2>3, <2>4, <2>5 DEF Next
<1> QED
  BY CostInit, <1>1, PTL DEF Spec

(***************************************************************************)
(* The arithmetic of a report                                              *)
(***************************************************************************)
LEMMA RoundBounds ==
  ASSUME NEW n \in Nat, NEW d \in Nat, d > 0
  PROVE  /\ Round(n, d) \in Nat
         /\ 2 * d * Round(n, d) <= 2 * n + d
         /\ 2 * n + d < 2 * d * Round(n, d) + 2 * d
  BY DEF Round

LEMMA SumFunctionIsSumOver == \A f : SumFunction(f) = SumOver(f, DOMAIN f)
  BY SumIsSumOver DEF SumFunction

\* A model's share of the cost and its price, rounded one by one.
LEMMA PricedBounds ==
  ASSUME cost \in Nat, NEW n \in Nat, NEW all \in Nat, n <= all
  PROVE  LET p == Priced(n, all) IN
         /\ p.cost \in Nat /\ p.price \in Nat
         /\ all = 0 => p.cost = 0
         /\ all > 0 => 2 * all * p.cost - 2 * cost * n <= all /\ 2 * cost * n - 2 * all * p.cost <= all
         /\ Near(p.price * n, p.cost, n + 1)
<1> DEFINE c == Round(cost * n, all)
           q == Round(cost * n, all * n)
<1>1. CASE all = 0
  <2>1. n = 0
    BY <1>1
  <2>2. Priced(n, all).cost = 0 /\ Priced(n, all).price = 0
    BY <1>1, <2>1 DEF Priced
  <2> QED
    BY <1>1, <2>1, <2>2 DEF Near
<1>2. CASE all > 0
  <2>1. cost * n \in Nat /\ all * n \in Nat
    OBVIOUS
  <2>2. c \in Nat /\ 2 * all * c <= 2 * (cost * n) + all /\ 2 * (cost * n) + all < 2 * all * c + 2 * all
    BY <1>2, <2>1, RoundBounds
  <2>3. CASE n = 0
    <3>1. cost * n = 0
      BY <2>3
    <3>2. c = 0
      BY <1>2, <2>2, <3>1
    <3>3. Priced(n, all).cost = 0 /\ Priced(n, all).price = 0
      BY <1>2, <2>3, <3>2 DEF Priced
    <3> QED
      BY <1>2, <2>3, <3>3 DEF Near
  <2>4. CASE n > 0
    <3>1. all * n > 0
      BY <1>2, <2>4
    <3>2. /\ q \in Nat
          /\ 2 * (all * n) * q <= 2 * (cost * n) + all * n
          /\ 2 * (cost * n) + all * n < 2 * (all * n) * q + 2 * (all * n)
      BY <2>1, <3>1, RoundBounds
    <3>3. Priced(n, all).cost = c /\ Priced(n, all).price = q
      BY <1>2, <2>4 DEF Priced
    <3> HIDE DEF c, q
    <3>4. q * n \in Nat /\ 2 * (all * n) * q = all * (2 * (q * n))
      BY <3>2
    <3>5. all * (2 * (q * n - c)) < all * (n + 2)
      BY <2>2, <3>2, <3>4
    <3>6. all * (2 * (c - q * n)) < all * (n + 2)
      BY <2>2, <3>2, <3>4
    <3>7. 2 * (q * n - c) <= n + 1 /\ 2 * (c - q * n) <= n + 1
      <4>1. \A u, v \in Int : all * u < all * v => u < v
        BY <1>2
      <4>2. 2 * (q * n - c) < n + 2 /\ 2 * (c - q * n) < n + 2
        BY <2>2, <3>4, <3>5, <3>6, <4>1
      <4> QED
        BY <2>2, <3>4, <4>2
    <3> QED
      BY <1>2, <2>2, <3>2, <3>3, <3>7 DEF Near
  <2> QED
    BY <2>3, <2>4
<1> QED
  BY <1>1, <1>2

\* The estimate is one line of the whole cost.
LEMMA EstimateAddsUp ==
  ASSUME MoneyInv, lines = Estimated
  PROVE  MoneyAddsUp
<1> DEFINE hours == Minutes(period)
<1>1. hours \in Nat
  <2>1. period.n \in Nat
    BY CostConstants DEF MoneyInv
  <2>2. period.n * 24 * 60 \in Nat /\ period.n * 60 \in Nat /\ 24 * 60 \in Nat
    BY <2>1
  <2> QED
    BY <2>1, <2>2, Zenon DEF Minutes
<1> HIDE DEF hours
<1>2. EstimatedCount \in Nat /\ (EstimatedCount = 0 => hours = 0)
  BY <1>1 DEF EstimatedCount, hours
<1>3. PICK line, name :
         /\ lines = [m \in {name} |-> line]
         /\ line.cost = cost /\ line.count \in Nat /\ line.price \in Nat
         /\ \/ line.count > 0 /\ line.price = Round(cost, line.count)
            \/ line.count = 0 /\ line.price = 0 /\ cost = 0
            \/ line.count = 0 /\ line.price = 0 /\ name = "estimated" /\ hours = 0
  <2>1. CASE cost = 0
    <3>1. lines = [m \in {"unknown"} |-> Line(0, 0, 0, 0, 0)]
      BY <2>1 DEF Estimated
    <3> QED
      BY <2>1, <3>1 DEF Line
  <2>2. CASE cost # 0
    <3> DEFINE price == IF EstimatedCount > 0 THEN Round(cost, EstimatedCount) ELSE 0
    <3>1. lines = [m \in {"estimated"} |-> Line(cost, EstimatedCount, price, 0, 0)]
      BY <2>2 DEF Estimated
    <3>2. price \in Nat
      BY <1>2, RoundBounds DEF MoneyInv
    <3> HIDE DEF EstimatedCount
    <3> QED
      BY <1>2, <2>2, <3>1, <3>2 DEF Line
  <2> QED
    BY <2>1, <2>2
<1>4. DOMAIN lines = {name} /\ lines[name] = line
  BY <1>3
<1>5. Summary.cost = cost /\ Cardinality(DOMAIN lines) = 1
  <2> DEFINE f == [m \in DOMAIN lines |-> lines[m].cost]
  <2>1. DOMAIN f = {name} /\ f[name] = cost /\ IsFiniteSet({name}) /\ Cardinality({name}) = 1
    BY <1>3, <1>4, FS_Singleton
  <2> HIDE DEF f
  <2>2. SumOver(f, {}) = 0 /\ SumOver(f, {name}) = f[Pick({name})] + SumOver(f, {name} \ {Pick({name})})
    BY <2>1, FS_EmptySet, SumEquation
  <2>3. Pick({name}) = name /\ {name} \ {name} = {}
    BY PickInSet
  <2>4. SumOver(f, {name}) = cost
    BY <2>1, <2>2, <2>3 DEF MoneyInv
  <2>5. Summary.cost = SumOver(f, DOMAIN f)
    BY SumFunctionIsSumOver DEF Summary, f
  <2> QED
    BY <1>4, <2>1, <2>4, <2>5
<1>6. Near(Summary.cost, cost, Cardinality(DOMAIN lines))
  BY <1>5 DEF Near, MoneyInv
<1>7. \/ Near(line.price * line.count, line.cost, line.count + 1)
      \/ name = "estimated" /\ hours = 0 /\ line.price = 0
  <2>1. CASE line.count > 0 /\ line.price = Round(cost, line.count)
    <3> DEFINE n == line.count
               q == line.price
    <3>1. 2 * n * q <= 2 * cost + n /\ 2 * cost + n < 2 * n * q + 2 * n
      BY <1>3, <2>1, RoundBounds DEF MoneyInv
    <3>2. q * n \in Nat /\ 2 * n * q = 2 * (q * n)
      BY <1>3
    <3> QED
      BY <1>3, <3>1, <3>2 DEF Near, MoneyInv
  <2>2. CASE line.count = 0 /\ line.price = 0 /\ cost = 0
    BY <1>3, <2>2 DEF Near
  <2> QED
    BY <1>3, <2>1, <2>2
<1> QED
  BY <1>4, <1>6, <1>7 DEF MoneyAddsUp, hours

\* The shares of the models counted add up to the cost.
LEMMA SharesAddUp ==
  ASSUME MoneyInv, Tally(counts), lines = [m \in DOMAIN counts |-> Metered(m, found)]
  PROVE  MoneyAddsUp
<1> DEFINE D == DOMAIN counts
           N == SumOver(counts, D)
           C == [m \in D |-> lines[m].cost]
<1>1. IsFiniteSet(D) /\ (\A m \in D : counts[m] \in Nat) /\ cost \in Nat
  BY DEF Tally, MoneyInv
<1> HIDE DEF D
<1>2. N \in Nat /\ \A m \in D : counts[m] <= N
  BY <1>1, SumIsNat, SumBoundsParts
<1>3. SumFunction(counts) = N
  BY SumFunctionIsSumOver DEF D
<1> HIDE DEF N
<1>4. DOMAIN lines = D /\ DOMAIN C = D /\ \A m \in D : C[m] = lines[m].cost
  BY DEF D
<1>5. \A m \in D : /\ lines[m].cost = Priced(counts[m], N).cost
                    /\ lines[m].price = Priced(counts[m], N).price
                    /\ lines[m].count = counts[m]
  BY <1>3 DEF D, Metered, Line
<1> HIDE DEF C
<1>6. \A m \in D :
         /\ C[m] \in Nat
         /\ N = 0 => C[m] = 0 /\ counts[m] = 0
         /\ N > 0 => 2 * N * C[m] - 2 * cost * counts[m] <= N /\ 2 * cost * counts[m] - 2 * N * C[m] <= N
         /\ Near(lines[m].price * lines[m].count, lines[m].cost, lines[m].count + 1)
  <2> SUFFICES ASSUME NEW m \in D
               PROVE  /\ C[m] \in Nat
                      /\ N = 0 => C[m] = 0 /\ counts[m] = 0
                      /\ N > 0 => 2 * N * C[m] - 2 * cost * counts[m] <= N /\ 2 * cost * counts[m] - 2 * N * C[m] <= N
                      /\ Near(lines[m].price * lines[m].count, lines[m].cost, lines[m].count + 1)
    OBVIOUS
  <2> DEFINE p == Priced(counts[m], N)
  <2>1. /\ p.cost \in Nat /\ p.price \in Nat
        /\ N = 0 => p.cost = 0
        /\ N > 0 => 2 * N * p.cost - 2 * cost * counts[m] <= N /\ 2 * cost * counts[m] - 2 * N * p.cost <= N
        /\ Near(p.price * counts[m], p.cost, counts[m] + 1)
    BY <1>1, <1>2, PricedBounds
  <2>2. C[m] = p.cost /\ lines[m].cost = p.cost /\ lines[m].price = p.price /\ lines[m].count = counts[m]
    BY <1>4, <1>5
  <2> HIDE DEF p
  <2> QED
    BY <1>1, <1>2, <2>1, <2>2
<1>7. Summary.cost = SumOver(C, D)
  <2>1. C = [m \in DOMAIN lines |-> lines[m].cost]
    BY <1>4 DEF C
  <2> QED
    BY <1>4, <2>1, SumFunctionIsSumOver DEF Summary
<1>8. Summary.count = N
  <2>1. counts = [m \in DOMAIN lines |-> lines[m].count]
    BY <1>4, <1>5 DEF Tally, D
  <2> QED
    BY <1>3, <2>1 DEF Summary
<1>9. SumOver(C, D) \in Nat /\ Cardinality(D) \in Nat
  BY <1>1, <1>6, SumIsNat, FS_CardinalityType
<1>10. Near(Summary.cost, cost, Cardinality(D)) \/ (Summary.cost = 0 /\ Summary.count = 0)
  <2>1. CASE N = 0
    <3>1. SumOver(C, D) = 0
      BY <1>1, <1>6, <2>1, SumOfZeros
    <3> QED
      BY <1>7, <1>8, <2>1, <3>1
  <2>2. CASE N > 0
    <3> DEFINE a == 2 * N
               b == 2 * cost
               k == Cardinality(D)
               s == SumOver(C, D)
    <3>1. a \in Int /\ b \in Int /\ N \in Int
      BY <1>1, <1>2
    <3>2. \A m \in D : C[m] \in Nat /\ counts[m] \in Nat
      BY <1>1, <1>6
    <3>3. \A m \in D : a * C[m] - b * counts[m] <= N /\ b * counts[m] - a * C[m] <= N
      BY <1>6, <2>2
    <3> HIDE DEF a, b
    <3>4. a * SumOver(C, D) - b * SumOver(counts, D) <= N * Cardinality(D)
          /\ b * SumOver(counts, D) - a * SumOver(C, D) <= N * Cardinality(D)
      BY <1>1, <3>1, <3>2, <3>3, SumsStayNear
    <3> HIDE DEF s, k
    <3>5. a * s - b * N <= N * k /\ b * N - a * s <= N * k /\ s \in Nat /\ k \in Nat
      BY <1>9, <3>4 DEF N, s, k
    <3>6. N * (2 * (s - cost)) <= N * k /\ N * (2 * (cost - s)) <= N * k
      BY <1>1, <1>2, <3>5 DEF a, b
    <3>7. \A u, v \in Int : N * u <= N * v => u <= v
      BY <1>2, <2>2
    <3>8. 2 * (s - cost) <= k /\ 2 * (cost - s) <= k
      BY <1>1, <3>5, <3>6, <3>7
    <3> QED
      BY <1>7, <3>8 DEF Near, s, k
  <2> QED
    BY <1>2, <2>1, <2>2
<1> QED
  BY <1>4, <1>6, <1>10 DEF MoneyAddsUp

(***************************************************************************)
(* The theorems                                                            *)
(***************************************************************************)
\* The report of one request adds up, for any number of pods, windows and models:
\* the sum of the rounded shares is the cost within half a micro-dollar per model
\* and each price times its count is its cost within the rounding.
THEOREM MoneyAddsUpHolds == Spec => []MoneyAddsUp
<1>1. CostInv => MoneyAddsUp
  <2> SUFFICES ASSUME CostInv, step = "done" PROVE MoneyAddsUp
    BY DEF MoneyAddsUp
  <2>1. MoneyInv /\ Tally(counts)
    BY DEF CostInv, ReadInv
  <2>2. lines = Estimated \/ lines = [m \in DOMAIN counts |-> Metered(m, found)]
    BY DEF CostInv, ReportInv
  <2> QED
    BY <2>1, <2>2, EstimateAddsUp, SharesAddUp
<1> QED
  BY CostInductive, <1>1, PTL

\* While inferences go on between the three queries, a report never shows fewer
\* prompt tokens than inferences for a model, except after a restart or where the
\* prompt query failed, and then it shows none.
THEOREM TokensCoverCountsHolds == Spec => []TokensCoverCounts
<1>1. CostInv => TokensCoverCounts
  <2> SUFFICES ASSUME CostInv, step = "done", counts # Empty
               PROVE  IF "prompt" \in failed THEN \A m \in DOMAIN lines : lines[m].prompt = 0
                      ELSE reset \/ \A m \in DOMAIN lines : lines[m].prompt >= lines[m].count
    BY DEF TokensCoverCounts
  <2>1. counts \in [DOMAIN counts -> Nat]
    BY DEF CostInv, ReadInv, Tally
  <2>2. DOMAIN counts # {}
    BY <2>1 DEF Empty
  <2>3. lines = [m \in DOMAIN counts |-> Metered(m, found)]
    BY <2>2 DEF CostInv, ReportInv
  <2>4. DOMAIN lines = DOMAIN counts /\ \A m \in DOMAIN counts :
           lines[m].prompt = At(found.prompt, m) /\ lines[m].count = counts[m]
    BY <2>3 DEF Metered, Line
  <2>5. IF "prompt" \in failed THEN found.prompt = Empty
        ELSE reset \/ \A m \in DOMAIN counts : counts[m] <= At(found.prompt, m)
    BY DEF CostInv, ReadInv
  <2>6. found.prompt = Empty => \A m : At(found.prompt, m) = 0
    BY EmptyIsTally DEF At
  <2>7. \A m \in DOMAIN counts : counts[m] <= At(found.prompt, m) => At(found.prompt, m) >= counts[m]
    OBVIOUS
  <2> QED
    BY <2>4, <2>5, <2>6, <2>7
<1> QED
  BY CostInductive, <1>1, PTL
=============================================================================
