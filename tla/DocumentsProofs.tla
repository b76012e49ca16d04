-------------------------- MODULE DocumentsProofs --------------------------
(***************************************************************************)
(* Theorems about Documents, for any uploads, deletes and texts, any chunk *)
(* size and overlap.  The two stores are tied together through the         *)
(* handlers: what a handler has reached says what the stores hold.  What   *)
(* the rows hold is ChunkText of the document's text, and the lemmas about *)
(* the chunker follow a text through it, from the strip of a piece to the  *)
(* levels of separators.                                                   *)
(***************************************************************************)
EXTENDS Documents, SequenceTheorems, WellFoundedInduction, TLAPS

(***************************************************************************)
(* Least numbers, and functions defined by recursion over 0..n             *)
(***************************************************************************)
\* A set of naturals that is not empty has a smallest member: the form in which
\* induction is used here.
LEMMA Smallest ==
  ASSUME NEW T, T \subseteq Nat, T # {}
  PROVE  \E m \in T : \A k \in T : m <= k
<1>1. PICK m \in T : \A k \in T : ~(<<k, m>> \in OpToRel(<, Nat))
  BY NatLessThanWellFounded, WFMin
<1>2. ASSUME NEW k \in T, k < m PROVE FALSE
  BY <1>1, <1>2 DEF OpToRel
<1> QED
  BY <1>2

\* What holds at 0 and is passed on by every step holds up to n.
LEMMA Steps ==
  ASSUME NEW n \in Nat, NEW Good, 0 \in Good, \A i \in 1..n : i - 1 \in Good => i \in Good
  PROVE  \A i \in 0..n : i \in Good
<1> DEFINE Bad == (0..n) \ Good
<1>1. SUFFICES ASSUME Bad # {} PROVE FALSE
  OBVIOUS
<1>2. PICK m \in Bad : \A k \in Bad : m <= k
  <2>1. Bad \subseteq Nat
    OBVIOUS
  <2> HIDE DEF Bad
  <2> QED
    BY <1>1, <2>1, Smallest
<1>3. m \in 1..n /\ m - 1 \notin Bad /\ m - 1 \in 0..n
  BY <1>2
<1> QED
  BY <1>2, <1>3

\* The community modules' Min and Max of a set of naturals.
LEMMA MinIsLeast ==
  ASSUME NEW S, S \subseteq Nat, S # {}
  PROVE  Min(S) \in S /\ \A x \in S : Min(S) <= x
<1>1. \E m \in S : \A k \in S : m <= k
  BY Smallest, Zenon
<1> QED
  BY <1>1 DEF Min

LEMMA MaxIsGreatest ==
  ASSUME NEW n \in Nat, NEW S, S \subseteq 0..n, S # {}
  PROVE  Max(S) \in S /\ \A x \in S : x <= Max(S)
<1> DEFINE T == {n - x : x \in S}
<1>1. T \subseteq Nat /\ T # {}
  <2>1. PICK x \in S : TRUE
    OBVIOUS
  <2>2. n - x \in T
    BY <2>1
  <2> QED
    BY <2>2
<1>2. PICK m \in T : \A k \in T : m <= k
  <2> HIDE DEF T
  <2> QED
    BY <1>1, Smallest
<1>3. PICK x \in S : m = n - x
  BY <1>2
<1>4. ASSUME NEW y \in S PROVE y <= x
  <2>1. n - y \in T
    OBVIOUS
  <2>2. m <= n - y
    BY <1>2, <2>1
  <2> QED
    BY <1>3, <2>2
<1>5. \E z \in S : \A y \in S : z >= y
  BY <1>4
<1> QED
  BY <1>5 DEF Max

\* A function may be defined by recursion over 0..n.
Recursive(f, n, V, b, g) ==
    f \in [0..n -> V] /\ f[0] = b /\ \A i \in 1..n : f[i] = g[i][f[i - 1]]

LEMMA RecursiveFunction ==
  ASSUME NEW n \in Nat, NEW V, NEW b \in V, NEW g \in [1..n -> [V -> V]]
  PROVE  \E f : Recursive(f, n, V, b, g)
<1> DEFINE Good == {m \in 0..n : \E f \in [0..m -> V] :
                       f[0] = b /\ \A i \in 1..m : f[i] = g[i][f[i - 1]]}
<1>1. 0 \in Good
  <2> DEFINE f == [i \in 0..0 |-> b]
  <2>1. f \in [0..0 -> V] /\ f[0] = b /\ \A i \in 1..0 : f[i] = g[i][f[i - 1]]
    OBVIOUS
  <2> HIDE DEF f
  <2> QED
    BY <2>1
<1>2. ASSUME NEW m \in 1..n, m - 1 \in Good PROVE m \in Good
  <2>1. PICK f \in [0..(m - 1) -> V] :
           f[0] = b /\ \A i \in 1..(m - 1) : f[i] = g[i][f[i - 1]]
    BY <1>2
  <2> DEFINE h == [i \in 0..m |-> IF i = m THEN g[m][f[m - 1]] ELSE f[i]]
  <2>2. f[m - 1] \in V /\ g[m][f[m - 1]] \in V
    <3>1. m - 1 \in 0..(m - 1)
      OBVIOUS
    <3>2. f[m - 1] \in V
      BY <3>1
    <3>3. g[m] \in [V -> V]
      OBVIOUS
    <3> QED
      BY <3>2, <3>3
  <2>3. h \in [0..m -> V]
    BY <2>2
  <2>4. h[0] = b
    BY <2>1
  <2>5. ASSUME NEW i \in 1..m PROVE h[i] = g[i][h[i - 1]]
    <3>1. CASE i = m
      BY <3>1
    <3>2. CASE i # m
      <4>1. i \in 1..(m - 1) /\ i \in 0..m /\ i - 1 \in 0..m /\ i - 1 # m
        BY <3>2
      <4>2. h[i] = f[i] /\ h[i - 1] = f[i - 1]
        BY <3>2, <4>1
      <4> QED
        BY <2>1, <4>1, <4>2
    <3> QED
      BY <3>1, <3>2
  <2> HIDE DEF h
  <2>6. \E k \in [0..m -> V] : k[0] = b /\ \A i \in 1..m : k[i] = g[i][k[i - 1]]
    BY <2>3, <2>4, <2>5
  <2>7. m \in 0..n
    OBVIOUS
  <2> QED
    BY <2>6, <2>7, Zenon
<1>3. \A i \in 0..n : i \in Good
  <2> HIDE DEF Good
  <2> QED
    BY <1>1, <1>2, Steps
<1> QED
  BY <1>3 DEF Recursive

\* The equation of a function defined by recursion over 0..n.
LEMMA RecursiveEquation ==
  ASSUME NEW n \in Nat, NEW V, NEW b, NEW g, NEW f, Recursive(f, n, V, b, g)
  PROVE  f = [i \in 0..n |-> IF i = 0 THEN b ELSE g[i][f[i - 1]]]
<1>1. f = [i \in 0..n |-> f[i]]
  BY DEF Recursive
<1>2. ASSUME NEW i \in 0..n PROVE f[i] = IF i = 0 THEN b ELSE g[i][f[i - 1]]
  <2>1. CASE i = 0
    BY <2>1 DEF Recursive
  <2>2. CASE i # 0
    <3>1. i \in 1..n
      BY <2>2
    <3> QED
      BY <2>2, <3>1 DEF Recursive
  <2> QED
    BY <2>1, <2>2
<1> QED
  BY <1>1, <1>2
(***************************************************************************)
(* Sequences, texts and their letters                                      *)
(***************************************************************************)
\* c stands in a sequence.
Has(s, c) == \E i \in 1..Len(s) : s[i] = c

\* The letters: no newline and no space.
Letter == Nat \ {0}

\* Two texts show the same letters, each for the first time in the same order.
Same(a, b) == \A x, y \in Letter :
    /\ Has(a, x) <=> Has(b, x)
    /\ Leads(a, x, y) <=> Leads(b, x, y)

\* Two sequences, one after the other, hold what either holds.
LEMMA JoinHas ==
  ASSUME NEW X, NEW s \in Seq(X), NEW t \in Seq(X)
  PROVE  s \o t \in Seq(X) /\ \A c : Has(s \o t, c) <=> Has(s, c) \/ Has(t, c)
<1>1. /\ s \o t \in Seq(X)
      /\ Len(s) \in Nat /\ Len(t) \in Nat
      /\ Len(s \o t) = Len(s) + Len(t)
      /\ \A i \in 1..Len(s) + Len(t) :
            (s \o t)[i] = IF i <= Len(s) THEN s[i] ELSE t[i - Len(s)]
  BY ConcatProperties
<1>2. ASSUME NEW c, NEW i \in 1..Len(s), s[i] = c PROVE Has(s \o t, c)
  BY <1>1, <1>2 DEF Has
<1>3. ASSUME NEW c, NEW i \in 1..Len(t), t[i] = c PROVE Has(s \o t, c)
  <2>1. (s \o t)[Len(s) + i] = c /\ Len(s) + i \in 1..Len(s \o t)
    BY <1>1, <1>3
  <2> QED
    BY <2>1 DEF Has
<1>4. ASSUME NEW c, NEW i \in 1..Len(s \o t), (s \o t)[i] = c PROVE Has(s, c) \/ Has(t, c)
  <2>1. CASE i <= Len(s)
    BY <1>1, <1>4, <2>1 DEF Has
  <2>2. CASE ~(i <= Len(s))
    <3>1. i - Len(s) \in 1..Len(t) /\ t[i - Len(s)] = c
      BY <1>1, <1>4, <2>2
    <3> QED
      BY <3>1 DEF Has
  <2> QED
    BY <2>1, <2>2
<1> QED
  BY <1>1, <1>2, <1>3, <1>4 DEF Has

\* In two texts, one after the other, x leads y in the first or else, if the
\* first has no y, in the second.
LEMMA JoinLeads ==
  ASSUME NEW s \in Str, NEW t \in Str
  PROVE  \A x, y : Leads(s \o t, x, y) <=> Leads(s, x, y) \/ (~Has(s, y) /\ Leads(t, x, y))
<1>1. /\ Len(s) \in Nat /\ Len(t) \in Nat
      /\ DOMAIN s = 1..Len(s) /\ DOMAIN t = 1..Len(t)
      /\ DOMAIN (s \o t) = 1..(Len(s) + Len(t))
      /\ \A i \in 1..Len(s) + Len(t) :
            (s \o t)[i] = IF i <= Len(s) THEN s[i] ELSE t[i - Len(s)]
  BY ConcatProperties DEF Str
<1> DEFINE n == Len(s)
           m == Len(t)
<1>2. ASSUME NEW x, NEW y, Leads(s, x, y) PROVE Leads(s \o t, x, y)
  <2>1. PICK i \in 1..n : s[i] = x /\ \A j \in 1..i : s[j] # y
    BY <1>1, <1>2 DEF Leads
  <2>2. i \in 1..(n + m) /\ (s \o t)[i] = x /\ \A j \in 1..i : (s \o t)[j] # y
    BY <1>1, <2>1
  <2> QED
    BY <1>1, <2>2 DEF Leads
<1>3. ASSUME NEW x, NEW y, ~Has(s, y), Leads(t, x, y) PROVE Leads(s \o t, x, y)
  <2>1. PICK i \in 1..m : t[i] = x /\ \A j \in 1..i : t[j] # y
    BY <1>1, <1>3 DEF Leads
  <2>2. n + i \in 1..(n + m) /\ (s \o t)[n + i] = x
    BY <1>1, <2>1
  <2>3. ASSUME NEW j \in 1..(n + i) PROVE (s \o t)[j] # y
    <3>1. CASE j <= n
      BY <1>1, <1>3, <3>1 DEF Has
    <3>2. CASE ~(j <= n)
      <4>1. j - n \in 1..i /\ (s \o t)[j] = t[j - n]
        BY <1>1, <3>2
      <4> QED
        BY <2>1, <4>1
    <3> QED
      BY <3>1, <3>2
  <2> QED
    BY <1>1, <2>2, <2>3 DEF Leads
<1>4. ASSUME NEW x, NEW y, Leads(s \o t, x, y)
      PROVE  Leads(s, x, y) \/ (~Has(s, y) /\ Leads(t, x, y))
  <2>1. PICK i \in 1..(n + m) : (s \o t)[i] = x /\ \A j \in 1..i : (s \o t)[j] # y
    BY <1>1, <1>4 DEF Leads
  <2>2. CASE i <= n
    <3>1. i \in 1..n /\ s[i] = x /\ \A j \in 1..i : s[j] # y
      BY <1>1, <2>1, <2>2
    <3> QED
      BY <1>1, <3>1 DEF Leads
  <2>3. CASE ~(i <= n)
    <3>1. i - n \in 1..m /\ t[i - n] = x
      BY <1>1, <2>1, <2>3
    <3>2. ASSUME NEW j \in 1..(i - n) PROVE t[j] # y
      <4>1. n + j \in 1..i /\ (s \o t)[n + j] = t[j]
        BY <1>1, <2>3
      <4> QED
        BY <2>1, <4>1
    <3>3. ASSUME NEW j \in 1..n PROVE s[j] # y
      <4>1. j \in 1..i /\ (s \o t)[j] = s[j]
        BY <1>1, <2>3
      <4> QED
        BY <2>1, <4>1
    <3> QED
      BY <1>1, <3>1, <3>2, <3>3 DEF Has, Leads
  <2> QED
    BY <2>2, <2>3
<1> QED
  BY <1>2, <1>3, <1>4

\* What leads stands in the text, and it leads what does not.
LEMMA HasLeads ==
  ASSUME NEW s \in Str
  PROVE  \A x, y : /\ Leads(s, x, y) => Has(s, x)
                   /\ Has(s, x) /\ ~Has(s, y) => Leads(s, x, y)
<1>1. Len(s) \in Nat /\ DOMAIN s = 1..Len(s)
  BY DEF Str
<1> QED
  BY <1>1 DEF Has, Leads

\* Same texts may take each other's place in a longer one.
LEMMA SameJoin ==
  ASSUME NEW a \in Str, NEW b \in Str, NEW c \in Str, NEW d \in Str, Same(a, b), Same(c, d)
  PROVE  Same(a \o c, b \o d)
<1>1. /\ \A x : Has(a \o c, x) <=> Has(a, x) \/ Has(c, x)
      /\ \A x : Has(b \o d, x) <=> Has(b, x) \/ Has(d, x)
  BY JoinHas DEF Str
<1>2. /\ \A x, y : Leads(a \o c, x, y) <=> Leads(a, x, y) \/ (~Has(a, y) /\ Leads(c, x, y))
      /\ \A x, y : Leads(b \o d, x, y) <=> Leads(b, x, y) \/ (~Has(b, y) /\ Leads(d, x, y))
  BY JoinLeads
<1> QED
  BY <1>1, <1>2, Zenon DEF Same

\* Same is an equivalence.
LEMMA SameSelf == \A a : Same(a, a)
  BY DEF Same

LEMMA SameBack == \A a, b : Same(a, b) => Same(b, a)
  BY DEF Same

LEMMA SameThrough == \A a, b, c : Same(a, b) /\ Same(b, c) => Same(a, c)
  BY Zenon DEF Same

\* A text that only repeats the letters before it adds nothing.
LEMMA Repeats ==
  ASSUME NEW a \in Str, NEW t \in Str, \A c \in Letter : Has(t, c) => Has(a, c)
  PROVE  Same(a \o t, a)
<1>1. \A x : Has(a \o t, x) <=> Has(a, x) \/ Has(t, x)
  BY JoinHas DEF Str
<1>2. \A x, y : Leads(a \o t, x, y) <=> Leads(a, x, y) \/ (~Has(a, y) /\ Leads(t, x, y))
  BY JoinLeads
<1>3. \A x, y : /\ Leads(t, x, y) => Has(t, x)
                /\ Has(a, x) /\ ~Has(a, y) => Leads(a, x, y)
  BY HasLeads
<1> QED
  BY <1>1, <1>2, <1>3, Zenon DEF Same

\* A text without letters, such as a separator.
Blank(s) == s \in Str /\ \A k \in 1..Len(s) : ~(s[k] > 0)

LEMMA BlankHas ==
  ASSUME NEW s, Blank(s)
  PROVE  s \in Str /\ \A c \in Letter : ~Has(s, c)
BY DEF Blank, Has, Letter, Str

\* Nor does a text without letters, before or after.
LEMMA BlankAside ==
  ASSUME NEW a \in Str, NEW t, Blank(t)
  PROVE  Same(a \o t, a) /\ Same(t \o a, a)
<1>1. t \in Str /\ \A c \in Letter : ~Has(t, c)
  BY BlankHas
<1>2. Same(a \o t, a)
  BY <1>1, Repeats
<1>3. \A x : Has(t \o a, x) <=> Has(t, x) \/ Has(a, x)
  BY <1>1, JoinHas DEF Str
<1>4. \A x, y : Leads(t \o a, x, y) <=> Leads(t, x, y) \/ (~Has(t, y) /\ Leads(a, x, y))
  BY <1>1, JoinLeads
<1>5. \A x, y : Leads(t, x, y) => Has(t, x)
  BY <1>1, HasLeads
<1>6. Same(t \o a, a)
  BY <1>1, <1>3, <1>4, <1>5, Zenon DEF Same
<1> QED
  BY <1>2, <1>6

\* f has the sequences of cs joined one by one.
Joining(f, cs, X) ==
    /\ f \in [0..Len(cs) -> Seq(X)]
    /\ f[0] = <<>>
    /\ \A i \in 1..Len(cs) : f[i] = f[i - 1] \o cs[i]

LEMMA JoiningExists ==
  ASSUME NEW X, NEW cs \in Seq(Seq(X))
  PROVE  \E f : Joining(f, cs, X)
<1> DEFINE n == Len(cs)
           V == Seq(X)
           b == <<>>
           g == [i \in 1..n |-> [v \in V |-> v \o cs[i]]]
<1>1. n \in Nat /\ b \in V /\ g \in [1..n -> [V -> V]]
  <2>1. ASSUME NEW i \in 1..n, NEW v \in V PROVE v \o cs[i] \in V
    <3>1. cs[i] \in Seq(X)
      OBVIOUS
    <3> QED
      BY <3>1, JoinHas
  <2>2. g \in [1..n -> [V -> V]]
    <3> HIDE DEF n, V
    <3> QED
      BY <2>1
  <2> QED
    BY <2>2
<1>2. PICK f : Recursive(f, n, V, b, g)
  <2> HIDE DEF g, n, V, b
  <2> QED
    BY <1>1, RecursiveFunction
<1>3. ASSUME NEW i \in 1..n PROVE f[i] = f[i - 1] \o cs[i]
  <2>1. i - 1 \in 0..n
    BY <1>1
  <2>2. f[i - 1] \in V /\ f[i] = g[i][f[i - 1]]
    BY <1>2, <2>1 DEF Recursive
  <2>3. g[i] = [v \in V |-> v \o cs[i]]
    OBVIOUS
  <2> HIDE DEF g
  <2> QED
    BY <2>2, <2>3
<1>4. f \in [0..n -> Seq(X)] /\ f[0] = <<>>
  BY <1>2 DEF Recursive
<1> QED
  BY <1>3, <1>4 DEF Joining

\* FlattenSeq is the last of them.
LEMMA FlattenJoins ==
  ASSUME NEW X, NEW cs \in Seq(Seq(X)), NEW f, Joining(f, cs, X)
  PROVE  FlattenSeq(cs) = f[Len(cs)]
<1> DEFINE n == Len(cs)
           IsFlat(h) == h = [i \in 1..n |-> IF i = 1 THEN cs[i] ELSE h[i - 1] \o cs[i]]
           flat == CHOOSE h : IsFlat(h)
           Good == {i \in 0..n : i = 0 \/ flat[i] = f[i]}
<1>0. n \in Nat /\ \A i \in 1..n : cs[i] \in Seq(X)
  OBVIOUS
<1>1. CASE n = 0
  <2>1. FlattenSeq(cs) = cs /\ cs = <<>>
    BY <1>1 DEF FlattenSeq
  <2> QED
    BY <1>1, <2>1 DEF Joining
<1>2. CASE n # 0
  <2>1. FlattenSeq(cs) = flat[n]
    BY <1>2 DEF FlattenSeq
  <2>2. f[1] = cs[1]
    <3>1. 1 \in 1..n /\ 1 - 1 = 0
      BY <1>0, <1>2
    <3>2. f[1] = f[0] \o cs[1] /\ f[0] = <<>>
      BY <3>1, Zenon DEF Joining
    <3> QED
      BY <1>0, <3>1, <3>2, ConcatEmptySeq
  <2>3. \E h : IsFlat(h)
    <3> DEFINE r == [i \in 1..n |-> f[i]]
    <3> HIDE DEF n
    <3>1. ASSUME NEW i \in 1..n PROVE r[i] = IF i = 1 THEN cs[i] ELSE r[i - 1] \o cs[i]
      <4>1. CASE i = 1
        BY <2>2, <4>1
      <4>2. CASE i # 1
        <5>1. i - 1 \in 1..n
          BY <1>0, <4>2
        <5>2. r[i] = f[i] /\ r[i - 1] = f[i - 1]
          BY <5>1
        <5>3. f[i] = f[i - 1] \o cs[i]
          BY DEF Joining, n
        <5> QED
          BY <4>2, <5>2, <5>3
      <4> QED
        BY <4>1, <4>2
    <3>2. r = [i \in 1..n |-> r[i]]
      OBVIOUS
    <3> HIDE DEF r
    <3>3. r = [i \in 1..n |-> IF i = 1 THEN cs[i] ELSE r[i - 1] \o cs[i]]
      BY <3>1, <3>2
    <3> QED
      BY <3>3
  <2>4. IsFlat(flat)
    <3> HIDE DEF IsFlat
    <3> QED
      BY <2>3
  <2>5. \A i \in 1..n : flat[i] = IF i = 1 THEN cs[i] ELSE flat[i - 1] \o cs[i]
    <3> HIDE DEF flat
    <3>1. flat = [i \in 1..n |-> IF i = 1 THEN cs[i] ELSE flat[i - 1] \o cs[i]]
      BY <2>4
    <3> QED
      BY <3>1
  <2> HIDE DEF flat, IsFlat
  <2>6. 0 \in Good
    BY <1>0
  <2>7. ASSUME NEW i \in 1..n, i - 1 \in Good PROVE i \in Good
    <3>1. i \in 0..n
      BY <1>0
    <3>2. CASE i = 1
      BY <2>2, <2>5, <3>1, <3>2
    <3>3. CASE i # 1
      <4>1. flat[i - 1] = f[i - 1]
        BY <2>7, <3>3
      <4>2. f[i] = f[i - 1] \o cs[i]
        BY DEF Joining
      <4> QED
        BY <2>5, <3>1, <3>3, <4>1, <4>2
    <3> QED
      BY <3>2, <3>3
  <2>8. \A i \in 0..n : i \in Good
    <3> HIDE DEF Good, n
    <3> QED
      BY <1>0, <2>6, <2>7, Steps
  <2> QED
    BY <1>0, <1>2, <2>1, <2>8
<1> QED
  BY <1>1, <1>2

\* The sequences joined so far hold what stands in one of them.
LEMMA JoiningHas ==
  ASSUME NEW X, NEW cs \in Seq(Seq(X)), NEW f, Joining(f, cs, X)
  PROVE  \A i \in 0..Len(cs) : \A x : Has(f[i], x) <=> \E h \in 1..i : Has(cs[h], x)
<1> DEFINE n == Len(cs)
           Good == {i \in 0..n : \A x : Has(f[i], x) <=> \E h \in 1..i : Has(cs[h], x)}
<1>0. n \in Nat /\ \A i \in 1..n : cs[i] \in Seq(X)
  OBVIOUS
<1>1. 0 \in Good
  <2>1. f[0] = <<>>
    BY DEF Joining
  <2> QED
    BY <1>0, <2>1 DEF Has
<1>2. ASSUME NEW i \in 1..n, i - 1 \in Good PROVE i \in Good
  <2>1. i - 1 \in 0..n /\ i \in 0..n /\ cs[i] \in Seq(X)
    BY <1>0
  <2>2. f[i - 1] \in Seq(X) /\ f[i] = f[i - 1] \o cs[i]
    BY <2>1 DEF Joining
  <2>3. \A x : Has(f[i], x) <=> Has(f[i - 1], x) \/ Has(cs[i], x)
    BY <2>1, <2>2, JoinHas
  <2>4. \A x : Has(f[i - 1], x) <=> \E h \in 1..(i - 1) : Has(cs[h], x)
    BY <1>2
  <2>5. \A h : h \in 1..i <=> h \in 1..(i - 1) \/ h = i
    BY <1>0
  <2>6. \A x : Has(f[i], x) <=> \E h \in 1..i : Has(cs[h], x)
    BY <2>3, <2>4, <2>5, Zenon
  <2> QED
    BY <2>1, <2>6, Zenon
<1>3. \A i \in 0..n : i \in Good
  <2> HIDE DEF Good, n
  <2> QED
    BY <1>0, <1>1, <1>2, Steps
<1> QED
  BY <1>3

LEMMA FlattenHas ==
  ASSUME NEW X, NEW cs \in Seq(Seq(X))
  PROVE  /\ FlattenSeq(cs) \in Seq(X)
         /\ \A x : Has(FlattenSeq(cs), x) <=> \E h \in 1..Len(cs) : Has(cs[h], x)
<1>0. Len(cs) \in Nat /\ Len(cs) \in 0..Len(cs)
  OBVIOUS
<1>1. PICK f : Joining(f, cs, X)
  BY JoiningExists
<1>2. FlattenSeq(cs) = f[Len(cs)]
  BY <1>1, FlattenJoins
<1>3. f[Len(cs)] \in Seq(X)
  BY <1>0, <1>1 DEF Joining
<1> QED
  BY <1>0, <1>1, <1>2, <1>3, JoiningHas

\* Where the brackets of \o stand does not matter.
Regroups(X) == \A p, q, r \in Seq(X) : (p \o q) \o r = p \o (q \o r)

LEMMA Associative == \A X : Regroups(X)
<1>1. ASSUME NEW X PROVE \A p, q, r \in Seq(X) : (p \o q) \o r = p \o (q \o r)
  BY ConcatAssociative
<1> QED
  BY <1>1 DEF Regroups

\* FlattenSeq goes through \o.
LEMMA FlattenConcat ==
  ASSUME NEW X, NEW a \in Seq(Seq(X)), NEW b \in Seq(Seq(X))
  PROVE  FlattenSeq(a \o b) = FlattenSeq(a) \o FlattenSeq(b)
<1> DEFINE n == Len(a)
           m == Len(b)
           ab == a \o b
<1>0. /\ n \in Nat /\ m \in Nat
      /\ ab \in Seq(Seq(X)) /\ Len(ab) = n + m
      /\ \A i \in 1..n : ab[i] = a[i]
      /\ \A i \in 1..m : ab[n + i] = b[i]
      /\ \A i \in 1..m : b[i] \in Seq(X)
  <2>1. /\ ab \in Seq(Seq(X)) /\ Len(ab) = n + m
        /\ \A i \in 1..n + m : ab[i] = IF i <= n THEN a[i] ELSE b[i - n]
    BY ConcatProperties
  <2>2. n \in Nat /\ m \in Nat /\ \A i \in 1..m : b[i] \in Seq(X)
    OBVIOUS
  <2> HIDE DEF ab, n, m
  <2>3. ASSUME NEW i \in 1..m PROVE ab[n + i] = b[i]
    <3>1. n + i \in 1..n + m /\ ~(n + i <= n) /\ (n + i) - n = i
      BY <2>2
    <3> QED
      BY <2>1, <3>1
  <2>4. ASSUME NEW i \in 1..n PROVE ab[i] = a[i]
    <3>1. i \in 1..n + m /\ i <= n
      BY <2>2
    <3> QED
      BY <2>1, <3>1
  <2> QED
    BY <2>1, <2>2, <2>3, <2>4
<1> HIDE DEF ab
<1>1. PICK f : Joining(f, a, X)
  BY JoiningExists
<1>2. PICK g : Joining(g, b, X)
  BY JoiningExists
<1>3. PICK h : Joining(h, ab, X)
  BY <1>0, JoiningExists
<1>4. FlattenSeq(a) = f[n] /\ FlattenSeq(b) = g[m] /\ FlattenSeq(ab) = h[n + m]
  BY <1>0, <1>1, <1>2, <1>3, FlattenJoins
<1>5. /\ f \in [0..n -> Seq(X)] /\ f[0] = <<>>
      /\ \A i \in 1..n : f[i] = f[i - 1] \o a[i]
  BY <1>1 DEF Joining
<1>6. /\ g \in [0..m -> Seq(X)] /\ g[0] = <<>>
      /\ \A i \in 1..m : g[i] = g[i - 1] \o b[i]
  BY <1>2 DEF Joining
<1>7. /\ h \in [0..(n + m) -> Seq(X)] /\ h[0] = <<>>
      /\ \A i \in 1..(n + m) : h[i] = h[i - 1] \o ab[i]
  BY <1>0, <1>3 DEF Joining
<1> HIDE DEF n, m
<1>8. h[n] = f[n]
  <2> DEFINE Good == {i \in 0..n : h[i] = f[i]}
  <2>1. 0 \in Good
    BY <1>0, <1>5, <1>7
  <2>2. ASSUME NEW i \in 1..n, i - 1 \in Good PROVE i \in Good
    <3>1. i \in 0..n /\ i \in 1..(n + m)
      BY <1>0
    <3>2. h[i] = h[i - 1] \o a[i] /\ f[i] = f[i - 1] \o a[i]
      BY <1>0, <1>5, <1>7, <3>1
    <3> QED
      BY <2>2, <3>1, <3>2
  <2>3. \A i \in 0..n : i \in Good
    <3> HIDE DEF Good
    <3> QED
      BY <1>0, <2>1, <2>2, Steps
  <2>4. n \in Good
    BY <1>0, <2>3
  <2> QED
    BY <2>4
<1>9. h[n + m] = f[n] \o g[m]
  <2>0. f[n] \in Seq(X) /\ \A i \in 0..m : g[i] \in Seq(X)
    BY <1>0, <1>5, <1>6
  <2> DEFINE Good == {i \in 0..m : h[n + i] = f[n] \o g[i]}
  <2>1. 0 \in Good
    <3>1. f[n] \o <<>> = f[n] /\ n + 0 = n /\ 0 \in 0..m
      BY <1>0, <2>0, ConcatEmptySeq
    <3> QED
      BY <1>6, <1>8, <3>1
  <2>2. ASSUME NEW i \in 1..m, i - 1 \in Good PROVE i \in Good
    <3>1. i \in 0..m /\ i - 1 \in 0..m /\ n + i \in 1..(n + m) /\ (n + i) - 1 = n + (i - 1)
      BY <1>0
    <3>2. h[n + i] = h[n + (i - 1)] \o b[i]
      BY <1>0, <1>7, <3>1
    <3>3. h[n + (i - 1)] = f[n] \o g[i - 1]
      BY <2>2
    <3>4. (f[n] \o g[i - 1]) \o b[i] = f[n] \o (g[i - 1] \o b[i])
      <4>1. f[n] \in Seq(X) /\ g[i - 1] \in Seq(X) /\ b[i] \in Seq(X)
        BY <1>0, <2>0, <3>1
      <4>2. Regroups(X)
        BY Associative, Zenon
      <4>3. \A p, q, r \in Seq(X) : (p \o q) \o r = p \o (q \o r)
        BY <4>2, Zenon DEF Regroups
      <4> QED
        BY <4>1, <4>3, Zenon
    <3>5. g[i] = g[i - 1] \o b[i]
      BY <1>6
    <3> QED
      BY <3>1, <3>2, <3>3, <3>4, <3>5
  <2>3. \A i \in 0..m : i \in Good
    <3> HIDE DEF Good
    <3> QED
      BY <1>0, <2>1, <2>2, Steps
  <2>4. m \in Good
    <3>1. m \in 0..m
      BY <1>0
    <3> HIDE DEF Good
    <3> QED
      BY <2>3, <3>1
  <2> QED
    BY <2>4
<1> QED
  BY <1>4, <1>8, <1>9 DEF ab

\* One sequence, none, and one more.
LEMMA FlattenOne ==
  ASSUME NEW X, NEW s \in Seq(X)
  PROVE  FlattenSeq(<<s>>) = s
<1>0. <<s>> \in Seq(Seq(X)) /\ Len(<<s>>) = 1 /\ <<s>>[1] = s
  OBVIOUS
<1>1. PICK f : Joining(f, <<s>>, X)
  BY <1>0, JoiningExists
<1>2. FlattenSeq(<<s>>) = f[1]
  BY <1>0, <1>1, FlattenJoins
<1>3. f[1] = f[1 - 1] \o s /\ f[0] = <<>>
  <2> DEFINE cs == <<s>>
  <2>1. 1 \in 1..Len(cs) /\ cs[1] = s /\ Joining(f, cs, X)
    BY <1>0, <1>1
  <2> HIDE DEF cs
  <2>2. f[1] = f[1 - 1] \o cs[1] /\ f[0] = <<>>
    BY <2>1, Zenon DEF Joining
  <2> QED
    BY <2>1, <2>2
<1>4. f[1] = <<>> \o s
  <2>1. 1 - 1 = 0
    OBVIOUS
  <2> QED
    BY <1>3, <2>1, Zenon
<1> QED
  BY <1>2, <1>4, ConcatEmptySeq

LEMMA FlattenNone == FlattenSeq(<<>>) = <<>>
  BY DEF FlattenSeq

LEMMA FlattenAppend ==
  ASSUME NEW X, NEW a \in Seq(Seq(X)), NEW s \in Seq(X)
  PROVE  FlattenSeq(Append(a, s)) = FlattenSeq(a) \o s
<1>1. Append(a, s) = a \o <<s>>
  BY AppendIsConcat
<1>2. <<s>> \in Seq(Seq(X))
  OBVIOUS
<1>3. FlattenSeq(a \o <<s>>) = FlattenSeq(a) \o FlattenSeq(<<s>>)
  BY <1>2, FlattenConcat, Zenon
<1>4. FlattenSeq(<<s>>) = s
  BY FlattenOne, Zenon
<1> QED
  BY <1>1, <1>3, <1>4, Zenon

\* The same for texts.
LEMMA JoinStr ==
  ASSUME NEW a \in Str, NEW b \in Str
  PROVE  a \o b \in Str
BY JoinHas DEF Str

LEMMA FlattenStr ==
  ASSUME NEW t \in Seq(Str), NEW s \in Str
  PROVE  /\ FlattenSeq(t) \in Str
         /\ Append(t, s) \in Seq(Str)
         /\ FlattenSeq(Append(t, s)) = FlattenSeq(t) \o s
<1>1. FlattenSeq(t) \in Str
  BY FlattenHas DEF Str
<1>2. Append(t, s) \in Seq(Str)
  OBVIOUS
<1>3. FlattenSeq(Append(t, s)) = FlattenSeq(t) \o s
  BY FlattenAppend DEF Str
<1> QED
  BY <1>1, <1>2, <1>3

LEMMA StrGroups == \A p, q, r \in Str : (p \o q) \o r = p \o (q \o r)
<1>1. Regroups(Int)
  BY Associative, Zenon
<1> QED
  BY <1>1, Zenon DEF Regroups, Str

\* A stretch of a text has the letters that stand in it.
LEMMA SubSeqHas ==
  ASSUME NEW s \in Str, NEW a \in 1..(Len(s) + 1), NEW b \in 0..Len(s)
  PROVE  /\ SubSeq(s, a, b) \in Str
         /\ Len(SubSeq(s, a, b)) = IF a <= b THEN b - a + 1 ELSE 0
         /\ \A c : Has(SubSeq(s, a, b), c) <=> \E i \in a..b : s[i] = c
<1>0. Len(s) \in Nat /\ \A i \in a..b : s[i] \in Int
  BY DEF Str
<1>1. /\ SubSeq(s, a, b) \in Str
      /\ Len(SubSeq(s, a, b)) = IF a <= b THEN b - a + 1 ELSE 0
      /\ \A i \in 1..(b - a + 1) : SubSeq(s, a, b)[i] = s[a + i - 1]
  BY <1>0, SubSeqProperties DEF Str
<1>2. ASSUME NEW c, NEW i \in 1..Len(SubSeq(s, a, b)), SubSeq(s, a, b)[i] = c
      PROVE  \E j \in a..b : s[j] = c
  <2>1. a + i - 1 \in a..b /\ s[a + i - 1] = c
    BY <1>0, <1>1, <1>2
  <2> QED
    BY <2>1
<1>3. ASSUME NEW c, NEW j \in a..b, s[j] = c PROVE Has(SubSeq(s, a, b), c)
  <2>1. j - a + 1 \in 1..Len(SubSeq(s, a, b)) /\ a + (j - a + 1) - 1 = j
    BY <1>0, <1>1
  <2>2. SubSeq(s, a, b)[j - a + 1] = c
    BY <1>0, <1>1, <1>3, <2>1
  <2> QED
    BY <2>1, <2>2 DEF Has
<1> QED
  BY <1>1, <1>2, <1>3 DEF Has

\* A stretch is the one up to b and the one after b; the whole text, and a text
\* without letters.
LEMMA Adjacent ==
  ASSUME NEW s \in Str, NEW a \in 1..(Len(s) + 1), NEW b \in (a - 1)..Len(s), NEW c \in b..Len(s)
  PROVE  /\ SubSeq(s, a, b) \in Str /\ SubSeq(s, b + 1, c) \in Str /\ SubSeq(s, a, c) \in Str
         /\ SubSeq(s, a, b) \o SubSeq(s, b + 1, c) = SubSeq(s, a, c)
<1>0. Len(s) \in Nat /\ b \in 0..Len(s) /\ c \in 0..Len(s) /\ b + 1 \in 1..(Len(s) + 1)
  BY DEF Str
<1>1. SubSeq(s, a, b) \in Str /\ SubSeq(s, b + 1, c) \in Str /\ SubSeq(s, a, c) \in Str
  BY <1>0, SubSeqHas
<1>2. SubSeq(s, a, b) \o SubSeq(s, b + 1, c) = SubSeq(s, a, c)
  BY ConcatAdjacentSubSeq DEF Str
<1> QED
  BY <1>1, <1>2

LEMMA Whole ==
  ASSUME NEW s \in Str
  PROVE  SubSeq(s, 1, Len(s)) = s
BY SubSeqFull DEF Str

LEMMA BlankStretch ==
  ASSUME NEW s \in Str, NEW a \in 1..(Len(s) + 1), NEW b \in 0..Len(s),
         \A i \in a..b : ~(s[i] > 0)
  PROVE  Blank(SubSeq(s, a, b))
<1> DEFINE t == SubSeq(s, a, b)
<1>1. t \in Str /\ \A c : Has(t, c) <=> \E i \in a..b : s[i] = c
  BY SubSeqHas
<1> HIDE DEF t
<1>2. ASSUME NEW k \in 1..Len(t) PROVE ~(t[k] > 0)
  <2>1. Has(t, t[k])
    BY DEF Has
  <2>2. PICK i \in a..b : s[i] = t[k]
    BY <1>1, <2>1
  <2> QED
    BY <2>2
<1> QED
  BY <1>1, <1>2 DEF Blank, t

\* A text without letters is as good as none.
LEMMA BlankSame ==
  ASSUME NEW s, Blank(s)
  PROVE  Same(<<>>, s)
<1>1. s \in Str /\ <<>> \in Str
  BY DEF Blank, Str
<1>2. Same(<<>> \o s, <<>>)
  BY <1>1, BlankAside
<1>3. <<>> \o s = s
  BY <1>1, ConcatEmptySeq DEF Str
<1> QED
  BY <1>2, <1>3, SameBack, Zenon

(***************************************************************************)
(* The chunker                                                             *)
(***************************************************************************)
\* Who reads t's texts one after the other sees the letters of s, in its order.
Keeps(t, s) == Same(FlattenSeq(t), s)

Bounded(t, b) == t \in Seq(Str) /\ \A k \in 1..Len(t) : Len(t[k]) <= b

\* strip takes no letter away and makes nothing longer.
LEMMA StripKeeps ==
  ASSUME NEW s \in Str
  PROVE  /\ Strip(s) \in Str
         /\ Len(Strip(s)) <= Len(s)
         /\ Same(Strip(s), s)
<1> DEFINE n == Len(s)
           solid == {i \in DOMAIN s : s[i] > 0}
           lo == Min(solid)
           hi == Max(solid)
<1>0. n \in Nat /\ DOMAIN s = 1..n /\ <<>> \in Str
  BY DEF Str
<1>1. CASE solid = {}
  <2>1. Strip(s) = <<>>
    BY <1>1 DEF Strip
  <2>2. Blank(s)
    BY <1>0, <1>1 DEF Blank
  <2> QED
    BY <1>0, <2>1, <2>2, BlankSame
<1>2. CASE solid # {}
  <2>1. Strip(s) = SubSeq(s, lo, hi)
    BY <1>2 DEF Strip
  <2>2. lo \in solid /\ hi \in solid /\ \A i \in solid : lo <= i /\ i <= hi
    <3>1. solid \subseteq Nat /\ solid \subseteq 0..n
      BY <1>0
    <3> HIDE DEF solid
    <3> QED
      BY <1>0, <1>2, <3>1, MinIsLeast, MaxIsGreatest
  <2> HIDE DEF lo, hi
  <2>3. lo \in 1..n /\ hi \in 1..n /\ lo <= hi
    BY <1>0, <2>2
  <2>4. \A i \in 1..(lo - 1) : ~(s[i] > 0)
    BY <1>0, <2>2, <2>3
  <2>5. \A i \in (hi + 1)..n : ~(s[i] > 0)
    BY <1>0, <2>2, <2>3
  <2> DEFINE front == SubSeq(s, 1, lo - 1)
             middle == SubSeq(s, lo, hi)
             back == SubSeq(s, hi + 1, n)
  <2>6. Blank(front) /\ Blank(back)
    <3>1. 1 \in 1..(n + 1) /\ lo - 1 \in 0..n /\ hi + 1 \in 1..(n + 1) /\ n \in 0..n
      BY <1>0, <2>3
    <3>2. Blank(front)
      BY <2>4, <3>1, BlankStretch
    <3>3. Blank(back)
      BY <2>5, <3>1, BlankStretch
    <3> QED
      BY <3>2, <3>3
  <2>7. /\ middle \in Str /\ front \o middle \in Str
        /\ (front \o middle) \o back = s
    <3>1. /\ 1 \in 1..(n + 1) /\ lo - 1 \in (1 - 1)..n /\ hi \in (lo - 1)..n
          /\ hi \in (1 - 1)..n /\ n \in hi..n /\ (lo - 1) + 1 = lo
      BY <1>0, <2>3
    <3>2. /\ SubSeq(s, (lo - 1) + 1, hi) \in Str /\ SubSeq(s, 1, hi) \in Str
          /\ SubSeq(s, 1, lo - 1) \o SubSeq(s, (lo - 1) + 1, hi) = SubSeq(s, 1, hi)
      BY <3>1, Adjacent
    <3>3. SubSeq(s, 1, hi) \o SubSeq(s, hi + 1, n) = SubSeq(s, 1, n)
      BY <3>1, Adjacent
    <3>4. middle \in Str /\ front \o middle = SubSeq(s, 1, hi)
      BY <3>1, <3>2, Zenon
    <3>5. SubSeq(s, 1, n) = s
      BY Whole
    <3> QED
      BY <3>2, <3>3, <3>4, <3>5, Zenon
  <2>8. Len(middle) = hi - lo + 1
    <3>1. lo \in 1..(n + 1) /\ hi \in 0..n
      BY <1>0, <2>3
    <3> QED
      BY <2>3, <3>1, SubSeqHas
  <2> HIDE DEF front, middle, back
  <2>9. Same(front \o middle, middle)
    BY <2>6, <2>7, BlankAside
  <2>10. Same((front \o middle) \o back, front \o middle)
    BY <2>6, <2>7, BlankAside
  <2>11. Same(middle, s)
    BY <2>7, <2>9, <2>10, SameBack, SameThrough, Zenon
  <2>12. Strip(s) = middle
    BY <2>1 DEF middle
  <2> QED
    BY <1>0, <2>3, <2>7, <2>8, <2>11, <2>12
<1> QED
  BY <1>1, <1>2

\* A chunk, or none of a blank text.
LEMMA SolidKeeps ==
  ASSUME NEW s \in Str
  PROVE  Bounded(Solid(s), Len(s)) /\ Keeps(Solid(s), s)
<1>0. Strip(s) \in Str /\ Len(Strip(s)) <= Len(s) /\ Same(Strip(s), s)
  BY StripKeeps
<1>1. CASE Strip(s) = <<>>
  <2>1. Solid(s) = <<>>
    BY <1>1 DEF Solid
  <2>2. Bounded(<<>>, Len(s))
    BY DEF Bounded
  <2> QED
    BY <1>0, <1>1, <2>1, <2>2, FlattenNone DEF Keeps
<1>2. CASE Strip(s) # <<>>
  <2>1. Solid(s) = <<Strip(s)>>
    BY <1>2 DEF Solid
  <2>2. /\ <<Strip(s)>> \in Seq(Str)
        /\ Len(<<Strip(s)>>) = 1
        /\ <<Strip(s)>>[1] = Strip(s)
    BY <1>0
  <2>3. FlattenSeq(<<Strip(s)>>) = Strip(s)
    BY <1>0, FlattenOne DEF Str
  <2> QED
    BY <1>0, <2>1, <2>2, <2>3 DEF Bounded, Keeps
<1> QED
  BY <1>1, <1>2

\* The splits that have put what stands before their last cut into parts.
Splits(s) ==
    {v \in [from : Nat \ {0}, parts : Seq(Str)] :
        /\ v.from <= Len(s) + 1
        /\ Keeps(v.parts, SubSeq(s, 1, v.from - 1))}

\* A cut moves the text up to the separator into a part; the separator has no
\* letters.
LEMMA CutAtKeeps ==
  ASSUME NEW s \in Str, NEW sep, Blank(sep), NEW i \in 1..Len(s), NEW v \in Splits(s)
  PROVE  CutAt(v, s, sep, i) \in Splits(s)
<1>0. Len(s) \in Nat /\ Len(sep) \in Nat
  BY DEF Blank, Str
<1>1. /\ v \in [from : Nat \ {0}, parts : Seq(Str)] /\ v.from <= Len(s) + 1
      /\ Same(FlattenSeq(v.parts), SubSeq(s, 1, v.from - 1))
  BY DEF Splits, Keeps
<1> DEFINE part == SubSeq(s, v.from, i - 1)
           end == i + Len(sep) - 1
           cut == [from |-> i + Len(sep), parts |-> Append(v.parts, part)]
<1>2. CASE ~(/\ i >= v.from
             /\ i + Len(sep) - 1 <= Len(s)
             /\ SubSeq(s, i, i + Len(sep) - 1) = sep)
  BY <1>2 DEF CutAt
<1>3. CASE /\ i >= v.from
           /\ i + Len(sep) - 1 <= Len(s)
           /\ SubSeq(s, i, i + Len(sep) - 1) = sep
  <2>1. CutAt(v, s, sep, i) = cut
    BY <1>3 DEF CutAt
  <2> DEFINE done == SubSeq(s, 1, v.from - 1)
             flat == FlattenSeq(v.parts)
  <2>2. /\ done \in Str /\ part \in Str /\ done \o part \in Str
        /\ (done \o part) \o sep = SubSeq(s, 1, end)
    <3> DEFINE a == 1
               b == v.from - 1
               c == i - 1
    <3>1. /\ a \in 1..(Len(s) + 1) /\ b \in (a - 1)..Len(s) /\ c \in b..Len(s)
          /\ b + 1 = v.from /\ c \in (a - 1)..Len(s) /\ end \in c..Len(s) /\ c + 1 = i
      BY <1>0, <1>1, <1>3
    <3>2. SubSeq(s, c + 1, end) = sep
      BY <1>3, <3>1
    <3> HIDE DEF a, b, c, end
    <3>3. /\ SubSeq(s, a, b) \in Str /\ SubSeq(s, b + 1, c) \in Str /\ SubSeq(s, a, c) \in Str
          /\ SubSeq(s, a, b) \o SubSeq(s, b + 1, c) = SubSeq(s, a, c)
      BY <3>1, Adjacent
    <3>4. SubSeq(s, a, c) \o SubSeq(s, c + 1, end) = SubSeq(s, a, end)
      BY <3>1, Adjacent
    <3>5. done = SubSeq(s, a, b) /\ part = SubSeq(s, b + 1, c)
      BY <3>1 DEF a, b, c
    <3>6. (done \o part) \o sep = SubSeq(s, a, end)
      BY <3>2, <3>3, <3>4, <3>5, Zenon
    <3> QED
      BY <3>3, <3>5, <3>6 DEF a
  <2>3. v.parts \in Seq(Str)
    BY <1>1
  <2> HIDE DEF part, done, end
  <2>4. /\ flat \in Str
        /\ Append(v.parts, part) \in Seq(Str)
        /\ FlattenSeq(Append(v.parts, part)) = flat \o part
    BY <2>2, <2>3, FlattenStr
  <2> HIDE DEF flat
  <2>5. Same(flat, done)
    BY <1>1 DEF flat, done
  <2>6. Same(flat \o part, done \o part)
    BY <2>2, <2>4, <2>5, SameSelf, SameJoin
  <2>7. Same((done \o part) \o sep, done \o part)
    BY <2>2, BlankAside
  <2>8. Same(flat \o part, SubSeq(s, 1, end))
    BY <2>2, <2>6, <2>7, SameBack, SameThrough, Zenon
  <2>9. /\ cut \in [from : Nat \ {0}, parts : Seq(Str)]
        /\ cut.from <= Len(s) + 1
        /\ cut.parts = Append(v.parts, part)
        /\ cut.from - 1 = end
    BY <1>0, <1>3, <2>4 DEF end
  <2> HIDE DEF cut
  <2>10. cut \in Splits(s)
    <3>1. Same(FlattenSeq(cut.parts), SubSeq(s, 1, cut.from - 1))
      BY <2>4, <2>8, <2>9, Zenon
    <3> QED
      BY <2>9, <3>1 DEF Splits, Keeps
  <2> QED
    BY <2>1, <2>10
<1> QED
  BY <1>2, <1>3

\* str.split loses nothing but separators, and it makes nothing up.
LEMMA SplitOnKeeps ==
  ASSUME NEW s \in Str, NEW sep, Blank(sep)
  PROVE  SplitOn(s, sep) \in Seq(Str) /\ Keeps(SplitOn(s, sep), s)
<1> DEFINE n == Len(s)
           V == Splits(s)
           b == [from |-> 1, parts |-> <<>>]
           IsSplit(f) == f = [i \in 0..n |-> IF i = 0 THEN b ELSE CutAt(f[i - 1], s, sep, i)]
           split == CHOOSE f : IsSplit(f)
           rest == SubSeq(s, split[n].from, n)
<1>0. n \in Nat
  BY DEF Str
<1>1. SplitOn(s, sep) = Append(split[n].parts, rest)
  BY DEF SplitOn
<1>2. b \in V
  <2>1. SubSeq(s, 1, 0) = <<>>
    BY SubSeqEmpty
  <2>2. Keeps(<<>>, SubSeq(s, 1, 0))
    BY <2>1, FlattenNone, SameSelf DEF Keeps
  <2>3. b \in [from : Nat \ {0}, parts : Seq(Str)] /\ b.from = 1 /\ b.parts = <<>>
    OBVIOUS
  <2> HIDE DEF b
  <2> QED
    BY <1>0, <2>2, <2>3 DEF Splits
<1>3. \E f : IsSplit(f)
  <2> DEFINE g == [i \in 1..n |-> [v \in V |-> CutAt(v, s, sep, i)]]
  <2>1. g \in [1..n -> [V -> V]]
    <3>1. \A i \in 1..n : \A v \in V : CutAt(v, s, sep, i) \in V
      BY CutAtKeeps
    <3> HIDE DEF n, V
    <3> QED
      BY <3>1
  <2>2. PICK f : Recursive(f, n, V, b, g)
    <3> HIDE DEF n, V, b, g
    <3> QED
      BY <1>0, <1>2, <2>1, RecursiveFunction
  <2>3. f = [i \in 0..n |-> IF i = 0 THEN b ELSE g[i][f[i - 1]]]
    <3> HIDE DEF n, V, b, g
    <3> QED
      BY <1>0, <2>2, RecursiveEquation
  <2>4. \A i \in 0..n : f[i] \in V
    BY <2>2 DEF Recursive
  <2>5. ASSUME NEW i \in 0..n, i # 0 PROVE g[i][f[i - 1]] = CutAt(f[i - 1], s, sep, i)
    <3> HIDE DEF n, V
    <3>1. i \in 1..n /\ i - 1 \in 0..n
      BY <1>0, <2>5
    <3>2. f[i - 1] \in V
      BY <2>4, <3>1
    <3> QED
      BY <3>1, <3>2
  <2> HIDE DEF n, V, b, g
  <2>6. f = [i \in 0..n |-> IF i = 0 THEN b ELSE CutAt(f[i - 1], s, sep, i)]
    BY <2>3, <2>5
  <2> QED
    BY <2>6
<1>4. IsSplit(split)
  <2> HIDE DEF IsSplit
  <2> QED
    BY <1>3
<1> HIDE DEF split, V, b
<1>5. split[n] \in V
  <2>1. \A i \in 0..n : split[i] = IF i = 0 THEN b ELSE CutAt(split[i - 1], s, sep, i)
    <3> HIDE DEF n
    <3>1. split = [i \in 0..n |-> IF i = 0 THEN b ELSE CutAt(split[i - 1], s, sep, i)]
      BY <1>4
    <3> QED
      BY <3>1
  <2> DEFINE Good == {i \in 0..n : split[i] \in V}
  <2> HIDE DEF n
  <2>2. 0 \in Good
    BY <1>0, <1>2, <2>1
  <2>3. ASSUME NEW i \in 1..n, i - 1 \in Good PROVE i \in Good
    <3>1. split[i - 1] \in V
      BY <2>3
    <3>2. i \in 0..n /\ split[i] = CutAt(split[i - 1], s, sep, i)
      BY <1>0, <2>1
    <3>3. CutAt(split[i - 1], s, sep, i) \in V
      BY <3>1, CutAtKeeps DEF n, V
    <3> QED
      BY <3>2, <3>3
  <2>4. \A i \in 0..n : i \in Good
    <3> HIDE DEF Good
    <3> QED
      BY <1>0, <2>2, <2>3, Steps
  <2> QED
    BY <1>0, <2>4
<1> DEFINE v == split[n]
           flat == FlattenSeq(v.parts)
           done == SubSeq(s, 1, v.from - 1)
<1>6. v.parts \in Seq(Str) /\ v.from \in 1..(n + 1) /\ Same(flat, done)
  BY <1>0, <1>5 DEF V, Splits, Keeps
<1>7. done \in Str /\ rest \in Str /\ done \o rest = s
  <2> DEFINE a == 1
             c == v.from - 1
  <2>1. a \in 1..(Len(s) + 1) /\ c \in (a - 1)..Len(s) /\ n \in c..Len(s) /\ c + 1 = v.from
    BY <1>0, <1>6
  <2> HIDE DEF a, c
  <2>2. /\ SubSeq(s, a, c) \in Str /\ SubSeq(s, c + 1, n) \in Str
        /\ SubSeq(s, a, c) \o SubSeq(s, c + 1, n) = SubSeq(s, a, n)
    BY <2>1, Adjacent
  <2>3. SubSeq(s, a, n) = s
    BY Whole DEF a
  <2>4. done = SubSeq(s, a, c) /\ rest = SubSeq(s, c + 1, n)
    BY <2>1 DEF a, c
  <2> QED
    BY <2>2, <2>3, <2>4, Zenon
<1> HIDE DEF rest, done
<1>8. /\ flat \in Str
      /\ Append(v.parts, rest) \in Seq(Str)
      /\ FlattenSeq(Append(v.parts, rest)) = flat \o rest
  <2> HIDE DEF v
  <2> QED
    BY <1>6, <1>7, FlattenStr
<1> HIDE DEF flat
<1>9. Same(flat \o rest, done \o rest)
  BY <1>6, <1>7, <1>8, SameSelf, SameJoin
<1>10. SplitOn(s, sep) = Append(v.parts, rest)
  BY <1>1
<1> HIDE DEF v
<1> QED
  BY <1>7, <1>8, <1>9, <1>10, Zenon DEF Keeps

\* What AddPart works on.
Packings == [current : Str, full : Seq(Str)]

\* What a packing has packed.
Packed(v) == FlattenSeq(v.full) \o v.current

\* Adding a part to a packing adds it at the end.
LEMMA AddPartKeeps ==
  ASSUME NEW v \in Packings, NEW sep, Blank(sep), NEW part \in Str
  PROVE  /\ AddPart(v, sep, part) \in Packings
         /\ Same(Packed(AddPart(v, sep, part)), Packed(v) \o part)
<1> DEFINE cur == v.current
           flat == FlattenSeq(v.full)
           candidate == IF cur = <<>> THEN part ELSE cur \o sep \o part
           joined == [v EXCEPT !.current = candidate]
           next == [current |-> part, full |-> Append(v.full, cur)]
<1>0. cur \in Str /\ v.full \in Seq(Str) /\ sep \in Str
  BY DEF Packings, Blank
<1>1. /\ flat \in Str
      /\ Append(v.full, cur) \in Seq(Str)
      /\ FlattenSeq(Append(v.full, cur)) = flat \o cur
  <2> HIDE DEF cur
  <2> QED
    BY <1>0, FlattenStr
<1>2. Packed(v) = flat \o cur
  BY DEF Packed
<1>3. candidate \in Str /\ Same(candidate, cur \o part)
  <2>1. CASE cur = <<>>
    <3>1. <<>> \o part = part
      BY ConcatEmptySeq DEF Str
    <3>2. candidate = part /\ cur \o part = part
      BY <2>1, <3>1
    <3> HIDE DEF candidate, cur
    <3> QED
      BY <3>2, SameSelf
  <2>2. CASE cur # <<>>
    <3>1. candidate = (cur \o sep) \o part
      BY <2>2
    <3> HIDE DEF candidate, cur
    <3>2. cur \o sep \in Str /\ (cur \o sep) \o part \in Str
      BY <1>0, JoinStr
    <3>3. Same(cur \o sep, cur)
      BY <1>0, BlankAside
    <3>4. Same((cur \o sep) \o part, cur \o part)
      BY <1>0, <3>2, <3>3, SameSelf, SameJoin
    <3> QED
      BY <3>1, <3>2, <3>4
  <2> QED
    BY <2>1, <2>2
<1>4. (flat \o cur) \o part = flat \o (cur \o part) /\ cur \o part \in Str
  <2> HIDE DEF cur, flat
  <2>1. cur \o part \in Str
    BY <1>0, JoinStr
  <2>2. (flat \o cur) \o part = flat \o (cur \o part)
    BY <1>0, <1>1, StrGroups, Zenon
  <2> QED
    BY <2>1, <2>2
<1>5. CASE Len(candidate) <= ChunkSize
  <2>1. AddPart(v, sep, part) = joined
    BY <1>5 DEF AddPart
  <2> HIDE DEF candidate
  <2>2. joined.current = candidate /\ joined.full = v.full /\ joined \in Packings
    BY <1>3 DEF Packings
  <2>3. Packed(joined) = flat \o candidate
    <3> HIDE DEF joined
    <3> QED
      BY <2>2 DEF Packed
  <2> HIDE DEF joined, cur, flat
  <2>4. Same(flat \o candidate, flat \o (cur \o part))
    BY <1>1, <1>3, <1>4, SameSelf, SameJoin
  <2>5. Same(Packed(joined), Packed(v) \o part)
    BY <1>2, <1>4, <2>3, <2>4, Zenon
  <2> QED
    BY <2>1, <2>2, <2>5
<1>6. CASE ~(Len(candidate) <= ChunkSize)
  <2>1. AddPart(v, sep, part) = next
    BY <1>6 DEF AddPart
  <2> HIDE DEF candidate
  <2>2. next.current = part /\ next.full = Append(v.full, cur) /\ next \in Packings
    BY <1>1 DEF Packings
  <2>3. Packed(next) = (flat \o cur) \o part
    <3> HIDE DEF next, flat, cur
    <3> QED
      BY <1>1, <2>2 DEF Packed
  <2> HIDE DEF next, cur, flat
  <2>4. Same(Packed(next), Packed(v) \o part)
    BY <1>2, <2>3, SameSelf, Zenon
  <2> QED
    BY <2>1, <2>2, <2>4
<1> QED
  BY <1>5, <1>6

\* Packing the parts into pieces keeps their text, but for separators.
LEMMA PiecesKeep ==
  ASSUME NEW s \in Str, NEW sep, Blank(sep)
  PROVE  Pieces(s, sep) \in Seq(Str) /\ Keeps(Pieces(s, sep), s)
<1> DEFINE parts == SplitOn(s, sep)
           n == Len(parts)
           V == Packings
           b == [current |-> <<>>, full |-> <<>>]
           IsPacked(f) == f = [i \in 0..n |-> IF i = 0 THEN b ELSE AddPart(f[i - 1], sep, parts[i])]
           packed == CHOOSE f : IsPacked(f)
<1>0. /\ parts \in Seq(Str)
      /\ Keeps(parts, s)
      /\ n \in Nat
      /\ \A i \in 1..n : parts[i] \in Str
  <2>1. parts \in Seq(Str) /\ Keeps(parts, s)
    BY SplitOnKeeps
  <2> HIDE DEF parts
  <2> QED
    BY <2>1
<1>1. Pieces(s, sep) = Append(packed[n].full, packed[n].current)
  BY DEF Pieces
<1> HIDE DEF parts
<1>2. b \in V /\ Packed(b) = <<>>
  <2>1. <<>> \o <<>> = <<>> /\ FlattenSeq(<<>>) = <<>>
    BY ConcatEmptySeq, FlattenNone
  <2> QED
    BY <2>1 DEF Packings, Packed, Str
<1>3. \E f : IsPacked(f)
  <2> DEFINE g == [i \in 1..n |-> [v \in V |-> AddPart(v, sep, parts[i])]]
  <2>1. g \in [1..n -> [V -> V]]
    <3>1. \A i \in 1..n : \A v \in V : AddPart(v, sep, parts[i]) \in V
      BY <1>0, AddPartKeeps
    <3> HIDE DEF n, V
    <3> QED
      BY <3>1
  <2>2. PICK f : Recursive(f, n, V, b, g)
    <3> HIDE DEF n, V, b, g
    <3> QED
      BY <1>0, <1>2, <2>1, RecursiveFunction
  <2>3. f = [i \in 0..n |-> IF i = 0 THEN b ELSE g[i][f[i - 1]]]
    <3> HIDE DEF n, V, b, g
    <3> QED
      BY <1>0, <2>2, RecursiveEquation
  <2>4. \A i \in 0..n : f[i] \in V
    BY <2>2 DEF Recursive
  <2>5. ASSUME NEW i \in 0..n, i # 0 PROVE g[i][f[i - 1]] = AddPart(f[i - 1], sep, parts[i])
    <3> HIDE DEF n, V
    <3>1. i \in 1..n /\ i - 1 \in 0..n
      BY <1>0, <2>5
    <3>2. f[i - 1] \in V
      BY <2>4, <3>1
    <3> QED
      BY <3>1, <3>2
  <2> HIDE DEF n, V, b, g
  <2>6. f = [i \in 0..n |-> IF i = 0 THEN b ELSE AddPart(f[i - 1], sep, parts[i])]
    BY <2>3, <2>5
  <2> QED
    BY <2>6
<1>4. IsPacked(packed)
  <2> HIDE DEF IsPacked
  <2> QED
    BY <1>3
<1> HIDE DEF packed, V, b
<1>5. \A i \in 0..n : packed[i] = IF i = 0 THEN b ELSE AddPart(packed[i - 1], sep, parts[i])
  <2> HIDE DEF n
  <2>1. packed = [i \in 0..n |-> IF i = 0 THEN b ELSE AddPart(packed[i - 1], sep, parts[i])]
    BY <1>4
  <2> QED
    BY <2>1
<1>6. PICK f : Joining(f, parts, Int)
  BY <1>0, JoiningExists DEF Str
<1>7. /\ \A i \in 0..n : f[i] \in Str
      /\ f[0] = <<>>
      /\ \A i \in 1..n : f[i] = f[i - 1] \o parts[i]
  BY <1>6 DEF Joining, Str
<1>8. FlattenSeq(parts) = f[n]
  BY <1>0, <1>6, FlattenJoins DEF Str
<1> DEFINE Good == {i \in 0..n : packed[i] \in V /\ Same(Packed(packed[i]), f[i])}
<1> HIDE DEF n
<1>9. 0 \in Good
  <2>1. packed[0] = b /\ 0 \in 0..n
    BY <1>0, <1>5
  <2>2. Same(Packed(packed[0]), f[0])
    BY <1>2, <1>7, <2>1, SameSelf, Zenon
  <2> QED
    BY <1>2, <2>1, <2>2
<1>10. ASSUME NEW i \in 1..n, i - 1 \in Good PROVE i \in Good
  <2> DEFINE v == packed[i - 1]
             w == AddPart(v, sep, parts[i])
  <2>1. v \in V /\ Same(Packed(v), f[i - 1])
    BY <1>10
  <2>2. i \in 0..n /\ i - 1 \in 0..n /\ packed[i] = w /\ parts[i] \in Str
    BY <1>0, <1>5
  <2>3. Packed(v) \in Str
    <3>1. v.full \in Seq(Str) /\ v.current \in Str
      BY <2>1 DEF V, Packings
    <3> HIDE DEF v
    <3>2. FlattenSeq(v.full) \in Str
      BY <3>1, FlattenStr
    <3> QED
      BY <3>1, <3>2, JoinStr DEF Packed
  <2>4. w \in V /\ Same(Packed(w), Packed(v) \o parts[i])
    <3> HIDE DEF v
    <3> QED
      BY <2>1, <2>2, AddPartKeeps DEF V
  <2> HIDE DEF v, w
  <2>5. f[i - 1] \in Str /\ f[i] = f[i - 1] \o parts[i]
    BY <1>7, <2>2
  <2>6. Same(Packed(v) \o parts[i], f[i - 1] \o parts[i])
    BY <2>1, <2>2, <2>3, <2>5, SameSelf, SameJoin
  <2>7. Same(Packed(w), f[i])
    BY <2>4, <2>5, <2>6, SameThrough, Zenon
  <2> QED
    BY <2>2, <2>4, <2>7
<1>11. packed[n] \in V /\ Same(Packed(packed[n]), f[n])
  <2>1. \A i \in 0..n : i \in Good
    <3> HIDE DEF Good
    <3> QED
      BY <1>0, <1>9, <1>10, Steps
  <2>2. n \in 0..n
    BY <1>0
  <2>3. n \in Good
    <3> HIDE DEF Good
    <3> QED
      BY <2>1, <2>2
  <2> QED
    BY <2>3
<1> DEFINE v == packed[n]
<1>12. v.full \in Seq(Str) /\ v.current \in Str
  BY <1>11 DEF V, Packings
<1> HIDE DEF v
<1>13. /\ Append(v.full, v.current) \in Seq(Str)
       /\ FlattenSeq(Append(v.full, v.current)) = Packed(v)
  BY <1>12, FlattenStr DEF Packed
<1>14. Same(Packed(v), s)
  BY <1>0, <1>8, <1>11, SameThrough, Zenon DEF Keeps, v
<1>15. Pieces(s, sep) = Append(v.full, v.current)
  BY <1>1 DEF v
<1> QED
  BY <1>13, <1>14, <1>15, Zenon DEF Keeps

\* The overlap makes a chunk longer by itself and a space, and repeats what has
\* been read in the chunk before.
LEMMA WithOverlapKeeps ==
  ASSUME NEW t, NEW b \in Nat, Bounded(t, b)
  PROVE  /\ Bounded(WithOverlap(t), b + Overlap + 1)
         /\ Same(FlattenSeq(WithOverlap(t)), FlattenSeq(t))
<1>0. /\ Overlap \in Nat /\ Len(t) \in Nat /\ t \in Seq(Str) /\ DOMAIN t = 1..Len(t)
      /\ \A i \in 1..Len(t) : t[i] \in Str /\ Len(t[i]) \in Nat /\ Len(t[i]) <= b
  BY ChunkerConstants DEF Bounded, Str
<1>1. CASE Overlap = 0
  <2>1. WithOverlap(t) = t
    BY <1>1 DEF WithOverlap
  <2>2. \A i \in 1..Len(t) : Len(t[i]) <= b + Overlap + 1
    BY <1>0
  <2> QED
    BY <1>0, <2>1, <2>2, SameSelf DEF Bounded
<1>2. CASE Overlap # 0
  <2> DEFINE tail(i) == LastChars(t[i - 1], Overlap)
             lead(i) == tail(i) \o <<Space>>
             both(i) == lead(i) \o t[i]
             w == [i \in 1..Len(t) |-> IF i = 1 THEN t[i] ELSE Strip(both(i))]
  <2>1. WithOverlap(t) = w
    BY <1>0, <1>2 DEF WithOverlap
  <2>2. ASSUME NEW i \in 1..Len(t), i # 1
        PROVE  /\ Strip(both(i)) \in Str
               /\ Len(Strip(both(i))) <= b + Overlap + 1
               /\ Same(Strip(both(i)), both(i))
               /\ lead(i) \in Str
               /\ \A c \in Letter : Has(lead(i), c) => Has(t[i - 1], c)
    <3>1. i - 1 \in 1..Len(t) /\ t[i] \in Str /\ t[i - 1] \in Str /\ Len(t[i - 1]) \in Nat
      BY <1>0, <2>2
    <3> DEFINE m == Max({1, Len(t[i - 1]) - Overlap + 1})
    <3>2. m \in 1..(Len(t[i - 1]) + 1) /\ m >= Len(t[i - 1]) - Overlap + 1
      <4> DEFINE x == Len(t[i - 1]) - Overlap + 1
      <4>1. x \in Int /\ x <= Len(t[i - 1]) + 1
        BY <1>0, <3>1
      <4> HIDE DEF x
      <4>2. \E y \in {1, x} : \A z \in {1, x} : y >= z
        BY <4>1
      <4>3. Max({1, x}) \in {1, x} /\ \A z \in {1, x} : Max({1, x}) >= z
        BY <4>2 DEF Max
      <4>4. Max({1, x}) \in Int /\ Max({1, x}) >= 1 /\ Max({1, x}) >= x
            /\ Max({1, x}) <= Len(t[i - 1]) + 1
        BY <3>1, <4>1, <4>3
      <4> QED
        BY <3>1, <4>4 DEF x
    <3>3. tail(i) = SubSeq(t[i - 1], m, Len(t[i - 1]))
      BY DEF LastChars
    <3> HIDE DEF m
    <3>4. /\ tail(i) \in Str
          /\ Len(tail(i)) <= Overlap /\ Len(tail(i)) \in Nat
          /\ \A c : Has(tail(i), c) => Has(t[i - 1], c)
      <4>1. /\ SubSeq(t[i - 1], m, Len(t[i - 1])) \in Str
            /\ Len(SubSeq(t[i - 1], m, Len(t[i - 1]))) =
                 IF m <= Len(t[i - 1]) THEN Len(t[i - 1]) - m + 1 ELSE 0
            /\ \A c : Has(SubSeq(t[i - 1], m, Len(t[i - 1])), c)
                      <=> \E j \in m..Len(t[i - 1]) : t[i - 1][j] = c
        <5>1. Len(t[i - 1]) \in 0..Len(t[i - 1])
          BY <3>1
        <5> QED
          BY <3>1, <3>2, <5>1, SubSeqHas
      <4>2. \A c : Has(SubSeq(t[i - 1], m, Len(t[i - 1])), c) => Has(t[i - 1], c)
        BY <3>1, <3>2, <4>1 DEF Has
      <4> QED
        BY <1>0, <3>1, <3>2, <3>3, <4>1, <4>2
    <3> HIDE DEF tail
    <3>5. <<Space>> \in Str /\ Len(<<Space>>) = 1 /\ <<Space>>[1] = 0
      BY DEF Space, Str
    <3>6. \A c \in Letter : ~Has(<<Space>>, c)
      BY <3>5 DEF Has, Letter
    <3>7. /\ lead(i) \in Str
          /\ Len(lead(i)) = Len(tail(i)) + 1
          /\ \A c : Has(lead(i), c) <=> Has(tail(i), c) \/ Has(<<Space>>, c)
      <4>1. tail(i) \o <<Space>> \in Str
            /\ \A c : Has(tail(i) \o <<Space>>, c) <=> Has(tail(i), c) \/ Has(<<Space>>, c)
        BY <3>4, <3>5, JoinHas DEF Str
      <4>2. Len(tail(i) \o <<Space>>) = Len(tail(i)) + 1
        BY <3>4, <3>5, ConcatProperties DEF Str
      <4> QED
        BY <4>1, <4>2
    <3> HIDE DEF lead
    <3>8. both(i) \in Str /\ Len(both(i)) = Len(tail(i)) + 1 + Len(t[i])
      <4>1. both(i) \in Str /\ Len(both(i)) = Len(lead(i)) + Len(t[i])
        BY <3>1, <3>7, ConcatProperties DEF Str
      <4> QED
        BY <3>7, <4>1
    <3> HIDE DEF both
    <3>9. /\ Strip(both(i)) \in Str
          /\ Len(Strip(both(i))) <= Len(both(i)) /\ Len(Strip(both(i))) \in Nat
          /\ Same(Strip(both(i)), both(i))
      <4>1. /\ Strip(both(i)) \in Str
            /\ Len(Strip(both(i))) <= Len(both(i))
            /\ Same(Strip(both(i)), both(i))
        BY <3>8, StripKeeps
      <4>2. Len(Strip(both(i))) \in Nat
        BY <4>1 DEF Str
      <4> QED
        BY <4>1, <4>2
    <3>10. Len(t[i]) \in Nat /\ Len(t[i]) <= b
      BY <1>0
    <3>11. Len(Strip(both(i))) <= b + Overlap + 1
      BY <1>0, <3>4, <3>8, <3>9, <3>10
    <3> QED
      BY <3>4, <3>6, <3>7, <3>8, <3>9, <3>11
  <2>3. /\ Len(w) = Len(t)
        /\ \A i \in 1..Len(t) : w[i] = IF i = 1 THEN t[i] ELSE Strip(both(i))
        /\ w \in Seq(Str)
    <3> HIDE DEF both
    <3>1. \A i \in 1..Len(t) : w[i] \in Str
      BY <1>0, <2>2
    <3>2. w \in [1..Len(t) -> Str]
      BY <3>1
    <3> QED
      BY <1>0, <3>2
  <2> HIDE DEF w, lead, tail
  <2>4. ASSUME NEW i \in 1..Len(t) PROVE Len(w[i]) <= b + Overlap + 1
    <3> HIDE DEF both
    <3> QED
      BY <1>0, <2>2, <2>3
  <2>5. t \in Seq(Seq(Int)) /\ w \in Seq(Seq(Int))
    BY <1>0, <2>3 DEF Str
  <2>6. PICK f : Joining(f, t, Int)
    BY <2>5, JoiningExists
  <2>7. PICK g : Joining(g, w, Int)
    BY <2>5, JoiningExists
  <2>8. FlattenSeq(t) = f[Len(t)] /\ FlattenSeq(w) = g[Len(t)]
    BY <2>3, <2>5, <2>6, <2>7, FlattenJoins
  <2>9. /\ \A i \in 0..Len(t) : f[i] \in Str /\ g[i] \in Str
        /\ f[0] = <<>> /\ g[0] = <<>>
        /\ \A i \in 1..Len(t) : f[i] = f[i - 1] \o t[i] /\ g[i] = g[i - 1] \o w[i]
    BY <2>3, <2>6, <2>7 DEF Joining, Str
  <2>10. \A i \in 0..Len(t) : \A x : Has(f[i], x) <=> \E h \in 1..i : Has(t[h], x)
    BY <2>5, <2>6, JoiningHas
  <2> DEFINE Good == {i \in 0..Len(t) : Same(g[i], f[i])}
  <2>11. 0 \in Good
    BY <1>0, <2>9, SameSelf
  <2>12. ASSUME NEW i \in 1..Len(t), i - 1 \in Good PROVE i \in Good
    <3>1. i \in 0..Len(t) /\ i - 1 \in 0..Len(t) /\ t[i] \in Str /\ w[i] \in Str
      BY <1>0, <2>3
    <3>2. f[i] = f[i - 1] \o t[i] /\ g[i] = g[i - 1] \o w[i] /\ f[i - 1] \in Str /\ g[i - 1] \in Str
      BY <2>9, <3>1
    <3>3. Same(g[i - 1], f[i - 1])
      BY <2>12
    <3>4. Same(f[i - 1] \o w[i], f[i])
      <4>1. CASE i = 1
        <5>1. w[i] = t[i]
          BY <2>3, <4>1
        <5> QED
          BY <3>2, <5>1, SameSelf, Zenon
      <4>2. CASE i # 1
        <5>1. w[i] = Strip(both(i)) /\ Same(w[i], both(i)) /\ lead(i) \in Str
              /\ \A c \in Letter : Has(lead(i), c) => Has(t[i - 1], c)
          <6>1. w[i] = Strip(both(i))
            <7> HIDE DEF both
            <7> QED
              BY <2>3, <4>2
          <6> HIDE DEF both
          <6> QED
            BY <2>2, <4>2, <6>1
        <5>2. both(i) = lead(i) \o t[i]
          OBVIOUS
        <5> HIDE DEF both
        <5>3. both(i) \in Str
          BY <3>1, <5>1, <5>2, JoinStr
        <5>4. Same(f[i - 1] \o w[i], f[i - 1] \o both(i))
          BY <3>1, <3>2, <5>1, <5>3, SameSelf, SameJoin
        <5>5. f[i - 1] \o both(i) = (f[i - 1] \o lead(i)) \o t[i]
          <6>1. f[i - 1] \in Str /\ lead(i) \in Str /\ t[i] \in Str
            BY <3>1, <3>2, <5>1
          <6>2. (f[i - 1] \o lead(i)) \o t[i] = f[i - 1] \o (lead(i) \o t[i])
            BY <6>1, StrGroups, Zenon
          <6> QED
            BY <5>2, <6>2, Zenon
        <5>6. \A c \in Letter : Has(lead(i), c) => Has(f[i - 1], c)
          <6>1. i - 1 \in 1..(i - 1)
            BY <4>2
          <6> QED
            BY <2>10, <3>1, <5>1, <6>1
        <5>7. Same(f[i - 1] \o lead(i), f[i - 1]) /\ f[i - 1] \o lead(i) \in Str
          BY <3>2, <5>1, <5>6, Repeats, JoinStr
        <5>8. Same((f[i - 1] \o lead(i)) \o t[i], f[i - 1] \o t[i])
          BY <3>1, <3>2, <5>7, SameSelf, SameJoin
        <5> QED
          BY <3>2, <5>4, <5>5, <5>8, SameThrough, Zenon
      <4> QED
        BY <4>1, <4>2
    <3>5. Same(g[i - 1] \o w[i], f[i - 1] \o w[i])
      BY <3>1, <3>2, <3>3, SameSelf, SameJoin
    <3>6. Same(g[i], f[i])
      BY <3>2, <3>4, <3>5, SameThrough, Zenon
    <3> QED
      BY <3>1, <3>6
  <2>13. Same(g[Len(t)], f[Len(t)])
    <3>1. \A i \in 0..Len(t) : i \in Good
      <4> HIDE DEF Good
      <4> QED
        BY <1>0, <2>11, <2>12, Steps
    <3>2. Len(t) \in 0..Len(t)
      BY <1>0
    <3>3. Len(t) \in Good
      <4> HIDE DEF Good
      <4> QED
        BY <3>1, <3>2
    <3> QED
      BY <3>3
  <2> QED
    BY <2>1, <2>3, <2>4, <2>8, <2>13 DEF Bounded
<1> QED
  BY <1>1, <1>2

\* The next start of a slice.
LEMMA NextMultiple ==
  ASSUME NEW x \in Nat, NEW y \in Nat, y >= 1, x % y = 0
  PROVE  (x + y) % y = 0
<1> DEFINE p == x \div y
           q == (x + y) \div y
           r == (x + y) % y
<1>1. x = y * p /\ p \in Int
  OBVIOUS
<1>2. x + y = y * q + r /\ r \in 0..(y - 1) /\ q \in Int
  OBVIOUS
<1> HIDE DEF p, q, r
<1>3. y * (p + 1 - q) = r
  BY <1>1, <1>2
<1>4. CASE p + 1 - q >= 1
  <2>1. y * (p + 1 - q) >= y
    BY <1>1, <1>2, <1>4
  <2> QED
    BY <1>1, <1>2, <1>3, <2>1
<1>5. CASE p + 1 - q <= -1
  <2>1. y * (p + 1 - q) <= -y
    BY <1>1, <1>2, <1>5
  <2> QED
    BY <1>1, <1>2, <1>3, <2>1
<1>6. CASE p + 1 - q = 0
  BY <1>3, <1>6 DEF r
<1> QED
  BY <1>1, <1>2, <1>4, <1>5, <1>6

\* A slice that starts within what has been read, or right after it, adds what
\* comes after that.
LEMMA NextSlice ==
  ASSUME NEW s \in Str, NEW i \in 1..Len(s), NEW d \in (i - 1)..Len(s), NEW e \in d..Len(s)
  PROVE  Same(SubSeq(s, 1, d) \o SubSeq(s, i, e), SubSeq(s, 1, e))
<1> DEFINE one == 1
           A == SubSeq(s, one, d)
           B == SubSeq(s, i, d)
           C == SubSeq(s, d + 1, e)
<1>0. /\ Len(s) \in Nat /\ i \in 1..(Len(s) + 1) /\ d \in 0..Len(s)
      /\ one \in 1..(Len(s) + 1) /\ d \in (one - 1)..Len(s)
  BY DEF Str
<1> HIDE DEF one
<1>1. A \in Str /\ C \in Str /\ A \o C = SubSeq(s, one, e)
  BY <1>0, Adjacent
<1>2. B \in Str /\ B \o C = SubSeq(s, i, e)
  BY <1>0, Adjacent
<1>3. ASSUME NEW c, Has(B, c) PROVE Has(A, c)
  <2>1. PICK j \in i..d : s[j] = c
    BY <1>0, <1>3, SubSeqHas
  <2>2. j \in one..d
    BY <1>0, <2>1 DEF one
  <2> QED
    BY <1>0, <2>1, <2>2, SubSeqHas
<1> HIDE DEF A, B, C
<1>4. Same(A \o B, A) /\ A \o B \in Str
  BY <1>1, <1>2, <1>3, Repeats, JoinStr
<1>5. Same((A \o B) \o C, A \o C)
  BY <1>1, <1>4, SameSelf, SameJoin
<1>6. (A \o B) \o C = A \o (B \o C)
  BY <1>1, <1>2, StrGroups, Zenon
<1>7. Same(A \o SubSeq(s, i, e), SubSeq(s, one, e))
  BY <1>1, <1>2, <1>5, <1>6, Zenon
<1> QED
  BY <1>7 DEF A, one

\* What the chunks of one more text add.
LEMMA FlattenMore ==
  ASSUME NEW f \in Seq(Str), NEW c \in Seq(Str), NEW a \in Str, NEW t \in Str,
         Keeps(f, a), Keeps(c, t)
  PROVE  Keeps(f \o c, a \o t)
<1>1. FlattenSeq(f \o c) = FlattenSeq(f) \o FlattenSeq(c)
  BY FlattenConcat DEF Str
<1>2. FlattenSeq(f) \in Str /\ FlattenSeq(c) \in Str
  BY FlattenHas DEF Str
<1>3. Same(FlattenSeq(f) \o FlattenSeq(c), a \o t)
  BY <1>2, SameJoin DEF Keeps
<1> QED
  BY <1>1, <1>3, Zenon DEF Keeps

\* The slices of the hard split cover the text, in its order.
LEMMA HardSplitKeeps ==
  ASSUME NEW s \in Str
  PROVE  Bounded(HardSplit(s), ChunkSize) /\ Keeps(HardSplit(s), s)
<1> DEFINE n == Len(s)
           step == ChunkSize - Overlap
           starts == {a \in DOMAIN s : /\ (a - 1) % step = 0
                                       /\ a = 1 \/ a + Overlap <= n}
           end(a) == Min({a + ChunkSize - 1, n})
           slice(a) == SubSeq(s, a, end(a))
           cs == [a \in DOMAIN s |-> IF a \in starts THEN Solid(slice(a)) ELSE <<>>]
<1>0. /\ n \in Nat /\ DOMAIN s = 1..n
      /\ step \in Nat /\ step >= 1
      /\ ChunkSize \in Nat /\ Overlap \in Nat /\ step = ChunkSize - Overlap
  BY ChunkerConstants DEF Str
<1>1. HardSplit(s) = FlattenSeq(cs)
  BY DEF HardSplit
<1>2. starts \subseteq 1..n
  BY <1>0
<1>3. ASSUME NEW a \in 1..n
      PROVE  end(a) \in a..n /\ end(a) <= a + ChunkSize - 1 /\ (end(a) = n \/ end(a) = a + ChunkSize - 1)
  <2> DEFINE x == a + ChunkSize - 1
  <2>1. x \in Int /\ x >= a
    BY <1>0
  <2> HIDE DEF x
  <2>2. \E y \in {x, n} : \A z \in {x, n} : y <= z
    BY <1>0, <2>1
  <2>3. Min({x, n}) \in {x, n} /\ \A z \in {x, n} : Min({x, n}) <= z
    BY <2>2 DEF Min
  <2>4. Min({x, n}) \in a..n /\ Min({x, n}) <= x /\ (Min({x, n}) = n \/ Min({x, n}) = x)
    BY <1>0, <2>1, <2>3
  <2> QED
    BY <2>4 DEF x
<1> HIDE DEF end
<1>4. ASSUME NEW a \in 1..n
      PROVE  /\ Bounded(Solid(slice(a)), ChunkSize)
             /\ Keeps(Solid(slice(a)), slice(a)) /\ slice(a) \in Str
  <2>1. /\ slice(a) \in Str
        /\ Len(slice(a)) = IF a <= end(a) THEN end(a) - a + 1 ELSE 0
    <3>1. a \in 1..(Len(s) + 1) /\ end(a) \in 0..Len(s)
      BY <1>0, <1>3
    <3> QED
      BY <3>1, SubSeqHas
  <2>2. Len(slice(a)) <= ChunkSize /\ Len(slice(a)) \in Nat
    BY <1>0, <1>3, <2>1
  <2> HIDE DEF slice
  <2>3. Bounded(Solid(slice(a)), Len(slice(a))) /\ Keeps(Solid(slice(a)), slice(a))
    BY <2>1, SolidKeeps
  <2>4. Bounded(Solid(slice(a)), ChunkSize)
    <3>1. Solid(slice(a)) \in Seq(Str) /\ \A k \in 1..Len(Solid(slice(a))) :
             Solid(slice(a))[k] \in Str /\ Len(Solid(slice(a))[k]) <= Len(slice(a))
      BY <2>3 DEF Bounded
    <3>2. \A k \in 1..Len(Solid(slice(a))) : Len(Solid(slice(a))[k]) \in Nat
      BY <3>1 DEF Str
    <3> QED
      BY <1>0, <2>2, <3>1, <3>2 DEF Bounded
  <2> QED
    BY <2>1, <2>3, <2>4
<1> HIDE DEF slice
<1>5. /\ cs \in Seq(Seq(Str)) /\ Len(cs) = n
      /\ \A a \in 1..n : cs[a] = IF a \in starts THEN Solid(slice(a)) ELSE <<>>
  <2>1. \A a \in 1..n : cs[a] = IF a \in starts THEN Solid(slice(a)) ELSE <<>>
    BY <1>0
  <2>2. \A a \in 1..n : cs[a] \in Seq(Str)
    BY <1>4, <2>1 DEF Bounded
  <2>3. cs \in [1..n -> Seq(Str)]
    BY <1>0, <2>2
  <2> QED
    BY <1>0, <2>1, <2>3
<1> HIDE DEF cs
<1>6. /\ FlattenSeq(cs) \in Seq(Str)
      /\ \A x : Has(FlattenSeq(cs), x) <=> \E a \in 1..n : Has(cs[a], x)
  BY <1>5, FlattenHas
<1>7. ASSUME NEW x, Has(FlattenSeq(cs), x) PROVE \E a \in starts : Has(Solid(slice(a)), x)
  <2>1. PICK a \in 1..n : Has(cs[a], x)
    BY <1>6, <1>7
  <2>2. ~Has(<<>>, x)
    BY DEF Has
  <2> QED
    BY <1>5, <2>1, <2>2
<1>9. Bounded(HardSplit(s), ChunkSize)
  <2>1. ASSUME NEW k \in 1..Len(FlattenSeq(cs)) PROVE Len(FlattenSeq(cs)[k]) <= ChunkSize
    <3>1. Has(FlattenSeq(cs), FlattenSeq(cs)[k])
      BY DEF Has
    <3>2. PICK a \in starts : Has(Solid(slice(a)), FlattenSeq(cs)[k])
      BY <1>7, <3>1
    <3>3. Bounded(Solid(slice(a)), ChunkSize)
      BY <1>2, <1>4
    <3> QED
      BY <3>2, <3>3 DEF Has, Bounded
  <2> QED
    BY <1>1, <1>6, <2>1 DEF Bounded
<1>10. PICK f : Joining(f, cs, Str)
  BY <1>5, JoiningExists
<1>11. FlattenSeq(cs) = f[n]
  BY <1>5, <1>10, FlattenJoins
<1>12. /\ \A i \in 0..n : f[i] \in Seq(Str)
       /\ f[0] = <<>>
       /\ \A i \in 1..n : f[i] = f[i - 1] \o cs[i]
  BY <1>5, <1>10 DEF Joining
<1> DEFINE front(e) == SubSeq(s, 1, e)
           From(i, e) == \E a \in starts : a <= i /\ e = end(a) /\ (e = n \/ i < a + step)
           Reached(i, e) == /\ e \in i..n
                            /\ Keeps(f[i], front(e))
                            /\ i = 0 => e = 0
                            /\ i # 0 => From(i, e)
           Good == {i \in 0..n : \E e \in 0..n : Reached(i, e)}
<1>13. \A e \in 0..n : front(e) \in Str
  <2>1. 1 \in 1..(n + 1)
    BY <1>0
  <2> QED
    BY <2>1, SubSeqHas
<1>14. 0 \in Good
  <2>1. front(0) = <<>>
    BY SubSeqEmpty
  <2> HIDE DEF front
  <2>2. Keeps(f[0], front(0))
    BY <1>12, <2>1, FlattenNone, SameSelf, Zenon DEF Keeps
  <2>3. 0 \in 0..n
    BY <1>0
  <2>4. Reached(0, 0)
    BY <2>2, <2>3
  <2> HIDE DEF Reached
  <2> QED
    BY <2>3, <2>4
<1>15. ASSUME NEW i \in 1..n, i - 1 \in Good PROVE i \in Good
  <2>0. i \in 0..n /\ i - 1 \in 0..n
    BY <1>0
  <2>1. PICK d \in 0..n : Reached(i - 1, d)
    <3> HIDE DEF Reached
    <3> QED
      BY <1>15
  <2>2. d \in (i - 1)..n /\ Keeps(f[i - 1], front(d)) /\ front(d) \in Str /\ f[i - 1] \in Seq(Str)
    BY <1>12, <1>13, <2>0, <2>1
  <2>3. i = 1 => d = 0
    BY <2>1
  <2>4. i # 1 => From(i - 1, d)
    <3>1. i # 1 => i - 1 # 0
      BY <1>0
    <3> HIDE DEF From
    <3> QED
      BY <2>1, <3>1
  <2>5. CASE i \in starts
    <3> DEFINE e == end(i)
    <3>1. e \in i..n /\ e \in 0..n
      BY <1>0, <1>3
    <3>2. d <= e
      <4>1. CASE i = 1
        BY <1>0, <2>3, <3>1, <4>1
      <4>2. CASE i # 1
        <5>1. PICK a \in starts : a <= i - 1 /\ d = end(a)
          BY <2>4, <4>2
        <5>2. a \in 1..n
          BY <1>2, <5>1
        <5>3. /\ d \in a..n /\ d <= a + ChunkSize - 1
              /\ e = n \/ e = i + ChunkSize - 1
          BY <1>3, <5>1, <5>2
        <5> QED
          BY <1>0, <3>1, <5>1, <5>2, <5>3
      <4> QED
        BY <4>1, <4>2
    <3>3. Keeps(cs[i], slice(i)) /\ slice(i) \in Str /\ cs[i] \in Seq(Str)
      BY <1>4, <1>5, <2>5 DEF Bounded
    <3>4. Keeps(f[i], front(d) \o slice(i))
      <4> HIDE DEF front
      <4>1. Keeps(f[i - 1] \o cs[i], front(d) \o slice(i))
        BY <2>2, <3>3, FlattenMore
      <4> QED
        BY <1>12, <4>1
    <3>5. Same(front(d) \o slice(i), front(e))
      <4>1. d \in (i - 1)..Len(s) /\ e \in d..Len(s)
        BY <1>0, <2>2, <3>1, <3>2
      <4>2. slice(i) = SubSeq(s, i, e)
        BY DEF slice
      <4> HIDE DEF e
      <4> QED
        BY <4>1, <4>2, NextSlice
    <3>6. Keeps(f[i], front(e))
      <4> HIDE DEF front
      <4> QED
        BY <3>4, <3>5, SameThrough, Zenon DEF Keeps
    <3>7. From(i, e)
      BY <1>0, <2>5
    <3>8. Reached(i, e)
      <4> HIDE DEF front, From, e
      <4> QED
        BY <1>0, <3>1, <3>6, <3>7
    <3> HIDE DEF Reached, e
    <3> QED
      BY <2>0, <3>1, <3>8
  <2>6. CASE i \notin starts
    <3>1. i # 1
      <4>1. 1 \in DOMAIN s /\ (1 - 1) % step = 0
        BY <1>0
      <4>2. 1 \in starts
        BY <4>1
      <4> QED
        BY <2>6, <4>2
    <3>2. PICK a \in starts : a <= i - 1 /\ d = end(a) /\ (d = n \/ i - 1 < a + step)
      BY <2>4, <3>1
    <3>3. a \in 1..n /\ (a - 1) % step = 0
      BY <1>2, <3>2
    <3>4. d \in a..n /\ (d = n \/ d = a + ChunkSize - 1)
      BY <1>3, <3>2, <3>3
    <3>5. d = n \/ i < a + step
      <4>1. SUFFICES ASSUME d # n, i = a + step PROVE FALSE
        BY <1>0, <3>2, <3>3
      <4>2. i + Overlap <= n /\ i \in DOMAIN s /\ i - 1 = (a - 1) + step
        <5> HIDE DEF step, starts, n
        <5>1. d = a + ChunkSize - 1 /\ d \in a..n /\ a \in 1..n
          BY <3>3, <3>4, <4>1
        <5>2. step = ChunkSize - Overlap
          BY <1>0
        <5> QED
          BY <1>0, <4>1, <5>1, <5>2
      <4>3. (i - 1) % step = 0
        <5>1. a - 1 \in Nat /\ step \in Nat /\ step >= 1
          BY <1>0, <3>3
        <5>2. i - 1 = (a - 1) + step
          BY <4>2
        <5> HIDE DEF step
        <5>3. ((a - 1) + step) % step = 0
          BY <3>3, <5>1, NextMultiple
        <5> QED
          BY <5>2, <5>3
      <4> HIDE DEF step, n
      <4>4. i \in starts
        BY <4>2, <4>3
      <4> QED
        BY <2>6, <4>4
    <3>6. d \in i..n
      <4> HIDE DEF step, starts, n
      <4>1. d \in a..n /\ a \in 1..n /\ i \in 1..n
        BY <3>3, <3>4
      <4>2. d = n \/ d >= i
        <5>1. d = n \/ (d = a + ChunkSize - 1 /\ i < a + step)
          BY <3>4, <3>5
        <5> QED
          BY <1>0, <4>1, <5>1
      <4> QED
        BY <1>0, <4>1, <4>2
    <3>7. f[i] = f[i - 1]
      <4>1. cs[i] = <<>>
        BY <1>5, <2>6
      <4>2. f[i - 1] \o <<>> = f[i - 1]
        BY <2>2, ConcatEmptySeq
      <4> QED
        BY <1>12, <4>1, <4>2
    <3>8. From(i, d)
      <4>1. a <= i
        BY <1>0, <3>2, <3>3
      <4> HIDE DEF starts, step
      <4> QED
        BY <3>2, <3>5, <4>1
    <3>9. Reached(i, d)
      <4> HIDE DEF front, From
      <4> QED
        BY <1>0, <2>2, <3>6, <3>7, <3>8
    <3> HIDE DEF Reached
    <3> QED
      BY <2>0, <3>9
  <2> QED
    BY <2>5, <2>6
<1>16. Keeps(HardSplit(s), s)
  <2>1. \A i \in 0..n : i \in Good
    <3> HIDE DEF Good, n
    <3> QED
      BY <1>0, <1>14, <1>15, Steps
  <2>2. n \in 0..n
    BY <1>0
  <2>3. PICK e \in 0..n : Reached(n, e)
    <3> HIDE DEF Reached
    <3> QED
      BY <2>1, <2>2
  <2>4. e = n /\ Keeps(f[n], front(e))
    <3>1. e \in n..n /\ Keeps(f[n], front(e))
      BY <2>3
    <3> HIDE DEF n, front
    <3> QED
      BY <1>0, <3>1
  <2>5. front(n) = s
    BY Whole
  <2> HIDE DEF front
  <2> QED
    BY <1>1, <1>11, <2>4, <2>5, Zenon
<1> QED
  BY <1>9, <1>16

\* One level of the recursion, whatever splits the pieces that are too long:
\* the chunks of a text are those of its pieces, with their overlaps.
LEMMA LevelKeeps ==
  ASSUME NEW s \in Str, NEW sep, Blank(sep), NEW b \in Nat, NEW cs,
         DOMAIN cs = DOMAIN Pieces(s, sep), cs = [i \in DOMAIN cs |-> cs[i]],
         \A i \in DOMAIN cs : Bounded(cs[i], b) /\ Keeps(cs[i], Pieces(s, sep)[i])
  PROVE  /\ Bounded(WithOverlap(FlattenSeq(cs)), b + Overlap + 1)
         /\ Keeps(WithOverlap(FlattenSeq(cs)), s)
<1> DEFINE pieces == Pieces(s, sep)
           n == Len(pieces)
           flat == FlattenSeq(cs)
<1>1. pieces \in Seq(Str) /\ Keeps(pieces, s)
  BY PiecesKeep
<1>2. DOMAIN cs = 1..n /\ n \in Nat
  <2> HIDE DEF pieces
  <2>1. DOMAIN pieces = 1..n /\ n \in Nat
    BY <1>1
  <2> QED
    BY <2>1 DEF pieces
<1>3. \A i \in 1..n : cs[i] \in Seq(Str) /\ Bounded(cs[i], b) /\ Keeps(cs[i], pieces[i])
  BY <1>2 DEF Bounded
<1> HIDE DEF pieces, n
<1>4. cs \in Seq(Seq(Str)) /\ Len(cs) = n
  <2>1. cs \in [1..n -> Seq(Str)]
    BY <1>2, <1>3
  <2> QED
    BY <1>2, <2>1
<1>5. /\ flat \in Seq(Str)
      /\ \A x : Has(flat, x) <=> \E i \in 1..n : Has(cs[i], x)
  BY <1>4, FlattenHas
<1>6. Bounded(flat, b)
  <2>1. ASSUME NEW k \in 1..Len(flat) PROVE Len(flat[k]) <= b
    <3>1. Has(flat, flat[k])
      BY DEF Has
    <3>2. PICK i \in 1..n : Has(cs[i], flat[k])
      BY <1>5, <3>1
    <3> QED
      BY <1>3, <3>2 DEF Has, Bounded
  <2> QED
    BY <1>5, <2>1 DEF Bounded
<1>7. PICK f : Joining(f, cs, Str)
  BY <1>4, JoiningExists
<1>8. PICK g : Joining(g, pieces, Int)
  BY <1>1, JoiningExists DEF Str
<1>9. flat = f[n] /\ FlattenSeq(pieces) = g[n]
  <2>1. pieces \in Seq(Seq(Int)) /\ n = Len(pieces)
    BY <1>1 DEF Str, n
  <2>2. FlattenSeq(cs) = f[n]
    BY <1>4, <1>7, FlattenJoins
  <2>3. FlattenSeq(pieces) = g[n]
    BY <1>8, <2>1, FlattenJoins
  <2> QED
    BY <2>2, <2>3
<1>10. /\ \A i \in 0..n : f[i] \in Seq(Str) /\ g[i] \in Str
       /\ f[0] = <<>> /\ g[0] = <<>>
       /\ \A i \in 1..n : f[i] = f[i - 1] \o cs[i] /\ g[i] = g[i - 1] \o pieces[i]
  BY <1>4, <1>7, <1>8 DEF Joining, Str, n
<1>11. \A i \in 1..n : pieces[i] \in Str
  BY <1>1 DEF n
<1> DEFINE Good == {i \in 0..n : Keeps(f[i], g[i])}
<1>12. 0 \in Good
  BY <1>2, <1>10, FlattenNone, SameSelf DEF Keeps
<1>13. ASSUME NEW i \in 1..n, i - 1 \in Good PROVE i \in Good
  <2>1. i \in 0..n /\ i - 1 \in 0..n
    BY <1>2
  <2>2. Keeps(f[i - 1], g[i - 1]) /\ Keeps(cs[i], pieces[i])
    BY <1>3, <1>13
  <2>3. f[i - 1] \in Seq(Str) /\ g[i - 1] \in Str /\ cs[i] \in Seq(Str) /\ pieces[i] \in Str
    BY <1>3, <1>10, <1>11, <2>1
  <2>4. Keeps(f[i - 1] \o cs[i], g[i - 1] \o pieces[i])
    BY <2>2, <2>3, FlattenMore
  <2>5. Keeps(f[i], g[i])
    BY <1>10, <2>4
  <2> QED
    BY <2>1, <2>5
<1>14. Keeps(flat, FlattenSeq(pieces))
  <2>1. n \in 0..n
    BY <1>2
  <2>2. \A i \in 0..n : i \in Good
    <3> HIDE DEF Good
    <3> QED
      BY <1>2, <1>12, <1>13, Steps
  <2>3. n \in Good
    <3> HIDE DEF Good
    <3> QED
      BY <2>1, <2>2
  <2> HIDE DEF flat
  <2> QED
    BY <1>9, <2>3
<1>15. /\ Bounded(WithOverlap(flat), b + Overlap + 1)
       /\ Same(FlattenSeq(WithOverlap(flat)), FlattenSeq(flat))
  <2> HIDE DEF flat
  <2> QED
    BY <1>6, WithOverlapKeeps
<1>16. Same(FlattenSeq(WithOverlap(flat)), s)
  <2> HIDE DEF flat
  <2> QED
    BY <1>1, <1>14, <1>15, SameThrough, Zenon DEF Keeps
<1> QED
  BY <1>15, <1>16 DEF Keeps

\* The chunks of a blank text, and of a piece that fits.
LEMMA NothingToSplit ==
  ASSUME NEW s \in Str, Strip(s) = <<>>, NEW b \in Nat
  PROVE  Bounded(<<>>, b) /\ Keeps(<<>>, s)
<1>1. Same(<<>>, s)
  BY StripKeeps
<1> QED
  BY <1>1, FlattenNone DEF Bounded, Keeps

LEMMA SolidFits ==
  ASSUME NEW s \in Str, NEW b \in Nat, Len(s) <= ChunkSize, ChunkSize <= b
  PROVE  Bounded(Solid(s), b) /\ Keeps(Solid(s), s)
<1>1. /\ Bounded(Solid(s), Len(s))
      /\ Keeps(Solid(s), s)
  BY SolidKeeps
<1>2. Solid(s) \in Seq(Str) /\ \A k \in 1..Len(Solid(s)) :
         Solid(s)[k] \in Str /\ Len(Solid(s)[k]) <= Len(s)
  BY <1>1 DEF Bounded
<1>3. \A k \in 1..Len(Solid(s)) : Len(Solid(s)[k]) \in Nat
  BY <1>2 DEF Str
<1>4. Len(s) \in Nat /\ ChunkSize \in Nat
  BY ChunkerConstants DEF Str
<1> QED
  BY <1>1, <1>2, <1>3, <1>4 DEF Bounded

\* A level whose too long pieces are split well splits well, with its overlap.
SplitWell(finer, b) == \A p \in Str : Bounded(finer[p], b) /\ Keeps(finer[p], p)

LEMMA SplitByKeeps ==
  ASSUME NEW sep, Blank(sep), NEW b \in Nat, ChunkSize <= b, NEW finer, SplitWell(finer, b),
         NEW s \in Str
  PROVE  Bounded(SplitBy(s, sep, finer), b + Overlap + 1) /\ Keeps(SplitBy(s, sep, finer), s)
<1>0. b + Overlap + 1 \in Nat
  BY ChunkerConstants
<1>1. CASE Strip(s) = <<>>
  BY <1>0, <1>1, NothingToSplit DEF SplitBy
<1>2. CASE Strip(s) # <<>>
  <2> DEFINE pieces == Pieces(s, sep)
             cs == [i \in DOMAIN pieces |-> IF Len(pieces[i]) <= ChunkSize THEN Solid(pieces[i])
                                            ELSE finer[pieces[i]]]
  <2>1. SplitBy(s, sep, finer) = WithOverlap(FlattenSeq(cs))
    BY <1>2 DEF SplitBy
  <2>2. \A i \in DOMAIN pieces : pieces[i] \in Str
    <3>1. pieces \in Seq(Str)
      BY PiecesKeep
    <3> HIDE DEF pieces
    <3> QED
      BY <3>1
  <2>3. ASSUME NEW i \in DOMAIN pieces PROVE Bounded(cs[i], b) /\ Keeps(cs[i], pieces[i])
    <3>1. pieces[i] \in Str
      BY <2>2
    <3> HIDE DEF pieces
    <3>2. CASE Len(pieces[i]) <= ChunkSize
      BY <3>1, <3>2, SolidFits
    <3>3. CASE ~(Len(pieces[i]) <= ChunkSize)
      BY <3>1, <3>3 DEF SplitWell
    <3> QED
      BY <3>2, <3>3
  <2>4. DOMAIN cs = DOMAIN Pieces(s, sep) /\ cs = [i \in DOMAIN cs |-> cs[i]]
    OBVIOUS
  <2>5. \A i \in DOMAIN cs : Bounded(cs[i], b) /\ Keeps(cs[i], Pieces(s, sep)[i])
    BY <2>3
  <2> HIDE DEF cs, pieces
  <2>6. /\ Bounded(WithOverlap(FlattenSeq(cs)), b + Overlap + 1)
        /\ Keeps(WithOverlap(FlattenSeq(cs)), s)
    BY <2>4, <2>5, LevelKeeps
  <2> QED
    BY <2>1, <2>6
<1> QED
  BY <1>1, <1>2

LEMMA SeparatorsBlank ==
  /\ Separators[1] = <<Newline, Newline>> /\ Blank(<<Newline, Newline>>)
  /\ Separators[2] = <<Newline>> /\ Blank(<<Newline>>)
  /\ Separators[3] = <<Space>> /\ Blank(<<Space>>)
  /\ Len(Separators) = 3
  BY DEF Separators, Blank, Newline, Space, Str

\* The three levels, from the last separator to the first.
LEMMA SpacesKeep ==
  ASSUME NEW s \in Str
  PROVE  Bounded(SplitBySpaces(s), ChunkSize + Overlap + 1) /\ Keeps(SplitBySpaces(s), s)
<1> DEFINE finer == [p \in Str |-> HardSplit(p)]
           b == ChunkSize
<1>1. SplitWell(finer, b)
  BY HardSplitKeeps DEF SplitWell
<1>2. SplitBySpaces(s) = SplitBy(s, <<Space>>, finer) /\ Blank(<<Space>>)
  BY SeparatorsBlank DEF SplitBySpaces
<1>3. b \in Nat /\ ChunkSize <= b /\ b + Overlap + 1 = ChunkSize + Overlap + 1
  BY ChunkerConstants
<1> HIDE DEF finer, b
<1>4. /\ Bounded(SplitBy(s, <<Space>>, finer), b + Overlap + 1)
      /\ Keeps(SplitBy(s, <<Space>>, finer), s)
  BY <1>1, <1>2, <1>3, SplitByKeeps
<1> QED
  BY <1>2, <1>3, <1>4

LEMMA LinesKeep ==
  ASSUME NEW s \in Str
  PROVE  Bounded(SplitByLines(s), ChunkSize + 2 * (Overlap + 1)) /\ Keeps(SplitByLines(s), s)
<1> DEFINE finer == [p \in Str |-> SplitBySpaces(p)]
           b == ChunkSize + Overlap + 1
<1>1. SplitWell(finer, b)
  BY SpacesKeep DEF SplitWell
<1>2. SplitByLines(s) = SplitBy(s, <<Newline>>, finer) /\ Blank(<<Newline>>)
  BY SeparatorsBlank DEF SplitByLines
<1>3. b \in Nat /\ ChunkSize <= b /\ b + Overlap + 1 = ChunkSize + 2 * (Overlap + 1)
  BY ChunkerConstants
<1> HIDE DEF finer, b
<1>4. /\ Bounded(SplitBy(s, <<Newline>>, finer), b + Overlap + 1)
      /\ Keeps(SplitBy(s, <<Newline>>, finer), s)
  BY <1>1, <1>2, <1>3, SplitByKeeps
<1> QED
  BY <1>2, <1>3, <1>4

LEMMA RecursiveSplitKeeps ==
  ASSUME NEW s \in Str
  PROVE  Bounded(RecursiveSplit(s), ChunkSize + 3 * (Overlap + 1)) /\ Keeps(RecursiveSplit(s), s)
<1> DEFINE finer == [p \in Str |-> SplitByLines(p)]
           b == ChunkSize + 2 * (Overlap + 1)
<1>1. SplitWell(finer, b)
  BY LinesKeep DEF SplitWell
<1>2. RecursiveSplit(s) = SplitBy(s, <<Newline, Newline>>, finer) /\ Blank(<<Newline, Newline>>)
  BY SeparatorsBlank DEF RecursiveSplit
<1>3. b \in Nat /\ ChunkSize <= b /\ b + Overlap + 1 = ChunkSize + 3 * (Overlap + 1)
  BY ChunkerConstants
<1> HIDE DEF finer, b
<1>4. /\ Bounded(SplitBy(s, <<Newline, Newline>>, finer), b + Overlap + 1)
      /\ Keeps(SplitBy(s, <<Newline, Newline>>, finer), s)
  BY <1>1, <1>2, <1>3, SplitByKeeps
<1> QED
  BY <1>2, <1>3, <1>4

\* The chunker as a whole.
LEMMA ChunkTextKeeps ==
  ASSUME NEW s \in Str
  PROVE  /\ Bounded(ChunkText(s), ChunkSize + Len(Separators) * (Overlap + 1))
         /\ Keeps(ChunkText(s), s)
<1>0. /\ ChunkSize \in Nat /\ Overlap \in Nat /\ Len(s) \in Nat
      /\ Len(Separators) * (Overlap + 1) = 3 * (Overlap + 1)
      /\ ChunkSize + 3 * (Overlap + 1) \in Nat
  BY ChunkerConstants, SeparatorsBlank DEF Str
<1>1. CASE Len(s) > ChunkSize
  <2>1. ChunkText(s) = RecursiveSplit(s)
    BY <1>1 DEF ChunkText
  <2> QED
    BY <1>0, <2>1, RecursiveSplitKeeps
<1>2. CASE ~(Len(s) > ChunkSize) /\ Strip(s) = <<>>
  <2>1. ChunkText(s) = <<>>
    BY <1>2 DEF ChunkText
  <2> QED
    BY <1>0, <1>2, <2>1, NothingToSplit
<1>3. CASE ~(Len(s) > ChunkSize) /\ Strip(s) # <<>>
  <2>1. ChunkText(s) = <<s>>
    BY <1>3 DEF ChunkText
  <2>2. <<s>> \in Seq(Str) /\ Len(<<s>>) = 1 /\ <<s>>[1] = s
    OBVIOUS
  <2>3. Bounded(<<s>>, ChunkSize + 3 * (Overlap + 1))
    BY <1>0, <1>3, <2>2 DEF Bounded
  <2>4. Keeps(<<s>>, s)
    <3>1. FlattenSeq(<<s>>) = s
      BY FlattenOne DEF Str
    <3> QED
      BY <3>1, SameSelf DEF Keeps
  <2> QED
    BY <1>0, <2>1, <2>3, <2>4
<1> QED
  BY <1>1, <1>2, <1>3

(***************************************************************************)
(* The stores                                                              *)
(***************************************************************************)
\* An upload that has not reached its commit has no rows, and no delete can
\* have found its document.
Early == {"new", "stored", "embedded"}

Types ==
    /\ DocTypeOK
    /\ chunks = [u \in Uploads |-> chunks[u]]

NotYetVisible ==
    /\ \A u \in Uploads : upload[u] \in Early => u \notin documents
    /\ \A d \in Deletes : delete[d] \in {"found", "removed", "deleted", "failed"}
                             => upload[target[d]] \notin Early

\* From the put on the file is there, and from the commit on the rows are,
\* unless a delete has reached MinIO.
Kept ==
    \A u \in Uploads : Removing(u) = {} =>
       /\ upload[u] \in {"stored", "embedded", "committed", "done"} => u \in objects
       /\ upload[u] \in {"committed", "done"} => u \in documents

IInv ==
    /\ Types
    /\ NotYetVisible
    /\ RowsWhole
    /\ Kept
    /\ FileBehindRow
    /\ DeletedIsGone

LEMMA InitEstablishes == Init => IInv
  BY DEF Init, IInv, Types, DocTypeOK, UploadStates, DeleteStates, NotYetVisible, Early,
     RowsWhole, Kept, FileBehindRow, DeletedIsGone

\* The steps of an upload leave the deletes alone.
LEMMA UploadStep ==
  ASSUME IInv, NEW u \in Uploads,
         \/ PutObject(u) \/ PutFails(u) \/ Embed(u) \/ EmbedFails(u) \/ Commit(u)
         \/ CommitFails(u) \/ Refresh(u) \/ RefreshFails(u) \/ UploadLost(u)
  PROVE  IInv'
<1> USE DEF IInv, Types, DocTypeOK, UploadStates, DeleteStates, UploadMoves
<1>1. \A v \in Uploads : Removing(v)' = Removing(v)
  BY DEF PutObject, PutFails, Embed, EmbedFails, Commit, CommitFails, Refresh, RefreshFails,
         UploadLost, Removing
<1>2. Types'
  BY DEF PutObject, PutFails, Embed, EmbedFails, Commit, CommitFails, Refresh, RefreshFails,
         UploadLost, Insert
<1>3. NotYetVisible'
  BY DEF NotYetVisible, Early, PutObject, PutFails, Embed, EmbedFails, Commit, CommitFails,
         Refresh, RefreshFails, UploadLost, Insert
<1>4. RowsWhole'
  BY DEF RowsWhole, NotYetVisible, Early, PutObject, PutFails, Embed, EmbedFails, Commit,
         CommitFails, Refresh, RefreshFails, UploadLost, Insert
<1>5. Kept'
  BY <1>1 DEF Kept, PutObject, PutFails, Embed, EmbedFails, Commit, CommitFails,
         Refresh, RefreshFails, UploadLost, Insert
<1>6. FileBehindRow'
  BY <1>1 DEF FileBehindRow, Kept, PutObject, PutFails, Embed, EmbedFails, Commit,
         CommitFails, Refresh, RefreshFails, UploadLost, Insert
<1>7. DeletedIsGone'
  BY DEF DeletedIsGone, NotYetVisible, Early, PutObject, PutFails, Embed, EmbedFails, Commit,
         CommitFails, Refresh, RefreshFails, UploadLost, Insert
<1> QED
  BY <1>2, <1>3, <1>4, <1>5, <1>6, <1>7

\* The steps of a delete leave the uploads alone; from RemoveObject on the
\* delete counts as removing its document.
LEMMA DeleteStep ==
  ASSUME IInv, NEW d \in Deletes,
         \/ FindDocument(d) \/ RemoveObject(d) \/ CommitDelete(d)
         \/ CommitDeleteFails(d) \/ DeleteLost(d)
  PROVE  IInv'
<1> USE DEF IInv, Types, DocTypeOK, UploadStates, DeleteStates, DeleteMoves
<1>1. \A v \in Uploads : Removing(v) \subseteq Removing(v)'
  BY DEF FindDocument, RemoveObject, CommitDelete, CommitDeleteFails, DeleteLost, Removing
<1>2. ASSUME delete[d] = "found", delete'[d] = "removed"
      PROVE  d \in Removing(target[d])'
  BY <1>2 DEF Removing, FindDocument, RemoveObject, CommitDelete, CommitDeleteFails, DeleteLost
<1>3. ASSUME delete[d] = "removed" PROVE d \in Removing(target[d])
  BY <1>3 DEF Removing
<1>4. Types'
  BY DEF FindDocument, RemoveObject, CommitDelete, CommitDeleteFails, DeleteLost, DeleteRows
<1>5. NotYetVisible'
  BY DEF NotYetVisible, Early, FindDocument, RemoveObject, CommitDelete, CommitDeleteFails,
         DeleteLost, DeleteRows
<1>6. RowsWhole'
  BY DEF RowsWhole, FindDocument, RemoveObject, CommitDelete, CommitDeleteFails, DeleteLost,
         DeleteRows
<1>7. Kept'
  BY <1>1, <1>2, <1>3 DEF Kept, FindDocument, RemoveObject, CommitDelete, CommitDeleteFails,
         DeleteLost, DeleteRows
<1>8. FileBehindRow'
  BY <1>1, <1>2, <1>3 DEF FileBehindRow, FindDocument, RemoveObject, CommitDelete,
         CommitDeleteFails, DeleteLost, DeleteRows
<1>9. DeletedIsGone'
  BY DEF DeletedIsGone, FindDocument, RemoveObject, CommitDelete, CommitDeleteFails,
         DeleteLost, DeleteRows
<1> QED
  BY <1>4, <1>5, <1>6, <1>7, <1>8, <1>9

LEMMA StutterStep == IInv /\ UNCHANGED vars => IInv'
  BY DEF vars, IInv, Types, DocTypeOK, NotYetVisible, RowsWhole, Kept, FileBehindRow,
     DeletedIsGone, Removing

LEMMA Invariance == Spec => []IInv
<1>1. IInv /\ [Next]_vars => IInv'
  BY UploadStep, DeleteStep, StutterStep DEF Next
<1> QED
  BY InitEstablishes, <1>1, PTL DEF Spec

\* Objects and rows are of uploads, and uploads and deletes keep to their states.
THEOREM DocTypeCorrect == Spec => []DocTypeOK
<1>1. IInv => DocTypeOK
  BY DEF IInv, Types
<1> QED
  BY Invariance, <1>1, PTL

\* Search and listing find whole documents only (ingest's one transaction and
\* the cascade of the delete).
THEOREM RowsWholeHolds == Spec => []RowsWhole
  BY Invariance, PTL DEF IInv

\* Only a delete that reached MinIO leaves a row without its file.
THEOREM FileBehindRowHolds == Spec => []FileBehindRow
  BY Invariance, PTL DEF IInv

\* What was acknowledged to the uploader stays until somebody deletes it.
THEOREM DurableHolds == Spec => []Durable
<1>1. IInv => Durable
  BY DEF IInv, Kept, Durable
<1> QED
  BY Invariance, <1>1, PTL

\* What was acknowledged to a deleter never comes back.
THEOREM DeletedIsGoneHolds == Spec => []DeletedIsGone
  BY Invariance, PTL DEF IInv

\* The rows of a document in the database.
LEMMA ChunksKeep == IInv => \A u \in documents :
                       /\ Bounded(chunks[u], ChunkSize + Len(Separators) * (Overlap + 1))
                       /\ Keeps(chunks[u], text[u])
<1> SUFFICES ASSUME IInv, NEW u \in documents
             PROVE  /\ Bounded(chunks[u], ChunkSize + Len(Separators) * (Overlap + 1))
                    /\ Keeps(chunks[u], text[u])
  OBVIOUS
<1>1. chunks[u] = ChunkText(text[u]) /\ text[u] \in Str
  BY TextsAreStrings DEF IInv, Types, DocTypeOK, RowsWhole, Str
<1> QED
  BY <1>1, ChunkTextKeeps

\* The overlaps of the nested splits add up to one overlap and one space per
\* level and no more, for every text, chunk size and overlap (ingest.py,
\* _recursive_split).
THEOREM ChunksBoundedHolds == Spec => []ChunksBounded
<1>1. IInv => ChunksBounded
  <2> SUFFICES ASSUME IInv, NEW u \in documents, NEW i \in DOMAIN chunks[u]
               PROVE  Len(chunks[u][i]) <= ChunkSize + Len(Separators) * (Overlap + 1)
    BY DEF ChunksBounded
  <2>1. Bounded(chunks[u], ChunkSize + Len(Separators) * (Overlap + 1))
    BY ChunksKeep
  <2> QED
    BY <2>1 DEF Bounded
<1> QED
  BY Invariance, <1>1, PTL

\* What the chunks keep of a text, in the terms of the chunker's contract.
LEMMA KeepsSpells ==
  ASSUME NEW t \in Seq(Str), NEW s \in Str, Keeps(t, s)
  PROVE  Spells(t, s)
<1> DEFINE read == FlattenSeq(t)
<1>1. read \in Str /\ Same(read, s)
  BY FlattenHas DEF Keeps, Str
<1>2. ASSUME NEW a \in Str PROVE \A x : x \in Letters(a) <=> x \in Letter /\ Has(a, x)
  <2>1. Len(a) \in Nat /\ DOMAIN a = 1..Len(a) /\ \A i \in 1..Len(a) : a[i] \in Int
    BY DEF Str
  <2> QED
    BY <2>1 DEF Letters, Letter, Has
<1> HIDE DEF read
<1>3. Letters(read) = Letters(s)
  <2>1. \A x : x \in Letters(read) <=> x \in Letters(s)
    BY <1>1, <1>2, Zenon DEF Same
  <2> QED
    BY <2>1
<1>4. \A x, y \in Letters(s) : Leads(read, x, y) <=> Leads(s, x, y)
  BY <1>1, <1>2, Zenon DEF Same
<1> QED
  BY <1>3, <1>4 DEF Spells, read

\* Whichever separators split a text, wherever the hard split cuts it and
\* whatever the overlaps repeat, the rows of a document show every letter of its
\* text, each for the first time in the order of the text: search loses and
\* reorders nothing (ingest.py, _chunk_text).
THEOREM TextSearchableHolds == Spec => []TextSearchable
<1>1. IInv => TextSearchable
  <2> SUFFICES ASSUME IInv, NEW u \in documents PROVE Spells(chunks[u], text[u])
    BY DEF TextSearchable
  <2>1. /\ Bounded(chunks[u], ChunkSize + Len(Separators) * (Overlap + 1))
        /\ Keeps(chunks[u], text[u])
    BY ChunksKeep
  <2>2. text[u] \in Str
    BY TextsAreStrings DEF IInv, Types, DocTypeOK
  <2> QED
    BY <2>1, <2>2, KeepsSpells DEF Bounded
<1> QED
  BY Invariance, <1>1, PTL
=============================================================================
