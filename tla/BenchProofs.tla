---------------------------- MODULE BenchProofs ----------------------------
(***************************************************************************)
(* What a measurement counts and what a comparison concludes, for any      *)
(* manifest, any guests and any threshold.                                 *)
(***************************************************************************)
EXTENDS Bench, FiniteSetTheorems, SequenceTheorems, WellFoundedInduction, TLAPS

Files   == [out : {g[row].out : g \in Guests, row \in BenchRows}, fresh : BOOLEAN]
Results == [label : {row.label : row \in BenchRows}, ok : BOOLEAN, steps : Int]

\* The place of the n-th result: row, variant, and the file of the two.
IndexOf(n)   == ((n - 1) \div Len(elfs)) + 1
VariantOf(n) == ((n - 1) % Len(elfs)) + 1
StemOf(n)    == Stem(VariantOf(n), IndexOf(n))

\* A run has as many results as it has turns.
Running ==
  /\ selected \in Seq(BenchRows) /\ Len(selected) <= Len(Manifest)
  /\ elfs \in Seq(Guests) /\ Len(elfs) <= 2 /\ (selected # <<>> => elfs # <<>>)
  /\ turn \in Seq(Results) /\ Len(turn) <= Len(selected) * Len(elfs)
  /\ outFile \in [Stems -> Files \cup {Absent}]

\* A file that this run has not come to is none of its own.
Stale(s) == outFile[s] = Absent \/ ~outFile[s].fresh
Reached  == selected # <<>> => \A s \in Stems : Stale(s) \/ \E n \in DOMAIN turn : s = StemOf(n)

\* A status is about the snapshots that are there.
Snapshots == old \in Seq(Results) \cup {Absent} /\ new \in Seq(Results) \cup {Absent}
Compared  == status = 0 => CompareStatus(old, new) = 0

Inv == Running /\ Reached /\ OnlyLeftoversMislead /\ Snapshots /\ Compared

-----------------------------------------------------------------------------
(***************************************************************************)
(* Sums.                                                                   *)
(***************************************************************************)
\* Every nonempty set of numbers has a least.
LEMMA LeastOne ==
  ASSUME NEW T, T \subseteq Nat, T # {}
  PROVE  \E m \in T : \A k \in T : m <= k
<1>1. PICK x \in T : \A y \in T : ~ (<<y, x>> \in OpToRel(<, Nat))
  BY WFMin, NatLessThanWellFounded
<1>2. \A y \in T : ~ (y < x)
  BY <1>1 DEF OpToRel
<1> QED BY <1>2

\* What holds of no number and, with a number, of the next, holds of all up to N.
LEMMA Upwards ==
  ASSUME NEW N \in Nat, NEW S, 0 \in S, \A n \in 1 .. N : n - 1 \in S => n \in S
  PROVE  \A n \in 0 .. N : n \in S
<1> DEFINE bad == {n \in 0 .. N : n \notin S}
<1>1. ASSUME bad # {} PROVE FALSE
  <2>1. PICK m \in bad : \A k \in bad : m <= k
    <3>1. bad \subseteq Nat
      OBVIOUS
    <3> HIDE DEF bad
    <3> QED BY <1>1, <3>1, LeastOne
  <2>2. m # 0 /\ m \in 1 .. N
    OBVIOUS
  <2>3. m - 1 \notin bad /\ m - 1 \in 0 .. N
    BY <2>1, <2>2
  <2> QED BY <2>2, <2>3
<1> QED BY <1>1

\* g holds the sums of the first elements of f.
Upto(f, N, g) == g = [n \in 0 .. N |-> IF n = 0 THEN 0 ELSE f[n] + g[n - 1]]

LEMMA SumsExist ==
  ASSUME NEW N \in Nat, NEW f \in [1 .. N -> Int]
  PROVE  \E g \in [0 .. N -> Int] : Upto(f, N, g)
<1> DEFINE F(g, n) == IF n = 0 THEN 0 ELSE f[n] + g[n - 1]
           S == {n \in 0 .. N : \E g \in [0 .. n -> Int] : Upto(f, n, g)}
<1>1. 0 \in S
  <2> DEFINE g == [n \in 0 .. 0 |-> 0]
  <2>1. g \in [0 .. 0 -> Int] /\ Upto(f, 0, g)
    BY DEF Upto
  <2> QED BY <2>1
<1>2. ASSUME NEW n \in 1 .. N, n - 1 \in S PROVE n \in S
  <2>1. PICK g \in [0 .. n - 1 -> Int] : Upto(f, n - 1, g)
    BY <1>2
  <2> DEFINE h == [k \in 0 .. n |-> F(g, k)]
  <2>2. \A k \in 0 .. n - 1 : g[k] = F(g, k)
    BY <2>1 DEF Upto
  <2>3. \A k \in 0 .. n - 1 : h[k] = g[k]
    BY <2>2
  <2>4. \A k \in 0 .. n : F(g, k) = F(h, k) /\ F(g, k) \in Int
    <3> SUFFICES ASSUME NEW k \in 0 .. n PROVE F(g, k) = F(h, k) /\ F(g, k) \in Int
      OBVIOUS
    <3>1. CASE k = 0
      BY <3>1
    <3>2. CASE k # 0
      <4>1. k - 1 \in 0 .. n - 1 /\ k \in 1 .. N
        BY <3>2
      <4>2. h[k - 1] = g[k - 1] /\ g[k - 1] \in Int /\ f[k] \in Int
        BY <2>1, <2>3, <4>1
      <4> HIDE DEF h
      <4> QED BY <3>2, <4>2
    <3> QED BY <3>1, <3>2
  <2>5. h \in [0 .. n -> Int]
    BY <2>4
  <2>6. h = [k \in 0 .. n |-> F(h, k)]
    <3> DEFINE e == [k \in 0 .. n |-> F(h, k)]
    <3>1. \A k \in 0 .. n : h[k] = e[k]
      BY <2>4
    <3>2. h = [k \in 0 .. n |-> h[k]] /\ e = [k \in 0 .. n |-> e[k]]
      OBVIOUS
    <3> HIDE DEF h, e
    <3>3. h = e
      BY <3>1, <3>2
    <3> QED BY <3>3 DEF e
  <2>7. n \in 0 .. N
    OBVIOUS
  <2> QED BY <2>5, <2>6, <2>7 DEF Upto
<1>3. N \in S
  <2> HIDE DEF S
  <2>1. \A n \in 0 .. N : n \in S
    BY <1>1, <1>2, Upwards
  <2> QED BY <2>1
<1> QED BY <1>3

\* What Sum does, step by step.
LEMMA SumIs ==
  ASSUME NEW N \in Nat, NEW f \in [1 .. N -> Int]
  PROVE  \E g \in [0 .. N -> Int] :
           /\ g[0] = 0 /\ \A n \in 1 .. N : g[n] = f[n] + g[n - 1]
           /\ Sum(f) = g[N]
<1> DEFINE u == CHOOSE g : Upto(f, N, g)
<1>1. PICK h \in [0 .. N -> Int] : Upto(f, N, h)
  BY SumsExist
<1>2. Upto(f, N, u)
  BY <1>1
<1>3. Len(f) = N
  <2>1. f \in Seq(Int)
    OBVIOUS
  <2> QED BY <2>1
<1>4. Sum(f) = u[N]
  BY <1>3 DEF Sum, Upto
<1> HIDE DEF u
<1>5. u[0] = 0 /\ \A n \in 1 .. N : u[n] = f[n] + u[n - 1]
  BY <1>2 DEF Upto
<1>6. u \in [0 .. N -> Int]
  <2> DEFINE S == {n \in 0 .. N : u[n] \in Int}
  <2>1. 0 \in S
    BY <1>5
  <2>2. ASSUME NEW n \in 1 .. N, n - 1 \in S PROVE n \in S
    <3>1. u[n] = f[n] + u[n - 1] /\ u[n - 1] \in Int /\ f[n] \in Int
      BY <1>5, <2>2
    <3> QED BY <3>1
  <2> HIDE DEF S
  <2>3. \A n \in 0 .. N : n \in S
    BY <2>1, <2>2, Upwards
  <2>4. u = [n \in 0 .. N |-> u[n]]
    BY <1>2 DEF Upto
  <2> QED BY <2>3, <2>4 DEF S
<1> QED BY <1>4, <1>5, <1>6

LEMMA SumInt == ASSUME NEW N \in Nat, NEW f \in [1 .. N -> Int] PROVE Sum(f) \in Int
<1>1. PICK g \in [0 .. N -> Int] : Sum(f) = g[N]
  BY SumIs
<1> QED BY <1>1

\* The elements of f at the places in A; the others count for nothing.
Part(f, N, A) == [i \in 1 .. N |-> IF i \in A THEN f[i] ELSE 0]

LEMMA PartIs ==
  ASSUME NEW N \in Nat, NEW f \in [1 .. N -> Int], NEW A
  PROVE  Part(f, N, A) \in [1 .. N -> Int] /\ Sum(Part(f, N, A)) \in Int
<1>1. Part(f, N, A) \in [1 .. N -> Int]
  BY DEF Part
<1>2. PICK g \in [0 .. N -> Int] : Sum(Part(f, N, A)) = g[N]
  BY <1>1, SumIs
<1> QED BY <1>1, <1>2

LEMMA PartOfNone ==
  ASSUME NEW N \in Nat, NEW f \in [1 .. N -> Int]
  PROVE  Sum(Part(f, N, {})) = 0
<1> DEFINE p == Part(f, N, {})
<1>1. p \in [1 .. N -> Int] /\ \A i \in 1 .. N : p[i] = 0
  BY DEF Part
<1> HIDE DEF p
<1>2. PICK g \in [0 .. N -> Int] : /\ g[0] = 0 /\ \A n \in 1 .. N : g[n] = p[n] + g[n - 1]
                                   /\ Sum(p) = g[N]
  BY <1>1, SumIs
<1> DEFINE S == {n \in 0 .. N : g[n] = 0}
<1>3. 0 \in S
  BY <1>2
<1>4. ASSUME NEW n \in 1 .. N, n - 1 \in S PROVE n \in S
  BY <1>1, <1>2, <1>4
<1> HIDE DEF S
<1>5. \A n \in 0 .. N : n \in S
  BY <1>3, <1>4, Upwards
<1>6. N \in S
  BY <1>5
<1> QED BY <1>2, <1>6 DEF S, p

\* One place more adds its element.
OneMore(f, N, A, B, a) ==
  N \in Nat /\ f \in [1 .. N -> Int] /\ a \in 1 .. N /\ a \notin A /\ B = A \cup {a}

LEMMA PartAdds ==
  ASSUME NEW N, NEW f, NEW A, NEW B, NEW a, OneMore(f, N, A, B, a)
  PROVE  Sum(Part(f, N, B)) = Sum(Part(f, N, A)) + f[a]
<1>0. N \in Nat /\ f \in [1 .. N -> Int] /\ a \in 1 .. N /\ a \notin A /\ B = A \cup {a}
  BY DEF OneMore
<1> DEFINE p == Part(f, N, A)
           q == Part(f, N, B)
<1>1. p \in [1 .. N -> Int] /\ q \in [1 .. N -> Int]
      /\ \A i \in 1 .. N : q[i] = IF i = a THEN p[i] + f[a] ELSE p[i]
  BY <1>0 DEF Part
<1> HIDE DEF p, q
<1>2. PICK g \in [0 .. N -> Int] : /\ g[0] = 0 /\ \A n \in 1 .. N : g[n] = p[n] + g[n - 1]
                                   /\ Sum(p) = g[N]
  BY <1>0, <1>1, SumIs
<1>3. PICK h \in [0 .. N -> Int] : /\ h[0] = 0 /\ \A n \in 1 .. N : h[n] = q[n] + h[n - 1]
                                   /\ Sum(q) = h[N]
  BY <1>0, <1>1, SumIs
<1> DEFINE S == {n \in 0 .. N : h[n] = IF a <= n THEN g[n] + f[a] ELSE g[n]}
<1>4. 0 \in S
  BY <1>0, <1>2, <1>3
<1>5. ASSUME NEW n \in 1 .. N, n - 1 \in S PROVE n \in S
  <2>1. h[n - 1] = (IF a <= n - 1 THEN g[n - 1] + f[a] ELSE g[n - 1]) /\ n - 1 \in 0 .. N
    BY <1>5
  <2>2. /\ h[n] = q[n] + h[n - 1] /\ g[n] = p[n] + g[n - 1]
        /\ q[n] = (IF n = a THEN p[n] + f[a] ELSE p[n])
    BY <1>1, <1>2, <1>3
  <2>3. n \in 0 .. N /\ n - 1 \in 0 .. N
    BY <1>0
  <2>4. p[n] \in Int /\ f[a] \in Int /\ g[n - 1] \in Int
    BY <1>0, <1>1, <2>3
  <2> HIDE DEF S
  <2>5. h[n] = IF a <= n THEN g[n] + f[a] ELSE g[n]
    <3>1. CASE a = n
      BY <1>0, <2>1, <2>2, <2>4, <3>1
    <3>2. CASE a < n
      <4>1. a <= n - 1 /\ a <= n /\ n # a
        BY <1>0, <3>2
      <4>2. h[n] = p[n] + (g[n - 1] + f[a]) /\ g[n] = p[n] + g[n - 1]
        BY <2>1, <2>2, <4>1
      <4> DEFINE x == p[n]
                 y == g[n - 1]
                 z == f[a]
      <4>3. x \in Int /\ y \in Int /\ z \in Int /\ h[n] = x + (y + z) /\ g[n] = x + y
        BY <2>4, <4>2
      <4> HIDE DEF x, y, z
      <4>4. h[n] = g[n] + z
        BY <4>3
      <4> QED BY <4>1, <4>4 DEF z
    <3>3. CASE a > n
      BY <1>0, <2>1, <2>2, <2>4, <3>3
    <3> QED BY <1>0, <3>1, <3>2, <3>3
  <2> QED BY <2>3, <2>5 DEF S
<1> HIDE DEF S
<1>6. \A n \in 0 .. N : n \in S
  BY <1>0, <1>4, <1>5, Upwards
<1>7. N \in S
  BY <1>0, <1>6
<1> QED BY <1>0, <1>2, <1>3, <1>7 DEF S, p, q

-----------------------------------------------------------------------------
(***************************************************************************)
(* Snapshots and their comparison.                                         *)
(***************************************************************************)
Distinct(s) == \A i, k \in DOMAIN s : s[i].label = s[k].label => i = k

\* What load_snapshot lets through has each label once.
LEMMA LoadableDistinct ==
  ASSUME NEW s \in Seq(Results), Loadable(s)
  PROVE  Distinct(s) /\ \A i \in DOMAIN s : Fixture(s, s[i].label) = s[i]
<1> DEFINE n == Len(s)
           f == [i \in 1 .. n |-> s[i].label]
<1>1. n \in Nat /\ DOMAIN s = 1 .. n
  OBVIOUS
<1>2. IsFiniteSet(1 .. n) /\ Cardinality(1 .. n) = n
  BY <1>1, FS_Interval
<1>3. f \in Surjection(1 .. n, FixtureLabels(s))
  BY <1>1 DEF Surjection, FixtureLabels
<1>4. Cardinality(FixtureLabels(s)) = Cardinality(1 .. n) <=> f \in Injection(1 .. n, FixtureLabels(s))
  BY <1>2, <1>3, FS_Surjection
<1>5. f \in Injection(1 .. n, FixtureLabels(s))
  BY <1>2, <1>4 DEF Loadable
<1>6. Distinct(s)
  BY <1>1, <1>5 DEF Injection, IsInjective, Distinct
<1>7. ASSUME NEW i \in DOMAIN s PROVE Fixture(s, s[i].label) = s[i]
  <2> DEFINE c == CHOOSE k \in DOMAIN s : s[k].label = s[i].label
  <2>1. c \in DOMAIN s /\ s[c].label = s[i].label
    OBVIOUS
  <2>2. Fixture(s, s[i].label) = s[c]
    BY DEF Fixture
  <2> HIDE DEF c
  <2>3. c = i
    BY <1>6, <2>1 DEF Distinct
  <2> QED BY <2>2, <2>3
<1> QED BY <1>6, <1>7

\* What the fixtures of a snapshot count for.
Weights(s) == [i \in 1 .. Len(s) |-> IF s[i].ok THEN s[i].steps ELSE 0]

LEMMA TotalIs ==
  ASSUME NEW s \in Seq(Results)
  PROVE  /\ Len(s) \in Nat /\ DOMAIN s = 1 .. Len(s)
         /\ Weights(s) \in [1 .. Len(s) -> Int] /\ Total(s) = Sum(Weights(s))
         /\ Counted(s) \subseteq 1 .. Len(s)
         /\ \A i \in 1 .. Len(s) : Weights(s)[i] = IF i \in Counted(s) THEN s[i].steps ELSE 0
         /\ \A i \in Counted(s) : s[i].ok /\ s[i].steps \in Int
<1>1. Len(s) \in Nat /\ DOMAIN s = 1 .. Len(s)
  OBVIOUS
<1>2. \A i \in 1 .. Len(s) : s[i].ok \in BOOLEAN /\ s[i].steps \in Int
  <2>1. \A i \in 1 .. Len(s) : s[i] \in Results
    BY <1>1
  <2> QED BY <2>1 DEF Results
<1>3. Weights(s) \in [1 .. Len(s) -> Int]
  BY <1>2 DEF Weights
<1>4. Counted(s) \subseteq 1 .. Len(s) /\ \A i \in 1 .. Len(s) : i \in Counted(s) <=> s[i].ok
  BY <1>1 DEF Counted
<1>5. \A i \in 1 .. Len(s) : Weights(s)[i] = IF i \in Counted(s) THEN s[i].steps ELSE 0
  BY <1>4 DEF Weights
<1>6. Total(s) = Sum(Weights(s))
  <2> DEFINE t == [i \in DOMAIN s |-> IF i \in Counted(s) THEN s[i].steps ELSE 0]
  <2>1. t = Weights(s)
    <3>1. \A i \in 1 .. Len(s) : t[i] = Weights(s)[i]
      BY <1>1, <1>5
    <3>2. t = [i \in 1 .. Len(s) |-> t[i]] /\ Weights(s) = [i \in 1 .. Len(s) |-> Weights(s)[i]]
      BY <1>1, <1>3
    <3> HIDE DEF t
    <3> QED BY <3>1, <3>2
  <2>2. Total(s) = Sum(t)
    BY DEF Total
  <2> QED BY <2>1, <2>2
<1> QED BY <1>1, <1>2, <1>3, <1>4, <1>5, <1>6

\* A fixture that both snapshots count has not grown by more than the threshold.
LEMMA GrowthBounded ==
  ASSUME NEW o \in Seq(Results), NEW n \in Seq(Results),
         CompareStatus(o, n) = 0,
         NEW i \in Counted(o), NEW j \in Counted(n), o[i].label = n[j].label,
         o[i].steps > 0, n[j].steps > 0
  PROVE  (n[j].steps - o[i].steps) * 100 <= Threshold * o[i].steps
<1> DEFINE l == n[j].label
           a == o[i].steps
           b == n[j].steps
<1>1. Loadable(o) /\ Loadable(n) /\ \A k \in FixtureLabels(o) \cup FixtureLabels(n) : ~Problem(o, n, k)
  BY DEF CompareStatus
<1>2. i \in DOMAIN o /\ j \in DOMAIN n /\ a \in Int /\ b \in Int
  BY TotalIs
<1>3. Fixture(o, l) = o[i] /\ Fixture(n, l) = n[j]
  BY <1>1, <1>2, LoadableDistinct
<1>4. l \in FixtureLabels(o) /\ l \in FixtureLabels(n)
  BY <1>2 DEF FixtureLabels
<1>5. ~Problem(o, n, l)
  BY <1>1, <1>4
<1>6. ~Regressed(a, b)
  BY <1>3, <1>4, <1>5 DEF Problem
<1>7. a > 0 /\ b > 0
  OBVIOUS
<1> HIDE DEF a, b, l
<1>8. ~((b - a) * 100 > Threshold * a)
  BY <1>2, <1>6, <1>7 DEF Regressed
<1>9. Threshold * a \in Int /\ (b - a) * 100 \in Int
  BY <1>2, BenchAssumption
<1>10. (b - a) * 100 <= Threshold * a
  <2> DEFINE x == (b - a) * 100
             y == Threshold * a
  <2> HIDE DEF x, y
  <2>1. x \in Int /\ y \in Int /\ ~(x > y)
    BY <1>8, <1>9 DEF x, y
  <2>2. x <= y
    BY <2>1
  <2> QED BY <2>2 DEF x, y
<1> QED BY <1>10 DEF a, b

\* Growth within a percentage adds up.
LEMMA GrowthAdds ==
  ASSUME NEW T \in Nat, NEW p \in Int, NEW q \in Int, NEW a \in Int, NEW b \in Int,
         100 * p <= (100 + T) * q, (b - a) * 100 <= T * a
  PROVE  100 * (b + p) <= (100 + T) * (q + a)
<1> DEFINE u == T * q
           v == T * a
<1>1. u \in Int /\ v \in Int
  OBVIOUS
<1>2. (100 + T) * q = 100 * q + u /\ (100 + T) * (q + a) = 100 * q + 100 * a + u + v
  OBVIOUS
<1> HIDE DEF u, v
<1>3. 100 * p <= 100 * q + u
  BY <1>2
<1>4. (b - a) * 100 <= v
  BY DEF v
<1>5. 100 * (b + p) <= 100 * q + 100 * a + u + v
  BY <1>1, <1>3, <1>4
<1> QED BY <1>2, <1>5

LEMMA UpToNext ==
  ASSUME NEW N \in Nat, NEW J, J \subseteq 1 .. N
  PROVE  /\ {e \in J : e <= 0} = {} /\ {e \in J : e <= N} = J
         /\ \A k \in 1 .. N : {e \in J : e <= k}
                               = {e \in J : e <= k - 1} \cup (IF k \in J THEN {k} ELSE {})
<1>1. \A e \in J : e \in 1 .. N /\ e <= N /\ ~(e <= 0)
  OBVIOUS
<1>2. {e \in J : e <= 0} = {} /\ {e \in J : e <= N} = J
  BY <1>1, Zenon
<1>3. ASSUME NEW k \in 1 .. N
      PROVE  {e \in J : e <= k} = {e \in J : e <= k - 1} \cup (IF k \in J THEN {k} ELSE {})
  <2>1. \A e \in J : e <= k <=> e <= k - 1 \/ e = k
    BY <1>1
  <2> QED BY <1>1, <2>1
<1> QED BY <1>2, <1>3

Within(T, O, x, N, y, I, J, peer) ==
  /\ I \subseteq 1 .. O /\ \A i \in (1 .. O) \ I : x[i] = 0
  /\ J \subseteq 1 .. N /\ \A j \in (1 .. N) \ J : y[j] = 0
  /\ \A i \in I : \E j \in J : peer[j] = i
  /\ \A j, e \in J : peer[j] = peer[e] => j = e
  /\ \A j \in J : (y[j] - x[peer[j]]) * 100 <= T * x[peer[j]]

\* If each element of y is within a percentage of an element of x of its own, and
\* no element of x is left over, then the sums are too.
LEMMA SumsWithin ==
  ASSUME NEW T \in Nat, NEW O \in Nat, NEW x \in [1 .. O -> Int],
         NEW N \in Nat, NEW y \in [1 .. N -> Int], NEW I, NEW J, NEW peer \in [J -> I],
         Within(T, O, x, N, y, I, J, peer)
  PROVE  100 * Sum(y) <= (100 + T) * Sum(x)
<1>0. /\ I \subseteq 1 .. O /\ \A i \in (1 .. O) \ I : x[i] = 0
      /\ J \subseteq 1 .. N /\ \A j \in (1 .. N) \ J : y[j] = 0
      /\ \A i \in I : \E j \in J : peer[j] = i
      /\ \A j, e \in J : peer[j] = peer[e] => j = e
      /\ \A j \in J : (y[j] - x[peer[j]]) * 100 <= T * x[peer[j]]
  BY DEF Within
<1> DEFINE B(k) == {e \in J : e <= k}
           A(k) == {peer[j] : j \in B(k)}
           P == [k \in 0 .. N |-> Sum(Part(x, O, A(k)))]
<1>1. B(0) = {} /\ B(N) = J
      /\ \A k \in 1 .. N : B(k) = B(k - 1) \cup (IF k \in J THEN {k} ELSE {})
  <2>1. B(0) = {}
    BY <1>0, UpToNext
  <2>2. B(N) = J
    BY <1>0, UpToNext
  <2>3. \A k \in 1 .. N : B(k) = B(k - 1) \cup (IF k \in J THEN {k} ELSE {})
    BY <1>0, UpToNext
  <2> QED BY <2>1, <2>2, <2>3
<1>2. \A k \in 1 .. N : k \notin B(k - 1)
  BY <1>0
<1> HIDE DEF B
<1>3. A(0) = {} /\ A(N) = I
  <2>1. A(0) = {}
    BY <1>1
  <2>2. A(N) = {peer[j] : j \in J}
    BY <1>1
  <2>3. {peer[j] : j \in J} = I
    <3>1. \A j \in J : peer[j] \in I
      OBVIOUS
    <3>2. \A i \in I : \E j \in J : peer[j] = i
      BY <1>0
    <3> QED BY ONLY <3>1, <3>2, Zenon
  <2> QED BY <2>1, <2>2, <2>3
<1>4. ASSUME NEW k \in 1 .. N, k \in J
      PROVE  A(k) = A(k - 1) \cup {peer[k]} /\ peer[k] \notin A(k - 1)
  <2>1. B(k) = B(k - 1) \cup {k}
    BY <1>1, <1>4
  <2>2. B(k - 1) \subseteq J
    BY DEF B
  <2>3. A(k) = A(k - 1) \cup {peer[k]}
    BY <2>1
  <2>4. peer[k] \notin A(k - 1)
    BY <1>0, <1>2, <1>4, <2>2
  <2> QED BY <2>3, <2>4
<1>5. ASSUME NEW k \in 1 .. N, k \notin J PROVE A(k) = A(k - 1)
  BY <1>1, <1>5
<1> HIDE DEF A
<1>6. \A k \in 0 .. N : P[k] = Sum(Part(x, O, A(k))) /\ P[k] \in Int
  BY PartIs
<1> HIDE DEF P
<1>7. PICK g \in [0 .. N -> Int] : /\ g[0] = 0 /\ \A k \in 1 .. N : g[k] = y[k] + g[k - 1]
                                   /\ Sum(y) = g[N]
  BY SumIs
<1>8. ASSUME NEW k \in 1 .. N, k \in J PROVE P[k] = P[k - 1] + x[peer[k]]
  <2>1. k \in 0 .. N /\ k - 1 \in 0 .. N
    OBVIOUS
  <2>2. peer[k] \in 1 .. O
    <3>1. peer[k] \in I
      BY <1>8
    <3> QED BY <1>0, <3>1
  <2>3. Sum(Part(x, O, A(k))) = Sum(Part(x, O, A(k - 1))) + x[peer[k]]
    <3> DEFINE a == peer[k]
               C == A(k - 1)
               D == A(k)
    <3>1. OneMore(x, O, C, D, a)
      BY <1>4, <1>8, <2>2 DEF OneMore
    <3> HIDE DEF a, C, D
    <3>2. Sum(Part(x, O, D)) = Sum(Part(x, O, C)) + x[a]
      BY <3>1, PartAdds
    <3> QED BY <3>2 DEF a, C, D
  <2> QED BY <1>6, <2>1, <2>3
<1>9. ASSUME NEW k \in 1 .. N, k \notin J PROVE P[k] = P[k - 1]
  BY <1>5, <1>6, <1>9
<1> DEFINE S == {k \in 0 .. N : 100 * g[k] <= (100 + T) * P[k]}
<1>10. 0 \in S
  <2>1. P[0] = 0
    <3>1. P[0] = Sum(Part(x, O, A(0))) /\ A(0) = {}
      BY <1>3, <1>6
    <3> QED BY ONLY <3>1, PartOfNone
  <2> QED BY <1>7, <2>1
<1>11. ASSUME NEW k \in 1 .. N, k - 1 \in S PROVE k \in S
  <2>1. k \in 0 .. N /\ k - 1 \in 0 .. N /\ 100 * g[k - 1] <= (100 + T) * P[k - 1]
    BY <1>11
  <2> HIDE DEF S
  <2>2. g[k - 1] \in Int /\ P[k - 1] \in Int /\ g[k] = y[k] + g[k - 1] /\ y[k] \in Int
    BY <1>6, <1>7, <2>1
  <2>3. CASE k \in J
    <3>1. x[peer[k]] \in Int /\ (y[k] - x[peer[k]]) * 100 <= T * x[peer[k]]
      <4>1. peer[k] \in 1 .. O
        BY <1>0, <2>3
      <4> QED BY <1>0, <2>3, <4>1
    <3>2. 100 * (y[k] + g[k - 1]) <= (100 + T) * (P[k - 1] + x[peer[k]])
      <4> DEFINE p == g[k - 1]
                 q == P[k - 1]
                 a == x[peer[k]]
                 b == y[k]
      <4>1. /\ p \in Int /\ q \in Int /\ a \in Int /\ b \in Int
            /\ 100 * p <= (100 + T) * q /\ (b - a) * 100 <= T * a
        BY <2>1, <2>2, <3>1
      <4> HIDE DEF p, q, a, b
      <4>2. 100 * (b + p) <= (100 + T) * (q + a)
        BY <4>1, GrowthAdds
      <4> QED BY <4>2 DEF p, q, a, b
    <3>3. P[k] = P[k - 1] + x[peer[k]]
      BY <1>8, <2>3
    <3>4. 100 * g[k] <= (100 + T) * P[k]
      BY <2>2, <3>2, <3>3
    <3> QED BY <2>1, <3>4 DEF S
  <2>4. CASE k \notin J
    <3>1. P[k] = P[k - 1]
      BY <1>9, <2>4
    <3>2. g[k] = g[k - 1]
      BY <1>0, <2>2, <2>4
    <3> QED BY <2>1, <3>1, <3>2 DEF S
  <2> QED BY <2>3, <2>4
<1>12. N \in S
  <2> HIDE DEF S
  <2>1. \A k \in 0 .. N : k \in S
    BY <1>10, <1>11, Upwards
  <2> QED BY <2>1
<1>13. P[N] = Sum(x)
  <2>1. Part(x, O, I) = x
    BY <1>0 DEF Part
  <2>2. P[N] = Sum(Part(x, O, A(N)))
    BY <1>6
  <2> QED BY <1>3, <2>1, <2>2
<1> QED BY <1>7, <1>12, <1>13

\* What totals_for adds up grows no more than its fixtures do, in whatever order
\* the two runs measured them.
LEMMA TotalsWithin ==
  ASSUME NEW o \in Seq(Results), NEW n \in Seq(Results),
         CompareStatus(o, n) = 0,
         {o[i].label : i \in Counted(o)} = {n[i].label : i \in Counted(n)},
         \A i \in Counted(o) : o[i].steps > 0, \A i \in Counted(n) : n[i].steps > 0
  PROVE  (Total(n) - Total(o)) * 100 <= Threshold * Total(o)
<1> DEFINE O == Len(o)
           N == Len(n)
           x == Weights(o)
           y == Weights(n)
           I == Counted(o)
           J == Counted(n)
           peer == [j \in J |-> CHOOSE i \in I : o[i].label = n[j].label]
           T == Threshold
<1>1. /\ O \in Nat /\ x \in [1 .. O -> Int] /\ Total(o) = Sum(x) /\ I \subseteq 1 .. O
      /\ \A i \in 1 .. O : x[i] = IF i \in I THEN o[i].steps ELSE 0
      /\ DOMAIN o = 1 .. O /\ \A i \in I : o[i].steps \in Int
  BY TotalIs
<1>2. /\ N \in Nat /\ y \in [1 .. N -> Int] /\ Total(n) = Sum(y) /\ J \subseteq 1 .. N
      /\ \A j \in 1 .. N : y[j] = IF j \in J THEN n[j].steps ELSE 0
      /\ DOMAIN n = 1 .. N /\ \A j \in J : n[j].steps \in Int
  BY TotalIs
<1>3. Distinct(o) /\ Distinct(n)
  BY LoadableDistinct DEF CompareStatus
<1>4. T \in Nat
  BY BenchAssumption
<1>5. \A j \in J : peer[j] \in I /\ o[peer[j]].label = n[j].label
  <2> SUFFICES ASSUME NEW j \in J PROVE peer[j] \in I /\ o[peer[j]].label = n[j].label
    OBVIOUS
  <2>1. \E i \in I : o[i].label = n[j].label
    OBVIOUS
  <2> QED BY <2>1
<1>6. \A i \in I : \E j \in J : n[j].label = o[i].label
  OBVIOUS
<1>7. peer \in [J -> I]
  BY <1>5
<1>8. \A j \in J : (n[j].steps - o[peer[j]].steps) * 100 <= T * o[peer[j]].steps
  <2> SUFFICES ASSUME NEW j \in J
               PROVE  (n[j].steps - o[peer[j]].steps) * 100 <= T * o[peer[j]].steps
    OBVIOUS
  <2> HIDE DEF peer
  <2>1. peer[j] \in I /\ o[peer[j]].label = n[j].label
    BY <1>5
  <2> QED BY <2>1, GrowthBounded
<1> HIDE DEF O, N, x, y, I, J, peer, T
<1>9. \A i \in I : \E j \in J : peer[j] = i
  <2> SUFFICES ASSUME NEW i \in I PROVE \E j \in J : peer[j] = i
    OBVIOUS
  <2>1. PICK j \in J : n[j].label = o[i].label
    BY <1>6
  <2>2. peer[j] \in I /\ o[peer[j]].label = o[i].label
    BY <1>5, <2>1
  <2>3. peer[j] \in DOMAIN o /\ i \in DOMAIN o
    BY <1>1, <2>2
  <2>4. peer[j] = i
    BY <1>3, <2>2, <2>3 DEF Distinct
  <2> QED BY <2>4
<1>10. \A j, e \in J : peer[j] = peer[e] => j = e
  <2> SUFFICES ASSUME NEW j \in J, NEW e \in J, peer[j] = peer[e] PROVE j = e
    OBVIOUS
  <2>1. n[j].label = n[e].label
    BY <1>5
  <2>2. j \in DOMAIN n /\ e \in DOMAIN n
    BY <1>2
  <2> QED BY <1>3, <2>1, <2>2 DEF Distinct
<1>11. \A j \in J : (y[j] - x[peer[j]]) * 100 <= T * x[peer[j]]
  <2> SUFFICES ASSUME NEW j \in J PROVE (y[j] - x[peer[j]]) * 100 <= T * x[peer[j]]
    OBVIOUS
  <2>1. j \in 1 .. N /\ peer[j] \in 1 .. O /\ peer[j] \in I
    BY <1>1, <1>2, <1>5
  <2>2. y[j] = n[j].steps /\ x[peer[j]] = o[peer[j]].steps
    BY <1>1, <1>2, <2>1
  <2> QED BY <1>8, <2>2
<1>12. /\ \A i \in (1 .. O) \ I : x[i] = 0
       /\ \A j \in (1 .. N) \ J : y[j] = 0
  BY <1>1, <1>2
<1> DEFINE s == Sum(x)
           e == Sum(y)
           w == T * s
<1>13. 100 * e <= (100 + T) * s
  <2> HIDE DEF s, e, w
  <2>1. O \in Nat /\ x \in [1 .. O -> Int] /\ N \in Nat /\ y \in [1 .. N -> Int]
        /\ I \subseteq 1 .. O /\ J \subseteq 1 .. N
    BY <1>1, <1>2
  <2>2. 100 * Sum(y) <= (100 + T) * Sum(x)
    <3>1. Within(T, O, x, N, y, I, J, peer)
      BY <1>9, <1>10, <1>11, <1>12, <2>1 DEF Within
    <3> QED BY ONLY <1>4, <1>7, <2>1, <3>1, SumsWithin
  <2> QED BY <2>2 DEF s, e
<1>14. s \in Int /\ e \in Int /\ w \in Int
  <2>1. s \in Int
    <3>1. O \in Nat /\ x \in [1 .. O -> Int]
      BY <1>1
    <3> QED BY ONLY <3>1, SumInt
  <2>2. e \in Int
    <3>1. N \in Nat /\ y \in [1 .. N -> Int]
      BY <1>2
    <3> QED BY ONLY <3>1, SumInt
  <2> HIDE DEF s
  <2> QED BY <1>4, <2>1, <2>2
<1>15. (100 + T) * s = 100 * s + w
  BY <1>4, <1>14
<1>16. (Total(n) - Total(o)) * 100 = (e - s) * 100 /\ T * Total(o) = w
  BY <1>1, <1>2
<1> HIDE DEF s, e, w
<1>17. (e - s) * 100 <= w
  BY <1>13, <1>14, <1>15
<1> QED BY <1>16, <1>17 DEF T

-----------------------------------------------------------------------------
(***************************************************************************)
(* The specification.                                                      *)
(***************************************************************************)
\* The n-th result of w variants of a row has its own place.
LEMMA Places ==
  ASSUME NEW w \in 1 .. 2, NEW R \in Nat, NEW n \in Nat, n < R * w
  PROVE  /\ (n \div w) + 1 \in 1 .. R /\ (n % w) + 1 \in 1 .. w
         /\ \A m \in Nat : (m \div w) + 1 = (n \div w) + 1 /\ (m % w) + 1 = (n % w) + 1 => m = n
<1>1. (n \div w) + 1 \in 1 .. R
  <2>1. CASE w = 1
    BY <2>1
  <2>2. CASE w = 2
    <3>1. n \div 2 < R /\ n \div 2 \in Nat
      BY <2>2
    <3> QED BY <2>2, <3>1
  <2> QED BY <2>1, <2>2
<1>2. (n % w) + 1 \in 1 .. w
  <2>1. n % w \in 0 .. w - 1
    OBVIOUS
  <2> QED BY <2>1
<1>3. ASSUME NEW m \in Nat, (m \div w) + 1 = (n \div w) + 1, (m % w) + 1 = (n % w) + 1
      PROVE  m = n
  <2>1. m \div w \in Int /\ n \div w \in Int /\ m % w \in Int /\ n % w \in Int
    OBVIOUS
  <2>2. m \div w = n \div w /\ m % w = n % w
    BY <1>3, <2>1
  <2> QED BY <2>2
<1> QED BY <1>1, <1>2, <1>3

\* The first result of each row is in the run's results.
LEMMA FixturesAre ==
  ASSUME NEW results \in Seq(Results), NEW w \in 1 .. 2
  PROVE  Fixtures(results, w) \in Seq(Results)
<1> DEFINE L == Len(results)
           R == L \div w
<1>1. L \in Nat /\ R \in Nat /\ R * w <= L
  <2>1. L \in Nat
    OBVIOUS
  <2> HIDE DEF L
  <2>2. CASE w = 1
    BY <2>1, <2>2
  <2>3. CASE w = 2
    BY <2>1, <2>3
  <2> QED BY <2>1, <2>2, <2>3
<1>2. ASSUME NEW i \in 1 .. R PROVE results[(i - 1) * w + 1] \in Results
  <2> HIDE DEF L, R
  <2>1. (i - 1) * w + 1 \in 1 .. L
    <3>1. CASE w = 1
      BY <1>1, <3>1
    <3>2. CASE w = 2
      BY <1>1, <3>2
    <3> QED BY <3>1, <3>2
  <2> QED BY <2>1 DEF L
<1>3. Fixtures(results, w) = [i \in 1 .. R |-> results[(i - 1) * w + 1]]
  BY DEF Fixtures
<1> HIDE DEF R
<1> QED BY <1>1, <1>2, <1>3

LEMMA SelectionsAre ==
  ASSUME NEW sel \in Selections
  PROVE  sel \in Seq(BenchRows) /\ Len(sel) \in 1 .. Len(Manifest)
<1>0. PICK n \in 1 .. Len(Manifest) : \E at \in Ascending(n) : sel = [k \in 1 .. n |-> Manifest[at[k]]]
  BY DEF Selections
<1>1. PICK at \in Ascending(n) : sel = [k \in 1 .. n |-> Manifest[at[k]]]
  BY <1>0
<1>2. n \in Nat /\ at \in [1 .. n -> DOMAIN Manifest]
  BY BenchAssumption DEF Ascending
<1>3. \A k \in 1 .. n : Manifest[at[k]] \in BenchRows
  BY <1>2 DEF BenchRows
<1>4. sel \in [1 .. n -> BenchRows]
  BY <1>1, <1>3
<1> QED BY <1>2, <1>4

\* What the n-th result owes its ok to.
Owed(n) ==
  turn[n].ok => \/ /\ elfs[VariantOf(n)][selected[IndexOf(n)]].writes
                   /\ elfs[VariantOf(n)][selected[IndexOf(n)]].out = selected[IndexOf(n)].expected
                \/ outFile[StemOf(n)] # Absent /\ ~outFile[StemOf(n)].fresh

LEMMA OwedIs == OnlyLeftoversMislead <=> \A n \in DOMAIN turn : Owed(n)
BY DEF OnlyLeftoversMislead, Owed, StemOf, VariantOf, IndexOf

LEMMA OwedIsThen == OnlyLeftoversMislead' <=> \A n \in DOMAIN turn' : Owed(n)'
BY DEF OnlyLeftoversMislead, Owed, StemOf, VariantOf, IndexOf

\* When no run goes on there is nothing to say of its results.
LEMMA NoRun ==
  ASSUME selected' = <<>>, elfs' = <<>>, turn' = <<>>,
         outFile' \in [Stems -> Files \cup {Absent}]
  PROVE  Running' /\ Reached' /\ OnlyLeftoversMislead'
<1>1. Len(Manifest) \in Nat
  BY BenchAssumption
<1>2. Running'
  BY <1>1 DEF Running
<1>3. DOMAIN turn' = {}
  OBVIOUS
<1> QED BY <1>2, <1>3, OwedIsThen DEF Reached

LEMMA InitGood == ASSUME BenchInit PROVE Inv
<1>1. Len(Manifest) \in Nat
  BY BenchAssumption
<1>2. outFile \in [Stems -> Files \cup {Absent}]
  BY DEF BenchInit
<1>3. Running
  BY <1>1, <1>2 DEF BenchInit, Running
<1>4. DOMAIN turn = {}
  BY DEF BenchInit
<1>5. Reached /\ OnlyLeftoversMislead
  BY <1>4, OwedIs DEF BenchInit, Reached
<1>6. Snapshots /\ Compared
  BY BenchAssumption DEF BenchInit, Snapshots, Compared
<1> QED BY <1>3, <1>5, <1>6 DEF Inv

\* A new run begins with files that are all of earlier ones.
LEMMA BeginKeeps == ASSUME Inv, Begin PROVE Inv'
<1>1. PICK sel \in Selections, g \in Guests :
        selected' = sel /\ elfs' \in {<<g>>} \cup {<<g, h>> : h \in Guests}
  BY DEF Begin
<1>2. turn' = <<>> /\ UNCHANGED <<old, new, status>>
      /\ outFile' = [s \in Stems |-> IF outFile[s] = Absent THEN Absent
                                     ELSE [outFile[s] EXCEPT !.fresh = FALSE]]
  BY DEF Begin
<1>3. selected' \in Seq(BenchRows) /\ Len(selected') \in 1 .. Len(Manifest) /\ Len(Manifest) \in Nat
  BY <1>1, SelectionsAre, BenchAssumption
<1>4. elfs' \in Seq(Guests) /\ Len(elfs') \in 1 .. 2
  <2>1. CASE elfs' = <<g>>
    BY <2>1
  <2>2. ASSUME NEW h \in Guests, elfs' = <<g, h>> PROVE elfs' \in Seq(Guests) /\ Len(elfs') \in 1 .. 2
    BY <2>2
  <2> QED BY <1>1, <2>1, <2>2
<1>5. \A s \in Stems : outFile'[s] \in Files \cup {Absent} /\ (outFile'[s] = Absent \/ ~outFile'[s].fresh)
  <2> SUFFICES ASSUME NEW s \in Stems
               PROVE  outFile'[s] \in Files \cup {Absent} /\ (outFile'[s] = Absent \/ ~outFile'[s].fresh)
    OBVIOUS
  <2>1. outFile[s] \in Files \cup {Absent}
    BY DEF Inv, Running
  <2>2. CASE outFile[s] = Absent
    BY <1>2, <2>2
  <2>3. CASE outFile[s] # Absent
    <3>1. outFile[s] \in Files /\ outFile'[s] = [outFile[s] EXCEPT !.fresh = FALSE]
      BY <1>2, <2>1, <2>3
    <3> DEFINE f == outFile[s]
    <3>3. f = [out |-> f.out, fresh |-> f.fresh] /\ f.out \in {e[row].out : e \in Guests, row \in BenchRows}
      BY <3>1 DEF Files
    <3>4. outFile'[s] = [f EXCEPT !.fresh = FALSE]
      BY <3>1
    <3> HIDE DEF f
    <3>5. outFile'[s] = [out |-> f.out, fresh |-> FALSE]
      BY <3>3, <3>4
    <3>2. outFile'[s] \in Files /\ outFile'[s].fresh = FALSE
      BY <3>3, <3>5 DEF Files
    <3> QED BY <3>2
  <2> QED BY <2>2, <2>3
<1>6. outFile' \in [Stems -> Files \cup {Absent}]
  BY <1>2, <1>5
<1>7. turn' \in Seq(Results) /\ Len(turn') = 0 /\ DOMAIN turn' = {}
  BY <1>2
<1>8. 0 <= Len(selected') * Len(elfs')
  <2> DEFINE r == Len(selected')
             e == Len(elfs')
  <2>1. r \in Nat /\ e \in Nat
    BY <1>3, <1>4
  <2> HIDE DEF r, e
  <2>2. r * e \in Nat
    BY <2>1
  <2>3. 0 <= r * e
    BY <2>2
  <2> QED BY <2>3 DEF r, e
<1>9. Running'
  <2>1. Len(selected') <= Len(Manifest) /\ Len(elfs') <= 2
    <3> DEFINE r == Len(selected')
               e == Len(elfs')
               m == Len(Manifest)
    <3>1. r \in 1 .. m /\ m \in Nat /\ e \in 1 .. 2
      BY <1>3, <1>4
    <3> HIDE DEF r, e, m
    <3>2. r <= m /\ e <= 2
      BY <3>1
    <3> QED BY <3>2 DEF r, e, m
  <2>2. elfs' # <<>>
    BY <1>4
  <2> QED BY <1>3, <1>4, <1>6, <1>7, <1>8, <2>1, <2>2 DEF Running
<1>10. Reached'
  BY <1>5 DEF Reached, Stale, Stems
<1>11. OnlyLeftoversMislead'
  BY <1>7, OwedIsThen
<1>12. Snapshots' /\ Compared'
  BY <1>2 DEF Inv, Snapshots, Compared
<1> QED BY <1>9, <1>10, <1>11, <1>12 DEF Inv

\* What the next turn of run_variant is about.
LEMMA NextPlace ==
  ASSUME Running, Len(turn) < Len(selected) * Len(elfs)
  PROVE  LET n == Len(turn) + 1
         IN  /\ n \in Nat \ {0} /\ Len(elfs) \in 1 .. 2 /\ selected # <<>>
             /\ IndexOf(n) \in DOMAIN selected /\ VariantOf(n) \in DOMAIN elfs
             /\ selected[IndexOf(n)] \in BenchRows /\ elfs[VariantOf(n)] \in Guests
             /\ StemOf(n) \in Stems
             /\ \A m \in 1 .. Len(turn) : StemOf(m) # StemOf(n)
<1> DEFINE L == Len(turn)
           R == Len(selected)
           w == Len(elfs)
           M == Len(Manifest)
           n == L + 1
<1>1. L \in Nat /\ R \in Nat /\ w \in Nat /\ w <= 2 /\ M \in Nat /\ R <= M /\ L < R * w
  BY BenchAssumption DEF Running
<1>2. n - 1 = L /\ n \in Nat \ {0} /\ \A m \in 1 .. L : m - 1 \in Nat /\ m - 1 # L
  <2> HIDE DEF L
  <2> QED BY <1>1
<1>3. DOMAIN selected = 1 .. R /\ DOMAIN elfs = 1 .. w
  BY DEF Running
<1>4. IndexOf(n) = (L \div w) + 1 /\ VariantOf(n) = (L % w) + 1
  <2> HIDE DEF n
  <2> QED BY <1>2 DEF IndexOf, VariantOf
<1>5. \A m \in 1 .. L : IndexOf(m) = ((m - 1) \div w) + 1 /\ VariantOf(m) = ((m - 1) % w) + 1
  BY DEF IndexOf, VariantOf
<1> HIDE DEF L, R, w, M
<1>6. w \in 1 .. 2 /\ R # 0
  <2>1. CASE w = 0
    <3>1. R * w = 0
      BY <1>1, <2>1
    <3> QED BY <1>1, <3>1
  <2>2. CASE R = 0
    <3>1. R * w = 0
      BY <1>1, <2>2
    <3> QED BY <1>1, <3>1
  <2> QED BY <1>1, <2>1, <2>2
<1> DEFINE i == IndexOf(n)
           v == VariantOf(n)
<1>7. /\ i \in 1 .. R /\ v \in 1 .. w
      /\ \A m \in Nat : (m \div w) + 1 = i /\ (m % w) + 1 = v => m = L
  BY <1>1, <1>4, <1>6, Places
<1> HIDE DEF i, v
<1>8. StemOf(n) = <<v, i>> /\ \A m \in 1 .. L : StemOf(m) = <<VariantOf(m), IndexOf(m)>>
  BY DEF StemOf, Stem, i, v
<1>9. <<v, i>> \in Stems
  <2>1. v \in 1 .. 2 /\ i \in 1 .. M
    BY <1>1, <1>6, <1>7
  <2> QED BY <2>1 DEF Stems, M
<1>10. ASSUME NEW m \in 1 .. L PROVE StemOf(m) # StemOf(n)
  <2>1. SUFFICES ASSUME StemOf(m) = StemOf(n) PROVE FALSE
    OBVIOUS
  <2>2. VariantOf(m) = v /\ IndexOf(m) = i
    BY <1>8, <2>1
  <2>3. m - 1 = L
    BY <1>2, <1>5, <1>7, <2>2
  <2> QED BY <1>2, <2>3
<1>11. selected # <<>>
  BY <1>6 DEF R
<1>12. selected[i] \in BenchRows /\ elfs[v] \in Guests
  BY <1>3, <1>7 DEF Running, R, w
<1> QED BY <1>2, <1>3, <1>6, <1>7, <1>8, <1>9, <1>10, <1>11, <1>12 DEF i, v, L, w, R

\* run_variant writes only its own file, and takes what it did not write from an
\* earlier run.
LEMMA RunVariantKeeps == ASSUME Inv, RunVariant PROVE Inv'
<1> DEFINE L == Len(turn)
<1>0. PICK n \in Nat : n = L + 1
  BY DEF Inv, Running
<1> DEFINE i == IndexOf(n)
           v == VariantOf(n)
           row == selected[i]
           elf == elfs[v]
           stem == StemOf(n)
           r == Result(elf, row, stem)
           f == Output(elf, row, stem)
<1>1. Running /\ Reached /\ OnlyLeftoversMislead /\ Snapshots /\ Compared
  BY DEF Inv
<1>2. Len(turn) < Len(selected) * Len(elfs) /\ UNCHANGED <<elfs, selected, old, new, status>>
  BY DEF RunVariant
<1>3. /\ n \in Nat \ {0} /\ selected # <<>> /\ row \in BenchRows /\ elf \in Guests /\ stem \in Stems
      /\ \A m \in 1 .. L : StemOf(m) # stem
  BY <1>0, <1>1, <1>2, NextPlace
<1>4. L \in Nat /\ turn \in Seq(Results) /\ n - 1 = L
  <2>1. L \in Nat /\ turn \in Seq(Results)
    BY <1>1 DEF Running
  <2> HIDE DEF L
  <2> QED BY <1>0, <2>1
<1>5. i = (L \div Len(elfs)) + 1 /\ v = (L % Len(elfs)) + 1 /\ stem = Stem(v, i)
  <2> HIDE DEF L
  <2> QED BY <1>4 DEF IndexOf, VariantOf, StemOf
<1> HIDE DEF i, v, row, elf, stem, r, f
<1>6. turn' = Append(turn, r) /\ outFile' = [outFile EXCEPT ![stem] = f]
  BY <1>5 DEF RunVariant, row, elf, r, f
<1>7. outFile[stem] \in Files \cup {Absent} /\ outFile \in [Stems -> Files \cup {Absent}]
  BY <1>1, <1>3 DEF Running
<1>8. elf[row].writes \in BOOLEAN /\ elf[row].steps \in Int
  BY <1>3, BenchAssumption
<1>9. f \in Files \cup {Absent}
  <2>1. CASE elf[row].writes
    <3>1. f = [out |-> elf[row].out, fresh |-> TRUE]
      BY <2>1 DEF f, Output
    <3>2. elf[row].out \in {g[s].out : g \in Guests, s \in BenchRows}
      BY <1>3
    <3> QED BY <3>1, <3>2 DEF Files
  <2>2. CASE ~elf[row].writes
    BY <1>7, <2>2 DEF f, Output
  <2> QED BY <1>8, <2>1, <2>2
<1>10. r \in Results /\ r.ok = (f # Absent /\ f.out = row.expected)
  <2>1. r = [label |-> row.label, ok |-> f # Absent /\ f.out = row.expected, steps |-> elf[row].steps]
    BY DEF r, f, Result
  <2>2. row.label \in {s.label : s \in BenchRows}
    BY <1>3
  <2>3. (f # Absent /\ f.out = row.expected) \in BOOLEAN
    OBVIOUS
  <2> DEFINE b == f # Absent /\ f.out = row.expected
  <2> HIDE DEF b
  <2>4. [label |-> row.label, ok |-> b, steps |-> elf[row].steps] \in Results
    BY <1>8, <2>2, <2>3 DEF Results, b
  <2> QED BY <2>1, <2>4 DEF b
<1>11. /\ turn' \in Seq(Results) /\ Len(turn') = L + 1 /\ DOMAIN turn' = 1 .. n
       /\ \A m \in 1 .. L : turn'[m] = turn[m]
       /\ turn'[n] = r
  BY <1>0, <1>4, <1>6, <1>10
<1>12. outFile' \in [Stems -> Files \cup {Absent}] /\ outFile'[stem] = f
       /\ \A s \in Stems : s # stem => outFile'[s] = outFile[s]
  BY <1>3, <1>6, <1>7, <1>9
<1>13. Running'
  <2>1. L + 1 <= Len(selected) * Len(elfs)
    <3> DEFINE e == Len(selected)
               w == Len(elfs)
               p == e * w
    <3>1. e \in Nat /\ w \in Nat
      BY <1>1 DEF Running
    <3> HIDE DEF e, w
    <3>2. p \in Nat
      BY <3>1
    <3>3. L < p
      BY <1>2 DEF e, w
    <3> HIDE DEF p, L
    <3>4. L + 1 <= p
      BY <1>4, <3>2, <3>3
    <3> QED BY <3>4 DEF p, e, w
  <2> QED BY <1>1, <1>2, <1>11, <1>12, <2>1 DEF Running
<1>14. \A m \in 1 .. n : StemOf(m)' = StemOf(m) /\ IndexOf(m)' = IndexOf(m) /\ VariantOf(m)' = VariantOf(m)
  BY <1>2 DEF StemOf, IndexOf, VariantOf
<1>15. DOMAIN turn = 1 .. L /\ \A m \in 1 .. n : m \in 1 .. L \/ m = n
  <2>1. DOMAIN turn = 1 .. L
    BY <1>4
  <2> HIDE DEF L
  <2> QED BY <1>0, <1>4, <2>1
<1>16. Reached'
  <2> SUFFICES ASSUME NEW s \in Stems
               PROVE  (outFile'[s] = Absent \/ ~outFile'[s].fresh) \/ \E m \in 1 .. n : s = StemOf(m)
    BY <1>11, <1>14 DEF Reached, Stale, Stems
  <2>1. CASE s = stem
    BY <1>3, <2>1 DEF stem
  <2>2. CASE s # stem
    <3>1. outFile'[s] = outFile[s]
      BY <1>12, <2>2
    <3>2. outFile[s] = Absent \/ ~outFile[s].fresh \/ \E m \in 1 .. L : s = StemOf(m)
      BY <1>1, <1>3, <1>15 DEF Reached, Stale
    <3>3. \A m \in 1 .. L : m \in 1 .. n
      <4> HIDE DEF L
      <4> QED BY <1>0, <1>4
    <3> QED BY <3>1, <3>2, <3>3
  <2> QED BY <2>1, <2>2
<1>17. ASSUME NEW m \in 1 .. L PROVE Owed(m)'
  <2>1. Owed(m) /\ m \in 1 .. n
    <3>1. m \in 1 .. n
      <4> HIDE DEF L
      <4> QED BY <1>0, <1>4, <1>17
    <3> QED BY <1>1, <1>15, <3>1, OwedIs
  <2>2. turn'[m] = turn[m]
    BY <1>11
  <2>3. StemOf(m) # stem
    BY <1>3
  <2>4. outFile'[StemOf(m)] = outFile[StemOf(m)]
    BY <1>6, <2>3
  <2>5. elfs' = elfs /\ selected' = selected /\ StemOf(m)' = StemOf(m) /\ IndexOf(m)' = IndexOf(m)
        /\ VariantOf(m)' = VariantOf(m)
    BY <1>2, <1>14, <2>1
  <2> QED BY <2>1, <2>2, <2>4, <2>5 DEF Owed
<1>18. Owed(n)'
  <2>1. r.ok => \/ elf[row].writes /\ elf[row].out = row.expected
                \/ f # Absent /\ ~f.fresh
    <3> SUFFICES ASSUME r.ok
                 PROVE  \/ elf[row].writes /\ elf[row].out = row.expected
                        \/ f # Absent /\ ~f.fresh
      OBVIOUS
    <3>1. f # Absent /\ f.out = row.expected
      BY <1>10
    <3>2. CASE elf[row].writes
      <4>1. f = [out |-> elf[row].out, fresh |-> TRUE]
        BY <3>2 DEF f, Output
      <4> QED BY <3>1, <3>2, <4>1
    <3>3. CASE ~elf[row].writes
      <4>1. f = outFile[stem]
        BY <3>3 DEF f, Output
      <4>2. outFile[stem] = Absent \/ ~outFile[stem].fresh
        BY <1>1, <1>3, <1>15 DEF Reached, Stale
      <4> QED BY <3>1, <4>1, <4>2
    <3> QED BY <1>8, <3>2, <3>3
  <2>2. n \in 1 .. n
    BY <1>3
  <2>3. elfs' = elfs /\ selected' = selected /\ StemOf(n)' = stem /\ IndexOf(n)' = i /\ VariantOf(n)' = v
    BY <1>2, <1>14, <2>2 DEF stem, i, v
  <2> QED BY <1>11, <1>12, <2>1, <2>3 DEF Owed, row, elf
<1>19. OnlyLeftoversMislead'
  BY <1>11, <1>15, <1>17, <1>18, OwedIsThen
<1>20. Snapshots' /\ Compared'
  BY <1>1, <1>2 DEF Snapshots, Compared
<1> QED BY <1>13, <1>16, <1>19, <1>20 DEF Inv

LEMMA FinishKeeps == ASSUME Inv, Finish PROVE Inv'
<1>1. selected' = <<>> /\ elfs' = <<>> /\ turn' = <<>> /\ outFile' = outFile /\ status' = Absent
  BY DEF Finish
<1>2. Running' /\ Reached' /\ OnlyLeftoversMislead'
  BY <1>1, NoRun DEF Inv, Running
<1>3. Fixtures(turn, Len(elfs)) \in Seq(Results)
  <2>1. turn \in Seq(Results) /\ Len(elfs) \in 1 .. 2
    <3>1. turn \in Seq(Results) /\ elfs \in Seq(Guests) /\ elfs # <<>> /\ Len(elfs) <= 2
      BY DEF Inv, Running, Finish
    <3>2. Len(elfs) \in Nat /\ Len(elfs) # 0
      BY <3>1
    <3> DEFINE w == Len(elfs)
    <3> HIDE DEF w
    <3>3. w \in Nat /\ w # 0 /\ w <= 2
      BY <3>1, <3>2 DEF w
    <3>4. w \in 1 .. 2
      BY <3>3
    <3> QED BY <3>1, <3>4 DEF w
  <2> QED BY <2>1, FixturesAre
<1>4. Snapshots'
  BY <1>3 DEF Finish, Inv, Snapshots
<1>5. Compared'
  BY <1>1, BenchAssumption DEF Compared
<1> QED BY <1>2, <1>4, <1>5 DEF Inv

LEMMA InterruptKeeps == ASSUME Inv, Interrupt PROVE Inv'
<1>1. selected' = <<>> /\ elfs' = <<>> /\ turn' = <<>> /\ UNCHANGED <<outFile, old, new, status>>
  BY DEF Interrupt
<1>2. Running' /\ Reached' /\ OnlyLeftoversMislead'
  BY <1>1, NoRun DEF Inv, Running
<1>3. Snapshots' /\ Compared'
  BY <1>1 DEF Inv, Snapshots, Compared
<1> QED BY <1>2, <1>3 DEF Inv

LEMMA Unchanged ==
  ASSUME Inv, UNCHANGED <<elfs, selected, turn, outFile, old, new>>
  PROVE  Running' /\ Reached' /\ OnlyLeftoversMislead' /\ Snapshots'
<1>1. Running' /\ Snapshots'
  BY DEF Inv, Running, Snapshots
<1>2. Reached'
  BY DEF Inv, Reached, Stale, StemOf, IndexOf, VariantOf
<1>3. OnlyLeftoversMislead'
  BY DEF Inv, OnlyLeftoversMislead
<1> QED BY <1>1, <1>2, <1>3

LEMMA CompareKeeps == ASSUME Inv, Compare PROVE Inv'
<1>1. status' = CompareStatus(old, new) /\ UNCHANGED <<elfs, selected, turn, outFile, old, new>>
  BY DEF Compare
<1>2. Running' /\ Reached' /\ OnlyLeftoversMislead' /\ Snapshots'
  BY <1>1, Unchanged
<1>3. Compared'
  BY <1>1 DEF Compared
<1> QED BY <1>2, <1>3 DEF Inv

LEMMA StepGood == ASSUME Inv, [BenchNext]_benchVars PROVE Inv'
<1>1. CASE UNCHANGED benchVars
  <2>1. UNCHANGED <<elfs, selected, turn, outFile, old, new>> /\ status' = status
    BY <1>1 DEF benchVars
  <2>2. Compared'
    BY <2>1 DEF Inv, Compared
  <2> QED BY <2>1, <2>2, Unchanged DEF Inv
<1>2. CASE Begin
  BY <1>2, BeginKeeps
<1>3. CASE RunVariant
  BY <1>3, RunVariantKeeps
<1>4. CASE Finish
  BY <1>4, FinishKeeps
<1>5. CASE Interrupt
  BY <1>5, InterruptKeeps
<1>6. CASE Compare
  BY <1>6, CompareKeeps
<1> QED BY <1>1, <1>2, <1>3, <1>4, <1>5, <1>6 DEF BenchNext

\* The invariant of the benchmark: what each file holds and who wrote it, what
\* each result owes its ok to, and what a status is about.
THEOREM BenchInvariant == BenchSpec => []Inv
<1>1. BenchInit => Inv
  BY InitGood
<1>2. Inv /\ [BenchNext]_benchVars => Inv'
  BY StepGood
<1> QED BY <1>1, <1>2, PTL DEF BenchSpec

\* bench.py takes a wrong guest for right only by a file that an earlier run left.
THEOREM LeftoversOnly == BenchSpec => []OnlyLeftoversMislead
<1>1. Inv => OnlyLeftoversMislead
  BY DEF Inv
<1> QED BY <1>1, BenchInvariant, PTL

\* bench_compare.py looks at each fixture, and so bounds the total.
THEOREM TotalBounded == BenchSpec => []TotalWithinThreshold
<1>1. ASSUME Inv PROVE TotalWithinThreshold
  <2> SUFFICES ASSUME status = 0,
                      {old[i].label : i \in Counted(old)} = {new[i].label : i \in Counted(new)},
                      \A s \in {old, new} : \A i \in Counted(s) : s[i].steps > 0
               PROVE  (Total(new) - Total(old)) * 100 <= Threshold * Total(old)
    BY DEF TotalWithinThreshold
  <2>1. CompareStatus(old, new) = 0
    BY <1>1 DEF Inv, Compared
  <2>2. Loadable(old) /\ Loadable(new)
    BY <2>1 DEF CompareStatus
  <2>3. old \in Seq(Results) /\ new \in Seq(Results)
    BY <1>1, <2>2 DEF Inv, Snapshots, Loadable
  <2>4. \A i \in Counted(old) : old[i].steps > 0
    OBVIOUS
  <2>5. \A i \in Counted(new) : new[i].steps > 0
    OBVIOUS
  <2> QED BY <2>1, <2>3, <2>4, <2>5, TotalsWithin
<1> QED BY <1>1, BenchInvariant, PTL
=============================================================================
