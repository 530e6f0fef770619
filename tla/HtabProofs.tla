----------------------------- MODULE HtabProofs -----------------------------
(***************************************************************************)
(* The hash table is the ordered map of OrderedMap, for all keys, values,  *)
(* hash functions and capacities, whatever collides or wraps around.       *)
(***************************************************************************)
EXTENDS Htab, FiniteSetTheorems, SequenceTheorems, WellFoundedInduction, TLAPS

(***************************************************************************)
(* Numbers, and loops.                                                     *)
(***************************************************************************)
LEMMA Least ==
  ASSUME NEW T, T \subseteq Nat, T # {}
  PROVE  \E m \in T : \A k \in T : m <= k
<1>1. PICK x \in T : \A y \in T : ~ (<<y, x>> \in OpToRel(<, Nat))
  BY WFMin, NatLessThanWellFounded
<1>2. \A y \in T : ~ (y < x)
  BY <1>1 DEF OpToRel
<1> QED BY <1>2

LEMMA ModIn == ASSUME NEW a \in Nat, NEW c \in Nat \ {0} PROVE a % c \in 0 .. c - 1
OBVIOUS

\* Going d steps around a circle of c.
LEMMA Around ==
  ASSUME NEW c \in Nat \ {0}, NEW a \in 0 .. c - 1, NEW d \in 0 .. c
  PROVE  (a + d) % c = IF a + d < c THEN a + d ELSE a + d - c
<1>1. CASE a + d < c
  BY <1>1
<1>2. CASE a + d >= c
  <2> DEFINE e == a + d - c
  <2>1. e \in 0 .. c - 1 /\ a + d = e + c
    BY <1>2
  <2> HIDE DEF e
  <2>2. (e + c) % c = e
    BY <2>1
  <2> QED BY <1>2, <2>1, <2>2
<1> QED BY <1>1, <1>2

\* How far i is from h, going around.
Dist(c, h, i) == IF i >= h THEN i - h ELSE i - h + c

\* What a loop keeps from turn to turn it has kept in the end.
LEMMA LoopKeeps ==
  ASSUME NEW N \in Nat, NEW S, NEW f, f[0] \in S[0],
         \A n \in 1 .. N : f[n - 1] \in S[n - 1] => f[n] \in S[n]
  PROVE  \A n \in 0 .. N : f[n] \in S[n]
<1> DEFINE bad == {n \in 0 .. N : f[n] \notin S[n]}
<1>1. ASSUME bad # {} PROVE FALSE
  <2>1. PICK m \in bad : \A k \in bad : m <= k
    <3>1. bad \subseteq Nat
      OBVIOUS
    <3> HIDE DEF bad
    <3> QED BY <1>1, <3>1, Least
  <2>2. m # 0 /\ m \in 1 .. N
    OBVIOUS
  <2>3. m - 1 \notin bad /\ m - 1 \in 0 .. N
    BY <2>1, <2>2
  <2> QED BY <2>2, <2>3
<1> QED BY <1>1

\* A loop runs, if what it needs is what it keeps.
Runs(f, N, x, turn) == f = [n \in 0 .. N |-> IF n = 0 THEN x ELSE turn[n][f[n - 1]]]

LEMMA LoopRuns ==
  ASSUME NEW N \in Nat, NEW x, NEW turn
  PROVE  \E f : Runs(f, N, x, turn)
<1> DEFINE bad == {n \in Nat : ~ \E f : Runs(f, n, x, turn)}
<1>1. ASSUME bad # {} PROVE FALSE
  <2>1. PICK m \in bad : \A k \in bad : m <= k
    <3>1. bad \subseteq Nat
      OBVIOUS
    <3> HIDE DEF bad
    <3> QED BY <1>1, <3>1, Least
  <2>2. m # 0
    <3> DEFINE f == [n \in 0 .. 0 |-> x]
    <3>1. Runs(f, 0, x, turn)
      BY DEF Runs
    <3> QED BY <3>1
  <2>3. m - 1 \in Nat /\ m - 1 \notin bad /\ m \in Nat
    BY <2>1, <2>2
  <2>4. PICK g : Runs(g, m - 1, x, turn)
    BY <2>3
  <2> DEFINE F(h, n) == IF n = 0 THEN x ELSE turn[n][h[n - 1]]
             f == [n \in 0 .. m |-> F(g, n)]
  <2>5. \A n \in 0 .. m - 1 : g[n] = F(g, n)
    BY <2>4 DEF Runs
  <2>6. \A n \in 0 .. m : F(g, n) = F(f, n)
    <3> SUFFICES ASSUME NEW n \in 0 .. m PROVE F(g, n) = F(f, n)
      OBVIOUS
    <3>1. CASE n = 0
      BY <3>1
    <3>2. CASE n # 0
      <4>1. n - 1 \in 0 .. m - 1 /\ n - 1 \in 0 .. m
        BY <2>3, <3>2
      <4>2. f[n - 1] = g[n - 1]
        BY <2>5, <4>1
      <4> QED BY <3>2, <4>2
    <3> QED BY <3>1, <3>2
  <2>7. f = [n \in 0 .. m |-> F(f, n)]
    <3> DEFINE h == [n \in 0 .. m |-> F(f, n)]
    <3>1. \A n \in 0 .. m : f[n] = h[n]
      BY <2>6
    <3>2. f = [n \in 0 .. m |-> f[n]] /\ h = [n \in 0 .. m |-> h[n]]
      OBVIOUS
    <3>3. f = h
      <4> HIDE DEF f, h
      <4> QED BY <3>1, <3>2
    <3> QED BY <3>3
  <2>8. Runs(f, m, x, turn)
    BY <2>7 DEF Runs
  <2> QED BY <2>1, <2>8
<1> QED BY <1>1

-----------------------------------------------------------------------------
(***************************************************************************)
(* Tables.                                                                 *)
(***************************************************************************)
Hashing  == hash \in [Key -> Nat]
Entry    == Key \X Val
SlotsOf(x) == 0 .. x.cap - 1

\* Numbers for some of the slots.
Numbers(c) == UNION {[D -> Nat] : D \in SUBSET (0 .. c - 1)}
Tables(c) ==
  [cap : {c}, slots : [0 .. c - 1 -> Entry \cup {Free}], order : Seq(0 .. c - 1), pos : Numbers(c)]

\* order and pos say the same of the slots in use
Paired(x) ==
  /\ \A n \in 1 .. Len(x.order) : x.order[n] \in Used(x) /\ x.pos[x.order[n]] = n - 1
  /\ \A i \in Used(x) : x.pos[i] + 1 \in 1 .. Len(x.order) /\ x.order[x.pos[i] + 1] = i

Unique(x) == \A i, j \in Used(x) : x.slots[i][1] = x.slots[j][1] => i = j

\* s comes before i on the way from the home of k
Before(x, k, s, i) == Dist(x.cap, Home(x, k), s) < Dist(x.cap, Home(x, k), i)

\* nothing on the way from its home to an entry is free
Reach(x) == \A i \in Used(x) : \A s \in SlotsOf(x) : Before(x, x.slots[i][1], s, i) => s \in Used(x)

Sound(x) ==
  /\ x.cap \in Nat \ {0, 1} /\ x \in Tables(x.cap) /\ DOMAIN x.pos = Used(x)
  /\ Paired(x) /\ Unique(x) /\ Reach(x)

Roomy(x) == \E s \in SlotsOf(x) : x.slots[s] = Free

LEMMA NumbersAre ==
  ASSUME NEW c \in Nat, NEW f
  PROVE  f \in Numbers(c) <=> /\ f = [s \in DOMAIN f |-> f[s]]
                              /\ DOMAIN f \subseteq 0 .. c - 1 /\ \A s \in DOMAIN f : f[s] \in Nat
<1>1. ASSUME f \in Numbers(c)
      PROVE  /\ f = [s \in DOMAIN f |-> f[s]]
             /\ DOMAIN f \subseteq 0 .. c - 1 /\ \A s \in DOMAIN f : f[s] \in Nat
  <2>1. PICK D \in SUBSET (0 .. c - 1) : f \in [D -> Nat]
    BY <1>1 DEF Numbers
  <2> QED BY <2>1
<1>2. ASSUME f = [s \in DOMAIN f |-> f[s]],
             DOMAIN f \subseteq 0 .. c - 1, \A s \in DOMAIN f : f[s] \in Nat
      PROVE  f \in Numbers(c)
  <2>1. f \in [DOMAIN f -> Nat]
    BY <1>2
  <2>2. DOMAIN f \in SUBSET (0 .. c - 1)
    BY <1>2
  <2> QED BY <2>1, <2>2 DEF Numbers
<1> QED BY <1>1, <1>2

LEMMA TableShape ==
  ASSUME NEW c \in Nat \ {0, 1}, NEW x \in Tables(c)
  PROVE  /\ x.cap = c /\ SlotsOf(x) = 0 .. c - 1
         /\ DOMAIN x.slots = 0 .. c - 1 /\ x.order \in Seq(0 .. c - 1)
         /\ DOMAIN x.pos \subseteq 0 .. c - 1 /\ \A s \in DOMAIN x.pos : x.pos[s] \in Nat
         /\ Used(x) \subseteq 0 .. c - 1
         /\ \A i \in 0 .. c - 1 : i \in Used(x) <=> x.slots[i] # Free
         /\ \A i \in Used(x) : x.slots[i] \in Entry /\ x.slots[i][1] \in Key
         /\ Len(x.order) \in Nat
<1>1. x.pos \in Numbers(c)
  BY DEF Tables
<1>2. DOMAIN x.pos \subseteq 0 .. c - 1 /\ \A s \in DOMAIN x.pos : x.pos[s] \in Nat
  BY <1>1, NumbersAre
<1>3. /\ x.cap = c /\ SlotsOf(x) = 0 .. c - 1 /\ x.slots \in [0 .. c - 1 -> Entry \cup {Free}]
      /\ x.order \in Seq(0 .. c - 1)
  BY DEF Tables, SlotsOf
<1>4. /\ Used(x) \subseteq 0 .. c - 1
      /\ \A i \in 0 .. c - 1 : i \in Used(x) <=> x.slots[i] # Free
  BY <1>3 DEF Used
<1>5. \A i \in Used(x) : x.slots[i] \in Entry /\ x.slots[i][1] \in Key
  BY <1>3, <1>4 DEF Entry
<1> QED BY <1>2, <1>3, <1>4, <1>5

LEMMA HomeIn ==
  ASSUME Hashing, NEW x, x.cap \in Nat \ {0, 1}, NEW k \in Key
  PROVE  Home(x, k) \in SlotsOf(x)
BY ModIn DEF Hashing, Home, SlotsOf

\* What a probe returns: the key or a free slot, and neither comes before it.
Probed(x, k, i) ==
  /\ i \in SlotsOf(x) /\ (x.slots[i] = Free \/ x.slots[i][1] = k)
  /\ \A s \in SlotsOf(x) : Before(x, k, s, i) => x.slots[s] # Free /\ x.slots[s][1] # k

LEMMA ProbeIs ==
  ASSUME Hashing, NEW x, x.cap \in Nat \ {0, 1}, NEW k \in Key, Roomy(x)
  PROVE  Stops(x, k) # {} /\ Probed(x, k, Probe(x, k))
<1> DEFINE c == x.cap
           h == Home(x, k)
           at(d) == (h + d) % c
           stop(s) == x.slots[s] = Free \/ x.slots[s][1] = k
<1>1. h \in 0 .. c - 1 /\ c \in Nat \ {0, 1} /\ SlotsOf(x) = 0 .. c - 1
  BY HomeIn DEF SlotsOf
<1>2. Stops(x, k) = {d \in 0 .. c - 1 : stop(at(d))}
  BY DEF Stops
<1> HIDE DEF h, c
<1>3. ASSUME NEW d \in 0 .. c - 1
      PROVE  at(d) = (IF h + d < c THEN h + d ELSE h + d - c) /\ at(d) \in 0 .. c - 1
             /\ Dist(c, h, at(d)) = d
  <2>1. at(d) = IF h + d < c THEN h + d ELSE h + d - c
    <3>1. c \in Nat \ {0} /\ h \in 0 .. c - 1 /\ d \in 0 .. c
      BY <1>1
    <3> QED BY <3>1, Around
  <2> HIDE DEF at
  <2> QED BY <1>1, <2>1 DEF Dist
<1>4. ASSUME NEW s \in 0 .. c - 1
      PROVE  Dist(c, h, s) \in 0 .. c - 1 /\ at(Dist(c, h, s)) = s
  <2> DEFINE d == Dist(c, h, s)
  <2>1. d \in 0 .. c - 1
    BY <1>1 DEF Dist
  <2>2. (IF h + d < c THEN h + d ELSE h + d - c) = s
    BY <1>1 DEF Dist
  <2> HIDE DEF d
  <2>3. at(d) = s
    BY <1>3, <2>1, <2>2
  <2> QED BY <2>1, <2>3 DEF d
<1>5. Stops(x, k) # {}
  <2>1. PICK s \in 0 .. c - 1 : stop(s)
    BY <1>1 DEF Roomy
  <2>2. Dist(c, h, s) \in 0 .. c - 1 /\ stop(at(Dist(c, h, s)))
    <3> HIDE DEF at
    <3> QED BY <1>4, <2>1
  <2> HIDE DEF at, stop
  <2> QED BY <1>2, <2>2
<1> DEFINE least == CHOOSE d \in Stops(x, k) : \A e \in Stops(x, k) : d <= e
<1>6. least \in Stops(x, k) /\ \A e \in Stops(x, k) : least <= e
  <2>1. Stops(x, k) \subseteq Nat
    BY <1>1, <1>2
  <2>2. \E d \in Stops(x, k) : \A e \in Stops(x, k) : d <= e
    BY <1>5, <2>1, Least
  <2> QED BY <2>2
<1>7. Probe(x, k) = at(least)
  BY DEF Probe, h, c
<1> HIDE DEF least
<1>8. least \in 0 .. c - 1 /\ stop(at(least))
  <2> HIDE DEF at, stop
  <2> QED BY <1>2, <1>6
<1>9. at(least) \in 0 .. c - 1 /\ Dist(c, h, at(least)) = least
  <2> HIDE DEF at
  <2> QED BY <1>3, <1>8
<1>10. ASSUME NEW s \in 0 .. c - 1, Dist(c, h, s) < least PROVE ~stop(s)
  <2>1. Dist(c, h, s) \in 0 .. c - 1 /\ at(Dist(c, h, s)) = s /\ least \in Nat
    <3> HIDE DEF at
    <3> QED BY <1>4, <1>8
  <2>2. Dist(c, h, s) \notin Stops(x, k)
    <3> DEFINE d == Dist(c, h, s)
    <3>1. d \in Nat /\ d < least
      BY <1>10, <2>1
    <3> HIDE DEF d
    <3>2. d \notin Stops(x, k)
      BY <1>6, <2>1, <3>1
    <3> QED BY <3>2 DEF d
  <2> HIDE DEF at, stop
  <2> QED BY <1>2, <2>1, <2>2
<1> HIDE DEF at
<1>11. \A s \in 0 .. c - 1 : Before(x, k, s, at(least)) => ~stop(s)
  BY <1>9, <1>10 DEF Before, h, c
<1> QED BY <1>1, <1>5, <1>7, <1>8, <1>9, <1>11 DEF Probed

LEMMA DistApart ==
  ASSUME NEW c \in Nat, NEW h \in 0 .. c - 1, NEW s \in 0 .. c - 1, NEW i \in 0 .. c - 1
  PROVE  /\ Dist(c, h, s) \in 0 .. c - 1 /\ Dist(c, h, i) \in 0 .. c - 1
         /\ Dist(c, h, s) = Dist(c, h, i) => s = i
BY DEF Dist

SoundShape(x) ==
  /\ x.cap \in Nat \ {0, 1} /\ SlotsOf(x) = 0 .. x.cap - 1
  /\ DOMAIN x.slots = 0 .. x.cap - 1 /\ x.order \in Seq(0 .. x.cap - 1)
  /\ Used(x) \subseteq 0 .. x.cap - 1
  /\ \A s \in Used(x) : x.pos[s] \in Nat
  /\ \A i \in 0 .. x.cap - 1 : i \in Used(x) <=> x.slots[i] # Free
  /\ \A i \in Used(x) : x.slots[i] \in Entry /\ x.slots[i][1] \in Key
  /\ Len(x.order) \in Nat /\ DOMAIN x.order = 1 .. Len(x.order)

LEMMA SoundHas == ASSUME NEW x, Sound(x) PROVE SoundShape(x)
<1>1. x.cap \in Nat \ {0, 1} /\ x \in Tables(x.cap) /\ DOMAIN x.pos = Used(x)
  BY DEF Sound
<1>2. /\ x.cap = x.cap /\ SlotsOf(x) = 0 .. x.cap - 1
      /\ DOMAIN x.slots = 0 .. x.cap - 1 /\ x.order \in Seq(0 .. x.cap - 1)
      /\ DOMAIN x.pos \subseteq 0 .. x.cap - 1 /\ \A s \in DOMAIN x.pos : x.pos[s] \in Nat
      /\ Used(x) \subseteq 0 .. x.cap - 1
      /\ \A i \in 0 .. x.cap - 1 : i \in Used(x) <=> x.slots[i] # Free
      /\ \A i \in Used(x) : x.slots[i] \in Entry /\ x.slots[i][1] \in Key
      /\ Len(x.order) \in Nat
  BY <1>1, TableShape, Zenon
<1>3. DOMAIN x.order = 1 .. Len(x.order)
  BY <1>2
<1> QED BY <1>1, <1>2, <1>3 DEF SoundShape

\* The key k is in the table at i.
At(x, k, i) == i \in Used(x) /\ x.slots[i][1] = k

LEMMA FindSlotIs ==
  ASSUME Hashing, NEW x, Sound(x), Roomy(x), NEW k \in Key
  PROVE  /\ \A i \in Used(x) : x.slots[i][1] = k => FindSlot(x, k) = i
         /\ FindSlot(x, k) # x.cap => At(x, k, FindSlot(x, k))
         /\ FindSlot(x, k) = x.cap => /\ Probed(x, k, Probe(x, k))
                                      /\ x.slots[Probe(x, k)] = Free
                                      /\ \A i \in Used(x) : x.slots[i][1] # k
<1> DEFINE p == Probe(x, k)
<1>1. SoundShape(x)
  BY SoundHas
<1>2. Probed(x, k, p)
  BY <1>1, ProbeIs DEF SoundShape
<1>3. Home(x, k) \in 0 .. x.cap - 1
  BY <1>1, HomeIn DEF SoundShape
<1>4. p \in 0 .. x.cap - 1
  BY <1>1, <1>2 DEF Probed, SoundShape
<1>5. FindSlot(x, k) = IF x.slots[p] = Free THEN x.cap ELSE p
  BY DEF FindSlot
<1> HIDE DEF p
<1>6. ASSUME NEW i \in Used(x), x.slots[i][1] = k PROVE p = i
  <2>1. i \in 0 .. x.cap - 1 /\ x.slots[i] # Free
    BY <1>1 DEF SoundShape
  <2>2. ~Before(x, k, i, p)
    BY <1>1, <1>2, <1>6, <2>1 DEF Probed, SoundShape
  <2>3. CASE Before(x, k, p, i)
    <3>1. p \in Used(x)
      BY <1>1, <1>4, <1>6, <2>3 DEF Sound, Reach, SoundShape
    <3>2. x.slots[p][1] = k
      BY <1>1, <1>2, <1>4, <3>1 DEF Probed, SoundShape
    <3> QED BY <1>6, <3>1, <3>2 DEF Sound, Unique
  <2>4. CASE ~Before(x, k, p, i)
    <3> DEFINE dp == Dist(x.cap, Home(x, k), p)
               di == Dist(x.cap, Home(x, k), i)
    <3>1. x.cap \in Nat
      BY <1>1 DEF SoundShape
    <3>2. dp \in 0 .. x.cap - 1 /\ di \in 0 .. x.cap - 1 /\ (dp = di => p = i)
      BY <1>3, <1>4, <2>1, <3>1, DistApart
    <3>3. ~(di < dp) /\ ~(dp < di)
      BY <2>2, <2>4 DEF Before
    <3> HIDE DEF dp, di
    <3> QED BY <3>2, <3>3
  <2> QED BY <2>3, <2>4
<1>7. CASE x.slots[p] = Free
  <2>1. FindSlot(x, k) = x.cap
    BY <1>5, <1>7
  <2>2. \A i \in Used(x) : x.slots[i][1] # k
    BY <1>1, <1>4, <1>6, <1>7 DEF SoundShape
  <2> QED BY <1>2, <1>7, <2>1, <2>2 DEF p
<1>8. CASE x.slots[p] # Free
  <2>1. FindSlot(x, k) = p /\ p \in Used(x) /\ x.slots[p][1] = k
    BY <1>1, <1>2, <1>4, <1>5, <1>8 DEF Probed, SoundShape
  <2>2. p # x.cap
    BY <1>1, <1>4 DEF SoundShape
  <2> QED BY <1>6, <2>1, <2>2 DEF At
<1> QED BY <1>7, <1>8

\* Entries for all slots would need as many places in the order.
LEMMA RoomIs ==
  ASSUME NEW x, Sound(x), Len(x.order) < x.cap
  PROVE  Roomy(x)
<1> DEFINE S == 0 .. x.cap - 1
           L == Len(x.order)
           T == 1 .. L
           f == [s \in S |-> x.pos[s] + 1]
<1>1. SoundShape(x)
  BY SoundHas
<1>2. x.cap \in Nat \ {0, 1} /\ L \in Nat /\ L < x.cap
  BY <1>1 DEF SoundShape
<1>3. ASSUME ~Roomy(x) PROVE FALSE
  <2>1. S = Used(x)
    BY <1>1, <1>3 DEF Roomy, SoundShape
  <2>2. \A s \in S : f[s] \in T /\ x.order[f[s]] = s
    BY <2>1 DEF Sound, Paired
  <2> HIDE DEF L
  <2>3. IsFiniteSet(S) /\ Cardinality(S) = x.cap /\ IsFiniteSet(T) /\ Cardinality(T) = L
    <3>1. IsFiniteSet(S) /\ Cardinality(S) = x.cap
      <4>1. 0 \in Int /\ x.cap - 1 \in Int /\ ~(0 > x.cap - 1) /\ x.cap - 1 - 0 + 1 = x.cap
        BY <1>2
      <4> QED BY <4>1, FS_Interval
    <3>2. IsFiniteSet(T) /\ Cardinality(T) = L
      <4>1. 1 \in Int /\ L \in Int /\ (1 > L => L = 0) /\ L - 1 + 1 = L
        BY <1>2
      <4> QED BY <4>1, FS_Interval
    <3> QED BY <3>1, <3>2
  <2>4. f \in [S -> T]
    BY <2>2
  <2> HIDE DEF S, T, f
  <2>5. \E s, i \in S : s # i /\ f[s] = f[i]
    BY <1>2, <2>3, <2>4, FS_PigeonHole
  <2> QED BY <2>2, <2>5
<1> QED BY <1>3

\* The items are a sequence of entries, and there is one such sequence.
Listed(x) ==
  /\ Items(x) \in Seq(Entry) /\ Len(Items(x)) = Len(x.order)
  /\ \A n \in 1 .. Len(x.order) : Items(x)[n] = x.slots[x.order[n]]

LEMMA ItemsAre == ASSUME NEW x, Sound(x) PROVE Listed(x)
<1>1. SoundShape(x)
  BY SoundHas
<1>2. \A n \in 1 .. Len(x.order) : x.slots[x.order[n]] \in Entry
  BY <1>1 DEF Sound, Paired, SoundShape
<1>3. Len(x.order) \in Nat
  BY <1>1 DEF SoundShape
<1> QED BY <1>2, <1>3 DEF Items, Listed

LEMMA ItemsEqual ==
  ASSUME NEW x, Sound(x), NEW list \in Seq(Entry), Len(list) = Len(x.order),
         \A n \in 1 .. Len(x.order) : x.slots[x.order[n]] = list[n]
  PROVE  Items(x) = list
<1>1. Listed(x)
  BY ItemsAre
<1>2. /\ Items(x) \in Seq(Entry) /\ Len(Items(x)) = Len(list)
      /\ \A n \in 1 .. Len(Items(x)) : Items(x)[n] = list[n]
  BY <1>1 DEF Listed
<1> QED BY <1>2, SeqEqual

\* What htab_insert_raw does: a good table with one entry more, which is the last.
Added(x, y, k, v) ==
  /\ Sound(y) /\ y.cap = x.cap /\ Len(y.order) = Len(x.order) + 1
  /\ Items(y) = Append(Items(x), <<k, v>>)

LEMMA InsertAdds ==
  ASSUME Hashing, NEW x, Sound(x), Roomy(x), NEW k \in Key, NEW v \in Val,
         \A i \in Used(x) : x.slots[i][1] # k
  PROVE  Added(x, InsertRaw(x, k, v), k, v)
<1> DEFINE c == x.cap
           n == Len(x.order) + 1
           p == Probe(x, k)
           y == InsertRaw(x, k, v)
           e == <<k, v>>
<1>1. SoundShape(x)
  BY SoundHas
<1>2. Probed(x, k, p)
  BY <1>1, ProbeIs DEF SoundShape
<1>3. p \in 0 .. c - 1 /\ x.slots[p] = Free /\ p \notin Used(x)
  BY <1>1, <1>2 DEF Probed, SoundShape
<1>4. e \in Entry /\ e[1] = k /\ e # Free
  BY HtabAssumption DEF Entry
<1>5. x \in Tables(c) /\ x.slots \in [0 .. c - 1 -> Entry \cup {Free}]
      /\ x.order \in Seq(0 .. c - 1) /\ DOMAIN x.pos = Used(x)
  BY DEF Sound, Tables
<1>6. /\ y.cap = c /\ y.slots = [x.slots EXCEPT ![p] = e] /\ y.order = Append(x.order, p)
      /\ y.pos = [s \in DOMAIN x.pos \cup {p} |-> IF s = p THEN Len(x.order) ELSE x.pos[s]]
      /\ y = [cap |-> c, slots |-> y.slots, order |-> y.order, pos |-> y.pos]
  <2> DEFINE ys == [x.slots EXCEPT ![p] = e]
             yo == Append(x.order, p)
             yp == [s \in DOMAIN x.pos \cup {p} |-> IF s = p THEN Len(x.order) ELSE x.pos[s]]
  <2>1. x = [cap |-> c, slots |-> x.slots, order |-> x.order, pos |-> x.pos]
    BY <1>5 DEF Tables
  <2>2. y = [x EXCEPT !.slots = ys, !.order = yo, !.pos = yp]
    BY <2>1 DEF InsertRaw
  <2> HIDE DEF y, ys, yo, yp
  <2>3. y = [cap |-> c, slots |-> ys, order |-> yo, pos |-> yp]
    BY <2>1, <2>2
  <2> QED BY <2>3 DEF ys, yo, yp
<1> HIDE DEF p, y, e
<1>7. c \in Nat \ {0, 1} /\ n \in Nat \ {0} /\ Used(x) \subseteq 0 .. c - 1
  BY <1>1 DEF SoundShape
<1>8. y.slots \in [0 .. c - 1 -> Entry \cup {Free}]
      /\ \A s \in 0 .. c - 1 : y.slots[s] = IF s = p THEN e ELSE x.slots[s]
  BY <1>3, <1>4, <1>5, <1>6, ZenonT(60)
<1>9. y.order \in Seq(0 .. c - 1) /\ Len(y.order) = n
      /\ \A m \in 1 .. n : y.order[m] = IF m = n THEN p ELSE x.order[m]
  BY <1>3, <1>5, <1>6
<1>10. Used(y) = Used(x) \cup {p}
  BY <1>3, <1>4, <1>6, <1>8 DEF Used
<1>11. DOMAIN y.pos = Used(y) /\ y.pos[p] = n - 1 /\ \A s \in Used(x) : y.pos[s] = x.pos[s]
  BY <1>3, <1>5, <1>6, <1>7, <1>10
<1>12. y \in Tables(c)
  <2>1. y.pos \in Numbers(c)
    <3>1. \A s \in Used(x) \cup {p} : y.pos[s] \in Nat
      BY <1>1, <1>7, <1>11 DEF SoundShape
    <3>2. y.pos = [s \in DOMAIN y.pos |-> y.pos[s]]
      BY <1>6
    <3>3. DOMAIN y.pos \subseteq 0 .. c - 1 /\ c \in Nat /\ \A s \in DOMAIN y.pos : y.pos[s] \in Nat
      BY <1>3, <1>7, <1>10, <1>11, <3>1
    <3> QED BY <3>2, <3>3, NumbersAre
  <2> QED BY <1>6, <1>8, <1>9, <2>1 DEF Tables
<1>13. Paired(y)
  <2>1. \A m \in 1 .. n : m = n \/ m \in 1 .. Len(x.order)
    BY <1>7
  <2>2. \A m \in 1 .. n : y.order[m] \in Used(y) /\ y.pos[y.order[m]] = m - 1
    BY <1>3, <1>7, <1>9, <1>10, <1>11, <2>1, ZenonT(60) DEF Sound, Paired
  <2>3. \A i \in Used(x) : x.pos[i] + 1 \in 1 .. Len(x.order) /\ x.order[x.pos[i] + 1] = i
    BY DEF Sound, Paired
  <2>4. \A i \in Used(x) : y.pos[i] + 1 \in 1 .. n /\ y.order[y.pos[i] + 1] = i
    <3> SUFFICES ASSUME NEW i \in Used(x)
                 PROVE  y.pos[i] + 1 \in 1 .. n /\ y.order[y.pos[i] + 1] = i
      OBVIOUS
    <3> DEFINE m == x.pos[i] + 1
    <3>1. m \in 1 .. Len(x.order) /\ x.order[m] = i /\ y.pos[i] + 1 = m
      BY <1>11, <2>3
    <3>2. m \in 1 .. n /\ m # n
      BY <1>7, <3>1
    <3> HIDE DEF m
    <3> QED BY <1>9, <3>1, <3>2
  <2>5. y.pos[p] + 1 = n /\ y.order[n] = p
    BY <1>7, <1>9, <1>11
  <2> QED BY <1>7, <1>9, <1>10, <2>2, <2>4, <2>5 DEF Paired
<1>14. Unique(y)
  <2>1. \A i \in Used(x) : i # p /\ y.slots[i] = x.slots[i]
    BY <1>3, <1>7, <1>8
  <2>2. y.slots[p][1] = k
    BY <1>3, <1>4, <1>8
  <2> QED BY <1>10, <2>1, <2>2 DEF Sound, Unique
<1>15. Reach(y)
  <2>1. \A kk, s, i : Before(y, kk, s, i) = Before(x, kk, s, i)
    BY <1>6 DEF Before, Home
  <2>2. SlotsOf(y) = 0 .. c - 1 /\ SlotsOf(x) = 0 .. c - 1
    BY <1>6 DEF SlotsOf
  <2> SUFFICES ASSUME NEW i \in Used(y), NEW s \in 0 .. c - 1, Before(x, y.slots[i][1], s, i)
               PROVE  s \in Used(y)
    BY <2>1, <2>2 DEF Reach
  <2>3. CASE i = p
    <3>1. Before(x, k, s, p)
      BY <1>3, <1>4, <1>8, <2>3
    <3>2. x.slots[s] # Free
      BY <1>2, <2>2, <3>1 DEF Probed
    <3> QED BY <1>1, <1>10, <3>2 DEF SoundShape
  <2>4. CASE i # p
    <3>1. i \in Used(x) /\ y.slots[i] = x.slots[i]
      BY <1>7, <1>8, <1>10, <2>4
    <3>2. s \in Used(x)
      BY <2>2, <3>1 DEF Sound, Reach
    <3> QED BY <1>10, <3>2
  <2> QED BY <2>3, <2>4
<1>16. Sound(y)
  BY <1>6, <1>7, <1>11, <1>12, <1>13, <1>14, <1>15 DEF Sound
<1>17. Items(y) = Append(Items(x), e)
  <2> DEFINE I == Items(x)
             A == Append(I, e)
  <2>1. \A m \in 1 .. Len(x.order) : x.order[m] \in Used(x) /\ x.order[m] # p
    BY <1>3 DEF Sound, Paired
  <2>2. I \in Seq(Entry) /\ Len(I) + 1 = n /\ \A m \in 1 .. Len(I) : I[m] = x.slots[x.order[m]]
    BY ItemsAre DEF Listed
  <2> HIDE DEF I
  <2>3. A \in Seq(Entry) /\ Len(A) = n /\ \A m \in 1 .. n : A[m] = IF m = n THEN e ELSE I[m]
    BY <1>4, <1>7, <2>2
  <2> HIDE DEF A
  <2>4. ASSUME NEW m \in 1 .. n PROVE y.slots[y.order[m]] = A[m]
    <3>1. CASE m = n
      BY <1>3, <1>8, <1>9, <2>3, <3>1
    <3>2. CASE m # n
      <4>1. m \in 1 .. Len(I) /\ m \in 1 .. Len(x.order) /\ y.order[m] = x.order[m]
        BY <1>7, <1>9, <2>2, <3>2
      <4>2. y.slots[x.order[m]] = x.slots[x.order[m]]
        BY <1>7, <1>8, <2>1, <4>1
      <4> QED BY <2>2, <2>3, <3>2, <4>1, <4>2
    <3> QED BY <3>1, <3>2
  <2> QED BY <1>9, <1>16, <2>3, <2>4, ItemsEqual DEF A, I
<1> QED BY <1>6, <1>9, <1>16, <1>17 DEF Added, y, e

LEMMA EmptySound ==
  ASSUME NEW c \in Nat \ {0, 1}
  PROVE  Sound(Empty(c)) /\ Empty(c).cap = c /\ Len(Empty(c).order) = 0 /\ Used(Empty(c)) = {}
<1> DEFINE y == Empty(c)
<1>1. /\ y = [cap |-> c, slots |-> [i \in 0 .. c - 1 |-> Free], order |-> <<>>, pos |-> <<>>]
      /\ y.cap = c /\ y.slots = [i \in 0 .. c - 1 |-> Free] /\ y.order = <<>> /\ y.pos = <<>>
  BY DEF Empty
<1> HIDE DEF y
<1>2. Used(y) = {}
  BY <1>1 DEF Used
<1>3. y.order \in Seq(0 .. c - 1) /\ Len(y.order) = 0
  BY <1>1
<1>4. DOMAIN y.pos = {}
  BY <1>1
<1>5. y \in Tables(c)
  <2>1. <<>> = [s \in {} |-> 0]
    OBVIOUS
  <2>2. [s \in {} |-> 0] \in Numbers(c)
    BY NumbersAre
  <2>3. y.pos \in Numbers(c)
    BY <1>1, <2>1, <2>2
  <2>4. [i \in 0 .. c - 1 |-> Free] \in [0 .. c - 1 -> Entry \cup {Free}]
    OBVIOUS
  <2> QED BY <1>1, <1>3, <2>3, <2>4 DEF Tables
<1>6. Paired(y) /\ Unique(y) /\ Reach(y)
  BY <1>2, <1>3 DEF Paired, Unique, Reach
<1> QED BY <1>1, <1>2, <1>3, <1>4, <1>5, <1>6 DEF Sound, y

\* The first n items of x.
Copies(x, c, n) ==
  {y \in Tables(c) : Sound(y) /\ Len(y.order) = n /\ Items(y) = SubSeq(Items(x), 1, n)}
CopyTurn(x, n, y) == InsertRaw(y, x.slots[x.order[n]][1], x.slots[x.order[n]][2])

LEMMA CopyOne ==
  ASSUME Hashing, NEW x, Sound(x), NEW c \in Nat \ {0, 1}, Len(x.order) <= c,
         NEW n \in 1 .. Len(x.order), NEW y \in Copies(x, c, n - 1)
  PROVE  CopyTurn(x, n, y) \in Copies(x, c, n)
<1> DEFINE e == x.slots[x.order[n]]
           I == Items(x)
           z == CopyTurn(x, n, y)
<1>1. SoundShape(x) /\ SoundShape(y) /\ Sound(y)
  BY SoundHas DEF Copies
<1>2. y.cap = c /\ Len(y.order) = n - 1 /\ Items(y) = SubSeq(I, 1, n - 1)
  BY DEF Copies, Tables
<1>3. Listed(x) /\ Listed(y)
  BY <1>1, ItemsAre
<1>4. I \in Seq(Entry) /\ Len(I) = Len(x.order) /\ I[n] = e /\ Len(x.order) \in Nat /\ n \in Nat
  BY <1>1, <1>3 DEF Listed, SoundShape
<1>5. e \in Entry /\ e[1] \in Key /\ e[2] \in Val /\ e = <<e[1], e[2]>>
  <2>1. e \in Entry
    BY <1>1 DEF Sound, Paired, SoundShape
  <2> HIDE DEF e
  <2> QED BY <2>1 DEF Entry
<1>6. Roomy(y)
  BY <1>1, <1>2, <1>4, RoomIs
<1>7. ASSUME NEW i \in Used(y) PROVE y.slots[i][1] # e[1]
  <2> DEFINE m == y.pos[i] + 1
  <2>1. m \in 1 .. n - 1 /\ y.order[m] = i
    BY <1>1, <1>2 DEF Sound, Paired
  <2> HIDE DEF m
  <2>2. m \in 1 .. Len(x.order) /\ m # n
    BY <1>4, <2>1
  <2>3. y.slots[i] = Items(y)[m] /\ Items(y)[m] = I[m] /\ I[m] = x.slots[x.order[m]]
    <3>1. y.slots[i] = Items(y)[m]
      BY <1>2, <1>3, <2>1 DEF Listed
    <3>2. I[m] = x.slots[x.order[m]]
      BY <1>3, <2>2 DEF Listed
    <3> HIDE DEF I
    <3>3. SubSeq(I, 1, n - 1)[m] = I[m]
      BY <1>4, <2>1
    <3> QED BY <1>2, <3>1, <3>2, <3>3
  <2>4. x.order[m] # x.order[n] /\ x.order[m] \in Used(x) /\ x.order[n] \in Used(x)
    BY <1>4, <2>2 DEF Sound, Paired
  <2> QED BY <2>3, <2>4 DEF Sound, Unique
<1>8. Added(y, z, e[1], e[2])
  <2> HIDE DEF e
  <2>1. Added(y, InsertRaw(y, e[1], e[2]), e[1], e[2])
    BY <1>1, <1>5, <1>6, <1>7, InsertAdds
  <2> QED BY <2>1 DEF CopyTurn, e
<1> HIDE DEF z
<1>9. Sound(z) /\ z.cap = c /\ Len(z.order) = n /\ Items(z) = Append(SubSeq(I, 1, n - 1), e)
  <2>1. Sound(z) /\ z.cap = c /\ Len(z.order) = (n - 1) + 1
    BY <1>2, <1>8 DEF Added
  <2>2. Items(z) = Append(Items(y), e)
    <3> HIDE DEF e
    <3> QED BY <1>5, <1>8 DEF Added
  <2> QED BY <1>2, <1>4, <2>1, <2>2
<1>10. Append(SubSeq(I, 1, n - 1), e) = SubSeq(I, 1, n)
  <2> HIDE DEF I, e
  <2> DEFINE A == Append(SubSeq(I, 1, n - 1), e)
             B == SubSeq(I, 1, n)
  <2>1. /\ SubSeq(I, 1, n - 1) \in Seq(Entry) /\ Len(SubSeq(I, 1, n - 1)) = n - 1
        /\ \A m \in 1 .. n - 1 : SubSeq(I, 1, n - 1)[m] = I[m]
    BY <1>4
  <2>2. A \in Seq(Entry) /\ Len(A) = n /\ \A m \in 1 .. n : A[m] = IF m = n THEN e ELSE I[m]
    BY <1>4, <1>5, <2>1
  <2>3. B \in Seq(Entry) /\ Len(B) = n /\ \A m \in 1 .. n : B[m] = I[m]
    BY <1>4
  <2> HIDE DEF A, B
  <2>4. \A m \in 1 .. Len(A) : A[m] = B[m]
    BY <1>4, <2>2, <2>3
  <2>5. A = B
    BY <2>2, <2>3, <2>4, SeqEqual
  <2> QED BY <2>5 DEF A, B
<1>11. z \in Tables(c)
  BY <1>9 DEF Sound
<1> QED BY <1>9, <1>10, <1>11 DEF Copies, z, I

\* htab_grow: twice the slots, and the same items.
LEMMA GrowCopies ==
  ASSUME Hashing, NEW x, Sound(x), Len(x.order) <= x.cap
  PROVE  /\ Sound(Grow(x)) /\ Grow(x).cap = 2 * x.cap
         /\ Len(Grow(x).order) = Len(x.order) /\ Items(Grow(x)) = Items(x)
<1> DEFINE c == 2 * x.cap
           L == Len(x.order)
           S == [n \in 0 .. L |-> Copies(x, c, n)]
           turn == [n \in 1 .. L |-> [y \in Copies(x, c, n - 1) |-> CopyTurn(x, n, y)]]
           F(f) == [n \in 0 .. L |-> IF n = 0 THEN Empty(c) ELSE CopyTurn(x, n, f[n - 1])]
           moved == CHOOSE f : f = F(f)
<1>1. SoundShape(x) /\ Listed(x)
  BY SoundHas, ItemsAre
<1>2. c \in Nat \ {0, 1} /\ L \in Nat /\ L <= c
  BY <1>1 DEF SoundShape
<1>3. Items(x) \in Seq(Entry) /\ Len(Items(x)) = L
  BY <1>1 DEF Listed
<1>4. Empty(c) \in Copies(x, c, 0)
  <2> DEFINE y == Empty(c)
             I == Items(x)
  <2>1. Sound(y) /\ y.cap = c /\ Len(y.order) = 0
    BY <1>2, EmptySound
  <2>2. y \in Tables(c)
    BY <2>1 DEF Sound
  <2> HIDE DEF y, I
  <2> DEFINE B == SubSeq(I, 1, 0)
  <2>3. B \in Seq(Entry) /\ Len(B) = 0
    BY <1>3 DEF I
  <2> HIDE DEF B
  <2>4. Len(B) = Len(y.order) /\ \A n \in 1 .. Len(y.order) : y.slots[y.order[n]] = B[n]
    BY <2>1, <2>3
  <2>5. Items(y) = B
    BY <2>1, <2>3, <2>4, ItemsEqual
  <2> QED BY <2>1, <2>2, <2>5 DEF Copies, y, I, B
<1> HIDE DEF c
<1>5. ASSUME NEW n \in 1 .. L, NEW y \in Copies(x, c, n - 1)
      PROVE  CopyTurn(x, n, y) \in Copies(x, c, n)
  BY <1>2, <1>5, CopyOne
<1>6. \E f : f = F(f)
  <2>1. PICK f : Runs(f, L, Empty(c), turn)
    BY <1>2, LoopRuns
  <2>2. DOMAIN f = 0 .. L /\ \A n \in 0 .. L : f[n] = IF n = 0 THEN Empty(c) ELSE turn[n][f[n - 1]]
    BY <2>1 DEF Runs
  <2>3. f[0] \in S[0] /\ f[0] = Empty(c)
    <3>1. 0 \in 0 .. L
      BY <1>2
    <3>2. S[0] = Copies(x, c, 0)
      BY <3>1
    <3> QED BY <1>4, <2>2, <3>1, <3>2
  <2>4. ASSUME NEW n \in 1 .. L, f[n - 1] \in Copies(x, c, n - 1)
        PROVE  f[n] = CopyTurn(x, n, f[n - 1])
    <3>1. n \in 0 .. L /\ n # 0
      OBVIOUS
    <3> QED BY <2>2, <2>4, <3>1
  <2>5. \A n \in 1 .. L : f[n - 1] \in S[n - 1] => f[n] \in S[n]
    <3> SUFFICES ASSUME NEW n \in 1 .. L, f[n - 1] \in S[n - 1] PROVE f[n] \in S[n]
      OBVIOUS
    <3>1. f[n - 1] \in Copies(x, c, n - 1) /\ n \in 0 .. L
      BY <1>2
    <3> QED BY <1>5, <2>4, <3>1
  <2>6. \A n \in 0 .. L : f[n] \in S[n]
    <3> HIDE DEF S
    <3> QED BY <1>2, <2>3, <2>5, LoopKeeps
  <2>7. \A n \in 0 .. L : f[n] = IF n = 0 THEN Empty(c) ELSE CopyTurn(x, n, f[n - 1])
    <3> SUFFICES ASSUME NEW n \in 0 .. L, n # 0 PROVE f[n] = CopyTurn(x, n, f[n - 1])
      BY <2>3
    <3>1. n \in 1 .. L /\ n - 1 \in 0 .. L
      BY <1>2
    <3>2. f[n - 1] \in Copies(x, c, n - 1)
      BY <2>6, <3>1
    <3> QED BY <2>4, <3>1, <3>2
  <2>8. f = [n \in 0 .. L |-> f[n]]
    BY <2>1 DEF Runs
  <2> QED BY <2>7, <2>8
<1>7. moved = F(moved)
  <2> HIDE DEF F
  <2> QED BY <1>6
<1> HIDE DEF moved
<1>8. moved[0] \in S[0]
  <2>1. 0 \in 0 .. L
    BY <1>2
  <2>2. S[0] = Copies(x, c, 0)
    BY <2>1
  <2> QED BY <1>4, <1>7, <2>1, <2>2
<1>9. \A n \in 1 .. L : moved[n - 1] \in S[n - 1] => moved[n] \in S[n]
  <2> SUFFICES ASSUME NEW n \in 1 .. L, moved[n - 1] \in S[n - 1] PROVE moved[n] \in S[n]
    OBVIOUS
  <2>1. moved[n - 1] \in Copies(x, c, n - 1) /\ n \in 0 .. L /\ n # 0
    BY <1>2
  <2>2. moved[n] = CopyTurn(x, n, moved[n - 1])
    BY <1>7, <2>1
  <2> QED BY <1>5, <2>1, <2>2
<1>10. moved[L] \in Copies(x, c, L)
  <2>1. \A n \in 0 .. L : moved[n] \in S[n]
    <3> HIDE DEF S, L
    <3> QED BY <1>2, <1>8, <1>9, LoopKeeps
  <2>2. L \in 0 .. L
    BY <1>2
  <2> HIDE DEF L
  <2>3. S[L] = Copies(x, c, L)
    BY <2>2
  <2> QED BY <2>1, <2>2, <2>3
<1>11. Grow(x) = moved[L]
  BY DEF Grow, CopyTurn, moved, c
<1>12. SubSeq(Items(x), 1, L) = Items(x)
  <2> DEFINE I == Items(x)
             B == SubSeq(I, 1, L)
  <2> HIDE DEF I
  <2>1. I \in Seq(Entry) /\ Len(I) = L /\ L \in Nat
    BY <1>2, <1>3 DEF I
  <2>2. B \in Seq(Entry) /\ Len(B) = L /\ \A m \in 1 .. L : B[m] = I[m]
    BY <2>1
  <2> HIDE DEF B
  <2>3. B = I
    BY <2>1, <2>2, SeqEqual
  <2> QED BY <2>3 DEF B, I
<1> QED BY <1>10, <1>11, <1>12 DEF Copies, Tables, c

\* A new value for the entry at i.
Replaced(x, y, i, k, v) ==
  /\ Sound(y) /\ y.cap = x.cap /\ y.order = x.order
  /\ Items(y) = [Items(x) EXCEPT ![x.pos[i] + 1] = <<k, v>>]

LEMMA ReplaceKeeps ==
  ASSUME NEW x, Sound(x), NEW k \in Key, NEW v \in Val, NEW i \in Used(x), x.slots[i][1] = k
  PROVE  Replaced(x, [x EXCEPT !.slots[i] = <<k, v>>], i, k, v)
<1> DEFINE c == x.cap
           y == [x EXCEPT !.slots[i] = <<k, v>>]
           e == <<k, v>>
           p == x.pos[i] + 1
<1>1. SoundShape(x) /\ Listed(x)
  BY SoundHas, ItemsAre
<1>2. e \in Entry /\ e[1] = k /\ e # Free
  BY HtabAssumption DEF Entry
<1>3. x \in Tables(c) /\ x.slots \in [0 .. c - 1 -> Entry \cup {Free}]
  BY DEF Sound, Tables
<1>4. i \in 0 .. c - 1 /\ c \in Nat \ {0, 1}
  BY <1>1 DEF SoundShape
<1>5. /\ y \in Tables(c) /\ y.cap = c /\ y.order = x.order /\ y.pos = x.pos
      /\ y.slots = [x.slots EXCEPT ![i] = e]
  <2> DEFINE ys == [x.slots EXCEPT ![i] = e]
  <2>1. ys \in [0 .. c - 1 -> Entry \cup {Free}]
    BY <1>2, <1>3
  <2>2. y = [x EXCEPT !.slots = ys]
    OBVIOUS
  <2> HIDE DEF y, ys
  <2>3. y \in Tables(c) /\ y.cap = c /\ y.order = x.order /\ y.pos = x.pos /\ y.slots = ys
    BY <1>3, <2>1, <2>2 DEF Tables
  <2> QED BY <2>3 DEF ys
<1> HIDE DEF y, e
<1>6. \A s \in 0 .. c - 1 : y.slots[s] = IF s = i THEN e ELSE x.slots[s]
  BY <1>3, <1>4, <1>5
<1>7. Used(y) = Used(x) /\ SlotsOf(y) = SlotsOf(x)
  BY <1>2, <1>4, <1>5, <1>6, <1>1 DEF Used, SlotsOf, SoundShape
<1>8. \A s \in Used(x) : y.slots[s][1] = x.slots[s][1]
  <2>1. Used(x) \subseteq 0 .. c - 1
    BY <1>1 DEF SoundShape
  <2> QED BY <1>2, <1>6, <2>1
<1>9. Sound(y)
  <2>1. \A kk, s, j : Before(y, kk, s, j) = Before(x, kk, s, j)
    BY <1>5 DEF Before, Home
  <2>2. Reach(y)
    BY <1>7, <1>8, <2>1 DEF Sound, Reach
  <2>3. Unique(y)
    BY <1>7, <1>8 DEF Sound, Unique
  <2>4. Paired(y) /\ DOMAIN y.pos = Used(y)
    BY <1>5, <1>7 DEF Sound, Paired
  <2> QED BY <1>4, <1>5, <2>2, <2>3, <2>4 DEF Sound
<1>10. p \in 1 .. Len(x.order) /\ \A n \in 1 .. Len(x.order) : x.order[n] = i <=> n = p
  <2> HIDE DEF p
  <2>1. p \in 1 .. Len(x.order) /\ x.order[p] = i /\ p = x.pos[i] + 1 /\ x.pos[i] \in Nat
    BY <1>1 DEF Sound, Paired, SoundShape, p
  <2>2. ASSUME NEW n \in 1 .. Len(x.order), x.order[n] = i PROVE n = p
    <3>1. x.pos[i] = n - 1 /\ n \in Int
      BY <1>1, <2>2 DEF Sound, Paired, SoundShape
    <3> QED BY <2>1, <3>1
  <2> QED BY <2>1, <2>2
<1>11. Items(y) = [Items(x) EXCEPT ![p] = e]
  <2> DEFINE I == Items(x)
             A == [I EXCEPT ![p] = e]
  <2>1. I \in Seq(Entry) /\ Len(I) = Len(x.order) /\ \A m \in 1 .. Len(I) : I[m] = x.slots[x.order[m]]
    BY <1>1 DEF Listed
  <2>2. \A m \in 1 .. Len(x.order) : x.order[m] \in 0 .. c - 1
    BY <1>1 DEF SoundShape
  <2> HIDE DEF I, p
  <2>3. A \in Seq(Entry) /\ Len(A) = Len(x.order)
        /\ \A m \in 1 .. Len(x.order) : A[m] = IF m = p THEN e ELSE I[m]
    BY <1>2, <1>10, <2>1
  <2> HIDE DEF A
  <2>4. \A m \in 1 .. Len(x.order) : y.slots[y.order[m]] = A[m]
    BY <1>5, <1>6, <1>10, <2>1, <2>2, <2>3
  <2>5. Len(A) = Len(y.order)
    BY <1>5, <2>3
  <2>6. Items(y) = A
    BY <1>5, <1>9, <2>3, <2>4, <2>5, ItemsEqual
  <2> QED BY <2>6 DEF A, I
<1> QED BY <1>5, <1>9, <1>11 DEF Replaced, y, e

\* What htab_set does.
Stored(x, y, k, v) ==
  IF \E i \in Used(x) : x.slots[i][1] = k
  THEN \E i \in Used(x) : x.slots[i][1] = k /\ Replaced(x, y, i, k, v)
  ELSE /\ Sound(y) /\ y.cap = (IF NeedsRoom(x) THEN 2 * x.cap ELSE x.cap)
       /\ Len(y.order) = Len(x.order) + 1 /\ 2 * Len(y.order) <= y.cap
       /\ Items(y) = Append(Items(x), <<k, v>>)

LEMMA StoreStores ==
  ASSUME Hashing, NEW x, Sound(x), 2 * Len(x.order) <= x.cap, NEW k \in Key, NEW v \in Val
  PROVE  Stored(x, Store(x, k, v), k, v)
<1> DEFINE i == FindSlot(x, k)
           c == x.cap
           L == Len(x.order)
<1>1. SoundShape(x) /\ Listed(x)
  BY SoundHas, ItemsAre
<1>2. c \in Nat \ {0, 1} /\ L \in Nat /\ 2 * L <= c
  BY <1>1 DEF SoundShape
<1>3. Roomy(x)
  BY <1>2, RoomIs
<1>4. /\ \A j \in Used(x) : x.slots[j][1] = k => i = j
      /\ i # c => At(x, k, i)
      /\ i = c => \A j \in Used(x) : x.slots[j][1] # k
  BY <1>3, FindSlotIs
<1> HIDE DEF i
<1>5. CASE i # c
  <2>1. i \in Used(x) /\ x.slots[i][1] = k
    BY <1>4, <1>5 DEF At
  <2>2. Store(x, k, v) = [x EXCEPT !.slots[i] = <<k, v>>]
    BY <1>5 DEF Store, i
  <2>3. Replaced(x, Store(x, k, v), i, k, v)
    BY <2>1, <2>2, ReplaceKeeps
  <2> QED BY <2>1, <2>3 DEF Stored
<1>6. CASE i = c
  <2> DEFINE w == IF NeedsRoom(x) THEN Grow(x) ELSE x
  <2>1. \A j \in Used(x) : x.slots[j][1] # k
    BY <1>4, <1>6
  <2>2. Store(x, k, v) = InsertRaw(w, k, v)
    BY <1>6 DEF Store, i
  <2>3. /\ Sound(w) /\ w.cap = (IF NeedsRoom(x) THEN 2 * c ELSE c)
        /\ Len(w.order) = L /\ Items(w) = Items(x)
    <3>1. CASE NeedsRoom(x)
      BY <1>2, <3>1, GrowCopies
    <3>2. CASE ~NeedsRoom(x)
      BY <3>2
    <3> QED BY <3>1, <3>2
  <2>4. 2 * (L + 1) <= w.cap
    BY <1>2, <2>3 DEF NeedsRoom
  <2> HIDE DEF w
  <2>5. Roomy(w)
    <3>1. Len(w.order) < w.cap
      <4>1. w.cap \in Nat
        BY <1>2, <2>3
      <4> QED BY <1>2, <2>3, <2>4, <4>1
    <3> QED BY <2>3, <3>1, RoomIs
  <2>6. ASSUME NEW j \in Used(w) PROVE w.slots[j][1] # k
    <3>1. Listed(w) /\ SoundShape(w)
      BY <2>3, ItemsAre, SoundHas
    <3> DEFINE m == w.pos[j] + 1
    <3>2. m \in 1 .. L /\ w.order[m] = j
      BY <2>3 DEF Sound, Paired
    <3> HIDE DEF m
    <3>3. w.slots[j] = x.slots[x.order[m]] /\ x.order[m] \in Used(x)
      BY <1>1, <2>3, <3>1, <3>2 DEF Listed, Sound, Paired
    <3> QED BY <2>1, <3>3
  <2>7. Added(w, InsertRaw(w, k, v), k, v)
    BY <2>3, <2>5, <2>6, InsertAdds
  <2> DEFINE y == InsertRaw(w, k, v)
  <2>8. Sound(y) /\ y.cap = w.cap /\ Len(y.order) = L + 1 /\ Items(y) = Append(Items(x), <<k, v>>)
    BY <2>3, <2>7 DEF Added
  <2> HIDE DEF y
  <2>9. ~ \E j \in Used(x) : x.slots[j][1] = k
    BY <2>1
  <2>10. Stored(x, y, k, v)
    BY <2>3, <2>4, <2>8, <2>9 DEF Stored
  <2> QED BY <2>2, <2>10 DEF y
<1> QED BY <1>5, <1>6

-----------------------------------------------------------------------------
(***************************************************************************)
(* Deletion.  The loop of htab_del moves a hole through the run of slots   *)
(* in use that starts at the slot deleted.                                 *)
(***************************************************************************)
\* An entry may move back to the hole if the hole is on the way to it.
LEMMA MovableIs ==
  ASSUME NEW c \in Nat, NEW h \in 0 .. c - 1, NEW i \in 0 .. c - 1, NEW j \in 0 .. c - 1, i # j
  PROVE  (IF i <= j THEN h <= i \/ h > j ELSE h <= i /\ h > j) <=> Dist(c, h, i) < Dist(c, h, j)
BY DEF Dist

\* From h to i, on to j, and on to s.
LEMMA OnTheWay ==
  ASSUME NEW c \in Nat, NEW h \in 0 .. c - 1, NEW i \in 0 .. c - 1, NEW j \in 0 .. c - 1,
         NEW s \in 0 .. c - 1, Dist(c, i, j) < Dist(c, i, s), Dist(c, h, i) < Dist(c, h, s)
  PROVE  Dist(c, h, j) < Dist(c, h, s)
BY DEF Dist

LEMMA InBetween ==
  ASSUME NEW c \in Nat, NEW o \in 0 .. c - 1, NEW i \in 0 .. c - 1, NEW j \in 0 .. c - 1,
         NEW s \in 0 .. c - 1, Dist(c, o, i) < Dist(c, o, j), s # i, s # j
  PROVE  \/ Dist(c, i, j) < Dist(c, i, s)
         \/ Dist(c, o, i) < Dist(c, o, s) /\ Dist(c, o, s) < Dist(c, o, j)
BY DEF Dist

LEMMA StepIs ==
  ASSUME NEW c \in Nat \ {0, 1}, NEW o \in 0 .. c - 1, NEW j \in 0 .. c - 1,
         Dist(c, o, j) + 1 < c
  PROVE  (j + 1) % c \in 0 .. c - 1 /\ Dist(c, o, (j + 1) % c) = Dist(c, o, j) + 1
<1>1. (j + 1) % c = IF j + 1 < c THEN j + 1 ELSE j + 1 - c
  BY Around
<1> DEFINE m == (j + 1) % c
<1> HIDE DEF m
<1>2. m = IF j + 1 < c THEN j + 1 ELSE j + 1 - c
  BY <1>1 DEF m
<1>3. m \in 0 .. c - 1 /\ Dist(c, o, m) = Dist(c, o, j) + 1
  BY <1>2 DEF Dist
<1> QED BY <1>3 DEF m

\* Without what the hole at h still holds, y has the entries of x but the one at i.
Opened(x, i, y, h) ==
  /\ y \in Tables(x.cap) /\ Used(y) = Used(x) /\ DOMAIN y.pos = Used(x) /\ h \in Used(x)
  /\ Len(y.order) = Len(x.order)
  /\ \A n \in 1 .. Len(x.order) : n # x.pos[i] + 1 =>
       /\ y.order[n] \in Used(x) \ {h} /\ y.pos[y.order[n]] = n - 1
       /\ y.slots[y.order[n]] = x.slots[x.order[n]]
  /\ \A s \in Used(x) \ {h} :
       /\ y.pos[s] + 1 \in 1 .. Len(x.order) /\ y.pos[s] + 1 # x.pos[i] + 1
       /\ y.order[y.pos[s] + 1] = s
  /\ \A s \in Used(x) \ {h} : \A q \in SlotsOf(x) : Before(y, y.slots[s][1], q, s) => q \in Used(x)

\* The slots before j are in use, and no entry between h and j may move back to h.
Passed(x, i, y, h, j) ==
  /\ j \in SlotsOf(x) /\ Dist(x.cap, i, h) < Dist(x.cap, i, j)
  /\ \A s \in SlotsOf(x) : Dist(x.cap, i, s) < Dist(x.cap, i, j) => s \in Used(x)
  /\ \A s \in SlotsOf(x) : Dist(x.cap, i, h) < Dist(x.cap, i, s) /\ Dist(x.cap, i, s) < Dist(x.cap, i, j)
       => ~Before(y, y.slots[s][1], h, s)

\* what the loop has after n turns
Shifting(x, i, n, s) ==
  /\ s \in [tab : Tables(x.cap), hole : SlotsOf(x), at : SlotsOf(x)]
  /\ Opened(x, i, s.tab, s.hole) /\ Passed(x, i, s.tab, s.hole, s.at)
  /\ s.tab.slots[s.at] = Free \/ Dist(x.cap, i, s.at) = n + 1

LEMMA ShiftStarts ==
  ASSUME Hashing, NEW x, Sound(x), NEW i \in Used(x)
  PROVE  Shifting(x, i, 0, [tab |-> x, hole |-> i, at |-> Step(x, i)])
<1> DEFINE c == x.cap
           j == Step(x, i)
<1>1. SoundShape(x)
  BY SoundHas
<1>2. c \in Nat \ {0, 1} /\ i \in 0 .. c - 1 /\ SlotsOf(x) = 0 .. c - 1
  BY <1>1 DEF SoundShape
<1>3. Dist(c, i, i) = 0
  BY <1>2 DEF Dist
<1>4. j \in 0 .. c - 1 /\ Dist(c, i, j) = 1
  <2> DEFINE m == (i + 1) % c
  <2>1. m \in 0 .. c - 1 /\ Dist(c, i, m) = 1
    BY <1>2, <1>3, StepIs
  <2> QED BY <2>1 DEF Step
<1> HIDE DEF j
<1>5. Opened(x, i, x, i)
  <2>1. x \in Tables(c) /\ DOMAIN x.pos = Used(x)
    BY DEF Sound
  <2>2. \A n \in 1 .. Len(x.order) : n # x.pos[i] + 1 =>
           x.order[n] \in Used(x) \ {i} /\ x.pos[x.order[n]] = n - 1
    BY <1>1 DEF Sound, Paired, SoundShape
  <2>3. \A s \in Used(x) \ {i} :
           /\ x.pos[s] + 1 \in 1 .. Len(x.order) /\ x.pos[s] + 1 # x.pos[i] + 1
           /\ x.order[x.pos[s] + 1] = s
    BY DEF Sound, Paired
  <2>4. \A s \in Used(x) \ {i} : \A q \in SlotsOf(x) : Before(x, x.slots[s][1], q, s) => q \in Used(x)
    BY DEF Sound, Reach
  <2> QED BY <2>1, <2>2, <2>3, <2>4 DEF Opened
<1>6. Passed(x, i, x, i, j)
  <2>1. \A s \in 0 .. c - 1 : Dist(c, i, s) < 1 => s = i
    BY <1>2 DEF Dist
  <2>2. \A s \in 0 .. c - 1 : ~(0 < Dist(c, i, s) /\ Dist(c, i, s) < 1)
    BY <1>2 DEF Dist
  <2> QED BY <1>2, <1>3, <1>4, <2>1, <2>2 DEF Passed
<1>7. x \in Tables(c)
  BY DEF Sound
<1> QED BY <1>2, <1>4, <1>5, <1>6, <1>7 DEF Shifting, j

LEMMA MoveOpens ==
  ASSUME Hashing, NEW x, Sound(x), NEW i \in Used(x), NEW y, NEW h, NEW j \in Used(x) \ {h},
         Opened(x, i, y, h), Before(y, y.slots[j][1], h, j)
  PROVE  Opened(x, i, MoveBack(y, h, j), j)
<1> DEFINE c == x.cap
           L == Len(x.order)
           gone == x.pos[i] + 1
           p == y.pos[j] + 1
           z == MoveBack(y, h, j)
<1>1. SoundShape(x)
  BY SoundHas
<1>2. /\ c \in Nat \ {0, 1} /\ SlotsOf(x) = 0 .. c - 1 /\ Used(x) \subseteq 0 .. c - 1 /\ L \in Nat
  BY <1>1 DEF SoundShape
<1>3. /\ y \in Tables(c) /\ y.slots \in [0 .. c - 1 -> Entry \cup {Free}] /\ y.order \in Seq(0 .. c - 1)
      /\ y.pos \in Numbers(c) /\ DOMAIN y.pos = Used(x) /\ Len(y.order) = L /\ Used(y) = Used(x)
  BY DEF Opened, Tables
<1>4. h \in Used(x) /\ p \in 1 .. L /\ p # gone /\ y.order[p] = j
  BY DEF Opened
<1>5. y.pos[j] \in Nat /\ p - 1 = y.pos[j]
  BY <1>2, <1>3, <1>4, NumbersAre
<1> HIDE DEF z, p
<1>6. /\ z.cap = c /\ z.slots = [y.slots EXCEPT ![h] = y.slots[j]]
      /\ z.order = [y.order EXCEPT ![p] = h] /\ z.pos = [y.pos EXCEPT ![h] = y.pos[j]]
      /\ z = [cap |-> c, slots |-> z.slots, order |-> z.order, pos |-> z.pos]
  <2> DEFINE zs == [y.slots EXCEPT ![h] = y.slots[j]]
             zo == [y.order EXCEPT ![p] = h]
             zp == [y.pos EXCEPT ![h] = y.pos[j]]
  <2>1. y = [cap |-> c, slots |-> y.slots, order |-> y.order, pos |-> y.pos]
    BY <1>3 DEF Tables
  <2>2. z = [y EXCEPT !.slots = zs, !.order = zo, !.pos = zp]
    BY <2>1 DEF MoveBack, z, p
  <2> HIDE DEF zs, zo, zp
  <2>3. y.cap = c /\ y \in Tables(y.cap)
    BY <1>3 DEF Tables
  <2> HIDE DEF c
  <2>4. z = [cap |-> c, slots |-> zs, order |-> zo, pos |-> zp]
    BY <2>2, <2>3 DEF Tables
  <2> QED BY <2>4 DEF zs, zo, zp
<1>7. h \in 0 .. c - 1 /\ j \in 0 .. c - 1 /\ y.slots[j] \in Entry /\ j # h
  BY <1>2, <1>3, <1>4, TableShape
<1>8. z.slots \in [0 .. c - 1 -> Entry \cup {Free}]
      /\ \A s \in 0 .. c - 1 : z.slots[s] = IF s = h THEN y.slots[j] ELSE y.slots[s]
  BY <1>3, <1>6, <1>7, ZenonT(60)
<1>9. z.order \in Seq(0 .. c - 1) /\ Len(z.order) = L
      /\ \A n \in 1 .. L : z.order[n] = IF n = p THEN h ELSE y.order[n]
  BY <1>3, <1>4, <1>6, <1>7
<1>10. DOMAIN z.pos = Used(x) /\ \A s \in Used(x) : z.pos[s] = IF s = h THEN y.pos[j] ELSE y.pos[s]
  BY <1>3, <1>6
<1>11. z.pos \in Numbers(c)
  <2>1. \A s \in DOMAIN y.pos : y.pos[s] \in Nat
    BY <1>2, <1>3, NumbersAre
  <2>2. \A s \in DOMAIN z.pos : z.pos[s] \in Nat
    BY <1>3, <1>10, <2>1
  <2>3. z.pos = [s \in DOMAIN z.pos |-> z.pos[s]]
    BY <1>6
  <2>4. DOMAIN z.pos \subseteq 0 .. c - 1 /\ c \in Nat
    BY <1>2, <1>10
  <2> QED BY <2>2, <2>3, <2>4, NumbersAre
<1>12. z \in Tables(c)
  BY <1>6, <1>8, <1>9, <1>11 DEF Tables
<1>13. Used(z) = Used(x)
  <2>1. y.slots[h] # Free /\ y.slots[j] # Free
    BY <1>2, <1>3, <1>4, TableShape, SMTT(60)
  <2>2. Used(y) = {s \in 0 .. c - 1 : y.slots[s] # Free}
    BY <1>3 DEF Used, Tables
  <2>3. Used(z) = {s \in 0 .. c - 1 : z.slots[s] # Free}
    BY <1>6 DEF Used
  <2> QED BY <1>3, <1>8, <2>1, <2>2, <2>3
<1>14. ASSUME NEW n \in 1 .. L, n # gone
       PROVE  /\ z.order[n] \in Used(x) \ {j} /\ z.pos[z.order[n]] = n - 1
              /\ z.slots[z.order[n]] = x.slots[x.order[n]]
  <2>1. /\ y.order[n] \in Used(x) \ {h} /\ y.pos[y.order[n]] = n - 1
        /\ y.slots[y.order[n]] = x.slots[x.order[n]]
    BY <1>14 DEF Opened
  <2>2. CASE n = p
    BY <1>4, <1>5, <1>7, <1>8, <1>9, <1>10, <2>1, <2>2
  <2>3. CASE n # p
    <3>1. y.order[n] # j
      BY <1>2, <1>4, <1>5, <2>1, <2>3
    <3> QED BY <1>2, <1>8, <1>9, <1>10, <2>1, <2>3, <3>1, SMTT(60)
  <2> QED BY <2>2, <2>3
<1>15. ASSUME NEW s \in Used(x) \ {j}
       PROVE  z.pos[s] + 1 \in 1 .. L /\ z.pos[s] + 1 # gone /\ z.order[z.pos[s] + 1] = s
  <2>1. CASE s = h
    BY <1>4, <1>5, <1>9, <1>10, <2>1 DEF p
  <2>2. CASE s # h
    <3> DEFINE m == y.pos[s] + 1
    <3>1. m \in 1 .. L /\ m # gone /\ y.order[m] = s
      BY <2>2 DEF Opened
    <3>2. z.pos[s] + 1 = m
      BY <1>10, <2>2
    <3> HIDE DEF m
    <3>3. m # p
      BY <1>4, <3>1
    <3> QED BY <1>9, <3>1, <3>2, <3>3
  <2> QED BY <2>1, <2>2
<1>16. ASSUME NEW s \in Used(x) \ {j}, NEW q \in SlotsOf(x), Before(z, z.slots[s][1], q, s)
       PROVE  q \in Used(x)
  <2>1. \A k, a, b : Before(z, k, a, b) = Before(y, k, a, b)
    BY <1>3, <1>6 DEF Before, Home, Tables
  <2>2. CASE s = h
    <3> DEFINE k == y.slots[j][1]
               d(a) == Dist(c, Home(y, k), a)
    <3>1. z.slots[h][1] = k
      BY <1>7, <1>8
    <3>2. Before(y, k, q, h)
      BY <1>16, <2>1, <2>2, <3>1
    <3>3. Home(y, k) \in 0 .. c - 1 /\ k \in Key /\ y.cap = c
      <4>1. k \in Key
        BY <1>7 DEF Entry
      <4>2. y.cap = c
        BY <1>3 DEF Tables
      <4> HIDE DEF k
      <4> QED BY <1>2, <4>1, <4>2, HomeIn DEF SlotsOf
    <3>4. d(q) \in 0 .. c - 1 /\ d(h) \in 0 .. c - 1 /\ d(j) \in 0 .. c - 1
      <4> HIDE DEF k
      <4> QED BY <1>2, <1>7, <3>3, DistApart
    <3>5. d(q) < d(h) /\ d(h) < d(j)
      BY <3>2, <3>3 DEF Before
    <3>6. d(q) < d(j)
      <4> HIDE DEF d
      <4> QED BY <1>2, <3>4, <3>5
    <3>7. Before(y, k, q, j)
      BY <3>3, <3>6 DEF Before
    <3> QED BY <1>7, <3>7 DEF Opened
  <2>3. CASE s # h
    <3>1. z.slots[s] = y.slots[s]
      BY <1>2, <1>8, <2>3
    <3>2. Before(y, y.slots[s][1], q, s)
      BY <1>16, <2>1, <3>1
    <3> QED BY <2>3, <3>2 DEF Opened
  <2> QED BY <2>2, <2>3
<1> QED BY <1>9, <1>10, <1>12, <1>13, <1>14, <1>15, <1>16 DEF Opened, z

\* All is used up to the slot looked at: not the whole circle is.
LEMMA StepOn ==
  ASSUME NEW x, Sound(x), Roomy(x), NEW i \in Used(x), NEW y, NEW h, NEW j \in Used(x),
         Passed(x, i, y, h, j)
  PROVE  /\ Dist(x.cap, i, j) + 1 < x.cap /\ Step(x, j) \in SlotsOf(x)
         /\ Dist(x.cap, i, Step(x, j)) = Dist(x.cap, i, j) + 1
<1> DEFINE c == x.cap
<1>1. SoundShape(x)
  BY SoundHas
<1>2. c \in Nat \ {0, 1} /\ i \in 0 .. c - 1 /\ j \in 0 .. c - 1 /\ SlotsOf(x) = 0 .. c - 1
  BY <1>1 DEF SoundShape
<1>3. PICK f \in 0 .. c - 1 : f \notin Used(x)
  BY <1>1, <1>2 DEF Roomy, SoundShape
<1>4. ~(Dist(c, i, f) < Dist(c, i, j)) /\ f # j
  BY <1>2, <1>3 DEF Passed
<1>5. Dist(c, i, j) + 1 < c
  BY <1>2, <1>3, <1>4 DEF Dist
<1>6. (j + 1) % c \in 0 .. c - 1 /\ Dist(c, i, (j + 1) % c) = Dist(c, i, j) + 1
  BY <1>2, <1>5, StepIs
<1> QED BY <1>2, <1>5, <1>6 DEF Step

LEMMA TurnShifts ==
  ASSUME Hashing, NEW x, Sound(x), Roomy(x), NEW i \in Used(x), NEW n \in Nat, NEW s,
         Shifting(x, i, n, s)
  PROVE  Shifting(x, i, n + 1, Turn(s))
<1> DEFINE c == x.cap
           y == s.tab
           h == s.hole
           j == s.at
           k == y.slots[j][1]
           to == Step(x, j)
           d(a) == Dist(c, i, a)
<1>1. SoundShape(x) /\ Opened(x, i, y, h) /\ Passed(x, i, y, h, j)
  BY SoundHas DEF Shifting
<1>2. s \in [tab : Tables(c), hole : SlotsOf(x), at : SlotsOf(x)] /\ (y.slots[j] = Free \/ d(j) = n + 1)
  BY DEF Shifting
<1>3. c \in Nat \ {0, 1} /\ i \in 0 .. c - 1 /\ SlotsOf(x) = 0 .. c - 1 /\ Used(x) \subseteq 0 .. c - 1
  BY <1>1 DEF SoundShape
<1>4. y \in Tables(c) /\ h \in 0 .. c - 1 /\ j \in 0 .. c - 1 /\ h \in Used(x) /\ y.cap = c
      /\ Used(y) = Used(x)
  BY <1>1, <1>2, <1>3 DEF Opened, Tables
<1> HIDE DEF to
<1>5. d(h) \in Nat /\ d(j) \in Nat /\ d(h) < d(j) /\ h # j
  <2>1. d(h) \in Nat /\ d(j) \in Nat
    <3> HIDE DEF c, h, j
    <3>1. c \in Nat /\ i \in 0 .. c - 1 /\ h \in 0 .. c - 1 /\ j \in 0 .. c - 1
      BY <1>3, <1>4
    <3>2. Dist(c, i, h) \in 0 .. c - 1 /\ Dist(c, i, j) \in 0 .. c - 1
      BY <3>1, DistApart
    <3> QED BY <3>1, <3>2
  <2>2. d(h) < d(j)
    BY <1>1 DEF Passed
  <2> HIDE DEF d
  <2>3. h # j
    BY <2>1, <2>2
  <2> QED BY <2>1, <2>2, <2>3
<1>6. CASE y.slots[j] = Free
  BY <1>6 DEF Turn, Shifting
<1>7. CASE y.slots[j] # Free
  <2>1. j \in Used(x) /\ k \in Key /\ d(j) = n + 1
    BY <1>2, <1>3, <1>4, <1>7, TableShape
  <2>2. d(j) + 1 < c /\ to \in SlotsOf(x) /\ d(to) = d(j) + 1
    BY <1>1, <2>1, StepOn DEF to
  <2>3. Step(y, j) = to /\ Home(y, k) \in 0 .. c - 1
    <3> HIDE DEF k
    <3>1. Home(y, k) \in SlotsOf(y)
      BY <1>3, <1>4, <2>1, HomeIn
    <3> QED BY <1>4, <3>1 DEF Step, SlotsOf, to
  <2>4. \A a \in 0 .. c - 1 : d(a) < d(to) => d(a) < d(j) \/ a = j
    <3> SUFFICES ASSUME NEW a \in 0 .. c - 1, d(a) < d(to) PROVE d(a) < d(j) \/ a = j
      OBVIOUS
    <3>1. d(a) \in Nat /\ d(j) \in Nat /\ (d(a) = d(j) => a = j)
      BY <1>3, <1>4, DistApart
    <3> HIDE DEF d
    <3> QED BY <2>2, <3>1
  <2>5. d(to) = n + 1 + 1
    BY <2>1, <2>2
  <2>6. \A a \in SlotsOf(x) : d(a) < d(to) => a \in Used(x)
    BY <1>1, <1>3, <2>1, <2>4 DEF Passed
  <2>7. Movable(y, h, j) <=> Before(y, k, h, j)
    <3> HIDE DEF h, j
    <3>1. (IF h <= j THEN Home(y, k) <= h \/ Home(y, k) > j ELSE Home(y, k) <= h /\ Home(y, k) > j)
          <=> Dist(c, Home(y, k), h) < Dist(c, Home(y, k), j)
      BY <1>3, <1>4, <1>5, <2>3, MovableIs
    <3> QED BY <1>4, <3>1 DEF Movable, Before
  <2>8. CASE Movable(y, h, j)
    <3> DEFINE z == MoveBack(y, h, j)
    <3>1. Turn(s) = [tab |-> z, hole |-> j, at |-> to]
      BY <1>7, <2>3, <2>8 DEF Turn
    <3>2. Opened(x, i, z, j)
      BY <1>1, <1>4, <1>5, <2>1, <2>7, <2>8, MoveOpens
    <3> HIDE DEF z
    <3>3. \A a \in 0 .. c - 1 : ~(d(j) < d(a) /\ d(a) < d(to))
      <4> SUFFICES ASSUME NEW a \in 0 .. c - 1 PROVE ~(d(j) < d(a) /\ d(a) < d(to))
        OBVIOUS
      <4>1. d(a) \in Nat
        BY <1>3, <1>4, DistApart
      <4> HIDE DEF d
      <4> QED BY <1>5, <2>2, <4>1
    <3>4. d(j) < d(to)
      <4> HIDE DEF d
      <4> QED BY <1>5, <2>2
    <3>5. Passed(x, i, z, j, to)
      BY <1>3, <2>2, <2>6, <3>3, <3>4 DEF Passed
    <3>6. z \in Tables(c)
      BY <3>2 DEF Opened
    <3> QED BY <1>3, <1>4, <2>2, <2>5, <3>1, <3>2, <3>5, <3>6 DEF Shifting
  <2>9. CASE ~Movable(y, h, j)
    <3>1. Turn(s) = [s EXCEPT !.at = to]
      BY <1>7, <2>3, <2>9 DEF Turn
    <3>2. d(h) < d(to)
      <4> HIDE DEF d
      <4> QED BY <1>5, <2>2
    <3>3. ASSUME NEW a \in SlotsOf(x), d(h) < d(a), d(a) < d(to)
          PROVE  ~Before(y, y.slots[a][1], h, a)
      BY <1>1, <1>3, <2>4, <2>7, <2>9, <3>3 DEF Passed
    <3>4. Passed(x, i, y, h, to)
      BY <2>2, <2>6, <3>2, <3>3 DEF Passed
    <3>5. Turn(s) = [tab |-> y, hole |-> h, at |-> to]
      BY <1>2, <3>1
    <3> HIDE DEF y, h, j
    <3> QED BY <1>1, <1>3, <1>4, <2>2, <2>5, <3>4, <3>5 DEF Shifting
  <2> QED BY <2>8, <2>9
<1> QED BY <1>6, <1>7

\* What the loop leaves: the hole may be freed.
Shifted(x, i, y, h) ==
  /\ Opened(x, i, y, h)
  /\ \A s \in Used(x) \ {h} : ~Before(y, y.slots[s][1], h, s)

LEMMA EndIsShifted ==
  ASSUME Hashing, NEW x, Sound(x), NEW i \in Used(x), NEW s, Shifting(x, i, x.cap, s)
  PROVE  Shifted(x, i, s.tab, s.hole)
<1> DEFINE c == x.cap
           y == s.tab
           h == s.hole
           j == s.at
           d(a) == Dist(c, i, a)
<1>1. SoundShape(x) /\ Opened(x, i, y, h) /\ Passed(x, i, y, h, j)
  BY SoundHas DEF Shifting
<1>2. s \in [tab : Tables(c), hole : SlotsOf(x), at : SlotsOf(x)] /\ (y.slots[j] = Free \/ d(j) = c + 1)
  BY DEF Shifting
<1>3. c \in Nat \ {0, 1} /\ i \in 0 .. c - 1 /\ SlotsOf(x) = 0 .. c - 1 /\ Used(x) \subseteq 0 .. c - 1
  BY <1>1 DEF SoundShape
<1>4. y \in Tables(c) /\ h \in 0 .. c - 1 /\ j \in 0 .. c - 1 /\ y.cap = c /\ Used(y) = Used(x)
  BY <1>1, <1>2, <1>3 DEF Opened, Tables
<1> HIDE DEF y, h, j
<1>5. j \notin Used(x)
  <2>1. d(j) # c + 1
    BY <1>3, <1>4 DEF Dist
  <2>2. y.slots[j] = Free
    BY <1>2, <2>1
  <2> QED BY <1>3, <1>4, <2>2, TableShape
<1>6. ASSUME NEW a \in Used(x) \ {h} PROVE ~Before(y, y.slots[a][1], h, a)
  <2> DEFINE k == y.slots[a][1]
  <2>1. a \in 0 .. c - 1 /\ a # j /\ k \in Key
    BY <1>3, <1>4, <1>5, TableShape
  <2> HIDE DEF k
  <2> DEFINE o == Home(y, k)
  <2>2. o \in 0 .. c - 1
    BY <1>3, <1>4, <2>1, HomeIn DEF SlotsOf
  <2>3. d(h) < d(j)
    BY <1>1 DEF Passed
  <2> HIDE DEF o
  <2>4. \/ Dist(c, h, j) < Dist(c, h, a)
        \/ d(h) < d(a) /\ d(a) < d(j)
    BY <1>3, <1>4, <2>1, <2>3, InBetween
  <2>5. CASE d(h) < d(a) /\ d(a) < d(j)
    BY <1>1, <1>3, <2>1, <2>5 DEF Passed, k
  <2>6. CASE Dist(c, h, j) < Dist(c, h, a)
    <3>1. SUFFICES ASSUME Before(y, k, h, a) PROVE FALSE
      BY DEF k
    <3>2. Dist(c, o, h) < Dist(c, o, a)
      BY <1>4, <3>1 DEF Before, o
    <3>3. Dist(c, o, j) < Dist(c, o, a)
      BY <1>3, <1>4, <2>1, <2>2, <2>6, <3>2, OnTheWay
    <3>4. Before(y, k, j, a)
      BY <1>4, <3>3 DEF Before, o
    <3>5. j \in Used(x)
      BY <1>1, <1>3, <1>4, <3>4 DEF Opened, k
    <3> QED BY <1>5, <3>5
  <2> QED BY <2>4, <2>5, <2>6
<1> QED BY <1>1, <1>6 DEF Shifted, y, h

\* The loop of htab_del ends with a hole that may be freed.
LEMMA ShiftBackIs ==
  ASSUME Hashing, NEW x, Sound(x), Roomy(x), NEW i \in Used(x)
  PROVE  Shifted(x, i, ShiftBack(x, i).tab, ShiftBack(x, i).hole)
<1> DEFINE c == x.cap
           start == [tab |-> x, hole |-> i, at |-> Step(x, i)]
           States == [tab : Tables(c), hole : SlotsOf(x), at : SlotsOf(x)]
           S == [n \in 0 .. c |-> {s \in States : Shifting(x, i, n, s)}]
           turn == [n \in 1 .. c |-> [s \in States |-> Turn(s)]]
           F(f) == [n \in 0 .. c |-> IF n = 0 THEN start ELSE Turn(f[n - 1])]
           after == CHOOSE f : f = F(f)
<1>1. c \in Nat \ {0, 1}
  BY DEF Sound
<1>2. Shifting(x, i, 0, start) /\ start \in States
  BY ShiftStarts DEF Shifting
<1> HIDE DEF start
<1>3. ASSUME NEW n \in 1 .. c, NEW s, Shifting(x, i, n - 1, s)
      PROVE  s \in States /\ Turn(s) \in S[n]
  <2>1. n - 1 \in Nat /\ (n - 1) + 1 = n /\ n \in 0 .. c
    BY <1>1
  <2>2. Shifting(x, i, (n - 1) + 1, Turn(s))
    BY <1>3, <2>1, TurnShifts
  <2>3. s \in States /\ Turn(s) \in States
    BY <1>3, <2>2 DEF Shifting
  <2> QED BY <2>1, <2>2, <2>3
<1>4. \E f : f = F(f)
  <2>1. PICK f : Runs(f, c, start, turn)
    BY <1>1, LoopRuns
  <2>2. DOMAIN f = 0 .. c /\ \A n \in 0 .. c : f[n] = IF n = 0 THEN start ELSE turn[n][f[n - 1]]
    BY <2>1 DEF Runs
  <2>3. f[0] \in S[0] /\ f[0] = start
    <3>1. 0 \in 0 .. c
      BY <1>1
    <3> QED BY <1>2, <2>2, <3>1
  <2>4. ASSUME NEW n \in 1 .. c, f[n - 1] \in States
        PROVE  f[n] = Turn(f[n - 1])
    <3>1. n \in 0 .. c /\ n # 0
      OBVIOUS
    <3> HIDE DEF States
    <3> QED BY <2>2, <2>4, <3>1
  <2>5. \A n \in 1 .. c : f[n - 1] \in S[n - 1] => f[n] \in S[n]
    <3> SUFFICES ASSUME NEW n \in 1 .. c, f[n - 1] \in S[n - 1] PROVE f[n] \in S[n]
      OBVIOUS
    <3>1. n - 1 \in 0 .. c
      BY <1>1
    <3>2. f[n - 1] \in States /\ Shifting(x, i, n - 1, f[n - 1])
      <4> HIDE DEF States
      <4> QED BY <3>1
    <3> HIDE DEF S, States
    <3> QED BY <1>3, <2>4, <3>2
  <2>6. \A n \in 0 .. c : f[n] \in S[n]
    <3> HIDE DEF S, c
    <3> QED BY <1>1, <2>3, <2>5, LoopKeeps
  <2>7. \A n \in 0 .. c : f[n] = IF n = 0 THEN start ELSE Turn(f[n - 1])
    <3> SUFFICES ASSUME NEW n \in 0 .. c, n # 0 PROVE f[n] = Turn(f[n - 1])
      BY <2>3
    <3>1. n \in 1 .. c /\ n - 1 \in 0 .. c
      BY <1>1
    <3>2. f[n - 1] \in States
      <4> HIDE DEF States
      <4> QED BY <2>6, <3>1
    <3> QED BY <2>4, <3>1, <3>2
  <2>8. f = [n \in 0 .. c |-> f[n]]
    BY <2>1 DEF Runs
  <2> QED BY <2>7, <2>8
<1>5. after = F(after)
  <2> HIDE DEF F
  <2> QED BY <1>4
<1>6. ShiftBack(x, i) = after[c]
  BY DEF ShiftBack, after, start
<1> HIDE DEF after
<1>7. after[0] \in S[0]
  <2>1. 0 \in 0 .. c
    BY <1>1
  <2> QED BY <1>2, <1>5, <2>1
<1>8. \A n \in 1 .. c : after[n - 1] \in S[n - 1] => after[n] \in S[n]
  <2> SUFFICES ASSUME NEW n \in 1 .. c, after[n - 1] \in S[n - 1] PROVE after[n] \in S[n]
    OBVIOUS
  <2>1. n - 1 \in 0 .. c /\ n \in 0 .. c /\ n # 0
    BY <1>1
  <2>2. after[n] = Turn(after[n - 1])
    BY <1>5, <2>1
  <2>3. Shifting(x, i, n - 1, after[n - 1])
    <3> HIDE DEF States
    <3> QED BY <2>1
  <2> HIDE DEF S
  <2> QED BY <1>3, <2>2, <2>3
<1>9. \A n \in 0 .. c : after[n] \in S[n]
  <2> HIDE DEF S, c
  <2> QED BY <1>1, <1>7, <1>8, LoopKeeps
<1>10. c \in 0 .. c
  BY <1>1
<1>11. Shifting(x, i, c, after[c])
  <2> HIDE DEF States, c
  <2> QED BY <1>9, <1>10
<1> QED BY <1>6, <1>11, EndIsShifted

\* What htab_del does to the entry at i: the last takes its place.
Deleted(x, z, i) ==
  /\ Sound(z) /\ z.cap = x.cap /\ Len(z.order) = Len(x.order) - 1
  /\ Items(z) = SubSeq([Items(x) EXCEPT ![x.pos[i] + 1] = Items(x)[Len(x.order)]], 1, Len(x.order) - 1)

LEMMA DelDeletes ==
  ASSUME Hashing, NEW x, Sound(x), Roomy(x), NEW i \in Used(x)
  PROVE  Deleted(x, DelSlot(x, i), i)
<1> DEFINE c == x.cap
           L == Len(x.order)
           U == Used(x)
           gone == x.pos[i] + 1
           y == ShiftBack(x, i).tab
           h == ShiftBack(x, i).hole
           slot == y.order[L]
           z == DelSlot(x, i)
<1>1. SoundShape(x) /\ Listed(x) /\ Shifted(x, i, y, h)
  BY SoundHas, ItemsAre, ShiftBackIs
<1>2. /\ c \in Nat \ {0, 1} /\ SlotsOf(x) = 0 .. c - 1 /\ U \subseteq 0 .. c - 1
      /\ gone \in 1 .. L /\ L \in Nat /\ L >= 1 /\ gone \in Nat
  BY <1>1 DEF SoundShape, Sound, Paired
<1> HIDE DEF y, h
<1>3. Opened(x, i, y, h)
  BY <1>1 DEF Shifted
<1>4. /\ y \in Tables(c) /\ y.slots \in [0 .. c - 1 -> Entry \cup {Free}] /\ y.order \in Seq(0 .. c - 1)
      /\ y.pos \in Numbers(c) /\ DOMAIN y.pos = U /\ Len(y.order) = L /\ Used(y) = U /\ y.cap = c
      /\ h \in U /\ h \in 0 .. c - 1
  BY <1>2, <1>3 DEF Opened, Tables
<1> HIDE DEF slot, z
<1>5. /\ z.cap = c /\ z.slots = [y.slots EXCEPT ![h] = Free]
      /\ z.order = SubSeq([y.order EXCEPT ![gone] = slot], 1, L - 1)
      /\ z.pos = [s \in U \ {h} |-> IF s = slot /\ gone # L THEN gone - 1 ELSE y.pos[s]]
      /\ z = [cap |-> c, slots |-> z.slots, order |-> z.order, pos |-> z.pos]
  <2> DEFINE zs == [y.slots EXCEPT ![h] = Free]
             zo == SubSeq([y.order EXCEPT ![gone] = slot], 1, L - 1)
             zp == [s \in DOMAIN y.pos \ {h} |-> IF s = slot /\ gone # L THEN gone - 1 ELSE y.pos[s]]
  <2>1. y.cap = c /\ y \in Tables(y.cap)
    BY <1>4
  <2>2. z = [y EXCEPT !.slots = zs, !.order = zo, !.pos = zp]
    <3>1. y = [cap |-> y.cap, slots |-> y.slots, order |-> y.order, pos |-> y.pos]
      BY <1>4 DEF Tables
    <3> QED BY <1>4, <3>1 DEF DelSlot, z, y, h, slot
  <2> HIDE DEF zs, zo, zp, c
  <2>3. z = [cap |-> c, slots |-> zs, order |-> zo, pos |-> zp]
    BY <2>1, <2>2 DEF Tables
  <2>4. z.cap = c /\ z.slots = zs /\ z.order = zo /\ z.pos = zp
    BY <2>3
  <2> QED BY <1>4, <2>3, <2>4 DEF zs, zo, zp
<1>6. ASSUME NEW n \in 1 .. L, n # gone
      PROVE  /\ y.order[n] \in U \ {h} /\ y.pos[y.order[n]] = n - 1
             /\ y.slots[y.order[n]] = x.slots[x.order[n]]
  BY <1>3, <1>6 DEF Opened
<1>7. ASSUME NEW s \in U \ {h}
      PROVE  y.pos[s] + 1 \in 1 .. L /\ y.pos[s] + 1 # gone /\ y.order[y.pos[s] + 1] = s
             /\ y.pos[s] \in Nat
  BY <1>2, <1>3, <1>4, NumbersAre DEF Opened
<1>8. z.slots \in [0 .. c - 1 -> Entry \cup {Free}]
      /\ \A s \in 0 .. c - 1 : z.slots[s] = IF s = h THEN Free ELSE y.slots[s]
  BY <1>4, <1>5
<1>9. slot \in 0 .. c - 1
  BY <1>2, <1>4, SMTT(60) DEF slot
<1>10. z.order \in Seq(0 .. c - 1) /\ Len(z.order) = L - 1
       /\ \A n \in 1 .. L - 1 : z.order[n] = IF n = gone THEN slot ELSE y.order[n]
  <2> DEFINE o == [y.order EXCEPT ![gone] = slot]
  <2>1. o \in Seq(0 .. c - 1) /\ Len(o) = L /\ \A n \in 1 .. L : o[n] = IF n = gone THEN slot ELSE y.order[n]
    BY <1>2, <1>4, <1>9
  <2> HIDE DEF o
  <2>2. SubSeq(o, 1, L - 1) \in Seq(0 .. c - 1) /\ Len(SubSeq(o, 1, L - 1)) = L - 1
        /\ \A n \in 1 .. L - 1 : SubSeq(o, 1, L - 1)[n] = o[n]
    BY <1>2, <2>1, SMTT(60)
  <2> QED BY <1>2, <1>5, <2>1, <2>2, SMTT(60) DEF o
<1>11. Used(z) = U \ {h}
  <2>1. Used(y) = {s \in 0 .. c - 1 : y.slots[s] # Free}
    BY <1>4 DEF Used
  <2>2. Used(z) = {s \in 0 .. c - 1 : z.slots[s] # Free}
    BY <1>5 DEF Used
  <2> QED BY <1>4, <1>8, <2>1, <2>2
<1> HIDE DEF gone, U
<1>12. DOMAIN z.pos = U \ {h}
       /\ \A s \in U \ {h} : z.pos[s] = IF s = slot /\ gone # L THEN gone - 1 ELSE y.pos[s]
  BY <1>5
<1>13. gone # L => slot \in U \ {h} /\ y.pos[slot] = L - 1
  <2> SUFFICES ASSUME gone # L PROVE slot \in U \ {h} /\ y.pos[slot] = L - 1
    OBVIOUS
  <2>1. L \in 1 .. L /\ L # gone
    BY <1>2
  <2> QED BY <1>6, <2>1 DEF slot
<1>14. z \in Tables(c)
  <2>1. \A s \in DOMAIN z.pos : z.pos[s] \in Nat
    <3>1. gone - 1 \in Nat
      BY <1>2
    <3>2. \A s \in U \ {h} : y.pos[s] \in Nat
      BY <1>7
    <3> QED BY <1>12, <3>1, <3>2
  <2>2. z.pos = [s \in DOMAIN z.pos |-> z.pos[s]]
    BY <1>5
  <2>3. DOMAIN z.pos \subseteq 0 .. c - 1 /\ c \in Nat
    BY <1>2, <1>12
  <2>4. z.pos \in Numbers(c)
    BY <2>1, <2>2, <2>3, NumbersAre
  <2> QED BY <1>5, <1>8, <1>10, <2>4 DEF Tables
<1>15. ASSUME NEW n \in 1 .. L - 1
       PROVE  /\ z.order[n] \in U \ {h} /\ z.pos[z.order[n]] = n - 1
              /\ z.slots[z.order[n]] = x.slots[x.order[IF n = gone THEN L ELSE n]]
  <2>1. n \in 1 .. L /\ n # L
    BY <1>2
  <2>2. \A s \in U \ {h} : z.slots[s] = y.slots[s]
    BY <1>2, <1>8
  <2>3. CASE n = gone
    <3>1. slot \in U \ {h} /\ y.slots[slot] = x.slots[x.order[L]]
      <4>1. L \in 1 .. L /\ L # gone
        BY <1>2, <2>1, <2>3
      <4> QED BY <1>6, <4>1 DEF slot
    <3> QED BY <1>10, <1>12, <2>1, <2>2, <2>3, <3>1
  <2>4. CASE n # gone
    <3>1. y.order[n] \in U \ {h} /\ y.pos[y.order[n]] = n - 1 /\ y.slots[y.order[n]] = x.slots[x.order[n]]
      BY <1>6, <2>1, <2>4
    <3>2. z.order[n] = y.order[n]
      BY <1>10, <2>4
    <3>3. ~(y.order[n] = slot /\ gone # L)
      BY <1>2, <1>13, <2>1, <3>1
    <3> QED BY <1>12, <2>2, <2>4, <3>1, <3>2, <3>3
  <2> QED BY <2>3, <2>4
<1>16. ASSUME NEW s \in U \ {h}
       PROVE  z.pos[s] + 1 \in 1 .. L - 1 /\ z.order[z.pos[s] + 1] = s
  <2>1. CASE s = slot /\ gone # L
    <3>1. z.pos[s] + 1 = gone /\ gone \in 1 .. L - 1
      BY <1>2, <1>12, <2>1
    <3> QED BY <1>10, <2>1, <3>1
  <2>2. CASE ~(s = slot /\ gone # L)
    <3> DEFINE m == y.pos[s] + 1
    <3>1. m \in 1 .. L /\ m # gone /\ y.order[m] = s /\ z.pos[s] + 1 = m
      BY <1>7, <1>12, <2>2
    <3> HIDE DEF m
    <3>2. m # L
      BY <2>2, <3>1 DEF slot
    <3>3. m \in 1 .. L - 1
      BY <1>2, <3>1, <3>2
    <3> QED BY <1>10, <3>1, <3>3
  <2> QED BY <2>1, <2>2
<1>17. Paired(z)
  BY <1>10, <1>11, <1>15, <1>16 DEF Paired
<1>18. Unique(z)
  <2> SUFFICES ASSUME NEW a \in U \ {h}, NEW b \in U \ {h}, z.slots[a][1] = z.slots[b][1] PROVE a = b
    BY <1>11 DEF Unique
  <2> DEFINE from(n) == IF n = gone THEN L ELSE n
             m == z.pos[a] + 1
             n == z.pos[b] + 1
  <2>1. m \in 1 .. L - 1 /\ n \in 1 .. L - 1 /\ z.order[m] = a /\ z.order[n] = b
    BY <1>16
  <2> HIDE DEF m, n
  <2>2. from(m) \in 1 .. L /\ from(n) \in 1 .. L /\ (from(m) = from(n) => m = n)
    BY <1>2, <2>1
  <2>3. z.slots[a] = x.slots[x.order[from(m)]] /\ z.slots[b] = x.slots[x.order[from(n)]]
    BY <1>15, <2>1
  <2> HIDE DEF from
  <2>4. x.order[from(m)] \in Used(x) /\ x.order[from(n)] \in Used(x)
        /\ x.pos[x.order[from(m)]] = from(m) - 1 /\ x.pos[x.order[from(n)]] = from(n) - 1
    BY <2>2 DEF Sound, Paired
  <2>5. x.order[from(m)] = x.order[from(n)]
    BY <2>3, <2>4 DEF Sound, Unique
  <2>6. from(m) \in Int /\ from(n) \in Int /\ from(m) - 1 = from(n) - 1
    BY <1>2, <2>2, <2>4, <2>5
  <2> QED BY <2>1, <2>2, <2>6
<1>19. Reach(z)
  <2>1. \A k, s, j : Before(z, k, s, j) = Before(y, k, s, j)
    BY <1>4, <1>5 DEF Before, Home
  <2> SUFFICES ASSUME NEW a \in U \ {h}, NEW s \in SlotsOf(z), Before(z, z.slots[a][1], s, a)
               PROVE  s \in U \ {h}
    BY <1>11 DEF Reach
  <2>2. z.slots[a] = y.slots[a] /\ s \in SlotsOf(x)
    BY <1>2, <1>5, <1>8 DEF U, SlotsOf
  <2>3. Before(y, y.slots[a][1], s, a)
    BY <2>1, <2>2
  <2>4. s \in U
    BY <1>3, <2>2, <2>3 DEF Opened, U
  <2>5. s # h
    BY <1>1, <2>3 DEF Shifted, U
  <2> QED BY <2>4, <2>5
<1>20. Sound(z)
  BY <1>2, <1>5, <1>11, <1>12, <1>14, <1>17, <1>18, <1>19 DEF Sound
<1>21. Items(z) = SubSeq([Items(x) EXCEPT ![gone] = Items(x)[L]], 1, L - 1)
  <2> DEFINE I == Items(x)
             e == I[L]
             A == [I EXCEPT ![gone] = e]
             B == SubSeq(A, 1, L - 1)
  <2>1. I \in Seq(Entry) /\ Len(I) = L /\ \A m \in 1 .. L : I[m] = x.slots[x.order[m]]
    BY <1>1 DEF Listed
  <2> HIDE DEF I
  <2>2. e \in Entry /\ L \in 1 .. L
    BY <1>2, <2>1
  <2>3. A \in Seq(Entry) /\ Len(A) = L /\ \A m \in 1 .. L : A[m] = IF m = gone THEN I[L] ELSE I[m]
    BY <1>2, <2>1, <2>2
  <2> HIDE DEF A
  <2>4. B \in Seq(Entry) /\ Len(B) = L - 1 /\ \A m \in 1 .. L - 1 : B[m] = A[m]
    BY <1>2, <2>3
  <2> HIDE DEF B
  <2>5. ASSUME NEW m \in 1 .. L - 1 PROVE z.slots[z.order[m]] = B[m]
    <3>1. m \in 1 .. L
      BY <1>2
    <3>2. A[m] = IF m = gone THEN I[L] ELSE I[m]
      BY <2>3, <3>1
    <3>3. I[L] = x.slots[x.order[L]] /\ I[m] = x.slots[x.order[m]]
      BY <2>1, <2>2, <3>1
    <3>4. z.slots[z.order[m]] = x.slots[x.order[IF m = gone THEN L ELSE m]]
      BY <1>15
    <3>5. B[m] = A[m]
      BY <2>4
    <3> QED BY <3>2, <3>3, <3>4, <3>5
  <2>6. Items(z) = B
    BY <1>10, <1>20, <2>4, <2>5, ItemsEqual
  <2> QED BY <2>6 DEF B, A, I
<1> QED BY <1>5, <1>10, <1>20, <1>21 DEF Deleted, gone, z

\* The first entries of x, n of them or the m last ones fewer.
Shortened(x, n, m, y) ==
  /\ Sound(y) /\ y.cap = x.cap
  /\ Len(y.order) = IF Len(x.order) - m >= n THEN Len(x.order) - m ELSE n
  /\ Items(y) = SubSeq(Items(x), 1, Len(y.order))

LEMMA CutShortens ==
  ASSUME Hashing, NEW x, Sound(x), Len(x.order) < x.cap, NEW n \in 0 .. Len(x.order),
         NEW m \in 1 .. Len(x.order), NEW y, Shortened(x, n, m - 1, y)
  PROVE  Shortened(x, n, m, CutTo(y, n))
<1> DEFINE L == Len(x.order)
           l == Len(y.order)
           I == Items(x)
           c == x.cap
<1>1. SoundShape(x) /\ Listed(x) /\ Sound(y) /\ SoundShape(y) /\ Listed(y)
  BY SoundHas, ItemsAre DEF Shortened
<1>2. /\ c \in Nat \ {0, 1} /\ L \in Nat /\ L < c /\ n \in Nat /\ n <= L /\ m \in Nat /\ m <= L /\ m >= 1
      /\ y.cap = c /\ l = (IF L - (m - 1) >= n THEN L - (m - 1) ELSE n) /\ Items(y) = SubSeq(I, 1, l)
  BY <1>1 DEF SoundShape, Shortened
<1>3. l \in Nat /\ l <= L /\ l >= n
  BY <1>2
<1>4. CASE l <= n
  <2>1. CutTo(y, n) = y
    BY <1>4 DEF CutTo
  <2> HIDE DEF l, L
  <2>2. l = IF L - m >= n THEN L - m ELSE n
    BY <1>2, <1>3, <1>4
  <2> QED BY <1>1, <1>2, <2>1, <2>2 DEF Shortened, l, L
<1>5. CASE l > n
  <2> DEFINE s == y.order[l]
             k == y.slots[s][1]
             z == DelSlot(y, s)
  <2>1. l \in 1 .. l /\ l >= 1
    BY <1>2, <1>3, <1>5
  <2>2. s \in Used(y) /\ y.pos[s] = l - 1 /\ k \in Key
    BY <1>1, <2>1 DEF Sound, Paired, SoundShape
  <2>3. Roomy(y)
    BY <1>1, <1>2, <1>3, RoomIs
  <2>4. FindSlot(y, k) = s
    <3> DEFINE kk == k
    <3>1. kk \in Key /\ y.slots[s][1] = kk
      BY <2>2
    <3> HIDE DEF kk, s
    <3>2. FindSlot(y, kk) = s
      BY <1>1, <2>2, <2>3, <3>1, FindSlotIs
    <3> QED BY <3>2 DEF kk, s
  <2>5. CutTo(y, n) = z
    BY <1>3, <1>5, <1>2, <2>4 DEF CutTo, DropLast
  <2> HIDE DEF s
  <2>6. Deleted(y, z, s)
    BY <1>1, <2>2, <2>3, DelDeletes
  <2> HIDE DEF z
  <2> DEFINE J == Items(y)
  <2>7. /\ Sound(z) /\ z.cap = c /\ Len(z.order) = l - 1
        /\ Items(z) = SubSeq([J EXCEPT ![l] = J[l]], 1, l - 1)
    <3>1. y.pos[s] + 1 = l
      BY <1>3, <2>2
    <3> QED BY <1>2, <2>6, <3>1 DEF Deleted
  <2>8. l - 1 = IF L - m >= n THEN L - m ELSE n
    BY <1>2, <1>5
  <2>9. SubSeq([J EXCEPT ![l] = J[l]], 1, l - 1) = SubSeq(I, 1, l - 1)
    <3>1. J \in Seq(Entry) /\ Len(J) = l /\ I \in Seq(Entry) /\ Len(I) = L /\ J = SubSeq(I, 1, l)
      BY <1>1, <1>2 DEF Listed
    <3> HIDE DEF J, I
    <3>2. [J EXCEPT ![l] = J[l]] = J
      <4> HIDE DEF l
      <4>1. J = [q \in 1 .. l |-> J[q]]
        BY <1>3, <3>1
      <4> QED BY <4>1
    <3> DEFINE A == SubSeq(J, 1, l - 1)
               B == SubSeq(I, 1, l - 1)
    <3>3. \A q \in 1 .. l : J[q] = I[q]
      BY <1>2, <1>3, <2>1, <3>1
    <3>4. A \in Seq(Entry) /\ Len(A) = l - 1 /\ \A q \in 1 .. l - 1 : A[q] = J[q]
      BY <1>3, <2>1, <3>1
    <3>5. B \in Seq(Entry) /\ Len(B) = l - 1 /\ \A q \in 1 .. l - 1 : B[q] = I[q]
      BY <1>2, <1>3, <2>1, <3>1
    <3> HIDE DEF A, B
    <3>6. \A q \in 1 .. l - 1 : A[q] = B[q]
      BY <1>3, <2>1, <3>3, <3>4, <3>5
    <3>7. A = B
      BY <3>4, <3>5, <3>6, SeqEqual
    <3> QED BY <3>2, <3>7 DEF A, B
  <2> QED BY <2>5, <2>7, <2>8, <2>9 DEF Shortened
<1> QED BY <1>3, <1>4, <1>5

\* What htab_truncate does: the first n items are left.
LEMMA TruncatedIs ==
  ASSUME Hashing, NEW x, Sound(x), Len(x.order) < x.cap, NEW n \in 0 .. Len(x.order)
  PROVE  Shortened(x, n, Len(x.order), Truncated(x, n))
<1> DEFINE c == x.cap
           L == Len(x.order)
           S == [m \in 0 .. L |-> {y \in Tables(c) : Shortened(x, n, m, y)}]
           turn == [m \in 1 .. L |-> [y \in Tables(c) |-> CutTo(y, n)]]
           F(f) == [m \in 0 .. L |-> IF m = 0 THEN x ELSE CutTo(f[m - 1], n)]
           after == CHOOSE f : f = F(f)
<1>1. SoundShape(x) /\ Listed(x)
  BY SoundHas, ItemsAre
<1>2. L \in Nat /\ x \in Tables(c)
  BY <1>1 DEF SoundShape, Sound
<1>3. Shortened(x, n, 0, x)
  <2> DEFINE I == Items(x)
             B == SubSeq(I, 1, L)
  <2>1. I \in Seq(Entry) /\ Len(I) = L
    BY <1>1 DEF Listed
  <2> HIDE DEF I, L
  <2>2. B \in Seq(Entry) /\ Len(B) = L /\ \A m \in 1 .. L : B[m] = I[m]
    BY <1>2, <2>1
  <2> HIDE DEF B
  <2>3. B = I
    BY <2>1, <2>2, SeqEqual
  <2>4. L = IF L - 0 >= n THEN L - 0 ELSE n
    BY <1>2 DEF L
  <2> QED BY <2>3, <2>4 DEF Shortened, B, I, L
<1>4. ASSUME NEW m \in 1 .. L, NEW y, Shortened(x, n, m - 1, y)
      PROVE  CutTo(y, n) \in S[m]
  <2>1. Shortened(x, n, m, CutTo(y, n))
    BY <1>4, CutShortens
  <2>2. CutTo(y, n) \in Tables(c) /\ m \in 0 .. L
    BY <1>2, <2>1 DEF Shortened, Sound
  <2> QED BY <2>1, <2>2
<1>5. ASSUME NEW y, NEW m \in 0 .. L, y \in S[m]
      PROVE  y \in Tables(c) /\ Shortened(x, n, m, y)
  BY <1>5
<1>6. \E f : f = F(f)
  <2>1. PICK f : Runs(f, L, x, turn)
    BY <1>2, LoopRuns
  <2>2. DOMAIN f = 0 .. L /\ \A m \in 0 .. L : f[m] = IF m = 0 THEN x ELSE turn[m][f[m - 1]]
    BY <2>1 DEF Runs
  <2>3. f[0] \in S[0] /\ f[0] = x
    <3>1. 0 \in 0 .. L
      BY <1>2
    <3> QED BY <1>2, <1>3, <2>2, <3>1
  <2>4. ASSUME NEW m \in 1 .. L, f[m - 1] \in Tables(c)
        PROVE  f[m] = CutTo(f[m - 1], n)
    <3>1. m \in 0 .. L /\ m # 0
      OBVIOUS
    <3> QED BY <2>2, <2>4, <3>1
  <2>5. \A m \in 1 .. L : f[m - 1] \in S[m - 1] => f[m] \in S[m]
    <3> SUFFICES ASSUME NEW m \in 1 .. L, f[m - 1] \in S[m - 1] PROVE f[m] \in S[m]
      OBVIOUS
    <3>1. m - 1 \in 0 .. L
      BY <1>2
    <3> HIDE DEF S, L
    <3>2. f[m - 1] \in Tables(c) /\ Shortened(x, n, m - 1, f[m - 1])
      BY <1>5, <3>1
    <3> QED BY <1>4, <2>4, <3>2
  <2>6. \A m \in 0 .. L : f[m] \in S[m]
    <3> HIDE DEF S, L
    <3> QED BY <1>2, <2>3, <2>5, LoopKeeps
  <2>7. \A m \in 0 .. L : f[m] = IF m = 0 THEN x ELSE CutTo(f[m - 1], n)
    <3> SUFFICES ASSUME NEW m \in 0 .. L, m # 0 PROVE f[m] = CutTo(f[m - 1], n)
      BY <2>3
    <3>1. m \in 1 .. L /\ m - 1 \in 0 .. L
      BY <1>2
    <3> HIDE DEF S, L
    <3>2. f[m - 1] \in Tables(c)
      BY <1>5, <2>6, <3>1
    <3> QED BY <2>4, <3>1, <3>2
  <2>8. f = [m \in 0 .. L |-> f[m]]
    BY <2>1 DEF Runs
  <2> QED BY <2>7, <2>8
<1>7. after = F(after)
  <2> HIDE DEF F
  <2> QED BY <1>6
<1>8. Truncated(x, n) = after[L]
  BY DEF Truncated, after
<1> HIDE DEF after
<1>9. after[0] \in S[0]
  <2>1. 0 \in 0 .. L
    BY <1>2
  <2> QED BY <1>2, <1>3, <1>7, <2>1
<1>10. \A m \in 1 .. L : after[m - 1] \in S[m - 1] => after[m] \in S[m]
  <2> SUFFICES ASSUME NEW m \in 1 .. L, after[m - 1] \in S[m - 1] PROVE after[m] \in S[m]
    OBVIOUS
  <2>1. m - 1 \in 0 .. L /\ m \in 0 .. L /\ m # 0
    BY <1>2
  <2>2. after[m] = CutTo(after[m - 1], n)
    BY <1>7, <2>1
  <2> HIDE DEF S, L
  <2>3. Shortened(x, n, m - 1, after[m - 1])
    BY <1>5, <2>1
  <2> QED BY <1>4, <2>2, <2>3
<1>11. \A m \in 0 .. L : after[m] \in S[m]
  <2> HIDE DEF S, L
  <2> QED BY <1>2, <1>9, <1>10, LoopKeeps
<1>12. L \in 0 .. L
  BY <1>2
<1> HIDE DEF S, L
<1>13. Shortened(x, n, L, after[L])
  BY <1>5, <1>11, <1>12
<1> QED BY <1>8, <1>13 DEF L

-----------------------------------------------------------------------------
(***************************************************************************)
(* The specification.                                                      *)
(***************************************************************************)
\* What a mark recorded is still there, and later marks recorded no less.
Marked ==
  /\ marks \in Seq([n : Nat, keys : Seq(Key)])
  /\ \A m \in 1 .. Len(marks) :
       marks[m].n \in 0 .. Len(t.order) /\ marks[m].keys = SubSeq(Keys(t), 1, marks[m].n)
  /\ \A l, m \in 1 .. Len(marks) : l <= m => marks[l].n <= marks[m].n

Inv ==
  /\ Hashing
  /\ Sound(t) /\ t.cap \in InitCap .. MaxCap /\ 2 * Len(t.order) <= t.cap
  /\ Marked

\* The keys are those of the items.
Keyed(x) ==
  /\ Keys(x) \in Seq(Key) /\ Len(Keys(x)) = Len(x.order)
  /\ \A n \in 1 .. Len(x.order) : Keys(x)[n] = Items(x)[n][1]

LEMMA KeysAre == ASSUME NEW x, Sound(x) PROVE Keyed(x)
<1>1. Listed(x) /\ SoundShape(x)
  BY ItemsAre, SoundHas
<1> DEFINE L == Len(x.order)
           I == Items(x)
<1>2. L \in Nat /\ Keys(x) = [n \in 1 .. L |-> I[n][1]]
  BY <1>1 DEF SoundShape, Keys
<1>3. \A n \in 1 .. L : I[n][1] \in Key
  <2>1. I \in Seq(Entry) /\ Len(I) = L
    BY <1>1 DEF Listed
  <2> HIDE DEF I, L
  <2>2. \A n \in 1 .. L : I[n] \in Entry
    BY <2>1
  <2> QED BY <2>2 DEF Entry
<1> HIDE DEF I, L
<1>4. Keys(x) \in Seq(Key) /\ Len(Keys(x)) = L /\ \A n \in 1 .. L : Keys(x)[n] = I[n][1]
  BY <1>2, <1>3
<1> QED BY <1>4 DEF Keyed, I, L

\* Tables with the same first items have the same first keys.
LEMMA SameKeys ==
  ASSUME NEW x, NEW y, Sound(x), Sound(y), NEW n \in Nat, n <= Len(x.order), n <= Len(y.order),
         \A m \in 1 .. n : Items(y)[m][1] = Items(x)[m][1]
  PROVE  SubSeq(Keys(y), 1, n) = SubSeq(Keys(x), 1, n)
<1> DEFINE X == Keys(x)
           Y == Keys(y)
           A == SubSeq(X, 1, n)
           B == SubSeq(Y, 1, n)
<1>1. Keyed(x) /\ Keyed(y) /\ SoundShape(x) /\ SoundShape(y)
  BY KeysAre, SoundHas
<1>2. /\ X \in Seq(Key) /\ Y \in Seq(Key) /\ n <= Len(X) /\ n <= Len(Y)
      /\ Len(X) \in Nat /\ Len(Y) \in Nat
  BY <1>1 DEF Keyed, SoundShape
<1>3. \A m \in 1 .. n : Y[m] = X[m]
  <2> SUFFICES ASSUME NEW m \in 1 .. n PROVE Y[m] = X[m]
    OBVIOUS
  <2>1. m \in 1 .. Len(x.order) /\ m \in 1 .. Len(y.order)
    BY <1>1 DEF SoundShape
  <2> QED BY <1>1, <2>1 DEF Keyed
<1> HIDE DEF X, Y
<1>4. A \in Seq(Key) /\ Len(A) = n /\ \A m \in 1 .. n : A[m] = X[m]
  BY <1>2
<1>5. B \in Seq(Key) /\ Len(B) = n /\ \A m \in 1 .. n : B[m] = Y[m]
  BY <1>2
<1> HIDE DEF A, B
<1>6. \A m \in 1 .. n : B[m] = A[m]
  BY <1>3, <1>4, <1>5
<1>7. A = B
  BY <1>4, <1>5, <1>6, SeqEqual
<1> QED BY <1>7 DEF A, B, X, Y

\* htab_hash does not change.
LEMMA SoundNext == ASSUME hash' = hash, Hashing, Sound(t') PROVE Hashing' /\ Sound(t)'
<1>1. Hashing'
  BY DEF Hashing
<1>2. Reach(t)'
  BY DEF Sound, Reach, Before, Home
<1> QED BY <1>1, <1>2 DEF Sound

\* What the marks need: the items counted keep their keys.
LEMMA MarksKept ==
  ASSUME Inv, Sound(t'), UNCHANGED marks,
         \A n \in 0 .. Len(t.order) :
           (\E m \in 1 .. Len(marks) : marks[m].n = n) =>
             n <= Len(t'.order) /\ \A q \in 1 .. n : Items(t')[q][1] = Items(t)[q][1]
  PROVE  Marked'
<1>1. SoundShape(t) /\ SoundShape(t') /\ Sound(t) /\ Marked
  BY SoundHas DEF Inv
<1>2. ASSUME NEW m \in 1 .. Len(marks)
      PROVE  marks[m].n \in 0 .. Len(t'.order) /\ marks[m].keys = SubSeq(Keys(t'), 1, marks[m].n)
  <2> DEFINE n == marks[m].n
  <2>1. n \in 0 .. Len(t.order) /\ marks[m].keys = SubSeq(Keys(t), 1, n) /\ Len(t.order) \in Nat
        /\ Len(t'.order) \in Nat
    BY <1>1 DEF Marked, SoundShape
  <2>2. n <= Len(t'.order) /\ \A q \in 1 .. n : Items(t')[q][1] = Items(t)[q][1]
    BY <2>1
  <2> HIDE DEF n
  <2>3. n \in Nat /\ n <= Len(t.order)
    BY <2>1
  <2>4. SubSeq(Keys(t'), 1, n) = SubSeq(Keys(t), 1, n)
    BY <1>1, <2>2, <2>3, SameKeys
  <2>5. n \in 0 .. Len(t'.order) /\ marks[m].keys = SubSeq(Keys(t'), 1, n)
    BY <2>1, <2>2, <2>3, <2>4
  <2> QED BY <2>5 DEF n
<1>3. Keys(t') = Keys(t)'
  BY DEF Keys, Items
<1> QED BY <1>1, <1>2, <1>3 DEF Marked

LEMMA InvIs ==
  ASSUME Inv
  PROVE  /\ SoundShape(t) /\ Listed(t) /\ Sound(t) /\ Hashing /\ Roomy(t) /\ Marked
         /\ t.cap \in Nat \ {0, 1} /\ t.cap \in InitCap .. MaxCap /\ InitCap \in Nat /\ MaxCap \in Nat
         /\ Len(t.order) \in Nat /\ 2 * Len(t.order) <= t.cap /\ Len(t.order) < t.cap
<1>1. SoundShape(t) /\ Listed(t) /\ Sound(t) /\ Hashing /\ Marked
  BY SoundHas, ItemsAre DEF Inv
<1>2. t.cap \in Nat \ {0, 1} /\ Len(t.order) \in Nat /\ 2 * Len(t.order) <= t.cap
  BY <1>1 DEF SoundShape, Inv
<1>3. Len(t.order) < t.cap
  BY <1>2
<1>4. Roomy(t)
  BY <1>1, <1>3, RoomIs
<1> QED BY <1>1, <1>2, <1>3, <1>4, HtabAssumption DEF Inv

\* What Set does to the items: an insertion or an update of the ordered map.
LEMMA SetSteps ==
  ASSUME Inv, NEW k \in Key, NEW v \in Val, Set(k, v)
  PROVE  Inv' /\ (AsMap!Insert(k, v) \/ AsMap!Update(k, v))
<1> DEFINE L == Len(t.order)
           I == Items(t)
           e == <<k, v>>
<1>1. SoundShape(t) /\ Listed(t) /\ Sound(t) /\ Hashing /\ Roomy(t) /\ Marked
      /\ t.cap \in Nat \ {0, 1} /\ t.cap \in InitCap .. MaxCap /\ InitCap \in Nat /\ MaxCap \in Nat
      /\ L \in Nat /\ 2 * L <= t.cap /\ L < t.cap
  BY InvIs
<1>2. hash' = hash /\ marks' = marks /\ t' = Store(t, k, v)
      /\ (Has(t, k) \/ ~NeedsRoom(t) \/ 2 * t.cap <= MaxCap)
  BY DEF Set
<1>3. Stored(t, t', k, v)
  BY <1>1, <1>2, StoreStores
<1>4. I \in Seq(Entry) /\ Len(I) = L /\ DOMAIN I = 1 .. L
      /\ \A n \in 1 .. L : I[n] = t.slots[t.order[n]]
  BY <1>1 DEF Listed
<1>5. e \in Entry /\ e[1] = k
  BY DEF Entry
<1>6. Items(t)' = Items(t')
  BY DEF Items
<1>7. CASE \E i \in Used(t) : t.slots[i][1] = k
  <2>1. PICK i \in Used(t) : t.slots[i][1] = k /\ Replaced(t, t', i, k, v)
    BY <1>3, <1>7 DEF Stored
  <2> DEFINE p == t.pos[i] + 1
  <2>2. Sound(t') /\ t'.cap = t.cap /\ t'.order = t.order /\ Items(t') = [I EXCEPT ![p] = e]
    BY <2>1 DEF Replaced
  <2>3. p \in 1 .. L /\ t.order[p] = i
    BY <1>1 DEF Sound, Paired
  <2> HIDE DEF p
  <2>4. I[p][1] = k
    BY <1>4, <2>1, <2>3
  <2> HIDE DEF I, e
  <2>5. \A q \in 1 .. L : Items(t')[q][1] = I[q][1]
    BY <1>4, <1>5, <2>2, <2>3, <2>4
  <2>6. Marked'
    <3>1. \A n \in 0 .. L : n <= Len(t'.order) /\ \A q \in 1 .. n : Items(t')[q][1] = I[q][1]
      BY <1>1, <2>2, <2>5
    <3> QED BY <1>2, <2>2, <3>1, MarksKept DEF I
  <2>7. Inv'
    BY <1>1, <1>2, <2>2, <2>6, SoundNext DEF Inv
  <2>8. AsMap!Update(k, v)
    <3>1. p \in AsMap!Place(k)
      BY <1>4, <2>3, <2>4 DEF AsMap!Place, I
    <3> QED BY <1>6, <2>2, <3>1 DEF AsMap!Update, I, e
  <2> QED BY <2>7, <2>8
<1>8. CASE ~ \E i \in Used(t) : t.slots[i][1] = k
  <2>1. /\ Sound(t') /\ t'.cap = (IF NeedsRoom(t) THEN 2 * t.cap ELSE t.cap)
        /\ Len(t'.order) = L + 1 /\ 2 * Len(t'.order) <= t'.cap /\ Items(t') = Append(I, e)
    BY <1>3, <1>8 DEF Stored
  <2>2. ~Has(t, k)
    BY <1>1, <1>8, FindSlotIs DEF Has, At
  <2>3. t'.cap \in InitCap .. MaxCap
    BY <1>1, <1>2, <2>1, <2>2
  <2> HIDE DEF I, e, L
  <2>4. \A q \in 1 .. L : Items(t')[q][1] = I[q][1]
    BY <1>1, <1>4, <1>5, <2>1
  <2>5. Marked'
    <3>1. ASSUME NEW n \in 0 .. L
          PROVE  n <= Len(t'.order) /\ \A q \in 1 .. n : Items(t')[q][1] = I[q][1]
      <4>1. n <= L /\ n \in Nat /\ L \in Nat /\ Len(t'.order) = L + 1
        BY <1>1, <2>1
      <4>2. \A q \in 1 .. n : q \in 1 .. L
        BY <4>1
      <4>3. n <= Len(t'.order)
        BY <4>1
      <4> QED BY <2>4, <4>2, <4>3
    <3> QED BY <1>2, <2>1, <3>1, MarksKept DEF I, L
  <2>6. Inv'
    BY <1>1, <1>2, <2>1, <2>3, <2>5, SoundNext DEF Inv
  <2>7. AsMap!Insert(k, v)
    <3>1. ASSUME NEW n \in 1 .. L PROVE I[n][1] # k
      <4>1. t.order[n] \in Used(t)
        BY <1>1 DEF Sound, Paired, L
      <4>2. I[n] = t.slots[t.order[n]]
        BY <1>4
      <4> QED BY <1>8, <4>1, <4>2
    <3>2. AsMap!Place(k) = {}
      BY <1>4, <3>1 DEF AsMap!Place, I
    <3> QED BY <1>6, <2>1, <3>2 DEF AsMap!Insert, I, e
  <2> QED BY <2>6, <2>7
<1> QED BY <1>7, <1>8

\* What Del does: a removal.
LEMMA DelSteps ==
  ASSUME Inv, NEW k \in Key, Del(k)
  PROVE  Inv' /\ AsMap!Remove(k)
<1> DEFINE L == Len(t.order)
           I == Items(t)
           i == FindSlot(t, k)
           p == t.pos[i] + 1
<1>1. SoundShape(t) /\ Listed(t) /\ Sound(t) /\ Hashing /\ Roomy(t) /\ Marked
      /\ t.cap \in Nat \ {0, 1} /\ t.cap \in InitCap .. MaxCap /\ InitCap \in Nat /\ MaxCap \in Nat
      /\ L \in Nat /\ 2 * L <= t.cap /\ L < t.cap
  BY InvIs
<1>2. hash' = hash /\ marks' = marks /\ marks = <<>> /\ t' = DelSlot(t, i) /\ Has(t, k)
  BY DEF Del
<1>3. i \in Used(t) /\ t.slots[i][1] = k
  BY <1>1, <1>2, FindSlotIs DEF Has, At
<1> HIDE DEF i
<1>4. Deleted(t, t', i)
  BY <1>1, <1>2, <1>3, DelDeletes
<1>5. I \in Seq(Entry) /\ Len(I) = L /\ DOMAIN I = 1 .. L
      /\ \A n \in 1 .. L : I[n] = t.slots[t.order[n]]
  BY <1>1 DEF Listed
<1>6. p \in 1 .. L /\ t.order[p] = i
  BY <1>1, <1>3 DEF Sound, Paired
<1>7. Sound(t') /\ t'.cap = t.cap /\ Len(t'.order) = L - 1
      /\ Items(t') = SubSeq([I EXCEPT ![p] = I[L]], 1, L - 1)
  BY <1>4 DEF Deleted
<1> HIDE DEF p
<1>8. Items(t)' = Items(t')
  BY DEF Items
<1>9. Marked'
  <2>1. Len(marks') = 0 /\ marks' = <<>>
    BY <1>2
  <2> QED BY <2>1 DEF Marked
<1>10. 2 * Len(t'.order) <= t'.cap
  BY <1>1, <1>7
<1>11. Inv'
  BY <1>1, <1>2, <1>7, <1>9, <1>10, SoundNext DEF Inv
<1>12. AsMap!Remove(k)
  <2>1. I[p][1] = k
    BY <1>3, <1>5, <1>6
  <2>2. p \in AsMap!Place(k)
    BY <1>5, <1>6, <2>1 DEF AsMap!Place
  <2> HIDE DEF I
  <2>3. Items(t)' = SubSeq([I EXCEPT ![p] = I[Len(I)]], 1, Len(I) - 1)
    BY <1>5, <1>7, <1>8
  <2> QED BY <2>2, <2>3 DEF AsMap!Remove, I
<1> QED BY <1>11, <1>12

Record == [n : Nat, keys : Seq(Key)]

\* A mark records what is there.
LEMMA MarkSteps ==
  ASSUME Inv, Mark
  PROVE  Inv' /\ Items(t)' = Items(t)
<1> DEFINE L == Len(t.order)
           M == Len(marks)
           r == [n |-> L, keys |-> Keys(t)]
<1>1. SoundShape(t) /\ Listed(t) /\ Sound(t) /\ Hashing /\ Roomy(t) /\ Marked
      /\ t.cap \in Nat \ {0, 1} /\ t.cap \in InitCap .. MaxCap /\ InitCap \in Nat /\ MaxCap \in Nat
      /\ L \in Nat /\ 2 * L <= t.cap /\ L < t.cap
  BY InvIs
<1>2. hash' = hash /\ t' = t /\ marks' = Append(marks, r)
  BY DEF Mark
<1>3. Keyed(t) /\ Items(t)' = Items(t) /\ Keys(t)' = Keys(t)
  BY <1>1, <1>2, KeysAre DEF Items, Keys
<1>4. Keys(t) = SubSeq(Keys(t), 1, L)
  <2> DEFINE X == Keys(t)
             A == SubSeq(X, 1, L)
  <2>1. X \in Seq(Key) /\ Len(X) = L
    BY <1>3 DEF Keyed
  <2> HIDE DEF X, L
  <2>2. A \in Seq(Key) /\ Len(A) = L /\ \A m \in 1 .. L : A[m] = X[m]
    BY <1>1, <2>1
  <2> HIDE DEF A
  <2>3. A = X
    BY <2>1, <2>2, SeqEqual
  <2> QED BY <2>3 DEF A, X
<1>5. r \in Record /\ r.n = L /\ r.keys = Keys(t)
  BY <1>1, <1>3 DEF Record, Keyed
<1> HIDE DEF r
<1>6. marks \in Seq(Record) /\ M \in Nat
      /\ (\A m \in 1 .. M : marks[m].n \in 0 .. L /\ marks[m].keys = SubSeq(Keys(t), 1, marks[m].n))
      /\ (\A l, m \in 1 .. M : l <= m => marks[l].n <= marks[m].n)
  <2>1. Marked
    BY <1>1
  <2>2. marks \in Seq(Record) /\ M \in Nat
    BY <2>1 DEF Marked, Record
  <2> QED BY <2>1, <2>2 DEF Marked
<1> HIDE DEF L
<1>7. marks' \in Seq(Record) /\ Len(marks') = M + 1
      /\ \A m \in 1 .. M + 1 : marks'[m] = IF m = M + 1 THEN r ELSE marks[m]
  BY <1>2, <1>5, <1>6
<1> HIDE DEF M
<1>8. ASSUME NEW m \in 1 .. M + 1
      PROVE  marks'[m].n \in 0 .. L /\ marks'[m].keys = SubSeq(Keys(t), 1, marks'[m].n)
  <2>1. CASE m = M + 1
    BY <1>1, <1>4, <1>5, <1>7, <2>1
  <2>2. CASE m # M + 1
    <3>1. m \in 1 .. M
      BY <1>6, <2>2
    <3> QED BY <1>6, <1>7, <2>2, <3>1
  <2> QED BY <2>1, <2>2
<1>9. ASSUME NEW l \in 1 .. M + 1, NEW m \in 1 .. M + 1, l <= m
      PROVE  marks'[l].n <= marks'[m].n
  <2>1. CASE m = M + 1
    <3>1. marks'[l].n \in 0 .. L /\ marks'[m].n = L
      BY <1>5, <1>7, <1>8, <2>1
    <3> QED BY <1>1, <3>1
  <2>2. CASE m # M + 1
    <3>1. m \in 1 .. M /\ l \in 1 .. M /\ l # M + 1
      BY <1>6, <1>9, <2>2
    <3> QED BY <1>6, <1>7, <1>9, <2>2, <3>1
  <2> QED BY <2>1, <2>2
<1>10. Marked'
  BY <1>2, <1>3, <1>7, <1>8, <1>9 DEF Marked, L, Record
<1> QED BY <1>1, <1>2, <1>3, <1>10, SoundNext DEF Inv, L

\* Cutting back to the last mark, or forgetting it, keeps what the others need.
LEMMA UnmarkKeeps ==
  ASSUME Inv, Unmark, Sound(t'), Len(t'.order) \in Nat, marks[Len(marks)].n <= Len(t'.order),
         \A q \in 1 .. marks[Len(marks)].n : Items(t')[q][1] = Items(t)[q][1]
  PROVE  Marked' /\ SubSeq(Keys(t'), 1, marks[Len(marks)].n) = marks[Len(marks)].keys
<1> DEFINE L == Len(t.order)
           M == Len(marks)
           last == marks[M].n
<1>1. Sound(t) /\ Marked /\ L \in Nat
  BY InvIs
<1>2. marks \in Seq(Record) /\ M \in Nat
      /\ (\A m \in 1 .. M : marks[m].n \in 0 .. L /\ marks[m].keys = SubSeq(Keys(t), 1, marks[m].n))
      /\ (\A l, m \in 1 .. M : l <= m => marks[l].n <= marks[m].n)
  BY <1>1 DEF Marked, Record
<1>3. marks # <<>> /\ marks' = SubSeq(marks, 1, M - 1)
  BY DEF Unmark
<1>4. M \in 1 .. M
  BY <1>2, <1>3
<1>5. last \in 0 .. L /\ last <= Len(t'.order) /\ \A q \in 1 .. last : Items(t')[q][1] = Items(t)[q][1]
  BY <1>2, <1>4
<1>6. marks' \in Seq(Record) /\ Len(marks') = M - 1 /\ \A m \in 1 .. M - 1 : marks'[m] = marks[m]
  <2> DEFINE ms == marks
             A == SubSeq(ms, 1, M - 1)
  <2>1. ms \in Seq(Record) /\ Len(ms) = M /\ M \in Nat /\ M >= 1
    BY <1>2, <1>4
  <2> HIDE DEF ms, M
  <2>2. A \in Seq(Record) /\ Len(A) = M - 1 /\ \A m \in 1 .. M - 1 : A[m] = ms[m]
    BY <2>1
  <2> QED BY <1>3, <2>2 DEF ms
<1> HIDE DEF L, M, last
<1>7. ASSUME NEW n \in Nat, n <= last
      PROVE  SubSeq(Keys(t'), 1, n) = SubSeq(Keys(t), 1, n)
  <2>1. n <= L /\ n <= Len(t'.order) /\ last \in Nat
    BY <1>1, <1>5, <1>7
  <2>2. \A q \in 1 .. n : Items(t')[q][1] = Items(t)[q][1]
    BY <1>5, <1>7, <2>1
  <2> QED BY <1>1, <2>1, <2>2, SameKeys DEF L
<1>8. ASSUME NEW m \in 1 .. M
      PROVE  marks[m].n \in 0 .. Len(t'.order) /\ marks[m].keys = SubSeq(Keys(t'), 1, marks[m].n)
  <2>1. m <= M
    BY <1>4
  <2>2. marks[m].n \in 0 .. L /\ marks[m].keys = SubSeq(Keys(t), 1, marks[m].n) /\ marks[m].n <= last
    BY <1>2, <1>4, <2>1 DEF last
  <2>3. marks[m].n \in Nat /\ marks[m].n \in 0 .. Len(t'.order)
    BY <1>1, <1>5, <2>2
  <2> QED BY <1>7, <2>2, <2>3
<1>9. Keys(t)' = Keys(t')
  BY DEF Keys, Items
<1>10. \A m \in 1 .. M - 1 : m \in 1 .. M
  BY <1>2
<1>11. Marked'
  <2>1. \A m \in 1 .. M - 1 :
          marks'[m].n \in 0 .. Len(t'.order) /\ marks'[m].keys = SubSeq(Keys(t'), 1, marks'[m].n)
    BY <1>6, <1>8, <1>10
  <2>2. \A l, m \in 1 .. M - 1 : l <= m => marks'[l].n <= marks'[m].n
    BY <1>2, <1>6, <1>10
  <2> QED BY <1>6, <1>9, <2>1, <2>2 DEF Marked, Record
<1>12. SubSeq(Keys(t'), 1, last) = marks[M].keys
  BY <1>4, <1>8 DEF last
<1> QED BY <1>11, <1>12 DEF last, M

\* htab_truncate leaves the items that were there at the mark, and their keys.
LEMMA TruncateSteps ==
  ASSUME Inv, Truncate
  PROVE  /\ Inv' /\ Keys(t') = marks[Len(marks)].keys
         /\ Items(t)' = Items(t) \/ \E n \in 0 .. Len(Items(t)) : AsMap!Cut(n)
<1> DEFINE L == Len(t.order)
           n == marks[Len(marks)].n
           I == Items(t)
<1>1. SoundShape(t) /\ Listed(t) /\ Sound(t) /\ Hashing /\ Roomy(t) /\ Marked
      /\ t.cap \in Nat \ {0, 1} /\ t.cap \in InitCap .. MaxCap /\ InitCap \in Nat /\ MaxCap \in Nat
      /\ L \in Nat /\ 2 * L <= t.cap /\ L < t.cap
  BY InvIs
<1>2. hash' = hash /\ Unmark /\ t' = Truncated(t, n)
  BY DEF Truncate
<1>3. n \in 0 .. L
  <2>1. marks # <<>> /\ marks \in Seq(Record)
    BY <1>1, <1>2 DEF Unmark, Marked, Record
  <2>2. Len(marks) \in 1 .. Len(marks)
    BY <2>1
  <2> QED BY <1>1, <2>2 DEF Marked
<1> HIDE DEF n
<1>4. Shortened(t, n, L, t')
  BY <1>1, <1>2, <1>3, TruncatedIs
<1>5. Sound(t') /\ t'.cap = t.cap /\ Len(t'.order) = n /\ Items(t') = SubSeq(I, 1, n)
  <2>1. (IF L - L >= n THEN L - L ELSE n) = n
    BY <1>1, <1>3
  <2> QED BY <1>4, <2>1 DEF Shortened
<1>6. I \in Seq(Entry) /\ Len(I) = L
  BY <1>1 DEF Listed
<1>7. \A q \in 1 .. n : Items(t')[q] = I[q]
  <2> HIDE DEF I, L
  <2> QED BY <1>1, <1>3, <1>5, <1>6
<1>8. n \in Nat /\ n <= Len(t'.order)
  BY <1>1, <1>3, <1>5
<1>9. \A q \in 1 .. n : Items(t')[q][1] = I[q][1]
  BY <1>7
<1>10. Marked' /\ SubSeq(Keys(t'), 1, n) = marks[Len(marks)].keys
  BY <1>2, <1>5, <1>8, <1>9, UnmarkKeeps DEF n
<1>11. Keys(t') = SubSeq(Keys(t'), 1, n)
  <2> DEFINE X == Keys(t')
             A == SubSeq(X, 1, n)
  <2>1. X \in Seq(Key) /\ Len(X) = n
    BY <1>5, KeysAre DEF Keyed
  <2> HIDE DEF X
  <2>2. A \in Seq(Key) /\ Len(A) = n /\ \A m \in 1 .. n : A[m] = X[m]
    BY <1>8, <2>1
  <2> HIDE DEF A
  <2>3. A = X
    BY <2>1, <2>2, SeqEqual
  <2> QED BY <2>3 DEF A, X
<1>12. 2 * Len(t'.order) <= t'.cap
  BY <1>1, <1>3, <1>5
<1>13. Inv'
  BY <1>1, <1>2, <1>5, <1>10, <1>12, SoundNext DEF Inv
<1>14. Items(t)' = Items(t')
  BY DEF Items
<1>15. CASE n = L
  <2>1. SubSeq(I, 1, n) = I
    <3> DEFINE A == SubSeq(I, 1, n)
    <3> HIDE DEF I, L
    <3>1. A \in Seq(Entry) /\ Len(A) = n /\ \A m \in 1 .. n : A[m] = I[m]
      BY <1>1, <1>6, <1>15
    <3> HIDE DEF A
    <3>2. A = I
      BY <1>6, <1>15, <3>1, SeqEqual
    <3> QED BY <3>2 DEF A
  <2> QED BY <1>5, <1>10, <1>11, <1>13, <1>14, <2>1
<1>16. CASE n # L
  <2>1. n \in 0 .. Len(I) /\ n < Len(I)
    BY <1>1, <1>3, <1>6, <1>16
  <2>2. AsMap!Cut(n)
    BY <1>5, <1>14, <2>1 DEF AsMap!Cut
  <2> QED BY <1>10, <1>11, <1>13, <2>1, <2>2
<1> QED BY <1>15, <1>16

LEMMA ForgetSteps ==
  ASSUME Inv, Forget
  PROVE  Inv' /\ Items(t)' = Items(t)
<1>1. SoundShape(t) /\ Sound(t) /\ Hashing /\ Marked /\ Len(t.order) \in Nat
  BY InvIs
<1>2. Unmark /\ hash' = hash /\ t' = t
  BY DEF Forget
<1>3. marks[Len(marks)].n \in 0 .. Len(t.order)
  <2>1. marks # <<>> /\ marks \in Seq(Record)
    BY <1>1, <1>2 DEF Unmark, Marked, Record
  <2>2. Len(marks) \in 1 .. Len(marks)
    BY <2>1
  <2> QED BY <1>1, <2>2 DEF Marked
<1>4. marks[Len(marks)].n <= Len(t'.order) /\ Sound(t') /\ Len(t'.order) \in Nat
      /\ \A q \in 1 .. marks[Len(marks)].n : Items(t')[q][1] = Items(t)[q][1]
  BY <1>1, <1>2, <1>3
<1>5. Marked'
  BY <1>2, <1>4, UnmarkKeeps
<1>6. Inv'
  BY <1>1, <1>2, <1>5, SoundNext DEF Inv
<1>7. Items(t)' = Items(t)
  BY <1>2 DEF Items
<1> QED BY <1>6, <1>7

LEMMA InitGood ==
  ASSUME Init
  PROVE  Inv /\ AsMap!Init
<1>1. InitCap \in Nat \ {0, 1} /\ MaxCap \in Nat /\ InitCap <= MaxCap /\ hash \in [Key -> Nat]
  BY HtabAssumption DEF Init
<1>2. t = Empty(InitCap) /\ marks = <<>>
  BY DEF Init
<1>3. Sound(t) /\ t.cap = InitCap /\ Len(t.order) = 0
  BY <1>1, <1>2, EmptySound
<1>4. t.order = <<>>
  BY <1>2 DEF Empty
<1>5. Items(t) = <<>>
  <2>1. Items(t) \in Seq(Entry) /\ Len(Items(t)) = 0
    BY <1>3, ItemsAre DEF Listed
  <2> HIDE DEF Items
  <2> QED BY <2>1
<1>6. Marked
  <2>1. marks \in Seq(Record) /\ Len(marks) = 0
    BY <1>2
  <2> QED BY <2>1 DEF Marked, Record
<1>7. t.cap \in InitCap .. MaxCap /\ 2 * Len(t.order) <= t.cap
  BY <1>1, <1>3
<1> QED BY <1>1, <1>3, <1>5, <1>6, <1>7 DEF Inv, Hashing, AsMap!Init

LEMMA StutterKeeps ==
  ASSUME Inv, UNCHANGED vars
  PROVE  Inv' /\ Items(t)' = Items(t)
<1>1. hash' = hash /\ t' = t /\ marks' = marks
  BY DEF vars
<1>2. Sound(t') /\ Hashing
  BY <1>1 DEF Inv
<1>3. Marked'
  BY <1>1 DEF Inv, Marked, Keys, Items
<1> QED BY <1>1, <1>2, <1>3, SoundNext DEF Inv, Items

\* Every step keeps the invariant, and is a step of the ordered map or none.
LEMMA StepGood ==
  ASSUME Inv, [Next]_vars
  PROVE  Inv' /\ [AsMap!Next]_(Items(t))
<1>1. CASE UNCHANGED vars
  BY <1>1, StutterKeeps
<1>2. ASSUME NEW k \in Key, NEW v \in Val, Set(k, v) PROVE Inv' /\ AsMap!Next
  BY <1>2, SetSteps DEF AsMap!Next
<1>3. ASSUME NEW k \in Key, Del(k) PROVE Inv' /\ AsMap!Next
  BY <1>3, DelSteps DEF AsMap!Next
<1>4. CASE Mark
  BY <1>4, MarkSteps
<1>5. CASE Truncate
  BY <1>5, TruncateSteps DEF AsMap!Next
<1>6. CASE Forget
  BY <1>6, ForgetSteps
<1> QED BY <1>1, <1>2, <1>3, <1>4, <1>5, <1>6 DEF Next

\* The invariant of the table: a sound array at most half full, and true marks.
THEOREM HtabInvariant == Spec => []Inv
<1>1. Init => Inv
  BY InitGood
<1>2. Inv /\ [Next]_vars => Inv'
  BY StepGood
<1> QED BY <1>1, <1>2, PTL DEF Spec

\* htab_set, htab_del and htab_grow keep order and order_pos in step with the slots.
THEOREM ArraysMatch == Spec => []TypeOK
<1>1. ASSUME Inv PROVE TypeOK
  <2>1. Sound(t) /\ SoundShape(t) /\ t.cap \in InitCap .. MaxCap
    BY <1>1, InvIs DEF Inv
  <2>2. t.slots \in [0 .. t.cap - 1 -> Key \X Val \cup {Free}] /\ t.order \in Seq(0 .. t.cap - 1)
        /\ DOMAIN t.pos = Used(t)
    BY <2>1 DEF Sound, Tables, Entry
  <2>3. OrderMatchesSlots
    <3>1. DOMAIN t.order = 1 .. Len(t.order)
      BY <2>1 DEF SoundShape
    <3>2. \A n \in DOMAIN t.order : t.order[n] \in Used(t) /\ t.pos[t.order[n]] = n - 1
      BY <2>1, <3>1 DEF Sound, Paired
    <3>3. \A i \in Used(t) : \E n \in DOMAIN t.order : t.order[n] = i
      BY <2>1, <3>1 DEF Sound, Paired
    <3> QED BY <3>2, <3>3 DEF OrderMatchesSlots
  <2> QED BY <2>1, <2>2, <2>3 DEF TypeOK
<1> QED BY <1>1, HtabInvariant, PTL

\* htab_find_slot finds every entry, whatever htab_del shifted back.
THEOREM KeysAreFound == Spec => []EveryKeyFound
<1>1. ASSUME Inv PROVE EveryKeyFound
  <2>1. Sound(t) /\ SoundShape(t) /\ Roomy(t) /\ Hashing
    BY <1>1, InvIs
  <2> SUFFICES ASSUME NEW i \in Used(t) PROVE FindSlot(t, t.slots[i][1]) = i
    BY DEF EveryKeyFound
  <2> DEFINE k == t.slots[i][1]
  <2>2. k \in Key /\ t.slots[i][1] = k
    BY <2>1 DEF SoundShape
  <2> HIDE DEF k
  <2>3. FindSlot(t, k) = i
    BY <2>1, <2>2, FindSlotIs
  <2> QED BY <2>2, <2>3
<1> QED BY <1>1, HtabInvariant, PTL

\* The loops of htab_find_slot and htab_del meet a free slot.
THEOREM ProbesStop == Spec => []ProbesEnd
<1>1. ASSUME Inv PROVE ProbesEnd
  <2> DEFINE L == Len(t.order)
             S == Used(t)
             T == 1 .. L
             f == [s \in S |-> t.pos[s] + 1]
  <2>1. Sound(t) /\ SoundShape(t) /\ Roomy(t) /\ Hashing /\ t.cap \in Nat \ {0, 1}
        /\ L \in Nat /\ 2 * L <= t.cap
    BY <1>1, InvIs
  <2>2. \A k \in Key : Stops(t, k) # {}
    BY <2>1, ProbeIs
  <2>3. IsFiniteSet(S) /\ Cardinality(S) \in Nat
    <3>1. IsFiniteSet(0 .. t.cap - 1)
      BY <2>1, FS_Interval
    <3>2. S \subseteq 0 .. t.cap - 1
      BY <2>1 DEF SoundShape
    <3> QED BY <3>1, <3>2, FS_Subset, FS_CardinalityType
  <2>4. IsFiniteSet(T) /\ Cardinality(T) = L
    <3>1. 1 \in Int /\ L \in Int /\ (1 > L => L = 0) /\ L - 1 + 1 = L
      BY <2>1
    <3> QED BY <3>1, FS_Interval
  <2>5. \A s \in S : f[s] \in T /\ t.order[f[s]] = s
    BY <2>1 DEF Sound, Paired
  <2>6. f \in [S -> T]
    BY <2>5
  <2> HIDE DEF S, T, f
  <2>7. Cardinality(S) <= L
    <3>1. SUFFICES ASSUME L < Cardinality(S) PROVE FALSE
      BY <2>1, <2>3
    <3>2. \E s, i \in S : s # i /\ f[s] = f[i]
      BY <2>3, <2>4, <2>6, <3>1, FS_PigeonHole
    <3> QED BY <2>5, <3>2
  <2>8. 2 * Cardinality(Used(t)) <= t.cap
    BY <2>1, <2>3, <2>7 DEF S
  <2> QED BY <2>2, <2>8 DEF ProbesEnd
<1> QED BY <1>1, HtabInvariant, PTL

\* The table, whatever collides in it, is the ordered map the guest assumes.
THEOREM TableIsOrderedMap == Spec => RefinesOrderedMap
<1>1. Init => AsMap!Init
  BY InitGood
<1>2. Inv /\ [Next]_vars => [AsMap!Next]_(Items(t))
  BY StepGood
<1> QED BY <1>1, <1>2, HtabInvariant, PTL DEF Spec, RefinesOrderedMap, AsMap!Spec

\* Cutting a set back to the count a frame recorded undoes what the frame inserted.
THEOREM TruncateUndoes == Spec => TruncateRestores
<1>1. Inv /\ [Next]_vars => [Truncate => Keys(t') = marks[Len(marks)].keys]_vars
  BY TruncateSteps
<1> QED BY <1>1, HtabInvariant, PTL DEF Spec, TruncateRestores
=============================================================================
