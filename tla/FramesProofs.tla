---------------------------- MODULE FramesProofs ----------------------------
(***************************************************************************)
(* The theorems of Frames.  The return to a parent (finish_child), the     *)
(* first frame of a transaction, the inductive invariant, and from it      *)
(* every safety and action property of Frames, for all prices, limits,     *)
(* accounts, slots and gas.                                                *)
(***************************************************************************)
EXTENDS FramesSteps
-----------------------------------------------------------------------------

(***************************************************************************)
(* finish_child: the parent z that goes on after the child on top of y.    *)
(***************************************************************************)
\* what a suspended frame keeps while its child runs and ends
Carried(f, g) ==
  /\ g.kind = f.kind /\ g.self = f.self /\ g.static = f.static /\ g.code = f.code
  /\ g.gas = f.gas /\ g.rsv = f.rsv /\ g.running = f.running /\ g.err = f.err
  /\ g.out = f.out /\ g.snap = f.snap /\ g.csnap = f.csnap /\ g.charged = f.charged
  /\ g.addrs = f.addrs /\ g.keys = f.keys /\ g.mem = f.mem /\ g.cap = f.cap /\ g.len = f.len
  /\ g.stk = f.stk /\ g.scap = f.scap /\ g.mark = f.mark /\ g.memMark = f.memMark
  /\ g.data = f.data /\ g.ret = f.ret /\ g.was = f.was

\* The parent that goes on has the marks the child was given, and what the child has left.
Resumed(y, z) ==
  LET n == Top(y)
      c == Ev(y)
      f == y.frames[n - 1]
      g == Ev(z)
  IN  /\ Sound(z) /\ Fine(z) /\ Top(z) = n - 1
      /\ \A i \in 1 .. n - 2 : z.frames[i] = y.frames[i]
      /\ z.world = y.world /\ z.journal = y.journal /\ z.auth = y.auth
      /\ z.up = c.memMark /\ z.down = c.mark
      /\ z.warm = IF c.err = "none" THEN y.warm ELSE c.was.warm
      /\ Carried(f, g) /\ g.n <= g.scap
      /\ Held(g) = Held(f) + Held(c)
      /\ StateGasUsed(g) = StateGasUsed(f) - c.rsv
                           + (IF c.err = "none" THEN StateGasUsed(c) ELSE -Prepaid(c))
      /\ g.doomed \subseteq f.doomed \cup (IF c.err = "none" THEN c.doomed ELSE {})

\* the facts about the machines before the epilogue, after it, and after the return
LEMMA ResumedFacts ==
  ASSUME NEW v, Good(v), Top(v) > 1, NEW y, Over(v, y), NEW z, Resumed(y, z)
  PROVE  LET n == Top(v)
             c == v.frames[n]
         IN  /\ n \in Nat /\ n > 1 /\ Top(z) = n - 1 /\ Top(y) = n /\ z.frames[n - 1] = Ev(z)
             /\ \A i \in 1 .. n : v.frames[i] \in FrameState
             /\ \A i \in 1 .. n - 1 : z.frames[i] \in FrameState /\ Carried(v.frames[i], z.frames[i])
             /\ \A i \in 1 .. n - 2 : z.frames[i] = v.frames[i]
             /\ z.up = c.memMark /\ z.down = c.mark
             /\ Past(z) = Past(y) /\ Times(z) = Times(y) /\ History(z)
             /\ z.auth = v.auth /\ z.journal = y.journal /\ z.world = y.world
             /\ y.frames[n] = Ev(y) /\ Ev(y) \in FrameState /\ c = Ev(v)
<1> DEFINE n == Top(v)
           c == v.frames[n]
<1>1. Sound(v) /\ v \in Machine
  BY DEF Good, Core, Base, Sound, Typed
<1>2. n \in Nat /\ n > 1 /\ (\A i \in 1 .. n : v.frames[i] \in FrameState) /\ c = Ev(v)
  <2>1. Top(v) >= 1
    BY <1>1 DEF Sound
  <2>2. /\ Top(v) \in Nat \ {0} /\ \A i \in 1 .. Top(v) : v.frames[i] \in FrameState
        /\ Ev(v) = v.frames[Top(v)]
    BY <1>1, <2>1, FrameAt
  <2> QED BY <2>2
<1>3. Sound(y) /\ y \in Machine /\ Top(y) = n
  BY DEF Over, Sound, Typed
<1>4. y.frames[n] = Ev(y) /\ Ev(y) \in FrameState
  BY <1>2, <1>3, FrameAt
<1>5. \A i \in 1 .. n - 1 : y.frames[i] = v.frames[i]
  BY DEF Over
<1>6. Sound(z) /\ z \in Machine /\ Top(z) = n - 1
  BY <1>3 DEF Resumed, Sound, Typed
<1>7. z.frames[n - 1] = Ev(z) /\ \A i \in 1 .. n - 1 : z.frames[i] \in FrameState
  BY <1>2, <1>6, FrameAt
<1>8. \A i \in 1 .. n - 2 : z.frames[i] = v.frames[i]
  BY <1>2, <1>3, <1>5 DEF Resumed
<1>9. Carried(v.frames[n - 1], z.frames[n - 1])
  BY <1>2, <1>3, <1>5, <1>7 DEF Resumed
<1>10. \A i \in 1 .. n - 1 : Carried(v.frames[i], z.frames[i])
  <2> SUFFICES ASSUME NEW i \in 1 .. n - 1 PROVE Carried(v.frames[i], z.frames[i])
    OBVIOUS
  <2>1. CASE i = n - 1
    BY <2>1, <1>9
  <2>2. CASE i # n - 1
    <3>1. z.frames[i] = v.frames[i]
      BY <2>2, <1>2, <1>8
    <3> QED BY <3>1 DEF Carried
  <2> QED BY <2>1, <2>2
<1>11. Past(z) = Past(y) /\ Times(z) = Times(y) /\ History(z)
  <2>1. z.world = y.world /\ z.journal = y.journal
    BY DEF Resumed
  <2> QED BY <2>1, SamePast DEF Over
<1>12. z.up = c.memMark /\ z.down = c.mark
  BY <1>2 DEF Resumed, Over
<1>13. z.auth = v.auth /\ z.journal = y.journal /\ z.world = y.world
  BY DEF Resumed, Over
<1> QED BY <1>2, <1>3, <1>4, <1>6, <1>7, <1>8, <1>10, <1>11, <1>12, <1>13

\* The fixture with one frame less: each part follows from the same part before the child ended
\* and from how the parent was when it started the child.
LEMMA ResumedFixture ==
  ASSUME NEW v, Good(v), Top(v) > 1, NEW y, Over(v, y), NEW z, Resumed(y, z)
  PROVE  Fixture(z)
<1> DEFINE n == Top(v)
           c == v.frames[n]
<1>1. /\ n \in Nat /\ n > 1 /\ Top(z) = n - 1 /\ Top(y) = n /\ z.frames[n - 1] = Ev(z)
      /\ \A i \in 1 .. n : v.frames[i] \in FrameState
      /\ \A i \in 1 .. n - 1 : z.frames[i] \in FrameState /\ Carried(v.frames[i], z.frames[i])
      /\ \A i \in 1 .. n - 2 : z.frames[i] = v.frames[i]
      /\ z.up = c.memMark /\ z.down = c.mark
      /\ Past(z) = Past(y) /\ Times(z) = Times(y) /\ History(z)
      /\ z.auth = v.auth /\ z.journal = y.journal /\ z.world = y.world
      /\ y.frames[n] = Ev(y) /\ Ev(y) \in FrameState /\ c = Ev(v)
  BY ResumedFacts
<1>2. /\ c.csnap <= Len(y.journal) /\ \A k \in 1 .. c.csnap + 1 : Past(y)[k] = Past(v)[k]
      /\ c.static => Len(y.journal) <= Len(v.journal)
      /\ \A i \in 1 .. n - 1 : v.frames[i].kind = "create" =>
           \A k \in Times(y) : Code(v.frames[i].self) \notin Past(y)[k]
      /\ Ev(y).was = c.was
      /\ Ev(y).err = "none" => \A a \in Ev(y).doomed : Nonce(a) \in y.world
  BY <1>1 DEF Over
<1>3. Slices(v) /\ Views(v) /\ Snaps(v) /\ Births(v) /\ Static(v) /\ Warmth(v)
  BY DEF Good, Core, Base, Fixture
<1>4. Len(v.journal) \in Nat /\ Len(y.journal) \in Nat
  BY DEF Good, Core, Base, Sound, Typed, Over, Machine
<1>5. \A i \in 1 .. n - 1 :
        /\ v.frames[i].csnap \in Nat /\ v.frames[i].snap \in Nat /\ c.csnap \in Nat
        /\ v.frames[i].csnap <= v.frames[i].snap /\ v.frames[i].snap <= c.csnap
  <2> SUFFICES ASSUME NEW i \in 1 .. n - 1
               PROVE  /\ v.frames[i].csnap \in Nat /\ v.frames[i].snap \in Nat /\ c.csnap \in Nat
                      /\ v.frames[i].csnap <= v.frames[i].snap /\ v.frames[i].snap <= c.csnap
    OBVIOUS
  <2>1. i \in 1 .. n /\ n \in 1 .. n /\ n \in i + 1 .. n
    BY <1>1
  <2>2. v.frames[i] \in FrameState /\ c \in FrameState
    BY <1>1, <2>1
  <2>3. v.frames[i].csnap \in Nat /\ v.frames[i].snap \in Nat /\ c.csnap \in Nat
    BY <2>2, FrameFields
  <2> QED BY <1>3, <2>1, <2>3 DEF Snaps
<1>6. Slices(z)
  <2>1. z.frames[1].memMark = 0 /\ z.frames[1].mark = ArenaSize
    <3>1. 1 \in 1 .. n - 1
      BY <1>1
    <3>2. Carried(v.frames[1], z.frames[1])
      BY <1>1, <3>1
    <3> QED BY <1>3, <3>2 DEF Slices, Carried
  <2>2. ASSUME NEW i \in 1 .. n - 1
        PROVE  /\ z.frames[i].mem = z.frames[i].memMark /\ z.frames[i].mark <= ArenaSize
               /\ Lies(z.frames[i], UpOf(z, i), DownOf(z, i))
    <3>1. i \in 1 .. n /\ Carried(v.frames[i], z.frames[i])
      BY <1>1, <2>2
    <3>2. /\ v.frames[i].mem = v.frames[i].memMark /\ v.frames[i].mark <= ArenaSize
          /\ Lies(v.frames[i], UpOf(v, i), DownOf(v, i))
      BY <1>3, <3>1 DEF Slices
    <3>3. UpOf(v, i) = v.frames[i + 1].memMark /\ DownOf(v, i) = v.frames[i + 1].mark
      BY <1>1, <2>2 DEF UpOf, DownOf
    <3>4. UpOf(z, i) = v.frames[i + 1].memMark /\ DownOf(z, i) = v.frames[i + 1].mark
      <4>1. CASE i = n - 1
        BY <1>1, <4>1 DEF UpOf, DownOf
      <4>2. CASE i # n - 1
        <5>1. i + 1 \in 1 .. n - 1 /\ i # Top(z)
          BY <1>1, <2>2, <4>2
        <5>2. Carried(v.frames[i + 1], z.frames[i + 1])
          BY <1>1, <5>1
        <5> QED BY <5>1, <5>2 DEF Carried, UpOf, DownOf
      <4> QED BY <4>1, <4>2
    <3>5. z.frames[i].n <= z.frames[i].scap
      <4>1. CASE i = n - 1
        BY <1>1, <4>1 DEF Resumed
      <4>2. CASE i # n - 1
        <5>1. z.frames[i] = v.frames[i]
          BY <1>1, <2>2, <4>2
        <5> QED BY <3>2, <5>1 DEF Lies
      <4> QED BY <4>1, <4>2
    <3> QED BY <3>1, <3>2, <3>3, <3>4, <3>5 DEF Lies, Carried
  <2> QED BY <1>1, <2>1, <2>2 DEF Slices
<1>7. Views(z)
  <2> SUFFICES ASSUME NEW i \in 1 .. n - 1
               PROVE  LET f == z.frames[i] IN
                        /\ i > 1 => /\ f.data[2] > 0 => Within(f.data, z.frames[i - 1])
                                    /\ f.ret <= z.frames[i - 1].len
                        /\ f.out[2] > 0 => Within(f.out, f) \/ (i > 1 /\ Within(f.out, z.frames[i - 1]))
    BY <1>1 DEF Views
  <2>1. Carried(v.frames[i], z.frames[i]) /\ i \in 1 .. n
    BY <1>1
  <2>2. i > 1 => Carried(v.frames[i - 1], z.frames[i - 1])
    BY <1>1
  <2>3. LET f == v.frames[i] IN
          /\ i > 1 => /\ f.data[2] > 0 => Within(f.data, v.frames[i - 1])
                      /\ f.ret <= v.frames[i - 1].len
          /\ f.out[2] > 0 => Within(f.out, f) \/ (i > 1 /\ Within(f.out, v.frames[i - 1]))
    BY <1>3, <2>1 DEF Views
  <2> QED BY <2>1, <2>2, <2>3 DEF Within, Carried
<1>8. Snaps(z)
  <2> SUFFICES ASSUME NEW i \in 1 .. n - 1
               PROVE  LET f == z.frames[i] IN
                        /\ f.csnap <= f.snap /\ f.snap <= Len(z.journal)
                        /\ \A j \in i + 1 .. n - 1 : f.snap <= z.frames[j].csnap
                        /\ Past(z)[f.csnap + 1] = f.was.world
                        /\ (f.kind # "create" /\ i > 1) => f.snap = f.csnap
    BY <1>1 DEF Snaps
  <2>1. Carried(v.frames[i], z.frames[i]) /\ i \in 1 .. n
    BY <1>1
  <2>2. LET f == v.frames[i] IN
          /\ f.csnap <= f.snap /\ \A j \in i + 1 .. n : f.snap <= v.frames[j].csnap
          /\ Past(v)[f.csnap + 1] = f.was.world
          /\ (f.kind # "create" /\ i > 1) => f.snap = f.csnap
    BY <1>3, <2>1 DEF Snaps
  <2>3. ASSUME NEW j \in i + 1 .. n - 1 PROVE z.frames[i].snap <= z.frames[j].csnap
    <3>1. j \in i + 1 .. n /\ j \in 1 .. n - 1
      BY <1>1, <2>3
    <3>2. Carried(v.frames[j], z.frames[j])
      BY <1>1, <3>1
    <3> QED BY <2>1, <2>2, <3>1, <3>2 DEF Carried
  <2>4. v.frames[i].csnap + 1 \in 1 .. c.csnap + 1 /\ v.frames[i].snap <= Len(y.journal)
    <3>1. /\ v.frames[i].csnap \in Nat /\ v.frames[i].snap \in Nat /\ c.csnap \in Nat
          /\ v.frames[i].csnap <= v.frames[i].snap /\ v.frames[i].snap <= c.csnap
      BY <1>5
    <3>2. c.csnap <= Len(y.journal)
      BY <1>2
    <3> HIDE DEF c
    <3> QED BY <1>4, <3>1, <3>2, SMTT(30)
  <2>5. Past(z)[v.frames[i].csnap + 1] = v.frames[i].was.world
    BY <1>1, <1>2, <2>2, <2>4
  <2> QED BY <1>1, <2>1, <2>2, <2>3, <2>4, <2>5 DEF Carried
<1>9. Births(z)
  <2> SUFFICES ASSUME NEW i \in 1 .. n - 1
               PROVE  LET f == z.frames[i] IN
                        /\ (f.code /\ f.self \in New) => Nonce(f.self) \in Past(z)[f.snap + 1]
                        /\ f.kind = "create" =>
                             /\ f.self \in New /\ f.code /\ Nonce(f.self) \notin f.was.world
                             /\ \A k \in Times(z) : Code(f.self) \notin Past(z)[k]
                        /\ \A a \in f.doomed : Nonce(a) \in WorldOf(z, i)
    BY <1>1 DEF Births
  <2>1. Carried(v.frames[i], z.frames[i]) /\ i \in 1 .. n
    BY <1>1
  <2>2. LET f == v.frames[i] IN
          /\ (f.code /\ f.self \in New) => Nonce(f.self) \in Past(v)[f.snap + 1]
          /\ f.kind = "create" => f.self \in New /\ f.code /\ Nonce(f.self) \notin f.was.world
          /\ \A a \in f.doomed : Nonce(a) \in WorldOf(v, i)
    BY <1>3, <2>1 DEF Births
  <2>3. Past(z)[v.frames[i].snap + 1] = Past(v)[v.frames[i].snap + 1]
    <3>1. v.frames[i].snap + 1 \in 1 .. c.csnap + 1
      BY <1>5
    <3> QED BY <1>1, <1>2, <3>1
  <2>4. v.frames[i].kind = "create" => \A k \in Times(z) : Code(v.frames[i].self) \notin Past(z)[k]
    BY <1>1, <1>2
  <2>5. WorldOf(v, i) = v.frames[i + 1].was.world
    BY <1>1 DEF WorldOf
  <2>6. \A a \in z.frames[i].doomed : Nonce(a) \in WorldOf(z, i)
    <3>1. CASE i = n - 1
      <4>1. WorldOf(z, i) = y.world
        BY <1>1, <3>1 DEF WorldOf
      <4>2. ASSUME NEW a \in v.frames[i].doomed PROVE Nonce(a) \in y.world
        <5>1. v.frames[i] \in FrameState /\ n \in 1 .. n /\ c \in FrameState
          BY <1>1, <2>1
        <5>2. a \in New
          BY <4>2, <5>1, FrameFields
        <5>3. Nonce(a) \in Past(v)[c.csnap + 1]
          BY <1>3, <2>2, <2>5, <3>1, <5>1 DEF Snaps
        <5>4. c.csnap + 1 \in 1 .. c.csnap + 1 /\ c.csnap + 1 \in Times(y)
              /\ Len(y.journal) + 1 \in Times(y) /\ c.csnap + 1 <= Len(y.journal) + 1
          BY <1>2, <1>4, <1>5 DEF Times
        <5>5. Nonce(a) \in Past(y)[c.csnap + 1]
          BY <1>2, <5>3, <5>4
        <5>6. History(y) /\ Past(y)[Len(y.journal) + 1] = y.world
          <6>1. y.journal \in Seq(SUBSET Objects) /\ y.world \in SUBSET Objects
            BY DEF Over, Sound, Typed, Machine
          <6> QED BY <6>1 DEF Over, Past
        <5> QED BY <5>2, <5>4, <5>5, <5>6 DEF History
      <4>3. z.frames[i].doomed \subseteq
              v.frames[i].doomed \cup (IF Ev(y).err = "none" THEN Ev(y).doomed ELSE {})
        <5>1. y.frames[i] = v.frames[i]
          BY <1>1 DEF Over
        <5> QED BY <1>1, <3>1, <5>1 DEF Resumed
      <4> QED BY <1>2, <4>1, <4>2, <4>3
    <3>2. CASE i # n - 1
      <4>1. i \in 1 .. n - 2 /\ i + 1 \in 1 .. n - 1 /\ i # Top(z)
        BY <1>1, <3>2
      <4>2. z.frames[i] = v.frames[i] /\ Carried(v.frames[i + 1], z.frames[i + 1])
        BY <1>1, <4>1
      <4> QED BY <2>2, <2>5, <4>1, <4>2 DEF WorldOf, Carried
    <3> QED BY <3>1, <3>2
  <2> QED BY <1>1, <2>1, <2>2, <2>3, <2>4, <2>6, ZenonT(60) DEF Carried
<1>10. Static(z)
  <2> SUFFICES ASSUME NEW i \in 1 .. n - 1, z.frames[i].static
               PROVE  /\ z.frames[i].kind # "create" /\ z.frames[i].snap >= Len(z.journal)
                      /\ \A j \in i .. n - 1 : z.frames[j].static
    BY <1>1 DEF Static
  <2>1. Carried(v.frames[i], z.frames[i]) /\ i \in 1 .. n /\ v.frames[i].static
    <3>1. Carried(v.frames[i], z.frames[i]) /\ i \in 1 .. n
      BY <1>1
    <3>2. z.frames[i].static = v.frames[i].static
      BY <3>1 DEF Carried
    <3> QED BY <3>1, <3>2
  <2>2. /\ v.frames[i].kind # "create" /\ v.frames[i].snap >= Len(v.journal)
        /\ \A j \in i .. n : v.frames[j].static
    BY <1>3, <2>1 DEF Static
  <2>3. c.static /\ n \in i .. n
    BY <1>1, <2>2
  <2>4. ASSUME NEW j \in i .. n - 1 PROVE z.frames[j].static
    <3>1. j \in 1 .. n - 1 /\ j \in i .. n
      BY <1>1, <2>4
    <3>2. Carried(v.frames[j], z.frames[j])
      BY <1>1, <3>1
    <3> QED BY <2>2, <3>1, <3>2 DEF Carried
  <2>5. v.frames[i].snap >= Len(z.journal)
    BY <1>1, <1>2, <1>4, <1>5, <2>2, <2>3
  <2> QED BY <2>1, <2>2, <2>4, <2>5 DEF Carried
<1>11. Warmth(z)
  <2> SUFFICES ASSUME NEW i \in 1 .. n - 1
               PROVE  LET f == z.frames[i] IN
                        /\ f.addrs = Len(f.was.warm.addrs) /\ f.keys = Len(f.was.warm.keys)
                        /\ Prefix(f.was.warm.addrs, WarmOf(z, i).addrs)
                        /\ Prefix(f.was.warm.keys, WarmOf(z, i).keys)
    BY <1>1 DEF Warmth
  <2>1. Carried(v.frames[i], z.frames[i]) /\ i \in 1 .. n
    BY <1>1
  <2>2. LET f == v.frames[i] IN
          /\ f.addrs = Len(f.was.warm.addrs) /\ f.keys = Len(f.was.warm.keys)
          /\ Prefix(f.was.warm.addrs, WarmOf(v, i).addrs)
          /\ Prefix(f.was.warm.keys, WarmOf(v, i).keys)
    BY <1>3, <2>1 DEF Warmth
  <2>3. WarmOf(v, i) = v.frames[i + 1].was.warm
    BY <1>1 DEF WarmOf
  <2>4. /\ Prefix(v.frames[i].was.warm.addrs, WarmOf(z, i).addrs)
        /\ Prefix(v.frames[i].was.warm.keys, WarmOf(z, i).keys)
    <3>1. CASE i # n - 1
      <4>1. i + 1 \in 1 .. n - 1 /\ i # Top(z)
        BY <1>1, <3>1
      <4>2. Carried(v.frames[i + 1], z.frames[i + 1])
        BY <1>1, <4>1
      <4>3. WarmOf(z, i) = v.frames[i + 1].was.warm
        BY <4>1, <4>2 DEF WarmOf, Carried
      <4> QED BY <2>2, <2>3, <4>3
    <3>2. CASE i = n - 1
      <4>1. WarmOf(z, i) = (IF Ev(y).err = "none" THEN y.warm ELSE c.was.warm) /\ i + 1 = n
        BY <1>1, <1>2, <3>2 DEF WarmOf, Resumed
      <4>2. CASE Ev(y).err # "none"
        BY <2>2, <2>3, <4>1, <4>2
      <4>3. CASE Ev(y).err = "none"
        <5>1. n \in 1 .. n /\ WarmOf(v, n) = v.warm
          BY <1>1 DEF WarmOf
        <5>2. Prefix(c.was.warm.addrs, v.warm.addrs) /\ Prefix(c.was.warm.keys, v.warm.keys)
          BY <1>3, <5>1 DEF Warmth
        <5>3. Prefix(v.warm.addrs, y.warm.addrs) /\ Prefix(v.warm.keys, y.warm.keys)
          BY DEF Over
        <5>4. /\ v.frames[i].was.warm.addrs \in Seq(Addr) /\ v.frames[i].was.warm.keys \in Seq(Slot)
              /\ c.was.warm.addrs \in Seq(Addr) /\ c.was.warm.keys \in Seq(Slot)
          <6>1. v.frames[i] \in FrameState /\ c \in FrameState
            BY <1>1, <2>1, <5>1
          <6> QED BY <6>1, FrameFields
        <5>5. /\ v.warm.addrs \in Seq(Addr) /\ v.warm.keys \in Seq(Slot)
              /\ y.warm.addrs \in Seq(Addr) /\ y.warm.keys \in Seq(Slot)
          <6>1. v \in Machine /\ y \in Machine
            BY DEF Good, Core, Base, Over, Sound, Typed
          <6> QED BY <6>1, MachineFields
        <5>6. Prefix(c.was.warm.addrs, y.warm.addrs) /\ Prefix(c.was.warm.keys, y.warm.keys)
          BY <5>2, <5>3, <5>4, <5>5, PrefixTrans
        <5>7. /\ Prefix(v.frames[i].was.warm.addrs, c.was.warm.addrs)
              /\ Prefix(v.frames[i].was.warm.keys, c.was.warm.keys)
          BY <2>2, <2>3, <4>1
        <5>8. /\ Prefix(v.frames[i].was.warm.addrs, y.warm.addrs)
              /\ Prefix(v.frames[i].was.warm.keys, y.warm.keys)
          BY <5>4, <5>5, <5>6, <5>7, PrefixTrans
        <5> QED BY <4>1, <4>3, <5>8
      <4> QED BY <4>2, <4>3
    <3> QED BY <3>1, <3>2
  <2> QED BY <2>1, <2>2, <2>4 DEF Carried
<1> QED BY <1>1, <1>6, <1>7, <1>8, <1>9, <1>10, <1>11 DEF Fixture

\* The state gas of the child, used or given back, is paid for in the parent.
LEMMA ResumedPaid ==
  ASSUME NEW v, Good(v), Top(v) > 1, NEW y, Over(v, y), NEW z, Resumed(y, z)
  PROVE  FirstPaid(z) /\ LowerPaid(z) /\ TopPaid(z)
<1> DEFINE n == Top(v)
           c == v.frames[n]
           f == v.frames[n - 1]
           g == z.frames[n - 1]
           e == Ev(y)
<1>1. /\ n \in Nat /\ n > 1 /\ Top(z) = n - 1 /\ Top(y) = n /\ g = Ev(z)
      /\ \A i \in 1 .. n : v.frames[i] \in FrameState
      /\ \A i \in 1 .. n - 1 : z.frames[i] \in FrameState /\ Carried(v.frames[i], z.frames[i])
      /\ \A i \in 1 .. n - 2 : z.frames[i] = v.frames[i]
      /\ Past(z) = Past(y) /\ z.auth = v.auth /\ z.journal = y.journal /\ z.world = y.world
      /\ y.frames[n] = e /\ e \in FrameState /\ c = Ev(v)
  BY ResumedFacts
<1>2. /\ \A k \in 1 .. c.csnap + 1 : Past(y)[k] = Past(v)[k]
      /\ e.was = c.was /\ e.rsv = c.rsv /\ e.charged = c.charged
      /\ e.err # "none" => y.world = c.was.world
      /\ e.err = "none" => Paid(y, n) = CostOf(y.world)
  BY <1>1 DEF Over
<1>3. Snaps(v) /\ FirstPaid(v) /\ LowerPaid(v) /\ v \in Machine /\ z \in Machine /\ y \in Machine
  <2>1. Base(v) /\ LowerPaid(v)
    BY DEF Good, Core
  <2>2. Snaps(v) /\ FirstPaid(v) /\ v \in Machine
    BY <2>1 DEF Base, Fixture, Sound, Typed
  <2>3. z \in Machine /\ y \in Machine
    BY DEF Sound, Typed, Over, Resumed
  <2> QED BY <2>1, <2>2, <2>3
<1> HIDE DEF CostOf
<1>4. FirstPaid(z)
  <2>1. 1 \in 1 .. n - 1 /\ n \in 1 + 1 .. n /\ 1 \in 1 .. n /\ n \in 1 .. n
    BY <1>1
  <2>2. Carried(v.frames[1], z.frames[1])
    BY <1>1, <2>1
  <2>3. v.frames[1].snap <= c.csnap
    BY <1>3, <2>1 DEF Snaps
  <2>4. v.frames[1].snap \in Nat /\ c.csnap \in Nat
    BY <1>1, <2>1, FrameFields
  <2>5. Past(z)[v.frames[1].snap + 1] = Past(v)[v.frames[1].snap + 1]
    <3>1. v.frames[1].snap + 1 \in 1 .. c.csnap + 1
      BY <2>3, <2>4
    <3> QED BY <1>1, <1>2, <3>1
  <2> QED BY <1>1, <1>3, <2>2, <2>5 DEF FirstPaid, Carried
<1>5. LowerPaid(z)
  <2> SUFFICES ASSUME NEW i \in 1 .. n - 2
               PROVE  Paid(z, i) = CostOf(z.frames[i + 1].was.world) + z.frames[i + 1].rsv
                                   + Prepaid(z.frames[i + 1])
    BY <1>1 DEF LowerPaid
  <2>1. z.frames[i] = v.frames[i] /\ i + 1 \in 1 .. n - 1 /\ i \in 1 .. n - 1
    BY <1>1
  <2>2. Carried(v.frames[i + 1], z.frames[i + 1])
    BY <1>1, <2>1
  <2>3. Paid(z, i) = Paid(v, i)
    BY <1>1, <2>1 DEF Paid, Own
  <2>4. Paid(v, i) = CostOf(v.frames[i + 1].was.world) + v.frames[i + 1].rsv + Prepaid(v.frames[i + 1])
    BY <1>3, <2>1 DEF LowerPaid
  <2> QED BY <2>2, <2>3, <2>4 DEF Carried, Prepaid
<1>6. TopPaid(z)
  <2>1. n - 1 \in 1 .. n - 1 /\ n - 1 \in 1 .. n /\ n \in 1 .. n /\ n # 1 /\ (n - 1) + 1 = n
    BY <1>1
  <2>2. Carried(f, g)
    BY <1>1, <2>1
  <2>3. Paid(v, n - 1) = CostOf(c.was.world) + c.rsv + Prepaid(c)
    BY <1>3, <2>1 DEF LowerPaid
  <2>4. StateGasUsed(g) = StateGasUsed(f) - e.rsv
                          + (IF e.err = "none" THEN StateGasUsed(e) ELSE -Prepaid(e))
    <3>1. y.frames[n - 1] = f
      BY <2>1 DEF Over
    <3> QED BY <1>1, <3>1 DEF Resumed
  <2>5. Prepaid(e) = Prepaid(c) /\ Prepaid(g) = Prepaid(f) /\ g.was = f.was
    BY <1>2, <2>2 DEF Prepaid, Carried
  <2>6. Paid(z, n - 1) = Paid(v, n - 1) + (StateGasUsed(g) - StateGasUsed(f))
    <3>1. /\ StateGasUsed(f) \in Int /\ StateGasUsed(g) \in Int /\ Prepaid(f) \in Nat
          /\ CostOf(f.was.world) \in Nat
      <4>1. Top(v) >= 1 /\ Top(z) >= 1 /\ n - 1 \in 1 .. Top(z) /\ n - 1 \in 1 .. Top(v)
        BY <1>1, <2>1
      <4> QED BY <1>3, <4>1, PaidInt
    <3>2. v.auth.used \in Int
      BY <1>3, MachineFields
    <3> DEFINE a == IF n - 1 = 1 THEN v.auth.used ELSE 0
    <3>3. Own(z, n - 1) = StateGasUsed(g) + a /\ Own(v, n - 1) = StateGasUsed(f) + a /\ a \in Int
      BY <1>1, <3>2 DEF Own
    <3> HIDE DEF a, f, g
    <3>4. /\ Paid(z, n - 1) = StateGasUsed(g) + a + Prepaid(f) + CostOf(f.was.world)
          /\ Paid(v, n - 1) = StateGasUsed(f) + a + Prepaid(f) + CostOf(f.was.world)
      BY <2>5, <3>3 DEF Paid, f, g
    <3> QED BY <3>1, <3>3, <3>4
  <2>7. /\ StateGasUsed(e) \in Int /\ StateGasUsed(f) \in Int /\ StateGasUsed(g) \in Int
        /\ Prepaid(c) \in Nat /\ CostOf(c.was.world) \in Nat /\ c.rsv \in Nat /\ e.rsv = c.rsv
    <3>1. Top(v) >= 1 /\ Top(z) >= 1 /\ Top(y) >= 1 /\ n - 1 \in 1 .. Top(z) /\ n - 1 \in 1 .. Top(v)
          /\ n \in 1 .. Top(y) /\ n \in 1 .. Top(v)
      BY <1>1, <2>1
    <3> QED BY <1>1, <1>2, <1>3, <3>1, PaidInt, FrameFields
  <2>8. Paid(y, n) = StateGasUsed(e) + Prepaid(c) + CostOf(c.was.world)
    <3>1. Own(y, n) = StateGasUsed(e)
      BY <1>1, <2>1, <2>7 DEF Own
    <3> QED BY <1>1, <1>2, <2>5, <3>1 DEF Paid
  <2>9. Paid(z, n - 1) = CostOf(z.world)
    <3> HIDE DEF c, e, f, g, n
    <3>1. CASE e.err = "none"
      <4>1. CostOf(z.world) = StateGasUsed(e) + Prepaid(c) + CostOf(c.was.world)
        BY <1>1, <1>2, <2>8, <3>1
      <4> QED BY <2>3, <2>4, <2>6, <2>7, <3>1, <4>1
    <3>2. CASE e.err # "none"
      <4>1. CostOf(z.world) = CostOf(c.was.world)
        BY <1>1, <1>2, <3>2
      <4>2. StateGasUsed(g) = StateGasUsed(f) - c.rsv - Prepaid(c)
        BY <2>4, <2>5, <2>7, <3>2
      <4> QED BY <2>3, <2>6, <2>7, <4>1, <4>2
    <3> QED BY <3>1, <3>2
  <2> QED BY <1>1, <2>9 DEF TopPaid
<1> QED BY <1>4, <1>5, <1>6

\* The parent goes on in a good machine.
LEMMA ResumeGood ==
  ASSUME NEW v, Good(v), Top(v) > 1, NEW y, Over(v, y), NEW z, Resumed(y, z)
  PROVE  Good(z)
<1> DEFINE n == Top(v)
           c == v.frames[n]
<1>1. /\ n \in Nat /\ n > 1 /\ Top(z) = n - 1 /\ Top(y) = n /\ z.frames[n - 1] = Ev(z)
      /\ \A i \in 1 .. n : v.frames[i] \in FrameState
      /\ \A i \in 1 .. n - 1 : z.frames[i] \in FrameState /\ Carried(v.frames[i], z.frames[i])
      /\ \A i \in 1 .. n - 2 : z.frames[i] = v.frames[i]
      /\ z.auth = v.auth /\ y.frames[n] = Ev(y) /\ Ev(y) \in FrameState /\ c = Ev(v)
  BY ResumedFacts
<1>2. Flow(v) /\ Balanced(v) /\ v \in Machine
  BY DEF Good, Core, Base, Sound, Typed
<1>3. Flow(z)
  <2> SUFFICES ASSUME NEW i \in 1 .. n - 1
               PROVE  LET f == z.frames[i] IN
                        /\ f.running => f.err = "none"
                        /\ f.err # "none" => f.sleft = f.rsv /\ f.spilled = 0
                        /\ i < n - 1 => f.running /\ f.code /\ f.sleft = 0 /\ f.n < f.scap
    BY <1>1 DEF Flow
  <2>1. Carried(v.frames[i], z.frames[i]) /\ i \in 1 .. n /\ i < n
    BY <1>1
  <2>2. LET f == v.frames[i] IN
          /\ f.running => f.err = "none"
          /\ f.running /\ f.code /\ f.sleft = 0 /\ f.n < f.scap
    BY <1>2, <2>1 DEF Flow
  <2>3. CASE i < n - 1
    <3>1. z.frames[i] = v.frames[i]
      BY <1>1, <2>3
    <3> QED BY <2>2, <3>1
  <2>4. CASE ~(i < n - 1)
    BY <2>1, <2>2, <2>4 DEF Carried
  <2> QED BY <2>3, <2>4
<1>4. Balanced(z)
  <2> SUFFICES ASSUME NEW i \in 1 .. n - 1 PROVE z.frames[i].gas = Held(z.frames[i]) + Owed(z, i)
    BY <1>1 DEF Balanced
  <2>1. Carried(v.frames[i], z.frames[i]) /\ i \in 1 .. n /\ i < n
    BY <1>1
  <2>2. v.frames[i].gas = Held(v.frames[i]) + Owed(v, i)
    BY <1>2, <2>1 DEF Balanced
  <2>3. CASE i < n - 1
    <3>1. z.frames[i] = v.frames[i] /\ i + 1 \in 1 .. n - 1 /\ i < Top(z) /\ i < Top(v)
      BY <1>1, <2>3
    <3>2. Carried(v.frames[i + 1], z.frames[i + 1])
      BY <1>1, <3>1
    <3>3. Owed(z, i) = Owed(v, i)
      BY <1>1, <3>1, <3>2 DEF Owed, Carried
    <3> QED BY <2>2, <3>1, <3>3
  <2>4. CASE i = n - 1
    <3> DEFINE a == IF i = 1 THEN v.auth.spilled ELSE 0
    <3>1. i + 1 = n /\ n \in 1 .. n /\ ~(n < Top(v)) /\ n # 1 /\ ~(i < Top(z)) /\ i < Top(v)
      BY <1>1, <2>4
    <3>2. a \in Nat
      BY <1>2, MachineFields
    <3>3. Owed(v, i) = c.gas + a /\ Owed(z, i) = a /\ Owed(v, n) = 0
      <4>1. Owed(v, i) = c.gas + a /\ Owed(z, i) = 0 + a /\ Owed(v, n) = 0 + 0
        BY <1>1, <3>1 DEF Owed
      <4> QED BY <3>2, <4>1
    <3>4. Held(c) \in Int /\ Held(v.frames[i]) \in Int /\ Held(z.frames[i]) \in Int
      <4>1. c \in FrameState /\ v.frames[i] \in FrameState /\ z.frames[i] \in FrameState
        BY <1>1, <2>1, <3>1
      <4>2. /\ c.left \in Nat /\ c.used \in Nat /\ c.spilled \in Nat
            /\ v.frames[i].left \in Nat /\ v.frames[i].used \in Nat /\ v.frames[i].spilled \in Nat
            /\ z.frames[i].left \in Nat /\ z.frames[i].used \in Nat /\ z.frames[i].spilled \in Nat
        BY <4>1, FrameFields
      <4> QED BY <4>2 DEF Held
    <3>5. c.gas = Held(c)
      <4>1. c.gas = Held(c) + Owed(v, n)
        BY <1>2, <3>1 DEF Balanced
      <4> HIDE DEF c
      <4> QED BY <3>3, <3>4, <4>1
    <3>6. Held(z.frames[i]) = Held(v.frames[i]) + Held(c)
      <4>1. y.frames[i] = v.frames[i] /\ Held(Ev(y)) = Held(c)
        BY <1>1, <2>1 DEF Over
      <4> QED BY <1>1, <2>4, <4>1 DEF Resumed
    <3>7. z.frames[i].gas = v.frames[i].gas
      BY <2>1 DEF Carried
    <3> HIDE DEF c, a
    <3> QED BY <2>2, <3>2, <3>3, <3>4, <3>5, <3>6, <3>7
  <2> QED BY <1>1, <2>3, <2>4
<1>5. Sound(z) /\ Fine(z)
  BY DEF Resumed
<1> QED BY <1>3, <1>4, <1>5, ResumedFixture, ResumedPaid DEF Good, Core, Base, Fine

\* z goes on with frame g on top of u, whose operand stack takes the result, and
\* with the arena the child c was given
IsBackTo(u, g, c, z) ==
  LET h == [g EXCEPT !.n = g.n + 1] IN
    /\ Sound(z) /\ Fine(z) /\ Top(z) = Top(u) /\ Ev(z) = h /\ h \in FrameState
    /\ \A i \in 1 .. Top(u) - 1 : z.frames[i] = u.frames[i]
    /\ z.world = u.world /\ z.journal = u.journal /\ z.auth = u.auth /\ z.warm = u.warm
    /\ z.up = c.memMark /\ z.down = c.mark

\* finish_child pushes the result and releases the child's slices.
LEMMA BackTo ==
  ASSUME NEW u, Sound(u), Fine(u), NEW g \in FrameState, g.n < g.scap, NEW c \in FrameState,
         c.memMark <= c.mark, c.mark <= ArenaSize
  PROVE  IsBackTo(u, g, c, Release(Push(With(u, g)), c))
<1> DEFINE h == [g EXCEPT !.n = g.n + 1]
           w == With(u, g)
           x == With(u, h)
           z == [x EXCEPT !.down = c.mark, !.up = c.memMark]
<1>1. u \in Machine /\ Top(u) >= 1
  BY DEF Sound, Typed
<1>2. h \in FrameState
  <2>1. g.n + 1 \in Nat
    BY FrameFields
  <2> QED BY <2>1, FrameWith, ZenonT(40)
<1>3. IsWith(u, g, w) /\ IsWith(u, h, x)
  BY <1>1, <1>2, WithTop
<1>4. Push(w) = With(w, h)
  <2>1. Fine(w) /\ Ev(w) = g
    BY <1>3 DEF IsWith, Fine
  <2> HIDE DEF w
  <2>2. Push(w) = With(w, [Ev(w) EXCEPT !.n = @ + 1])
    BY <2>1, PushRoom
  <2> QED BY <2>1, <2>2
<1>5. With(w, h) = x
  BY <1>1, <1>2, WithWith
<1> HIDE DEF w, x, h
<1>6. Fine(x) /\ x \in Machine
  BY <1>3 DEF IsWith, Fine
<1>7. Release(Push(w), c) = z
  BY <1>4, <1>5, <1>6 DEF Release
<1>8. c.mark \in Nat /\ c.memMark \in Nat
  BY FrameFields
<1>9. /\ z \in Machine /\ z.frames = x.frames /\ z.world = x.world /\ z.journal = x.journal
      /\ z.created = x.created /\ z.warm = x.warm /\ z.auth = x.auth /\ z.err = x.err /\ z.trap = x.trap
      /\ z.up = c.memMark /\ z.down = c.mark
  BY <1>6, <1>8 DEF Machine
<1> HIDE DEF z
<1>10. Top(z) = Top(u) /\ Ev(z) = h
  BY <1>3, <1>9 DEF Top, Ev, Last, IsWith
<1>11. Sound(z) /\ Fine(z)
  BY <1>1, <1>3, <1>6, <1>9, <1>10 DEF Sound, Typed, Fine, IsWith
<1>12. /\ \A i \in 1 .. Top(u) - 1 : z.frames[i] = u.frames[i]
       /\ z.world = u.world /\ z.journal = u.journal /\ z.auth = u.auth /\ z.warm = u.warm
  BY <1>3, <1>9 DEF IsWith
<1> QED BY <1>2, <1>7, <1>9, <1>10, <1>11, <1>12 DEF IsBackTo, h, w

\* incorporate_child_on_error and incorporate_child_on_success, on the frame alone
Joined(f, c) == [f EXCEPT !.left = f.left + c.left, !.sleft = f.sleft + c.sleft, !.used = f.used + c.used]
MergedBy(f, c, all, rep) ==
  [f EXCEPT !.left = @ + rep, !.sleft = @ - rep, !.spilled = all - rep,
            !.logs = @ + c.logs, !.refund = @ + c.refund, !.doomed = @ \cup c.doomed]
Merged(f, c) == MergedBy(f, c, f.spilled + c.spilled, Least(f.sleft, f.spilled + c.spilled))

\* incorporate_on_success first does what incorporate_on_error does.
LEMMA SuccessIs ==
  ASSUME NEW u, NEW c
  PROVE  IncorporateOnSuccess(u, c) = With(u, Merged(Ev(IncorporateOnError(u, c)), c))
BY DEF IncorporateOnSuccess, Merged, MergedBy

\* The parent takes the child's gas and reservoir back.
LEMMA JoinedIs ==
  ASSUME NEW f \in FrameState, NEW c \in FrameState
  PROVE  LET g == Joined(f, c) IN
           /\ g \in FrameState /\ Carried(f, g) /\ g.n = f.n /\ g.doomed = f.doomed
           /\ g.spilled = f.spilled /\ g.left = f.left + c.left /\ g.sleft = f.sleft + c.sleft
           /\ g.used = f.used + c.used /\ g.logs = f.logs /\ g.refund = f.refund
<1> DEFINE x == f.left + c.left
           y == f.sleft + c.sleft
           z == f.used + c.used
<1>1. x \in Nat /\ y \in Nat /\ z \in Nat
  BY FrameFields
<1>2. Joined(f, c) \in FrameState
  <2>1. Joined(f, c) = [f EXCEPT !.left = x, !.sleft = y, !.used = z]
    BY DEF Joined
  <2> HIDE DEF x, y, z
  <2>2. [f EXCEPT !.left = x, !.sleft = y, !.used = z] \in FrameState
    BY <1>1, FrameWith, ZenonT(40)
  <2> QED BY <2>1, <2>2
<1> QED BY <1>2 DEF Joined, FrameState, Carried

\* Such a frame is a frame.
LEMMA GainsIs ==
  ASSUME NEW f \in FrameState, NEW a \in Nat, NEW b \in Nat, NEW d \in Nat, NEW e \in Nat, NEW h \in Nat,
         NEW D \in SUBSET New
  PROVE  [f EXCEPT !.left = a, !.sleft = b, !.spilled = d, !.logs = e, !.refund = h, !.doomed = D] \in FrameState
BY ZenonT(60) DEF FrameState

\* The state gas the child spilled is repaid from the common reservoir.
LEMMA MergedIs ==
  ASSUME NEW f \in FrameState, NEW c \in FrameState
  PROVE  LET g == Merged(Joined(f, c), c) IN
           /\ g \in FrameState /\ Carried(f, g) /\ g.n = f.n /\ g.doomed = f.doomed \cup c.doomed
           /\ Held(g) = Held(f) + Held(c)
           /\ StateGasUsed(g) = StateGasUsed(f) - c.rsv + StateGasUsed(c)
<1> DEFINE j == Joined(f, c)
           all == f.spilled + c.spilled
           r == Least(j.sleft, all)
           g == Merged(j, c)
<1>1. /\ j \in FrameState /\ Carried(f, j) /\ j.n = f.n /\ j.doomed = f.doomed
      /\ j.spilled = f.spilled /\ j.left = f.left + c.left /\ j.sleft = f.sleft + c.sleft
      /\ j.used = f.used + c.used /\ j.logs = f.logs /\ j.refund = f.refund
  BY JoinedIs
<1>2. /\ f.left \in Nat /\ f.sleft \in Nat /\ f.used \in Nat /\ f.spilled \in Nat /\ f.rsv \in Nat
      /\ c.left \in Nat /\ c.sleft \in Nat /\ c.used \in Nat /\ c.spilled \in Nat /\ c.rsv \in Nat
      /\ f.logs \in Nat /\ c.logs \in Nat /\ f.refund \in Nat /\ c.refund \in Nat
      /\ f.doomed \subseteq New /\ c.doomed \subseteq New
  BY FrameFields
<1>3. r \in Nat /\ r <= f.sleft + c.sleft /\ r <= f.spilled + c.spilled
  BY <1>1, <1>2 DEF Least
<1> HIDE DEF j, r, all
<1> DEFINE k == all - r
           e == j.logs + c.logs
           h == j.refund + c.refund
           D == j.doomed \cup c.doomed
           a == j.left + r
           b == j.sleft - r
<1>4. g = [j EXCEPT !.left = a, !.sleft = b, !.spilled = k, !.logs = e, !.refund = h, !.doomed = D]
  <2>1. g = MergedBy(j, c, all, r)
    BY <1>1 DEF r, all, Merged
  <2> HIDE DEF g
  <2>2. MergedBy(j, c, all, r)
        = [j EXCEPT !.left = a, !.sleft = b, !.spilled = k, !.logs = e, !.refund = h, !.doomed = D]
    BY <1>1 DEF MergedBy, FrameState
  <2> QED BY <2>1, <2>2
<1>5. /\ a \in Nat /\ b \in Nat /\ k \in Nat /\ e \in Nat /\ h \in Nat /\ D \in SUBSET New
      /\ a = f.left + c.left + r /\ b = f.sleft + c.sleft - r /\ k = f.spilled + c.spilled - r
      /\ D = f.doomed \cup c.doomed
  BY <1>1, <1>2, <1>3 DEF all
<1> HIDE DEF a, b, k, e, h, D, g
<1>6. /\ g \in FrameState /\ Carried(j, g) /\ g.n = j.n /\ g.doomed = D
      /\ g.left = a /\ g.sleft = b /\ g.spilled = k /\ g.used = j.used
  <2>1. g \in FrameState
    <3>1. [j EXCEPT !.left = a, !.sleft = b, !.spilled = k, !.logs = e, !.refund = h, !.doomed = D] \in FrameState
      <4>1. j \in FrameState /\ a \in Nat /\ b \in Nat /\ k \in Nat /\ e \in Nat /\ h \in Nat
            /\ D \in SUBSET New
        BY <1>1, <1>5
      <4> QED BY <4>1, GainsIs, Zenon
    <3> QED BY <1>4, <3>1
  <2>2. g.n = j.n /\ g.doomed = D /\ g.left = a /\ g.sleft = b /\ g.spilled = k /\ g.used = j.used
    BY <1>1, <1>4 DEF FrameState
  <2>3. Carried(j, g)
    BY <1>1, <1>4 DEF FrameState, Carried
  <2> QED BY <2>1, <2>2, <2>3
<1>7. Carried(f, g) /\ g.rsv = f.rsv
  BY <1>1, <1>6 DEF Carried
<1>8. Held(g) = Held(f) + Held(c)
  BY <1>1, <1>2, <1>3, <1>5, <1>6 DEF Held
<1>9. StateGasUsed(g) = StateGasUsed(f) - c.rsv + StateGasUsed(c)
  BY <1>1, <1>2, <1>3, <1>5, <1>6, <1>7 DEF StateGasUsed
<1> QED BY <1>1, <1>5, <1>6, <1>7, <1>8, <1>9 DEF g, j

\* The child leaves the stack of frames.
IsDropped(y, u) ==
  /\ Sound(u) /\ Fine(u) /\ Top(u) = Top(y) - 1 /\ Ev(u) = y.frames[Top(y) - 1]
  /\ \A i \in 1 .. Top(u) : u.frames[i] = y.frames[i]
  /\ u.world = y.world /\ u.journal = y.journal /\ u.auth = y.auth /\ u.warm = y.warm
  /\ u.up = y.up /\ u.down = y.down /\ u.created = y.created /\ u.err = y.err /\ u.trap = y.trap

LEMMA DroppedIs ==
  ASSUME NEW y, Sound(y), Fine(y), Top(y) > 1
  PROVE  IsDropped(y, [y EXCEPT !.frames = SubSeq(y.frames, 1, Len(y.frames) - 1)])
<1> DEFINE n == Len(y.frames)
           s == SubSeq(y.frames, 1, n - 1)
           u == [y EXCEPT !.frames = s]
<1>1. y \in Machine /\ y.frames \in Seq(FrameState) /\ n \in Nat /\ n > 1
  BY DEF Sound, Typed, Machine, Top
<1>2. s \in Seq(FrameState) /\ Len(s) = n - 1 /\ \A i \in 1 .. n - 1 : s[i] = y.frames[i]
  BY <1>1
<1> HIDE DEF s
<1>3. /\ u \in Machine /\ u.frames = s /\ u.world = y.world /\ u.journal = y.journal
      /\ u.auth = y.auth /\ u.warm = y.warm /\ u.up = y.up /\ u.down = y.down
      /\ u.created = y.created /\ u.err = y.err /\ u.trap = y.trap
  BY <1>1, <1>2 DEF Machine
<1> HIDE DEF u
<1>4. Top(u) = n - 1 /\ Top(y) = n
  BY <1>2, <1>3 DEF Top
<1>5. Ev(u) = y.frames[n - 1] /\ \A i \in 1 .. n - 1 : u.frames[i] = y.frames[i]
  BY <1>1, <1>2, <1>3 DEF Ev, Last
<1>6. Sound(u) /\ Fine(u)
  BY <1>1, <1>3, <1>4 DEF Sound, Typed, Fine
<1> QED BY <1>3, <1>4, <1>5, <1>6 DEF IsDropped, u, s

\* Cutting a list back to the length of its prefix gives the prefix.
LEMMA PrefixIs ==
  ASSUME NEW S, NEW s \in Seq(S), NEW t \in Seq(S), Prefix(s, t)
  PROVE  SubSeq(t, 1, Len(s)) = s
<1>1. Len(s) \in Nat /\ Len(t) \in Nat /\ Len(s) <= Len(t) /\ \A k \in 1 .. Len(s) : s[k] = t[k]
  BY DEF Prefix
<1> DEFINE u == SubSeq(t, 1, Len(s))
<1>2. u \in Seq(S) /\ Len(u) = Len(s) /\ \A k \in 1 .. Len(s) : u[k] = t[k]
  BY <1>1
<1> HIDE DEF u
<1>3. u = s
  BY <1>1, <1>2
<1> QED BY <1>3 DEF u

\* A prefix of a list without repetition has none.
LEMMA DistinctPart ==
  ASSUME NEW S, NEW s \in Seq(S), NEW t \in Seq(S), Prefix(s, t), Distinct(t)
  PROVE  Distinct(s)
<1>1. Len(s) \in Nat /\ Len(t) \in Nat /\ Len(s) <= Len(t) /\ \A k \in 1 .. Len(s) : s[k] = t[k]
  BY DEF Prefix
<1>2. DOMAIN s = 1 .. Len(s) /\ DOMAIN t = 1 .. Len(t)
  OBVIOUS
<1>3. ASSUME NEW i \in DOMAIN s, NEW j \in DOMAIN s, s[i] = s[j] PROVE i = j
  <2>1. i \in DOMAIN t /\ j \in DOMAIN t /\ t[i] = t[j]
    BY <1>1, <1>2, <1>3
  <2> QED BY <2>1 DEF Distinct
<1> QED BY <1>3 DEF Distinct

\* rollback_child_access brings back the sets as they were when the child started
LEMMA TruncateIs ==
  ASSUME NEW u, Sound(u), Fine(u), NEW c \in FrameState,
         c.addrs = Len(c.was.warm.addrs), c.keys = Len(c.was.warm.keys),
         Prefix(c.was.warm.addrs, u.warm.addrs), Prefix(c.was.warm.keys, u.warm.keys)
  PROVE  LET t == Truncate(u, c) IN
           /\ Sound(t) /\ Fine(t) /\ t.frames = u.frames /\ Ev(t) = Ev(u) /\ Top(t) = Top(u)
           /\ t.world = u.world /\ t.journal = u.journal /\ t.auth = u.auth /\ t.warm = c.was.warm
<1> DEFINE a == SubSeq(u.warm.addrs, 1, c.addrs)
           k == SubSeq(u.warm.keys, 1, c.keys)
           t == [u EXCEPT !.warm = [addrs |-> a, keys |-> k]]
<1>1. u \in Machine /\ u.warm.addrs \in Seq(Addr) /\ u.warm.keys \in Seq(Slot)
      /\ Distinct(u.warm.addrs) /\ Distinct(u.warm.keys)
  BY MachineFields DEF Sound, Typed
<1>2. c.was.warm \in [addrs : Seq(Addr), keys : Seq(Slot)]
  BY DEF FrameState, Before
<1>3. a = c.was.warm.addrs /\ k = c.was.warm.keys
  <2> DEFINE p == c.was.warm.addrs
             q == c.was.warm.keys
             pp == u.warm.addrs
             qq == u.warm.keys
  <2>1. p \in Seq(Addr) /\ q \in Seq(Slot) /\ pp \in Seq(Addr) /\ qq \in Seq(Slot)
    BY <1>1, <1>2
  <2>2. Prefix(p, pp) /\ Prefix(q, qq) /\ c.addrs = Len(p) /\ c.keys = Len(q)
    OBVIOUS
  <2> HIDE DEF p, q, pp, qq
  <2>3. SubSeq(pp, 1, Len(p)) = p
    BY <2>1, <2>2, PrefixIs
  <2>4. SubSeq(qq, 1, Len(q)) = q
    BY <2>1, <2>2, PrefixIs
  <2> QED BY <2>2, <2>3, <2>4 DEF p, q, pp, qq
<1>4. [addrs |-> a, keys |-> k] = c.was.warm
  BY <1>2, <1>3
<1>5. Truncate(u, c) = [u EXCEPT !.warm = c.was.warm]
  BY <1>4 DEF Truncate
<1>6. Distinct(c.was.warm.addrs) /\ Distinct(c.was.warm.keys)
  <2>1. c.was.warm.addrs \in Seq(Addr) /\ c.was.warm.keys \in Seq(Slot)
    BY <1>2
  <2> QED BY <1>1, <2>1, DistinctPart
<1> DEFINE z == [u EXCEPT !.warm = c.was.warm]
<1>7. /\ z \in Machine /\ z.frames = u.frames /\ z.world = u.world /\ z.journal = u.journal
      /\ z.auth = u.auth /\ z.warm = c.was.warm /\ z.up = u.up /\ z.down = u.down
      /\ z.err = u.err /\ z.trap = u.trap
  BY <1>1, <1>2 DEF Machine
<1> HIDE DEF z
<1>8. Ev(z) = Ev(u) /\ Top(z) = Top(u)
  BY <1>7 DEF Ev, Top, Last
<1>9. Sound(z) /\ Fine(z)
  BY <1>6, <1>7, <1>8 DEF Sound, Typed, Fine
<1> QED BY <1>5, <1>7, <1>8, <1>9 DEF z

\* finish_child
LEMMA FinishIs ==
  ASSUME NEW v, Good(v), Top(v) > 1, NEW y, Over(v, y)
  PROVE  Resumed(y, FinishChild(y))
<1> DEFINE n == Top(y)
           c == Ev(y)
           f == y.frames[n - 1]
           u == [y EXCEPT !.frames = SubSeq(y.frames, 1, Len(y.frames) - 1)]
           t == Truncate(u, c)
<1>1. Sound(y) /\ Fine(y) /\ n = Top(v) /\ n > 1 /\ y \in Machine /\ v \in Machine
      /\ Top(y) >= 1 /\ Top(v) >= 1
  BY DEF Over, Good, Core, Base, Sound, Typed
<1>2. n \in Nat /\ c \in FrameState /\ c = y.frames[n] /\ f \in FrameState
  <2>2. n \in Nat \ {0} /\ (\A i \in 1 .. n : y.frames[i] \in FrameState) /\ c = y.frames[n]
    BY <1>1, FrameAt
  <2> QED BY <1>1, <2>2
<1>3. IsDropped(y, u)
  BY <1>1, DroppedIs
<1>4. f = v.frames[n - 1] /\ f.n < f.scap
  <2>1. n - 1 \in 1 .. n - 1 /\ n - 1 \in 1 .. n /\ n - 1 < n
    BY <1>1, <1>2
  <2>2. f = v.frames[n - 1]
    BY <1>1, <2>1 DEF Over
  <2>3. Flow(v)
    BY DEF Good, Core
  <2> QED BY <1>1, <2>1, <2>2, <2>3 DEF Flow
<1>5. c.mark <= ArenaSize /\ c.memMark <= c.mark
  <2>1. c.mark = Ev(v).mark /\ c.memMark = Ev(v).memMark
    BY DEF Over
  <2>2. Ev(v) = v.frames[n] /\ n \in 1 .. n /\ Ev(v) \in FrameState
    BY <1>1, <1>2, FrameAt
  <2>3. /\ Ev(v).mem = Ev(v).memMark /\ Ev(v).mark <= ArenaSize
        /\ Lies(Ev(v), UpOf(v, n), DownOf(v, n))
    <3>1. Slices(v)
      BY DEF Good, Core, Base, Fixture
    <3> QED BY <1>1, <2>2, <3>1 DEF Slices
  <2>4. UpOf(v, n) = v.up /\ DownOf(v, n) = v.down
    BY <1>1 DEF UpOf, DownOf
  <2>5. v.up <= v.down /\ v.up \in Nat /\ v.down \in Nat
    BY <1>1, MachineFields DEF Good, Core, Base, Sound, Typed
  <2>6. /\ Ev(v).mem \in Nat /\ Ev(v).cap \in Nat /\ Ev(v).stk \in Nat /\ Ev(v).scap \in Nat
        /\ Ev(v).mark \in Nat
    BY <2>2, FrameFields
  <2> QED BY <2>1, <2>3, <2>4, <2>5, <2>6 DEF Lies
<1>6. /\ c.addrs = Len(c.was.warm.addrs) /\ c.keys = Len(c.was.warm.keys)
      /\ Prefix(c.was.warm.addrs, y.warm.addrs) /\ Prefix(c.was.warm.keys, y.warm.keys)
  <2>1. /\ c.addrs = Ev(v).addrs /\ c.keys = Ev(v).keys /\ c.was = Ev(v).was
        /\ Prefix(v.warm.addrs, y.warm.addrs) /\ Prefix(v.warm.keys, y.warm.keys)
    BY DEF Over
  <2>2. Ev(v) = v.frames[n] /\ n \in 1 .. n /\ Ev(v) \in FrameState
    BY <1>1, <1>2, FrameAt
  <2>3. /\ Ev(v).addrs = Len(Ev(v).was.warm.addrs) /\ Ev(v).keys = Len(Ev(v).was.warm.keys)
        /\ Prefix(Ev(v).was.warm.addrs, v.warm.addrs) /\ Prefix(Ev(v).was.warm.keys, v.warm.keys)
    <3>1. Warmth(v) /\ WarmOf(v, n) = v.warm
      BY <1>1 DEF Good, Core, Base, Fixture, WarmOf
    <3> QED BY <1>1, <2>2, <3>1 DEF Warmth
  <2>4. /\ c.was.warm.addrs \in Seq(Addr) /\ c.was.warm.keys \in Seq(Slot)
        /\ v.warm.addrs \in Seq(Addr) /\ v.warm.keys \in Seq(Slot)
        /\ y.warm.addrs \in Seq(Addr) /\ y.warm.keys \in Seq(Slot)
    BY <1>1, <1>2, MachineFields, FrameFields
  <2> HIDE DEF c
  <2>5. Prefix(c.was.warm.addrs, v.warm.addrs) /\ Prefix(c.was.warm.keys, v.warm.keys)
    BY <2>1, <2>3
  <2> QED BY <2>1, <2>3, <2>4, <2>5, PrefixTrans
<1> HIDE DEF u
<1>7. ASSUME NEW w, Sound(w), Fine(w), Top(w) = n - 1,
             \A i \in 1 .. n - 2 : w.frames[i] = y.frames[i],
             w.world = y.world, w.journal = y.journal, w.auth = y.auth,
             w.warm = IF c.err = "none" THEN y.warm ELSE c.was.warm,
             NEW g \in FrameState, Carried(f, g), g.n = f.n, Held(g) = Held(f) + Held(c),
             StateGasUsed(g) = StateGasUsed(f) - c.rsv
                               + (IF c.err = "none" THEN StateGasUsed(c) ELSE -Prepaid(c)),
             g.doomed \subseteq f.doomed \cup (IF c.err = "none" THEN c.doomed ELSE {}),
             FinishChild(y) = Release(Push(With(w, g)), c)
      PROVE  Resumed(y, FinishChild(y))
  <2> DEFINE z == Release(Push(With(w, g)), c)
             h == [g EXCEPT !.n = g.n + 1]
  <2>1. g.n < g.scap
    BY <1>4, <1>7 DEF Carried
  <2> HIDE DEF c
  <2>2. IsBackTo(w, g, c, z)
    BY <1>2, <1>5, <1>7, <2>1, BackTo
  <2> HIDE DEF z
  <2>3. /\ Carried(f, h) /\ h.n = g.n + 1 /\ Held(h) = Held(g) /\ StateGasUsed(h) = StateGasUsed(g)
        /\ h.doomed = g.doomed
    <3> HIDE DEF f
    <3>1. /\ Carried(g, h) /\ h.n = g.n + 1 /\ h.left = g.left /\ h.used = g.used
          /\ h.spilled = g.spilled /\ h.sleft = g.sleft /\ h.doomed = g.doomed /\ h.rsv = g.rsv
      BY DEF FrameState, Carried
    <3> HIDE DEF h
    <3>2. Carried(f, h)
      BY <1>7, <3>1 DEF Carried
    <3> QED BY <3>1, <3>2 DEF Held, StateGasUsed
  <2>4. h.n <= h.scap
    <3>1. g.n \in Nat /\ g.scap \in Nat /\ h.scap = f.scap /\ g.scap = f.scap
      BY <1>7, <2>3, FrameFields DEF Carried
    <3> HIDE DEF h, f
    <3> QED BY <2>1, <2>3, <3>1
  <2>5. /\ Sound(z) /\ Fine(z) /\ Top(z) = n - 1 /\ Ev(z) = h
        /\ \A i \in 1 .. n - 2 : z.frames[i] = y.frames[i]
        /\ z.world = y.world /\ z.journal = y.journal /\ z.auth = y.auth
        /\ z.warm = IF c.err = "none" THEN y.warm ELSE c.was.warm
        /\ z.up = c.memMark /\ z.down = c.mark
    <3>1. \A i \in 1 .. Top(w) - 1 : i \in 1 .. n - 2
      BY <1>2, <1>7
    <3>2. \A i \in 1 .. n - 2 : i \in 1 .. Top(w) - 1
      BY <1>2, <1>7
    <3> QED BY <1>7, <2>2, <3>1, <3>2 DEF IsBackTo
  <2> HIDE DEF h
  <2>6. Resumed(y, z)
    BY <1>7, <2>3, <2>4, <2>5 DEF Resumed, c
  <2> QED BY <1>7, <2>6 DEF z
<1>8. CASE c.err = "none"
  <2> DEFINE g == Merged(Joined(f, c), c)
  <2>1. FinishChild(y) = Release(Push(IncorporateOnSuccess(u, c)), c)
    BY <1>8 DEF FinishChild, u
  <2>2. IncorporateOnSuccess(u, c) = With(u, g)
    <3>1. u \in Machine /\ Top(u) >= 1 /\ Ev(u) = f
      BY <1>1, <1>2, <1>3 DEF IsDropped, Sound, Typed
    <3>2. IncorporateOnError(u, c) = With(u, Joined(f, c))
      BY <3>1 DEF IncorporateOnError, Joined
    <3>3. Ev(IncorporateOnError(u, c)) = Joined(f, c)
      BY <3>1, <3>2, EvWith
    <3> QED BY <3>3, SuccessIs
  <2>3. /\ g \in FrameState /\ Carried(f, g) /\ g.n = f.n /\ g.doomed = f.doomed \cup c.doomed
        /\ Held(g) = Held(f) + Held(c)
        /\ StateGasUsed(g) = StateGasUsed(f) - c.rsv + StateGasUsed(c)
    <3> HIDE DEF f, c
    <3> QED BY <1>2, MergedIs
  <2>4. /\ Sound(u) /\ Fine(u) /\ Top(u) = n - 1 /\ \A i \in 1 .. n - 2 : u.frames[i] = y.frames[i]
        /\ u.world = y.world /\ u.journal = y.journal /\ u.auth = y.auth /\ u.warm = y.warm
    BY <1>2, <1>3 DEF IsDropped
  <2> HIDE DEF g, c, f
  <2> QED BY <1>7, <1>8, <2>1, <2>2, <2>3, <2>4
<1>9. CASE c.err # "none"
  <2> DEFINE j == Joined(f, c)
             w == With(t, j)
  <2>1. FinishChild(y) = Release(Push(GiveBack(IncorporateOnError(t, c), 0, 0, c.charged)), c)
    BY <1>9 DEF FinishChild, u
  <2>2. /\ Sound(t) /\ Fine(t) /\ t.frames = u.frames /\ Ev(t) = Ev(u) /\ Top(t) = Top(u)
        /\ t.world = u.world /\ t.journal = u.journal /\ t.auth = u.auth /\ t.warm = c.was.warm
    <3> HIDE DEF c
    <3>1. Sound(u) /\ Fine(u) /\ u.warm = y.warm
      BY <1>3 DEF IsDropped
    <3>2. Prefix(c.was.warm.addrs, u.warm.addrs) /\ Prefix(c.was.warm.keys, u.warm.keys)
      BY <1>6, <3>1
    <3> QED BY <1>2, <1>6, <3>1, <3>2, TruncateIs
  <2> HIDE DEF t
  <2>3. /\ Sound(t) /\ Fine(t) /\ Top(t) = n - 1 /\ \A i \in 1 .. n - 2 : t.frames[i] = y.frames[i]
        /\ t.world = y.world /\ t.journal = y.journal /\ t.auth = y.auth /\ Ev(t) = f
        /\ t \in Machine /\ Top(t) >= 1
    BY <1>2, <1>3, <2>2 DEF IsDropped, Sound, Typed
  <2>4. IncorporateOnError(t, c) = w
    BY <2>3 DEF IncorporateOnError, Joined
  <2>5. /\ j \in FrameState /\ Carried(f, j) /\ j.n = f.n /\ j.doomed = f.doomed
        /\ j.spilled = f.spilled /\ j.left = f.left + c.left /\ j.sleft = f.sleft + c.sleft
        /\ j.used = f.used + c.used
    <3> HIDE DEF f, c
    <3> QED BY <1>2, JoinedIs
  <2>6. c.sleft = c.rsv /\ c.spilled = 0 /\ c.charged \in BOOLEAN
    <3>1. c.sleft = c.rsv /\ c.spilled = 0
      BY <1>9 DEF Over
    <3> QED BY <1>2, <3>1, FrameFields
  <2>7. /\ Held(j) = Held(f) + Held(c) /\ StateGasUsed(j) = StateGasUsed(f) - c.rsv
    <3>1. /\ f.left \in Nat /\ f.sleft \in Nat /\ f.used \in Nat /\ f.spilled \in Nat /\ f.rsv \in Nat
          /\ c.left \in Nat /\ c.sleft \in Nat /\ c.used \in Nat /\ c.rsv \in Nat /\ j.rsv = f.rsv
      BY <1>2, <2>5, FrameFields DEF Carried
    <3> HIDE DEF f, c, j
    <3> QED BY <2>5, <2>6, <3>1 DEF Held, StateGasUsed
  <2> HIDE DEF j
  <2>8. IsWith(t, j, w)
    BY <2>3, <2>5, WithTop
  <2>9. Sound(w) /\ Fine(w) /\ Ev(w) = j
    BY <2>3, <2>8 DEF IsWith, Sound, Typed, Fine
  <2>10. GiveBack(w, 0, 0, c.charged) = IF c.charged THEN Credit(w, StateGas.account) ELSE w
    <3> HIDE DEF w, c
    <3> QED BY <2>6, <2>9, NothingBack
  <2>11. CASE ~c.charged
    <3>1. FinishChild(y) = Release(Push(w), c)
      BY <2>1, <2>4, <2>10, <2>11
    <3>2. StateGasUsed(j) = StateGasUsed(f) - c.rsv + -Prepaid(c)
      <4>1. Prepaid(c) = 0 /\ StateGasUsed(f) - c.rsv \in Int
        BY <1>2, <2>11, FrameFields DEF Prepaid, StateGasUsed
      <4> HIDE DEF f, c
      <4> QED BY <2>7, <4>1
    <3> HIDE DEF c, f
    <3> QED BY <1>7, <1>9, <2>2, <2>3, <2>5, <2>7, <3>1, <3>2
  <2>12. CASE c.charged
    <3> DEFINE a == StateGas.account
               m == Least(a, j.spilled)
               g == [j EXCEPT !.left = j.left + m, !.spilled = j.spilled - m, !.sleft = j.sleft + (a - m)]
    <3>1. /\ a \in Nat /\ j.left \in Nat /\ j.spilled \in Nat /\ j.sleft \in Nat /\ j.used \in Nat
          /\ j.rsv \in Nat
      BY <2>5, PricesAreNat, FrameFields
    <3>2. m \in Nat /\ m <= a /\ m <= j.spilled
      BY <3>1 DEF Least
    <3>3. Credit(w, a) = With(w, g)
      BY <2>9 DEF Credit
    <3> HIDE DEF m, a
    <3>4. j.left + m \in Nat /\ j.spilled - m \in Nat /\ j.sleft + (a - m) \in Nat
      BY <3>1, <3>2
    <3>5. g \in FrameState
      BY <2>5, <3>4, FrameWith, ZenonT(40)
    <3>6. /\ Carried(j, g) /\ g.n = j.n /\ g.doomed = j.doomed /\ g.used = j.used /\ g.rsv = j.rsv
          /\ g.left = j.left + m /\ g.spilled = j.spilled - m /\ g.sleft = j.sleft + (a - m)
      BY <2>5 DEF FrameState, Carried
    <3> HIDE DEF g
    <3>7. With(w, g) = With(t, g)
      BY <2>3, <2>5, <3>5, WithWith
    <3>8. FinishChild(y) = Release(Push(With(t, g)), c)
      BY <2>1, <2>4, <2>10, <2>12, <3>3, <3>7 DEF a
    <3>9. Held(g) = Held(j)
      BY <3>1, <3>2, <3>6 DEF Held
    <3>10. StateGasUsed(g) = StateGasUsed(f) - c.rsv + -Prepaid(c)
      <4>1. Prepaid(c) = a
        BY <2>12 DEF Prepaid, a
      <4>2. StateGasUsed(g) = StateGasUsed(j) - a
        BY <3>1, <3>2, <3>6 DEF StateGasUsed
      <4>3. StateGasUsed(f) - c.rsv \in Int
        BY <1>2, FrameFields DEF StateGasUsed
      <4> HIDE DEF f, c
      <4> QED BY <2>7, <3>1, <4>1, <4>2, <4>3
    <3>11. Carried(f, g) /\ g.n = f.n /\ g.doomed = f.doomed
      BY <2>5, <3>6 DEF Carried
    <3> HIDE DEF c, f
    <3> QED BY <1>7, <1>9, <2>2, <2>3, <2>7, <3>5, <3>8, <3>9, <3>10, <3>11
  <2> QED BY <2>6, <2>11, <2>12
<1> QED BY <1>8, <1>9

\* a frame that has ended hands its gas, its logs and the arena to its parent
LEMMA FinishAfter ==
  ASSUME NEW v, Good(v), Top(v) > 1, NEW bad \in BOOLEAN
  PROVE  /\ After(Handle(FinishChild(Epilogue(v, bad))))
         /\ Handle(FinishChild(Epilogue(v, bad))) = FinishChild(Epilogue(v, bad))
         /\ Over(v, Epilogue(v, bad)) /\ Resumed(Epilogue(v, bad), FinishChild(Epilogue(v, bad)))
<1> DEFINE y == Epilogue(v, bad)
           z == FinishChild(y)
<1>1. Over(v, y)
  BY EpilogueOver
<1> HIDE DEF y
<1>2. Resumed(y, z)
  BY <1>1, FinishIs
<1> HIDE DEF z
<1>3. Good(z)
  BY <1>1, <1>2, ResumeGood
<1>4. Handle(z) = z
  BY <1>3, HandleDone DEF After
<1> QED BY <1>1, <1>2, <1>3, <1>4 DEF After, y, z

\* the first frame has ended: what the transaction leaves
LEMMA LastEnds ==
  ASSUME NEW v, Good(v), Top(v) = 1, NEW y, Over(v, y)
  PROVE  Ended(Release(y, Ev(y))) /\ Release(y, Ev(y)).up = Ev(v).memMark /\ Release(y, Ev(y)).down = Ev(v).mark
<1> DEFINE c == Ev(v)
           e == Ev(y)
           z == [y EXCEPT !.down = e.mark, !.up = e.memMark]
<1>1. v \in Machine /\ y \in Machine /\ Sound(y) /\ Fine(y) /\ Top(y) = 1
  BY DEF Good, Core, Base, Sound, Typed, Over
<1>2. c = v.frames[1] /\ e = y.frames[1] /\ c \in FrameState /\ e \in FrameState
  BY <1>1, FrameAt
<1>3. Release(y, e) = z
  BY <1>1 DEF Release
<1>4. c.memMark = 0 /\ c.mark = ArenaSize /\ e.memMark = 0 /\ e.mark = ArenaSize
  <2>1. Slices(v)
    BY DEF Good, Core, Base, Fixture
  <2> QED BY <1>2, <2>1 DEF Slices, Over
<1>5. ArenaSize \in Nat
  BY FramesAssumption
<1>6. /\ z \in Machine /\ z.frames = y.frames /\ z.world = y.world /\ z.journal = y.journal
      /\ z.warm = y.warm /\ z.auth = y.auth /\ z.err = y.err /\ z.trap = y.trap
      /\ z.up = 0 /\ z.down = ArenaSize
  <2> DEFINE a == e.mark
             b == e.memMark
  <2>1. a = ArenaSize /\ b = 0 /\ a \in Nat /\ b \in Nat
    BY <1>4, <1>5
  <2>2. z = [y EXCEPT !.down = a, !.up = b]
    OBVIOUS
  <2> HIDE DEF a, b, z, e
  <2> QED BY <1>1, <2>1, <2>2 DEF Machine
<1> HIDE DEF z
<1>7. Top(z) = 1 /\ Typed(z) /\ z.err = "none" /\ z.trap = 0
  BY <1>1, <1>5, <1>6 DEF Top, Typed, Sound, Fine
<1>8. Balanced(z)
  <2>1. c.gas = Held(c) + Owed(v, 1)
    BY <1>2 DEF Good, Core, Balanced
  <2>2. Owed(v, 1) = 0 + v.auth.spilled /\ Owed(z, 1) = 0 + z.auth.spilled /\ z.auth = v.auth
    BY <1>6, <1>7 DEF Owed, Over
  <2>3. e.gas = c.gas /\ Held(e) = Held(c)
    BY DEF Over
  <2>4. z.frames[1].gas = Held(z.frames[1]) + Owed(z, 1)
    BY <1>2, <1>6, <2>1, <2>2, <2>3
  <2> QED BY <1>7, <2>4 DEF Balanced
<1>9. Paid(z, 1) = CostOf(z.world)
  <2>1. Paid(z, 1) = Paid(y, 1)
    BY <1>6 DEF Paid, Own
  <2>2. CASE e.err = "none"
    <3>1. Paid(y, 1) = CostOf(y.world)
      BY <2>2 DEF Over
    <3> QED BY <1>6, <2>1, <3>1
  <2>3. CASE e.err # "none"
    <3>1. e.sleft = e.rsv /\ e.spilled = 0 /\ CostOf(y.world) = y.auth.used
      BY <2>3 DEF Over
    <3>2. e.was.world = {} /\ ~e.charged
      <4>1. c.was.world = {} /\ ~c.charged
        BY <1>2 DEF Good, Core, Base, FirstPaid
      <4> QED BY <4>1 DEF Over
    <3>3. e.rsv \in Nat /\ y.auth.used \in Int
      BY <1>1, <1>2, FrameFields, MachineFields
    <3>4. StateGasUsed(y.frames[1]) = 0
      BY <1>2, <3>1, <3>3 DEF StateGasUsed
    <3>5. Own(y, 1) = y.auth.used
      BY <3>3, <3>4 DEF Own
    <3>6. Paid(y, 1) = y.auth.used
      <4>1. Prepaid(y.frames[1]) = 0 /\ CostOf(y.frames[1].was.world) = 0
        BY <1>2, <3>2, NothingCosts DEF Prepaid
      <4> HIDE DEF CostOf
      <4> QED BY <3>3, <3>5, <4>1 DEF Paid
    <3> QED BY <1>6, <2>1, <3>1, <3>6
  <2> QED BY <2>2, <2>3
<1>10. z.frames[1].err = "none" => \A a \in z.frames[1].doomed : Nonce(a) \in z.world
  BY <1>2, <1>6 DEF Over
<1> HIDE DEF CostOf
<1> QED BY <1>3, <1>4, <1>6, <1>7, <1>8, <1>9, <1>10 DEF Ended
-----------------------------------------------------------------------------
(***************************************************************************)
(* The first frame, from its opening to its start.                         *)
(***************************************************************************)
\* what exists before the first frame starts, and what was paid for it: the account
\* a creation brings forth, or what an authorization brings forth
Begun(x, m) ==
  IF m.kind = "create"
  THEN /\ m.self \in New /\ x.world = {m.self, Nonce(m.self)} /\ x.journal = <<{}>> /\ x.auth.used = 0
  ELSE \/ x.world = {} /\ x.journal = <<>> /\ x.auth.used = 0
       \/ \E a \in New : /\ x.world = {a, Nonce(a), Auth(a)} /\ x.journal = <<{}>>
                         /\ x.auth.used = CostOf(x.world)

\* A machine whose first frame has not run yet.
Boot(x, m) ==
  LET f == Ev(x) IN
    /\ Sound(x) /\ x.trap = 0 /\ Top(x) = 1 /\ Begun(x, m)
    /\ f.kind = m.kind /\ f.self = m.self /\ f.static = FALSE /\ f.code = (m.kind = "create")
    /\ f.csnap = 0 /\ f.charged = FALSE /\ f.running /\ f.err = "none"
    /\ f.out = <<0, 0>> /\ f.data = <<0, 0>> /\ f.ret = 0 /\ f.doomed = {}
    /\ f.mem = 0 /\ f.memMark = 0 /\ f.mark = ArenaSize /\ Lies(f, x.up, x.down)
    /\ f.was.world = {} /\ f.addrs = Len(f.was.warm.addrs) /\ f.keys = Len(f.was.warm.keys)
    /\ Prefix(f.was.warm.addrs, x.warm.addrs) /\ Prefix(f.was.warm.keys, x.warm.keys)
    /\ f.gas = Held(f) + x.auth.spilled

\* Charging for the intrinsic parts keeps it so.
LEMMA BootWorks ==
  ASSUME NEW x, NEW m, Boot(x, m), NEW y, Works(x, y), y.trap = 0, Held(Ev(y)) = Held(Ev(x))
  PROVE  Boot(y, m)
<1> DEFINE f == Ev(x)
           g == Ev(y)
<1>1. Sound(x) /\ Sound(y) /\ x \in Machine /\ y \in Machine /\ f \in FrameState
  BY FrameAt DEF Boot, Works, Sound, Typed
<1>2. y.world = x.world /\ y.journal = x.journal /\ y.auth = x.auth /\ Top(y) = 1
  BY DEF Works, Boot
<1>3. Begun(y, m)
  <2> HIDE DEF CostOf
  <2>1. Begun(x, m)
    BY DEF Boot
  <2> QED BY <1>2, <2>1 DEF Begun
<1>4. Prefix(f.was.warm.addrs, y.warm.addrs) /\ Prefix(f.was.warm.keys, y.warm.keys)
  <2>1. /\ f.was.warm.addrs \in Seq(Addr) /\ f.was.warm.keys \in Seq(Slot)
        /\ x.warm.addrs \in Seq(Addr) /\ x.warm.keys \in Seq(Slot)
        /\ y.warm.addrs \in Seq(Addr) /\ y.warm.keys \in Seq(Slot)
    BY <1>1, MachineFields, FrameFields
  <2>2. /\ Prefix(f.was.warm.addrs, x.warm.addrs) /\ Prefix(f.was.warm.keys, x.warm.keys)
        /\ Prefix(x.warm.addrs, y.warm.addrs) /\ Prefix(x.warm.keys, y.warm.keys)
    BY DEF Boot, Works
  <2> HIDE DEF f
  <2> QED BY <2>1, <2>2, PrefixTrans
<1>5. Kept(f, g) /\ Lies(g, y.up, y.down)
  BY DEF Works, Boot
<1> HIDE DEF f, g
<1>6. /\ f.kind = m.kind /\ f.self = m.self /\ f.static = FALSE /\ f.code = (m.kind = "create")
      /\ f.csnap = 0 /\ f.charged = FALSE /\ f.running /\ f.err = "none"
      /\ f.out = <<0, 0>> /\ f.data = <<0, 0>> /\ f.ret = 0 /\ f.doomed = {}
      /\ f.mem = 0 /\ f.memMark = 0 /\ f.mark = ArenaSize
      /\ f.was.world = {} /\ f.addrs = Len(f.was.warm.addrs) /\ f.keys = Len(f.was.warm.keys)
      /\ f.gas = Held(f) + x.auth.spilled
  BY DEF Boot, f
<1>7. g.running /\ g.gas = Held(g) + y.auth.spilled
  <2>1. g.running = f.running /\ g.gas = f.gas /\ Held(g) = Held(f)
    BY <1>5 DEF Kept, f, g
  <2> QED BY <1>2, <1>6, <2>1
<1> QED BY <1>1, <1>2, <1>3, <1>4, <1>5, <1>6, <1>7 DEF Boot, Kept, g

\* the machine the first frame is opened in
IsFresh(b, m) ==
  /\ Typed(b) /\ Fine(b) /\ b.frames = <<>> /\ Begun(b, m) /\ b.auth = [used |-> 0, spilled |-> 0]
  /\ b.up = 0 /\ b.down = ArenaSize /\ m.was.warm = b.warm /\ m.was.world = {}
  /\ m.kind \in {"call", "create"} /\ m.static = FALSE /\ m.code = (m.kind = "create")
  /\ m.csnap = 0 /\ m.charged = FALSE /\ m.data = <<0, 0>> /\ m.ret = 0
  /\ m.mark = ArenaSize /\ m.memMark = 0

\* The first frame is opened with the gas of the transaction.
LEMMA BootOpen ==
  ASSUME NEW b, NEW m \in Msg, IsFresh(b, m), NEW o, IsOpened(b, m, o)
  PROVE  /\ Boot(o, m) /\ StateGasUsed(Ev(o)) = 0 /\ o.auth = [used |-> 0, spilled |-> 0]
         /\ o.world = b.world /\ o.journal = b.journal /\ o.err = "none"
         /\ Ev(o).snap = Len(b.journal)
<1> DEFINE c == Opened(b, m)
<1>1. Sound(o) /\ Fine(o) /\ o.frames = Append(<<>>, c) /\ c \in FrameState
  BY DEF IsOpened, IsFresh
<1>2. Top(o) = 1 /\ Ev(o) = c
  <2> HIDE DEF c
  <2> QED BY <1>1 DEF Top, Ev, Last
<1>3. /\ o.world = b.world /\ o.journal = b.journal /\ o.auth = b.auth /\ o.warm = b.warm
      /\ o.up = b.up + MemInit /\ o.down <= b.down - StackInit
  BY DEF IsOpened
<1>4. /\ c.kind = m.kind /\ c.self = m.self /\ c.static = m.static /\ c.code = m.code
      /\ c.gas = m.gas /\ c.rsv = m.rsv /\ c.left = m.gas /\ c.sleft = m.rsv /\ c.spilled = 0 /\ c.used = 0
      /\ c.running = TRUE /\ c.err = "none" /\ c.charged = m.charged
      /\ c.out = <<0, 0>> /\ c.snap = Len(b.journal) /\ c.csnap = m.csnap
      /\ c.addrs = Len(b.warm.addrs) /\ c.keys = Len(b.warm.keys)
      /\ c.stk = b.down - StackInit /\ c.scap = StackInit /\ c.n = 0
      /\ c.mem = b.up /\ c.cap = MemInit /\ c.len = 0
      /\ c.mark = m.mark /\ c.memMark = m.memMark /\ c.data = m.data /\ c.ret = m.ret
      /\ c.doomed = {} /\ c.was = m.was
  BY DEF Opened
<1> HIDE DEF c
<1>5. c.gas \in Nat /\ c.rsv \in Nat
  BY <1>1, FrameFields
<1>6. StateGasUsed(c) = 0 /\ Held(c) = c.gas
  BY <1>4, <1>5 DEF StateGasUsed, Held
<1>7. Lies(c, o.up, o.down)
  <2>1. MemInit \in Nat /\ StackInit \in Nat \ {0} /\ ArenaSize \in Nat
    BY FramesAssumption
  <2>2. o.down \in Nat /\ o.down <= ArenaSize - StackInit
    BY <1>1, <1>3 DEF IsFresh, Sound, Typed, Machine
  <2> QED BY <1>3, <1>4, <2>1, <2>2 DEF Lies, IsFresh
<1>8. Begun(o, m)
  <2> HIDE DEF CostOf
  <2> QED BY <1>3 DEF Begun, IsFresh
<1>9. b.warm.addrs \in Seq(Addr) /\ b.warm.keys \in Seq(Slot)
  BY MachineFields DEF IsFresh, Typed
<1>10. /\ c.was.world = {} /\ c.addrs = Len(c.was.warm.addrs) /\ c.keys = Len(c.was.warm.keys)
       /\ Prefix(c.was.warm.addrs, o.warm.addrs) /\ Prefix(c.was.warm.keys, o.warm.keys)
  <2>1. c.was.warm = b.warm
    BY <1>4 DEF IsFresh
  <2> QED BY <1>3, <1>4, <1>9, <2>1, PrefixSame DEF IsFresh
<1>11. o.auth.spilled = 0 /\ c.gas = Held(c) + o.auth.spilled
  BY <1>3, <1>5, <1>6 DEF IsFresh
<1>12. /\ c.kind = m.kind /\ c.self = m.self /\ c.static = FALSE /\ c.code = (m.kind = "create")
       /\ c.csnap = 0 /\ c.charged = FALSE /\ c.mem = 0 /\ c.memMark = 0 /\ c.mark = ArenaSize
       /\ c.data = <<0, 0>> /\ c.ret = 0
  BY <1>4 DEF IsFresh
<1> QED BY <1>1, <1>2, <1>3, <1>4, <1>6, <1>7, <1>8, <1>10, <1>11, <1>12 DEF Boot, Fine, IsFresh

\* What the past of such a machine looks like.
LEMMA BegunPast ==
  ASSUME NEW x, x \in Machine, NEW m, Begun(x, m)
  PROVE  /\ Len(x.journal) \in {0, 1} /\ Times(x) = 1 .. Len(x.journal) + 1
         /\ Past(x)[1] = {} /\ Past(x)[Len(x.journal) + 1] = x.world /\ History(x)
         /\ m.kind = "create" => /\ m.self \in New /\ Nonce(m.self) \in x.world
                                 /\ \A k \in Times(x) : Code(m.self) \notin Past(x)[k]
                                 /\ x.auth.used = 0 /\ CostOf(x.world) = StateGas.account
         /\ m.kind # "create" => CostOf(x.world) = x.auth.used
         /\ \A b \in New : <<b, "code">> \notin x.world /\ (<<b, "auth">> \in x.world => Nonce(b) \in x.world)
         /\ x.journal = <<>> \/ x.journal = <<{}>>
<1> HIDE DEF CostOf
<1>1. x.world \in SUBSET Objects
  BY MachineFields
<1>2. \/ x.journal = <<>> /\ x.world = {}
      \/ x.journal = <<{}>> /\ \E a \in New : \/ x.world = {a, Nonce(a)}
                                              \/ x.world = {a, Nonce(a), Auth(a)}
  BY DEF Begun
<1>3. Closed(x.world) /\ Closed({}) /\ \A b \in New : Code(b) \notin x.world
  <2>1. CASE x.world = {}
    BY <2>1 DEF Closed
  <2>2. ASSUME NEW a \in New, x.world = {a, Nonce(a)} \/ x.world = {a, Nonce(a), Auth(a)}
        PROVE  Closed(x.world) /\ \A b \in New : Code(b) \notin x.world
    <3>1. ASSUME NEW b \in New
          PROVE  /\ Nonce(b) \in x.world => b \in x.world
                 /\ Auth(b) \in x.world => Nonce(b) \in x.world
                 /\ Code(b) \notin x.world
      <4>1. /\ Nonce(b) # a /\ Code(b) # a /\ Auth(b) # a
            /\ Nonce(b) # Auth(a) /\ Code(b) # Auth(a) /\ Nonce(a) # Auth(b) /\ Code(b) # Nonce(a)
            /\ (Nonce(a) = Nonce(b) => a = b) /\ (Auth(a) = Auth(b) => a = b)
        BY ThingsApart
      <4> QED BY <2>2, <4>1
    <3> QED BY <3>1 DEF Closed
  <2>3. Closed({})
    BY DEF Closed
  <2> QED BY <1>2, <2>1, <2>2, <2>3
<1>4. /\ Len(x.journal) \in {0, 1} /\ Past(x)[1] = {} /\ Past(x)[Len(x.journal) + 1] = x.world
      /\ \A k \in Times(x) : k \in {1, Len(x.journal) + 1}
      /\ Times(x) = 1 .. Len(x.journal) + 1
  <2>1. CASE x.journal = <<>> /\ x.world = {}
    BY <2>1 DEF Past, Times
  <2>2. CASE x.journal = <<{}>>
    <3>1. Len(x.journal) = 1 /\ Past(x) = Append(<<{}>>, x.world)
      BY <2>2 DEF Past
    <3>2. Past(x)[1] = {} /\ Past(x)[2] = x.world
      BY <3>1
    <3> QED BY <3>1, <3>2 DEF Times
  <2> QED BY <1>2, <2>1, <2>2
<1>5. History(x)
  <2>1. \A k \in Times(x) : Closed(Past(x)[k])
    BY <1>3, <1>4
  <2>2. ASSUME NEW a \in New, NEW k \in Times(x), NEW l \in Times(x), k <= l, Nonce(a) \in Past(x)[k]
        PROVE  Nonce(a) \in Past(x)[l]
    <3>1. k # 1 /\ k = Len(x.journal) + 1
      BY <1>4, <2>2
    <3>2. l = k
      BY <1>4, <2>2, <3>1
    <3> QED BY <2>2, <3>2
  <2> QED BY <2>1, <2>2 DEF History
<1>6. \A k \in Times(x) : \A b \in New : Code(b) \notin Past(x)[k]
  BY <1>3, <1>4
<1>7. m.kind = "create" => /\ m.self \in New /\ Nonce(m.self) \in x.world
                           /\ x.auth.used = 0 /\ CostOf(x.world) = StateGas.account
  <2> SUFFICES ASSUME m.kind = "create"
               PROVE  /\ m.self \in New /\ Nonce(m.self) \in x.world
                      /\ x.auth.used = 0 /\ CostOf(x.world) = StateGas.account
    OBVIOUS
  <2>1. m.self \in New /\ x.world = {m.self, Nonce(m.self)} /\ x.auth.used = 0
    BY DEF Begun
  <2> DEFINE a == m.self
  <2> HIDE DEF a
  <2>2. a \in New /\ Nonce(a) \in Objects /\ a \in Objects /\ Nonce(a) # a
    BY <2>1, ThingsApart DEF a
  <2>3. CostOf({} \cup {a}) = CostOf({}) + PriceOf(a)
    <3>1. {} \subseteq Objects /\ a \notin {}
      OBVIOUS
    <3> QED BY <2>2, <3>1, CostOfMore
  <2>4. {} \cup {a} = {a}
    OBVIOUS
  <2>5. CostOf({a} \cup {Nonce(a)}) = CostOf({a}) + PriceOf(Nonce(a))
    <3>1. {a} \subseteq Objects /\ Nonce(a) \notin {a}
      BY <2>2
    <3> QED BY <2>2, <3>1, CostOfMore
  <2>6. {a} \cup {Nonce(a)} = x.world
    BY <2>1 DEF a
  <2>7. PriceOf(a) = StateGas.account /\ PriceOf(Nonce(a)) = 0 /\ StateGas.account \in Nat
    BY <2>2, PricesOf, PricesAreNat
  <2>8. CostOf({a} \cup {Nonce(a)}) = StateGas.account
    <3>1. CostOf({a}) = StateGas.account
      <4>1. CostOf({a}) = CostOf({}) + PriceOf(a)
        BY <2>3, <2>4
      <4> HIDE DEF PriceOf
      <4> QED BY <2>7, <4>1, NothingCosts
    <3> HIDE DEF PriceOf
    <3> QED BY <2>5, <2>7, <3>1
  <2> QED BY <2>1, <2>6, <2>8
<1>8. m.kind # "create" => CostOf(x.world) = x.auth.used
  BY NothingCosts DEF Begun
<1>9. \A b \in New : <<b, "code">> \notin x.world /\ (<<b, "auth">> \in x.world => Nonce(b) \in x.world)
  BY <1>3, ZenonT(40) DEF Closed, Code, Auth
<1>10. m.kind = "create" => \A k \in Times(x) : Code(m.self) \notin Past(x)[k]
  BY <1>6, <1>7
<1>11. x.journal = <<>> \/ x.journal = <<{}>>
  BY <1>2
<1> QED BY <1>4, <1>5, <1>7, <1>8, <1>9, <1>10, <1>11

\* The frame of a transaction as it starts: its code is known, and a failure
\* takes it back to here.
Dispatching(y, cc) == With(y, [Ev(y) EXCEPT !.code = cc, !.snap = Len(y.journal)])

\* How the first frame starts: what it has paid for is the world so far.
IsDispatched(y, x) ==
  /\ Sane(x, StateGasUsed(Ev(y)) + y.auth.used - CostOf(y.world))
  /\ Fine(x) /\ x.world = y.world /\ Top(x) = 1 /\ Ev(x).static = FALSE

\* the first frame as it starts: its rollback point is after the authorization
LEMMA BootSane ==
  ASSUME NEW y, NEW m, Boot(y, m), Fine(y), NEW cc \in BOOLEAN,
         m.kind = "create" => cc = TRUE, cc = TRUE /\ m.self \in New => Nonce(m.self) \in y.world
  PROVE  IsDispatched(y, Dispatching(y, cc))
<1> DEFINE f == Ev(y)
           g == [f EXCEPT !.code = cc, !.snap = Len(y.journal)]
           x == With(y, g)
           s == Len(y.journal)
<1>1. Sound(y) /\ y \in Machine /\ Top(y) = 1 /\ f \in FrameState /\ Begun(y, m)
  <2>1. Sound(y) /\ y \in Machine /\ Top(y) >= 1 /\ Top(y) = 1 /\ Begun(y, m)
    BY DEF Boot, Sound, Typed
  <2> QED BY <2>1, FrameAt
<1>2. s \in {0, 1} /\ s \in Nat
  BY <1>1, BegunPast
<1>3. g \in FrameState
  <2> HIDE DEF f, s
  <2>1. [f EXCEPT !.code = cc, !.snap = s] \in FrameState
    BY <1>1, <1>2 DEF FrameState
  <2> QED BY <2>1 DEF s
<1>4. /\ g.kind = f.kind /\ g.self = f.self /\ g.static = f.static /\ g.code = cc /\ g.snap = s
      /\ g.gas = f.gas /\ g.rsv = f.rsv /\ g.running = f.running /\ g.err = f.err /\ g.out = f.out
      /\ g.csnap = f.csnap /\ g.charged = f.charged /\ g.addrs = f.addrs /\ g.keys = f.keys
      /\ g.mem = f.mem /\ g.mark = f.mark /\ g.memMark = f.memMark /\ g.data = f.data /\ g.ret = f.ret
      /\ g.was = f.was /\ g.doomed = f.doomed /\ g.left = f.left /\ g.sleft = f.sleft
      /\ g.spilled = f.spilled /\ g.used = f.used /\ g.cap = f.cap /\ g.len = f.len
      /\ g.stk = f.stk /\ g.scap = f.scap /\ g.n = f.n
  <2> HIDE DEF f
  <2> QED BY <1>1 DEF FrameState
<1>5. /\ f.kind = m.kind /\ f.self = m.self /\ f.static = FALSE
      /\ f.csnap = 0 /\ f.charged = FALSE /\ f.running /\ f.err = "none"
      /\ f.out = <<0, 0>> /\ f.data = <<0, 0>> /\ f.ret = 0 /\ f.doomed = {}
      /\ f.mem = 0 /\ f.memMark = 0 /\ f.mark = ArenaSize /\ Lies(f, y.up, y.down)
      /\ f.was.world = {} /\ f.addrs = Len(f.was.warm.addrs) /\ f.keys = Len(f.was.warm.keys)
      /\ Prefix(f.was.warm.addrs, y.warm.addrs) /\ Prefix(f.was.warm.keys, y.warm.keys)
      /\ f.gas = Held(f) + y.auth.spilled
  BY DEF Boot
<1> HIDE DEF g, f
<1>6. IsWith(y, g, x)
  BY <1>1, <1>3, WithTop
<1> HIDE DEF x
<1>7. /\ x \in Machine /\ Ev(x) = g /\ x.frames[1] = g /\ Top(x) = 1 /\ Sound(x) /\ Fine(x)
      /\ x.world = y.world /\ x.journal = y.journal /\ x.warm = y.warm /\ x.auth = y.auth
      /\ x.up = y.up /\ x.down = y.down
  BY <1>1, <1>6 DEF IsWith, Sound, Typed, Fine
<1>8. /\ Past(x) = Past(y) /\ Times(x) = Times(y) /\ History(x) /\ Times(x) = 1 .. s + 1
      /\ Past(x)[1] = {} /\ Past(x)[s + 1] = x.world
      /\ m.kind = "create" => /\ m.self \in New /\ Nonce(m.self) \in x.world
                              /\ \A k \in Times(x) : Code(m.self) \notin Past(x)[k]
                              /\ x.auth.used = 0
      /\ m.kind # "create" => CostOf(x.world) = x.auth.used
  <2> HIDE DEF CostOf
  <2>1. Past(x) = Past(y) /\ Times(x) = Times(y) /\ (History(y) => History(x))
    BY <1>7, SamePast
  <2> QED BY <1>1, <1>7, <2>1, BegunPast
<1>9. Slices(x)
  <2>1. Lies(g, x.up, x.down)
    BY <1>4, <1>5, <1>7 DEF Lies
  <2>2. UpOf(x, 1) = x.up /\ DownOf(x, 1) = x.down
    BY <1>7 DEF UpOf, DownOf
  <2>3. ArenaSize \in Nat
    BY FramesAssumption
  <2> QED BY <1>4, <1>5, <1>7, <2>1, <2>2, <2>3 DEF Slices
<1>10. Views(x)
  BY <1>4, <1>5, <1>7 DEF Views
<1>11. Snaps(x)
  <2>1. g.csnap = 0 /\ g.snap = s /\ g.was.world = {} /\ s = Len(x.journal)
    BY <1>4, <1>5, <1>7
  <2>2. Past(x)[g.csnap + 1] = g.was.world
    BY <1>8, <2>1
  <2> SUFFICES ASSUME NEW i \in 1 .. 1
               PROVE  LET h == x.frames[i] IN
                        /\ h.csnap <= h.snap /\ h.snap <= Len(x.journal)
                        /\ \A j \in i + 1 .. 1 : h.snap <= x.frames[j].csnap
                        /\ Past(x)[h.csnap + 1] = h.was.world
                        /\ (h.kind # "create" /\ i > 1) => h.snap = h.csnap
    BY <1>7 DEF Snaps
  <2>3. x.frames[i] = g /\ ~(i > 1) /\ i + 1 .. 1 = {}
    BY <1>7
  <2>4. g.csnap <= g.snap /\ g.snap <= Len(x.journal)
    BY <1>2, <2>1
  <2> QED BY <2>2, <2>3, <2>4
<1>12. Births(x)
  <2>1. g.code /\ g.self \in New => Nonce(g.self) \in Past(x)[g.snap + 1]
    BY <1>4, <1>5, <1>7, <1>8
  <2>2. g.kind = "create" =>
             /\ g.self \in New /\ g.code /\ Nonce(g.self) \notin g.was.world
             /\ \A k \in Times(x) : Code(g.self) \notin Past(x)[k]
    BY <1>4, <1>5, <1>8
  <2>3. \A a \in g.doomed : Nonce(a) \in WorldOf(x, 1)
    BY <1>4, <1>5
  <2> QED BY <1>7, <2>1, <2>2, <2>3 DEF Births
<1>13. Static(x)
  BY <1>4, <1>5, <1>7 DEF Static
<1>14. Warmth(x)
  BY <1>4, <1>5, <1>7 DEF Warmth, WarmOf
<1>15. FirstPaid(x)
  <2> HIDE DEF CostOf
  <2> QED BY <1>4, <1>5, <1>7, <1>8 DEF FirstPaid
<1>16. Flow(x)
  BY <1>4, <1>5, <1>7 DEF Flow
<1>17. Balanced(x)
  <2>1. Owed(x, 1) = 0 + x.auth.spilled /\ x.auth.spilled \in Nat
    BY <1>7, MachineFields DEF Owed
  <2>2. Held(g) = Held(f)
    BY <1>4 DEF Held
  <2>3. g.gas = Held(g) + Owed(x, 1)
    BY <1>4, <1>5, <1>7, <2>1, <2>2
  <2> QED BY <1>7, <2>3 DEF Balanced
<1>18. LowerPaid(x)
  BY <1>7 DEF LowerPaid
<1>19. Paid(x, 1) = CostOf(x.world) + (StateGasUsed(f) + y.auth.used - CostOf(y.world))
  <2> HIDE DEF CostOf
  <2>1. CostOf(y.world) \in Nat /\ y.auth.used \in Int
    BY <1>1, CostNat, MachineFields
  <2>2. StateGasUsed(g) = StateGasUsed(f) /\ StateGasUsed(f) \in Int
    <3>1. f.rsv \in Nat /\ f.sleft \in Nat /\ f.spilled \in Nat
      BY <1>1, FrameFields
    <3>2. g.rsv = f.rsv /\ g.sleft = f.sleft /\ g.spilled = f.spilled
      BY <1>4
    <3> QED BY <3>1, <3>2 DEF StateGasUsed
  <2>3. Prepaid(g) = 0 /\ CostOf(g.was.world) = 0
    BY <1>4, <1>5, NothingCosts DEF Prepaid
  <2>4. Own(x, 1) = StateGasUsed(f) + y.auth.used
    BY <1>7, <2>2 DEF Own
  <2>5. Paid(x, 1) = StateGasUsed(f) + y.auth.used + 0 + 0
    BY <1>7, <2>3, <2>4 DEF Paid
  <2> QED BY <1>7, <2>1, <2>2, <2>5
<1>20. Core(x)
  BY <1>7, <1>8, <1>9, <1>10, <1>11, <1>12, <1>13, <1>14, <1>15, <1>16, <1>17, <1>18
     DEF Core, Base, Fixture, Fine
<1> HIDE DEF CostOf
<1>21. Sane(x, StateGasUsed(f) + y.auth.used - CostOf(y.world))
  BY <1>4, <1>5, <1>7, <1>19, <1>20 DEF Sane, Fine
<1> QED BY <1>4, <1>5, <1>7, <1>21 DEF x, g, f, Dispatching, IsDispatched

\* An authorization brings an account with a nonce and a delegation.
LEMMA AuthCosts ==
  ASSUME NEW a \in New
  PROVE  /\ CostOf({a, Nonce(a), Auth(a)}) = StateGas.account + StateGas.auth
         /\ {a, Nonce(a), Auth(a)} \in SUBSET Objects
         /\ {} \cup ({a, <<a, "nonce">>, <<a, "auth">>} \cap Objects) = {a, Nonce(a), Auth(a)}
<1> HIDE DEF CostOf, PriceOf
<1>1. /\ a \in Objects /\ Nonce(a) \in Objects /\ Auth(a) \in Objects
      /\ Nonce(a) # a /\ Auth(a) # a /\ Nonce(a) # Auth(a)
  BY ThingsApart
<1>2. CostOf({}) = 0 /\ StateGas.account \in Nat /\ StateGas.auth \in Nat
  BY NothingCosts, PricesAreNat
<1>3. PriceOf(a) = StateGas.account /\ PriceOf(Nonce(a)) = 0 /\ PriceOf(Auth(a)) = StateGas.auth
  BY PricesOf
<1>4. CostOf({a}) = StateGas.account
  <2>1. {} \subseteq Objects /\ a \notin {}
    OBVIOUS
  <2>2. CostOf({} \cup {a}) = CostOf({}) + PriceOf(a)
    BY <1>1, <2>1, CostOfMore
  <2>3. {} \cup {a} = {a}
    OBVIOUS
  <2>4. CostOf({a}) = CostOf({}) + PriceOf(a)
    BY <2>2, <2>3
  <2> QED BY <1>2, <1>3, <2>4
<1>5. CostOf({a, Nonce(a)}) = StateGas.account
  <2>1. {a} \subseteq Objects /\ Nonce(a) \notin {a}
    BY <1>1
  <2>2. CostOf({a} \cup {Nonce(a)}) = CostOf({a}) + PriceOf(Nonce(a))
    BY <1>1, <2>1, CostOfMore
  <2>3. {a} \cup {Nonce(a)} = {a, Nonce(a)}
    OBVIOUS
  <2>4. CostOf({a, Nonce(a)}) = CostOf({a}) + PriceOf(Nonce(a))
    BY <2>2, <2>3
  <2> QED BY <1>2, <1>3, <1>4, <2>4
<1>6. CostOf({a, Nonce(a), Auth(a)}) = StateGas.account + StateGas.auth
  <2>1. {a, Nonce(a)} \subseteq Objects /\ Auth(a) \notin {a, Nonce(a)}
    BY <1>1
  <2>2. CostOf({a, Nonce(a)} \cup {Auth(a)}) = CostOf({a, Nonce(a)}) + PriceOf(Auth(a))
    BY <1>1, <2>1, CostOfMore
  <2>3. {a, Nonce(a)} \cup {Auth(a)} = {a, Nonce(a), Auth(a)}
    OBVIOUS
  <2>4. CostOf({a, Nonce(a), Auth(a)}) = CostOf({a, Nonce(a)}) + PriceOf(Auth(a))
    BY <2>2, <2>3
  <2> QED BY <1>2, <1>3, <1>5, <2>4
<1>7. {} \cup ({a, <<a, "nonce">>, <<a, "auth">>} \cap Objects) = {a, Nonce(a), Auth(a)}
  BY <1>1 DEF Nonce, Auth
<1> QED BY <1>1, <1>6, <1>7

\* set_delegation: what is paid for the authorization is set aside in vm.auth, and the
\* reservoir it leaves is the one the frame starts with
LEMMA DelegationBoot ==
  ASSUME NEW o, NEW m \in Msg, Boot(o, m), Fine(o), m.kind # "create", StateGasUsed(Ev(o)) = 0,
         o.auth = [used |-> 0, spilled |-> 0], o.world = {}, o.journal = <<>>, NEW a \in New
  PROVE  LET z == SetDelegation(o, a, m) IN
           Boot(z, m) /\ (Fine(z) => StateGasUsed(Ev(z)) = 0)
<1> DEFINE p  == IF m.transfer /\ a = m.self THEN 0 ELSE Gas.account
           y1 == Warm(o, "addrs", a)
           y2 == IF IsAlive(y1, a) THEN y1 ELSE ChargeState(y1, StateGas.account)
           y3 == Charge(y2, p)
           y  == ChargeState(y3, StateGas.auth)
           w  == Bring(y, {a, <<a, "nonce">>, <<a, "auth">>})
           f  == Ev(w)
           g  == [f EXCEPT !.rsv = f.sleft, !.spilled = 0]
           x  == With(w, g)
           t  == [used |-> StateGasUsed(f), spilled |-> f.spilled]
           z  == [x EXCEPT !.auth = t]
           A  == StateGas.account
           B  == StateGas.auth
<1>0. SetDelegation(o, a, m) = IF ~Fine(w) THEN w ELSE z
  BY DEF SetDelegation
<1>1. A \in Nat /\ B \in Nat /\ p \in Nat
  BY PricesAreNat
<1>2. Sound(o) /\ o.trap = 0 /\ a \in Addr
  BY DEF Boot, Addr
<1>3. Local(o, y1, 0) /\ y1.trap = 0 /\ y1.world = {}
  <2>1. Accessible("addrs", a)
    BY <1>2 DEF Accessible
  <2>2. Local(o, y1, 0) /\ Fine(y1)
    BY <1>2, <2>1, WarmLocal
  <2> QED BY <2>2 DEF Local, Works, Fine
<1>4. y2 = ChargeState(y1, A)
  BY <1>3 DEF IsAlive
<1> HIDE DEF y1, A, B, p
<1>5. Sound(y1)
  BY <1>3, LocalSound
<1>6. Local(y1, y2, A) /\ y2.trap = 0
  BY <1>1, <1>3, <1>4, <1>5, ChargeStateLocal, ChargesNeverTrap
<1> HIDE DEF y2
<1>7. Sound(y2)
  BY <1>6, LocalSound
<1>8. Local(y2, y3, 0) /\ y3.trap = 0
  BY <1>1, <1>6, <1>7, ChargeLocal, ChargesNeverTrap
<1> HIDE DEF y3
<1>9. Sound(y3)
  BY <1>8, LocalSound
<1>10. Local(y3, y, B) /\ y.trap = 0
  BY <1>1, <1>8, <1>9, ChargeStateLocal, ChargesNeverTrap DEF B
<1> HIDE DEF y
<1>11. Local(o, y, A + B)
  <2>1. Local(o, y2, 0 + A)
    BY <1>1, <1>2, <1>3, <1>6, LocalTrans
  <2>2. Local(o, y3, (0 + A) + 0)
    BY <1>1, <1>2, <1>8, <2>1, LocalTrans
  <2>3. Local(o, y, ((0 + A) + 0) + B)
    BY <1>1, <1>2, <1>10, <2>2, LocalTrans
  <2>4. ((0 + A) + 0) + B = A + B
    BY <1>1
  <2> QED BY <2>3, <2>4
<1>12. Boot(y, m) /\ Sound(y)
  <2>1. Works(o, y) /\ Held(Ev(y)) = Held(Ev(o))
    BY <1>11 DEF Local
  <2>2. Boot(y, m)
    BY <1>10, <2>1, BootWorks
  <2> QED BY <2>2 DEF Boot
<1>13. y.world = {} /\ y.journal = <<>> /\ y.auth = o.auth
  BY <1>11 DEF Local, Works
<1>14. CASE ~Fine(y)
  <2>1. w = y
    BY <1>14 DEF Bring, Write
  <2> QED BY <1>0, <1>12, <1>14, <2>1
<1>15. CASE Fine(y)
  <2> DEFINE u == {a, Nonce(a), Auth(a)}
  <2>1. w = Write(y, u) /\ u \in SUBSET Objects /\ CostOf(u) = A + B
    BY <1>13, AuthCosts DEF Bring, A, B
  <2> HIDE DEF u, w, CostOf
  <2>2. /\ Sound(w) /\ w.frames = y.frames /\ f = Ev(y) /\ Top(w) = Top(y)
        /\ w.world = u /\ w.journal = Append(y.journal, y.world)
        /\ w.warm = y.warm /\ w.up = y.up /\ w.down = y.down
        /\ w.err = y.err /\ w.trap = y.trap /\ w.auth = y.auth
    BY <1>12, <1>15, <2>1, WriteIs
  <2>3. w \in Machine /\ Top(w) = 1 /\ Top(w) >= 1 /\ f \in FrameState
    <3>1. w \in Machine /\ Top(w) = 1 /\ Top(w) >= 1
      BY <1>12, <2>2 DEF Sound, Typed, Boot
    <3> QED BY <3>1, FrameAt
  <2>4. /\ f.kind = m.kind /\ f.self = m.self /\ f.static = FALSE /\ f.code = (m.kind = "create")
        /\ f.csnap = 0 /\ f.charged = FALSE /\ f.running /\ f.err = "none"
        /\ f.out = <<0, 0>> /\ f.data = <<0, 0>> /\ f.ret = 0 /\ f.doomed = {}
        /\ f.mem = 0 /\ f.memMark = 0 /\ f.mark = ArenaSize /\ Lies(f, y.up, y.down)
        /\ f.was.world = {} /\ f.addrs = Len(f.was.warm.addrs) /\ f.keys = Len(f.was.warm.keys)
        /\ Prefix(f.was.warm.addrs, y.warm.addrs) /\ Prefix(f.was.warm.keys, y.warm.keys)
        /\ f.gas = Held(f) + y.auth.spilled
    BY <1>12, <2>2 DEF Boot
  <2>5. StateGasUsed(f) = A + B
    <3>1. StateGasUsed(Ev(y)) = StateGasUsed(Ev(o)) + (A + B)
      BY <1>11, <1>15 DEF Local
    <3> HIDE DEF f
    <3> QED BY <1>1, <2>2, <3>1
  <2> HIDE DEF f
  <2>6. f.sleft \in Nat /\ f.spilled \in Nat /\ f.left \in Nat /\ f.used \in Nat /\ f.running \in BOOLEAN
    BY <2>3, FrameFields
  <2>7. g \in FrameState
    <3> DEFINE q == f.sleft
    <3>1. q \in Nat /\ 0 \in Nat
      BY <2>6
    <3> HIDE DEF q
    <3>2. [f EXCEPT !.rsv = q, !.spilled = 0] \in FrameState
      BY <2>3, <3>1, FrameWith, ZenonT(40)
    <3> QED BY <3>2 DEF q
  <2>8. /\ Carried([f EXCEPT !.rsv = g.rsv], g) /\ g.rsv = f.sleft /\ g.spilled = 0 /\ g.left = f.left
        /\ g.used = f.used /\ g.sleft = f.sleft /\ g.n = f.n /\ g.doomed = f.doomed
        /\ g.kind = f.kind /\ g.self = f.self /\ g.static = f.static /\ g.code = f.code /\ g.csnap = f.csnap
        /\ g.charged = f.charged /\ g.running = f.running /\ g.err = f.err /\ g.out = f.out
        /\ g.data = f.data /\ g.ret = f.ret /\ g.mem = f.mem /\ g.memMark = f.memMark /\ g.mark = f.mark
        /\ g.cap = f.cap /\ g.len = f.len /\ g.stk = f.stk /\ g.scap = f.scap /\ g.was = f.was
        /\ g.addrs = f.addrs /\ g.keys = f.keys /\ g.gas = f.gas
    BY <2>3 DEF FrameState, Carried
  <2> HIDE DEF g
  <2>9. IsWith(w, g, x)
    BY <2>3, <2>7, WithTop
  <2>10. t \in [used : Int, spilled : Nat] /\ t.used = A + B /\ t.spilled = f.spilled
    BY <1>1, <2>5, <2>6
  <2> HIDE DEF x, t
  <2>11. /\ z \in Machine /\ z.frames = x.frames /\ z.world = x.world /\ z.journal = x.journal
         /\ z.warm = x.warm /\ z.up = x.up /\ z.down = x.down /\ z.err = x.err /\ z.trap = x.trap
         /\ z.auth = t
    BY <2>9, <2>10 DEF IsWith, Machine
  <2> HIDE DEF z
  <2>12. Ev(z) = g /\ Top(z) = 1 /\ z.world = u /\ z.journal = Append(y.journal, y.world)
         /\ z.warm = y.warm /\ z.up = y.up /\ z.down = y.down /\ z.err = y.err /\ z.trap = y.trap
    BY <2>2, <2>3, <2>9, <2>11 DEF IsWith, Ev, Top, Last
  <2>13. Sound(z)
    BY <1>12, <2>11, <2>12 DEF Sound, Typed
  <2>14. Begun(z, m)
    <3>1. z.journal = <<{}>>
      BY <1>13, <2>12
    <3>2. z.auth.used = CostOf(z.world) /\ z.world = {a, Nonce(a), Auth(a)}
      BY <2>1, <2>10, <2>11, <2>12 DEF u
    <3> QED BY <3>1, <3>2 DEF Begun
  <2>15. StateGasUsed(g) = 0
    BY <2>6, <2>8 DEF StateGasUsed
  <2>16. g.gas = Held(g) + z.auth.spilled
    <3>1. y.auth.spilled = 0
      BY <1>13
    <3>2. f.gas = f.left + f.used + f.spilled
      BY <2>4, <2>6, <3>1 DEF Held
    <3> QED BY <2>6, <2>8, <2>10, <2>11, <3>2 DEF Held
  <2>17. Lies(g, z.up, z.down)
    BY <2>4, <2>8, <2>12 DEF Lies
  <2>18. Boot(z, m)
    <3>1. g.kind = m.kind /\ g.self = m.self /\ g.static = FALSE /\ g.csnap = 0 /\ g.charged = FALSE
      BY <2>4, <2>8
    <3>2. g.code = (m.kind = "create")
      BY <2>4, <2>8
    <3>3. g.running
      BY <2>4, <2>8
    <3>4. g.err = "none" /\ g.out = <<0, 0>> /\ g.data = <<0, 0>> /\ g.ret = 0 /\ g.doomed = {}
      BY <2>4, <2>8
    <3>5. g.mem = 0 /\ g.memMark = 0 /\ g.mark = ArenaSize /\ g.was.world = {}
      BY <2>4, <2>8
    <3>6. /\ g.addrs = Len(g.was.warm.addrs) /\ g.keys = Len(g.was.warm.keys)
          /\ Prefix(g.was.warm.addrs, z.warm.addrs) /\ Prefix(g.was.warm.keys, z.warm.keys)
      BY <2>4, <2>8, <2>12
    <3>7. z.trap = 0
      BY <1>10, <2>12
    <3> HIDE DEF Begun, Lies, Prefix, Held, Sound, Ev, Top
    <3> QED BY <2>12, <2>13, <2>14, <2>16, <2>17, <3>1, <3>2, <3>3, <3>4, <3>5, <3>6, <3>7 DEF Boot
  <2>19. Fine(w)
    BY <1>15, <2>2 DEF Fine
  <2> QED BY <1>0, <2>12, <2>15, <2>18, <2>19
<1> QED BY <1>14, <1>15

\* The message of a transaction, and the machine its frame is opened in.
TxVm(to) == Warm(Idle, "addrs", to)

\* The message of the transaction.
TxMsg(kind, to, value) ==
  [kind |-> kind, self |-> to, static |-> FALSE, code |-> kind = "create",
   gas |-> TxGas, rsv |-> TxReservoir, charged |-> FALSE,
   transfer |-> value, precompile |-> to = Identity, data |-> <<0, 0>>, ret |-> 0,
   csnap |-> 0, mark |-> TxVm(to).down, memMark |-> TxVm(to).up,
   was |-> [world |-> {}, warm |-> TxVm(to).warm]]

\* A creation transaction brings forth its account before the frame is opened.
TxBorn(kind, to) == IF kind = "create" THEN Birth(TxVm(to), to) ELSE TxVm(to)

\* The machine before the transaction.
LEMMA IdleIs ==
  /\ Typed(Idle) /\ Fine(Idle) /\ Idle.frames = <<>> /\ Idle.world = {} /\ Idle.journal = <<>>
  /\ Idle.created = {} /\ Idle.up = 0 /\ Idle.down = ArenaSize
  /\ Idle.auth = [used |-> 0, spilled |-> 0]
  /\ Idle.warm.addrs \in Seq(Addr) /\ Distinct(Idle.warm.addrs)
  /\ Idle.warm.keys \in Seq(Slot) /\ Distinct(Idle.warm.keys)
<1> DEFINE s == Idle.warm.addrs
<1>1. Identity \in Addr /\ ArenaSize \in Nat
  BY FramesAssumption DEF Addr
<1>2. s = <<Identity>> /\ s \in Seq(Addr) /\ Idle.warm.keys = <<>> /\ <<>> \in Seq(Slot)
  <2>1. s = <<Identity>> /\ Idle.warm.keys = <<>>
    BY DEF Idle
  <2>2. <<Identity>> \in Seq(Addr) /\ <<>> \in Seq(Slot)
    BY <1>1
  <2> HIDE DEF s
  <2> QED BY <2>1, <2>2
<1>3. Distinct(s) /\ Distinct(<<>>)
  BY <1>2 DEF Distinct
<1>4. Idle \in Machine
  BY <1>1, <1>2 DEF Idle, Machine
<1>5. Typed(Idle) /\ Fine(Idle)
  <2>1. Distinct(Idle.warm.addrs) /\ Distinct(Idle.warm.keys)
    BY <1>2, <1>3
  <2>2. Idle.trap = 0 /\ Idle.err = "none" /\ Idle.up = 0 /\ Idle.down = ArenaSize
    BY DEF Idle
  <2> QED BY <1>1, <1>4, <2>1, <2>2 DEF Typed, Fine
<1>6. /\ Idle.frames = <<>> /\ Idle.world = {} /\ Idle.journal = <<>> /\ Idle.created = {}
      /\ Idle.up = 0 /\ Idle.down = ArenaSize /\ Idle.auth = [used |-> 0, spilled |-> 0]
  BY DEF Idle
<1> QED BY <1>2, <1>3, <1>5, <1>6

\* The target of a transaction is accessed before it starts; nothing else of
\* the machine has changed.
LEMMA TxVmIs ==
  ASSUME NEW to \in Addr
  PROVE  LET v == TxVm(to) IN
           /\ Typed(v) /\ Fine(v) /\ v.frames = <<>> /\ v.world = {} /\ v.journal = <<>>
           /\ v.created = {} /\ v.up = 0 /\ v.down = ArenaSize
           /\ v.auth = [used |-> 0, spilled |-> 0]
<1> DEFINE v == TxVm(to)
           s == Idle.warm.addrs
<1>1. Idle \in Machine
  BY IdleIs DEF Typed
<1>2. CASE to \in Elems(s)
  <2>1. v = Idle
    BY <1>2 DEF TxVm, Warm
  <2> QED BY <2>1, IdleIs
<1>3. CASE to \notin Elems(s)
  <2> DEFINE t == Append(s, to)
  <2>1. t \in Seq(Addr) /\ Distinct(t)
    BY <1>3, AppendNew, IdleIs
  <2>2. v = [Idle EXCEPT !.warm["addrs"] = t]
    BY <1>3, IdleIs DEF TxVm, Warm
  <2> HIDE DEF t, v
  <2>3. /\ v \in Machine /\ v.frames = Idle.frames /\ v.world = Idle.world /\ v.journal = Idle.journal
        /\ v.created = Idle.created /\ v.up = Idle.up /\ v.down = Idle.down /\ v.err = Idle.err
        /\ v.trap = Idle.trap /\ v.auth = Idle.auth /\ v.warm.addrs = t /\ v.warm.keys = Idle.warm.keys
    BY <1>1, <2>1, <2>2 DEF Machine
  <2>4. Typed(v) /\ Fine(v)
    BY <2>1, <2>3, IdleIs DEF Typed, Fine
  <2> QED BY <2>3, <2>4, IdleIs DEF v
<1> QED BY <1>2, <1>3

\* What the frame of a transaction is opened with.
LEMMA FreshIs ==
  ASSUME NEW kind \in {"call", "create"}, NEW to \in Addr, NEW value \in BOOLEAN,
         kind = "create" => to \in New
  PROVE  TxMsg(kind, to, value) \in Msg /\ IsFresh(TxBorn(kind, to), TxMsg(kind, to, value))
<1> DEFINE v == TxVm(to)
           m == TxMsg(kind, to, value)
           b == TxBorn(kind, to)
<1>1. /\ Typed(v) /\ Fine(v) /\ v.frames = <<>> /\ v.world = {} /\ v.journal = <<>>
      /\ v.created = {} /\ v.up = 0 /\ v.down = ArenaSize
      /\ v.auth = [used |-> 0, spilled |-> 0]
  BY TxVmIs
<1>2. v \in Machine
  BY <1>1 DEF Typed
<1> HIDE DEF v
<1>3. /\ m.kind = kind /\ m.self = to /\ m.static = FALSE /\ m.code = (kind = "create")
      /\ m.charged = FALSE /\ m.csnap = 0 /\ m.data = <<0, 0>> /\ m.ret = 0
      /\ m.mark = ArenaSize /\ m.memMark = 0 /\ m.was.world = {} /\ m.was.warm = v.warm
  BY <1>1 DEF TxMsg, v
<1>4. m \in Msg
  <2>1. v.warm \in [addrs : Seq(Addr), keys : Seq(Slot)]
    BY <1>2, MachineFields
  <2>2. [world |-> {}, warm |-> v.warm] \in Before
    BY <2>1 DEF Before
  <2>3. TxGas \in Nat /\ TxReservoir \in Nat /\ ArenaSize \in Nat /\ v.down \in Nat /\ v.up \in Nat
    BY <1>1, FramesAssumption
  <2>4. <<0, 0>> \in View
    BY DEF View
  <2> QED BY <2>2, <2>3, <2>4 DEF Msg, TxMsg, CallKinds, v
<1> HIDE DEF m
<1>5. /\ Typed(b) /\ Fine(b) /\ b.frames = <<>> /\ b.auth = [used |-> 0, spilled |-> 0]
      /\ b.up = 0 /\ b.down = ArenaSize /\ b.warm = v.warm /\ Begun(b, m)
  <2>1. CASE kind # "create"
    <3>1. b = v
      BY <2>1 DEF TxBorn, v
    <3> QED BY <1>1, <1>3, <2>1, <3>1 DEF Begun
  <2>2. CASE kind = "create"
    <3> DEFINE w == {to, Nonce(to)}
               x == [v EXCEPT !.journal = Append(<<>>, {}), !.world = w]
    <3>1. to \in New /\ w \in SUBSET Objects
      <4>1. to \in New /\ to \in Objects /\ Nonce(to) \in Objects
        BY <2>2, ThingsApart
      <4> QED BY <4>1
    <3>2. v.world \cup ({to, <<to, "nonce">>} \cap Objects) = w
      BY <1>1, <3>1 DEF Nonce
    <3>3. Bring(v, {to, <<to, "nonce">>}) = x
      BY <1>1, <3>2 DEF Bring, Write
    <3>4. b = [x EXCEPT !.created = x.created \cup {to}]
      BY <1>1, <2>2, <3>3 DEF TxBorn, Birth, v
    <3>5. Append(<<>>, {}) = <<{}>> /\ <<{}>> \in Seq(SUBSET Objects)
      OBVIOUS
    <3> HIDE DEF w
    <3>6. /\ x \in Machine /\ x.frames = <<>> /\ x.world = w /\ x.journal = <<{}>> /\ x.created = {}
          /\ x.warm = v.warm /\ x.up = v.up /\ x.down = v.down /\ x.err = v.err /\ x.trap = v.trap
          /\ x.auth = v.auth
      BY <1>1, <1>2, <3>1, <3>5 DEF Machine
    <3> HIDE DEF x, b
    <3>7. /\ b \in Machine /\ b.frames = <<>> /\ b.world = w /\ b.journal = <<{}>>
          /\ b.warm = v.warm /\ b.up = v.up /\ b.down = v.down /\ b.err = v.err /\ b.trap = v.trap
          /\ b.auth = v.auth
      BY <3>1, <3>4, <3>6 DEF Machine
    <3>8. Typed(b) /\ Fine(b)
      BY <1>1, <3>7 DEF Typed, Fine
    <3>9. Begun(b, m)
      BY <1>1, <1>3, <2>2, <3>1, <3>7 DEF Begun, w
    <3> QED BY <1>1, <3>7, <3>8, <3>9
  <2> QED BY <2>1, <2>2
<1> HIDE DEF b
<1>6. IsFresh(b, m)
  BY <1>3, <1>5 DEF IsFresh
<1> QED BY <1>4, <1>6 DEF m, b

\* prepare_dispatch: either the frame of the transaction goes on into the state
\* the invariant asks for, or it could not pay and has changed nothing else.
LEMMA PrepareIs ==
  ASSUME NEW a, NEW m \in Msg, Boot(a, m), Fine(a) => StateGasUsed(Ev(a)) = 0, m.data = <<0, 0>>
  PROVE  LET d == PrepareDispatch(a, m)
             x == With(d, [Ev(d) EXCEPT !.snap = Snapshot(d)])
         IN  /\ d.trap = 0
             /\ d.err = "none" => After(FrameStart(x, m))
             /\ d.err # "none" => Boot(d, m)
<1> DEFINE A  == StateGas.account
           pc == m.kind = "create" \/ (m.transfer /\ ~IsAlive(a, m.self))
           y  == IF pc THEN ChargeState(a, A) ELSE a
           d  == PrepareDispatch(a, m)
           x  == With(d, [Ev(d) EXCEPT !.snap = Snapshot(d)])
           p  == IF pc THEN A ELSE 0
<1>1. A \in Nat /\ p \in Int
  BY PricesAreNat
<1>2. Sound(a) /\ a.trap = 0 /\ m.transfer \in BOOLEAN /\ m.self \in Addr
  BY DEF Boot, Msg
<1>3. Local(a, y, p) /\ y.trap = 0
  BY <1>1, <1>2, ChargeStateLocal, LocalSame, ChargesNeverTrap
<1>4. d = IF Fine(y) THEN With(y, [Ev(y) EXCEPT !.code = Ev(y).code \/ HasCode(y, m.self)]) ELSE y
  BY DEF PrepareDispatch
<1> HIDE DEF y, d, pc
<1>5. Boot(y, m)
  BY <1>3, BootWorks DEF Local
<1>6. /\ Sound(y) /\ y \in Machine /\ Top(y) = 1 /\ Top(y) >= 1 /\ Begun(y, m)
      /\ y.world = a.world
  BY <1>3, <1>5 DEF Boot, Sound, Typed, Local, Works
<1>7. Ev(y) \in FrameState
  BY <1>6, FrameAt
<1>8. CASE ~Fine(y)
  <2>1. d = y
    BY <1>4, <1>8
  <2>2. d.trap = 0 /\ d.err # "none" /\ Boot(d, m)
    BY <1>3, <1>5, <1>8, <2>1 DEF Fine
  <2> HIDE DEF x
  <2> QED BY <2>2 DEF x, d
<1>9. CASE Fine(y)
  <2> DEFINE f  == Ev(y)
             cc == f.code \/ HasCode(y, m.self)
             g  == [f EXCEPT !.code = cc]
             s  == Len(y.journal)
             h  == [f EXCEPT !.code = cc, !.snap = s]
  <2>1. cc \in BOOLEAN /\ s \in Nat
    <3>1. f.code \in BOOLEAN
      BY <1>7, FrameFields
    <3>2. s \in {0, 1}
      BY <1>6, BegunPast
    <3> QED BY <3>1, <3>2 DEF HasCode
  <2>2. m.kind = "create" => cc
    BY <1>5 DEF Boot
  <2>3. ASSUME cc, m.self \in New
        PROVE  Nonce(m.self) \in y.world
    <3>1. /\ m.kind = "create" => Nonce(m.self) \in y.world
          /\ <<m.self, "code">> \notin y.world
          /\ <<m.self, "auth">> \in y.world => Nonce(m.self) \in y.world
      BY <1>6, <2>3, BegunPast
    <3>2. m.self \notin Old
      BY <2>3, FramesAssumption
    <3>3. f.code = (m.kind = "create")
      BY <1>5 DEF Boot
    <3> QED BY <2>3, <3>1, <3>2, <3>3 DEF HasCode
  <2>4. d = With(y, g)
    BY <1>4, <1>9
  <2> HIDE DEF cc, s
  <2>5. g \in FrameState /\ h \in FrameState /\ h = [g EXCEPT !.snap = s]
    <3> HIDE DEF f
    <3> QED BY <1>7, <2>1, ZenonT(40) DEF FrameState, f
  <2>6. IsWith(y, g, d)
    <3> HIDE DEF g
    <3> QED BY <1>6, <2>4, <2>5, WithTop
  <2>7. Ev(d) = g /\ d.journal = y.journal /\ d.err = y.err /\ d.trap = y.trap
    BY <2>6 DEF IsWith
  <2>8. x = With(y, h)
    <3>1. x = With(d, h)
      BY <2>5, <2>7 DEF Snapshot, s
    <3> HIDE DEF g, h, x, f
    <3> QED BY <1>6, <2>4, <2>5, <3>1, WithWith
  <2> DEFINE dd == StateGasUsed(f) + y.auth.used - CostOf(y.world)
  <2>9. Sane(x, dd) /\ Fine(x) /\ x.world = y.world /\ Top(x) = 1 /\ Ev(x).static = FALSE
    <3> HIDE DEF x, CostOf, StateGasUsed, Snapshot
    <3>1. x = Dispatching(y, cc)
      BY <2>8 DEF s, Dispatching
    <3>2. cc = TRUE /\ m.self \in New => Nonce(m.self) \in y.world
      BY <2>3
    <3>3. m.kind = "create" => cc = TRUE
      BY <2>1, <2>2
    <3>4. cc \in BOOLEAN
      BY <2>1
    <3>5. IsDispatched(y, Dispatching(y, cc))
      BY <1>5, <1>9, <3>2, <3>3, <3>4, BootSane
    <3>6. IsDispatched(y, x)
      BY <3>1, <3>5
    <3> QED BY <3>6 DEF IsDispatched
  <2>10. dd = IF m.transfer /\ ~IsAlive(x, m.self) THEN A ELSE 0
    <3>1. Fine(a) /\ StateGasUsed(f) = 0 + p
      BY <1>3, <1>9 DEF Local, Works
    <3>2. /\ m.kind = "create" => y.auth.used = 0 /\ CostOf(y.world) = A /\ m.self \in y.world
          /\ m.kind # "create" => CostOf(y.world) = y.auth.used
      <4>1. m.kind = "create" => m.self \in y.world
        BY <1>6 DEF Begun
      <4> QED BY <1>6, <4>1, BegunPast
    <3>3. IsAlive(x, m.self) = IsAlive(a, m.self)
      BY <1>6, <2>9 DEF IsAlive
    <3>4. CostOf(y.world) \in Nat /\ y.auth.used \in Int
      BY <1>6, MachineFields, CostNat
    <3> HIDE DEF CostOf, f, x
    <3>5. CASE m.kind = "create"
      <4>1. pc /\ IsAlive(x, m.self)
        BY <2>9, <3>2, <3>5 DEF pc, IsAlive
      <4> QED BY <1>1, <3>1, <3>2, <3>4, <3>5, <4>1
    <3>6. CASE m.kind # "create"
      <4>1. pc <=> (m.transfer /\ ~IsAlive(x, m.self))
        BY <3>3, <3>6 DEF pc
      <4> QED BY <1>1, <3>1, <3>2, <3>4, <3>6, <4>1
    <3> QED BY <3>5, <3>6
  <2> HIDE DEF dd, x
  <2>11. After(FrameStart(x, m))
    <3>1. dd \in Int
      BY <1>1, <2>10
    <3>2. m.data[2] = 0
      OBVIOUS
    <3> QED BY <2>9, <2>10, <3>1, <3>2, FrameStartAfter
  <2>12. d.trap = 0 /\ d.err = "none"
    BY <1>9, <2>7 DEF Fine
  <2> QED BY <2>11, <2>12 DEF x, d
<1> QED BY <1>8, <1>9

\* The handler of what depth0_prepare throws: the message that could not pay for
\* its start ends the transaction with nothing but burnt gas.
LEMMA FailedStartEnds ==
  ASSUME NEW d, NEW m, Boot(d, m), NEW s \in Nat, s <= Len(d.journal), m.kind # "create" => s = 0
  PROVE  LET p == PrepareFailed(d, s)
             w == IF m.kind = "create" THEN Restore(p, 0) ELSE p
         IN  Ended(Release(w, Ev(w)))
<1> DEFINE t  == [d.auth EXCEPT !.used = 0]
           d1 == [d EXCEPT !.err = "none", !.auth = t]
           y  == Restore(d1, s)
           R  == TxReservoir
           g  == [Ev(y) EXCEPT !.rsv = R]
           x  == With(y, g)
           h  == Halted(Refilled(g))
           p  == PrepareFailed(d, s)
           w  == IF m.kind = "create" THEN Restore(p, 0) ELSE p
           z  == Release(w, Ev(w))
<1>1. /\ Sound(d) /\ d \in Machine /\ d.trap = 0 /\ Top(d) = 1 /\ Begun(d, m)
      /\ Ev(d).charged = FALSE /\ Ev(d).memMark = 0 /\ Ev(d).mark = ArenaSize
      /\ Ev(d).was.world = {} /\ Ev(d).gas = Held(Ev(d)) + d.auth.spilled
  BY DEF Boot, Sound, Typed
<1>2. Past(d)[1] = {} /\ Len(d.journal) \in Nat
  BY <1>1, BegunPast, MachineFields
<1>3. p = FrameHalt(Refill(x))
  BY DEF PrepareFailed
<1>4. t \in [used : Int, spilled : Nat] /\ t.used = 0 /\ t.spilled = d.auth.spilled
  BY <1>1 DEF Machine
<1> HIDE DEF t
<1>5. /\ d1 \in Machine /\ d1.frames = d.frames /\ d1.world = d.world /\ d1.journal = d.journal
      /\ d1.warm = d.warm /\ d1.up = d.up /\ d1.down = d.down /\ d1.err = "none" /\ d1.trap = d.trap
      /\ d1.auth = t
  BY <1>1, <1>4 DEF Machine
<1> HIDE DEF d1
<1>6. Sound(d1) /\ Top(d1) = 1 /\ Ev(d1) = Ev(d) /\ Past(d1) = Past(d)
  BY <1>1, <1>5 DEF Sound, Typed, Top, Ev, Last, Past
<1>7. IsRestored(d1, s, y)
  BY <1>5, <1>6, RestoreIs
<1> HIDE DEF y
<1>8. /\ Sound(y) /\ y \in Machine /\ Top(y) = 1 /\ Top(y) >= 1 /\ Ev(y) = Ev(d) /\ Ev(y) \in FrameState
      /\ y.err = "none" /\ y.trap = 0 /\ y.auth = t /\ Past(y)[1] = {}
      /\ y.world = Past(d)[s + 1]
  <2>1. /\ Sound(y) /\ y \in Machine /\ Top(y) = 1 /\ Top(y) >= 1 /\ Ev(y) = Ev(d)
        /\ y.err = "none" /\ y.trap = 0 /\ y.auth = t /\ y.world = Past(d)[s + 1]
    BY <1>1, <1>5, <1>6, <1>7 DEF IsRestored, Sound, Typed
  <2>2. 1 \in 1 .. s + 1
    OBVIOUS
  <2>3. Past(y)[1] = {}
    BY <1>2, <1>6, <1>7, <2>2 DEF IsRestored
  <2> QED BY <2>1, <2>3, FrameAt
<1>9. /\ g \in FrameState /\ Held(g) = Held(Ev(d)) /\ g.gas = Ev(d).gas /\ g.was = Ev(d).was
      /\ g.charged = Ev(d).charged /\ g.memMark = Ev(d).memMark /\ g.mark = Ev(d).mark
  <2> DEFINE f == Ev(y)
  <2>1. f \in FrameState /\ R \in Nat
    BY <1>8, FramesAssumption
  <2>0. g = [f EXCEPT !.rsv = R]
    OBVIOUS
  <2> HIDE DEF f, R, g
  <2>2. g \in FrameState
    BY <2>0, <2>1, FrameWith, ZenonT(40)
  <2>3. /\ g.left = f.left /\ g.used = f.used /\ g.spilled = f.spilled /\ g.gas = f.gas /\ g.was = f.was
        /\ g.charged = f.charged /\ g.memMark = f.memMark /\ g.mark = f.mark
    BY <2>0, <2>1 DEF FrameState
  <2>4. Held(g) = Held(f)
    BY <2>3 DEF Held
  <2> QED BY <1>8, <2>2, <2>3, <2>4 DEF f
<1> HIDE DEF g
<1>10. IsWith(y, g, x)
  BY <1>8, <1>9, WithTop
<1> HIDE DEF x
<1>11. Sound(x) /\ Ev(x) = g /\ Top(x) = 1 /\ x \in Machine
  BY <1>8, <1>10 DEF IsWith, Sound, Typed
<1>12. p = With(x, h) /\ h \in FrameState
  BY <1>3, <1>11, HaltedIs
<1>13. /\ Held(h) = Held(g) /\ h.err # "none" /\ h.sleft = h.rsv /\ h.spilled = 0
       /\ h.gas = g.gas /\ h.charged = g.charged /\ h.was = g.was /\ h.mark = g.mark /\ h.memMark = g.memMark
  BY <1>9, HaltedKeeps
<1> HIDE DEF h, p
<1>14. IsWith(x, h, p)
  BY <1>11, <1>12, WithTop
<1>15. /\ Sound(p) /\ p \in Machine /\ Top(p) = 1 /\ Ev(p) = h /\ p.frames[1] = h
       /\ p.world = y.world /\ p.journal = y.journal /\ p.auth = t /\ p.err = "none" /\ p.trap = 0
  BY <1>8, <1>10, <1>11, <1>14 DEF IsWith, Sound, Typed
<1>16. /\ Sound(w) /\ w \in Machine /\ Top(w) = 1 /\ Ev(w) = h /\ w.frames[1] = h
       /\ w.world = {} /\ w.auth = t /\ w.err = "none" /\ w.trap = 0
  <2>1. CASE m.kind # "create"
    <3>1. w = p /\ s = 0 /\ y.world = {}
      BY <1>2, <1>8, <2>1
    <3> QED BY <1>15, <3>1
  <2>2. CASE m.kind = "create"
    <3>1. w = Restore(p, 0) /\ Len(p.journal) \in Nat
      BY <1>15, <2>2, MachineFields
    <3>2. IsRestored(p, 0, w)
      BY <1>15, <3>1, RestoreIs
    <3>3. Past(p) = Past(y)
      BY <1>15 DEF Past
    <3>4. w.world = {}
      BY <1>8, <3>2, <3>3 DEF IsRestored
    <3>5. w.frames = p.frames /\ Sound(w) /\ Top(w) = Top(p) /\ Ev(w) = Ev(p) /\ w.auth = p.auth
          /\ w.err = p.err /\ w.trap = p.trap
      BY <3>2 DEF IsRestored
    <3> QED BY <1>15, <3>4, <3>5 DEF Sound, Typed
  <2> QED BY <2>1, <2>2
<1> HIDE DEF w
<1>17. ArenaSize \in Nat /\ h.memMark = 0 /\ h.mark = ArenaSize
  BY <1>1, <1>9, <1>13, FramesAssumption
<1>18. z = [w EXCEPT !.down = ArenaSize, !.up = 0]
  BY <1>16, <1>17 DEF Release, Fine
<1> HIDE DEF z
<1>19. /\ z \in Machine /\ z.frames = w.frames /\ z.world = w.world /\ z.warm = w.warm /\ z.auth = w.auth
       /\ z.err = w.err /\ z.trap = w.trap /\ z.up = 0 /\ z.down = ArenaSize
  BY <1>16, <1>17, <1>18 DEF Machine
<1>20. Top(z) = 1 /\ Typed(z) /\ z.frames[1] = h
  BY <1>16, <1>17, <1>19 DEF Top, Typed, Sound
<1>21. Balanced(z)
  <2>1. Owed(z, 1) = 0 + t.spilled
    BY <1>16, <1>19, <1>20 DEF Owed
  <2>2. h.gas = Held(h) + (0 + t.spilled)
    BY <1>1, <1>4, <1>9, <1>13
  <2> QED BY <1>20, <2>1, <2>2 DEF Balanced
<1>22. Paid(z, 1) = CostOf(z.world)
  <2>1. h.rsv \in Nat /\ CostOf(z.world) = 0 /\ CostOf(h.was.world) = 0
    <3>1. z.world = {} /\ h.was.world = {}
      BY <1>1, <1>9, <1>13, <1>16, <1>19
    <3>2. h.rsv \in Nat
      BY <1>12, FrameFields
    <3> QED BY <3>1, <3>2, NothingCosts
  <2>2. StateGasUsed(h) = 0 /\ Prepaid(h) = 0
    BY <1>1, <1>9, <1>13, <2>1 DEF StateGasUsed, Prepaid
  <2>3. Own(z, 1) = 0
    BY <1>4, <1>16, <1>19, <1>20, <2>2 DEF Own
  <2> HIDE DEF CostOf
  <2> QED BY <1>20, <2>1, <2>2, <2>3 DEF Paid
<1>23. Ended(z)
  BY <1>13, <1>16, <1>19, <1>20, <1>21, <1>22 DEF Ended
<1> QED BY <1>23 DEF z, w, p

\* A transaction whose first frame finds no room: nothing runs on a machine
\* without a frame.
LEMMA NoFrameAfter ==
  ASSUME NEW o, Typed(o), o.trap # 0, o.frames = <<>>, NEW m, NEW F
  PROVE  /\ o.err = "none" /\ PrepareDispatch(o, m) = o
         /\ \A a : SetDelegation(o, a, m) = o
         /\ After(FrameStart(With(o, F), m))
<1> DEFINE x == With(o, F)
           q == [o.frames EXCEPT ![Len(o.frames)] = F]
<1>1. o \in Machine /\ ~Fine(o) /\ o.err = "none"
  BY DEF Typed, Fine
<1>2. \A k : ChargeState(o, k) = o /\ Charge(o, k) = o
  <2>1. \A k : ChargeState(o, k) = o
    BY <1>1, Zenon DEF ChargeState
  <2>2. \A k : Charge(o, k) = o
    BY <1>1, Zenon DEF Charge
  <2> QED BY <2>1, <2>2
<1>3. \A a : Warm(o, "addrs", a) = o
  BY <1>1 DEF Warm
<1>4. \A w : Bring(o, w) = o
  BY <1>1 DEF Bring, Write
<1>5. PrepareDispatch(o, m) = o
  BY <1>1, <1>2 DEF PrepareDispatch
<1>6. ASSUME NEW a
      PROVE  SetDelegation(o, a, m) = o
  <2> DEFINE y1 == Warm(o, "addrs", a)
             y2 == IF IsAlive(y1, a) THEN y1 ELSE ChargeState(y1, StateGas.account)
             y3 == Charge(y2, IF m.transfer /\ a = m.self THEN 0 ELSE Gas.account)
             y4 == Bring(ChargeState(y3, StateGas.auth), {a, <<a, "nonce">>, <<a, "auth">>})
  <2>1. y1 = o
    BY <1>3
  <2>2. y2 = o
    BY <1>2, <2>1
  <2>3. y3 = o
    BY <1>2, <2>2
  <2>4. y4 = o
    BY <1>2, <1>4, <2>3
  <2>5. SetDelegation(o, a, m) = IF ~Fine(y4) THEN y4
          ELSE [With(y4, [Ev(y4) EXCEPT !.rsv = Ev(y4).sleft, !.spilled = 0])
                  EXCEPT !.auth = [used |-> StateGasUsed(Ev(y4)), spilled |-> Ev(y4).spilled]]
    BY DEF SetDelegation
  <2> HIDE DEF y4
  <2> QED BY <1>1, <2>4, <2>5
<1>7. q = <<>>
  <2>1. DOMAIN o.frames = {}
    OBVIOUS
  <2>2. q = [i \in DOMAIN o.frames |-> IF i = Len(o.frames) THEN F ELSE o.frames[i]]
    OBVIOUS
  <2> QED BY <2>1, <2>2
<1>8. x = [o EXCEPT !.frames = q]
  BY DEF With
<1> HIDE DEF q, x
<1>9. x = o
  BY <1>1, <1>7, <1>8 DEF Machine
<1>10. FrameStart(x, m) = x
  BY <1>1, <1>9 DEF FrameStart
<1>11. Trapped(o)
  <2>1. 1 .. Top(o) = {}
    BY DEF Top
  <2>2. Views(o)
    BY <2>1 DEF Views
  <2> QED BY <2>2 DEF Trapped
<1> QED BY <1>1, <1>5, <1>6, <1>9, <1>10, <1>11 DEF After, x

\* process_message_call: what a transaction starts with is a good state, and
\* what it could not pay for is over.
LEMMA StartAfter ==
  ASSUME NEW kind \in {"call", "create"}, NEW to \in Addr, NEW value \in BOOLEAN,
         NEW auths \in {{}} \cup {{a} : a \in New}, kind = "create" => to \in New /\ auths = {}
  PROVE  LET d == Dispatched(kind, to, value, auths) IN
           IF d.ok THEN After(d.vm) ELSE Ended(Release(d.vm, Ev(d.vm)))
<1> DEFINE m  == TxMsg(kind, to, value)
           b  == TxBorn(kind, to)
           o  == Open(b, m)
           au == CHOOSE x \in auths : TRUE
           a  == IF auths = {} THEN o ELSE SetDelegation(o, au, m)
           d  == PrepareDispatch(a, m)
           x  == With(d, [Ev(d) EXCEPT !.snap = Snapshot(d)])
           s  == Snapshot(o)
           p  == PrepareFailed(d, s)
           w  == IF kind = "create" THEN Restore(p, 0) ELSE p
           D  == Dispatched(kind, to, value, auths)
<1>1. D = IF d.err = "none" THEN [ok |-> TRUE, vm |-> FrameStart(x, m)] ELSE [ok |-> FALSE, vm |-> w]
  BY DEF Dispatched, TxMsg, TxBorn, TxVm
<1>2. m \in Msg /\ IsFresh(b, m)
  BY FreshIs
<1>3. m.kind = kind /\ m.data = <<0, 0>>
  BY DEF TxMsg
<1>4. auths # {} => au \in New /\ kind = "call"
  OBVIOUS
<1>5. kind = "call" => b.world = {} /\ b.journal = <<>>
  BY TxVmIs DEF TxBorn
<1> HIDE DEF m, b, o, au, D, p
<1>6. IsOpened(b, m, o) \/ IsTrapped(b, o)
  <2>1. Typed(b) /\ Fine(b)
    BY <1>2 DEF IsFresh
  <2> QED BY <1>2, <2>1, OpenIs DEF o
<1>7. CASE IsTrapped(b, o)
  <2>1. Typed(o) /\ o.trap # 0 /\ o.frames = <<>>
    BY <1>2, <1>7 DEF IsTrapped, IsFresh
  <2>2. a = o
    BY <2>1, NoFrameAfter
  <2>3. d = o /\ o.err = "none"
    BY <2>1, <2>2, NoFrameAfter
  <2>4. After(FrameStart(x, m))
    BY <2>1, <2>3, NoFrameAfter
  <2> HIDE DEF d, x
  <2> QED BY <1>1, <2>3, <2>4 DEF D
<1>8. CASE IsOpened(b, m, o)
  <2>1. /\ Boot(o, m) /\ StateGasUsed(Ev(o)) = 0 /\ o.auth = [used |-> 0, spilled |-> 0]
        /\ o.world = b.world /\ o.journal = b.journal /\ Fine(o)
    <3>1. Fine(o)
      BY <1>8 DEF IsOpened
    <3> QED BY <1>2, <1>8, <3>1, BootOpen
  <2>2. Boot(a, m) /\ (Fine(a) => StateGasUsed(Ev(a)) = 0)
    <3>1. CASE auths = {}
      BY <2>1, <3>1
    <3>2. CASE auths # {}
      <4>1. a = SetDelegation(o, au, m) /\ m.kind # "create" /\ au \in New /\ o.world = {} /\ o.journal = <<>>
        BY <1>3, <1>4, <1>5, <2>1, <3>2
      <4> QED BY <1>2, <2>1, <4>1, DelegationBoot
    <3> QED BY <3>1, <3>2
  <2> HIDE DEF a
  <2>3. /\ d.err = "none" => After(FrameStart(x, m))
        /\ d.err # "none" => Boot(d, m)
    BY <1>2, <1>3, <2>2, PrepareIs
  <2> HIDE DEF d, x
  <2>4. CASE d.err = "none"
    <3>1. D.ok /\ D.vm = FrameStart(x, m)
      BY <1>1, <2>4
    <3> QED BY <2>3, <2>4, <3>1 DEF D
  <2>5. CASE d.err # "none"
    <3>1. s \in Nat /\ s <= Len(d.journal) /\ (m.kind # "create" => s = 0)
      <4>1. Begun(d, m) /\ Begun(o, m)
        BY <2>1, <2>3, <2>5 DEF Boot
      <4>2. CASE kind = "create"
        <5>1. o.journal = <<{}>> /\ d.journal = <<{}>>
          BY <1>3, <4>1, <4>2 DEF Begun
        <5> QED BY <1>3, <4>2, <5>1 DEF Snapshot
      <4>3. CASE kind = "call"
        <5>1. s = 0
          BY <1>5, <2>1, <4>3 DEF Snapshot
        <5>2. d.journal = <<>> \/ d.journal = <<{}>>
          BY <1>3, <4>1, <4>3 DEF Begun
        <5> QED BY <1>3, <5>1, <5>2
      <4> QED BY <4>2, <4>3
    <3> HIDE DEF s
    <3>2. Ended(Release(w, Ev(w)))
      <4> DEFINE w1 == IF m.kind = "create" THEN Restore(p, 0) ELSE p
      <4>1. Ended(Release(w1, Ev(w1)))
        BY <2>3, <2>5, <3>1, FailedStartEnds DEF p
      <4>2. w1 = w
        BY <1>3
      <4> HIDE DEF w1, w
      <4> QED BY <4>1, <4>2
    <3> HIDE DEF w
    <3>3. D.ok = FALSE /\ D.vm = w
      BY <1>1, <2>5
    <3> QED BY <3>2, <3>3 DEF D
  <2> QED BY <2>4, <2>5
<1> QED BY <1>6, <1>7, <1>8
-----------------------------------------------------------------------------
(***************************************************************************)
(* The invariant holds of every state.                                     *)
(***************************************************************************)
\* The invariant holds before the transaction.
THEOREM InitInv == Init => Inv
BY DEF Init, Inv

\* Running instructions: the current frame has neither ended nor failed.
LEMMA ReadyIs ==
  ASSUME Inv, Ready
  PROVE  Good(vm) /\ Sound(vm) /\ Ev(vm).err = "none" /\ Ev(vm).running /\ Ev(vm).code
<1>1. Good(vm) /\ Ev(vm).running /\ Ev(vm).code
  BY DEF Inv, Ready, Trapped
<1>2. Core(vm) /\ Flow(vm)
  BY <1>1 DEF Good, Core
<1>3. Sound(vm) /\ Top(vm) \in 1 .. Top(vm) /\ Ev(vm) = vm.frames[Top(vm)]
  BY <1>2, TopFacts
<1>4. Ev(vm).err = "none"
  BY <1>1, <1>2, <1>3 DEF Flow
<1> QED BY <1>1, <1>3, <1>4

\* An instruction that leaves a good or a trapped machine keeps the invariant.
LEMMA ExecInv ==
  ASSUME NEW y, Exec(y), After(Handle(y))
  PROVE  Inv'
<1>1. vm' = Handle(y) /\ phase' = "running"
  BY DEF Exec, Ready
<1>2. After(vm')
  BY <1>1
<1> QED BY <1>1, <1>2 DEF Inv, After

\* Sizes and gas requests of the instructions are natural numbers.
LEMMA InputsAreNat == Requests \subseteq Nat /\ Ranges \subseteq Nat
BY FramesAssumption

\* run_frames, one step at a time.
LEMMA NextInv ==
  ASSUME Inv, [Next]_vars
  PROVE  Inv'
<1>1. ASSUME StartTx
      PROVE  Inv'
  <2>1. PICK kind \in {"call", "create"}, to \in Addr, value \in BOOLEAN,
             auths \in {{}} \cup {{a} : a \in New} :
          LET d == Dispatched(kind, to, value, auths) IN
            /\ phase = "start"
            /\ kind = "create" => to \in New /\ auths = {}
            /\ vm' = IF d.ok THEN d.vm ELSE Release(d.vm, Ev(d.vm))
            /\ phase' = IF d.ok THEN "running" ELSE "done"
    BY <1>1 DEF StartTx
  <2> DEFINE d == Dispatched(kind, to, value, auths)
  <2>2. IF d.ok THEN After(d.vm) ELSE Ended(Release(d.vm, Ev(d.vm)))
    BY <2>1, StartAfter
  <2> HIDE DEF d
  <2>3. IF d.ok THEN After(vm') /\ phase' = "running" ELSE Ended(vm') /\ phase' = "done"
    BY <2>1, <2>2 DEF d
  <2> QED BY <2>3 DEF Inv, After
<1>2. ASSUME PushOp
      PROVE  Inv'
  <2>1. Exec(Push(Charge(vm, Gas.base))) /\ Ready
    BY <1>2 DEF PushOp, Exec
  <2>2. Good(vm) /\ Sound(vm) /\ Ev(vm).err = "none"
    BY <2>1, ReadyIs
  <2>3. After(Handle(Push(Charge(vm, Gas.base))))
    BY <2>2, PushOpLocal, LocalAfter
  <2> QED BY <2>1, <2>3, ExecInv
<1>3. ASSUME PopOp
      PROVE  Inv'
  <2>1. Exec(Charge(Pop(vm, 1), Gas.base)) /\ Ready
    BY <1>3 DEF PopOp, Exec
  <2>2. Good(vm) /\ Sound(vm) /\ Ev(vm).err = "none"
    BY <2>1, ReadyIs
  <2>3. After(Handle(Charge(Pop(vm, 1), Gas.base)))
    BY <2>2, PopOpLocal, LocalAfter
  <2> QED BY <2>1, <2>3, ExecInv
<1>4. ASSUME MemOp
      PROVE  Inv'
  <2>1. PICK r \in Ranges : /\ Exec(Extend(Charge(vm, Gas.base + ExtendCost(Beyond(vm, r))), Beyond(vm, r)))
                            /\ Ready
    BY <1>4 DEF MemOp
  <2>2. Good(vm) /\ Sound(vm) /\ Ev(vm).err = "none" /\ r \in Nat
    BY <2>1, ReadyIs, InputsAreNat
  <2> DEFINE n == Beyond(vm, r)
             a == Gas.base + ExtendCost(n)
  <2>3. n \in Nat /\ a \in Nat
    BY <2>2, BeyondNat, PricesAreNat
  <2> HIDE DEF n, a
  <2>4. After(Handle(Extend(Charge(vm, a), n)))
    BY <2>2, <2>3, ChargeExtend, LocalAfter
  <2>5. Exec(Extend(Charge(vm, a), n))
    BY <2>1 DEF n, a
  <2> QED BY <2>4, <2>5, ExecInv
<1>5. ASSUME TouchAddr
      PROVE  Inv'
  <2>1. PICK a \in Addr : Exec(Push(Access(Pop(vm, 1), "addrs", a, 0))) /\ Ready
    BY <1>5 DEF TouchAddr, Exec
  <2>2. Good(vm) /\ Sound(vm) /\ Ev(vm).err = "none" /\ Accessible("addrs", a)
    BY <2>1, ReadyIs DEF Accessible
  <2>3. After(Handle(Push(Access(Pop(vm, 1), "addrs", a, 0))))
    BY <2>2, TouchLocal, LocalAfter
  <2> QED BY <2>1, <2>3, ExecInv
<1>6. ASSUME TouchSlot
      PROVE  Inv'
  <2>1. PICK s \in Slot : Exec(Push(Access(Pop(vm, 1), "keys", s, 0))) /\ Ready
    BY <1>6 DEF TouchSlot, Exec
  <2>2. Good(vm) /\ Sound(vm) /\ Ev(vm).err = "none" /\ Accessible("keys", s)
    BY <2>1, ReadyIs DEF Accessible
  <2>3. After(Handle(Push(Access(Pop(vm, 1), "keys", s, 0))))
    BY <2>2, TouchLocal, LocalAfter
  <2> QED BY <2>1, <2>3, ExecInv
<1>7. ASSUME WriteSlot
      PROVE  Inv'
  <2>1. PICK s \in Slot, on \in BOOLEAN : Exec(Sstore(vm, s, on)) /\ Ready
    BY <1>7 DEF WriteSlot, Exec
  <2>2. After(Handle(Sstore(vm, s, on)))
    BY <2>1, ReadyIs, SstoreAfter
  <2> QED BY <2>1, <2>2, ExecInv
<1>8. ASSUME CallOp
      PROVE  Inv'
  <2>1. PICK kind \in CallKinds, to \in Addr, value \in BOOLEAN, poor \in BOOLEAN,
             req \in Requests, r \in Ranges :
          /\ value => kind \in {"call", "callcode"}
          /\ Exec(Call(vm, kind, to, value, req, r, poor)) /\ Ready
    BY <1>8 DEF CallOp, Exec
  <2>2. req \in Nat /\ r \in Nat
    BY InputsAreNat
  <2>3. After(Handle(Call(vm, kind, to, value, req, r, poor)))
    BY <2>1, <2>2, ReadyIs, CallAfter
  <2> QED BY <2>1, <2>3, ExecInv
<1>9. ASSUME CreateOp
      PROVE  Inv'
  <2>1. PICK to \in New \cup Old, r \in Ranges, poor \in BOOLEAN : Exec(Create(vm, to, r, poor)) /\ Ready
    BY <1>9 DEF CreateOp, Exec
  <2>2. After(Handle(Create(vm, to, r, poor)))
    BY <2>1, InputsAreNat, ReadyIs, CreateAfter
  <2> QED BY <2>1, <2>2, ExecInv
<1>10. ASSUME LeaveOp
       PROVE  Inv'
  <2>1. PICK r \in Ranges, revert \in BOOLEAN : Exec(Leave(vm, r, revert)) /\ Ready
    BY <1>10 DEF LeaveOp, Exec
  <2>2. After(Handle(Leave(vm, r, revert)))
    BY <2>1, InputsAreNat, ReadyIs, LeaveAfter
  <2> QED BY <2>1, <2>2, ExecInv
<1>11. ASSUME StopOp
       PROVE  Inv'
  <2>1. Exec(With(vm, [Ev(vm) EXCEPT !.running = FALSE])) /\ Ready
    BY <1>11 DEF StopOp, Exec
  <2>2. After(Handle(With(vm, [Ev(vm) EXCEPT !.running = FALSE])))
    BY <2>1, ReadyIs, StopAfter
  <2> QED BY <2>1, <2>2, ExecInv
<1>12. ASSUME InvalidOp
       PROVE  Inv'
  <2>1. Exec(Throw(vm, "halt")) /\ Ready
    BY <1>12 DEF InvalidOp, Exec
  <2>2. After(Handle(Throw(vm, "halt")))
    BY <2>1, ReadyIs, ThrowAfter
  <2> QED BY <2>1, <2>2, ExecInv
<1>13. ASSUME SelfDestructOp
       PROVE  Inv'
  <2>1. PICK b \in Addr, poor \in BOOLEAN : Exec(SelfDestruct(vm, b, poor)) /\ Ready
    BY <1>13 DEF SelfDestructOp, Exec
  <2>2. After(Handle(SelfDestruct(vm, b, poor)))
    BY <2>1, ReadyIs, SelfDestructAfter
  <2> QED BY <2>1, <2>2, ExecInv
<1>14. ASSUME FinishFrame
       PROVE  Inv'
  <2>1. PICK bad \in BOOLEAN : FinishWith(bad)
    BY <1>14 DEF FinishFrame
  <2>2. Good(vm) /\ phase = "running"
    BY <2>1 DEF Inv, FinishWith, Trapped
  <2>3. Top(vm) \in Nat \ {0} /\ Top(vm) = Len(vm.frames)
    BY <2>2, TopFacts DEF Good, Top
  <2> DEFINE y == Epilogue(vm, bad)
  <2>4. CASE Top(vm) > 1
    <3>1. vm' = Handle(FinishChild(y)) /\ phase' = "running"
      BY <2>1, <2>2, <2>3, <2>4 DEF FinishWith
    <3>2. After(Handle(FinishChild(y)))
      BY <2>2, <2>4, FinishAfter
    <3>3. After(vm')
      BY <3>1, <3>2
    <3> QED BY <3>1, <3>3 DEF Inv, After
  <2>5. CASE Top(vm) = 1
    <3>1. vm' = Release(y, Ev(y)) /\ phase' = "done"
      BY <2>1, <2>2, <2>3, <2>5 DEF FinishWith
    <3>2. Over(vm, y)
      BY <2>2, EpilogueOver
    <3>3. Ended(vm')
      BY <2>2, <2>5, <3>1, <3>2, LastEnds
    <3> QED BY <3>1, <3>3 DEF Inv
  <2>6. \A k \in Nat \ {0} : k > 1 \/ k = 1
    OBVIOUS
  <2> QED BY <2>3, <2>4, <2>5, <2>6
<1>15. ASSUME UNCHANGED vars
       PROVE  Inv'
  BY <1>15 DEF Inv, vars
<1> QED BY <1>1, <1>2, <1>3, <1>4, <1>5, <1>6, <1>7, <1>8, <1>9, <1>10, <1>11, <1>12, <1>13, <1>14, <1>15 DEF Next

\* Inv is an invariant: run_frames, with every instruction, every end of a frame and every start of
\* a transaction, keeps the frames, the journal, the arena and the gas in step.
THEOREM InvHolds == Spec => []Inv
<1>1. Init => Inv
  BY InitInv
<1>2. Inv /\ [Next]_vars => Inv'
  BY NextInv
<1> QED BY <1>1, <1>2, PTL DEF Spec
-----------------------------------------------------------------------------
(***************************************************************************)
(* What the invariant says of every transaction.                           *)
(***************************************************************************)
\* A list without repetition has as many members as entries.
LEMMA DistinctCount ==
  ASSUME NEW S, NEW s \in Seq(S), Distinct(s)
  PROVE  Cardinality(Elems(s)) = Len(s)
<1> DEFINE n == Len(s)
           T == Elems(s)
<1>1. n \in Nat /\ DOMAIN s = 1 .. n /\ s = [i \in 1 .. n |-> s[i]]
  OBVIOUS
<1>2. T = {s[i] : i \in 1 .. n}
  BY <1>1 DEF Elems
<1> HIDE DEF n, T
<1>3. \A i \in 1 .. n : s[i] \in T
  BY <1>2
<1>4. s \in [1 .. n -> T]
  BY <1>1, <1>3
<1>5. s \in Bijection(1 .. n, T)
  <2>1. \A i, j \in 1 .. n : s[i] = s[j] => i = j
    BY <1>1 DEF Distinct
  <2>2. s \in Injection(1 .. n, T)
    BY <1>4, <2>1 DEF Injection, IsInjective
  <2>3. \A t \in T : \E i \in 1 .. n : s[i] = t
    BY <1>2
  <2>4. s \in Surjection(1 .. n, T)
    BY <1>4, <2>3 DEF Surjection
  <2> QED BY <2>2, <2>4 DEF Bijection
<1>6. ExistsBijection(1 .. n, T)
  BY <1>5 DEF ExistsBijection
<1>7. IsFiniteSet(1 .. n) /\ Cardinality(1 .. n) = n
  <2>1. n \in Int /\ 1 \in Int
    BY <1>1
  <2>2. /\ IsFiniteSet(1 .. n)
        /\ Cardinality(1 .. n) = IF 1 > n THEN 0 ELSE n - 1 + 1
    BY <2>1, FS_Interval
  <2>3. (IF 1 > n THEN 0 ELSE n - 1 + 1) = n
    BY <1>1
  <2> QED BY <2>2, <2>3
<1> QED BY <1>6, <1>7, FS_Bijection DEF n, T

\* In every phase the machine is one of the kind the handlers work on.
LEMMA InvTyped ==
  ASSUME Inv
  PROVE  /\ Typed(vm) /\ vm.err = "none" /\ phase \in {"start", "running", "done"}
         /\ phase = "start" => vm.frames = <<>>
         /\ phase = "running" /\ vm.trap = 0 => Good(vm)
         /\ phase = "running" => Views(vm)
         /\ phase = "done" => Ended(vm)
<1>1. CASE phase = "start" /\ vm = Idle
  BY <1>1, IdleIs DEF Fine
<1>2. CASE phase = "running" /\ Good(vm)
  BY <1>2 DEF Good, Core, Base, Sound, Fixture
<1>3. CASE phase = "running" /\ Trapped(vm)
  BY <1>3 DEF Trapped, Typed
<1>4. CASE phase = "done" /\ Ended(vm)
  BY <1>4 DEF Ended
<1> QED BY <1>1, <1>2, <1>3, <1>4 DEF Inv

\* Each of the invariants the runs check follows from Inv.
LEMMA InvTypeOK == Inv => TypeOK
<1> SUFFICES ASSUME Inv
             PROVE  TypeOK
  OBVIOUS
<1>1. Typed(vm) /\ vm \in Machine /\ vm.err = "none" /\ phase \in {"start", "running", "done"}
  BY InvTyped DEF Typed
<1>2. \A i \in Depth : vm.frames[i] \in FrameState
  <2>1. vm.frames \in Seq(FrameState)
    BY <1>1, MachineFields
  <2> HIDE DEF FrameState
  <2> QED BY <2>1 DEF Depth
<1>3. vm.world \subseteq Objects /\ vm.created \subseteq New /\ vm.trap \in {0, 6, 7}
  BY <1>1, MachineFields
<1>4. ASSUME NEW set \in {"addrs", "keys"}
      PROVE  Cardinality(Elems(vm.warm[set])) = Len(vm.warm[set])
  <2>1. /\ vm.warm.addrs \in Seq(Addr) /\ Distinct(vm.warm.addrs)
        /\ vm.warm.keys \in Seq(Slot) /\ Distinct(vm.warm.keys)
    BY <1>1, MachineFields DEF Typed
  <2>2. CASE set = "addrs"
    BY <2>1, <2>2, DistinctCount
  <2>3. CASE set = "keys"
    BY <2>1, <2>3, DistinctCount
  <2> QED BY <2>2, <2>3
<1> QED BY <1>1, <1>2, <1>3, <1>4 DEF TypeOK

LEMMA InvGasConserved == Inv => GasConserved
<1> SUFFICES ASSUME Inv, phase # "start", vm.trap = 0, NEW i \in Depth
             PROVE  vm.frames[i].gas = vm.frames[i].left + vm.frames[i].used + vm.frames[i].spilled
                      + (IF i < Len(vm.frames) THEN vm.frames[i + 1].gas ELSE 0)
                      + (IF i = 1 THEN vm.auth.spilled ELSE 0)
  BY DEF GasConserved
<1>1. Balanced(vm) /\ vm \in Machine /\ Top(vm) >= 1
  BY InvTyped DEF Good, Core, Base, Sound, Ended, Typed
<1>2. i \in 1 .. Top(vm) /\ \A j \in 1 .. Top(vm) : vm.frames[j] \in FrameState
  BY <1>1, FrameAt DEF Depth, Top
<1> DEFINE f == vm.frames[i]
           c == IF i < Top(vm) THEN vm.frames[i + 1].gas ELSE 0
           a == IF i = 1 THEN vm.auth.spilled ELSE 0
<1>3. f.gas = Held(f) + (c + a)
  BY <1>1, <1>2 DEF Balanced, Owed
<1>4. f.left \in Nat /\ f.used \in Nat /\ f.spilled \in Nat
  BY <1>2, FrameFields
<1>5. c \in Nat
  <2>1. CASE i < Top(vm)
    <3>1. i + 1 \in 1 .. Top(vm)
      BY <1>1, <1>2, <2>1, FrameAt
    <3>2. vm.frames[i + 1].gas \in Nat
      BY <1>2, <3>1, FrameFields
    <3> QED BY <2>1, <3>2
  <2>2. CASE ~(i < Top(vm))
    BY <2>2
  <2> QED BY <2>1, <2>2
<1>6. a \in Nat
  BY <1>1, MachineFields
<1>7. Held(f) = f.left + f.used + f.spilled
  BY DEF Held
<1>8. f.gas = f.left + f.used + f.spilled + c + a
  <2> HIDE DEF f, c, a
  <2> QED BY <1>3, <1>4, <1>5, <1>6, <1>7
<1> QED BY <1>8 DEF Top

LEMMA InvStateGasPays == Inv => StateGasPaysForGrowth
<1> SUFFICES ASSUME Inv, phase # "start", vm.trap = 0, NEW i \in Depth
             PROVE  LET f   == vm.frames[i]
                        top == i = Len(vm.frames)
                        c   == vm.frames[i + 1]
                        now == IF top THEN CostOf(vm.world) ELSE CostOf(c.was.world)
                        own == StateGasUsed(f) + (IF i = 1 THEN vm.auth.used ELSE 0)
                    IN  \/ top /\ f.err # "none" /\ phase = "running"
                        \/ own + Prepaid(f) + CostOf(f.was.world)
                           = now + (IF top THEN 0 ELSE c.rsv + Prepaid(c))
  BY DEF StateGasPaysForGrowth
<1> HIDE DEF CostOf, Prepaid, StateGasUsed
<1>1. vm \in Machine /\ Top(vm) >= 1
  BY InvTyped DEF Good, Core, Base, Sound, Ended, Typed
<1>2. /\ i \in 1 .. Top(vm) /\ Top(vm) \in Nat /\ \A j \in 1 .. Top(vm) : vm.frames[j] \in FrameState
      /\ Ev(vm) = vm.frames[Top(vm)] /\ Top(vm) = Len(vm.frames)
  BY <1>1, FrameAt DEF Depth, Top
<1>3. Paid(vm, i) = StateGasUsed(vm.frames[i]) + (IF i = 1 THEN vm.auth.used ELSE 0)
                      + Prepaid(vm.frames[i]) + CostOf(vm.frames[i].was.world)
  BY DEF Paid, Own
<1>4. CASE i = Top(vm)
  <2>1. (phase = "running" /\ vm.frames[i].err # "none") \/ Paid(vm, i) = CostOf(vm.world)
    BY <1>2, <1>4, InvTyped DEF Good, TopPaid, Ended
  <2>2. CostOf(vm.world) = CostOf(vm.world) + 0
    <3>1. CostOf(vm.world) \in Nat
      BY <1>1, MachineFields, CostNat
    <3> QED BY <3>1
  <2> HIDE DEF Paid
  <2> QED BY <1>2, <1>3, <1>4, <2>1, <2>2
<1>5. CASE i < Top(vm)
  <2>1. LowerPaid(vm)
    <3>1. phase # "done"
      BY <1>2, <1>5, InvTyped DEF Ended
    <3> QED BY <3>1, InvTyped DEF Good, Core
  <2>2. i \in 1 .. Top(vm) - 1
    BY <1>2, <1>5
  <2>3. i + 1 \in 1 .. Top(vm)
    BY <1>2, <1>5
  <2> DEFINE c == vm.frames[i + 1]
  <2>4. Paid(vm, i) = CostOf(c.was.world) + c.rsv + Prepaid(c)
    BY <2>1, <2>2 DEF LowerPaid
  <2>5. CostOf(c.was.world) \in Nat /\ c.rsv \in Nat /\ Prepaid(c) \in Nat
    BY <1>1, <1>2, <2>3, PaidInt, FrameFields
  <2>6. Paid(vm, i) = CostOf(c.was.world) + (c.rsv + Prepaid(c))
    <3> HIDE DEF c, Paid
    <3> QED BY <2>4, <2>5
  <2> HIDE DEF Paid
  <2> QED BY <1>2, <1>3, <1>5, <2>6
<1> QED BY <1>2, <1>4, <1>5

LEMMA InvDoomed == Inv => DoomedWereCreated
<1> SUFFICES ASSUME Inv, phase = "done", Ev(vm).err = "none", NEW a \in Ev(vm).doomed
             PROVE  <<a, "nonce">> \in vm.world
  BY ZenonT(40) DEF DoomedWereCreated
<1>1. Ended(vm) /\ vm \in Machine /\ Top(vm) = 1 /\ Top(vm) >= 1
  BY InvTyped DEF Ended, Typed
<1>2. Ev(vm) = vm.frames[1]
  BY <1>1, FrameAt
<1> QED BY <1>1, <1>2 DEF Ended, Nonce

LEMMA InvSlicesApart == Inv => SlicesApart
<1> SUFFICES ASSUME Inv
             PROVE  SlicesApart
  OBVIOUS
<1>1. Typed(vm) /\ vm \in Machine /\ (phase = "running" /\ vm.trap = 0 => Slices(vm) /\ Top(vm) >= 1)
      /\ (phase = "done" => vm.up = 0 /\ vm.down = ArenaSize)
  BY InvTyped DEF Good, Core, Base, Fixture, Sound, Ended, Typed
<1>2. 0 <= vm.up /\ vm.up <= vm.down /\ vm.down <= ArenaSize
  BY <1>1, MachineFields DEF Typed
<1>3. ASSUME phase = "running", vm.trap = 0, NEW i \in Depth
      PROVE  LET f    == vm.frames[i]
                 top  == i = Len(vm.frames)
                 up   == IF top THEN vm.up ELSE vm.frames[i + 1].memMark
                 down == IF top THEN vm.down ELSE vm.frames[i + 1].mark
             IN  /\ f.mem = f.memMark /\ f.mem + f.cap = up /\ f.len <= f.cap
                 /\ down <= f.stk /\ f.stk + f.scap <= f.mark /\ f.n <= f.scap
  <2>1. Slices(vm) /\ i \in 1 .. Top(vm)
    BY <1>1, <1>3 DEF Depth, Top
  <2>2. vm.frames[i].mem = vm.frames[i].memMark /\ Lies(vm.frames[i], UpOf(vm, i), DownOf(vm, i))
    BY <2>1 DEF Slices
  <2> QED BY <2>2 DEF Lies, UpOf, DownOf, Top
<1> QED BY <1>1, <1>2, <1>3 DEF SlicesApart

LEMMA InvViewsLive == Inv => ViewsLive
<1> SUFFICES ASSUME Inv, phase = "running"
             PROVE  ViewsLive
  BY DEF ViewsLive
<1>1. Views(vm)
  BY InvTyped
<1> QED BY <1>1 DEF Views, ViewsLive, Depth, Top
-----------------------------------------------------------------------------
(***************************************************************************)
(* What an instruction does not touch is the world, whatever else it does. *)
(***************************************************************************)
Shows(v, w) == "world" \in DOMAIN v /\ "err" \in DOMAIN v /\ v.world = w

\* Setting a field other than the world leaves the world alone.
LEMMA ShowsWith ==
  ASSUME NEW v, NEW w, Shows(v, w)
  PROVE  /\ \A f : Shows(With(v, f), w) /\ Shows([v EXCEPT !.frames = f], w) /\ Shows([v EXCEPT !.err = f], w)
         /\ \A a : Shows([v EXCEPT !.trap = a], w) /\ Shows([v EXCEPT !.up = a], w)
                   /\ Shows([v EXCEPT !.down = a], w) /\ Shows([v EXCEPT !.warm = a], w)
<1>1. ASSUME NEW f
      PROVE  Shows([v EXCEPT !.frames = f], w) /\ Shows([v EXCEPT !.err = f], w)
             /\ Shows([v EXCEPT !.trap = f], w) /\ Shows([v EXCEPT !.up = f], w)
             /\ Shows([v EXCEPT !.down = f], w) /\ Shows([v EXCEPT !.warm = f], w)
  BY DEF Shows
<1>2. ASSUME NEW f
      PROVE  Shows(With(v, f), w)
  BY <1>1 DEF With
<1> QED BY <1>1, <1>2

LEMMA WithShows ==
  ASSUME NEW v, NEW w, Shows(v, w), NEW f
  PROVE  Shows(With(v, f), w)
BY ShowsWith

\* Exceptions and allocations write nothing.
LEMMA ShowsErr ==
  ASSUME NEW v, NEW w, Shows(v, w)
  PROVE  /\ \A e : Shows(Throw(v, e), w) /\ Shows(Require(v, e), w)
         /\ \A n : Shows(ScratchAlloc(v, n), w) /\ Shows(FrameMemAlloc(v, n), w)
<1>1. ASSUME NEW e
      PROVE  Shows(Throw(v, e), w) /\ Shows(Throw(v, "halt"), w)
  BY ShowsWith DEF Throw
<1>2. ASSUME NEW ok
      PROVE  Shows(Require(v, ok), w)
  BY <1>1 DEF Require
<1>3. ASSUME NEW n
      PROVE  Shows(ScratchAlloc(v, n), w) /\ Shows(FrameMemAlloc(v, n), w)
  BY ShowsWith DEF ScratchAlloc, FrameMemAlloc
<1> QED BY <1>1, <1>2, <1>3

\* Nor do charges, operands and memory,
LEMMA ShowsGas ==
  ASSUME NEW v, NEW w, Shows(v, w)
  PROVE  /\ \A a : Shows(Charge(v, a), w) /\ Shows(ChargeState(v, a), w) /\ Shows(Credit(v, a), w)
         /\ \A k : Shows(Pop(v, k), w) /\ Shows(Extend(v, k), w)
         /\ Shows(Push(v), w) /\ Shows(TakeReservoir(v), w) /\ Shows(Refill(v), w) /\ Shows(FrameHalt(v), w)
<1>1. ASSUME NEW a
      PROVE  Shows(Charge(v, a), w) /\ Shows(ChargeState(v, a), w) /\ Shows(Credit(v, a), w)
  <2>1. \E g : Charge(v, a) = IF ~Fine(v) THEN v
                               ELSE IF Ev(v).left < a THEN Throw(v, "halt") ELSE With(v, g)
    BY DEF Charge
  <2>2. \E g : ChargeState(v, a)
               = IF ~Fine(v) THEN v
                 ELSE IF Ev(v).left < Greatest(a - Ev(v).sleft, 0) THEN Throw(v, "halt") ELSE With(v, g)
    BY DEF ChargeState
  <2>3. \E g : Credit(v, a) = IF ~Fine(v) THEN v ELSE With(v, g)
    BY DEF Credit
  <2>4. Shows(Throw(v, "halt"), w)
    BY ShowsErr
  <2> QED BY <2>1, <2>2, <2>3, <2>4, WithShows
<1>2. ASSUME NEW k
      PROVE  Shows(Pop(v, k), w)
  BY ShowsWith, ShowsErr, ZenonT(40) DEF Pop
<1>3. ASSUME NEW n
      PROVE  Shows(Extend(v, n), w)
  <2> DEFINE nlen == Ev(v).len + n
             ncap == NewCap(Ev(v), nlen)
             y    == FrameMemAlloc(v, ncap - Ev(v).cap)
             g    == [Ev(v) EXCEPT !.cap = ncap, !.len = nlen]
  <2>1. Extend(v, n) = IF n = 0 \/ ~Fine(y) THEN y ELSE With(y, g)
    BY ZenonT(40) DEF Extend
  <2>2. Shows(y, w)
    BY ShowsErr
  <2> HIDE DEF y, g
  <2>3. Shows(With(y, g), w)
    BY <2>2, WithShows
  <2> QED BY <2>1, <2>2, <2>3
<1>4. Shows(Push(v), w)
  <2> DEFINE ncap == Least(2 * Ev(v).scap, StackLimit)
             y    == ScratchAlloc(v, ncap)
             g    == [Ev(v) EXCEPT !.n = @ + 1]
             h    == [Ev(v) EXCEPT !.stk = y.down, !.scap = ncap, !.n = @ + 1]
  <2>1. Push(v) = IF ~Fine(v) THEN v
                  ELSE IF Ev(v).n < Ev(v).scap THEN With(v, g)
                  ELSE IF Ev(v).scap >= StackLimit THEN Throw(v, "halt") ELSE With(y, h)
    BY DEF Push
  <2>2. Shows(y, w)
    BY ShowsErr
  <2> HIDE DEF y, g, h
  <2>3. Shows(With(y, h), w) /\ Shows(With(v, g), w)
    BY <2>2, WithShows
  <2>4. Shows(Throw(v, "halt"), w)
    BY ShowsErr
  <2> QED BY <2>1, <2>3, <2>4
<1>5. Shows(TakeReservoir(v), w) /\ Shows(Refill(v), w) /\ Shows(FrameHalt(v), w)
  BY ShowsWith DEF TakeReservoir, Refill, FrameHalt
<1> QED BY <1>1, <1>2, <1>3, <1>4, <1>5

\* the lists of accessed things,
LEMMA ShowsAccess ==
  ASSUME NEW v, NEW w, Shows(v, w), NEW set, NEW x
  PROVE  /\ Shows(Warm(v, set, x), w)
         /\ \A more : Shows(Access(v, set, x, more), w)
<1>1. ASSUME NEW u, Shows(u, w)
      PROVE  Shows(Warm(u, set, x), w)
  BY <1>1, ShowsWith DEF Warm
<1>2. ASSUME NEW more
      PROVE  Shows(Access(v, set, x, more), w)
  <2>1. Shows(Charge(v, AccessCost(v, set, x) + more), w)
    BY ShowsGas
  <2> QED BY <1>1, <2>1 DEF Access
<1> QED BY <1>1, <1>2

\* the handler of exceptions,
LEMMA ShowsHandle ==
  ASSUME NEW v, NEW w, Shows(v, w)
  PROVE  Shows(Handle(v), w)
<1> DEFINE y == Refill([v EXCEPT !.err = "none"])
           z == IF v.err = "revert" THEN With(y, [Ev(y) EXCEPT !.err = "revert"]) ELSE FrameHalt(y)
<1>1. Handle(v) = IF v.err = "none" THEN v ELSE With(z, [Ev(z) EXCEPT !.running = FALSE])
  BY DEF Handle
<1>2. Shows(y, w)
  BY ShowsWith, ShowsGas
<1> HIDE DEF y
<1>3. Shows(z, w)
  BY <1>2, ShowsWith, ShowsGas
<1> HIDE DEF z
<1>4. \A f : Shows(With(z, f), w)
  BY <1>3, WithShows
<1> QED BY <1>1, <1>4

\* and what a call gives back.
LEMMA ShowsGiveBack ==
  ASSUME NEW v, NEW w, Shows(v, w), NEW a, NEW b, NEW c
  PROVE  Shows(GiveBack(v, a, b, c), w)
<1> DEFINE y == IF Fine(v) THEN With(v, [Ev(v) EXCEPT !.left = @ + a, !.sleft = @ + b]) ELSE v
<1>1. GiveBack(v, a, b, c) = IF c THEN Credit(y, StateGas.account) ELSE y
  BY DEF GiveBack
<1>2. Shows(y, w)
  BY ShowsWith
<1> HIDE DEF y
<1> QED BY <1>1, <1>2, ShowsGas

\* A child that is no creation and brings no value writes nothing by starting.
LEMMA ShowsStart ==
  ASSUME NEW v, NEW w, Shows(v, w), NEW m, m.transfer = FALSE, m.kind # "create"
  PROVE  Shows(StartChild(v, m), w)
<1>1. ASSUME NEW u, Shows(u, w)
      PROVE  Shows(Open(u, m), w)
  <2> DEFINE y1 == ScratchAlloc(u, StackInit)
             y2 == FrameMemAlloc(y1, MemInit)
             y3 == ScratchAlloc(y2, FrameSize)
  <2>1. \E q : Open(u, m) = IF ~Fine(y3) THEN y3 ELSE [y3 EXCEPT !.frames = q]
    BY DEF Open
  <2>2. Shows(y1, w)
    BY <1>1, ShowsErr
  <2> HIDE DEF y1
  <2>3. Shows(y2, w)
    BY <2>2, ShowsErr
  <2> HIDE DEF y2
  <2>4. Shows(y3, w)
    BY <2>3, ShowsErr
  <2> HIDE DEF y3
  <2>5. \A q : Shows([y3 EXCEPT !.frames = q], w)
    BY <2>4, ShowsWith
  <2> QED BY <2>1, <2>4, <2>5
<1>2. ASSUME NEW u, Shows(u, w)
      PROVE  Shows(FrameStart(u, m), w)
  <2> DEFINE z   == Charge(u, Gas.base)
             run == IF Fine(z) THEN With(z, [Ev(z) EXCEPT !.out = m.data]) ELSE z
             e   == With(run, [Ev(run) EXCEPT !.running = FALSE])
  <2>1. FrameStart(u, m) = IF ~Fine(u) THEN u ELSE IF m.precompile THEN Handle(e) ELSE u
    BY DEF FrameStart
  <2>2. Shows(z, w)
    BY <1>2, ShowsGas
  <2> HIDE DEF z
  <2>3. Shows(run, w)
    BY <2>2, ShowsWith
  <2> HIDE DEF run
  <2>4. Shows(e, w)
    BY <2>3, ShowsWith
  <2> HIDE DEF e
  <2> QED BY <1>2, <2>1, <2>4, ShowsHandle
<1>3. Shows(ScratchAlloc(v, MsgSize), w)
  BY ShowsErr
<1> QED BY <1>1, <1>2, <1>3 DEF StartChild

\* After a thrown exception or a trap nothing more happens.
Stuck(x) ==
  /\ ~Fine(x)
  /\ \A a : Charge(x, a) = x /\ ChargeState(x, a) = x /\ Credit(x, a) = x /\ Pop(x, a) = x /\ Extend(x, a) = x
  /\ \A a, b, c : Access(x, a, b, c) = x /\ Warm(x, a, b) = x
  /\ \A a : Write(x, a) = x /\ Bring(x, a) = x /\ Require(x, a) = x

\* Every helper returns a stopped machine unchanged.
LEMMA StuckIs ==
  ASSUME NEW x, ~Fine(x)
  PROVE  Stuck(x)
<1>1. ASSUME NEW a
      PROVE  Charge(x, a) = x /\ ChargeState(x, a) = x /\ Credit(x, a) = x /\ Pop(x, a) = x
  <2>1. Charge(x, a) = x
    BY Zenon DEF Charge
  <2>2. ChargeState(x, a) = x
    BY Zenon DEF ChargeState
  <2>3. Credit(x, a) = x
    BY Zenon DEF Credit
  <2>4. Pop(x, a) = x
    BY Zenon DEF Pop
  <2> QED BY <2>1, <2>2, <2>3, <2>4
<1>2. ASSUME NEW a
      PROVE  Extend(x, a) = x
  <2>1. \A k : FrameMemAlloc(x, k) = x
    BY Zenon DEF FrameMemAlloc
  <2>2. \E k, q : Extend(x, a) = LET y == FrameMemAlloc(x, k) IN IF a = 0 \/ ~Fine(y) THEN y ELSE q
    BY Zenon DEF Extend
  <2> QED BY <2>1, <2>2
<1>3. \A a, b : Warm(x, a, b) = x
  BY DEF Warm
<1>4. \A a, b, c : Access(x, a, b, c) = x
  BY <1>1, <1>3 DEF Access
<1>5. \A a : Write(x, a) = x /\ Bring(x, a) = x /\ Require(x, a) = x
  BY DEF Write, Bring, Require, Throw
<1> QED BY <1>1, <1>2, <1>3, <1>4, <1>5 DEF Stuck

\* require_not_static in a static frame stops the machine.
LEMMA Refused ==
  ASSUME NEW v, NEW w, Shows(v, w)
  PROVE  LET x == Require(v, FALSE) IN Shows(x, w) /\ Stuck(x)
<1> DEFINE x == Require(v, FALSE)
<1>1. ~Fine(x)
  <2>1. CASE ~Fine(v)
    BY <2>1 DEF Require, Throw
  <2>2. CASE Fine(v)
    <3>1. x = [v EXCEPT !.err = "halt"]
      BY <2>2 DEF Require, Throw
    <3>2. x.err = "halt"
      BY <3>1 DEF Shows
    <3> QED BY <3>2 DEF Fine
  <2> QED BY <2>1, <2>2, ZenonT(40)
<1> QED BY <1>1, StuckIs, ShowsErr, ZenonT(40)

\* So none of the writing instructions writes in a static frame.
LEMMA SstoreShows ==
  ASSUME NEW v, NEW w, Shows(v, w), Ev(v).static = TRUE, NEW s, NEW on
  PROVE  Shows(Sstore(v, s, on), w)
<1> DEFINE x == Require(v, FALSE)
<1>1. Shows(x, w) /\ Stuck(x)
  BY Refused
<1>2. Require(v, ~Ev(v).static) = x
  OBVIOUS
<1> HIDE DEF x
<1> DEFINE y1   == Pop(Require(v, ~Ev(v).static), 2)
           cost == AccessCost(y1, "keys", s)
           y2   == Require(y1, Ev(y1).left >= Greatest(cost, Gas.stipend + 1))
           y3   == Access(y2, "keys", s, 0)
           was  == s \in v.world
           off  == was /\ ~on
           y4   == IF off THEN Credit(y3, StateGas.slot) ELSE y3
           y5   == IF off /\ Fine(y4) THEN With(y4, [Ev(y4) EXCEPT !.refund = @ + Gas.write]) ELSE y4
           y6   == Charge(y5, IF on /\ ~was THEN Gas.write ELSE 0)
           y7   == IF on /\ ~was THEN ChargeState(y6, StateGas.slot) ELSE y6
           u    == IF on THEN v.world \cup {s} ELSE v.world \ {s}
<1>3. Sstore(v, s, on) = Write(y7, u)
  BY DEF Sstore
<1>4. y1 = x
  BY <1>1, <1>2 DEF Stuck
<1> HIDE DEF y1
<1>5. y2 = x
  BY <1>1, <1>4 DEF Stuck
<1> HIDE DEF y2
<1>6. y3 = x
  BY <1>1, <1>5 DEF Stuck
<1> HIDE DEF y3
<1>7. y4 = x
  BY <1>1, <1>6 DEF Stuck
<1> HIDE DEF y4
<1>8. y5 = x
  BY <1>1, <1>7 DEF Stuck
<1> HIDE DEF y5
<1>9. y6 = x
  BY <1>1, <1>8 DEF Stuck
<1> HIDE DEF y6
<1>10. y7 = x
  BY <1>1, <1>9 DEF Stuck
<1> HIDE DEF y7, u
<1> QED BY <1>1, <1>3, <1>10 DEF Stuck

LEMMA SelfDestructShows ==
  ASSUME NEW v, NEW w, Shows(v, w), Ev(v).static = TRUE, NEW b, NEW poor
  PROVE  Shows(SelfDestruct(v, b, poor), w)
<1> DEFINE x == Require(v, FALSE)
<1>1. Shows(x, w) /\ Stuck(x)
  BY Refused
<1>2. Require(v, ~Ev(v).static) = x
  OBVIOUS
<1> HIDE DEF x
<1> DEFINE y1  == Access(Pop(Require(v, ~Ev(v).static), 1), "addrs", b, Gas.base)
           new == ~poor /\ ~IsAlive(y1, b)
           y2  == IF new THEN ChargeState(Charge(y1, Gas.account), StateGas.account) ELSE y1
           y3  == IF poor THEN y2 ELSE Bring(y2, {b})
           f   == Ev(y3)
<1>3. y1 = x
  BY <1>1, <1>2 DEF Stuck
<1> HIDE DEF y1
<1>4. y2 = x
  BY <1>1, <1>3 DEF Stuck
<1> HIDE DEF y2
<1>5. y3 = x
  BY <1>1, <1>4 DEF Stuck
<1>6. ~Fine(y3) => SelfDestruct(v, b, poor) = y3
  BY DEF SelfDestruct, y1, y2
<1> HIDE DEF y3
<1> QED BY <1>1, <1>5, <1>6 DEF Stuck

LEMMA CreateShows ==
  ASSUME NEW v, NEW w, Shows(v, w), Ev(v).static = TRUE, NEW to, NEW r, NEW poor
  PROVE  Shows(Create(v, to, r, poor), w)
<1> DEFINE x == Require(Pop(v, CallArgs), FALSE)
<1>1. Shows(x, w) /\ Stuck(x)
  <2>1. Shows(Pop(v, CallArgs), w)
    BY ShowsGas
  <2> QED BY <2>1, Refused
<1>2. Require(Pop(v, CallArgs), ~Ev(v).static) = x
  OBVIOUS
<1> HIDE DEF x
<1> DEFINE y1 == Require(Pop(v, CallArgs), ~Ev(v).static)
           n  == Beyond(y1, r)
           y2 == Extend(Charge(y1, Gas.create + ExtendCost(n)), n)
<1>3. ~Fine(y2) => Create(v, to, r, poor) = y2
  BY DEF Create
<1>4. y1 = x
  BY <1>2
<1> HIDE DEF y1, n
<1>5. y2 = x
  BY <1>1, <1>4 DEF Stuck
<1> HIDE DEF y2
<1> QED BY <1>1, <1>3, <1>5 DEF Stuck

LEMMA CallShows ==
  ASSUME NEW v, NEW w, Shows(v, w), Ev(v).static = TRUE, NEW kind \in CallKinds, NEW to, NEW value, NEW req,
         NEW r, NEW poor
  PROVE  Shows(Call(v, kind, to, value, req, r, poor), w)
<1> DEFINE y1   == Require(Pop(v, CallArgs), ~(kind = "call" /\ value /\ Ev(v).static))
           n    == Beyond(y1, r)
           c2   == ExtendCost(n) + IF value THEN Gas.value ELSE 0
           y2   == Access(y1, "addrs", to, c2)
           new  == kind = "call" /\ value /\ ~IsAlive(y2, to)
           y3   == IF new THEN ChargeState(y2, StateGas.account) ELSE y2
           left == Ev(y3).left
           g    == Least(req, left - left \div Fraction)
           sub  == g + IF value THEN Gas.stipend ELSE 0
           y4   == Charge(y3, g)
           e4   == With(y4, [Ev(y4) EXCEPT !.used = @ - sub])
           y5   == IF Fine(y4) THEN Extend(e4, n) ELSE y4
           m    == [Message(y5, kind, IF kind \in {"call", "static"} THEN to ELSE Ev(y5).self, sub)
                      EXCEPT !.code = HasCode(y5, to), !.charged = new,
                             !.transfer = kind = "call" /\ value /\ to # Ev(y5).self,
                             !.precompile = to = Identity,
                             !.data = <<Ev(y5).mem, r>>, !.ret = r]
           y6   == TakeReservoir(y5)
<1>1. Call(v, kind, to, value, req, r, poor)
      = IF ~Fine(y5) THEN y5
        ELSE IF poor \/ Len(v.frames) > DepthLimit THEN GiveBack(Push(y6), sub, m.rsv, new)
        ELSE StartChild(y6, m)
  BY ZenonT(40) DEF Call
<1>2. Shows(Pop(v, CallArgs), w)
  BY ShowsGas
<1>3. CASE kind = "call" /\ value
  <2>1. y1 = Require(Pop(v, CallArgs), FALSE)
    BY <1>3
  <2>2. Shows(y1, w) /\ Stuck(y1)
    BY <1>2, <2>1, Refused
  <2> HIDE DEF y1, c2
  <2>3. y2 = y1
    BY <2>2 DEF Stuck
  <2> HIDE DEF y2
  <2>4. y3 = y1
    BY <2>2, <2>3 DEF Stuck
  <2> HIDE DEF y3, g
  <2>5. y4 = y1
    BY <2>2, <2>4 DEF Stuck
  <2> HIDE DEF y4, e4
  <2>6. y5 = y1 /\ ~Fine(y5)
    BY <2>2, <2>5 DEF Stuck
  <2> HIDE DEF y5, y6, m
  <2> QED BY <1>1, <2>2, <2>6
<1>4. CASE ~(kind = "call" /\ value)
  <2>1. m.transfer = FALSE /\ m.kind # "create"
    <3>1. kind # "create"
      BY DEF CallKinds
    <3> HIDE DEF y5, new, sub
    <3>2. m.kind = kind /\ m.transfer = (kind = "call" /\ value /\ to # Ev(y5).self)
      BY DEF Message
    <3> QED BY <1>4, <3>1, <3>2
  <2> HIDE DEF m
  <2>2. Shows(y1, w)
    BY <1>2, ShowsErr
  <2> HIDE DEF y1, c2
  <2>3. Shows(y2, w)
    BY <2>2, ShowsAccess
  <2> HIDE DEF y2, new
  <2>4. Shows(y3, w)
    <3>1. Shows(ChargeState(y2, StateGas.account), w)
      BY <2>3, ShowsGas
    <3> QED BY <2>3, <3>1
  <2> HIDE DEF y3, g, sub
  <2>5. Shows(y4, w)
    BY <2>4, ShowsGas
  <2> HIDE DEF y4
  <2>6. Shows(e4, w)
    BY <2>5, WithShows
  <2> HIDE DEF e4
  <2>7. Shows(y5, w)
    <3>1. Shows(Extend(e4, n), w)
      BY <2>6, ShowsGas
    <3> QED BY <2>5, <3>1
  <2> HIDE DEF y5
  <2>8. Shows(y6, w)
    BY <2>7, ShowsGas
  <2> HIDE DEF y6
  <2>9. Shows(GiveBack(Push(y6), sub, m.rsv, new), w)
    <3>1. Shows(Push(y6), w)
      BY <2>8, ShowsGas
    <3> QED BY <3>1, ShowsGiveBack
  <2>10. Shows(StartChild(y6, m), w)
    BY <2>1, <2>8, ShowsStart
  <2> QED BY <1>1, <2>7, <2>9, <2>10
<1> QED BY <1>3, <1>4

\* Leaving a frame writes nothing,
LEMMA LeaveShows ==
  ASSUME NEW v, NEW w, Shows(v, w), NEW r, NEW revert
  PROVE  Shows(Leave(v, r, revert), w)
<1> DEFINE y == Pop(v, 2)
           z == Extend(Charge(y, ExtendCost(Beyond(y, r))), Beyond(y, r))
           f == [Ev(z) EXCEPT !.out = <<Ev(z).mem, r>>, !.running = revert]
           x == With(z, f)
<1>1. Leave(v, r, revert) = IF ~Fine(z) THEN z ELSE IF revert THEN Throw(x, "revert") ELSE x
  BY DEF Leave
<1>2. Shows(y, w)
  BY ShowsGas
<1> HIDE DEF y
<1>3. Shows(z, w)
  <2>1. Shows(Charge(y, ExtendCost(Beyond(y, r))), w)
    BY <1>2, ShowsGas
  <2> QED BY <2>1, ShowsGas
<1> HIDE DEF z, f
<1>4. Shows(x, w)
  BY <1>3, WithShows
<1> HIDE DEF x
<1>5. Shows(Throw(x, "revert"), w)
  BY <1>4, ShowsErr
<1> QED BY <1>1, <1>3, <1>4, <1>5

\* and finishing a child neither.
LEMMA FinishShows ==
  ASSUME NEW v, NEW w, Shows(v, w)
  PROVE  Shows(FinishChild(v), w) /\ Shows(Release(v, Ev(v)), w)
<1> DEFINE child == Ev(v)
           q     == SubSeq(v.frames, 1, Len(v.frames) - 1)
           up    == [v EXCEPT !.frames = q]
           on    == IncorporateOnError(Truncate(up, child), child)
           y     == IF child.err = "none" THEN IncorporateOnSuccess(up, child)
                    ELSE GiveBack(on, 0, 0, child.charged)
<1>1. FinishChild(v) = Release(Push(y), child)
  BY DEF FinishChild
<1>2. ASSUME NEW u, Shows(u, w), NEW f
      PROVE  Shows(Release(u, f), w)
  BY <1>2 DEF Release, Shows
<1>3. Shows(up, w)
  BY ShowsWith
<1> HIDE DEF up, child
<1>4. Shows(on, w)
  <2>1. Shows(Truncate(up, child), w)
    BY <1>3, ShowsWith DEF Truncate
  <2>2. \E f : on = With(Truncate(up, child), f)
    BY DEF IncorporateOnError
  <2> HIDE DEF on
  <2> QED BY <2>1, <2>2, WithShows
<1> HIDE DEF on
<1>5. Shows(y, w)
  <2>1. \E f : IncorporateOnSuccess(up, child) = With(up, f)
    BY SuccessIs
  <2>2. Shows(IncorporateOnSuccess(up, child), w)
    BY <1>3, <2>1, WithShows
  <2>3. Shows(GiveBack(on, 0, 0, child.charged), w)
    BY <1>4, ShowsGiveBack
  <2> QED BY <2>2, <2>3
<1> HIDE DEF y
<1>6. Shows(Push(y), w)
  BY <1>5, ShowsGas
<1> QED BY <1>1, <1>2, <1>6
-----------------------------------------------------------------------------
\* Whatever runs below a static call is static itself, and its failure has
\* nothing to roll back.
LEMMA StaticTop ==
  ASSUME Inv, phase = "running", vm.trap = 0, NEW i \in Depth, vm.frames[i].static
  PROVE  /\ Ev(vm).static = TRUE /\ Shows(vm, vm.world)
         /\ \A bad : Epilogue(vm, bad) = vm
<1>1. Good(vm)
  BY InvTyped
<1>2. Static(vm) /\ Core(vm) /\ vm \in Machine
  BY <1>1 DEF Good, Core, Base, Fixture, Sound, Typed
<1>3. /\ Top(vm) \in 1 .. Top(vm) /\ Top(vm) \in Nat /\ Ev(vm) = vm.frames[Top(vm)] /\ Ev(vm) \in FrameState
      /\ i \in 1 .. Top(vm)
  BY <1>2, TopFacts DEF Depth, Top
<1>4. Top(vm) \in i .. Top(vm)
  BY <1>3
<1>5. Ev(vm).static
  BY <1>2, <1>3, <1>4 DEF Static
<1>6. Ev(vm).static = TRUE
  <2>1. Ev(vm).static \in BOOLEAN
    BY <1>3, FrameFields
  <2> QED BY <1>5, <2>1
<1>7. Ev(vm).kind # "create" /\ Ev(vm).snap >= Len(vm.journal)
  BY <1>2, <1>3, <1>5 DEF Static
<1>8. Restore(vm, Ev(vm).snap) = vm
  BY <1>7 DEF Restore
<1>9. ASSUME NEW bad
      PROVE  Epilogue(vm, bad) = vm
  BY <1>7, <1>8 DEF Epilogue
<1>10. Shows(vm, vm.world)
  BY <1>2 DEF Machine, Shows
<1> QED BY <1>6, <1>9, <1>10

\* No step writes while a frame is static: an instruction is refused, the epilogue of a static
\* frame has nothing to undo.
LEMMA StaticStep ==
  ASSUME Inv, [Next]_vars, NEW i \in Depth, vm.frames[i].static
  PROVE  vm'.world = vm.world
<1> DEFINE w == vm.world
<1>0. vm.frames # <<>>
  BY DEF Depth
<1>a. ASSUME NEW y, Exec(y), Shows(y, w)
      PROVE  vm'.world = w
  <2>1. vm' = Handle(y)
    BY <1>a DEF Exec
  <2>2. Shows(Handle(y), w)
    BY <1>a, ShowsHandle
  <2> QED BY <2>1, <2>2 DEF Shows
<1>b. Ready => /\ Ev(vm).static = TRUE /\ Shows(vm, w)
  BY StaticTop DEF Ready
<1> HIDE DEF w
<1>1. ASSUME StartTx
      PROVE  vm'.world = w
  <2>1. phase = "start"
    BY <1>1 DEF StartTx
  <2> QED BY <1>0, <2>1, InvTyped
<1>2. ASSUME PushOp
      PROVE  vm'.world = w
  <2>1. Exec(Push(Charge(vm, Gas.base))) /\ Shows(vm, w)
    BY <1>2, <1>b DEF PushOp, Exec
  <2>2. Shows(Charge(vm, Gas.base), w)
    BY <2>1, ShowsGas
  <2>3. Shows(Push(Charge(vm, Gas.base)), w)
    BY <2>2, ShowsGas
  <2> QED BY <1>a, <2>1, <2>3
<1>3. ASSUME PopOp
      PROVE  vm'.world = w
  <2>1. Exec(Charge(Pop(vm, 1), Gas.base)) /\ Shows(vm, w)
    BY <1>3, <1>b DEF PopOp, Exec
  <2>2. Shows(Pop(vm, 1), w)
    BY <2>1, ShowsGas
  <2>3. Shows(Charge(Pop(vm, 1), Gas.base), w)
    BY <2>2, ShowsGas
  <2> QED BY <1>a, <2>1, <2>3
<1>4. ASSUME MemOp
      PROVE  vm'.world = w
  <2>1. PICK n, a : Exec(Extend(Charge(vm, a), n)) /\ Shows(vm, w)
    BY <1>4, <1>b DEF MemOp, Exec
  <2>2. Shows(Charge(vm, a), w)
    BY <2>1, ShowsGas
  <2>3. Shows(Extend(Charge(vm, a), n), w)
    BY <2>2, ShowsGas
  <2> QED BY <1>a, <2>1, <2>3
<1>5. ASSUME TouchAddr \/ TouchSlot
      PROVE  vm'.world = w
  <2>1. PICK set, x : Exec(Push(Access(Pop(vm, 1), set, x, 0))) /\ Shows(vm, w)
    BY <1>5, <1>b DEF TouchAddr, TouchSlot, Exec
  <2>2. Shows(Pop(vm, 1), w)
    BY <2>1, ShowsGas
  <2>3. Shows(Access(Pop(vm, 1), set, x, 0), w)
    BY <2>2, ShowsAccess
  <2>4. Shows(Push(Access(Pop(vm, 1), set, x, 0)), w)
    BY <2>3, ShowsGas
  <2> QED BY <1>a, <2>1, <2>4
<1>6. ASSUME WriteSlot
      PROVE  vm'.world = w
  <2>1. PICK s \in Slot, on \in BOOLEAN : Exec(Sstore(vm, s, on)) /\ Ready
    BY <1>6 DEF WriteSlot, Exec
  <2>2. Shows(Sstore(vm, s, on), w)
    BY <1>b, <2>1, SstoreShows
  <2> QED BY <1>a, <2>1, <2>2
<1>7. ASSUME CallOp
      PROVE  vm'.world = w
  <2>1. PICK kind \in CallKinds, to \in Addr, value \in BOOLEAN, poor \in BOOLEAN,
             req \in Requests, r \in Ranges : Exec(Call(vm, kind, to, value, req, r, poor)) /\ Ready
    BY <1>7 DEF CallOp, Exec
  <2>2. Shows(Call(vm, kind, to, value, req, r, poor), w)
    BY <1>b, <2>1, CallShows
  <2> QED BY <1>a, <2>1, <2>2
<1>8. ASSUME CreateOp
      PROVE  vm'.world = w
  <2>1. PICK to \in New \cup Old, r \in Ranges, poor \in BOOLEAN : Exec(Create(vm, to, r, poor)) /\ Ready
    BY <1>8 DEF CreateOp, Exec
  <2>2. Shows(Create(vm, to, r, poor), w)
    BY <1>b, <2>1, CreateShows
  <2> QED BY <1>a, <2>1, <2>2
<1>9. ASSUME LeaveOp
      PROVE  vm'.world = w
  <2>1. PICK r \in Ranges, revert \in BOOLEAN : Exec(Leave(vm, r, revert)) /\ Ready
    BY <1>9 DEF LeaveOp, Exec
  <2>2. Shows(Leave(vm, r, revert), w)
    BY <1>b, <2>1, LeaveShows
  <2> QED BY <1>a, <2>1, <2>2
<1>10. ASSUME StopOp
       PROVE  vm'.world = w
  <2>1. Exec(With(vm, [Ev(vm) EXCEPT !.running = FALSE])) /\ Ready
    BY <1>10 DEF StopOp, Exec
  <2>2. Shows(With(vm, [Ev(vm) EXCEPT !.running = FALSE]), w)
    BY <1>b, <2>1, WithShows
  <2> QED BY <1>a, <2>1, <2>2
<1>11. ASSUME InvalidOp
       PROVE  vm'.world = w
  <2>1. Exec(Throw(vm, "halt")) /\ Ready
    BY <1>11 DEF InvalidOp, Exec
  <2>2. Shows(Throw(vm, "halt"), w)
    BY <1>b, <2>1, ShowsErr
  <2> QED BY <1>a, <2>1, <2>2
<1>12. ASSUME SelfDestructOp
       PROVE  vm'.world = w
  <2>1. PICK b \in Addr, poor \in BOOLEAN : Exec(SelfDestruct(vm, b, poor)) /\ Ready
    BY <1>12 DEF SelfDestructOp, Exec
  <2>2. Shows(SelfDestruct(vm, b, poor), w)
    BY <1>b, <2>1, SelfDestructShows
  <2> QED BY <1>a, <2>1, <2>2
<1>13. ASSUME FinishFrame
       PROVE  vm'.world = w
  <2>1. PICK bad \in BOOLEAN : FinishWith(bad)
    BY <1>13 DEF FinishFrame
  <2>2. phase = "running" /\ vm.trap = 0
    BY <2>1 DEF FinishWith
  <2>3. Epilogue(vm, bad) = vm /\ Shows(vm, w)
    BY <2>2, StaticTop DEF w
  <2>4. vm' = Handle(FinishChild(vm)) \/ vm' = Release(vm, Ev(vm))
    BY <2>1, <2>3 DEF FinishWith
  <2>5. Shows(FinishChild(vm), w) /\ Shows(Release(vm, Ev(vm)), w)
    BY <2>3, FinishShows
  <2>6. Shows(Handle(FinishChild(vm)), w)
    BY <2>5, ShowsHandle
  <2>7. Shows(vm', w)
    BY <2>4, <2>5, <2>6
  <2> QED BY <2>7 DEF Shows
<1>14. ASSUME UNCHANGED vars
       PROVE  vm'.world = w
  BY <1>14 DEF vars, w
<1> QED BY <1>1, <1>2, <1>3, <1>4, <1>5, <1>6, <1>7, <1>8, <1>9, <1>10, <1>11, <1>12, <1>13, <1>14 DEF Next, w

\* finish_child and the end of the transaction: a frame that failed.
LEMMA FailureStep ==
  ASSUME Inv, NEW bad \in BOOLEAN, phase = "running", FinishWith(bad), Ev(Epilogue(vm, bad)).err # "none"
  PROVE  /\ Len(vm.frames) > 1 => vm'.world = Ev(vm).was.world /\ vm'.warm = Ev(vm).was.warm
         /\ vm'.up = Ev(vm).memMark /\ vm'.down = Ev(vm).mark
<1> DEFINE y == Epilogue(vm, bad)
           n == Top(vm)
<1>1. Good(vm)
  BY InvTyped DEF FinishWith
<1>2. n \in Nat \ {0} /\ n = Len(vm.frames) /\ Sound(vm)
  BY <1>1, TopFacts DEF Good, Top
<1>3. Over(vm, y)
  BY <1>1, EpilogueOver
<1>4. CASE n > 1
  <2> DEFINE z == FinishChild(y)
  <2>1. Handle(z) = z /\ Resumed(y, z)
    BY <1>1, <1>4, FinishAfter
  <2>2. vm' = z
    BY <1>2, <1>4, <2>1 DEF FinishWith
  <2> HIDE DEF z, y
  <2>3. z.world = y.world /\ z.warm = Ev(y).was.warm /\ z.up = Ev(y).memMark /\ z.down = Ev(y).mark
    BY <2>1 DEF Resumed, y
  <2>4. y.world = Ev(vm).was.world
    BY <1>3, <1>4 DEF Over, y
  <2>5. Ev(y).was = Ev(vm).was /\ Ev(y).memMark = Ev(vm).memMark /\ Ev(y).mark = Ev(vm).mark
    BY <1>3 DEF Over
  <2> QED BY <2>2, <2>3, <2>4, <2>5
<1>5. CASE n = 1
  <2>1. vm' = Release(y, Ev(y))
    BY <1>2, <1>5 DEF FinishWith
  <2>2. Release(y, Ev(y)).up = Ev(vm).memMark /\ Release(y, Ev(y)).down = Ev(vm).mark
    BY <1>1, <1>3, <1>5, LastEnds
  <2>3. ~(Len(vm.frames) > 1)
    BY <1>2, <1>5
  <2> QED BY <2>1, <2>2, <2>3
<1> QED
  <2>1. \A k \in Nat \ {0} : k > 1 \/ k = 1
    OBVIOUS
  <2> HIDE DEF n
  <2> QED BY <1>2, <1>4, <1>5, <2>1
-----------------------------------------------------------------------------
(***************************************************************************)
(* The properties of Frames.                                               *)
(***************************************************************************)
\* run_frames: no counter of a frame leaves its type (charge_gas and
\* charge_state_gas never go below zero), and what is accessed is recorded once.
THEOREM TypeCorrect == Spec => []TypeOK
BY InvHolds, InvTypeOK, PTL

\* The regular gas of every frame is what it holds, used, spilled, and gave to
\* its child (charge_gas, generic_call, incorporate_on_success and _on_error).
THEOREM GasIsConserved == Spec => []GasConserved
BY InvHolds, InvGasConserved, PTL

\* State gas pays for exactly what came to exist, in every frame that has not
\* failed and at the end of the transaction (charge_state_gas, credit_state_gas,
\* give back and repayment in finish_child).
THEOREM GrowthIsPaidFor == Spec => []StateGasPaysForGrowth
BY InvHolds, InvStateGasPays, PTL

\* process_transaction deletes only accounts whose creation still stands.
THEOREM DoomedStand == Spec => []DoomedWereCreated
BY InvHolds, InvDoomed, PTL

\* The memories and operand stacks of the frames do not overlap, and the last
\* release gives the whole arena back (lib/mem.pnk under frame_open, op_call,
\* extend_memory and finish_child).
THEOREM ArenaIsShared == Spec => []SlicesApart
BY InvHolds, InvSlicesApart, PTL

\* What a frame borrows of another one's memory is there while it is borrowed.
THEOREM ViewsStayLive == Spec => []ViewsLive
BY InvHolds, InvViewsLive, PTL

\* finish_child: a frame that failed has left the state, the accessed sets and
\* the arena as they were when it was called.
THEOREM FailureIsUndone == Spec => FailureLeavesNoTrace
<1> DEFINE A == \A bad \in BOOLEAN :
                  LET f == Ev(vm) IN
                    phase = "running" /\ FinishWith(bad) /\ Ev(Epilogue(vm, bad)).err # "none" =>
                      /\ Len(vm.frames) > 1 => /\ vm'.world = f.was.world /\ vm'.warm = f.was.warm
                      /\ vm'.up = f.memMark /\ vm'.down = f.mark
<1>1. Inv => [A]_vars
  BY FailureStep
<1>2. Spec => []Inv
  BY InvHolds
<1>3. Spec => [][A]_vars
  BY <1>1, <1>2, PTL
<1> QED BY <1>3 DEF FailureLeavesNoTrace

\* require_not_static and child_message: nothing is written below a static call.
THEOREM StaticIsStatic == Spec => StaticWritesNothing
<1> DEFINE A == (\E i \in Depth : vm.frames[i].static) => vm'.world = vm.world
<1>1. Inv /\ [Next]_vars => [A]_vars
  BY StaticStep
<1>2. Spec => []Inv /\ [][Next]_vars
  BY InvHolds, PTL DEF Spec
<1>3. Spec => [][A]_vars
  BY <1>1, <1>2, PTL
<1> QED BY <1>3 DEF StaticWritesNothing
=============================================================================
