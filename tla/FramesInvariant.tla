-------------------------- MODULE FramesInvariant --------------------------
(***************************************************************************)
(* The inductive invariant of Frames, and what preserves it.               *)
(*                                                                         *)
(* None of the properties the runs check is inductive by itself: what a    *)
(* failing child gives back depends on what its parent had when it was     *)
(* started, whether a rollback keeps the accounts below it alive depends   *)
(* on every earlier world, and whether a view is live on how the slices of *)
(* all frames lie in the arena.  Inv relates every frame of the stack to   *)
(* the next one, to the journal and to the arena.                          *)
(***************************************************************************)
EXTENDS Frames, FiniteSetTheorems, TLAPS

(***************************************************************************)
(* The machine of vm.pnk as the proofs see it, and what its helpers do.    *)
(*                                                                         *)
(* Most helpers of vm.pnk and ops.pnk (charge_gas, pop, push,              *)
(* extend_memory, access_address ...) touch only the current frame and the *)
(* arena.  Works(v, y) says what every one of them leaves alone, and       *)
(* Local(v, y, d) adds what it does to the two gas counters, so that an    *)
(* instruction is proved by composing one Local fact per helper it calls.  *)
(***************************************************************************)
\* The machines the code can build, with a journal of earlier worlds and the warm lists.
Machine ==
  [frames : Seq(FrameState), world : SUBSET Objects, journal : Seq(SUBSET Objects),
   created : SUBSET New, warm : [addrs : Seq(Addr), keys : Seq(Slot)],
   up : Nat, down : Nat, err : {"none", "halt", "revert"}, trap : {0, 6, 7},
   auth : [used : Int, spilled : Nat]]

Top(v) == Len(v.frames)

\* A list without repetition, and one that another only extends.
Distinct(s)  == \A i, j \in DOMAIN s : s[i] = s[j] => i = j
Prefix(s, t) == Len(s) <= Len(t) /\ \A k \in 1 .. Len(s) : s[k] = t[k]

\* The slices of the arena have not met, and a machine that has trapped throws nothing.
Typed(v) ==
  /\ v \in Machine /\ Distinct(v.warm.addrs) /\ Distinct(v.warm.keys)
  /\ v.trap = 0 \/ v.err = "none"
  /\ v.up <= v.down /\ v.down <= ArenaSize

\* A typed machine with a current frame.
Sound(v) == Typed(v) /\ Top(v) >= 1

\* All the regular gas a frame accounts for.
Held(f) == f.left + f.used + f.spilled

\* the current frame's memory ends at up, its operands lie above down
Lies(f, up, down) ==
  /\ f.mem + f.cap = up /\ f.len <= f.cap
  /\ down <= f.stk /\ f.stk + f.scap <= f.mark /\ f.n <= f.scap /\ f.scap >= 1

\* What charging, stack and memory helpers leave alone in a frame.
Kept(f, g) ==
  /\ g.kind = f.kind /\ g.self = f.self /\ g.static = f.static /\ g.code = f.code
  /\ g.gas = f.gas /\ g.rsv = f.rsv /\ g.running = f.running /\ g.err = f.err
  /\ g.out = f.out /\ g.snap = f.snap /\ g.csnap = f.csnap /\ g.charged = f.charged
  /\ g.addrs = f.addrs /\ g.keys = f.keys /\ g.mem = f.mem /\ g.mark = f.mark
  /\ g.memMark = f.memMark /\ g.data = f.data /\ g.ret = f.ret
  /\ g.doomed = f.doomed /\ g.was = f.was /\ g.len >= f.len

\* What the operations that only compute may do to the machine: they change
\* nothing but the gas, the operands and the memory of the current frame
Works(v, y) ==
  /\ Sound(y) /\ Top(y) = Top(v)
  /\ \A i \in 1 .. Top(v) - 1 : y.frames[i] = v.frames[i]
  /\ y.world = v.world /\ y.journal = v.journal
  /\ y.created = v.created /\ y.auth = v.auth
  /\ Prefix(v.warm.addrs, y.warm.addrs) /\ Prefix(v.warm.keys, y.warm.keys)
  /\ Kept(Ev(v), Ev(y))
  /\ Fine(y) => Fine(v)
  /\ y.trap = 0 /\ Lies(Ev(v), v.up, v.down) => Lies(Ev(y), y.up, y.down)
  /\ ~Fine(v) => y = v

\* and neither make nor lose gas, and use d more state gas.
Local(v, y, d) ==
  /\ Works(v, y)
  /\ Held(Ev(y)) = Held(Ev(v)) /\ Ev(y).used >= Ev(v).used
  /\ Fine(y) => StateGasUsed(Ev(y)) = StateGasUsed(Ev(v)) + d
-----------------------------------------------------------------------------
\* The field types of a frame.
LEMMA FrameFields ==
  ASSUME NEW f \in FrameState
  PROVE  /\ f.kind \in CallKinds \cup {"create"} /\ f.self \in Addr
         /\ f.static \in BOOLEAN /\ f.code \in BOOLEAN /\ f.running \in BOOLEAN
         /\ f.charged \in BOOLEAN /\ f.err \in {"none", "halt", "revert"}
         /\ f.gas \in Nat /\ f.rsv \in Nat /\ f.left \in Nat /\ f.sleft \in Nat
         /\ f.spilled \in Nat /\ f.used \in Nat /\ f.out \in Nat \X Nat
         /\ f.snap \in Nat /\ f.csnap \in Nat /\ f.addrs \in Nat /\ f.keys \in Nat
         /\ f.stk \in Nat /\ f.scap \in Nat /\ f.n \in Nat /\ f.mem \in Nat
         /\ f.cap \in Nat /\ f.len \in Nat /\ f.mark \in Nat /\ f.memMark \in Nat
         /\ f.data \in Nat \X Nat /\ f.ret \in Nat /\ f.logs \in Nat
         /\ f.refund \in Nat /\ f.doomed \subseteq New
         /\ f.was.world \subseteq Objects /\ f.was.warm.addrs \in Seq(Addr)
         /\ f.was.warm.keys \in Seq(Slot)
BY DEF FrameState, View, Before

\* The field types of a machine.
LEMMA MachineFields ==
  ASSUME NEW v \in Machine
  PROVE  /\ v.frames \in Seq(FrameState) /\ v.world \subseteq Objects
         /\ v.journal \in Seq(SUBSET Objects) /\ v.created \subseteq New
         /\ v.warm.addrs \in Seq(Addr) /\ v.warm.keys \in Seq(Slot)
         /\ v.warm \in [addrs : Seq(Addr), keys : Seq(Slot)]
         /\ v.up \in Nat /\ v.down \in Nat /\ v.err \in {"none", "halt", "revert"}
         /\ v.trap \in {0, 6, 7} /\ v.auth.used \in Int /\ v.auth.spilled \in Nat
BY DEF Machine

\* A machine with a frame has a current one.
LEMMA FrameAt ==
  ASSUME NEW v \in Machine, Top(v) >= 1
  PROVE  /\ Top(v) \in Nat \ {0}
         /\ \A i \in 1 .. Top(v) : v.frames[i] \in FrameState
         /\ Ev(v) \in FrameState /\ Ev(v) = v.frames[Top(v)]
BY MachineFields DEF Top, Ev, Last

\* the current frame of a machine can be replaced
IsWith(v, f, y) ==
  /\ y \in Machine /\ Ev(y) = f /\ Top(y) = Top(v)
  /\ \A i \in 1 .. Top(v) - 1 : y.frames[i] = v.frames[i]
  /\ y.frames[Top(v)] = f
  /\ y.world = v.world /\ y.journal = v.journal /\ y.created = v.created
  /\ y.warm = v.warm /\ y.up = v.up /\ y.down = v.down
  /\ y.err = v.err /\ y.trap = v.trap /\ y.auth = v.auth

\* With replaces the current frame and nothing else.
LEMMA WithTop ==
  ASSUME NEW v \in Machine, Top(v) >= 1, NEW f \in FrameState
  PROVE  IsWith(v, f, With(v, f))
<1> USE DEF With, Ev, Last, Top
<1>1. v.frames \in Seq(FrameState) /\ Len(v.frames) \in Nat \ {0}
  BY MachineFields
<1> DEFINE s == [v.frames EXCEPT ![Len(v.frames)] = f]
<1>2. /\ s \in Seq(FrameState) /\ Len(s) = Len(v.frames) /\ s[Len(s)] = f
      /\ \A i \in 1 .. Len(v.frames) - 1 : s[i] = v.frames[i]
  BY <1>1
<1>3. With(v, f) = [v EXCEPT !.frames = s]
  BY DEF Machine
<1> HIDE DEF s
<1>4. With(v, f) \in Machine /\ With(v, f).frames = s
  BY <1>2, <1>3 DEF Machine
<1>5. /\ With(v, f).world = v.world /\ With(v, f).journal = v.journal
      /\ With(v, f).created = v.created /\ With(v, f).warm = v.warm
      /\ With(v, f).up = v.up /\ With(v, f).down = v.down
      /\ With(v, f).err = v.err /\ With(v, f).trap = v.trap
      /\ With(v, f).auth = v.auth
  BY <1>3 DEF Machine
<1> QED BY <1>1, <1>2, <1>4, <1>5 DEF IsWith

\* Replacing the current frame by itself changes nothing.
LEMMA WithSame ==
  ASSUME NEW v \in Machine, Top(v) >= 1
  PROVE  With(v, Ev(v)) = v
<1>1. v.frames \in Seq(FrameState) /\ Len(v.frames) \in Nat \ {0}
  BY MachineFields DEF Top
<1>2. [v.frames EXCEPT ![Len(v.frames)] = v.frames[Len(v.frames)]] = v.frames
  BY <1>1
<1>3. [v EXCEPT !.frames = v.frames] = v
  BY DEF Machine
<1> QED BY <1>2, <1>3 DEF With, Ev, Last, Machine

\* the marks of the arena and the trap can be set
Moved(v, u, dn, t) == [v EXCEPT !.up = u, !.down = dn, !.trap = t]
IsMoved(v, u, dn, t, w) ==
  /\ w \in Machine /\ w.frames = v.frames /\ w.world = v.world
  /\ w.journal = v.journal /\ w.created = v.created /\ w.warm = v.warm
  /\ w.up = u /\ w.down = dn /\ w.err = v.err /\ w.trap = t /\ w.auth = v.auth

\* Setting the marks changes nothing else.
LEMMA MovedIs ==
  ASSUME NEW v \in Machine, NEW u \in Nat, NEW dn \in Nat, NEW t \in {0, 6, 7}
  PROVE  IsMoved(v, u, dn, t, Moved(v, u, dn, t))
BY DEF Machine, Moved, IsMoved

\* New marks and a new current frame that keeps the old one's identity are work.
LEMMA WorksWith ==
  ASSUME NEW v, Sound(v), Fine(v), NEW f \in FrameState,
         NEW u \in Nat, NEW dn \in Nat, NEW t \in {0, 6, 7}, u <= dn, dn <= ArenaSize,
         Kept(Ev(v), f), t = 0 /\ Lies(Ev(v), v.up, v.down) => Lies(f, u, dn)
  PROVE  /\ Works(v, With(Moved(v, u, dn, t), f)) /\ Ev(With(Moved(v, u, dn, t), f)) = f
         /\ Fine(With(Moved(v, u, dn, t), f)) <=> t = 0
<1>1. v \in Machine /\ Top(v) >= 1
  BY DEF Sound, Typed
<1> DEFINE w == Moved(v, u, dn, t)
           y == With(w, f)
<1>2. IsMoved(v, u, dn, t, w)
  BY <1>1, MovedIs
<1> HIDE DEF w
<1>3. w \in Machine /\ Top(w) = Top(v) /\ Top(w) >= 1
  BY <1>1, <1>2 DEF Top, IsMoved
<1>4. IsWith(w, f, y)
  BY <1>3, WithTop
<1> HIDE DEF y
<1>5. Sound(y)
  BY <1>1, <1>2, <1>3, <1>4 DEF Sound, Typed, Fine, IsMoved, IsWith
<1>6. Prefix(v.warm.addrs, y.warm.addrs) /\ Prefix(v.warm.keys, y.warm.keys)
  BY <1>1, <1>2, <1>4, MachineFields DEF Prefix, IsMoved, IsWith
<1>7. Works(v, y) /\ Ev(y) = f /\ (Fine(y) <=> t = 0)
  BY <1>2, <1>3, <1>4, <1>5, <1>6 DEF Works, Fine, IsMoved, IsWith
<1> QED BY <1>7 DEF y, w

\* The same, with the gas counted.
LEMMA LocalWith ==
  ASSUME NEW v, Sound(v), Fine(v), NEW f \in FrameState, NEW d \in Int,
         NEW u \in Nat, NEW dn \in Nat, NEW t \in {0, 6, 7}, u <= dn, dn <= ArenaSize,
         Kept(Ev(v), f), Held(f) = Held(Ev(v)), f.used >= Ev(v).used,
         t = 0 => /\ StateGasUsed(f) = StateGasUsed(Ev(v)) + d
                  /\ Lies(Ev(v), v.up, v.down) => Lies(f, u, dn)
  PROVE  Local(v, With(Moved(v, u, dn, t), f), d)
<1> DEFINE y == With(Moved(v, u, dn, t), f)
<1>1. Works(v, y) /\ Ev(y) = f /\ (Fine(y) <=> t = 0)
  BY WorksWith
<1> HIDE DEF y
<1>2. Local(v, y, d)
  BY <1>1 DEF Local
<1> QED BY <1>2 DEF y
-----------------------------------------------------------------------------
\* Doing nothing is work, and one piece of work can follow another.
LEMMA KeptSame ==
  ASSUME NEW f \in FrameState
  PROVE  Kept(f, f)
BY FrameFields DEF Kept

LEMMA WorksSame ==
  ASSUME NEW v, Sound(v)
  PROVE  Works(v, v)
<1>1. v \in Machine /\ Ev(v) \in FrameState
  BY FrameAt DEF Sound, Typed
<1>2. Kept(Ev(v), Ev(v))
  BY <1>1, KeptSame
<1>3. Prefix(v.warm.addrs, v.warm.addrs) /\ Prefix(v.warm.keys, v.warm.keys)
  BY <1>1, MachineFields DEF Prefix
<1> QED BY <1>2, <1>3 DEF Works

LEMMA LocalSame ==
  ASSUME NEW v, Sound(v)
  PROVE  Local(v, v, 0) /\ \A d \in Int : ~Fine(v) => Local(v, v, d)
<1>1. v \in Machine /\ Ev(v) \in FrameState
  BY FrameAt DEF Sound, Typed
<1>2. StateGasUsed(Ev(v)) \in Int /\ Ev(v).used \in Nat
  BY <1>1, FrameFields DEF StateGasUsed
<1> QED BY <1>2, WorksSame DEF Local

LEMMA KeptTrans ==
  ASSUME NEW f \in FrameState, NEW g \in FrameState, NEW h \in FrameState, Kept(f, g), Kept(g, h)
  PROVE  Kept(f, h)
<1>1. f.len \in Nat /\ g.len \in Nat /\ h.len \in Nat
  BY FrameFields
<1>2. h.len >= f.len
  BY <1>1 DEF Kept
<1> QED BY <1>2 DEF Kept

LEMMA PrefixTrans ==
  ASSUME NEW S, NEW s \in Seq(S), NEW t \in Seq(S), NEW u \in Seq(S), Prefix(s, t), Prefix(t, u)
  PROVE  Prefix(s, u)
BY DEF Prefix

LEMMA WorksTrans ==
  ASSUME NEW v, NEW y, NEW z, Sound(v), Works(v, y), Works(y, z)
  PROVE  Works(v, z)
<1>1. /\ v \in Machine /\ Ev(v) \in FrameState /\ y \in Machine /\ Ev(y) \in FrameState
      /\ z \in Machine /\ Ev(z) \in FrameState
  BY FrameAt DEF Sound, Typed, Works
<1>2. Kept(Ev(v), Ev(z))
  <2>1. Kept(Ev(v), Ev(y)) /\ Kept(Ev(y), Ev(z))
    BY DEF Works
  <2> QED BY <1>1, <2>1, KeptTrans
<1>3. Prefix(v.warm.addrs, z.warm.addrs) /\ Prefix(v.warm.keys, z.warm.keys)
  <2>1. /\ Prefix(v.warm.addrs, y.warm.addrs) /\ Prefix(y.warm.addrs, z.warm.addrs)
        /\ Prefix(v.warm.keys, y.warm.keys) /\ Prefix(y.warm.keys, z.warm.keys)
    BY DEF Works
  <2>2. /\ v.warm.addrs \in Seq(Addr) /\ y.warm.addrs \in Seq(Addr) /\ z.warm.addrs \in Seq(Addr)
        /\ v.warm.keys \in Seq(Slot) /\ y.warm.keys \in Seq(Slot) /\ z.warm.keys \in Seq(Slot)
    BY <1>1, MachineFields
  <2> QED BY <2>1, <2>2, PrefixTrans
<1>4. z.trap = 0 /\ Lies(Ev(v), v.up, v.down) => Lies(Ev(z), z.up, z.down)
  <2>1. z.trap = 0 => y.trap = 0
    <3>1. Fine(y) \/ z = y
      BY DEF Works
    <3> QED BY <3>1 DEF Fine
  <2> QED BY <2>1 DEF Works
<1>5. \A i \in 1 .. Top(v) - 1 : z.frames[i] = v.frames[i]
  BY DEF Works
<1>6. Sound(z) /\ Top(z) = Top(v) /\ z.world = v.world /\ z.journal = v.journal
      /\ z.created = v.created /\ z.auth = v.auth /\ (~Fine(v) => z = v) /\ (Fine(z) => Fine(v))
  BY DEF Works
<1> QED BY <1>2, <1>3, <1>4, <1>5, <1>6 DEF Works

LEMMA LocalTrans ==
  ASSUME NEW v, NEW y, NEW z, NEW d \in Int, NEW e \in Int,
         Sound(v), Local(v, y, d), Local(y, z, e)
  PROVE  Local(v, z, d + e)
<1>1. Ev(v) \in FrameState /\ Ev(y) \in FrameState /\ Ev(z) \in FrameState
  BY FrameAt DEF Sound, Typed, Local, Works
<1>2. Works(v, z)
  BY WorksTrans DEF Local
<1>3. Ev(z).used >= Ev(v).used
  BY <1>1, FrameFields DEF Local
<1>4. Fine(z) => StateGasUsed(Ev(z)) = StateGasUsed(Ev(v)) + (d + e)
  <2>1. StateGasUsed(Ev(v)) \in Int
    BY <1>1, FrameFields DEF StateGasUsed
  <2>2. Fine(z) => Fine(y)
    BY DEF Local, Works
  <2>3. /\ Fine(y) => StateGasUsed(Ev(y)) = StateGasUsed(Ev(v)) + d
        /\ Fine(z) => StateGasUsed(Ev(z)) = StateGasUsed(Ev(y)) + e
    BY DEF Local
  <2> QED BY <2>1, <2>2, <2>3
<1> QED BY <1>2, <1>3, <1>4 DEF Local

LEMMA LocalChain ==
  ASSUME NEW v, NEW y, NEW z, Sound(v), Local(v, y, 0), Local(y, z, 0)
  PROVE  Local(v, z, 0)
BY LocalTrans, 0 + 0 = 0

\* An exception stops the machine, whatever it was about to pay.
LEMMA ThrowIs ==
  ASSUME NEW v, Sound(v), NEW e \in {"halt", "revert"}
  PROVE  /\ ~Fine(Throw(v, e)) /\ Sound(Throw(v, e))
         /\ \A d \in Int : Local(v, Throw(v, e), d)
<1>1. v \in Machine /\ Ev(v) \in FrameState
  BY FrameAt DEF Sound, Typed
<1>2. CASE ~Fine(v)
  BY <1>2, LocalSame DEF Throw
<1>3. CASE Fine(v)
  <2> DEFINE y == [v EXCEPT !.err = e]
  <2>1. /\ y \in Machine /\ y.frames = v.frames /\ y.world = v.world
        /\ y.journal = v.journal /\ y.created = v.created /\ y.warm = v.warm
        /\ y.up = v.up /\ y.down = v.down /\ y.err = e /\ y.trap = v.trap /\ y.auth = v.auth
    BY <1>1 DEF Machine
  <2>2. y = Throw(v, e)
    BY <1>3 DEF Throw
  <2> HIDE DEF y
  <2>3. Sound(y) /\ ~Fine(y)
    BY <1>3, <2>1 DEF Sound, Typed, Fine, Top
  <2>4. Ev(y) = Ev(v) /\ Kept(Ev(v), Ev(y)) /\ Ev(v).used \in Nat
    BY <1>1, <2>1, KeptSame, FrameFields DEF Ev, Last
  <2>5. Prefix(v.warm.addrs, y.warm.addrs) /\ Prefix(v.warm.keys, y.warm.keys)
    BY <1>1, <2>1, MachineFields DEF Prefix
  <2>6. Works(v, y)
    BY <1>3, <2>1, <2>3, <2>4, <2>5 DEF Works, Top
  <2>7. ASSUME NEW d \in Int PROVE Local(v, y, d)
    BY <2>3, <2>4, <2>6 DEF Local
  <2> QED BY <2>2, <2>3, <2>7
<1> QED BY <1>2, <1>3

\* A check either passes or throws.
LEMMA RequireLocal ==
  ASSUME NEW v, Sound(v), NEW ok \in BOOLEAN
  PROVE  Local(v, Require(v, ok), 0) /\ (Fine(Require(v, ok)) => ok)
BY LocalSame, ThrowIs DEF Require

\* a machine that only changes its current frame
LEMMA WorksTop ==
  ASSUME NEW v, Sound(v), Fine(v), NEW f \in FrameState,
         Kept(Ev(v), f), Lies(Ev(v), v.up, v.down) => Lies(f, v.up, v.down)
  PROVE  Works(v, With(v, f)) /\ Ev(With(v, f)) = f /\ Fine(With(v, f))
<1>1. v \in Machine
  BY DEF Sound, Typed
<1>2. v = Moved(v, v.up, v.down, 0)
  BY <1>1 DEF Moved, Machine, Fine
<1>3. Works(v, With(Moved(v, v.up, v.down, 0), f)) /\ Ev(With(Moved(v, v.up, v.down, 0), f)) = f
      /\ Fine(With(Moved(v, v.up, v.down, 0), f))
  BY <1>1, MachineFields, WorksWith DEF Sound, Typed
<1> QED BY <1>2, <1>3

LEMMA LocalTop ==
  ASSUME NEW v, Sound(v), Fine(v), NEW f \in FrameState, NEW d \in Int,
         Kept(Ev(v), f), Held(f) = Held(Ev(v)), f.used >= Ev(v).used,
         StateGasUsed(f) = StateGasUsed(Ev(v)) + d,
         Lies(Ev(v), v.up, v.down) => Lies(f, v.up, v.down)
  PROVE  Local(v, With(v, f), d)
<1>1. v \in Machine
  BY DEF Sound, Typed
<1>2. v = Moved(v, v.up, v.down, v.trap)
  BY <1>1 DEF Moved, Machine
<1>3. Local(v, With(Moved(v, v.up, v.down, v.trap), f), d)
  BY <1>1, MachineFields, LocalWith DEF Sound, Typed
<1> QED BY <1>2, <1>3
-----------------------------------------------------------------------------
\* the ways in which an operation changes a frame
LEMMA FrameWith ==
  ASSUME NEW f \in FrameState
  PROVE  /\ \A a, b \in Nat :
              [f EXCEPT !.left = a, !.used = b] \in FrameState
         /\ \A a, b, c \in Nat :
              [f EXCEPT !.sleft = a, !.left = b, !.spilled = c] \in FrameState
         /\ \A a, b, c \in Nat :
              [f EXCEPT !.left = a, !.spilled = b, !.sleft = c] \in FrameState
         /\ \A a, b, c \in Nat :
              [f EXCEPT !.left = a, !.sleft = b, !.spilled = c] \in FrameState
         /\ \A a \in Nat :
              [f EXCEPT !.n = a] \in FrameState
         /\ \A a, b, c \in Nat :
              [f EXCEPT !.stk = a, !.scap = b, !.n = c] \in FrameState
         /\ \A a, b \in Nat :
              [f EXCEPT !.cap = a, !.len = b] \in FrameState
         /\ \A a \in Nat :
              [f EXCEPT !.used = a] \in FrameState
         /\ \A a \in Nat :
              [f EXCEPT !.left = a] \in FrameState
         /\ \A a \in Nat :
              [f EXCEPT !.sleft = a] \in FrameState
         /\ \A a, b \in Nat :
              [f EXCEPT !.left = a, !.sleft = b] \in FrameState
         /\ \A a, b, c \in Nat :
              [f EXCEPT !.left = a, !.sleft = b, !.used = c] \in FrameState
         /\ \A a, b \in Nat, e \in {"none", "halt", "revert"}, o \in View :
              [f EXCEPT !.used = a, !.left = b, !.err = e, !.out = o] \in FrameState
         /\ \A e \in {"none", "halt", "revert"} :
              [f EXCEPT !.err = e] \in FrameState
         /\ \A r \in BOOLEAN :
              [f EXCEPT !.running = r] \in FrameState
         /\ \A o \in View, r \in BOOLEAN :
              [f EXCEPT !.out = o, !.running = r] \in FrameState
         /\ \A o \in View :
              [f EXCEPT !.out = o] \in FrameState
         /\ \A a \in Nat :
              [f EXCEPT !.logs = a] \in FrameState
         /\ \A a \in Nat :
              [f EXCEPT !.refund = a] \in FrameState
         /\ \A a \in Nat :
              [f EXCEPT !.snap = a] \in FrameState
         /\ \A a \in Nat :
              [f EXCEPT !.rsv = a] \in FrameState
         /\ \A a, b \in Nat :
              [f EXCEPT !.rsv = a, !.spilled = b] \in FrameState
         /\ \A r \in BOOLEAN :
              [f EXCEPT !.code = r] \in FrameState
         /\ \A r \in BOOLEAN, a \in Nat, D \in SUBSET New :
              [f EXCEPT !.running = r, !.logs = a, !.doomed = D] \in FrameState
<1>1. ASSUME NEW a \in Nat, NEW b \in Nat
      PROVE  [f EXCEPT !.left = a, !.used = b] \in FrameState
  BY Zenon DEF FrameState
<1>2. ASSUME NEW a \in Nat, NEW b \in Nat, NEW c \in Nat
      PROVE  [f EXCEPT !.sleft = a, !.left = b, !.spilled = c] \in FrameState
  BY Zenon DEF FrameState
<1>3. ASSUME NEW a \in Nat, NEW b \in Nat, NEW c \in Nat
      PROVE  [f EXCEPT !.left = a, !.spilled = b, !.sleft = c] \in FrameState
  BY Zenon DEF FrameState
<1>4. ASSUME NEW a \in Nat, NEW b \in Nat, NEW c \in Nat
      PROVE  [f EXCEPT !.left = a, !.sleft = b, !.spilled = c] \in FrameState
  BY Zenon DEF FrameState
<1>5. ASSUME NEW a \in Nat
      PROVE  [f EXCEPT !.n = a] \in FrameState
  BY Zenon DEF FrameState
<1>6. ASSUME NEW a \in Nat, NEW b \in Nat, NEW c \in Nat
      PROVE  [f EXCEPT !.stk = a, !.scap = b, !.n = c] \in FrameState
  BY Zenon DEF FrameState
<1>7. ASSUME NEW a \in Nat, NEW b \in Nat
      PROVE  [f EXCEPT !.cap = a, !.len = b] \in FrameState
  BY Zenon DEF FrameState
<1>8. ASSUME NEW a \in Nat
      PROVE  [f EXCEPT !.used = a] \in FrameState
  BY Zenon DEF FrameState
<1>9. ASSUME NEW a \in Nat
      PROVE  [f EXCEPT !.left = a] \in FrameState
  BY Zenon DEF FrameState
<1>10. ASSUME NEW a \in Nat
      PROVE  [f EXCEPT !.sleft = a] \in FrameState
  BY Zenon DEF FrameState
<1>11. ASSUME NEW a \in Nat, NEW b \in Nat
      PROVE  [f EXCEPT !.left = a, !.sleft = b] \in FrameState
  BY Zenon DEF FrameState
<1>12. ASSUME NEW a \in Nat, NEW b \in Nat, NEW c \in Nat
      PROVE  [f EXCEPT !.left = a, !.sleft = b, !.used = c] \in FrameState
  BY Zenon DEF FrameState
<1>13. ASSUME NEW a \in Nat, NEW b \in Nat, NEW e \in {"none", "halt", "revert"}, NEW o \in View
      PROVE  [f EXCEPT !.used = a, !.left = b, !.err = e, !.out = o] \in FrameState
  BY Zenon DEF FrameState
<1>14. ASSUME NEW e \in {"none", "halt", "revert"}
      PROVE  [f EXCEPT !.err = e] \in FrameState
  BY Zenon DEF FrameState
<1>15. ASSUME NEW r \in BOOLEAN
      PROVE  [f EXCEPT !.running = r] \in FrameState
  BY Zenon DEF FrameState
<1>16. ASSUME NEW o \in View, NEW r \in BOOLEAN
      PROVE  [f EXCEPT !.out = o, !.running = r] \in FrameState
  BY Zenon DEF FrameState
<1>17. ASSUME NEW o \in View
      PROVE  [f EXCEPT !.out = o] \in FrameState
  BY Zenon DEF FrameState
<1>18. ASSUME NEW a \in Nat
      PROVE  [f EXCEPT !.logs = a] \in FrameState
  BY Zenon DEF FrameState
<1>19. ASSUME NEW a \in Nat
      PROVE  [f EXCEPT !.refund = a] \in FrameState
  BY Zenon DEF FrameState
<1>20. ASSUME NEW a \in Nat
      PROVE  [f EXCEPT !.snap = a] \in FrameState
  BY Zenon DEF FrameState
<1>21. ASSUME NEW a \in Nat
      PROVE  [f EXCEPT !.rsv = a] \in FrameState
  BY Zenon DEF FrameState
<1>22. ASSUME NEW a \in Nat, NEW b \in Nat
      PROVE  [f EXCEPT !.rsv = a, !.spilled = b] \in FrameState
  BY Zenon DEF FrameState
<1>23. ASSUME NEW r \in BOOLEAN
      PROVE  [f EXCEPT !.code = r] \in FrameState
  BY Zenon DEF FrameState
<1>24. ASSUME NEW r \in BOOLEAN, NEW a \in Nat, NEW D \in SUBSET New
      PROVE  [f EXCEPT !.running = r, !.logs = a, !.doomed = D] \in FrameState
  BY Zenon DEF FrameState
<1> QED
  BY <1>1, <1>2, <1>3, <1>4, <1>5, <1>6, <1>7, <1>8, <1>9, <1>10, <1>11, <1>12,
     <1>13, <1>14, <1>15, <1>16, <1>17, <1>18, <1>19, <1>20, <1>21, <1>22, <1>23, <1>24

\* charge_gas moves gas from left to used.
LEMMA ChargeLocal ==
  ASSUME NEW v, Sound(v), NEW a \in Nat
  PROVE  /\ Local(v, Charge(v, a), 0)
         /\ Fine(Charge(v, a)) => Ev(Charge(v, a)).used = Ev(v).used + a
<1>1. v \in Machine /\ Top(v) >= 1 /\ Ev(v) \in FrameState
  BY FrameAt DEF Sound, Typed
<1>2. CASE ~Fine(v)
  BY <1>2, LocalSame DEF Charge
<1>3. CASE Fine(v) /\ Ev(v).left < a
  BY <1>3, ThrowIs DEF Charge
<1>4. CASE Fine(v) /\ ~(Ev(v).left < a)
  <2> DEFINE f == Ev(v)
             g == [f EXCEPT !.left = f.left - a, !.used = f.used + a]
  <2>1. f.left - a \in Nat /\ f.used + a \in Nat
    BY <1>1, <1>4, FrameFields
  <2>2. g \in FrameState
    BY <1>1, <2>1, FrameWith
  <2>3. Kept(f, g) /\ Held(g) = Held(f) /\ g.used >= f.used /\ StateGasUsed(g) = StateGasUsed(f) + 0 /\ g.used = f.used + a
        /\ (Lies(f, v.up, v.down) => Lies(g, v.up, v.down))
    BY <1>1, <2>1 DEF Kept, Held, Lies, StateGasUsed, FrameState
  <2>4. Charge(v, a) = With(v, g)
    BY <1>4 DEF Charge
  <2> HIDE DEF f, g
  <2>5. Local(v, With(v, g), 0)
    BY <1>4, <2>2, <2>3, LocalTop DEF f
  <2>6. Ev(With(v, g)) = g
    BY <1>1, <2>2, WithTop DEF IsWith
  <2> QED BY <2>3, <2>4, <2>5, <2>6 DEF f
<1> QED BY <1>2, <1>3, <1>4

\* charge_state_gas takes the reservoir first and then regular gas, which it remembers.
LEMMA ChargeStateLocal ==
  ASSUME NEW v, Sound(v), NEW a \in Nat
  PROVE  Local(v, ChargeState(v, a), a)
<1>1. v \in Machine /\ Top(v) >= 1 /\ Ev(v) \in FrameState
  BY FrameAt DEF Sound, Typed
<1> DEFINE f   == Ev(v)
           rem == Greatest(a - f.sleft, 0)
           g   == [f EXCEPT !.sleft = f.sleft - (a - rem), !.left = f.left - rem,
                            !.spilled = f.spilled + rem]
<1>2. rem \in Nat /\ f.sleft - (a - rem) \in Nat /\ f.spilled + rem \in Nat
  BY <1>1, FrameFields DEF Greatest
<1>3. CASE ~Fine(v)
  BY <1>3, LocalSame DEF ChargeState
<1>4. CASE Fine(v) /\ f.left < rem
  BY <1>4, ThrowIs DEF ChargeState
<1>5. CASE Fine(v) /\ ~(f.left < rem)
  <2>0. ChargeState(v, a) = With(v, g)
    BY <1>5 DEF ChargeState
  <2> HIDE DEF rem
  <2>1. f.left - rem \in Nat
    BY <1>1, <1>2, <1>5, FrameFields
  <2>2. g \in FrameState
    BY <1>1, <1>2, <2>1, FrameWith
  <2>3. Kept(f, g) /\ Held(g) = Held(f) /\ g.used >= f.used /\ StateGasUsed(g) = StateGasUsed(f) + a
        /\ (Lies(f, v.up, v.down) => Lies(g, v.up, v.down))
    BY <1>1, <1>2, <2>1 DEF Kept, Held, Lies, StateGasUsed, FrameState
  <2> HIDE DEF f, g
  <2>4. Local(v, With(v, g), a)
    BY <1>5, <2>2, <2>3, LocalTop DEF f
  <2> QED BY <2>0, <2>4
<1> QED BY <1>3, <1>4, <1>5

\* credit_state_gas gives back what was taken from regular gas before it fills the reservoir.
LEMMA CreditLocal ==
  ASSUME NEW v, Sound(v), NEW a \in Nat
  PROVE  Local(v, Credit(v, a), -a)
<1>1. v \in Machine /\ Top(v) >= 1 /\ Ev(v) \in FrameState
  BY FrameAt DEF Sound, Typed
<1> DEFINE f == Ev(v)
           n == Least(a, f.spilled)
           g == [f EXCEPT !.left = f.left + n, !.spilled = f.spilled - n, !.sleft = f.sleft + (a - n)]
<1>2. n \in Nat /\ f.left + n \in Nat /\ f.spilled - n \in Nat /\ f.sleft + (a - n) \in Nat
  BY <1>1, FrameFields DEF Least
<1>3. CASE ~Fine(v)
  BY <1>3, LocalSame DEF Credit
<1>4. CASE Fine(v)
  <2>0. Credit(v, a) = With(v, g)
    BY <1>4 DEF Credit
  <2> HIDE DEF n
  <2>1. g \in FrameState
    BY <1>1, <1>2, FrameWith
  <2>2. Kept(f, g) /\ Held(g) = Held(f) /\ g.used >= f.used /\ StateGasUsed(g) = StateGasUsed(f) + (-a)
        /\ (Lies(f, v.up, v.down) => Lies(g, v.up, v.down))
    BY <1>1, <1>2 DEF Kept, Held, Lies, StateGasUsed, FrameState
  <2> HIDE DEF f, g
  <2>3. Local(v, With(v, g), -a)
    BY <1>4, <2>1, <2>2, LocalTop DEF f
  <2> QED BY <2>0, <2>3
<1> QED BY <1>3, <1>4

\* Operands popped are gone; too few of them halt the frame.
LEMMA PopLocal ==
  ASSUME NEW v, Sound(v), NEW k \in Nat
  PROVE  /\ Local(v, Pop(v, k), 0)
         /\ Fine(Pop(v, k)) => Ev(Pop(v, k)).n = Ev(v).n - k /\ Ev(Pop(v, k)).scap = Ev(v).scap
<1>1. v \in Machine /\ Top(v) >= 1 /\ Ev(v) \in FrameState
  BY FrameAt DEF Sound, Typed
<1> DEFINE f == Ev(v)
           g == [f EXCEPT !.n = f.n - k]
<1>2. CASE ~Fine(v)
  BY <1>2, LocalSame DEF Pop
<1>3. CASE Fine(v) /\ f.n < k
  BY <1>3, ThrowIs DEF Pop
<1>4. CASE Fine(v) /\ ~(f.n < k)
  <2>0. Pop(v, k) = With(v, g)
    BY <1>4 DEF Pop
  <2>1. f.n - k \in Nat
    BY <1>1, <1>4, FrameFields
  <2>2. g \in FrameState
    BY <1>1, <2>1, FrameWith
  <2>3. Kept(f, g) /\ Held(g) = Held(f) /\ g.used >= f.used /\ StateGasUsed(g) = StateGasUsed(f) + 0
        /\ (Lies(f, v.up, v.down) => Lies(g, v.up, v.down)) /\ g.n = f.n - k /\ g.scap = f.scap
    BY <1>1, <2>1 DEF Kept, Held, Lies, StateGasUsed, FrameState
  <2> HIDE DEF f, g
  <2>4. Local(v, With(v, g), 0)
    BY <1>4, <2>2, <2>3, LocalTop DEF f
  <2>5. Ev(With(v, g)) = g
    BY <1>1, <2>2, WithTop DEF IsWith
  <2> QED BY <2>0, <2>3, <2>4, <2>5 DEF f
<1> QED BY <1>2, <1>3, <1>4

\* An allocation moves one end of the arena, or traps when the ends would meet.
LEMMA AllocIs ==
  ASSUME NEW v, Sound(v), Fine(v), NEW n \in Nat
  PROVE  /\ ScratchAlloc(v, n) = IF n > v.down - v.up THEN Moved(v, v.up, v.down, 7)
                                 ELSE Moved(v, v.up, v.down - n, 0)
         /\ FrameMemAlloc(v, n) = IF n > v.down - v.up THEN Moved(v, v.up, v.down, 6)
                                  ELSE Moved(v, v.up + n, v.down, 0)
BY DEF Sound, Typed, Machine, ScratchAlloc, FrameMemAlloc, Moved, Fine

\* A push may have to move the operands to a larger slice first.
LEMMA PushLocal ==
  ASSUME NEW v, Sound(v)
  PROVE  Local(v, Push(v), 0)
<1>1. v \in Machine /\ Top(v) >= 1 /\ Ev(v) \in FrameState
      /\ StackLimit \in Nat /\ ArenaSize \in Nat
  BY FrameAt, FramesAssumption DEF Sound, Typed
<1> DEFINE f    == Ev(v)
           ncap == Least(2 * f.scap, StackLimit)
           y    == ScratchAlloc(v, ncap)
           t    == IF ncap > v.down - v.up THEN 7 ELSE 0
           dn   == IF ncap > v.down - v.up THEN v.down ELSE v.down - ncap
           h    == [f EXCEPT !.n = f.n + 1]
           g    == [f EXCEPT !.stk = dn, !.scap = ncap, !.n = f.n + 1]
<1>2. /\ f.n \in Nat /\ f.scap \in Nat /\ ncap \in Nat /\ f.n + 1 \in Nat
      /\ v.up \in Nat /\ v.down \in Nat /\ v.up <= v.down /\ v.down <= ArenaSize
  BY <1>1, FrameFields, MachineFields DEF Least, Sound, Typed
<1>3. CASE ~Fine(v)
  BY <1>3, LocalSame DEF Push
<1>4. CASE Fine(v) /\ f.n < f.scap
  <2>0. Push(v) = With(v, h)
    BY <1>4 DEF Push
  <2>1. h \in FrameState
    BY <1>1, <1>2, FrameWith
  <2>2. Kept(f, h) /\ Held(h) = Held(f) /\ h.used >= f.used /\ StateGasUsed(h) = StateGasUsed(f) + 0
        /\ (Lies(f, v.up, v.down) => Lies(h, v.up, v.down))
    BY <1>1, <1>2, <1>4 DEF Kept, Held, Lies, StateGasUsed, FrameState
  <2> HIDE DEF f, h
  <2> QED BY <1>4, <2>0, <2>1, <2>2, LocalTop DEF f
<1>5. CASE Fine(v) /\ ~(f.n < f.scap) /\ f.scap >= StackLimit
  BY <1>5, ThrowIs DEF Push
<1>6. CASE Fine(v) /\ ~(f.n < f.scap) /\ ~(f.scap >= StackLimit)
  <2> HIDE DEF ncap
  <2>1. dn \in Nat /\ v.up <= dn /\ dn <= ArenaSize /\ t \in {0, 6, 7}
    BY <1>1, <1>2
  <2>2. y = Moved(v, v.up, dn, t)
    BY <1>2, <1>6, AllocIs
  <2>3. IsMoved(v, v.up, dn, t, Moved(v, v.up, dn, t))
    BY <1>1, <1>2, <2>1, MovedIs
  <2>4. Push(v) = With(Moved(v, v.up, dn, t), g)
    <3>1. y.down = dn
      BY <2>2, <2>3 DEF IsMoved
    <3> QED BY <1>6, <2>2, <3>1 DEF Push, ncap
  <2>5. t = 0 /\ Lies(f, v.up, v.down) => Lies(g, v.up, dn)
    <3>1. ncap >= f.scap + 1 \/ f.scap < 1
      BY <1>1, <1>2, <1>6 DEF Least, ncap
    <3> QED BY <1>1, <1>2, <1>6, <3>1 DEF Lies, FrameState
  <2> HIDE DEF dn
  <2>6. g \in FrameState
    BY <1>1, <1>2, <2>1, FrameWith
  <2>7. Kept(f, g) /\ Held(g) = Held(f) /\ g.used >= f.used /\ StateGasUsed(g) = StateGasUsed(f) + 0
    BY <1>1, <1>2, <2>1 DEF Kept, Held, StateGasUsed, FrameState
  <2> HIDE DEF f, g, t
  <2> QED BY <1>2, <1>6, <2>1, <2>4, <2>5, <2>6, <2>7, LocalWith DEF f
<1> QED BY <1>3, <1>4, <1>5, <1>6

\* where there is room for an operand, it is pushed and nothing else happens
LEMMA PushRoom ==
  ASSUME NEW v, Fine(v), Ev(v).n < Ev(v).scap
  PROVE  Push(v) = With(v, [Ev(v) EXCEPT !.n = @ + 1])
BY DEF Push

\* Memory grows at the end of the frame's slice, and by at least what was asked.
LEMMA ExtendLocal ==
  ASSUME NEW v, Sound(v), NEW n \in Nat
  PROVE  /\ Local(v, Extend(v, n), 0)
         /\ Fine(Extend(v, n)) => Ev(Extend(v, n)).len = Ev(v).len + n
<1>1. v \in Machine /\ Top(v) >= 1 /\ Ev(v) \in FrameState /\ MemInit \in Nat
  BY FrameAt, FramesAssumption DEF Sound, Typed
<1> DEFINE f    == Ev(v)
           nlen == f.len + n
           ncap == NewCap(f, nlen)
           y    == FrameMemAlloc(v, ncap - f.cap)
           t    == IF ncap - f.cap > v.down - v.up THEN 6 ELSE 0
           u    == IF ncap - f.cap > v.down - v.up THEN v.up ELSE v.up + (ncap - f.cap)
           g    == [f EXCEPT !.cap = ncap, !.len = nlen]
<1>2. /\ f.cap \in Nat /\ f.len \in Nat /\ nlen \in Nat /\ ncap \in Nat /\ ncap - f.cap \in Nat
      /\ nlen <= ncap /\ (n = 0 /\ f.len <= f.cap => ncap = f.cap)
      /\ v.up \in Nat /\ v.down \in Nat /\ v.up <= v.down /\ v.down <= ArenaSize
  <2>1. /\ f.cap \in Nat /\ f.len \in Nat /\ v.up \in Nat /\ v.down \in Nat
        /\ v.up <= v.down /\ v.down <= ArenaSize
    BY <1>1, FrameFields, MachineFields DEF Sound, Typed
  <2> HIDE DEF f
  <2> QED BY <1>1, <2>1 DEF NewCap
<1>3. CASE ~Fine(v)
  <2>1. \A k : FrameMemAlloc(v, k) = v
    BY <1>3 DEF FrameMemAlloc
  <2>2. Extend(v, n) = IF n = 0 \/ ~Fine(y) THEN y ELSE With(y, g)
    BY DEF Extend
  <2>3. y = v
    BY <2>1
  <2> HIDE DEF y, g
  <2>4. Extend(v, n) = v
    BY <1>3, <2>2, <2>3
  <2> QED BY <1>3, <2>4, LocalSame
<1>4. CASE Fine(v)
  <2> HIDE DEF ncap
  <2>1. u \in Nat /\ u <= v.down /\ v.down <= ArenaSize /\ t \in {0, 6, 7}
    BY <1>2
  <2>2. y = Moved(v, u, v.down, t)
    BY <1>2, <1>4, AllocIs
  <2>3. IsMoved(v, u, v.down, t, Moved(v, u, v.down, t))
    BY <1>1, <1>2, <2>1, MovedIs
  <2>4. (Fine(y) <=> t = 0) /\ Ev(y) = Ev(v) /\ y \in Machine /\ Top(y) >= 1
    BY <1>1, <1>4, <2>1, <2>2, <2>3 DEF IsMoved, Fine, Ev, Top
  <2>5. g \in FrameState
    BY <1>1, <1>2, FrameWith
  <2>6. Kept(f, g) /\ Held(g) = Held(f) /\ g.used >= f.used /\ StateGasUsed(g) = StateGasUsed(f) + 0 /\ g.len = f.len + n
    BY <1>1, <1>2 DEF Kept, Held, StateGasUsed, FrameState
  <2>7. t = 0 /\ Lies(f, v.up, v.down) => Lies(g, u, v.down)
    BY <1>1, <1>2, <2>1 DEF Lies, FrameState
  <2>8. n = 0 /\ t = 0 /\ Lies(f, v.up, v.down) => Lies(f, u, v.down)
    BY <1>1, <1>2, <2>1 DEF Lies, FrameState
  <2>9. Kept(f, f) /\ f.used >= f.used /\ StateGasUsed(f) = StateGasUsed(f) + 0
    BY <1>1, KeptSame, FrameFields DEF StateGasUsed
  <2>10. CASE n = 0 \/ t # 0
    <3>1. Extend(v, n) = With(y, f)
      BY <2>4, <2>10, WithSame DEF Extend, ncap
    <3> HIDE DEF f, g, y, t, u
    <3>2. Local(v, With(Moved(v, u, v.down, t), f), 0)
      BY <1>1, <1>2, <1>4, <2>1, <2>8, <2>9, <2>10, LocalWith DEF f
    <3>3. Fine(Extend(v, n)) => n = 0 /\ Extend(v, n) = y
      BY <2>4, <2>10, <3>1, WithSame DEF f
    <3> QED BY <1>2, <2>2, <2>4, <3>1, <3>2, <3>3 DEF f
  <2>11. CASE ~(n = 0 \/ t # 0)
    <3>1. Extend(v, n) = With(y, g)
      BY <2>4, <2>11 DEF Extend, ncap
    <3>2. Ev(With(y, g)) = g
      BY <2>4, <2>5, WithTop DEF IsWith
    <3> HIDE DEF f, g, y, t, u
    <3>3. Local(v, With(Moved(v, u, v.down, t), g), 0)
      BY <1>1, <1>2, <1>4, <2>1, <2>5, <2>6, <2>7, LocalWith DEF f
    <3> QED BY <2>2, <2>6, <3>1, <3>2, <3>3 DEF f
  <2> QED BY <2>10, <2>11
<1> QED BY <1>3, <1>4

\* What can be in the warm lists.
Accessible(set, x) == (set = "addrs" /\ x \in Addr) \/ (set = "keys" /\ x \in Slot)

\* An accessed thing is appended once.
LEMMA AppendNew ==
  ASSUME NEW S, NEW s \in Seq(S), NEW x \in S, Distinct(s), x \notin Elems(s)
  PROVE  Append(s, x) \in Seq(S) /\ Distinct(Append(s, x)) /\ Prefix(s, Append(s, x))
BY DEF Distinct, Elems, Prefix

LEMMA PrefixSame ==
  ASSUME NEW S, NEW s \in Seq(S)
  PROVE  Prefix(s, s)
BY DEF Prefix

\* The lists of accessed things only grow, without repetition.
LEMMA WarmLocal ==
  ASSUME NEW v, Sound(v), NEW set, NEW x, Accessible(set, x)
  PROVE  Local(v, Warm(v, set, x), 0) /\ (Fine(Warm(v, set, x)) <=> Fine(v))
<1>1. v \in Machine /\ Top(v) >= 1 /\ Ev(v) \in FrameState
  BY FrameAt DEF Sound, Typed
<1>2. CASE ~Fine(v) \/ x \in Elems(v.warm[set])
  <2>1. Warm(v, set, x) = v
    BY <1>2 DEF Warm
  <2> QED BY <2>1, LocalSame
<1>3. CASE Fine(v) /\ x \notin Elems(v.warm[set])
  <2> DEFINE w == [v.warm EXCEPT ![set] = Append(@, x)]
             y == [v EXCEPT !.warm = w]
  <2>1. Warm(v, set, x) = y
    BY <1>3 DEF Warm
  <2>2. /\ v.warm.addrs \in Seq(Addr) /\ v.warm.keys \in Seq(Slot)
        /\ v.warm \in [addrs : Seq(Addr), keys : Seq(Slot)]
        /\ Distinct(v.warm.addrs) /\ Distinct(v.warm.keys)
    BY <1>1, MachineFields DEF Sound, Typed
  <2>3. /\ w.addrs = IF set = "addrs" THEN Append(v.warm.addrs, x) ELSE v.warm.addrs
        /\ w.keys = IF set = "addrs" THEN v.warm.keys ELSE Append(v.warm.keys, x)
        /\ w = [addrs |-> w.addrs, keys |-> w.keys]
    <3>1. CASE set = "addrs"
      <4>1. w = [v.warm EXCEPT !.addrs = Append(v.warm.addrs, x)]
        BY <3>1
      <4> HIDE DEF w
      <4> QED BY <2>2, <3>1, <4>1
    <3>2. CASE set = "keys"
      <4>1. w = [v.warm EXCEPT !.keys = Append(v.warm.keys, x)]
        BY <3>2
      <4> HIDE DEF w
      <4> QED BY <2>2, <3>2, <4>1
    <3> QED BY <3>1, <3>2 DEF Accessible
  <2> HIDE DEF w
  <2>4. /\ w.addrs \in Seq(Addr) /\ Distinct(w.addrs) /\ Prefix(v.warm.addrs, w.addrs)
    <3>1. CASE set = "addrs"
      BY <1>3, <2>2, <2>3, <3>1, AppendNew DEF Accessible
    <3>2. CASE set # "addrs"
      BY <2>2, <2>3, <3>2, PrefixSame
    <3> QED BY <3>1, <3>2
  <2>5. /\ w.keys \in Seq(Slot) /\ Distinct(w.keys) /\ Prefix(v.warm.keys, w.keys)
    <3>1. CASE set = "keys"
      BY <1>3, <2>2, <2>3, <3>1, AppendNew DEF Accessible
    <3>2. CASE set # "keys"
      BY <2>2, <2>3, <3>2, PrefixSame DEF Accessible
    <3> QED BY <3>1, <3>2
  <2>6. w \in [addrs : Seq(Addr), keys : Seq(Slot)]
    BY <2>3, <2>4, <2>5
  <2>7. /\ y \in Machine /\ y.frames = v.frames /\ y.world = v.world
        /\ y.journal = v.journal /\ y.created = v.created /\ y.warm = w
        /\ y.up = v.up /\ y.down = v.down /\ y.err = v.err /\ y.trap = v.trap /\ y.auth = v.auth
    BY <1>1, <2>6 DEF Machine
  <2> HIDE DEF y
  <2>8. Sound(y) /\ Ev(y) = Ev(v) /\ Top(y) = Top(v) /\ (Fine(y) <=> Fine(v))
    BY <1>1, <2>4, <2>5, <2>7 DEF Sound, Typed, Fine, Top, Ev, Last
  <2>9. Kept(Ev(v), Ev(y)) /\ StateGasUsed(Ev(y)) = StateGasUsed(Ev(v)) + 0 /\ Ev(v).used \in Nat
    BY <1>1, <2>8, KeptSame, FrameFields DEF StateGasUsed
  <2>10. Works(v, y)
    BY <1>3, <2>4, <2>5, <2>7, <2>8, <2>9 DEF Works
  <2>11. Local(v, y, 0)
    BY <2>8, <2>9, <2>10 DEF Local
  <2> QED BY <2>1, <2>8, <2>11
<1> QED BY <1>2, <1>3

\* No price of the schedule is negative.
LEMMA PricesAreNat ==
  /\ Gas.base \in Nat /\ Gas.warm \in Nat /\ Gas.cold \in Nat /\ Gas.value \in Nat
  /\ Gas.stipend \in Nat /\ Gas.create \in Nat /\ Gas.write \in Nat
  /\ Gas.account \in Nat /\ Gas.memory \in Nat
  /\ StateGas.account \in Nat /\ StateGas.slot \in Nat
  /\ StateGas.code \in Nat /\ StateGas.auth \in Nat
BY FramesAssumption

\* access_address and access_storage charge at least the extra cost.
LEMMA AccessLocal ==
  ASSUME NEW v, Sound(v), NEW set, NEW x, Accessible(set, x), NEW more \in Nat
  PROVE  /\ Local(v, Access(v, set, x, more), 0)
         /\ Fine(Access(v, set, x, more)) =>
              Ev(Access(v, set, x, more)).used >= Ev(v).used + more
<1> DEFINE cost == AccessCost(v, set, x)
           y    == Charge(v, cost + more)
           z    == Warm(y, set, x)
<1>1. cost \in Nat /\ cost + more \in Nat /\ cost + more >= more
  BY PricesAreNat DEF AccessCost
<1> HIDE DEF cost
<1>2. Local(v, y, 0) /\ (Fine(y) => Ev(y).used = Ev(v).used + (cost + more))
  BY <1>1, ChargeLocal
<1> HIDE DEF y
<1>3. Local(y, z, 0) /\ (Fine(z) <=> Fine(y))
  BY <1>2, WarmLocal DEF Local, Works
<1> HIDE DEF z
<1>4. Local(v, z, 0)
  BY <1>2, <1>3, LocalChain
<1>5. Ev(v) \in FrameState /\ Ev(y) \in FrameState /\ Ev(z) \in FrameState
  BY <1>2, <1>3, FrameAt DEF Sound, Typed, Local, Works
<1>6. Ev(v).used \in Nat /\ Ev(y).used \in Nat /\ Ev(z).used \in Nat /\ Ev(z).used >= Ev(y).used
  BY <1>3, <1>5, FrameFields DEF Local, Works, Kept
<1>7. Fine(z) => Ev(z).used >= Ev(v).used + more
  BY <1>1, <1>2, <1>3, <1>6
<1> QED BY <1>4, <1>7 DEF Access, y, z, cost

-----------------------------------------------------------------------------
(***************************************************************************)
(* The invariant.                                                          *)
(***************************************************************************)
\* Only the current frame may have ended; a suspended one runs code, has lent its whole
\* reservoir and has room for the result. A frame with an error has its reservoir refilled.
Flow(v) ==
  \A i \in 1 .. Top(v) :
    LET f == v.frames[i] IN
      /\ f.running => f.err = "none"
      /\ f.err # "none" => f.sleft = f.rsv /\ f.spilled = 0
      /\ i < Top(v) => f.running /\ f.code /\ f.sleft = 0 /\ f.n < f.scap

\* The gas a frame started with is what it holds, what it has given to its child and, for the
\* first one, what authorizations have taken.
Owed(v, i) == (IF i < Top(v) THEN v.frames[i + 1].gas ELSE 0) + (IF i = 1 THEN v.auth.spilled ELSE 0)
Balanced(v) == \A i \in 1 .. Top(v) : v.frames[i].gas = Held(v.frames[i]) + Owed(v, i)

\* The slice of a frame ends where the next one begins: memory below, operands above.
UpOf(v, i)   == IF i = Top(v) THEN v.up ELSE v.frames[i + 1].memMark
DownOf(v, i) == IF i = Top(v) THEN v.down ELSE v.frames[i + 1].mark
Slices(v) ==
  /\ v.frames[1].memMark = 0 /\ v.frames[1].mark = ArenaSize
  /\ \A i \in 1 .. Top(v) :
       /\ v.frames[i].mem = v.frames[i].memMark /\ v.frames[i].mark <= ArenaSize
       /\ Lies(v.frames[i], UpOf(v, i), DownOf(v, i))

\* The input of a child, and the place for its output, lie in its parent's memory; the
\* output of a frame lies in its own memory or in its parent's.
Views(v) ==
  \A i \in 1 .. Top(v) :
    LET f == v.frames[i] IN
      /\ i > 1 => /\ f.data[2] > 0 => Within(f.data, v.frames[i - 1])
                  /\ f.ret <= v.frames[i - 1].len
      /\ f.out[2] > 0 => Within(f.out, f) \/ (i > 1 /\ Within(f.out, v.frames[i - 1]))

\* The worlds so far, the present one last; the times are their indices.
Past(v)  == Append(v.journal, v.world)
Times(v) == 1 .. Len(v.journal) + 1
Nonce(a) == <<a, "nonce">>
Code(a)  == <<a, "code">>
Auth(a)  == <<a, "auth">>
\* The world and the warm lists a frame works on: those its child was started in.
WorldOf(v, i) == IF i = Top(v) THEN v.world ELSE v.frames[i + 1].was.world
WarmOf(v, i)  == IF i = Top(v) THEN v.warm ELSE v.frames[i + 1].was.warm

\* An account with a nonce exists, and one with code has a nonce.
Closed(w) == \A a \in New : /\ Nonce(a) \in w => a \in w
                            /\ Code(a) \in w \/ Auth(a) \in w => Nonce(a) \in w
\* A nonce once written stays through all later worlds.
History(v) ==
  /\ \A a \in New, k, l \in Times(v) : k <= l /\ Nonce(a) \in Past(v)[k] => Nonce(a) \in Past(v)[l]
  /\ \A k \in Times(v) : Closed(Past(v)[k])

\* The rollback points of the frames are in the order of the frames, and the one of a frame is
\* the world its parent was in.
Snaps(v) ==
  \A i \in 1 .. Top(v) :
    LET f == v.frames[i] IN
      /\ f.csnap <= f.snap /\ f.snap <= Len(v.journal)
      /\ \A j \in i + 1 .. Top(v) : f.snap <= v.frames[j].csnap
      /\ Past(v)[f.csnap + 1] = f.was.world
      /\ f.kind # "create" /\ i > 1 => f.snap = f.csnap

\* An account whose code runs has its nonce since before the frame's rollback point; one that is
\* being created had none and never had code; what is doomed was created.
Births(v) ==
  \A i \in 1 .. Top(v) :
    LET f == v.frames[i] IN
      /\ f.code /\ f.self \in New => Nonce(f.self) \in Past(v)[f.snap + 1]
      /\ f.kind = "create" =>
           /\ f.self \in New /\ f.code /\ Nonce(f.self) \notin f.was.world
           /\ \A k \in Times(v) : Code(f.self) \notin Past(v)[k]
      /\ \A a \in f.doomed : Nonce(a) \in WorldOf(v, i)

\* Below a static frame there are only static ones, and nothing is written since it started.
Static(v) ==
  \A i \in 1 .. Top(v) :
    LET f == v.frames[i] IN
      f.static => /\ f.kind # "create" /\ f.snap >= Len(v.journal)
                  /\ \A j \in i .. Top(v) : v.frames[j].static

\* What was accessed when the frame started is still there, and first.
Warmth(v) ==
  \A i \in 1 .. Top(v) :
    LET f == v.frames[i] IN
      /\ f.addrs = Len(f.was.warm.addrs) /\ f.keys = Len(f.was.warm.keys)
      /\ Prefix(f.was.warm.addrs, WarmOf(v, i).addrs)
      /\ Prefix(f.was.warm.keys, WarmOf(v, i).keys)

\* State gas a frame has used, and what it has paid for: its own state gas, the account its caller
\* paid for, and all that was there when it started.
Own(v, i)  == StateGasUsed(v.frames[i]) + (IF i = 1 THEN v.auth.used ELSE 0)
Paid(v, i) == Own(v, i) + Prepaid(v.frames[i]) + CostOf(v.frames[i].was.world)
\* A suspended frame has paid for the world it gave its child and for the reservoir it lent.
LowerPaid(v) ==
  \A i \in 1 .. Top(v) - 1 :
    Paid(v, i) = CostOf(v.frames[i + 1].was.world) + v.frames[i + 1].rsv + Prepaid(v.frames[i + 1])
\* The first frame starts in the empty world; what authorizations bring is paid apart.
FirstPaid(v) ==
  LET f == v.frames[1] IN
    /\ f.was.world = {} /\ ~f.charged /\ f.csnap = 0
    /\ IF f.kind = "create" THEN v.auth.used = 0 ELSE CostOf(Past(v)[f.snap + 1]) = v.auth.used
\* What the current frame has paid for is the present world.
TopPaid(v) == Ev(v).err = "none" => Paid(v, Top(v)) = CostOf(v.world)

\* The parts that do not depend on gas, the parts that hold also in the middle of an
\* instruction, and all of them.
Fixture(v) == Slices(v) /\ Views(v) /\ History(v) /\ Snaps(v) /\ Births(v) /\ Static(v) /\ Warmth(v)
Base(v) == Sound(v) /\ v.trap = 0 /\ Fixture(v) /\ FirstPaid(v)
Core(v) == Base(v) /\ Flow(v) /\ Balanced(v) /\ LowerPaid(v)
Good(v) == v.err = "none" /\ Core(v) /\ TopPaid(v)

\* After the transaction: the arena is released, the gas balances and the world is paid for.
Ended(v) ==
  /\ v.err = "none" /\ v.trap = 0 /\ Top(v) = 1
  /\ Typed(v) /\ Balanced(v) /\ v.up = 0 /\ v.down = ArenaSize
  /\ Paid(v, 1) = CostOf(v.world)
  /\ v.frames[1].err = "none" => \A a \in v.frames[1].doomed : Nonce(a) \in v.world

\* An exhausted arena ends the program at once; what was borrowed is still there.
Trapped(v) == v.trap # 0 /\ Typed(v) /\ Views(v)

\* The inductive invariant: the machine is idle before the transaction, the frames, the journal,
\* the arena and both kinds of gas are in step while it runs (or the arena has run out and the
\* program stopped), and everything is released and paid for after it.
Inv ==
  \/ phase = "start" /\ vm = Idle
  \/ phase = "running" /\ (Good(vm) \/ Trapped(vm))
  \/ phase = "done" /\ Ended(vm)
-----------------------------------------------------------------------------
\* Work in the current frame preserves every part of the fixture.
LEMMA WorksFrames ==
  ASSUME NEW v, NEW y, Sound(v), Works(v, y)
  PROVE  /\ Top(v) \in Nat \ {0} /\ Top(y) = Top(v)
         /\ \A i \in 1 .. Top(v) : /\ v.frames[i] \in FrameState /\ y.frames[i] \in FrameState
                                   /\ Kept(v.frames[i], y.frames[i])
                                   /\ i < Top(v) => y.frames[i] = v.frames[i]
         /\ v.frames[Top(v)] = Ev(v) /\ y.frames[Top(v)] = Ev(y)
<1>1. /\ v \in Machine /\ y \in Machine /\ Top(v) >= 1 /\ Top(y) = Top(v)
      /\ \A i \in 1 .. Top(v) - 1 : y.frames[i] = v.frames[i]
      /\ Kept(Ev(v), Ev(y))
  BY DEF Works, Sound, Typed
<1>2. /\ Top(v) \in Nat \ {0} /\ v.frames[Top(v)] = Ev(v) /\ y.frames[Top(v)] = Ev(y)
      /\ \A i \in 1 .. Top(v) : v.frames[i] \in FrameState /\ y.frames[i] \in FrameState
  BY <1>1, FrameAt
<1>3. ASSUME NEW i \in 1 .. Top(v)
      PROVE  Kept(v.frames[i], y.frames[i]) /\ (i < Top(v) => y.frames[i] = v.frames[i])
  <2>1. CASE i = Top(v)
    BY <1>1, <1>2, <2>1
  <2>2. CASE i # Top(v)
    <3>1. i \in 1 .. Top(v) - 1
      BY <1>2, <2>2
    <3> QED BY <1>1, <1>2, <3>1, KeptSame
  <2> QED BY <2>1, <2>2
<1> QED BY <1>1, <1>2, <1>3

LEMMA WorksViews ==
  ASSUME NEW v, NEW y, Sound(v), Works(v, y), Views(v)
  PROVE  Views(y)
<1> USE WorksFrames
<1>1. ASSUME NEW i \in 1 .. Top(y)
      PROVE  LET f == y.frames[i] IN
               /\ i > 1 => /\ f.data[2] > 0 => Within(f.data, y.frames[i - 1])
                           /\ f.ret <= y.frames[i - 1].len
               /\ f.out[2] > 0 => Within(f.out, f) \/ (i > 1 /\ Within(f.out, y.frames[i - 1]))
  <2>1. /\ i \in 1 .. Top(v) /\ Top(v) \in Nat /\ Kept(v.frames[i], y.frames[i])
        /\ v.frames[i] \in FrameState /\ y.frames[i] \in FrameState
    OBVIOUS
  <2>2. /\ v.frames[i].mem \in Nat /\ v.frames[i].len \in Nat /\ y.frames[i].len \in Nat
        /\ v.frames[i].out \in Nat \X Nat
    BY <2>1, FrameFields
  <2>3. Within(v.frames[i].out, v.frames[i]) => Within(y.frames[i].out, y.frames[i])
    BY <2>1, <2>2 DEF Within, Kept
  <2>4. i > 1 => y.frames[i - 1] = v.frames[i - 1]
    BY <2>1
  <2>5. /\ i > 1 => /\ v.frames[i].data[2] > 0 => Within(v.frames[i].data, v.frames[i - 1])
                    /\ v.frames[i].ret <= v.frames[i - 1].len
        /\ v.frames[i].out[2] > 0 => \/ Within(v.frames[i].out, v.frames[i])
                                     \/ i > 1 /\ Within(v.frames[i].out, v.frames[i - 1])
    BY <2>1 DEF Views
  <2>6. y.frames[i].out = v.frames[i].out /\ y.frames[i].data = v.frames[i].data /\ y.frames[i].ret = v.frames[i].ret
    BY <2>1 DEF Kept
  <2> QED BY <2>3, <2>4, <2>5, <2>6
<1> QED BY <1>1 DEF Views

LEMMA WorksSlices ==
  ASSUME NEW v, NEW y, Sound(v), Works(v, y), y.trap = 0, Slices(v)
  PROVE  Slices(y)
<1>1. /\ Top(v) \in Nat \ {0} /\ Top(y) = Top(v)
      /\ \A i \in 1 .. Top(v) : /\ Kept(v.frames[i], y.frames[i])
                                /\ i < Top(v) => y.frames[i] = v.frames[i]
      /\ v.frames[Top(v)] = Ev(v) /\ y.frames[Top(v)] = Ev(y)
  BY WorksFrames
<1>2. \A i \in 1 .. Top(v) : /\ y.frames[i].mem = v.frames[i].mem
                             /\ y.frames[i].memMark = v.frames[i].memMark
                             /\ y.frames[i].mark = v.frames[i].mark
  BY <1>1 DEF Kept
<1>3. \A i \in 1 .. Top(v) : /\ v.frames[i].mem = v.frames[i].memMark /\ v.frames[i].mark <= ArenaSize
                             /\ Lies(v.frames[i], UpOf(v, i), DownOf(v, i))
  BY DEF Slices
<1>4. ASSUME NEW i \in 1 .. Top(v)
      PROVE  Lies(y.frames[i], UpOf(y, i), DownOf(y, i))
  <2>1. CASE i = Top(v)
    <3>1. Lies(Ev(v), v.up, v.down)
      BY <1>1, <1>3, <2>1 DEF UpOf, DownOf
    <3>2. Lies(Ev(y), y.up, y.down)
      BY <3>1 DEF Works
    <3> QED BY <1>1, <2>1, <3>2 DEF UpOf, DownOf
  <2>2. CASE i # Top(v)
    <3>1. i \in 1 .. Top(v) - 1 /\ i + 1 \in 1 .. Top(v)
      BY <1>1, <2>2
    <3>2. UpOf(y, i) = UpOf(v, i) /\ DownOf(y, i) = DownOf(v, i)
      BY <1>1, <1>2, <2>2, <3>1 DEF UpOf, DownOf
    <3> QED BY <1>1, <1>3, <3>1, <3>2
  <2> QED BY <2>1, <2>2
<1>5. y.frames[1].memMark = 0 /\ y.frames[1].mark = ArenaSize
  BY <1>1, <1>2 DEF Slices
<1> QED BY <1>1, <1>2, <1>3, <1>4, <1>5 DEF Slices

\* what the machine has written, and when, is all the next properties look at
LEMMA SamePast ==
  ASSUME NEW v, NEW y, y.world = v.world, y.journal = v.journal
  PROVE  Past(y) = Past(v) /\ Times(y) = Times(v) /\ (History(v) => History(y))
BY DEF Past, Times, History

LEMMA WorksSnaps ==
  ASSUME NEW v, NEW y, Sound(v), Works(v, y), Snaps(v)
  PROVE  Snaps(y)
<1>1. /\ Top(v) \in Nat \ {0} /\ Top(y) = Top(v)
      /\ \A i \in 1 .. Top(v) : Kept(v.frames[i], y.frames[i])
  BY WorksFrames
<1>2. y.world = v.world /\ y.journal = v.journal
  BY DEF Works
<1>3. \A i \in 1 .. Top(v) :
        LET f == v.frames[i]
            g == y.frames[i]
        IN  g.csnap = f.csnap /\ g.snap = f.snap /\ g.was = f.was /\ g.kind = f.kind
  BY <1>1 DEF Kept
<1>4. \A i \in 1 .. Top(v) : \A j \in i + 1 .. Top(v) : j \in 1 .. Top(v)
  BY <1>1
<1> QED BY <1>1, <1>2, <1>3, <1>4, SamePast DEF Snaps

LEMMA WorksBirths ==
  ASSUME NEW v, NEW y, Sound(v), Works(v, y), Births(v)
  PROVE  Births(y)
<1>1. /\ Top(v) \in Nat \ {0} /\ Top(y) = Top(v)
      /\ \A i \in 1 .. Top(v) : Kept(v.frames[i], y.frames[i])
  BY WorksFrames
<1>2. y.world = v.world /\ Past(y) = Past(v) /\ Times(y) = Times(v)
  BY SamePast DEF Works
<1>3. \A i \in 1 .. Top(v) :
        LET f == v.frames[i]
            g == y.frames[i]
        IN  /\ g.code = f.code /\ g.self = f.self /\ g.snap = f.snap
            /\ g.was = f.was /\ g.kind = f.kind /\ g.doomed = f.doomed
  BY <1>1 DEF Kept
<1>4. \A i \in 1 .. Top(v) : WorldOf(y, i) = WorldOf(v, i)
  BY <1>1, <1>2, <1>3 DEF WorldOf
<1> QED BY <1>1, <1>2, <1>3, <1>4 DEF Births

LEMMA WorksStatic ==
  ASSUME NEW v, NEW y, Sound(v), Works(v, y), Static(v)
  PROVE  Static(y)
<1>1. /\ Top(v) \in Nat \ {0} /\ Top(y) = Top(v)
      /\ \A i \in 1 .. Top(v) : Kept(v.frames[i], y.frames[i])
  BY WorksFrames
<1>2. y.journal = v.journal
  BY DEF Works
<1>3. \A i \in 1 .. Top(v) :
        LET f == v.frames[i]
            g == y.frames[i]
        IN  g.static = f.static /\ g.snap = f.snap /\ g.kind = f.kind
  BY <1>1 DEF Kept
<1>4. \A i \in 1 .. Top(v) : \A j \in i .. Top(v) : j \in 1 .. Top(v)
  BY <1>1
<1> QED BY <1>1, <1>2, <1>3, <1>4 DEF Static

LEMMA WorksWarmth ==
  ASSUME NEW v, NEW y, Sound(v), Works(v, y), Warmth(v)
  PROVE  Warmth(y)
<1>1. /\ Top(v) \in Nat \ {0} /\ Top(y) = Top(v)
      /\ \A i \in 1 .. Top(v) : v.frames[i] \in FrameState /\ Kept(v.frames[i], y.frames[i])
  BY WorksFrames
<1>2. \A i \in 1 .. Top(v) :
        LET f == v.frames[i]
            g == y.frames[i]
        IN  g.addrs = f.addrs /\ g.keys = f.keys /\ g.was = f.was
  BY <1>1 DEF Kept
<1>3. Prefix(v.warm.addrs, y.warm.addrs) /\ Prefix(v.warm.keys, y.warm.keys)
  BY DEF Works
<1>4. /\ v.warm.addrs \in Seq(Addr) /\ y.warm.addrs \in Seq(Addr)
      /\ v.warm.keys \in Seq(Slot) /\ y.warm.keys \in Seq(Slot)
  BY MachineFields DEF Works, Sound, Typed
<1>5. ASSUME NEW i \in 1 .. Top(v)
      PROVE  /\ Prefix(y.frames[i].was.warm.addrs, WarmOf(y, i).addrs)
             /\ Prefix(y.frames[i].was.warm.keys, WarmOf(y, i).keys)
  <2>1. /\ Prefix(v.frames[i].was.warm.addrs, WarmOf(v, i).addrs)
        /\ Prefix(v.frames[i].was.warm.keys, WarmOf(v, i).keys)
    BY DEF Warmth
  <2>2. CASE i = Top(v)
    <3>1. v.frames[i].was.warm.addrs \in Seq(Addr) /\ v.frames[i].was.warm.keys \in Seq(Slot)
      BY <1>1, FrameFields
    <3>2. /\ Prefix(v.frames[i].was.warm.addrs, y.warm.addrs)
          /\ Prefix(v.frames[i].was.warm.keys, y.warm.keys)
      BY <1>3, <1>4, <2>1, <2>2, <3>1, PrefixTrans DEF WarmOf
    <3> QED BY <1>1, <1>2, <2>2, <3>2 DEF WarmOf
  <2>3. CASE i # Top(v)
    BY <1>1, <1>2, <2>1, <2>3 DEF WarmOf
  <2> QED BY <2>2, <2>3
<1> QED BY <1>1, <1>2, <1>5 DEF Warmth

LEMMA WorksFixture ==
  ASSUME NEW v, NEW y, Sound(v), Works(v, y), y.trap = 0, Fixture(v)
  PROVE  Fixture(y)
BY WorksViews, WorksSlices, SamePast, WorksSnaps, WorksBirths, WorksStatic, WorksWarmth
   DEF Fixture, Works
-----------------------------------------------------------------------------
\* what is owed to other frames, and what the frames below have paid, is the
\* same after work in the current frame
LEMMA WorksBelow ==
  ASSUME NEW v, NEW y, Sound(v), Works(v, y)
  PROVE  /\ \A i \in 1 .. Top(v) : /\ y.frames[i].gas = v.frames[i].gas /\ Owed(y, i) = Owed(v, i)
                                   /\ Prepaid(y.frames[i]) = Prepaid(v.frames[i])
                                   /\ y.frames[i].was = v.frames[i].was
         /\ LowerPaid(v) => LowerPaid(y)
         /\ FirstPaid(v) => FirstPaid(y)
<1>1. /\ Top(v) \in Nat \ {0} /\ Top(y) = Top(v)
      /\ \A i \in 1 .. Top(v) : Kept(v.frames[i], y.frames[i]) /\ (i < Top(v) => y.frames[i] = v.frames[i])
  BY WorksFrames
<1>2. y.auth = v.auth /\ Past(y) = Past(v)
  BY SamePast DEF Works
<1>3. \A i \in 1 .. Top(v) :
        LET f == v.frames[i]
            g == y.frames[i]
        IN  /\ g.gas = f.gas /\ g.was = f.was /\ g.charged = f.charged /\ g.rsv = f.rsv
            /\ g.kind = f.kind /\ g.snap = f.snap /\ g.csnap = f.csnap
            /\ Prepaid(g) = Prepaid(f)
  BY <1>1 DEF Kept, Prepaid
<1>4. \A i \in 1 .. Top(v) : i < Top(v) => i + 1 \in 1 .. Top(v)
  BY <1>1
<1>5. \A i \in 1 .. Top(v) : Owed(y, i) = Owed(v, i)
  BY <1>1, <1>2, <1>3, <1>4 DEF Owed
<1>6. \A i \in 1 .. Top(v) - 1 : i \in 1 .. Top(v) /\ Paid(y, i) = Paid(v, i)
  BY <1>1, <1>2, <1>3 DEF Paid, Own
<1>7. LowerPaid(v) => LowerPaid(y)
  BY <1>1, <1>3, <1>4, <1>6 DEF LowerPaid
<1>8. FirstPaid(v) => FirstPaid(y)
  BY <1>1, <1>2, <1>3 DEF FirstPaid
<1> QED BY <1>3, <1>5, <1>7, <1>8

LEMMA WorksFlow ==
  ASSUME NEW v, NEW y, Sound(v), Works(v, y), Flow(v), Ev(v).err = "none"
  PROVE  Flow(y) /\ Ev(y).err = "none" /\ Ev(y).running = Ev(v).running
         /\ Ev(y).code = Ev(v).code /\ Ev(y).kind = Ev(v).kind
<1>1. /\ Top(v) \in Nat \ {0} /\ Top(y) = Top(v)
      /\ \A i \in 1 .. Top(v) : i < Top(v) => y.frames[i] = v.frames[i]
      /\ y.frames[Top(v)] = Ev(y)
  BY WorksFrames
<1>2. Ev(y).err = "none" /\ Ev(y).running = Ev(v).running /\ Ev(y).code = Ev(v).code /\ Ev(y).kind = Ev(v).kind
  BY DEF Works, Kept
<1>3. Flow(y)
  BY <1>1, <1>2 DEF Flow
<1> QED BY <1>2, <1>3

\* The core of the invariant after work that keeps the gas.
LEMMA LocalCore ==
  ASSUME NEW v, NEW y, NEW d \in Int, Core(v), Ev(v).err = "none", Local(v, y, d), y.trap = 0
  PROVE  Core(y) /\ Ev(y).err = "none"
<1>1. Sound(v) /\ Works(v, y) /\ Sound(y) /\ Fixture(v) /\ Flow(v) /\ Balanced(v)
  BY DEF Core, Base, Local, Works
<1>2. Fixture(y) /\ Flow(y) /\ Ev(y).err = "none"
  BY <1>1, WorksFixture, WorksFlow
<1>3. LowerPaid(y) /\ FirstPaid(y)
  BY <1>1, WorksBelow DEF Core, Base
<1>4. Balanced(y)
  <2>1. /\ Top(v) \in Nat \ {0} /\ Top(y) = Top(v)
        /\ \A i \in 1 .. Top(v) : i < Top(v) => y.frames[i] = v.frames[i]
        /\ v.frames[Top(v)] = Ev(v) /\ y.frames[Top(v)] = Ev(y)
    BY <1>1, WorksFrames
  <2>2. \A i \in 1 .. Top(v) : Held(y.frames[i]) = Held(v.frames[i])
    BY <2>1 DEF Local
  <2>3. \A i \in 1 .. Top(v) : y.frames[i].gas = v.frames[i].gas /\ Owed(y, i) = Owed(v, i)
    BY <1>1, WorksBelow
  <2> QED BY <1>1, <2>1, <2>2, <2>3 DEF Balanced
<1> QED BY <1>1, <1>2, <1>3, <1>4 DEF Core, Base
-----------------------------------------------------------------------------
\* what one more thing in the world costs
PriceOf(x) ==
  IF x \in New THEN StateGas.account ELSE IF x \in Slot THEN StateGas.slot
  ELSE IF x \in New \X {"code"} THEN StateGas.code
  ELSE IF x \in New \X {"auth"} THEN StateGas.auth ELSE 0

\* Worlds are finite, so that they have a price.
LEMMA WorldsAreFinite ==
  ASSUME NEW w, w \subseteq Objects
  PROVE  IsFiniteSet(w)
<1>1. IsFiniteSet({"nonce", "code", "auth"})
  <2>1. IsFiniteSet({"nonce"} \cup {"code"}) /\ IsFiniteSet({"auth"})
    BY FS_Singleton, FS_Union
  <2>2. IsFiniteSet(({"nonce"} \cup {"code"}) \cup {"auth"})
    BY <2>1, FS_Union
  <2>3. ({"nonce"} \cup {"code"}) \cup {"auth"} = {"nonce", "code", "auth"}
    OBVIOUS
  <2> QED BY <2>2, <2>3
<1>2. IsFiniteSet(New) /\ IsFiniteSet(Slot)
  BY FramesAssumption DEF Addr
<1>3. IsFiniteSet(New \X {"nonce", "code", "auth"})
  BY <1>1, <1>2, FS_Product
<1>4. IsFiniteSet(New \cup Slot)
  BY <1>2, FS_Union
<1>5. IsFiniteSet((New \cup Slot) \cup (New \X {"nonce", "code", "auth"}))
  BY <1>3, <1>4, FS_Union
<1>6. Objects = (New \cup Slot) \cup (New \X {"nonce", "code", "auth"})
  BY DEF Objects
<1> QED BY <1>5, <1>6, FS_Subset

\* One more thing of a kind counts one more.
LEMMA CountOne ==
  ASSUME NEW w, IsFiniteSet(w), NEW K, NEW x, x \notin w
  PROVE  /\ Cardinality(w \cap K) \in Nat
         /\ Cardinality((w \cup {x}) \cap K)
            = IF x \in K THEN Cardinality(w \cap K) + 1 ELSE Cardinality(w \cap K)
<1>1. IsFiniteSet(w \cap K)
  BY FS_Intersection
<1>2. CASE x \in K
  <2>1. (w \cup {x}) \cap K = (w \cap K) \cup {x} /\ x \notin w \cap K
    BY <1>2
  <2> QED BY <1>1, <1>2, <2>1, FS_AddElement, FS_CardinalityType
<1>3. CASE x \notin K
  <2>1. (w \cup {x}) \cap K = w \cap K
    BY <1>3
  <2> QED BY <1>1, <1>3, <2>1, FS_CardinalityType
<1> QED BY <1>2, <1>3

\* The price of a world by kinds.
LEMMA CostIs ==
  ASSUME NEW w
  PROVE  CostOf(w) = StateGas.account * Cardinality(w \cap New) + StateGas.slot * Cardinality(w \cap Slot)
                     + StateGas.code * Cardinality(w \cap (New \X {"code"}))
                     + StateGas.auth * Cardinality(w \cap (New \X {"auth"}))
<1>1. \A x : {p \in w : p \in New \X {x}} = w \cap (New \X {x})
  OBVIOUS
<1> QED BY <1>1 DEF CostOf

LEMMA CostNat ==
  ASSUME NEW w, w \subseteq Objects
  PROVE  CostOf(w) \in Nat
<1>1. IsFiniteSet(w)
  BY WorldsAreFinite
<1>2. /\ Cardinality(w \cap New) \in Nat /\ Cardinality(w \cap Slot) \in Nat
      /\ Cardinality(w \cap (New \X {"code"})) \in Nat
      /\ Cardinality(w \cap (New \X {"auth"})) \in Nat
  BY <1>1, FS_Intersection, FS_CardinalityType
<1> HIDE DEF CostOf
<1>3. \A a, b \in Nat : a * b \in Nat /\ a + b \in Nat
  OBVIOUS
<1> QED BY <1>2, <1>3, CostIs, PricesAreNat

\* each new thing is paid for by itself
LEMMA CostOfMore ==
  ASSUME NEW w, w \subseteq Objects, NEW x \in Objects, x \notin w
  PROVE  CostOf(w \cup {x}) = CostOf(w) + PriceOf(x)
<1> DEFINE n(K) == Cardinality(w \cap K)
           m(K) == Cardinality((w \cup {x}) \cap K)
<1>1. IsFiniteSet(w)
  BY WorldsAreFinite
<1>2. \A K : n(K) \in Nat /\ m(K) = IF x \in K THEN n(K) + 1 ELSE n(K)
  BY <1>1, CountOne
<1>3. /\ CostOf(w) = StateGas.account * n(New) + StateGas.slot * n(Slot)
                     + StateGas.code * n(New \X {"code"}) + StateGas.auth * n(New \X {"auth"})
      /\ CostOf(w \cup {x}) = StateGas.account * m(New) + StateGas.slot * m(Slot)
                     + StateGas.code * m(New \X {"code"}) + StateGas.auth * m(New \X {"auth"})
  BY CostIs
<1> HIDE DEF n, m
<1>4. /\ x \in New => x \notin Slot
      /\ x \in New \cup Slot => x \notin New \X {"code"} /\ x \notin New \X {"auth"}
      /\ x \in New \X {"code"} => x \notin New \X {"auth"}
  BY FramesAssumption DEF Addr
<1>5. ASSUME NEW a \in Nat, NEW K
      PROVE  a * n(K) \in Nat /\ a * m(K) = a * n(K) + (IF x \in K THEN a ELSE 0)
  <2>1. \A k \in Nat : a * (k + 1) = a * k + a /\ a * k \in Nat
    OBVIOUS
  <2>2. n(K) \in Nat /\ m(K) = IF x \in K THEN n(K) + 1 ELSE n(K)
    BY <1>2
  <2> QED BY <2>1, <2>2
<1>6. \E p, q, r, s \in Nat :
        /\ CostOf(w) = p + q + r + s
        /\ CostOf(w \cup {x}) =
             (p + (IF x \in New THEN StateGas.account ELSE 0))
             + (q + (IF x \in Slot THEN StateGas.slot ELSE 0))
             + (r + (IF x \in New \X {"code"} THEN StateGas.code ELSE 0))
             + (s + (IF x \in New \X {"auth"} THEN StateGas.auth ELSE 0))
  <2>1. /\ StateGas.account * n(New) \in Nat /\ StateGas.slot * n(Slot) \in Nat
        /\ StateGas.code * n(New \X {"code"}) \in Nat /\ StateGas.auth * n(New \X {"auth"}) \in Nat
    BY <1>5, PricesAreNat
  <2>2. /\ StateGas.account * m(New)
           = StateGas.account * n(New) + (IF x \in New THEN StateGas.account ELSE 0)
        /\ StateGas.slot * m(Slot)
           = StateGas.slot * n(Slot) + (IF x \in Slot THEN StateGas.slot ELSE 0)
        /\ StateGas.code * m(New \X {"code"})
           = StateGas.code * n(New \X {"code"}) + (IF x \in New \X {"code"} THEN StateGas.code ELSE 0)
        /\ StateGas.auth * m(New \X {"auth"})
           = StateGas.auth * n(New \X {"auth"}) + (IF x \in New \X {"auth"} THEN StateGas.auth ELSE 0)
    BY <1>5, PricesAreNat
  <2> USE <2>1
  <2> WITNESS StateGas.account * n(New) \in Nat, StateGas.slot * n(Slot) \in Nat,
              StateGas.code * n(New \X {"code"}) \in Nat, StateGas.auth * n(New \X {"auth"}) \in Nat
  <2> QED BY <1>3, <2>2
<1> QED BY <1>4, <1>6, PricesAreNat DEF PriceOf
-----------------------------------------------------------------------------
\* What is paid are integers, and prices are natural numbers.
LEMMA PaidInt ==
  ASSUME NEW v, v \in Machine, NEW i \in 1 .. Top(v), Top(v) >= 1
  PROVE  /\ StateGasUsed(v.frames[i]) \in Int /\ Own(v, i) \in Int /\ Prepaid(v.frames[i]) \in Nat
         /\ CostOf(v.frames[i].was.world) \in Nat /\ Paid(v, i) \in Int
         /\ CostOf(v.world) \in Nat
<1>1. v.frames[i] \in FrameState /\ v.auth.used \in Int /\ v.world \subseteq Objects
  BY FrameAt, MachineFields
<1>2. /\ v.frames[i].was.world \subseteq Objects /\ v.frames[i].charged \in BOOLEAN
      /\ StateGasUsed(v.frames[i]) \in Int
  BY <1>1, FrameFields DEF StateGasUsed
<1>3. Prepaid(v.frames[i]) \in Nat
  BY <1>2, PricesAreNat DEF Prepaid
<1>4. Own(v, i) \in Int
  BY <1>1, <1>2 DEF Own
<1>5. CostOf(v.frames[i].was.world) \in Nat /\ CostOf(v.world) \in Nat
  BY <1>1, <1>2, CostNat
<1>6. Paid(v, i) \in Int
  BY <1>3, <1>4, <1>5 DEF Paid
<1> QED BY <1>2, <1>3, <1>4, <1>5, <1>6

\* Work that uses d more state gas has paid for d more.
LEMMA LocalPaid ==
  ASSUME NEW v, NEW y, NEW d \in Int, Sound(v), Local(v, y, d), Fine(y)
  PROVE  Paid(y, Top(y)) = Paid(v, Top(v)) + d /\ y.world = v.world
<1>1. Works(v, y) /\ StateGasUsed(Ev(y)) = StateGasUsed(Ev(v)) + d /\ y.auth = v.auth /\ y.world = v.world
  BY DEF Local, Works
<1>2. /\ Top(v) \in Nat \ {0} /\ Top(y) = Top(v) /\ v.frames[Top(v)] = Ev(v) /\ y.frames[Top(v)] = Ev(y)
  BY <1>1, WorksFrames
<1>3. /\ Prepaid(Ev(y)) = Prepaid(Ev(v)) /\ Ev(y).was = Ev(v).was
  BY <1>1 DEF Works, Kept, Prepaid
<1>4. /\ StateGasUsed(Ev(v)) \in Int /\ Prepaid(Ev(v)) \in Nat /\ CostOf(Ev(v).was.world) \in Nat
      /\ v.auth.used \in Int
  <2>1. v \in Machine /\ Top(v) >= 1 /\ Top(v) \in 1 .. Top(v)
    BY <1>2 DEF Sound, Typed
  <2>2. v.auth.used \in Int
    BY <2>1, MachineFields
  <2> QED BY <1>2, <2>1, <2>2, PaidInt
<1> HIDE DEF CostOf, Prepaid, StateGasUsed
<1> QED BY <1>1, <1>2, <1>3, <1>4 DEF Paid, Own

\* Another current frame: what may change of it is its gas, what it returns,
\* whether it runs, and what it marks for deletion.
Replaces(v, f, g) ==
  /\ g.kind = f.kind /\ g.self = f.self /\ g.static = f.static /\ g.code = f.code
  /\ g.gas = f.gas /\ g.rsv = f.rsv /\ g.snap = f.snap /\ g.csnap = f.csnap
  /\ g.charged = f.charged /\ g.addrs = f.addrs /\ g.keys = f.keys /\ g.mem = f.mem
  /\ g.mark = f.mark /\ g.memMark = f.memMark /\ g.data = f.data /\ g.ret = f.ret
  /\ g.was = f.was /\ g.len >= f.len /\ Held(g) = Held(f)
  /\ g.cap = f.cap /\ g.len = f.len /\ g.stk = f.stk /\ g.scap = f.scap /\ g.n = f.n
  /\ g.running => g.err = "none"
  /\ g.err # "none" => g.sleft = g.rsv /\ g.spilled = 0
  /\ \/ g.out = f.out \/ g.out[2] = 0 \/ Within(g.out, g)
     \/ Top(v) > 1 /\ Within(g.out, v.frames[Top(v) - 1])
  /\ \A a \in g.doomed : Nonce(a) \in v.world

\* Such a frame can replace the current one.
LEMMA ReplaceCore ==
  ASSUME NEW v, Core(v), NEW g \in FrameState, Replaces(v, Ev(v), g)
  PROVE  Core(With(v, g)) /\ IsWith(v, g, With(v, g))
<1> DEFINE y == With(v, g)
           f == Ev(v)
<1>1. v \in Machine /\ Top(v) \in Nat \ {0} /\ Sound(v) /\ f \in FrameState /\ f = v.frames[Top(v)]
      /\ v.trap = 0
  BY FrameAt DEF Core, Base, Sound, Typed
<1>2. IsWith(v, g, y)
  BY <1>1, WithTop
<1> HIDE DEF y, f
<1>3. /\ Top(y) = Top(v) /\ y.frames[Top(v)] = g
      /\ \A i \in 1 .. Top(v) : i < Top(v) => y.frames[i] = v.frames[i]
      /\ Past(y) = Past(v) /\ Times(y) = Times(v) /\ y.auth = v.auth /\ y.world = v.world
      /\ y.journal = v.journal /\ y.up = v.up /\ y.down = v.down /\ y.warm = v.warm /\ y.trap = 0
  BY <1>1, <1>2, SamePast DEF IsWith
<1>4. Sound(y)
  BY <1>1, <1>2 DEF Sound, Typed, IsWith
<1>5. \A i \in 1 .. Top(v) :
        LET o == v.frames[i]
            p == y.frames[i]
        IN  /\ p.kind = o.kind /\ p.self = o.self /\ p.static = o.static /\ p.code = o.code
            /\ p.gas = o.gas /\ p.rsv = o.rsv /\ p.snap = o.snap /\ p.csnap = o.csnap
            /\ p.charged = o.charged /\ p.addrs = o.addrs /\ p.keys = o.keys
            /\ p.mem = o.mem /\ p.mark = o.mark /\ p.memMark = o.memMark
            /\ p.data = o.data /\ p.ret = o.ret /\ p.was = o.was /\ p.len = o.len
            /\ p.cap = o.cap /\ p.stk = o.stk /\ p.scap = o.scap /\ p.n = o.n
            /\ Held(p) = Held(o) /\ Prepaid(p) = Prepaid(o)
  <2>1. ASSUME NEW i \in 1 .. Top(v), i < Top(v) PROVE y.frames[i] = v.frames[i]
    BY <1>3, <2>1
  <2>2. Prepaid(g) = Prepaid(f)
    BY DEF Replaces, Prepaid, f
  <2> QED BY <1>1, <1>3, <2>1, <2>2 DEF Replaces, f
<1>6. \A i \in 1 .. Top(v) : WorldOf(y, i) = WorldOf(v, i) /\ WarmOf(y, i) = WarmOf(v, i)
                             /\ UpOf(y, i) = UpOf(v, i) /\ DownOf(y, i) = DownOf(v, i)
                             /\ Owed(y, i) = Owed(v, i)
  <2>1. \A i \in 1 .. Top(v) : i # Top(v) => i + 1 \in 1 .. Top(v)
    BY <1>1
  <2> QED BY <1>1, <1>3, <1>5, <2>1 DEF WorldOf, WarmOf, UpOf, DownOf, Owed
<1>7. Slices(y)
  BY <1>1, <1>3, <1>5, <1>6 DEF Slices, Lies, Core, Base, Fixture
<1>8. Views(y)
  <2>1. \A i \in 1 .. Top(v) : i > 1 => i - 1 \in 1 .. Top(v)
    BY <1>1
  <2>2. \A i \in 1 .. Top(v) : \A view : Within(view, y.frames[i]) <=> Within(view, v.frames[i])
    BY <1>5 DEF Within
  <2>3. ASSUME NEW i \in 1 .. Top(v)
        PROVE  y.frames[i].out[2] > 0 =>
                 \/ Within(y.frames[i].out, y.frames[i])
                 \/ i > 1 /\ Within(y.frames[i].out, y.frames[i - 1])
    <3>1. v.frames[i].out[2] > 0 => \/ Within(v.frames[i].out, v.frames[i])
                                    \/ i > 1 /\ Within(v.frames[i].out, v.frames[i - 1])
      BY DEF Core, Base, Fixture, Views
    <3>2. CASE y.frames[i].out = v.frames[i].out
      BY <2>1, <2>2, <3>1, <3>2
    <3>3. CASE y.frames[i].out # v.frames[i].out
      <4>1. i = Top(v) /\ y.frames[i] = g
        BY <1>1, <1>3, <3>3
      <4>2. CASE g.out[2] = 0
        BY <4>1, <4>2
      <4>3. CASE Within(g.out, g)
        BY <4>1, <4>3
      <4>4. CASE Top(v) > 1 /\ Within(g.out, v.frames[Top(v) - 1])
        BY <2>1, <2>2, <4>1, <4>4
      <4> QED BY <1>1, <3>3, <4>1, <4>2, <4>3, <4>4 DEF Replaces, f
    <3> QED BY <3>2, <3>3
  <2>4. \A i \in 1 .. Top(v) :
          i > 1 => /\ y.frames[i].data[2] > 0 => Within(y.frames[i].data, y.frames[i - 1])
                   /\ y.frames[i].ret <= y.frames[i - 1].len
    BY <1>5, <2>1, <2>2 DEF Core, Base, Fixture, Views
  <2> QED BY <1>3, <2>3, <2>4 DEF Views
<1>9. History(y)
  BY <1>3, SamePast DEF Core, Base, Fixture
<1>10. Snaps(y)
  <2>1. \A i \in 1 .. Top(v) : \A j \in i + 1 .. Top(v) : j \in 1 .. Top(v)
    BY <1>1
  <2> QED BY <1>3, <1>5, <2>1 DEF Core, Base, Fixture, Snaps
<1>11. Births(y)
  <2>1. ASSUME NEW i \in 1 .. Top(v), NEW a \in y.frames[i].doomed
        PROVE  Nonce(a) \in WorldOf(y, i)
    <3>1. CASE i = Top(v)
      BY <1>1, <1>3, <3>1 DEF Replaces, WorldOf
    <3>2. CASE i # Top(v)
      <4>1. y.frames[i] = v.frames[i]
        BY <1>1, <1>3, <3>2
      <4> QED BY <1>6, <4>1 DEF Core, Base, Fixture, Births
    <3> QED BY <3>1, <3>2
  <2> QED BY <1>3, <1>5, <2>1 DEF Core, Base, Fixture, Births
<1>12. Static(y)
  <2>1. \A i \in 1 .. Top(v) : \A j \in i .. Top(v) : j \in 1 .. Top(v)
    BY <1>1
  <2> QED BY <1>3, <1>5, <2>1 DEF Core, Base, Fixture, Static
<1>13. Warmth(y)
  <2>1. Warmth(v)
    BY DEF Core, Base, Fixture
  <2>2. ASSUME NEW i \in 1 .. Top(v)
        PROVE  /\ y.frames[i].addrs = Len(y.frames[i].was.warm.addrs)
               /\ y.frames[i].keys = Len(y.frames[i].was.warm.keys)
               /\ Prefix(y.frames[i].was.warm.addrs, WarmOf(y, i).addrs)
               /\ Prefix(y.frames[i].was.warm.keys, WarmOf(y, i).keys)
    <3>1. /\ y.frames[i].addrs = v.frames[i].addrs /\ y.frames[i].keys = v.frames[i].keys
          /\ y.frames[i].was = v.frames[i].was /\ WarmOf(y, i) = WarmOf(v, i)
      BY <1>5, <1>6
    <3> QED BY <2>1, <3>1 DEF Warmth
  <2> QED BY <1>3, <2>2 DEF Warmth
<1>14. FirstPaid(y)
  BY <1>1, <1>3, <1>5 DEF Core, Base, FirstPaid
<1>15. Flow(y)
  <2>1. \A i \in 1 .. Top(v) : i < Top(v) => y.frames[i] = v.frames[i]
    BY <1>3
  <2>2. /\ g.running => g.err = "none"
        /\ g.err # "none" => g.sleft = g.rsv /\ g.spilled = 0
    BY DEF Replaces
  <2> QED BY <1>1, <1>3, <2>1, <2>2 DEF Core, Flow
<1>16. Balanced(y)
  BY <1>3, <1>5, <1>6 DEF Core, Balanced
<1>17. LowerPaid(y)
  <2>1. \A i \in 1 .. Top(v) - 1 : i \in 1 .. Top(v) /\ i + 1 \in 1 .. Top(v) /\ i < Top(v)
    BY <1>1
  <2>2. \A i \in 1 .. Top(v) - 1 : Paid(y, i) = Paid(v, i)
    BY <1>3, <2>1 DEF Paid, Own
  <2> QED BY <1>3, <1>5, <2>1, <2>2 DEF Core, LowerPaid
<1> QED
  BY <1>2, <1>3, <1>4, <1>7, <1>8, <1>9, <1>10, <1>11, <1>12, <1>13, <1>14, <1>15, <1>16, <1>17
     DEF Core, Base, Fixture, y
-----------------------------------------------------------------------------
\* The last replacement counts.
LEMMA WithWith ==
  ASSUME NEW v \in Machine, Top(v) >= 1, NEW f \in FrameState, NEW g \in FrameState
  PROVE  With(With(v, f), g) = With(v, g)
<1>1. v.frames \in Seq(FrameState) /\ Len(v.frames) \in Nat \ {0}
  BY MachineFields DEF Top
<1> DEFINE s == [v.frames EXCEPT ![Len(v.frames)] = f]
<1>2. With(v, f) = [v EXCEPT !.frames = s]
  BY DEF With, Machine
<1>3. s \in Seq(FrameState) /\ Len(s) = Len(v.frames)
  BY <1>1
<1>4. [s EXCEPT ![Len(s)] = g] = [v.frames EXCEPT ![Len(v.frames)] = g]
  BY <1>1, <1>3
<1> HIDE DEF s
<1>5. With(With(v, f), g) = [v EXCEPT !.frames = [s EXCEPT ![Len(s)] = g]]
  BY <1>2, <1>3 DEF With, Machine
<1>6. With(v, g) = [v EXCEPT !.frames = [v.frames EXCEPT ![Len(v.frames)] = g]]
  BY DEF With, Machine
<1> QED BY <1>4, <1>5, <1>6

\* Setting the exception changes nothing else.
LEMMA ErrIs ==
  ASSUME NEW v \in Machine, NEW e \in {"none", "halt", "revert"}, NEW w, w = [v EXCEPT !.err = e]
  PROVE  /\ w \in Machine /\ w.frames = v.frames /\ w.world = v.world
         /\ w.journal = v.journal /\ w.created = v.created /\ w.warm = v.warm
         /\ w.up = v.up /\ w.down = v.down /\ w.err = e /\ w.trap = v.trap /\ w.auth = v.auth
BY DEF Machine

\* The core of the invariant does not depend on the exception.
LEMMA ErrCore ==
  ASSUME NEW v, Core(v), NEW e \in {"none", "halt", "revert"}
  PROVE  Core([v EXCEPT !.err = e]) /\ Ev([v EXCEPT !.err = e]) = Ev(v)
<1> DEFINE w == [v EXCEPT !.err = e]
<1>1. v \in Machine /\ v.trap = 0
  BY DEF Core, Base, Sound, Typed
<1>2. /\ w \in Machine /\ w.frames = v.frames /\ w.world = v.world
      /\ w.journal = v.journal /\ w.created = v.created /\ w.warm = v.warm
      /\ w.up = v.up /\ w.down = v.down /\ w.err = e /\ w.trap = v.trap /\ w.auth = v.auth
  BY <1>1, ErrIs
<1> HIDE DEF w
<1>3. Top(w) = Top(v) /\ Ev(w) = Ev(v) /\ Past(w) = Past(v) /\ Times(w) = Times(v)
  BY <1>2, SamePast DEF Top, Ev
<1>4. Sound(w)
  BY <1>1, <1>2, <1>3 DEF Core, Base, Sound, Typed
<1>5. Slices(w) /\ Views(w) /\ History(w) /\ Snaps(w)
  BY <1>2, <1>3 DEF Core, Base, Fixture, Slices, Views, History, Snaps, UpOf, DownOf
<1>6. Births(w) /\ Static(w) /\ Warmth(w)
  BY <1>2, <1>3 DEF Core, Base, Fixture, Births, Static, Warmth, WorldOf, WarmOf
<1>7. Flow(w) /\ Balanced(w) /\ LowerPaid(w) /\ FirstPaid(w)
  BY <1>2, <1>3 DEF Core, Base, Flow, Balanced, Owed, LowerPaid, FirstPaid, Paid, Own
<1>8. Core(w)
  BY <1>1, <1>2, <1>4, <1>5, <1>6, <1>7 DEF Core, Base, Fixture
<1> QED BY <1>3, <1>8 DEF w

\* an exception ends the current frame, whose state gas is refilled
Refilled(f) == [f EXCEPT !.left = f.left + f.spilled, !.sleft = f.rsv, !.spilled = 0]
Halted(f) == [f EXCEPT !.used = f.used + f.left, !.left = 0, !.err = "halt", !.out = <<0, 0>>]

\* Both are frames.
LEMMA RefilledIs ==
  ASSUME NEW f \in FrameState
  PROVE  /\ Refilled(f) \in FrameState /\ Halted(Refilled(f)) \in FrameState
         /\ [Refilled(f) EXCEPT !.err = "revert"] \in FrameState
<1>1. /\ f.left \in Nat /\ f.spilled \in Nat /\ f.rsv \in Nat /\ f.left + f.spilled \in Nat
  BY FrameFields
<1>2. Refilled(f) \in FrameState
  BY <1>1, FrameWith DEF Refilled
<1> HIDE DEF Refilled
<1>3. Refilled(f).used + Refilled(f).left \in Nat /\ <<0, 0>> \in View
  BY <1>2, FrameFields DEF View
<1> QED BY <1>2, <1>3, FrameWith DEF Halted

\* handle: refill the state gas, take all gas after a halt, stop the frame.
LEMMA HandleIs ==
  ASSUME NEW v \in Machine, Top(v) >= 1, v.err # "none"
  PROVE  LET w == [v EXCEPT !.err = "none"]
             f == Refilled(Ev(v))
         IN  Handle(v) = With(w, [IF v.err = "revert" THEN [f EXCEPT !.err = "revert"] ELSE Halted(f)
                                    EXCEPT !.running = FALSE])
<1> DEFINE w == [v EXCEPT !.err = "none"]
           f == Refilled(Ev(v))
           y == With(w, f)
           g == IF v.err = "revert" THEN [f EXCEPT !.err = "revert"] ELSE Halted(f)
           z == With(y, g)
           h == [g EXCEPT !.running = FALSE]
<1>1. w \in Machine /\ w.frames = v.frames
  BY ErrIs
<1>2. Ev(w) = Ev(v) /\ Top(w) = Top(v) /\ Ev(v) \in FrameState
  BY <1>1, FrameAt DEF Ev, Top
<1>3. Refill(w) = y
  BY <1>2 DEF Refill, Refilled
<1>4. f \in FrameState /\ g \in FrameState
  BY <1>2, RefilledIs
<1>5. h \in FrameState
  BY <1>4, FrameWith
<1> HIDE DEF w, f
<1>6. IsWith(w, f, y)
  BY <1>1, <1>2, <1>4, WithTop
<1>7. Ev(y) = f /\ y \in Machine /\ Top(y) >= 1
  BY <1>2, <1>6 DEF IsWith
<1>8. FrameHalt(y) = With(y, Halted(f))
  BY <1>7 DEF FrameHalt, Halted
<1>9. Handle(v) = With(z, [Ev(z) EXCEPT !.running = FALSE])
  <2>1. CASE v.err = "revert"
    BY <1>3, <1>7, <2>1 DEF Handle, w
  <2>2. CASE v.err # "revert"
    BY <1>3, <1>8, <2>2 DEF Handle, w
  <2> QED BY <2>1, <2>2
<1> HIDE DEF y, g
<1>10. Ev(z) = g
  BY <1>4, <1>7, WithTop DEF IsWith
<1>11. With(z, h) = With(y, h)
  BY <1>4, <1>5, <1>7, WithWith
<1>12. With(y, h) = With(w, h)
  BY <1>1, <1>2, <1>4, <1>5, WithWith DEF y
<1> HIDE DEF z
<1>13. Handle(v) = With(w, h)
  BY <1>9, <1>10, <1>11, <1>12
<1> QED BY <1>13 DEF w, f, g

\* A thrown exception is handled into a good machine.
LEMMA HandleCore ==
  ASSUME NEW v, Core(v), v.err # "none"
  PROVE  Good(Handle(v)) /\ IsWith([v EXCEPT !.err = "none"], Ev(Handle(v)), Handle(v))
<1> DEFINE w == [v EXCEPT !.err = "none"]
           f == Refilled(Ev(v))
           g == IF v.err = "revert" THEN [f EXCEPT !.err = "revert"] ELSE Halted(f)
           h == [g EXCEPT !.running = FALSE]
<1>1. v \in Machine /\ Top(v) >= 1 /\ Ev(v) \in FrameState
  BY FrameAt DEF Core, Base, Sound, Typed
<1>2. Core(w) /\ Ev(w) = Ev(v) /\ w.err = "none" /\ w.world = v.world
  BY <1>1, ErrCore, ErrIs
<1>3. Handle(v) = With(w, h)
  BY <1>1, HandleIs
<1>4. f \in FrameState /\ g \in FrameState
  BY <1>1, RefilledIs
<1>5. h \in FrameState
  BY <1>4, FrameWith
<1>6. Replaces(w, Ev(v), h) /\ h.err # "none"
  <2>1. Held(f) = Held(Ev(v)) /\ f.sleft = f.rsv /\ f.spilled = 0 /\ Ev(v).len \in Nat
    <3>1. /\ Ev(v).left \in Nat /\ Ev(v).used \in Nat /\ Ev(v).spilled \in Nat /\ Ev(v).len \in Nat
      BY <1>1, FrameFields
    <3>2. /\ f.left = Ev(v).left + Ev(v).spilled /\ f.used = Ev(v).used /\ f.spilled = 0
          /\ f.sleft = f.rsv
      BY <1>1 DEF Refilled, FrameState
    <3> HIDE DEF f
    <3> QED BY <3>1, <3>2 DEF Held
  <2>2. \A a \in Ev(v).doomed : Nonce(a) \in w.world
    <3>1. Top(v) \in 1 .. Top(v) /\ Ev(v) = v.frames[Top(v)]
      BY <1>1, FrameAt
    <3> QED BY <1>2, <3>1 DEF Core, Base, Fixture, Births, WorldOf
  <2>3. /\ f.kind = Ev(v).kind /\ f.self = Ev(v).self /\ f.static = Ev(v).static /\ f.code = Ev(v).code
        /\ f.gas = Ev(v).gas /\ f.rsv = Ev(v).rsv /\ f.snap = Ev(v).snap /\ f.csnap = Ev(v).csnap
        /\ f.charged = Ev(v).charged /\ f.addrs = Ev(v).addrs /\ f.keys = Ev(v).keys
        /\ f.mem = Ev(v).mem /\ f.mark = Ev(v).mark /\ f.memMark = Ev(v).memMark
        /\ f.data = Ev(v).data /\ f.ret = Ev(v).ret /\ f.was = Ev(v).was /\ f.len = Ev(v).len
        /\ f.cap = Ev(v).cap /\ f.stk = Ev(v).stk /\ f.scap = Ev(v).scap /\ f.n = Ev(v).n
        /\ f.out = Ev(v).out /\ f.doomed = Ev(v).doomed
    BY <1>1 DEF Refilled, FrameState
  <2> HIDE DEF f
  <2>4. CASE v.err = "revert"
    <3>1. h = [[f EXCEPT !.err = "revert"] EXCEPT !.running = FALSE]
      BY <2>4
    <3> HIDE DEF h, w
    <3> QED BY <1>4, <2>1, <2>2, <2>3, <3>1 DEF Replaces, Held, FrameState
  <2>5. CASE v.err # "revert"
    <3>1. h = [Halted(f) EXCEPT !.running = FALSE]
      BY <2>5
    <3>2. f.left \in Nat /\ f.used \in Nat /\ f.spilled \in Nat
      BY <1>4, FrameFields
    <3> HIDE DEF h, w
    <3> QED BY <1>4, <2>1, <2>2, <2>3, <3>1, <3>2 DEF Halted, Replaces, Held, FrameState
  <2> QED BY <2>4, <2>5
<1> HIDE DEF w, h
<1>7. Core(With(w, h)) /\ IsWith(w, h, With(w, h))
  BY <1>2, <1>5, <1>6, ReplaceCore
<1>8. Ev(With(w, h)) = h /\ With(w, h).err = "none"
  BY <1>2, <1>7 DEF IsWith
<1> QED BY <1>3, <1>6, <1>7, <1>8 DEF Good, TopPaid, w
-----------------------------------------------------------------------------
(***************************************************************************)
(* A machine in the middle of an operation of a running frame: d of the    *)
(* state gas used has not been spent on the world yet.                     *)
(***************************************************************************)
\* In the middle of an instruction: d state gas is paid for what is still to be written.
\* After: at its end.
Sane(v, d) ==
  /\ Sound(v) /\ Ev(v).err = "none"
  /\ v.trap # 0 => Views(v)
  /\ v.trap = 0 => Core(v)
  /\ Fine(v) => Paid(v, Top(v)) = CostOf(v.world) + d

After(v) == Good(v) \/ Trapped(v)

\* An instruction starts with nothing paid in advance.
LEMMA GoodSane ==
  ASSUME NEW v, Good(v), Ev(v).err = "none"
  PROVE  Sane(v, 0) /\ Fine(v) /\ Sound(v)
<1>1. Sound(v) /\ Top(v) \in 1 .. Top(v) /\ Top(v) >= 1
  BY FrameAt DEF Good, Core, Base, Sound, Typed
<1>2. CostOf(v.world) \in Int
  BY <1>1, PaidInt DEF Sound, Typed
<1> QED BY <1>1, <1>2 DEF Good, Core, Base, Sane, TopPaid, Fine

\* Helpers keep a machine sane and add what they charge.
LEMMA LocalSane ==
  ASSUME NEW v, NEW y, NEW d \in Int, NEW e \in Int, Sane(v, d), Local(v, y, e)
  PROVE  Sane(y, d + e)
<1>1. Sound(v) /\ Works(v, y) /\ Sound(y) /\ (~Fine(v) => y = v) /\ (Fine(y) => Fine(v))
  BY DEF Sane, Local, Works
<1>2. CASE ~Fine(v)
  BY <1>1, <1>2 DEF Sane
<1>3. CASE Fine(v)
  <2>1. v.trap = 0 /\ Core(v) /\ Paid(v, Top(v)) = CostOf(v.world) + d /\ Views(v)
    BY <1>3 DEF Sane, Fine, Core, Base, Fixture
  <2>2. Views(y)
    BY <1>1, <2>1, WorksViews
  <2>3. Ev(y).err = "none"
    BY <1>1 DEF Works, Kept, Sane
  <2>4. y.trap = 0 => Core(y)
    BY <2>1, LocalCore DEF Sane
  <2>5. ASSUME Fine(y) PROVE Paid(y, Top(y)) = CostOf(y.world) + (d + e)
    <3>1. Paid(y, Top(y)) = Paid(v, Top(v)) + e /\ y.world = v.world
      BY <1>1, <2>5, LocalPaid
    <3>2. CostOf(v.world) \in Int
      BY <1>1, CostNat, MachineFields DEF Sound, Typed
    <3> HIDE DEF CostOf, Paid
    <3> QED BY <2>1, <3>1, <3>2
  <2> QED BY <1>1, <2>2, <2>3, <2>4, <2>5 DEF Sane
<1> QED BY <1>2, <1>3

\* An instruction that ends with nothing paid in advance has kept the invariant.
LEMMA HandleAfter ==
  ASSUME NEW v, Sane(v, 0)
  PROVE  After(Handle(v))
<1>1. Typed(v) /\ Sound(v)
  BY DEF Sane, Sound
<1>2. CASE v.trap # 0
  <2>1. Handle(v) = v
    BY <1>1, <1>2 DEF Typed, Handle
  <2> QED BY <1>1, <1>2, <2>1 DEF After, Trapped, Sane
<1>3. CASE v.trap = 0 /\ v.err = "none"
  <2>1. Handle(v) = v
    BY <1>3 DEF Handle
  <2>2. Paid(v, Top(v)) = CostOf(v.world) + 0 /\ CostOf(v.world) \in Int
    BY <1>1, <1>3, CostNat, MachineFields DEF Sane, Fine, Typed
  <2> QED BY <1>3, <2>1, <2>2 DEF After, Good, TopPaid, Sane
<1>4. CASE v.trap = 0 /\ v.err # "none"
  BY <1>4, HandleCore DEF After, Sane
<1> QED BY <1>2, <1>3, <1>4

\* A write appends the present world to the journal.
LEMMA WriteIs ==
  ASSUME NEW v, Sound(v), Fine(v), NEW w \in SUBSET Objects
  PROVE  LET y == Write(v, w) IN
           /\ Sound(y) /\ y.frames = v.frames /\ Ev(y) = Ev(v) /\ Top(y) = Top(v)
           /\ y.world = w /\ y.journal = Append(v.journal, v.world)
           /\ y.created = v.created /\ y.warm = v.warm
           /\ y.up = v.up /\ y.down = v.down /\ y.err = v.err /\ y.trap = v.trap /\ y.auth = v.auth
<1> DEFINE y == [v EXCEPT !.journal = Append(v.journal, v.world), !.world = w]
<1>1. v \in Machine /\ v.journal \in Seq(SUBSET Objects) /\ v.world \in SUBSET Objects
  BY MachineFields DEF Sound, Typed
<1>2. Append(v.journal, v.world) \in Seq(SUBSET Objects)
  BY <1>1
<1>3. /\ y \in Machine /\ y.frames = v.frames
      /\ y.world = w /\ y.journal = Append(v.journal, v.world)
      /\ y.created = v.created /\ y.warm = v.warm
      /\ y.up = v.up /\ y.down = v.down /\ y.err = v.err /\ y.trap = v.trap /\ y.auth = v.auth
  BY <1>1, <1>2 DEF Machine
<1>4. Write(v, w) = y
  BY DEF Write
<1> HIDE DEF y
<1>5. Ev(y) = Ev(v) /\ Top(y) = Top(v)
  BY <1>3 DEF Ev, Top
<1>6. Sound(y)
  BY <1>3, <1>5 DEF Sound, Typed
<1> QED BY <1>3, <1>4, <1>5, <1>6

\* a world that may be written: no account is taken away, and the code of
\* what is being created is not there yet
Writable(v, w) ==
  /\ w \in SUBSET Objects /\ ~Ev(v).static /\ Closed(w)
  /\ \A a \in New : Nonce(a) \in v.world => Nonce(a) \in w
  /\ \A i \in 1 .. Top(v) : v.frames[i].kind = "create" => Code(v.frames[i].self) \notin w

\* Such a write keeps the parts of the invariant.
LEMMA WriteBase ==
  ASSUME NEW v, Base(v), Fine(v), NEW w, Writable(v, w)
  PROVE  Base(Write(v, w))
<1> DEFINE y == Write(v, w)
           n == Len(v.journal)
<1>1. Sound(v) /\ v \in Machine /\ v.journal \in Seq(SUBSET Objects) /\ v.trap = 0 /\ n \in Nat
      /\ Top(v) \in Nat \ {0} /\ Ev(v) = v.frames[Top(v)]
      /\ \A i \in 1 .. Top(v) : v.frames[i] \in FrameState
  BY MachineFields, FrameAt DEF Base, Sound, Typed
<1>2. /\ Sound(y) /\ y.frames = v.frames /\ Ev(y) = Ev(v) /\ Top(y) = Top(v)
      /\ y.world = w /\ y.journal = Append(v.journal, v.world)
      /\ y.warm = v.warm
      /\ y.up = v.up /\ y.down = v.down /\ y.err = v.err /\ y.trap = v.trap /\ y.auth = v.auth
  BY <1>1, WriteIs DEF Writable
<1> HIDE DEF y
<1>3. /\ Len(y.journal) = n + 1 /\ Past(y)[n + 2] = w /\ Past(v)[n + 1] = v.world
      /\ \A k \in 1 .. n + 1 : Past(y)[k] = Past(v)[k]
  BY <1>1, <1>2 DEF Past
<1> HIDE DEF n
<1>4. Times(y) = 1 .. n + 2 /\ Times(v) = 1 .. n + 1
  BY <1>1, <1>3 DEF Times, n
<1>5. \A i \in 1 .. Top(v) : /\ v.frames[i].snap \in Nat /\ v.frames[i].csnap \in Nat
                             /\ v.frames[i].csnap <= v.frames[i].snap /\ v.frames[i].snap <= n
  BY <1>1, FrameFields DEF Base, Fixture, Snaps, n
<1>6. \A i \in 1 .. Top(v) : /\ Past(y)[v.frames[i].snap + 1] = Past(v)[v.frames[i].snap + 1]
                             /\ Past(y)[v.frames[i].csnap + 1] = Past(v)[v.frames[i].csnap + 1]
  <2>1. \A i \in 1 .. Top(v) : v.frames[i].snap + 1 \in 1 .. n + 1 /\ v.frames[i].csnap + 1 \in 1 .. n + 1
    <3>1. \A x, z \in Nat : x <= z /\ z <= n => z + 1 \in 1 .. n + 1 /\ x + 1 \in 1 .. n + 1
      BY <1>1
    <3> QED BY <1>5, <3>1
  <2> QED BY <1>3, <2>1
<1>7. Slices(y) /\ Views(y) /\ Warmth(y)
  BY <1>2 DEF Base, Fixture, Slices, Views, Warmth, UpOf, DownOf, WarmOf
<1>8. History(y)
  <2>1. \A k \in Times(y) : k \in Times(v) \/ k = n + 2
    BY <1>1, <1>4
  <2>2. ASSUME NEW k \in Times(y) PROVE Closed(Past(y)[k])
    BY <1>3, <1>4, <2>1 DEF Base, Fixture, History, Writable
  <2>3. ASSUME NEW a \in New, NEW k \in Times(y), NEW l \in Times(y), k <= l, Nonce(a) \in Past(y)[k]
        PROVE  Nonce(a) \in Past(y)[l]
    <3>1. CASE l \in Times(v)
      <4>1. k \in Times(v)
        BY <1>1, <1>4, <2>3, <3>1
      <4> QED BY <1>3, <1>4, <2>3, <3>1, <4>1 DEF Base, Fixture, History
    <3>2. CASE l = n + 2
      <4>1. CASE k = n + 2
        BY <2>3, <3>2, <4>1
      <4>2. CASE k \in Times(v)
        <5>1. Nonce(a) \in Past(v)[k]
          BY <1>3, <1>4, <2>3, <4>2
        <5>2. n + 1 \in Times(v) /\ k <= n + 1
          BY <1>1, <1>4, <4>2
        <5>3. Nonce(a) \in v.world
          BY <1>3, <4>2, <5>1, <5>2 DEF Base, Fixture, History
        <5> QED BY <1>3, <3>2, <5>3 DEF Writable
      <4> QED BY <2>1, <4>1, <4>2
    <3> QED BY <2>1, <3>1, <3>2
  <2> QED BY <2>2, <2>3 DEF History
<1>9. Snaps(y)
  <2>1. \A i \in 1 .. Top(v) : v.frames[i].snap <= Len(y.journal)
    BY <1>1, <1>3, <1>5
  <2> QED BY <1>2, <1>6, <2>1 DEF Base, Fixture, Snaps
<1>10. Births(y)
  <2>1. ASSUME NEW i \in 1 .. Top(v), v.frames[i].kind = "create", NEW k \in Times(y)
        PROVE  Code(v.frames[i].self) \notin Past(y)[k]
    <3>1. CASE k = n + 2
      BY <1>3, <2>1, <3>1 DEF Writable
    <3>2. CASE k \in 1 .. n + 1
      BY <1>3, <1>4, <2>1, <3>2 DEF Base, Fixture, Births
    <3> QED BY <1>1, <1>4, <3>1, <3>2
  <2>2. ASSUME NEW i \in 1 .. Top(v), NEW a \in v.frames[i].doomed
        PROVE  Nonce(a) \in WorldOf(y, i)
    <3>1. Nonce(a) \in WorldOf(v, i) /\ a \in New
      BY <1>1, FrameFields DEF Base, Fixture, Births
    <3> QED BY <1>2, <3>1 DEF WorldOf, Writable
  <2> QED BY <1>2, <1>6, <2>1, <2>2 DEF Base, Fixture, Births
<1>11. Static(y)
  <2>1. \A i \in 1 .. Top(v) : ~v.frames[i].static
    <3>1. \A i \in 1 .. Top(v) : Top(v) \in i .. Top(v)
      BY <1>1
    <3> QED BY <1>1, <3>1 DEF Base, Fixture, Static, Writable
  <2> QED BY <1>2, <2>1 DEF Static
<1>12. FirstPaid(y)
  <2>1. 1 \in 1 .. Top(v)
    BY <1>1
  <2> QED BY <1>2, <1>6, <2>1 DEF Base, FirstPaid
<1> QED BY <1>1, <1>2, <1>7, <1>8, <1>9, <1>10, <1>11, <1>12 DEF Base, Fixture, y

LEMMA WriteCore ==
  ASSUME NEW v, Core(v), Fine(v), NEW w, Writable(v, w)
  PROVE  Core(Write(v, w))
<1> DEFINE y == Write(v, w)
<1>1. Base(y)
  BY WriteBase DEF Core
<1>2. y.frames = v.frames /\ Top(y) = Top(v) /\ y.auth = v.auth
  BY WriteIs DEF Core, Base, Writable
<1> HIDE DEF y
<1>3. Flow(y) /\ Balanced(y) /\ LowerPaid(y)
  BY <1>2 DEF Core, Flow, Balanced, Owed, LowerPaid, Paid, Own
<1> QED BY <1>1, <1>3 DEF Core, y

\* what is written is paid for by what has been charged
LEMMA WriteSane ==
  ASSUME NEW v, NEW d \in Int, Sane(v, d), NEW w, Fine(v) => Writable(v, w),
         NEW e \in Int, Fine(v) => CostOf(w) = CostOf(v.world) + e
  PROVE  Sane(Write(v, w), d - e)
<1>1. CASE ~Fine(v)
  <2>1. Write(v, w) = v
    BY <1>1 DEF Write
  <2> QED BY <1>1, <2>1 DEF Sane
<1>2. CASE Fine(v)
  <2> DEFINE y == Write(v, w)
  <2>1. Core(v) /\ Core(y) /\ Sound(v)
    BY <1>2, WriteCore DEF Sane, Fine
  <2>2. /\ Sound(y) /\ y.frames = v.frames /\ Ev(y) = Ev(v) /\ Top(y) = Top(v)
        /\ y.world = w /\ y.trap = v.trap /\ y.auth = v.auth
    BY <1>2, <2>1, WriteIs DEF Writable
  <2> HIDE DEF y
  <2>3. Paid(y, Top(y)) = Paid(v, Top(v))
    BY <2>2 DEF Paid, Own
  <2>4. CostOf(v.world) \in Int /\ CostOf(w) = CostOf(v.world) + e /\ Paid(v, Top(v)) = CostOf(v.world) + d
    BY <1>2, <2>1, CostNat, MachineFields DEF Sound, Typed, Sane
  <2>5. Paid(y, Top(y)) = CostOf(y.world) + (d - e)
    <3> HIDE DEF Paid, CostOf
    <3> QED BY <2>2, <2>3, <2>4
  <2>6. y.trap = 0
    BY <1>2, <2>2 DEF Fine
  <2> QED BY <2>1, <2>2, <2>5, <2>6 DEF Sane, y
<1> QED BY <1>1, <1>2
=============================================================================
