---------------------------- MODULE FramesSteps -----------------------------
(***************************************************************************)
(* The handlers of ops.pnk preserve the invariant: each instruction, run   *)
(* in a good machine and followed by the handler of exceptions, leaves a   *)
(* good machine or one that has trapped.  Here are the instructions that   *)
(* stay in their frame, the opening of a frame, CREATE and CALL, and the   *)
(* epilogue of a frame.                                                    *)
(***************************************************************************)
EXTENDS FramesInvariant

\* A running replacement of the current frame with the same state gas.
LEMMA ReplaceSane ==
  ASSUME NEW v, NEW d \in Int, Sane(v, d), Fine(v), NEW g \in FrameState, Replaces(v, Ev(v), g),
         g.err = "none", StateGasUsed(g) = StateGasUsed(Ev(v))
  PROVE  Sane(With(v, g), d) /\ Fine(With(v, g))
<1> DEFINE y == With(v, g)
<1>1. Core(v) /\ v \in Machine /\ Top(v) >= 1 /\ Ev(v) = v.frames[Top(v)] /\ Top(v) \in 1 .. Top(v)
  BY FrameAt DEF Sane, Fine, Core, Base, Sound, Typed
<1>2. Core(y) /\ IsWith(v, g, y)
  BY <1>1, ReplaceCore
<1> HIDE DEF y
<1>3. Paid(y, Top(y)) = Paid(v, Top(v))
  BY <1>1, <1>2 DEF Paid, Own, IsWith, Replaces, Prepaid
<1>4. Fine(y) /\ Ev(y).err = "none" /\ y.world = v.world
  BY <1>2 DEF IsWith, Fine
<1>5. Sane(y, d)
  BY <1>2, <1>3, <1>4 DEF Sane, Core, Base, Fine
<1> QED BY <1>4, <1>5 DEF y

\* a frame that runs has an account, which does not go away while it runs
LEMMA SelfIsAlive ==
  ASSUME NEW v, Core(v), Ev(v).code
  PROVE  Ev(v).self \in New => Nonce(Ev(v).self) \in v.world /\ Ev(v).self \in v.world
<1>1. /\ Top(v) \in 1 .. Top(v) /\ Ev(v) = v.frames[Top(v)] /\ Ev(v) \in FrameState
      /\ v.journal \in Seq(SUBSET Objects)
  BY FrameAt, MachineFields DEF Core, Base, Sound, Typed
<1>2. Ev(v).snap \in Nat /\ Ev(v).snap <= Len(v.journal) /\ Len(v.journal) \in Nat
  BY <1>1, FrameFields DEF Core, Base, Fixture, Snaps
<1>3. Ev(v).snap + 1 \in Times(v) /\ Len(v.journal) + 1 \in Times(v)
      /\ Ev(v).snap + 1 <= Len(v.journal) + 1
  BY <1>2 DEF Times
<1>4. Past(v)[Len(v.journal) + 1] = v.world
  BY <1>1 DEF Past
<1>5. Ev(v).self \in New => Nonce(Ev(v).self) \in Past(v)[Ev(v).snap + 1]
  BY <1>1 DEF Core, Base, Fixture, Births
<1> QED BY <1>3, <1>4, <1>5 DEF Core, Base, Fixture, History, Closed

\* What the invariant says of the present world.
LEMMA NowClosed ==
  ASSUME NEW v, Core(v)
  PROVE  Closed(v.world) /\ v.world \in SUBSET Objects
         /\ \A i \in 1 .. Top(v) : v.frames[i].kind = "create" => Code(v.frames[i].self) \notin v.world
<1>1. v.journal \in Seq(SUBSET Objects) /\ v.world \in SUBSET Objects
  BY MachineFields DEF Core, Base, Sound, Typed
<1>2. Len(v.journal) + 1 \in Times(v) /\ Past(v)[Len(v.journal) + 1] = v.world
  BY <1>1 DEF Times, Past
<1> QED BY <1>1, <1>2 DEF Core, Base, Fixture, History, Births

\* Accounts, slots, nonces, codes and authorizations are different things of the world.
LEMMA ThingsApart ==
  /\ \A a \in New, s \in Slot : s # a /\ s # Nonce(a) /\ s # Code(a) /\ s # Auth(a)
  /\ \A a, b \in New : b # Nonce(a) /\ b # Code(a) /\ b # Auth(a)
  /\ \A a, b : Nonce(a) # Code(b) /\ Nonce(a) # Auth(b) /\ Code(a) # Auth(b)
  /\ \A a, b : (Nonce(a) = Nonce(b) => a = b) /\ (Code(a) = Code(b) => a = b) /\ (Auth(a) = Auth(b) => a = b)
  /\ \A a \in New : Nonce(a) \in Objects /\ Code(a) \in Objects /\ Auth(a) \in Objects /\ a \in Objects
  /\ \A s \in Slot : s \in Objects
BY FramesAssumption DEF Addr, Nonce, Code, Auth, Objects

\* A nonce is free, the other things have the prices of the schedule.
LEMMA PricesOf ==
  /\ \A a \in New : /\ PriceOf(a) = StateGas.account /\ PriceOf(Nonce(a)) = 0
                    /\ PriceOf(Code(a)) = StateGas.code /\ PriceOf(Auth(a)) = StateGas.auth
  /\ \A s \in Slot : PriceOf(s) = StateGas.slot
BY FramesAssumption DEF Addr, Nonce, Code, Auth, PriceOf
-----------------------------------------------------------------------------
(***************************************************************************)
(* The instructions that only compute.                                     *)
(***************************************************************************)
LEMMA LocalAfter ==
  ASSUME NEW v, Good(v), Ev(v).err = "none", NEW y, Local(v, y, 0)
  PROVE  After(Handle(y))
BY GoodSane, LocalSane, HandleAfter, 0 + 0 = 0

\* Work leaves a sound machine.
LEMMA LocalSound ==
  ASSUME NEW v, NEW y, NEW d, Local(v, y, d)
  PROVE  Sound(y)
BY DEF Local, Works

\* The simple instructions: constants and environment push, POP drops.
LEMMA PushOpLocal ==
  ASSUME NEW v, Sound(v)
  PROVE  Local(v, Push(Charge(v, Gas.base)), 0)
<1>1. Local(v, Charge(v, Gas.base), 0)
  BY ChargeLocal, PricesAreNat
<1> QED BY <1>1, LocalSound, PushLocal, LocalChain

LEMMA PopOpLocal ==
  ASSUME NEW v, Sound(v)
  PROVE  Local(v, Charge(Pop(v, 1), Gas.base), 0)
<1>1. Local(v, Pop(v, 1), 0)
  BY PopLocal
<1>2. Local(Pop(v, 1), Charge(Pop(v, 1), Gas.base), 0)
  BY <1>1, LocalSound, ChargeLocal, PricesAreNat
<1> QED BY <1>1, <1>2, LocalChain

\* What memory is missing up to r, and what it costs.
LEMMA BeyondNat ==
  ASSUME NEW v, Sound(v), NEW r \in Nat
  PROVE  Beyond(v, r) \in Nat /\ ExtendCost(Beyond(v, r)) \in Nat /\ Ev(v).len + Beyond(v, r) >= r
<1>1. Ev(v).len \in Nat
  BY FrameAt, FrameFields DEF Sound, Typed
<1>2. Beyond(v, r) \in Nat /\ Ev(v).len + Beyond(v, r) >= r
  BY <1>1 DEF Beyond, Greatest
<1>3. \A m, k \in Nat : m * k \in Nat
  OBVIOUS
<1> QED BY <1>2, <1>3, PricesAreNat DEF ExtendCost

\* Instructions that extend memory pay first.
LEMMA ChargeExtend ==
  ASSUME NEW v, Sound(v), NEW a \in Nat, NEW n \in Nat
  PROVE  Local(v, Extend(Charge(v, a), n), 0)
<1>1. Local(v, Charge(v, a), 0)
  BY ChargeLocal
<1> QED BY <1>1, LocalSound, ExtendLocal, LocalChain

\* BALANCE, EXTCODESIZE and SLOAD access what their operand names.
LEMMA TouchLocal ==
  ASSUME NEW v, Sound(v), NEW set, NEW x, Accessible(set, x)
  PROVE  Local(v, Push(Access(Pop(v, 1), set, x, 0)), 0)
<1>1. Local(v, Pop(v, 1), 0)
  BY PopLocal
<1>2. Local(Pop(v, 1), Access(Pop(v, 1), set, x, 0), 0)
  BY <1>1, LocalSound, AccessLocal
<1>3. Local(Access(Pop(v, 1), set, x, 0), Push(Access(Pop(v, 1), set, x, 0)), 0)
  BY <1>2, LocalSound, PushLocal
<1> QED BY <1>1, <1>2, <1>3, LocalChain
-----------------------------------------------------------------------------
\* The refund counter of the frame is no gas.
LEMMA RefundLocal ==
  ASSUME NEW v, Sound(v), Fine(v), NEW n \in Nat
  PROVE  Local(v, With(v, [Ev(v) EXCEPT !.refund = @ + n]), 0)
<1> DEFINE f == Ev(v)
           g == [f EXCEPT !.refund = f.refund + n]
<1>1. f \in FrameState
  BY FrameAt DEF Sound, Typed
<1>2. f.refund + n \in Nat /\ f.len \in Nat /\ f.used \in Nat /\ StateGasUsed(f) \in Int
  BY <1>1, FrameFields DEF StateGasUsed
<1>3. g \in FrameState
  BY <1>1, <1>2, FrameWith, ZenonT(40)
<1>4. /\ Kept(f, g) /\ Held(g) = Held(f) /\ g.used >= f.used
      /\ StateGasUsed(g) = StateGasUsed(f) + 0 /\ (Lies(f, v.up, v.down) => Lies(g, v.up, v.down))
  BY <1>1, <1>2 DEF Kept, Held, Lies, StateGasUsed, FrameState
<1> HIDE DEF f, g
<1>5. Local(v, With(v, g), 0)
  BY <1>3, <1>4, LocalTop DEF f
<1> QED BY <1>5 DEF f, g

\* A slot can be written outside of static frames, and costs one slot when it is new.
LEMMA SlotWritable ==
  ASSUME NEW v, Core(v), ~Ev(v).static, NEW s \in Slot, NEW on \in BOOLEAN
  PROVE  LET w == IF on THEN v.world \cup {s} ELSE v.world \ {s} IN
           /\ Writable(v, w)
           /\ CostOf(w) = CostOf(v.world)
                + (IF on /\ s \notin v.world THEN StateGas.slot
                   ELSE IF ~on /\ s \in v.world THEN -StateGas.slot ELSE 0)
<1> DEFINE w == IF on THEN v.world \cup {s} ELSE v.world \ {s}
<1>1. /\ Closed(v.world) /\ v.world \in SUBSET Objects /\ s \in Objects
      /\ \A i \in 1 .. Top(v) : /\ v.frames[i].kind = "create" => Code(v.frames[i].self) \notin v.world
                                /\ v.frames[i].kind = "create" => v.frames[i].self \in New
  BY NowClosed, ThingsApart DEF Core, Base, Fixture, Births
<1>2. \A a \in New : /\ (a \in w) <=> (a \in v.world)
                     /\ (Nonce(a) \in w) <=> (Nonce(a) \in v.world)
                     /\ (Code(a) \in w) <=> (Code(a) \in v.world)
                     /\ (Auth(a) \in w) <=> (Auth(a) \in v.world)
  BY ThingsApart
<1>3. w \in SUBSET Objects
  BY <1>1
<1>4. CostOf(w) = CostOf(v.world)
                + (IF on /\ s \notin v.world THEN StateGas.slot
                   ELSE IF ~on /\ s \in v.world THEN -StateGas.slot ELSE 0)
  <2>1. CostOf(v.world) \in Nat /\ StateGas.slot \in Nat
    BY <1>1, CostNat, PricesAreNat
  <2>2. CASE on /\ s \notin v.world
    <3>1. w = v.world \cup {s}
      BY <2>2
    <3> HIDE DEF w
    <3> QED BY <1>1, <2>2, <3>1, CostOfMore, PricesOf
  <2>3. CASE ~on /\ s \in v.world
    <3>1. v.world = w \cup {s} /\ s \notin w
      BY <2>3
    <3> HIDE DEF w
    <3>2. CostOf(v.world) = CostOf(w) + StateGas.slot /\ CostOf(w) \in Nat
      BY <1>1, <1>3, <3>1, CostOfMore, PricesOf, CostNat
    <3> QED BY <2>1, <2>3, <3>2
  <2>4. CASE ~(on /\ s \notin v.world) /\ ~(~on /\ s \in v.world)
    <3>1. w = v.world
      BY <2>4
    <3> HIDE DEF w
    <3> QED BY <2>1, <2>4, <3>1
  <2> QED BY <2>2, <2>3, <2>4
<1> HIDE DEF w
<1>5. Writable(v, w)
  BY <1>1, <1>2, <1>3 DEF Writable, Closed
<1> QED BY <1>4, <1>5 DEF w

\* SSTORE pays for a new slot before it is written and credits one that is cleared.
LEMMA SstoreAfter ==
  ASSUME NEW v, Good(v), Ev(v).err = "none", NEW s \in Slot, NEW on \in BOOLEAN
  PROVE  After(Handle(Sstore(v, s, on)))
<1> DEFINE y0   == Require(v, ~Ev(v).static)
           y1   == Pop(y0, 2)
           cost == AccessCost(y1, "keys", s)
           y2   == Require(y1, Ev(y1).left >= Greatest(cost, Gas.stipend + 1))
           y3   == Access(y2, "keys", s, 0)
           was  == s \in v.world
           off  == was /\ ~on
           y4   == IF off THEN Credit(y3, StateGas.slot) ELSE y3
           y5   == IF off /\ Fine(y4) THEN With(y4, [Ev(y4) EXCEPT !.refund = @ + Gas.write]) ELSE y4
           y6   == Charge(y5, IF on /\ ~was THEN Gas.write ELSE 0)
           y7   == IF on /\ ~was THEN ChargeState(y6, StateGas.slot) ELSE y6
           w    == IF on THEN v.world \cup {s} ELSE v.world \ {s}
           d    == IF on /\ s \notin v.world THEN StateGas.slot
                   ELSE IF ~on /\ s \in v.world THEN -StateGas.slot ELSE 0
<1>0. Sstore(v, s, on) = Write(y7, w)
  BY DEF Sstore
<1>1. Sane(v, 0) /\ Sound(v)
  BY GoodSane
<1>2. Local(v, y0, 0) /\ (Fine(y0) => ~Ev(v).static) /\ Sound(y0)
  <2>1. (~Ev(v).static) \in BOOLEAN
    OBVIOUS
  <2> QED BY <1>1, <2>1, RequireLocal, LocalSound
<1> HIDE DEF y0
<1>3. Local(y0, y1, 0) /\ Sound(y1)
  BY <1>2, PopLocal, LocalSound
<1> HIDE DEF y1
<1>4. Local(y1, y2, 0) /\ Sound(y2)
  <2>1. (Ev(y1).left >= Greatest(cost, Gas.stipend + 1)) \in BOOLEAN
    OBVIOUS
  <2> QED BY <1>3, <2>1, RequireLocal, LocalSound
<1> HIDE DEF cost, y2
<1>5. Local(y2, y3, 0) /\ Sound(y3)
  BY <1>4, AccessLocal, LocalSound DEF Accessible
<1> HIDE DEF y3
<1>6. Local(v, y3, 0)
  BY <1>1, <1>2, <1>3, <1>4, <1>5, LocalChain
<1>7. StateGas.slot \in Nat /\ Gas.write \in Nat /\ d \in Int /\ -StateGas.slot \in Int
  BY PricesAreNat
<1>8. Local(v, y7, d)
  <2>1. CASE off
    <3>1. Local(y3, y4, -StateGas.slot) /\ Sound(y4)
      BY <1>5, <1>7, <2>1, CreditLocal, LocalSound
    <3>2. Local(y4, y5, 0) /\ Sound(y5)
      BY <1>7, <2>1, <3>1, RefundLocal, LocalSame, LocalSound
    <3> HIDE DEF y4
    <3>3. Local(v, y4, 0 + (-StateGas.slot))
      BY <1>1, <1>6, <1>7, <3>1, LocalTrans
    <3>4. Local(v, y5, (0 + (-StateGas.slot)) + 0)
      BY <1>1, <1>7, <3>2, <3>3, LocalTrans
    <3> HIDE DEF y5
    <3>5. Local(y5, Charge(y5, 0), 0)
      BY <3>2, ChargeLocal
    <3>6. y7 = Charge(y5, 0)
      BY <2>1
    <3>7. Local(v, y7, ((0 + (-StateGas.slot)) + 0) + 0)
      BY <1>1, <1>7, <3>4, <3>5, <3>6, LocalTrans
    <3>8. d = ((0 + (-StateGas.slot)) + 0) + 0
      BY <1>7, <2>1
    <3> QED BY <3>7, <3>8
  <2>2. CASE on /\ ~was
    <3>1. y5 = y3 /\ d = 0 + StateGas.slot
      BY <1>7, <2>2
    <3> HIDE DEF y5
    <3>2. Local(y5, y6, 0) /\ Sound(y6)
      BY <1>5, <1>7, <2>2, <3>1, ChargeLocal, LocalSound
    <3>3. Local(v, y6, 0)
      BY <1>1, <1>6, <3>1, <3>2, LocalChain
    <3> HIDE DEF y6
    <3>4. Local(y6, y7, StateGas.slot)
      BY <1>7, <2>2, <3>2, ChargeStateLocal
    <3> QED BY <1>1, <1>7, <3>1, <3>3, <3>4, LocalTrans
  <2>3. CASE ~off /\ ~(on /\ ~was)
    <3>1. y7 = Charge(y3, 0) /\ d = 0
      BY <2>3
    <3>2. Local(y3, Charge(y3, 0), 0)
      BY <1>5, ChargeLocal
    <3> QED BY <1>1, <1>6, <3>1, <3>2, LocalChain
  <2> QED BY <2>1, <2>2, <2>3
<1>9. Fine(y7) => ~Ev(v).static
  <2>1. (Fine(y3) => Fine(y2)) /\ (Fine(y2) => Fine(y1)) /\ (Fine(y1) => Fine(y0))
    BY <1>3, <1>4, <1>5 DEF Local, Works
  <2>2. (Fine(y7) => Fine(y6)) /\ (Fine(y6) => Fine(y5))
    <3>1. \A x, a : ~Fine(x) => Charge(x, a) = x
      BY Zenon DEF Charge
    <3>2. \A x, a : ~Fine(x) => ChargeState(x, a) = x
      BY Zenon DEF ChargeState
    <3> HIDE DEF y5
    <3>3. Fine(y6) => Fine(y5)
      BY <3>1
    <3> HIDE DEF y6
    <3>4. Fine(y7) => Fine(y6)
      BY <3>2
    <3> QED BY <3>3, <3>4
  <2>3. (Fine(y5) => Fine(y4)) /\ (Fine(y4) => Fine(y3))
    BY DEF Credit
  <2> QED BY <1>2, <2>1, <2>2, <2>3
<1> HIDE DEF y7, d
<1>10. Sane(y7, 0 + d)
  BY <1>1, <1>7, <1>8, LocalSane
<1>11. y7.world = v.world /\ Ev(y7).static = Ev(v).static
  BY <1>8 DEF Local, Works, Kept
<1>12. Fine(y7) => Writable(y7, w) /\ CostOf(w) = CostOf(y7.world) + d
  BY <1>9, <1>10, <1>11, SlotWritable, ZenonT(40) DEF d, Sane, Fine
<1> HIDE DEF w
<1>13. Sane(Write(y7, w), (0 + d) - d)
  BY <1>7, <1>10, <1>12, WriteSane
<1>14. (0 + d) - d = 0
  BY <1>7
<1> QED BY <1>0, <1>13, <1>14, HandleAfter
-----------------------------------------------------------------------------
(***************************************************************************)
(* The instructions that end their frame.                                  *)
(***************************************************************************)
\* What the core says of the current frame.
LEMMA TopFacts ==
  ASSUME NEW v, Core(v)
  PROVE  /\ Sound(v) /\ v \in Machine /\ v.trap = 0 /\ Top(v) \in Nat \ {0} /\ Top(v) \in 1 .. Top(v)
         /\ Ev(v) = v.frames[Top(v)] /\ Ev(v) \in FrameState
         /\ \A a \in Ev(v).doomed : Nonce(a) \in v.world
<1>1. /\ v \in Machine /\ Top(v) \in Nat \ {0} /\ Top(v) \in 1 .. Top(v)
      /\ Ev(v) = v.frames[Top(v)] /\ Ev(v) \in FrameState
  BY FrameAt DEF Core, Base, Sound, Typed
<1>2. \A a \in Ev(v).doomed : Nonce(a) \in v.world
  BY <1>1 DEF Core, Base, Fixture, Births, WorldOf
<1> QED BY <1>1, <1>2 DEF Core, Base

\* STOP ends the frame.
LEMMA StopAfter ==
  ASSUME NEW v, Good(v), Ev(v).err = "none"
  PROVE  After(Handle(With(v, [Ev(v) EXCEPT !.running = FALSE])))
<1> DEFINE f == Ev(v)
           g == [f EXCEPT !.running = FALSE]
<1>1. Sane(v, 0) /\ Fine(v) /\ f \in FrameState /\ \A a \in f.doomed : Nonce(a) \in v.world
  BY GoodSane, TopFacts DEF Good
<1>2. g \in FrameState
  BY <1>1, FrameWith, ZenonT(40)
<1>3. Replaces(v, f, g) /\ g.err = "none" /\ StateGasUsed(g) = StateGasUsed(f)
  <2>1. f.len \in Nat
    BY <1>1, FrameFields
  <2>2. f.err = "none"
    OBVIOUS
  <2> HIDE DEF f
  <2> QED BY <1>1, <2>1, <2>2 DEF Replaces, Held, StateGasUsed, FrameState
<1> HIDE DEF g
<1>4. Sane(With(v, g), 0)
  BY <1>1, <1>2, <1>3, ReplaceSane
<1> QED BY <1>4, HandleAfter DEF g

\* INVALID throws.
LEMMA ThrowAfter ==
  ASSUME NEW v, Good(v), Ev(v).err = "none"
  PROVE  After(Handle(Throw(v, "halt")))
BY GoodSane, ThrowIs, LocalAfter

\* RETURN and REVERT end the frame with a view of its memory as output.
LEMMA LeaveAfter ==
  ASSUME NEW v, Good(v), Ev(v).err = "none", NEW r \in Nat, NEW revert \in BOOLEAN
  PROVE  After(Handle(Leave(v, r, revert)))
<1> DEFINE y == Pop(v, 2)
           n == Beyond(y, r)
           x == Charge(y, ExtendCost(n))
           z == Extend(x, n)
           f == [Ev(z) EXCEPT !.out = <<Ev(z).mem, r>>, !.running = revert]
<1>0. Leave(v, r, revert) = IF ~Fine(z) THEN z
                            ELSE IF revert THEN Throw(With(z, f), "revert") ELSE With(z, f)
  BY DEF Leave
<1>1. Sane(v, 0) /\ Sound(v)
  BY GoodSane
<1>2. Local(v, y, 0) /\ Sound(y)
  BY <1>1, PopLocal, LocalSound
<1> HIDE DEF y
<1>3. n \in Nat /\ ExtendCost(n) \in Nat /\ Ev(y).len + n >= r
  BY <1>2, BeyondNat
<1> HIDE DEF n
<1>4. Local(y, x, 0) /\ Sound(x)
  BY <1>2, <1>3, ChargeLocal, LocalSound
<1> HIDE DEF x
<1>5. Local(x, z, 0) /\ (Fine(z) => Ev(z).len = Ev(x).len + n)
  BY <1>3, <1>4, ExtendLocal
<1> HIDE DEF z
<1>6. Local(v, z, 0)
  BY <1>1, <1>2, <1>4, <1>5, LocalChain
<1>7. Sane(z, 0)
  BY <1>1, <1>6, LocalSane, 0 + 0 = 0
<1>8. CASE ~Fine(z)
  BY <1>0, <1>7, <1>8, HandleAfter
<1>9. CASE Fine(z)
  <2>1. Ev(z) \in FrameState /\ \A a \in Ev(z).doomed : Nonce(a) \in z.world
    BY <1>7, <1>9, TopFacts DEF Sane, Fine
  <2>2. Ev(z).len \in Nat /\ Ev(z).len >= r /\ Ev(z).mem \in Nat /\ Ev(z).err = "none"
    <3>1. Ev(y).len \in Nat /\ Ev(x).len \in Nat
      BY <1>2, <1>4, FrameAt, FrameFields DEF Sound, Typed
    <3>2. Ev(x).len >= Ev(y).len
      BY <1>4 DEF Local, Works, Kept
    <3> QED BY <1>3, <1>5, <1>7, <1>9, <2>1, <3>1, <3>2, FrameFields DEF Sane
  <2>3. f \in FrameState
    BY <2>1, <2>2, FrameWith, ZenonT(40) DEF View
  <2>4. Replaces(z, Ev(z), f) /\ f.err = "none" /\ StateGasUsed(f) = StateGasUsed(Ev(z))
    BY <2>1, <2>2 DEF Replaces, Held, StateGasUsed, FrameState, Within
  <2> HIDE DEF f
  <2>5. Sane(With(z, f), 0)
    BY <1>7, <1>9, <2>3, <2>4, ReplaceSane
  <2>6. Sane(Throw(With(z, f), "revert"), 0)
    <3>1. Local(With(z, f), Throw(With(z, f), "revert"), 0)
      BY <2>5, ThrowIs DEF Sane
    <3> QED BY <2>5, <3>1, LocalSane, 0 + 0 = 0
  <2> QED BY <1>0, <1>9, <2>5, <2>6, HandleAfter
<1> QED BY <1>8, <1>9

\* An account can be brought forth, and costs one when it is new.
LEMMA AccountWritable ==
  ASSUME NEW v, Core(v), ~Ev(v).static, NEW b \in Addr
  PROVE  LET w == v.world \cup ({b} \cap Objects) IN
           /\ Writable(v, w)
           /\ CostOf(w) = CostOf(v.world) + (IF IsAlive(v, b) THEN 0 ELSE StateGas.account)
<1> DEFINE w == v.world \cup ({b} \cap Objects)
<1>1. /\ Closed(v.world) /\ v.world \in SUBSET Objects
      /\ \A i \in 1 .. Top(v) : /\ v.frames[i].kind = "create" => Code(v.frames[i].self) \notin v.world
                                /\ v.frames[i].kind = "create" => v.frames[i].self \in New
  BY NowClosed DEF Core, Base, Fixture, Births
<1>2. w = IF IsAlive(v, b) THEN v.world ELSE v.world \cup {b}
  <2>1. b \in Objects <=> b \in New
    BY FramesAssumption DEF Objects, Addr
  <2> QED BY <2>1 DEF IsAlive
<1>3. CostOf(v.world) \in Nat /\ StateGas.account \in Nat
  BY <1>1, CostNat, PricesAreNat
<1> HIDE DEF w
<1>4. CASE IsAlive(v, b)
  <2>1. w = v.world
    BY <1>2, <1>4
  <2>2. Writable(v, w)
    BY <1>1, <2>1 DEF Writable
  <2>3. CostOf(w) = CostOf(v.world) + 0
    BY <1>3, <2>1
  <2> QED BY <1>4, <2>2, <2>3 DEF w
<1>5. CASE ~IsAlive(v, b)
  <2>1. w = v.world \cup {b} /\ b \in New /\ b \notin v.world /\ b \in Objects
    BY <1>2, <1>5, ThingsApart DEF IsAlive
  <2>2. CostOf(w) = CostOf(v.world) + StateGas.account
    BY <1>1, <2>1, CostOfMore, PricesOf
  <2>3. Writable(v, w)
    <3>1. \A a \in New : /\ a \in v.world => a \in w
                         /\ (Nonce(a) \in w) <=> (Nonce(a) \in v.world)
                         /\ (Code(a) \in w) <=> (Code(a) \in v.world)
                         /\ (Auth(a) \in w) <=> (Auth(a) \in v.world)
      BY <2>1, ThingsApart
    <3>2. w \in SUBSET Objects
      BY <1>1, <2>1
    <3> QED BY <1>1, <3>1, <3>2 DEF Writable, Closed
  <2> QED BY <1>5, <2>2, <2>3 DEF w
<1> QED BY <1>4, <1>5

\* A write leaves the frames alone.
LEMMA WriteKeeps ==
  ASSUME NEW v, Sound(v), NEW w \in SUBSET Objects
  PROVE  /\ Sound(Write(v, w)) /\ Ev(Write(v, w)) = Ev(v) /\ Top(Write(v, w)) = Top(v)
         /\ Write(v, w).created = v.created /\ (Fine(Write(v, w)) <=> Fine(v))
         /\ Write(v, w).frames = v.frames /\ Write(v, w).auth = v.auth
<1>1. CASE Fine(v)
  BY <1>1, WriteIs DEF Fine
<1>2. CASE ~Fine(v)
  BY <1>2 DEF Write
<1> QED BY <1>1, <1>2

\* Bringing forth an account uses up what was paid for it.
LEMMA BringAccount ==
  ASSUME NEW v, NEW d \in Int, Sane(v, d), NEW b \in Addr, Fine(v) => ~Ev(v).static,
         NEW e \in Int, Fine(v) => e = IF IsAlive(v, b) THEN 0 ELSE StateGas.account
  PROVE  /\ Sane(Bring(v, {b}), d - e) /\ Ev(Bring(v, {b})) = Ev(v)
         /\ Bring(v, {b}).created = v.created
<1> DEFINE w == v.world \cup ({b} \cap Objects)
<1>1. Fine(v) => Writable(v, w) /\ CostOf(w) = CostOf(v.world) + e
  BY AccountWritable DEF Sane, Fine
<1>2. w \in SUBSET Objects /\ Sound(v)
  BY MachineFields DEF Sane, Sound, Typed
<1>3. Bring(v, {b}) = Write(v, w)
  BY DEF Bring
<1> HIDE DEF w
<1> QED BY <1>1, <1>2, <1>3, WriteSane, WriteKeeps

\* SELFDESTRUCT pays for the beneficiary, moves the balance and dooms an account created in this
\* transaction.
LEMMA SelfDestructAfter ==
  ASSUME NEW v, Good(v), Ev(v).err = "none", Ev(v).code, NEW b \in Addr, NEW poor \in BOOLEAN
  PROVE  After(Handle(SelfDestruct(v, b, poor)))
<1> DEFINE y0  == Require(v, ~Ev(v).static)
           yp  == Pop(y0, 1)
           y1  == Access(yp, "addrs", b, Gas.base)
           new == ~poor /\ ~IsAlive(y1, b)
           yc  == Charge(y1, Gas.account)
           y2  == IF new THEN ChargeState(yc, StateGas.account) ELSE y1
           y3  == IF poor THEN y2 ELSE Bring(y2, {b})
           f   == Ev(y3)
           g   == [f EXCEPT !.running = FALSE,
                            !.logs = @ + IF b # f.self /\ ~poor THEN 1 ELSE 0,
                            !.doomed = @ \cup ({f.self} \cap y3.created)]
           d   == IF new THEN StateGas.account ELSE 0
<1>0. SelfDestruct(v, b, poor) = IF ~Fine(y3) THEN y3 ELSE With(y3, g)
  BY DEF SelfDestruct
<1>1. Sane(v, 0) /\ Sound(v)
  BY GoodSane
<1>2. Local(v, y0, 0) /\ (Fine(y0) => ~Ev(v).static) /\ Sound(y0)
  <2>1. (~Ev(v).static) \in BOOLEAN
    OBVIOUS
  <2> QED BY <1>1, <2>1, RequireLocal, LocalSound
<1> HIDE DEF y0
<1>3. Local(y0, yp, 0) /\ Sound(yp)
  BY <1>2, PopLocal, LocalSound
<1> HIDE DEF yp
<1>4. Local(yp, y1, 0) /\ Sound(y1)
  BY <1>3, AccessLocal, LocalSound, PricesAreNat DEF Accessible
<1> HIDE DEF y1
<1>5. Local(v, y1, 0) /\ (Fine(y1) => ~Ev(v).static)
  <2>1. (Fine(y1) => Fine(yp)) /\ (Fine(yp) => Fine(y0))
    BY <1>3, <1>4 DEF Local, Works
  <2> QED BY <1>1, <1>2, <1>3, <1>4, <2>1, LocalChain
<1>6. d \in Int /\ StateGas.account \in Nat /\ StateGas.account \in Int
  BY PricesAreNat
<1>7. Local(v, y2, d) /\ (Fine(y2) => Fine(y1)) /\ y1.world = y2.world
  <2>1. CASE new
    <3>1. Local(y1, yc, 0) /\ Sound(yc)
      BY <1>4, ChargeLocal, LocalSound, PricesAreNat
    <3> HIDE DEF yc
    <3>2. Local(yc, y2, StateGas.account)
      BY <1>6, <2>1, <3>1, ChargeStateLocal
    <3>3. Local(v, yc, 0)
      BY <1>1, <1>5, <3>1, LocalChain
    <3> HIDE DEF y2
    <3>4. Local(v, y2, 0 + StateGas.account)
      BY <1>1, <1>6, <3>2, <3>3, LocalTrans
    <3>5. (Fine(y2) => Fine(yc)) /\ (Fine(yc) => Fine(y1)) /\ y2.world = yc.world /\ yc.world = y1.world
      BY <3>1, <3>2 DEF Local, Works
    <3>6. d = 0 + StateGas.account
      BY <1>6, <2>1
    <3> HIDE DEF d
    <3> QED BY <3>4, <3>5, <3>6
  <2>2. CASE ~new
    BY <1>5, <2>2
  <2> QED BY <2>1, <2>2
<1> HIDE DEF y2
<1>8. Sane(y2, d)
  <2> HIDE DEF d
  <2>1. Sane(y2, 0 + d)
    BY <1>1, <1>6, <1>7, LocalSane
  <2> QED BY <1>6, <2>1
<1>9. Ev(y2).static = Ev(v).static /\ Ev(y2).code = Ev(v).code
  BY <1>7 DEF Local, Works, Kept
<1>10. Sane(y3, 0) /\ Ev(y3) = Ev(y2)
  <2>1. CASE poor
    <3>1. d = 0 /\ y3 = y2
      BY <2>1
    <3> QED BY <1>8, <3>1
  <2>2. CASE ~poor
    <3>1. d = IF IsAlive(y2, b) THEN 0 ELSE StateGas.account
      BY <1>7, <2>2 DEF IsAlive
    <3> HIDE DEF d
    <3>2. Fine(y2) => ~Ev(y2).static
      BY <1>5, <1>7, <1>9
    <3>3. Sane(Bring(y2, {b}), d - d) /\ Ev(Bring(y2, {b})) = Ev(y2)
      BY <1>6, <1>8, <3>1, <3>2, BringAccount
    <3>4. d - d = 0
      BY <1>6
    <3>5. y3 = Bring(y2, {b})
      BY <2>2
    <3> QED BY <3>3, <3>4, <3>5
  <2> QED BY <2>1, <2>2
<1> HIDE DEF y3
<1>11. CASE ~Fine(y3)
  BY <1>0, <1>10, <1>11, HandleAfter
<1>12. CASE Fine(y3)
  <2>1. Core(y3) /\ Ev(y3).code /\ Ev(y3).err = "none"
    BY <1>9, <1>10, <1>12 DEF Sane, Fine
  <2>2. /\ f \in FrameState /\ (\A a \in f.doomed : Nonce(a) \in y3.world)
        /\ f.self \in New => Nonce(f.self) \in y3.world
        /\ y3.created \subseteq New
    BY <2>1, TopFacts, SelfIsAlive, MachineFields
  <2>3. f.logs + (IF b # f.self /\ ~poor THEN 1 ELSE 0) \in Nat /\ f.len \in Nat
        /\ f.doomed \cup ({f.self} \cap y3.created) \in SUBSET New
    BY <2>2, FrameFields
  <2>4. g \in FrameState
    BY <2>2, <2>3, FrameWith, ZenonT(40)
  <2>5. Replaces(y3, f, g) /\ g.err = "none" /\ StateGasUsed(g) = StateGasUsed(f)
    <3>1. f.err = "none"
      BY <2>1
    <3> HIDE DEF f
    <3> QED BY <2>2, <2>3, <3>1 DEF Replaces, Held, StateGasUsed, FrameState
  <2> HIDE DEF g
  <2>6. Sane(With(y3, g), 0)
    BY <1>10, <1>12, <2>4, <2>5, ReplaceSane
  <2> QED BY <1>0, <1>12, <2>6, HandleAfter
<1> QED BY <1>11, <1>12
-----------------------------------------------------------------------------
(***************************************************************************)
(* Calls.  After its operands are popped an instruction has room to push.  *)
(***************************************************************************)
\* Charging and memory leave the operands of the frame and its reservoir alone.
Pile(v, y) == Fine(y) => /\ Fine(v) /\ Ev(y).n = Ev(v).n /\ Ev(y).scap = Ev(v).scap
                         /\ Ev(y).sleft = Ev(v).sleft

\* The current frame is the one just set.
LEMMA EvWith ==
  ASSUME NEW v \in Machine, Top(v) >= 1, NEW f
  PROVE  Ev(With(v, f)) = f
<1>1. v.frames \in Seq(FrameState) /\ Len(v.frames) \in Nat \ {0}
  BY MachineFields DEF Top
<1> DEFINE s == [v.frames EXCEPT ![Len(v.frames)] = f]
<1>2. Len(s) = Len(v.frames) /\ s[Len(v.frames)] = f
  BY <1>1
<1>3. With(v, f) = [v EXCEPT !.frames = s]
  BY DEF With, Machine
<1> HIDE DEF s
<1>4. With(v, f).frames = s
  BY <1>3 DEF Machine
<1> QED BY <1>2, <1>4 DEF Ev, Last

\* The helpers an instruction calls between its pops and its push.
LEMMA Room ==
  ASSUME NEW v, Sound(v)
  PROVE  /\ \A a \in Nat : Pile(v, Charge(v, a))
         /\ \A ok \in BOOLEAN : Pile(v, Require(v, ok))
         /\ \A set, x : Pile(v, Warm(v, set, x))
<1>1. v \in Machine /\ Top(v) >= 1 /\ Ev(v) \in FrameState
  BY FrameAt DEF Sound, Typed
<1>2. ASSUME NEW a \in Nat PROVE Pile(v, Charge(v, a))
  <2> DEFINE g == [Ev(v) EXCEPT !.left = Ev(v).left - a, !.used = Ev(v).used + a]
  <2>1. g.n = Ev(v).n /\ g.scap = Ev(v).scap /\ g.sleft = Ev(v).sleft
    BY <1>1 DEF FrameState
  <2>2. Ev(With(v, g)) = g
    BY <1>1, EvWith
  <2>3. Fine(Charge(v, a)) => Fine(v) /\ Charge(v, a) = With(v, g)
    BY ThrowIs DEF Charge
  <2> HIDE DEF g
  <2> QED BY <2>1, <2>2, <2>3 DEF Pile
<1>3. \A ok \in BOOLEAN : Pile(v, Require(v, ok))
  <2>1. ~Fine(Throw(v, "halt"))
    BY ThrowIs
  <2> QED BY <2>1 DEF Pile, Require
<1>4. ASSUME NEW set, NEW x PROVE Pile(v, Warm(v, set, x))
  <2> DEFINE w == [v EXCEPT !.warm[set] = Append(@, x)]
  <2>1. w.frames = v.frames /\ w.err = v.err /\ w.trap = v.trap
    BY <1>1 DEF Machine
  <2>2. Warm(v, set, x) = v \/ Warm(v, set, x) = w
    BY DEF Warm
  <2> HIDE DEF w
  <2> QED BY <2>1, <2>2 DEF Pile, Fine, Ev
<1> QED BY <1>2, <1>3, <1>4

LEMMA RoomState ==
  ASSUME NEW v, Sound(v), NEW a \in Nat
  PROVE  Fine(ChargeState(v, a)) => /\ Fine(v) /\ Ev(ChargeState(v, a)).n = Ev(v).n
                                    /\ Ev(ChargeState(v, a)).scap = Ev(v).scap
<1>1. v \in Machine /\ Top(v) >= 1 /\ Ev(v) \in FrameState
  BY FrameAt DEF Sound, Typed
<1> DEFINE rem == Greatest(a - Ev(v).sleft, 0)
           g == [Ev(v) EXCEPT !.sleft = Ev(v).sleft - (a - rem), !.left = Ev(v).left - rem,
                              !.spilled = Ev(v).spilled + rem]
<1>2. g.n = Ev(v).n /\ g.scap = Ev(v).scap
  BY <1>1 DEF FrameState
<1>3. Ev(With(v, g)) = g
  BY <1>1, EvWith
<1>4. Fine(ChargeState(v, a)) => Fine(v) /\ ChargeState(v, a) = With(v, g)
  BY ThrowIs DEF ChargeState
<1> HIDE DEF g
<1> QED BY <1>2, <1>3, <1>4

LEMMA RoomExtend ==
  ASSUME NEW v, Sound(v), NEW n \in Nat
  PROVE  Pile(v, Extend(v, n))
<1>1. v \in Machine /\ Top(v) >= 1 /\ Ev(v) \in FrameState
  BY FrameAt DEF Sound, Typed
<1> DEFINE f    == Ev(v)
           nlen == f.len + n
           ncap == NewCap(f, nlen)
           y    == FrameMemAlloc(v, ncap - f.cap)
           g    == [f EXCEPT !.cap = ncap, !.len = nlen]
<1>2. Extend(v, n) = IF n = 0 \/ ~Fine(y) THEN y ELSE With(y, g)
  BY ZenonT(40) DEF Extend
<1>3. Fine(y) => Fine(v) /\ y \in Machine /\ y.frames = v.frames
  <2>1. CASE ~Fine(v)
    BY <2>1 DEF FrameMemAlloc
  <2>2. CASE Fine(v)
    <3>1. /\ ncap - f.cap \in Nat /\ v.up \in Nat /\ v.down \in Nat
      <4>1. f.cap \in Nat /\ f.len \in Nat /\ MemInit \in Nat
        BY <1>1, FrameFields, FramesAssumption
      <4> QED BY <1>1, <4>1, MachineFields DEF NewCap
    <3> HIDE DEF ncap
    <3>2. \/ y = Moved(v, v.up, v.down, 6)
          \/ y = Moved(v, v.up + (ncap - f.cap), v.down, 0)
      BY <2>2, <3>1, AllocIs
    <3>3. v.up + (ncap - f.cap) \in Nat
      BY <3>1
    <3> HIDE DEF f, y
    <3>4. y \in Machine /\ y.frames = v.frames
      <4>1. \A u \in Nat, t \in {0, 6, 7} : IsMoved(v, u, v.down, t, Moved(v, u, v.down, t))
        BY <1>1, <3>1, MovedIs
      <4>2. CASE y = Moved(v, v.up, v.down, 6)
        BY <3>1, <4>1, <4>2 DEF IsMoved
      <4>3. CASE y = Moved(v, v.up + (ncap - f.cap), v.down, 0)
        BY <3>3, <4>1, <4>3 DEF IsMoved
      <4> QED BY <3>2, <4>2, <4>3
    <3> QED BY <2>2, <3>4
  <2> QED BY <2>1, <2>2
<1> HIDE DEF y
<1>4. g.n = f.n /\ g.scap = f.scap /\ g.sleft = f.sleft
  BY <1>1 DEF FrameState
<1> HIDE DEF g
<1>5. Fine(y) => Ev(y) = Ev(v) /\ Top(y) >= 1 /\ Ev(With(y, g)) = g
  BY <1>1, <1>3, EvWith DEF Ev, Top
<1>6. Fine(y) => (Fine(With(y, g)) <=> Fine(y))
  BY <1>3 DEF With, Fine, Machine
<1>7. Fine(Extend(v, n)) => Fine(y)
  BY <1>2, <1>6
<1> QED BY <1>2, <1>3, <1>4, <1>5, <1>7 DEF Pile

\* The messages a frame is started with.
Msg ==
  [kind : CallKinds \cup {"create"}, self : Addr, static : BOOLEAN, code : BOOLEAN,
   gas : Nat, rsv : Nat, charged : BOOLEAN, transfer : BOOLEAN, precompile : BOOLEAN,
   data : View, ret : Nat, csnap : Nat, mark : Nat, memMark : Nat, was : Before]

\* the frame that Open adds for m
Opened(v, m) ==
  [kind |-> m.kind, self |-> m.self, static |-> m.static, code |-> m.code,
   gas |-> m.gas, rsv |-> m.rsv,
   left |-> m.gas, sleft |-> m.rsv, spilled |-> 0, used |-> 0,
   running |-> TRUE, err |-> "none", out |-> <<0, 0>>,
   snap |-> Len(v.journal), csnap |-> m.csnap, charged |-> m.charged,
   addrs |-> Len(v.warm.addrs), keys |-> Len(v.warm.keys),
   stk |-> v.down - StackInit, scap |-> StackInit, n |-> 0,
   mem |-> v.up, cap |-> MemInit, len |-> 0,
   mark |-> m.mark, memMark |-> m.memMark, data |-> m.data, ret |-> m.ret,
   logs |-> 0, refund |-> 0, doomed |-> {}, was |-> m.was]

\* Opening succeeds with two slices taken, or traps with the frames as they were.
IsOpened(v, m, y) ==
  /\ Sound(y) /\ Fine(y) /\ y.frames = Append(v.frames, Opened(v, m))
  /\ Opened(v, m) \in FrameState /\ v.down >= StackInit
  /\ y.world = v.world /\ y.journal = v.journal /\ y.created = v.created
  /\ y.warm = v.warm /\ y.auth = v.auth /\ y.err = v.err
  /\ y.up = v.up + MemInit /\ y.down <= v.down - StackInit

IsTrapped(v, y) == Typed(y) /\ y.trap # 0 /\ y.frames = v.frames

\* Allocation before there is a frame.
LEMMA AllocTyped ==
  ASSUME NEW v, Typed(v), Fine(v), NEW n \in Nat
  PROVE  /\ ScratchAlloc(v, n) = IF n > v.down - v.up THEN Moved(v, v.up, v.down, 7)
                                 ELSE Moved(v, v.up, v.down - n, 0)
         /\ FrameMemAlloc(v, n) = IF n > v.down - v.up THEN Moved(v, v.up, v.down, 6)
                                  ELSE Moved(v, v.up + n, v.down, 0)
BY DEF Typed, Machine, ScratchAlloc, FrameMemAlloc, Moved, Fine

\* an allocation traps, or moves one end of the arena
Allocated(v, y, u, d) ==
  IF Fine(y)
  THEN /\ Typed(y) /\ y.frames = v.frames /\ y.world = v.world /\ y.journal = v.journal
       /\ y.created = v.created /\ y.warm = v.warm /\ y.auth = v.auth /\ y.err = v.err
       /\ y.up = v.up + u /\ y.down = v.down - d /\ y.down >= 0
  ELSE IsTrapped(v, y)

\* New marks in order keep a machine typed.
LEMMA MovedTyped ==
  ASSUME NEW v, Typed(v), Fine(v), NEW u \in Nat, NEW d \in Nat, NEW t \in {0, 6, 7}, u <= d, d <= ArenaSize
  PROVE  LET y == Moved(v, u, d, t) IN
           /\ IsMoved(v, u, d, t, y) /\ Typed(y) /\ (Fine(y) <=> t = 0)
<1>1. v \in Machine /\ v.err = "none"
  BY DEF Typed, Fine
<1>2. IsMoved(v, u, d, t, Moved(v, u, d, t))
  BY <1>1, MovedIs
<1> QED BY <1>1, <1>2 DEF Typed, IsMoved, Fine

LEMMA Allocates ==
  ASSUME NEW v, Typed(v), Fine(v), NEW n \in Nat
  PROVE  Allocated(v, ScratchAlloc(v, n), 0, n) /\ Allocated(v, FrameMemAlloc(v, n), n, 0)
<1>1. v \in Machine /\ v.up \in Nat /\ v.down \in Nat /\ v.up <= v.down /\ v.down <= ArenaSize
      /\ ArenaSize \in Nat
  BY MachineFields, FramesAssumption DEF Typed
<1>2. CASE n > v.down - v.up
  <2>1. \A t \in {6, 7} : LET y == Moved(v, v.up, v.down, t) IN
          /\ IsMoved(v, v.up, v.down, t, y) /\ Typed(y) /\ (Fine(y) <=> t = 0)
    BY <1>1, MovedTyped
  <2>2. ScratchAlloc(v, n) = Moved(v, v.up, v.down, 7) /\ FrameMemAlloc(v, n) = Moved(v, v.up, v.down, 6)
    BY <1>2, AllocTyped
  <2> QED BY <2>1, <2>2 DEF Allocated, IsTrapped, IsMoved
<1>3. CASE ~(n > v.down - v.up)
  <2>1. v.down - n \in Nat /\ v.up <= v.down - n /\ v.down - n <= ArenaSize
        /\ v.up + n \in Nat /\ v.up + n <= v.down /\ v.up + 0 = v.up /\ v.down - 0 = v.down
    BY <1>1, <1>3
  <2>2. LET y == Moved(v, v.up, v.down - n, 0) IN
          /\ IsMoved(v, v.up, v.down - n, 0, y) /\ Typed(y) /\ (Fine(y) <=> 0 = 0)
    BY <2>1, <1>1, MovedTyped
  <2>3. LET y == Moved(v, v.up + n, v.down, 0) IN
          /\ IsMoved(v, v.up + n, v.down, 0, y) /\ Typed(y) /\ (Fine(y) <=> 0 = 0)
    BY <2>1, <1>1, MovedTyped
  <2>4. ScratchAlloc(v, n) = Moved(v, v.up, v.down - n, 0) /\ FrameMemAlloc(v, n) = Moved(v, v.up + n, v.down, 0)
    BY <1>3, AllocTyped
  <2>5. Allocated(v, ScratchAlloc(v, n), 0, n)
    BY <1>1, <2>1, <2>2, <2>4 DEF Allocated, IsMoved
  <2>6. Allocated(v, FrameMemAlloc(v, n), n, 0)
    BY <1>1, <2>1, <2>3, <2>4 DEF Allocated, IsMoved
  <2> QED BY <2>5, <2>6
<1> QED BY <1>2, <1>3

\* frame_open allocates operands and memory, or traps.
LEMMA OpenIs ==
  ASSUME NEW v, Typed(v), Fine(v), NEW m \in Msg
  PROVE  IsOpened(v, m, Open(v, m)) \/ IsTrapped(v, Open(v, m))
<1> DEFINE y1 == ScratchAlloc(v, StackInit)
           y2 == FrameMemAlloc(y1, MemInit)
           y3 == ScratchAlloc(y2, FrameSize)
           f  == [Opened(v, m) EXCEPT !.stk = y1.down, !.mem = y1.up]
<1>1. StackInit \in Nat /\ MemInit \in Nat /\ FrameSize \in Nat
  BY FramesAssumption
<1>2. Allocated(v, y1, 0, StackInit)
  BY <1>1, Allocates
<1>3. Open(v, m) = IF ~Fine(y3) THEN y3 ELSE [y3 EXCEPT !.frames = Append(@,
             [kind |-> m.kind, self |-> m.self, static |-> m.static, code |-> m.code,
              gas |-> m.gas, rsv |-> m.rsv,
              left |-> m.gas, sleft |-> m.rsv, spilled |-> 0, used |-> 0,
              running |-> TRUE, err |-> "none", out |-> <<0, 0>>,
              snap |-> Len(v.journal), csnap |-> m.csnap, charged |-> m.charged,
              addrs |-> Len(v.warm.addrs), keys |-> Len(v.warm.keys),
              stk |-> y1.down, scap |-> StackInit, n |-> 0,
              mem |-> y1.up, cap |-> MemInit, len |-> 0,
              mark |-> m.mark, memMark |-> m.memMark, data |-> m.data, ret |-> m.ret,
              logs |-> 0, refund |-> 0, doomed |-> {}, was |-> m.was])]
  BY DEF Open, Snapshot
<1> HIDE DEF y1
<1>4. IF Fine(y1) THEN Allocated(y1, y2, MemInit, 0) ELSE y2 = y1
  BY <1>1, <1>2, Allocates DEF Allocated, FrameMemAlloc
<1> HIDE DEF y2
<1>5. IF Fine(y2) THEN Allocated(y2, y3, 0, FrameSize) ELSE y3 = y2
  BY <1>1, <1>4, Allocates DEF Allocated, ScratchAlloc
<1> HIDE DEF y3
<1>6. CASE ~Fine(y3)
  <2>1. Open(v, m) = y3
    BY <1>3, <1>6
  <2>2. IsTrapped(v, y3)
    BY <1>2, <1>4, <1>5, <1>6 DEF Allocated, IsTrapped
  <2> QED BY <2>1, <2>2
<1>7. CASE Fine(y3)
  <2>1. Fine(y1) /\ Fine(y2)
    BY <1>4, <1>5, <1>7
  <2>2. v.up \in Nat /\ v.down \in Nat /\ v \in Machine /\ v.journal \in Seq(SUBSET Objects)
        /\ v.warm.addrs \in Seq(Addr) /\ v.warm.keys \in Seq(Slot)
    BY MachineFields DEF Typed
  <2>3. /\ y1.up = v.up /\ y1.down = v.down - StackInit /\ v.down >= StackInit
        /\ y3.up = v.up + MemInit /\ y3.down <= v.down - StackInit
    BY <1>1, <1>2, <1>4, <1>5, <1>7, <2>1, <2>2, SMTT(30) DEF Allocated
  <2>4. /\ Typed(y3) /\ y3.frames = v.frames /\ y3.world = v.world /\ y3.journal = v.journal
        /\ y3.created = v.created /\ y3.warm = v.warm /\ y3.auth = v.auth /\ y3.err = v.err
    BY <1>2, <1>4, <1>5, <1>7, <2>1 DEF Allocated
  <2>5. Open(v, m) = [y3 EXCEPT !.frames = Append(v.frames, Opened(v, m))]
    BY <1>3, <1>7, <2>3, <2>4 DEF Opened
  <2>6. Opened(v, m) \in FrameState
    <3>1. /\ Len(v.journal) \in Nat /\ Len(v.warm.addrs) \in Nat /\ Len(v.warm.keys) \in Nat
          /\ v.down - StackInit \in Nat
      BY <1>1, <2>2, <2>3, SMTT(30)
    <3>2. <<0, 0>> \in View
      BY DEF View
    <3> QED BY <1>1, <2>2, <3>1, <3>2, Zenon DEF Msg, Opened, FrameState
  <2>7. y3.frames \in Seq(FrameState) /\ v.frames \in Seq(FrameState) /\ y3 \in Machine
    BY <2>2, <2>4, MachineFields DEF Typed
  <2> DEFINE y == [y3 EXCEPT !.frames = Append(v.frames, Opened(v, m))]
             s == Append(v.frames, Opened(v, m))
  <2>8. s \in Seq(FrameState) /\ Len(s) >= 1
    BY <2>6, <2>7
  <2> HIDE DEF s
  <2>9. /\ y \in Machine /\ y.frames = s /\ y.world = y3.world /\ y.journal = y3.journal
        /\ y.created = y3.created /\ y.warm = y3.warm /\ y.auth = y3.auth /\ y.err = y3.err
        /\ y.trap = y3.trap /\ y.up = y3.up /\ y.down = y3.down
    BY <2>7, <2>8 DEF Machine, s
  <2> HIDE DEF y
  <2>10. Sound(y) /\ Fine(y)
    BY <1>7, <2>4, <2>8, <2>9 DEF Sound, Typed, Fine, Top
  <2>11. IsOpened(v, m, y)
    BY <2>3, <2>4, <2>6, <2>9, <2>10 DEF IsOpened, s
  <2> QED BY <2>5, <2>11 DEF y
<1> QED BY <1>6, <1>7
-----------------------------------------------------------------------------
\* a handled machine has no exception left to handle
LEMMA HandleDone ==
  ASSUME NEW v, After(v)
  PROVE  Handle(v) = v
BY DEF After, Good, Trapped, Typed, Handle

\* A log is counted and costs nothing more.
LEMMA LogSane ==
  ASSUME NEW v, NEW d \in Int, Sane(v, d), Fine(v)
  PROVE  LET y == With(v, [Ev(v) EXCEPT !.logs = @ + 1]) IN
           Sane(y, d) /\ Fine(y) /\ Top(y) = Top(v) /\ \A i \in 1 .. Top(v) - 1 : y.frames[i] = v.frames[i]
<1> DEFINE f == Ev(v)
           g == [f EXCEPT !.logs = f.logs + 1]
<1>1. /\ v \in Machine /\ Top(v) >= 1 /\ f \in FrameState /\ f.err = "none"
      /\ \A a \in f.doomed : Nonce(a) \in v.world
  BY TopFacts DEF Sane, Fine
<1>2. f.logs + 1 \in Nat /\ f.len \in Nat
  BY <1>1, FrameFields
<1>3. g \in FrameState
  BY <1>1, <1>2, FrameWith, ZenonT(40)
<1>4. Replaces(v, f, g) /\ g.err = "none" /\ StateGasUsed(g) = StateGasUsed(f)
  <2>1. f.running => f.err = "none"
    BY <1>1
  <2> HIDE DEF f
  <2> QED BY <1>1, <1>2, <2>1 DEF Replaces, Held, StateGasUsed, FrameState
<1>5. With(v, [Ev(v) EXCEPT !.logs = @ + 1]) = With(v, g)
  OBVIOUS
<1> HIDE DEF g
<1>6. Sane(With(v, g), d) /\ Fine(With(v, g))
  BY <1>3, <1>4, ReplaceSane
<1>7. IsWith(v, g, With(v, g))
  BY <1>1, <1>3, WithTop
<1> QED BY <1>5, <1>6, <1>7 DEF IsWith

\* a precompiled contract ends its frame, with a result or with an exception
LEMMA PrecompileAfter ==
  ASSUME NEW v, Sane(v, 0), Fine(v), NEW o \in View,
         o[2] = 0 \/ (Top(v) > 1 /\ Within(o, v.frames[Top(v) - 1]))
  PROVE  LET z   == Charge(v, Gas.base)
             run == IF Fine(z) THEN With(z, [Ev(z) EXCEPT !.out = o]) ELSE z
         IN  After(Handle(With(run, [Ev(run) EXCEPT !.running = FALSE])))
<1> DEFINE z   == Charge(v, Gas.base)
           f   == Ev(z)
           run == IF Fine(z) THEN With(z, [f EXCEPT !.out = o]) ELSE z
<1>1. Local(v, z, 0) /\ Sound(v)
  BY ChargeLocal, PricesAreNat DEF Sane
<1>2. v.trap = 0 /\ Core(v)
  BY DEF Sane, Fine
<1>3. z.trap = 0
  <2>1. v \in Machine
    BY <1>1 DEF Sound, Typed
  <2> QED BY <1>2, <2>1 DEF Charge, With, Throw, Machine, Fine
<1> HIDE DEF z
<1>4. Sane(z, 0) /\ Top(z) = Top(v) /\ \A i \in 1 .. Top(v) - 1 : z.frames[i] = v.frames[i]
  <2>1. Sane(z, 0)
    BY <1>1, LocalSane, 0 + 0 = 0
  <2> QED BY <1>1, <2>1 DEF Local, Works
<1>5. /\ Core(z) /\ z \in Machine /\ Top(z) >= 1 /\ f \in FrameState /\ f.err = "none"
      /\ \A a \in f.doomed : Nonce(a) \in z.world
  BY <1>3, <1>4, TopFacts DEF Sane
<1>6. o[2] = 0 \/ (Top(z) > 1 /\ Within(o, z.frames[Top(z) - 1]))
  <2>1. Top(v) \in Nat
    BY <1>2, TopFacts
  <2> QED BY <1>4, <2>1
<1>7. CASE Fine(z)
  <2> DEFINE g == [f EXCEPT !.out = o]
             h == [g EXCEPT !.running = FALSE]
  <2>1. g \in FrameState /\ f.len \in Nat
    BY <1>5, FrameWith, FrameFields, ZenonT(40)
  <2>2. h \in FrameState
    BY <2>1, FrameWith, ZenonT(40)
  <2>3. Replaces(z, f, h) /\ h.err = "none" /\ StateGasUsed(h) = StateGasUsed(f)
    <3> HIDE DEF f
    <3> QED BY <1>5, <1>6, <2>1 DEF Replaces, Held, StateGasUsed, FrameState
  <2>4. Ev(With(z, g)) = g
    BY <1>5, EvWith
  <2>5. run = With(z, g) /\ [Ev(run) EXCEPT !.running = FALSE] = h
    BY <1>7, <2>4
  <2> HIDE DEF run, g, h
  <2>6. With(run, h) = With(z, h)
    BY <1>5, <2>1, <2>2, <2>5, WithWith
  <2>7. Sane(With(z, h), 0)
    BY <1>4, <1>7, <2>2, <2>3, ReplaceSane DEF f
  <2>8. After(Handle(With(run, [Ev(run) EXCEPT !.running = FALSE])))
    BY <2>5, <2>6, <2>7, HandleAfter, ZenonT(40)
  <2> QED BY <2>8 DEF run, f, z
<1>8. CASE ~Fine(z)
  <2> DEFINE h == [f EXCEPT !.running = FALSE]
  <2>1. h \in FrameState /\ f.len \in Nat
    BY <1>5, FrameWith, FrameFields, ZenonT(40)
  <2>2. Replaces(z, f, h)
    <3> HIDE DEF f
    <3> QED BY <1>5, <2>1 DEF Replaces, Held, FrameState
  <2> HIDE DEF h
  <2>3. Core(With(z, h)) /\ IsWith(z, h, With(z, h))
    BY <1>5, <2>1, <2>2, ReplaceCore DEF f
  <2>4. With(z, h).err # "none"
    BY <1>3, <1>8, <2>3 DEF IsWith, Fine
  <2>5. After(Handle(With(z, h)))
    BY <2>3, <2>4, HandleCore DEF After
  <2>6. With(run, [Ev(run) EXCEPT !.running = FALSE]) = With(z, h)
    BY <1>8 DEF h
  <2> HIDE DEF run
  <2>7. After(Handle(With(run, [Ev(run) EXCEPT !.running = FALSE])))
    BY <2>5, <2>6
  <2> QED BY <2>7 DEF run, f, z
<1> QED BY <1>7, <1>8

\* frame_start writes the value transfer, runs a precompile or leaves code to run.
LEMMA FrameStartAfter ==
  ASSUME NEW v, NEW m \in Msg, NEW d \in Int, Sane(v, d), Fine(v),
         m.transfer => ~Ev(v).static,
         d = IF m.transfer /\ ~IsAlive(v, m.self) THEN StateGas.account ELSE 0,
         m.data[2] = 0 \/ (Top(v) > 1 /\ Within(m.data, v.frames[Top(v) - 1]))
  PROVE  After(FrameStart(v, m))
<1> DEFINE b == Bring(v, {m.self})
           y == IF m.transfer THEN With(b, [Ev(v) EXCEPT !.logs = @ + 1]) ELSE v
           z == Charge(y, Gas.base)
           run == IF Fine(z) THEN With(z, [Ev(z) EXCEPT !.out = m.data]) ELSE z
<1>0. FrameStart(v, m) = IF m.precompile THEN Handle(With(run, [Ev(run) EXCEPT !.running = FALSE])) ELSE y
  BY DEF FrameStart
<1>1. m.self \in Addr /\ m.data \in View
  BY DEF Msg
<1>2. /\ Sane(y, 0) /\ Fine(y) /\ Top(y) = Top(v)
      /\ \A i \in 1 .. Top(v) - 1 : y.frames[i] = v.frames[i]
  <2>1. CASE ~m.transfer
    BY <2>1
  <2>2. CASE m.transfer
    <3>1. d = IF IsAlive(v, m.self) THEN 0 ELSE StateGas.account
      BY <2>2
    <3>2. Sane(b, d - d) /\ Ev(b) = Ev(v)
      BY <1>1, <2>2, <3>1, BringAccount
    <3>3. Fine(b) /\ b.frames = v.frames
      <4>1. v.world \cup ({m.self} \cap Objects) \in SUBSET Objects /\ Sound(v)
        BY MachineFields DEF Sane, Sound, Typed
      <4> QED BY <4>1, WriteKeeps DEF Bring
    <3>4. d - d = 0
      OBVIOUS
    <3> HIDE DEF b
    <3>5. Sane(b, 0) /\ y = With(b, [Ev(b) EXCEPT !.logs = @ + 1])
      BY <2>2, <3>2, <3>4
    <3>6. Top(b) = Top(v)
      BY <3>3 DEF Top
    <3> HIDE DEF y
    <3> QED BY <3>3, <3>5, <3>6, LogSane
  <2> QED BY <2>1, <2>2
<1>3. CASE m.precompile
  <2>1. m.data[2] = 0 \/ (Top(y) > 1 /\ Within(m.data, y.frames[Top(y) - 1]))
    <3>1. Top(v) \in Nat
      BY TopFacts DEF Sane, Fine
    <3> HIDE DEF y
    <3> QED BY <1>2, <3>1
  <2> HIDE DEF y
  <2>2. After(Handle(With(run, [Ev(run) EXCEPT !.running = FALSE])))
    BY <1>1, <1>2, <2>1, PrecompileAfter
  <2> QED BY <1>0, <1>3, <2>2
<1>4. CASE ~m.precompile
  <2> HIDE DEF y
  <2>1. After(Handle(y)) /\ Handle(y) = y
    BY <1>2, HandleAfter DEF Handle, Fine
  <2> QED BY <1>0, <1>4, <2>1
<1> QED BY <1>3, <1>4
-----------------------------------------------------------------------------
(***************************************************************************)
(* A parent p about to start a child for m: what the child is given has    *)
(* left it, and it can take the child's result when the child ends.        *)
(***************************************************************************)
\* What the caller has paid for the account of the child, and what the parent p of a child for m
\* must satisfy before the child is opened.
Charged(m) == IF m.charged THEN StateGas.account ELSE 0

Hosts(p, m) ==
  /\ Ev(p).running /\ Ev(p).code /\ Ev(p).err = "none"
  /\ Ev(p).sleft = 0 /\ Ev(p).n < Ev(p).scap
  /\ \A i \in 1 .. Top(p) :
       p.frames[i].gas = Held(p.frames[i]) + Owed(p, i) + (IF i = Top(p) THEN m.gas ELSE 0)
  /\ Paid(p, Top(p)) = CostOf(m.was.world) + m.rsv + Charged(m)
  /\ m.memMark = p.up /\ p.down <= m.mark /\ Lies(Ev(p), m.memMark, m.mark)
  /\ m.csnap <= Len(p.journal) /\ Past(p)[m.csnap + 1] = m.was.world
  /\ m.kind # "create" => m.csnap = Len(p.journal)
  /\ \A i \in 1 .. Top(p) : p.frames[i].snap <= m.csnap
  /\ m.code /\ m.self \in New => Nonce(m.self) \in p.world
  /\ m.kind = "create" =>
       /\ m.self \in New /\ m.code /\ Nonce(m.self) \notin m.was.world
       /\ \A k \in Times(p) : Code(m.self) \notin Past(p)[k]
  /\ \A a \in Ev(p).doomed : Nonce(a) \in m.was.world
  /\ Ev(p).static => m.static
  /\ m.static => m.kind # "create"
  /\ m.was.warm = p.warm
  /\ m.data[2] > 0 => Within(m.data, Ev(p))
  /\ m.ret <= Ev(p).len

\* The frames after the child is opened.
LEMMA ChildFrames ==
  ASSUME NEW p, Sound(p), NEW m \in Msg, NEW y, IsOpened(p, m, y)
  PROVE  /\ Top(p) \in Nat \ {0} /\ Top(y) = Top(p) + 1 /\ Ev(y) = Opened(p, m)
         /\ \A i \in 1 .. Top(p) : y.frames[i] = p.frames[i]
         /\ \A i \in 1 .. Top(y) : i \in 1 .. Top(p) \/ i = Top(p) + 1
         /\ y.frames[Top(p) + 1] = Opened(p, m)
         /\ Past(y) = Past(p) /\ Times(y) = Times(p)
<1>1. p.frames \in Seq(FrameState) /\ Len(p.frames) \in Nat \ {0}
  BY MachineFields DEF Sound, Typed, Top
<1>2. y.frames = Append(p.frames, Opened(p, m)) /\ Opened(p, m) \in FrameState
      /\ y.world = p.world /\ y.journal = p.journal
  BY DEF IsOpened
<1> QED BY <1>1, <1>2, SamePast DEF Top, Ev, Last

\* The fixture with one more frame.
LEMMA ChildFixture ==
  ASSUME NEW p, Base(p), NEW m \in Msg, Hosts(p, m), NEW y, IsOpened(p, m, y)
  PROVE  Fixture(y)
<1> DEFINE n == Top(p)
           c == Opened(p, m)
<1>1. /\ n \in Nat \ {0} /\ Top(y) = n + 1 /\ Ev(y) = c
      /\ \A i \in 1 .. n : y.frames[i] = p.frames[i]
      /\ \A i \in 1 .. Top(y) : i \in 1 .. n \/ i = n + 1
      /\ y.frames[n + 1] = c
      /\ Past(y) = Past(p) /\ Times(y) = Times(p)
  BY ChildFrames DEF Base
<1>2. /\ y.world = p.world /\ y.journal = p.journal /\ y.warm = p.warm
      /\ y.up = p.up + MemInit /\ y.down <= p.down - StackInit
      /\ p.down >= StackInit /\ c \in FrameState
  BY DEF IsOpened
<1>3. /\ c.kind = m.kind /\ c.self = m.self /\ c.static = m.static /\ c.code = m.code
      /\ c.out = <<0, 0>> /\ c.snap = Len(p.journal) /\ c.csnap = m.csnap
      /\ c.addrs = Len(p.warm.addrs) /\ c.keys = Len(p.warm.keys)
      /\ c.stk = p.down - StackInit /\ c.scap = StackInit /\ c.n = 0
      /\ c.mem = p.up /\ c.cap = MemInit /\ c.len = 0
      /\ c.mark = m.mark /\ c.memMark = m.memMark /\ c.data = m.data /\ c.ret = m.ret
      /\ c.doomed = {} /\ c.was = m.was
  BY DEF Opened
<1>4. Ev(p) = p.frames[n] /\ n \in 1 .. n /\ p \in Machine /\ Fixture(p)
  BY <1>1, FrameAt DEF Base, Sound, Typed
<1> HIDE DEF n, c
<1>5. \A i \in 1 .. n : i # n => i + 1 \in 1 .. n
  BY <1>1
<1>6. /\ \A i \in 1 .. n : /\ WorldOf(y, i) = IF i = n THEN m.was.world ELSE WorldOf(p, i)
                           /\ WarmOf(y, i) = IF i = n THEN m.was.warm ELSE WarmOf(p, i)
                           /\ UpOf(y, i) = IF i = n THEN m.memMark ELSE UpOf(p, i)
                           /\ DownOf(y, i) = IF i = n THEN m.mark ELSE DownOf(p, i)
      /\ WorldOf(y, n + 1) = y.world /\ WarmOf(y, n + 1) = y.warm
      /\ UpOf(y, n + 1) = y.up /\ DownOf(y, n + 1) = y.down
  <2>1. ASSUME NEW i \in 1 .. n
        PROVE  /\ WorldOf(y, i) = IF i = n THEN m.was.world ELSE WorldOf(p, i)
               /\ WarmOf(y, i) = IF i = n THEN m.was.warm ELSE WarmOf(p, i)
               /\ UpOf(y, i) = IF i = n THEN m.memMark ELSE UpOf(p, i)
               /\ DownOf(y, i) = IF i = n THEN m.mark ELSE DownOf(p, i)
    <3>1. i # n + 1
      BY <1>1
    <3>2. CASE i = n
      BY <1>1, <1>3, <3>1, <3>2 DEF WorldOf, WarmOf, UpOf, DownOf
    <3>3. CASE i # n
      BY <1>1, <1>5, <3>1, <3>3 DEF WorldOf, WarmOf, UpOf, DownOf, n
    <3> QED BY <3>2, <3>3
  <2> QED BY <1>1, <2>1 DEF WorldOf, WarmOf, UpOf, DownOf
<1>7. Slices(y)
  <2>1. y.frames[1].memMark = 0 /\ y.frames[1].mark = ArenaSize
    BY <1>1, <1>4 DEF Fixture, Slices
  <2>2. ASSUME NEW i \in 1 .. n
        PROVE  /\ y.frames[i].mem = y.frames[i].memMark /\ y.frames[i].mark <= ArenaSize
               /\ Lies(y.frames[i], UpOf(y, i), DownOf(y, i))
    <3>1. /\ p.frames[i].mem = p.frames[i].memMark /\ p.frames[i].mark <= ArenaSize
          /\ Lies(p.frames[i], UpOf(p, i), DownOf(p, i))
      BY <1>4 DEF Fixture, Slices, n
    <3>2. Lies(p.frames[n], m.memMark, m.mark)
      BY <1>4 DEF Hosts
    <3> QED BY <1>1, <1>6, <3>1, <3>2
  <2>3. c.mem = c.memMark /\ Lies(c, y.up, y.down) /\ c.mark <= ArenaSize
    <3>1. /\ p.up \in Nat /\ p.down \in Nat /\ y.down \in Nat /\ MemInit \in Nat /\ StackInit \in Nat \ {0}
          /\ m.mark \in Nat
      BY <1>4, MachineFields, FramesAssumption DEF IsOpened, Sound, Typed, Msg
    <3>2. m.memMark = p.up /\ p.down <= m.mark
      BY DEF Hosts
    <3>3. m.mark <= Ev(p).mark
      <4>1. Ev(p).stk \in Nat /\ Ev(p).scap \in Nat /\ Ev(p).mark \in Nat
        BY FrameAt, FrameFields DEF Base, Sound, Typed
      <4> QED BY <3>1, <4>1 DEF Hosts, Lies
    <3>4. Ev(p).mark <= ArenaSize /\ Ev(p).mark \in Nat /\ ArenaSize \in Nat
      BY <1>4, FrameAt, FrameFields, FramesAssumption DEF Base, Sound, Typed, Fixture, Slices, n
    <3> QED BY <1>2, <1>3, <3>1, <3>2, <3>3, <3>4 DEF Lies
  <2> QED BY <1>1, <1>6, <2>1, <2>2, <2>3 DEF Slices
<1>8. Views(y)
  <2>1. ASSUME NEW i \in 1 .. Top(y)
        PROVE  LET f == y.frames[i] IN
                 /\ i > 1 => /\ f.data[2] > 0 => Within(f.data, y.frames[i - 1])
                             /\ f.ret <= y.frames[i - 1].len
                 /\ f.out[2] > 0 => Within(f.out, f) \/ (i > 1 /\ Within(f.out, y.frames[i - 1]))
    <3>1. CASE i \in 1 .. n
      <4>1. i > 1 => i - 1 \in 1 .. n
        BY <1>1, <3>1
      <4>2. y.frames[i] = p.frames[i] /\ (i > 1 => y.frames[i - 1] = p.frames[i - 1])
        BY <1>1, <3>1, <4>1
      <4>3. Views(p)
        BY <1>4 DEF Fixture
      <4> QED BY <3>1, <4>2, <4>3 DEF Views, n
    <3>2. CASE i = n + 1
      <4>1. y.frames[i] = c /\ y.frames[i - 1] = Ev(p)
        BY <1>1, <1>4, <3>2
      <4>2. ~(c.out[2] > 0)
        BY <1>3
      <4> QED BY <1>3, <4>1, <4>2 DEF Hosts
    <3> QED BY <1>1, <3>1, <3>2
  <2> QED BY <2>1 DEF Views
<1>9. History(y)
  BY <1>1, <1>4 DEF Fixture, History
<1>10. Snaps(y)
  <2>1. Snaps(p) /\ m.csnap <= Len(p.journal) /\ Len(p.journal) \in Nat /\ Past(p)[m.csnap + 1] = m.was.world
        /\ (m.kind # "create" => m.csnap = Len(p.journal))
        /\ \A i \in 1 .. n : p.frames[i].snap <= m.csnap
    BY <1>4, MachineFields DEF Fixture, Hosts, n
  <2>2. ASSUME NEW i \in 1 .. n
        PROVE  LET f == y.frames[i] IN
                 /\ f.csnap <= f.snap /\ f.snap <= Len(y.journal)
                 /\ \A j \in i + 1 .. Top(y) : f.snap <= y.frames[j].csnap
                 /\ Past(y)[f.csnap + 1] = f.was.world
                 /\ f.kind # "create" /\ i > 1 => f.snap = f.csnap
    <3>1. \A j \in i + 1 .. Top(y) : j \in i + 1 .. n \/ j = n + 1
      BY <1>1
    <3>2. \A j \in i + 1 .. n : j \in 1 .. n
      BY <1>1
    <3> QED BY <1>1, <1>2, <1>3, <2>1, <3>1, <3>2 DEF Snaps, n
  <2>3. /\ c.csnap <= c.snap /\ c.snap <= Len(y.journal)
        /\ Past(y)[c.csnap + 1] = c.was.world
        /\ c.kind # "create" => c.snap = c.csnap
    BY <1>1, <1>2, <1>3, <2>1
  <2>4. \A j \in (n + 1) + 1 .. Top(y) : FALSE
    BY <1>1
  <2> QED BY <1>1, <2>2, <2>3, <2>4 DEF Snaps
<1>11. Births(y)
  <2>1. Births(p)
    BY <1>4 DEF Fixture
  <2>2. \A a \in Ev(p).doomed : Nonce(a) \in m.was.world
    BY DEF Hosts
  <2>3. ASSUME NEW i \in 1 .. n
        PROVE  LET f == y.frames[i] IN
                 /\ f.code /\ f.self \in New => Nonce(f.self) \in Past(y)[f.snap + 1]
                 /\ f.kind = "create" =>
                      /\ f.self \in New /\ f.code /\ Nonce(f.self) \notin f.was.world
                      /\ \A k \in Times(y) : Code(f.self) \notin Past(y)[k]
                 /\ \A a \in f.doomed : Nonce(a) \in WorldOf(y, i)
    <3>1. \A a \in p.frames[i].doomed : Nonce(a) \in WorldOf(y, i)
      BY <1>4, <1>6, <2>1, <2>2 DEF Births, n
    <3> QED BY <1>1, <2>1, <3>1 DEF Births, n
  <2>4. Past(p)[Len(p.journal) + 1] = p.world
    BY <1>4, MachineFields DEF Past
  <2>5. /\ c.code /\ c.self \in New => Nonce(c.self) \in Past(y)[c.snap + 1]
        /\ c.kind = "create" =>
             /\ c.self \in New /\ c.code /\ Nonce(c.self) \notin c.was.world
             /\ \A k \in Times(y) : Code(c.self) \notin Past(y)[k]
        /\ \A a \in c.doomed : Nonce(a) \in WorldOf(y, n + 1)
    BY <1>1, <1>3, <2>4 DEF Hosts
  <2> QED BY <1>1, <2>3, <2>5 DEF Births
<1>12. Static(y)
  <2>1. Static(p) /\ (Ev(p).static => m.static) /\ (m.static => m.kind # "create")
    BY <1>4 DEF Fixture, Hosts
  <2>2. ASSUME NEW i \in 1 .. n, y.frames[i].static
        PROVE  /\ y.frames[i].kind # "create" /\ y.frames[i].snap >= Len(y.journal)
               /\ \A j \in i .. Top(y) : y.frames[j].static
    <3>1. p.frames[i].static /\ n \in i .. n
      BY <1>1, <2>2
    <3>2. /\ p.frames[i].kind # "create" /\ p.frames[i].snap >= Len(p.journal)
          /\ \A j \in i .. n : p.frames[j].static
      BY <2>1, <3>1 DEF Static, n
    <3>3. m.static
      BY <1>4, <2>1, <3>1, <3>2
    <3>4. \A j \in i .. Top(y) : (j \in 1 .. n /\ j \in i .. n) \/ j = n + 1
      BY <1>1
    <3> QED BY <1>1, <1>2, <1>3, <3>2, <3>3, <3>4
  <2>3. c.static => /\ c.kind # "create" /\ c.snap >= Len(y.journal)
                    /\ \A j \in n + 1 .. Top(y) : y.frames[j].static
    <3>1. \A j \in n + 1 .. Top(y) : j = n + 1
      BY <1>1
    <3>2. Len(p.journal) \in Nat
      BY <1>4, MachineFields
    <3> QED BY <1>1, <1>2, <1>3, <2>1, <3>1, <3>2
  <2> QED BY <1>1, <2>2, <2>3 DEF Static
<1>13. Warmth(y)
  <2>1. Warmth(p) /\ m.was.warm = p.warm
    BY <1>4 DEF Fixture, Hosts
  <2>2. ASSUME NEW i \in 1 .. n
        PROVE  LET f == y.frames[i] IN
                 /\ f.addrs = Len(f.was.warm.addrs) /\ f.keys = Len(f.was.warm.keys)
                 /\ Prefix(f.was.warm.addrs, WarmOf(y, i).addrs)
                 /\ Prefix(f.was.warm.keys, WarmOf(y, i).keys)
    <3>1. WarmOf(y, i) = WarmOf(p, i) /\ y.frames[i] = p.frames[i]
      BY <1>1, <1>6, <2>1 DEF WarmOf, n
    <3> QED BY <2>1, <3>1 DEF Warmth, n
  <2>3. /\ c.addrs = Len(c.was.warm.addrs) /\ c.keys = Len(c.was.warm.keys)
        /\ Prefix(c.was.warm.addrs, WarmOf(y, n + 1).addrs)
        /\ Prefix(c.was.warm.keys, WarmOf(y, n + 1).keys)
    <3>1. p.warm.addrs \in Seq(Addr) /\ p.warm.keys \in Seq(Slot)
      BY <1>4, MachineFields
    <3> QED BY <1>2, <1>3, <1>6, <2>1, <3>1, PrefixSame
  <2> QED BY <1>1, <2>2, <2>3 DEF Warmth
<1> QED BY <1>7, <1>8, <1>9, <1>10, <1>11, <1>12, <1>13 DEF Fixture

\* The child starts with what its caller has paid for its account.
LEMMA ChildSane ==
  ASSUME NEW p, Base(p), Flow(p), LowerPaid(p), NEW m \in Msg, Hosts(p, m), NEW y, IsOpened(p, m, y),
         NEW d \in Int, CostOf(m.was.world) + Charged(m) = CostOf(p.world) + d
  PROVE  Sane(y, d)
<1> DEFINE n == Top(p)
           c == Opened(p, m)
<1>1. /\ n \in Nat \ {0} /\ Top(y) = n + 1 /\ Ev(y) = c
      /\ \A i \in 1 .. n : y.frames[i] = p.frames[i]
      /\ \A i \in 1 .. Top(y) : i \in 1 .. n \/ i = n + 1
      /\ y.frames[n + 1] = c
      /\ Past(y) = Past(p) /\ Times(y) = Times(p)
  BY ChildFrames DEF Base
<1>2. /\ y.world = p.world /\ y.auth = p.auth /\ Sound(y) /\ Fine(y) /\ y.trap = 0
  BY DEF IsOpened, Fine
<1>3. /\ c.gas = m.gas /\ c.rsv = m.rsv /\ c.left = m.gas /\ c.sleft = m.rsv
      /\ c.spilled = 0 /\ c.used = 0 /\ c.running = TRUE /\ c.err = "none"
      /\ c.charged = m.charged /\ c.was = m.was
      /\ m.gas \in Nat /\ m.rsv \in Nat /\ m.was.world \subseteq Objects
  BY DEF Opened, Msg, Before
<1>4. Ev(p) = p.frames[n] /\ n \in 1 .. n /\ p \in Machine
  BY <1>1, FrameAt DEF Base, Sound, Typed
<1> HIDE DEF n, c
<1>5. \A i \in 1 .. n : i # n => i + 1 \in 1 .. n
  BY <1>1
<1>6. /\ \A i \in 1 .. n : Owed(y, i) = Owed(p, i) + (IF i = n THEN m.gas ELSE 0)
      /\ Owed(y, n + 1) = 0
  <2>1. p.auth.spilled \in Nat
    BY <1>4, MachineFields
  <2>2. ASSUME NEW i \in 1 .. n PROVE Owed(y, i) = Owed(p, i) + (IF i = n THEN m.gas ELSE 0)
    <3>1. CASE i = n
      BY <1>1, <1>2, <1>3, <2>1, <3>1 DEF Owed, n
    <3>2. CASE i # n
      <4>1. p.frames[i + 1].gas \in Nat
        BY <1>4, <1>5, <3>2, FrameAt, FrameFields DEF n
      <4> QED BY <1>1, <1>2, <1>5, <2>1, <3>2, <4>1 DEF Owed, n
    <3> QED BY <3>1, <3>2
  <2>3. Owed(y, n + 1) = 0
    BY <1>1 DEF Owed
  <2> QED BY <2>2, <2>3
<1>7. Fixture(y)
  BY ChildFixture
<1>8. FirstPaid(y)
  <2>1. y.frames[1] = p.frames[1]
    BY <1>1
  <2> QED BY <1>1, <1>2, <2>1 DEF Base, FirstPaid
<1>9. Flow(y)
  <2>1. /\ Ev(p).running /\ Ev(p).code /\ Ev(p).sleft = 0 /\ Ev(p).n < Ev(p).scap
    BY DEF Hosts
  <2>2. ASSUME NEW i \in 1 .. n
        PROVE  LET f == y.frames[i] IN
                 /\ f.running => f.err = "none"
                 /\ f.err # "none" => f.sleft = f.rsv /\ f.spilled = 0
                 /\ f.running /\ f.code /\ f.sleft = 0 /\ f.n < f.scap
    BY <1>1, <1>4, <2>1 DEF Flow, n
  <2> QED BY <1>1, <1>3, <2>2 DEF Flow
<1>10. Balanced(y)
  <2>1. ASSUME NEW i \in 1 .. n PROVE y.frames[i].gas = Held(y.frames[i]) + Owed(y, i)
    <3>1. p.frames[i].gas = Held(p.frames[i]) + Owed(p, i) + (IF i = n THEN m.gas ELSE 0)
      BY DEF Hosts, n
    <3>2. Held(p.frames[i]) \in Nat
      <4>1. p.frames[i] \in FrameState
        BY <1>4, FrameAt DEF n
      <4>2. p.frames[i].left \in Nat /\ p.frames[i].used \in Nat /\ p.frames[i].spilled \in Nat
        BY <4>1, FrameFields
      <4> QED BY <4>2 DEF Held
    <3>3. Owed(p, i) \in Nat
      <4>1. p.auth.spilled \in Nat
        BY <1>4, MachineFields
      <4>2. i < n => p.frames[i + 1].gas \in Nat
        BY <1>1, <1>4, <1>5, FrameAt, FrameFields DEF n
      <4> QED BY <4>1, <4>2 DEF Owed, n
    <3> QED BY <1>1, <1>3, <1>6, <3>1, <3>2, <3>3
  <2>2. c.gas = Held(c) + Owed(y, n + 1)
    BY <1>3, <1>6 DEF Held
  <2> QED BY <1>1, <2>1, <2>2 DEF Balanced
<1>11. \A i \in 1 .. n : Paid(y, i) = Paid(p, i)
  BY <1>1, <1>2 DEF Paid, Own
<1>12. LowerPaid(y)
  <2>1. ASSUME NEW i \in 1 .. n
        PROVE  Paid(y, i) = CostOf(y.frames[i + 1].was.world) + y.frames[i + 1].rsv + Prepaid(y.frames[i + 1])
    <3>1. CASE i = n
      <4>1. Prepaid(c) = Charged(m)
        BY <1>3 DEF Prepaid, Charged
      <4> QED BY <1>1, <1>3, <1>11, <3>1, <4>1 DEF Hosts, n
    <3>2. CASE i # n
      <4>1. i \in 1 .. n - 1
        BY <1>1, <3>2
      <4> QED BY <1>1, <1>5, <1>11, <3>2, <4>1 DEF LowerPaid, n
    <3> QED BY <3>1, <3>2
  <2> QED BY <1>1, <2>1 DEF LowerPaid
<1>13. Core(y)
  BY <1>2, <1>7, <1>8, <1>9, <1>10, <1>12 DEF Core, Base
<1>14. Paid(y, Top(y)) = CostOf(y.world) + d
  <2>1. Own(y, n + 1) = 0
    BY <1>1, <1>3 DEF Own, StateGasUsed
  <2>2. Prepaid(c) = Charged(m) /\ Charged(m) \in Nat
    BY <1>3, PricesAreNat DEF Prepaid, Charged
  <2>3. CostOf(m.was.world) \in Nat
    BY <1>3, CostNat
  <2> HIDE DEF CostOf
  <2> QED BY <1>1, <1>2, <1>3, <2>1, <2>2, <2>3 DEF Paid
<1> QED BY <1>1, <1>2, <1>3, <1>13, <1>14 DEF Sane
-----------------------------------------------------------------------------
\* What the base says of the current frame and the present world.
LEMMA BaseFacts ==
  ASSUME NEW v, Base(v)
  PROVE  /\ Sound(v) /\ v \in Machine /\ Top(v) \in Nat \ {0} /\ Top(v) \in 1 .. Top(v)
         /\ Ev(v) = v.frames[Top(v)] /\ Ev(v) \in FrameState
         /\ \A i \in 1 .. Top(v) : v.frames[i] \in FrameState
         /\ Closed(v.world) /\ v.world \in SUBSET Objects
         /\ Len(v.journal) + 1 \in Times(v) /\ Past(v)[Len(v.journal) + 1] = v.world
         /\ \A i \in 1 .. Top(v) : v.frames[i].kind = "create" =>
              v.frames[i].self \in New /\ Code(v.frames[i].self) \notin v.world
<1>1. /\ v \in Machine /\ Top(v) \in Nat \ {0} /\ Top(v) \in 1 .. Top(v)
      /\ Ev(v) = v.frames[Top(v)] /\ Ev(v) \in FrameState
      /\ \A i \in 1 .. Top(v) : v.frames[i] \in FrameState
  BY FrameAt DEF Base, Sound, Typed
<1>2. v.journal \in Seq(SUBSET Objects) /\ v.world \in SUBSET Objects
  BY <1>1, MachineFields
<1>3. Len(v.journal) + 1 \in Times(v) /\ Past(v)[Len(v.journal) + 1] = v.world
  BY <1>2 DEF Times, Past
<1> QED BY <1>1, <1>2, <1>3 DEF Base, Fixture, History, Births

\* what has no nonce has never had code
LEMMA NeverCode ==
  ASSUME NEW v, Base(v), NEW a \in New, Nonce(a) \notin v.world
  PROVE  \A k \in Times(v) : Code(a) \notin Past(v)[k] /\ Nonce(a) \notin Past(v)[k]
<1>1. Len(v.journal) + 1 \in Times(v) /\ Past(v)[Len(v.journal) + 1] = v.world
  BY BaseFacts
<1>2. \A k \in Times(v) : k <= Len(v.journal) + 1
  BY <1>1 DEF Times
<1> QED BY <1>1, <1>2 DEF Base, Fixture, History, Closed

\* the world u in which a was created in the world w
Born(w, a, u) ==
  /\ u \in SUBSET Objects /\ Closed(u) /\ u = w \cup ({a, <<a, "nonce">>} \cap Objects)
  /\ \A b \in New : /\ Nonce(b) \in w => Nonce(b) \in u
                    /\ (Code(b) \in u) <=> (Code(b) \in w)
  /\ CostOf(u) = CostOf(w) + (IF a \in w THEN 0 ELSE StateGas.account)

\* A new account with its nonce can be added to a closed world.
LEMMA BirthWorld ==
  ASSUME NEW w, w \in SUBSET Objects, Closed(w), NEW a \in New, Nonce(a) \notin w
  PROVE  Born(w, a, w \cup {a, Nonce(a)})
<1> DEFINE u == w \cup {a, Nonce(a)}
           t == w \cup {a}
<1>1. /\ \A b \in New : /\ (Nonce(b) \in u) <=> (b = a \/ Nonce(b) \in w)
                        /\ (Code(b) \in u) <=> (Code(b) \in w)
                        /\ (Auth(b) \in u) <=> (Auth(b) \in w)
                        /\ b \in w => b \in u
      /\ a \in u /\ Nonce(a) \in u
  BY ThingsApart
<1>2. a \in Objects /\ Nonce(a) \in Objects /\ Nonce(a) # a /\ <<a, "nonce">> = Nonce(a)
  BY ThingsApart DEF Nonce
<1>3. u \in SUBSET Objects /\ Closed(u) /\ u = w \cup ({a, <<a, "nonce">>} \cap Objects)
  BY <1>1, <1>2 DEF Closed
<1>4. CostOf(u) = CostOf(w) + (IF a \in w THEN 0 ELSE StateGas.account)
  <2>1. u = t \cup {Nonce(a)} /\ Nonce(a) \notin t /\ t \subseteq Objects
    BY <1>2
  <2>2. CostOf(w) \in Nat /\ CostOf(t) \in Nat /\ StateGas.account \in Nat
    BY <2>1, CostNat, PricesAreNat
  <2>3. CostOf(t) = CostOf(w) + (IF a \in w THEN 0 ELSE StateGas.account)
    <3>1. CASE a \in w
      <4>1. t = w
        BY <3>1
      <4> HIDE DEF t
      <4> QED BY <2>2, <3>1, <4>1
    <3>2. CASE a \notin w
      BY <1>2, <3>2, CostOfMore, PricesOf
    <3> QED BY <3>1, <3>2
  <2> HIDE DEF t, u
  <2>4. CostOf(u) = CostOf(t) + 0
    BY <1>2, <2>1, CostOfMore, PricesOf
  <2> QED BY <2>2, <2>3, <2>4
<1> QED BY <1>1, <1>3, <1>4 DEF u, Born

\* A birth is one write; afterwards the machine is as good as before.
IsBirth(v, a, p) ==
  /\ Base(p) /\ Fine(p) /\ p.frames = v.frames
  /\ p.world = v.world \cup {a, Nonce(a)} /\ p.journal = Append(v.journal, v.world)
  /\ p.warm = v.warm /\ p.up = v.up /\ p.down = v.down /\ p.auth = v.auth
  /\ CostOf(p.world) = CostOf(v.world) + (IF a \in v.world THEN 0 ELSE StateGas.account)
  /\ \A k \in Times(p) : Code(a) \notin Past(p)[k]

\* generic_create marks the account before the child starts.
LEMMA BirthBase ==
  ASSUME NEW v, Base(v), Fine(v), ~Ev(v).static, NEW a \in New, Nonce(a) \notin v.world
  PROVE  IsBirth(v, a, Birth(v, a))
<1> DEFINE u == v.world \cup {a, Nonce(a)}
           y == Write(v, u)
           p == [y EXCEPT !.created = @ \cup {a}]
<1>1. /\ Closed(v.world) /\ v.world \in SUBSET Objects /\ Sound(v) /\ v \in Machine
      /\ \A i \in 1 .. Top(v) : v.frames[i].kind = "create" =>
           v.frames[i].self \in New /\ Code(v.frames[i].self) \notin v.world
  BY BaseFacts
<1>2. /\ u \in SUBSET Objects /\ Closed(u) /\ u = v.world \cup ({a, <<a, "nonce">>} \cap Objects)
      /\ \A b \in New : (Nonce(b) \in v.world => Nonce(b) \in u) /\ ((Code(b) \in u) <=> (Code(b) \in v.world))
      /\ CostOf(u) = CostOf(v.world) + (IF a \in v.world THEN 0 ELSE StateGas.account)
  <2>1. Born(v.world, a, u)
    BY <1>1, BirthWorld
  <2> HIDE DEF u
  <2> QED BY <2>1 DEF Born
<1>3. Birth(v, a) = p
  BY <1>2 DEF Birth, Bring
<1>4. Writable(v, u)
  BY <1>1, <1>2 DEF Writable
<1> HIDE DEF u
<1>5. /\ Base(y) /\ Sound(y) /\ y.frames = v.frames /\ Ev(y) = Ev(v) /\ Top(y) = Top(v)
      /\ y.world = u /\ y.journal = Append(v.journal, v.world)
      /\ y.created = v.created /\ y.warm = v.warm
      /\ y.up = v.up /\ y.down = v.down /\ y.err = v.err /\ y.trap = v.trap /\ y.auth = v.auth
  <2>1. Base(y)
    BY <1>4, WriteBase
  <2>2. u \in SUBSET Objects
    BY <1>2
  <2>3. /\ Sound(y) /\ y.frames = v.frames /\ Ev(y) = Ev(v) /\ Top(y) = Top(v)
        /\ y.world = u /\ y.journal = Append(v.journal, v.world)
        /\ y.created = v.created /\ y.warm = v.warm
        /\ y.up = v.up /\ y.down = v.down /\ y.err = v.err /\ y.trap = v.trap /\ y.auth = v.auth
    BY <1>1, <2>2, WriteIs
  <2> QED BY <2>1, <2>3
<1> HIDE DEF y
<1>6. /\ p \in Machine /\ p.frames = y.frames
      /\ p.world = y.world /\ p.journal = y.journal /\ p.warm = y.warm
      /\ p.up = y.up /\ p.down = y.down /\ p.err = y.err /\ p.trap = y.trap /\ p.auth = y.auth
  <2>1. y \in Machine /\ y.created \cup {a} \subseteq New
    BY <1>5, MachineFields DEF Sound, Typed
  <2> QED BY <2>1 DEF Machine
<1> HIDE DEF p
<1>7. Top(p) = Top(y) /\ Ev(p) = Ev(y) /\ Past(p) = Past(y) /\ Times(p) = Times(y)
  BY <1>6, SamePast DEF Top, Ev
<1>8. Base(p)
  <2>1. Sound(p) /\ p.trap = 0
    BY <1>5, <1>6, <1>7 DEF Base, Sound, Typed
  <2>2. Slices(p) /\ Views(p) /\ History(p) /\ Snaps(p)
    <3>1. Slices(y) /\ Views(y) /\ History(y) /\ Snaps(y)
      BY <1>5 DEF Base, Fixture
    <3>2. Slices(p)
      BY <1>6, <1>7, <3>1 DEF Slices, UpOf, DownOf
    <3>3. Views(p)
      BY <1>6, <1>7, <3>1 DEF Views
    <3>4. History(p)
      BY <1>7, <3>1 DEF History
    <3>5. Snaps(p)
      BY <1>6, <1>7, <3>1 DEF Snaps
    <3> QED BY <3>2, <3>3, <3>4, <3>5
  <2>3. Births(p) /\ Static(p) /\ Warmth(p) /\ FirstPaid(p)
    <3>1. Births(y) /\ Static(y) /\ Warmth(y) /\ FirstPaid(y)
      BY <1>5 DEF Base, Fixture
    <3>2. Births(p)
      BY <1>6, <1>7, <3>1 DEF Births, WorldOf
    <3>3. Static(p)
      BY <1>6, <1>7, <3>1 DEF Static, WorldOf
    <3>4. Warmth(p)
      BY <1>6, <1>7, <3>1 DEF Warmth, WarmOf
    <3>5. FirstPaid(p)
      BY <1>6, <1>7, <3>1 DEF FirstPaid
    <3> QED BY <3>2, <3>3, <3>4, <3>5
  <2> QED BY <2>1, <2>2, <2>3 DEF Base, Fixture
<1>9. \A k \in Times(p) : Code(a) \notin Past(p)[k]
  <2>1. \A k \in Times(v) : Code(a) \notin Past(v)[k]
    BY NeverCode
  <2>2. Code(a) \notin u
    <3>1. Code(a) \notin v.world
      BY <2>1, BaseFacts
    <3> QED BY <1>2, <3>1
  <2>3. v.journal \in Seq(SUBSET Objects) /\ Len(v.journal) \in Nat
    BY <1>1, MachineFields
  <2>4. ASSUME NEW k \in Times(p) PROVE Past(p)[k] = u \/ (k \in Times(v) /\ Past(p)[k] = Past(v)[k])
    BY <1>5, <1>7, <2>3 DEF Times, Past
  <2> QED BY <2>1, <2>2, <2>4
<1>10. Fine(p)
  BY <1>5, <1>6 DEF Fine
<1>11. CostOf(p.world) = CostOf(v.world) + (IF a \in v.world THEN 0 ELSE StateGas.account)
  BY <1>2, <1>5, <1>6
<1>12. p.world = v.world \cup {a, Nonce(a)}
  BY <1>5, <1>6 DEF u
<1> HIDE DEF CostOf
<1> QED BY <1>3, <1>5, <1>6, <1>8, <1>9, <1>10, <1>11, <1>12 DEF IsBirth

\* the parent as it starts a child for m, which is taken from it as it is
Parts(q, m) ==
  /\ Ev(q).running /\ Ev(q).code /\ Ev(q).err = "none"
  /\ Ev(q).sleft = 0 /\ Ev(q).n < Ev(q).scap
  /\ \A i \in 1 .. Top(q) :
       q.frames[i].gas = Held(q.frames[i]) + Owed(q, i) + (IF i = Top(q) THEN m.gas ELSE 0)
  /\ Paid(q, Top(q)) = CostOf(q.world) + m.rsv + Charged(m)
  /\ m.mark = q.down /\ m.memMark = q.up
  /\ m.csnap = Len(q.journal) /\ m.was = [world |-> q.world, warm |-> q.warm]
  /\ Ev(q).static => m.static
  /\ m.data[2] = 0 \/ Within(m.data, Ev(q))
  /\ m.ret <= Ev(q).len
  /\ m.kind = "create" =>
       /\ m.self \in New /\ m.code /\ Nonce(m.self) \notin q.world /\ ~m.static /\ ~m.transfer
       /\ Charged(m) = IF m.self \in q.world THEN 0 ELSE StateGas.account
  /\ m.kind # "create" =>
       /\ m.code /\ m.self \in New => Nonce(m.self) \in q.world
       /\ Charged(m) = IF m.transfer /\ ~IsAlive(q, m.self) THEN StateGas.account ELSE 0
       /\ m.transfer => ~m.static

\* The scratch for a child's message is work, or a trap.
LEMMA ScratchWorks ==
  ASSUME NEW v, Sound(v), Fine(v), NEW n \in Nat
  PROVE  LET y == ScratchAlloc(v, n) IN
           IF Fine(y) THEN Works(v, y) /\ Ev(y) = Ev(v) /\ y.up = v.up /\ y.warm = v.warm
                           /\ y.down <= v.down /\ y.frames = v.frames
           ELSE IsTrapped(v, y)
<1> DEFINE y == ScratchAlloc(v, n)
<1>1. Allocated(v, y, 0, n)
  BY Allocates DEF Sound
<1> HIDE DEF y
<1>2. CASE Fine(y)
  <2>1. /\ Typed(y) /\ y.frames = v.frames /\ y.world = v.world /\ y.journal = v.journal
        /\ y.created = v.created /\ y.warm = v.warm /\ y.auth = v.auth /\ y.err = v.err
        /\ y.up = v.up + 0 /\ y.down = v.down - n
    BY <1>1, <1>2 DEF Allocated
  <2>2. v \in Machine /\ Ev(v) \in FrameState /\ v.up \in Nat /\ v.down \in Nat
    BY FrameAt, MachineFields DEF Sound, Typed
  <2>3. Ev(y) = Ev(v) /\ Top(y) = Top(v) /\ y.up = v.up /\ y.down <= v.down /\ Sound(y)
    BY <2>1, <2>2 DEF Ev, Top, Sound
  <2>4. Kept(Ev(v), Ev(y))
    BY <2>2, <2>3, KeptSame
  <2>5. Lies(Ev(v), v.up, v.down) => Lies(Ev(y), y.up, y.down)
    <3>1. Ev(v).stk \in Nat /\ y.down \in Int
      BY <2>1, <2>2, FrameFields
    <3> QED BY <2>2, <2>3, <3>1 DEF Lies
  <2>6. Prefix(v.warm.addrs, y.warm.addrs) /\ Prefix(v.warm.keys, y.warm.keys)
    BY <2>1, <2>2, PrefixSame, MachineFields
  <2>7. Works(v, y)
    BY <1>2, <2>1, <2>3, <2>4, <2>5, <2>6 DEF Works
  <2> QED BY <1>2, <2>1, <2>3, <2>7 DEF y
<1>3. CASE ~Fine(y)
  BY <1>1, <1>3 DEF Allocated, y
<1> QED BY <1>2, <1>3

\* Work keeps the base of the invariant.
LEMMA WorksBase ==
  ASSUME NEW v, Base(v), Flow(v), LowerPaid(v), Ev(v).err = "none", NEW y, Works(v, y), y.trap = 0
  PROVE  Base(y) /\ Flow(y) /\ LowerPaid(y)
<1>1. Fixture(y) /\ Flow(y)
  BY WorksFixture, WorksFlow DEF Base
<1>2. LowerPaid(y) /\ FirstPaid(y)
  BY WorksBelow DEF Base
<1> QED BY <1>1, <1>2 DEF Base, Works

\* A trap while a child is started ends the program.
LEMMA TrappedAfter ==
  ASSUME NEW v, Views(v), NEW y, IsTrapped(v, y)
  PROVE  After(y)
BY DEF After, Trapped, IsTrapped, Views, Top

\* starting a child at p, a machine that has made room for the message, and has
\* created the child's account if the child is a creation
LEMMA HostsAfter ==
  ASSUME NEW p, Base(p), Fine(p), Flow(p), LowerPaid(p), NEW m \in Msg, Hosts(p, m),
         NEW d \in Int, CostOf(m.was.world) + Charged(m) = CostOf(p.world) + d,
         d = IF m.transfer /\ ~IsAlive(p, m.self) THEN StateGas.account ELSE 0,
         m.transfer => ~m.static, m.data[2] = 0 \/ Within(m.data, Ev(p))
  PROVE  After(FrameStart(Open(p, m), m))
<1> DEFINE y == Open(p, m)
<1>1. IsOpened(p, m, y) \/ IsTrapped(p, y)
  BY OpenIs DEF Base, Sound
<1> HIDE DEF y
<1>2. CASE IsTrapped(p, y)
  <2>1. ~Fine(y)
    BY <1>2 DEF IsTrapped, Fine
  <2>2. FrameStart(y, m) = y
    BY <2>1 DEF FrameStart
  <2>3. Views(p)
    BY DEF Base, Fixture
  <2> QED BY <1>2, <2>2, <2>3, TrappedAfter DEF y
<1>3. CASE IsOpened(p, m, y)
  <2>1. Sane(y, d) /\ Fine(y) /\ y.world = p.world
    BY <1>3, ChildSane DEF IsOpened
  <2>2. Ev(y) = Opened(p, m) /\ Top(y) = Top(p) + 1 /\ y.frames[Top(p)] = Ev(p) /\ Top(p) \in Nat \ {0}
    <3>1. Sound(p) /\ Top(p) \in 1 .. Top(p) /\ Ev(p) = p.frames[Top(p)]
      BY BaseFacts
    <3> QED BY <1>3, <3>1, ChildFrames
  <2>3. Ev(y).static = m.static
    BY <2>2 DEF Opened
  <2>4. m.data[2] = 0 \/ (Top(y) > 1 /\ Within(m.data, y.frames[Top(y) - 1]))
    <3>1. Top(y) - 1 = Top(p) /\ Top(y) > 1
      BY <2>2
    <3> QED BY <2>2, <3>1
  <2>5. d = IF m.transfer /\ ~IsAlive(y, m.self) THEN StateGas.account ELSE 0
    BY <2>1 DEF IsAlive
  <2>6. After(FrameStart(y, m))
    BY <2>1, <2>3, <2>4, <2>5, FrameStartAfter
  <2> QED BY <2>6 DEF y
<1> QED BY <1>1, <1>2, <1>3

LEMMA PartsHosts ==
  ASSUME NEW q, Base(q), NEW m \in Msg, Parts(q, m), NEW p,
         p.frames = q.frames, p.auth = q.auth, p.up = q.up, p.down <= q.down, p.warm = q.warm,
         Len(q.journal) <= Len(p.journal), Past(p)[Len(q.journal) + 1] = q.world,
         m.kind # "create" => Len(q.journal) = Len(p.journal) /\ p.world = q.world,
         m.kind = "create" => /\ Nonce(m.self) \in p.world
                              /\ \A k \in Times(p) : Code(m.self) \notin Past(p)[k]
  PROVE  Hosts(p, m)
<1>1. /\ Top(p) = Top(q) /\ Ev(p) = Ev(q) /\ Ev(q) = q.frames[Top(q)] /\ Top(q) \in 1 .. Top(q)
      /\ q.journal \in Seq(SUBSET Objects) /\ \A i \in 1 .. Top(q) : q.frames[i] \in FrameState
  BY BaseFacts, MachineFields DEF Top, Ev
<1>2. \A i \in 1 .. Top(q) : Owed(p, i) = Owed(q, i) /\ Paid(p, i) = Paid(q, i)
  BY <1>1 DEF Owed, Paid, Own
<1>3. /\ Lies(Ev(q), q.up, q.down) /\ \A a \in Ev(q).doomed : Nonce(a) \in q.world
  BY <1>1 DEF Base, Fixture, Slices, Births, UpOf, DownOf, WorldOf
<1>4. \A i \in 1 .. Top(q) : q.frames[i].snap <= Len(q.journal)
  BY DEF Base, Fixture, Snaps
<1>5. m.was.world = q.world /\ m.was.warm = q.warm
  BY DEF Parts
<1>6. /\ Ev(p).running /\ Ev(p).code /\ Ev(p).err = "none" /\ Ev(p).sleft = 0 /\ Ev(p).n < Ev(p).scap
      /\ Ev(p).static => m.static
      /\ m.memMark = p.up /\ p.down <= m.mark /\ Lies(Ev(p), m.memMark, m.mark)
      /\ m.csnap = Len(q.journal)
  BY <1>1, <1>3 DEF Parts
<1>7. /\ \A i \in 1 .. Top(p) :
           p.frames[i].gas = Held(p.frames[i]) + Owed(p, i) + (IF i = Top(p) THEN m.gas ELSE 0)
      /\ Paid(p, Top(p)) = CostOf(m.was.world) + m.rsv + Charged(m)
  BY <1>1, <1>2, <1>5 DEF Parts
<1>8. /\ m.data[2] > 0 => Within(m.data, Ev(p))
      /\ m.ret <= Ev(p).len
      /\ m.static => m.kind # "create"
      /\ (m.code /\ m.self \in New) => Nonce(m.self) \in p.world
  BY <1>1 DEF Parts
<1>9. m.kind = "create" =>
        /\ m.self \in New /\ m.code /\ Nonce(m.self) \notin m.was.world
  BY <1>5 DEF Parts
<1> QED BY <1>1, <1>3, <1>4, <1>5, <1>6, <1>7, <1>8, <1>9 DEF Hosts

LEMMA StartChildAfter ==
  ASSUME NEW q, Base(q), Fine(q), Flow(q), LowerPaid(q), NEW m \in Msg, Parts(q, m)
  PROVE  After(StartChild(q, m))
<1> DEFINE y == ScratchAlloc(q, MsgSize)
           p == IF m.kind = "create" THEN Birth(y, m.self) ELSE y
<1>0. StartChild(q, m) = FrameStart(Open(p, m), m)
  BY DEF StartChild
<1>1. MsgSize \in Nat /\ Sound(q) /\ Ev(q).err = "none"
  BY FramesAssumption DEF Base, Parts
<1>2. IF Fine(y) THEN Works(q, y) /\ Ev(y) = Ev(q) /\ y.up = q.up /\ y.warm = q.warm
                      /\ y.down <= q.down /\ y.frames = q.frames
      ELSE IsTrapped(q, y)
  BY <1>1, ScratchWorks
<1> HIDE DEF y
<1>3. CASE ~Fine(y)
  <2>1. p = y
    BY <1>3 DEF Birth, Bring, Write
  <2>2. Open(y, m) = y
    BY <1>3 DEF Open, ScratchAlloc, FrameMemAlloc
  <2>3. FrameStart(y, m) = y
    BY <1>3 DEF FrameStart
  <2>4. Views(q)
    BY DEF Base, Fixture
  <2>5. StartChild(q, m) = y
    BY <1>0, <2>1, <2>2, <2>3
  <2> QED BY <1>2, <1>3, <2>4, <2>5, TrappedAfter
<1>4. CASE Fine(y)
  <2>1. /\ Works(q, y) /\ Ev(y) = Ev(q) /\ y.up = q.up /\ y.warm = q.warm
        /\ y.down <= q.down /\ y.frames = q.frames /\ y.trap = 0
        /\ y.world = q.world /\ y.journal = q.journal /\ y.auth = q.auth
    BY <1>2, <1>4 DEF Works, Fine
  <2>2. Base(y) /\ Flow(y) /\ LowerPaid(y)
    BY <1>1, <2>1, WorksBase
  <2>3. /\ Past(y)[Len(q.journal) + 1] = q.world /\ q.journal \in Seq(SUBSET Objects)
        /\ Len(q.journal) \in Nat
    BY <2>1, BaseFacts, MachineFields, SamePast
  <2>4. m.was.world = q.world /\ Charged(m) \in Nat /\ CostOf(q.world) \in Nat
    <3>1. m.was.world = q.world /\ Charged(m) \in Nat /\ q.world \subseteq Objects
      BY BaseFacts, PricesAreNat, SMTT(60) DEF Parts, Charged
    <3> QED BY <3>1, CostNat
  <2>5. CASE m.kind # "create"
    <3>1. p = y
      BY <2>5
    <3>2. Hosts(y, m)
      BY <2>1, <2>3, <2>5, PartsHosts
    <3>3. Charged(m) \in Int /\ CostOf(m.was.world) + Charged(m) = CostOf(y.world) + Charged(m)
      BY <2>1, <2>4
    <3>4. /\ Charged(m) = IF m.transfer /\ ~IsAlive(y, m.self) THEN StateGas.account ELSE 0
          /\ m.transfer => ~m.static
          /\ m.data[2] = 0 \/ Within(m.data, Ev(y))
      BY <2>1, <2>5 DEF Parts, IsAlive
    <3>5. After(FrameStart(Open(y, m), m))
      BY <1>4, <2>2, <3>2, <3>3, <3>4, HostsAfter
    <3> QED BY <1>0, <3>1, <3>5
  <2>6. CASE m.kind = "create"
    <3>1. p = Birth(y, m.self)
      BY <2>6
    <3>2. /\ m.self \in New /\ m.code /\ Nonce(m.self) \notin y.world /\ ~m.static /\ ~m.transfer
          /\ ~Ev(y).static
          /\ Charged(m) = IF m.self \in y.world THEN 0 ELSE StateGas.account
      BY <2>1, <2>6 DEF Parts
    <3> HIDE DEF p
    <3>3. /\ Base(p) /\ Fine(p) /\ p.frames = y.frames
          /\ p.world = y.world \cup {m.self, Nonce(m.self)} /\ p.journal = Append(y.journal, y.world)
          /\ p.warm = y.warm /\ p.up = y.up /\ p.down = y.down /\ p.auth = y.auth
          /\ CostOf(p.world) = CostOf(y.world) + (IF m.self \in y.world THEN 0 ELSE StateGas.account)
          /\ \A k \in Times(p) : Code(m.self) \notin Past(p)[k]
      <4>1. IsBirth(y, m.self, p)
        BY <1>4, <2>2, <3>1, <3>2, BirthBase
      <4> QED BY <4>1 DEF IsBirth
    <3>4. Len(p.journal) = Len(q.journal) + 1 /\ Past(p)[Len(q.journal) + 1] = q.world
      BY <2>1, <2>3, <3>3 DEF Past
    <3>5. Hosts(p, m)
      BY <2>1, <2>3, <2>6, <3>3, <3>4, PartsHosts
    <3>6. Flow(p) /\ LowerPaid(p)
      BY <2>2, <3>3 DEF Flow, LowerPaid, Paid, Own, Top
    <3>7. CostOf(m.was.world) + Charged(m) = CostOf(p.world) + 0
      <4> HIDE DEF CostOf
      <4> QED BY <2>1, <2>4, <3>2, <3>3, PricesAreNat, SMTT(60)
    <3>8. 0 = (IF m.transfer /\ ~IsAlive(p, m.self) THEN StateGas.account ELSE 0) /\ (m.transfer => ~m.static)
      BY <3>2
    <3>9. m.data[2] = 0 \/ Within(m.data, Ev(p))
      BY <2>1, <3>2, <3>3 DEF Ev, Parts
    <3>10. After(FrameStart(Open(p, m), m))
      BY <3>3, <3>5, <3>6, <3>7, <3>8, <3>9, HostsAfter, 0 \in Int
    <3> QED BY <1>0, <3>10
  <2> QED BY <2>5, <2>6
<1> QED BY <1>3, <1>4

\* what m takes from the parent w as it is before its reservoir is taken
Asks(w, m) ==
  /\ m.rsv = Ev(w).sleft /\ m.mark = w.down /\ m.memMark = w.up
  /\ m.csnap = Len(w.journal) /\ m.was = [world |-> w.world, warm |-> w.warm]
  /\ Ev(w).static => m.static
  /\ m.data[2] = 0 \/ Within(m.data, Ev(w))
  /\ m.ret <= Ev(w).len
  /\ m.kind = "create" =>
       /\ m.self \in New /\ m.code /\ Nonce(m.self) \notin w.world /\ ~m.static /\ ~m.transfer
       /\ Charged(m) = IF m.self \in w.world THEN 0 ELSE StateGas.account
  /\ m.kind # "create" =>
       /\ (m.code /\ m.self \in New) => Nonce(m.self) \in w.world
       /\ Charged(m) = IF m.transfer /\ ~IsAlive(w, m.self) THEN StateGas.account ELSE 0
       /\ m.transfer => ~m.static

\* The parent hands gas and reservoir over and the child starts.
LEMMA HandOver ==
  ASSUME NEW m \in Msg, NEW y, Sane(y, Charged(m)), Fine(y), NEW w, Works(y, w), Fine(w),
         StateGasUsed(Ev(w)) = StateGasUsed(Ev(y)), Held(Ev(y)) = Held(Ev(w)) + m.gas,
         Ev(w).running, Ev(w).code, Ev(w).n < Ev(w).scap, Asks(w, m)
  PROVE  After(StartChild(TakeReservoir(w), m))
<1> DEFINE f == Ev(w)
           g == [f EXCEPT !.sleft = 0]
           q == With(w, g)
<1>0. TakeReservoir(w) = q
  BY DEF TakeReservoir
<1>1. Core(y) /\ Ev(y).err = "none" /\ Sound(y) /\ Paid(y, Top(y)) = CostOf(y.world) + Charged(m)
  BY DEF Sane, Fine
<1>2. Base(w) /\ Flow(w) /\ LowerPaid(w) /\ w.trap = 0 /\ f.err = "none" /\ Sound(w)
  BY <1>1, WorksBase DEF Core, Fine, Works, Kept
<1>3. /\ w \in Machine /\ Top(w) \in Nat \ {0} /\ f \in FrameState /\ f = w.frames[Top(w)]
      /\ \A i \in 1 .. Top(w) : w.frames[i] \in FrameState
  BY <1>2, BaseFacts
<1>4. /\ f.left \in Nat /\ f.used \in Nat /\ f.spilled \in Nat /\ f.rsv \in Nat /\ f.sleft \in Nat
      /\ f.len \in Nat /\ m.gas \in Nat /\ m.rsv \in Nat
  BY <1>3, FrameFields DEF Msg
<1>5. g \in FrameState
  BY <1>3, FrameWith, ZenonT(40)
<1>6. /\ Kept(f, g) /\ Held(g) = Held(f) /\ StateGasUsed(g) = StateGasUsed(f) + f.sleft
      /\ g.sleft = 0 /\ g.n = f.n /\ g.scap = f.scap /\ g.len = f.len
      /\ Lies(f, w.up, w.down) => Lies(g, w.up, w.down)
  <2> HIDE DEF f
  <2> QED BY <1>3, <1>4 DEF Kept, Held, StateGasUsed, Lies, FrameState
<1> HIDE DEF g
<1>7. Works(w, q) /\ Ev(q) = g /\ Fine(q) /\ IsWith(w, g, q)
  BY <1>2, <1>3, <1>5, <1>6, WorksTop, WithTop
<1> HIDE DEF q
<1>8. Base(q) /\ Flow(q) /\ LowerPaid(q)
  BY <1>2, <1>7, WorksBase DEF Fine
<1>9. /\ Top(q) = Top(w) /\ Top(w) = Top(y) /\ q.world = w.world /\ w.world = y.world
      /\ q.journal = w.journal /\ q.warm = w.warm /\ q.up = w.up /\ q.down = w.down
      /\ q.auth = w.auth /\ w.auth = y.auth
      /\ \A i \in 1 .. Top(w) - 1 : q.frames[i] = w.frames[i]
      /\ q.frames[Top(w)] = g
  BY <1>7 DEF IsWith, Works
<1>10. \A i \in 1 .. Top(w) : Owed(q, i) = Owed(y, i) /\ q.frames[i].gas = y.frames[i].gas
                              /\ (i < Top(w) => q.frames[i] = y.frames[i])
       /\ y.frames[Top(w)] = Ev(y)
  <2>1. \A i \in 1 .. Top(w) : Owed(w, i) = Owed(y, i) /\ w.frames[i].gas = y.frames[i].gas
    BY <1>1, <1>9, WorksBelow
  <2>2. \A i \in 1 .. Top(w) : Owed(q, i) = Owed(w, i) /\ q.frames[i].gas = w.frames[i].gas
    BY <1>2, <1>7, WorksBelow
  <2>3. \A i \in 1 .. Top(w) : (i < Top(w) => w.frames[i] = y.frames[i]) /\ y.frames[Top(w)] = Ev(y)
    BY <1>1, <1>9, WorksFrames
  <2>4. \A i \in 1 .. Top(w) : i < Top(w) => i \in 1 .. Top(w) - 1
    BY <1>3
  <2>5. Top(w) \in 1 .. Top(w)
    BY <1>3
  <2> QED BY <1>9, <2>1, <2>2, <2>3, <2>4, <2>5
<1>11. ASSUME NEW i \in 1 .. Top(q)
       PROVE  q.frames[i].gas = Held(q.frames[i]) + Owed(q, i) + (IF i = Top(q) THEN m.gas ELSE 0)
  <2>1. y.frames[i].gas = Held(y.frames[i]) + Owed(y, i)
    BY <1>1, <1>9 DEF Core, Balanced
  <2>2. Held(f) \in Nat
    BY <1>4 DEF Held
  <2>3. Owed(y, i) \in Int
    <3>1. y.auth.spilled \in Nat
      BY <1>1, MachineFields DEF Sound, Typed
    <3>2. i < Top(y) => y.frames[i + 1] \in FrameState
      <4>1. i < Top(y) => i + 1 \in 1 .. Top(y)
        BY <1>3, <1>9
      <4> QED BY <1>1, <4>1, FrameAt DEF Sound, Typed
    <3>3. i < Top(y) => y.frames[i + 1].gas \in Nat
      BY <3>2, FrameFields
    <3> QED BY <3>1, <3>3 DEF Owed
  <2>4. CASE i = Top(w)
    <3>1. Held(q.frames[i]) + m.gas = Held(y.frames[i])
      BY <1>6, <1>9, <1>10, <2>4
    <3>2. Held(q.frames[i]) \in Nat
      BY <1>6, <1>9, <2>2, <2>4
    <3> QED BY <1>4, <1>9, <1>10, <2>1, <2>3, <2>4, <3>1, <3>2
  <2>5. CASE i # Top(w)
    <3>1. i < Top(w) /\ i \in 1 .. Top(w)
      BY <1>3, <1>9, <2>5
    <3>2. q.frames[i] = y.frames[i] /\ y.frames[i] \in FrameState
      <4>1. Top(y) >= 1 /\ y \in Machine
        BY <1>1 DEF Sound, Typed
      <4> QED BY <1>9, <1>10, <3>1, <4>1, FrameAt
    <3>3. Held(y.frames[i]) \in Nat
      <4>1. y.frames[i].left \in Nat /\ y.frames[i].used \in Nat /\ y.frames[i].spilled \in Nat
        BY <3>2, FrameFields
      <4> QED BY <4>1 DEF Held
    <3> QED BY <1>9, <1>10, <2>1, <2>3, <2>5, <3>1, <3>2, <3>3
  <2> QED BY <2>4, <2>5
<1>12. Paid(q, Top(q)) = CostOf(q.world) + m.rsv + Charged(m)
  <2>1. /\ Prepaid(g) = Prepaid(Ev(y)) /\ g.was = Ev(y).was
    BY <1>6, <1>7 DEF Works, Kept, Prepaid
  <2>2. m.rsv = f.sleft
    BY DEF Asks
  <2>3. /\ StateGasUsed(Ev(y)) \in Int /\ Prepaid(Ev(y)) \in Nat /\ CostOf(Ev(y).was.world) \in Nat
        /\ y.auth.used \in Int /\ CostOf(y.world) \in Nat /\ Charged(m) \in Nat
    <3>1. y \in Machine /\ Top(y) >= 1 /\ Top(y) \in 1 .. Top(y) /\ y.frames[Top(y)] = Ev(y)
      BY <1>1, TopFacts
    <3>2. y.auth.used \in Int
      BY <3>1, MachineFields
    <3>3. Charged(m) \in Nat
      BY PricesAreNat DEF Charged
    <3> QED BY <3>1, <3>2, <3>3, PaidInt
  <2> HIDE DEF CostOf, Prepaid, StateGasUsed, Charged
  <2>4. Paid(y, Top(y)) = StateGasUsed(Ev(y)) + (IF Top(y) = 1 THEN y.auth.used ELSE 0)
                          + Prepaid(Ev(y)) + CostOf(Ev(y).was.world)
    <3>1. y.frames[Top(y)] = Ev(y)
      BY <1>1, TopFacts
    <3> QED BY <3>1 DEF Paid, Own
  <2>5. Paid(q, Top(q)) = StateGasUsed(g) + (IF Top(y) = 1 THEN y.auth.used ELSE 0)
                          + Prepaid(g) + CostOf(g.was.world)
    BY <1>9 DEF Paid, Own
  <2> HIDE DEF Paid
  <2> QED BY <1>1, <1>4, <1>6, <1>9, <2>1, <2>2, <2>3, <2>4, <2>5
<1>13. Parts(q, m)
  <2>1. /\ Ev(q).running /\ Ev(q).code /\ Ev(q).err = "none" /\ Ev(q).sleft = 0
        /\ Ev(q).n < Ev(q).scap /\ (Ev(q).static <=> Ev(w).static) /\ Ev(q).len = Ev(w).len /\ Ev(q).mem = Ev(w).mem
    BY <1>2, <1>6, <1>7 DEF Kept
  <2>2. \A view : Within(view, Ev(q)) <=> Within(view, Ev(w))
    BY <2>1 DEF Within
  <2>3. \A a : IsAlive(q, a) <=> IsAlive(w, a)
    BY <1>9 DEF IsAlive
  <2>4. /\ m.mark = q.down /\ m.memMark = q.up /\ m.csnap = Len(q.journal)
        /\ m.was = [world |-> q.world, warm |-> q.warm]
        /\ (Ev(q).static => m.static) /\ (m.data[2] = 0 \/ Within(m.data, Ev(q)))
        /\ m.ret <= Ev(q).len
    BY <1>9, <2>1, <2>2 DEF Asks
  <2>5. /\ m.kind = "create" =>
             /\ m.self \in New /\ m.code /\ Nonce(m.self) \notin q.world /\ ~m.static /\ ~m.transfer
             /\ Charged(m) = IF m.self \in q.world THEN 0 ELSE StateGas.account
        /\ m.kind # "create" =>
             /\ (m.code /\ m.self \in New) => Nonce(m.self) \in q.world
             /\ Charged(m) = IF m.transfer /\ ~IsAlive(q, m.self) THEN StateGas.account ELSE 0
             /\ m.transfer => ~m.static
    BY <1>9, <2>3 DEF Asks
  <2> QED BY <1>11, <1>12, <2>1, <2>4, <2>5 DEF Parts
<1> QED BY <1>0, <1>7, <1>8, <1>13, StartChildAfter
-----------------------------------------------------------------------------
(***************************************************************************)
(* Creations.                                                              *)
(***************************************************************************)
\* what a call leaves its caller is part of what it has
LEMMA ShareIs ==
  ASSUME NEW n \in Nat
  PROVE  n \div Fraction \in Nat /\ n \div Fraction <= n /\ n - n \div Fraction \in Nat
<1>1. Fraction \in Nat /\ Fraction > 0
  BY FramesAssumption
<1> DEFINE q == n \div Fraction
<1>2. q \in Int /\ Fraction * q <= n /\ n < Fraction * q + Fraction
  BY <1>1
<1> HIDE DEF q
<1>3. q >= 0
  <2>1. ASSUME q < 0 PROVE FALSE
    <3>1. Fraction * (q + 1) <= 0
      BY <1>1, <1>2, <2>1
    <3> QED BY <1>1, <1>2, <3>1
  <2> QED BY <1>2, <2>1
<1>4. q <= Fraction * q
  BY <1>1, <1>2, <1>3
<1>5. q \in Nat /\ q <= n /\ n - q \in Nat
  <2>1. Fraction * q \in Int
    BY <1>1, <1>2
  <2> QED BY <1>2, <1>3, <1>4, <2>1
<1> QED BY <1>5 DEF q

\* the gas of a child leaves its parent; if the child never starts it is lost
LEMMA SplitIs ==
  ASSUME NEW v, Sound(v), Fine(v), NEW a \in Nat, a <= Ev(v).left
  PROVE  LET y == With(v, [Ev(v) EXCEPT !.left = @ - a]) IN
           /\ Works(v, y) /\ Fine(y) /\ Ev(y) = [Ev(v) EXCEPT !.left = @ - a]
           /\ Held(Ev(v)) = Held(Ev(y)) + a /\ StateGasUsed(Ev(y)) = StateGasUsed(Ev(v))
           /\ Ev(y).n = Ev(v).n /\ Ev(y).scap = Ev(v).scap
<1> DEFINE f == Ev(v)
           g == [f EXCEPT !.left = @ - a]
<1>1. v \in Machine /\ Top(v) >= 1 /\ f \in FrameState
  BY FrameAt DEF Sound, Typed
<1>2. /\ f.left \in Nat /\ f.used \in Nat /\ f.spilled \in Nat /\ f.rsv \in Nat /\ f.sleft \in Nat
      /\ f.len \in Nat /\ f.left - a \in Nat
  BY <1>1, FrameFields
<1> HIDE DEF f
<1>3. g = [f EXCEPT !.left = f.left - a] /\ g \in FrameState
  BY <1>1, <1>2, FrameWith, ZenonT(40)
<1>4. /\ Kept(f, g) /\ Held(f) = Held(g) + a /\ StateGasUsed(g) = StateGasUsed(f)
      /\ g.n = f.n /\ g.scap = f.scap
      /\ Lies(f, v.up, v.down) => Lies(g, v.up, v.down)
  BY <1>1, <1>2, <1>3 DEF Kept, Held, StateGasUsed, Lies, FrameState
<1> HIDE DEF g
<1>5. Works(v, With(v, g)) /\ Ev(With(v, g)) = g /\ Fine(With(v, g))
  BY <1>3, <1>4, WorksTop DEF f
<1> QED BY <1>4, <1>5 DEF f, g

LEMMA LostIs ==
  ASSUME NEW v, Sound(v), Fine(v), NEW a \in Nat, a <= Ev(v).left
  PROVE  LET y    == With(v, [Ev(v) EXCEPT !.left = @ - a])
             lost == With(y, [Ev(y) EXCEPT !.used = @ + a])
         IN  Local(v, lost, 0) /\ Fine(lost)
<1> DEFINE f == Ev(v)
           g == [f EXCEPT !.left = @ - a]
           h == [g EXCEPT !.used = @ + a]
<1>1. v \in Machine /\ Top(v) >= 1 /\ f \in FrameState
  BY FrameAt DEF Sound, Typed
<1>2. /\ f.left \in Nat /\ f.used \in Nat /\ f.spilled \in Nat /\ f.rsv \in Nat /\ f.sleft \in Nat
      /\ f.len \in Nat /\ f.left - a \in Nat
  BY <1>1, FrameFields
<1>3. Ev(With(v, g)) = g
  BY <1>1, EvWith
<1> HIDE DEF f
<1>4. g \in FrameState /\ g = [f EXCEPT !.left = f.left - a]
  BY <1>1, <1>2, FrameWith, ZenonT(40)
<1>5. g.used = f.used
  BY <1>1, <1>4 DEF FrameState
<1>6. h \in FrameState /\ h = [g EXCEPT !.used = f.used + a] /\ f.used + a \in Nat
  <2>1. h = [g EXCEPT !.used = f.used + a] /\ f.used + a \in Nat
    BY <1>2, <1>5
  <2> QED BY <1>4, <2>1, FrameWith, ZenonT(40)
<1>7. /\ Kept(f, h) /\ Held(h) = Held(f) /\ StateGasUsed(h) = StateGasUsed(f) + 0 /\ h.used >= f.used
      /\ Lies(f, v.up, v.down) => Lies(h, v.up, v.down)
  BY <1>1, <1>2, <1>4, <1>6 DEF Kept, Held, StateGasUsed, Lies, FrameState
<1> HIDE DEF h, g
<1>8. With(With(v, g), h) = With(v, h)
  BY <1>1, <1>4, <1>6, WithWith
<1>9. Local(v, With(v, h), 0) /\ Fine(With(v, h))
  <2>1. 0 \in Int /\ f = Ev(v)
    BY DEF f
  <2>2. Local(v, With(v, h), 0)
    BY <1>6, <1>7, <2>1, LocalTop
  <2> QED BY <1>6, <1>7, <2>1, <2>2, WorksTop
<1> QED BY <1>3, <1>8, <1>9 DEF f, g, h

\* nothing is given back but the price of an account
LEMMA NothingBack ==
  ASSUME NEW v, Sound(v), NEW c \in BOOLEAN
  PROVE  GiveBack(v, 0, 0, c) = IF c THEN Credit(v, StateGas.account) ELSE v
<1> DEFINE f == Ev(v)
<1>1. v \in Machine /\ Top(v) >= 1 /\ f \in FrameState /\ f.left \in Nat /\ f.sleft \in Nat
  BY FrameAt, FrameFields DEF Sound, Typed
<1>2. [f EXCEPT !.left = @ + 0, !.sleft = @ + 0] = f
  <2> HIDE DEF f
  <2>1. f.left + 0 = f.left /\ f.sleft + 0 = f.sleft
    BY <1>1
  <2>2. [f EXCEPT !.left = f.left, !.sleft = f.sleft] = f
    BY <1>1 DEF FrameState
  <2> QED BY <2>1, <2>2
<1>3. With(v, f) = v
  BY <1>1, WithSame
<1> QED BY <1>2, <1>3 DEF GiveBack

LEMMA CreateAfter ==
  ASSUME NEW v, Good(v), Ev(v).err = "none", Ev(v).running, Ev(v).code,
         NEW to \in New \cup Old, NEW r \in Nat, NEW poor \in BOOLEAN
  PROVE  After(Handle(Create(v, to, r, poor)))
<1> DEFINE yp   == Pop(v, CallArgs)
           y1   == Require(yp, ~Ev(v).static)
           n    == Beyond(y1, r)
           cost == Gas.create + ExtendCost(n)
           yc   == Charge(y1, cost)
           y2   == Extend(yc, n)
           y3   == Warm(y2, "addrs", to)
           new  == ~IsAlive(y3, to)
           y4   == IF new THEN ChargeState(y3, StateGas.account) ELSE y3
           left == Ev(y4).left
           sub  == left - left \div Fraction
           y5   == With(y4, [Ev(y4) EXCEPT !.left = @ - sub])
           lost == With(y5, [Ev(y5) EXCEPT !.used = @ + sub])
           m    == [Message(y5, "create", to, sub) EXCEPT !.charged = new]
           d    == IF new THEN StateGas.account ELSE 0
<1>0. Create(v, to, r, poor) =
        IF ~Fine(y2) THEN y2
        ELSE IF poor \/ Len(v.frames) > DepthLimit THEN Push(y2)
        ELSE IF ~Fine(y4) THEN y4
        ELSE IF ~Deployable(y4, to) THEN Push(GiveBack(lost, 0, 0, new))
        ELSE StartChild(TakeReservoir(y5), m)
  BY DEF Create
<1>1. Sane(v, 0) /\ Sound(v) /\ to \in Addr
  BY GoodSane DEF Addr
<1>2. CallArgs \in Nat \ {0} /\ d \in Int /\ StateGas.account \in Nat /\ Gas.create \in Nat
  BY FramesAssumption, PricesAreNat
<1>3. Local(v, yp, 0) /\ Sound(yp) /\ (Fine(yp) => Ev(yp).n = Ev(v).n - CallArgs /\ Ev(yp).scap = Ev(v).scap)
  BY <1>1, <1>2, PopLocal, LocalSound
<1> HIDE DEF yp
<1>4. Local(yp, y1, 0) /\ Sound(y1) /\ (Fine(y1) => ~Ev(v).static) /\ Pile(yp, y1)
  <2>1. (~Ev(v).static) \in BOOLEAN
    OBVIOUS
  <2> QED BY <1>3, <2>1, RequireLocal, LocalSound, Room
<1> HIDE DEF y1
<1>5. n \in Nat /\ cost \in Nat
  <2>1. n \in Nat /\ ExtendCost(n) \in Nat
    BY <1>4, BeyondNat
  <2> QED BY <1>2, <2>1
<1> HIDE DEF n, cost
<1>6. Local(y1, yc, 0) /\ Sound(yc) /\ Pile(y1, yc)
  BY <1>4, <1>5, ChargeLocal, LocalSound, Room
<1> HIDE DEF yc
<1>7. Local(yc, y2, 0) /\ Sound(y2) /\ Pile(yc, y2)
  BY <1>5, <1>6, ExtendLocal, LocalSound, RoomExtend
<1> HIDE DEF y2
<1>8. Local(y2, y3, 0) /\ Sound(y3) /\ Pile(y2, y3) /\ (Fine(y3) <=> Fine(y2))
  <2>1. Accessible("addrs", to)
    BY <1>1 DEF Accessible
  <2> QED BY <1>7, <2>1, WarmLocal, LocalSound, Room
<1> HIDE DEF y3
<1>9. Local(v, y2, 0) /\ Local(v, y3, 0)
  BY <1>1, <1>3, <1>4, <1>6, <1>7, <1>8, LocalChain
<1>10. Local(v, y4, d) /\ Sound(y4) /\ y4.world = y3.world
       /\ (Fine(y4) => Fine(y3) /\ Ev(y4).n = Ev(y3).n /\ Ev(y4).scap = Ev(y3).scap)
  <2>1. CASE new
    <3>1. Local(y3, y4, StateGas.account)
      BY <1>2, <1>8, <2>1, ChargeStateLocal
    <3>2. d = 0 + StateGas.account
      BY <1>2, <2>1
    <3>3. Fine(y4) => Fine(y3) /\ Ev(y4).n = Ev(y3).n /\ Ev(y4).scap = Ev(y3).scap
      BY <1>2, <1>8, <2>1, RoomState
    <3> HIDE DEF y4, d
    <3>4. Local(v, y4, d)
      BY <1>1, <1>2, <1>9, <3>1, <3>2, LocalTrans
    <3> QED BY <3>1, <3>3, <3>4 DEF Local, Works
  <2>2. CASE ~new
    BY <1>8, <1>9, <2>2
  <2> QED BY <2>1, <2>2
<1> HIDE DEF y4
<1>11. Sane(y4, d)
  <2> HIDE DEF d
  <2>1. Sane(y4, 0 + d)
    BY <1>1, <1>2, <1>10, LocalSane
  <2> QED BY <1>2, <2>1
<1>12. new <=> ~IsAlive(y4, to)
  BY <1>10 DEF IsAlive
<1>13. Fine(y4) => /\ Fine(y1) /\ Ev(y4).n < Ev(y4).scap /\ ~Ev(v).static
  <2>1. Fine(y4) => /\ Fine(yp) /\ Fine(y1) /\ Ev(y4).n = Ev(v).n - CallArgs /\ Ev(y4).scap = Ev(v).scap
    BY <1>3, <1>4, <1>6, <1>7, <1>8, <1>10 DEF Pile
  <2>2. Ev(v).n <= Ev(v).scap /\ Ev(v).n \in Nat /\ Ev(v).scap \in Nat
    <3>1. Lies(Ev(v), v.up, v.down) /\ Ev(v) \in FrameState
      BY <1>1, TopFacts DEF Good, Core, Base, Fixture, Slices, UpOf, DownOf
    <3> QED BY <3>1, FrameFields DEF Lies
  <2> QED BY <1>2, <1>4, <2>1, <2>2
<1>14. CASE ~Fine(y2)
  BY <1>0, <1>9, <1>14, LocalAfter
<1>15. CASE Fine(y2) /\ (poor \/ Len(v.frames) > DepthLimit)
  <2>1. Local(y2, Push(y2), 0)
    BY <1>7, PushLocal
  <2>2. Local(v, Push(y2), 0)
    BY <1>1, <1>9, <2>1, LocalChain
  <2> QED BY <1>0, <1>15, <2>2, LocalAfter
<1>16. CASE Fine(y2) /\ ~(poor \/ Len(v.frames) > DepthLimit) /\ ~Fine(y4)
  <2>1. Sane(y4, 0)
    BY <1>11, <1>16 DEF Sane
  <2> QED BY <1>0, <1>16, <2>1, HandleAfter
<1>17. CASE Fine(y2) /\ ~(poor \/ Len(v.frames) > DepthLimit) /\ Fine(y4)
  <2>1. Ev(y4) \in FrameState /\ left \in Nat
    BY <1>10, FrameAt, FrameFields DEF Sound, Typed
  <2>2. sub \in Nat /\ sub <= left
    <3>1. left \div Fraction \in Nat /\ left - left \div Fraction \in Nat
      BY <2>1, ShareIs
    <3> HIDE DEF left
    <3> QED BY <2>1, <3>1
  <2> HIDE DEF sub
  <2>3. CASE ~Deployable(y4, to)
    <3>1. Local(y4, lost, 0) /\ Fine(lost) /\ Sound(lost)
      BY <1>10, <1>17, <2>2, LostIs, LocalSound
    <3> HIDE DEF lost
    <3>2. GiveBack(lost, 0, 0, new) = IF new THEN Credit(lost, StateGas.account) ELSE lost
      BY <3>1, NothingBack
    <3>3. Sane(lost, d)
      <4> HIDE DEF d
      <4>1. Sane(lost, d + 0)
        BY <1>2, <1>11, <3>1, LocalSane, 0 \in Int
      <4> QED BY <1>2, <4>1
    <3> DEFINE back == GiveBack(lost, 0, 0, new)
    <3>4. Sane(back, 0) /\ Sound(back)
      <4>1. CASE new
        <5>1. Local(lost, back, -StateGas.account) /\ d = StateGas.account /\ -StateGas.account \in Int
          BY <1>2, <3>1, <3>2, <4>1, CreditLocal
        <5> HIDE DEF back, d
        <5>2. Sane(back, d + (-StateGas.account))
          BY <1>2, <3>3, <5>1, LocalSane
        <5>3. d + (-StateGas.account) = 0
          BY <1>2, <5>1
        <5> QED BY <5>1, <5>2, <5>3, LocalSound
      <4>2. CASE ~new
        BY <3>1, <3>2, <3>3, <4>2
      <4> QED BY <4>1, <4>2
    <3> HIDE DEF back
    <3>5. Sane(Push(back), 0)
      <4>1. Local(back, Push(back), 0)
        BY <3>4, PushLocal
      <4>2. Sane(Push(back), 0 + 0)
        BY <3>4, <4>1, LocalSane, 0 \in Int
      <4> QED BY <4>2
    <3> QED BY <1>0, <1>17, <2>3, <3>5, HandleAfter DEF back
  <2>4. CASE Deployable(y4, to)
    <3>1. /\ Works(y4, y5) /\ Fine(y5)
          /\ Held(Ev(y4)) = Held(Ev(y5)) + sub /\ StateGasUsed(Ev(y5)) = StateGasUsed(Ev(y4))
          /\ Ev(y5).n = Ev(y4).n /\ Ev(y5).scap = Ev(y4).scap
      BY <1>10, <1>17, <2>2, SplitIs
    <3> HIDE DEF y5
    <3>2. /\ Sound(y5) /\ y5.world = y4.world
          /\ Ev(y5).running = Ev(v).running /\ Ev(y5).code = Ev(v).code /\ Ev(y5).static = Ev(v).static
      BY <1>10, <3>1 DEF Works, Local, Kept
    <3>3. /\ m = [kind |-> "create", self |-> to, static |-> Ev(y5).static \/ "create" = "static",
                  code |-> TRUE, gas |-> sub, rsv |-> Ev(y5).sleft, charged |-> new,
                  transfer |-> FALSE, precompile |-> FALSE, data |-> <<0, 0>>, ret |-> 0,
                  csnap |-> Len(y5.journal), mark |-> y5.down, memMark |-> y5.up,
                  was |-> [world |-> y5.world, warm |-> y5.warm]]
      <4> HIDE DEF new
      <4> DEFINE b == Message(y5, "create", to, sub)
      <4>1. b = [kind |-> "create", self |-> to, static |-> Ev(y5).static \/ "create" = "static",
                 code |-> TRUE, gas |-> sub, rsv |-> Ev(y5).sleft, charged |-> FALSE,
                 transfer |-> FALSE, precompile |-> FALSE, data |-> <<0, 0>>, ret |-> 0,
                 csnap |-> Len(y5.journal), mark |-> y5.down, memMark |-> y5.up,
                 was |-> [world |-> y5.world, warm |-> y5.warm]]
        BY DEF Message, Snapshot
      <4>2. m = [b EXCEPT !.charged = new]
        OBVIOUS
      <4> HIDE DEF b, m
      <4> QED BY <4>1, <4>2
    <3>4. m \in Msg
      <4>1. /\ y5.journal \in Seq(SUBSET Objects) /\ y5.down \in Nat /\ y5.up \in Nat
            /\ y5.world \subseteq Objects /\ y5.warm \in [addrs : Seq(Addr), keys : Seq(Slot)]
            /\ Ev(y5) \in FrameState
        BY <3>2, MachineFields, FrameAt DEF Sound, Typed
      <4>2. Ev(y5).sleft \in Nat /\ Ev(y5).static \in BOOLEAN /\ Len(y5.journal) \in Nat /\ new \in BOOLEAN
        BY <4>1, FrameFields DEF IsAlive
      <4>3. [world |-> y5.world, warm |-> y5.warm] \in Before
        BY <4>1 DEF Before
      <4> HIDE DEF m, new
      <4>4. <<0, 0>> \in View
        BY DEF View
      <4> QED BY <1>1, <2>2, <3>3, <4>1, <4>2, <4>3, <4>4 DEF Msg
    <3>5. /\ m.kind = "create" /\ m.self = to /\ m.static = Ev(y5).static /\ m.code /\ m.gas = sub
          /\ m.rsv = Ev(y5).sleft /\ m.charged = new /\ ~m.transfer /\ m.data[2] = 0 /\ m.ret = 0
          /\ m.csnap = Len(y5.journal) /\ m.mark = y5.down /\ m.memMark = y5.up
          /\ m.was = [world |-> y5.world, warm |-> y5.warm]
      <4>1. Ev(y5).static \in BOOLEAN
        BY <3>2, FrameAt, FrameFields DEF Sound, Typed
      <4> HIDE DEF m, new
      <4> QED BY <3>3, <4>1
    <3> HIDE DEF m
    <3>6. Asks(y5, m)
      <4>1. Ev(y5).len \in Nat
        BY <3>2, FrameAt, FrameFields DEF Sound, Typed
      <4>2. to \in New /\ Nonce(to) \notin y5.world
        BY <2>4, <3>2 DEF Deployable, Nonce
      <4>3. Charged(m) = IF m.self \in y5.world THEN 0 ELSE StateGas.account
        BY <1>12, <3>2, <3>5, <4>2 DEF Charged, IsAlive
      <4> QED BY <1>13, <1>17, <3>2, <3>5, <4>1, <4>2, <4>3 DEF Asks
    <3>7. Charged(m) = d
      BY <3>5 DEF Charged
    <3> HIDE DEF d
    <3>8. After(StartChild(TakeReservoir(y5), m))
      BY <1>11, <1>13, <1>17, <3>1, <3>2, <3>4, <3>5, <3>6, <3>7, HandOver
    <3> QED BY <1>0, <1>17, <2>4, <3>8, HandleDone
  <2> QED BY <2>3, <2>4
<1> QED BY <1>14, <1>15, <1>16, <1>17
-----------------------------------------------------------------------------
(***************************************************************************)
(* Calls.                                                                  *)
(***************************************************************************)
\* what a child is given does not count as used by its parent
LEMMA UnusedIs ==
  ASSUME NEW v, Sound(v), Fine(v), NEW a \in Nat, a <= Ev(v).used
  PROVE  LET y == With(v, [Ev(v) EXCEPT !.used = @ - a]) IN
           /\ Works(v, y) /\ Fine(y)
           /\ Held(Ev(v)) = Held(Ev(y)) + a /\ StateGasUsed(Ev(y)) = StateGasUsed(Ev(v))
           /\ Ev(y).n = Ev(v).n /\ Ev(y).scap = Ev(v).scap /\ Ev(y).used = Ev(v).used - a
<1> DEFINE f == Ev(v)
           g == [f EXCEPT !.used = @ - a]
<1>1. v \in Machine /\ Top(v) >= 1 /\ f \in FrameState
  BY FrameAt DEF Sound, Typed
<1>2. /\ f.left \in Nat /\ f.used \in Nat /\ f.spilled \in Nat /\ f.rsv \in Nat /\ f.sleft \in Nat
      /\ f.len \in Nat /\ f.used - a \in Nat
  BY <1>1, FrameFields
<1> HIDE DEF f
<1>3. g = [f EXCEPT !.used = f.used - a] /\ g \in FrameState
  BY <1>1, <1>2, FrameWith, ZenonT(40)
<1>4. /\ Kept(f, g) /\ Held(f) = Held(g) + a /\ StateGasUsed(g) = StateGasUsed(f)
      /\ g.n = f.n /\ g.scap = f.scap /\ g.used = f.used - a
      /\ Lies(f, v.up, v.down) => Lies(g, v.up, v.down)
  BY <1>1, <1>2, <1>3 DEF Kept, Held, StateGasUsed, Lies, FrameState
<1> HIDE DEF g
<1>5. Works(v, With(v, g)) /\ Ev(With(v, g)) = g /\ Fine(With(v, g))
  BY <1>3, <1>4, WorksTop DEF f
<1> QED BY <1>4, <1>5 DEF f, g

\* a machine of which memory is asked can trap, not throw
LEMMA ExtendErr ==
  ASSUME NEW v, Sound(v), Fine(v), NEW n \in Nat
  PROVE  Extend(v, n).err = "none"
<1> DEFINE f    == Ev(v)
           nlen == f.len + n
           ncap == NewCap(f, nlen)
           y    == FrameMemAlloc(v, ncap - f.cap)
<1>1. v \in Machine /\ v.err = "none"
  BY DEF Sound, Typed, Fine
<1>2. y.err = "none" /\ DOMAIN y = DOMAIN v
  BY <1>1 DEF FrameMemAlloc, Machine
<1>3. \A h : With(y, h).err = y.err
  BY <1>1, <1>2 DEF With, Machine
<1> HIDE DEF y
<1> QED BY <1>2, <1>3 DEF Extend, y

\* a child that cannot start gives back its gas and the reservoir, and its
\* parent pushes a zero
LEMMA ReturnIs ==
  ASSUME NEW v, Sound(v), Fine(v), NEW a \in Nat, NEW c \in BOOLEAN, Ev(v).n < Ev(v).scap
  PROVE  \E z : /\ Works(v, z) /\ Fine(z) /\ Held(Ev(z)) = Held(Ev(v)) + a
                /\ StateGasUsed(Ev(z)) = StateGasUsed(Ev(v)) /\ Ev(z).used = Ev(v).used
                /\ GiveBack(Push(TakeReservoir(v)), a, Ev(v).sleft, c)
                   = IF c THEN Credit(z, StateGas.account) ELSE z
<1> DEFINE f == Ev(v)
           g == [f EXCEPT !.sleft = 0]
           h == [g EXCEPT !.n = @ + 1]
           k == [h EXCEPT !.left = @ + a, !.sleft = @ + f.sleft]
<1>1. v \in Machine /\ Top(v) >= 1 /\ f \in FrameState
  BY FrameAt DEF Sound, Typed
<1>2. /\ f.left \in Nat /\ f.used \in Nat /\ f.spilled \in Nat /\ f.rsv \in Nat /\ f.sleft \in Nat
      /\ f.len \in Nat /\ f.n \in Nat /\ f.scap \in Nat /\ f.left + a \in Nat /\ f.n < f.scap
  BY <1>1, FrameFields
<1>3. \A z, u : Ev(With(v, u)) = u
  BY <1>1, EvWith
<1> HIDE DEF f
<1>4. g \in FrameState /\ g.n = f.n /\ g.scap = f.scap /\ g.left = f.left /\ g.sleft = 0
  <2>1. g \in FrameState
    BY <1>1, FrameWith, 0 \in Nat, ZenonT(40)
  <2> QED BY <1>1, <2>1 DEF FrameState
<1> HIDE DEF g
<1>5. h = [g EXCEPT !.n = f.n + 1] /\ h \in FrameState /\ h.left = f.left /\ h.sleft = 0
  <2>1. h = [g EXCEPT !.n = f.n + 1] /\ f.n + 1 \in Nat
    BY <1>2, <1>4
  <2>2. h \in FrameState
    BY <1>4, <2>1, FrameWith, ZenonT(40)
  <2> QED BY <1>4, <2>1, <2>2 DEF FrameState
<1> HIDE DEF h
<1>6. k = [h EXCEPT !.left = f.left + a, !.sleft = f.sleft] /\ k \in FrameState
  <2>1. 0 + f.sleft = f.sleft /\ h \in FrameState /\ h.left = f.left /\ h.sleft = 0
    BY <1>2, <1>5
  <2>2. k = [h EXCEPT !.left = f.left + a, !.sleft = 0 + f.sleft]
    BY <2>1 DEF FrameState
  <2>3. k = [h EXCEPT !.left = f.left + a, !.sleft = f.sleft]
    BY <2>1, <2>2
  <2>4. \A i, j \in Nat : [h EXCEPT !.left = i, !.sleft = j] \in FrameState
    BY <1>5, FrameWith, ZenonT(40)
  <2> HIDE DEF k
  <2>5. k \in FrameState
    BY <1>2, <2>3, <2>4, ZenonT(40)
  <2> QED BY <2>3, <2>5
<1> HIDE DEF k
<1>7. /\ Kept(f, k) /\ Held(k) = Held(f) + a /\ StateGasUsed(k) = StateGasUsed(f) /\ k.used = f.used
      /\ Lies(f, v.up, v.down) => Lies(k, v.up, v.down)
  <2>1. /\ k.kind = f.kind /\ k.self = f.self /\ k.static = f.static /\ k.code = f.code
        /\ k.gas = f.gas /\ k.rsv = f.rsv /\ k.running = f.running /\ k.err = f.err
        /\ k.out = f.out /\ k.snap = f.snap /\ k.csnap = f.csnap /\ k.charged = f.charged
        /\ k.addrs = f.addrs /\ k.keys = f.keys /\ k.mem = f.mem /\ k.mark = f.mark
        /\ k.memMark = f.memMark /\ k.data = f.data /\ k.ret = f.ret
        /\ k.doomed = f.doomed /\ k.was = f.was /\ k.len = f.len
    BY <1>1, <1>4, <1>5, <1>6 DEF FrameState, g
  <2>2. /\ k.left = f.left + a /\ k.used = f.used /\ k.spilled = f.spilled /\ k.sleft = f.sleft
        /\ k.n = f.n + 1 /\ k.scap = f.scap /\ k.stk = f.stk /\ k.cap = f.cap
    BY <1>1, <1>4, <1>5, <1>6 DEF FrameState, g
  <2> QED BY <1>2, <2>1, <2>2 DEF Kept, Held, StateGasUsed, Lies
<1> DEFINE z == With(v, k)
<1>8. Works(v, z) /\ Ev(z) = k /\ Fine(z)
  BY <1>6, <1>7, WorksTop DEF f
<1>9. GiveBack(Push(TakeReservoir(v)), a, f.sleft, c) = IF c THEN Credit(z, StateGas.account) ELSE z
  <2>1. TakeReservoir(v) = With(v, g)
    BY DEF TakeReservoir, g, f
  <2>2. Sound(With(v, g)) /\ Fine(With(v, g)) /\ Ev(With(v, g)) = g
    <3>1. Kept(f, g) /\ (Lies(f, v.up, v.down) => Lies(g, v.up, v.down))
      BY <1>1, <1>2, <1>4 DEF g, Kept, Lies, FrameState
    <3> QED BY <1>4, <3>1, WorksTop DEF f, Works
  <2>3. Push(With(v, g)) = With(With(v, g), h)
    BY <1>2, <1>4, <2>2, PushRoom DEF h
  <2>4. With(With(v, g), h) = With(v, h)
    BY <1>1, <1>4, <1>5, WithWith
  <2>5. Fine(With(v, h)) /\ Ev(With(v, h)) = h
    <3>1. IsWith(v, h, With(v, h))
      BY <1>1, <1>5, WithTop
    <3> QED BY <3>1 DEF IsWith, Fine
  <2>6. With(With(v, h), k) = z
    BY <1>1, <1>5, <1>6, WithWith
  <2>7. With(With(v, h), [Ev(With(v, h)) EXCEPT !.left = @ + a, !.sleft = @ + f.sleft]) = z
    BY <2>5, <2>6 DEF k
  <2> HIDE DEF z
  <2> QED BY <2>1, <2>3, <2>4, <2>5, <2>7 DEF GiveBack
<1> HIDE DEF z
<1> QED BY <1>7, <1>8, <1>9 DEF f

LEMMA CallAfter ==
  ASSUME NEW v, Good(v), Ev(v).err = "none", Ev(v).running, Ev(v).code,
         NEW kind \in CallKinds, NEW to \in Addr, NEW value \in BOOLEAN, NEW poor \in BOOLEAN,
         NEW req \in Nat, NEW r \in Nat, value => kind \in {"call", "callcode"}
  PROVE  After(Handle(Call(v, kind, to, value, req, r, poor)))
<1> DEFINE yp   == Pop(v, CallArgs)
           y1   == Require(yp, ~(kind = "call" /\ value /\ Ev(v).static))
           n    == Beyond(y1, r)
           cost == ExtendCost(n) + IF value THEN Gas.value ELSE 0
           y2   == Access(y1, "addrs", to, cost)
           new  == kind = "call" /\ value /\ ~IsAlive(y2, to)
           y3   == IF new THEN ChargeState(y2, StateGas.account) ELSE y2
           left == Ev(y3).left
           g    == Least(req, left - left \div Fraction)
           sub  == g + IF value THEN Gas.stipend ELSE 0
           y4   == Charge(y3, g)
           x    == With(y4, [Ev(y4) EXCEPT !.used = @ - sub])
           y5   == IF Fine(y4) THEN Extend(x, n) ELSE y4
           self == IF kind \in {"call", "static"} THEN to ELSE Ev(y5).self
           m    == [Message(y5, kind, self, sub)
                      EXCEPT !.code = HasCode(y5, to), !.charged = new,
                             !.transfer = kind = "call" /\ value /\ to # Ev(y5).self,
                             !.precompile = to = Identity,
                             !.data = <<Ev(y5).mem, r>>, !.ret = r]
           y6   == TakeReservoir(y5)
           d    == IF new THEN StateGas.account ELSE 0
<1>0. Call(v, kind, to, value, req, r, poor) =
        IF ~Fine(y5) THEN y5
        ELSE IF poor \/ Len(v.frames) > DepthLimit THEN GiveBack(Push(y6), sub, m.rsv, new)
        ELSE StartChild(y6, m)
  BY ZenonT(40) DEF Call
<1>1. Sane(v, 0) /\ Sound(v) /\ Fine(v) /\ Ev(v) \in FrameState /\ Ev(v).used \in Nat
      /\ Ev(v).n \in Nat /\ Ev(v).scap \in Nat /\ Ev(v).n <= Ev(v).scap
  <2>1. Lies(Ev(v), v.up, v.down) /\ Ev(v) \in FrameState
    BY TopFacts DEF Good, Core, Base, Fixture, Slices, UpOf, DownOf
  <2> QED BY <2>1, GoodSane, FrameFields DEF Lies
<1>2. /\ CallArgs \in Nat \ {0} /\ d \in Int /\ StateGas.account \in Nat /\ -StateGas.account \in Int
      /\ Gas.value \in Nat /\ Gas.stipend \in Nat /\ Gas.stipend < Gas.value
      /\ Gas.warm \in Nat /\ Gas.cold \in Nat
  BY FramesAssumption, PricesAreNat
<1>3. Local(v, yp, 0) /\ Sound(yp) /\ (Fine(yp) => Ev(yp).n = Ev(v).n - CallArgs /\ Ev(yp).scap = Ev(v).scap)
  BY <1>1, <1>2, PopLocal, LocalSound
<1> HIDE DEF yp
<1>4. Local(yp, y1, 0) /\ Sound(y1) /\ (Fine(y1) => ~(kind = "call" /\ value /\ Ev(v).static)) /\ Pile(yp, y1)
  <2>1. (~(kind = "call" /\ value /\ Ev(v).static)) \in BOOLEAN
    OBVIOUS
  <2> QED BY <1>3, <2>1, RequireLocal, LocalSound, Room
<1> HIDE DEF y1
<1>5. n \in Nat /\ cost \in Nat /\ (value => cost >= Gas.value) /\ Ev(y1).len + n >= r
  <2>1. n \in Nat /\ ExtendCost(n) \in Nat /\ Ev(y1).len + n >= r
    BY <1>4, BeyondNat
  <2> HIDE DEF n
  <2> QED BY <1>2, <2>1
<1> HIDE DEF n, cost
<1>6. /\ Local(y1, y2, 0) /\ Sound(y2) /\ Pile(y1, y2)
      /\ Fine(y2) => Ev(y2).used >= Ev(y1).used + cost
  <2>1. Accessible("addrs", to)
    BY DEF Accessible
  <2>2. AccessCost(y1, "addrs", to) + cost \in Nat
    BY <1>2, <1>5 DEF AccessCost
  <2> DEFINE c == Charge(y1, AccessCost(y1, "addrs", to) + cost)
  <2>3. Sound(c) /\ Pile(y1, c)
    BY <1>4, <2>2, ChargeLocal, LocalSound, Room
  <2>4. y2 = Warm(c, "addrs", to)
    BY DEF Access
  <2> HIDE DEF c
  <2>5. Pile(c, y2)
    BY <2>3, <2>4, Room
  <2>6. Pile(y1, y2)
    BY <2>3, <2>5 DEF Pile
  <2> QED BY <1>4, <1>5, <2>1, <2>6, AccessLocal, LocalSound
<1> HIDE DEF y2
<1>7. Local(v, y2, 0)
  BY <1>1, <1>3, <1>4, <1>6, LocalChain
<1>8. Local(v, y3, d) /\ Sound(y3) /\ y3.world = y2.world /\ Ev(y3).used >= Ev(y2).used
      /\ Ev(y3).len >= Ev(y2).len
      /\ (Fine(y3) => Fine(y2) /\ Ev(y3).n = Ev(y2).n /\ Ev(y3).scap = Ev(y2).scap)
  <2>1. CASE new
    <3>1. Local(y2, y3, StateGas.account)
      BY <1>2, <1>6, <2>1, ChargeStateLocal
    <3>2. d = 0 + StateGas.account
      BY <1>2, <2>1
    <3>3. Fine(y3) => Fine(y2) /\ Ev(y3).n = Ev(y2).n /\ Ev(y3).scap = Ev(y2).scap
      BY <1>2, <1>6, <2>1, RoomState
    <3> HIDE DEF y3, d
    <3>4. Local(v, y3, d)
      BY <1>1, <1>2, <1>7, <3>1, <3>2, LocalTrans
    <3> QED BY <3>1, <3>3, <3>4 DEF Local, Works, Kept
  <2>2. CASE ~new
    <3>1. Ev(y2).used \in Nat /\ Ev(y2).len \in Nat
      BY <1>6, FrameAt, FrameFields DEF Sound, Typed
    <3> QED BY <1>6, <1>7, <2>2, <3>1
  <2> QED BY <2>1, <2>2
<1> HIDE DEF y3
<1>9. new <=> (kind = "call" /\ value /\ ~IsAlive(y3, to))
  BY <1>8 DEF IsAlive
<1>10. g \in Nat /\ sub \in Nat /\ sub <= g + Gas.stipend /\ (~value => sub = g)
  <2>1. left \in Nat
    BY <1>8, FrameAt, FrameFields DEF Sound, Typed
  <2>2. left \div Fraction \in Nat /\ left - left \div Fraction \in Nat
    BY <2>1, ShareIs
  <2> HIDE DEF left
  <2>3. g \in Nat
    BY <2>1, <2>2 DEF Least
  <2> HIDE DEF g
  <2> QED BY <1>2, <2>3
<1> HIDE DEF g, sub
<1>11. Local(y3, y4, 0) /\ Sound(y4) /\ Pile(y3, y4) /\ (Fine(y4) => Ev(y4).used = Ev(y3).used + g)
  BY <1>8, <1>10, ChargeLocal, LocalSound, Room
<1> HIDE DEF y4
<1>12. Local(v, y4, d) /\ y4.world = y3.world /\ y4.world = v.world
  <2> HIDE DEF d
  <2>1. Local(v, y4, d + 0) /\ d + 0 = d
    BY <1>1, <1>2, <1>8, <1>11, LocalTrans, 0 \in Int
  <2> QED BY <1>11, <2>1 DEF Local, Works
<1>13. Sane(y4, d)
  <2> HIDE DEF d
  <2>1. Sane(v, 0) /\ Local(v, y4, d) /\ d \in Int /\ 0 \in Int
    BY <1>1, <1>2, <1>12
  <2>2. Sane(y4, 0 + d)
    BY <2>1, LocalSane
  <2> QED BY <2>1, <2>2
<1>14. CASE ~Fine(y4)
  <2>1. Sane(y4, 0)
    BY <1>13, <1>14 DEF Sane
  <2> QED BY <1>0, <1>14, <2>1, HandleAfter
<1>15. CASE Fine(y4)
  <2>1. /\ Fine(y3) /\ Fine(y2) /\ Fine(y1) /\ Fine(yp)
        /\ Ev(y4).n = Ev(v).n - CallArgs /\ Ev(y4).scap = Ev(v).scap
    BY <1>3, <1>4, <1>6, <1>8, <1>11, <1>15 DEF Pile
  <2>2. sub <= Ev(y4).used /\ Ev(y4).used - sub >= Ev(v).used /\ Ev(y4).used \in Nat
    <3>1. /\ Ev(y1).used \in Nat /\ Ev(y2).used \in Nat /\ Ev(y3).used \in Nat /\ Ev(y4).used \in Nat
          /\ Ev(yp).used \in Nat
      BY <1>3, <1>4, <1>6, <1>8, <1>11, FrameAt, FrameFields DEF Sound, Typed
    <3>2. Ev(y1).used >= Ev(yp).used /\ Ev(yp).used >= Ev(v).used
      BY <1>3, <1>4 DEF Local
    <3>3. Ev(y2).used >= Ev(y1).used + cost /\ Ev(y4).used = Ev(y3).used + g
      BY <1>6, <1>11, <1>15, <2>1
    <3> QED BY <1>1, <1>2, <1>5, <1>8, <1>10, <3>1, <3>2, <3>3
  <2>3. /\ Works(y4, x) /\ Fine(x)
        /\ Held(Ev(y4)) = Held(Ev(x)) + sub /\ StateGasUsed(Ev(x)) = StateGasUsed(Ev(y4))
        /\ Ev(x).n = Ev(y4).n /\ Ev(x).scap = Ev(y4).scap /\ Ev(x).used = Ev(y4).used - sub
    BY <1>10, <1>11, <1>15, <2>2, UnusedIs
  <2> HIDE DEF x
  <2>4. y5 = Extend(x, n) /\ Sound(x)
    BY <1>15, <2>3 DEF Works
  <2> HIDE DEF y5
  <2>5. Local(x, y5, 0) /\ Pile(x, y5) /\ Sound(y5) /\ y5.err = "none" /\ (Fine(y5) => Ev(y5).len = Ev(x).len + n)
    BY <1>5, <2>3, <2>4, ExtendLocal, RoomExtend, ExtendErr, LocalSound
  <2>6. Works(y4, y5) /\ Works(v, y5) /\ y5.world = v.world
    <3>1. Works(y4, y5)
      BY <1>11, <2>3, <2>5, WorksTrans DEF Local
    <3>2. Works(v, y5)
      BY <1>1, <1>12, <3>1, WorksTrans DEF Local
    <3> QED BY <3>1, <3>2 DEF Works
  <2>7. CASE ~Fine(y5)
    <3>1. y5.trap # 0 /\ Typed(y5)
      BY <2>5, <2>7 DEF Fine, Sound
    <3>2. Views(y5)
      BY <1>1, <2>6, WorksViews DEF Good, Core, Base, Fixture
    <3>3. Handle(y5) = y5
      BY <2>5 DEF Handle
    <3> QED BY <1>0, <2>7, <3>1, <3>2, <3>3 DEF After, Trapped
  <2>8. CASE Fine(y5)
    <3>1. /\ Held(Ev(y4)) = Held(Ev(y5)) + sub /\ StateGasUsed(Ev(y5)) = StateGasUsed(Ev(y4))
          /\ Ev(y5).n < Ev(y5).scap
      <4>1. Held(Ev(y5)) = Held(Ev(x)) /\ StateGasUsed(Ev(y5)) = StateGasUsed(Ev(x)) + 0
        BY <2>5, <2>8 DEF Local
      <4>2. StateGasUsed(Ev(x)) \in Int
        BY <2>4, FrameAt, FrameFields DEF Sound, Typed, StateGasUsed
      <4>3. Ev(y5).n = Ev(v).n - CallArgs /\ Ev(y5).scap = Ev(v).scap
        BY <2>1, <2>3, <2>5, <2>8 DEF Pile
      <4> QED BY <1>1, <1>2, <2>3, <4>1, <4>2, <4>3
    <3>2. /\ Ev(y5).running = Ev(v).running /\ Ev(y5).code = Ev(v).code /\ Ev(y5).static = Ev(v).static
          /\ Ev(y5).self = Ev(v).self /\ Ev(y5) \in FrameState /\ y5 \in Machine
      BY <2>5, <2>6, FrameAt DEF Works, Kept, Sound, Typed
    <3>3. /\ m.kind = kind /\ m.self = self /\ m.static = (Ev(y5).static \/ kind = "static")
          /\ m.code = HasCode(y5, to) /\ m.gas = sub /\ m.rsv = Ev(y5).sleft /\ m.charged = new
          /\ m.transfer = (kind = "call" /\ value /\ to # Ev(y5).self) /\ m.precompile = (to = Identity)
          /\ m.data = <<Ev(y5).mem, r>> /\ m.ret = r
          /\ m.csnap = Len(y5.journal) /\ m.mark = y5.down /\ m.memMark = y5.up
          /\ m.was = [world |-> y5.world, warm |-> y5.warm]
      <4> HIDE DEF new, self
      <4> QED BY DEF Message, Snapshot
    <3>4. m \in Msg
      <4>1. /\ y5.journal \in Seq(SUBSET Objects) /\ y5.down \in Nat /\ y5.up \in Nat
            /\ y5.world \subseteq Objects /\ y5.warm \in [addrs : Seq(Addr), keys : Seq(Slot)]
        BY <3>2, MachineFields
      <4>2. /\ Ev(y5).sleft \in Nat /\ Ev(y5).static \in BOOLEAN /\ Len(y5.journal) \in Nat
            /\ Ev(y5).mem \in Nat /\ self \in Addr
        BY <3>2, <4>1, FrameFields
      <4>3. [world |-> y5.world, warm |-> y5.warm] \in Before
        BY <4>1 DEF Before
      <4> HIDE DEF self
      <4> DEFINE b == Message(y5, kind, self, sub)
                 M == CallKinds \cup {"create"}
      <4>4. b = [kind |-> kind, self |-> self, static |-> Ev(y5).static \/ kind = "static",
                 code |-> TRUE, gas |-> sub, rsv |-> Ev(y5).sleft, charged |-> FALSE,
                 transfer |-> FALSE, precompile |-> FALSE, data |-> <<0, 0>>, ret |-> 0,
                 csnap |-> Len(y5.journal), mark |-> y5.down, memMark |-> y5.up,
                 was |-> [world |-> y5.world, warm |-> y5.warm]]
        BY DEF Message, Snapshot
      <4> HIDE DEF b
      <4>6. <<Ev(y5).mem, r>> \in View
        BY <4>2 DEF View
      <4>7. HasCode(y5, to) \in BOOLEAN /\ new \in BOOLEAN
            /\ (kind = "call" /\ value /\ to # Ev(y5).self) \in BOOLEAN /\ (to = Identity) \in BOOLEAN
        BY DEF HasCode
      <4>8. m = [b EXCEPT !.code = HasCode(y5, to), !.charged = new,
                          !.transfer = kind = "call" /\ value /\ to # Ev(y5).self,
                          !.precompile = to = Identity, !.data = <<Ev(y5).mem, r>>, !.ret = r]
        BY DEF b
      <4> HIDE DEF m, new
      <4>9. m = [kind |-> kind, self |-> self, static |-> Ev(y5).static \/ kind = "static",
                 code |-> HasCode(y5, to), gas |-> sub, rsv |-> Ev(y5).sleft, charged |-> new,
                 transfer |-> kind = "call" /\ value /\ to # Ev(y5).self,
                 precompile |-> to = Identity, data |-> <<Ev(y5).mem, r>>, ret |-> r,
                 csnap |-> Len(y5.journal), mark |-> y5.down, memMark |-> y5.up,
                 was |-> [world |-> y5.world, warm |-> y5.warm]]
        BY <4>4, <4>8
      <4>10. (Ev(y5).static \/ kind = "static") \in BOOLEAN /\ kind \in CallKinds \cup {"create"}
        OBVIOUS
      <4> QED BY <1>10, <4>1, <4>2, <4>3, <4>6, <4>7, <4>9, <4>10 DEF Msg
    <3> HIDE DEF m
    <3>7. Ev(y5).len >= r /\ Ev(y5).mem \in Nat /\ Ev(y5).len \in Nat
      <4>1. Ev(y1).len \in Nat /\ Ev(x).len \in Nat /\ Ev(y5).len \in Nat /\ Ev(y5).mem \in Nat
        BY <1>4, <2>4, <3>2, FrameAt, FrameFields DEF Sound, Typed
      <4>2. /\ Ev(y2).len \in Nat /\ Ev(y3).len \in Nat /\ Ev(y4).len \in Nat
            /\ Ev(y2).len >= Ev(y1).len /\ Ev(y4).len >= Ev(y3).len /\ Ev(x).len >= Ev(y4).len
        BY <1>6, <1>8, <1>11, <2>3, FrameAt, FrameFields DEF Local, Works, Kept, Sound, Typed
      <4>3. Ev(y3).len >= Ev(y2).len
        BY <1>8, <4>2
      <4> QED BY <1>5, <2>5, <2>8, <4>1, <4>2, <4>3
    <3>5. CASE poor \/ Len(v.frames) > DepthLimit
      <4>1. new \in BOOLEAN
        OBVIOUS
      <4>2. PICK z : /\ Works(y5, z) /\ Fine(z) /\ Held(Ev(z)) = Held(Ev(y5)) + sub
                     /\ StateGasUsed(Ev(z)) = StateGasUsed(Ev(y5)) /\ Ev(z).used = Ev(y5).used
                     /\ GiveBack(Push(TakeReservoir(y5)), sub, Ev(y5).sleft, new)
                        = IF new THEN Credit(z, StateGas.account) ELSE z
        <5> HIDE DEF new
        <5> QED BY <1>10, <2>5, <2>8, <3>1, <4>1, ReturnIs
      <4>3. Works(v, z) /\ Sound(z)
        BY <1>1, <2>6, <4>2, WorksTrans DEF Works
      <4>4. Local(v, z, d)
        <5>1. Held(Ev(y4)) = Held(Ev(v)) /\ StateGasUsed(Ev(y4)) = StateGasUsed(Ev(v)) + d
          BY <1>12, <1>15 DEF Local
        <5>2. Held(Ev(z)) = Held(Ev(v)) /\ StateGasUsed(Ev(z)) = StateGasUsed(Ev(v)) + d
          BY <3>1, <4>2, <5>1
        <5>3. Ev(z).used >= Ev(v).used
          <6>1. Ev(y5).used >= Ev(x).used /\ Ev(y5).used \in Nat /\ Ev(x).used \in Nat
            BY <2>4, <2>5, FrameAt, FrameFields DEF Local, Sound, Typed
          <6> QED BY <1>1, <1>10, <2>2, <2>3, <4>2, <6>1
        <5> QED BY <4>3, <5>2, <5>3 DEF Local
      <4>5. Sane(z, d)
        <5> HIDE DEF d
        <5>1. Sane(z, 0 + d) /\ 0 + d = d
          BY <1>1, <1>2, <4>4, LocalSane
        <5> QED BY <5>1
      <4> DEFINE back == IF new THEN Credit(z, StateGas.account) ELSE z
      <4>6. Sane(back, 0)
        <5>1. CASE new
          <6>1. Local(z, back, -StateGas.account) /\ d = StateGas.account
            BY <1>2, <4>3, <5>1, CreditLocal
          <6> HIDE DEF back, d
          <6>2. Sane(back, d + (-StateGas.account))
            BY <1>2, <4>5, <6>1, LocalSane
          <6>3. d + (-StateGas.account) = 0
            BY <1>2, <6>1
          <6> QED BY <6>2, <6>3
        <5>2. CASE ~new
          BY <4>5, <5>2
        <5> QED BY <5>1, <5>2
      <4>7. Call(v, kind, to, value, req, r, poor) = back
        <5> HIDE DEF new
        <5> QED BY <1>0, <2>8, <3>3, <3>5, <4>2
      <4> HIDE DEF back
      <4> QED BY <4>6, <4>7, HandleAfter
    <3>6. CASE ~(poor \/ Len(v.frames) > DepthLimit)
      <4>1. Core(v) /\ Ev(v).code /\ Closed(v.world)
            /\ (Ev(v).self \in New => Nonce(Ev(v).self) \in v.world /\ Ev(v).self \in v.world)
        BY SelfIsAlive, NowClosed DEF Good
      <4>2. m.data[2] = 0 \/ Within(m.data, Ev(y5))
        BY <3>3, <3>7 DEF Within
      <4>3. (m.code /\ m.self \in New) => Nonce(m.self) \in y5.world
        <5>1. CASE kind \in {"call", "static"}
          <6>1. m.self = to
            BY <3>3, <5>1
          <6>2. to \in New => to \notin Old
            BY FramesAssumption
          <6> QED BY <2>6, <3>3, <4>1, <6>1, <6>2 DEF HasCode, Closed, Code, Auth
        <5>2. CASE kind \notin {"call", "static"}
          BY <2>6, <3>2, <3>3, <4>1, <5>2
        <5> QED BY <5>1, <5>2
      <4>4. Charged(m) = IF m.transfer /\ ~IsAlive(y5, m.self) THEN StateGas.account ELSE 0
        <5>1. new <=> (kind = "call" /\ value /\ ~IsAlive(y5, to))
          BY <1>9, <1>12, <2>6 DEF IsAlive
        <5>2. IsAlive(y5, Ev(y5).self)
          BY <2>6, <3>2, <4>1 DEF IsAlive
        <5>3. kind = "call" => m.self = to
          BY <3>3
        <5> HIDE DEF new
        <5> QED BY <3>3, <5>1, <5>2, <5>3 DEF Charged
      <4>5. m.transfer => ~m.static
        BY <1>4, <2>1, <3>2, <3>3
      <4>6. Asks(y5, m)
        <5>1. kind # "create"
          BY DEF CallKinds
        <5>2. m.ret <= Ev(y5).len
          BY <3>3, <3>7
        <5> QED BY <3>3, <4>2, <4>3, <4>4, <4>5, <5>1, <5>2 DEF Asks
      <4>7. Charged(m) = d
        BY <3>3 DEF Charged
      <4> HIDE DEF d
      <4>8. After(StartChild(TakeReservoir(y5), m))
        BY <1>13, <1>15, <2>6, <2>8, <3>1, <3>2, <3>3, <3>4, <4>6, <4>7, HandOver
      <4> QED BY <1>0, <2>8, <3>6, <4>8, HandleDone
    <3> QED BY <3>5, <3>6
  <2> QED BY <2>7, <2>8
<1> QED BY <1>14, <1>15
-----------------------------------------------------------------------------
(***************************************************************************)
(* The end of a frame.                                                     *)
(***************************************************************************)
\* a rollback to snapshot s: what was written before it stays
IsRestored(v, s, w) ==
  /\ Sound(w) /\ w.frames = v.frames /\ Ev(w) = Ev(v) /\ Top(w) = Top(v)
  /\ w.created = v.created /\ w.warm = v.warm
  /\ w.up = v.up /\ w.down = v.down /\ w.err = v.err /\ w.trap = v.trap /\ w.auth = v.auth
  /\ w.world = Past(v)[s + 1] /\ Len(w.journal) = s
  /\ \A k \in 1 .. s + 1 : Past(w)[k] = Past(v)[k]

\* restore undoes the journal down to the snapshot.
LEMMA RestoreIs ==
  ASSUME NEW v, Sound(v), NEW s \in Nat, s <= Len(v.journal)
  PROVE  IsRestored(v, s, Restore(v, s))
<1>1. v \in Machine /\ v.journal \in Seq(SUBSET Objects) /\ v.world \in SUBSET Objects /\ Len(v.journal) \in Nat
  BY MachineFields DEF Sound, Typed
<1>2. CASE s = Len(v.journal)
  <2>1. Restore(v, s) = v
    BY <1>1, <1>2 DEF Restore
  <2>2. Past(v)[s + 1] = v.world
    BY <1>1, <1>2 DEF Past
  <2> QED BY <1>2, <2>1, <2>2 DEF IsRestored
<1>3. CASE s # Len(v.journal)
  <2> DEFINE w == [v EXCEPT !.world = v.journal[s + 1], !.journal = SubSeq(v.journal, 1, s)]
             j == SubSeq(v.journal, 1, s)
  <2>1. s < Len(v.journal) /\ s + 1 \in 1 .. Len(v.journal)
    BY <1>1, <1>3
  <2>2. Restore(v, s) = w
    BY <1>1, <2>1 DEF Restore
  <2>3. /\ j \in Seq(SUBSET Objects) /\ Len(j) = s /\ v.journal[s + 1] \in SUBSET Objects
        /\ \A k \in 1 .. s : j[k] = v.journal[k]
    BY <1>1, <2>1
  <2> HIDE DEF j
  <2>4. /\ w \in Machine /\ w.frames = v.frames
        /\ w.created = v.created /\ w.warm = v.warm
        /\ w.up = v.up /\ w.down = v.down /\ w.err = v.err /\ w.trap = v.trap /\ w.auth = v.auth
        /\ w.world = v.journal[s + 1] /\ w.journal = j
    BY <1>1, <2>3 DEF Machine, j
  <2> HIDE DEF w
  <2>5. Top(w) = Top(v) /\ Ev(w) = Ev(v)
    BY <2>4 DEF Top, Ev
  <2>6. Sound(w)
    BY <2>4, <2>5 DEF Sound, Typed
  <2>7. Past(v)[s + 1] = v.journal[s + 1]
    BY <1>1, <2>1 DEF Past
  <2>8. \A k \in 1 .. s + 1 : Past(w)[k] = Past(v)[k]
    <3>1. Past(w)[s + 1] = v.journal[s + 1]
      BY <2>3, <2>4 DEF Past
    <3>2. ASSUME NEW k \in 1 .. s PROVE Past(w)[k] = Past(v)[k]
      BY <1>1, <2>1, <2>3, <2>4, <3>2 DEF Past
    <3> QED BY <2>7, <3>1, <3>2
  <2> QED BY <2>2, <2>3, <2>4, <2>5, <2>6, <2>7, <2>8 DEF IsRestored
<1> QED BY <1>2, <1>3

\* a shorter past is as good as the longer one
LEMMA PastPart ==
  ASSUME NEW v, Sound(v), History(v), NEW w, NEW s \in Nat, s <= Len(v.journal), IsRestored(v, s, w)
  PROVE  /\ History(w) /\ Times(w) = 1 .. s + 1 /\ Times(w) \subseteq Times(v)
         /\ \A k \in Times(w) : \A a : a \notin Past(v)[k] => a \notin Past(w)[k]
<1>1. Len(v.journal) \in Nat
  BY MachineFields DEF Sound, Typed
<1>2. Times(w) = 1 .. s + 1 /\ Times(w) \subseteq Times(v)
  BY <1>1 DEF IsRestored, Times
<1>3. \A k \in Times(w) : Past(w)[k] = Past(v)[k]
  BY <1>2 DEF IsRestored
<1> QED BY <1>2, <1>3 DEF History
-----------------------------------------------------------------------------
\* what a frame leaves behind: v as it is when the frame has come to its end, y
\* after frame_epilogue
Over(v, y) ==
  LET c == Ev(v)
      e == Ev(y)
      n == Top(v)
  IN  /\ Sound(y) /\ Fine(y) /\ Top(y) = n
      /\ \A i \in 1 .. n - 1 : y.frames[i] = v.frames[i]
      /\ Prefix(v.warm.addrs, y.warm.addrs) /\ Prefix(v.warm.keys, y.warm.keys) /\ y.auth = v.auth
      /\ e.gas = c.gas /\ e.rsv = c.rsv /\ e.charged = c.charged /\ e.was = c.was
      /\ e.addrs = c.addrs /\ e.keys = c.keys /\ e.mark = c.mark /\ e.memMark = c.memMark
      /\ e.csnap = c.csnap /\ Held(e) = Held(c)
      /\ e.err # "none" => /\ e.sleft = e.rsv /\ e.spilled = 0
                           /\ IF n > 1 THEN y.world = c.was.world ELSE CostOf(y.world) = y.auth.used
      /\ e.err = "none" => /\ Paid(y, n) = CostOf(y.world)
                           /\ \A a \in e.doomed : Nonce(a) \in y.world
      /\ History(y)
      /\ c.csnap <= Len(y.journal) /\ \A k \in 1 .. c.csnap + 1 : Past(y)[k] = Past(v)[k]
      /\ c.static => Len(y.journal) <= Len(v.journal)
      /\ \A i \in 1 .. n - 1 : v.frames[i].kind = "create" =>
           \A k \in Times(y) : Code(v.frames[i].self) \notin Past(y)[k]

\* a frame that is not a creation and succeeds leaves everything as it is
LEMMA StaysOver ==
  ASSUME NEW v, Good(v), Ev(v).err = "none"
  PROVE  Over(v, v)
<1>1. Core(v) /\ TopPaid(v) /\ Fixture(v)
  BY DEF Good, Core, Base
<1>2. /\ Sound(v) /\ v.trap = 0 /\ Top(v) \in 1 .. Top(v) /\ Ev(v) = v.frames[Top(v)] /\ Ev(v) \in FrameState
      /\ \A a \in Ev(v).doomed : Nonce(a) \in v.world
      /\ Top(v) \in Nat
  BY <1>1, TopFacts
<1>3. Fine(v)
  BY <1>2 DEF Good, Fine
<1>4. Ev(v).csnap <= Ev(v).snap /\ Ev(v).snap <= Len(v.journal) /\ Ev(v).csnap \in Nat /\ Ev(v).snap \in Nat
  BY <1>1, <1>2, FrameFields DEF Fixture, Snaps
<1>5. Len(v.journal) \in Nat
  BY <1>2, MachineFields DEF Sound, Typed
<1>6. \A i \in 1 .. Top(v) - 1 : v.frames[i].kind = "create" =>
           \A k \in Times(v) : Code(v.frames[i].self) \notin Past(v)[k]
  <2>1. \A i \in 1 .. Top(v) - 1 : i \in 1 .. Top(v)
    BY <1>2
  <2> QED BY <1>1, <2>1 DEF Fixture, Births
<1>7. Paid(v, Top(v)) = CostOf(v.world) /\ History(v)
  BY <1>1 DEF TopPaid, Fixture
<1>8. Prefix(v.warm.addrs, v.warm.addrs) /\ Prefix(v.warm.keys, v.warm.keys)
  BY <1>2, MachineFields, PrefixSame DEF Sound, Typed
<1> HIDE DEF Paid, CostOf, History
<1> QED BY <1>2, <1>3, <1>4, <1>5, <1>6, <1>7, <1>8 DEF Over

\* Rolling back twice is rolling back to the earlier point.
LEMMA RestoreTwice ==
  ASSUME NEW v, Sound(v), NEW s \in Nat, s <= Len(v.journal), NEW r \in Nat, r <= s,
         NEW w, IsRestored(v, s, w), NEW x, IsRestored(w, r, x)
  PROVE  IsRestored(v, r, x)
<1>1. \A k \in 1 .. r + 1 : k \in 1 .. s + 1
  OBVIOUS
<1>2. r + 1 \in 1 .. s + 1
  OBVIOUS
<1> QED BY <1>1, <1>2 DEF IsRestored

\* The empty world is free.
LEMMA NothingCosts ==
  CostOf({}) = 0
<1>1. \A K : Cardinality({} \cap K) = 0
  BY FS_EmptySet
<1> QED BY <1>1, CostIs, PricesAreNat

\* where the epilogue rolls a frame back to
Back(f) == IF f.kind = "create" THEN f.csnap ELSE f.snap

\* A frame rolled back there with its reservoir refilled is over.
LEMMA UndoneOver ==
  ASSUME NEW v, Core(v), NEW w, IsRestored(v, Back(Ev(v)), w), NEW g \in FrameState, NEW y, IsWith(w, g, y), Fine(y),
         Held(g) = Held(Ev(v)), g.err # "none", g.sleft = g.rsv, g.spilled = 0,
         g.gas = Ev(v).gas, g.rsv = Ev(v).rsv, g.charged = Ev(v).charged, g.was = Ev(v).was,
         g.addrs = Ev(v).addrs, g.keys = Ev(v).keys, g.mark = Ev(v).mark, g.memMark = Ev(v).memMark,
         g.csnap = Ev(v).csnap
  PROVE  Over(v, y)
<1> DEFINE c == Ev(v)
           s == Back(c)
           n == Top(v)
<1>1. Core(v) /\ Fixture(v) /\ FirstPaid(v)
  BY DEF Core, Base
<1>2. /\ Sound(v) /\ v.trap = 0 /\ n \in 1 .. n /\ c = v.frames[n] /\ c \in FrameState /\ n \in Nat \ {0}
  BY <1>1, TopFacts
<1>3. /\ c.csnap <= c.snap /\ c.snap <= Len(v.journal) /\ c.csnap \in Nat /\ c.snap \in Nat
      /\ Past(v)[c.csnap + 1] = c.was.world /\ (c.kind # "create" /\ n > 1 => c.snap = c.csnap)
  BY <1>1, <1>2, FrameFields DEF Fixture, Snaps
<1>4. Len(v.journal) \in Nat
  BY <1>2, MachineFields DEF Sound, Typed
<1>5. s \in Nat /\ c.csnap <= s /\ s <= Len(v.journal)
  BY <1>3, <1>4 DEF Back
<1>6. /\ Sound(w) /\ w.frames = v.frames /\ Top(w) = n /\ w.warm = v.warm /\ w.up = v.up /\ w.down = v.down
      /\ w.err = v.err /\ w.trap = v.trap /\ w.auth = v.auth
      /\ w.world = Past(v)[s + 1] /\ Len(w.journal) = s
      /\ \A k \in 1 .. s + 1 : Past(w)[k] = Past(v)[k]
  BY DEF IsRestored
<1>7. /\ History(w) /\ Times(w) \subseteq Times(v) /\ \A k \in Times(w) : \A a : a \notin Past(v)[k] => a \notin Past(w)[k]
  <2>1. History(v)
    BY <1>1 DEF Fixture
  <2> HIDE DEF s
  <2> QED BY <1>2, <1>5, <2>1, PastPart DEF s, c
<1> HIDE DEF n
<1>8. /\ y \in Machine /\ Ev(y) = g /\ Top(y) = n /\ \A i \in 1 .. n - 1 : y.frames[i] = w.frames[i]
      /\ y.world = w.world /\ y.journal = w.journal /\ y.warm = w.warm /\ y.up = w.up /\ y.down = w.down
      /\ y.err = w.err /\ y.trap = w.trap /\ y.auth = w.auth
  BY <1>6 DEF IsWith
<1>9. Sound(y)
  BY <1>2, <1>6, <1>8 DEF Sound, Typed
<1>10. Past(y) = Past(w) /\ Times(y) = Times(w) /\ History(y)
  BY <1>7, <1>8, SamePast
<1> HIDE DEF s, c
<1>11. IF n > 1 THEN y.world = c.was.world ELSE CostOf(y.world) = y.auth.used
  <2>1. CASE n > 1
    <3>1. s = c.csnap
      BY <1>3, <2>1 DEF s, Back
    <3> QED BY <1>3, <1>6, <1>8, <2>1, <3>1
  <2>2. CASE n = 1
    <3>1. v.frames[1] = c
      BY <1>2, <2>2
    <3>2. CASE c.kind = "create"
      <4>1. s = c.csnap /\ c.was.world = {} /\ v.auth.used = 0
        BY <1>1, <3>1, <3>2 DEF s, Back, FirstPaid
      <4>2. y.world = {}
        BY <1>3, <1>6, <1>8, <4>1
      <4> QED BY <1>6, <1>8, <2>2, <4>1, <4>2, NothingCosts
    <3>3. CASE c.kind # "create"
      <4>1. s = c.snap /\ CostOf(Past(v)[c.snap + 1]) = v.auth.used
        BY <1>1, <3>1, <3>3 DEF s, Back, FirstPaid
      <4> QED BY <1>6, <1>8, <2>2, <4>1
    <3> QED BY <3>2, <3>3
  <2> QED BY <1>2, <2>1, <2>2
<1>12. c.csnap <= Len(y.journal) /\ \A k \in 1 .. c.csnap + 1 : Past(y)[k] = Past(v)[k]
  <2>1. \A k \in 1 .. c.csnap + 1 : k \in 1 .. s + 1
    BY <1>3, <1>5
  <2> QED BY <1>5, <1>6, <1>8, <1>10, <2>1
<1>13. Len(y.journal) <= Len(v.journal)
  BY <1>5, <1>6, <1>8
<1>14. \A i \in 1 .. n - 1 : v.frames[i].kind = "create" =>
         \A k \in Times(y) : Code(v.frames[i].self) \notin Past(y)[k]
  <2>1. \A i \in 1 .. n - 1 : i \in 1 .. n
    BY <1>2
  <2>2. \A i \in 1 .. n : v.frames[i].kind = "create" =>
          \A k \in Times(v) : Code(v.frames[i].self) \notin Past(v)[k]
    BY <1>1 DEF Fixture, Births, n
  <2>3. \A k \in Times(w) : \A a : a \notin Past(v)[k] => a \notin Past(w)[k]
    BY <1>7
  <2>4. Times(w) \subseteq Times(v)
    BY <1>7
  <2> HIDE DEF Code
  <2>5. ASSUME NEW i \in 1 .. n - 1, v.frames[i].kind = "create", NEW k \in Times(y)
        PROVE  Code(v.frames[i].self) \notin Past(y)[k]
    <3>1. k \in Times(v) /\ k \in Times(w)
      BY <1>10, <2>4
    <3>2. Code(v.frames[i].self) \notin Past(v)[k]
      BY <2>1, <2>2, <2>5, <3>1
    <3> QED BY <1>10, <2>3, <3>1, <3>2
  <2> QED BY <2>5
<1>15. \A i \in 1 .. n - 1 : y.frames[i] = v.frames[i]
  BY <1>6, <1>8
<1>16. Prefix(v.warm.addrs, y.warm.addrs) /\ Prefix(v.warm.keys, y.warm.keys)
  BY <1>2, <1>6, <1>8, MachineFields, PrefixSame DEF Sound, Typed
<1> HIDE DEF CostOf, Paid, History
<1> QED BY <1>6, <1>8, <1>9, <1>10, <1>11, <1>12, <1>13, <1>14, <1>15, <1>16 DEF Over, c, n

\* what happens before in the current frame does not matter
LEMMA OverTrans ==
  ASSUME NEW v, Sound(v), NEW y, NEW d, Local(v, y, d), NEW u,
         u.frames = y.frames, u.world = y.world, u.journal = y.journal, u.warm = y.warm, u.auth = y.auth,
         NEW z, Over(u, z)
  PROVE  Over(v, z)
<1>1. /\ Works(v, y) /\ Held(Ev(y)) = Held(Ev(v)) /\ Kept(Ev(v), Ev(y)) /\ Sound(y) /\ Top(y) = Top(v)
      /\ \A i \in 1 .. Top(v) - 1 : y.frames[i] = v.frames[i]
      /\ y.world = v.world /\ y.journal = v.journal /\ y.auth = v.auth
      /\ Prefix(v.warm.addrs, y.warm.addrs) /\ Prefix(v.warm.keys, y.warm.keys)
  BY DEF Local, Works
<1>2. Top(u) = Top(v) /\ Ev(u) = Ev(y) /\ Past(u) = Past(v)
  BY <1>1 DEF Top, Ev, Past
<1>3. Prefix(v.warm.addrs, z.warm.addrs) /\ Prefix(v.warm.keys, z.warm.keys)
  <2>1. Prefix(y.warm.addrs, z.warm.addrs) /\ Prefix(y.warm.keys, z.warm.keys) /\ Sound(z)
    BY DEF Over
  <2>2. /\ v.warm.addrs \in Seq(Addr) /\ y.warm.addrs \in Seq(Addr) /\ z.warm.addrs \in Seq(Addr)
        /\ v.warm.keys \in Seq(Slot) /\ y.warm.keys \in Seq(Slot) /\ z.warm.keys \in Seq(Slot)
    BY <1>1, <2>1, MachineFields DEF Sound, Typed
  <2> QED BY <1>1, <2>1, <2>2, PrefixTrans
<1>4. /\ Ev(y).gas = Ev(v).gas /\ Ev(y).rsv = Ev(v).rsv /\ Ev(y).charged = Ev(v).charged /\ Ev(y).was = Ev(v).was
      /\ Ev(y).addrs = Ev(v).addrs /\ Ev(y).keys = Ev(v).keys /\ Ev(y).mark = Ev(v).mark
      /\ Ev(y).memMark = Ev(v).memMark /\ Ev(y).csnap = Ev(v).csnap /\ Ev(y).static = Ev(v).static
  BY <1>1 DEF Kept
<1>5. /\ Sound(z) /\ Fine(z) /\ Top(z) = Top(v)
      /\ \A i \in 1 .. Top(v) - 1 : z.frames[i] = v.frames[i]
      /\ z.auth = v.auth /\ Held(Ev(z)) = Held(Ev(v)) /\ History(z)
  BY <1>1, <1>2 DEF Over
<1>6. /\ Ev(z).gas = Ev(v).gas /\ Ev(z).rsv = Ev(v).rsv /\ Ev(z).charged = Ev(v).charged /\ Ev(z).was = Ev(v).was
      /\ Ev(z).addrs = Ev(v).addrs /\ Ev(z).keys = Ev(v).keys /\ Ev(z).mark = Ev(v).mark
      /\ Ev(z).memMark = Ev(v).memMark /\ Ev(z).csnap = Ev(v).csnap
  BY <1>2, <1>4 DEF Over
<1>7. /\ Ev(z).err # "none" =>
           /\ Ev(z).sleft = Ev(z).rsv /\ Ev(z).spilled = 0
           /\ IF Top(v) > 1 THEN z.world = Ev(v).was.world ELSE CostOf(z.world) = z.auth.used
      /\ Ev(z).err = "none" => Paid(z, Top(v)) = CostOf(z.world) /\ \A a \in Ev(z).doomed : Nonce(a) \in z.world
      /\ Ev(v).csnap <= Len(z.journal) /\ \A k \in 1 .. Ev(v).csnap + 1 : Past(z)[k] = Past(v)[k]
      /\ Ev(v).static => Len(z.journal) <= Len(v.journal)
  BY <1>1, <1>2, <1>4 DEF Over
<1>8. \A i \in 1 .. Top(v) - 1 : v.frames[i].kind = "create" =>
        \A k \in Times(z) : Code(v.frames[i].self) \notin Past(z)[k]
  BY <1>1, <1>2 DEF Over
<1> QED BY <1>3, <1>5, <1>6, <1>7, <1>8 DEF Over

\* A machine is its own replacement.
LEMMA SameTop ==
  ASSUME NEW v, Sound(v)
  PROVE  IsWith(v, Ev(v), v) /\ Ev(v) \in FrameState
<1>1. v \in Machine /\ Top(v) >= 1 /\ Ev(v) \in FrameState
  BY FrameAt DEF Sound, Typed
<1> QED BY <1>1, WithSame, WithTop

\* a frame that failed is rolled back; a creation to before its account, too
LEMMA FailedOver ==
  ASSUME NEW v, Good(v), Ev(v).err # "none", NEW bad
  PROVE  Over(v, Epilogue(v, bad))
<1> DEFINE c == Ev(v)
           w == Restore(v, c.snap)
           x == Restore(w, c.csnap)
           y == IF c.kind = "create" THEN x ELSE w
<1>1. Core(v) /\ v.err = "none" /\ Fixture(v)
  BY DEF Good, Core, Base
<1>2. /\ Sound(v) /\ v.trap = 0 /\ Top(v) \in 1 .. Top(v) /\ c = v.frames[Top(v)] /\ c \in FrameState
  BY <1>1, TopFacts
<1>3. c.csnap <= c.snap /\ c.snap <= Len(v.journal) /\ c.csnap \in Nat /\ c.snap \in Nat
  BY <1>1, <1>2, FrameFields DEF Fixture, Snaps
<1>4. c.sleft = c.rsv /\ c.spilled = 0
  BY <1>1, <1>2 DEF Core, Flow
<1>5. IsRestored(v, c.snap, w)
  BY <1>2, <1>3, RestoreIs
<1> HIDE DEF w
<1>6. Ev(w) = c /\ Sound(w) /\ Len(w.journal) = c.snap
  BY <1>5 DEF IsRestored
<1>7. Epilogue(v, bad) = y
  BY <1>6 DEF Epilogue, w
<1>8. IsRestored(w, c.csnap, x)
  BY <1>3, <1>6, RestoreIs
<1> HIDE DEF x
<1>9. IsRestored(v, c.csnap, x)
  <2> HIDE DEF c
  <2> QED BY <1>2, <1>3, <1>5, <1>8, RestoreTwice
<1>10. IsRestored(v, Back(c), y)
  BY <1>5, <1>9 DEF Back
<1> HIDE DEF y
<1>11. Sound(y) /\ Ev(y) = c /\ Fine(y)
  BY <1>1, <1>2, <1>10 DEF IsRestored, Fine
<1>12. IsWith(y, c, y)
  BY <1>11, SameTop
<1>13. Over(v, y)
  BY <1>1, <1>2, <1>4, <1>10, <1>11, <1>12, UndoneOver
<1> QED BY <1>7, <1>13

\* the code of what was created, paid for, does not trouble the frames below:
\* what they create is older
LEMMA CodeOver ==
  ASSUME NEW v, Core(v), Fine(v), Ev(v).kind = "create", Ev(v).err = "none",
         Paid(v, Top(v)) = CostOf(v.world) + StateGas.code
  PROVE  Over(v, Bring(v, {Code(Ev(v).self)}))
<1> DEFINE c == Ev(v)
           n == Top(v)
           j == Len(v.journal)
           w == v.world \cup {Code(c.self)}
           z == Write(v, w)
<1>1. Fixture(v) /\ Base(v)
  BY DEF Core, Base
<1>2. /\ Sound(v) /\ n \in 1 .. n /\ c = v.frames[n] /\ c \in FrameState /\ n \in Nat \ {0}
      /\ v.world \in SUBSET Objects /\ Closed(v.world) /\ (\A a \in c.doomed : Nonce(a) \in v.world)
      /\ j + 1 \in Times(v) /\ Past(v)[j + 1] = v.world /\ v.journal \in Seq(SUBSET Objects) /\ j \in Nat
      /\ \A i \in 1 .. n : v.frames[i] \in FrameState
  <2>1. /\ Sound(v) /\ n \in 1 .. n /\ c = v.frames[n] /\ c \in FrameState /\ n \in Nat \ {0}
        /\ v.world \in SUBSET Objects /\ Closed(v.world) /\ j + 1 \in Times(v) /\ Past(v)[j + 1] = v.world
        /\ \A i \in 1 .. n : v.frames[i] \in FrameState
    BY <1>1, BaseFacts
  <2>2. \A a \in c.doomed : Nonce(a) \in v.world
    BY TopFacts
  <2>3. v.journal \in Seq(SUBSET Objects) /\ j \in Nat
    BY <2>1, MachineFields DEF Sound, Typed
  <2> QED BY <2>1, <2>2, <2>3
<1>3. /\ c.self \in New /\ c.code /\ Nonce(c.self) \notin c.was.world /\ Code(c.self) \notin v.world
      /\ Nonce(c.self) \in v.world /\ Code(c.self) \in Objects /\ ~c.static
  <2>1. /\ c.self \in New /\ c.code /\ Nonce(c.self) \notin c.was.world /\ Code(c.self) \notin v.world
    BY <1>1, <1>2 DEF Fixture, Births
  <2>2. Nonce(c.self) \in v.world
    BY <2>1, SelfIsAlive
  <2>3. ~c.static
    BY <1>1, <1>2 DEF Fixture, Static
  <2> QED BY <2>1, <2>2, <2>3, ThingsApart
<1>4. /\ c.csnap <= c.snap /\ c.snap <= j /\ c.csnap \in Nat /\ c.snap \in Nat /\ Past(v)[c.csnap + 1] = c.was.world
  BY <1>1, <1>2, FrameFields DEF Fixture, Snaps
<1>5. Bring(v, {Code(c.self)}) = z
  <2>1. {Code(c.self)} \cap Objects = {Code(c.self)}
    BY <1>3
  <2> QED BY <2>1 DEF Bring
<1>6. w \in SUBSET Objects
  BY <1>2, <1>3
<1> HIDE DEF n, c
<1>7. /\ Sound(z) /\ z.frames = v.frames /\ Ev(z) = c /\ Top(z) = n
      /\ z.world = w /\ z.journal = Append(v.journal, v.world) /\ z.warm = v.warm
      /\ z.err = v.err /\ z.trap = v.trap /\ z.auth = v.auth
  <2> HIDE DEF w
  <2> QED BY <1>2, <1>6, WriteIs DEF c, n
<1> HIDE DEF z
<1>8. /\ Len(z.journal) = j + 1 /\ Past(z)[j + 2] = w /\ Times(z) = 1 .. j + 2 /\ Times(v) = 1 .. j + 1
      /\ \A k \in 1 .. j + 1 : Past(z)[k] = Past(v)[k]
  <2> HIDE DEF w
  <2> QED BY <1>2, <1>7 DEF Past, Times
<1>9. Closed(w) /\ \A a \in New : Nonce(a) \in v.world => Nonce(a) \in w
  <2>1. ASSUME NEW a \in New
        PROVE  /\ (Nonce(a) \in w <=> Nonce(a) \in v.world)
               /\ (a \in w <=> a \in v.world)
               /\ (Auth(a) \in w <=> Auth(a) \in v.world)
               /\ (Code(a) \in w => Code(a) \in v.world \/ a = c.self)
    <3>1. a # Code(c.self) /\ Nonce(a) # Code(c.self) /\ Auth(a) # Code(c.self)
      BY <1>3, ThingsApart
    <3>2. Code(a) = Code(c.self) => a = c.self
      BY ThingsApart
    <3> QED BY <3>1, <3>2
  <2> HIDE DEF w
  <2>2. \A a \in New : /\ (Nonce(a) \in v.world => a \in v.world)
                       /\ (Code(a) \in v.world \/ Auth(a) \in v.world => Nonce(a) \in v.world)
    BY <1>2 DEF Closed
  <2>3. \A a \in New : /\ (Nonce(a) \in w => a \in w)
                       /\ (Code(a) \in w \/ Auth(a) \in w => Nonce(a) \in w)
    BY <1>3, <2>1, <2>2
  <2> QED BY <2>1, <2>3 DEF Closed
<1> HIDE DEF j
<1>10. History(v) /\ j \in Nat
  BY <1>1, <1>2 DEF Fixture
<1>11. History(z)
  <2> HIDE DEF w
  <2>1. \A k \in Times(z) : k \in Times(v) \/ k = j + 2
    BY <1>8, <1>10
  <2>2. ASSUME NEW k \in Times(z) PROVE Closed(Past(z)[k])
    BY <1>8, <1>9, <1>10, <2>1 DEF History
  <2>3. ASSUME NEW a \in New, NEW k \in Times(z), NEW l \in Times(z), k <= l, Nonce(a) \in Past(z)[k]
        PROVE  Nonce(a) \in Past(z)[l]
    <3>1. CASE l \in Times(v)
      <4>1. k \in Times(v)
        BY <1>8, <1>10, <2>3, <3>1
      <4> QED BY <1>8, <1>10, <2>3, <3>1, <4>1 DEF History
    <3>2. CASE l = j + 2
      <4>1. CASE k = j + 2
        BY <2>3, <3>2, <4>1
      <4>2. CASE k \in Times(v)
        <5>1. Nonce(a) \in Past(v)[k] /\ k <= j + 1 /\ j + 1 \in Times(v)
          BY <1>8, <1>10, <2>3, <4>2
        <5>2. Nonce(a) \in v.world
          BY <1>2, <1>10, <4>2, <5>1 DEF History, j
        <5> QED BY <1>8, <1>9, <3>2, <5>2
      <4> QED BY <2>1, <4>1, <4>2
    <3> QED BY <2>1, <3>1, <3>2
  <2> QED BY <2>2, <2>3 DEF History
<1>12. CostOf(w) = CostOf(v.world) + StateGas.code
  BY <1>2, <1>3, CostOfMore, PricesOf
<1>13. Paid(z, n) = CostOf(z.world)
  <2>1. Paid(z, n) = Paid(v, n)
    BY <1>7 DEF Paid, Own
  <2> QED BY <1>7, <1>12, <2>1 DEF n
<1>14. ASSUME NEW i \in 1 .. n - 1, v.frames[i].kind = "create", NEW k \in Times(z)
       PROVE  Code(v.frames[i].self) \notin Past(z)[k]
  <2>1. i \in 1 .. n /\ n \in i + 1 .. n /\ n \in Nat
    BY <1>2
  <2>2. /\ v.frames[i].self \in New /\ v.frames[i].code /\ Nonce(v.frames[i].self) \in Past(v)[v.frames[i].snap + 1]
        /\ \A l \in Times(v) : Code(v.frames[i].self) \notin Past(v)[l]
    BY <1>1, <1>14, <2>1 DEF Fixture, Births, n
  <2>3. v.frames[i].snap <= c.csnap /\ v.frames[i].snap \in Nat
    <3>1. v.frames[i].snap <= v.frames[n].csnap
      BY <1>1, <2>1 DEF Fixture, Snaps, n
    <3>2. v.frames[i] \in FrameState
      BY <1>2, <2>1
    <3> QED BY <1>2, <3>1, <3>2, FrameFields
  <2>4. v.frames[i].snap + 1 \in Times(v) /\ c.csnap + 1 \in Times(v) /\ v.frames[i].snap + 1 <= c.csnap + 1
    <3>1. \A p, q, r \in Nat : p <= q /\ q <= r /\ r <= j =>
            p + 1 \in 1 .. j + 1 /\ q + 1 \in 1 .. j + 1 /\ p + 1 <= q + 1
      BY <1>10
    <3> QED BY <1>4, <1>8, <2>3, <3>1
  <2>5. Nonce(v.frames[i].self) \in c.was.world
    BY <1>4, <1>10, <2>2, <2>4 DEF History
  <2>6. v.frames[i].self # c.self
    BY <1>3, <2>5
  <2>7. Code(v.frames[i].self) # Code(c.self)
    BY <2>6, ThingsApart
  <2>8. Code(v.frames[i].self) \notin v.world
    BY <1>2, <2>2
  <2>9. Code(v.frames[i].self) \notin w
    BY <2>7, <2>8
  <2> HIDE DEF w
  <2>10. k \in Times(v) \/ k = j + 2
    BY <1>8, <1>10
  <2> QED BY <1>8, <2>2, <2>9, <2>10
<1>15. c.csnap <= Len(z.journal) /\ \A k \in 1 .. c.csnap + 1 : Past(z)[k] = Past(v)[k]
  <2>1. \A k \in 1 .. c.csnap + 1 : k \in 1 .. j + 1
    BY <1>4, <1>10
  <2> QED BY <1>4, <1>8, <1>10, <2>1
<1>16. Prefix(v.warm.addrs, v.warm.addrs) /\ Prefix(v.warm.keys, v.warm.keys)
  BY <1>2, MachineFields, PrefixSame DEF Sound, Typed
<1>17. Fine(z) /\ c.err = "none" /\ \A a \in c.doomed : Nonce(a) \in z.world
  BY <1>2, <1>7 DEF Fine, c
<1> HIDE DEF w, CostOf, Paid, History
<1> QED BY <1>3, <1>5, <1>7, <1>11, <1>13, <1>14, <1>15, <1>16, <1>17 DEF Over, n, c

\* gas is charged without touching the arena
LEMMA ChargesNeverTrap ==
  ASSUME NEW v, Sound(v), v.trap = 0
  PROVE  /\ \A ok \in BOOLEAN : Require(v, ok).trap = 0
         /\ \A a \in Nat : Charge(v, a).trap = 0 /\ ChargeState(v, a).trap = 0
<1>1. v \in Machine
  BY DEF Sound, Typed
<1>2. \A e : Throw(v, e).trap = 0
  BY <1>1 DEF Throw, Machine
<1>3. \A f : With(v, f).trap = 0
  BY <1>1 DEF With, Machine
<1>4. \A ok \in BOOLEAN : Require(v, ok).trap = 0
  BY <1>2 DEF Require
<1>5. ASSUME NEW a \in Nat PROVE Charge(v, a).trap = 0 /\ ChargeState(v, a).trap = 0
  <2> HIDE DEF Throw, With, Ev, Fine
  <2>1. Charge(v, a).trap = 0
    BY <1>2, <1>3 DEF Charge
  <2>2. ChargeState(v, a).trap = 0
    BY <1>2, <1>3 DEF ChargeState
  <2> QED BY <2>1, <2>2
<1> QED BY <1>4, <1>5

\* A creation that fails at its end loses its gas, as after a halt.
LEMMA HaltedIs ==
  ASSUME NEW v, Sound(v)
  PROVE  /\ Halted(Refilled(Ev(v))) \in FrameState
         /\ FrameHalt(Refill(v)) = With(v, Halted(Refilled(Ev(v))))
<1> DEFINE f == Ev(v)
           r == Refilled(f)
<1>1. v \in Machine /\ Top(v) >= 1 /\ f \in FrameState
  BY FrameAt DEF Sound, Typed
<1>2. r \in FrameState /\ Halted(r) \in FrameState
  BY <1>1, RefilledIs
<1>3. Refill(v) = With(v, r)
  BY DEF Refill, Refilled
<1> HIDE DEF r
<1>4. Ev(With(v, r)) = r
  BY <1>1, EvWith
<1>5. FrameHalt(With(v, r)) = With(With(v, r), Halted(r))
  BY <1>4 DEF FrameHalt, Halted
<1>6. With(With(v, r), Halted(r)) = With(v, Halted(r))
  BY <1>1, <1>2, WithWith
<1> QED BY <1>2, <1>3, <1>5, <1>6 DEF r

\* What a halted frame keeps.
LEMMA HaltedKeeps ==
  ASSUME NEW f \in FrameState
  PROVE  LET g == Halted(Refilled(f)) IN
           /\ Held(g) = Held(f) /\ g.err # "none" /\ g.sleft = g.rsv /\ g.spilled = 0
           /\ g.gas = f.gas /\ g.rsv = f.rsv /\ g.charged = f.charged /\ g.was = f.was
           /\ g.addrs = f.addrs /\ g.keys = f.keys /\ g.mark = f.mark /\ g.memMark = f.memMark
           /\ g.csnap = f.csnap
<1> DEFINE r == Refilled(f)
           g == Halted(r)
<1>1. /\ f.left \in Nat /\ f.spilled \in Nat /\ f.rsv \in Nat /\ f.used \in Nat
      /\ r \in FrameState /\ g \in FrameState
  BY FrameFields, RefilledIs
<1>2. /\ r.left = f.left + f.spilled /\ r.sleft = f.rsv /\ r.spilled = 0 /\ r.used = f.used
      /\ r.gas = f.gas /\ r.rsv = f.rsv /\ r.charged = f.charged /\ r.was = f.was
      /\ r.addrs = f.addrs /\ r.keys = f.keys /\ r.mark = f.mark /\ r.memMark = f.memMark
      /\ r.csnap = f.csnap
  BY DEF Refilled, FrameState
<1> HIDE DEF r
<1>3. /\ g.left = 0 /\ g.sleft = r.sleft /\ g.spilled = r.spilled /\ g.used = r.used + r.left
      /\ g.gas = r.gas /\ g.rsv = r.rsv /\ g.charged = r.charged /\ g.was = r.was
      /\ g.addrs = r.addrs /\ g.keys = r.keys /\ g.mark = r.mark /\ g.memMark = r.memMark
      /\ g.csnap = r.csnap /\ g.err = "halt"
  BY <1>1 DEF Halted, FrameState
<1> HIDE DEF g
<1>4. Held(g) = Held(f)
  BY <1>1, <1>2, <1>3 DEF Held
<1> QED BY <1>2, <1>3, <1>4 DEF g, r

\* the code a creation returns is paid for and kept, or the creation fails and
\* is rolled back
LEMMA CreatedOver ==
  ASSUME NEW v, Good(v), Ev(v).err = "none", Ev(v).kind = "create", NEW bad \in BOOLEAN
  PROVE  Over(v, CreateFinish(v, bad))
<1> DEFINE a  == Ev(v).out[2]
           p  == IF a > 0 THEN StateGas.code ELSE 0
           r  == Require(v, ~bad)
           ch == Charge(r, a)
           y  == ChargeState(ch, p)
           z  == IF a > 0 THEN Bring(y, {<<Ev(v).self, "code">>}) ELSE y
           u  == [z EXCEPT !.err = "none"]
           x  == Restore(u, Ev(v).csnap)
<1>0. CreateFinish(v, bad) = IF z.err = "none" THEN z ELSE FrameHalt(Refill(x))
  BY DEF CreateFinish
<1>1. Sane(v, 0) /\ Sound(v) /\ Fine(v) /\ v.trap = 0
  BY GoodSane DEF Fine
<1>2. a \in Nat /\ p \in Nat /\ p \in Int /\ StateGas.code \in Nat
  <2>1. Ev(v).out \in Nat \X Nat
    BY <1>1, FrameAt, FrameFields DEF Sound, Typed
  <2> QED BY <2>1, PricesAreNat
<1> HIDE DEF a
<1>3. Local(v, r, 0) /\ Sound(r) /\ r.trap = 0
  <2>1. (~bad) \in BOOLEAN
    OBVIOUS
  <2> QED BY <1>1, <2>1, RequireLocal, LocalSound, ChargesNeverTrap
<1> HIDE DEF r
<1>4. Local(r, ch, 0) /\ Sound(ch) /\ ch.trap = 0
  BY <1>2, <1>3, ChargeLocal, LocalSound, ChargesNeverTrap
<1> HIDE DEF ch, p
<1>5. Local(ch, y, p) /\ Sound(y) /\ y.trap = 0
  BY <1>2, <1>4, ChargeStateLocal, LocalSound, ChargesNeverTrap
<1> HIDE DEF y
<1>6. Local(v, y, p)
  <2>1. Local(v, ch, 0)
    BY <1>1, <1>3, <1>4, LocalChain
  <2>2. Local(v, y, 0 + p)
    BY <1>1, <1>2, <1>5, <2>1, LocalTrans, 0 \in Int
  <2> QED BY <1>2, <2>2
<1>7. Sane(y, p)
  <2>1. Sane(y, 0 + p)
    BY <1>1, <1>2, <1>6, LocalSane
  <2> QED BY <1>2, <2>1
<1>8. Core(y) /\ Ev(y).err = "none" /\ Ev(y).kind = "create" /\ Ev(y).self = Ev(v).self /\ Ev(y).csnap = Ev(v).csnap
  BY <1>5, <1>6, <1>7 DEF Sane, Local, Works, Kept
<1>9. CASE Fine(y)
  <2>1. Paid(y, Top(y)) = CostOf(y.world) + p
    BY <1>7, <1>9 DEF Sane
  <2>2. Over(y, z)
    <3>1. CASE a > 0
      <4>1. p = StateGas.code /\ z = Bring(y, {Code(Ev(y).self)})
        BY <1>8, <3>1 DEF p, Code
      <4> QED BY <1>8, <1>9, <2>1, <4>1, CodeOver
    <3>2. CASE ~(a > 0)
      <4>1. p = 0 /\ z = y
        BY <3>2 DEF p
      <4>2. CostOf(y.world) \in Nat
        BY <1>5, CostNat, MachineFields DEF Sound, Typed
      <4>3. Good(y)
        <5> HIDE DEF CostOf, Paid
        <5> QED BY <1>8, <1>9, <2>1, <4>1, <4>2 DEF Good, TopPaid, Fine
      <4> QED BY <1>8, <4>1, <4>3, StaysOver
    <3> QED BY <3>1, <3>2
  <2> HIDE DEF z
  <2>3. Over(v, z)
    BY <1>1, <1>6, <2>2, OverTrans
  <2>4. z.err = "none"
    BY <2>2 DEF Over, Fine
  <2> QED BY <1>0, <2>3, <2>4
<1>10. CASE ~Fine(y)
  <2>1. z = y
    BY <1>10 DEF Bring, Write
  <2>2. y.err # "none" /\ y \in Machine
    BY <1>5, <1>10 DEF Fine, Sound, Typed
  <2>3. Core(u) /\ Ev(u) = Ev(y)
    BY <1>8, <2>1, ErrCore
  <2>4. /\ u.frames = y.frames /\ u.world = y.world /\ u.journal = y.journal /\ u.warm = y.warm
        /\ u.auth = y.auth /\ u.err = "none"
    BY <2>1, <2>2, ErrIs
  <2> HIDE DEF u
  <2>5. Sound(u) /\ u.trap = 0 /\ Ev(u) \in FrameState
    BY <2>3, TopFacts
  <2>6. Ev(u).csnap <= Len(u.journal) /\ Ev(u).csnap \in Nat /\ Len(u.journal) \in Nat
    <3>1. Ev(u).csnap <= Ev(u).snap /\ Ev(u).snap <= Len(u.journal)
      BY <2>3, TopFacts DEF Core, Base, Fixture, Snaps
    <3> QED BY <2>5, <3>1, FrameFields, MachineFields DEF Sound, Typed
  <2>7. IsRestored(u, Back(Ev(u)), x) /\ Back(Ev(u)) = Ev(u).csnap
    <3>1. Back(Ev(u)) = Ev(u).csnap /\ x = Restore(u, Ev(u).csnap)
      BY <1>8, <2>3 DEF Back
    <3> HIDE DEF x
    <3> QED BY <2>5, <2>6, <3>1, RestoreIs
  <2> HIDE DEF x
  <2>8. Sound(x) /\ Ev(x) = Ev(u) /\ x.err = "none" /\ x.trap = 0
    BY <2>4, <2>5, <2>7 DEF IsRestored
  <2> DEFINE g == Halted(Refilled(Ev(u)))
             q == With(x, g)
  <2>9. g \in FrameState /\ FrameHalt(Refill(x)) = q
    BY <2>8, HaltedIs
  <2>10. /\ Held(g) = Held(Ev(u)) /\ g.err # "none" /\ g.sleft = g.rsv /\ g.spilled = 0
         /\ g.gas = Ev(u).gas /\ g.rsv = Ev(u).rsv /\ g.charged = Ev(u).charged /\ g.was = Ev(u).was
         /\ g.addrs = Ev(u).addrs /\ g.keys = Ev(u).keys /\ g.mark = Ev(u).mark /\ g.memMark = Ev(u).memMark
         /\ g.csnap = Ev(u).csnap
    BY <2>5, HaltedKeeps
  <2> HIDE DEF g
  <2>11. IsWith(x, g, q) /\ Fine(q)
    <3>1. x \in Machine /\ Top(x) >= 1
      BY <2>8 DEF Sound, Typed
    <3>2. IsWith(x, g, q)
      BY <2>9, <3>1, WithTop
    <3> QED BY <2>8, <3>2 DEF IsWith, Fine
  <2> HIDE DEF q
  <2>12. Over(u, q)
    BY <2>3, <2>7, <2>9, <2>10, <2>11, UndoneOver
  <2>13. Over(v, q)
    BY <1>1, <1>6, <2>4, <2>12, OverTrans
  <2> QED BY <1>0, <2>1, <2>2, <2>9, <2>13
<1> QED BY <1>9, <1>10

\* frame_epilogue in each of its three cases: failed, created, called.
LEMMA EpilogueOver ==
  ASSUME NEW v, Good(v), NEW bad \in BOOLEAN
  PROVE  Over(v, Epilogue(v, bad))
<1>1. CASE Ev(v).err # "none"
  BY <1>1, FailedOver
<1>2. CASE Ev(v).err = "none" /\ Ev(v).kind # "create"
  <2>1. Epilogue(v, bad) = v
    BY <1>2 DEF Epilogue
  <2> QED BY <1>2, <2>1, StaysOver
<1>3. CASE Ev(v).err = "none" /\ Ev(v).kind = "create"
  <2>1. Epilogue(v, bad) = CreateFinish(v, bad)
    BY <1>3 DEF Epilogue
  <2> QED BY <1>3, <2>1, CreatedOver
<1> QED BY <1>1, <1>2, <1>3
=============================================================================
