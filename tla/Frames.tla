------------------------------- MODULE Frames -------------------------------
(***************************************************************************)
(* The frame driver of src/guest/src/evm_calls.pnk on one transaction: the *)
(* stack of call frames that run_frames executes, the gas each frame holds *)
(* in its two dimensions, the sets of accessed addresses and slots, and    *)
(* the two-ended arena of lib/mem.pnk the frames live in.                  *)
(*                                                                         *)
(* vm is the whole machine, so that a handler is the composition of the    *)
(* functions it calls.  A call made after a thrown EvmErr or a trap is not *)
(* made: every operator leaves a vm that is not Fine alone.                *)
(*                                                                         *)
(* The state is reduced to what state gas is paid for: vm.world is the set *)
(* of things that exist and did not before the transaction.  The journal   *)
(* of StateTracker, which rolls back exactly, is the sequence of worlds    *)
(* before each write.  Memory is counted in cells, addressed from          *)
(* SCRATCH_BASE: frame memory grows up from 0, scratch down from the end.  *)
(* Opcodes that only compute are stood for by a push, a pop and an         *)
(* extension of memory.                                                    *)
(***************************************************************************)
EXTENDS Integers, Sequences, FiniteSets

CONSTANTS
  Old,          \* accounts with code before the transaction
  New,          \* addresses with no account before the transaction
  Identity,     \* the address of the identity precompile
  Slot,         \* storage slots, all zero before the transaction
  Gas,          \* prices: base, memory, warm, cold, value, stipend, create, write, account
  StateGas,     \* prices of an account, slot, code, auth
  Fraction,     \* a call leaves its caller one part in so many (64)
  DepthLimit,   \* STACK_DEPTH_LIMIT, for frames
  StackInit,    \* STACK_INIT_CAP
  StackLimit,   \* STACK_DEPTH_LIMIT, for operands
  CallArgs,     \* how many operands a call pops, at least two
  ArenaSize,    \* SCRATCH_END - SCRATCH_BASE
  FrameSize,    \* scratch taken by a frame besides its operand stack
  MsgSize,      \* scratch taken by the message of a child
  MemInit,      \* initial capacity of a frame's memory (1024)
  TxGas,        \* regular gas of the transaction
  TxReservoir,  \* its state gas reservoir
  Requests,     \* the gas a call may ask for
  Ranges        \* how much memory an instruction may touch

VARIABLES vm, phase

vars == <<vm, phase>>

Addr    == Old \cup New \cup {Identity}
Objects == New \cup Slot \cup New \X {"nonce", "code", "auth"}

ASSUME FramesAssumption ==
  /\ New \cap (Old \cup {Identity}) = {} /\ IsFiniteSet(New) /\ IsFiniteSet(Slot)
  /\ Addr \cap Slot = {} /\ (Addr \cup Slot) \cap (New \X {"nonce", "code", "auth"}) = {}
  /\ Gas \in [{"base", "warm", "cold", "value", "stipend", "create", "write", "account", "memory"} -> Nat]
  /\ StateGas \in [{"account", "slot", "code", "auth"} -> Nat]
  /\ Gas.stipend < Gas.value
  /\ {Fraction, StackInit, MemInit, CallArgs} \subseteq Nat \ {0} /\ CallArgs <= StackLimit
  /\ {DepthLimit, StackLimit, ArenaSize, FrameSize, MsgSize, TxGas, TxReservoir} \subseteq Nat
  /\ Requests \subseteq Nat /\ Ranges \subseteq Nat
-----------------------------------------------------------------------------
Last(s) == s[Len(s)]
Least(a, b) == IF a <= b THEN a ELSE b
Greatest(a, b) == IF a <= b THEN b ELSE a

\* ev, and the machine with ev changed
Ev(v)      == Last(v.frames)
With(v, f) == [v EXCEPT !.frames[Len(v.frames)] = f]
Fine(v)    == v.err = "none" /\ v.trap = 0

Throw(v, e) == IF Fine(v) THEN [v EXCEPT !.err = e] ELSE v
Require(v, ok) == IF ok THEN v ELSE Throw(v, "halt")
-----------------------------------------------------------------------------
(***************************************************************************)
(* lib/mem.pnk: the arena.                                                 *)
(***************************************************************************)
FrameMemAlloc(v, n) ==
  IF ~Fine(v) THEN v
  ELSE IF n > v.down - v.up THEN [v EXCEPT !.trap = 6] ELSE [v EXCEPT !.up = @ + n]

ScratchAlloc(v, n) ==
  IF ~Fine(v) THEN v
  ELSE IF n > v.down - v.up THEN [v EXCEPT !.trap = 7] ELSE [v EXCEPT !.down = @ - n]

\* a change for the worse: the memory of a finished frame stays allocated
ReleaseScratchOnly(v, f) == IF Fine(v) THEN [v EXCEPT !.down = f.mark] ELSE v

Release(v, f) == IF Fine(v) THEN [v EXCEPT !.down = f.mark, !.up = f.memMark] ELSE v
-----------------------------------------------------------------------------
(***************************************************************************)
(* evm.pnk: gas, operands and memory of the current frame.                 *)
(***************************************************************************)
Charge(v, a) ==
  LET f == Ev(v) IN
    IF ~Fine(v) THEN v
    ELSE IF f.left < a THEN Throw(v, "halt")
    ELSE With(v, [f EXCEPT !.left = @ - a, !.used = @ + a])

\* a change for the worse: the charge is not limited to the gas that is left
ChargeStateUnchecked(v, a) ==
  LET f   == Ev(v)
      rem == Greatest(a - f.sleft, 0)
  IN  IF ~Fine(v) THEN v
      ELSE With(v, [f EXCEPT !.sleft = @ - (a - rem), !.left = @ - rem, !.spilled = @ + rem])

\* the reservoir first; what it lacks is spilled from the regular gas
ChargeState(v, a) ==
  LET f   == Ev(v)
      rem == Greatest(a - f.sleft, 0)
  IN  IF ~Fine(v) THEN v
      ELSE IF f.left < rem THEN Throw(v, "halt")
      ELSE With(v, [f EXCEPT !.sleft = @ - (a - rem), !.left = @ - rem, !.spilled = @ + rem])

Credit(v, a) ==
  LET f == Ev(v)
      n == Least(a, f.spilled)
  IN  IF ~Fine(v) THEN v
      ELSE With(v, [f EXCEPT !.left = @ + n, !.spilled = @ - n, !.sleft = @ + (a - n)])

StateGasUsed(f) == f.rsv - f.sleft + f.spilled

Refill(v) ==
  With(v, [Ev(v) EXCEPT !.left = @ + Ev(v).spilled, !.sleft = Ev(v).rsv, !.spilled = 0])

Push(v) ==
  LET f    == Ev(v)
      ncap == Least(2 * f.scap, StackLimit)
      y    == ScratchAlloc(v, ncap)
  IN  IF ~Fine(v) THEN v
      ELSE IF f.n < f.scap THEN With(v, [f EXCEPT !.n = @ + 1])
      ELSE IF f.scap >= StackLimit THEN Throw(v, "halt")
      ELSE With(y, [f EXCEPT !.stk = y.down, !.scap = ncap, !.n = @ + 1])

Pop(v, k) ==
  IF ~Fine(v) THEN v
  ELSE IF Ev(v).n < k THEN Throw(v, "halt")
  ELSE With(v, [Ev(v) EXCEPT !.n = @ - k])

\* extend_memory_cost: how far a range of r cells reaches beyond the memory
Beyond(v, r)  == Greatest(r - Ev(v).len, 0)
ExtendCost(n) == n * Gas.memory

\* the capacity for nlen cells: twice the old one, or more if that is too little
NewCap(f, nlen) ==
  IF nlen <= f.cap THEN f.cap
  ELSE IF nlen <= 2 * f.cap THEN 2 * f.cap ELSE nlen + MemInit

\* a change for the worse: a call extends the memory by nothing
ExtendNothing(v, n) == v

\* extend_memory grows in place: nothing looks at where frame_mem_alloc put it
Extend(v, n) ==
  LET f    == Ev(v)
      nlen == f.len + n
      ncap == NewCap(f, nlen)
      y    == FrameMemAlloc(v, ncap - f.cap)
  IN  IF n = 0 \/ ~Fine(y) THEN y ELSE With(y, [f EXCEPT !.cap = ncap, !.len = nlen])

Elems(s) == {s[i] : i \in DOMAIN s}

\* the price of an access to x, one of the addrs or one of the keys
AccessCost(v, set, x) == IF x \in Elems(v.warm[set]) THEN Gas.warm ELSE Gas.cold
Warm(v, set, x) ==
  IF ~Fine(v) \/ x \in Elems(v.warm[set]) THEN v
  ELSE [v EXCEPT !.warm[set] = Append(@, x)]
Access(v, set, x, more) == Warm(Charge(v, AccessCost(v, set, x) + more), set, x)
-----------------------------------------------------------------------------
(***************************************************************************)
(* state.pnk, as far as the frames use it.                                 *)
(***************************************************************************)
Write(v, w) ==
  IF Fine(v) THEN [v EXCEPT !.journal = Append(@, v.world), !.world = w] ELSE v

Snapshot(v) == Len(v.journal)

Restore(v, snap) ==
  IF snap >= Len(v.journal) THEN v
  ELSE [v EXCEPT !.world = v.journal[snap + 1], !.journal = SubSeq(@, 1, snap)]

IsAlive(v, a)    == a \notin New \/ a \in v.world
Deployable(v, a) == a \in New /\ <<a, "nonce">> \notin v.world
HasCode(v, a)    == a \in Old \/ <<a, "code">> \in v.world \/ <<a, "auth">> \in v.world

Bring(v, things) == Write(v, v.world \cup (things \cap Objects))
-----------------------------------------------------------------------------
(***************************************************************************)
(* evm_calls.pnk: the life of a frame.                                     *)
(***************************************************************************)
FrameHalt(v) == With(v, [Ev(v) EXCEPT !.used = @ + Ev(v).left, !.left = 0, !.err = "halt",
                                      !.out = <<0, 0>>])

\* a change for the worse: a frame that reverts is not stopped
HandleRunning(v) ==
  LET y == Refill([v EXCEPT !.err = "none"])
      z == IF v.err = "revert" THEN With(y, [Ev(y) EXCEPT !.err = "revert"]) ELSE FrameHalt(y)
  IN  IF v.err = "none" THEN v ELSE z

\* the exception handler of a frame; without an exception nothing happens
Handle(v) ==
  LET y == Refill([v EXCEPT !.err = "none"])
      z == IF v.err = "revert" THEN With(y, [Ev(y) EXCEPT !.err = "revert"]) ELSE FrameHalt(y)
  IN  IF v.err = "none" THEN v ELSE With(z, [Ev(z) EXCEPT !.running = FALSE])

\* frame_new and frame_open for a message m; the marks were taken at mark and up
Open(v, m) ==
  LET y1 == ScratchAlloc(v, StackInit)
      y2 == FrameMemAlloc(y1, MemInit)
      y3 == ScratchAlloc(y2, FrameSize)
  IN  IF ~Fine(y3) THEN y3
      ELSE [y3 EXCEPT !.frames = Append(@,
             [kind |-> m.kind, self |-> m.self, static |-> m.static, code |-> m.code,
              gas |-> m.gas, rsv |-> m.rsv,
              left |-> m.gas, sleft |-> m.rsv, spilled |-> 0, used |-> 0,
              running |-> TRUE, err |-> "none", out |-> <<0, 0>>,
              snap |-> Snapshot(v), csnap |-> m.csnap, charged |-> m.charged,
              addrs |-> Len(v.warm.addrs), keys |-> Len(v.warm.keys),
              stk |-> y1.down, scap |-> StackInit, n |-> 0,
              mem |-> y1.up, cap |-> MemInit, len |-> 0,
              mark |-> m.mark, memMark |-> m.memMark, data |-> m.data, ret |-> m.ret,
              logs |-> 0, refund |-> 0, doomed |-> {}, was |-> m.was])]

\* frame_start: the transfer, then the precompile, which ends the frame; the
\* identity precompile returns a view of the caller's memory
FrameStart(v, m) ==
  LET y   == IF m.transfer THEN With(Bring(v, {m.self}), [Ev(v) EXCEPT !.logs = @ + 1]) ELSE v
      z   == Charge(y, Gas.base)
      run == IF Fine(z) THEN With(z, [Ev(z) EXCEPT !.out = m.data]) ELSE z
  IN  IF ~Fine(v) THEN v
      ELSE IF m.precompile THEN Handle(With(run, [Ev(run) EXCEPT !.running = FALSE]))
      ELSE y

\* the target of a creation is marked created and gets its first nonce
Birth(v, a) ==
  LET y == Bring(v, {a, <<a, "nonce">>})
  IN  IF Fine(v) THEN [y EXCEPT !.created = @ \cup {a}] ELSE y

StartChild(v, m) ==
  LET y == ScratchAlloc(v, MsgSize)
  IN  FrameStart(Open(IF m.kind = "create" THEN Birth(y, m.self) ELSE y, m), m)

\* a change for the worse: a call below a static call is not static
MessageNotInherited(v, kind, self, sub) ==
  LET f == Ev(v)
  IN  [kind |-> kind, self |-> self, static |-> kind = "static",
       code |-> TRUE, gas |-> sub, rsv |-> f.sleft, charged |-> FALSE,
       transfer |-> FALSE, precompile |-> FALSE, data |-> <<0, 0>>, ret |-> 0,
       csnap |-> Snapshot(v), mark |-> v.down, memMark |-> v.up,
       was |-> [world |-> v.world, warm |-> v.warm]]

\* the message of a child of the current frame; csnap and was are taken as the
\* child starts
Message(v, kind, self, sub) ==
  LET f == Ev(v)
  IN  [kind |-> kind, self |-> self, static |-> f.static \/ kind = "static",
       code |-> TRUE, gas |-> sub, rsv |-> f.sleft, charged |-> FALSE,
       transfer |-> FALSE, precompile |-> FALSE, data |-> <<0, 0>>, ret |-> 0,
       csnap |-> Snapshot(v), mark |-> v.down, memMark |-> v.up,
       was |-> [world |-> v.world, warm |-> v.warm]]

\* a change for the worse: the price of an account that did not come to exist is
\* not given back
GiveBackUncredited(v, gas, state, charged) ==
  IF Fine(v) THEN With(v, [Ev(v) EXCEPT !.left = @ + gas, !.sleft = @ + state]) ELSE v

\* what a parent gets back of a child that ended, or never started
GiveBack(v, gas, state, charged) ==
  LET y == IF Fine(v) THEN With(v, [Ev(v) EXCEPT !.left = @ + gas, !.sleft = @ + state]) ELSE v
  IN  IF charged THEN Credit(y, StateGas.account) ELSE y

\* the gas and the reservoir that go to a child leave the parent
TakeReservoir(v) == IF Fine(v) THEN With(v, [Ev(v) EXCEPT !.sleft = 0]) ELSE v

CallKinds == {"call", "callcode", "delegate", "static"}

\* op_call, op_callcode, op_delegatecall, op_staticcall and generic_call, with
\* the same range of memory for the input and for the output.  A parent that
\* cannot pay the value, or a child too deep, gets everything back.
Call(v, kind, to, value, req, r, poor) ==
  LET y1   == Require(Pop(v, CallArgs), ~(kind = "call" /\ value /\ Ev(v).static))
      n    == Beyond(y1, r)
      y2   == Access(y1, "addrs", to, ExtendCost(n) + IF value THEN Gas.value ELSE 0)
      new  == kind = "call" /\ value /\ ~IsAlive(y2, to)
      y3   == IF new THEN ChargeState(y2, StateGas.account) ELSE y2
      left == Ev(y3).left
      g    == Least(req, left - left \div Fraction)
      sub  == g + IF value THEN Gas.stipend ELSE 0
      y4   == Charge(y3, g)
      y5   == IF Fine(y4) THEN Extend(With(y4, [Ev(y4) EXCEPT !.used = @ - sub]), n) ELSE y4
      m    == [Message(y5, kind, IF kind \in {"call", "static"} THEN to ELSE Ev(y5).self, sub)
                 EXCEPT !.code = HasCode(y5, to), !.charged = new,
                        !.transfer = kind = "call" /\ value /\ to # Ev(y5).self,
                        !.precompile = to = Identity,
                        !.data = <<Ev(y5).mem, r>>, !.ret = r]
      y6   == TakeReservoir(y5)
  IN  IF ~Fine(y5) THEN y5
      ELSE IF poor \/ Len(v.frames) > DepthLimit
      THEN GiveBack(Push(y6), sub, m.rsv, new)
      ELSE StartChild(y6, m)

\* op_create and generic_create
Create(v, to, r, poor) ==
  LET y1   == Require(Pop(v, CallArgs), ~Ev(v).static)
      n    == Beyond(y1, r)
      y2   == Extend(Charge(y1, Gas.create + ExtendCost(n)), n)
      y3   == Warm(y2, "addrs", to)
      new  == ~IsAlive(y3, to)
      y4   == IF new THEN ChargeState(y3, StateGas.account) ELSE y3
      left == Ev(y4).left
      sub  == left - left \div Fraction
      y5   == With(y4, [Ev(y4) EXCEPT !.left = @ - sub])
      lost == With(y5, [Ev(y5) EXCEPT !.used = @ + sub])
      m    == [Message(y5, "create", to, sub) EXCEPT !.charged = new]
  IN  IF ~Fine(y2) THEN y2
      ELSE IF poor \/ Len(v.frames) > DepthLimit THEN Push(y2)
      ELSE IF ~Fine(y4) THEN y4
      ELSE IF ~Deployable(y4, to) THEN Push(GiveBack(lost, 0, 0, new))
      ELSE StartChild(TakeReservoir(y5), m)

\* op_return and op_revert: the output is a view of the frame's own memory
Leave(v, r, revert) ==
  LET y == Pop(v, 2)
      z == Extend(Charge(y, ExtendCost(Beyond(y, r))), Beyond(y, r))
  IN  IF ~Fine(z) THEN z
      ELSE LET f == [Ev(z) EXCEPT !.out = <<Ev(z).mem, r>>, !.running = revert]
           IN  IF revert THEN Throw(With(z, f), "revert") ELSE With(z, f)

\* op_sstore, to a slot that was zero before the transaction
Sstore(v, s, on) ==
  LET y1   == Pop(Require(v, ~Ev(v).static), 2)
      cost == AccessCost(y1, "keys", s)
      y2   == Require(y1, Ev(y1).left >= Greatest(cost, Gas.stipend + 1))
      y3   == Access(y2, "keys", s, 0)
      was  == s \in v.world
      off  == was /\ ~on
      y4   == IF off THEN Credit(y3, StateGas.slot) ELSE y3
      y5   == IF off /\ Fine(y4) THEN With(y4, [Ev(y4) EXCEPT !.refund = @ + Gas.write]) ELSE y4
      y6   == Charge(y5, IF on /\ ~was THEN Gas.write ELSE 0)
      y7   == IF on /\ ~was THEN ChargeState(y6, StateGas.slot) ELSE y6
  IN  Write(y7, IF on THEN v.world \cup {s} ELSE v.world \ {s})

\* op_selfdestruct, of an account with a balance or with none
SelfDestruct(v, b, poor) ==
  LET y1  == Access(Pop(Require(v, ~Ev(v).static), 1), "addrs", b, Gas.base)
      new == ~poor /\ ~IsAlive(y1, b)
      y2  == IF new THEN ChargeState(Charge(y1, Gas.account), StateGas.account) ELSE y1
      y3  == IF poor THEN y2 ELSE Bring(y2, {b})
      f   == Ev(y3)
  IN  IF ~Fine(y3) THEN y3
      ELSE With(y3, [f EXCEPT !.running = FALSE,
                              !.logs = @ + IF b # f.self /\ ~poor THEN 1 ELSE 0,
                              !.doomed = @ \cup ({f.self} \cap y3.created)])

CreateFinish(v, bad) ==
  LET y == ChargeState(Charge(Require(v, ~bad), Ev(v).out[2]),
                       IF Ev(v).out[2] > 0 THEN StateGas.code ELSE 0)
      z == IF Ev(v).out[2] > 0 THEN Bring(y, {<<Ev(v).self, "code">>}) ELSE y
      x == Restore([z EXCEPT !.err = "none"], Ev(v).csnap)
  IN  IF z.err = "none" THEN z ELSE FrameHalt(Refill(x))

\* frame_epilogue, and process_create_message's end for a creation
Epilogue(v, bad) ==
  LET y == IF Ev(v).err = "none" THEN v ELSE Restore(v, Ev(v).snap)
  IN  IF Ev(v).kind # "create" THEN y
      ELSE IF Ev(y).err = "none" THEN CreateFinish(y, bad)
      ELSE Restore(y, Ev(y).csnap)

\* a change for the worse: the keys a failed frame accessed stay warm
TruncateAddrs(v, f) == [v EXCEPT !.warm = [@ EXCEPT !.addrs = SubSeq(@, 1, f.addrs)]]

\* rollback_child_access
Truncate(v, f) ==
  [v EXCEPT !.warm = [addrs |-> SubSeq(@.addrs, 1, f.addrs), keys |-> SubSeq(@.keys, 1, f.keys)]]

\* two changes for the worse: the gas a failed child used is forgotten, or what
\* it marked for deletion is taken over
IncorporateLeft(v, child) ==
  With(v, [Ev(v) EXCEPT !.left = @ + child.left, !.sleft = @ + child.sleft])

IncorporateDoomed(v, child) ==
  With(v, [Ev(v) EXCEPT !.left = @ + child.left, !.sleft = @ + child.sleft,
                        !.used = @ + child.used, !.doomed = @ \cup child.doomed])

IncorporateOnError(v, child) ==
  With(v, [Ev(v) EXCEPT !.left = @ + child.left, !.sleft = @ + child.sleft,
                        !.used = @ + child.used])

\* the reservoir repays what is spilled, of the child or of the frame itself
IncorporateOnSuccess(v, child) ==
  LET f   == Ev(IncorporateOnError(v, child))
      all == f.spilled + child.spilled
      rep == Least(f.sleft, all)
  IN  With(v, [f EXCEPT !.left = @ + rep, !.sleft = @ - rep, !.spilled = all - rep,
                        !.logs = @ + child.logs, !.refund = @ + child.refund,
                        !.doomed = @ \cup child.doomed])

\* finish_child, after the epilogue: the parent goes on.  What the child's
\* output shows is copied before the child's part of the arena is released.
FinishChild(v) ==
  LET child == Ev(v)
      up    == [v EXCEPT !.frames = SubSeq(@, 1, Len(@) - 1)]
      y     == IF child.err = "none" THEN IncorporateOnSuccess(up, child)
               ELSE GiveBack(IncorporateOnError(Truncate(up, child), child), 0, 0, child.charged)
  IN  Release(Push(y), child)

-----------------------------------------------------------------------------
(***************************************************************************)
(* process_message_call for a transaction: the frame is opened, the        *)
(* authorization (at most one) and the dispatch are paid for, under a      *)
(* snapshot of their own, and then the frame starts.                       *)
(***************************************************************************)
SetDelegation(v, a, m) ==
  LET y1 == Warm(v, "addrs", a)
      y2 == IF IsAlive(y1, a) THEN y1 ELSE ChargeState(y1, StateGas.account)
      y3 == Charge(y2, IF m.transfer /\ a = m.self THEN 0 ELSE Gas.account)
      y4 == Bring(ChargeState(y3, StateGas.auth), {a, <<a, "nonce">>, <<a, "auth">>})
      f  == Ev(y4)
  IN  IF ~Fine(y4) THEN y4
      ELSE [With(y4, [f EXCEPT !.rsv = f.sleft, !.spilled = 0])
              EXCEPT !.auth = [used |-> StateGasUsed(f), spilled |-> f.spilled]]

PrepareDispatch(v, m) ==
  LET y == IF m.kind = "create" \/ (m.transfer /\ ~IsAlive(v, m.self))
           THEN ChargeState(v, StateGas.account) ELSE v
  IN  IF Fine(y) THEN With(y, [Ev(y) EXCEPT !.code = @ \/ HasCode(y, m.self)]) ELSE y

\* the handler of what depth0_prepare throws
PrepareFailed(v, snap) ==
  LET y == Restore([v EXCEPT !.err = "none", !.auth = [@ EXCEPT !.used = 0]], snap)
  IN  FrameHalt(Refill(With(y, [Ev(y) EXCEPT !.rsv = TxReservoir])))

Idle == [frames |-> <<>>, world |-> {}, journal |-> <<>>, created |-> {},
         warm |-> [addrs |-> <<Identity>>, keys |-> <<>>],
         up |-> 0, down |-> ArenaSize, err |-> "none", trap |-> 0,
         auth |-> [used |-> 0, spilled |-> 0]]

Dispatched(kind, to, value, auths) ==
  LET v == Warm(Idle, "addrs", to)
      m == [kind |-> kind, self |-> to, static |-> FALSE, code |-> kind = "create",
            gas |-> TxGas, rsv |-> TxReservoir, charged |-> FALSE,
            transfer |-> value, precompile |-> to = Identity, data |-> <<0, 0>>, ret |-> 0,
            csnap |-> 0, mark |-> v.down, memMark |-> v.up,
            was |-> [world |-> {}, warm |-> v.warm]]
      o == Open(IF kind = "create" THEN Birth(v, to) ELSE v, m)
      a == IF auths = {} THEN o ELSE SetDelegation(o, CHOOSE x \in auths : TRUE, m)
      d == PrepareDispatch(a, m)
  IN  IF d.err = "none"
      THEN [ok |-> TRUE, vm |-> FrameStart(With(d, [Ev(d) EXCEPT !.snap = Snapshot(d)]), m)]
      ELSE LET y == PrepareFailed(d, Snapshot(o))
           IN  [ok |-> FALSE, vm |-> IF kind = "create" THEN Restore(y, 0) ELSE y]
-----------------------------------------------------------------------------
(***************************************************************************)
(* The behaviours: run_frames.                                             *)
(***************************************************************************)
Init == vm = Idle /\ phase = "start"

StartTx ==
  \E kind \in {"call", "create"}, to \in Addr, value \in BOOLEAN,
     auths \in {{}} \cup {{a} : a \in New} :
    LET d == Dispatched(kind, to, value, auths) IN
      /\ phase = "start"
      /\ kind = "create" => to \in New /\ auths = {}
      /\ vm' = IF d.ok THEN d.vm ELSE Release(d.vm, Ev(d.vm))
      /\ phase' = IF d.ok THEN "running" ELSE "done"

Ready   == phase = "running" /\ vm.trap = 0 /\ Ev(vm).running /\ Ev(vm).code
Exec(y) == Ready /\ vm' = Handle(y) /\ UNCHANGED phase

PushOp == Exec(Push(Charge(vm, Gas.base)))
PopOp  == Exec(Charge(Pop(vm, 1), Gas.base))
MemOp  == \E r \in Ranges : LET n == Beyond(vm, r)
                            IN  Ready /\ n > 0 /\ Exec(Extend(Charge(vm, Gas.base + ExtendCost(n)), n))

\* op_balance and its like, op_sload
TouchAddr == \E a \in Addr : Exec(Push(Access(Pop(vm, 1), "addrs", a, 0)))
TouchSlot == \E s \in Slot : Exec(Push(Access(Pop(vm, 1), "keys", s, 0)))

WriteSlot == \E s \in Slot, on \in BOOLEAN : Exec(Sstore(vm, s, on))

CallOp ==
  \E kind \in CallKinds, to \in Addr, value, poor \in BOOLEAN, req \in Requests, r \in Ranges :
    /\ value => kind \in {"call", "callcode"}
    /\ poor => value
    /\ Exec(Call(vm, kind, to, value, req, r, poor))

CreateOp == \E to \in New \cup Old, r \in Ranges, poor \in BOOLEAN : Exec(Create(vm, to, r, poor))

LeaveOp        == \E r \in Ranges, revert \in BOOLEAN : Exec(Leave(vm, r, revert))
StopOp         == Exec(With(vm, [Ev(vm) EXCEPT !.running = FALSE]))
InvalidOp      == Exec(Throw(vm, "halt"))
SelfDestructOp == \E b \in Addr, poor \in BOOLEAN : Exec(SelfDestruct(vm, b, poor))

FinishWith(bad) ==
  LET y == Epilogue(vm, bad) IN
    /\ phase = "running" /\ vm.trap = 0 /\ ~(Ev(vm).running /\ Ev(vm).code)
    /\ IF Len(vm.frames) > 1
       THEN vm' = Handle(FinishChild(y)) /\ UNCHANGED phase
       ELSE vm' = Release(y, Ev(y)) /\ phase' = "done"

\* the code a creation returns may be refused
FinishFrame ==
  phase = "running" /\ \E bad \in BOOLEAN : (bad => Ev(vm).out[2] > 0) /\ FinishWith(bad)

Next == \/ StartTx \/ PushOp \/ PopOp \/ MemOp \/ TouchAddr \/ TouchSlot \/ WriteSlot
        \/ CallOp \/ CreateOp \/ LeaveOp \/ StopOp \/ InvalidOp \/ SelfDestructOp
        \/ FinishFrame

Spec == Init /\ [][Next]_vars

\* one thread runs the loop, which can go on unless it trapped
CanStep == phase = "start" \/ (phase = "running" /\ vm.trap = 0)
-----------------------------------------------------------------------------
(***************************************************************************)
(* Properties.                                                             *)
(***************************************************************************)
Depth == 1 .. Len(vm.frames)

View   == Nat \X Nat
Before == [world : SUBSET Objects, warm : [addrs : Seq(Addr), keys : Seq(Slot)]]

FrameState ==
  [kind : CallKinds \cup {"create"}, self : Addr, static : BOOLEAN, code : BOOLEAN,
   gas : Nat, rsv : Nat, left : Nat, sleft : Nat, spilled : Nat, used : Nat,
   running : BOOLEAN, err : {"none", "halt", "revert"}, out : View,
   snap : Nat, csnap : Nat, charged : BOOLEAN, addrs : Nat, keys : Nat,
   stk : Nat, scap : Nat, n : Nat, mem : Nat, cap : Nat, len : Nat,
   mark : Nat, memMark : Nat, data : View, ret : Nat,
   logs : Nat, refund : Nat, doomed : SUBSET New,
   was : Before]

\* No counter of a frame goes below zero, and what is accessed is recorded once.
TypeOK ==
  /\ \A i \in Depth : vm.frames[i] \in FrameState
  /\ vm.world \subseteq Objects /\ vm.created \subseteq New
  /\ \A set \in {"addrs", "keys"} :
       Cardinality(Elems(vm.warm[set])) = Len(vm.warm[set])
  /\ vm.err = "none" /\ vm.trap \in {0, 6, 7} /\ phase \in {"start", "running", "done"}

\* The frames' memories lie one above the other with no gap, the last one ends
\* where frame_mem_alloc goes on, and every operand stack lies in its frame's
\* own part of the scratch arena: extend_memory may grow in place, and what a
\* child releases is nothing its parent still uses.
SlicesApart ==
  /\ 0 <= vm.up /\ vm.up <= vm.down /\ vm.down <= ArenaSize
  /\ phase = "running" /\ vm.trap = 0 => \A i \in Depth :
       LET f    == vm.frames[i]
           top  == i = Len(vm.frames)
           up   == IF top THEN vm.up ELSE vm.frames[i + 1].memMark
           down == IF top THEN vm.down ELSE vm.frames[i + 1].mark
       IN  /\ f.mem = f.memMark /\ f.mem + f.cap = up /\ f.len <= f.cap
           /\ down <= f.stk /\ f.stk + f.scap <= f.mark /\ f.n <= f.scap
  /\ phase = "done" => vm.up = 0 /\ vm.down = ArenaSize

\* What a frame borrows is there while it is borrowed: its input is part of its
\* suspended parent's memory, its output of its own or of its parent's, and
\* the range the parent wants the output in is inside the parent's memory.
Within(view, f) == f.mem <= view[1] /\ view[1] + view[2] <= f.mem + f.len
ViewsLive ==
  phase = "running" =>
    \A i \in Depth :
      LET f == vm.frames[i] IN
        /\ i > 1 => LET parent == vm.frames[i - 1]
                    IN  (f.data[2] > 0 => Within(f.data, parent)) /\ f.ret <= parent.len
        /\ f.out[2] > 0 => Within(f.out, f) \/ (i > 1 /\ Within(f.out, vm.frames[i - 1]))

\* Regular gas is neither made nor lost: what a frame was given is what it has,
\* what it used, what it spilled for state gas, and what its child was given.
\* So the regular gas process_transaction computes is never negative.
GasConserved ==
  phase # "start" /\ vm.trap = 0 =>
    \A i \in Depth :
      LET f == vm.frames[i] IN
        f.gas = f.left + f.used + f.spilled
                + (IF i < Len(vm.frames) THEN vm.frames[i + 1].gas ELSE 0)
                + (IF i = 1 THEN vm.auth.spilled ELSE 0)

\* State gas pays for exactly what came to exist: in every frame that has not
\* failed, and for the transaction when it ends, also when calls failed,
\* slots were cleared again, reservoirs moved back and forth, or a part of the
\* gas was spilled and repaid.
CostOf(w) ==
  LET Count(x) == Cardinality({p \in w : p \in New \X {x}})
  IN  StateGas.account * Cardinality(w \cap New) + StateGas.slot * Cardinality(w \cap Slot)
      + StateGas.code * Count("code") + StateGas.auth * Count("auth")

Prepaid(f) == IF f.charged THEN StateGas.account ELSE 0

StateGasPaysForGrowth ==
  phase # "start" /\ vm.trap = 0 =>
    \A i \in Depth :
      LET f   == vm.frames[i]
          top == i = Len(vm.frames)
          c   == vm.frames[i + 1]
          now == IF top THEN CostOf(vm.world) ELSE CostOf(c.was.world)
          own == StateGasUsed(f) + (IF i = 1 THEN vm.auth.used ELSE 0)
      IN  \/ top /\ f.err # "none" /\ phase = "running"
          \/ own + Prepaid(f) + CostOf(f.was.world)
             = now + (IF top THEN 0 ELSE c.rsv + Prepaid(c))

\* A frame that fails leaves no trace but the gas it burnt: the state and the
\* accessed sets are what they were when it was called, and its part of the
\* arena is free again.
FailureLeavesNoTrace ==
  [][ \A bad \in BOOLEAN :
        LET f == Ev(vm) IN
          phase = "running" /\ FinishWith(bad) /\ Ev(Epilogue(vm, bad)).err # "none" =>
            /\ Len(vm.frames) > 1 => /\ vm'.world = f.was.world /\ vm'.warm = f.was.warm
            /\ vm'.up = f.memMark /\ vm'.down = f.mark ]_vars

\* Nothing is written below a static call (require_not_static, child_message).
StaticWritesNothing ==
  [][ (\E i \in Depth : vm.frames[i].static) => vm'.world = vm.world ]_vars

\* process_transaction clears only accounts whose creation still stands, though
\* no rollback takes a mark of mark_account_created back.
DoomedWereCreated ==
  phase = "done" /\ Ev(vm).err = "none" =>
    \A a \in Ev(vm).doomed : <<a, "nonce">> \in vm.world

\* Every transaction ends: each instruction costs gas, or ends its frame, and
\* gas is conserved, so run_frames leaves its loop.  It holds of a thread that
\* keeps turning (TurnSpec of MCFramesTurns).
Terminates == <>(phase = "done" \/ vm.trap # 0)
=============================================================================
