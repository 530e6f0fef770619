--------------------------- MODULE SnapshotStore ----------------------------
(***************************************************************************)
(* What state.pnk promises of a transaction's four write maps (its lines   *)
(* 1 to 6): to be observationally equal to the reference implementation,   *)
(* which copies the maps at a snapshot and puts the copy back at a         *)
(* rollback.  There is no journal here and no inner table.                 *)
(***************************************************************************)
EXTENDS Naturals, Sequences

CONSTANTS Addr, Slot, CodeHash, Word,
          Account, EmptyAccount,
          None,    \* the record of a deleted account
          Absent   \* no binding

VARIABLES
  cur,    \* the maps: acct, stor, code and tran; Stopped at the end
  stack   \* the copies taken at the outstanding snapshots, outermost first

vars == <<cur, stack>>

\* what the guest leaves when it traps or rejects the block
Stopped == <<>>

NoSlots == [k \in Slot |-> Absent]

NoMaps == [acct |-> [a \in Addr |-> Absent],
           stor |-> [a \in Addr |-> NoSlots],
           code |-> [h \in CodeHash |-> Absent],
           tran |-> [p \in Addr \X Slot |-> Absent]]

Init == cur = NoMaps /\ stack = <<>>
-----------------------------------------------------------------------------
Put(m, k, v) == [m EXCEPT ![k] = v]

DropSlots(c, a) == [c EXCEPT !.stor = Put(@, a, NoSlots)]

\* An account left empty is deleted, and what was written to its storage goes.
Commit(c, a, r) ==
  IF r = EmptyAccount
  THEN [DropSlots(c, a) EXCEPT !.acct = Put(@, a, None)]
  ELSE [c EXCEPT !.acct = Put(@, a, r)]

PutSlot(c, a, k, v) == [c EXCEPT !.stor = Put(@, a, Put(@[a], k, v))]

Becomes(c) == cur # Stopped /\ cur' = c /\ UNCHANGED stack

Change   == \E a \in Addr, r \in Account : Becomes(Commit(cur, a, r))
Transfer == \E s, t \in Addr, q, r \in Account : Becomes(Commit(Commit(cur, s, q), t, r))
Store    == \E a \in Addr, k \in Slot, v \in Word : Becomes(PutSlot(cur, a, k, v))
StoreTransient ==
  \E p \in Addr \X Slot, v \in Word :
    Becomes([cur EXCEPT !.tran = Put(@, p, IF v = 0 THEN Absent ELSE v)])
Install  == \E a \in Addr, r \in Account, h \in CodeHash :
              Becomes(Commit([cur EXCEPT !.code = Put(@, h, h)], a, r))
Reset    == \E a \in Addr, r \in Account : Becomes(Commit(DropSlots(cur, a), a, r))

Begin    == cur # Stopped /\ stack = <<>> /\ cur' = NoMaps /\ UNCHANGED stack

Save     == cur # Stopped /\ stack' = Append(stack, cur) /\ UNCHANGED cur
Forget   == stack # <<>> /\ stack' = SubSeq(stack, 1, Len(stack) - 1) /\ UNCHANGED cur
Restore  == /\ cur # Stopped /\ stack # <<>>
            /\ cur' = stack[Len(stack)]
            /\ stack' = SubSeq(stack, 1, Len(stack) - 1)

\* a trap, or a StateErr that rejects the block
Stop     == cur # Stopped /\ cur' = Stopped /\ UNCHANGED stack

Next == \/ Change \/ Transfer \/ Store \/ StoreTransient \/ Install \/ Reset
        \/ Begin \/ Save \/ Forget \/ Restore \/ Stop

Spec == Init /\ [][Next]_vars
=============================================================================
