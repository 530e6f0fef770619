------------------------------- MODULE Block -------------------------------
(***************************************************************************)
(* execute_block (src/guest/src/fork.pnk) and the block access list it     *)
(* builds (src/guest/src/bal.pnk): the system transactions before the      *)
(* block, its transactions, the withdrawals, the system transactions that  *)
(* gather requests, the list, and the verdict.                             *)
(*                                                                         *)
(* A scope is what runs between state_fresh_tx and                         *)
(* incorporate_tx_into_block; here it is one step.  world is the block     *)
(* layer over the witness (StateTracker has the layers apart), an account  *)
(* that does not exist reads as the empty one.  What a message does is an  *)
(* input, restricted as Frames shows: an effect on storage and code, and   *)
(* the gas it uses of either kind.                                         *)
(*                                                                         *)
(* start, net and supply are history variables: the world when the current *)
(* index began, the changes of the indices that are over, and the ether    *)
(* there should be.  No guard reads them.                                  *)
(***************************************************************************)
EXTENDS Integers, FiniteSets, FiniteSetsExt

CONSTANTS
  Addr, Slot,
  Coinbase,     \* BE_COINBASE
  System,       \* the address of the system contracts
  EmptyCode,    \* empty_code_hash
  Delegations,  \* codes that only point to another account (EIP-7702)
  NewCode,      \* the code a transaction may install
  Worlds,       \* the worlds a block may start from
  Txs,          \* transactions
  Effects,      \* what a message may do
  Uses,         \* the gas it may use
  Withdrawals,  \* what the payload may withdraw: sets of [to, amount]
  MaxTxs,       \* transactions in a block
  Before,       \* unchecked system transactions (two)
  After,        \* checked system transactions (four)
  GasLimit,     \* BE_GAS_LIMIT
  TxMax,        \* TX_MAX_GAS_LIMIT
  BlobMax,      \* MAX_BLOB_GAS_PER_BLOCK
  BaseFee,      \* BE_BASE_FEE
  BlobPrice,    \* calculate_blob_gas_price
  ItemGas,      \* BLOCK_ACCESS_LIST_ITEM_GAS
  GasMod,       \* 2^64
  EtherMod      \* 2^256

VARIABLES
  phase,        \* where execute_block is
  left,         \* scopes left in the phase
  index,        \* bal_index
  world,        \* bs over the witness
  touched,      \* BS_ACCT_READS
  slotReads,    \* BS_STOR_READS
  list,         \* bal_accounts
  memo,         \* bal_idx_accts and bal_idx_stor, the entries of this index
  pools,        \* BO_GAS_USED, BO_STATE_GAS_USED, BO_BLOB_GAS_USED
  start, net, supply

access == <<touched, slotReads, list, memo>>
ghosts == <<start, net>>
vars == <<phase, left, index, world, access, pools, ghosts, supply>>

TxFields == {"nonce", "gas", "maxFee", "maxTip", "value", "blobGas", "maxBlobFee",
             "intrinsic", "intrinsicState", "floor"}

\* the ether accounts hold, and the ether a set of withdrawals brings
Ether(acct) == MapThenSumSet(LAMBDA a : acct[a].balance, Addr)
Brought(ws) == MapThenSumSet(LAMBDA w : w.amount, ws)

ASSUME BlockAssumption ==
  /\ {GasLimit, TxMax, BlobMax, BaseFee, BlobPrice, MaxTxs} \subseteq Nat
  /\ {ItemGas, GasMod, EtherMod, Before, After} \subseteq Nat \ {0}
  /\ \A t \in Txs : \A f \in TxFields : t[f] \in Nat
  /\ \A u \in Uses : u.regular \in Nat /\ u.state \in Int /\ u.refund \in Nat

\* Worlds are total; a message uses slots of accounts it touches, and writes those
\* it has read (op_sstore).
ASSUME WorldAssumption ==
  /\ IsFiniteSet(Addr) /\ IsFiniteSet(Slot) /\ Slot \cap {"balance", "nonce", "code"} = {}
  /\ {Coinbase, System} \subseteq Addr /\ \A t \in Txs : {t.sender, t.to} \subseteq Addr
  /\ \A w \in Worlds : DOMAIN w.acct = Addr /\ DOMAIN w.stor = Addr \X Slot
  /\ \A e \in Effects : /\ e.touched \subseteq Addr /\ e.slots \subseteq Addr \X Slot
                        /\ {p[1] : p \in e.slots} \subseteq e.touched
                        /\ DOMAIN e.writes \subseteq e.slots
  /\ \A ws \in Withdrawals : IsFiniteSet(ws) /\ \A w \in ws : w.to \in Addr /\ w.amount \in Nat

\* Accounts are whole, and all the ether there may ever be fits a word.
ASSUME EtherAssumption ==
  /\ \A w \in Worlds : \A a \in Addr : /\ DOMAIN w.acct[a] = {"balance", "nonce", "code"}
                                     /\ w.acct[a].balance \in Nat
  /\ \A w \in Worlds, ws \in Withdrawals \cup {{}} : Ether(w.acct) + Brought(ws) < EtherMod
-----------------------------------------------------------------------------
(***************************************************************************)
(* The access list.  A list of changes maps an index to the value after    *)
(* it; the order it is kept in is that of the indices.                     *)
(***************************************************************************)
Least(a, b) == IF a <= b THEN a ELSE b
Most(a, b)  == IF a >= b THEN a ELSE b

NoChange  == [i \in {} |-> 0]
NoAccount == [balance |-> NoChange, nonce |-> NoChange, code |-> NoChange,
              stor |-> [k \in {} |-> NoChange], reads |-> {}]
NoMemo    == [acct |-> [a \in {} |-> 0], stor |-> [p \in {} |-> 0]]

\* lst_upsert_idx
Upsert(changes, i, v) == [j \in DOMAIN changes \cup {i} |-> IF j = i THEN v ELSE changes[j]]

\* bal_list_remove_idx
Withdraw(changes, i) == [j \in DOMAIN changes \ {i} |-> changes[j]]

Note(changes, i, pre, post) ==
  IF pre # post THEN Upsert(changes, i, post) ELSE Withdraw(changes, i)

\* add_nonce_change keeps the highest of an index
NoteNonce(changes, i, pre, post) ==
  IF pre # post /\ i \in DOMAIN changes THEN Upsert(changes, i, Most(changes[i], post))
  ELSE Note(changes, i, pre, post)

\* add_storage_write and remove_storage_write: a slot without changes goes
NoteSlots(stor, i, pre, post) ==
  LET changes(k) == IF k \in DOMAIN stor THEN stor[k] ELSE NoChange
      after(k)   == IF k \in DOMAIN post THEN Note(changes(k), i, pre[k], post[k])
                    ELSE changes(k)
  IN  [k \in {k \in DOMAIN stor \cup DOMAIN post : DOMAIN after(k) # {}} |-> after(k)]

\* a mistake: what the block holds now is taken for what it held then
StartOfNow(known, now) == now

\* idx_start_account, idx_start_storage: as of the first use in this index
StartOf(known, now) ==
  [x \in DOMAIN known \cup DOMAIN now |-> IF x \in DOMAIN known THEN known[x] ELSE now[x]]

\* update_builder_from_tx for a scope that wrote accounts and slots
UpdateList(l, i, preAcct, preStor, acct, stor) ==
  LET slots(a)   == {p \in DOMAIN stor : p[1] = a}
      changed(a) == \/ a \in DOMAIN acct /\ acct[a] # preAcct[a]
                    \/ \E p \in slots(a) : stor[p] # preStor[p]
      entry(a)   == IF a \in DOMAIN l THEN l[a] ELSE NoAccount
      written(e, a) ==
        IF a \notin DOMAIN acct THEN e
        ELSE [e EXCEPT !.balance = Note(@, i, preAcct[a].balance, acct[a].balance),
                       !.nonce   = NoteNonce(@, i, preAcct[a].nonce, acct[a].nonce),
                       !.code    = Note(@, i, preAcct[a].code, acct[a].code)]
      stored(e, a) ==
        [e EXCEPT !.stor = NoteSlots(@, i, [k \in Slot |-> preStor[<<a, k>>]],
                                     [k \in {p[2] : p \in slots(a)} |-> stor[<<a, k>>]])]
  IN  [a \in DOMAIN l \cup {a \in Addr : changed(a)} |-> stored(written(entry(a), a), a)]

\* build_block_access_list_rlp adds the reads; those of changed slots are left
\* out as the account is encoded
WithReads(l) ==
  [a \in DOMAIN l \cup touched \cup {p[1] : p \in slotReads} |->
     LET e == IF a \in DOMAIN l THEN l[a] ELSE NoAccount
     IN  [e EXCEPT !.reads = {k \in Slot : <<a, k>> \in slotReads} \ DOMAIN e.stor]]

\* validate_block_access_list_gas_limit: accounts, slots changed, other slots read
Items(l) ==
  LET changed == UNION {{<<a, k>> : k \in DOMAIN l[a].stor} : a \in DOMAIN l}
      read    == UNION {{<<a, k>> : k \in l[a].reads} : a \in DOMAIN l}
  IN  Cardinality(DOMAIN l) + Cardinality(changed) + Cardinality(read \ changed)
-----------------------------------------------------------------------------
(***************************************************************************)
(* Scopes.                                                                 *)
(***************************************************************************)
\* what changed from one world to another, to be recorded at index i
FieldChanges(i, w, v) ==
  UNION {{<<a, f, i, v.acct[a][f]>> : f \in {f \in {"balance", "nonce", "code"} :
                                           w.acct[a][f] # v.acct[a][f]}} : a \in Addr}
SlotChanges(i, w, v) ==
  {<<p[1], p[2], i, v.stor[p]>> : p \in {p \in Addr \X Slot : w.stor[p] # v.stor[p]}}
Changes(i, w, v) == FieldChanges(i, w, v) \cup SlotChanges(i, w, v)

Overlay(f, g) == [x \in DOMAIN f |-> IF x \in DOMAIN g THEN g[x] ELSE f[x]]

\* incorporate_tx_into_block for a scope of index i that wrote acct and stor,
\* touched accounts and read slots (process_transaction and execute_block set i)
Incorporate(i, acct, stor, accounts, slots) ==
  LET known   == IF i = index THEN memo ELSE NoMemo
      preAcct == StartOf(known.acct, world.acct)
      preStor == StartOf(known.stor, world.stor)
  IN  /\ index' = i
      /\ list' = UpdateList(list, i, preAcct, preStor, acct, stor)
      /\ memo' = [acct |-> [a \in DOMAIN known.acct \cup DOMAIN acct |-> preAcct[a]],
                  stor |-> [p \in DOMAIN known.stor \cup DOMAIN stor |-> preStor[p]]]
      /\ world' = [acct |-> Overlay(world.acct, acct), stor |-> Overlay(world.stor, stor)]
      /\ touched' = touched \cup accounts
      /\ slotReads' = slotReads \cup slots
      /\ start' = IF i = index THEN start ELSE world
      /\ net' = IF i = index THEN net ELSE net \cup Changes(index, start, world)

\* A message may only use slots of an account with code, install code where
\* there is none, and it leaves nothing of either if it fails.
Possible(e) ==
  /\ \A p \in e.slots : world.acct[p[1]].code # EmptyCode \/ p[1] \in e.installs
  /\ \A a \in e.installs : world.acct[a].code = EmptyCode /\ world.acct[a].nonce = 0
Installed(acct, e) ==
  [a \in DOMAIN acct |-> IF a \in e.installs /\ ~e.error
                         THEN [acct[a] EXCEPT !.code = NewCode, !.nonce = 1] ELSE acct[a]]
Stored(e) == IF e.error THEN [p \in {} |-> 0] ELSE e.writes
-----------------------------------------------------------------------------
(***************************************************************************)
(* Transactions.                                                           *)
(***************************************************************************)
\* unsigned subtraction
Minus(a, b, mod) == IF a >= b THEN a - b ELSE a - b + mod

\* check_transaction: a legacy transaction is one whose tip is its whole fee
Price(t) == BaseFee + Least(t.maxTip, t.maxFee - BaseFee)

\* validate_transaction
Validates(t) ==
  /\ t.intrinsic + t.intrinsicState <= t.gas /\ t.floor <= t.gas
  /\ t.intrinsic <= TxMax /\ t.floor <= TxMax

\* a mistake: both are compared with the state gas left
HasRoomOfState(t) ==
  /\ t.gas <= Minus(GasLimit, pools.state, GasMod)
  /\ t.blobGas <= Minus(BlobMax, pools.blob, GasMod)

HasRoom(t) ==
  /\ Least(TxMax, t.gas) <= Minus(GasLimit, pools.regular, GasMod)
  /\ t.gas <= Minus(GasLimit, pools.state, GasMod)
  /\ t.blobGas <= Minus(BlobMax, pools.blob, GasMod)

\* no product or sum overflows, and the balance covers the worst case
Affords(t) ==
  LET need == t.gas * t.maxFee + t.blobGas * t.maxBlobFee + t.value
  IN  need < EtherMod /\ need <= world.acct[t.sender].balance

Checks(t) ==
  /\ Validates(t) /\ HasRoom(t)
  /\ t.maxTip <= t.maxFee /\ BaseFee <= t.maxFee
  /\ t.blobGas > 0 => BlobPrice <= t.maxBlobFee
  /\ t.nonce = world.acct[t.sender].nonce
  /\ Affords(t)
  /\ world.acct[t.sender].code \in {EmptyCode} \cup Delegations

\* What process_message_call is given, and what it may use of it: regular gas
\* never comes out of the reservoir, and no more state gas is given back than
\* was charged before the message.
MessageGas(t)  == Least(TxMax - t.intrinsic, t.gas - t.intrinsic - t.intrinsicState)
MayUse(t, u) ==
  /\ u.regular <= MessageGas(t) /\ u.state >= -t.intrinsicState
  /\ u.regular + u.state <= t.gas - t.intrinsic - t.intrinsicState

\* the gas accounting of process_transaction
UsedBeforeRefund(t, u) == t.intrinsic + t.intrinsicState + u.regular + u.state

GasUsed(t, u) ==
  Most(UsedBeforeRefund(t, u) - Least(UsedBeforeRefund(t, u) \div 5, u.refund), t.floor)
StateGas(t, u)   == Most(t.intrinsicState + u.state, 0)
RegularGas(t, u) == Most(Minus(UsedBeforeRefund(t, u), StateGas(t, u), GasMod), t.floor)

\* balances, modulo 2^256
Credit(acct, a, n) == [acct EXCEPT ![a].balance = (@ + n) % EtherMod]
Debit(acct, a, n)  == [acct EXCEPT ![a].balance = Minus(@, n, EtherMod)]

\* a mistake: the fee is worked out on the gas used before the floor
PaidBeforeFloor(acct, t, u) ==
  Credit(Credit(acct, t.sender, Minus(t.gas, GasUsed(t, u), GasMod) * Price(t)),
         Coinbase, UsedBeforeRefund(t, u) * (Price(t) - BaseFee))

\* the sender is given back the rest, the coinbase gets the tip
Paid(acct, t, u) ==
  Credit(Credit(acct, t.sender, Minus(t.gas, GasUsed(t, u), GasMod) * Price(t)),
         Coinbase, GasUsed(t, u) * (Price(t) - BaseFee))

Charged(acct, t) ==
  Debit([acct EXCEPT ![t.sender].nonce = @ + 1], t.sender,
        t.gas * Price(t) + t.blobGas * BlobPrice)

Moved(acct, t, e) ==
  IF e.error THEN acct ELSE Credit(Debit(acct, t.sender, t.value), t.to, t.value)

Settled(t, e, u) == Paid(Installed(Moved(Charged(world.acct, t), t, e), e), t, u)

ProcessTransaction(t, e, u) ==
  /\ Possible(e) /\ MayUse(t, u) /\ (e.error => u.refund = 0)
  /\ LET acct    == Settled(t, e, u)
         written == {a \in Addr : acct[a] # world.acct[a]} \cup {t.sender, Coinbase}
     IN  Incorporate(index + 1, [a \in written |-> acct[a]], Stored(e),
                     written \cup {t.to} \cup e.touched, e.slots)
  /\ pools' = [pools EXCEPT !.regular = @ + RegularGas(t, u), !.state = @ + StateGas(t, u),
                            !.blob = @ + t.blobGas, !.paid = @ + GasUsed(t, u)]
  /\ supply' = supply - GasUsed(t, u) * BaseFee - t.blobGas * BlobPrice
-----------------------------------------------------------------------------
(***************************************************************************)
(* The steps of execute_block.                                             *)
(***************************************************************************)
Init ==
  /\ phase = "before" /\ left = Before /\ index = 0
  /\ world \in Worlds
  /\ touched = {} /\ slotReads = {} /\ list = [a \in {} |-> NoAccount] /\ memo = NoMemo
  /\ pools = [regular |-> 0, state |-> 0, blob |-> 0, paid |-> 0]
  /\ start = world /\ net = {}
  /\ supply = Ether(world.acct)

Reject == phase' = "rejected" /\ UNCHANGED <<left, index, world, access, pools, ghosts, supply>>

\* process_unchecked_system_transaction: whatever becomes of the message
SystemMessage(e) ==
  /\ Possible(e) /\ e.installs = {}
  /\ Incorporate(index, [a \in {} |-> 0], Stored(e), {System} \cup e.touched, e.slots)
  /\ left' = left - 1
  /\ UNCHANGED <<pools, supply>>

UncheckedSystemTransaction ==
  /\ phase = "before" /\ \E e \in Effects : SystemMessage(e)
  /\ phase' = IF left = 1 THEN "txs" ELSE phase

Transaction ==
  /\ phase = "txs" /\ index < MaxTxs
  /\ \E t \in Txs :
       IF Checks(t) THEN /\ \E e \in Effects, u \in Uses : ProcessTransaction(t, e, u)
                         /\ UNCHANGED <<phase, left>>
       ELSE Reject

\* process_withdrawals, one scope after the last transaction
ProcessWithdrawals ==
  /\ phase = "txs"
  /\ \E ws \in Withdrawals :
       LET due(a) == Brought({w \in ws : w.to = a})
           to     == {w.to : w \in ws}
       IN  /\ Incorporate(index + 1, [a \in to |-> Credit(world.acct, a, due(a))[a]],
                          [p \in {} |-> 0], to, {})
           /\ supply' = supply + Brought(ws)
  /\ phase' = "after" /\ left' = After
  /\ UNCHANGED pools

\* process_checked_system_transaction: code must be there and must not fail
CheckedSystemTransaction ==
  /\ phase = "after" /\ left > 0
  /\ IF world.acct[System].code = EmptyCode THEN Reject
     ELSE \E e \in Effects : IF e.error THEN Reject ELSE SystemMessage(e) /\ UNCHANGED phase

\* build_block_access_list_rlp and the checks after it; the header, an input,
\* may or may not claim what was computed
Finish ==
  /\ phase = "after" /\ left = 0
  /\ list' = WithReads(list)
  /\ IF Items(list') > GasLimit \div ItemGas THEN phase' = "too long"
     ELSE phase' \in {"accepted", "rejected"}
  /\ UNCHANGED <<left, index, world, touched, slotReads, memo, pools, ghosts, supply>>

Next ==
  \/ UncheckedSystemTransaction \/ Transaction \/ ProcessWithdrawals
  \/ CheckedSystemTransaction \/ Finish
Spec == Init /\ [][Next]_vars
-----------------------------------------------------------------------------
(***************************************************************************)
(* Properties.                                                             *)
(***************************************************************************)
Recorded ==
  UNION {{<<a, "balance", i, list[a].balance[i]>> : i \in DOMAIN list[a].balance}
         \cup {<<a, "nonce", i, list[a].nonce[i]>> : i \in DOMAIN list[a].nonce}
         \cup {<<a, "code", i, list[a].code[i]>> : i \in DOMAIN list[a].code}
         \cup UNION {{<<a, k, i, list[a].stor[k][i]>> : i \in DOMAIN list[a].stor[k]} :
                     k \in DOMAIN list[a].stor} : a \in DOMAIN list}

Slots(changes) == {<<c[1], c[2]>> : c \in changes} \cap (Addr \X Slot)

\* The list says what each index changed in the end: a value that a later scope of
\* the index put back is not in it, a value that was changed is there once, with
\* what it was last (update_builder_from_tx).  Once built, it holds every account
\* touched and every slot read or changed, one item for each, and the block was
\* too long exactly if these are too many (validate_block_access_list_gas_limit).
AccessListIsNet ==
  LET changes == net \cup Changes(index, start, world)
      reads   == UNION {{<<a, k>> : k \in list[a].reads} : a \in DOMAIN list}
      items   == Cardinality(touched) + Cardinality(slotReads)
  IN  /\ Recorded = changes
      /\ phase \in {"accepted", "too long"} =>
           /\ DOMAIN list = touched
           /\ reads = slotReads \ Slots(changes)
           /\ phase = "too long" <=> items > GasLimit \div ItemGas

\* Ether is neither made nor lost by a block but for the base fee, the blob fee and
\* the withdrawals: what a sender is charged up front, what it gets back, what the
\* coinbase is given and what the message moves add up, with no subtraction below
\* zero and no product beyond 256 bits (process_transaction, check_transaction).
EtherConserved == Ether(world.acct) = supply

\* No pool of gas exceeds what the block has of it, whatever the transactions use,
\* so none of the subtractions that tell how much is left goes below zero
\* (check_transaction).
PoolsHold ==
  /\ pools.regular \in 0 .. GasLimit
  /\ pools.state \in 0 .. GasLimit
  /\ pools.blob \in 0 .. BlobMax
=============================================================================
