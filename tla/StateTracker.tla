---------------------------- MODULE StateTracker ----------------------------
(***************************************************************************)
(* The state tracker of the guest (src/guest/src/state.pnk): the write     *)
(* maps of one transaction over the write maps of the block over the       *)
(* witness, and the undo journal that rolls a failed call frame back.      *)
(*                                                                         *)
(* A TransactionState is a record tx.  Its maps are hash tables in the     *)
(* program; here tx.tab maps a table to its bindings, with Absent for a    *)
(* key the table does not hold.  Storage is two-level as in the program:   *)
(* the outer table stor binds an address to the number of an inner table,  *)
(* and inner tables are allocated by htab_new and never reused; inner      *)
(* holds them all, the key k of table i under <<i, k>>.  An undo record is *)
(* <<table, key, old binding>>, as in the journal.                         *)
(*                                                                         *)
(* tx.hist and saved are history variables.  hist[i+1] is tx.tab as it was *)
(* when the journal held i records; saved holds, for every outstanding     *)
(* snapshot, the four maps that the reference implementation would have    *)
(* copied.  No action reads either of them.                                *)
(***************************************************************************)
EXTENDS Naturals, Sequences, FiniteSets

CONSTANTS
  Addr,         \* addresses
  Slot,         \* storage keys
  CodeHash,     \* code hashes, EmptyCode among them
  EmptyCode,    \* empty_code_hash
  WordMod,      \* 2^256 in the program
  MaxNonce,     \* the largest nonce an account reaches
  JournalCap,   \* journal_cap
  MaxInner,     \* how many inner tables the heap has room for
  MaxDepth,     \* how many snapshots are outstanding at once
  None,         \* ACCT_NONE, the record of a deleted account
  Absent,       \* no binding
  PreAcct,      \* the witness: account of each address, None if missing
  PreStor,      \* the witness: value of each slot
  PreCode       \* the witness: the code preimages it holds

VARIABLES
  tx,         \* ts: the current TransactionState and the journal
  bs,         \* bs: the BlockState
  marks,      \* handles of the outstanding snapshots, outermost first
  saved,      \* history: the maps at each of those snapshots
  restoring,  \* the loop of state_restore is running, towards the last mark
  phase       \* what fork.pnk is doing with tx

vars == <<tx, bs, marks, saved, restoring, phase>>

Word    == 0 .. WordMod - 1
Account == [nonce : 0 .. MaxNonce, balance : Word, code : CodeHash]

ASSUME TrackerAssumption ==
  /\ WordMod \in Nat \ {0} /\ MaxNonce \in Nat /\ JournalCap \in Nat
  /\ MaxInner \in Nat /\ MaxDepth \in Nat
  /\ EmptyCode \in CodeHash
  /\ Absent \notin Account \cup {None} \cup CodeHash \cup Nat
  /\ None \notin Account
  /\ PreAcct \in [Addr -> Account \cup {None}]
  /\ PreStor \in [Addr -> [Slot -> Word]]
  /\ PreCode \subseteq CodeHash
-----------------------------------------------------------------------------
(***************************************************************************)
(* Tables.                                                                 *)
(***************************************************************************)
Accts  == [Addr -> Account \cup {None, Absent}]
Outers == [Addr -> 1 .. MaxInner \cup {Absent}]
Codes  == [CodeHash -> CodeHash \cup {Absent}]
Trans  == [Addr \X Slot -> Word \cup {Absent}]
Inners == [(1 .. MaxInner) \X Slot -> Word \cup {Absent}]
Tabs   == [acct : Accts, stor : Outers, code : Codes, tran : Trans, inner : Inners]

EmptyTab == [acct  |-> [a \in Addr |-> Absent],
             stor  |-> [a \in Addr |-> Absent],
             code  |-> [h \in CodeHash |-> Absent],
             tran  |-> [p \in Addr \X Slot |-> Absent],
             inner |-> [p \in (1 .. MaxInner) \X Slot |-> Absent]]

\* state_fresh_tx: empty maps, empty journal
FreshTx == [tab |-> EmptyTab, journal |-> <<>>, hist |-> <<EmptyTab>>,
            nInner |-> 0, acctReads |-> {}, storReads |-> {}, created |-> {},
            stop |-> "no"]
-----------------------------------------------------------------------------
(***************************************************************************)
(* The journal.  A trap or a thrown StateErr ends the guest's attempt at   *)
(* the block: x.stop keeps which, and no later call changes x.             *)
(***************************************************************************)
Rebind(tab, t, k, v) == [tab EXCEPT ![t] = [@ EXCEPT ![k] = v]]

Log(x, t, k, v) ==
  [x EXCEPT !.journal = Append(@, <<t, k, x.tab[t][k]>>),
            !.tab     = Rebind(@, t, k, v),
            !.hist    = Append(@, Rebind(x.tab, t, k, v))]

\* mistakes the properties must catch: no record for a key that is bound
\* already, no record for a write to an inner table
JSetNewKeysOnly(x, t, k, v) ==
  IF x.stop # "no" THEN x
  ELSE IF x.tab[t][k] # Absent THEN [x EXCEPT !.tab = Rebind(@, t, k, v)]
  ELSE IF Len(x.journal) >= JournalCap THEN [x EXCEPT !.stop = "trap4"]
  ELSE Log(x, t, k, v)

JSetInnerUnlogged(x, t, k, v) ==
  IF x.stop # "no" THEN x
  ELSE IF t = "inner" THEN [x EXCEPT !.tab = Rebind(@, t, k, v)]
  ELSE IF Len(x.journal) >= JournalCap THEN [x EXCEPT !.stop = "trap4"]
  ELSE Log(x, t, k, v)

JSet(x, t, k, v) ==
  IF x.stop # "no" THEN x
  ELSE IF Len(x.journal) >= JournalCap THEN [x EXCEPT !.stop = "trap4"]
  ELSE Log(x, t, k, v)

\* a mistake: the deletion is not recorded
JDelUnlogged(x, t, k) ==
  IF x.stop # "no" \/ x.tab[t][k] = Absent THEN x
  ELSE [x EXCEPT !.tab = Rebind(@, t, k, Absent)]

JDel(x, t, k) ==
  IF x.stop # "no" \/ x.tab[t][k] = Absent THEN x
  ELSE IF Len(x.journal) >= JournalCap THEN [x EXCEPT !.stop = "trap5"]
  ELSE Log(x, t, k, Absent)

\* one turn of the loop of state_restore: pop the last record and undo it
Undo(x) ==
  LET r == x.journal[Len(x.journal)]
  IN  [x EXCEPT !.journal = SubSeq(@, 1, Len(x.journal) - 1),
                !.tab     = Rebind(@, r[1], r[2], r[3]),
                !.hist    = SubSeq(@, 1, Len(x.journal))]
-----------------------------------------------------------------------------
(***************************************************************************)
(* Reads: the transaction's writes, then the block's, then the witness.    *)
(***************************************************************************)
PreTxAccount(b, a) == IF b.acct[a] # Absent THEN b.acct[a] ELSE PreAcct[a]

AccountOf(x, b, a) ==
  IF x.tab.acct[a] # Absent THEN x.tab.acct[a] ELSE PreTxAccount(b, a)

PreTxStorage(b, a, k) ==
  IF b.stor[a][k] # Absent THEN b.stor[a][k] ELSE PreStor[a][k]

\* the slots written at an address: stor_lookup through both levels
SlotsOf(tab, a) ==
  [k \in Slot |-> IF tab.stor[a] = Absent THEN Absent ELSE tab.inner[<<tab.stor[a], k>>]]

StorageOf(x, b, a, k) ==
  IF SlotsOf(x.tab, a)[k] # Absent THEN SlotsOf(x.tab, a)[k] ELSE PreTxStorage(b, a, k)

EmptyAccount == [nonce |-> 0, balance |-> 0, code |-> EmptyCode]
OrEmpty(r) == IF r = None THEN EmptyAccount ELSE r

ReadAcct(x, a) == [x EXCEPT !.acctReads = @ \cup {a}]
-----------------------------------------------------------------------------
(***************************************************************************)
(* Writes, on a TransactionState x over a BlockState b.                    *)
(***************************************************************************)
SetAccount(x, a, r) == JSet(x, "acct", a, r)

\* destroy_storage: the slots written become slots read, then the outer
\* binding goes; the inner table keeps its contents, for an undo
DestroyStorage(x, a) ==
  LET written == {k \in Slot : SlotsOf(x.tab, a)[k] # Absent}
  IN  IF x.stop # "no" \/ x.tab.stor[a] = Absent THEN x
      ELSE JDel([x EXCEPT !.storReads = @ \cup {<<a, k>> : k \in written}],
                "stor", a)

\* a mistake: the account goes, its storage stays
DestroyAccountOnly(x, a) == SetAccount(x, a, None)

DestroyAccount(x, a) == SetAccount(DestroyStorage(x, a), a, None)

\* modify_state_commit: EIP-161, an account left empty is destroyed
Modify(x, a, r) ==
  IF r = EmptyAccount THEN DestroyAccount(SetAccount(x, a, r), a)
  ELSE SetAccount(x, a, r)

\* what get_account returns, to be changed and committed
Got(x, b, a) == OrEmpty(AccountOf(x, b, a))

Commit(x, a, r) == Modify(ReadAcct(x, a), a, r)

\* a mistake: the inner table of the first address serves every address
SetStorageOneTable(x, b, a, k, v) ==
  LET y == ReadAcct(x, a)
  IN  IF AccountOf(x, b, a) = None THEN [y EXCEPT !.stop = "err3"]
      ELSE IF x.tab.stor[a] # Absent
           THEN JSet(y, "inner", <<x.tab.stor[a], k>>, v)
      ELSE JSet(JSet([y EXCEPT !.nInner = 1], "stor", a, 1), "inner", <<1, k>>, v)

SetStorage(x, b, a, k, v) ==
  LET y == ReadAcct(x, a)
      i == x.nInner + 1
  IN  IF AccountOf(x, b, a) = None THEN [y EXCEPT !.stop = "err3"]
      ELSE IF x.tab.stor[a] # Absent
           THEN JSet(y, "inner", <<x.tab.stor[a], k>>, v)
      ELSE IF i > MaxInner THEN [y EXCEPT !.stop = "trap1"]
      ELSE JSet(JSet([y EXCEPT !.nInner = i], "stor", a, i), "inner", <<i, k>>, v)

SetTransient(x, a, k, v) ==
  IF v = 0 THEN JDel(x, "tran", <<a, k>>) ELSE JSet(x, "tran", <<a, k>>, v)

CreateEther(x, b, a, n) ==
  Commit(x, a, [Got(x, b, a) EXCEPT !.balance = (@ + n) % WordMod])

MoveEther(x, b, s, r, n) ==
  IF Got(x, b, s).balance < n
  THEN [ReadAcct(x, s) EXCEPT !.stop = "err4"]
  ELSE CreateEther(Commit(x, s, [Got(x, b, s) EXCEPT !.balance = @ - n]), b, r, n)

SetBalance(x, b, a, n) == Commit(x, a, [Got(x, b, a) EXCEPT !.balance = n])

IncrementNonce(x, b, a) == Commit(x, a, [Got(x, b, a) EXCEPT !.nonce = @ + 1])

SetCode(x, b, a, h) ==
  Commit(IF h = EmptyCode THEN x ELSE JSet(x, "code", h, h), a,
         [Got(x, b, a) EXCEPT !.code = h])

ClearPreservingBalance(x, b, a) ==
  Commit(DestroyStorage(x, a), a, [Got(x, b, a) EXCEPT !.nonce = 0, !.code = EmptyCode])

MarkCreated(x, a) == [x EXCEPT !.created = @ \cup {a}]
-----------------------------------------------------------------------------
(***************************************************************************)
(* merge_tx_into_block.  The block's storage is kept here as one map of    *)
(* slots per address: nothing ever removes a binding of the block's maps,  *)
(* so which inner table holds it cannot be observed.                       *)
(***************************************************************************)
\* a mistake: deleted accounts are not merged
OverrideBound(f, g) ==
  [k \in DOMAIN f |-> IF g[k] \notin {None, Absent} THEN g[k] ELSE f[k]]

Override(f, g) == [k \in DOMAIN f |-> IF g[k] # Absent THEN g[k] ELSE f[k]]

\* a mistake: the code table is not merged
MergeWithoutCode(b, x) ==
  [acct |-> Override(b.acct, x.tab.acct),
   code |-> b.code,
   stor |-> [a \in Addr |-> Override(b.stor[a], SlotsOf(x.tab, a))],
   acctReads |-> b.acctReads \cup x.acctReads,
   storReads |-> b.storReads \cup x.storReads]

Merge(b, x) ==
  [acct |-> Override(b.acct, x.tab.acct),
   code |-> Override(b.code, x.tab.code),
   stor |-> [a \in Addr |-> Override(b.stor[a], SlotsOf(x.tab, a))],
   acctReads |-> b.acctReads \cup x.acctReads,
   storReads |-> b.storReads \cup x.storReads]

FreshBlock ==
  [acct |-> [a \in Addr |-> Absent],
   code |-> [h \in CodeHash |-> Absent],
   stor |-> [a \in Addr |-> [k \in Slot |-> Absent]],
   acctReads |-> {}, storReads |-> {}]

\* the four maps a rollback restores, as a reader of them sees them
View(tab) ==
  [acct |-> tab.acct,
   stor |-> [a \in Addr |-> SlotsOf(tab, a)],
   code |-> tab.code,
   tran |-> tab.tran]
-----------------------------------------------------------------------------
(***************************************************************************)
(* The behaviours, as fork.pnk and evm_calls.pnk drive the tracker.  A     *)
(* scope opens with state_fresh_tx.  A transaction takes the sender's      *)
(* nonce and gas, runs its message, settles, and is merged into the block; *)
(* in the message every write lies under an outstanding snapshot, and the  *)
(* last snapshot taken is the first rolled back or forgotten.  A system    *)
(* transaction has the message only.  Withdrawals have no message.         *)
(***************************************************************************)
Last(s)  == s[Len(s)]
Front(s) == SubSeq(s, 1, Len(s) - 1)

Init ==
  /\ tx = FreshTx /\ bs = FreshBlock
  /\ marks = <<>> /\ saved = <<>>
  /\ restoring = FALSE /\ phase = "closed"

Running == ~restoring /\ tx.stop = "no"

Do(p, y) == Running /\ phase = p /\ tx' = y
            /\ UNCHANGED <<bs, marks, saved, restoring, phase>>

\* state_fresh_tx; a scope with nothing in it may be dropped unmerged
Fresh ==
  /\ Running /\ phase \in {"closed", "open"}
  /\ tx' = FreshTx /\ phase' = "open"
  /\ UNCHANGED <<bs, marks, saved, restoring>>

\* check_transaction and the sender's debit
Debit    == \E a \in Addr, n \in Word : Do("open", SetBalance(tx, bs, a, n))
TakeNonce(p) == \E a \in Addr : /\ Got(tx, bs, a).nonce < MaxNonce
                                /\ Do(p, IncrementNonce(tx, bs, a))
BumpNonce == TakeNonce("open") \/ TakeNonce("message")

ReadAccount == \E a \in Addr : Do("message", ReadAcct(tx, a))

\* a mistake: a slot read is not recorded
SloadUnrecorded(x, a, k) == x

\* op_sload; op_sstore reads the slot before it writes it
Sload(x, a, k) == [x EXCEPT !.storReads = @ \cup {<<a, k>>}]
ReadStorage  == \E a \in Addr, k \in Slot : Do("message", Sload(tx, a, k))
WriteStorage == \E a \in Addr, k \in Slot, v \in Word :
                  Do("message", SetStorage(Sload(tx, a, k), bs, a, k, v))
WriteTransient == \E a \in Addr, k \in Slot, v \in Word :
                    Do("message", SetTransient(tx, a, k, v))
Transfer == \E s, r \in Addr, n \in Word : Do("message", MoveEther(tx, bs, s, r, n))
InstallCode == \E a \in Addr, h \in CodeHash : Do("message", SetCode(tx, bs, a, h))

\* start_child and process_create_message: a new contract's account is reset,
\* marked created and given its first nonce
StartCreate ==
  \E a \in Addr :
    /\ Got(tx, bs, a).nonce < MaxNonce
    /\ Do("message", IncrementNonce(MarkCreated(DestroyStorage(tx, a), a), bs, a))

\* the refund, the fee, and the accounts that selfdestructed
Credit == \E a \in Addr, n \in Word : Do("settling", CreateEther(tx, bs, a, n))
Clear  == \E a \in tx.created : Do("settling", ClearPreservingBalance(tx, bs, a))

\* process_withdrawals: a credit nothing can roll back drops its undo records
Withdraw ==
  \E a \in Addr, n \in Word :
    LET y == CreateEther(tx, bs, a, n) IN
      /\ Running /\ phase \in {"open", "withdrawing"}
      /\ tx' = IF y.stop # "no" THEN y
               ELSE [y EXCEPT !.journal = <<>>, !.hist = <<y.tab>>]
      /\ phase' = "withdrawing"
      /\ UNCHANGED <<bs, marks, saved, restoring>>

Snapshot ==
  /\ Running /\ phase \in {"open", "message"} /\ Len(marks) < MaxDepth
  /\ marks' = Append(marks, Len(tx.journal))
  /\ saved' = Append(saved, View(tx.tab))
  /\ phase' = "message"
  /\ UNCHANGED <<tx, bs, restoring>>

Pop ==
  /\ marks' = Front(marks) /\ saved' = Front(saved)
  /\ phase' = IF Len(marks) = 1 THEN "settling" ELSE phase
  /\ UNCHANGED <<tx, bs>>

\* the frame succeeded: its handle is forgotten, its records stay
Keep == Running /\ phase = "message" /\ Pop /\ UNCHANGED restoring

BeginRestore ==
  /\ Running /\ phase = "message"
  /\ restoring' = TRUE
  /\ UNCHANGED <<tx, bs, marks, saved, phase>>

\* a mistake: the loop undoes one record too many
UndoOneMore ==
  /\ restoring /\ Len(tx.journal) >= Last(marks) /\ tx.journal # <<>>
  /\ tx' = Undo(tx)
  /\ UNCHANGED <<bs, marks, saved, restoring, phase>>

UndoOne ==
  /\ restoring /\ Len(tx.journal) > Last(marks)
  /\ tx' = Undo(tx)
  /\ UNCHANGED <<bs, marks, saved, restoring, phase>>

EndRestore ==
  /\ restoring /\ Len(tx.journal) <= Last(marks)
  /\ restoring' = FALSE /\ Pop

Incorporate ==
  /\ Running /\ phase \in {"open", "settling", "withdrawing"}
  /\ bs' = Merge(bs, tx) /\ phase' = "closed"
  /\ UNCHANGED <<tx, marks, saved, restoring>>

Next ==
  \/ Fresh \/ ReadAccount \/ ReadStorage \/ WriteStorage \/ WriteTransient
  \/ Transfer \/ Debit \/ Credit \/ BumpNonce \/ InstallCode \/ Clear
  \/ StartCreate \/ Withdraw \/ Snapshot \/ Keep
  \/ BeginRestore \/ UndoOne \/ EndRestore \/ Incorporate

Spec == Init /\ [][Next]_vars
-----------------------------------------------------------------------------
(***************************************************************************)
(* Properties.                                                             *)
(***************************************************************************)
Records == {"acct"} \X Addr \X (Account \cup {None, Absent})
           \cup {"stor"} \X Addr \X (1 .. MaxInner \cup {Absent})
           \cup {"code"} \X CodeHash \X (CodeHash \cup {Absent})
           \cup {"tran"} \X (Addr \X Slot) \X (Word \cup {Absent})
           \cup {"inner"} \X ((1 .. MaxInner) \X Slot) \X (Word \cup {Absent})
TxState == [tab : Tabs, journal : Seq(Records), hist : Seq(Tabs), nInner : 0 .. MaxInner,
            acctReads : SUBSET Addr, storReads : SUBSET (Addr \X Slot),
            created : SUBSET Addr,
            stop : {"no", "trap1", "trap4", "trap5", "err3", "err4"}]
BlockState == [acct : [Addr -> Account \cup {None, Absent}],
               code : [CodeHash -> CodeHash \cup {Absent}],
               stor : [Addr -> [Slot -> Word \cup {Absent}]],
               acctReads : SUBSET Addr, storReads : SUBSET (Addr \X Slot)]

\* The maps hold bindings of their kind, every undo record names a table, a
\* key of it and a binding it may have held, and the handles of the
\* outstanding snapshots are in order and none lies beyond the journal.
TypeOK ==
  /\ tx \in TxState /\ Len(tx.journal) <= JournalCap
  /\ bs \in BlockState
  /\ marks \in Seq(Nat) /\ Len(saved) = Len(marks)
  /\ \A i \in 1 .. Len(marks) : marks[i] <= Len(tx.journal)
  /\ \A i \in 1 .. Len(marks) : \A j \in 1 .. i : marks[j] <= marks[i]
  /\ phase \in {"closed", "open", "message", "settling", "withdrawing"}
  /\ phase = "message" <=> marks # <<>>
  /\ restoring \in BOOLEAN /\ (restoring => phase = "message")

\* The journal can be replayed backwards: undoing its last i records gives the
\* tables as they were i records ago, and at the length an outstanding snapshot
\* recorded, the maps the reference would have copied (state_restore).
Replays(x) ==
  /\ Len(x.hist) = Len(x.journal) + 1
  /\ x.hist[Len(x.hist)] = x.tab
  /\ \A i \in 1 .. Len(x.journal) :
       LET r == x.journal[i]
       IN  x.hist[i] = Rebind(x.hist[i + 1], r[1], r[2], r[3])
HistoryOK ==
  /\ Replays(tx)
  /\ \A i \in 1 .. Len(marks) : View(tx.hist[marks[i] + 1]) = saved[i]

\* No inner storage table belongs to two addresses, at any length of the
\* journal, and a table not yet allocated is empty: a slot written for one
\* address never shows at another, also after a rollback brings back an outer
\* binding that destroy_storage dropped.
OwnedTables(tab, n) ==
  /\ \A a \in Addr : tab.stor[a] # Absent => tab.stor[a] \in 1 .. n
  /\ \A a, b \in Addr : tab.stor[a] = tab.stor[b] /\ a # b => tab.stor[a] = Absent
  /\ \A i \in n + 1 .. MaxInner : \A k \in Slot : tab.inner[<<i, k>>] = Absent
Owned(x) == \A i \in 1 .. Len(x.hist) : OwnedTables(x.hist[i], x.nInner)
NoSharedTable == Owned(tx)

\* When the loop of state_restore stops, the four maps are what they were when
\* the snapshot was taken, whatever was written, destroyed or re-created since.
RollbackExact ==
  restoring /\ Len(tx.journal) <= Last(marks) => View(tx.tab) = Last(saved)

\* The tracker implements the copying reference (state.pnk:1-6).
Reference == INSTANCE SnapshotStore WITH
  cur   <- IF tx.stop # "no" THEN <<>>
           ELSE IF restoring THEN Last(saved) ELSE View(tx.tab),
  stack <- IF restoring THEN Front(saved) ELSE saved
RefinesReference == Reference!Spec

\* An account with slots written in this transaction exists: deleting it
\* (destroy_account) drops them, and no rollback brings back one without the
\* other.
StorageHasAccount ==
  Running => \A a \in Addr : tx.tab.stor[a] # Absent => AccountOf(tx, bs, a) # None

\* The code of every account can be found: get_code never meets a hash that
\* neither the transaction, nor the block, nor the witness has the preimage of,
\* although the frame that first recorded it may have been rolled back.
CodeResolvable ==
  Running => \A a \in Addr :
    LET h == Got(tx, bs, a).code
    IN  \/ h \in PreCode \cup {EmptyCode}
        \/ tx.tab.code[h] # Absent \/ bs.code[h] # Absent

\* What a transaction has touched stays on record until the block layer has
\* it, through rollbacks and destroyed storage: the block access list names
\* every account and slot, also those of failed frames.
Written(x) == {p \in Addr \X Slot : SlotsOf(x.tab, p[1])[p[2]] # Absent}
Touched(x) == <<x.acctReads, x.storReads \cup Written(x), x.created>>
TouchedNeverForgotten ==
  [][ \/ Fresh
      \/ \A i \in 1 .. 3 : Touched(tx)[i] \subseteq Touched(tx')[i] ]_vars

\* The next scope reads through the block layer exactly what the merged one
\* read through its own: merge_tx_into_block loses and invents nothing.
MergeKeepsReads ==
  [][ Incorporate =>
        \A a \in Addr :
          /\ AccountOf(FreshTx, bs', a) = AccountOf(tx, bs, a)
          /\ \A k \in Slot : StorageOf(FreshTx, bs', a, k) = StorageOf(tx, bs, a, k)
    ]_vars
=============================================================================
