---------------------------- MODULE BlockProofs ----------------------------
(***************************************************************************)
(* No pool of gas runs over, the access list is net and the ether of a     *)
(* block is conserved, for every set of transactions, every effect of      *)
(* their messages and every use of gas that Frames allows.                 *)
(***************************************************************************)
EXTENDS Block, FiniteSetTheorems, TLAPS

\* the inductive invariant: PoolsHold, and that pools is the record it is
Pools == [regular : 0 .. GasLimit, state : 0 .. GasLimit, blob : 0 .. BlobMax, paid : Int]
PoolsOK == pools \in Pools

\* What the assumption says of one transaction and one use.
LEMMA Amounts ==
  ASSUME NEW t \in Txs, NEW u \in Uses
  PROVE  /\ t.gas \in Nat /\ t.blobGas \in Nat /\ t.intrinsic \in Nat
         /\ t.intrinsicState \in Nat /\ t.floor \in Nat
         /\ u.regular \in Nat /\ u.state \in Int /\ u.refund \in Nat
         /\ GasLimit \in Nat /\ TxMax \in Nat /\ BlobMax \in Nat /\ GasMod \in Nat
BY BlockAssumption DEF TxFields

\* The subtraction that gives the regular gas of a transaction does not go below
\* zero, and the result is within what check_transaction asked the pool for: the
\* regular gas of a message lies within the cap, the floor within both the cap and
\* the gas of the transaction.
LEMMA RegularWithinCap ==
  ASSUME NEW t \in Txs, NEW u \in Uses, Validates(t), MayUse(t, u)
  PROVE  RegularGas(t, u) \in 0 .. Least(TxMax, t.gas)
<1> DEFINE used == UsedBeforeRefund(t, u)
<1>1. /\ used \in Int /\ StateGas(t, u) \in Int /\ StateGas(t, u) = t.intrinsicState + u.state
      /\ used - StateGas(t, u) = t.intrinsic + u.regular
  BY Amounts DEF UsedBeforeRefund, StateGas, MayUse, Most
<1>2. /\ t.intrinsic + u.regular \in 0 .. t.gas
      /\ t.intrinsic + u.regular <= TxMax
  BY Amounts DEF Validates, MayUse, MessageGas, Least
<1>3. Minus(used, StateGas(t, u), GasMod) = t.intrinsic + u.regular
  BY <1>1, <1>2, Amounts DEF Minus
<1>4. RegularGas(t, u) = Most(t.intrinsic + u.regular, t.floor)
  BY <1>3 DEF RegularGas
<1>5. t.floor <= TxMax /\ t.floor <= t.gas
  BY DEF Validates
<1>6. QED BY <1>2, <1>4, <1>5, Amounts DEF Most, Least

\* State gas, clamped at zero, is within the gas of the transaction.
LEMMA StateWithinGas ==
  ASSUME NEW t \in Txs, NEW u \in Uses, Validates(t), MayUse(t, u)
  PROVE  StateGas(t, u) \in 0 .. t.gas
BY Amounts DEF StateGas, Validates, MayUse, Most

\* The three pools after a transaction that check_transaction let pass.
LEMMA TransactionKeepsPools ==
  ASSUME pools \in Pools, NEW t \in Txs, NEW u \in Uses, NEW e,
         Checks(t), ProcessTransaction(t, e, u)
  PROVE  pools' \in Pools
<1>1. Validates(t) /\ HasRoom(t) /\ MayUse(t, u)
  BY DEF Checks, ProcessTransaction
<1>2. RegularGas(t, u) \in 0 .. Least(TxMax, t.gas) /\ StateGas(t, u) \in 0 .. t.gas
  BY <1>1, RegularWithinCap, StateWithinGas
<1>3. /\ pools.regular \in 0 .. GasLimit /\ pools.state \in 0 .. GasLimit
      /\ pools.blob \in 0 .. BlobMax /\ pools.paid \in Int
  BY DEF Pools
<1>4. /\ Least(TxMax, t.gas) <= GasLimit - pools.regular
      /\ t.gas <= GasLimit - pools.state
      /\ t.blobGas <= BlobMax - pools.blob
  BY <1>1, <1>3, Amounts DEF HasRoom, Minus
<1>5. Least(TxMax, t.gas) \in Nat
  BY Amounts DEF Least
<1>6. /\ pools.regular + RegularGas(t, u) \in 0 .. GasLimit
      /\ pools.state + StateGas(t, u) \in 0 .. GasLimit
      /\ pools.blob + t.blobGas \in 0 .. BlobMax
  BY <1>2, <1>3, <1>4, <1>5, Amounts
<1>7. UsedBeforeRefund(t, u) \in Int
  BY Amounts DEF UsedBeforeRefund
<1>8. GasUsed(t, u) \in Int
  <2>1. UsedBeforeRefund(t, u) \div 5 \in Int
    BY <1>7
  <2>2. Least(UsedBeforeRefund(t, u) \div 5, u.refund) \in Int
    BY <2>1, Amounts DEF Least
  <2>3. QED BY <1>7, <2>2, Amounts DEF GasUsed, Most
<1>9. pools' = [pools EXCEPT !.regular = @ + RegularGas(t, u), !.state = @ + StateGas(t, u),
                             !.blob = @ + t.blobGas, !.paid = @ + GasUsed(t, u)]
  BY DEF ProcessTransaction
<1>10. pools' = [regular |-> pools.regular + RegularGas(t, u),
                 state |-> pools.state + StateGas(t, u),
                 blob |-> pools.blob + t.blobGas, paid |-> pools.paid + GasUsed(t, u)]
  BY <1>9 DEF Pools
<1>11. pools.paid + GasUsed(t, u) \in Int
  BY <1>3, <1>8
<1>12. QED BY <1>6, <1>10, <1>11 DEF Pools

LEMMA InitPools == Init => PoolsOK
BY BlockAssumption DEF Init, Pools, PoolsOK

LEMMA NextPools == PoolsOK /\ [Next]_vars => PoolsOK'
<1> SUFFICES ASSUME PoolsOK, [Next]_vars PROVE PoolsOK'
  OBVIOUS
<1> USE DEF PoolsOK
<1>1. CASE UncheckedSystemTransaction
  BY <1>1 DEF UncheckedSystemTransaction, SystemMessage
<1>2. CASE Transaction
  <2> PICK t \in Txs :
        IF Checks(t) THEN /\ \E e \in Effects, u \in Uses : ProcessTransaction(t, e, u)
                          /\ UNCHANGED <<phase, left>>
        ELSE Reject
    BY <1>2 DEF Transaction
  <2>1. CASE Checks(t)
    <3> PICK e \in Effects, u \in Uses : ProcessTransaction(t, e, u)
      BY <2>1
    <3> QED BY <2>1, TransactionKeepsPools
  <2>2. CASE ~Checks(t)
    BY <2>2 DEF Reject
  <2>3. QED BY <2>1, <2>2
<1>3. CASE ProcessWithdrawals
  BY <1>3 DEF ProcessWithdrawals
<1>4. CASE CheckedSystemTransaction
  BY <1>4 DEF CheckedSystemTransaction, SystemMessage, Reject
<1>5. CASE Finish
  BY <1>5 DEF Finish
<1>6. CASE UNCHANGED vars
  BY <1>6 DEF vars
<1>7. QED BY <1>1, <1>2, <1>3, <1>4, <1>5, <1>6 DEF Next

\* No pool of gas ever exceeds what the block has of it (check_transaction,
\* process_transaction).
THEOREM PoolsAlwaysHold == Spec => []PoolsHold
<1>1. PoolsOK => PoolsHold
  BY DEF Pools, PoolsOK, PoolsHold
<1>2. QED BY <1>1, InitPools, NextPools, PTL DEF Spec

\* A transaction pays for at least its floor and for no more than its gas limit, so
\* that what is left to give back to the sender is not negative (process_transaction).
THEOREM RefundNotNegative ==
  ASSUME NEW t \in Txs, NEW u \in Uses, Validates(t), MayUse(t, u)
  PROVE  /\ GasUsed(t, u) \in t.floor .. t.gas
         /\ Minus(t.gas, GasUsed(t, u), GasMod) = t.gas - GasUsed(t, u)
<1>1. UsedBeforeRefund(t, u) \in 0 .. t.gas
  BY Amounts DEF UsedBeforeRefund, MayUse
<1>2. UsedBeforeRefund(t, u) \div 5 \in 0 .. UsedBeforeRefund(t, u)
  BY <1>1
<1>3. Least(UsedBeforeRefund(t, u) \div 5, u.refund) \in 0 .. UsedBeforeRefund(t, u)
  BY <1>1, <1>2, Amounts DEF Least
<1>4. t.floor <= t.gas
  BY DEF Validates
<1>5. GasUsed(t, u) \in t.floor .. t.gas
  BY <1>1, <1>3, <1>4, Amounts DEF GasUsed, Most
<1>6. QED BY <1>5, Amounts DEF Minus
-----------------------------------------------------------------------------
(***************************************************************************)
(* The access list.                                                        *)
(***************************************************************************)
Fields == {"balance", "nonce", "code"}
RowFields == Fields \cup {"stor", "reads"}

\* Entry v at index j of a field or a slot f of account a: of a list, and, when it
\* is j's, of what makes one world of another.
Has(l, a, f, j, v) ==
  /\ a \in DOMAIN l
  /\ \/ f \in Fields /\ j \in DOMAIN l[a][f] /\ v = l[a][f][j]
     \/ f \in DOMAIN l[a].stor /\ j \in DOMAIN l[a].stor[f] /\ v = l[a].stor[f][j]
Differs(w, u, a, f, v) ==
  \/ a \in Addr /\ f \in Fields /\ w.acct[a][f] # u.acct[a][f] /\ v = u.acct[a][f]
  \/ a \in Addr /\ f \in Slot /\ w.stor[<<a, f>>] # u.stor[<<a, f>>] /\ v = u.stor[<<a, f>>]

\* Recorded, of any list.
RecordedIn(l) ==
  UNION {{<<a, "balance", i, l[a].balance[i]>> : i \in DOMAIN l[a].balance}
         \cup {<<a, "nonce", i, l[a].nonce[i]>> : i \in DOMAIN l[a].nonce}
         \cup {<<a, "code", i, l[a].code[i]>> : i \in DOMAIN l[a].code}
         \cup UNION {{<<a, k, i, l[a].stor[k][i]>> : i \in DOMAIN l[a].stor[k]} :
                     k \in DOMAIN l[a].stor} : a \in DOMAIN l}

LEMMA RecordedHas ==
  ASSUME NEW l, NEW c
  PROVE  c \in RecordedIn(l) <=> \E a, f, j, v : c = <<a, f, j, v>> /\ Has(l, a, f, j, v)
<1> DEFINE bal(a) == {<<a, "balance", i, l[a].balance[i]>> : i \in DOMAIN l[a].balance}
           non(a) == {<<a, "nonce", i, l[a].nonce[i]>> : i \in DOMAIN l[a].nonce}
           cod(a) == {<<a, "code", i, l[a].code[i]>> : i \in DOMAIN l[a].code}
           slo(a) == UNION {{<<a, k, i, l[a].stor[k][i]>> : i \in DOMAIN l[a].stor[k]} :
                            k \in DOMAIN l[a].stor}
<1>1. RecordedIn(l) = UNION {bal(a) \cup non(a) \cup cod(a) \cup slo(a) : a \in DOMAIN l}
  BY DEF RecordedIn
<1>2. c \in RecordedIn(l) <=>
        \E a \in DOMAIN l : c \in bal(a) \/ c \in non(a) \/ c \in cod(a) \/ c \in slo(a)
  <2> HIDE DEF bal, non, cod, slo
  <2> QED BY <1>1
<1>3. ASSUME NEW a
      PROVE  /\ c \in bal(a) <=> \E j \in DOMAIN l[a].balance :
                                   c = <<a, "balance", j, l[a].balance[j]>>
             /\ c \in non(a) <=> \E j \in DOMAIN l[a].nonce :
                                   c = <<a, "nonce", j, l[a].nonce[j]>>
             /\ c \in cod(a) <=> \E j \in DOMAIN l[a].code :
                                   c = <<a, "code", j, l[a].code[j]>>
             /\ c \in slo(a) <=> \E k \in DOMAIN l[a].stor : \E j \in DOMAIN l[a].stor[k] :
                                   c = <<a, k, j, l[a].stor[k][j]>>
  OBVIOUS
<1> HIDE DEF bal, non, cod, slo
<1>4. ASSUME c \in RecordedIn(l)
      PROVE  \E a, f, j, v : c = <<a, f, j, v>> /\ Has(l, a, f, j, v)
  <2> PICK a \in DOMAIN l : c \in bal(a) \/ c \in non(a) \/ c \in cod(a) \/ c \in slo(a)
    BY <1>2, <1>4
  <2>1. CASE c \in bal(a)
    <3> PICK j \in DOMAIN l[a].balance : c = <<a, "balance", j, l[a].balance[j]>>
      BY <2>1, <1>3
    <3>1. Has(l, a, "balance", j, l[a].balance[j])
      BY DEF Has, Fields
    <3> QED BY <3>1
  <2>2. CASE c \in non(a)
    <3> PICK j \in DOMAIN l[a].nonce : c = <<a, "nonce", j, l[a].nonce[j]>>
      BY <2>2, <1>3
    <3>1. Has(l, a, "nonce", j, l[a].nonce[j])
      BY DEF Has, Fields
    <3> QED BY <3>1
  <2>3. CASE c \in cod(a)
    <3> PICK j \in DOMAIN l[a].code : c = <<a, "code", j, l[a].code[j]>>
      BY <2>3, <1>3
    <3>1. Has(l, a, "code", j, l[a].code[j])
      BY DEF Has, Fields
    <3> QED BY <3>1
  <2>4. CASE c \in slo(a)
    <3> PICK k \in DOMAIN l[a].stor :
               \E j \in DOMAIN l[a].stor[k] : c = <<a, k, j, l[a].stor[k][j]>>
      BY <2>4, <1>3
    <3> PICK j \in DOMAIN l[a].stor[k] : c = <<a, k, j, l[a].stor[k][j]>>
      OBVIOUS
    <3>1. Has(l, a, k, j, l[a].stor[k][j])
      BY DEF Has
    <3> QED BY <3>1
  <2> QED BY <2>1, <2>2, <2>3, <2>4
<1>5. ASSUME NEW a, NEW f, NEW j, NEW v, c = <<a, f, j, v>>, Has(l, a, f, j, v)
      PROVE  c \in RecordedIn(l)
  <2>1. a \in DOMAIN l
    BY <1>5 DEF Has
  <2>2. CASE f \in Fields /\ j \in DOMAIN l[a][f] /\ v = l[a][f][j]
    <3>1. c \in bal(a) \/ c \in non(a) \/ c \in cod(a)
      BY <1>3, <1>5, <2>2 DEF Fields
    <3> QED BY <3>1, <2>1, <1>2
  <2>3. CASE f \in DOMAIN l[a].stor /\ j \in DOMAIN l[a].stor[f] /\ v = l[a].stor[f][j]
    <3>1. c \in slo(a)
      BY <1>3, <1>5, <2>3
    <3> QED BY <3>1, <2>1, <1>2
  <2> QED BY <1>5, <2>2, <2>3 DEF Has
<1> QED BY <1>4, <1>5

LEMMA ChangesDiffer ==
  ASSUME NEW i, NEW w, NEW u, NEW c
  PROVE  c \in Changes(i, w, u) <=>
           \E a, f, v : c = <<a, f, i, v>> /\ Differs(w, u, a, f, v)
<1> DEFINE slo == SlotChanges(i, w, u)
<1>1. c \in Changes(i, w, u) <=> (c \in FieldChanges(i, w, u) \/ c \in slo)
  BY DEF Changes
<1>3. c \in FieldChanges(i, w, u) <=>
        \E a \in Addr, f \in Fields : /\ w.acct[a][f] # u.acct[a][f]
                                      /\ c = <<a, f, i, u.acct[a][f]>>
  BY DEF FieldChanges, Fields
<1>4. c \in slo <=> \E a \in Addr, k \in Slot : /\ w.stor[<<a, k>>] # u.stor[<<a, k>>]
                                                /\ c = <<a, k, i, u.stor[<<a, k>>]>>
  <2>1. c \in slo <=> \E p \in Addr \X Slot : /\ w.stor[p] # u.stor[p]
                                              /\ c = <<p[1], p[2], i, u.stor[p]>>
    BY DEF SlotChanges
  <2> HIDE DEF slo
  <2>2. ASSUME c \in slo
        PROVE  \E a \in Addr, k \in Slot : /\ w.stor[<<a, k>>] # u.stor[<<a, k>>]
                                            /\ c = <<a, k, i, u.stor[<<a, k>>]>>
    <3> PICK p \in Addr \X Slot : w.stor[p] # u.stor[p] /\ c = <<p[1], p[2], i, u.stor[p]>>
      BY <2>1, <2>2
    <3> PICK a \in Addr, k \in Slot : p = <<a, k>>
      OBVIOUS
    <3>1. p[1] = a /\ p[2] = k
      OBVIOUS
    <3> QED BY <3>1
  <2>3. ASSUME NEW a \in Addr, NEW k \in Slot, w.stor[<<a, k>>] # u.stor[<<a, k>>],
               c = <<a, k, i, u.stor[<<a, k>>]>>
        PROVE  c \in slo
    <3>1. <<a, k>> \in Addr \X Slot /\ <<a, k>>[1] = a /\ <<a, k>>[2] = k
      OBVIOUS
    <3> QED BY <2>1, <2>3, <3>1
  <2> QED BY <2>2, <2>3
<1> HIDE DEF slo
<1>5. ASSUME c \in Changes(i, w, u)
      PROVE  \E a, f, v : c = <<a, f, i, v>> /\ Differs(w, u, a, f, v)
  <2>1. CASE c \in slo
    <3> PICK a \in Addr, k \in Slot : /\ w.stor[<<a, k>>] # u.stor[<<a, k>>]
                                      /\ c = <<a, k, i, u.stor[<<a, k>>]>>
      BY <2>1, <1>4
    <3>1. Differs(w, u, a, k, u.stor[<<a, k>>])
      BY DEF Differs
    <3> QED BY <3>1
  <2>2. CASE c \in FieldChanges(i, w, u)
    <3> PICK a \in Addr, f \in Fields : /\ w.acct[a][f] # u.acct[a][f]
                                        /\ c = <<a, f, i, u.acct[a][f]>>
      BY <2>2, <1>3
    <3>1. Differs(w, u, a, f, u.acct[a][f])
      BY DEF Differs
    <3> QED BY <3>1
  <2> QED BY <1>1, <1>5, <2>1, <2>2
<1>6. ASSUME NEW a, NEW f, NEW v, c = <<a, f, i, v>>, Differs(w, u, a, f, v)
      PROVE  c \in Changes(i, w, u)
  <2>1. CASE a \in Addr /\ f \in Fields /\ w.acct[a][f] # u.acct[a][f] /\ v = u.acct[a][f]
    BY <2>1, <1>1, <1>3, <1>6
  <2>2. CASE /\ a \in Addr /\ f \in Slot /\ w.stor[<<a, f>>] # u.stor[<<a, f>>]
             /\ v = u.stor[<<a, f>>]
    BY <2>2, <1>1, <1>4, <1>6
  <2> QED BY <1>6, <2>1, <2>2 DEF Differs
<1> QED BY <1>5, <1>6

\* A row has its five parts, and only slots that changed.
RowOK(e) ==
  /\ DOMAIN e = RowFields
  /\ DOMAIN e.stor \subseteq Slot
  /\ \A k \in DOMAIN e.stor : DOMAIN e.stor[k] # {}
RowsOK(l) == \A a \in DOMAIN l : RowOK(l[a])

\* An index is noted with the value after it exactly if that differs from the one
\* before; the other indices stay.
LEMMA NoteIs ==
  ASSUME NEW ch, NEW i, NEW pre, NEW post, NEW j
  PROVE  LET n == Note(ch, i, pre, post)
         IN  /\ j \in DOMAIN n <=> ((j = i /\ pre # post) \/ (j # i /\ j \in DOMAIN ch))
             /\ j \in DOMAIN n => n[j] = IF j = i THEN post ELSE ch[j]
BY DEF Note, Upsert, Withdraw

\* The changes of a field or a slot; one that never changed has none.
SlotNoted(stor, k) == IF k \in DOMAIN stor THEN stor[k] ELSE NoChange
Row(l, a) == IF a \in DOMAIN l THEN l[a] ELSE NoAccount
NotedIn(e, f) == IF f \in Fields THEN e[f] ELSE SlotNoted(e.stor, f)
Noted(l, a, f) == NotedIn(Row(l, a), f)

\* What is held, or written, of a field or a slot.
Writes(acct, stor, a, f) == IF f \in Fields THEN a \in DOMAIN acct ELSE <<a, f>> \in DOMAIN stor
Value(acct, stor, a, f)  == IF f \in Fields THEN acct[a][f] ELSE stor[<<a, f>>]

LEMMA NoteSlotsShape ==
  ASSUME NEW stor, NEW i, NEW pre, NEW post
  PROVE  LET r == NoteSlots(stor, i, pre, post)
         IN  /\ DOMAIN r \subseteq DOMAIN stor \cup DOMAIN post
             /\ \A k \in DOMAIN r : DOMAIN r[k] # {}
BY DEF NoteSlots

\* The same as NoteIs, of the slots of an account.
LEMMA NoteSlotsIs ==
  ASSUME NEW stor, NEW i, NEW pre, NEW post, NEW k, NEW j
  PROVE  LET r == NoteSlots(stor, i, pre, post)
             n == SlotNoted(r, k)
         IN  /\ j \in DOMAIN n <=> \/ k \in DOMAIN post /\ j = i /\ pre[k] # post[k]
                                  \/ /\ ~(k \in DOMAIN post /\ j = i)
                                     /\ j \in DOMAIN SlotNoted(stor, k)
             /\ j \in DOMAIN n => n[j] = IF k \in DOMAIN post /\ j = i THEN post[k]
                                        ELSE SlotNoted(stor, k)[j]
<1> DEFINE changes(x) == IF x \in DOMAIN stor THEN stor[x] ELSE NoChange
           after(x) == IF x \in DOMAIN post THEN Note(changes(x), i, pre[x], post[x])
                       ELSE changes(x)
           r == NoteSlots(stor, i, pre, post)
           n == SlotNoted(r, k)
<1>1. r = [x \in {x \in DOMAIN stor \cup DOMAIN post : DOMAIN after(x) # {}} |-> after(x)]
  BY DEF NoteSlots
<1>2. /\ changes(k) = SlotNoted(stor, k)
      /\ k \notin DOMAIN stor => DOMAIN changes(k) = {}
  BY DEF NoChange, SlotNoted
<1> HIDE DEF changes
<1>3. /\ j \in DOMAIN after(k) <=> \/ k \in DOMAIN post /\ j = i /\ pre[k] # post[k]
                                   \/ /\ ~(k \in DOMAIN post /\ j = i)
                                      /\ j \in DOMAIN changes(k)
      /\ j \in DOMAIN after(k) => after(k)[j] = IF k \in DOMAIN post /\ j = i THEN post[k]
                                                ELSE changes(k)[j]
  <2>1. CASE k \in DOMAIN post
    BY <2>1, NoteIs
  <2>2. CASE k \notin DOMAIN post
    BY <2>2
  <2> QED BY <2>1, <2>2
<1>4. k \notin DOMAIN stor \cup DOMAIN post => DOMAIN after(k) = {}
  BY <1>2
<1> HIDE DEF after, r
<1>5. /\ DOMAIN r = {x \in DOMAIN stor \cup DOMAIN post : DOMAIN after(x) # {}}
      /\ \A x \in DOMAIN r : r[x] = after(x)
  BY <1>1
<1>6. /\ j \in DOMAIN n <=> j \in DOMAIN after(k)
      /\ j \in DOMAIN n => n[j] = after(k)[j]
  <2>1. CASE k \in DOMAIN r
    BY <2>1, <1>5 DEF SlotNoted
  <2>2. CASE k \notin DOMAIN r
    <3>1. DOMAIN after(k) = {}
      BY <2>2, <1>4, <1>5
    <3>2. DOMAIN n = {}
      BY <2>2 DEF SlotNoted, NoChange
    <3> QED BY <3>1, <3>2
  <2> QED BY <2>1, <2>2
<1> HIDE DEF n
<1>7. /\ j \in DOMAIN n <=> \/ k \in DOMAIN post /\ j = i /\ pre[k] # post[k]
                            \/ /\ ~(k \in DOMAIN post /\ j = i)
                               /\ j \in DOMAIN SlotNoted(stor, k)
      /\ j \in DOMAIN n => n[j] = IF k \in DOMAIN post /\ j = i THEN post[k]
                                 ELSE SlotNoted(stor, k)[j]
  BY <1>2, <1>3, <1>6
<1> QED BY <1>7 DEF n, r

\* An index under which a field or a slot is written has an entry of it exactly if what
\* is written differs from what the index began with; all other entries stay.
Updated(l, m, i, pa, ps, acct, stor, a, f, j) ==
  LET n == Noted(m, a, f)
      w == Writes(acct, stor, a, f)
  IN  /\ DOMAIN l \subseteq DOMAIN m
      /\ DOMAIN m \subseteq DOMAIN l \cup DOMAIN acct \cup {p[1] : p \in DOMAIN stor}
      /\ a \in DOMAIN m =>
           /\ RowOK(m[a])
           /\ DOMAIN m[a].stor \subseteq
                DOMAIN Row(l, a).stor \cup {k \in Slot : <<a, k>> \in DOMAIN stor}
      /\ j \in DOMAIN n <=>
           \/ w /\ j = i /\ Value(pa, ps, a, f) # Value(acct, stor, a, f)
           \/ ~(w /\ j = i) /\ j \in DOMAIN Noted(l, a, f)
      /\ j \in DOMAIN n =>
           n[j] = IF w /\ j = i THEN Value(acct, stor, a, f) ELSE Noted(l, a, f)[j]

LEMMA UpdateListIs ==
  ASSUME NEW l, NEW i, NEW pa, NEW ps, NEW acct, NEW stor, NEW a, NEW f \in Fields \cup Slot,
         NEW j,
         RowsOK(l), DOMAIN acct \subseteq Addr, DOMAIN stor \subseteq Addr \X Slot,
         a \in DOMAIN acct => i \notin DOMAIN Row(l, a).nonce
  PROVE  Updated(l, UpdateList(l, i, pa, ps, acct, stor), i, pa, ps, acct, stor, a, f, j)
<1> DEFINE slots(b)   == {p \in DOMAIN stor : p[1] = b}
           changed(b) == \/ b \in DOMAIN acct /\ acct[b] # pa[b]
                         \/ \E p \in slots(b) : stor[p] # ps[p]
           entry(b)   == IF b \in DOMAIN l THEN l[b] ELSE NoAccount
           written(e, b) ==
             IF b \notin DOMAIN acct THEN e
             ELSE [e EXCEPT !.balance = Note(@, i, pa[b].balance, acct[b].balance),
                            !.nonce   = NoteNonce(@, i, pa[b].nonce, acct[b].nonce),
                            !.code    = Note(@, i, pa[b].code, acct[b].code)]
           before(b) == [k \in Slot |-> ps[<<b, k>>]]
           now(b)    == [k \in {p[2] : p \in slots(b)} |-> stor[<<b, k>>]]
           stored(e, b) == [e EXCEPT !.stor = NoteSlots(@, i, before(b), now(b))]
           m == UpdateList(l, i, pa, ps, acct, stor)
           e0 == Row(l, a)
           e1 == written(e0, a)
           e2 == stored(e1, a)
<1>1. m = [b \in DOMAIN l \cup {b \in Addr : changed(b)} |-> stored(written(entry(b), b), b)]
  BY DEF UpdateList
<1>2. /\ DOMAIN m = DOMAIN l \cup {b \in Addr : changed(b)}
      /\ a \in DOMAIN m => m[a] = e2
  <2> HIDE DEF stored, written, changed, m
  <2> QED BY <1>1 DEF Row
<1>3. DOMAIN e0 = RowFields /\ DOMAIN e0.stor \subseteq Slot
  BY DEF Row, RowsOK, RowOK, NoAccount, RowFields, Fields
<1>4. /\ DOMAIN e1 = RowFields /\ e1.stor = e0.stor
      /\ a \notin DOMAIN acct => e1 = e0
      /\ a \in DOMAIN acct => /\ e1.balance = Note(e0.balance, i, pa[a].balance, acct[a].balance)
                              /\ e1.nonce = NoteNonce(e0.nonce, i, pa[a].nonce, acct[a].nonce)
                              /\ e1.code = Note(e0.code, i, pa[a].code, acct[a].code)
  <2> HIDE DEF e0
  <2> QED BY <1>3 DEF RowFields, Fields
<1>5. a \in DOMAIN acct => NoteNonce(e0.nonce, i, pa[a].nonce, acct[a].nonce)
                           = Note(e0.nonce, i, pa[a].nonce, acct[a].nonce)
  BY DEF NoteNonce
<1>6. \A g \in Fields : e1[g] = IF a \in DOMAIN acct THEN Note(e0[g], i, pa[a][g], acct[a][g])
                                ELSE e0[g]
  <2> HIDE DEF e0, e1
  <2> QED BY <1>4, <1>5 DEF Fields
<1>7. /\ DOMAIN e2 = RowFields /\ e2.stor = NoteSlots(e0.stor, i, before(a), now(a))
      /\ \A g \in Fields : e2[g] = e1[g]
  <2> HIDE DEF e0, e1, before, now
  <2> QED BY <1>4 DEF RowFields, Fields
<1>8. \A k : k \in DOMAIN now(a) <=> <<a, k>> \in DOMAIN stor
  <2>1. \A p \in DOMAIN stor : p = <<p[1], p[2]>>
    OBVIOUS
  <2> QED BY <2>1
<1>9. \A k \in DOMAIN now(a) : k \in Slot /\ now(a)[k] = stor[<<a, k>>]
  BY <1>8
<1>10. \A k \in Slot : before(a)[k] = ps[<<a, k>>]
  OBVIOUS
<1> HIDE DEF before, now
<1> DEFINE w == Writes(acct, stor, a, f)
           n == NotedIn(e2, f)
<1>11. /\ j \in DOMAIN n <=> \/ w /\ j = i /\ Value(pa, ps, a, f) # Value(acct, stor, a, f)
                             \/ ~(w /\ j = i) /\ j \in DOMAIN NotedIn(e0, f)
       /\ j \in DOMAIN n => n[j] = IF w /\ j = i THEN Value(acct, stor, a, f)
                                   ELSE NotedIn(e0, f)[j]
  <2> HIDE DEF e0, e1, e2
  <2>1. CASE f \in Fields
    <3>1. n = IF a \in DOMAIN acct THEN Note(e0[f], i, pa[a][f], acct[a][f]) ELSE e0[f]
      BY <2>1, <1>6, <1>7 DEF NotedIn
    <3> QED BY <2>1, <3>1, NoteIs DEF NotedIn, Writes, Value
  <2>2. CASE f \notin Fields
    <3>1. n = SlotNoted(NoteSlots(e0.stor, i, before(a), now(a)), f)
      BY <2>2, <1>7 DEF NotedIn
    <3>2. f \in Slot /\ NotedIn(e0, f) = SlotNoted(e0.stor, f)
      BY <2>2 DEF NotedIn
    <3>3. f \in DOMAIN now(a) <=> w
      BY <1>8, <2>2 DEF Writes
    <3>4. f \in DOMAIN now(a) => now(a)[f] = Value(acct, stor, a, f)
      BY <1>9, <2>2 DEF Value
    <3>5. before(a)[f] = Value(pa, ps, a, f)
      BY <1>10, <2>2, <3>2 DEF Value
    <3> HIDE DEF n, w
    <3> QED BY <3>1, <3>2, <3>3, <3>4, <3>5, NoteSlotsIs
  <2> QED BY <2>1, <2>2
<1>12. RowOK(e2) /\ DOMAIN e2.stor \subseteq DOMAIN e0.stor \cup {k \in Slot : <<a, k>> \in DOMAIN stor}
  <2> DEFINE r == NoteSlots(e0.stor, i, before(a), now(a))
  <2>1. DOMAIN r \subseteq DOMAIN e0.stor \cup DOMAIN now(a)
    BY NoteSlotsShape
  <2>2. \A k \in DOMAIN r : DOMAIN r[k] # {}
    BY NoteSlotsShape
  <2> HIDE DEF e0, e1, e2, r
  <2>3. e2.stor = r
    BY <1>7 DEF r
  <2> QED BY <1>3, <1>7, <1>8, <1>9, <2>1, <2>2, <2>3 DEF RowOK
<1>13. ASSUME a \notin DOMAIN m
       PROVE  /\ e0 = NoAccount
              /\ ~(w /\ Value(pa, ps, a, f) # Value(acct, stor, a, f))
  <2>1. a \notin DOMAIN l
    BY <1>2, <1>13
  <2>2. ASSUME w, Value(pa, ps, a, f) # Value(acct, stor, a, f)  PROVE FALSE
    <3>1. CASE f \in Fields
      <4>1. a \in DOMAIN acct /\ pa[a][f] # acct[a][f]
        BY <2>2, <3>1 DEF Writes, Value
      <4>2. changed(a) /\ a \in Addr
        BY <4>1
      <4> HIDE DEF changed
      <4> QED BY <4>2, <1>2, <1>13
    <3>2. CASE f \notin Fields
      <4>1. <<a, f>> \in DOMAIN stor /\ ps[<<a, f>>] # stor[<<a, f>>]
        BY <2>2, <3>2 DEF Writes, Value
      <4>2. <<a, f>> \in slots(a) /\ a \in Addr
        BY <4>1
      <4>3. changed(a)
        BY <4>1, <4>2
      <4> HIDE DEF changed
      <4> QED BY <4>2, <4>3, <1>2, <1>13
    <3> QED BY <3>1, <3>2
  <2> QED BY <2>1, <2>2 DEF Row
<1>14. \A g : DOMAIN NotedIn(NoAccount, g) = {}
  BY DEF NotedIn, NoAccount, SlotNoted, NoChange, Fields
<1>15. {b \in Addr : changed(b)} \subseteq DOMAIN acct \cup {p[1] : p \in DOMAIN stor}
  OBVIOUS
<1> DEFINE nm == Noted(m, a, f)
<1>16. /\ j \in DOMAIN nm <=> \/ w /\ j = i /\ Value(pa, ps, a, f) # Value(acct, stor, a, f)
                              \/ ~(w /\ j = i) /\ j \in DOMAIN Noted(l, a, f)
       /\ j \in DOMAIN nm => nm[j] = IF w /\ j = i THEN Value(acct, stor, a, f)
                                     ELSE Noted(l, a, f)[j]
  <2>0. NotedIn(e0, f) = Noted(l, a, f)
    BY DEF Noted
  <2> HIDE DEF m, e2, w
  <2>1. CASE a \in DOMAIN m
    <3>1. nm = n
      BY <2>1, <1>2 DEF Noted, Row
    <3> HIDE DEF e0, n, nm
    <3> QED BY <2>0, <3>1, <1>11
  <2>2. CASE a \notin DOMAIN m
    <3>1. nm = NotedIn(NoAccount, f)
      BY <2>2 DEF Noted, Row
    <3>2. Noted(l, a, f) = NotedIn(NoAccount, f)
      BY <2>0, <2>2, <1>13
    <3> HIDE DEF nm, e0
    <3> QED BY <3>1, <3>2, <1>13, <1>14, <2>2
  <2> QED BY <2>1, <2>2
<1>17. /\ DOMAIN l \subseteq DOMAIN m
       /\ DOMAIN m \subseteq DOMAIN l \cup DOMAIN acct \cup {p[1] : p \in DOMAIN stor}
  <2> HIDE DEF m, changed
  <2> QED BY <1>2, <1>15
<1>18. a \in DOMAIN m => RowOK(m[a]) /\ DOMAIN m[a].stor \subseteq
                           DOMAIN e0.stor \cup {k \in Slot : <<a, k>> \in DOMAIN stor}
  <2> HIDE DEF m, e0, e2
  <2> QED BY <1>2, <1>12
<1> HIDE DEF m, nm, w, e0
<1>19. QED BY <1>16, <1>17, <1>18 DEF m, nm, w, e0, Updated

LEMMA RecordedNoted ==
  ASSUME NEW l, NEW c, RowsOK(l)
  PROVE  c \in RecordedIn(l) <=>
           \E a, j : \E f \in Fields \cup Slot :
             j \in DOMAIN Noted(l, a, f) /\ c = <<a, f, j, Noted(l, a, f)[j]>>
<1>1. ASSUME NEW a, NEW f, NEW j, NEW v, Has(l, a, f, j, v)
      PROVE  f \in Fields \cup Slot /\ j \in DOMAIN Noted(l, a, f) /\ v = Noted(l, a, f)[j]
  <2>1. a \in DOMAIN l /\ Row(l, a) = l[a] /\ RowOK(l[a])
    BY <1>1 DEF Has, Row, RowsOK
  <2>2. Slot \cap Fields = {}
    BY WorldAssumption DEF Fields
  <2>3. CASE f \in Fields /\ j \in DOMAIN l[a][f] /\ v = l[a][f][j]
    BY <2>1, <2>3 DEF Noted, NotedIn
  <2>4. CASE f \in DOMAIN l[a].stor /\ j \in DOMAIN l[a].stor[f] /\ v = l[a].stor[f][j]
    BY <2>1, <2>2, <2>4 DEF Noted, NotedIn, SlotNoted, RowOK
  <2> QED BY <1>1, <2>3, <2>4 DEF Has
<1>2. ASSUME NEW a, NEW f \in Fields \cup Slot, NEW j, j \in DOMAIN Noted(l, a, f)
      PROVE  Has(l, a, f, j, Noted(l, a, f)[j])
  <2>1. CASE a \notin DOMAIN l
    BY <1>2, <2>1 DEF Noted, NotedIn, Row, NoAccount, SlotNoted, NoChange, Fields
  <2>2. CASE a \in DOMAIN l /\ f \in Fields
    BY <1>2, <2>2 DEF Noted, NotedIn, Row, Has
  <2>3. CASE a \in DOMAIN l /\ f \notin Fields
    <3>1. Noted(l, a, f) = SlotNoted(l[a].stor, f)
      BY <2>3 DEF Noted, NotedIn, Row
    <3>2. f \in DOMAIN l[a].stor
      BY <1>2, <3>1 DEF SlotNoted, NoChange
    <3> QED BY <1>2, <2>3, <3>1, <3>2 DEF SlotNoted, Has
  <2> QED BY <2>1, <2>2, <2>3
<1>3. c \in RecordedIn(l) <=> \E a, f, j, v : c = <<a, f, j, v>> /\ Has(l, a, f, j, v)
  BY RecordedHas
<1>4. ASSUME c \in RecordedIn(l)
      PROVE  \E a, j : \E f \in Fields \cup Slot :
               j \in DOMAIN Noted(l, a, f) /\ c = <<a, f, j, Noted(l, a, f)[j]>>
  <2> PICK a, f, j, v : c = <<a, f, j, v>> /\ Has(l, a, f, j, v)
    BY <1>3, <1>4
  <2>1. f \in Fields \cup Slot /\ j \in DOMAIN Noted(l, a, f) /\ v = Noted(l, a, f)[j]
    BY <1>1
  <2> QED BY <2>1
<1>5. ASSUME NEW a, NEW f \in Fields \cup Slot, NEW j, j \in DOMAIN Noted(l, a, f),
             c = <<a, f, j, Noted(l, a, f)[j]>>
      PROVE  c \in RecordedIn(l)
  BY <1>2, <1>3, <1>5
<1> QED BY <1>4, <1>5

\* What a world holds of a field or a slot.
In(w, a, f) == Value(w.acct, w.stor, a, f)

LEMMA ChangesValues ==
  ASSUME NEW i, NEW w, NEW u, NEW c
  PROVE  c \in Changes(i, w, u) <=>
           \E a \in Addr, f \in Fields \cup Slot :
             In(w, a, f) # In(u, a, f) /\ c = <<a, f, i, In(u, a, f)>>
<1>1. Slot \cap Fields = {}
  BY WorldAssumption DEF Fields
<1>2. ASSUME NEW a, NEW f, NEW v
      PROVE  Differs(w, u, a, f, v) <=> /\ a \in Addr /\ f \in Fields \cup Slot
                                        /\ In(w, a, f) # In(u, a, f) /\ v = In(u, a, f)
  BY <1>1 DEF Differs, In, Value
<1>3. c \in Changes(i, w, u) <=> \E a, f, v : c = <<a, f, i, v>> /\ Differs(w, u, a, f, v)
  BY ChangesDiffer
<1>4. ASSUME c \in Changes(i, w, u)
      PROVE  \E a \in Addr, f \in Fields \cup Slot :
               In(w, a, f) # In(u, a, f) /\ c = <<a, f, i, In(u, a, f)>>
  <2> PICK a, f, v : c = <<a, f, i, v>> /\ Differs(w, u, a, f, v)
    BY <1>3, <1>4
  <2> QED BY <1>2
<1>5. ASSUME NEW a \in Addr, NEW f \in Fields \cup Slot, In(w, a, f) # In(u, a, f),
             c = <<a, f, i, In(u, a, f)>>
      PROVE  c \in Changes(i, w, u)
  <2>1. Differs(w, u, a, f, In(u, a, f))
    BY <1>2, <1>5
  <2> QED BY <1>3, <1>5, <2>1
<1> QED BY <1>4, <1>5

-----------------------------------------------------------------------------
\* The inductive invariant of the list: its shape, that the indices that are over are
\* below the present one, that the memo holds what the present index began with and
\* that what it does not hold did not change since, and that what the list has of an
\* account or a slot was touched or read.
Shape ==
  /\ index \in Nat /\ \A c \in net : c[3] \in Nat /\ c[3] < index
  /\ DOMAIN world.acct = Addr /\ DOMAIN world.stor = Addr \X Slot
  /\ RowsOK(list)
MemoIsStart ==
  /\ \A a \in Addr :
       start.acct[a] = IF a \in DOMAIN memo.acct THEN memo.acct[a] ELSE world.acct[a]
  /\ \A p \in Addr \X Slot :
       start.stor[p] = IF p \in DOMAIN memo.stor THEN memo.stor[p] ELSE world.stor[p]
ListIsNet == Recorded = net \cup Changes(index, start, world)
ListIsRead ==
  /\ touched \subseteq Addr /\ slotReads \subseteq Addr \X Slot
  /\ {p[1] : p \in slotReads} \subseteq touched
  /\ DOMAIN list \subseteq touched
  /\ \A a \in DOMAIN list : \A k \in DOMAIN list[a].stor : <<a, k>> \in slotReads
Built ==
  phase \in {"accepted", "too long"} =>
    /\ DOMAIN list = touched
    /\ UNION {{<<a, k>> : k \in list[a].reads} : a \in DOMAIN list} =
         slotReads \ Slots(net \cup Changes(index, start, world))
    /\ phase = "too long" <=>
         Cardinality(touched) + Cardinality(slotReads) > GasLimit \div ItemGas
ListInv == Shape /\ MemoIsStart /\ ListIsNet /\ ListIsRead /\ Built

LEMMA RecordedIs == Recorded = RecordedIn(list) /\ (Recorded = RecordedIn(list))'
BY DEF Recorded, RecordedIn

\* What a scope may hand to Incorporate in index i.
Scope(i, acct, stor, accounts, slots) ==
  /\ (i = index /\ DOMAIN acct = {}) \/ i = index + 1
  /\ DOMAIN acct \subseteq accounts /\ accounts \subseteq Addr
  /\ DOMAIN stor \subseteq slots /\ slots \subseteq Addr \X Slot
  /\ {p[1] : p \in slots} \subseteq accounts

\* The world after a scope; of what it did not write nothing changes.
LEMMA WorldAfter ==
  ASSUME Shape, NEW i, NEW acct, NEW stor, NEW accounts, NEW slots,
         Scope(i, acct, stor, accounts, slots), Incorporate(i, acct, stor, accounts, slots)
  PROVE  /\ DOMAIN world'.acct = Addr /\ DOMAIN world'.stor = Addr \X Slot
         /\ \A a \in Addr : world'.acct[a] = IF a \in DOMAIN acct THEN acct[a] ELSE world.acct[a]
         /\ \A p \in Addr \X Slot :
              world'.stor[p] = IF p \in DOMAIN stor THEN stor[p] ELSE world.stor[p]
         /\ \A a \in Addr, f \in Fields \cup Slot :
              In(world', a, f) = IF Writes(acct, stor, a, f) THEN Value(acct, stor, a, f)
                                 ELSE In(world, a, f)
<1>1. world' = [acct |-> Overlay(world.acct, acct), stor |-> Overlay(world.stor, stor)]
  BY DEF Incorporate
<1>2. world'.acct = Overlay(world.acct, acct) /\ world'.stor = Overlay(world.stor, stor)
  BY <1>1
<1>3. DOMAIN world.acct = Addr /\ DOMAIN world.stor = Addr \X Slot
  BY DEF Shape
<1>4. /\ DOMAIN world'.acct = Addr /\ DOMAIN world'.stor = Addr \X Slot
      /\ \A a \in Addr : world'.acct[a] = IF a \in DOMAIN acct THEN acct[a] ELSE world.acct[a]
      /\ \A p \in Addr \X Slot :
           world'.stor[p] = IF p \in DOMAIN stor THEN stor[p] ELSE world.stor[p]
  BY <1>2, <1>3 DEF Overlay
<1>5. ASSUME NEW a \in Addr, NEW f \in Fields \cup Slot
      PROVE  In(world', a, f) = IF Writes(acct, stor, a, f) THEN Value(acct, stor, a, f)
                                ELSE In(world, a, f)
  <2>1. CASE f \in Fields
    BY <2>1, <1>4 DEF In, Value, Writes
  <2>2. CASE f \notin Fields
    <3>1. <<a, f>> \in Addr \X Slot
      BY <2>2
    <3> QED BY <2>2, <3>1, <1>4 DEF In, Value, Writes
  <2> QED BY <2>1, <2>2
<1> QED BY <1>4, <1>5

\* What update_builder_from_tx compares with is what the index began with.
LEMMA ComparesWithStart ==
  ASSUME Shape, MemoIsStart, NEW i, NEW acct, NEW stor, NEW accounts, NEW slots,
         Scope(i, acct, stor, accounts, slots), Incorporate(i, acct, stor, accounts, slots)
  PROVE  LET known == IF i = index THEN memo ELSE NoMemo
             pa == StartOf(known.acct, world.acct)
             ps == StartOf(known.stor, world.stor)
         IN  /\ \A a \in Addr : pa[a] = start'.acct[a]
             /\ \A p \in Addr \X Slot : ps[p] = start'.stor[p]
             /\ \A a \in Addr, f \in Fields \cup Slot : Value(pa, ps, a, f) = In(start', a, f)
             /\ memo' = [acct |-> [a \in DOMAIN known.acct \cup DOMAIN acct |-> pa[a]],
                         stor |-> [p \in DOMAIN known.stor \cup DOMAIN stor |-> ps[p]]]
             /\ list' = UpdateList(list, i, pa, ps, acct, stor)
             /\ MemoIsStart'
<1> DEFINE known == IF i = index THEN memo ELSE NoMemo
           pa == StartOf(known.acct, world.acct)
           ps == StartOf(known.stor, world.stor)
<1>1. start' = IF i = index THEN start ELSE world
  BY DEF Incorporate
<1>2. DOMAIN world.acct = Addr /\ DOMAIN world.stor = Addr \X Slot
  BY DEF Shape
<1>3. DOMAIN NoMemo.acct = {} /\ DOMAIN NoMemo.stor = {}
  BY DEF NoMemo
<1>4. \A a \in Addr : pa[a] = start'.acct[a]
  <2>1. CASE i = index
    BY <2>1, <1>1, <1>2 DEF StartOf, MemoIsStart
  <2>2. CASE i # index
    BY <2>2, <1>1, <1>2, <1>3 DEF StartOf
  <2> QED BY <2>1, <2>2
<1>5. \A p \in Addr \X Slot : ps[p] = start'.stor[p]
  <2>1. CASE i = index
    BY <2>1, <1>1, <1>2 DEF StartOf, MemoIsStart
  <2>2. CASE i # index
    BY <2>2, <1>1, <1>2, <1>3 DEF StartOf
  <2> QED BY <2>1, <2>2
<1>6. /\ memo' = [acct |-> [a \in DOMAIN known.acct \cup DOMAIN acct |-> pa[a]],
                  stor |-> [p \in DOMAIN known.stor \cup DOMAIN stor |-> ps[p]]]
      /\ list' = UpdateList(list, i, pa, ps, acct, stor)
  BY DEF Incorporate
<1>7. /\ \A a \in Addr : a \notin DOMAIN known.acct => start'.acct[a] = world.acct[a]
      /\ \A p \in Addr \X Slot : p \notin DOMAIN known.stor => start'.stor[p] = world.stor[p]
  BY <1>1 DEF MemoIsStart
<1> HIDE DEF known, pa, ps
<1>8. /\ \A a \in Addr : world'.acct[a] = IF a \in DOMAIN acct THEN acct[a] ELSE world.acct[a]
      /\ \A p \in Addr \X Slot :
           world'.stor[p] = IF p \in DOMAIN stor THEN stor[p] ELSE world.stor[p]
  BY WorldAfter
<1>9. /\ DOMAIN memo'.acct = DOMAIN known.acct \cup DOMAIN acct
      /\ DOMAIN memo'.stor = DOMAIN known.stor \cup DOMAIN stor
      /\ \A a \in DOMAIN memo'.acct : memo'.acct[a] = pa[a]
      /\ \A p \in DOMAIN memo'.stor : memo'.stor[p] = ps[p]
  BY <1>6
<1>10. MemoIsStart'
  <2>1. ASSUME NEW a \in Addr
        PROVE  start'.acct[a] = IF a \in DOMAIN memo'.acct THEN memo'.acct[a] ELSE world'.acct[a]
    BY <1>4, <1>7, <1>8, <1>9
  <2>2. ASSUME NEW p \in Addr \X Slot
        PROVE  start'.stor[p] = IF p \in DOMAIN memo'.stor THEN memo'.stor[p] ELSE world'.stor[p]
    BY <1>5, <1>7, <1>8, <1>9
  <2> QED BY <2>1, <2>2 DEF MemoIsStart
<1>11. ASSUME NEW a \in Addr, NEW f \in Fields \cup Slot
       PROVE  Value(pa, ps, a, f) = In(start', a, f)
  <2>1. CASE f \in Fields
    BY <2>1, <1>4 DEF Value, In
  <2>2. CASE f \notin Fields
    <3>1. <<a, f>> \in Addr \X Slot
      BY <2>2
    <3> QED BY <2>2, <3>1, <1>5 DEF Value, In
  <2> QED BY <2>1, <2>2
<1> QED BY <1>4, <1>5, <1>6, <1>10, <1>11 DEF pa, ps, known

\* What a list records, entry by entry.
LEMMA RecordedEntry ==
  ASSUME NEW l, RowsOK(l), NEW a, NEW f \in Fields \cup Slot, NEW j
  PROVE  /\ j \in DOMAIN Noted(l, a, f) => <<a, f, j, Noted(l, a, f)[j]>> \in RecordedIn(l)
         /\ \A v : <<a, f, j, v>> \in RecordedIn(l) =>
              j \in DOMAIN Noted(l, a, f) /\ v = Noted(l, a, f)[j]
<1>1. ASSUME NEW v, <<a, f, j, v>> \in RecordedIn(l)
      PROVE  j \in DOMAIN Noted(l, a, f) /\ v = Noted(l, a, f)[j]
  <2> PICK b, h : \E g \in Fields \cup Slot :
        h \in DOMAIN Noted(l, b, g) /\ <<a, f, j, v>> = <<b, g, h, Noted(l, b, g)[h]>>
    BY <1>1, RecordedNoted
  <2> PICK g \in Fields \cup Slot :
        h \in DOMAIN Noted(l, b, g) /\ <<a, f, j, v>> = <<b, g, h, Noted(l, b, g)[h]>>
    OBVIOUS
  <2> QED OBVIOUS
<1>2. ASSUME j \in DOMAIN Noted(l, a, f)
      PROVE  <<a, f, j, Noted(l, a, f)[j]>> \in RecordedIn(l)
  BY <1>2, RecordedNoted
<1> QED BY <1>1, <1>2

\* Nothing is recorded at an index beyond the present one.
LEMMA NothingLater ==
  ASSUME Shape, ListIsNet, NEW a, NEW f \in Fields \cup Slot, NEW j \in DOMAIN Noted(list, a, f)
  PROVE  \/ <<a, f, j, Noted(list, a, f)[j]>> \in net /\ j < index
         \/ /\ j = index /\ a \in Addr /\ In(start, a, f) # In(world, a, f)
            /\ Noted(list, a, f)[j] = In(world, a, f)
<1> DEFINE c == <<a, f, j, Noted(list, a, f)[j]>>
<1>1. c \in net \cup Changes(index, start, world)
  BY RecordedEntry, RecordedIs DEF Shape, ListIsNet
<1>2. CASE c \in net
  <2>1. c[3] < index
    BY <1>2 DEF Shape
  <2> QED BY <1>2, <2>1
<1>3. CASE c \in Changes(index, start, world)
  <2> PICK b \in Addr, g \in Fields \cup Slot :
        In(start, b, g) # In(world, b, g) /\ c = <<b, g, index, In(world, b, g)>>
    BY <1>3, ChangesValues
  <2> QED OBVIOUS
<1> QED BY <1>1, <1>2, <1>3

LEMMA IncorporateIsNet ==
  ASSUME Shape, MemoIsStart, ListIsNet,
         NEW i, NEW acct, NEW stor, NEW accounts, NEW slots,
         Scope(i, acct, stor, accounts, slots), Incorporate(i, acct, stor, accounts, slots)
  PROVE  /\ \A a, j : \A f \in Fields \cup Slot :
              Updated(list, list', i, start'.acct, start'.stor, acct, stor, a, f, j)
         /\ RowsOK(list')
<1> DEFINE known == IF i = index THEN memo ELSE NoMemo
           pa == StartOf(known.acct, world.acct)
           ps == StartOf(known.stor, world.stor)
<1>1. /\ list' = UpdateList(list, i, pa, ps, acct, stor)
      /\ \A a \in Addr, f \in Fields \cup Slot : Value(pa, ps, a, f) = In(start', a, f)
  BY ComparesWithStart
<1> HIDE DEF pa, ps
<1>2. /\ RowsOK(list) /\ DOMAIN acct \subseteq Addr /\ DOMAIN stor \subseteq Addr \X Slot
      /\ index \in Nat
  BY DEF Shape, Scope
<1>3. ASSUME NEW a
      PROVE  a \in DOMAIN acct => i \notin DOMAIN Row(list, a).nonce
  <2> SUFFICES ASSUME a \in DOMAIN acct, i \in DOMAIN Row(list, a).nonce PROVE FALSE
    OBVIOUS
  <2>1. "nonce" \in Fields
    BY DEF Fields
  <2>2. i \in DOMAIN Noted(list, a, "nonce")
    BY <2>1 DEF Noted, NotedIn
  <2> DEFINE f == "nonce"
  <2>3. f \in Fields \cup Slot /\ i \in DOMAIN Noted(list, a, f)
    BY <2>1, <2>2
  <2> HIDE DEF f
  <2>4. \/ <<a, f, i, Noted(list, a, f)[i]>> \in net /\ i < index
        \/ /\ i = index /\ a \in Addr /\ In(start, a, f) # In(world, a, f)
           /\ Noted(list, a, f)[i] = In(world, a, f)
    BY <2>3, NothingLater
  <2>5. i = index + 1
    BY DEF Scope
  <2> QED BY <2>4, <2>5, <1>2
<1>4. ASSUME NEW a, NEW f \in Fields \cup Slot, NEW j
      PROVE  Updated(list, list', i, pa, ps, acct, stor, a, f, j)
  BY <1>1, <1>2, <1>3, UpdateListIs
<1>5. ASSUME NEW a, NEW f \in Fields \cup Slot, NEW j
      PROVE  Updated(list, list', i, start'.acct, start'.stor, acct, stor, a, f, j)
  <2>1. Writes(acct, stor, a, f) => a \in Addr
    BY <1>2 DEF Writes
  <2>2. Writes(acct, stor, a, f) => Value(pa, ps, a, f) = Value(start'.acct, start'.stor, a, f)
    BY <2>1, <1>1 DEF In
  <2> QED BY <2>2, <1>4 DEF Updated
<1>6. ASSUME NEW a \in DOMAIN list' PROVE RowOK(list'[a])
  <2>1. "nonce" \in Fields
    BY DEF Fields
  <2>2. Updated(list, list', i, pa, ps, acct, stor, a, "nonce", 0)
    BY <1>4, <2>1
  <2> QED BY <2>2 DEF Updated
<1> QED BY <1>5, <1>6 DEF RowsOK

LEMMA IncorporateKeepsNet ==
  ASSUME Shape, MemoIsStart, ListIsNet,
         NEW i, NEW acct, NEW stor, NEW accounts, NEW slots,
         Scope(i, acct, stor, accounts, slots), Incorporate(i, acct, stor, accounts, slots)
  PROVE  Shape' /\ ListIsNet'
<1> DEFINE now == Changes(index, start, world)
           then == Changes(i, start', world')
<1>1. /\ index' = i /\ index \in Nat /\ i \in Nat /\ RowsOK(list) /\ RowsOK(list')
      /\ \A c \in net : c[3] \in Nat /\ c[3] < index
  <2>1. RowsOK(list')
    BY IncorporateIsNet
  <2>2. index' = i
    BY DEF Incorporate
  <2> QED BY <2>1, <2>2 DEF Shape, Scope
<1>2. /\ i = index => start' = start /\ net' = net
      /\ i # index => start' = world /\ net' = net \cup now
  BY DEF Incorporate
<1>3. /\ DOMAIN acct \subseteq Addr /\ DOMAIN stor \subseteq Addr \X Slot
      /\ i # index => i = index + 1
  BY DEF Scope
<1>4. \A a \in Addr, f \in Fields \cup Slot :
        In(world', a, f) = IF Writes(acct, stor, a, f) THEN Value(acct, stor, a, f)
                           ELSE In(world, a, f)
  BY WorldAfter
<1>5. ASSUME NEW a, NEW f \in Fields \cup Slot, NEW j
      PROVE  /\ j \in DOMAIN Noted(list', a, f) <=>
                  \/ /\ Writes(acct, stor, a, f) /\ j = i
                     /\ In(start', a, f) # Value(acct, stor, a, f)
                  \/ /\ ~(Writes(acct, stor, a, f) /\ j = i)
                     /\ j \in DOMAIN Noted(list, a, f)
             /\ j \in DOMAIN Noted(list', a, f) =>
                  Noted(list', a, f)[j] =
                    IF Writes(acct, stor, a, f) /\ j = i THEN Value(acct, stor, a, f)
                    ELSE Noted(list, a, f)[j]
  BY IncorporateIsNet DEF Updated, In
<1>6. ASSUME NEW a, NEW f \in Fields \cup Slot
      PROVE  Writes(acct, stor, a, f) => a \in Addr
  BY <1>3 DEF Writes
<1>7. ASSUME NEW c \in now PROVE c[3] = index
  <2> PICK a \in Addr, f \in Fields \cup Slot :
        In(start, a, f) # In(world, a, f) /\ c = <<a, f, index, In(world, a, f)>>
    BY ChangesValues
  <2> QED OBVIOUS
<1>8. \A c \in net' : c[3] \in Nat /\ c[3] < i
  <2> HIDE DEF now
  <2> QED BY <1>1, <1>2, <1>3, <1>7
<1>9. Shape'
  BY <1>1, <1>8, WorldAfter DEF Shape
<1>10. ASSUME NEW c \in RecordedIn(list') PROVE c \in net' \cup then
  <2> PICK a, j : \E f \in Fields \cup Slot :
        j \in DOMAIN Noted(list', a, f) /\ c = <<a, f, j, Noted(list', a, f)[j]>>
    BY <1>1, RecordedNoted
  <2> PICK f \in Fields \cup Slot :
        j \in DOMAIN Noted(list', a, f) /\ c = <<a, f, j, Noted(list', a, f)[j]>>
    OBVIOUS
  <2>1. CASE Writes(acct, stor, a, f) /\ j = i
    <3>1. In(start', a, f) # Value(acct, stor, a, f)
      BY <2>1, <1>5
    <3>2. a \in Addr /\ In(world', a, f) = Value(acct, stor, a, f)
      BY <2>1, <1>4, <1>6
    <3>3. c = <<a, f, i, In(world', a, f)>>
      BY <2>1, <1>5, <3>2
    <3>4. c \in then
      BY <3>1, <3>2, <3>3, ChangesValues
    <3> QED BY <3>4
  <2>2. CASE ~(Writes(acct, stor, a, f) /\ j = i)
    <3>1. j \in DOMAIN Noted(list, a, f) /\ c = <<a, f, j, Noted(list, a, f)[j]>>
      BY <2>2, <1>5
    <3>2. CASE c \in net
      BY <3>2, <1>2
    <3>3. CASE /\ j = index /\ a \in Addr /\ In(start, a, f) # In(world, a, f)
               /\ Noted(list, a, f)[j] = In(world, a, f)
      <4>1. c \in now
        BY <3>1, <3>3, ChangesValues
      <4>2. CASE i # index
        BY <4>1, <4>2, <1>2
      <4>3. CASE i = index
        <5>1. In(world', a, f) = In(world, a, f)
          BY <2>2, <3>3, <4>3, <1>4
        <5>2. In(start', a, f) # In(world', a, f) /\ c = <<a, f, i, In(world', a, f)>>
          BY <3>1, <3>3, <4>3, <5>1, <1>2
        <5>3. c \in then
          BY <3>3, <5>2, ChangesValues
        <5> QED BY <5>3
      <4> QED BY <4>2, <4>3
    <3> QED BY <3>1, <3>2, <3>3, NothingLater
  <2> QED BY <2>1, <2>2
<1>11. ASSUME NEW c \in Recorded, c[3] # i PROVE c \in RecordedIn(list')
  <2>1. c \in RecordedIn(list)
    BY RecordedIs
  <2> PICK a, j : \E f \in Fields \cup Slot :
        j \in DOMAIN Noted(list, a, f) /\ c = <<a, f, j, Noted(list, a, f)[j]>>
    BY <1>1, <2>1, RecordedNoted
  <2> PICK f \in Fields \cup Slot :
        j \in DOMAIN Noted(list, a, f) /\ c = <<a, f, j, Noted(list, a, f)[j]>>
    OBVIOUS
  <2>2. j # i
    BY <1>11
  <2>3. j \in DOMAIN Noted(list', a, f) /\ Noted(list', a, f)[j] = Noted(list, a, f)[j]
    BY <1>5, <2>2
  <2> QED BY <1>1, <2>3, RecordedEntry
<1>12. ASSUME NEW c \in then PROVE c \in RecordedIn(list')
  <2> PICK a \in Addr, f \in Fields \cup Slot :
        In(start', a, f) # In(world', a, f) /\ c = <<a, f, i, In(world', a, f)>>
    BY ChangesValues
  <2>1. CASE Writes(acct, stor, a, f)
    <3>1. In(world', a, f) = Value(acct, stor, a, f)
      BY <2>1, <1>4
    <3>2. i \in DOMAIN Noted(list', a, f) /\ Noted(list', a, f)[i] = In(world', a, f)
      BY <2>1, <3>1, <1>5
    <3> QED BY <1>1, <3>2, RecordedEntry
  <2>2. CASE ~Writes(acct, stor, a, f)
    <3>1. In(world', a, f) = In(world, a, f)
      BY <2>2, <1>4
    <3>2. i = index /\ In(start, a, f) # In(world, a, f)
      BY <3>1, <1>2
    <3>3. c = <<a, f, index, In(world, a, f)>>
      BY <3>1, <3>2
    <3>4. c \in now
      BY <3>2, <3>3, ChangesValues
    <3>5. c \in RecordedIn(list)
      BY <3>4, RecordedIs DEF ListIsNet
    <3>6. i \in DOMAIN Noted(list, a, f) /\ In(world, a, f) = Noted(list, a, f)[i]
      <4>1. <<a, f, i, In(world, a, f)>> \in RecordedIn(list)
        BY <3>2, <3>3, <3>5
      <4>2. \A v : <<a, f, i, v>> \in RecordedIn(list) =>
                     i \in DOMAIN Noted(list, a, f) /\ v = Noted(list, a, f)[i]
        BY <1>1, RecordedEntry
      <4> QED BY <4>1, <4>2
    <3>7. i \in DOMAIN Noted(list', a, f) /\ Noted(list', a, f)[i] = In(world', a, f)
      BY <1>5, <2>2, <3>1, <3>6
    <3> QED BY <1>1, <3>7, RecordedEntry
  <2> QED BY <2>1, <2>2
<1>13. ASSUME NEW c \in net' PROVE c \in RecordedIn(list')
  <2>1. c \in Recorded
    <3> HIDE DEF now
    <3> QED BY <1>2 DEF now, ListIsNet
  <2>2. c[3] # i
    BY <1>1, <1>8
  <2> QED BY <1>11, <2>1, <2>2
<1>14. RecordedIn(list') = net' \cup then
  <2> HIDE DEF then
  <2> QED BY <1>10, <1>12, <1>13
<1>15. ListIsNet'
  BY <1>1, <1>14, RecordedIs DEF ListIsNet
<1> QED BY <1>9, <1>15

LEMMA IncorporateKeepsReads ==
  ASSUME Shape, MemoIsStart, ListIsNet, ListIsRead,
         NEW i, NEW acct, NEW stor, NEW accounts, NEW slots,
         Scope(i, acct, stor, accounts, slots), Incorporate(i, acct, stor, accounts, slots)
  PROVE  ListIsRead'
<1>1. touched' = touched \cup accounts /\ slotReads' = slotReads \cup slots
  BY DEF Incorporate
<1>2. /\ DOMAIN acct \subseteq accounts /\ accounts \subseteq Addr /\ DOMAIN stor \subseteq slots
      /\ slots \subseteq Addr \X Slot /\ \A p \in slots : p[1] \in accounts
  BY DEF Scope
<1>3. /\ touched' \subseteq Addr /\ slotReads' \subseteq Addr \X Slot
      /\ \A p \in slotReads' : p[1] \in touched'
  BY <1>1, <1>2 DEF ListIsRead
<1>4. "nonce" \in Fields \cup Slot
  BY DEF Fields
<1>5. ASSUME NEW a
      PROVE  /\ DOMAIN list' \subseteq DOMAIN list \cup DOMAIN acct \cup {p[1] : p \in DOMAIN stor}
             /\ a \in DOMAIN list' => DOMAIN list'[a].stor \subseteq
                  DOMAIN Row(list, a).stor \cup {k \in Slot : <<a, k>> \in DOMAIN stor}
  <2>1. Updated(list, list', i, start'.acct, start'.stor, acct, stor, a, "nonce", 0)
    BY <1>4, IncorporateIsNet
  <2> QED BY <2>1 DEF Updated
<1>6. DOMAIN list' \subseteq touched'
  BY <1>1, <1>2, <1>5 DEF ListIsRead
<1>7. ASSUME NEW a \in DOMAIN list', NEW k \in DOMAIN list'[a].stor
      PROVE  <<a, k>> \in slotReads'
  <2>1. CASE <<a, k>> \in DOMAIN stor
    BY <2>1, <1>1, <1>2
  <2>2. CASE k \in DOMAIN Row(list, a).stor
    <3>1. a \in DOMAIN list /\ k \in DOMAIN list[a].stor
      BY <2>2 DEF Row, NoAccount
    <3> QED BY <3>1, <1>1 DEF ListIsRead
  <2> QED BY <1>5, <2>1, <2>2
<1> QED BY <1>3, <1>6, <1>7 DEF ListIsRead

LEMMA IncorporateKeepsList ==
  ASSUME ListInv, NEW i, NEW acct, NEW stor, NEW accounts, NEW slots,
         Scope(i, acct, stor, accounts, slots), Incorporate(i, acct, stor, accounts, slots),
         phase' \notin {"accepted", "too long"}
  PROVE  ListInv'
<1>1. Shape /\ MemoIsStart /\ ListIsNet /\ ListIsRead
  BY DEF ListInv
<1>2. Shape' /\ ListIsNet'
  BY <1>1, IncorporateKeepsNet
<1>3. MemoIsStart'
  BY <1>1, ComparesWithStart
<1>4. ListIsRead'
  BY <1>1, IncorporateKeepsReads
<1> QED BY <1>2, <1>3, <1>4 DEF ListInv, Built

\* The scopes of a block are such scopes.
LEMMA StoredSlots ==
  ASSUME NEW e \in Effects
  PROVE  /\ e.touched \subseteq Addr /\ System \in Addr
         /\ DOMAIN Stored(e) \subseteq e.slots /\ e.slots \subseteq Addr \X Slot
         /\ {p[1] : p \in e.slots} \subseteq e.touched
BY WorldAssumption DEF Stored

LEMMA SystemMessageKeepsList ==
  ASSUME ListInv, NEW e \in Effects, SystemMessage(e), phase' \notin {"accepted", "too long"}
  PROVE  ListInv'
<1> DEFINE acct == [a \in {} |-> 0]
           accounts == {System} \cup e.touched
<1>1. Incorporate(index, acct, Stored(e), accounts, e.slots)
  BY DEF SystemMessage
<1>2. Scope(index, acct, Stored(e), accounts, e.slots)
  BY StoredSlots DEF Scope
<1> HIDE DEF acct, accounts
<1> QED BY <1>1, <1>2, IncorporateKeepsList

LEMMA TransactionKeepsList ==
  ASSUME ListInv, NEW t \in Txs, NEW e \in Effects, NEW u \in Uses,
         ProcessTransaction(t, e, u), phase' \notin {"accepted", "too long"}
  PROVE  ListInv'
<1> DEFINE after == Settled(t, e, u)
           written == {a \in Addr : after[a] # world.acct[a]} \cup {t.sender, Coinbase}
           acct == [a \in written |-> after[a]]
           accounts == written \cup {t.to} \cup e.touched
<1>1. Incorporate(index + 1, acct, Stored(e), accounts, e.slots)
  BY DEF ProcessTransaction
<1>2. written \subseteq Addr /\ t.to \in Addr
  BY WorldAssumption
<1> HIDE DEF after, written
<1>3. Scope(index + 1, acct, Stored(e), accounts, e.slots)
  BY <1>2, StoredSlots DEF Scope
<1> HIDE DEF acct, accounts
<1> QED BY <1>1, <1>3, IncorporateKeepsList

LEMMA WithdrawalsKeepList ==
  ASSUME ListInv, ProcessWithdrawals
  PROVE  ListInv'
<1> PICK ws \in Withdrawals :
      LET due(a) == Brought({w \in ws : w.to = a})
          to     == {w.to : w \in ws}
      IN  Incorporate(index + 1, [a \in to |-> Credit(world.acct, a, due(a))[a]],
                      [p \in {} |-> 0], to, {})
  BY DEF ProcessWithdrawals
<1> DEFINE due(a) == Brought({w \in ws : w.to = a})
           to == {w.to : w \in ws}
           acct == [a \in to |-> Credit(world.acct, a, due(a))[a]]
           stor == [p \in {} |-> 0]
<1>1. Incorporate(index + 1, acct, stor, to, {})
  OBVIOUS
<1> HIDE DEF due
<1>2. Scope(index + 1, acct, stor, to, {})
  BY WorldAssumption DEF Scope
<1>3. phase' = "after"
  BY DEF ProcessWithdrawals
<1> HIDE DEF acct, stor, to
<1> QED BY <1>1, <1>2, <1>3, IncorporateKeepsList

\* The slots with recorded changes are those the rows have.
LEMMA SlotsRecorded ==
  ASSUME NEW l, RowsOK(l), NEW a \in Addr, NEW k \in Slot
  PROVE  <<a, k>> \in Slots(RecordedIn(l)) <=> a \in DOMAIN l /\ k \in DOMAIN l[a].stor
<1>1. k \notin Fields
  BY WorldAssumption DEF Fields
<1>2. ASSUME <<a, k>> \in Slots(RecordedIn(l))
      PROVE  a \in DOMAIN l /\ k \in DOMAIN l[a].stor
  <2> PICK c \in RecordedIn(l) : <<a, k>> = <<c[1], c[2]>>
    BY <1>2 DEF Slots
  <2> PICK b, j : \E f \in Fields \cup Slot :
        j \in DOMAIN Noted(l, b, f) /\ c = <<b, f, j, Noted(l, b, f)[j]>>
    BY RecordedNoted
  <2> PICK f \in Fields \cup Slot :
        j \in DOMAIN Noted(l, b, f) /\ c = <<b, f, j, Noted(l, b, f)[j]>>
    OBVIOUS
  <2>1. b = a /\ f = k
    OBVIOUS
  <2>2. j \in DOMAIN SlotNoted(Row(l, a).stor, k)
    BY <2>1, <1>1 DEF Noted, NotedIn
  <2> QED BY <2>2 DEF SlotNoted, NoChange, Row, NoAccount
<1>3. ASSUME a \in DOMAIN l, k \in DOMAIN l[a].stor
      PROVE  <<a, k>> \in Slots(RecordedIn(l))
  <2> PICK j : j \in DOMAIN l[a].stor[k]
    BY <1>3 DEF RowsOK, RowOK
  <2>1. j \in DOMAIN Noted(l, a, k)
    BY <1>1, <1>3 DEF Noted, NotedIn, Row, SlotNoted
  <2>2. <<a, k, j, Noted(l, a, k)[j]>> \in RecordedIn(l)
    BY <2>1, RecordedEntry
  <2> DEFINE c == <<a, k, j, Noted(l, a, k)[j]>>
  <2>3. c \in RecordedIn(l) /\ c[1] = a /\ c[2] = k
    BY <2>2
  <2> HIDE DEF c
  <2> QED BY <2>3 DEF Slots
<1> QED BY <1>2, <1>3

\* Building the list adds rows for what was only read, and the reads.
LEMMA WithReadsIs ==
  ASSUME Shape, ListIsRead
  PROVE  LET m == WithReads(list)
         IN  /\ DOMAIN m = touched
             /\ \A a \in touched : /\ DOMAIN m[a] = RowFields
                                   /\ \A f \in Fields : m[a][f] = Row(list, a)[f]
                                   /\ m[a].stor = Row(list, a).stor
                                   /\ m[a].reads = {k \in Slot : <<a, k>> \in slotReads}
                                                   \ DOMAIN Row(list, a).stor
             /\ RowsOK(m)
             /\ \A a, f : Noted(m, a, f) = Noted(list, a, f)
<1> DEFINE m == WithReads(list)
           row(a) == IF a \in DOMAIN list THEN list[a] ELSE NoAccount
           reads(a) == {k \in Slot : <<a, k>> \in slotReads}
<1>1. m = [a \in DOMAIN list \cup touched \cup {p[1] : p \in slotReads} |->
             [row(a) EXCEPT !.reads = reads(a) \ DOMAIN row(a).stor]]
  BY DEF WithReads
<1>2. DOMAIN list \cup touched \cup {p[1] : p \in slotReads} = touched
  BY DEF ListIsRead
<1>3. \A a : row(a) = Row(list, a)
  BY DEF Row
<1>4. DOMAIN m = touched
  <2> HIDE DEF row, reads, m
  <2> QED BY <1>1, <1>2
<1>5. \A a \in touched : m[a] = [row(a) EXCEPT !.reads = reads(a) \ DOMAIN row(a).stor]
  <2> HIDE DEF row, reads, m
  <2> QED BY <1>1, <1>2
<1>6. \A a : /\ DOMAIN row(a) = RowFields /\ DOMAIN row(a).stor \subseteq Slot
             /\ \A k \in DOMAIN row(a).stor : DOMAIN row(a).stor[k] # {}
  BY DEF Shape, RowsOK, RowOK, NoAccount, RowFields, Fields
<1> HIDE DEF row, reads, m
<1>7. \A a \in touched : /\ DOMAIN m[a] = RowFields
                         /\ \A f \in Fields : m[a][f] = row(a)[f]
                         /\ m[a].stor = row(a).stor
                         /\ m[a].reads = reads(a) \ DOMAIN row(a).stor
  BY <1>5, <1>6 DEF RowFields, Fields
<1>8. RowsOK(m)
  BY <1>4, <1>6, <1>7 DEF RowsOK, RowOK
<1>9. ASSUME NEW a, NEW f PROVE Noted(m, a, f) = Noted(list, a, f)
  <2>1. CASE a \in touched
    <3>1. Row(m, a) = m[a] /\ row(a) = Row(list, a)
      BY <2>1, <1>3, <1>4 DEF Row
    <3>2. CASE f \in Fields
      BY <2>1, <3>1, <3>2, <1>7 DEF Noted, NotedIn
    <3>3. CASE f \notin Fields
      BY <2>1, <3>1, <3>3, <1>7 DEF Noted, NotedIn
    <3> QED BY <3>2, <3>3
  <2>2. CASE a \notin touched
    <3>1. Row(m, a) = NoAccount /\ Row(list, a) = NoAccount
      BY <2>2, <1>4 DEF Row, ListIsRead
    <3> QED BY <3>1 DEF Noted
  <2> QED BY <2>1, <2>2
<1>10. \A a \in touched : /\ DOMAIN m[a] = RowFields
                          /\ \A f \in Fields : m[a][f] = Row(list, a)[f]
                          /\ m[a].stor = Row(list, a).stor
                          /\ m[a].reads = {k \in Slot : <<a, k>> \in slotReads}
                                          \ DOMAIN Row(list, a).stor
  BY <1>3, <1>7 DEF reads
<1> QED BY <1>4, <1>8, <1>9, <1>10 DEF m

\* Every item is counted once.
LEMMA ItemsAre ==
  ASSUME ListInv
  PROVE  LET m == WithReads(list)
         IN  /\ RecordedIn(m) = RecordedIn(list)
             /\ UNION {{<<a, k>> : k \in m[a].reads} : a \in DOMAIN m} =
                  slotReads \ Slots(RecordedIn(list))
             /\ Items(m) = Cardinality(touched) + Cardinality(slotReads)
<1> DEFINE m == WithReads(list)
           changed == UNION {{<<a, k>> : k \in DOMAIN m[a].stor} : a \in DOMAIN m}
           read == UNION {{<<a, k>> : k \in m[a].reads} : a \in DOMAIN m}
<1>1. Shape /\ ListIsRead /\ RowsOK(list)
  BY DEF ListInv, Shape
<1>2. /\ DOMAIN m = touched /\ RowsOK(m)
      /\ \A a, f : Noted(m, a, f) = Noted(list, a, f)
      /\ \A a \in touched : /\ m[a].stor = Row(list, a).stor
                            /\ m[a].reads = {k \in Slot : <<a, k>> \in slotReads}
                                            \ DOMAIN Row(list, a).stor
  BY <1>1, WithReadsIs
<1> HIDE DEF m
<1>3. RecordedIn(m) = RecordedIn(list)
  <2>1. ASSUME NEW c PROVE c \in RecordedIn(m) <=> c \in RecordedIn(list)
    <3>1. c \in RecordedIn(m) <=>
            \E a, j : \E f \in Fields \cup Slot :
              j \in DOMAIN Noted(m, a, f) /\ c = <<a, f, j, Noted(m, a, f)[j]>>
      BY <1>2, RecordedNoted
    <3>2. c \in RecordedIn(list) <=>
            \E a, j : \E f \in Fields \cup Slot :
              j \in DOMAIN Noted(list, a, f) /\ c = <<a, f, j, Noted(list, a, f)[j]>>
      BY <1>1, RecordedNoted
    <3> QED BY <3>1, <3>2, <1>2
  <2> QED BY <2>1
<1>4. slotReads \subseteq Addr \X Slot /\ \A p \in slotReads : p[1] \in touched
  BY <1>1 DEF ListIsRead
<1>5. ASSUME NEW a \in touched, NEW k
      PROVE  k \in DOMAIN m[a].stor <=> a \in DOMAIN list /\ k \in DOMAIN list[a].stor
  BY <1>2 DEF Row, NoAccount
<1>6. changed \subseteq slotReads
  BY <1>1, <1>2, <1>5 DEF ListIsRead
<1>7. \A p \in Addr \X Slot : p \in changed <=> p \in Slots(RecordedIn(list))
  <2> SUFFICES ASSUME NEW a \in Addr, NEW k \in Slot
               PROVE  <<a, k>> \in changed <=> <<a, k>> \in Slots(RecordedIn(list))
    OBVIOUS
  <2>1. <<a, k>> \in changed <=> a \in touched /\ k \in DOMAIN m[a].stor
    BY <1>2
  <2>2. a \in DOMAIN list => a \in touched
    BY <1>1 DEF ListIsRead
  <2> HIDE DEF changed
  <2> QED BY <2>1, <2>2, <1>1, <1>5, SlotsRecorded
<1>8. read = slotReads \ changed
  <2>1. ASSUME NEW p \in read PROVE p \in slotReads /\ p \notin changed
    <3> PICK a \in touched : p \in {<<a, k>> : k \in m[a].reads}
      BY <1>2, <2>1
    <3> PICK k \in m[a].reads : p = <<a, k>>
      OBVIOUS
    <3>1. k \in Slot /\ <<a, k>> \in slotReads /\ k \notin DOMAIN m[a].stor
      BY <1>2
    <3>2. <<a, k>> \notin changed
      BY <3>1
    <3> QED BY <3>1, <3>2
  <2>2. ASSUME NEW p \in slotReads, p \notin changed PROVE p \in read
    <3> PICK a \in Addr, k \in Slot : p = <<a, k>>
      BY <1>4
    <3>1. a \in touched
      BY <1>4
    <3>2. k \notin DOMAIN m[a].stor
      BY <2>2, <3>1, <1>2
    <3>3. k \in m[a].reads
      BY <3>1, <3>2, <1>2
    <3> QED BY <3>1, <3>3, <1>2
  <2> HIDE DEF read, changed
  <2> QED BY <2>1, <2>2
<1>9. Items(m) = Cardinality(DOMAIN m) + Cardinality(changed) + Cardinality(read \ changed)
  BY DEF Items
<1> HIDE DEF read, changed
<1>10. read \ changed = slotReads \ changed
  BY <1>8
<1>11. IsFiniteSet(slotReads)
  <2>1. IsFiniteSet(Addr \X Slot)
    BY WorldAssumption, FS_Product
  <2> QED BY <2>1, <1>4, FS_Subset
<1>12. /\ IsFiniteSet(changed) /\ IsFiniteSet(slotReads \ changed)
       /\ Cardinality(changed) \in Nat /\ Cardinality(slotReads \ changed) \in Nat
  BY <1>6, <1>11, FS_Subset, FS_CardinalityType
<1>13. Cardinality(slotReads) = Cardinality(changed) + Cardinality(slotReads \ changed)
  <2>1. slotReads = changed \cup (slotReads \ changed)
    BY <1>6
  <2>2. changed \cap (slotReads \ changed) = {}
    OBVIOUS
  <2>3. Cardinality(changed \cap (slotReads \ changed)) = 0
    BY <2>2, FS_EmptySet
  <2>4. Cardinality(changed \cup (slotReads \ changed)) =
          Cardinality(changed) + Cardinality(slotReads \ changed)
          - Cardinality(changed \cap (slotReads \ changed))
    BY <1>12, FS_Union
  <2> DEFINE rest == slotReads \ changed
  <2>5. Cardinality(slotReads) = Cardinality(changed \cup rest)
    BY <2>1
  <2>6. Cardinality(changed) \in Nat /\ Cardinality(rest) \in Nat
    BY <1>12
  <2>7. Cardinality(changed \cup rest) = Cardinality(changed) + Cardinality(rest) - 0
    BY <2>3, <2>4
  <2> HIDE DEF rest
  <2>8. Cardinality(slotReads) = Cardinality(changed) + Cardinality(rest)
    BY <2>5, <2>6, <2>7
  <2> QED BY <2>8 DEF rest
<1>14. read = slotReads \ Slots(RecordedIn(list))
  BY <1>4, <1>7, <1>8
<1>15. Cardinality(touched) \in Nat
  <2>1. touched \subseteq Addr
    BY <1>1 DEF ListIsRead
  <2> QED BY <2>1, WorldAssumption, FS_Subset, FS_CardinalityType
<1>16. Items(m) = Cardinality(touched) + Cardinality(changed) + Cardinality(slotReads \ changed)
  BY <1>2, <1>9, <1>10
<1>17. Items(m) = Cardinality(touched) + Cardinality(slotReads)
  BY <1>12, <1>13, <1>15, <1>16
<1> QED BY <1>3, <1>14, <1>17 DEF m, read

LEMMA FinishKeepsList == ListInv /\ Finish => ListInv'
<1> SUFFICES ASSUME ListInv, Finish PROVE ListInv'
  OBVIOUS
<1> DEFINE m == WithReads(list)
           sum == Cardinality(touched) + Cardinality(slotReads)
           now == net \cup Changes(index, start, world)
<1>1. /\ list' = m
      /\ UNCHANGED <<index, world, touched, slotReads, memo, start, net>>
  BY DEF Finish, ghosts
<1>2. IF Items(m) > GasLimit \div ItemGas THEN phase' = "too long"
      ELSE phase' \in {"accepted", "rejected"}
  BY DEF Finish
<1>3. Shape /\ MemoIsStart /\ ListIsNet /\ ListIsRead
  BY DEF ListInv
<1>4. /\ DOMAIN m = touched /\ RowsOK(m)
      /\ \A a \in touched : m[a].stor = Row(list, a).stor
  BY <1>3, WithReadsIs
<1>5. /\ RecordedIn(m) = RecordedIn(list)
      /\ UNION {{<<a, k>> : k \in m[a].reads} : a \in DOMAIN m} =
           slotReads \ Slots(RecordedIn(list))
      /\ Items(m) = sum
  BY ItemsAre
<1> HIDE DEF m
<1>6. Shape'
  BY <1>1, <1>3, <1>4 DEF Shape
<1>7. MemoIsStart'
  BY <1>1, <1>3 DEF MemoIsStart
<1>8. RecordedIn(list) = now
  BY <1>3, RecordedIs DEF ListIsNet
<1>9. ListIsNet'
  <2>1. Recorded' = RecordedIn(list')
    BY RecordedIs
  <2> QED BY <2>1, <1>1, <1>5, <1>8 DEF ListIsNet
<1>10. ListIsRead'
  <2>1. \A a \in touched : \A k \in DOMAIN m[a].stor : <<a, k>> \in slotReads
    BY <1>3, <1>4 DEF ListIsRead, Row, NoAccount
  <2> QED BY <2>1, <1>1, <1>3, <1>4 DEF ListIsRead
<1>11. Built'
  <2>1. (net \cup Changes(index, start, world))' = now
    BY <1>1
  <2>2. (UNION {{<<a, k>> : k \in list[a].reads} : a \in DOMAIN list})' =
          slotReads \ Slots(now)
    <3> DEFINE reads(l) == UNION {{<<a, k>> : k \in l[a].reads} : a \in DOMAIN l}
    <3>1. reads(m) = slotReads \ Slots(now)
      <4> HIDE DEF now
      <4> QED BY <1>5, <1>8
    <3>2. reads(list') = reads(m)
      BY <1>1
    <3> QED BY <3>1, <3>2
  <2>3. phase' \in {"accepted", "too long"} =>
          (phase' = "too long" <=> sum > GasLimit \div ItemGas)
    BY <1>2, <1>5
  <2> HIDE DEF now
  <2> QED BY <1>1, <1>4, <2>1, <2>2, <2>3 DEF Built
<1> QED BY <1>6, <1>7, <1>9, <1>10, <1>11 DEF ListInv

LEMMA InitList == Init => ListInv
<1> SUFFICES ASSUME Init PROVE ListInv
  OBVIOUS
<1>1. /\ index = 0 /\ net = {} /\ start = world /\ world \in Worlds /\ phase = "before"
      /\ touched = {} /\ slotReads = {} /\ list = [a \in {} |-> NoAccount] /\ memo = NoMemo
  BY DEF Init
<1>2. Shape
  BY <1>1, WorldAssumption DEF Shape, RowsOK
<1>3. MemoIsStart
  BY <1>1 DEF MemoIsStart, NoMemo
<1>4. ListIsNet
  <2>1. Recorded = {}
    BY <1>1 DEF Recorded
  <2>2. ASSUME NEW c \in Changes(index, start, world) PROVE FALSE
    BY <1>1, ChangesValues
  <2> QED BY <1>1, <2>1, <2>2 DEF ListIsNet
<1>5. ListIsRead
  BY <1>1 DEF ListIsRead
<1>6. Built
  BY <1>1 DEF Built
<1> QED BY <1>2, <1>3, <1>4, <1>5, <1>6 DEF ListInv

\* Nothing of the list changes, and it is not built now.
LEMMA StillList ==
  ASSUME ListInv, phase' = phase \/ phase' \notin {"accepted", "too long"},
         UNCHANGED <<index, world, access, ghosts>>
  PROVE  ListInv'
<1>1. UNCHANGED <<index, world, touched, slotReads, list, memo, start, net>>
  BY DEF access, ghosts
<1>2. Shape'
  BY <1>1 DEF ListInv, Shape
<1>3. MemoIsStart'
  BY <1>1 DEF ListInv, MemoIsStart
<1>4. ListIsNet'
  <2>1. Recorded' = RecordedIn(list') /\ Recorded = RecordedIn(list)
    BY RecordedIs
  <2> QED BY <2>1, <1>1 DEF ListInv, ListIsNet
<1>5. ListIsRead'
  BY <1>1 DEF ListInv, ListIsRead
<1>6. Built'
  <2>1. CASE phase' = phase
    <3> DEFINE reads(l) == UNION {{<<a, k>> : k \in l[a].reads} : a \in DOMAIN l}
               now == net \cup Changes(index, start, world)
    <3>1. Built = (phase \in {"accepted", "too long"} =>
                     /\ DOMAIN list = touched
                     /\ reads(list) = slotReads \ Slots(now)
                     /\ phase = "too long" <=>
                          Cardinality(touched) + Cardinality(slotReads) > GasLimit \div ItemGas)
      BY DEF Built
    <3>2. reads(list)' = reads(list) /\ now' = now
      <4>1. list' = list /\ reads(list)' = reads(list')
        BY <1>1
      <4>2. now' = now
        BY <1>1
      <4> HIDE DEF reads, now
      <4>3. reads(list') = reads(list)
        BY <4>1
      <4> QED BY <4>1, <4>2, <4>3
    <3>3. Slots(now)' = Slots(now)
      BY <3>2
    <3>4. Built' = (phase' \in {"accepted", "too long"} =>
                      /\ DOMAIN list' = touched'
                      /\ reads(list)' = slotReads' \ Slots(now)'
                      /\ phase' = "too long" <=>
                           Cardinality(touched') + Cardinality(slotReads') > GasLimit \div ItemGas)
      BY DEF Built
    <3>5. Built
      BY DEF ListInv
    <3> HIDE DEF reads, now
    <3> QED BY <2>1, <1>1, <3>1, <3>2, <3>3, <3>4, <3>5
  <2>2. CASE phase' \notin {"accepted", "too long"}
    BY <2>2 DEF Built
  <2> QED BY <2>1, <2>2
<1> QED BY <1>2, <1>3, <1>4, <1>5, <1>6 DEF ListInv

LEMMA NextList == ListInv /\ [Next]_vars => ListInv'
<1> SUFFICES ASSUME ListInv, [Next]_vars PROVE ListInv'
  OBVIOUS
<1>1. CASE UncheckedSystemTransaction
  <2> PICK e \in Effects : SystemMessage(e)
    BY <1>1 DEF UncheckedSystemTransaction
  <2>1. phase' \notin {"accepted", "too long"}
    BY <1>1 DEF UncheckedSystemTransaction
  <2> QED BY <2>1, SystemMessageKeepsList
<1>2. CASE Transaction
  <2> PICK t \in Txs :
        IF Checks(t) THEN /\ \E e \in Effects, u \in Uses : ProcessTransaction(t, e, u)
                          /\ UNCHANGED <<phase, left>>
        ELSE Reject
    BY <1>2 DEF Transaction
  <2>1. CASE Checks(t)
    <3> PICK e \in Effects, u \in Uses : ProcessTransaction(t, e, u)
      BY <2>1
    <3>1. phase' \notin {"accepted", "too long"}
      BY <1>2, <2>1 DEF Transaction
    <3> QED BY <3>1, TransactionKeepsList
  <2>2. CASE ~Checks(t)
    BY <2>2, StillList DEF Reject
  <2> QED BY <2>1, <2>2
<1>3. CASE ProcessWithdrawals
  BY <1>3, WithdrawalsKeepList
<1>4. CASE CheckedSystemTransaction
  <2>1. CASE Reject
    BY <2>1, StillList DEF Reject
  <2>2. CASE ~Reject
    <3> PICK e \in Effects : SystemMessage(e) /\ UNCHANGED phase
      BY <1>4, <2>2 DEF CheckedSystemTransaction
    <3>1. phase' \notin {"accepted", "too long"}
      BY <1>4 DEF CheckedSystemTransaction
    <3> QED BY <3>1, SystemMessageKeepsList
  <2> QED BY <2>1, <2>2
<1>5. CASE Finish
  BY <1>5, FinishKeepsList
<1>6. CASE UNCHANGED vars
  BY <1>6, StillList DEF vars
<1> QED BY <1>1, <1>2, <1>3, <1>4, <1>5, <1>6 DEF Next

\* The access list is the net change of each index, has every account touched and every
\* slot read, and the block is too long exactly if these are too many
\* (update_builder_from_tx, validate_block_access_list_gas_limit).
THEOREM ListIsAlwaysNet == Spec => []AccessListIsNet
<1>1. ListInv => AccessListIsNet
  BY DEF ListInv, ListIsNet, Built, AccessListIsNet
<1> QED BY <1>1, InitList, NextList, PTL DEF Spec
-----------------------------------------------------------------------------
(***************************************************************************)
(* Sums over finite sets.  A sum adds what it picks from the set to the    *)
(* sum of the rest; what it picks does not matter.                         *)
(***************************************************************************)
Pick(s) == CHOOSE x \in s : TRUE
AddsTo(b, g, s) == IF s = {} THEN 0 ELSE b[Pick(s)] + g[s \ {Pick(s)}]
Adds(b, S, g) == g = [s \in SUBSET S |-> AddsTo(b, g, s)]

LEMMA Picked == ASSUME NEW s, s # {} PROVE Pick(s) \in s
BY DEF Pick

\* Among sets there is one no element can be taken from.
LEMMA Minimal ==
  ASSUME NEW S, IsFiniteSet(S), NEW T, T \subseteq SUBSET S, T # {}
  PROVE  \E m \in T : \A x \in m : m \ {x} \notin T
<1>1. IsWellFoundedOn(StrictSubsetOrdering(S), SUBSET S)
  BY FS_StrictSubsetOrderingWellFounded, FS_FiniteSubsetsOfFinite
<1>2. PICK m \in T : \A y \in T : <<y, m>> \notin StrictSubsetOrdering(S)
  BY <1>1, WFMin
<1>3. ASSUME NEW x \in m, m \ {x} \in T PROVE FALSE
  <2> DEFINE y == m \ {x}
  <2>1. y \in SUBSET S /\ m \in SUBSET S /\ y \subseteq m /\ y # m
    OBVIOUS
  <2>2. <<y, m>> \in StrictSubsetOrdering(S)
    BY <2>1 DEF StrictSubsetOrdering
  <2> QED BY <1>2, <1>3, <2>2
<1> QED BY <1>3

\* There is a sum of every finite set: of the sets up to each size.
LEMMA AddsExists ==
  ASSUME NEW S, IsFiniteSet(S), NEW b
  PROVE  \E g : Adds(b, S, g)
<1> DEFINE upto(n) == {s \in SUBSET S : Cardinality(s) <= n}
           solves(g, n) == g = [s \in upto(n) |-> AddsTo(b, g, s)]
           bad == {n \in Nat : ~ \E g : solves(g, n)}
<1>1. \A s \in SUBSET S : IsFiniteSet(s) /\ Cardinality(s) \in Nat /\ Cardinality(s) <= Cardinality(S)
  BY FS_Subset, FS_CardinalityType
<1>2. Cardinality(S) \in Nat
  BY FS_CardinalityType
<1>3. \A s \in SUBSET S : s # {} => /\ s \ {Pick(s)} \in SUBSET S
                                    /\ Cardinality(s \ {Pick(s)}) = Cardinality(s) - 1
  <2> SUFFICES ASSUME NEW s \in SUBSET S, s # {}
               PROVE  /\ s \ {Pick(s)} \in SUBSET S
                      /\ Cardinality(s \ {Pick(s)}) = Cardinality(s) - 1
    OBVIOUS
  <2> QED BY <1>1, Picked, FS_RemoveElement
<1>4. ASSUME bad # {} PROVE FALSE
  <2>1. PICK m \in bad : \A k \in bad : ~(k < m)
    <3>1. bad \subseteq Nat
      OBVIOUS
    <3> HIDE DEF bad
    <3>2. PICK m \in bad : \A k \in bad : ~(<<k, m>> \in OpToRel(<, Nat))
      BY <1>4, <3>1, WFMin, NatLessThanWellFounded
    <3> QED BY <3>1, <3>2 DEF OpToRel
  <2> HIDE DEF solves, upto
  <2>2. m \in Nat /\ ~ \E g : solves(g, m)
    OBVIOUS
  <2>3. \E g : m # 0 => solves(g, m - 1)
    <3>1. CASE m = 0
      BY <3>1
    <3>2. CASE m # 0
      <4>1. m - 1 \in Nat /\ m - 1 < m
        BY <2>2, <3>2
      <4>2. m - 1 \notin bad
        BY <2>1, <4>1
      <4> QED BY <4>1, <4>2
    <3> QED BY <3>1, <3>2
  <2> PICK g : m # 0 => solves(g, m - 1)
    BY <2>3
  <2> DEFINE h == [s \in upto(m) |-> AddsTo(b, g, s)]
  <2>4. ASSUME NEW s \in upto(m) PROVE AddsTo(b, g, s) = AddsTo(b, h, s)
    <3>1. CASE s = {}
      BY <3>1 DEF AddsTo
    <3>2. CASE s # {}
      <4> DEFINE r == s \ {Pick(s)}
      <4>1. s \in SUBSET S /\ Cardinality(s) <= m
        BY DEF upto
      <4>2. r \in SUBSET S /\ Cardinality(r) \in Nat /\ Cardinality(r) = Cardinality(s) - 1
        BY <1>1, <1>3, <3>2, <4>1
      <4>3. m # 0 /\ Cardinality(r) <= m - 1 /\ Cardinality(r) <= m
        BY <1>1, <2>2, <4>1, <4>2
      <4>4. r \in upto(m) /\ r \in upto(m - 1)
        BY <4>2, <4>3 DEF upto
      <4> HIDE DEF r
      <4>5. g[r] = AddsTo(b, g, r)
        BY <4>3, <4>4 DEF solves
      <4>6. h[r] = AddsTo(b, g, r)
        BY <4>4
      <4> QED BY <3>2, <4>5, <4>6 DEF AddsTo, r
    <3> QED BY <3>1, <3>2
  <2>5. h = [s \in upto(m) |-> AddsTo(b, h, s)]
    <3> DEFINE H == [s \in upto(m) |-> AddsTo(b, h, s)]
    <3>1. \A s \in upto(m) : h[s] = H[s]
      BY <2>4
    <3>2. DOMAIN h = upto(m) /\ DOMAIN H = upto(m)
      OBVIOUS
    <3>3. h = H
      BY <3>1, <3>2
    <3> QED BY <3>3
  <2>6. solves(h, m)
    BY <2>5 DEF solves
  <2> QED BY <2>2, <2>6
<1>5. \E g : solves(g, Cardinality(S))
  BY <1>2, <1>4
<1>6. upto(Cardinality(S)) = SUBSET S
  BY <1>1
<1> QED BY <1>5, <1>6 DEF Adds

LEMMA AddsUnique ==
  ASSUME NEW S, IsFiniteSet(S), NEW b, NEW g, NEW h, Adds(b, S, g), Adds(b, S, h)
  PROVE  g = h
<1> DEFINE odd == {s \in SUBSET S : g[s] # h[s]}
<1>1. /\ DOMAIN g = SUBSET S /\ DOMAIN h = SUBSET S
      /\ \A s \in SUBSET S : g[s] = AddsTo(b, g, s) /\ h[s] = AddsTo(b, h, s)
  BY DEF Adds
<1>2. ASSUME odd # {} PROVE FALSE
  <2>1. odd \subseteq SUBSET S
    OBVIOUS
  <2>2. PICK m \in odd : \A x \in m : m \ {x} \notin odd
    <3> HIDE DEF odd
    <3> QED BY <1>2, <2>1, Minimal
  <2>3. CASE m = {}
    BY <1>1, <2>3 DEF AddsTo
  <2>4. CASE m # {}
    <3>1. Pick(m) \in m
      BY <2>4, Picked
    <3>2. g[m \ {Pick(m)}] = h[m \ {Pick(m)}]
      BY <2>2, <3>1
    <3> QED BY <1>1, <2>4, <3>2 DEF AddsTo
  <2> QED BY <2>3, <2>4
<1>3. \A s \in SUBSET S : g[s] = h[s]
  BY <1>2
<1>4. g = [s \in SUBSET S |-> g[s]] /\ h = [s \in SUBSET S |-> h[s]]
  BY <1>1, Zenon DEF Adds
<1> QED BY <1>3, <1>4

LEMMA AddsStep ==
  ASSUME NEW S, NEW b, NEW g, Adds(b, S, g), NEW s \in SUBSET S
  PROVE  /\ s = {} => g[s] = 0
         /\ s # {} => /\ Pick(s) \in s
                      /\ g[s] = b[Pick(s)] + g[s \ {Pick(s)}]
BY Picked DEF Adds, AddsTo

\* Numbers that are not negative have a sum that is not, and at least each of them.
LEMMA AddsNat ==
  ASSUME NEW S, IsFiniteSet(S), NEW b, NEW g, Adds(b, S, g), \A x \in S : b[x] \in Nat
  PROVE  \A s \in SUBSET S : g[s] \in Nat /\ \A x \in s : b[x] <= g[s]
<1> DEFINE good(s) == g[s] \in Nat /\ \A x \in s : b[x] <= g[s]
           odd == {s \in SUBSET S : ~good(s)}
<1>1. ASSUME odd # {} PROVE FALSE
  <2>1. odd \subseteq SUBSET S
    OBVIOUS
  <2>2. PICK m \in odd : \A x \in m : m \ {x} \notin odd
    <3> HIDE DEF odd
    <3> QED BY <1>1, <2>1, Minimal
  <2>3. m # {}
    <3>1. m \in SUBSET S /\ ~good(m)
      BY <2>2
    <3>2. m = {} => g[m] = 0
      BY <3>1, AddsStep
    <3> QED BY <3>1, <3>2
  <2> DEFINE p == Pick(m)
             r == m \ {p}
  <2>4. p \in m /\ m \in SUBSET S /\ g[m] = b[p] + g[r]
    BY <2>3, AddsStep
  <2> HIDE DEF p
  <2>5. good(r) /\ b[p] \in Nat
    BY <2>2, <2>4
  <2>6. \A x \in m : x = p \/ x \in r
    BY <2>4
  <2>7. ASSUME NEW x \in m PROVE b[x] <= g[m] /\ b[x] \in Nat
    <3> HIDE DEF r
    <3>1. b[x] \in Nat
      BY <2>4
    <3> QED BY <3>1, <2>4, <2>5, <2>6
  <2>8. g[m] \in Nat
    <3> HIDE DEF r
    <3> QED BY <2>4, <2>5
  <2>9. good(m)
    BY <2>7, <2>8
  <2> QED BY <2>9
<1> QED BY <1>1

\* Whatever is taken away first, the rest adds up to the difference.
LEMMA AddsRemove ==
  ASSUME NEW S, IsFiniteSet(S), NEW b, NEW g, Adds(b, S, g), \A x \in S : b[x] \in Nat
  PROVE  \A s \in SUBSET S : \A x \in s : g[s] = b[x] + g[s \ {x}]
<1> DEFINE good(s) == \A x \in s : g[s] = b[x] + g[s \ {x}]
           odd == {s \in SUBSET S : ~good(s)}
<1>1. \A s \in SUBSET S : g[s] \in Nat
  BY AddsNat
<1>2. ASSUME odd # {} PROVE FALSE
  <2>1. odd \subseteq SUBSET S
    OBVIOUS
  <2>2. PICK m \in odd : \A x \in m : m \ {x} \notin odd
    <3> HIDE DEF odd
    <3> QED BY <1>2, <2>1, Minimal
  <2> PICK x \in m : g[m] # b[x] + g[m \ {x}]
    OBVIOUS
  <2> DEFINE p == Pick(m)
  <2>3. m # {} /\ m \in SUBSET S
    OBVIOUS
  <2>4. p \in m /\ g[m] = b[p] + g[m \ {p}]
    BY <2>3, AddsStep
  <2> HIDE DEF p
  <2>5. x # p
    BY <2>2, <2>4
  <2>6. good(m \ {p}) /\ good(m \ {x})
    BY <2>2, <2>3, <2>4
  <2>7. g[m \ {p}] = b[x] + g[(m \ {p}) \ {x}]
    BY <2>5, <2>6
  <2>8. g[m \ {x}] = b[p] + g[(m \ {x}) \ {p}]
    <3>1. p \in m \ {x}
      BY <2>4, <2>5
    <3> QED BY <3>1, <2>6
  <2>9. (m \ {p}) \ {x} = (m \ {x}) \ {p}
    OBVIOUS
  <2>10. b[x] \in Nat /\ b[p] \in Nat /\ g[(m \ {p}) \ {x}] \in Nat
    <3>1. (m \ {p}) \ {x} \in SUBSET S
      BY <2>3
    <3> QED BY <3>1, <2>3, <2>4, <1>1
  <2>11. g[m] = b[x] + g[m \ {x}]
    <3> DEFINE rest == g[(m \ {p}) \ {x}]
    <3>1. g[m \ {x}] = b[p] + rest
      BY <2>8, <2>9
    <3>2. g[m] = b[p] + (b[x] + rest)
      BY <2>4, <2>7
    <3>3. rest \in Nat
      BY <2>10
    <3> HIDE DEF rest
    <3> QED BY <2>10, <3>1, <3>2, <3>3
  <2> QED BY <2>11
<1> QED BY <1>2

\* One number changes, and the sum changes by the difference.
LEMMA AddsChange ==
  ASSUME NEW S, IsFiniteSet(S), NEW b, NEW c, NEW g, NEW h, Adds(b, S, g), Adds(c, S, h),
         \A x \in S : b[x] \in Nat /\ c[x] \in Nat,
         NEW x \in S, \A y \in S : y # x => b[y] = c[y]
  PROVE  h[S] = g[S] - b[x] + c[x]
<1> DEFINE rest == S \ {x}
           odd == {s \in SUBSET rest : g[s] # h[s]}
<1>1. ASSUME odd # {} PROVE FALSE
  <2>1. odd \subseteq SUBSET S
    OBVIOUS
  <2>2. PICK m \in odd : \A y \in m : m \ {y} \notin odd
    <3> HIDE DEF odd
    <3> QED BY <1>1, <2>1, Minimal
  <2>3. m \in SUBSET S /\ m \in SUBSET rest
    OBVIOUS
  <2>4. CASE m = {}
    <3>1. m = {} => g[m] = 0
      BY <2>3, AddsStep, SMTT(60)
    <3>2. m = {} => h[m] = 0
      BY <2>3 DEF Adds, AddsTo
    <3> QED BY <2>4, <3>1, <3>2
  <2>5. CASE m # {}
    <3> DEFINE p == Pick(m)
    <3>1. p \in m /\ g[m] = b[p] + g[m \ {p}]
      BY <2>3, <2>5, AddsStep
    <3>2. h[m] = c[p] + h[m \ {p}]
      BY <2>3, <2>5, AddsStep
    <3> HIDE DEF p
    <3>3. b[p] = c[p]
      BY <2>3, <3>1
    <3>4. g[m \ {p}] = h[m \ {p}]
      BY <2>2, <2>3, <3>1
    <3>5. g[m] # h[m]
      BY <2>2
    <3> QED BY <3>1, <3>2, <3>3, <3>4, <3>5
  <2> QED BY <2>4, <2>5
<1>2. g[rest] = h[rest]
  BY <1>1
<1>3. g[S] = b[x] + g[rest] /\ h[S] = c[x] + h[rest]
  BY AddsRemove
<1>4. g[rest] \in Nat /\ h[rest] \in Nat /\ b[x] \in Nat /\ c[x] \in Nat
  BY AddsNat
<1> HIDE DEF rest
<1> QED BY <1>2, <1>3, <1>4
-----------------------------------------------------------------------------
(***************************************************************************)
(* The ether of a block is conserved.  The invariant is inductive with     *)
(* what keeps a balance within a word: the accounts are whole, and what    *)
(* there is with what the payload may still withdraw is below 2^256.       *)
(***************************************************************************)
Whole(acct) ==
  /\ DOMAIN acct = Addr
  /\ \A a \in Addr : DOMAIN acct[a] = {"balance", "nonce", "code"} /\ acct[a].balance \in Nat

Fits == /\ supply < EtherMod
        /\ phase \in {"before", "txs"} => \A ws \in Withdrawals : supply + Brought(ws) < EtherMod

EtherInv == Whole(world.acct) /\ EtherConserved /\ Fits

Balances(acct) == [a \in Addr |-> acct[a].balance]
AmountsOf(ws) == [w \in ws |-> w.amount]

LEMMA EtherIs ==
  ASSUME NEW acct
  PROVE  \E g : Adds(Balances(acct), Addr, g) /\ Ether(acct) = g[Addr]
<1> DEFINE b == Balances(acct)
           To(g) == [s \in SUBSET Addr |->
                       IF s = {} THEN 0
                       ELSE acct[CHOOSE x \in s : TRUE].balance + g[s \ {CHOOSE x \in s : TRUE}]]
           h == CHOOSE g : g = To(g)
<1>1. ASSUME NEW g PROVE To(g) = [s \in SUBSET Addr |-> AddsTo(b, g, s)]
  <2>1. \A s \in SUBSET Addr : s # {} => b[Pick(s)] = acct[Pick(s)].balance
    BY Picked DEF Balances
  <2>2. \A s \in SUBSET Addr : AddsTo(b, g, s) =
           IF s = {} THEN 0 ELSE acct[CHOOSE x \in s : TRUE].balance + g[s \ {CHOOSE x \in s : TRUE}]
    BY <2>1 DEF AddsTo, Pick
  <2> QED BY <2>2
<1>2. PICK g : Adds(b, Addr, g)
  BY AddsExists, WorldAssumption
<1>3. g = To(g)
  BY <1>1, <1>2, Zenon DEF Adds
<1>4. h = To(h)
  <2> HIDE DEF To
  <2> QED BY <1>3
<1>5. Adds(b, Addr, h)
  BY <1>1, <1>4, Zenon DEF Adds
<1>6. Ether(acct) = h[Addr]
  BY DEF Ether, MapThenSumSet, MapThenFoldSet
<1> QED BY <1>5, <1>6

LEMMA BroughtIs ==
  ASSUME NEW ws, IsFiniteSet(ws)
  PROVE  \E g : Adds(AmountsOf(ws), ws, g) /\ Brought(ws) = g[ws]
<1> DEFINE b == AmountsOf(ws)
           To(g) == [s \in SUBSET ws |->
                       IF s = {} THEN 0
                       ELSE (CHOOSE x \in s : TRUE).amount + g[s \ {CHOOSE x \in s : TRUE}]]
           h == CHOOSE g : g = To(g)
<1>1. ASSUME NEW g PROVE To(g) = [s \in SUBSET ws |-> AddsTo(b, g, s)]
  <2>1. \A s \in SUBSET ws : s # {} => b[Pick(s)] = Pick(s).amount
    BY Picked DEF AmountsOf
  <2>2. \A s \in SUBSET ws : AddsTo(b, g, s) =
           IF s = {} THEN 0 ELSE (CHOOSE x \in s : TRUE).amount + g[s \ {CHOOSE x \in s : TRUE}]
    BY <2>1 DEF AddsTo, Pick
  <2> QED BY <2>2
<1>2. PICK g : Adds(b, ws, g)
  BY AddsExists
<1>3. g = To(g)
  BY <1>1, <1>2, Zenon DEF Adds
<1>4. h = To(h)
  <2> HIDE DEF To
  <2> QED BY <1>3
<1>5. Adds(b, ws, h)
  BY <1>1, <1>4, Zenon DEF Adds
<1>6. Brought(ws) = h[ws]
  BY DEF Brought, MapThenSumSet, MapThenFoldSet
<1> QED BY <1>5, <1>6

\* The ether there is is a number, at least that of each account.
LEMMA EtherNat ==
  ASSUME NEW acct, Whole(acct)
  PROVE  Ether(acct) \in Nat /\ \A a \in Addr : acct[a].balance <= Ether(acct)
<1>1. PICK g : Adds(Balances(acct), Addr, g) /\ Ether(acct) = g[Addr]
  BY EtherIs
<1>2. \A a \in Addr : Balances(acct)[a] = acct[a].balance /\ Balances(acct)[a] \in Nat
  BY DEF Balances, Whole
<1>3. \A s \in SUBSET Addr : g[s] \in Nat /\ \A a \in s : Balances(acct)[a] <= g[s]
  BY <1>1, <1>2, AddsNat, WorldAssumption
<1> QED BY <1>1, <1>2, <1>3

\* What the accounts hold is all that counts.
LEMMA EtherSame ==
  ASSUME NEW acct, NEW other, \A a \in Addr : acct[a].balance = other[a].balance
  PROVE  Ether(acct) = Ether(other)
<1>1. PICK g : Adds(Balances(acct), Addr, g) /\ Ether(acct) = g[Addr]
  BY EtherIs
<1>2. PICK h : Adds(Balances(other), Addr, h) /\ Ether(other) = h[Addr]
  BY EtherIs
<1>3. Balances(acct) = Balances(other)
  BY DEF Balances
<1>4. g = h
  BY <1>1, <1>2, <1>3, AddsUnique, WorldAssumption
<1> QED BY <1>1, <1>2, <1>4

\* One account changes, and so does the ether there is.
LEMMA EtherChange ==
  ASSUME NEW acct, Whole(acct), NEW other, Whole(other), NEW a \in Addr,
         \A x \in Addr : x # a => acct[x].balance = other[x].balance
  PROVE  Ether(other) = Ether(acct) - acct[a].balance + other[a].balance
<1> DEFINE b == Balances(acct)
           c == Balances(other)
<1>1. PICK g : Adds(b, Addr, g) /\ Ether(acct) = g[Addr]
  BY EtherIs
<1>2. PICK h : Adds(c, Addr, h) /\ Ether(other) = h[Addr]
  BY EtherIs
<1>3. \A x \in Addr : b[x] \in Nat /\ c[x] \in Nat
  BY DEF Balances, Whole
<1>4. \A x \in Addr : x # a => b[x] = c[x]
  BY DEF Balances
<1>5. b[a] = acct[a].balance /\ c[a] = other[a].balance
  BY DEF Balances
<1> HIDE DEF b, c
<1>6. h[Addr] = g[Addr] - b[a] + c[a]
  BY <1>1, <1>2, <1>3, <1>4, AddsChange, WorldAssumption
<1> QED BY <1>1, <1>2, <1>5, <1>6

\* What a payment does that no word cuts off.
PaysIn(acct, a, n) ==
  /\ Whole(Credit(acct, a, n)) /\ Ether(Credit(acct, a, n)) = Ether(acct) + n
  /\ Credit(acct, a, n)[a].balance = acct[a].balance + n
PaysOut(acct, a, n) ==
  /\ Whole(Debit(acct, a, n)) /\ Ether(Debit(acct, a, n)) = Ether(acct) - n
  /\ Debit(acct, a, n)[a].balance = acct[a].balance - n

LEMMA CreditAdds ==
  ASSUME NEW acct, Whole(acct), NEW a \in Addr, NEW n \in Nat, Ether(acct) + n < EtherMod
  PROVE  PaysIn(acct, a, n)
<1> DEFINE other == Credit(acct, a, n)
           bal == acct[a].balance
<1>1. Ether(acct) \in Nat /\ bal \in Nat /\ bal <= Ether(acct) /\ EtherMod \in Nat \ {0}
  BY EtherNat, BlockAssumption DEF Whole
<1>2. (bal + n) % EtherMod = bal + n
  <2> HIDE DEF bal
  <2> QED BY <1>1
<1>3. /\ DOMAIN other = Addr /\ other[a].balance = bal + n
      /\ \A x \in Addr : DOMAIN other[x] = {"balance", "nonce", "code"}
      /\ \A x \in Addr : x # a => other[x].balance = acct[x].balance
  BY <1>2 DEF Whole, Credit
<1>4. Whole(other)
  <2>1. \A x \in Addr : other[x].balance \in Nat
    BY <1>1, <1>3 DEF Whole
  <2> QED BY <1>3, <2>1 DEF Whole
<1>5. Ether(other) = Ether(acct) - bal + other[a].balance
  <2> HIDE DEF other
  <2> QED BY <1>3, <1>4, EtherChange
<1> HIDE DEF bal
<1> QED BY <1>1, <1>3, <1>4, <1>5 DEF PaysIn, bal

LEMMA DebitTakes ==
  ASSUME NEW acct, Whole(acct), NEW a \in Addr, NEW n \in Nat, n <= acct[a].balance
  PROVE  PaysOut(acct, a, n)
<1> DEFINE other == Debit(acct, a, n)
           bal == acct[a].balance
<1>1. Ether(acct) \in Nat /\ bal \in Nat
  BY EtherNat DEF Whole
<1>2. Minus(bal, n, EtherMod) = bal - n
  BY <1>1 DEF Minus
<1>3. /\ DOMAIN other = Addr /\ other[a].balance = bal - n
      /\ \A x \in Addr : DOMAIN other[x] = {"balance", "nonce", "code"}
      /\ \A x \in Addr : x # a => other[x].balance = acct[x].balance
  BY <1>2 DEF Whole, Debit
<1>4. Whole(other)
  <2>1. \A x \in Addr : other[x].balance \in Nat
    BY <1>1, <1>3 DEF Whole
  <2> QED BY <1>3, <2>1 DEF Whole
<1>5. Ether(other) = Ether(acct) - bal + other[a].balance
  <2> HIDE DEF other
  <2> QED BY <1>3, <1>4, EtherChange
<1> HIDE DEF bal
<1> QED BY <1>1, <1>3, <1>4, <1>5 DEF PaysOut, bal

LEMMA Products ==
  ASSUME NEW a \in Nat, NEW b \in Nat, NEW c \in Nat, c <= b
  PROVE  /\ a * b \in Nat /\ a * c \in Nat /\ a * (b - c) \in Nat /\ a * c <= a * b
         /\ a * (b - c) = a * b - a * c
<1>1. a * b \in Nat /\ a * c \in Nat
  OBVIOUS
<1>2. b - c \in Nat
  OBVIOUS
<1>3. a * (b - c) \in Nat
  BY <1>2
<1>4. a * (b - c) = a * b - a * c
  OBVIOUS
<1> QED BY <1>1, <1>3, <1>4

\* What a transaction is charged up front.
Cost(t) == t.gas * Price(t) + t.blobGas * BlobPrice

\* The price lies between the base fee and what the sender offers, so the worst
\* case check_transaction compares the balance with covers the charge and the value.
LEMMA CostCovered ==
  ASSUME NEW t \in Txs, Checks(t), world.acct[t.sender].balance \in Nat
  PROVE  /\ Price(t) \in Nat /\ BaseFee \in Nat /\ BaseFee <= Price(t)
         /\ t.value \in Nat /\ t.gas \in Nat /\ t.gas * Price(t) \in Nat
         /\ t.blobGas * BlobPrice \in Nat /\ Cost(t) \in Nat
         /\ Cost(t) + t.value <= world.acct[t.sender].balance
<1> DEFINE bal == world.acct[t.sender].balance
           p == Price(t)
<1>1. /\ t.gas \in Nat /\ t.maxFee \in Nat /\ t.maxTip \in Nat /\ t.value \in Nat
      /\ t.blobGas \in Nat /\ t.maxBlobFee \in Nat /\ BaseFee \in Nat /\ BlobPrice \in Nat
  BY BlockAssumption DEF TxFields
<1>2. t.maxTip <= t.maxFee /\ BaseFee <= t.maxFee /\ (t.blobGas > 0 => BlobPrice <= t.maxBlobFee)
  BY DEF Checks
<1>3. p \in Nat /\ BaseFee <= p /\ p <= t.maxFee
  BY <1>1, <1>2 DEF Price, Least
<1>4. t.gas * t.maxFee + t.blobGas * t.maxBlobFee + t.value <= bal
  BY DEF Checks, Affords
<1> HIDE DEF bal, p
<1>5. /\ t.gas * p \in Nat /\ t.gas * t.maxFee \in Nat /\ t.gas * p <= t.gas * t.maxFee
  BY <1>1, <1>3, Products
<1>6. /\ t.blobGas * BlobPrice \in Nat /\ t.blobGas * t.maxBlobFee \in Nat
      /\ t.blobGas * BlobPrice <= t.blobGas * t.maxBlobFee
  <2>1. CASE t.blobGas = 0
    <3>1. 0 * BlobPrice = 0 /\ 0 * t.maxBlobFee = 0
      BY <1>1
    <3> QED BY <2>1, <3>1
  <2>2. CASE t.blobGas > 0
    BY <1>1, <1>2, <2>2, Products
  <2> QED BY <1>1, <2>1, <2>2
<1> DEFINE c1 == t.gas * p
           c2 == t.blobGas * BlobPrice
           m1 == t.gas * t.maxFee
           m2 == t.blobGas * t.maxBlobFee
<1>7. /\ c1 \in Nat /\ c2 \in Nat /\ m1 \in Nat /\ m2 \in Nat /\ c1 <= m1 /\ c2 <= m2
      /\ m1 + m2 + t.value <= bal /\ Cost(t) = c1 + c2 /\ bal \in Nat
  BY <1>4, <1>5, <1>6 DEF Cost, p, bal
<1> HIDE DEF c1, c2, m1, m2
<1>8. Cost(t) \in Nat /\ Cost(t) + t.value <= bal
  BY <1>1, <1>7
<1> QED BY <1>1, <1>3, <1>5, <1>6, <1>8 DEF p, bal

\* The charge and the value leave the sender, and only the charge leaves the block.
LEMMA MovedLeaves ==
  ASSUME EtherInv, NEW t \in Txs, Checks(t), NEW e \in Effects
  PROVE  LET acct == Moved(Charged(world.acct, t), t, e)
         IN  Whole(acct) /\ Ether(acct) = supply - Cost(t)
<1> DEFINE s == t.sender
           bal == world.acct[s].balance
           acct0 == [world.acct EXCEPT ![s].nonce = @ + 1]
           acct1 == Debit(acct0, s, Cost(t))
           acct2 == Debit(acct1, s, t.value)
           acct3 == Credit(acct2, t.to, t.value)
<1>1. /\ Whole(world.acct) /\ Ether(world.acct) = supply /\ supply < EtherMod /\ supply \in Nat
      /\ EtherMod \in Nat
  BY EtherNat, BlockAssumption DEF EtherInv, Fits, EtherConserved
<1>2. s \in Addr /\ t.to \in Addr /\ bal \in Nat
  BY <1>1, WorldAssumption DEF Whole
<1>3. Cost(t) \in Nat /\ t.value \in Nat /\ Cost(t) + t.value <= bal
  BY <1>2, CostCovered
<1>4. Whole(acct0) /\ acct0[s].balance = bal /\ Ether(acct0) = supply
  <2>1. Whole(acct0) /\ \A a \in Addr : acct0[a].balance = world.acct[a].balance
    BY <1>1, <1>2 DEF Whole
  <2> HIDE DEF acct0
  <2>2. Ether(acct0) = Ether(world.acct)
    BY <2>1, EtherSame
  <2> QED BY <1>1, <1>2, <2>1, <2>2
<1> HIDE DEF acct0, bal, s
<1>5. PaysOut(acct0, s, Cost(t))
  BY <1>2, <1>3, <1>4, DebitTakes
<1>6. Whole(acct1) /\ Ether(acct1) = supply - Cost(t) /\ acct1[s].balance = bal - Cost(t)
  BY <1>4, <1>5 DEF PaysOut
<1> HIDE DEF acct1
<1>7. PaysOut(acct1, s, t.value)
  <2>1. t.value <= acct1[s].balance
    BY <1>2, <1>3, <1>6
  <2> QED BY <1>2, <1>3, <1>6, <2>1, DebitTakes
<1>8. Whole(acct2) /\ Ether(acct2) = supply - Cost(t) - t.value
  BY <1>6, <1>7 DEF PaysOut
<1> HIDE DEF acct2
<1>9. PaysIn(acct2, t.to, t.value)
  <2>1. Ether(acct2) + t.value < EtherMod
    BY <1>1, <1>3, <1>8
  <2> QED BY <1>2, <1>3, <1>8, <2>1, CreditAdds
<1>10. Whole(acct3) /\ Ether(acct3) = supply - Cost(t)
  BY <1>1, <1>3, <1>8, <1>9 DEF PaysIn
<1>11. Charged(world.acct, t) = acct1
  BY DEF Charged, Cost, acct1, acct0, s
<1>12. Moved(acct1, t, e) = IF e.error THEN acct1 ELSE acct3
  BY DEF Moved, acct2, s
<1> HIDE DEF acct3
<1>13. CASE e.error
  BY <1>6, <1>11, <1>12, <1>13
<1>14. CASE ~e.error
  BY <1>10, <1>11, <1>12, <1>14
<1> QED BY <1>13, <1>14

LEMMA InstalledKeeps ==
  ASSUME NEW acct, Whole(acct), NEW e
  PROVE  Whole(Installed(acct, e)) /\ Ether(Installed(acct, e)) = Ether(acct)
<1> DEFINE other == Installed(acct, e)
<1>1. DOMAIN other = Addr
  BY DEF Whole, Installed
<1>2. ASSUME NEW a \in Addr
      PROVE  other[a].balance = acct[a].balance /\ DOMAIN other[a] = DOMAIN acct[a]
  <2>1. a \in DOMAIN acct /\ "balance" \in DOMAIN acct[a]
    BY DEF Whole
  <2>2. other[a] = IF a \in e.installs /\ ~e.error
                   THEN [acct[a] EXCEPT !.code = NewCode, !.nonce = 1] ELSE acct[a]
    BY <2>1 DEF Installed
  <2> HIDE DEF other
  <2> QED BY <2>1, <2>2
<1>3. Whole(other)
  <2> HIDE DEF other
  <2> QED BY <1>1, <1>2 DEF Whole
<1>4. Ether(other) = Ether(acct)
  <2> HIDE DEF other
  <2> QED BY <1>2, EtherSame
<1> QED BY <1>3, <1>4

\* What is given back and what the coinbase gets leave the base fee of the gas used
\* and the blob fee out of the world.
LEMMA SettledIs ==
  ASSUME EtherInv, NEW t \in Txs, Checks(t), NEW e \in Effects, NEW u \in Uses, MayUse(t, u)
  PROVE  /\ Whole(Settled(t, e, u)) /\ GasUsed(t, u) * BaseFee + t.blobGas * BlobPrice \in Nat
         /\ Ether(Settled(t, e, u)) = supply - GasUsed(t, u) * BaseFee - t.blobGas * BlobPrice
<1> DEFINE used == GasUsed(t, u)
           p == Price(t)
           acct1 == Installed(Moved(Charged(world.acct, t), t, e), e)
           acct2 == Credit(acct1, t.sender, (t.gas - used) * p)
           acct3 == Credit(acct2, Coinbase, used * (p - BaseFee))
<1>1. Whole(acct1) /\ Ether(acct1) = supply - Cost(t)
  <2> DEFINE acct0 == Moved(Charged(world.acct, t), t, e)
  <2>1. Whole(acct0) /\ Ether(acct0) = supply - Cost(t)
    BY MovedLeaves
  <2> HIDE DEF acct0
  <2>2. /\ Whole(Installed(acct0, e))
        /\ Ether(Installed(acct0, e)) = Ether(acct0)
    BY <2>1, InstalledKeeps
  <2>3. Ether(Installed(acct0, e)) = supply - Cost(t)
    BY <2>1, <2>2
  <2> QED BY <2>2, <2>3 DEF acct0
<1>2. t.sender \in Addr /\ Coinbase \in Addr /\ supply < EtherMod /\ EtherMod \in Nat
  BY WorldAssumption, BlockAssumption DEF EtherInv, Fits
<1>3. /\ p \in Nat /\ BaseFee \in Nat /\ BaseFee <= p /\ t.gas \in Nat
      /\ t.gas * p \in Nat /\ t.blobGas * BlobPrice \in Nat /\ supply \in Nat
  BY CostCovered, EtherNat, WorldAssumption DEF EtherInv, EtherConserved, Whole
<1>4. used \in 0 .. t.gas /\ Minus(t.gas, used, GasMod) = t.gas - used
  <2>1. used \in t.floor .. t.gas /\ t.floor \in Nat
    BY RefundNotNegative, BlockAssumption DEF Checks, TxFields
  <2>2. Minus(t.gas, used, GasMod) = t.gas - used
    BY RefundNotNegative DEF Checks
  <2> HIDE DEF used
  <2> QED BY <1>3, <2>1, <2>2
<1>5. Settled(t, e, u) = acct3
  BY <1>4 DEF Settled, Paid
<1> HIDE DEF used, p, acct1
<1> DEFINE back == (t.gas - used) * p
           tip == used * (p - BaseFee)
           burnt == used * BaseFee
           blobs == t.blobGas * BlobPrice
<1>6. /\ back \in Nat /\ tip \in Nat /\ burnt \in Nat /\ blobs \in Nat
      /\ back + tip + burnt = t.gas * p
  <2>1. used \in Nat /\ used <= t.gas
    BY <1>3, <1>4
  <2>2. tip \in Nat /\ burnt \in Nat /\ used * p \in Nat /\ tip = used * p - burnt
    BY <1>3, <2>1, Products
  <2>3. p * (t.gas - used) \in Nat /\ p * (t.gas - used) = p * t.gas - p * used
    BY <1>3, <2>1, Products
  <2>4. back = p * (t.gas - used) /\ p * t.gas = t.gas * p /\ p * used = used * p
    BY <1>3, <2>1
  <2>5. back \in Nat /\ back = t.gas * p - used * p
    BY <2>3, <2>4
  <2> HIDE DEF back, tip, burnt
  <2> QED BY <1>3, <2>2, <2>5
<1>7. Cost(t) = back + tip + burnt + blobs
  BY <1>6 DEF Cost, p
<1> HIDE DEF back, tip, burnt, blobs
<1>8. Ether(acct1) \in Nat
  BY <1>1, EtherNat
<1>9. PaysIn(acct1, t.sender, back)
  <2>1. Ether(acct1) + back < EtherMod
    BY <1>1, <1>2, <1>3, <1>6, <1>7, <1>8
  <2> QED BY <1>1, <1>2, <1>6, <2>1, CreditAdds
<1>10. Whole(acct2) /\ Ether(acct2) = Ether(acct1) + back
  BY <1>9 DEF PaysIn, back
<1> HIDE DEF acct2
<1>11. PaysIn(acct2, Coinbase, tip)
  <2>1. Ether(acct2) + tip < EtherMod
    BY <1>1, <1>2, <1>3, <1>6, <1>7, <1>8, <1>10
  <2> QED BY <1>2, <1>6, <1>10, <2>1, CreditAdds
<1>12. Whole(acct3) /\ Ether(acct3) = Ether(acct1) + back + tip
  BY <1>10, <1>11 DEF PaysIn, tip
<1> HIDE DEF acct3
<1>13. Ether(acct3) = supply - burnt - blobs
  BY <1>1, <1>3, <1>6, <1>7, <1>12
<1>14. burnt + blobs \in Nat
  BY <1>6
<1> QED BY <1>5, <1>12, <1>13, <1>14 DEF used, burnt, blobs

\* Part of the withdrawals bring their part of the sum.
LEMMA BroughtPart ==
  ASSUME NEW ws, IsFiniteSet(ws), NEW g, Adds(AmountsOf(ws), ws, g), NEW s \in SUBSET ws
  PROVE  Brought(s) = g[s]
<1> DEFINE h == [r \in SUBSET s |-> g[r]]
<1>1. IsFiniteSet(s)
  BY FS_Subset
<1>2. \A r \in SUBSET s : AddsTo(AmountsOf(ws), g, r) = AddsTo(AmountsOf(s), h, r)
  <2> SUFFICES ASSUME NEW r \in SUBSET s
               PROVE  AddsTo(AmountsOf(ws), g, r) = AddsTo(AmountsOf(s), h, r)
    OBVIOUS
  <2>1. CASE r = {}
    BY <2>1 DEF AddsTo
  <2>2. CASE r # {}
    <3>1. Pick(r) \in r /\ r \ {Pick(r)} \in SUBSET s
      BY <2>2, Picked
    <3>2. AmountsOf(ws)[Pick(r)] = AmountsOf(s)[Pick(r)]
      BY <3>1 DEF AmountsOf
    <3>3. h[r \ {Pick(r)}] = g[r \ {Pick(r)}]
      BY <3>1
    <3> QED BY <2>2, <3>2, <3>3 DEF AddsTo
  <2> QED BY <2>1, <2>2
<1>3. \A r \in SUBSET s : g[r] = AddsTo(AmountsOf(ws), g, r)
  BY DEF Adds
<1>4. Adds(AmountsOf(s), s, h)
  BY <1>2, <1>3 DEF Adds
<1>5. PICK k : Adds(AmountsOf(s), s, k) /\ Brought(s) = k[s]
  BY <1>1, BroughtIs
<1>6. k = h
  <2> HIDE DEF h
  <2> QED BY <1>1, <1>4, <1>5, AddsUnique
<1> QED BY <1>5, <1>6

\* What the accounts hold once they got withdrawals of s.
With(acct, g, s) == [a \in Addr |-> acct[a].balance + g[{w \in s : w.to = a}]]
Total(b) == (CHOOSE g : Adds(b, Addr, g))[Addr]

LEMMA TotalIs ==
  ASSUME NEW b
  PROVE  \E g : Adds(b, Addr, g) /\ Total(b) = g[Addr]
<1> DEFINE h == CHOOSE g : Adds(b, Addr, g)
<1>1. Adds(b, Addr, h)
  BY AddsExists, WorldAssumption
<1> QED BY <1>1 DEF Total

\* However they are shared out, withdrawals bring the accounts their whole sum: one
\* more withdrawal changes one account.
LEMMA Shared ==
  ASSUME NEW acct, Whole(acct), NEW ws, IsFiniteSet(ws),
         \A w \in ws : w.to \in Addr /\ w.amount \in Nat,
         NEW g, Adds(AmountsOf(ws), ws, g)
  PROVE  Total(With(acct, g, ws)) = Ether(acct) + g[ws]
<1> DEFINE odd == {s \in SUBSET ws : Total(With(acct, g, s)) # Ether(acct) + g[s]}
           part(s, a) == {w \in s : w.to = a}
<1>1. \A w \in ws : AmountsOf(ws)[w] = w.amount /\ AmountsOf(ws)[w] \in Nat
  BY DEF AmountsOf
<1>2. \A s \in SUBSET ws : g[s] \in Nat
  BY <1>1, AddsNat
<1>3. \A s \in SUBSET ws : \A x \in s : g[s] = AmountsOf(ws)[x] + g[s \ {x}]
  <2>1. \A w \in ws : AmountsOf(ws)[w] \in Nat
    BY <1>1
  <2> DEFINE b == AmountsOf(ws)
  <2>2. Adds(b, ws, g) /\ \A w \in ws : b[w] \in Nat
    BY <2>1
  <2> HIDE DEF b
  <2>3. ASSUME NEW s \in SUBSET ws, NEW x \in s PROVE g[s] = b[x] + g[s \ {x}]
    BY <2>2, AddsRemove
  <2> QED BY <2>3 DEF b
<1>4. ASSUME NEW s \in SUBSET ws, NEW a \in Addr
      PROVE  /\ With(acct, g, s)[a] = acct[a].balance + g[part(s, a)]
             /\ With(acct, g, s)[a] \in Nat /\ part(s, a) \in SUBSET ws
  <2>1. part(s, a) \in SUBSET ws
    OBVIOUS
  <2>2. With(acct, g, s)[a] = acct[a].balance + g[part(s, a)]
    BY DEF With
  <2>3. g[part(s, a)] \in Nat /\ acct[a].balance \in Nat
    BY <1>2, <2>1 DEF Whole
  <2> QED BY <2>1, <2>2, <2>3
<1>5. Ether(acct) \in Nat
  BY EtherNat
<1>6. ASSUME odd # {} PROVE FALSE
  <2>1. odd \subseteq SUBSET ws
    OBVIOUS
  <2>2. PICK s \in odd : \A x \in s : s \ {x} \notin odd
    <3> HIDE DEF odd
    <3> QED BY <1>6, <2>1, Minimal
  <2>3. s \in SUBSET ws /\ Total(With(acct, g, s)) # Ether(acct) + g[s]
    BY <2>2
  <2>4. CASE s = {}
    <3>1. g[{}] = 0
      BY DEF Adds, AddsTo
    <3>2. \A a \in Addr : With(acct, g, {})[a] = acct[a].balance
      <4>1. \A a \in Addr : part({}, a) = {}
        OBVIOUS
      <4>2. \A a \in Addr : acct[a].balance \in Nat
        BY DEF Whole
      <4> QED BY <3>1, <4>1, <4>2 DEF With
    <3>3. With(acct, g, {}) = Balances(acct)
      BY <3>2 DEF With, Balances
    <3>4. PICK h : Adds(Balances(acct), Addr, h) /\ Ether(acct) = h[Addr]
      BY EtherIs
    <3>5. PICK k : Adds(Balances(acct), Addr, k) /\ Total(Balances(acct)) = k[Addr]
      BY TotalIs
    <3>6. h = k
      BY <3>4, <3>5, AddsUnique, WorldAssumption
    <3> QED BY <1>5, <2>3, <2>4, <3>1, <3>3, <3>4, <3>5, <3>6
  <2>5. CASE s # {}
    <3>1. PICK x \in s : TRUE
      BY <2>5
    <3> DEFINE r == s \ {x}
               b == With(acct, g, r)
               c == With(acct, g, s)
               y == x.to
    <3>2. r \in SUBSET ws /\ x \in ws /\ y \in Addr /\ x.amount \in Nat
      BY <2>3, <3>1
    <3>3. \A a \in Addr : a # y => part(s, a) = part(r, a)
      BY <3>1
    <3>4. x \in part(s, y) /\ part(s, y) \ {x} = part(r, y)
      BY <3>1
    <3>5. g[part(s, y)] = x.amount + g[part(r, y)]
      BY <1>1, <1>3, <1>4, <2>3, <3>2, <3>4
    <3>6. g[s] = x.amount + g[r] /\ g[r] \in Nat
      BY <1>1, <1>2, <1>3, <2>3, <3>1, <3>2
    <3>7. Total(b) = Ether(acct) + g[r]
      BY <2>2, <3>1, <3>2
    <3>8. \A a \in Addr : b[a] \in Nat /\ c[a] \in Nat
      BY <1>4, <2>3, <3>2
    <3>9. \A a \in Addr : a # y => b[a] = c[a]
      <4> SUFFICES ASSUME NEW a \in Addr, a # y PROVE b[a] = c[a]
        OBVIOUS
      <4>1. b[a] = acct[a].balance + g[part(r, a)]
        BY <1>4, <3>2
      <4>2. c[a] = acct[a].balance + g[part(s, a)]
        BY <1>4, <2>3
      <4> HIDE DEF b, c, y, r, part
      <4> QED BY <3>3, <4>1, <4>2
    <3>10. c[y] = b[y] + x.amount
      <4>1. /\ acct[y].balance \in Nat /\ g[part(r, y)] \in Nat
            /\ b[y] = acct[y].balance + g[part(r, y)] /\ c[y] = acct[y].balance + g[part(s, y)]
        BY <1>2, <1>4, <2>3, <3>2 DEF Whole
      <4> HIDE DEF b, c, y, r, part
      <4> QED BY <3>2, <3>5, <4>1
    <3> HIDE DEF b, c, y, r
    <3>11. PICK h : Adds(b, Addr, h) /\ Total(b) = h[Addr]
      BY TotalIs
    <3>12. PICK k : Adds(c, Addr, k) /\ Total(c) = k[Addr]
      BY TotalIs
    <3>13. k[Addr] = h[Addr] - b[y] + c[y]
      BY <3>2, <3>8, <3>9, <3>11, <3>12, AddsChange, WorldAssumption
    <3>14. Total(c) = Ether(acct) + g[s]
      BY <1>5, <3>2, <3>6, <3>7, <3>8, <3>10, <3>11, <3>12, <3>13
    <3> QED BY <2>3, <3>14 DEF c
  <2> QED BY <2>4, <2>5
<1> QED BY <1>6

\* The accounts of a scope replace those of the block.
Replaces(acct, new, whole) ==
  /\ Whole(acct) /\ Whole(whole)
  /\ \A a \in Addr : IF a \in DOMAIN new THEN new[a] = whole[a]
                      ELSE acct[a].balance = whole[a].balance

LEMMA OverlayIs ==
  ASSUME NEW acct, NEW new, NEW whole, Replaces(acct, new, whole)
  PROVE  Whole(Overlay(acct, new)) /\ Ether(Overlay(acct, new)) = Ether(whole)
<1> DEFINE over == Overlay(acct, new)
<1>1. DOMAIN over = Addr
      /\ \A a \in Addr : over[a] = IF a \in DOMAIN new THEN whole[a] ELSE acct[a]
  BY DEF Overlay, Whole, Replaces
<1> HIDE DEF over
<1>2. Whole(over)
  BY <1>1 DEF Whole, Replaces
<1>3. \A a \in Addr : over[a].balance = whole[a].balance
  BY <1>1 DEF Replaces
<1>4. Ether(over) = Ether(whole)
  BY <1>3, EtherSame, Zenon
<1> QED BY <1>2, <1>4 DEF over

\* What each account is due by ws fits its balance, and the accounts then hold what
\* there was and what the withdrawals bring.
Due(ws, a) == Brought({w \in ws : w.to = a})
PaidOut(acct, ws) == [a \in Addr |-> Credit(acct, a, Due(ws, a))[a]]

LEMMA WithdrawalsBring ==
  ASSUME NEW acct, Whole(acct), NEW ws, IsFiniteSet(ws),
         \A w \in ws : w.to \in Addr /\ w.amount \in Nat,
         Ether(acct) + Brought(ws) < EtherMod
  PROVE  /\ Whole(PaidOut(acct, ws)) /\ Ether(PaidOut(acct, ws)) = Ether(acct) + Brought(ws)
         /\ \A a \in Addr : a \notin {w.to : w \in ws} => PaidOut(acct, ws)[a].balance = acct[a].balance
<1> DEFINE out == PaidOut(acct, ws)
<1>1. PICK g : Adds(AmountsOf(ws), ws, g) /\ Brought(ws) = g[ws]
  BY BroughtIs
<1> DEFINE b == With(acct, g, ws)
<1>2. Total(b) = Ether(acct) + g[ws]
  BY <1>1, Shared
<1>3. PICK h : Adds(b, Addr, h) /\ Total(b) = h[Addr]
  BY TotalIs
<1>4. \A s \in SUBSET ws : g[s] \in Nat
  <2>1. \A w \in ws : AmountsOf(ws)[w] \in Nat
    BY DEF AmountsOf
  <2> QED BY <1>1, <2>1, AddsNat
<1>5. \A s \in SUBSET ws : Brought(s) = g[s]
  BY <1>1, BroughtPart
<1>6. ASSUME NEW a \in Addr
      PROVE  b[a] = acct[a].balance + Due(ws, a) /\ acct[a].balance \in Nat /\ Due(ws, a) \in Nat
  <2>1. {w \in ws : w.to = a} \in SUBSET ws
    OBVIOUS
  <2>2. Due(ws, a) = g[{w \in ws : w.to = a}] /\ Due(ws, a) \in Nat
    BY <1>4, <1>5, <2>1 DEF Due
  <2> QED BY <2>2 DEF With, Whole
<1> HIDE DEF b
<1>7. \A a \in Addr : b[a] \in Nat
  BY <1>6
<1>8. \A s \in SUBSET Addr : h[s] \in Nat /\ \A a \in s : b[a] <= h[s]
  BY <1>3, <1>7, AddsNat, WorldAssumption
<1>9. ASSUME NEW a \in Addr
      PROVE  /\ out[a].balance = b[a] /\ DOMAIN out[a] = {"balance", "nonce", "code"}
  <2>1. acct[a].balance + Due(ws, a) < EtherMod
    BY <1>1, <1>2, <1>3, <1>6, <1>7, <1>8, BlockAssumption
  <2>2. EtherMod \in Nat \ {0}
    BY BlockAssumption
  <2>3. (acct[a].balance + Due(ws, a)) % EtherMod = b[a]
    <3> DEFINE n == acct[a].balance + Due(ws, a)
    <3>1. n \in Nat /\ n < EtherMod /\ n = b[a]
      BY <1>6, <2>1
    <3> HIDE DEF n
    <3>2. n % EtherMod = n
      BY <2>2, <3>1
    <3> QED BY <3>1, <3>2 DEF n
  <2>4. out[a] = [acct[a] EXCEPT !.balance = b[a]]
    BY <2>3 DEF PaidOut, Credit, Whole
  <2> HIDE DEF out
  <2> QED BY <2>4 DEF Whole
<1>10. DOMAIN out = Addr
  BY DEF PaidOut
<1> HIDE DEF out
<1>11. Whole(out)
  BY <1>7, <1>9, <1>10 DEF Whole
<1>12. Ether(out) = Ether(acct) + Brought(ws)
  <2>1. PICK k : Adds(Balances(out), Addr, k) /\ Ether(out) = k[Addr]
    BY EtherIs
  <2>2. Balances(out) = b
    <3>1. \A a \in Addr : Balances(out)[a] = b[a]
      BY <1>9 DEF Balances
    <3> QED BY <3>1 DEF Balances, b, With
  <2>3. k = h
    BY <1>3, <2>1, <2>2, AddsUnique, WorldAssumption
  <2> QED BY <1>1, <1>2, <1>3, <2>1, <2>3
<1>13. ASSUME NEW a \in Addr, a \notin {w.to : w \in ws}
       PROVE  out[a].balance = acct[a].balance
  <2>1. {w \in ws : w.to = a} = {}
    BY <1>13
  <2>2. g[{}] = 0
    BY <1>1 DEF Adds, AddsTo
  <2>3. Due(ws, a) = 0
    BY <1>5, <2>1, <2>2 DEF Due
  <2>4. out[a].balance = b[a] /\ b[a] = acct[a].balance + 0 /\ acct[a].balance \in Nat
    BY <1>6, <1>9, <2>3
  <2> QED BY <2>4
<1> QED BY <1>11, <1>12, <1>13 DEF out

\* Scopes that write no account.
LEMMA MessageKeepsEther ==
  ASSUME EtherInv, NEW e \in Effects, SystemMessage(e)
  PROVE  Whole(world'.acct) /\ EtherConserved' /\ supply' = supply
<1>1. Whole(world.acct) /\ Ether(world.acct) = supply
  BY DEF EtherInv, EtherConserved
<1>2. world'.acct = Overlay(world.acct, [a \in {} |-> 0]) /\ supply' = supply
  BY DEF SystemMessage, Incorporate
<1>3. /\ Whole(Overlay(world.acct, [a \in {} |-> 0]))
      /\ Ether(Overlay(world.acct, [a \in {} |-> 0])) = Ether(world.acct)
  <2> DEFINE none == [a \in {} |-> 0]
  <2>1. DOMAIN none = {}
    OBVIOUS
  <2> HIDE DEF none
  <2>2. \A a \in Addr : IF a \in DOMAIN none THEN none[a] = world.acct[a]
                        ELSE world.acct[a].balance = world.acct[a].balance
    BY <2>1
  <2>3. Whole(Overlay(world.acct, none)) /\ Ether(Overlay(world.acct, none)) = Ether(world.acct)
    BY <1>1, <2>2, OverlayIs DEF Replaces
  <2> QED BY <2>3 DEF none
<1> QED BY <1>1, <1>2, <1>3 DEF EtherConserved

LEMMA TransactionKeepsEther ==
  ASSUME EtherInv, NEW t \in Txs, Checks(t), NEW e \in Effects, NEW u \in Uses,
         ProcessTransaction(t, e, u)
  PROVE  Whole(world'.acct) /\ EtherConserved' /\ supply' <= supply
<1> DEFINE acct == Settled(t, e, u)
           written == {a \in Addr : acct[a] # world.acct[a]} \cup {t.sender, Coinbase}
           new == [a \in written |-> acct[a]]
           burnt == GasUsed(t, u) * BaseFee
           blobs == t.blobGas * BlobPrice
<1>1. MayUse(t, u)
  BY DEF ProcessTransaction
<1>2. Whole(acct) /\ burnt + blobs \in Nat /\ Ether(acct) = supply - burnt - blobs
  BY <1>1, SettledIs
<1>3. world'.acct = Overlay(world.acct, new) /\ supply' = supply - burnt - blobs
  BY DEF ProcessTransaction, Incorporate
<1>4. burnt \in Nat /\ blobs \in Nat
  <2>1. GasUsed(t, u) \in t.floor .. t.gas /\ t.floor \in Nat /\ t.gas \in Nat
    BY <1>1, RefundNotNegative, BlockAssumption DEF Checks, TxFields
  <2>2. BaseFee \in Nat /\ BlobPrice \in Nat /\ t.blobGas \in Nat
    BY BlockAssumption DEF TxFields
  <2> QED BY <2>1, <2>2
<1> HIDE DEF acct, burnt, blobs
<1>5. \A a \in Addr : IF a \in DOMAIN new THEN new[a] = acct[a]
                      ELSE world.acct[a].balance = acct[a].balance
  OBVIOUS
<1>6. Whole(world.acct)
  BY DEF EtherInv
<1> HIDE DEF new
<1>7. Whole(Overlay(world.acct, new)) /\ Ether(Overlay(world.acct, new)) = Ether(acct)
  <2>1. Replaces(world.acct, new, acct)
    BY <1>2, <1>5, <1>6 DEF Replaces
  <2> QED BY <2>1, OverlayIs
<1>8. Ether(world.acct) = supply /\ supply \in Nat
  BY <1>6, EtherNat DEF EtherInv, EtherConserved
<1> QED BY <1>2, <1>3, <1>4, <1>7, <1>8 DEF EtherConserved

LEMMA WithdrawalsKeepEther ==
  ASSUME EtherInv, ProcessWithdrawals
  PROVE  EtherInv'
<1>1. PICK ws \in Withdrawals :
        /\ Incorporate(index + 1,
                       [a \in {w.to : w \in ws} |->
                          Credit(world.acct, a, Brought({w \in ws : w.to = a}))[a]],
                       [p \in {} |-> 0], {w.to : w \in ws}, {})
        /\ supply' = supply + Brought(ws)
  BY Zenon DEF ProcessWithdrawals
<1> DEFINE to == {w.to : w \in ws}
           new == [a \in to |-> Credit(world.acct, a, Brought({w \in ws : w.to = a}))[a]]
           out == PaidOut(world.acct, ws)
<1>2. /\ Whole(world.acct) /\ Ether(world.acct) = supply /\ phase = "txs"
      /\ supply + Brought(ws) < EtherMod /\ phase' = "after"
  BY DEF EtherInv, EtherConserved, Fits, ProcessWithdrawals
<1>3. IsFiniteSet(ws) /\ \A w \in ws : w.to \in Addr /\ w.amount \in Nat
  BY WorldAssumption
<1>4. /\ Whole(out) /\ Ether(out) = Ether(world.acct) + Brought(ws)
      /\ \A a \in Addr : a \notin to => out[a].balance = world.acct[a].balance
  BY <1>2, <1>3, WithdrawalsBring
<1>5. \A a \in to : a \in Addr /\ new[a] = out[a]
  BY <1>3 DEF PaidOut, Due
<1>6. DOMAIN new = to
  OBVIOUS
<1>7. world'.acct = Overlay(world.acct, new)
  BY <1>1 DEF Incorporate
<1> HIDE DEF new, out, to
<1>8. \A a \in Addr : IF a \in DOMAIN new THEN new[a] = out[a]
                      ELSE world.acct[a].balance = out[a].balance
  BY <1>4, <1>5, <1>6
<1>9. Whole(Overlay(world.acct, new)) /\ Ether(Overlay(world.acct, new)) = Ether(out)
  <2>1. Replaces(world.acct, new, out)
    BY <1>2, <1>4, <1>8 DEF Replaces
  <2> QED BY <2>1, OverlayIs
<1>10. Whole(world'.acct) /\ Ether(world'.acct) = supply'
  BY <1>1, <1>2, <1>4, <1>7, <1>9
<1>11. supply' < EtherMod
  BY <1>1, <1>2
<1> QED BY <1>2, <1>10, <1>11 DEF EtherInv, EtherConserved, Fits

LEMMA InitEther == Init => EtherInv
<1> SUFFICES ASSUME Init PROVE EtherInv
  OBVIOUS
<1>1. world \in Worlds /\ supply = Ether(world.acct)
  BY DEF Init
<1>2. Whole(world.acct)
  BY <1>1, WorldAssumption, EtherAssumption DEF Whole
<1>3. \A ws \in Withdrawals \cup {{}} : supply + Brought(ws) < EtherMod
  BY <1>1, EtherAssumption
<1>4. Brought({}) = 0 /\ supply \in Nat
  <2>1. IsFiniteSet({})
    BY FS_EmptySet
  <2>2. PICK g : Adds(AmountsOf({}), {}, g) /\ Brought({}) = g[{}]
    BY <2>1, BroughtIs
  <2>3. g[{}] = 0
    BY <2>2 DEF Adds, AddsTo
  <2> QED BY <1>1, <1>2, <2>2, <2>3, EtherNat
<1>5. supply < EtherMod
  BY <1>3, <1>4
<1> QED BY <1>1, <1>2, <1>3, <1>5 DEF EtherInv, EtherConserved, Fits

\* What the payload may bring fits as long as the supply does not grow.
LEMMA StillFits ==
  ASSUME EtherInv, Whole(world'.acct), EtherConserved', supply' <= supply,
         phase' \in {"before", "txs"} => phase \in {"before", "txs"}
  PROVE  EtherInv'
<1>1. supply \in Nat /\ supply' \in Nat /\ EtherMod \in Nat
  BY EtherNat, BlockAssumption DEF EtherInv, EtherConserved
<1>2. \A ws \in Withdrawals : Brought(ws) \in Nat
  <2> SUFFICES ASSUME NEW ws \in Withdrawals PROVE Brought(ws) \in Nat
    OBVIOUS
  <2>1. IsFiniteSet(ws) /\ \A w \in ws : w.amount \in Nat
    BY WorldAssumption
  <2>2. PICK g : Adds(AmountsOf(ws), ws, g) /\ Brought(ws) = g[ws]
    BY <2>1, BroughtIs
  <2>3. \A w \in ws : AmountsOf(ws)[w] \in Nat
    BY <2>1 DEF AmountsOf
  <2>4. \A s \in SUBSET ws : g[s] \in Nat
    BY <2>1, <2>2, <2>3, AddsNat
  <2> QED BY <2>2, <2>4
<1>3. /\ supply < EtherMod
      /\ phase' \in {"before", "txs"} => \A ws \in Withdrawals : supply + Brought(ws) < EtherMod
  BY DEF EtherInv, Fits
<1>4. /\ supply' < EtherMod
      /\ phase' \in {"before", "txs"} => \A ws \in Withdrawals : supply' + Brought(ws) < EtherMod
  BY <1>1, <1>2, <1>3
<1> QED BY <1>4 DEF EtherInv, Fits

LEMMA NextEther == EtherInv /\ [Next]_vars => EtherInv'
<1> SUFFICES ASSUME EtherInv, [Next]_vars PROVE EtherInv'
  OBVIOUS
<1>1. supply \in Nat
  BY EtherNat DEF EtherInv, EtherConserved
<1>2. ASSUME world' = world, supply' = supply,
             phase' \in {"before", "txs"} => phase \in {"before", "txs"}
      PROVE  EtherInv'
  BY <1>2 DEF EtherInv, EtherConserved, Fits
<1>3. ASSUME NEW e \in Effects, SystemMessage(e),
             phase' \in {"before", "txs"} => phase \in {"before", "txs"}
      PROVE  EtherInv'
  BY <1>1, <1>3, MessageKeepsEther, StillFits
<1>4. CASE UncheckedSystemTransaction
  BY <1>3, <1>4 DEF UncheckedSystemTransaction
<1>5. CASE Transaction
  <2>1. PICK t \in Txs : IF Checks(t) THEN /\ \E e \in Effects, u \in Uses : ProcessTransaction(t, e, u)
                                           /\ UNCHANGED <<phase, left>>
                         ELSE Reject
    BY <1>5 DEF Transaction
  <2>2. CASE Checks(t)
    <3>1. PICK e \in Effects, u \in Uses : ProcessTransaction(t, e, u)
      BY <2>1, <2>2
    <3>2. Whole(world'.acct) /\ EtherConserved' /\ supply' <= supply
      BY <2>2, <3>1, TransactionKeepsEther
    <3>3. phase' = phase
      BY <2>1, <2>2
    <3> QED BY <3>2, <3>3, StillFits
  <2>3. CASE ~Checks(t)
    BY <1>2, <2>1, <2>3 DEF Reject
  <2> QED BY <2>2, <2>3
<1>6. CASE ProcessWithdrawals
  BY <1>6, WithdrawalsKeepEther
<1>7. CASE CheckedSystemTransaction
  <2>1. CASE Reject
    BY <1>2, <2>1 DEF Reject
  <2>2. CASE \E e \in Effects : SystemMessage(e) /\ UNCHANGED phase
    BY <1>3, <2>2
  <2> QED BY <1>7, <2>1, <2>2 DEF CheckedSystemTransaction
<1>8. CASE Finish
  BY <1>2, <1>8 DEF Finish
<1>9. CASE UNCHANGED vars
  BY <1>2, <1>9 DEF vars
<1> QED BY <1>4, <1>5, <1>6, <1>7, <1>8, <1>9 DEF Next

\* Ether is neither made nor lost by a block but for the base fee, the blob fee and
\* the withdrawals, and no balance leaves a word (process_transaction,
\* check_transaction, process_withdrawals).
THEOREM EtherIsConserved == Spec => []EtherConserved
<1>1. EtherInv => EtherConserved
  BY DEF EtherInv
<1> QED BY <1>1, InitEther, NextEther, PTL DEF Spec
=============================================================================
