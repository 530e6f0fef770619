------------------------- MODULE StateTrackerProofs -------------------------
(***************************************************************************)
(* What the journalled tracker keeps and restores, and that it implements  *)
(* SnapshotStore, for all addresses, slots, words, codes and capacities.   *)
(***************************************************************************)
EXTENDS StateTracker, SequenceTheorems, TLAPS

\* Rebinding one key of one table gives tables again.
LEMMA RebindTyped ==
  ASSUME NEW tab \in Tabs, NEW r \in Records
  PROVE  Rebind(tab, r[1], r[2], r[3]) \in Tabs
<1>1. CASE r \in {"acct"} \X Addr \X (Account \cup {None, Absent})
  BY <1>1 DEF Rebind, Tabs, Accts
<1>2. CASE r \in {"stor"} \X Addr \X (1 .. MaxInner \cup {Absent})
  BY <1>2 DEF Rebind, Tabs, Outers
<1>3. CASE r \in {"code"} \X CodeHash \X (CodeHash \cup {Absent})
  BY <1>3 DEF Rebind, Tabs, Codes
<1>4. CASE r \in {"tran"} \X (Addr \X Slot) \X (Word \cup {Absent})
  BY <1>4 DEF Rebind, Tabs, Trans
<1>5. CASE r \in {"inner"} \X ((1 .. MaxInner) \X Slot) \X (Word \cup {Absent})
  BY <1>5 DEF Rebind, Tabs, Inners
<1>6. QED BY <1>1, <1>2, <1>3, <1>4, <1>5 DEF Records

\* The record jset or jdel makes of a write undoes that write.
LEMMA UndoRebind ==
  ASSUME NEW tab \in Tabs, NEW r \in Records
  PROVE  /\ <<r[1], r[2], tab[r[1]][r[2]]>> \in Records
         /\ Rebind(Rebind(tab, r[1], r[2], r[3]), r[1], r[2], tab[r[1]][r[2]]) = tab
<1>1. CASE r \in {"acct"} \X Addr \X (Account \cup {None, Absent})
  BY <1>1 DEF Rebind, Tabs, Accts, Records
<1>2. CASE r \in {"stor"} \X Addr \X (1 .. MaxInner \cup {Absent})
  BY <1>2 DEF Rebind, Tabs, Outers, Records
<1>3. CASE r \in {"code"} \X CodeHash \X (CodeHash \cup {Absent})
  BY <1>3 DEF Rebind, Tabs, Codes, Records
<1>4. CASE r \in {"tran"} \X (Addr \X Slot) \X (Word \cup {Absent})
  BY <1>4 DEF Rebind, Tabs, Trans, Records
<1>5. CASE r \in {"inner"} \X ((1 .. MaxInner) \X Slot) \X (Word \cup {Absent})
  BY <1>5 DEF Rebind, Tabs, Inners, Records
<1>6. QED BY <1>1, <1>2, <1>3, <1>4, <1>5 DEF Records
-----------------------------------------------------------------------------
(***************************************************************************)
(* A TransactionState a program can be in, and one that grew out of        *)
(* another: its journal starts with the other's.                           *)
(***************************************************************************)
Good(x) == /\ x \in TxState /\ Len(x.journal) <= JournalCap
           /\ Replays(x) /\ Owned(x)

Extends(x, y) ==
  /\ Len(x.journal) <= Len(y.journal)
  /\ \A i \in 1 .. Len(x.journal) + 1 : y.hist[i] = x.hist[i]

\* Growing twice is growing.
LEMMA ExtendsTrans ==
  ASSUME NEW x, NEW y, NEW z, x \in TxState, y \in TxState, Extends(x, y), Extends(y, z)
  PROVE  Extends(x, z)
<1>1. Len(x.journal) \in Nat /\ Len(y.journal) \in Nat
  BY DEF TxState
<1> QED BY <1>1, Z3 DEF Extends

\* A write recorded within the journal's capacity (jset, jdel) keeps a
\* TransactionState good and extends its history.
LEMMA LogGood ==
  ASSUME NEW x, Good(x), Len(x.journal) < JournalCap, NEW r \in Records,
         OwnedTables(Rebind(x.tab, r[1], r[2], r[3]), x.nInner)
  PROVE  LET y == Log(x, r[1], r[2], r[3])
         IN  Good(y) /\ Extends(x, y) /\ y.nInner = x.nInner
<1> DEFINE new == Rebind(x.tab, r[1], r[2], r[3])
           old == <<r[1], r[2], x.tab[r[1]][r[2]]>>
           y   == Log(x, r[1], r[2], r[3])
<1>1. x \in TxState /\ x.tab \in Tabs /\ x.journal \in Seq(Records) /\ x.hist \in Seq(Tabs)
  BY DEF Good, TxState
<1>2. new \in Tabs
  BY <1>1, RebindTyped
<1>3. old \in Records /\ Rebind(new, old[1], old[2], old[3]) = x.tab
  BY <1>1, UndoRebind
<1>4. /\ y.tab = new /\ y.journal = Append(x.journal, old) /\ y.hist = Append(x.hist, new)
      /\ y.nInner = x.nInner
  BY <1>1 DEF Log, TxState
<1>5. y \in TxState
  <2> DEFINE j == Append(x.journal, old)
             h == Append(x.hist, new)
  <2>1. j \in Seq(Records) /\ h \in Seq(Tabs)
    BY <1>1, <1>2, <1>3
  <2>2. y = [x EXCEPT !.journal = j, !.tab = new, !.hist = h]
    BY DEF Log
  <2> HIDE DEF j, h, new, y
  <2> QED BY <1>1, <1>2, <2>1, <2>2 DEF TxState
<1> HIDE DEF new, old, y
<1>6. Len(y.journal) = Len(x.journal) + 1 /\ Len(y.hist) = Len(x.hist) + 1
  BY <1>1, <1>4
<1>7. Len(x.hist) = Len(x.journal) + 1 /\ x.hist[Len(x.hist)] = x.tab
  BY DEF Good, Replays
<1>8. Extends(x, y)
  BY <1>1, <1>4, <1>6, <1>7 DEF Extends
<1>9. Replays(y)
  <2>1. ASSUME NEW i \in 1 .. Len(y.journal)
        PROVE  y.hist[i] = Rebind(y.hist[i + 1], y.journal[i][1], y.journal[i][2], y.journal[i][3])
    <3>1. CASE i = Len(y.journal)
      BY <3>1, <1>1, <1>3, <1>4, <1>6, <1>7
    <3>2. CASE i # Len(y.journal)
      <4>1. i \in 1 .. Len(x.journal)
        BY <3>2, <1>1, <1>6
      <4>2. y.hist[i] = x.hist[i] /\ y.hist[i + 1] = x.hist[i + 1] /\ y.journal[i] = x.journal[i]
        BY <4>1, <1>1, <1>4, <1>7
      <4> QED BY <4>1, <4>2 DEF Good, Replays
    <3> QED BY <3>1, <3>2
  <2> QED BY <2>1, <1>1, <1>4, <1>6, <1>7 DEF Replays
<1>10. Owned(y)
  BY <1>1, <1>4, <1>6 DEF Owned, Good, new
<1>11. Len(y.journal) <= JournalCap
  BY <1>1, <1>6, TrackerAssumption
<1> QED BY <1>4, <1>5, <1>8, <1>9, <1>10, <1>11 DEF Good, y

(***************************************************************************)
(* The operations, each taking a good TransactionState to a good one whose *)
(* journal starts with the old one, unless it stopped to known tables.     *)
(***************************************************************************)
Leads(x, y, tab) ==
  /\ Good(y) /\ Extends(x, y) /\ x.nInner <= y.nInner
  /\ y.stop = "no" => x.stop = "no" /\ y.tab = tab

\* What is used of a good TransactionState most often.
LEMMA GoodFacts ==
  ASSUME NEW x, Good(x)
  PROVE  /\ x \in TxState /\ x.tab \in Tabs /\ x.nInner \in 0 .. MaxInner
         /\ OwnedTables(x.tab, x.nInner)
<1>1. x \in TxState /\ x.tab \in Tabs /\ x.nInner \in 0 .. MaxInner
  BY DEF Good, TxState
<1>2. Len(x.hist) \in 1 .. Len(x.hist)
  BY DEF Good, TxState, Replays
<1> QED BY <1>1, <1>2 DEF Good, Replays, Owned

\* One call after another leads where the second one leads.
LEMMA LeadsTrans ==
  ASSUME NEW x, NEW y, NEW z, NEW s, NEW t, Good(x), Leads(x, y, s), Leads(y, z, t)
  PROVE  Leads(x, z, t)
<1>1. x \in TxState /\ y \in TxState
  BY DEF Good, Leads
<1>2. Extends(x, z)
  BY <1>1, ExtendsTrans DEF Leads
<1>3. x.nInner <= z.nInner
  <2>1. x.nInner \in Nat /\ y.nInner \in Nat /\ z.nInner \in Nat
    BY GoodFacts, TrackerAssumption DEF Leads
  <2> QED BY <2>1 DEF Leads
<1> QED BY <1>2, <1>3 DEF Leads

\* An operation that leaves the tables and the journal alone.
LEMMA SameTables ==
  ASSUME NEW x, Good(x), NEW y \in TxState,
         y.tab = x.tab, y.journal = x.journal, y.hist = x.hist,
         x.nInner <= y.nInner, y.stop = "no" => x.stop = "no"
  PROVE  Leads(x, y, x.tab)
<1>1. x \in TxState /\ x.nInner \in Nat /\ y.nInner \in Nat /\ MaxInner \in Nat
  BY GoodFacts, TrackerAssumption DEF TxState
<1>2. Owned(y)
  <2> SUFFICES ASSUME NEW i \in 1 .. Len(y.hist) PROVE OwnedTables(y.hist[i], y.nInner)
    BY DEF Owned
  <2> DEFINE t == y.hist[i]
  <2>1. OwnedTables(t, x.nInner)
    BY DEF Good, Owned
  <2> HIDE DEF t
  <2>2. \A a \in Addr : t.stor[a] # Absent => t.stor[a] \in 1 .. y.nInner
    BY <1>1, <2>1 DEF OwnedTables
  <2>3. \A j \in y.nInner + 1 .. MaxInner : j \in x.nInner + 1 .. MaxInner
    BY <1>1
  <2>4. OwnedTables(t, y.nInner)
    BY <2>1, <2>2, <2>3 DEF OwnedTables
  <2> QED BY <2>4 DEF t
<1>3. Replays(y) /\ Extends(x, y) /\ Len(y.journal) <= JournalCap
  BY <1>1 DEF Good, Replays, Extends, TxState
<1> QED BY <1>2, <1>3 DEF Leads, Good

\* A trap or a thrown StateErr leads anywhere: nothing is promised of its tables.
LEMMA StopLeads ==
  ASSUME NEW x, Good(x), NEW s \in {"trap1", "trap4", "trap5", "err3", "err4"}, NEW t
  PROVE  Leads(x, [x EXCEPT !.stop = s], t)
<1> DEFINE y == [x EXCEPT !.stop = s]
<1>0. x \in TxState /\ x.nInner \in Nat
  BY GoodFacts, TrackerAssumption
<1>1. /\ y \in TxState /\ y.tab = x.tab /\ y.journal = x.journal
      /\ y.hist = x.hist /\ y.nInner = x.nInner /\ y.stop = s
  BY <1>0 DEF TxState
<1> HIDE DEF y
<1>2. Leads(x, y, x.tab)
  BY <1>0, <1>1, SameTables
<1> QED BY <1>1, <1>2 DEF Leads, y

\* After a trap or a StateErr no call changes anything.
LEMMA StoppedLeads ==
  ASSUME NEW x, Good(x), x.stop # "no", NEW t
  PROVE  Leads(x, x, t)
<1>1. x \in TxState /\ x.nInner \in Nat
  BY GoodFacts, TrackerAssumption
<1> QED BY <1>1 DEF Leads, Extends, TxState

\* A binding that keeps the inner tables owned.
Safe(x, r) == \/ r[1] \in {"acct", "code", "tran"}
              \/ r[1] = "stor" /\ r[3] = Absent
              \/ r[1] = "inner" /\ r[2][1] \in 1 .. x.nInner

\* A write that gives no address an inner table leaves the tables unshared.
LEMMA SafeOwned ==
  ASSUME NEW x, Good(x), NEW r \in Records, Safe(x, r)
  PROVE  OwnedTables(Rebind(x.tab, r[1], r[2], r[3]), x.nInner)
<1> DEFINE new == Rebind(x.tab, r[1], r[2], r[3])
<1>1. /\ x.tab \in Tabs /\ x.nInner \in 0 .. MaxInner /\ OwnedTables(x.tab, x.nInner)
  BY GoodFacts
<1>2. CASE r[1] \in {"acct", "code", "tran"}
  <2>1. new.stor = x.tab.stor /\ new.inner = x.tab.inner
    BY <1>1, <1>2 DEF Rebind, Tabs
  <2> QED BY <1>1, <2>1 DEF OwnedTables
<1>3. CASE r[1] = "stor" /\ r[3] = Absent
  <2>1. r[2] \in Addr
    BY <1>3 DEF Records
  <2>2. new.stor = [x.tab.stor EXCEPT ![r[2]] = Absent] /\ new.inner = x.tab.inner
    BY <1>1, <1>3 DEF Rebind, Tabs
  <2> QED BY <1>1, <2>1, <2>2 DEF OwnedTables, Tabs, Outers
<1>4. CASE r[1] = "inner" /\ r[2][1] \in 1 .. x.nInner
  <2>1. r[2] \in (1 .. MaxInner) \X Slot
    BY <1>4 DEF Records
  <2>2. new.inner = [x.tab.inner EXCEPT ![r[2]] = r[3]] /\ new.stor = x.tab.stor
    BY <1>1, <1>4 DEF Rebind, Tabs
  <2>3. ASSUME NEW i \in x.nInner + 1 .. MaxInner, NEW k \in Slot
        PROVE  new.inner[<<i, k>>] = Absent
    <3>1. <<i, k>> \in (1 .. MaxInner) \X Slot /\ <<i, k>> # r[2]
      BY <1>1, <1>4, <2>1, TrackerAssumption
    <3>2. x.tab.inner[<<i, k>>] = Absent
      BY <1>1 DEF OwnedTables
    <3> QED BY <1>1, <2>2, <3>1, <3>2 DEF Tabs, Inners
  <2> QED BY <1>1, <2>2, <2>3 DEF OwnedTables
<1> QED BY <1>2, <1>3, <1>4 DEF Safe

\* A recorded write leads to the tables with that binding.
LEMMA LogLeads ==
  ASSUME NEW x, Good(x), x.stop = "no", Len(x.journal) < JournalCap, NEW r \in Records,
         OwnedTables(Rebind(x.tab, r[1], r[2], r[3]), x.nInner)
  PROVE  Leads(x, Log(x, r[1], r[2], r[3]), Rebind(x.tab, r[1], r[2], r[3]))
<1>1. x \in TxState /\ x.nInner \in Nat
  BY GoodFacts, TrackerAssumption
<1>2. Log(x, r[1], r[2], r[3]).tab = Rebind(x.tab, r[1], r[2], r[3])
  BY <1>1 DEF Log, TxState
<1> QED BY <1>1, <1>2, LogGood DEF Leads

\* jset leads to the tables with the new binding, or traps.
LEMMA JSetLeads ==
  ASSUME NEW x, Good(x), NEW r \in Records,
         OwnedTables(Rebind(x.tab, r[1], r[2], r[3]), x.nInner)
  PROVE  Leads(x, JSet(x, r[1], r[2], r[3]), Rebind(x.tab, r[1], r[2], r[3]))
<1>1. CASE x.stop # "no"
  BY <1>1, StoppedLeads DEF JSet
<1>2. CASE x.stop = "no" /\ Len(x.journal) >= JournalCap
  BY <1>2, StopLeads DEF JSet
<1>3. CASE x.stop = "no" /\ ~(Len(x.journal) >= JournalCap)
  <2>1. Len(x.journal) < JournalCap
    BY <1>3, GoodFacts, TrackerAssumption DEF TxState
  <2> QED BY <1>3, <2>1, LogLeads DEF JSet
<1> QED BY <1>1, <1>2, <1>3

\* jdel leads to the tables without the binding, or traps.
LEMMA JDelLeads ==
  ASSUME NEW x, Good(x), NEW r \in Records, r[3] = Absent, r[1] \in {"stor", "tran"}
  PROVE  Leads(x, JDel(x, r[1], r[2]), Rebind(x.tab, r[1], r[2], Absent))
<1>1. OwnedTables(Rebind(x.tab, r[1], r[2], r[3]), x.nInner)
  BY SafeOwned DEF Safe
<1>2. CASE x.stop # "no"
  BY <1>2, StoppedLeads DEF JDel
<1>3. CASE x.stop = "no" /\ x.tab[r[1]][r[2]] = Absent
  <2>1. x.tab \in Tabs
    BY GoodFacts
  <2>2. Rebind(x.tab, r[1], r[2], Absent) = x.tab
    BY <1>3, <2>1 DEF Rebind, Tabs, Outers, Trans, Records
  <2>3. Leads(x, x, x.tab)
    BY GoodFacts, TrackerAssumption, SameTables
  <2> QED BY <1>3, <2>2, <2>3 DEF JDel
<1>4. CASE x.stop = "no" /\ x.tab[r[1]][r[2]] # Absent /\ Len(x.journal) >= JournalCap
  BY <1>4, StopLeads DEF JDel
<1>5. CASE x.stop = "no" /\ x.tab[r[1]][r[2]] # Absent /\ ~(Len(x.journal) >= JournalCap)
  <2>1. Len(x.journal) < JournalCap
    BY <1>5, GoodFacts, TrackerAssumption DEF TxState
  <2> QED BY <1>1, <1>5, <2>1, LogLeads DEF JDel
<1> QED BY <1>2, <1>3, <1>4, <1>5
-----------------------------------------------------------------------------
(***************************************************************************)
(* The operations of state.pnk.                                            *)
(***************************************************************************)
LEMMA ReadAcctLeads ==
  ASSUME NEW x, Good(x), NEW a \in Addr
  PROVE  Leads(x, ReadAcct(x, a), x.tab) /\ ReadAcct(x, a).tab = x.tab
<1>1. x \in TxState /\ x.nInner \in Nat
  BY GoodFacts, TrackerAssumption
<1>2. /\ ReadAcct(x, a) \in TxState
      /\ ReadAcct(x, a) = [x EXCEPT !.acctReads = x.acctReads \cup {a}]
  BY <1>1 DEF ReadAcct, TxState
<1>3. LET y == ReadAcct(x, a)
      IN  /\ y.tab = x.tab /\ y.journal = x.journal /\ y.hist = x.hist
          /\ y.nInner = x.nInner /\ y.stop = x.stop /\ x.nInner <= x.nInner
  BY <1>1, <1>2 DEF TxState
<1> QED BY <1>1, <1>2, <1>3, SameTables

\* op_sload only records the slot it reads.
LEMMA SloadLeads ==
  ASSUME NEW x, Good(x), NEW a \in Addr, NEW k \in Slot
  PROVE  Leads(x, Sload(x, a, k), x.tab) /\ Sload(x, a, k).tab = x.tab
<1>1. x \in TxState /\ x.nInner \in Nat
  BY GoodFacts, TrackerAssumption
<1> DEFINE reads == x.storReads \cup {<<a, k>>}
<1>2. reads \in SUBSET (Addr \X Slot) /\ Sload(x, a, k) = [x EXCEPT !.storReads = reads]
  BY <1>1 DEF Sload, TxState
<1> HIDE DEF reads
<1>3. Sload(x, a, k) \in TxState
  BY <1>1, <1>2 DEF TxState
<1>4. LET y == Sload(x, a, k)
      IN  /\ y.tab = x.tab /\ y.journal = x.journal /\ y.hist = x.hist
          /\ y.nInner = x.nInner /\ y.stop = x.stop /\ x.nInner <= x.nInner
  BY <1>1, <1>2 DEF TxState
<1> QED BY <1>1, <1>2, <1>3, <1>4, SameTables

\* mark_account_created changes no table.
LEMMA MarkCreatedLeads ==
  ASSUME NEW x, Good(x), NEW a \in Addr
  PROVE  Leads(x, MarkCreated(x, a), x.tab) /\ MarkCreated(x, a).tab = x.tab
<1>1. x \in TxState /\ x.nInner \in Nat
  BY GoodFacts, TrackerAssumption
<1>2. /\ MarkCreated(x, a) \in TxState
      /\ MarkCreated(x, a) = [x EXCEPT !.created = x.created \cup {a}]
  BY <1>1 DEF MarkCreated, TxState
<1>3. LET y == MarkCreated(x, a)
      IN  /\ y.tab = x.tab /\ y.journal = x.journal /\ y.hist = x.hist
          /\ y.nInner = x.nInner /\ y.stop = x.stop /\ x.nInner <= x.nInner
  BY <1>1, <1>2 DEF TxState
<1> QED BY <1>1, <1>2, <1>3, SameTables

\* Tables are equal if each of the five is.
LEMMA SameTabs ==
  ASSUME NEW s \in Tabs, NEW t \in Tabs, s.acct = t.acct, s.stor = t.stor,
         s.code = t.code, s.tran = t.tran, s.inner = t.inner
  PROVE  s = t
BY DEF Tabs

WithAcct(tab, a, r) == [tab EXCEPT !.acct = [@ EXCEPT ![a] = r]]
NoOuter(tab, a)     == [tab EXCEPT !.stor = [@ EXCEPT ![a] = Absent]]
CommitTab(tab, a, r) ==
  IF r = EmptyAccount THEN WithAcct(NoOuter(tab, a), a, None) ELSE WithAcct(tab, a, r)

\* Setting an account changes the account map alone.
LEMMA WithAcctFacts ==
  ASSUME NEW t \in Tabs, NEW a \in Addr, NEW r \in Account \cup {None}
  PROVE  LET u == WithAcct(t, a, r)
         IN  /\ u \in Tabs /\ u.acct = [t.acct EXCEPT ![a] = r] /\ u.stor = t.stor
             /\ u.code = t.code /\ u.tran = t.tran /\ u.inner = t.inner
BY DEF WithAcct, Tabs, Accts

\* Dropping an outer binding changes the outer storage map alone.
LEMMA NoOuterFacts ==
  ASSUME NEW t \in Tabs, NEW a \in Addr
  PROVE  LET u == NoOuter(t, a)
         IN  /\ u \in Tabs /\ u.stor = [t.stor EXCEPT ![a] = Absent] /\ u.acct = t.acct
             /\ u.code = t.code /\ u.tran = t.tran /\ u.inner = t.inner
BY DEF NoOuter, Tabs, Outers

\* set_account leads to the tables with that account.
LEMMA SetAccountLeads ==
  ASSUME NEW x, Good(x), NEW a \in Addr, NEW r \in Account \cup {None}
  PROVE  Leads(x, SetAccount(x, a, r), WithAcct(x.tab, a, r))
<1> DEFINE q == <<"acct", a, r>>
<1>1. q \in Records /\ Safe(x, q) /\ q[1] = "acct" /\ q[2] = a /\ q[3] = r
  BY DEF Records, Safe
<1>2. Rebind(x.tab, "acct", a, r) = WithAcct(x.tab, a, r)
  BY GoodFacts DEF Rebind, WithAcct, Tabs
<1> QED BY <1>1, <1>2, JSetLeads, SafeOwned DEF SetAccount

\* destroy_storage leads to the tables without the address's outer binding.
LEMMA DestroyStorageLeads ==
  ASSUME NEW x, Good(x), NEW a \in Addr
  PROVE  Leads(x, DestroyStorage(x, a), NoOuter(x.tab, a))
<1>1. x \in TxState /\ x.nInner \in Nat /\ x.tab \in Tabs
  BY GoodFacts, TrackerAssumption
<1>2. CASE x.stop # "no"
  BY <1>2, StoppedLeads DEF DestroyStorage
<1>3. CASE x.stop = "no" /\ x.tab.stor[a] = Absent
  <2>1. NoOuter(x.tab, a) = x.tab
    BY <1>1, <1>3 DEF NoOuter, Tabs, Outers
  <2>2. Leads(x, x, x.tab)
    BY <1>1, SameTables
  <2> QED BY <1>3, <2>1, <2>2 DEF DestroyStorage
<1>4. CASE x.stop = "no" /\ x.tab.stor[a] # Absent
  <2> DEFINE written == {k \in Slot : SlotsOf(x.tab, a)[k] # Absent}
             reads   == x.storReads \cup {<<a, k>> : k \in written}
             y == [x EXCEPT !.storReads = reads]
             q == <<"stor", a, Absent>>
  <2>0. reads \in SUBSET (Addr \X Slot)
    <3>1. ASSUME NEW p \in {<<a, k>> : k \in written}
          PROVE  p \in Addr \X Slot
      <4>1. PICK k \in written : p = <<a, k>>
        OBVIOUS
      <4>2. k \in Slot
        OBVIOUS
      <4> HIDE DEF written
      <4> QED BY <4>1, <4>2
    <3> QED BY <1>1, <3>1 DEF TxState
  <2> HIDE DEF reads
  <2>1. /\ y \in TxState /\ y.tab = x.tab /\ y.journal = x.journal /\ y.hist = x.hist
        /\ y.nInner = x.nInner /\ y.stop = x.stop
    BY <1>1, <2>0 DEF TxState
  <2>2. DestroyStorage(x, a) = JDel(y, "stor", a)
    BY <1>4 DEF DestroyStorage, reads
  <2> HIDE DEF y
  <2>3. Leads(x, y, x.tab)
    BY <1>1, <2>1, SameTables
  <2>4. q \in Records /\ q[1] = "stor" /\ q[2] = a /\ q[3] = Absent
    BY DEF Records
  <2>5. Leads(y, JDel(y, "stor", a), Rebind(y.tab, "stor", a, Absent))
    BY <2>3, <2>4, JDelLeads DEF Leads
  <2>6. Rebind(y.tab, "stor", a, Absent) = NoOuter(x.tab, a)
    BY <1>1, <2>1 DEF Rebind, NoOuter, Tabs
  <2> QED BY <2>2, <2>3, <2>5, <2>6, LeadsTrans
<1> QED BY <1>2, <1>3, <1>4

\* modify_state_commit sets the account, or deletes it with its storage if it is
\* left empty.
LEMMA ModifyLeads ==
  ASSUME NEW x, Good(x), NEW a \in Addr, NEW r \in Account
  PROVE  Leads(x, Modify(x, a, r), CommitTab(x.tab, a, r))
<1> DEFINE y == SetAccount(x, a, r)
           z == DestroyStorage(y, a)
<1>1. Leads(x, y, WithAcct(x.tab, a, r))
  BY SetAccountLeads
<1>2. CASE r # EmptyAccount
  BY <1>1, <1>2 DEF Modify, CommitTab
<1>3. CASE r = EmptyAccount
  <2>1. Leads(y, z, NoOuter(y.tab, a))
    BY <1>1, DestroyStorageLeads DEF Leads
  <2>2. Leads(z, SetAccount(z, a, None), WithAcct(z.tab, a, None))
    BY <2>1, SetAccountLeads DEF Leads
  <2>3. Modify(x, a, r) = SetAccount(z, a, None)
    BY <1>3 DEF Modify, DestroyAccount
  <2>4. SetAccount(z, a, None).stop = "no" =>
          WithAcct(z.tab, a, None) = CommitTab(x.tab, a, r)
    <3> SUFFICES ASSUME SetAccount(z, a, None).stop = "no"
                 PROVE  WithAcct(z.tab, a, None) = CommitTab(x.tab, a, r)
      OBVIOUS
    <3>1. z.tab = NoOuter(WithAcct(x.tab, a, r), a)
      BY <1>1, <2>1, <2>2 DEF Leads
    <3>2. x.tab \in Tabs
      BY GoodFacts
    <3> HIDE DEF y, z
    <3> DEFINE t1 == WithAcct(x.tab, a, r)
               t2 == WithAcct(z.tab, a, None)
               t3 == NoOuter(x.tab, a)
               t4 == WithAcct(t3, a, None)
    <3>3. /\ t1 \in Tabs /\ t1.acct = [x.tab.acct EXCEPT ![a] = r] /\ t1.stor = x.tab.stor
          /\ t1.code = x.tab.code /\ t1.tran = x.tab.tran /\ t1.inner = x.tab.inner
      BY <3>2, WithAcctFacts
    <3>4. /\ t3 \in Tabs /\ t3.stor = [x.tab.stor EXCEPT ![a] = Absent]
          /\ t3.acct = x.tab.acct /\ t3.code = x.tab.code /\ t3.tran = x.tab.tran
          /\ t3.inner = x.tab.inner
      BY <3>2, NoOuterFacts
    <3>5. z.tab = NoOuter(t1, a)
      BY <3>1
    <3> HIDE DEF t1, t3
    <3>6. /\ z.tab \in Tabs /\ z.tab.stor = [t1.stor EXCEPT ![a] = Absent]
          /\ z.tab.acct = t1.acct /\ z.tab.code = t1.code /\ z.tab.tran = t1.tran
          /\ z.tab.inner = t1.inner
      BY <3>3, <3>5, NoOuterFacts, SMTT(60)
    <3>7. /\ t2 \in Tabs /\ t2.acct = [z.tab.acct EXCEPT ![a] = None] /\ t2.stor = z.tab.stor
          /\ t2.code = z.tab.code /\ t2.tran = z.tab.tran /\ t2.inner = z.tab.inner
      <4> DEFINE zt == z.tab
      <4>1. zt \in Tabs
        BY <3>6
      <4> HIDE DEF zt
      <4>2. LET u == WithAcct(zt, a, None)
            IN  /\ u \in Tabs /\ u.acct = [zt.acct EXCEPT ![a] = None] /\ u.stor = zt.stor
                /\ u.code = zt.code /\ u.tran = zt.tran /\ u.inner = zt.inner
        BY <4>1, WithAcctFacts
      <4> QED BY <4>2 DEF zt
    <3>8. /\ t4 \in Tabs /\ t4.acct = [t3.acct EXCEPT ![a] = None] /\ t4.stor = t3.stor
          /\ t4.code = t3.code /\ t4.tran = t3.tran /\ t4.inner = t3.inner
      BY <3>4, WithAcctFacts
    <3> HIDE DEF t2, t4
    <3>9. [[x.tab.acct EXCEPT ![a] = r] EXCEPT ![a] = None] = [x.tab.acct EXCEPT ![a] = None]
      BY <3>2 DEF Tabs, Accts
    <3>10. t2 = t4
      BY <3>3, <3>4, <3>6, <3>7, <3>8, <3>9, SameTabs
    <3> QED BY <1>3, <3>10 DEF CommitTab, t2, t3, t4
  <2>5. Leads(x, z, NoOuter(y.tab, a))
    BY <1>1, <2>1, LeadsTrans
  <2>6. Leads(x, SetAccount(z, a, None), WithAcct(z.tab, a, None))
    BY <2>2, <2>5, LeadsTrans
  <2> QED BY <2>3, <2>4, <2>6 DEF Leads
<1> QED BY <1>2, <1>3

\* The read before the commit changes no table.
LEMMA CommitLeads ==
  ASSUME NEW x, Good(x), NEW a \in Addr, NEW r \in Account
  PROVE  Leads(x, Commit(x, a, r), CommitTab(x.tab, a, r))
<1> DEFINE y == ReadAcct(x, a)
<1>1. Leads(x, y, x.tab) /\ y.tab = x.tab
  BY ReadAcctLeads
<1>2. Leads(y, Modify(y, a, r), CommitTab(x.tab, a, r))
  BY <1>1, ModifyLeads DEF Leads
<1> HIDE DEF y
<1> QED BY <1>1, <1>2, LeadsTrans DEF Commit, y

\* get_account returns an account whichever layer it comes from.
LEMMA GotTyped ==
  ASSUME NEW x, Good(x), NEW b \in BlockState, NEW a \in Addr
  PROVE  Got(x, b, a) \in Account
<1>1. x.tab.acct \in Accts /\ b.acct \in [Addr -> Account \cup {None, Absent}]
  BY GoodFacts DEF Tabs, BlockState
<1>2. EmptyAccount \in Account
  BY TrackerAssumption DEF EmptyAccount, Account, Word
<1>3. AccountOf(x, b, a) \in Account \cup {None}
  BY <1>1, TrackerAssumption DEF AccountOf, PreTxAccount, Accts
<1> QED BY <1>2, <1>3 DEF Got, OrEmpty

\* The tables after set_storage: a first write also binds a new inner table.
SlotTab(x, a, k, v) ==
  IF x.tab.stor[a] # Absent
  THEN Rebind(x.tab, "inner", <<x.tab.stor[a], k>>, v)
  ELSE Rebind(Rebind(x.tab, "stor", a, x.nInner + 1), "inner", <<x.nInner + 1, k>>, v)

\* The inner table htab_new returns belongs to nobody yet, so it may be bound.
LEMMA NewInnerOwned ==
  ASSUME NEW x, Good(x), NEW a \in Addr, x.nInner + 1 <= MaxInner
  PROVE  OwnedTables(Rebind(x.tab, "stor", a, x.nInner + 1), x.nInner + 1)
<1> DEFINE n == x.nInner
           new == Rebind(x.tab, "stor", a, n + 1)
<1>1. n \in Nat /\ MaxInner \in Nat /\ x.tab \in Tabs /\ OwnedTables(x.tab, n)
  BY GoodFacts, TrackerAssumption
<1>2. new.stor = [x.tab.stor EXCEPT ![a] = n + 1] /\ new.inner = x.tab.inner
  BY <1>1 DEF Rebind, Tabs
<1> HIDE DEF new, n
<1>3. \A c \in Addr : x.tab.stor[c] # Absent => x.tab.stor[c] \in 1 .. n
  BY <1>1 DEF OwnedTables
<1>4. \A c, d \in Addr : x.tab.stor[c] = x.tab.stor[d] /\ c # d => x.tab.stor[c] = Absent
  BY <1>1 DEF OwnedTables
<1>5. \A i \in n + 1 .. MaxInner : \A k \in Slot : x.tab.inner[<<i, k>>] = Absent
  BY <1>1 DEF OwnedTables
<1>6. \A c \in Addr : new.stor[c] = IF c = a THEN n + 1 ELSE x.tab.stor[c]
  BY <1>1, <1>2 DEF Tabs, Outers
<1>7. Absent # n + 1
  BY <1>1, TrackerAssumption
<1>8. \A c \in Addr : new.stor[c] # Absent => new.stor[c] \in 1 .. n + 1
  BY <1>1, <1>3, <1>6
<1>9. \A c, d \in Addr : new.stor[c] = new.stor[d] /\ c # d => new.stor[c] = Absent
  BY <1>1, <1>3, <1>4, <1>6, <1>7
<1>10. ASSUME NEW i \in n + 1 + 1 .. MaxInner, NEW k \in Slot
       PROVE  new.inner[<<i, k>>] = Absent
  <2>1. i \in n + 1 .. MaxInner
    BY <1>1
  <2> QED BY <1>2, <1>5, <2>1
<1> QED BY <1>8, <1>9, <1>10 DEF OwnedTables, new, n

\* set_storage writes to the address's inner table, a new one if it has none.
LEMMA SetStorageLeads ==
  ASSUME NEW x, Good(x), x.stop = "no", NEW b \in BlockState,
         NEW a \in Addr, NEW k \in Slot, NEW v \in Word
  PROVE  Leads(x, SetStorage(x, b, a, k, v), SlotTab(x, a, k, v))
<1> DEFINE y == ReadAcct(x, a)
           i == x.nInner + 1
           w == [y EXCEPT !.nInner = i]
           z == JSet(w, "stor", a, i)
           q == <<"inner", <<x.tab.stor[a], k>>, v>>
           s == <<"stor", a, i>>
           u == <<"inner", <<i, k>>, v>>
<1>1. /\ x \in TxState /\ x.nInner \in Nat /\ x.tab \in Tabs /\ MaxInner \in Nat
      /\ OwnedTables(x.tab, x.nInner)
  BY GoodFacts, TrackerAssumption
<1>2. Leads(x, y, x.tab) /\ y.tab = x.tab
  BY ReadAcctLeads
<1>3. y \in TxState /\ Good(y) /\ y.nInner = x.nInner /\ y.stop = "no"
  BY <1>1, <1>2 DEF Leads, Good, ReadAcct, TxState
<1>4. CASE AccountOf(x, b, a) = None
  <2>1. Leads(y, [y EXCEPT !.stop = "err3"], SlotTab(x, a, k, v))
    BY <1>3, StopLeads
  <2> QED BY <1>2, <1>4, <2>1, LeadsTrans DEF SetStorage
<1>5. CASE AccountOf(x, b, a) # None /\ x.tab.stor[a] # Absent
  <2>1. x.tab.stor[a] \in 1 .. x.nInner /\ x.tab.stor[a] \in 1 .. MaxInner
    BY <1>1, <1>5 DEF OwnedTables, Tabs, Outers
  <2>2. q \in Records /\ q[1] = "inner" /\ q[2] = <<x.tab.stor[a], k>> /\ q[3] = v
    BY <2>1 DEF Records
  <2>3. OwnedTables(Rebind(y.tab, q[1], q[2], q[3]), y.nInner)
    BY <1>3, <2>1, <2>2, SafeOwned DEF Safe
  <2>4. Leads(y, JSet(y, "inner", q[2], v), Rebind(y.tab, "inner", q[2], v))
    BY <1>3, <2>2, <2>3, JSetLeads
  <2>5. Leads(x, JSet(y, "inner", q[2], v), Rebind(y.tab, "inner", q[2], v))
    BY <1>2, <2>4, LeadsTrans
  <2> QED BY <1>2, <1>5, <2>5 DEF SetStorage, SlotTab
<1>6. CASE AccountOf(x, b, a) # None /\ x.tab.stor[a] = Absent /\ i > MaxInner
  <2>1. Leads(y, [y EXCEPT !.stop = "trap1"], SlotTab(x, a, k, v))
    BY <1>3, StopLeads
  <2> QED BY <1>2, <1>6, <2>1, LeadsTrans DEF SetStorage
<1>7. CASE AccountOf(x, b, a) # None /\ x.tab.stor[a] = Absent /\ ~(i > MaxInner)
  <2>1. i \in 1 .. MaxInner
    BY <1>1, <1>7
  <2>2. /\ w \in TxState /\ w.tab = y.tab /\ w.journal = y.journal /\ w.hist = y.hist
        /\ w.nInner = i /\ w.stop = y.stop
    <3> HIDE DEF y, i
    <3> QED BY <1>3, <2>1 DEF TxState
  <2>3. Leads(y, w, y.tab)
    <3>1. y.nInner <= i
      BY <1>1, <1>3
    <3> HIDE DEF y, i, w
    <3> QED BY <1>3, <2>2, <3>1, SameTables
  <2>4. s \in Records /\ s[1] = "stor" /\ s[2] = a /\ s[3] = i
    BY <2>1 DEF Records
  <2>5. OwnedTables(Rebind(w.tab, "stor", a, i), w.nInner)
    BY <1>1, <1>2, <2>1, <2>2, NewInnerOwned
  <2>6. Leads(w, z, Rebind(w.tab, "stor", a, i))
    BY <2>3, <2>4, <2>5, JSetLeads DEF Leads
  <2>7. u \in Records /\ u[1] = "inner" /\ u[2] = <<i, k>> /\ u[3] = v /\ u[2][1] = i
    BY <2>1 DEF Records
  <2>8. Good(z) /\ i \in 1 .. z.nInner
    BY <1>1, <2>1, <2>2, <2>6, GoodFacts DEF Leads
  <2>9. OwnedTables(Rebind(z.tab, u[1], u[2], u[3]), z.nInner)
    BY <2>7, <2>8, SafeOwned DEF Safe
  <2>10. Leads(z, JSet(z, "inner", <<i, k>>, v), Rebind(z.tab, "inner", <<i, k>>, v))
    BY <2>7, <2>8, <2>9, JSetLeads
  <2>11. SetStorage(x, b, a, k, v) = JSet(z, "inner", <<i, k>>, v)
    BY <1>7 DEF SetStorage
  <2> HIDE DEF y, w, z, i
  <2>12. Leads(x, w, y.tab)
    BY <1>2, <2>3, LeadsTrans
  <2>13. Leads(x, z, Rebind(w.tab, "stor", a, i))
    BY <2>6, <2>12, LeadsTrans
  <2>14. Leads(x, SetStorage(x, b, a, k, v), Rebind(z.tab, "inner", <<i, k>>, v))
    BY <2>10, <2>11, <2>13, LeadsTrans
  <2>15. SetStorage(x, b, a, k, v).stop = "no" => z.tab = Rebind(x.tab, "stor", a, i)
    BY <1>2, <2>2, <2>6, <2>10, <2>11 DEF Leads
  <2> QED BY <1>7, <2>14, <2>15 DEF SlotTab, Leads, i
<1> QED BY <1>4, <1>5, <1>6, <1>7

TranTab(tab, a, k, v) == Rebind(tab, "tran", <<a, k>>, IF v = 0 THEN Absent ELSE v)

\* set_transient_storage binds a value, or unbinds the key for zero.
LEMMA SetTransientLeads ==
  ASSUME NEW x, Good(x), NEW a \in Addr, NEW k \in Slot, NEW v \in Word
  PROVE  Leads(x, SetTransient(x, a, k, v), TranTab(x.tab, a, k, v))
<1> DEFINE d == <<"tran", <<a, k>>, Absent>>
           s == <<"tran", <<a, k>>, v>>
<1>1. /\ d \in Records /\ d[1] = "tran" /\ d[2] = <<a, k>> /\ d[3] = Absent
      /\ s \in Records /\ s[1] = "tran" /\ s[2] = <<a, k>> /\ s[3] = v
  BY DEF Records
<1>2. CASE v = 0
  <2>1. Leads(x, JDel(x, "tran", <<a, k>>), Rebind(x.tab, "tran", <<a, k>>, Absent))
    BY <1>1, JDelLeads
  <2> QED BY <1>2, <2>1 DEF SetTransient, TranTab
<1>3. CASE v # 0
  <2>1. Leads(x, JSet(x, "tran", <<a, k>>, v), Rebind(x.tab, "tran", <<a, k>>, v))
    BY <1>1, JSetLeads, SafeOwned DEF Safe
  <2> QED BY <1>3, <2>1 DEF SetTransient, TranTab
<1> QED BY <1>2, <1>3

\* Every change of a balance, of a nonce or of a code hash commits an account.
LEMMA ChangedTyped ==
  ASSUME NEW q \in Account, NEW n \in Word, NEW h \in CodeHash
  PROVE  /\ [q EXCEPT !.balance = n] \in Account
         /\ [q EXCEPT !.balance = (@ + n) % WordMod] \in Account
         /\ n <= q.balance => [q EXCEPT !.balance = @ - n] \in Account
         /\ q.nonce < MaxNonce => [q EXCEPT !.nonce = @ + 1] \in Account
         /\ [q EXCEPT !.code = h] \in Account
         /\ [q EXCEPT !.nonce = 0, !.code = EmptyCode] \in Account
<1>1. /\ WordMod \in Nat \ {0} /\ MaxNonce \in Nat /\ EmptyCode \in CodeHash
      /\ q.balance \in 0 .. WordMod - 1 /\ q.nonce \in 0 .. MaxNonce
      /\ n \in 0 .. WordMod - 1
  BY TrackerAssumption DEF Account, Word
<1>2. (q.balance + n) % WordMod \in 0 .. WordMod - 1
  BY <1>1
<1>3. n <= q.balance => q.balance - n \in 0 .. WordMod - 1
  BY <1>1
<1>4. q.nonce < MaxNonce => q.nonce + 1 \in 0 .. MaxNonce
  BY <1>1
<1>5. 0 \in 0 .. MaxNonce
  BY <1>1
<1> QED BY <1>1, <1>2, <1>3, <1>4, <1>5 DEF Account, Word

\* create_ether commits one account.
LEMMA CreateEtherLeads ==
  ASSUME NEW x, Good(x), NEW b \in BlockState, NEW a \in Addr, NEW n \in Word
  PROVE  \E r \in Account : Leads(x, CreateEther(x, b, a, n), CommitTab(x.tab, a, r))
BY GotTyped, ChangedTyped, CommitLeads, TrackerAssumption DEF CreateEther

\* move_ether commits the sender and then the recipient, or throws StateErr.
LEMMA MoveEtherLeads ==
  ASSUME NEW x, Good(x), NEW b \in BlockState, NEW s \in Addr, NEW t \in Addr, NEW n \in Word
  PROVE  \E q, r \in Account :
           Leads(x, MoveEther(x, b, s, t, n), CommitTab(CommitTab(x.tab, s, q), t, r))
<1> DEFINE got == Got(x, b, s)
           q   == [got EXCEPT !.balance = @ - n]
           y   == Commit(x, s, q)
<1>1. got \in Account
  BY GotTyped
<1>2. CASE got.balance < n
  <2>1. Leads(x, ReadAcct(x, s), x.tab)
    BY ReadAcctLeads
  <2>2. PICK r \in Account : TRUE
    BY <1>1
  <2>3. Leads(x, [ReadAcct(x, s) EXCEPT !.stop = "err4"],
              CommitTab(CommitTab(x.tab, s, r), t, r))
    <3> DEFINE w == ReadAcct(x, s)
               u == CommitTab(CommitTab(x.tab, s, r), t, r)
    <3>1. Good(w) /\ Leads(x, w, x.tab)
      BY <2>1 DEF Leads
    <3> HIDE DEF w, u
    <3>2. Leads(w, [w EXCEPT !.stop = "err4"], u)
      BY <3>1, StopLeads
    <3>3. Leads(x, [w EXCEPT !.stop = "err4"], u)
      BY <3>1, <3>2, LeadsTrans
    <3> QED BY <3>3 DEF w, u
  <2> QED BY <1>2, <2>2, <2>3 DEF MoveEther
<1>3. CASE ~(got.balance < n)
  <2>1. n <= got.balance
    BY <1>1, <1>3, TrackerAssumption DEF Account, Word
  <2> HIDE DEF got
  <2>2. q \in Account
    BY <1>1, <2>1, ChangedTyped, TrackerAssumption
  <2>3. MoveEther(x, b, s, t, n) = CreateEther(y, b, t, n)
    BY <1>3 DEF MoveEther, got
  <2> HIDE DEF q
  <2>4. Leads(x, y, CommitTab(x.tab, s, q))
    BY <2>2, CommitLeads
  <2>5. PICK r \in Account : Leads(y, CreateEther(y, b, t, n), CommitTab(y.tab, t, r))
    BY <2>4, CreateEtherLeads DEF Leads
  <2> HIDE DEF y
  <2>6. Leads(x, CreateEther(y, b, t, n), CommitTab(y.tab, t, r))
    BY <2>4, <2>5, LeadsTrans
  <2>7. Leads(x, CreateEther(y, b, t, n), CommitTab(CommitTab(x.tab, s, q), t, r))
    BY <2>4, <2>5, <2>6 DEF Leads
  <2> QED BY <2>2, <2>3, <2>7
<1> QED BY <1>2, <1>3

\* set_account_balance commits one account.
LEMMA SetBalanceLeads ==
  ASSUME NEW x, Good(x), NEW b \in BlockState, NEW a \in Addr, NEW n \in Word
  PROVE  \E r \in Account : Leads(x, SetBalance(x, b, a, n), CommitTab(x.tab, a, r))
BY GotTyped, ChangedTyped, CommitLeads, TrackerAssumption DEF SetBalance

\* increment_nonce commits one account, if the nonce is below its bound.
LEMMA IncrementNonceLeads ==
  ASSUME NEW x, Good(x), NEW b \in BlockState, NEW a \in Addr, Got(x, b, a).nonce < MaxNonce
  PROVE  \E r \in Account : Leads(x, IncrementNonce(x, b, a), CommitTab(x.tab, a, r))
<1>1. 0 \in Word
  BY TrackerAssumption DEF Word
<1> QED BY <1>1, GotTyped, ChangedTyped, CommitLeads, TrackerAssumption DEF IncrementNonce

\* set_code records the code, unless it is empty, and commits the account.
LEMMA SetCodeLeads ==
  ASSUME NEW x, Good(x), NEW b \in BlockState, NEW a \in Addr, NEW h \in CodeHash
  PROVE  \E r \in Account :
           Leads(x, SetCode(x, b, a, h),
                 CommitTab(IF h = EmptyCode THEN x.tab ELSE Rebind(x.tab, "code", h, h), a, r))
<1> DEFINE y == IF h = EmptyCode THEN x ELSE JSet(x, "code", h, h)
           t == IF h = EmptyCode THEN x.tab ELSE Rebind(x.tab, "code", h, h)
           r == [Got(x, b, a) EXCEPT !.code = h]
           q == <<"code", h, h>>
<1>1. Leads(x, y, t)
  <2>1. q \in Records /\ q[1] = "code" /\ q[2] = h /\ q[3] = h
    BY DEF Records
  <2>2. Leads(x, JSet(x, "code", h, h), Rebind(x.tab, "code", h, h))
    BY <2>1, JSetLeads, SafeOwned DEF Safe
  <2>3. Leads(x, x, x.tab)
    BY GoodFacts, TrackerAssumption, SameTables
  <2> QED BY <2>2, <2>3
<1>2. r \in Account
  <2>1. 0 \in Word
    BY TrackerAssumption DEF Word
  <2> QED BY <2>1, GotTyped, ChangedTyped
<1>3. SetCode(x, b, a, h) = Commit(y, a, r)
  BY DEF SetCode
<1> HIDE DEF y, r, t
<1>4. Leads(y, Commit(y, a, r), CommitTab(y.tab, a, r))
  BY <1>1, <1>2, CommitLeads DEF Leads
<1>5. Leads(x, Commit(y, a, r), CommitTab(y.tab, a, r))
  BY <1>1, <1>4, LeadsTrans
<1>6. Leads(x, Commit(y, a, r), CommitTab(t, a, r))
  BY <1>1, <1>4, <1>5 DEF Leads
<1> QED BY <1>2, <1>3, <1>6 DEF t

\* clear_account_preserving_balance drops the storage and commits the account.
LEMMA ClearLeads ==
  ASSUME NEW x, Good(x), NEW b \in BlockState, NEW a \in Addr
  PROVE  \E r \in Account :
           Leads(x, ClearPreservingBalance(x, b, a), CommitTab(NoOuter(x.tab, a), a, r))
<1> DEFINE y == DestroyStorage(x, a)
           r == [Got(x, b, a) EXCEPT !.nonce = 0, !.code = EmptyCode]
<1>1. Leads(x, y, NoOuter(x.tab, a))
  BY DestroyStorageLeads
<1>2. r \in Account
  <2>1. 0 \in Word
    BY TrackerAssumption DEF Word
  <2> QED BY <2>1, GotTyped, ChangedTyped, TrackerAssumption
<1>3. ClearPreservingBalance(x, b, a) = Commit(y, a, r)
  BY DEF ClearPreservingBalance
<1> HIDE DEF y, r
<1>4. Leads(y, Commit(y, a, r), CommitTab(y.tab, a, r))
  BY <1>1, <1>2, CommitLeads DEF Leads
<1>5. Leads(x, Commit(y, a, r), CommitTab(y.tab, a, r))
  BY <1>1, <1>4, LeadsTrans
<1> QED BY <1>1, <1>2, <1>3, <1>4, <1>5 DEF Leads
-----------------------------------------------------------------------------
(***************************************************************************)
(* The inductive invariant: types, a journal that replays backwards to     *)
(* every saved copy, and inner tables with one owner.                      *)
(***************************************************************************)
Inv == TypeOK /\ HistoryOK /\ NoSharedTable

\* What state_fresh_tx leaves is good.
LEMMA EmptyGood == Good(FreshTx)
<1>1. EmptyTab \in Tabs
  BY DEF EmptyTab, Tabs, Accts, Outers, Codes, Trans, Inners
<1>2. FreshTx \in TxState
  BY <1>1, TrackerAssumption DEF FreshTx, TxState
<1>3. Replays(FreshTx)
  BY DEF Replays, FreshTx
<1>4. OwnedTables(EmptyTab, 0)
  BY TrackerAssumption DEF OwnedTables, EmptyTab
<1> QED BY <1>2, <1>3, <1>4, TrackerAssumption DEF Good, FreshTx, Owned

\* The invariant holds before the first scope.
LEMMA InvInit == Init => Inv
<1> SUFFICES ASSUME Init PROVE Inv
  OBVIOUS
<1>1. FreshBlock \in BlockState
  BY DEF FreshBlock, BlockState
<1>2. tx = FreshTx /\ bs = FreshBlock /\ marks = <<>> /\ saved = <<>>
  BY DEF Init
<1>3. Good(tx) /\ bs \in BlockState /\ Len(tx.journal) = 0
  BY <1>1, <1>2, EmptyGood DEF FreshTx
<1>4. TypeOK
  <2>1. marks \in Seq(Nat) /\ Len(saved) = Len(marks) /\ Len(marks) = 0
    BY <1>2
  <2>2. restoring = FALSE /\ phase = "closed"
    BY DEF Init
  <2>3. phase = "message" <=> marks # <<>>
    BY <1>2, <2>2
  <2>4. tx \in TxState /\ Len(tx.journal) <= JournalCap /\ bs \in BlockState
    BY <1>3 DEF Good
  <2>5. 1 .. Len(marks) = {}
    BY <2>1
  <2>6. restoring \in BOOLEAN /\ ~restoring
    BY <2>2
  <2>7. \A i \in 1 .. Len(marks) : marks[i] <= Len(tx.journal) /\ \A j \in 1 .. i : marks[j] <= marks[i]
    BY <2>5
  <2> QED BY <2>1, <2>2, <2>3, <2>4, <2>6, <2>7 DEF TypeOK
<1>5. HistoryOK /\ NoSharedTable
  BY <1>2, <1>3 DEF HistoryOK, NoSharedTable, Good
<1> QED BY <1>4, <1>5 DEF Inv

\* A step that only lets tx grow.
LEMMA GrowInv ==
  ASSUME Inv, NEW t, Leads(tx, tx', t),
         UNCHANGED <<bs, marks, saved, restoring, phase>>
  PROVE  Inv'
<1>1. /\ tx \in TxState /\ tx' \in TxState /\ marks \in Seq(Nat) /\ Good(tx') /\ Extends(tx, tx')
      /\ Len(tx.journal) \in Nat /\ Len(tx'.journal) \in Nat
  BY DEF Inv, TypeOK, Leads, Good, TxState
<1>2. \A i \in 1 .. Len(marks) : marks[i] \in Nat /\ marks[i] <= Len(tx.journal)
  BY <1>1 DEF Inv, TypeOK
<1>3. \A i \in 1 .. Len(marks) : marks[i] <= Len(tx'.journal)
  BY <1>1, <1>2 DEF Extends
<1>4. \A i \in 1 .. Len(marks) : tx'.hist[marks[i] + 1] = tx.hist[marks[i] + 1]
  BY <1>1, <1>2 DEF Extends
<1>5. TypeOK'
  BY <1>1, <1>3 DEF Inv, TypeOK, Good
<1>6. HistoryOK'
  BY <1>1, <1>4 DEF Inv, HistoryOK, Good
<1>7. NoSharedTable'
  BY <1>1 DEF Good, NoSharedTable
<1> QED BY <1>5, <1>6, <1>7 DEF Inv

\* Under the invariant the current TransactionState is good.
LEMMA GoodTx == Inv => Good(tx) /\ bs \in BlockState
BY DEF Inv, Good, TypeOK, HistoryOK, NoSharedTable

\* One turn of the loop of state_restore keeps the invariant: it goes back one
\* step in the history.
LEMMA UndoInv == Inv /\ UndoOne => Inv'
<1> SUFFICES ASSUME Inv, UndoOne PROVE Inv'
  OBVIOUS
<1> DEFINE n == Len(tx.journal)
           r == tx.journal[n]
<1>1. /\ tx \in TxState /\ tx.journal \in Seq(Records) /\ tx.hist \in Seq(Tabs)
      /\ marks \in Seq(Nat) /\ marks # <<>> /\ Len(tx.hist) = n + 1 /\ n \in Nat
      /\ Last(marks) \in Nat /\ n > Last(marks) /\ n <= JournalCap
  BY DEF Inv, TypeOK, UndoOne, HistoryOK, Replays, TxState, Last
<1>2. tx.hist[n] = Rebind(tx.tab, r[1], r[2], r[3])
  <2>1. Replays(tx) /\ n \in 1 .. n
    BY <1>1 DEF Inv, HistoryOK
  <2>2. tx.hist[n + 1] = tx.tab
    BY <1>1, <2>1 DEF Replays
  <2> QED BY <2>1, <2>2 DEF Replays
<1> DEFINE j == SubSeq(tx.journal, 1, n - 1)
           h == SubSeq(tx.hist, 1, n)
<1>3. /\ j \in Seq(Records) /\ Len(j) = n - 1 /\ \A i \in 1 .. n - 1 : j[i] = tx.journal[i]
      /\ h \in Seq(Tabs) /\ Len(h) = n /\ \A i \in 1 .. n : h[i] = tx.hist[i]
  BY <1>1
<1>4. tx.hist[n] \in Tabs
  BY <1>1
<1>5. tx' = [tx EXCEPT !.journal = j, !.tab = tx.hist[n], !.hist = h]
  BY <1>2 DEF UndoOne, Undo
<1> HIDE DEF j, h
<1>6. /\ tx' \in TxState /\ tx'.journal = j /\ tx'.hist = h /\ tx'.tab = tx.hist[n]
      /\ tx'.nInner = tx.nInner
  BY <1>1, <1>3, <1>4, <1>5 DEF TxState
<1>7. \A i \in 1 .. Len(marks) : marks[i] \in Nat /\ marks[i] <= n - 1
  BY <1>1 DEF Inv, TypeOK, Last
<1>8. TypeOK'
  BY <1>1, <1>3, <1>6, <1>7, TrackerAssumption, SMTT(60) DEF Inv, TypeOK, UndoOne
<1>9. Replays(tx')
  <2>1. \A i \in 1 .. n : tx.hist[i] = Rebind(tx.hist[i + 1], tx.journal[i][1],
                                            tx.journal[i][2], tx.journal[i][3])
    BY DEF Inv, HistoryOK, Replays
  <2>2. \A i \in 1 .. n - 1 : h[i] = Rebind(h[i + 1], j[i][1], j[i][2], j[i][3])
    <3> SUFFICES ASSUME NEW i \in 1 .. n - 1
                 PROVE  h[i] = Rebind(h[i + 1], j[i][1], j[i][2], j[i][3])
      OBVIOUS
    <3>1. i \in 1 .. n /\ i + 1 \in 1 .. n
      BY <1>1
    <3>2. h[i] = tx.hist[i] /\ h[i + 1] = tx.hist[i + 1] /\ j[i] = tx.journal[i]
      BY <1>3, <3>1
    <3> QED BY <2>1, <3>1, <3>2
  <2>3. Len(h) = Len(j) + 1 /\ h[Len(h)] = tx.hist[n]
    BY <1>1, <1>3
  <2> HIDE DEF n
  <2> QED BY <1>3, <1>6, <2>2, <2>3 DEF Replays
<1>10. \A i \in 1 .. Len(marks) : View(h[marks[i] + 1]) = saved[i]
  <2> SUFFICES ASSUME NEW i \in 1 .. Len(marks) PROVE View(h[marks[i] + 1]) = saved[i]
    OBVIOUS
  <2>1. marks[i] + 1 \in 1 .. n
    BY <1>1, <1>7
  <2>2. View(tx.hist[marks[i] + 1]) = saved[i]
    BY DEF Inv, HistoryOK
  <2> QED BY <1>3, <2>1, <2>2
<1>11. NoSharedTable'
  BY <1>1, <1>3, <1>6 DEF Inv, NoSharedTable, Owned
<1>12. HistoryOK'
  <2>1. marks' = marks /\ saved' = saved
    BY DEF UndoOne
  <2> QED BY <1>6, <1>9, <1>10, <2>1 DEF HistoryOK
<1> QED BY <1>8, <1>11, <1>12 DEF Inv

\* The sequence without its last element.
LEMMA FrontFacts ==
  ASSUME NEW S, NEW s \in Seq(S), NEW n \in Nat, n # 0, Len(s) = n
  PROVE  /\ Front(s) \in Seq(S) /\ Len(Front(s)) = n - 1
         /\ \A i \in 1 .. n - 1 : Front(s)[i] = s[i]
<1>1. n - 1 \in Nat /\ n - 1 <= n /\ n - 1 - 1 + 1 = n - 1 /\ (~(1 <= n - 1) => n - 1 = 0)
  OBVIOUS
<1>2. Front(s) = SubSeq(s, 1, n - 1)
  BY DEF Front
<1>3. \A i \in 1 .. n - 1 : s[i] \in S
  OBVIOUS
<1>4. SubSeq(s, 1, n - 1) \in Seq(S)
  BY <1>1, <1>3, SubSeqProperties
<1>5. Len(SubSeq(s, 1, n - 1)) = n - 1
  BY <1>1, <1>3, SubSeqProperties
<1>6. \A i \in 1 .. n - 1 : SubSeq(s, 1, n - 1)[i] = s[i]
  BY <1>1
<1> QED BY <1>2, <1>4, <1>5, <1>6

\* Forgetting the last snapshot keeps the invariant, after a rollback or without.
LEMMA PopInv ==
  ASSUME Inv, Pop, marks # <<>>, restoring' = FALSE, phase = "message"
  PROVE  Inv'
<1> DEFINE m == Front(marks)
<1>0. PICK n \in Nat : n = Len(marks)
  BY DEF Inv, TypeOK
<1>1. n # 0 /\ n >= 1 /\ marks \in Seq(Nat)
  BY <1>0 DEF Inv, TypeOK
<1>2. m \in Seq(Nat) /\ Len(m) = n - 1 /\ \A i \in 1 .. n - 1 : m[i] = marks[i]
  BY <1>0, <1>1, FrontFacts
<1>3. Len(saved) = n
  BY <1>0 DEF Inv, TypeOK
<1>4. /\ Len(saved') = n - 1 /\ \A i \in 1 .. n - 1 : saved'[i] = saved[i]
  BY <1>1, <1>3 DEF Pop, Front
<1> HIDE DEF m
<1>5. marks' = m /\ UNCHANGED <<tx, bs>>
  BY DEF Pop, m
<1>6. \A i \in 1 .. n - 1 : i \in 1 .. n /\ \A j \in 1 .. i : j \in 1 .. n - 1
  BY <1>1
<1>7. phase' = "message" <=> m # <<>>
  <2>1. n = 1 <=> n - 1 = 0
    OBVIOUS
  <2>3. Len(m) = 0 <=> m = <<>>
    BY <1>2
  <2>2. phase' = IF n = 1 THEN "settling" ELSE "message"
    BY <1>0 DEF Pop
  <2> QED BY <1>2, <2>1, <2>2, <2>3
<1>8. phase' \in {"message", "settling"}
  BY DEF Pop
<1>9. TypeOK'
  <2>1. \A i \in 1 .. n - 1 : m[i] <= Len(tx.journal)
    BY <1>0, <1>1, <1>2 DEF Inv, TypeOK
  <2>2. \A i \in 1 .. n - 1 : \A j \in 1 .. i : m[j] <= m[i]
    <3> SUFFICES ASSUME NEW i \in 1 .. n - 1, NEW j \in 1 .. i PROVE m[j] <= m[i]
      OBVIOUS
    <3>1. i \in 1 .. Len(marks) /\ j \in 1 .. i /\ m[i] = marks[i] /\ m[j] = marks[j]
      BY <1>6, <1>0, <1>2
    <3> QED BY <3>1 DEF Inv, TypeOK
  <2> QED BY <1>2, <1>4, <1>5, <1>7, <1>8, <2>1, <2>2 DEF Inv, TypeOK
<1>10. HistoryOK' /\ NoSharedTable'
  <2>1. \A i \in 1 .. n - 1 : View(tx.hist[m[i] + 1]) = saved'[i]
    <3> SUFFICES ASSUME NEW i \in 1 .. n - 1 PROVE View(tx.hist[m[i] + 1]) = saved'[i]
      OBVIOUS
    <3>1. i \in 1 .. Len(marks) /\ m[i] = marks[i] /\ saved'[i] = saved[i]
      BY <1>6, <1>0, <1>2, <1>4
    <3> QED BY <3>1 DEF Inv, HistoryOK
  <2> QED BY <1>2, <1>5, <2>1 DEF Inv, HistoryOK, NoSharedTable
<1> QED BY <1>9, <1>10 DEF Inv
-----------------------------------------------------------------------------
(***************************************************************************)
(* One lemma per action.                                                   *)
(***************************************************************************)
LEMMA DoInv ==
  ASSUME Inv, NEW p, NEW y, Do(p, y), NEW t, Leads(tx, y, t)
  PROVE  Inv'
<1>1. tx' = y /\ UNCHANGED <<bs, marks, saved, restoring, phase>>
  BY DEF Do
<1> QED BY <1>1, GrowInv

\* Each call of the tracker made under a phase keeps the invariant: the reads.
LEMMA ReadAccountInv == Inv /\ ReadAccount => Inv'
BY GoodTx, ReadAcctLeads, DoInv DEF ReadAccount

\* The same for op_sload.
LEMMA ReadStorageInv == Inv /\ ReadStorage => Inv'
BY GoodTx, SloadLeads, DoInv DEF ReadStorage

\* op_sstore reads the slot, then writes it.
LEMMA StoreLeads ==
  ASSUME NEW x, Good(x), x.stop = "no", NEW b \in BlockState,
         NEW a \in Addr, NEW k \in Slot, NEW v \in Word
  PROVE  LET y == Sload(x, a, k)
         IN  Leads(x, SetStorage(y, b, a, k, v), SlotTab(y, a, k, v))
<1> DEFINE y == Sload(x, a, k)
<1>1. Leads(x, y, x.tab)
  BY SloadLeads
<1>2. y.stop = "no"
  BY GoodFacts DEF Sload, TxState
<1> HIDE DEF y
<1>3. Leads(y, SetStorage(y, b, a, k, v), SlotTab(y, a, k, v))
  BY <1>1, <1>2, SetStorageLeads DEF Leads
<1> QED BY <1>1, <1>3, LeadsTrans DEF y

\* The same for op_sstore.
LEMMA WriteStorageInv == Inv /\ WriteStorage => Inv'
<1> SUFFICES ASSUME Inv, NEW a \in Addr, NEW k \in Slot, NEW v \in Word,
                    Do("message", SetStorage(Sload(tx, a, k), bs, a, k, v))
             PROVE  Inv'
  BY DEF WriteStorage
<1>1. tx.stop = "no"
  BY DEF Do, Running
<1> QED BY <1>1, GoodTx, StoreLeads, DoInv

\* The same for op_tstore.
LEMMA WriteTransientInv == Inv /\ WriteTransient => Inv'
BY GoodTx, SetTransientLeads, DoInv DEF WriteTransient

\* The same for move_ether.
LEMMA TransferInv == Inv /\ Transfer => Inv'
BY GoodTx, MoveEtherLeads, DoInv DEF Transfer

\* The same for the debit of the sender.
LEMMA DebitInv == Inv /\ Debit => Inv'
BY GoodTx, SetBalanceLeads, DoInv DEF Debit

\* The same for the refund and the fee.
LEMMA CreditInv == Inv /\ Credit => Inv'
BY GoodTx, CreateEtherLeads, DoInv DEF Credit

\* The same for increment_nonce.
LEMMA BumpNonceInv == Inv /\ BumpNonce => Inv'
<1> SUFFICES ASSUME Inv, NEW p, NEW a \in Addr, Got(tx, bs, a).nonce < MaxNonce,
                    Do(p, IncrementNonce(tx, bs, a))
             PROVE  Inv'
  BY DEF BumpNonce, TakeNonce
<1> QED BY GoodTx, IncrementNonceLeads, DoInv

\* The same for set_code.
LEMMA InstallCodeInv == Inv /\ InstallCode => Inv'
BY GoodTx, SetCodeLeads, DoInv DEF InstallCode

\* The same for the accounts that selfdestructed.
LEMMA ClearInv == Inv /\ Clear => Inv'
<1>1. Inv => tx.created \subseteq Addr
  BY DEF Inv, TypeOK, TxState
<1> QED BY <1>1, GoodTx, ClearLeads, DoInv DEF Clear

\* destroy_storage leaves the accounts alone.
LEMMA DestroyStorageAcct ==
  ASSUME NEW x, Good(x), NEW a \in Addr
  PROVE  DestroyStorage(x, a).tab.acct = x.tab.acct
<1> DEFINE more == {<<a, k>> : k \in {l \in Slot : SlotsOf(x.tab, a)[l] # Absent}}
           w == [x EXCEPT !.storReads = @ \cup more]
<1>1. x \in TxState /\ x.tab \in Tabs
  BY GoodFacts
<1>2. DestroyStorage(x, a) \in {x, JDel(w, "stor", a)}
  BY DEF DestroyStorage
<1>0. x.storReads \cup more \in SUBSET (Addr \X Slot)
  <2>1. x.storReads \in SUBSET (Addr \X Slot)
    BY <1>1 DEF TxState
  <2>2. more \in SUBSET (Addr \X Slot)
    <3> SUFFICES ASSUME NEW q \in more PROVE q \in Addr \X Slot
      OBVIOUS
    <3> PICK k \in Slot : q = <<a, k>>
      OBVIOUS
    <3> QED OBVIOUS
  <2> HIDE DEF more, w
  <2> QED BY <2>1, <2>2
<1> HIDE DEF more
<1>3. w \in TxState /\ w.tab = x.tab
  <2>1. w = [x EXCEPT !.storReads = x.storReads \cup more]
    BY <1>1 DEF TxState
  <2> QED BY <1>0, <1>1, <2>1 DEF TxState
<1> HIDE DEF w
<1>4. JDel(w, "stor", a) \in {w, [w EXCEPT !.stop = "trap5"], Log(w, "stor", a, Absent)}
  BY DEF JDel
<1>5. [w EXCEPT !.stop = "trap5"].tab = x.tab
  BY <1>3 DEF TxState
<1>6. Log(w, "stor", a, Absent).tab = Rebind(x.tab, "stor", a, Absent)
  BY <1>3 DEF Log, TxState
<1>7. Rebind(x.tab, "stor", a, Absent).acct = x.tab.acct
  BY <1>1 DEF Rebind, Tabs
<1> QED BY <1>2, <1>3, <1>4, <1>5, <1>6, <1>7

\* A new contract: the account is reset, marked and given its first nonce.
LEMMA CreateLeads ==
  ASSUME NEW x, Good(x), NEW b \in BlockState, NEW a \in Addr, Got(x, b, a).nonce < MaxNonce
  PROVE  \E r \in Account :
           Leads(x, IncrementNonce(MarkCreated(DestroyStorage(x, a), a), b, a),
                 CommitTab(NoOuter(x.tab, a), a, r))
<1> DEFINE y == DestroyStorage(x, a)
           z == MarkCreated(y, a)
<1>1. Leads(x, y, NoOuter(x.tab, a))
  BY DestroyStorageLeads
<1>2. Leads(y, z, y.tab) /\ z.tab = y.tab
  BY <1>1, MarkCreatedLeads DEF Leads
<1>3. Got(z, b, a) = Got(x, b, a)
  <2>1. y.tab.acct = x.tab.acct
    BY DestroyStorageAcct
  <2> HIDE DEF y, z
  <2> QED BY <1>2, <2>1 DEF Got, AccountOf, OrEmpty
<1> HIDE DEF y, z
<1>4. Good(z) /\ Got(z, b, a).nonce < MaxNonce
  BY <1>2, <1>3 DEF Leads
<1>5. PICK r \in Account : Leads(z, IncrementNonce(z, b, a), CommitTab(z.tab, a, r))
  BY <1>4, IncrementNonceLeads
<1>6. Leads(x, z, y.tab)
  BY <1>1, <1>2, LeadsTrans
<1>7. Leads(x, IncrementNonce(z, b, a), CommitTab(z.tab, a, r))
  BY <1>5, <1>6, LeadsTrans
<1>8. Leads(x, IncrementNonce(z, b, a), CommitTab(NoOuter(x.tab, a), a, r))
  BY <1>1, <1>2, <1>5, <1>7 DEF Leads
<1> QED BY <1>8 DEF y, z

\* The start of a creation keeps the invariant.
LEMMA StartCreateInv == Inv /\ StartCreate => Inv'
BY GoodTx, CreateLeads, DoInv DEF StartCreate

\* With no snapshot outstanding nothing has to be replayed to a saved copy.
LEMMA NoMarksInv ==
  ASSUME Good(tx'), bs' \in BlockState, marks' = <<>>, saved' = <<>>, restoring' = FALSE,
         phase' \in {"closed", "open", "settling", "withdrawing"}
  PROVE  Inv'
<1>1. marks' \in Seq(Nat) /\ Len(marks') = 0 /\ Len(saved') = Len(marks')
  OBVIOUS
<1>2. 1 .. Len(marks') = {}
  BY <1>1
<1>3. (phase' = "message" <=> marks' # <<>>) /\ restoring' \in BOOLEAN /\ ~restoring'
  OBVIOUS
<1>4. phase' \in {"closed", "open", "message", "settling", "withdrawing"}
  OBVIOUS
<1>5. TypeOK'
  <2>1. \A i \in 1 .. Len(marks') : /\ marks'[i] <= Len(tx'.journal)
                                   /\ \A j \in 1 .. i : marks'[j] <= marks'[i]
    BY <1>2
  <2> QED BY <1>1, <1>3, <1>4, <2>1 DEF TypeOK, Good
<1>6. HistoryOK' /\ NoSharedTable'
  BY <1>2 DEF HistoryOK, NoSharedTable, Good
<1> QED BY <1>5, <1>6 DEF Inv

\* Outside a message no snapshot is outstanding and no rollback is running.
LEMMA NoMarks == Inv /\ phase # "message" => marks = <<>> /\ saved = <<>> /\ restoring = FALSE
<1> SUFFICES ASSUME Inv, phase # "message" PROVE marks = <<>> /\ saved = <<>> /\ restoring = FALSE
  OBVIOUS
<1>1. marks = <<>> /\ restoring = FALSE
  BY DEF Inv, TypeOK
<1>2. Len(saved) = 0
  BY <1>1 DEF Inv, TypeOK
<1> QED BY <1>1, <1>2

\* state_fresh_tx keeps the invariant.
LEMMA FreshInv == Inv /\ Fresh => Inv'
<1> SUFFICES ASSUME Inv, Fresh PROVE Inv'
  OBVIOUS
<1>1. marks = <<>> /\ saved = <<>> /\ restoring = FALSE
  BY NoMarks DEF Fresh
<1> QED BY <1>1, EmptyGood, GoodTx, NoMarksInv DEF Fresh

\* A withdrawal keeps the invariant, though it drops the journal: no snapshot is
\* outstanding.
LEMMA WithdrawInv == Inv /\ Withdraw => Inv'
<1> SUFFICES ASSUME Inv, Withdraw PROVE Inv'
  OBVIOUS
<1>1. marks = <<>> /\ saved = <<>> /\ restoring = FALSE
  BY NoMarks DEF Withdraw
<1>2. PICK a \in Addr, n \in Word :
        LET y == CreateEther(tx, bs, a, n)
        IN  tx' = IF y.stop # "no" THEN y ELSE [y EXCEPT !.journal = <<>>, !.hist = <<y.tab>>]
  BY DEF Withdraw
<1> DEFINE y == CreateEther(tx, bs, a, n)
           z == [y EXCEPT !.journal = <<>>, !.hist = <<y.tab>>]
<1>3. Good(y)
  BY GoodTx, CreateEtherLeads DEF Leads
<1>4. Good(z)
  <2> HIDE DEF y
  <2>1. y \in TxState /\ y.tab \in Tabs /\ OwnedTables(y.tab, y.nInner)
    BY <1>3, GoodFacts
  <2>2. <<y.tab>> \in Seq(Tabs) /\ <<>> \in Seq(Records)
    BY <2>1
  <2>3. z \in TxState /\ z.journal = <<>> /\ z.hist = <<y.tab>> /\ z.tab = y.tab /\ z.nInner = y.nInner
    BY <2>1, <2>2 DEF TxState
  <2> HIDE DEF z
  <2>4. Len(z.journal) = 0 /\ Len(z.hist) = 1 /\ z.hist[1] = y.tab
    BY <2>3
  <2>5. Replays(z)
    BY <2>3, <2>4 DEF Replays
  <2>6. Owned(z)
    BY <2>1, <2>3, <2>4 DEF Owned
  <2> QED BY <2>3, <2>4, <2>5, <2>6, TrackerAssumption DEF Good
<1>5. tx' \in {y, z}
  BY <1>2
<1> HIDE DEF y, z
<1>6. Good(tx')
  BY <1>3, <1>4, <1>5
<1>7. /\ bs' = bs /\ marks' = marks /\ saved' = saved /\ restoring' = restoring
      /\ phase' = "withdrawing"
  BY DEF Withdraw
<1> QED BY <1>1, <1>6, <1>7, GoodTx, NoMarksInv

\* merge_tx_into_block leaves a BlockState.
LEMMA MergeTyped ==
  ASSUME NEW b \in BlockState, NEW x, Good(x)
  PROVE  Merge(b, x) \in BlockState
<1>1. /\ x.tab.acct \in Accts /\ x.tab.code \in Codes
      /\ x.acctReads \in SUBSET Addr /\ x.storReads \in SUBSET (Addr \X Slot)
      /\ x.tab.stor \in Outers /\ x.tab.inner \in Inners
  BY DEF Good, TxState, Tabs
<1>2. Override(b.acct, x.tab.acct) \in [Addr -> Account \cup {None, Absent}]
  BY <1>1 DEF BlockState, Override, Accts
<1>3. Override(b.code, x.tab.code) \in [CodeHash -> CodeHash \cup {Absent}]
  BY <1>1 DEF BlockState, Override, Codes
<1>4. ASSUME NEW a \in Addr
      PROVE  Override(b.stor[a], SlotsOf(x.tab, a)) \in [Slot -> Word \cup {Absent}]
  <2>1. b.stor[a] \in [Slot -> Word \cup {Absent}]
    BY DEF BlockState
  <2>2. \A k \in Slot : SlotsOf(x.tab, a)[k] \in Word \cup {Absent}
    <3>1. CASE x.tab.stor[a] = Absent
      BY <3>1 DEF SlotsOf
    <3>2. CASE x.tab.stor[a] # Absent
      BY <1>1, <3>2 DEF SlotsOf, Outers, Inners
    <3> QED BY <3>1, <3>2
  <2> QED BY <2>1, <2>2 DEF Override
<1>5. b.acctReads \cup x.acctReads \in SUBSET Addr
  BY <1>1 DEF BlockState
<1>6. b.storReads \cup x.storReads \in SUBSET (Addr \X Slot)
  BY <1>1 DEF BlockState
<1> QED BY <1>2, <1>3, <1>4, <1>5, <1>6 DEF Merge, BlockState

\* The merge keeps the invariant.
LEMMA IncorporateInv == Inv /\ Incorporate => Inv'
<1> SUFFICES ASSUME Inv, Incorporate PROVE Inv'
  OBVIOUS
<1>1. marks = <<>> /\ saved = <<>> /\ restoring = FALSE
  BY NoMarks DEF Incorporate
<1>2. Good(tx') /\ bs' \in BlockState
  BY GoodTx, MergeTyped DEF Incorporate
<1> QED BY <1>1, <1>2, NoMarksInv DEF Incorporate

\* The elements of a sequence with one more.
LEMMA AppendFacts ==
  ASSUME NEW S, NEW s \in Seq(S), NEW e \in S, NEW n \in Nat, Len(s) = n
  PROVE  /\ Append(s, e) \in Seq(S) /\ Len(Append(s, e)) = n + 1
         /\ \A i \in 1 .. n : Append(s, e)[i] = s[i]
         /\ Append(s, e)[n + 1] = e
OBVIOUS

\* state_snapshot keeps the invariant: the maps saved are those the history has
\* at the journal's length.
LEMMA SnapshotInv == Inv /\ Snapshot => Inv'
<1> SUFFICES ASSUME Inv, Snapshot PROVE Inv'
  OBVIOUS
<1> DEFINE e == Len(tx.journal)
<1>1. /\ marks' = Append(marks, e) /\ saved' = Append(saved, View(tx.tab))
      /\ phase' = "message" /\ tx' = tx /\ bs' = bs /\ restoring' = restoring
      /\ restoring = FALSE
  BY DEF Snapshot, Running, Inv, TypeOK
<1>2. PICK n \in Nat : n = Len(marks)
  BY DEF Inv, TypeOK
<1>3. e \in Nat /\ marks \in Seq(Nat)
  BY DEF Inv, TypeOK, TxState
<1>4. /\ marks' \in Seq(Nat) /\ Len(marks') = n + 1 /\ marks'[n + 1] = e
      /\ \A i \in 1 .. n : marks'[i] = marks[i]
  BY <1>1, <1>2, <1>3, AppendFacts
<1>5. /\ Len(saved') = n + 1 /\ saved'[n + 1] = View(tx.tab)
      /\ \A i \in 1 .. n : saved'[i] = saved[i]
  BY <1>1, <1>2 DEF Inv, TypeOK
<1> HIDE DEF e
<1>6. \A i \in 1 .. n + 1 : i = n + 1 \/ i \in 1 .. n
  OBVIOUS
<1>7. \A i \in 1 .. n + 1 : marks'[i] <= e
  BY <1>2, <1>3, <1>4, <1>6, SMTT(60) DEF Inv, TypeOK, e
<1>8. TypeOK'
  <2>1. \A i \in 1 .. n + 1 : \A j \in 1 .. i : marks'[j] <= marks'[i]
    <3> SUFFICES ASSUME NEW i \in 1 .. n + 1, NEW j \in 1 .. i PROVE marks'[j] <= marks'[i]
      OBVIOUS
    <3>1. CASE i = n + 1
      BY <3>1, <1>4, <1>7
    <3>2. CASE i \in 1 .. n
      <4>1. j \in 1 .. n
        BY <3>2
      <4>2. marks[j] <= marks[i]
        BY <1>2, <3>2 DEF Inv, TypeOK
      <4> QED BY <1>4, <3>2, <4>1, <4>2
    <3> QED BY <1>6, <3>1, <3>2
  <2>2. marks' # <<>>
    BY <1>4
  <2> QED BY <1>1, <1>4, <1>5, <1>7, <2>1, <2>2 DEF Inv, TypeOK, e
<1>9. \A i \in 1 .. n + 1 : View(tx.hist[marks'[i] + 1]) = saved'[i]
  <2> SUFFICES ASSUME NEW i \in 1 .. n + 1 PROVE View(tx.hist[marks'[i] + 1]) = saved'[i]
    OBVIOUS
  <2>1. CASE i = n + 1
    <3>1. tx.hist[e + 1] = tx.tab
      BY DEF Inv, HistoryOK, Replays, e
    <3> QED BY <1>4, <1>5, <2>1, <3>1
  <2>2. CASE i \in 1 .. n
    BY <1>2, <1>4, <1>5, <2>2 DEF Inv, HistoryOK
  <2> QED BY <1>6, <2>1, <2>2
<1>10. HistoryOK' /\ NoSharedTable'
  BY <1>1, <1>4, <1>9 DEF Inv, HistoryOK, NoSharedTable
<1> QED BY <1>8, <1>10 DEF Inv

\* A frame that succeeds keeps the invariant.
LEMMA KeepInv == Inv /\ Keep => Inv'
<1>1. Inv /\ Keep => marks # <<>> /\ restoring' = FALSE
  BY DEF Keep, Running, Inv, TypeOK
<1> QED BY <1>1, PopInv DEF Keep

\* The start of a rollback keeps the invariant.
LEMMA BeginRestoreInv == Inv /\ BeginRestore => Inv'
BY DEF BeginRestore, Running, Inv, TypeOK, HistoryOK, Replays, NoSharedTable, Owned, OwnedTables

\* The end of a rollback keeps the invariant.
LEMMA EndRestoreInv == Inv /\ EndRestore => Inv'
<1>1. Inv /\ EndRestore => marks # <<>> /\ phase = "message"
  BY DEF EndRestore, Inv, TypeOK
<1> QED BY <1>1, PopInv DEF EndRestore

\* A step that changes nothing keeps the invariant.
LEMMA StutterInv == Inv /\ UNCHANGED vars => Inv'
BY DEF vars, Inv, TypeOK, HistoryOK, Replays, NoSharedTable, Owned, OwnedTables

\* Every step keeps the invariant.
LEMMA NextInv == Inv /\ [Next]_vars => Inv'
BY FreshInv, ReadAccountInv, ReadStorageInv, WriteStorageInv, WriteTransientInv, TransferInv,
   DebitInv, CreditInv, BumpNonceInv, InstallCodeInv, ClearInv, StartCreateInv, WithdrawInv,
   SnapshotInv, KeepInv, BeginRestoreInv, UndoInv, EndRestoreInv, IncorporateInv, StutterInv
   DEF Next
-----------------------------------------------------------------------------
(***************************************************************************)
(* The theorems.                                                           *)
(***************************************************************************)

\* The invariant above holds of every behaviour of the tracker.
THEOREM Invariance == Spec => []Inv
<1>1. Init => Inv
  BY InvInit
<1>2. Inv /\ [Next]_vars => Inv'
  BY NextInv
<1> QED BY <1>1, <1>2, PTL DEF Spec

\* Whatever state.pnk does to its maps, every binding is of the kind its map
\* holds, and no snapshot handle lies beyond the end of the journal.
THEOREM TypeCorrect == Spec => []TypeOK
<1>1. Inv => TypeOK
  BY DEF Inv
<1> QED BY <1>1, Invariance, PTL

\* The undo records of state_jset and state_jdel always lead back to the maps
\* as they were when each outstanding snapshot was taken.
THEOREM HistoryCorrect == Spec => []HistoryOK
<1>1. Inv => HistoryOK
  BY DEF Inv
<1> QED BY <1>1, Invariance, PTL

\* No inner table set_storage allocates ever serves two addresses, whatever
\* destroy_storage drops and state_restore brings back.
THEOREM TablesNotShared == Spec => []NoSharedTable
<1>1. Inv => NoSharedTable
  BY DEF Inv
<1> QED BY <1>1, Invariance, PTL

\* Under the invariant, the loop of state_restore stops at the saved maps.
LEMMA InvRollback == Inv => RollbackExact
<1> SUFFICES ASSUME Inv, restoring, Len(tx.journal) <= Last(marks)
             PROVE  View(tx.tab) = Last(saved)
  BY DEF RollbackExact
<1>1. PICK n \in Nat : n = Len(marks)
  BY DEF Inv, TypeOK
<1>2. n \in 1 .. n /\ Len(saved) = n /\ marks \in Seq(Nat) /\ Len(tx.journal) \in Nat
  BY <1>1 DEF Inv, TypeOK, TxState
<1>3. Len(tx.journal) = marks[n]
  BY <1>1, <1>2 DEF Inv, TypeOK, Last
<1>4. tx.hist[marks[n] + 1] = tx.tab
  BY <1>3 DEF Inv, HistoryOK, Replays
<1>5. View(tx.hist[marks[n] + 1]) = saved[n]
  BY <1>1, <1>2 DEF Inv, HistoryOK
<1> QED BY <1>2, <1>4, <1>5 DEF Last

\* When the loop of state_restore ends, the maps are those of the snapshot.
THEOREM RollbackCorrect == Spec => []RollbackExact
BY InvRollback, Invariance, PTL
-----------------------------------------------------------------------------
(***************************************************************************)
(* Accounts and codes.  Between two calls of the tracker an account with   *)
(* slots exists and the code of every account is recorded somewhere; so it *)
(* was at every length of the journal an outstanding snapshot recorded,    *)
(* which is what makes it survive state_restore.                           *)
(***************************************************************************)

\* The account of a as the tables tab show it over the block layer b.
AcctIn(tab, b, a) == IF tab.acct[a] # Absent THEN tab.acct[a] ELSE PreTxAccount(b, a)

\* A code hash of the witness, or one whose code was recorded since.
Known(tab, b, h) ==
  \/ h \in PreCode \cup {EmptyCode} \cup {OrEmpty(PreAcct[a]).code : a \in Addr}
  \/ tab.code[h] # Absent
  \/ b.code[h] # Absent

Sound(tab, b) ==
  /\ \A a \in Addr : tab.stor[a] # Absent => AcctIn(tab, b, a) # None
  /\ \A a \in Addr : Known(tab, b, OrEmpty(AcctIn(tab, b, a)).code)

\* Committing an account whose code is known keeps the tables sound: one left
\* empty is deleted together with its storage.
LEMMA CommitTabSound ==
  ASSUME NEW t \in Tabs, NEW b \in BlockState, Sound(t, b),
         NEW a \in Addr, NEW r \in Account, Known(t, b, r.code)
  PROVE  Sound(CommitTab(t, a, r), b)
<1> DEFINE u == CommitTab(t, a, r)
           v == NoOuter(t, a)
<1>1. CASE r = EmptyAccount
  <2>1. v \in Tabs /\ v.stor = [t.stor EXCEPT ![a] = Absent] /\ v.acct = t.acct /\ v.code = t.code
    BY NoOuterFacts
  <2> HIDE DEF v
  <2>2. u = WithAcct(v, a, None)
    BY <1>1 DEF CommitTab, v
  <2>3. u.acct = [v.acct EXCEPT ![a] = None] /\ u.stor = v.stor /\ u.code = v.code
    BY <2>1, <2>2, WithAcctFacts, SMTT(60)
  <2> HIDE DEF u
  <2>4. \A c \in Addr : /\ u.stor[c] = IF c = a THEN Absent ELSE t.stor[c]
                        /\ u.acct[c] = IF c = a THEN None ELSE t.acct[c]
    BY <2>1, <2>3 DEF Tabs, Accts, Outers
  <2>5. OrEmpty(None).code = EmptyCode /\ None # Absent
    BY TrackerAssumption DEF OrEmpty, EmptyAccount
  <2>6. \A c \in Addr : AcctIn(u, b, c) = IF c = a THEN None ELSE AcctIn(t, b, c)
    BY <2>4, <2>5 DEF AcctIn
  <2>7. \A c \in Addr : u.stor[c] # Absent => AcctIn(u, b, c) # None
    BY <2>4, <2>6 DEF Sound
  <2>8. \A c \in Addr : Known(u, b, OrEmpty(AcctIn(u, b, c)).code)
    BY <2>1, <2>3, <2>5, <2>6 DEF Sound, Known
  <2> QED BY <2>7, <2>8 DEF Sound, u
<1>2. CASE r # EmptyAccount
  <2>1. u.acct = [t.acct EXCEPT ![a] = r] /\ u.stor = t.stor /\ u.code = t.code
    BY <1>2, WithAcctFacts DEF CommitTab
  <2> HIDE DEF u
  <2>2. \A c \in Addr : u.acct[c] = IF c = a THEN r ELSE t.acct[c]
    BY <2>1 DEF Tabs, Accts
  <2>3. r # Absent /\ r # None
    BY TrackerAssumption
  <2>4. \A c \in Addr : AcctIn(u, b, c) = IF c = a THEN r ELSE AcctIn(t, b, c)
    BY <2>2, <2>3 DEF AcctIn
  <2>5. \A c \in Addr : u.stor[c] # Absent => AcctIn(u, b, c) # None
    BY <2>1, <2>3, <2>4 DEF Sound
  <2>6. \A c \in Addr : Known(u, b, OrEmpty(AcctIn(u, b, c)).code)
    BY <2>1, <2>3, <2>4 DEF Sound, Known, OrEmpty
  <2> QED BY <2>5, <2>6 DEF Sound, u
<1> QED BY <1>1, <1>2

\* Dropping the storage of an address keeps the tables sound.
LEMMA NoOuterSound ==
  ASSUME NEW t \in Tabs, NEW b, Sound(t, b), NEW a \in Addr
  PROVE  Sound(NoOuter(t, a), b)
<1> DEFINE v == NoOuter(t, a)
<1>1. v.stor = [t.stor EXCEPT ![a] = Absent] /\ v.acct = t.acct /\ v.code = t.code
  BY NoOuterFacts
<1> HIDE DEF v
<1>2. \A c \in Addr : v.stor[c] = IF c = a THEN Absent ELSE t.stor[c]
  BY <1>1 DEF Tabs, Outers
<1>3. \A c \in Addr : AcctIn(v, b, c) = AcctIn(t, b, c)
  BY <1>1 DEF AcctIn
<1> QED BY <1>1, <1>2, <1>3 DEF Sound, Known, v

\* Tables with the same accounts and outer bindings and at least the codes.
LEMMA SameSound ==
  ASSUME NEW t, NEW u, NEW b, Sound(t, b), u.acct = t.acct, u.stor = t.stor,
         \A h \in CodeHash : t.code[h] # Absent => u.code[h] # Absent,
         \A a \in Addr : OrEmpty(AcctIn(t, b, a)).code \in CodeHash
  PROVE  Sound(u, b)
BY DEF Sound, Known, AcctIn

\* What has to hold between two calls, unless the guest has stopped.
Standing(x, b) == x.stop = "no" => Sound(x.tab, b)

\* get_account returns a known code.
LEMMA GotKnown ==
  ASSUME NEW x, Good(x), NEW b, Sound(x.tab, b), NEW a \in Addr
  PROVE  Known(x.tab, b, Got(x, b, a).code)
BY DEF Sound, Got, AccountOf, AcctIn

\* Committing an account of known code.
LEMMA CommitStanding ==
  ASSUME NEW x, Good(x), NEW b \in BlockState, NEW a \in Addr, NEW r \in Account,
         x.stop = "no" => Sound(x.tab, b) /\ Known(x.tab, b, r.code)
  PROVE  Good(Commit(x, a, r)) /\ Standing(Commit(x, a, r), b)
<1> DEFINE y == Commit(x, a, r)
<1>1. Leads(x, y, CommitTab(x.tab, a, r))
  BY CommitLeads
<1> HIDE DEF y
<1>2. y.stop = "no" => Sound(y.tab, b)
  BY <1>1, GoodFacts, CommitTabSound DEF Leads
<1> QED BY <1>1, <1>2 DEF Leads, Standing, y

\* The calls that change one field of an account and keep its code.
LEMMA KeptCode ==
  ASSUME NEW x, Good(x), NEW b \in BlockState, Standing(x, b), NEW a \in Addr, NEW r \in Account,
         r.code = Got(x, b, a).code
  PROVE  Good(Commit(x, a, r)) /\ Standing(Commit(x, a, r), b)
BY GotKnown, CommitStanding DEF Standing

\* create_ether.
LEMMA CreateEtherStanding ==
  ASSUME NEW x, Good(x), NEW b \in BlockState, Standing(x, b), NEW a \in Addr, NEW n \in Word
  PROVE  Good(CreateEther(x, b, a, n)) /\ Standing(CreateEther(x, b, a, n), b)
<1> DEFINE g == Got(x, b, a)
           r == [g EXCEPT !.balance = (@ + n) % WordMod]
<1>1. g \in Account
  BY GotTyped
<1> HIDE DEF g
<1>2. r \in Account /\ r.code = g.code
  BY <1>1, ChangedTyped, TrackerAssumption DEF Account
<1> HIDE DEF r
<1>3. CreateEther(x, b, a, n) = Commit(x, a, r)
  BY DEF CreateEther, r, g
<1> QED BY <1>2, <1>3, KeptCode DEF g

\* set_account_balance.
LEMMA SetBalanceStanding ==
  ASSUME NEW x, Good(x), NEW b \in BlockState, Standing(x, b), NEW a \in Addr, NEW n \in Word
  PROVE  Good(SetBalance(x, b, a, n)) /\ Standing(SetBalance(x, b, a, n), b)
<1> DEFINE g == Got(x, b, a)
           r == [g EXCEPT !.balance = n]
<1>1. g \in Account
  BY GotTyped
<1> HIDE DEF g
<1>2. r \in Account /\ r.code = g.code
  BY <1>1, ChangedTyped, TrackerAssumption DEF Account
<1> HIDE DEF r
<1>3. SetBalance(x, b, a, n) = Commit(x, a, r)
  BY DEF SetBalance, r, g
<1> QED BY <1>2, <1>3, KeptCode DEF g

\* increment_nonce.
LEMMA IncrementNonceStanding ==
  ASSUME NEW x, Good(x), NEW b \in BlockState, Standing(x, b), NEW a \in Addr,
         Got(x, b, a).nonce < MaxNonce
  PROVE  Good(IncrementNonce(x, b, a)) /\ Standing(IncrementNonce(x, b, a), b)
<1> DEFINE g == Got(x, b, a)
           r == [g EXCEPT !.nonce = @ + 1]
<1>1. g \in Account /\ 0 \in Word /\ g.nonce < MaxNonce
  BY GotTyped, TrackerAssumption DEF Word
<1> HIDE DEF g
<1>2. r \in Account /\ r.code = g.code
  BY <1>1, ChangedTyped, TrackerAssumption DEF Account
<1> HIDE DEF r
<1>3. IncrementNonce(x, b, a) = Commit(x, a, r)
  BY DEF IncrementNonce, r, g
<1> QED BY <1>2, <1>3, KeptCode DEF g

\* move_ether commits the sender, then the recipient.
LEMMA MoveEtherStanding ==
  ASSUME NEW x, Good(x), NEW b \in BlockState, Standing(x, b),
         NEW s \in Addr, NEW t \in Addr, NEW n \in Word
  PROVE  Standing(MoveEther(x, b, s, t, n), b)
<1> DEFINE g == Got(x, b, s)
           q == [g EXCEPT !.balance = @ - n]
           y == Commit(x, s, q)
<1>1. g \in Account
  BY GotTyped
<1>2. CASE g.balance < n
  <2>1. MoveEther(x, b, s, t, n).stop = "err4"
    BY <1>2, ReadAcctLeads DEF MoveEther, Leads, Good, TxState
  <2> QED BY <2>1 DEF Standing
<1>3. CASE ~(g.balance < n)
  <2>1. n <= g.balance
    BY <1>1, <1>3, TrackerAssumption DEF Account, Word
  <2>2. MoveEther(x, b, s, t, n) = CreateEther(y, b, t, n)
    BY <1>3 DEF MoveEther
  <2> HIDE DEF g
  <2>3. q \in Account /\ q.code = g.code
    BY <1>1, <2>1, ChangedTyped, TrackerAssumption DEF Account
  <2> HIDE DEF q
  <2>4. Good(y) /\ Standing(y, b)
    BY <2>3, KeptCode DEF g
  <2> HIDE DEF y
  <2> QED BY <2>2, <2>4, CreateEtherStanding
<1> QED BY <1>2, <1>3

\* destroy_storage.
LEMMA DestroyStorageStanding ==
  ASSUME NEW x, Good(x), NEW b \in BlockState, Standing(x, b), NEW a \in Addr
  PROVE  Good(DestroyStorage(x, a)) /\ Standing(DestroyStorage(x, a), b)
BY GoodFacts, DestroyStorageLeads, NoOuterSound DEF Leads, Standing

\* clear_account_preserving_balance leaves the empty code.
LEMMA ClearStanding ==
  ASSUME NEW x, Good(x), NEW b \in BlockState, Standing(x, b), NEW a \in Addr
  PROVE  Standing(ClearPreservingBalance(x, b, a), b)
<1> DEFINE g == Got(x, b, a)
           r == [g EXCEPT !.nonce = 0, !.code = EmptyCode]
           y == DestroyStorage(x, a)
<1>1. g \in Account /\ 0 \in Word
  BY GotTyped, TrackerAssumption DEF Word
<1>2. Good(y) /\ Standing(y, b)
  BY DestroyStorageStanding
<1>3. ClearPreservingBalance(x, b, a) = Commit(y, a, r)
  BY DEF ClearPreservingBalance
<1> HIDE DEF g, y
<1>4. r \in Account /\ r.code = EmptyCode
  BY <1>1, ChangedTyped, TrackerAssumption DEF Account
<1> HIDE DEF r
<1>5. Known(y.tab, b, r.code)
  BY <1>4 DEF Known
<1> QED BY <1>2, <1>3, <1>4, <1>5, CommitStanding DEF Standing

\* The start of a creation.
LEMMA CreateStanding ==
  ASSUME NEW x, Good(x), NEW b \in BlockState, Standing(x, b), NEW a \in Addr,
         Got(x, b, a).nonce < MaxNonce
  PROVE  Standing(IncrementNonce(MarkCreated(DestroyStorage(x, a), a), b, a), b)
<1> DEFINE y == DestroyStorage(x, a)
           z == MarkCreated(y, a)
<1>1. Good(y) /\ Standing(y, b) /\ y.tab.acct = x.tab.acct
  BY DestroyStorageStanding, DestroyStorageAcct
<1> HIDE DEF y
<1>2. Leads(y, z, y.tab) /\ z.tab = y.tab
  BY <1>1, MarkCreatedLeads
<1> HIDE DEF z
<1>3. Good(z) /\ Standing(z, b)
  BY <1>1, <1>2 DEF Leads, Standing
<1>4. Got(z, b, a) = Got(x, b, a)
  BY <1>1, <1>2 DEF Got, AccountOf
<1> QED BY <1>3, <1>4, IncrementNonceStanding DEF y, z

\* set_code records the code before the account that needs it.
LEMMA SetCodeStanding ==
  ASSUME NEW x, Good(x), NEW b \in BlockState, Standing(x, b), NEW a \in Addr, NEW h \in CodeHash
  PROVE  Standing(SetCode(x, b, a, h), b)
<1> DEFINE y == IF h = EmptyCode THEN x ELSE JSet(x, "code", h, h)
           t == IF h = EmptyCode THEN x.tab ELSE Rebind(x.tab, "code", h, h)
           g == Got(x, b, a)
           r == [g EXCEPT !.code = h]
           q == <<"code", h, h>>
<1>1. Leads(x, y, t)
  <2>1. q \in Records /\ q[1] = "code" /\ q[2] = h /\ q[3] = h
    BY DEF Records
  <2>2. Leads(x, JSet(x, "code", h, h), Rebind(x.tab, "code", h, h))
    BY <2>1, JSetLeads, SafeOwned DEF Safe
  <2>3. Leads(x, x, x.tab)
    BY GoodFacts, TrackerAssumption, SameTables
  <2> QED BY <2>2, <2>3
<1>2. g \in Account /\ 0 \in Word
  BY GotTyped, TrackerAssumption DEF Word
<1>3. SetCode(x, b, a, h) = Commit(y, a, r)
  BY DEF SetCode
<1>4. /\ t.acct = x.tab.acct /\ t.stor = x.tab.stor
      /\ \A c \in CodeHash : x.tab.code[c] # Absent => t.code[c] # Absent
      /\ h = EmptyCode \/ t.code[h] # Absent
  <2>1. x.tab \in Tabs /\ h # Absent
    BY GoodFacts, TrackerAssumption
  <2>2. CASE h = EmptyCode
    BY <2>2
  <2>3. CASE h # EmptyCode
    <3>1. /\ t.acct = x.tab.acct /\ t.stor = x.tab.stor
          /\ t.code = [x.tab.code EXCEPT ![h] = h]
      BY <2>1, <2>3 DEF Rebind, Tabs
    <3> HIDE DEF t
    <3>2. \A c \in CodeHash : t.code[c] = IF c = h THEN h ELSE x.tab.code[c]
      BY <2>1, <3>1 DEF Tabs, Codes
    <3> QED BY <2>1, <3>1, <3>2
  <2> QED BY <2>2, <2>3
<1> HIDE DEF g, y, t
<1>5. r \in Account /\ r.code = h
  BY <1>2, ChangedTyped DEF Account
<1> HIDE DEF r
<1>6. x.stop = "no" => Sound(t, b)
  <2>1. \A c \in Addr : AcctIn(t, b, c) = AcctIn(x.tab, b, c)
    BY <1>4 DEF AcctIn
  <2>2. \A c \in Addr : OrEmpty(AcctIn(x.tab, b, c)).code \in CodeHash
    BY GotTyped DEF Got, AccountOf, AcctIn, Account
  <2> QED BY <1>4, <2>2, SameSound DEF Standing
<1>7. y.stop = "no" => Sound(y.tab, b) /\ Known(y.tab, b, r.code)
  BY <1>1, <1>4, <1>5, <1>6 DEF Leads, Known
<1> QED BY <1>1, <1>3, <1>5, <1>7, CommitStanding DEF Leads

\* set_storage writes at accounts that exist, or throws StateErr.
LEMMA SetStorageStanding ==
  ASSUME NEW x, Good(x), NEW b \in BlockState, Standing(x, b),
         x.stop = "no", NEW a \in Addr, NEW k \in Slot, NEW v \in Word
  PROVE  Standing(SetStorage(x, b, a, k, v), b)
<1> DEFINE y == SetStorage(x, b, a, k, v)
           n == x.nInner + 1
<1>1. x.tab \in Tabs /\ x.nInner \in Nat /\ MaxInner \in Nat /\ Sound(x.tab, b)
  BY GoodFacts, TrackerAssumption DEF Standing
<1>2. Leads(x, y, SlotTab(x, a, k, v))
  BY SetStorageLeads
<1>3. CASE AccountOf(x, b, a) = None
  <2>1. y.stop = "err3"
    BY <1>3, ReadAcctLeads DEF SetStorage, Leads, Good, TxState
  <2> QED BY <2>1 DEF Standing
<1>4. CASE AccountOf(x, b, a) # None
  <2>1. AcctIn(x.tab, b, a) # None
    BY <1>4 DEF AccountOf, AcctIn
  <2>2. LET u == SlotTab(x, a, k, v)
        IN  /\ u.acct = x.tab.acct /\ u.code = x.tab.code
            /\ \A c \in Addr : c # a => u.stor[c] = x.tab.stor[c]
    <3>1. CASE x.tab.stor[a] # Absent
      BY <1>1, <3>1 DEF SlotTab, Rebind, Tabs
    <3>2. CASE x.tab.stor[a] = Absent
      <4> DEFINE s == Rebind(x.tab, "stor", a, n)
                 u == Rebind(s, "inner", <<n, k>>, v)
      <4>1. s.acct = x.tab.acct /\ s.code = x.tab.code /\ s.stor = [x.tab.stor EXCEPT ![a] = n]
        BY <1>1 DEF Rebind, Tabs
      <4>2. u.acct = s.acct /\ u.code = s.code /\ u.stor = s.stor
        BY <1>1 DEF Rebind, Tabs
      <4>3. SlotTab(x, a, k, v) = u
        BY <3>2 DEF SlotTab
      <4> HIDE DEF s, u
      <4>4. \A c \in Addr : c # a => s.stor[c] = x.tab.stor[c]
        BY <1>1, <4>1 DEF Tabs, Outers
      <4> QED BY <4>1, <4>2, <4>3, <4>4
    <3> QED BY <3>1, <3>2
  <2>3. Sound(SlotTab(x, a, k, v), b)
    <3> DEFINE u == SlotTab(x, a, k, v)
    <3> HIDE DEF u
    <3>1. /\ u.acct = x.tab.acct /\ u.code = x.tab.code
          /\ \A c \in Addr : c # a => u.stor[c] = x.tab.stor[c]
      BY <2>2 DEF u
    <3>2. \A c \in Addr : AcctIn(u, b, c) = AcctIn(x.tab, b, c)
      BY <3>1 DEF AcctIn
    <3> QED BY <1>1, <2>1, <3>1, <3>2 DEF Sound, Known, u
  <2> QED BY <1>2, <2>3 DEF Leads, Standing
<1> QED BY <1>3, <1>4

\* op_sstore, with the read before it.
LEMMA StoreStanding ==
  ASSUME NEW x, Good(x), NEW b \in BlockState, Standing(x, b),
         x.stop = "no", NEW a \in Addr, NEW k \in Slot, NEW v \in Word
  PROVE  Standing(SetStorage(Sload(x, a, k), b, a, k, v), b)
<1> DEFINE y == Sload(x, a, k)
<1>1. Leads(x, y, x.tab) /\ y.tab = x.tab
  BY SloadLeads
<1>2. y.stop = "no"
  BY GoodFacts DEF Sload, TxState
<1> HIDE DEF y
<1>3. Good(y) /\ Standing(y, b)
  BY <1>1 DEF Leads, Standing
<1> QED BY <1>2, <1>3, SetStorageStanding DEF y

\* A transient slot is no account and no code.
LEMMA SetTransientStanding ==
  ASSUME NEW x, Good(x), NEW b \in BlockState, Standing(x, b),
         NEW a \in Addr, NEW k \in Slot, NEW v \in Word
  PROVE  Standing(SetTransient(x, a, k, v), b)
<1> DEFINE u == TranTab(x.tab, a, k, v)
<1>1. Leads(x, SetTransient(x, a, k, v), u)
  BY SetTransientLeads
<1>2. u.acct = x.tab.acct /\ u.stor = x.tab.stor /\ u.code = x.tab.code
  BY GoodFacts DEF TranTab, Rebind, Tabs
<1> HIDE DEF u
<1>3. Sound(x.tab, b) => Sound(u, b)
  BY <1>2 DEF Sound, Known, AcctIn
<1> QED BY <1>1, <1>3 DEF Leads, Standing

\* The invariant: the maps are sound between two calls and at every length of
\* the journal a rollback may return to, and so is what the next scope reads.
StandInv ==
  /\ Inv
  /\ Running => Sound(tx.tab, bs)
  /\ \A i \in 1 .. Len(marks) : Sound(tx.hist[marks[i] + 1], bs)
  /\ Sound(EmptyTab, bs)

\* The invariant holds before the first scope.
LEMMA StandInit == Init => StandInv
<1> SUFFICES ASSUME Init PROVE StandInv
  OBVIOUS
<1>1. Inv /\ tx = FreshTx /\ bs = FreshBlock /\ marks = <<>>
  BY InvInit DEF Init
<1>2. \A a \in Addr : EmptyTab.stor[a] = Absent /\ AcctIn(EmptyTab, bs, a) = PreAcct[a]
  BY <1>1 DEF EmptyTab, AcctIn, PreTxAccount, FreshBlock
<1>3. Sound(EmptyTab, bs)
  BY <1>2 DEF Sound, Known
<1>4. tx.tab = EmptyTab /\ 1 .. Len(marks) = {}
  BY <1>1 DEF FreshTx
<1> QED BY <1>1, <1>3, <1>4 DEF StandInv

\* A call of the tracker under a phase.
LEMMA DoStanding ==
  ASSUME StandInv, NEW p, NEW y, Do(p, y), NEW t, Leads(tx, y, t), Standing(y, bs)
  PROVE  StandInv'
<1>1. /\ tx' = y /\ bs' = bs /\ marks' = marks /\ restoring' = restoring
      /\ Inv /\ tx \in TxState /\ Len(tx.journal) \in Nat /\ marks \in Seq(Nat)
  BY DEF Do, StandInv, Inv, TypeOK, TxState
<1>2. Inv'
  BY DoInv DEF StandInv
<1>3. Running' => Sound(tx'.tab, bs')
  BY <1>1 DEF Running, Standing
<1>4. ASSUME NEW i \in 1 .. Len(marks)
      PROVE  Sound(tx'.hist[marks[i] + 1], bs)
  <2>1. marks[i] \in Nat /\ marks[i] <= Len(tx.journal)
    BY <1>1 DEF Inv, TypeOK
  <2>2. marks[i] + 1 \in 1 .. Len(tx.journal) + 1
    BY <1>1, <2>1
  <2>3. tx'.hist[marks[i] + 1] = tx.hist[marks[i] + 1]
    BY <1>1, <2>2 DEF Leads, Extends
  <2> QED BY <2>3 DEF StandInv
<1> QED BY <1>1, <1>2, <1>3, <1>4 DEF StandInv

\* A call is made on sound maps.
LEMMA NowStanding ==
  ASSUME StandInv
  PROVE  Good(tx) /\ bs \in BlockState /\ (Running => Standing(tx, bs))
BY GoodTx DEF StandInv, Standing

\* Every call the phases make keeps the maps sound.
LEMMA CallStanding ==
  ASSUME StandInv,
         \/ ReadAccount \/ ReadStorage \/ WriteStorage \/ WriteTransient
         \/ Transfer \/ Debit \/ Credit \/ BumpNonce \/ InstallCode \/ Clear \/ StartCreate
  PROVE  StandInv'
<1> USE NowStanding
<1>1. CASE ReadAccount
  <2>1. PICK a \in Addr : Do("message", ReadAcct(tx, a))
    BY <1>1 DEF ReadAccount
  <2>2. Leads(tx, ReadAcct(tx, a), tx.tab) /\ ReadAcct(tx, a).tab = tx.tab
    BY ReadAcctLeads
  <2> QED BY <2>1, <2>2, DoStanding DEF Do, Standing, Leads
<1>2. CASE ReadStorage
  <2>1. PICK a \in Addr, k \in Slot : Do("message", Sload(tx, a, k))
    BY <1>2 DEF ReadStorage
  <2>2. Leads(tx, Sload(tx, a, k), tx.tab) /\ Sload(tx, a, k).tab = tx.tab
    BY SloadLeads
  <2> QED BY <2>1, <2>2, DoStanding DEF Do, Standing, Leads
<1>3. CASE WriteStorage
  <2>1. PICK a \in Addr, k \in Slot, v \in Word :
          Do("message", SetStorage(Sload(tx, a, k), bs, a, k, v))
    BY <1>3 DEF WriteStorage
  <2>2. Running /\ tx.stop = "no"
    BY <2>1 DEF Do, Running
  <2> QED BY <2>1, <2>2, StoreLeads, StoreStanding, DoStanding
<1>4. CASE WriteTransient
  <2>1. PICK a \in Addr, k \in Slot, v \in Word : Do("message", SetTransient(tx, a, k, v))
    BY <1>4 DEF WriteTransient
  <2>2. Running
    BY <2>1 DEF Do
  <2> QED BY <2>1, <2>2, SetTransientLeads, SetTransientStanding, DoStanding
<1>5. CASE Transfer
  <2>1. PICK s \in Addr, r \in Addr, n \in Word : Do("message", MoveEther(tx, bs, s, r, n))
    BY <1>5 DEF Transfer
  <2>2. Running
    BY <2>1 DEF Do
  <2> QED BY <2>1, <2>2, MoveEtherLeads, MoveEtherStanding, DoStanding
<1>6. CASE Debit
  <2>1. PICK a \in Addr, n \in Word : Do("open", SetBalance(tx, bs, a, n))
    BY <1>6 DEF Debit
  <2>2. Running
    BY <2>1 DEF Do
  <2> QED BY <2>1, <2>2, SetBalanceLeads, SetBalanceStanding, DoStanding
<1>7. CASE Credit
  <2>1. PICK a \in Addr, n \in Word : Do("settling", CreateEther(tx, bs, a, n))
    BY <1>7 DEF Credit
  <2>2. Running
    BY <2>1 DEF Do
  <2> QED BY <2>1, <2>2, CreateEtherLeads, CreateEtherStanding, DoStanding
<1>8. CASE BumpNonce
  <2>1. PICK p \in {"open", "message"}, a \in Addr :
          Got(tx, bs, a).nonce < MaxNonce /\ Do(p, IncrementNonce(tx, bs, a))
    BY <1>8 DEF BumpNonce, TakeNonce
  <2>2. Running
    BY <2>1 DEF Do
  <2> QED BY <2>1, <2>2, IncrementNonceLeads, IncrementNonceStanding, DoStanding
<1>9. CASE InstallCode
  <2>1. PICK a \in Addr, h \in CodeHash : Do("message", SetCode(tx, bs, a, h))
    BY <1>9 DEF InstallCode
  <2>2. Running
    BY <2>1 DEF Do
  <2> QED BY <2>1, <2>2, SetCodeLeads, SetCodeStanding, DoStanding
<1>10. CASE Clear
  <2>1. PICK a \in tx.created : Do("settling", ClearPreservingBalance(tx, bs, a))
    BY <1>10 DEF Clear
  <2>2. Running /\ a \in Addr
    BY <2>1 DEF Do, Good, TxState
  <2> QED BY <2>1, <2>2, ClearLeads, ClearStanding, DoStanding
<1>11. CASE StartCreate
  <2>1. PICK a \in Addr :
          /\ Got(tx, bs, a).nonce < MaxNonce
          /\ Do("message", IncrementNonce(MarkCreated(DestroyStorage(tx, a), a), bs, a))
    BY <1>11 DEF StartCreate
  <2>2. Running
    BY <2>1 DEF Do
  <2> QED BY <2>1, <2>2, CreateLeads, CreateStanding, DoStanding
<1> QED BY <1>1, <1>2, <1>3, <1>4, <1>5, <1>6, <1>7, <1>8, <1>9, <1>10, <1>11

\* state_fresh_tx: the new scope reads what the block layer holds.
LEMMA FreshStanding == StandInv /\ Fresh => StandInv'
<1> SUFFICES ASSUME StandInv, Fresh PROVE StandInv'
  OBVIOUS
<1>1. Inv' /\ marks = <<>> /\ marks' = <<>> /\ bs' = bs /\ tx' = FreshTx
  BY FreshInv, NoMarks DEF StandInv, Fresh
<1>2. tx'.tab = EmptyTab /\ 1 .. Len(marks') = {}
  BY <1>1 DEF FreshTx
<1> QED BY <1>1, <1>2 DEF StandInv

\* process_withdrawals.
LEMMA WithdrawStanding == StandInv /\ Withdraw => StandInv'
<1> SUFFICES ASSUME StandInv, Withdraw PROVE StandInv'
  OBVIOUS
<1>1. Inv' /\ marks' = <<>> /\ bs' = bs /\ Running
  BY WithdrawInv, NoMarks DEF StandInv, Withdraw
<1>2. PICK a \in Addr, n \in Word :
        LET y == CreateEther(tx, bs, a, n)
        IN  tx' = IF y.stop # "no" THEN y ELSE [y EXCEPT !.journal = <<>>, !.hist = <<y.tab>>]
  BY DEF Withdraw
<1> DEFINE y == CreateEther(tx, bs, a, n)
<1>3. Good(y) /\ Standing(y, bs)
  BY <1>1, NowStanding, CreateEtherStanding
<1> HIDE DEF y
<1>4. tx' = IF y.stop # "no" THEN y ELSE [y EXCEPT !.journal = <<>>, !.hist = <<y.tab>>]
  BY <1>2 DEF y
<1>5. tx'.tab = y.tab /\ tx'.stop = y.stop
  BY <1>3, <1>4 DEF Good, TxState
<1>6. Running' => Sound(tx'.tab, bs')
  BY <1>1, <1>3, <1>5 DEF Running, Standing
<1>7. 1 .. Len(marks') = {}
  BY <1>1
<1> QED BY <1>1, <1>6, <1>7 DEF StandInv

\* state_snapshot: what it marks is sound.
LEMMA SnapshotStanding == StandInv /\ Snapshot => StandInv'
<1> SUFFICES ASSUME StandInv, Snapshot PROVE StandInv'
  OBVIOUS
<1>1. /\ Inv' /\ Inv /\ marks' = Append(marks, Len(tx.journal)) /\ Running
      /\ tx' = tx /\ bs' = bs /\ restoring' = restoring
  BY SnapshotInv DEF StandInv, Snapshot
<1>2. PICK n \in Nat : n = Len(marks)
  BY <1>1 DEF Inv, TypeOK
<1>3. Len(tx.journal) \in Nat /\ marks \in Seq(Nat)
  BY <1>1 DEF Inv, TypeOK, TxState
<1>4. /\ Len(marks') = n + 1 /\ marks'[n + 1] = Len(tx.journal)
      /\ \A i \in 1 .. n : marks'[i] = marks[i]
  BY <1>1, <1>2, <1>3, AppendFacts
<1>5. tx.hist[Len(tx.journal) + 1] = tx.tab
  BY <1>1 DEF Inv, HistoryOK, Replays
<1>6. ASSUME NEW i \in 1 .. n + 1
      PROVE  Sound(tx.hist[marks'[i] + 1], bs)
  <2>1. CASE i = n + 1
    BY <1>1, <1>4, <1>5, <2>1 DEF StandInv
  <2>2. CASE i \in 1 .. n
    BY <1>2, <1>4, <2>2 DEF StandInv
  <2> QED BY <2>1, <2>2
<1>7. Running' => Sound(tx'.tab, bs')
  BY <1>1 DEF StandInv
<1> QED BY <1>1, <1>4, <1>6, <1>7 DEF StandInv

\* The last snapshot goes: forgotten, or reached by the loop of state_restore.
LEMMA PopStanding ==
  ASSUME StandInv, Inv', Pop, marks # <<>>, Sound(tx.tab, bs)
  PROVE  StandInv'
<1>1. PICK n \in Nat : n = Len(marks)
  BY DEF StandInv, Inv, TypeOK
<1>2. n # 0 /\ marks \in Seq(Nat)
  BY <1>1 DEF StandInv, Inv, TypeOK
<1>3. /\ Len(marks') = n - 1 /\ \A i \in 1 .. n - 1 : marks'[i] = marks[i]
      /\ tx' = tx /\ bs' = bs
  BY <1>1, <1>2, FrontFacts DEF Pop
<1>4. ASSUME NEW i \in 1 .. n - 1
      PROVE  Sound(tx.hist[marks'[i] + 1], bs)
  <2>1. i \in 1 .. n
    OBVIOUS
  <2> QED BY <1>1, <1>3, <2>1 DEF StandInv
<1> QED BY <1>3, <1>4 DEF StandInv

\* A frame that succeeds.
LEMMA KeepStanding == StandInv /\ Keep => StandInv'
<1> SUFFICES ASSUME StandInv, Keep PROVE StandInv'
  OBVIOUS
<1>1. Inv' /\ Pop /\ marks # <<>> /\ Sound(tx.tab, bs)
  BY KeepInv DEF StandInv, Keep, Inv, TypeOK
<1> QED BY <1>1, PopStanding

\* The end of a rollback: the tables are those of the length the snapshot marked.
LEMMA EndRestoreStanding == StandInv /\ EndRestore => StandInv'
<1> SUFFICES ASSUME StandInv, EndRestore PROVE StandInv'
  OBVIOUS
<1>1. Inv' /\ Pop /\ marks # <<>> /\ Inv /\ Len(tx.journal) <= Last(marks)
  BY EndRestoreInv DEF StandInv, EndRestore, Inv, TypeOK
<1>2. PICK n \in Nat : n = Len(marks)
  BY <1>1 DEF Inv, TypeOK
<1>3. n \in 1 .. n /\ marks \in Seq(Nat) /\ Len(tx.journal) \in Nat
  BY <1>1, <1>2 DEF Inv, TypeOK, TxState
<1>4. Len(tx.journal) = marks[n]
  BY <1>1, <1>2, <1>3 DEF Inv, TypeOK, Last
<1>5. tx.hist[marks[n] + 1] = tx.tab
  BY <1>1, <1>4 DEF Inv, HistoryOK, Replays
<1>6. Sound(tx.tab, bs)
  BY <1>2, <1>3, <1>5 DEF StandInv
<1> QED BY <1>1, <1>6, PopStanding

\* One turn of the loop of state_restore leaves the history it returns to.
LEMMA UndoStanding == StandInv /\ UndoOne => StandInv'
<1> SUFFICES ASSUME StandInv, UndoOne PROVE StandInv'
  OBVIOUS
<1> DEFINE n == Len(tx.journal)
<1>1. /\ Inv /\ Inv' /\ marks' = marks /\ bs' = bs /\ restoring' = restoring /\ restoring
      /\ tx' = Undo(tx) /\ n > Last(marks)
  BY UndoInv DEF StandInv, UndoOne
<1>2. /\ tx \in TxState /\ tx.hist \in Seq(Tabs) /\ n \in Nat /\ Len(tx.hist) = n + 1
      /\ marks \in Seq(Nat) /\ Len(marks) \in Nat
  BY <1>1 DEF Inv, TypeOK, TxState, HistoryOK, Replays
<1>3. tx'.hist = SubSeq(tx.hist, 1, n)
  BY <1>1, <1>2 DEF Undo, TxState
<1> HIDE DEF n
<1>4. \A j \in 1 .. n : tx'.hist[j] = tx.hist[j]
  BY <1>2, <1>3
<1>5. ASSUME NEW i \in 1 .. Len(marks)
      PROVE  Sound(tx'.hist[marks[i] + 1], bs)
  <2>1. marks[i] \in Nat /\ Last(marks) \in Nat /\ marks[i] <= Last(marks)
    BY <1>1, <1>2 DEF Inv, TypeOK, Last
  <2>2. marks[i] + 1 \in 1 .. n
    BY <1>1, <1>2, <2>1 DEF n
  <2> QED BY <1>4, <2>2 DEF StandInv
<1> QED BY <1>1, <1>5 DEF StandInv, Running

\* merge_tx_into_block: over the new block layer the merged tables show the same
\* accounts, and so do empty ones.
LEMMA IncorporateStanding == StandInv /\ Incorporate => StandInv'
<1> SUFFICES ASSUME StandInv, Incorporate PROVE StandInv'
  OBVIOUS
<1>1. /\ Inv' /\ marks' = <<>> /\ tx' = tx /\ bs' = Merge(bs, tx) /\ Running
      /\ tx.tab \in Tabs /\ bs \in BlockState
  BY IncorporateInv, NoMarks, GoodTx, GoodFacts DEF StandInv, Incorporate
<1>2. Sound(tx.tab, bs)
  BY <1>1 DEF StandInv
<1>3. /\ \A a \in Addr : bs'.acct[a] = IF tx.tab.acct[a] # Absent THEN tx.tab.acct[a] ELSE bs.acct[a]
      /\ \A h \in CodeHash : bs'.code[h] = IF tx.tab.code[h] # Absent THEN tx.tab.code[h] ELSE bs.code[h]
  BY <1>1 DEF Merge, Override, BlockState
<1>4. \A a \in Addr : /\ AcctIn(tx.tab, bs', a) = AcctIn(tx.tab, bs, a)
                      /\ AcctIn(EmptyTab, bs', a) = AcctIn(tx.tab, bs, a)
  BY <1>3 DEF AcctIn, PreTxAccount, EmptyTab
<1>5. \A a \in Addr : OrEmpty(AcctIn(tx.tab, bs, a)).code \in CodeHash
  BY <1>1, NowStanding, GotTyped DEF Got, AccountOf, AcctIn, Account
<1>6. \A h \in CodeHash : Known(tx.tab, bs, h) => Known(tx.tab, bs', h) /\ Known(EmptyTab, bs', h)
  BY <1>3 DEF Known
<1>7. \A a \in Addr : EmptyTab.stor[a] = Absent
  BY DEF EmptyTab
<1>8. Sound(tx.tab, bs') /\ Sound(EmptyTab, bs')
  BY <1>2, <1>4, <1>5, <1>6, <1>7 DEF Sound
<1>9. 1 .. Len(marks') = {}
  BY <1>1
<1> QED BY <1>1, <1>8, <1>9 DEF StandInv

\* The start of a rollback, and a step that changes nothing.
LEMMA StillStanding == StandInv /\ (BeginRestore \/ UNCHANGED vars) => StandInv'
<1> SUFFICES ASSUME StandInv, BeginRestore \/ UNCHANGED vars PROVE StandInv'
  OBVIOUS
<1>1. Inv' /\ tx' = tx /\ bs' = bs /\ marks' = marks
  BY BeginRestoreInv, StutterInv DEF StandInv, BeginRestore, vars
<1>2. Running' => Running
  BY DEF BeginRestore, Running, vars
<1> QED BY <1>1, <1>2 DEF StandInv

\* Every step keeps the invariant.
LEMMA StandNext == StandInv /\ [Next]_vars => StandInv'
BY CallStanding, FreshStanding, WithdrawStanding, SnapshotStanding, KeepStanding,
   EndRestoreStanding, UndoStanding, IncorporateStanding, StillStanding DEF Next

\* The maps are sound in every behaviour of the tracker.
THEOREM MapsStand == Spec => []StandInv
<1>1. Init => StandInv
  BY StandInit
<1>2. StandInv /\ [Next]_vars => StandInv'
  BY StandNext
<1> QED BY <1>1, <1>2, PTL DEF Spec

\* No sequence of writes, destructions, creations, rollbacks and merges leaves
\* slots written at an account that does not exist.
THEOREM StorageAlwaysHasAccount == Spec => []StorageHasAccount
<1>1. StandInv => StorageHasAccount
  BY DEF StandInv, Sound, StorageHasAccount, AccountOf, AcctIn
<1> QED BY <1>1, MapsStand, PTL

\* If the witness has the code of each of its accounts, get_code finds the code
\* of every account there ever is: rolling back the frame that recorded a code
\* also rolls back every account that got it there.
THEOREM CodeAlwaysResolves ==
  ASSUME \A a \in Addr : OrEmpty(PreAcct[a]).code \in PreCode \cup {EmptyCode}
  PROVE  Spec => []CodeResolvable
<1>1. StandInv => CodeResolvable
  BY DEF StandInv, Sound, Known, CodeResolvable, Got, AccountOf, AcctIn
<1> QED BY <1>1, MapsStand, PTL
-----------------------------------------------------------------------------
(***************************************************************************)
(* What was touched.  The slots written at every length of the journal     *)
(* were read first, and the three sets only grow; so a rollback or a       *)
(* destruction hides no slot from the block access list.                   *)
(***************************************************************************)
WrittenIn(tab) == {p \in Addr \X Slot : SlotsOf(tab, p[1])[p[2]] # Absent}

Seen(x) == \A i \in 1 .. Len(x.hist) : WrittenIn(x.hist[i]) \subseteq x.storReads

Later(x, y) == /\ x.acctReads \subseteq y.acctReads
               /\ x.storReads \subseteq y.storReads
               /\ x.created \subseteq y.created

\* A call that forgets nothing and leaves no unread slot written.
Keeps(x, y) == Good(y) /\ Seen(y) /\ Later(x, y)

\* Calls in sequence.
LEMMA KeepsTrans ==
  ASSUME NEW x, NEW y, NEW z, Keeps(x, y), Keeps(y, z)
  PROVE  Keeps(x, z)
BY DEF Keeps, Later

\* The current tables are the last of the history.
LEMMA SeenNow ==
  ASSUME NEW x, Good(x), Seen(x)
  PROVE  WrittenIn(x.tab) \subseteq x.storReads
<1>1. Len(x.hist) = Len(x.journal) + 1 /\ x.hist[Len(x.hist)] = x.tab /\ Len(x.journal) \in Nat
  BY DEF Good, TxState, Replays
<1> QED BY <1>1 DEF Seen

\* A call that changes no table.
LEMMA SameKeeps ==
  ASSUME NEW x, Seen(x), NEW y, Good(y), y.hist = x.hist, Later(x, y)
  PROVE  Keeps(x, y)
BY DEF Keeps, Seen, Later

\* A recorded write.
LEMMA LogKeeps ==
  ASSUME NEW x, Good(x), Seen(x), NEW r \in Records, Good(Log(x, r[1], r[2], r[3])),
         WrittenIn(Rebind(x.tab, r[1], r[2], r[3])) \subseteq x.storReads
  PROVE  Keeps(x, Log(x, r[1], r[2], r[3]))
<1> DEFINE y == Log(x, r[1], r[2], r[3])
           t == Rebind(x.tab, r[1], r[2], r[3])
<1>1. /\ x \in TxState /\ x.hist \in Seq(Tabs) /\ Len(x.hist) \in Nat
      /\ t \in Tabs
  BY GoodFacts, RebindTyped DEF TxState
<1>2. /\ y.hist = Append(x.hist, t) /\ y.storReads = x.storReads
      /\ y.acctReads = x.acctReads /\ y.created = x.created
  BY <1>1 DEF Log, TxState
<1> HIDE DEF y, t
<1>3. /\ Len(y.hist) = Len(x.hist) + 1 /\ y.hist[Len(x.hist) + 1] = t
      /\ \A i \in 1 .. Len(x.hist) : y.hist[i] = x.hist[i]
  BY <1>1, <1>2, AppendFacts
<1>4. ASSUME NEW i \in 1 .. Len(x.hist) + 1
      PROVE  WrittenIn(y.hist[i]) \subseteq y.storReads
  <2>1. CASE i = Len(x.hist) + 1
    BY <1>2, <1>3, <2>1 DEF t
  <2>2. CASE i \in 1 .. Len(x.hist)
    BY <1>2, <1>3, <2>2 DEF Seen
  <2> QED BY <1>1, <2>1, <2>2
<1> QED BY <1>2, <1>3, <1>4 DEF Keeps, Later, Seen, y

\* A trap.
LEMMA StopKeeps ==
  ASSUME NEW x, Good(x), Seen(x), NEW s \in {"trap1", "trap4", "trap5", "err3", "err4"}
  PROVE  Keeps(x, [x EXCEPT !.stop = s])
<1> DEFINE y == [x EXCEPT !.stop = s]
<1>1. Good(y)
  BY StopLeads DEF Leads
<1>2. /\ y.hist = x.hist /\ y.acctReads = x.acctReads /\ y.storReads = x.storReads
      /\ y.created = x.created
  BY DEF Good, TxState
<1> HIDE DEF y
<1> QED BY <1>1, <1>2, SameKeeps DEF Later, y

\* jset and jdel, where the new tables have no slot written that was not read.
LEMMA JSetKeeps ==
  ASSUME NEW x, Good(x), Seen(x), NEW r \in Records,
         OwnedTables(Rebind(x.tab, r[1], r[2], r[3]), x.nInner),
         WrittenIn(Rebind(x.tab, r[1], r[2], r[3])) \subseteq x.storReads
  PROVE  Keeps(x, JSet(x, r[1], r[2], r[3]))
<1> DEFINE y == JSet(x, r[1], r[2], r[3])
<1>1. Good(y)
  BY JSetLeads DEF Leads
<1>2. y \in {x, [x EXCEPT !.stop = "trap4"], Log(x, r[1], r[2], r[3])}
  BY DEF JSet
<1>3. Keeps(x, x)
  BY DEF Keeps, Later
<1> HIDE DEF y
<1> QED BY <1>1, <1>2, <1>3, StopKeeps, LogKeeps DEF y

\* The same for jdel.
LEMMA JDelKeeps ==
  ASSUME NEW x, Good(x), Seen(x), NEW r \in Records, r[3] = Absent, r[1] \in {"stor", "tran"},
         WrittenIn(Rebind(x.tab, r[1], r[2], r[3])) \subseteq x.storReads
  PROVE  Keeps(x, JDel(x, r[1], r[2]))
<1> DEFINE y == JDel(x, r[1], r[2])
<1>1. Good(y)
  BY JDelLeads DEF Leads
<1>2. y \in {x, [x EXCEPT !.stop = "trap5"], Log(x, r[1], r[2], r[3])}
  BY DEF JDel
<1>3. Keeps(x, x)
  BY DEF Keeps, Later
<1> HIDE DEF y
<1>4. CASE y = x
  BY <1>3, <1>4 DEF y
<1>5. CASE y = [x EXCEPT !.stop = "trap5"]
  <2>1. Keeps(x, [x EXCEPT !.stop = "trap5"])
    BY StopKeeps
  <2> QED BY <1>5, <2>1 DEF y
<1>6. CASE y = Log(x, r[1], r[2], r[3])
  <2>1. Keeps(x, Log(x, r[1], r[2], r[3]))
    BY <1>1, <1>6, LogKeeps
  <2> QED BY <1>6, <2>1 DEF y
<1> QED BY <1>2, <1>4, <1>5, <1>6

\* Only the two storage tables say which slots are written.
LEMMA SameWritten ==
  ASSUME NEW t, NEW u, u.stor = t.stor, u.inner = t.inner
  PROVE  WrittenIn(u) = WrittenIn(t)
BY DEF WrittenIn, SlotsOf

\* Bindings of the other tables, and outer bindings dropped, write no slot.
LEMMA FewerWritten ==
  ASSUME NEW t \in Tabs, NEW r \in Records,
         r[1] \in {"acct", "code", "tran"} \/ (r[1] = "stor" /\ r[3] = Absent)
  PROVE  WrittenIn(Rebind(t, r[1], r[2], r[3])) \subseteq WrittenIn(t)
<1> DEFINE u == Rebind(t, r[1], r[2], r[3])
<1>1. CASE r[1] \in {"acct", "code", "tran"}
  <2>1. u.stor = t.stor /\ u.inner = t.inner
    BY <1>1 DEF Rebind, Tabs
  <2> QED BY <2>1, SameWritten
<1>2. CASE r[1] = "stor" /\ r[3] = Absent
  <2>1. u.stor = [t.stor EXCEPT ![r[2]] = Absent] /\ u.inner = t.inner
    BY <1>2 DEF Rebind, Tabs
  <2> HIDE DEF u
  <2>2. \A a \in Addr : u.stor[a] = Absent \/ u.stor[a] = t.stor[a]
    BY <2>1 DEF Tabs, Outers
  <2> QED BY <2>1, <2>2 DEF WrittenIn, SlotsOf, u
<1> QED BY <1>1, <1>2

\* A write to the inner table of one address alone.
LEMMA InnerWritten ==
  ASSUME NEW t \in Tabs, NEW a \in Addr, NEW k \in Slot, NEW v, NEW i \in 1 .. MaxInner,
         \A c \in Addr : t.stor[c] = i => c = a
  PROVE  WrittenIn(Rebind(t, "inner", <<i, k>>, v)) \subseteq WrittenIn(t) \cup {<<a, k>>}
<1> DEFINE u == Rebind(t, "inner", <<i, k>>, v)
<1>1. u.stor = t.stor /\ u.inner = [t.inner EXCEPT ![<<i, k>>] = v]
  BY DEF Rebind, Tabs
<1> HIDE DEF u
<1>2. ASSUME NEW c \in Addr, NEW l \in Slot, SlotsOf(u, c)[l] # Absent
      PROVE  SlotsOf(t, c)[l] # Absent \/ (c = a /\ l = k)
  <2>1. u.stor[c] # Absent /\ u.inner[<<t.stor[c], l>>] # Absent
    BY <1>1, <1>2 DEF SlotsOf
  <2>2. t.stor[c] # Absent /\ t.stor[c] \in 1 .. MaxInner
    BY <1>1, <2>1 DEF Tabs, Outers
  <2>3. CASE t.stor[c] = i /\ l = k
    BY <2>3
  <2>4. CASE ~(t.stor[c] = i /\ l = k)
    <3>1. <<t.stor[c], l>> # <<i, k>> /\ <<t.stor[c], l>> \in (1 .. MaxInner) \X Slot
      BY <2>2, <2>4
    <3>2. u.inner[<<t.stor[c], l>>] = t.inner[<<t.stor[c], l>>]
      BY <1>1, <3>1 DEF Tabs, Inners
    <3>3. SlotsOf(t, c)[l] = t.inner[<<t.stor[c], l>>]
      BY <2>2 DEF SlotsOf
    <3> QED BY <2>1, <3>2, <3>3
  <2> QED BY <2>3, <2>4
<1> QED BY <1>2 DEF WrittenIn, u

\* A new inner table is empty, so binding it writes no slot.
LEMMA OuterWritten ==
  ASSUME NEW x, Good(x), NEW a \in Addr, x.nInner + 1 <= MaxInner
  PROVE  WrittenIn(Rebind(x.tab, "stor", a, x.nInner + 1)) \subseteq WrittenIn(x.tab)
<1> DEFINE n == x.nInner + 1
           u == Rebind(x.tab, "stor", a, n)
<1>1. x.tab \in Tabs /\ n \in Nat /\ MaxInner \in Nat /\ OwnedTables(x.tab, x.nInner)
  BY GoodFacts, TrackerAssumption
<1>2. u.stor = [x.tab.stor EXCEPT ![a] = n] /\ u.inner = x.tab.inner
  BY <1>1 DEF Rebind, Tabs
<1>3. \A k \in Slot : x.tab.inner[<<n, k>>] = Absent
  BY <1>1 DEF OwnedTables
<1> HIDE DEF n, u
<1>4. \A c \in Addr : u.stor[c] = IF c = a THEN n ELSE x.tab.stor[c]
  BY <1>1, <1>2 DEF Tabs, Outers
<1> QED BY <1>2, <1>3, <1>4 DEF WrittenIn, SlotsOf, n, u

\* The read of an account.
LEMMA ReadAcctKeeps ==
  ASSUME NEW x, Good(x), Seen(x), NEW a \in Addr
  PROVE  Keeps(x, ReadAcct(x, a))
<1> DEFINE y == ReadAcct(x, a)
<1>1. Good(y)
  BY ReadAcctLeads DEF Leads
<1>2. y.hist = x.hist /\ Later(x, y)
  BY DEF ReadAcct, Later, Good, TxState
<1> HIDE DEF y
<1> QED BY <1>1, <1>2, SameKeeps DEF y

\* The read of a slot.
LEMMA SloadKeeps ==
  ASSUME NEW x, Good(x), Seen(x), NEW a \in Addr, NEW k \in Slot
  PROVE  Keeps(x, Sload(x, a, k)) /\ <<a, k>> \in Sload(x, a, k).storReads
<1> DEFINE y == Sload(x, a, k)
<1>1. Good(y)
  BY SloadLeads DEF Leads
<1>2. y.hist = x.hist /\ Later(x, y) /\ <<a, k>> \in y.storReads
  BY DEF Sload, Later, Good, TxState
<1> HIDE DEF y
<1> QED BY <1>1, <1>2, SameKeeps DEF y

\* The mark of a created account.
LEMMA MarkCreatedKeeps ==
  ASSUME NEW x, Good(x), Seen(x), NEW a \in Addr
  PROVE  Keeps(x, MarkCreated(x, a))
<1> DEFINE y == MarkCreated(x, a)
<1>1. Good(y)
  BY MarkCreatedLeads DEF Leads
<1>2. y.hist = x.hist /\ Later(x, y)
  BY DEF MarkCreated, Later, Good, TxState
<1> HIDE DEF y
<1> QED BY <1>1, <1>2, SameKeeps DEF y

\* set_account.
LEMMA SetAccountKeeps ==
  ASSUME NEW x, Good(x), Seen(x), NEW a \in Addr, NEW r \in Account \cup {None}
  PROVE  Keeps(x, SetAccount(x, a, r))
<1> DEFINE q == <<"acct", a, r>>
<1>1. q \in Records /\ Safe(x, q) /\ q[1] = "acct" /\ q[2] = a /\ q[3] = r
  BY DEF Records, Safe
<1> HIDE DEF q
<1>2. WrittenIn(Rebind(x.tab, q[1], q[2], q[3])) \subseteq x.storReads
  <2>1. x.tab \in Tabs /\ q[1] \in {"acct", "code", "tran"}
    BY <1>1, GoodFacts
  <2>2. WrittenIn(Rebind(x.tab, q[1], q[2], q[3])) \subseteq WrittenIn(x.tab)
    BY <1>1, <2>1, FewerWritten
  <2> QED BY <2>2, SeenNow
<1>3. Keeps(x, JSet(x, q[1], q[2], q[3]))
  BY <1>1, <1>2, SafeOwned, JSetKeeps
<1> QED BY <1>1, <1>3 DEF SetAccount

\* destroy_storage: the slots written were read, and stay read.
LEMMA DestroyStorageKeeps ==
  ASSUME NEW x, Good(x), Seen(x), NEW a \in Addr
  PROVE  Keeps(x, DestroyStorage(x, a))
<1>1. CASE x.stop # "no" \/ x.tab.stor[a] = Absent
  BY <1>1 DEF DestroyStorage, Keeps, Later
<1>2. CASE ~(x.stop # "no" \/ x.tab.stor[a] = Absent)
  <2> DEFINE written == {k \in Slot : SlotsOf(x.tab, a)[k] # Absent}
             more == {<<a, k>> : k \in written}
             y == [x EXCEPT !.storReads = @ \cup more]
             q == <<"stor", a, Absent>>
  <2>1. more \subseteq WrittenIn(x.tab)
    BY DEF WrittenIn
  <2>2. DestroyStorage(x, a) = JDel(y, "stor", a)
    BY <1>2 DEF DestroyStorage
  <2> HIDE DEF more
  <2>3. y = x
    <3>1. x.storReads \cup more = x.storReads
      BY <2>1, SeenNow
    <3> QED BY <3>1 DEF Good, TxState
  <2>4. q \in Records /\ q[1] = "stor" /\ q[2] = a /\ q[3] = Absent
    BY DEF Records
  <2>5. WrittenIn(Rebind(x.tab, q[1], q[2], q[3])) \subseteq x.storReads
    BY <2>4, GoodFacts, FewerWritten, SeenNow
  <2> HIDE DEF y, q
  <2>6. Keeps(x, JDel(x, q[1], q[2]))
    BY <2>4, <2>5, JDelKeeps
  <2> QED BY <2>2, <2>3, <2>4, <2>6
<1> QED BY <1>1, <1>2

\* modify_state_commit.
LEMMA CommitKeeps ==
  ASSUME NEW x, Good(x), Seen(x), NEW a \in Addr, NEW r \in Account
  PROVE  Keeps(x, Commit(x, a, r))
<1> DEFINE y == ReadAcct(x, a)
           z == SetAccount(y, a, r)
           d == DestroyStorage(z, a)
<1>1. Keeps(x, y)
  BY ReadAcctKeeps
<1> HIDE DEF y
<1>2. Keeps(y, z)
  BY <1>1, SetAccountKeeps DEF Keeps
<1> HIDE DEF z
<1>3. Keeps(z, d)
  BY <1>2, DestroyStorageKeeps DEF Keeps
<1> HIDE DEF d
<1>4. Keeps(d, SetAccount(d, a, None))
  BY <1>3, SetAccountKeeps DEF Keeps
<1>5. Commit(x, a, r) \in {z, SetAccount(d, a, None)}
  BY DEF Commit, Modify, DestroyAccount, y, z, d
<1>6. Keeps(x, z)
  BY <1>1, <1>2, KeepsTrans
<1>7. Keeps(x, d)
  BY <1>3, <1>6, KeepsTrans
<1>8. Keeps(x, SetAccount(d, a, None))
  BY <1>4, <1>7, KeepsTrans
<1> QED BY <1>5, <1>6, <1>8

\* set_storage, of a slot that was read.
LEMMA SetStorageKeeps ==
  ASSUME NEW x, Good(x), Seen(x), x.stop = "no", NEW b \in BlockState,
         NEW a \in Addr, NEW k \in Slot, NEW v \in Word, <<a, k>> \in x.storReads
  PROVE  Keeps(x, SetStorage(x, b, a, k, v))
<1> DEFINE y == ReadAcct(x, a)
           i == x.nInner + 1
           w == [y EXCEPT !.nInner = i]
           z == JSet(w, "stor", a, i)
<1>1. x.tab \in Tabs /\ x.nInner \in Nat /\ MaxInner \in Nat
  BY GoodFacts, TrackerAssumption
<1>2. /\ Keeps(x, y) /\ Good(y) /\ Seen(y) /\ y \in TxState
      /\ y.tab = x.tab /\ y.storReads = x.storReads /\ y.nInner = x.nInner
  BY ReadAcctKeeps DEF Keeps, Good, ReadAcct, TxState
<1>3. CASE AccountOf(x, b, a) = None
  <2>1. SetStorage(x, b, a, k, v) = [y EXCEPT !.stop = "err3"]
    BY <1>3 DEF SetStorage
  <2> HIDE DEF y
  <2>2. Keeps(y, [y EXCEPT !.stop = "err3"])
    BY <1>2, StopKeeps
  <2> QED BY <1>2, <2>1, <2>2, KeepsTrans
<1>4. CASE AccountOf(x, b, a) # None /\ x.tab.stor[a] # Absent
  <2> DEFINE j == x.tab.stor[a]
             q == <<"inner", <<j, k>>, v>>
  <2>1. SetStorage(x, b, a, k, v) = JSet(y, "inner", <<j, k>>, v)
    BY <1>4 DEF SetStorage
  <2>2. j \in 1 .. MaxInner /\ j \in 1 .. x.nInner /\ \A c \in Addr : x.tab.stor[c] = j => c = a
    BY <1>1, <1>4, GoodFacts DEF OwnedTables, Tabs, Outers
  <2> HIDE DEF y, j
  <2>3. q \in Records /\ q[1] = "inner" /\ q[2] = <<j, k>> /\ q[3] = v /\ q[2][1] = j
    BY <2>2 DEF Records
  <2>4. WrittenIn(Rebind(y.tab, "inner", <<j, k>>, v)) \subseteq y.storReads
    BY <1>1, <1>2, <2>2, InnerWritten, SeenNow
  <2> HIDE DEF q
  <2>5. OwnedTables(Rebind(y.tab, q[1], q[2], q[3]), y.nInner)
    BY <1>2, <2>2, <2>3, SafeOwned DEF Safe
  <2>6. Keeps(y, JSet(y, q[1], q[2], q[3]))
    BY <1>2, <2>3, <2>4, <2>5, JSetKeeps
  <2> QED BY <1>2, <2>1, <2>3, <2>6, KeepsTrans
<1>5. CASE AccountOf(x, b, a) # None /\ x.tab.stor[a] = Absent /\ i > MaxInner
  <2>1. SetStorage(x, b, a, k, v) = [y EXCEPT !.stop = "trap1"]
    BY <1>5 DEF SetStorage
  <2> HIDE DEF y
  <2>2. Keeps(y, [y EXCEPT !.stop = "trap1"])
    BY <1>2, StopKeeps
  <2> QED BY <1>2, <2>1, <2>2, KeepsTrans
<1>6. CASE AccountOf(x, b, a) # None /\ x.tab.stor[a] = Absent /\ ~(i > MaxInner)
  <2> DEFINE s == <<"stor", a, i>>
             q == <<"inner", <<i, k>>, v>>
  <2>1. SetStorage(x, b, a, k, v) = JSet(z, "inner", <<i, k>>, v)
    BY <1>6 DEF SetStorage
  <2>2. i \in 1 .. MaxInner /\ i \in 0 .. MaxInner /\ x.nInner <= i /\ i <= MaxInner
    BY <1>1, <1>6
  <2>3. OwnedTables(Rebind(x.tab, "stor", a, i), i)
    BY <2>2, NewInnerOwned
  <2>4. WrittenIn(Rebind(x.tab, "stor", a, i)) \subseteq x.storReads
    BY <2>2, OuterWritten, SeenNow
  <2>5. x.nInner + 1 = i
    OBVIOUS
  <2> HIDE DEF i
  <2>6. /\ w \in TxState /\ w.tab = y.tab /\ w.journal = y.journal /\ w.hist = y.hist
        /\ w.nInner = i /\ w.stop = y.stop /\ w.storReads = y.storReads
        /\ w.acctReads = y.acctReads /\ w.created = y.created
    <3> HIDE DEF y
    <3> QED BY <1>2, <2>2 DEF TxState
  <2> HIDE DEF y, w
  <2>7. Good(w)
    BY <1>2, <2>2, <2>6, SameTables DEF Leads
  <2>8. Keeps(y, w)
    BY <1>2, <2>6, <2>7, SameKeeps DEF Later
  <2>9. Seen(w) /\ w.tab = x.tab /\ w.storReads = x.storReads
    BY <1>2, <2>6, <2>8 DEF Keeps
  <2>10. s \in Records /\ s[1] = "stor" /\ s[2] = a /\ s[3] = i
    BY <2>2 DEF Records
  <2> HIDE DEF s
  <2>11. Keeps(w, JSet(w, s[1], s[2], s[3]))
    BY <2>3, <2>4, <2>6, <2>7, <2>9, <2>10, JSetKeeps
  <2>12. Leads(w, JSet(w, s[1], s[2], s[3]), Rebind(w.tab, s[1], s[2], s[3]))
    BY <2>3, <2>6, <2>7, <2>9, <2>10, JSetLeads
  <2>13. /\ Keeps(w, z) /\ Good(z) /\ Seen(z) /\ w.storReads \subseteq z.storReads
         /\ w.nInner <= z.nInner /\ (z.stop = "no" => z.tab = Rebind(x.tab, "stor", a, i))
    BY <2>9, <2>10, <2>11, <2>12 DEF Keeps, Later, Leads
  <2> HIDE DEF z
  <2>14. q \in Records /\ q[1] = "inner" /\ q[2] = <<i, k>> /\ q[3] = v /\ q[2][1] = i
    BY <2>2 DEF Records
  <2>15. z.nInner \in Nat /\ i \in 1 .. z.nInner /\ z.tab \in Tabs
    BY <2>2, <2>6, <2>13, GoodFacts, <1>1
  <2> HIDE DEF q
  <2>16. CASE z.stop # "no"
    <3>1. JSet(z, "inner", <<i, k>>, v) = z
      BY <2>16 DEF JSet
    <3>2. Keeps(x, w)
      BY <1>2, <2>8, KeepsTrans
    <3> QED BY <2>1, <2>13, <3>1, <3>2, KeepsTrans
  <2>17. CASE z.stop = "no"
    <3>1. z.tab.stor = [x.tab.stor EXCEPT ![a] = i]
      BY <1>1, <2>13, <2>17 DEF Rebind, Tabs
    <3>2. \A c \in Addr : x.tab.stor[c] # i
      BY <1>1, <2>2, <2>5, GoodFacts, TrackerAssumption DEF OwnedTables
    <3>3. \A c \in Addr : z.tab.stor[c] = i => c = a
      BY <1>1, <3>1, <3>2 DEF Tabs, Outers
    <3>4. WrittenIn(Rebind(z.tab, "inner", <<i, k>>, v)) \subseteq WrittenIn(z.tab) \cup {<<a, k>>}
      BY <2>2, <2>15, <3>3, InnerWritten
    <3>5. WrittenIn(Rebind(z.tab, "inner", <<i, k>>, v)) \subseteq z.storReads
      BY <2>9, <2>13, <3>4, SeenNow
    <3>6. OwnedTables(Rebind(z.tab, q[1], q[2], q[3]), z.nInner)
      BY <2>13, <2>14, <2>15, SafeOwned DEF Safe
    <3>7. Keeps(z, JSet(z, q[1], q[2], q[3]))
      BY <2>13, <2>14, <3>5, <3>6, JSetKeeps
    <3>8. Keeps(x, w)
      BY <1>2, <2>8, KeepsTrans
    <3>9. Keeps(x, z)
      BY <2>13, <3>8, KeepsTrans
    <3> QED BY <2>1, <2>14, <3>7, <3>9, KeepsTrans
  <2> QED BY <2>16, <2>17
<1> QED BY <1>3, <1>4, <1>5, <1>6

\* op_sstore reads the slot before it writes it.
LEMMA StoreKeeps ==
  ASSUME NEW x, Good(x), Seen(x), x.stop = "no", NEW b \in BlockState,
         NEW a \in Addr, NEW k \in Slot, NEW v \in Word
  PROVE  Keeps(x, SetStorage(Sload(x, a, k), b, a, k, v))
<1> DEFINE y == Sload(x, a, k)
<1>1. Keeps(x, y) /\ <<a, k>> \in y.storReads
  BY SloadKeeps
<1>2. y.stop = "no"
  BY GoodFacts DEF Sload, TxState
<1> HIDE DEF y
<1>3. Keeps(y, SetStorage(y, b, a, k, v))
  BY <1>1, <1>2, SetStorageKeeps DEF Keeps
<1> QED BY <1>1, <1>3, KeepsTrans DEF y

\* set_transient_storage.
LEMMA SetTransientKeeps ==
  ASSUME NEW x, Good(x), Seen(x), NEW a \in Addr, NEW k \in Slot, NEW v \in Word
  PROVE  Keeps(x, SetTransient(x, a, k, v))
<1> DEFINE d == <<"tran", <<a, k>>, Absent>>
           s == <<"tran", <<a, k>>, v>>
<1>1. /\ d \in Records /\ d[1] = "tran" /\ d[2] = <<a, k>> /\ d[3] = Absent
      /\ s \in Records /\ s[1] = "tran" /\ s[2] = <<a, k>> /\ s[3] = v
  BY DEF Records
<1> HIDE DEF d, s
<1>2. x.tab \in Tabs /\ WrittenIn(x.tab) \subseteq x.storReads
  BY GoodFacts, SeenNow
<1>3. CASE v = 0
  <2>1. WrittenIn(Rebind(x.tab, d[1], d[2], d[3])) \subseteq WrittenIn(x.tab)
    BY <1>1, <1>2, FewerWritten
  <2>2. Keeps(x, JDel(x, d[1], d[2]))
    BY <1>1, <1>2, <2>1, JDelKeeps
  <2> QED BY <1>1, <1>3, <2>2 DEF SetTransient
<1>4. CASE v # 0
  <2>1. WrittenIn(Rebind(x.tab, s[1], s[2], s[3])) \subseteq WrittenIn(x.tab)
    BY <1>1, <1>2, FewerWritten
  <2>2. Keeps(x, JSet(x, s[1], s[2], s[3]))
    BY <1>1, <1>2, <2>1, SafeOwned, JSetKeeps DEF Safe
  <2> QED BY <1>1, <1>4, <2>2 DEF SetTransient
<1> QED BY <1>3, <1>4

\* The calls that commit one account.
LEMMA AccountKeeps ==
  ASSUME NEW x, Good(x), Seen(x), NEW b \in BlockState, NEW a \in Addr, NEW n \in Word
  PROVE  /\ Keeps(x, CreateEther(x, b, a, n))
         /\ Keeps(x, SetBalance(x, b, a, n))
         /\ Got(x, b, a).nonce < MaxNonce => Keeps(x, IncrementNonce(x, b, a))
<1> DEFINE g == Got(x, b, a)
<1>1. g \in Account
  BY GotTyped
<1> HIDE DEF g
<1>2. /\ [g EXCEPT !.balance = n] \in Account
      /\ [g EXCEPT !.balance = (@ + n) % WordMod] \in Account
      /\ g.nonce < MaxNonce => [g EXCEPT !.nonce = @ + 1] \in Account
  BY <1>1, ChangedTyped, TrackerAssumption
<1>3. Keeps(x, CreateEther(x, b, a, n))
  BY <1>2, CommitKeeps DEF CreateEther, g
<1>4. Keeps(x, SetBalance(x, b, a, n))
  BY <1>2, CommitKeeps DEF SetBalance, g
<1>5. g.nonce < MaxNonce => Keeps(x, IncrementNonce(x, b, a))
  BY <1>2, CommitKeeps DEF IncrementNonce, g
<1> QED BY <1>3, <1>4, <1>5 DEF g

\* move_ether.
LEMMA MoveEtherKeeps ==
  ASSUME NEW x, Good(x), Seen(x), NEW b \in BlockState,
         NEW s \in Addr, NEW t \in Addr, NEW n \in Word
  PROVE  Keeps(x, MoveEther(x, b, s, t, n))
<1> DEFINE g == Got(x, b, s)
           q == [g EXCEPT !.balance = @ - n]
           y == Commit(x, s, q)
           w == ReadAcct(x, s)
<1>1. g \in Account
  BY GotTyped
<1>2. CASE g.balance < n
  <2>1. Keeps(x, w)
    BY ReadAcctKeeps
  <2>2. MoveEther(x, b, s, t, n) = [w EXCEPT !.stop = "err4"]
    BY <1>2 DEF MoveEther
  <2> HIDE DEF w
  <2>3. Keeps(w, [w EXCEPT !.stop = "err4"])
    BY <2>1, StopKeeps DEF Keeps
  <2> QED BY <2>1, <2>2, <2>3, KeepsTrans
<1>3. CASE ~(g.balance < n)
  <2>1. n <= g.balance
    BY <1>1, <1>3, TrackerAssumption DEF Account, Word
  <2>2. MoveEther(x, b, s, t, n) = CreateEther(y, b, t, n)
    BY <1>3 DEF MoveEther
  <2> HIDE DEF g
  <2>3. q \in Account
    BY <1>1, <2>1, ChangedTyped, TrackerAssumption
  <2> HIDE DEF q
  <2>4. Keeps(x, y)
    BY <2>3, CommitKeeps
  <2> HIDE DEF y
  <2>5. Keeps(y, CreateEther(y, b, t, n))
    BY <2>4, AccountKeeps DEF Keeps
  <2> QED BY <2>2, <2>4, <2>5, KeepsTrans
<1> QED BY <1>2, <1>3

\* set_code.
LEMMA SetCodeKeeps ==
  ASSUME NEW x, Good(x), Seen(x), NEW b \in BlockState, NEW a \in Addr, NEW h \in CodeHash
  PROVE  Keeps(x, SetCode(x, b, a, h))
<1> DEFINE g == Got(x, b, a)
           r == [g EXCEPT !.code = h]
           q == <<"code", h, h>>
           y == IF h = EmptyCode THEN x ELSE JSet(x, "code", h, h)
<1>1. q \in Records /\ q[1] = "code" /\ q[2] = h /\ q[3] = h
  BY DEF Records
<1>2. g \in Account /\ 0 \in Word
  BY GotTyped, TrackerAssumption DEF Word
<1>3. SetCode(x, b, a, h) = Commit(y, a, r)
  BY DEF SetCode
<1> HIDE DEF q, g
<1>4. r \in Account
  BY <1>2, ChangedTyped
<1> HIDE DEF r
<1>5. WrittenIn(Rebind(x.tab, q[1], q[2], q[3])) \subseteq x.storReads
  <2>1. WrittenIn(Rebind(x.tab, q[1], q[2], q[3])) \subseteq WrittenIn(x.tab)
    BY <1>1, GoodFacts, FewerWritten
  <2> QED BY <2>1, SeenNow
<1>6. Keeps(x, JSet(x, q[1], q[2], q[3]))
  BY <1>1, <1>5, SafeOwned, JSetKeeps DEF Safe
<1>7. Keeps(x, x)
  BY DEF Keeps, Later
<1>8. Keeps(x, y)
  BY <1>1, <1>6, <1>7
<1> HIDE DEF y
<1>9. Keeps(y, Commit(y, a, r))
  BY <1>4, <1>8, CommitKeeps DEF Keeps
<1> QED BY <1>3, <1>8, <1>9, KeepsTrans

\* clear_account_preserving_balance.
LEMMA ClearKeeps ==
  ASSUME NEW x, Good(x), Seen(x), NEW b \in BlockState, NEW a \in Addr
  PROVE  Keeps(x, ClearPreservingBalance(x, b, a))
<1> DEFINE g == Got(x, b, a)
           r == [g EXCEPT !.nonce = 0, !.code = EmptyCode]
           y == DestroyStorage(x, a)
<1>1. g \in Account /\ 0 \in Word
  BY GotTyped, TrackerAssumption DEF Word
<1>2. Keeps(x, y)
  BY DestroyStorageKeeps
<1>3. ClearPreservingBalance(x, b, a) = Commit(y, a, r)
  BY DEF ClearPreservingBalance
<1> HIDE DEF g, y
<1>4. r \in Account
  BY <1>1, ChangedTyped, TrackerAssumption
<1> HIDE DEF r
<1>5. Keeps(y, Commit(y, a, r))
  BY <1>2, <1>4, CommitKeeps DEF Keeps
<1> QED BY <1>2, <1>3, <1>5, KeepsTrans

\* The start of a creation.
LEMMA CreateKeeps ==
  ASSUME NEW x, Good(x), Seen(x), NEW b \in BlockState, NEW a \in Addr,
         Got(x, b, a).nonce < MaxNonce
  PROVE  Keeps(x, IncrementNonce(MarkCreated(DestroyStorage(x, a), a), b, a))
<1> DEFINE y == DestroyStorage(x, a)
           z == MarkCreated(y, a)
<1>1. Keeps(x, y) /\ y.tab.acct = x.tab.acct
  BY DestroyStorageKeeps, DestroyStorageAcct
<1> HIDE DEF y
<1>2. Keeps(y, z) /\ z.tab = y.tab
  BY <1>1, MarkCreatedKeeps, MarkCreatedLeads DEF Keeps
<1> HIDE DEF z
<1>3. Got(z, b, a) = Got(x, b, a) /\ 0 \in Word
  BY <1>1, <1>2, TrackerAssumption DEF Got, AccountOf, Word
<1>4. Keeps(z, IncrementNonce(z, b, a))
  BY <1>2, <1>3, AccountKeeps DEF Keeps
<1>5. Keeps(x, z)
  BY <1>1, <1>2, KeepsTrans
<1> QED BY <1>4, <1>5, KeepsTrans DEF y, z

\* The invariant: at every length of the journal the slots written were read.
SeenInv == Inv /\ Seen(tx)

\* Nothing was written in a scope that has just opened.
LEMMA FreshSeen == Seen(FreshTx)
<1>1. FreshTx.hist = <<EmptyTab>> /\ Len(FreshTx.hist) = 1 /\ FreshTx.hist[1] = EmptyTab
  BY DEF FreshTx
<1>2. WrittenIn(EmptyTab) = {}
  BY DEF WrittenIn, SlotsOf, EmptyTab
<1> QED BY <1>1, <1>2 DEF Seen

\* The calls the phases make.
Calls == \/ ReadAccount \/ ReadStorage \/ WriteStorage \/ WriteTransient
         \/ Transfer \/ Debit \/ Credit \/ BumpNonce \/ InstallCode \/ Clear \/ StartCreate

\* Each of them keeps what was touched.
LEMMA CallKeeps ==
  ASSUME SeenInv, Calls
  PROVE  Keeps(tx, tx')
<1>1. Good(tx) /\ Seen(tx) /\ bs \in BlockState
  BY GoodTx DEF SeenInv
<1>2. \A p, y : Do(p, y) => tx' = y /\ tx.stop = "no"
  BY DEF Do, Running
<1>3. CASE ReadAccount \/ ReadStorage
  <2>1. ReadAccount => Keeps(tx, tx')
    BY <1>1, <1>2, ReadAcctKeeps DEF ReadAccount
  <2>2. ASSUME NEW a \in Addr, NEW k \in Slot, Do("message", Sload(tx, a, k))
        PROVE  Keeps(tx, tx')
    <3>1. Keeps(tx, Sload(tx, a, k))
      BY <1>1, SloadKeeps
    <3>2. tx' = Sload(tx, a, k)
      BY <2>2 DEF Do
    <3> QED BY <3>1, <3>2
  <2> QED BY <1>3, <2>1, <2>2 DEF ReadStorage
<1>4. CASE WriteStorage
  <2>1. PICK a \in Addr, k \in Slot, v \in Word :
          Do("message", SetStorage(Sload(tx, a, k), bs, a, k, v))
    BY <1>4 DEF WriteStorage
  <2> QED BY <1>1, <1>2, <2>1, StoreKeeps
<1>5. CASE WriteTransient
  BY <1>1, <1>2, <1>5, SetTransientKeeps DEF WriteTransient
<1>6. CASE Transfer
  BY <1>1, <1>2, <1>6, MoveEtherKeeps DEF Transfer
<1>7. CASE Debit
  BY <1>1, <1>2, <1>7, AccountKeeps DEF Debit
<1>8. CASE Credit
  BY <1>1, <1>2, <1>8, AccountKeeps DEF Credit
<1>9. CASE BumpNonce
  <2>1. PICK p \in {"open", "message"}, a \in Addr :
          Got(tx, bs, a).nonce < MaxNonce /\ Do(p, IncrementNonce(tx, bs, a))
    BY <1>9 DEF BumpNonce, TakeNonce
  <2>2. 0 \in Word
    BY TrackerAssumption DEF Word
  <2> QED BY <1>1, <1>2, <2>1, <2>2, AccountKeeps
<1>10. CASE InstallCode
  BY <1>1, <1>2, <1>10, SetCodeKeeps DEF InstallCode
<1>11. CASE Clear
  <2>1. tx.created \subseteq Addr
    BY <1>1 DEF Good, TxState
  <2> QED BY <1>1, <1>2, <1>11, <2>1, ClearKeeps DEF Clear
<1>12. CASE StartCreate
  BY <1>1, <1>2, <1>12, CreateKeeps DEF StartCreate
<1> QED BY <1>3, <1>4, <1>5, <1>6, <1>7, <1>8, <1>9, <1>10, <1>11, <1>12 DEF Calls

\* A withdrawal drops the journal and nothing that was touched.
LEMMA WithdrawKeeps ==
  ASSUME SeenInv, Withdraw
  PROVE  Seen(tx') /\ Later(tx, tx')
<1>1. Good(tx) /\ Seen(tx) /\ bs \in BlockState
  BY GoodTx DEF SeenInv
<1>2. PICK a \in Addr, n \in Word :
        LET y == CreateEther(tx, bs, a, n)
        IN  tx' = IF y.stop # "no" THEN y ELSE [y EXCEPT !.journal = <<>>, !.hist = <<y.tab>>]
  BY DEF Withdraw
<1> DEFINE y == CreateEther(tx, bs, a, n)
<1>3. Keeps(tx, y)
  BY <1>1, AccountKeeps
<1> HIDE DEF y
<1>4. tx' = IF y.stop # "no" THEN y ELSE [y EXCEPT !.journal = <<>>, !.hist = <<y.tab>>]
  BY <1>2 DEF y
<1>5. CASE y.stop # "no"
  BY <1>3, <1>4, <1>5 DEF Keeps
<1>6. CASE y.stop = "no"
  <2>1. /\ tx'.hist = <<y.tab>> /\ tx'.storReads = y.storReads
        /\ tx'.acctReads = y.acctReads /\ tx'.created = y.created
    BY <1>3, <1>4, <1>6 DEF Keeps, Good, TxState
  <2>2. Len(tx'.hist) = 1 /\ tx'.hist[1] = y.tab
    BY <2>1
  <2>3. WrittenIn(y.tab) \subseteq y.storReads
    BY <1>3, SeenNow DEF Keeps
  <2> QED BY <1>3, <2>1, <2>2, <2>3 DEF Keeps, Seen, Later
<1> QED BY <1>5, <1>6

\* Undoing a record forgets nothing.
LEMMA UndoKeeps ==
  ASSUME SeenInv, UndoOne
  PROVE  Seen(tx') /\ Later(tx, tx')
<1> DEFINE n == Len(tx.journal)
<1>1. /\ tx' = Undo(tx) /\ tx \in TxState /\ tx.hist \in Seq(Tabs) /\ n \in Nat
      /\ Len(tx.hist) = n + 1
  BY DEF UndoOne, SeenInv, Inv, TypeOK, TxState, HistoryOK, Replays
<1>2. /\ tx'.hist = SubSeq(tx.hist, 1, n) /\ tx'.storReads = tx.storReads
      /\ tx'.acctReads = tx.acctReads /\ tx'.created = tx.created
  BY <1>1 DEF Undo, TxState
<1> HIDE DEF n
<1>3. Len(tx'.hist) = n /\ \A i \in 1 .. n : tx'.hist[i] = tx.hist[i]
  BY <1>1, <1>2
<1>4. \A i \in 1 .. n : i \in 1 .. Len(tx.hist)
  BY <1>1
<1> QED BY <1>2, <1>3, <1>4 DEF SeenInv, Seen, Later

\* Every step but the opening of a scope forgets nothing.
LEMMA StepKeeps ==
  ASSUME SeenInv, [Next]_vars
  PROVE  Seen(tx') /\ (Fresh \/ Later(tx, tx'))
<1>1. CASE Fresh
  <2>1. tx' = FreshTx
    BY <1>1 DEF Fresh
  <2> QED BY <1>1, <2>1, FreshSeen
<1>2. CASE Calls
  BY <1>2, CallKeeps DEF Keeps
<1>3. CASE Withdraw
  BY <1>3, WithdrawKeeps
<1>4. CASE UndoOne
  BY <1>4, UndoKeeps
<1>5. CASE Snapshot \/ Keep \/ BeginRestore \/ EndRestore \/ Incorporate \/ UNCHANGED vars
  <2>1. tx' = tx
    BY <1>5 DEF Snapshot, Keep, BeginRestore, EndRestore, Pop, Incorporate, vars
  <2> QED BY <2>1 DEF SeenInv, Later
<1> QED BY <1>1, <1>2, <1>3, <1>4, <1>5 DEF Next, Calls

\* In every behaviour the slots written were read.
THEOREM WrittenWereRead == Spec => []SeenInv
<1>1. Init => SeenInv
  BY InvInit, FreshSeen DEF SeenInv, Init
<1>2. SeenInv /\ [Next]_vars => SeenInv'
  BY NextInv, StepKeeps DEF SeenInv
<1> QED BY <1>1, <1>2, PTL DEF Spec

\* A failed call rolls its writes back and destroy_storage drops them, but no
\* account, no slot and no created account touched in a scope is forgotten
\* before the scope ends.
THEOREM NothingForgotten == Spec => TouchedNeverForgotten
<1>1. SeenInv /\ [Next]_vars =>
        [ \/ Fresh
          \/ \A i \in 1 .. 3 : Touched(tx)[i] \subseteq Touched(tx')[i] ]_vars
  <2> SUFFICES ASSUME SeenInv, [Next]_vars, ~Fresh
               PROVE  \A i \in 1 .. 3 : Touched(tx)[i] \subseteq Touched(tx')[i]
    OBVIOUS
  <2>1. Later(tx, tx')
    BY StepKeeps
  <2>2. Written(tx) \subseteq tx.storReads
    BY SeenNow, GoodTx DEF SeenInv, Written, WrittenIn
  <2> QED BY <2>1, <2>2 DEF Touched, Later
<1> QED BY <1>1, WrittenWereRead, PTL DEF Spec, TouchedNeverForgotten

\* After merge_tx_into_block the next scope reads every account and every slot
\* as the merged one last read it.
THEOREM MergeLosesNothing == Spec => MergeKeepsReads
<1> DEFINE Reads == \A a \in Addr :
                      /\ AccountOf(FreshTx, bs', a) = AccountOf(tx, bs, a)
                      /\ \A k \in Slot : StorageOf(FreshTx, bs', a, k) = StorageOf(tx, bs, a, k)
<1>1. Inv /\ [Next]_vars => [Incorporate => Reads]_vars
  <2> SUFFICES ASSUME Inv, Incorporate PROVE Reads
    OBVIOUS
  <2>1. bs' = Merge(bs, tx) /\ bs \in BlockState
    BY GoodTx DEF Incorporate
  <2>2. /\ \A a \in Addr : bs'.acct[a] = IF tx.tab.acct[a] # Absent
                                          THEN tx.tab.acct[a] ELSE bs.acct[a]
        /\ \A a \in Addr, k \in Slot :
             bs'.stor[a][k] = IF SlotsOf(tx.tab, a)[k] # Absent
                              THEN SlotsOf(tx.tab, a)[k] ELSE bs.stor[a][k]
    BY <2>1 DEF Merge, Override, BlockState
  <2>3. \A a \in Addr : FreshTx.tab.acct[a] = Absent /\ \A k \in Slot : SlotsOf(FreshTx.tab, a)[k] = Absent
    BY DEF FreshTx, EmptyTab, SlotsOf
  <2>4. \A a \in Addr : AccountOf(FreshTx, bs', a) = AccountOf(tx, bs, a)
    BY <2>2, <2>3 DEF AccountOf, PreTxAccount
  <2>5. \A a \in Addr, k \in Slot : StorageOf(FreshTx, bs', a, k) = StorageOf(tx, bs, a, k)
    BY <2>2, <2>3 DEF StorageOf, PreTxStorage
  <2> QED BY <2>4, <2>5
<1>2. MergeKeepsReads <=> [][Incorporate => Reads]_vars
  BY DEF MergeKeepsReads
<1> QED BY <1>1, <1>2, Invariance, PTL DEF Spec

-----------------------------------------------------------------------------
(***************************************************************************)
(* The tracker with its journal and its inner tables implements the store  *)
(* that copies its maps: every step maps to a step of SnapshotStore or to  *)
(* none.                                                                   *)
(***************************************************************************)
\* The reading of the tables that the refinement is about.
LEMMA ViewRecord ==
  ASSUME NEW t \in Tabs
  PROVE  /\ View(t) = [acct |-> t.acct, stor |-> View(t).stor, code |-> t.code, tran |-> t.tran]
         /\ View(t).acct = t.acct /\ View(t).code = t.code /\ View(t).tran = t.tran
         /\ View(t).stor = [a \in Addr |-> SlotsOf(t, a)]
         /\ View(t) # <<>>
BY DEF View

\* Two readings that differ in one map.
LEMMA ViewDiffers ==
  ASSUME NEW t \in Tabs, NEW u \in Tabs
  PROVE  /\ View(u).stor = View(t).stor /\ u.code = t.code /\ u.tran = t.tran
            => View(u) = [View(t) EXCEPT !.acct = u.acct]
         /\ u.acct = t.acct /\ u.code = t.code /\ u.tran = t.tran
            => View(u) = [View(t) EXCEPT !.stor = View(u).stor]
         /\ u.acct = t.acct /\ View(u).stor = View(t).stor /\ u.tran = t.tran
            => View(u) = [View(t) EXCEPT !.code = u.code]
         /\ u.acct = t.acct /\ View(u).stor = View(t).stor /\ u.code = t.code
            => View(u) = [View(t) EXCEPT !.tran = u.tran]
<1> DEFINE p == [a \in Addr |-> SlotsOf(t, a)]
           q == [a \in Addr |-> SlotsOf(u, a)]
<1>1. /\ View(t) = [acct |-> t.acct, stor |-> p, code |-> t.code, tran |-> t.tran]
      /\ View(u) = [acct |-> u.acct, stor |-> q, code |-> u.code, tran |-> u.tran]
  BY DEF View
<1> HIDE DEF p, q
<1>2. View(t).stor = p /\ View(u).stor = q
  BY <1>1
<1>3. [View(t) EXCEPT !.acct = u.acct] = [acct |-> u.acct, stor |-> p, code |-> t.code, tran |-> t.tran]
  BY <1>1
<1>4. [View(t) EXCEPT !.stor = q] = [acct |-> t.acct, stor |-> q, code |-> t.code, tran |-> t.tran]
  BY <1>1
<1>5. [View(t) EXCEPT !.code = u.code] = [acct |-> t.acct, stor |-> p, code |-> u.code, tran |-> t.tran]
  BY <1>1
<1>6. [View(t) EXCEPT !.tran = u.tran] = [acct |-> t.acct, stor |-> p, code |-> t.code, tran |-> u.tran]
  BY <1>1
<1> QED BY <1>1, <1>2, <1>3, <1>4, <1>5, <1>6

\* The slots read depend on the outer and the inner storage tables only.
LEMMA SameStor ==
  ASSUME NEW t, NEW u, u.stor = t.stor, u.inner = t.inner
  PROVE  View(u).stor = View(t).stor
BY DEF View, SlotsOf

\* Setting an account, as the copying store sees it.
LEMMA ViewWithAcct ==
  ASSUME NEW t \in Tabs, NEW a \in Addr, NEW r \in Account \cup {None}
  PROVE  View(WithAcct(t, a, r)) = [View(t) EXCEPT !.acct = [@ EXCEPT ![a] = r]]
<1> DEFINE u == WithAcct(t, a, r)
<1>1. /\ u \in Tabs /\ u.acct = [t.acct EXCEPT ![a] = r] /\ u.stor = t.stor
      /\ u.code = t.code /\ u.tran = t.tran /\ u.inner = t.inner
  BY WithAcctFacts
<1>2. View(u).stor = View(t).stor
  BY <1>1, SameStor
<1> HIDE DEF u
<1>3. View(u) = [View(t) EXCEPT !.acct = [t.acct EXCEPT ![a] = r]]
  BY <1>1, <1>2, ViewDiffers
<1> QED BY <1>3, ViewRecord DEF u

\* Dropping an outer binding drops every slot of the address, as the copying
\* store sees it.
LEMMA ViewNoOuter ==
  ASSUME NEW t \in Tabs, NEW a \in Addr
  PROVE  View(NoOuter(t, a)) = Reference!DropSlots(View(t), a)
<1> DEFINE u == NoOuter(t, a)
<1>1. /\ u \in Tabs /\ u.stor = [t.stor EXCEPT ![a] = Absent] /\ u.acct = t.acct
      /\ u.code = t.code /\ u.tran = t.tran /\ u.inner = t.inner
  BY NoOuterFacts
<1> HIDE DEF u
<1>2. \A b \in Addr : u.stor[b] = IF b = a THEN Absent ELSE t.stor[b]
  BY <1>1 DEF Tabs, Outers
<1>3. View(u).stor = [View(t).stor EXCEPT ![a] = [k \in Slot |-> Absent]]
  BY <1>1, <1>2, ZenonT(60) DEF View, SlotsOf
<1>4. View(u) = [View(t) EXCEPT !.stor = [View(t).stor EXCEPT ![a] = [k \in Slot |-> Absent]]]
  BY <1>1, <1>3, ViewDiffers
<1> QED BY <1>4 DEF u, Reference!DropSlots, Reference!NoSlots, Reference!Put

\* modify_state_commit, seen through the maps.
LEMMA ViewCommit ==
  ASSUME NEW t \in Tabs, NEW a \in Addr, NEW r \in Account
  PROVE  /\ CommitTab(t, a, r) \in Tabs
         /\ View(CommitTab(t, a, r)) = Reference!Commit(View(t), a, r)
<1>1. NoOuter(t, a) \in Tabs
  BY NoOuterFacts
<1>2. CommitTab(t, a, r) \in Tabs
  BY <1>1, WithAcctFacts DEF CommitTab
<1>3. View(CommitTab(t, a, r)) = Reference!Commit(View(t), a, r)
  BY <1>1, ViewWithAcct, ViewNoOuter DEF CommitTab, Reference!Commit, Reference!Put
<1> QED BY <1>2, <1>3

\* A write to transient storage, as the copying store sees it.
LEMMA ViewTran ==
  ASSUME NEW t \in Tabs, NEW a \in Addr, NEW k \in Slot, NEW v \in Word
  PROVE  View(TranTab(t, a, k, v)) =
           [View(t) EXCEPT !.tran = Reference!Put(@, <<a, k>>, IF v = 0 THEN Absent ELSE v)]
<1> DEFINE n == IF v = 0 THEN Absent ELSE v
           u == Rebind(t, "tran", <<a, k>>, n)
<1>1. /\ u \in Tabs /\ u.stor = t.stor /\ u.inner = t.inner /\ u.acct = t.acct
      /\ u.code = t.code /\ u.tran = [t.tran EXCEPT ![<<a, k>>] = n]
  BY DEF Rebind, Tabs, Trans
<1>2. View(u).stor = View(t).stor
  BY <1>1, SameStor
<1> HIDE DEF n, u
<1>3. View(u) = [View(t) EXCEPT !.tran = [t.tran EXCEPT ![<<a, k>>] = n]]
  BY <1>1, <1>2, ViewDiffers
<1> QED BY <1>3, ViewRecord DEF u, n, TranTab, Reference!Put

\* A recorded code, as the copying store sees it.
LEMMA ViewCode ==
  ASSUME NEW t \in Tabs, NEW h \in CodeHash
  PROVE  /\ Rebind(t, "code", h, h) \in Tabs
         /\ View(Rebind(t, "code", h, h)) = [View(t) EXCEPT !.code = Reference!Put(@, h, h)]
<1> DEFINE u == Rebind(t, "code", h, h)
<1>1. /\ u \in Tabs /\ u.stor = t.stor /\ u.inner = t.inner /\ u.acct = t.acct
      /\ u.tran = t.tran /\ u.code = [t.code EXCEPT ![h] = h]
  BY DEF Rebind, Tabs, Codes
<1>2. View(u).stor = View(t).stor
  BY <1>1, SameStor
<1> HIDE DEF u
<1>3. View(u) = [View(t) EXCEPT !.code = [t.code EXCEPT ![h] = h]]
  BY <1>1, <1>2, ViewDiffers
<1> QED BY <1>1, <1>3, ViewRecord DEF u, Reference!Put

\* set_storage: a slot written through the address's inner table, or through
\* the new one it allocates, is the only binding a reader sees change.
LEMMA ViewSlot ==
  ASSUME NEW x, Good(x), NEW a \in Addr, NEW k \in Slot, NEW v \in Word,
         x.tab.stor[a] = Absent => x.nInner + 1 <= MaxInner
  PROVE  View(SlotTab(x, a, k, v)) = Reference!PutSlot(View(x.tab), a, k, v)
<1> DEFINE t == x.tab
           s == View(t).stor
<1>1. t \in Tabs /\ x.nInner \in Nat /\ MaxInner \in Nat /\ OwnedTables(t, x.nInner)
  BY GoodFacts, TrackerAssumption
<1> DEFINE i == IF t.stor[a] # Absent THEN t.stor[a] ELSE x.nInner + 1
           w == Rebind(t, "stor", a, i)
           u == Rebind(w, "inner", <<i, k>>, v)
           old == s[a]
<1>2. i \in 1 .. MaxInner /\ i # Absent
  BY <1>1, TrackerAssumption DEF OwnedTables, Tabs, Outers
<1> HIDE DEF i
<1>3. /\ w \in Tabs /\ w.acct = t.acct /\ w.code = t.code /\ w.tran = t.tran
      /\ w.inner = t.inner /\ w.stor = [t.stor EXCEPT ![a] = i]
  BY <1>1, <1>2 DEF Rebind, Tabs, Outers
<1> HIDE DEF w
<1>4. /\ u \in Tabs /\ u.acct = w.acct /\ u.code = w.code /\ u.tran = w.tran
      /\ u.stor = w.stor /\ u.inner = [w.inner EXCEPT ![<<i, k>>] = v]
  BY <1>2, <1>3 DEF Rebind, Tabs, Inners
<1>5. SlotTab(x, a, k, v) = u
  <2>1. CASE t.stor[a] # Absent
    <3>1. w = t
      BY <1>1, <1>3, <2>1, SameTabs DEF i, Tabs, Outers
    <3> QED BY <2>1, <3>1 DEF SlotTab, i
  <2>2. CASE t.stor[a] = Absent
    BY <2>2 DEF SlotTab, i, w
  <2> QED BY <2>1, <2>2
<1> HIDE DEF u
<1>6. \A j \in 1 .. MaxInner, l \in Slot :
        u.inner[<<j, l>>] = IF j = i /\ l = k THEN v ELSE t.inner[<<j, l>>]
  BY <1>1, <1>2, <1>3, <1>4 DEF Tabs, Inners
<1>7. SlotsOf(u, a) = [old EXCEPT ![k] = v]
  <2>1. u.stor[a] = i /\ i # Absent
    BY <1>1, <1>2, <1>3, <1>4 DEF Tabs, Outers
  <2>2. \A l \in Slot : t.inner[<<i, l>>] = old[l]
    <3>1. CASE t.stor[a] = Absent
      BY <1>1, <1>2, <3>1 DEF OwnedTables, i, View, SlotsOf
    <3>2. CASE t.stor[a] # Absent
      BY <3>2 DEF i, View, SlotsOf
    <3> QED BY <3>1, <3>2
  <2>3. old = [l \in Slot |-> old[l]]
    BY DEF View, SlotsOf
  <2> HIDE DEF old
  <2> QED BY <1>2, <1>6, <2>1, <2>2, <2>3, ZenonT(60) DEF SlotsOf
<1>8. \A b \in Addr : b # a => u.stor[b] = t.stor[b]
  BY <1>1, <1>3, <1>4 DEF Tabs, Outers
<1>9. ASSUME NEW b \in Addr, b # a
      PROVE  SlotsOf(u, b) = SlotsOf(t, b)
  <2>1. t.stor[b] # Absent => t.stor[b] \in 1 .. MaxInner /\ t.stor[b] # i
    BY <1>1, <1>9 DEF OwnedTables, i, Tabs, Outers
  <2> QED BY <1>6, <1>8, <1>9, <2>1 DEF SlotsOf
<1>10. View(u).stor = [s EXCEPT ![a] = [old EXCEPT ![k] = v]]
  <2>1. \A b \in Addr : SlotsOf(u, b) = IF b = a THEN [old EXCEPT ![k] = v] ELSE s[b]
    BY <1>7, <1>9 DEF View
  <2>2. s = [b \in Addr |-> s[b]] /\ View(u).stor = [b \in Addr |-> SlotsOf(u, b)]
    BY DEF View
  <2> HIDE DEF s, old
  <2> QED BY <2>1, <2>2
<1>11. View(u) = [View(t) EXCEPT !.stor = [s EXCEPT ![a] = [old EXCEPT ![k] = v]]]
  BY <1>1, <1>3, <1>4, <1>10, ViewDiffers
<1> QED BY <1>5, <1>11, ViewRecord DEF Reference!PutSlot, Reference!Put
-----------------------------------------------------------------------------
(***************************************************************************)
(* The simulation.  Cur and Stk are what Reference substitutes.            *)
(***************************************************************************)
Cur == IF tx.stop # "no" THEN <<>>
       ELSE IF restoring THEN Last(saved) ELSE View(tx.tab)
Stk == IF restoring THEN Front(saved) ELSE saved

\* While the guest runs, the copying store's maps are the tracker's as read.
LEMMA CurRunning ==
  Inv /\ Running => Cur = View(tx.tab) /\ Cur # <<>> /\ Stk = saved
<1>1. Inv => tx.tab \in Tabs
  BY GoodTx, GoodFacts
<1> QED BY <1>1, ViewRecord DEF Running, Cur, Stk

\* A change of the mapped maps alone is a step Becomes of the copying store.
LEMMA BecomesStep ==
  ASSUME NEW c, Cur # <<>>, Cur' = c, Stk' = Stk
  PROVE  Reference!Becomes(c)
BY DEF Reference!Becomes, Reference!Stopped, Cur, Stk

\* A trap or a StateErr is the step Stop of the copying store.
LEMMA StopStep ==
  ASSUME Cur # <<>>, Cur' = <<>>, Stk' = Stk
  PROVE  Reference!Next
BY DEF Reference!Next, Reference!Stop, Reference!Stopped, Cur, Stk

\* A call of the tracker stops the guest or leaves the maps it should.
LEMMA DoSim ==
  ASSUME Inv, NEW p, NEW y, Do(p, y), NEW t, Leads(tx, y, t)
  PROVE  Reference!Next \/ (Reference!Becomes(View(t)) /\ Cur = View(tx.tab) /\ y.stop = "no")
<1>1. /\ tx' = y /\ saved' = saved /\ restoring' = restoring /\ ~restoring
      /\ Cur = View(tx.tab) /\ Cur # <<>>
  BY CurRunning DEF Do, Running
<1>2. Stk' = Stk
  BY <1>1 DEF Stk
<1>3. CASE y.stop # "no"
  <2>1. Cur' = <<>>
    BY <1>1, <1>3 DEF Cur
  <2> QED BY <1>1, <1>2, <2>1, StopStep
<1>4. CASE y.stop = "no"
  <2>1. y.tab = t
    BY <1>4 DEF Leads
  <2>2. Cur' = View(t)
    BY <1>1, <1>4, <2>1 DEF Cur
  <2> QED BY <1>1, <1>2, <1>4, <2>2, BecomesStep
<1> QED BY <1>3, <1>4

TxTyped == tx.tab \in Tabs /\ Good(tx) /\ bs \in BlockState /\ tx.created \subseteq Addr

\* Under the invariant the tracker's state has the types the mapping needs.
LEMMA Typed == Inv => TxTyped
<1>1. Inv => tx.created \subseteq Addr
  BY DEF Inv, TypeOK, TxState
<1> QED BY <1>1, GoodTx, GoodFacts DEF TxTyped

\* A step that leads to the same maps is a stutter of the copying store.
LEMMA CurMaps == Reference!Becomes(View(tx.tab)) /\ Cur = View(tx.tab)
                 => UNCHANGED <<Cur, Stk>>
BY DEF Reference!Becomes, Cur, Stk

\* Any of the calls that commit one account.
LEMMA ChangeSim ==
  ASSUME Inv, NEW p, NEW y, Do(p, y), NEW a \in Addr, NEW r \in Account,
         Leads(tx, y, CommitTab(tx.tab, a, r))
  PROVE  Reference!Next
<1> DEFINE t == CommitTab(tx.tab, a, r)
<1>1. View(t) = Reference!Commit(View(tx.tab), a, r)
  BY Typed, ViewCommit DEF TxTyped
<1> HIDE DEF t
<1>2. CASE Reference!Becomes(View(t)) /\ Cur = View(tx.tab)
  BY <1>1, <1>2 DEF Reference!Next, Reference!Change, Cur
<1> QED BY <1>2, DoSim DEF t

\* An account whose slots are dropped and that is then committed.
LEMMA ResetSim ==
  ASSUME Inv, NEW p, NEW y, Do(p, y), NEW a \in Addr, NEW r \in Account,
         Leads(tx, y, CommitTab(NoOuter(tx.tab, a), a, r))
  PROVE  Reference!Next
<1> DEFINE t == CommitTab(NoOuter(tx.tab, a), a, r)
<1>1. View(t) = Reference!Commit(Reference!DropSlots(View(tx.tab), a), a, r)
  <2>1. NoOuter(tx.tab, a) \in Tabs
    BY Typed, NoOuterFacts DEF TxTyped
  <2>2. View(NoOuter(tx.tab, a)) = Reference!DropSlots(View(tx.tab), a)
    BY Typed, ViewNoOuter DEF TxTyped
  <2>3. View(t) = Reference!Commit(View(NoOuter(tx.tab, a)), a, r)
    BY <2>1, ViewCommit
  <2> QED BY <2>2, <2>3
<1> HIDE DEF t
<1>2. CASE Reference!Becomes(View(t)) /\ Cur = View(tx.tab)
  BY <1>1, <1>2 DEF Reference!Next, Reference!Reset, Cur
<1> QED BY <1>2, DoSim DEF t

\* A read changes what is on record, never the maps.
LEMMA ReadSim ==
  ASSUME Inv, NEW p, NEW y, Do(p, y), Leads(tx, y, tx.tab)
  PROVE  Reference!Next \/ UNCHANGED <<Cur, Stk>>
BY DoSim, CurMaps

\* The reads are stutters.
LEMMA ReadsSim ==
  Inv /\ (ReadAccount \/ ReadStorage) => Reference!Next \/ UNCHANGED <<Cur, Stk>>
BY Typed, ReadAcctLeads, SloadLeads, ReadSim DEF ReadAccount, ReadStorage, TxTyped

\* Each writing action is a step of the copying store: op_sstore.
LEMMA WriteStorageSim == Inv /\ WriteStorage => Reference!Next
<1> SUFFICES ASSUME Inv, NEW a \in Addr, NEW k \in Slot, NEW v \in Word,
                    Do("message", SetStorage(Sload(tx, a, k), bs, a, k, v))
             PROVE  Reference!Next
  BY DEF WriteStorage
<1> DEFINE x == Sload(tx, a, k)
           y == SetStorage(x, bs, a, k, v)
           t == SlotTab(x, a, k, v)
<1>1. tx.stop = "no"
  BY DEF Do, Running
<1>2. Leads(tx, y, t)
  BY <1>1, Typed, StoreLeads DEF TxTyped
<1>3. Good(x) /\ x.tab = tx.tab
  BY Typed, SloadLeads DEF TxTyped, Leads
<1>4. x \in TxState
  BY <1>3 DEF Good
<1> HIDE DEF x
<1>5. y.stop = "no" => (x.tab.stor[a] = Absent => x.nInner + 1 <= MaxInner)
  <2> SUFFICES ASSUME x.tab.stor[a] = Absent, ~(x.nInner + 1 <= MaxInner)
               PROVE  y.stop # "no"
    OBVIOUS
  <2>1. x.nInner + 1 > MaxInner
    BY <1>3, GoodFacts, TrackerAssumption
  <2>2. ReadAcct(x, a) \in TxState
    BY <1>4 DEF ReadAcct, TxState
  <2>3. y \in {[ReadAcct(x, a) EXCEPT !.stop = "err3"], [ReadAcct(x, a) EXCEPT !.stop = "trap1"]}
    BY <2>1 DEF SetStorage
  <2> HIDE DEF y
  <2> QED BY <2>2, <2>3 DEF TxState
<1> HIDE DEF y, t
<1>6. CASE Reference!Becomes(View(t)) /\ Cur = View(tx.tab) /\ y.stop = "no"
  <2>1. View(t) = Reference!PutSlot(View(tx.tab), a, k, v)
    BY <1>3, <1>5, <1>6, ViewSlot DEF t
  <2> QED BY <1>6, <2>1 DEF Reference!Next, Reference!Store, Cur
<1> QED BY <1>2, <1>6, DoSim DEF x, y, t

\* The same for op_tstore.
LEMMA WriteTransientSim == Inv /\ WriteTransient => Reference!Next
<1> SUFFICES ASSUME Inv, NEW a \in Addr, NEW k \in Slot, NEW v \in Word,
                    Do("message", SetTransient(tx, a, k, v))
             PROVE  Reference!Next
  BY DEF WriteTransient
<1> DEFINE t == TranTab(tx.tab, a, k, v)
           q == <<a, k>>
<1>1. Leads(tx, SetTransient(tx, a, k, v), t)
  BY Typed, SetTransientLeads DEF TxTyped
<1>2. View(t) = [View(tx.tab) EXCEPT !.tran = Reference!Put(@, q, IF v = 0 THEN Absent ELSE v)]
  BY Typed, ViewTran DEF TxTyped
<1>3. q \in Addr \X Slot
  OBVIOUS
<1> HIDE DEF t, q
<1>4. CASE Reference!Becomes(View(t)) /\ Cur = View(tx.tab)
  BY <1>2, <1>3, <1>4 DEF Reference!Next, Reference!StoreTransient, Cur
<1> QED BY <1>1, <1>4, DoSim

\* The same for move_ether.
LEMMA TransferSim == Inv /\ Transfer => Reference!Next
<1> SUFFICES ASSUME Inv, NEW s \in Addr, NEW d \in Addr, NEW n \in Word,
                    Do("message", MoveEther(tx, bs, s, d, n))
             PROVE  Reference!Next
  BY DEF Transfer
<1>1. PICK q \in Account, r \in Account :
        Leads(tx, MoveEther(tx, bs, s, d, n), CommitTab(CommitTab(tx.tab, s, q), d, r))
  BY Typed, MoveEtherLeads DEF TxTyped
<1> DEFINE t == CommitTab(CommitTab(tx.tab, s, q), d, r)
<1>2. View(t) = Reference!Commit(Reference!Commit(View(tx.tab), s, q), d, r)
  <2>1. /\ CommitTab(tx.tab, s, q) \in Tabs
        /\ View(CommitTab(tx.tab, s, q)) = Reference!Commit(View(tx.tab), s, q)
    BY Typed, ViewCommit DEF TxTyped
  <2>2. View(t) = Reference!Commit(View(CommitTab(tx.tab, s, q)), d, r)
    BY <2>1, ViewCommit
  <2> QED BY <2>1, <2>2
<1> HIDE DEF t
<1>3. CASE Reference!Becomes(View(t)) /\ Cur = View(tx.tab)
  BY <1>2, <1>3 DEF Reference!Next, Reference!Transfer, Cur
<1> QED BY <1>1, <1>3, DoSim DEF t

\* The same for set_code.
LEMMA InstallCodeSim == Inv /\ InstallCode => Reference!Next
<1> SUFFICES ASSUME Inv, NEW a \in Addr, NEW h \in CodeHash,
                    Do("message", SetCode(tx, bs, a, h))
             PROVE  Reference!Next
  BY DEF InstallCode
<1> DEFINE w == Rebind(tx.tab, "code", h, h)
<1>1. PICK r \in Account :
        Leads(tx, SetCode(tx, bs, a, h),
              CommitTab(IF h = EmptyCode THEN tx.tab ELSE w, a, r))
  BY Typed, SetCodeLeads DEF TxTyped
<1>2. CASE h = EmptyCode
  BY <1>1, <1>2, ChangeSim
<1>3. CASE h # EmptyCode
  <2> DEFINE t == CommitTab(w, a, r)
  <2>1. View(t) = Reference!Commit([View(tx.tab) EXCEPT !.code = Reference!Put(@, h, h)], a, r)
    <3>1. w \in Tabs /\ View(w) = [View(tx.tab) EXCEPT !.code = Reference!Put(@, h, h)]
      BY Typed, ViewCode DEF TxTyped
    <3> HIDE DEF w
    <3>2. View(t) = Reference!Commit(View(w), a, r)
      BY <3>1, ViewCommit
    <3> QED BY <3>1, <3>2
  <2>2. Leads(tx, SetCode(tx, bs, a, h), t)
    BY <1>1, <1>3
  <2> HIDE DEF t
  <2>3. CASE Reference!Becomes(View(t)) /\ Cur = View(tx.tab)
    BY <2>1, <2>3 DEF Reference!Next, Reference!Install, Cur
  <2> QED BY <2>2, <2>3, DoSim
<1> QED BY <1>2, <1>3

\* The same for the changes of one account.
LEMMA CommitsSim == Inv /\ (Debit \/ Credit \/ BumpNonce) => Reference!Next
<1>1. Inv /\ Debit => Reference!Next
  BY Typed, SetBalanceLeads, ChangeSim DEF Debit, TxTyped
<1>2. Inv /\ Credit => Reference!Next
  BY Typed, CreateEtherLeads, ChangeSim DEF Credit, TxTyped
<1>3. Inv /\ BumpNonce => Reference!Next
  BY Typed, IncrementNonceLeads, ChangeSim DEF BumpNonce, TakeNonce, TxTyped
<1> QED BY <1>1, <1>2, <1>3

\* The same for a creation and for an account that selfdestructed.
LEMMA ResetsSim == Inv /\ (Clear \/ StartCreate) => Reference!Next
<1>1. Inv /\ Clear => Reference!Next
  BY Typed, ClearLeads, ResetSim DEF Clear, TxTyped
<1>2. Inv /\ StartCreate => Reference!Next
  BY Typed, CreateLeads, ResetSim DEF StartCreate, TxTyped
<1> QED BY <1>1, <1>2

\* process_withdrawals: one credit, whose undo records are dropped at once.
LEMMA WithdrawSim == Inv /\ Withdraw => Reference!Next
<1> SUFFICES ASSUME Inv, Withdraw PROVE Reference!Next
  OBVIOUS
<1>1. PICK a \in Addr, n \in Word :
        LET y == CreateEther(tx, bs, a, n)
        IN  tx' = IF y.stop # "no" THEN y ELSE [y EXCEPT !.journal = <<>>, !.hist = <<y.tab>>]
  BY DEF Withdraw
<1> DEFINE y == CreateEther(tx, bs, a, n)
<1>2. PICK r \in Account : Leads(tx, y, CommitTab(tx.tab, a, r))
  BY Typed, CreateEtherLeads DEF TxTyped
<1> DEFINE t == CommitTab(tx.tab, a, r)
<1>3. View(t) = Reference!Commit(View(tx.tab), a, r)
  BY Typed, ViewCommit DEF TxTyped
<1>4. /\ saved' = saved /\ restoring' = restoring /\ ~restoring
      /\ Cur = View(tx.tab) /\ Cur # <<>>
  BY CurRunning DEF Withdraw, Running
<1>5. Stk' = Stk
  BY <1>4 DEF Stk
<1>6. y \in TxState
  BY <1>2 DEF Leads, Good
<1> HIDE DEF y, t
<1>7. CASE y.stop # "no"
  <2>1. Cur' = <<>>
    BY <1>1, <1>7 DEF Cur, y
  <2> QED BY <1>4, <1>5, <2>1, StopStep
<1>8. CASE y.stop = "no"
  <2>1. y.tab = t
    BY <1>2, <1>8 DEF Leads, t
  <2>2. tx'.tab = y.tab /\ tx'.stop = "no"
    BY <1>1, <1>6, <1>8 DEF TxState, y
  <2>3. Cur' = View(t)
    BY <1>4, <2>1, <2>2 DEF Cur
  <2>4. Reference!Becomes(View(t))
    BY <1>4, <1>5, <2>3, BecomesStep
  <2> QED BY <1>3, <1>4, <2>4 DEF Reference!Next, Reference!Change, Cur
<1> QED BY <1>7, <1>8

\* state_fresh_tx begins with empty maps.
LEMMA FreshSim == Inv /\ Fresh => Reference!Next
<1> SUFFICES ASSUME Inv, Fresh PROVE Reference!Next
  OBVIOUS
<1>1. marks = <<>> /\ saved = <<>> /\ restoring = FALSE
  BY NoMarks DEF Fresh
<1>2. Cur # <<>> /\ Stk = <<>> /\ Stk' = Stk
  BY <1>1, CurRunning DEF Fresh, Stk
<1>3. View(EmptyTab) = Reference!NoMaps
  BY DEF View, EmptyTab, SlotsOf, Reference!NoMaps, Reference!NoSlots
<1>4. Cur' = Reference!NoMaps
  BY <1>1, <1>3 DEF Cur, Fresh, FreshTx
<1> QED BY <1>2, <1>4 DEF Reference!Next, Reference!Begin, Reference!Stopped, Cur, Stk

\* state_snapshot is the copying store's Save.
LEMMA SnapshotSim == Inv /\ Snapshot => Reference!Next
<1> SUFFICES ASSUME Inv, Snapshot PROVE Reference!Next
  OBVIOUS
<1>1. Cur = View(tx.tab) /\ Cur # <<>> /\ Stk = saved
  BY CurRunning DEF Snapshot
<1>2. Cur' = Cur /\ Stk' = Append(Stk, Cur)
  BY <1>1 DEF Snapshot, Running, Cur, Stk
<1> QED BY <1>1, <1>2 DEF Reference!Next, Reference!Save, Reference!Stopped, Cur, Stk

\* In a message a snapshot is outstanding.
LEMMA SavedNotEmpty == Inv /\ phase = "message" => saved # <<>> /\ marks # <<>>
<1>1. Inv /\ phase = "message" => Len(saved) # 0 /\ marks # <<>>
  BY DEF Inv, TypeOK
<1> QED BY <1>1

\* A frame that succeeds forgets the copy.
LEMMA KeepSim == Inv /\ Keep => Reference!Next
<1> SUFFICES ASSUME Inv, Keep PROVE Reference!Next
  OBVIOUS
<1>1. Cur' = Cur /\ Stk = saved /\ Stk' = Front(saved) /\ saved # <<>>
  BY CurRunning, SavedNotEmpty DEF Keep, Pop, Running, Cur, Stk
<1> QED BY <1>1 DEF Reference!Next, Reference!Forget, Front, Cur, Stk

\* The rollback takes effect where its loop begins; its turns are not seen.
LEMMA BeginRestoreSim == Inv /\ BeginRestore => Reference!Next
<1> SUFFICES ASSUME Inv, BeginRestore PROVE Reference!Next
  OBVIOUS
<1>1. Cur # <<>> /\ Stk = saved /\ saved # <<>>
  BY CurRunning, SavedNotEmpty DEF BeginRestore
<1>2. Cur' = Last(saved) /\ Stk' = Front(saved)
  BY DEF BeginRestore, Running, Cur, Stk
<1> QED BY <1>1, <1>2 DEF Reference!Next, Reference!Restore, Reference!Stopped,
                         Front, Last, Cur, Stk

\* One turn of the loop of state_restore is a stutter: the copy is back already.
LEMMA UndoSim == Inv /\ UndoOne => UNCHANGED <<Cur, Stk>>
<1>1. Inv /\ UndoOne => tx'.stop = tx.stop
  BY DEF Inv, TypeOK, TxState, UndoOne, Undo
<1> QED BY <1>1 DEF UndoOne, Cur, Stk

\* The end of the loop is a stutter, as RollbackExact says.
LEMMA EndRestoreSim == Inv /\ EndRestore => UNCHANGED <<Cur, Stk>>
<1> SUFFICES ASSUME Inv, EndRestore PROVE UNCHANGED <<Cur, Stk>>
  OBVIOUS
<1>1. RollbackExact
  BY InvRollback
<1>2. View(tx.tab) = Last(saved)
  BY <1>1 DEF RollbackExact, EndRestore
<1> QED BY <1>2 DEF EndRestore, Pop, Cur, Stk

\* The merge into the block layer is a stutter of the transaction's maps.
LEMMA IncorporateSim == Inv /\ Incorporate => UNCHANGED <<Cur, Stk>>
BY DEF Incorporate, Cur, Stk

\* Every step of the tracker is a step of the copying store or a stutter.
LEMMA StepSim == Inv /\ [Next]_vars => Reference!Next \/ UNCHANGED <<Cur, Stk>>
<1>1. UNCHANGED vars => UNCHANGED <<Cur, Stk>>
  BY DEF vars, Cur, Stk
<1> QED BY <1>1, ReadsSim, WriteStorageSim, WriteTransientSim, TransferSim, InstallCodeSim,
           CommitsSim, ResetsSim, WithdrawSim, FreshSim, SnapshotSim, KeepSim,
           BeginRestoreSim, UndoSim, EndRestoreSim, IncorporateSim DEF Next

\* state.pnk:1-6: the journal and the inner tables are observationally equal
\* to copying the maps at every snapshot.
THEOREM Implements == Spec => RefinesReference
<1>1. Init => Reference!Init
  <2>1. Init => Cur = View(EmptyTab) /\ Stk = <<>>
    BY DEF Init, FreshTx, Cur, Stk
  <2>2. View(EmptyTab) = Reference!NoMaps
    BY DEF View, EmptyTab, SlotsOf, Reference!NoMaps, Reference!NoSlots
  <2> QED BY <2>1, <2>2 DEF Reference!Init, Cur, Stk
<1>2. Inv /\ [Next]_vars => [Reference!Next]_(Reference!vars)
  BY StepSim DEF Reference!vars, Cur, Stk
<1> QED BY <1>1, <1>2, Invariance, PTL DEF Spec, RefinesReference, Reference!Spec
=============================================================================
