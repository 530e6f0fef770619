-------------------------------- MODULE Htab --------------------------------
(***************************************************************************)
(* The hash table of src/guest/src/lib/htab.pnk: open addressing with      *)
(* linear probing, deletion by shifting back, doubling at half load, and   *)
(* an iteration order kept beside the slots.  Every map and set of the     *)
(* guest is one of these.                                                  *)
(*                                                                         *)
(* A table t is a record.  t.slots joins the arrays used, keys and vals: a *)
(* slot holds <<key, value>>, or Free when its used byte is 0 (every       *)
(* reader of keys and vals looks at used first, or comes from order).      *)
(* t.order holds the first HT_COUNT words of the order array; t.pos is     *)
(* order_pos on the slots in use, so reading the entry of another slot is  *)
(* an error of the model.                                                  *)
(*                                                                         *)
(* hash is any function: TLC tries those of the model, so every pattern of *)
(* collisions and of runs that wrap around the end of the array occurs.    *)
(***************************************************************************)
EXTENDS Naturals, Sequences, FiniteSets

CONSTANTS
  Key,       \* keys
  Val,       \* values
  Hashes,    \* the hash functions to try
  InitCap,   \* cap of htab_new, a power of two
  MaxCap,    \* the capacity beyond which the heap has no room
  MaxMarks,  \* how many counts are remembered at once
  Free       \* an unused slot

VARIABLES
  hash,   \* htab_hash; never changes
  t,      \* the table
  marks   \* HT_COUNT as recorded for a later htab_truncate, and the keys then

vars == <<hash, t, marks>>

ASSUME HtabAssumption ==
  /\ Hashes \subseteq [Key -> Nat]
  /\ InitCap \in Nat \ {0, 1} /\ MaxCap \in Nat /\ InitCap <= MaxCap /\ MaxMarks \in Nat
  /\ Free \notin Key \X Val
-----------------------------------------------------------------------------
Empty(cap) == [cap |-> cap, slots |-> [i \in 0 .. cap - 1 |-> Free],
               order |-> <<>>, pos |-> <<>>]

Home(x, k) == hash[k] % x.cap
Used(x)    == {i \in 0 .. x.cap - 1 : x.slots[i] # Free}
Step(x, i) == (i + 1) % x.cap

\* how far from its home a probe for k may stop: at k, or at a free slot
Stops(x, k) ==
  {d \in 0 .. x.cap - 1 : LET e == x.slots[(Home(x, k) + d) % x.cap]
                          IN  e = Free \/ e[1] = k}
Probe(x, k) == (Home(x, k) + (CHOOSE d \in Stops(x, k) : \A e \in Stops(x, k) : d <= e)) % x.cap

\* the slot of k, or the capacity if k is absent
FindSlot(x, k) == LET i == Probe(x, k) IN IF x.slots[i] = Free THEN x.cap ELSE i
Has(x, k)      == FindSlot(x, k) # x.cap

\* htab_insert_raw: k is absent
InsertRaw(x, k, v) ==
  LET i == Probe(x, k)
  IN  [x EXCEPT !.slots[i] = <<k, v>>,
                !.order = Append(@, i),
                !.pos   = [s \in DOMAIN @ \cup {i} |->
                             IF s = i THEN Len(x.order) ELSE x.pos[s]]]

\* htab_grow: the entries go over in the order of iteration
Grow(x) ==
  LET moved[n \in 0 .. Len(x.order)] ==
        IF n = 0 THEN Empty(2 * x.cap)
        ELSE LET e == x.slots[x.order[n]] IN InsertRaw(moved[n - 1], e[1], e[2])
  IN  moved[Len(x.order)]

\* a mistake: the table doubles once it is full
FullBeforeGrow(x) == Len(x.order) + 1 > x.cap

NeedsRoom(x) == (Len(x.order) + 1) * 2 > x.cap

Store(x, k, v) ==
  LET i == FindSlot(x, k)
  IN  IF i # x.cap THEN [x EXCEPT !.slots[i] = <<k, v>>]
      ELSE InsertRaw(IF NeedsRoom(x) THEN Grow(x) ELSE x, k, v)

\* a mistake: runs that wrap around the end of the array are forgotten
MovableNoWrap(x, i, j) == Home(x, x.slots[j][1]) <= i

\* may the entry of slot j move back to the hole at i?
Movable(x, i, j) ==
  LET home == Home(x, x.slots[j][1])
  IN  IF i <= j THEN home <= i \/ home > j ELSE home <= i /\ home > j

\* a mistake: the value stays behind
MoveKeyOnly(x, i, j) ==
  [x EXCEPT !.slots[i] = <<x.slots[j][1], x.slots[i][2]>>,
            !.order[x.pos[j] + 1] = i,
            !.pos[i] = x.pos[j]]

\* the loop of htab_del: i is the hole, j the slot looked at
MoveBack(x, i, j) ==
  [x EXCEPT !.slots[i] = x.slots[j],
            !.order[x.pos[j] + 1] = i,
            !.pos[i] = x.pos[j]]

\* one turn of the loop of htab_del: of the table, the hole and the slot looked at;
\* it stays where it is once that slot is free
Turn(s) ==
  IF s.tab.slots[s.at] = Free THEN s
  ELSE IF Movable(s.tab, s.hole, s.at)
  THEN [tab |-> MoveBack(s.tab, s.hole, s.at), hole |-> s.at, at |-> Step(s.tab, s.at)]
  ELSE [s EXCEPT !.at = Step(s.tab, s.at)]

\* no more turns than there are slots
ShiftBack(x, i) ==
  LET after[n \in 0 .. x.cap] ==
        IF n = 0 THEN [tab |-> x, hole |-> i, at |-> Step(x, i)] ELSE Turn(after[n - 1])
  IN  after[x.cap]

\* a mistake: the order is patched also when the last entry goes
DelSlotAlwaysPatched(x, i) ==
  LET gone == x.pos[i] + 1
      end  == ShiftBack(x, i)
      y    == end.tab
      hole == end.hole
      last == Len(y.order)
      slot == y.order[last]
  IN  [y EXCEPT !.slots[hole] = Free,
                !.order = SubSeq([@ EXCEPT ![gone] = slot], 1, last - 1),
                !.pos   = [s \in DOMAIN @ \ {hole} |->
                             IF s = slot THEN gone - 1 ELSE y.pos[s]]]

\* htab_del, of the key at slot i: shift back, free the hole, and let the last
\* entry of the order take the place of the one deleted
DelSlot(x, i) ==
  LET gone == x.pos[i] + 1
      end  == ShiftBack(x, i)
      y    == end.tab
      hole == end.hole
      last == Len(y.order)
      slot == y.order[last]
  IN  [y EXCEPT !.slots[hole] = Free,
                !.order = SubSeq([@ EXCEPT ![gone] = slot], 1, last - 1),
                !.pos   = [s \in DOMAIN @ \ {hole} |->
                             IF s = slot /\ gone # last THEN gone - 1 ELSE y.pos[s]]]

\* a mistake: the first entry goes and not the last
DropFirst(x) == DelSlot(x, x.order[1])

\* htab_truncate: delete the last entry until n are left
DropLast(x) == DelSlot(x, FindSlot(x, x.slots[x.order[Len(x.order)]][1]))

CutTo(x, n) == IF Len(x.order) <= n THEN x ELSE DropLast(x)

Truncated(x, n) ==
  LET after[m \in 0 .. Len(x.order)] == IF m = 0 THEN x ELSE CutTo(after[m - 1], n)
  IN  after[Len(x.order)]

\* htab_item, for every ordinal; htab_keys
Items(x) == [n \in 1 .. Len(x.order) |-> x.slots[x.order[n]]]
Keys(x)  == [n \in 1 .. Len(x.order) |-> Items(x)[n][1]]
-----------------------------------------------------------------------------
Init == hash \in Hashes /\ t = Empty(InitCap) /\ marks = <<>>

Set(k, v) ==
  /\ Has(t, k) \/ ~NeedsRoom(t) \/ 2 * t.cap <= MaxCap
  /\ t' = Store(t, k, v) /\ UNCHANGED <<hash, marks>>

\* by htab.pnk:341 nothing but htab_truncate deletes from a table that is to
\* be truncated
Del(k) ==
  /\ Has(t, k) /\ marks = <<>>
  /\ t' = DelSlot(t, FindSlot(t, k)) /\ UNCHANGED <<hash, marks>>

\* start_child and frame_new record the counts of the access sets, and
\* rollback_child_access cuts them back if the frame fails
Mark ==
  /\ Len(marks) < MaxMarks
  /\ marks' = Append(marks, [n |-> Len(t.order), keys |-> Keys(t)])
  /\ UNCHANGED <<hash, t>>

Unmark == marks # <<>> /\ marks' = SubSeq(marks, 1, Len(marks) - 1)

Truncate == /\ Unmark /\ t' = Truncated(t, marks[Len(marks)].n)
            /\ UNCHANGED hash

Forget == Unmark /\ UNCHANGED <<hash, t>>

Next == \/ \E k \in Key, v \in Val : Set(k, v)
        \/ \E k \in Key : Del(k)
        \/ Mark \/ Truncate \/ Forget

Spec == Init /\ [][Next]_vars
-----------------------------------------------------------------------------
(***************************************************************************)
(* Properties.                                                             *)
(***************************************************************************)

\* order and order_pos describe the same bijection with the slots in use.
OrderMatchesSlots ==
  /\ {t.order[n] : n \in DOMAIN t.order} = Used(t)
  /\ \A n \in DOMAIN t.order : t.pos[t.order[n]] = n - 1

\* The arrays have the capacity's length and match, whatever htab_del moved.
TypeOK ==
  /\ t.cap \in InitCap .. MaxCap
  /\ t.slots \in [0 .. t.cap - 1 -> Key \X Val \cup {Free}]
  /\ t.order \in Seq(0 .. t.cap - 1)
  /\ DOMAIN t.pos = Used(t)
  /\ OrderMatchesSlots

\* Every entry can be found: htab_find_slot meets no free slot on the way from
\* the key's home to the key, whatever htab_del shifted back or htab_grow moved.
EveryKeyFound ==
  \A i \in Used(t) : FindSlot(t, t.slots[i][1]) = i

\* A probe for any key ends: at least half of the slots are free after any
\* sequence of calls, so the loops of htab_find_slot and htab_del stop.
ProbesEnd ==
  /\ 2 * Cardinality(Used(t)) <= t.cap
  /\ \A k \in Key : Stops(t, k) # {}

\* The table behaves as the ordered map of OrderedMap, whatever collides.
AsMap == INSTANCE OrderedMap WITH items <- Items(t)
RefinesOrderedMap == AsMap!Spec

\* htab_truncate undoes a failed frame's insertions: the keys are those of the
\* time the count was recorded, in their order.
TruncateRestores ==
  [][ Truncate => Keys(t') = marks[Len(marks)].keys ]_vars

\* "Iteration order is insertion order" (htab.pnk:5): the keys that stay keep
\* their order, and a new one goes last.
IterationIsInsertionOrder ==
  [][ LET stay == SelectSeq(Keys(t), LAMBDA k : k \in {Keys(t')[n] : n \in DOMAIN Keys(t')})
      IN  SubSeq(Keys(t'), 1, Len(stay)) = stay ]_vars
=============================================================================
