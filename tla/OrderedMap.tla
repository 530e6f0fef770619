----------------------------- MODULE OrderedMap -----------------------------
(***************************************************************************)
(* What the rest of the guest may assume of a table of lib/htab.pnk: a     *)
(* finite map that is read in a definite order.  A new key goes last, an   *)
(* update keeps its place, and a deletion puts the last entry in the place *)
(* of the one deleted.                                                     *)
(***************************************************************************)
EXTENDS Naturals, Sequences

CONSTANTS Key, Val

VARIABLE items   \* the entries <<key, value>>, in the order of htab_item

Place(k) == {i \in DOMAIN items : items[i][1] = k}

Init == items = <<>>

Insert(k, v) == Place(k) = {} /\ items' = Append(items, <<k, v>>)
Update(k, v) == \E i \in Place(k) : items' = [items EXCEPT ![i] = <<k, v>>]
Remove(k)    == \E i \in Place(k) :
                  items' = SubSeq([items EXCEPT ![i] = items[Len(items)]], 1, Len(items) - 1)
Cut(n)       == n < Len(items) /\ items' = SubSeq(items, 1, n)

Next == \/ \E k \in Key, v \in Val : Insert(k, v) \/ Update(k, v)
        \/ \E k \in Key : Remove(k)
        \/ \E n \in 0 .. Len(items) : Cut(n)

Spec == Init /\ [][Next]_items
=============================================================================
