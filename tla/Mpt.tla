--------------------------------- MODULE Mpt ---------------------------------
(***************************************************************************)
(* The incremental Merkle Patricia trie of guest/src/mpt.pnk, on the part  *)
(* of a trie that a witness holds, driven as tools/gen_mpt_vectors.py      *)
(* drives it: a witness is decoded, values are set and deleted, roots are  *)
(* computed in between.                                                    *)
(*                                                                         *)
(* A hash is the content it stands for: keccak is taken to be injective.   *)
(* Each node caches its hash, and a write must invalidate the caches on    *)
(* its path; a root computed from a stale cache would be wrong.            *)
(***************************************************************************)
EXTENDS Naturals, Sequences, FiniteSets

CONSTANTS
    Nibble,   \* 0 .. 15 in the program
    Key,      \* sequences of nibbles
    Value,    \* encoded values; an empty one deletes
    NoVal,    \* no value
    Maps      \* what the tries of the witness may hold: functions from keys to values

Uncached == <<"uncached">>

-----------------------------------------------------------------------------
(* Nodes *)

Empty            == [kind |-> "none"]
Leaf(path, v)    == [kind |-> "leaf", path |-> path, val |-> v, cache |-> Uncached]
Ext(path, child) == [kind |-> "ext", path |-> path, child |-> child, cache |-> Uncached]
Branch(kids, v)  == [kind |-> "branch", kids |-> kids, val |-> v, cache |-> Uncached]
Hashed(content)  == [kind |-> "hashed", hash |-> content]
Error(code)      == [kind |-> "error", code |-> code]
Failed(n)        == n.kind = "error"

NoKids == [i \in Nibble |-> Empty]

\* a mistake: the cache survives a write
InvalidateNot(n) == n

Invalidate(n) == [n EXCEPT !.cache = Uncached]

\* The reference a parent holds to a node: its cached hash if there is one.
RECURSIVE Ref(_)
Encoding(n) ==
    CASE n.kind = "none"   -> <<>>
      [] n.kind = "leaf"   -> <<"leaf", n.path, n.val>>
      [] n.kind = "ext"    -> <<"ext", n.path, Ref(n.child)>>
      [] n.kind = "branch" -> <<"branch", [i \in Nibble |-> Ref(n.kids[i])], n.val>>
Ref(n) ==
    IF n.kind = "hashed" THEN n.hash
    ELSE IF n.kind # "none" /\ n.cache # Uncached THEN n.cache
    ELSE Encoding(n)

\* Fill the caches of the node and of its descendants that have none.
RECURSIVE Filled(_)
Filled(n) ==
    IF n.kind \in {"none", "hashed"} \/ n.cache # Uncached THEN n
    ELSE LET m == CASE n.kind = "leaf"   -> n
                    [] n.kind = "ext"    -> [n EXCEPT !.child = Filled(n.child)]
                    [] n.kind = "branch" -> [n EXCEPT !.kids = [i \in Nibble |-> Filled(n.kids[i])]]
         IN  [m EXCEPT !.cache = Encoding(m)]

-----------------------------------------------------------------------------
(* Nibble paths *)

Drop(s, n) == SubSeq(s, n + 1, Len(s))
Take(s, n) == SubSeq(s, 1, n)

CommonPrefixLength(a, b) ==
    LET agree == {n \in 0..Len(a) : n <= Len(b) /\ Take(a, n) = Take(b, n)}
    IN  CHOOSE n \in agree : \A m \in agree : m <= n

-----------------------------------------------------------------------------
(* Look up *)

RECURSIVE Walk(_, _)
Walk(n, key) ==
    CASE n.kind = "none"   -> NoVal
      [] n.kind = "hashed" -> Error("hashed")
      [] n.kind = "leaf"   -> IF n.path = key THEN n.val ELSE NoVal
      [] n.kind = "ext"    ->
           IF Len(n.path) <= Len(key) /\ Take(key, Len(n.path)) = n.path
           THEN Walk(n.child, Drop(key, Len(n.path))) ELSE NoVal
      [] n.kind = "branch" ->
           IF key = <<>> THEN n.val ELSE Walk(n.kids[Head(key)], Tail(key))

-----------------------------------------------------------------------------
(* Insertion *)

\* A branch that holds v at path, which may be empty.
Put(br, path, v) ==
    IF path = <<>> THEN [br EXCEPT !.val = v]
    ELSE [br EXCEPT !.kids[Head(path)] = Leaf(Tail(path), v)]

Under(path, n) == IF path = <<>> THEN n ELSE Ext(path, n)

InsertIntoLeaf(n, key, v) ==
    IF n.path = key THEN [Invalidate(n) EXCEPT !.val = v]
    ELSE LET pl == CommonPrefixLength(n.path, key)
             br == Put(Put(Branch(NoKids, NoVal), Drop(n.path, pl), n.val), Drop(key, pl), v)
         IN  Under(Take(n.path, pl), br)

SplitExtension(n, key, v) ==
    LET pl   == CommonPrefixLength(n.path, key)
        old  == Drop(n.path, pl)
        rest == Drop(key, pl)
        br   == Branch([NoKids EXCEPT ![Head(old)] = Under(Tail(old), n.child)], NoVal)
    IN  IF rest # <<>> /\ br.kids[Head(rest)] # Empty THEN Error("split collision")
        ELSE Under(Take(n.path, pl), Put(br, rest, v))

RECURSIVE Insert(_, _, _)
Insert(n, key, v) ==
    CASE n.kind = "none"   -> Leaf(key, v)
      [] n.kind = "hashed" -> Error("hashed")
      [] n.kind = "leaf"   -> InsertIntoLeaf(n, key, v)
      [] n.kind = "ext"    ->
           IF CommonPrefixLength(n.path, key) = Len(n.path)
           THEN LET c == Insert(n.child, Drop(key, Len(n.path)), v)
                IN  IF Failed(c) THEN c ELSE [Invalidate(n) EXCEPT !.child = c]
           ELSE SplitExtension(n, key, v)
      [] n.kind = "branch" ->
           IF key = <<>> THEN [Invalidate(n) EXCEPT !.val = v]
           ELSE LET c == Insert(n.kids[Head(key)], Tail(key), v)
                IN  IF Failed(c) THEN c ELSE [Invalidate(n) EXCEPT !.kids[Head(key)] = c]

-----------------------------------------------------------------------------
(* Deletion *)

\* What becomes of a child that takes the place of its parent, which led to it
\* along path.
Lifted(path, child) ==
    CASE child.kind = "hashed" -> Error("hashed")
      [] child.kind = "branch" -> Ext(path, child)
      [] child.kind = "leaf"   -> Leaf(path \o child.path, child.val)
      [] child.kind = "ext"    -> Ext(path \o child.path, child.child)

\* a mistake: a branch with one child stays
CollapseLate(n) ==
    IF \E i \in Nibble : n.kids[i] # Empty THEN n
    ELSE IF n.val = NoVal THEN Error("empty branch") ELSE Leaf(<<>>, n.val)

Collapse(n) ==
    LET used == {i \in Nibble : n.kids[i] # Empty}
    IN  CASE used = {} -> IF n.val = NoVal THEN Error("empty branch") ELSE Leaf(<<>>, n.val)
          [] Cardinality(used) = 1 /\ n.val = NoVal ->
               LET i == CHOOSE i \in used : TRUE IN Lifted(<<i>>, n.kids[i])
          [] OTHER -> n

DeleteExtFinish(n, c) ==
    CASE Failed(c)         -> c
      [] c.kind = "none"   -> Empty
      [] c.kind = "branch" -> [Invalidate(n) EXCEPT !.child = c]
      [] OTHER             -> Lifted(n.path, c)

RECURSIVE Delete(_, _)
Delete(n, key) ==
    CASE n.kind = "none"   -> Empty
      [] n.kind = "hashed" -> Error("hashed")
      [] n.kind = "leaf"   -> IF n.path = key THEN Empty ELSE Invalidate(n)
      [] n.kind = "ext"    ->
           IF CommonPrefixLength(n.path, key) < Len(n.path) THEN Invalidate(n)
           ELSE DeleteExtFinish(n, Delete(n.child, Drop(key, Len(n.path))))
      [] n.kind = "branch" ->
           IF key = <<>>
           THEN IF n.val = NoVal THEN Invalidate(n)
                ELSE Collapse([Invalidate(n) EXCEPT !.val = NoVal])
           ELSE LET c == Delete(n.kids[Head(key)], Tail(key))
                IN  IF Failed(c) THEN c
                    ELSE Collapse([Invalidate(n) EXCEPT !.kids[Head(key)] = c])

\* mpt_set: no value deletes.
Set(n, key, v) == IF v = NoVal THEN Delete(n, key) ELSE Insert(n, key, v)

-----------------------------------------------------------------------------
(* The reference: the trie of a map, and the part of it a witness shows *)

\* The entries of m below a nibble or a path, with their keys shortened.
Below(m, path) ==
    LET keys == {k \in DOMAIN m : Len(k) >= Len(path) /\ Take(k, Len(path)) = path}
    IN  [k \in {Drop(x, Len(path)) : x \in keys} |-> m[path \o k]]

\* root(Trie) of the reference: the content of the trie that holds m.
RECURSIVE Patricia(_)
Patricia(m) ==
    LET keys   == DOMAIN m
        one    == CHOOSE k \in keys : TRUE
        shared == {n \in 0..Len(one) : \A k \in keys : Len(k) >= n /\ Take(k, n) = Take(one, n)}
        pl     == CHOOSE n \in shared : \A x \in shared : x <= n
    IN  CASE keys = {}             -> <<>>
          [] Cardinality(keys) = 1 -> <<"leaf", one, m[one]>>
          [] keys # {} /\ Cardinality(keys) > 1 /\ pl > 0 ->
               <<"ext", Take(one, pl), Patricia(Below(m, Take(one, pl)))>>
          [] OTHER ->
               <<"branch", [i \in Nibble |-> Patricia(Below(m, <<i>>))],
                 IF <<>> \in keys THEN m[<<>>] ELSE NoVal>>

\* The contents below the root: what collect_nodes gathers, and the witness may
\* lack.
RECURSIVE Collect(_)
Collect(content) ==
    IF content = <<>> \/ content[1] = "leaf" THEN {}
    ELSE LET kids == IF content[1] = "ext" THEN {content[3]}
                     ELSE {content[2][i] : i \in Nibble} \ {<<>>}
         IN  kids \cup UNION {Collect(c) : c \in kids}

\* decode_witness_to_mpt: a content whose preimage is missing is a hashed node.
RECURSIVE Decode(_, _)
Decode(content, withheld) ==
    CASE content = <<>>        -> Empty
      [] content \in withheld  -> Hashed(content)
      [] content[1] = "leaf"   -> [Leaf(content[2], content[3]) EXCEPT !.cache = content]
      [] content[1] = "ext"    ->
           [Ext(content[2], Decode(content[3], withheld)) EXCEPT !.cache = content]
      [] content[1] = "branch" ->
           [Branch([i \in Nibble |-> Decode(content[2][i], withheld)], content[3])
              EXCEPT !.cache = content]

-----------------------------------------------------------------------------
VARIABLES
    tree,   \* the root node of the handle
    map,    \* what the trie holds, withheld parts included
    fresh,  \* the witness was just decoded
    err     \* MPT_E_*, "none" while there was none

vars == <<tree, map, fresh, err>>

Without(m, k) == [x \in DOMAIN m \ {k} |-> m[x]]
With(m, k, v) == [x \in DOMAIN m \cup {k} |-> IF x = k THEN v ELSE m[x]]
Written(m, k, v) == IF v = NoVal THEN Without(m, k) ELSE With(m, k, v)

\* op_witness: the witness of some trie, from which nodes may be missing, the
\* root too. op_new is the empty trie.
Init ==
    /\ map \in Maps
    /\ fresh = TRUE
    /\ LET content == Patricia(map)
       IN  \E withheld \in SUBSET (Collect(content) \cup ({content} \ {<<>>})) :
             IF content \in withheld
             THEN tree = Empty /\ err = "root missing"
             ELSE tree = Decode(content, withheld) /\ err = "none"

\* op_set, and mpt_set of the guest: an error ends the use of the handle.
OpSet(k, v) ==
    /\ err = "none"
    /\ LET n == Set(tree, k, v)
       IN  IF Failed(n)
           THEN err' = n.code /\ UNCHANGED <<tree, map>>
           ELSE tree' = n /\ map' = Written(map, k, v) /\ err' = err
    /\ fresh' = FALSE

\* op_root leaves the caches filled.
OpRoot ==
    /\ err = "none"
    /\ tree' = Filled(tree)
    /\ fresh' = FALSE
    /\ UNCHANGED <<map, err>>

Next == OpRoot \/ \E k \in Key, v \in Value \cup {NoVal} : OpSet(k, v)
Spec == Init /\ [][Next]_vars

-----------------------------------------------------------------------------
(* The writes of one block to one storage trie: compute_state_root makes all
   insertions first, then all deletions. *)

RECURSIVE Apply(_, _, _)
Apply(n, writes, order) ==
    IF order = <<>> \/ Failed(n) THEN n
    ELSE Apply(Set(n, Head(order), writes[Head(order)]), writes, Tail(order))

Orders(ks) == {o \in [1..Cardinality(ks) -> ks] : \A i, j \in DOMAIN o : i # j => o[i] # o[j]}

\* a mistake: one pass in the order of the table
InPassesOne(o, writes) == TRUE

\* The orders of the two passes.
InPasses(o, writes) ==
    \A i, j \in DOMAIN o : writes[o[i]] = NoVal /\ writes[o[j]] # NoVal => j < i

-----------------------------------------------------------------------------
\* The root is that of the map, whatever was set, deleted and hashed before and
\* whatever the witness lacks: there is never a wrong root, and no stale cache
\* (scenario_withheld_collapse: "rejection, never a wrong root").
RootIsOfMap == err = "none" => Ref(tree) = Patricia(map)

\* Only missing nodes make an operation fail: "unexpected collision during
\* split" and "empty branch" never happen (MPT_E_SPLIT_COLLISION,
\* MPT_E_EMPTY_BRANCH), and a look-up that does not meet a missing node answers
\* what the map holds, whatever writes collapsed before it.
OnlyMissingNodesFail ==
    /\ err \in {"none", "hashed", "root missing"}
    /\ err = "none" =>
         \A k \in Key :
           Walk(tree, k) \in {Error("hashed"), IF k \in DOMAIN map THEN map[k] ELSE NoVal}

\* Insertions first: if a block's writes to a trie can be made in some order,
\* the order of the two passes makes them, so that a collapse onto a node the
\* witness lacks is not forced by the order (compute_state_root).
InsertionsFirstSuffices ==
    fresh /\ err = "none" =>
      \A ks \in {s \in SUBSET Key : Cardinality(s) \in 2..3} :
        \A writes \in [ks -> {NoVal, CHOOSE v \in Value : TRUE}] :
          (\E o \in Orders(ks) : ~Failed(Apply(tree, writes, o)))
            => \A o \in Orders(ks) :
                 InPasses(o, writes) => ~Failed(Apply(tree, writes, o))
=============================================================================
