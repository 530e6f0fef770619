--------------------------------- MODULE Rlp ---------------------------------
(***************************************************************************)
(* Recursive Length Prefix: the strict decoder and the encoder that        *)
(* tools/gen_rlp_vectors.py defines by recursion, and the decoder of       *)
(* guest/src/lib/rlp.pnk, whose validation of nested lists is a loop with  *)
(* an explicit stack.                                                      *)
(*                                                                         *)
(* The ranges of the first byte are parameters, so that small numbers show *)
(* every form: bytes below Direct stand for themselves (128), a payload of *)
(* at most Short bytes has a header of one byte (55), and a longer one has *)
(* a length of at most LongLens bytes (8). A string starts at Direct, a    *)
(* list at Lists (192), and Base (256) is the number of bytes.             *)
(***************************************************************************)
LOCAL INSTANCE Integers
LOCAL INSTANCE Sequences
LOCAL INSTANCE SequencesExt

CONSTANTS Direct, Short, LongLens

Lists == Direct + Short + LongLens + 1
Base  == Lists + Short + LongLens + 1

Err(why) == [err |-> why]
IsErr(r) == "err" \in DOMAIN r

From(bs, n) == SubSeq(bs, n + 1, Len(bs))   \* bs[n:]
Upto(bs, n) == SubSeq(bs, 1, n)             \* bs[:n]

\* int.from_bytes(bs, "big")
RECURSIVE FromBytes(_)
FromBytes(bs) == IF bs = <<>> THEN 0 ELSE FromBytes(Front(bs)) * Base + Last(bs)

-----------------------------------------------------------------------------
(* The encoder. A value is [str |-> bytes] or [list |-> values].             *)

RECURSIVE Be(_)
Be(n) == IF n = 0 THEN <<>> ELSE Append(Be(n \div Base), n % Base)

Header(base, n) ==
    IF n <= Short THEN <<base + n>>
    ELSE <<base + Short + Len(Be(n))>> \o Be(n)

EncBytes(b) ==
    IF Len(b) = 1 /\ b[1] < Direct THEN b ELSE Header(Direct, Len(b)) \o b

RECURSIVE Enc(_)
Enc(v) ==
    IF "str" \in DOMAIN v THEN EncBytes(v.str)
    ELSE LET payload == FlattenSeq([i \in DOMAIN v.list |-> Enc(v.list[i])])
         IN  Header(Lists, Len(payload)) \o payload

\* rlp_encode_word
EncWord(w) ==
    CASE w = 0 -> <<Direct>>
      [] w # 0 /\ w < Direct -> <<w>>
      [] OTHER -> <<Direct + Len(Be(w))>> \o Be(w)

-----------------------------------------------------------------------------
(* The reference decoder: [kind, off, len, total] or an error                *)

ReadLength(bs, n) ==
    CASE Len(bs) < n -> Err("truncated")
      [] Len(bs) >= n /\ n > 1 /\ bs[1] = 0 -> Err("leading zero")
      [] OTHER -> [len |-> FromBytes(Upto(bs, n))]

\* One level of an item: its header, read and checked.
ItemHeader(bs) ==
    LET b    == bs[1]
        kind == IF b >= Lists THEN "list" ELSE "str"
        base == IF b >= Lists THEN Lists ELSE Direct
        short(n) ==
            CASE Len(bs) - 1 < n -> Err("truncated")
              [] Len(bs) - 1 >= n /\ kind = "str" /\ n = 1 /\ bs[2] < Direct -> Err("single byte")
              [] OTHER -> [kind |-> kind, off |-> 1, len |-> n, total |-> 1 + n]
        long(ll) ==
            LET r == ReadLength(Tail(bs), ll)
            IN  CASE IsErr(r) -> r
                  [] ~IsErr(r) /\ r.len <= Short -> Err("short form")
                  [] ~IsErr(r) /\ r.len > Short ->
                       IF Len(bs) - 1 - ll < r.len THEN Err("truncated")
                       ELSE [kind |-> kind, off |-> 1 + ll, len |-> r.len,
                             total |-> 1 + ll + r.len]
    IN  CASE bs = <<>> -> Err("empty")
          [] bs # <<>> /\ b < Direct -> [kind |-> "str", off |-> 0, len |-> 1, total |-> 1]
          [] bs # <<>> /\ b >= Direct ->
               IF b <= base + Short THEN short(b - base) ELSE long(b - base - Short)

Payload(bs, h) == SubSeq(bs, h.off + 1, h.off + h.len)

\* An item is its header, unless it is a list whose items are not items.
Checked(h, items) == IF ~IsErr(h) /\ h.kind = "list" /\ IsErr(items) THEN items ELSE h

\* One item more than the rest, or the first error.
OneMore(it, rest) ==
    IF IsErr(it) THEN it ELSE IF IsErr(rest) THEN rest ELSE [count |-> 1 + rest.count]

\* list_count: the number of items.
RECURSIVE ListCount(_)
ListCount(payload) ==
    LET h  == ItemHeader(payload)
        it == Checked(h, ListCount(Payload(payload, h)))
    IN  IF payload = <<>> THEN [count |-> 0]
        ELSE OneMore(it, ListCount(From(payload, it.total)))

Item(bs) == LET h == ItemHeader(bs) IN Checked(h, ListCount(Payload(bs, h)))

\* rlp_decode_fully
Whole(bs, it) == IF ~IsErr(it) /\ it.total # Len(bs) THEN Err("trailing") ELSE it
DecodeFully(bs) == Whole(bs, Item(bs))

\* The values of the items of a payload, and the one that bs decodes to.
RECURSIVE DecodedItems(_)
DecodedItems(payload) ==
    IF payload = <<>> THEN <<>>
    ELSE LET it    == ItemHeader(payload)
             value == IF it.kind = "str" THEN [str |-> Payload(payload, it)]
                      ELSE [list |-> DecodedItems(Payload(payload, it))]
         IN  <<value>> \o DecodedItems(From(payload, it.total))
Decoded(bs) == DecodedItems(bs)[1]

\* rlp_bytes_to_word and rlp_check_uint_bytes
BytesToWord(b) ==
    CASE Len(b) > LongLens -> Err("too long")
      [] Len(b) <= LongLens /\ b # <<>> /\ b[1] = 0 -> Err("leading zero")
      [] OTHER -> [word |-> FromBytes(b)]
CheckUintBytes(b, maxbytes) ==
    CASE b # <<>> /\ b[1] = 0 -> Err("leading zero")
      [] ~(b # <<>> /\ b[1] = 0) /\ maxbytes # 0 /\ Len(b) > maxbytes -> Err("too long")
      [] OTHER -> [ok |-> TRUE]

\* record: what the test program must report of bs, which decodes to it.
RecordOf(bs, it) ==
    LET b == Payload(bs, it)
        w == BytesToWord(b)
    IN  CASE IsErr(it) -> [status |-> "error", prefix |-> IsErr(Item(bs))]
          [] ~IsErr(it) /\ it.kind = "str" ->
               [status |-> "str", len |-> it.len, word |-> w,
                reencoded |-> EncBytes(b) = bs,
                reencodedWord |-> ~IsErr(w) /\ EncWord(w.word) = bs,
                uint |-> ~IsErr(CheckUintBytes(b, 0)),
                uintOfHalf |-> ~IsErr(CheckUintBytes(b, LongLens \div 2))]
          [] ~IsErr(it) /\ it.kind = "list" ->
               [status |-> "list", len |-> it.len, count |-> ListCount(b).count,
                reencoded |-> Header(Lists, it.len) = Upto(bs, it.off)]
Record(bs) == RecordOf(bs, DecodeFully(bs))

-----------------------------------------------------------------------------
(* rlp.pnk: the items of a payload are checked without recursion. bs is the  *)
(* memory, positions are offsets into it, and the stack holds where each     *)
(* enclosing list resumes and ends.                                          *)

\* a mistake: what follows a nested list is not looked at
NestedLast(stack, after, end) == <<[resume |-> after, end |-> after]>> \o stack

Nested(stack, after, end) == <<[resume |-> after, end |-> end]>> \o stack

\* _rlp_validate_items_body
RECURSIVE ValidateItems(_, _, _, _)
ValidateItems(bs, pos, end, stack) ==
    LET h == ItemHeader(SubSeq(bs, pos + 1, end))
    IN  CASE pos = end /\ stack = <<>> -> [ok |-> TRUE]
          [] pos = end /\ stack # <<>> ->
               ValidateItems(bs, stack[1].resume, stack[1].end, Tail(stack))
          [] pos # end /\ IsErr(h) -> h
          [] pos # end /\ ~IsErr(h) ->
               IF h.kind = "list"
               THEN ValidateItems(bs, pos + h.off, pos + h.total,
                                  Nested(stack, pos + h.total, end))
               ELSE ValidateItems(bs, pos + h.total, end, stack)

\* rlp_item_total and rlp_list_count on the payload from pos to end.
ItemTotal(bs, pos, end) ==
    LET h == ItemHeader(SubSeq(bs, pos + 1, end))
    IN  Checked(h, ValidateItems(bs, pos + h.off, pos + h.total, <<>>))
RECURSIVE GuestCount(_, _, _)
GuestCount(bs, pos, end) ==
    LET t == ItemTotal(bs, pos, end)
    IN  IF pos >= end THEN [count |-> 0]
        ELSE OneMore(t, GuestCount(bs, pos + t.total, end))

\* rlp_item, then rlp_decode_fully.
GuestItem(bs) ==
    LET h == ItemHeader(bs) IN Checked(h, GuestCount(bs, h.off, h.total))
GuestDecodeFully(bs) == Whole(bs, GuestItem(bs))

\* rlp_list_to_slices: the second pass reads the totals unchecked.
RECURSIVE Slices(_, _, _)
Slices(bs, pos, n) ==
    IF n = 0 THEN <<>>
    ELSE LET t == ItemHeader(From(bs, pos)).total
         IN  <<[at |-> pos, len |-> t]>> \o Slices(bs, pos + t, n - 1)

-----------------------------------------------------------------------------
\* What is accepted encodes back to itself, so no value has two encodings, and
\* neither a prefix nor an extension of it is accepted (rlp_decode_fully); a short
\* string is an integer exactly if it is the encoding of one (rlp_check_uint_bytes,
\* rlp_encode_word).
AcceptedIsCanonical(bs) ==
    ~IsErr(DecodeFully(bs)) =>
      /\ Enc(Decoded(bs)) = bs
      /\ IsErr(DecodeFully(Front(bs))) /\ IsErr(DecodeFully(Append(bs, 0)))
      /\ Record(bs).reencoded
      /\ Record(bs).status = "str" /\ Record(bs).len <= Short =>
           Record(bs).reencodedWord = Record(bs).uint

\* What is encoded is accepted, and decodes to the value (rlp_encode).
EncodingIsAccepted(v) == ~IsErr(DecodeFully(Enc(v))) /\ Decoded(Enc(v)) = v

\* The slices lie one after another from off to total.
Adjacent(s, off, total) ==
    /\ \A i \in DOMAIN s :
         s[i].at = IF i = 1 THEN off ELSE s[i - 1].at + s[i - 1].len
    /\ s # <<>> => Last(s).at + Last(s).len = total

\* rlp_list_count and rlp_list_to_slices of the list it.
SlicesFill(bs, it) ==
    /\ GuestCount(bs, it.off, it.total) = ListCount(Payload(bs, it))
    /\ Adjacent(Slices(bs, it.off, ListCount(Payload(bs, it)).count), it.off, it.total)

\* The loop with its stack accepts what the recursion accepts, and refuses for
\* the same reason (rlp.pnk: "same checks and failure codes, in the same order");
\* the slices of an accepted list lie one after another and fill its payload.
GuestRlpAgrees(bs) ==
    /\ GuestDecodeFully(bs) = DecodeFully(bs)
    /\ Record(bs).status = "list" => SlicesFill(bs, Item(bs))
=============================================================================
