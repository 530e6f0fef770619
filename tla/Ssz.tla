--------------------------------- MODULE Ssz ---------------------------------
(***************************************************************************)
(* The SSZ encoding of a StatelessInput: built as tools/ssz-inputs.py      *)
(* builds it, decoded as guest/src/ssz.pnk decodes it, and rewritten from  *)
(* one release's layout into another's as tools/compare-clients.py does.   *)
(*                                                                         *)
(* A blob is a sequence of cells, numbers below Cell (bytes). An offset    *)
(* takes two cells (four bytes), lower one first; the other fixed fields   *)
(* take one.                                                               *)
(***************************************************************************)
LOCAL INSTANCE Integers
LOCAL INSTANCE Sequences
LOCAL INSTANCE FiniteSets
LOCAL INSTANCE SequencesExt
LOCAL INSTANCE TLC

CONSTANTS
    Cell,        \* 256
    WdSize,      \* WITHDRAWAL_SIZE
    ReqSize,     \* the sizes of the five kinds of requests
    HashSize,    \* of a versioned hash
    MaxExtra,    \* MAX_EXTRA_DATA_BYTES
    MaxNode,     \* MAX_BYTES_PER_WITNESS_NODE
    MaxHeaders   \* MAX_WITNESS_HEADERS

OffSize == 2
Offset(n) == <<n % Cell, n \div Cell>>
OffsetAt(bs, at) == bs[at + 1] + Cell * bs[at + 2]
Slice(bs, from, to) == SubSeq(bs, from + 1, to)   \* bs[from:to]
Placeholder == <<>>                               \* an offset among the fixed parts

-----------------------------------------------------------------------------
(* The encoder *)

LengthsBefore(parts, i) == FoldLeft(LAMBDA n, p : n + Len(p), 0, SubSeq(parts, 1, i - 1))

Container(fixed, parts) ==
    LET size   == FoldLeft(LAMBDA n, f : n + IF f = Placeholder THEN OffSize ELSE Len(f), 0, fixed)
        nth(i) == Cardinality({j \in 1..i : fixed[j] = Placeholder})
        head   == [i \in DOMAIN fixed |->
                     IF fixed[i] = Placeholder
                     THEN Offset(size + LengthsBefore(parts, nth(i))) ELSE fixed[i]]
    IN  FlattenSeq(head) \o FlattenSeq(parts)

VarList(elements) ==
    LET offs == [i \in DOMAIN elements |->
                   Offset(OffSize * Len(elements) + LengthsBefore(elements, i))]
    IN  FlattenSeq(offs) \o FlattenSeq(elements)

Payload(v) ==
    Container(<< <<v.head>>, Placeholder, <<v.fee>>, Placeholder, Placeholder,
                 <<v.blobGas>>, Placeholder, <<v.slot>> >>,
              <<v.extra, VarList(v.txs), v.withdrawals, v.bal>>)
Requests(v) == Container([i \in 1..5 |-> Placeholder], v.requests)
NewPayloadRequest(v) ==
    Container(<<Placeholder, Placeholder, <<v.beaconRoot>>, Placeholder>>,
              <<Payload(v), v.hashes, Requests(v)>>)
Witness(v) ==
    Container(<<Placeholder, Placeholder, Placeholder>>,
              <<VarList(v.state), VarList(v.codes), VarList(v.headers)>>)

Schema == <<5, 1>>
StatelessInput(v) ==
    Schema \o Container(<<Placeholder, Placeholder, <<v.chain>> >>,
                        <<NewPayloadRequest(v), Witness(v)>>)

\* offset_positions: where the offsets of a blob are.
OffsetPositions(blob) ==
    LET npr == 2 + OffsetAt(blob, 2)
        wit == 2 + OffsetAt(blob, 4)
        pl  == npr + OffsetAt(blob, npr)
        rq  == npr + OffsetAt(blob, npr + 5)
    IN  {2, 4, npr, npr + 2, npr + 5, pl + 1, pl + 4, pl + 6, pl + 9}
          \cup {rq + 2 * i : i \in 0..4} \cup {wit + 2 * i : i \in 0..2}

\* The values fuzz_cases gives to an offset.
Boundaries(blob, current) ==
    {0, IF current = 0 THEN 0 ELSE current - 1, current + 1, current + 4, Len(blob),
     Len(blob) + 1, Cell * Cell - 1, Len(blob) \div 2}

WithOffset(blob, at, n) ==
    [blob EXCEPT ![at + 1] = Offset(n)[1], ![at + 2] = Offset(n)[2]]
WithCell(blob, at, delta) == [blob EXCEPT ![at] = (blob[at] + delta) % Cell]

-----------------------------------------------------------------------------
(* The decoder: [ok |-> value], or SszErr *)

SszErr == [err |-> "SszErr"]
Good(r) == DOMAIN r = {"ok"}

\* a mistake: the first offset need not follow the fixed part
OffsetsOkLoose(offs, fixed, len) ==
    \A i \in DOMAIN offs :
        /\ offs[i] \in fixed..len
        /\ i > 1 => offs[i] >= offs[i - 1]

\* ssz_check_offsets
OffsetsOk(offs, fixed, len) ==
    /\ offs[1] = fixed
    /\ \A i \in DOMAIN offs :
         /\ offs[i] \in fixed..len
         /\ i > 1 => offs[i] >= offs[i - 1]

\* What lies between the offsets, the last part to the end.
Between(bs, offs) ==
    LET ends == Append(offs, Len(bs))
    IN  [i \in DOMAIN offs |-> Slice(bs, offs[i], ends[i + 1])]

\* The parts of a container whose offsets are at these positions.
Parts(bs, positions, fixed) ==
    LET offs == [i \in DOMAIN positions |-> OffsetAt(bs, positions[i])]
    IN  IF Len(bs) < fixed THEN SszErr
        ELSE IF ~OffsetsOk(offs, fixed, Len(bs)) THEN SszErr
        ELSE [ok |-> Between(bs, offs)]

\* ssz_split_var_list, and decode_bytes_list with the limits on its elements.
SplitVarList(bs, lim, maxb) ==
    LET first == OffsetAt(bs, 0)
        offs  == [i \in 1..(first \div OffSize) |-> OffsetAt(bs, OffSize * (i - 1))]
        parts == Between(bs, offs)
    IN  CASE bs = <<>> -> [ok |-> <<>>]
          [] bs # <<>> /\ Len(bs) < OffSize -> SszErr
          [] bs # <<>> /\ Len(bs) >= OffSize ->
               IF first = 0 \/ first % OffSize # 0 \/ Len(bs) < first \/ Len(offs) > lim
                  \/ ~OffsetsOk(offs, first, Len(bs))
                  \/ \E i \in DOMAIN parts : Len(parts[i]) > maxb
               THEN SszErr ELSE [ok |-> parts]

FixedListOk(bs, size) == Len(bs) % size = 0

Unbounded == 1000000

DecodePayload(bs) ==
    LET r     == Parts(bs, <<1, 4, 6, 9>>, 12)
        parts == r.ok
        txs   == SplitVarList(parts[2], Unbounded, Unbounded)
    IN  IF Good(r) /\ Len(parts[1]) <= MaxExtra /\ Good(txs) /\ FixedListOk(parts[3], WdSize)
        THEN [ok |-> [head |-> bs[1], fee |-> bs[4], blobGas |-> bs[9], slot |-> bs[12],
                      extra |-> parts[1], txs |-> txs.ok, withdrawals |-> parts[3],
                      bal |-> parts[4]]]
        ELSE SszErr

DecodeRequests(bs) ==
    LET r == Parts(bs, <<0, 2, 4, 6, 8>>, 10)
    IN  IF Good(r) /\ \A i \in 1..5 : FixedListOk(r.ok[i], ReqSize[i]) THEN r ELSE SszErr

DecodeWitness(bs) ==
    LET r     == Parts(bs, <<0, 2, 4>>, 6)
        lists == <<SplitVarList(r.ok[1], Unbounded, MaxNode),
                   SplitVarList(r.ok[2], Unbounded, Unbounded),
                   SplitVarList(r.ok[3], MaxHeaders, Unbounded)>>
    IN  IF Good(r) /\ \A i \in 1..3 : Good(lists[i])
        THEN [ok |-> [i \in 1..3 |-> lists[i].ok]] ELSE SszErr

DecodeStatelessInput(blob) ==
    LET body == Slice(blob, 2, Len(blob))
        top  == Parts(body, <<0, 2>>, 5)
        npr  == top.ok[1]
        req  == Parts(npr, <<0, 2, 5>>, 7)
        pl   == DecodePayload(req.ok[1])
        rq   == DecodeRequests(req.ok[3])
        wit  == DecodeWitness(top.ok[2])
    IN  IF /\ Len(blob) >= 2 /\ Slice(blob, 0, 2) = Schema
           /\ Good(top) /\ Good(req)
           /\ Good(pl) /\ FixedListOk(req.ok[2], HashSize) /\ Good(rq) /\ Good(wit)
        THEN [ok |-> [hashes |-> req.ok[2], beaconRoot |-> npr[5], requests |-> rq.ok,
                      chain |-> body[5], state |-> wit.ok[1], codes |-> wit.ok[2],
                      headers |-> wit.ok[3]] @@ pl.ok]
        ELSE SszErr

-----------------------------------------------------------------------------
(* The layouts of other releases: v06 [request, witness, chain_config, keys],
   v084 [request, witness, chain_id, keys], v21 [request, witness, chain_id]. *)

V06(v, keys) ==
    Schema \o Container([i \in 1..4 |-> Placeholder],
                        <<NewPayloadRequest(v), Witness(v), <<v.chain, 0>>, keys>>)
V084(v, keys) ==
    Schema \o Container(<<Placeholder, Placeholder, <<v.chain>>, Placeholder>>,
                        <<NewPayloadRequest(v), Witness(v), keys>>)

\* The key of a transaction, two cells; zeros when it has no signer.
ClientKey(raw) == IF raw # <<>> /\ raw[1] # 0 THEN <<1, Last(raw)>> ELSE <<0, 0>>

V06ToV21(blob) ==
    LET body == Slice(blob, 2, Len(blob))
        o(i) == OffsetAt(body, 2 * i)
        npr  == Slice(body, o(0), o(1))
    IN  Slice(blob, 0, 2) \o Offset(5) \o Offset(5 + Len(npr)) \o <<body[o(2) + 1]>>
          \o npr \o Slice(body, o(1), o(2))

\* The v084 container around the parts of another layout.
Wrapped084(schema, npr, wit, chain, keys) ==
    schema \o Offset(7) \o Offset(7 + Len(npr)) \o <<chain>>
      \o Offset(7 + Len(npr) + Len(wit)) \o npr \o wit \o keys

V06ToV084(blob) ==
    LET body == Slice(blob, 2, Len(blob))
        o(i) == OffsetAt(body, 2 * i)
    IN  Wrapped084(Slice(blob, 0, 2), Slice(body, o(0), o(1)), Slice(body, o(1), o(2)),
                   body[o(2) + 1], Slice(body, o(3), Len(body)))

\* _transactions
Transactions(npr) ==
    LET pl   == Slice(npr, OffsetAt(npr, 0), OffsetAt(npr, 2))
        txs  == Slice(pl, OffsetAt(pl, 4), OffsetAt(pl, 6))
        n    == OffsetAt(txs, 0) \div OffSize
        offs == Append([i \in 1..n |-> OffsetAt(txs, OffSize * (i - 1))], Len(txs))
    IN  IF txs = <<>> THEN <<>> ELSE [i \in 1..n |-> Slice(txs, offs[i], offs[i + 1])]

V21ToV084(blob) ==
    LET body == Slice(blob, 2, Len(blob))
        npr  == Slice(body, OffsetAt(body, 0), OffsetAt(body, 2))
        txs  == Transactions(npr)
    IN  Wrapped084(Slice(blob, 0, 2), npr, Slice(body, OffsetAt(body, 2), Len(body)),
                   body[5], FlattenSeq([i \in DOMAIN txs |-> ClientKey(txs[i])]))

-----------------------------------------------------------------------------
\* What the decoder accepts is an encoding: whatever an offset, a length or a cell
\* is changed to, an accepted blob is rebuilt from the value it decodes to, with
\* nothing overlapping, skipped or left over (ssz.pnk, ssz-inputs.fuzz_cases).
AcceptedIsEncoding(blob) ==
    LET r == DecodeStatelessInput(blob)
    IN  Good(r) => StatelessInput(r.ok) = blob

\* A value of another release's blob survives the rewriting: the blob made by the
\* converters is the one that the value would have been encoded to
\* (compare-clients.py), and the guest decodes it to the value.
ConvertersAgree(v, keys) ==
    LET signers == FlattenSeq([i \in DOMAIN v.txs |-> ClientKey(v.txs[i])])
    IN  /\ DecodeStatelessInput(StatelessInput(v)) = [ok |-> v]
        /\ V06ToV21(V06(v, keys)) = StatelessInput(v)
        /\ V06ToV084(V06(v, keys)) = V084(v, keys)
        /\ V21ToV084(StatelessInput(v)) = V084(v, signers)
=============================================================================
