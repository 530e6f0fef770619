------------------------------ MODULE MCVectors ------------------------------
(***************************************************************************)
(* The libraries of the guest against their references, on small numbers:  *)
(* an execution works on one trie of Mpt, or builds one input of an        *)
(* algorithm in a few choices. what says which; case is the input.         *)
(***************************************************************************)
EXTENDS Mpt, Integers

VARIABLES what, case

C == INSTANCE Curve
R == INSTANCE Rlp WITH Direct <- 2, Short <- 1, LongLens <- 2
S == INSTANCE Ssz WITH Cell <- 16, WdSize <- 2, ReqSize <- <<2, 1, 1, 2, 1>>,
                       HashSize <- 2, MaxExtra <- 2, MaxNode <- 3, MaxHeaders <- 2
U == INSTANCE U256 WITH Half <- 2, Limbs <- 3, ByteBits <- 2
L == INSTANCE Bls WITH P <- 7207, Order <- 601, BlsX <- 5, Coeff <- 8, Xi <- <<3, 1>>

-----------------------------------------------------------------------------
\* Keys of one length, as in a state trie, and one that begins with another, as
\* in the tries of transactions and receipts.
MCKey == {<<0, 0, 0>>, <<0, 0, 1>>, <<0, 0, 2>>, <<0, 1, 1>>, <<1, 1, 0>>, <<0, 0>>}

\* One value to begin with: the other one is written.
CONSTANTS First, Second
MCMaps == UNION {[ks -> {First}] : ks \in SUBSET MCKey}

-----------------------------------------------------------------------------
\* Curves of prime order with n < p, so that some abscissas are r + n.
Secp == [p |-> 43, n |-> 31, a |-> 0, b |-> 7, g |-> [x |-> 2, y |-> 12]]
P256 == [p |-> 43, n |-> 37, a |-> 40, b |-> 10, g |-> [x |-> 0, y |-> 15]]

Points(c) == {C!PubKey(c, d) : d \in 1..(c.n - 1)}
SecpPoints == Points(Secp)
P256Points == Points(P256)
BadPoints  == {C!At(0, 0), C!At(1, 1), C!At(43, 15), C!At(0, 58)}

Choose(of, input) == what' = of /\ case' = input /\ UNCHANGED vars

SignCase ==
  what = "signer"
    /\ \E e \in {0, 1, 17, 31, 40, 61}, k \in 1..30 :
         Choose("sign", [d |-> case, e |-> e, k |-> k])
RecoverCase ==
  what = "r"
    /\ \E e \in {0, 1, 30, 31, 32, 61}, s \in {0, 1, 2, 15, 30, 31, 32} :
         Choose("recover", [r |-> case, e |-> e, s |-> s])
VerifyCase ==
  what = "r256"
    /\ \E e \in {0, 38, 73}, s \in {0, 1, 17, 36, 37}, q \in P256Points \cup BadPoints :
         Choose("verify", [r |-> case, e |-> e, s |-> s, q |-> q])

SignaturesAgree ==
  /\ what = "sign" => C!RecoverFindsSigner(Secp, case.d, case.e, case.k)
  /\ what = "recover" /\ case.e \in {0, 30, 32} /\ case.s \in {0, 1, 15, 31} =>
       C!RecoverMeansVerify(Secp, SecpPoints, case.e, case.r, case.s)
  /\ what = "recover" =>
       \A recid \in 0..3 : C!GuestRecoverAgrees(Secp, 3, case.e, case.r, case.s, recid)
  /\ what = "verify" => C!GuestVerifyAgrees(P256, 6, case.e, case.r, case.s, case.q)

-----------------------------------------------------------------------------
\* Every string of up to four bytes, and those of up to six made of these bytes,
\* which can nest lists three deep with something behind the innermost: zero, the
\* lengths, the empty ones, the string of length one and the long list.
Few == {0, 2, 3, 4, 6, 8}
RlpCase ==
  what = "bytes"
    /\ \/ Len(case) < 4 /\ \E b \in 0..9 : Choose("bytes", Append(case, b))
       \/ /\ Len(case) \in 4..5
          /\ \E b \in Few : Choose("bytes", Append(case, b))
          /\ {case[i] : i \in DOMAIN case} \subseteq Few

Strings == {[str |-> s] : s \in UNION {[1..n -> {0, 9}] : n \in 0..3}}
Flat    == {[list |-> vs] : vs \in UNION {[1..n -> Strings] : n \in 0..1}}
RlpValues == Strings \cup Flat

\* A string, a list of one string, or a list of such.
ValueCase == what = "values" /\ \E v, w \in RlpValues : Choose("value", [list |-> <<v, w>>])

RlpAgrees ==
  /\ what = "bytes" => R!AcceptedIsCanonical(case) /\ R!GuestRlpAgrees(case)
  /\ what = "value" => R!EncodingIsAccepted(case)

-----------------------------------------------------------------------------
\* An input with empty lists, and one with every list in use.
Minimal == [head |-> 0, fee |-> 0, blobGas |-> 0, slot |-> 0, extra |-> <<>>, txs |-> <<>>,
            withdrawals |-> <<>>, bal |-> <<>>, hashes |-> <<>>, beaconRoot |-> 0,
            requests |-> [i \in 1..5 |-> <<>>], chain |-> 1, state |-> <<>>,
            codes |-> <<>>, headers |-> <<>>]
Lite == [Minimal EXCEPT !.head = 3, !.slot = 5, !.extra = <<1>>,
                        !.txs = <<<<1, 2>>, <<3>>>>, !.withdrawals = <<4, 4>>, !.bal = <<6>>,
                        !.hashes = <<8, 8>>, !.requests[2] = <<7>>, !.chain = 11,
                        !.state = <<<<2>>, <<2, 3>>>>, !.codes = <<<<>>, <<5>>>>,
                        !.headers = <<<<9>>>>]
SszValues == {Minimal, Lite, [Lite EXCEPT !.txs = <<<<0>>, <<>>, <<6, 6>>>>],
              [Minimal EXCEPT !.txs = <<<<2>>>>]}

\* One cell or up to two offsets are changed, or the end is missing.
CellCase ==
  what = "blob" /\ \E at \in DOMAIN case, delta \in {1, 4, 8, 15} :
    Choose("changed", S!WithCell(case, at, delta))
CutCase == what = "blob" /\ \E n \in 0..Len(case) : Choose("changed", S!Slice(case, 0, n))
OffsetCase ==
  what = "blob" /\ \E at, at2 \in S!OffsetPositions(case) :
    \E n \in S!Boundaries(case, S!OffsetAt(case, at)),
       n2 \in S!Boundaries(case, S!OffsetAt(case, at2)) :
      Choose("changed", S!WithOffset(S!WithOffset(case, at, n % 256), at2, n2 % 256))
LayoutCase == what = "layouts" /\ \E v \in SszValues : Choose("layout", v)

SszAcceptsEncodings ==
  /\ what \in {"blob", "changed"} => S!AcceptedIsEncoding(case)
  /\ what = "layout" => S!ConvertersAgree(case, <<1, 2>>)

-----------------------------------------------------------------------------
\* Numbers of three limbs: least, middle and greatest ones at each place; as b,
\* which also counts bits and bytes, all lowest limbs.
Words(low, mid, high) == {l + 16 * k + 256 * h : l \in low, k \in mid, h \in high}
WordsA == Words({0, 1, 8, 15}, {0, 1, 8, 15}, {0, 1, 8, 15})
WordsB == Words(0..15, {0, 8, 15}, {0, 15})
WordCase ==
  what = "word" /\ \E b \in WordsB, m \in {0, 3, 22, 2313, 4095} :
    Choose("words", [a |-> case, b |-> b, m |-> m])
ArithmeticAgrees == what = "words" => U!ArithmeticAgrees(case.a, case.b, case.m)

-----------------------------------------------------------------------------
G1 == [pt |-> <<<<5174, 0>>, <<6232, 0>>, <<1, 0>>>>]
G2 == [pt |-> <<<<895, 1065>>, <<2634, 5565>>, <<1, 0>>>>]
MultipleG1(k) == L!CoordsG1(L!PtMul(G1.pt, k))
MultipleG2(k) == L!CoordsG2(L!PtMul(G2.pt, k))

\* Points by their logarithms; -1 is for the bad ones: of the curve but of another
\* order, off the curve, out of the field.
LogsG1 == [d \in {MultipleG1(k) : k \in {0, 1, 2, 600}} |->
             CHOOSE k \in {0, 1, 2, 600} : MultipleG1(k) = d]
LogsG2 == [d \in {MultipleG2(k) : k \in {0, 1, 300, 599}} |->
             CHOOSE k \in {0, 1, 300, 599} : MultipleG2(k) = d]
BadG1 == {<<2, 4>>, <<5174, 6233>>, <<7207, 0>>}
BadG2 == {<<1, 4, 5239, 3479>>, <<895, 1065, 2634, 5566>>, <<895, 1065 + 7207, 2634, 5565>>}

Pair(d1, d2) ==
  [g1 |-> d1, g2 |-> d2,
   log |-> [a |-> IF d1 \in BadG1 THEN -1 ELSE LogsG1[d1],
            b |-> IF d2 \in BadG2 THEN -1 ELSE LogsG2[d2]]]

\* Up to two pairs; bad points with good ones.
PairCase ==
  what = "pairs" /\ Len(case) < 2
    /\ \E d1 \in DOMAIN LogsG1 \cup BadG1, d2 \in DOMAIN LogsG2 \cup BadG2 :
         Choose("pairs", Append(case, Pair(d1, d2)))

\* Points of the subgroup or not, and infinity.
PlainG1 == DOMAIN LogsG1 \cup {<<2, 4>>}
PlainG2 == DOMAIN LogsG2 \cup {<<1, 4, 5239, 3479>>}
SumCase ==
  \/ what = "g1" /\ \E d, e \in PlainG1, j \in {1, 600} :
       Choose("sum", [g1 |-> TRUE, x |-> case, y |-> d, z |-> e, j |-> j])
  \/ what = "g2" /\ \E d, e \in PlainG2 :
       Choose("sum", [g1 |-> FALSE, x |-> case, y |-> d, z |-> e, j |-> 2])

PairingDecides ==
  /\ what = "pairs" => L!PairingDecides(case, [i \in DOMAIN case |-> case[i].log])
  /\ what = "sum" => L!PointsAdd(case.g1, case.x, case.y, case.z, case.j, 1)

-----------------------------------------------------------------------------
Starts ==
  ({"signer"} \X (1..30)) \cup ({"r"} \X (0..61)) \cup ({"r256"} \X (0..73))
    \cup ({"word"} \X WordsA) \cup ({"bytes", "pairs"} \X {<<>>})
    \cup ({"values", "layouts"} \X {0})
    \cup ({"blob"} \X {S!StatelessInput(Minimal), S!StatelessInput(Lite)})
    \cup ({"g1"} \X PlainG1) \cup ({"g2"} \X PlainG2)

VectorsInit ==
  \/ what = "trie" /\ case = 0 /\ Init
  \/ /\ \E s \in Starts : what = s[1] /\ case = s[2]
     /\ tree = Empty /\ map = [k \in {} |-> First] /\ fresh = FALSE /\ err = "none"
VectorsNext ==
  \/ what = "trie" /\ Next /\ UNCHANGED <<what, case>>
  \/ SignCase \/ RecoverCase \/ VerifyCase \/ RlpCase \/ ValueCase
  \/ CellCase \/ CutCase \/ OffsetCase \/ LayoutCase \/ WordCase \/ PairCase \/ SumCase
VectorsSpec == VectorsInit /\ [][VectorsNext]_<<vars, what, case>>
=============================================================================
