------------------------------ MODULE MCTools ------------------------------
(***************************************************************************)
(* The two users of a guest build in tools/: the gate and the benchmark.   *)
(* They share no file, so an execution is of one or of the other, as mode  *)
(* says.                                                                   *)
(***************************************************************************)
EXTENDS EestGate, Bench

VARIABLE mode

Answer(root, succ, tail, dbg) == [root |-> root, succ |-> succ, tail |-> tail, dbg |-> dbg]

RowA  == [label |-> "a", expected |-> [root |-> 1, succ |-> 1, tail |-> 1]]
RowA2 == [label |-> "a", expected |-> [root |-> 0, succ |-> 1, tail |-> 1]]
RowB  == [label |-> "b", expected |-> [root |-> 0, succ |-> 0, tail |-> Sentinel]]

\* Distinct labels, a label that occurs twice, and more rows than threads.
MCManifests == {<<RowA, RowB>>, <<RowA, RowB, RowA2>>}

Answered(a) == [rc |-> 0, writes |-> TRUE, out |-> a]
Right(row) == Answered(Answer(row.expected.root, row.expected.succ, row.expected.tail, 0))
Wrong(row) == Answered(Answer(1 - row.expected.root, 0, row.expected.tail, 2))
Silent     == [rc |-> 3, writes |-> FALSE, out |-> Answer(0, 0, Sentinel, 0)]
Stopped    == [rc |-> 3, writes |-> TRUE, out |-> Answer(0, 0, Sentinel, 1)]

\* One guest is wrong on one row; the other is right on that row, traps without
\* an output on another, and reaches the step cap on the third.
Older == [r \in Rows |-> IF r = RowB THEN Wrong(r) ELSE Right(r)]
Newer == [r \in Rows |-> IF r = RowB THEN Right(r) ELSE IF r = RowA THEN Silent ELSE Stopped]
MCBuilds == {Older, Newer}

-----------------------------------------------------------------------------
MCManifest == <<RowA, RowB>>

\* One guest is right; the other takes longer on a row and traps on another.
Takes(r, n) == [writes |-> TRUE, out |-> r.expected, steps |-> n]
MCGuests ==
  {[r \in {RowA, RowB} |-> Takes(r, 10)],
   [r \in {RowA, RowB} |-> IF r = RowA THEN Takes(r, 13)
                           ELSE [writes |-> FALSE, out |-> r.expected, steps |-> -1]]}

ToolsInit ==
  /\ mode \in {"gate", "bench"}
  /\ Init /\ BenchInit
  /\ mode = "bench" => build = Older /\ manifest = <<RowA, RowB>>
ToolsNext ==
  /\ mode' = mode
  /\ \/ mode = "gate" /\ Next /\ UNCHANGED benchVars
     \/ mode = "bench" /\ BenchNext /\ UNCHANGED vars
ToolsSpec ==
  /\ ToolsInit /\ [][ToolsNext]_<<mode, vars, benchVars>>
  /\ WF_vars(mode = "gate" /\ RunnerStep /\ UNCHANGED <<mode, benchVars>>)
=============================================================================
