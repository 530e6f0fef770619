-------------------------------- MODULE Bench --------------------------------
(***************************************************************************)
(* tools/bench.py measures one or two guests over a manifest and stores a  *)
(* snapshot; tools/bench_compare.py compares two snapshots and reports     *)
(* regressions.  The emulator's outputs are kept in work/bench under the   *)
(* variant and the position of the row among the selected ones; they are   *)
(* not removed before a run, and the emulator's exit status is not looked  *)
(* at.                                                                     *)
(***************************************************************************)
EXTENDS Integers, Sequences, FiniteSets

CONSTANTS
    Manifest,   \* a sequence of rows [label, expected]
    Guests,     \* [row -> [writes, out, steps]]: what Spike makes of each row; it
                \* counts steps (else -1) only if the guest halted, having written
    Threshold,  \* --max-regress, in percent
    Absent      \* no such file

BenchRows == {Manifest[i] : i \in DOMAIN Manifest}
Variants == <<"software", "accelerated">>

\* Steps are counted, and the threshold is not negative (parse_threshold).
ASSUME BenchAssumption ==
    /\ Manifest \in Seq(BenchRows)
    /\ \A g \in Guests, row \in BenchRows : g[row].writes \in BOOLEAN /\ g[row].steps \in Int
    /\ Threshold \in Nat
    /\ Absent # 0

VARIABLES
    elfs,       \* the guests of the run that goes on: one, or two
    selected,   \* the rows it selected, <<>> when no run goes on
    turn,       \* the results so far: <<row, variant>> in the order of the loops
    outFile,    \* work/bench: what each file holds, and which run wrote it
    old, new,   \* two snapshot files
    status      \* of the last comparison

benchVars == <<elfs, selected, turn, outFile, old, new, status>>

-----------------------------------------------------------------------------
(* run_variant *)

\* a mistake: both variants write to the same file
StemOfIndex(variant, index) == <<1, index>>

Stem(variant, index) == <<variant, index>>
Stems == (1..2) \X (1..Len(Manifest))

\* What is in the output file once the emulator has ended.
Output(elf, row, stem) ==
    IF elf[row].writes THEN [out |-> elf[row].out, fresh |-> TRUE] ELSE outFile[stem]

Result(elf, row, stem) ==
    LET file == Output(elf, row, stem)
    IN  [label |-> row.label,
         ok    |-> file # Absent /\ file.out = row.expected,
         steps |-> elf[row].steps]

-----------------------------------------------------------------------------
(* totals_for, and the snapshot that main writes *)

Sum(f) ==
    LET Upto[n \in 0..Len(f)] == IF n = 0 THEN 0 ELSE f[n] + Upto[n - 1]
    IN  Upto[Len(f)]

Counted(fixtures) == {i \in DOMAIN fixtures : fixtures[i].ok}
Total(fixtures) ==
    Sum([i \in DOMAIN fixtures |-> IF i \in Counted(fixtures) THEN fixtures[i].steps ELSE 0])

\* The primary variant of each row.
Fixtures(results, width) ==
    [i \in 1..(Len(results) \div width) |-> results[(i - 1) * width + 1]]

-----------------------------------------------------------------------------
(* bench_compare.py *)

FixtureLabels(fixtures) == {fixtures[i].label : i \in DOMAIN fixtures}

\* load_snapshot refuses a label that occurs twice.
Loadable(fixtures) == fixtures # Absent /\ Cardinality(FixtureLabels(fixtures)) = Len(fixtures)
Fixture(fixtures, l) == fixtures[CHOOSE i \in DOMAIN fixtures : fixtures[i].label = l]

\* a mistake: the growth is compared with what it grew to
RegressedOfNew(a, b) == a > 0 /\ b > 0 /\ (b - a) * 100 > Threshold * b

\* instruction_regressed: a count that is missing or zero never regresses.
Regressed(a, b) == a > 0 /\ b >= 0 /\ (b - a) * 100 > Threshold * a

\* fixture_result
Problem(o, n, l) ==
    \/ l \notin FixtureLabels(o) \/ l \notin FixtureLabels(n)
    \/ /\ l \in FixtureLabels(o) /\ l \in FixtureLabels(n)
       /\ LET x == Fixture(o, l)
              y == Fixture(n, l)
          IN  (x.ok /\ ~y.ok) \/ Regressed(x.steps, y.steps)

CompareStatus(o, n) ==
    IF ~Loadable(o) \/ ~Loadable(n) THEN 2
    ELSE IF \E l \in FixtureLabels(o) \cup FixtureLabels(n) : Problem(o, n, l) THEN 1 ELSE 0

-----------------------------------------------------------------------------
BenchInit ==
    /\ elfs = <<>> /\ selected = <<>> /\ turn = <<>>
    /\ outFile = [s \in Stems |-> Absent]
    /\ old = Absent /\ new = Absent
    /\ status = Absent

\* --filter and --limit leave out rows; what is left keeps its order and is
\* numbered anew.
Ascending(n) ==
    {at \in [1..n -> DOMAIN Manifest] : \A j, k \in 1..n : j < k => at[j] < at[k]}
Selections ==
    UNION {{[k \in 1..n |-> Manifest[at[k]]] : at \in Ascending(n)} : n \in 1..Len(Manifest)}

Begin ==
    /\ selected = <<>>
    /\ \E sel \in Selections, g \in Guests :
         /\ selected' = sel
         /\ elfs' \in {<<g>>} \cup {<<g, h>> : h \in Guests}
    /\ turn' = <<>>
    /\ outFile' = [s \in Stems |->
                     IF outFile[s] = Absent THEN Absent ELSE [outFile[s] EXCEPT !.fresh = FALSE]]
    /\ UNCHANGED <<old, new, status>>

\* One turn of the inner loop: the next variant of the row, or the next row.
RunVariant ==
    /\ Len(turn) < Len(selected) * Len(elfs)
    /\ LET n       == Len(turn)
           index   == (n \div Len(elfs)) + 1
           variant == (n % Len(elfs)) + 1
           stem    == Stem(variant, index)
       IN  /\ turn' = Append(turn, Result(elfs[variant], selected[index], stem))
           /\ outFile' = [outFile EXCEPT ![stem] = Output(elfs[variant], selected[index], stem)]
    /\ UNCHANGED <<elfs, selected, old, new, status>>

\* All rows are measured; the snapshot goes to the file the user named.
Finish ==
    /\ selected # <<>> /\ Len(turn) = Len(selected) * Len(elfs)
    /\ LET snapshot == Fixtures(turn, Len(elfs))
       IN  \/ old' = snapshot /\ new' = new
           \/ new' = snapshot /\ old' = old
    /\ selected' = <<>> /\ elfs' = <<>> /\ turn' = <<>>
    /\ status' = Absent
    /\ UNCHANGED outFile

\* The run is stopped; the files of the rows it reached stay.
Interrupt ==
    /\ selected # <<>>
    /\ selected' = <<>> /\ elfs' = <<>> /\ turn' = <<>>
    /\ UNCHANGED <<outFile, old, new, status>>

Compare ==
    /\ selected = <<>> /\ old # Absent /\ new # Absent
    /\ status' = CompareStatus(old, new)
    /\ UNCHANGED <<elfs, selected, turn, outFile, old, new>>

BenchNext == Begin \/ RunVariant \/ Finish \/ Interrupt \/ Compare

BenchSpec == BenchInit /\ [][BenchNext]_benchVars

-----------------------------------------------------------------------------
\* A row that counts although its guest did not give the expected answer owes it
\* to a file of an earlier run, never to the other guest or another row of this
\* run (run_variant, totals_for).
OnlyLeftoversMislead ==
    \A n \in DOMAIN turn :
      LET row     == selected[((n - 1) \div Len(elfs)) + 1]
          variant == ((n - 1) % Len(elfs)) + 1
          guest   == elfs[variant][row]
          file    == outFile[Stem(variant, ((n - 1) \div Len(elfs)) + 1)]
      IN  turn[n].ok => \/ guest.writes /\ guest.out = row.expected
                        \/ file # Absent /\ ~file.fresh

\* If a comparison reports no regression, both snapshots count the same rows,
\* and all have a step count, then the total has not grown by more than the
\* threshold either (instruction_regressed, total_metrics).
TotalWithinThreshold ==
    LET labels(s) == {s[i].label : i \in Counted(s)}
    IN  /\ status = 0
        /\ labels(old) = labels(new)
        /\ \A s \in {old, new} : \A i \in Counted(s) : s[i].steps > 0
        => (Total(new) - Total(old)) * 100 <= Threshold * Total(old)
=============================================================================
