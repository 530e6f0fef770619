--------------------------- MODULE EestGateProofs ---------------------------
(***************************************************************************)
(* What the gate reads and what it concludes, for any manifests, any       *)
(* guests and any number of threads, whatever was stopped and wherever.    *)
(***************************************************************************)
EXTENDS EestGate, FiniteSetTheorems, WellFoundedInduction, TLAPS

Distinct(s) == \A i, k \in DOMAIN s : s[i].label = s[k].label => i = k

\* Every nonempty set of numbers has a smallest.
LEMMA Smallest ==
  ASSUME NEW T, T \subseteq Nat, T # {}
  PROVE  \E m \in T : \A k \in T : m <= k
<1>1. PICK x \in T : \A y \in T : ~ (<<y, x>> \in OpToRel(<, Nat))
  BY WFMin, NatLessThanWellFounded
<1>2. \A y \in T : ~ (y < x)
  BY <1>1 DEF OpToRel
<1> QED BY <1>2

-----------------------------------------------------------------------------
(***************************************************************************)
(* Lemmas about the operators.                                             *)
(***************************************************************************)

\* A results file that summarize does not refuse has each label once: as many
\* labels as records leave no room for a repetition.
LEMMA NoDuplicates ==
  ASSUME NEW S, NEW recs \in Seq(S), ~HasDuplicates(recs)
  PROVE  Distinct(recs)
<1> DEFINE n == Len(recs)
           f == [i \in 1..n |-> recs[i].label]
<1>1. n \in Nat /\ DOMAIN recs = 1..n
  OBVIOUS
<1>2. IsFiniteSet(1..n) /\ Cardinality(1..n) = n
  BY <1>1, FS_Interval
<1>3. f \in Surjection(1..n, LabelsOf(recs))
  BY <1>1 DEF Surjection, LabelsOf
<1>4. /\ IsFiniteSet(LabelsOf(recs))
      /\ Cardinality(LabelsOf(recs)) <= Cardinality(1..n)
      /\ Cardinality(LabelsOf(recs)) = Cardinality(1..n) <=> f \in Injection(1..n, LabelsOf(recs))
  BY <1>2, <1>3, FS_Surjection
<1>5. Cardinality(LabelsOf(recs)) \in Nat
  BY <1>4, FS_CardinalityType
<1>6. Cardinality(LabelsOf(recs)) = n
  BY <1>1, <1>2, <1>4, <1>5 DEF HasDuplicates
<1>7. f \in Injection(1..n, LabelsOf(recs))
  BY <1>2, <1>4, <1>6
<1>8. QED BY <1>1, <1>7 DEF Injection, IsInjective, Distinct

\* select_labels finds a row of a label that the manifest has.
LEMMA FirstRowFound ==
  ASSUME manifest \in Seq(Rows), NEW l \in LabelsOf(manifest)
  PROVE  \E k \in DOMAIN manifest : FirstRow(l) = manifest[k] /\ manifest[k].label = l
<1> DEFINE T == {k \in DOMAIN manifest : manifest[k].label = l}
<1>1. T \subseteq Nat /\ T # {}
  BY DEF LabelsOf
<1>2. PICK m \in T : \A k \in T : m <= k
  BY <1>1, Smallest
<1>3. \A k \in 1..(m - 1) : manifest[k].label # l
  BY <1>2
<1>4. \E i \in DOMAIN manifest : /\ manifest[i].label = l
                                 /\ \A k \in 1..(i - 1) : manifest[k].label # l
  BY <1>2, <1>3
<1>5. QED BY <1>4 DEF FirstRow

\* ... which is the row, if no other one has its label.
LEMMA FirstRowOwn ==
  ASSUME manifest \in Seq(Rows), Distinct(manifest), NEW i \in DOMAIN manifest
  PROVE  FirstRow(manifest[i].label) = manifest[i]
BY FirstRowFound DEF LabelsOf, Distinct

\* The labels that --from-json takes are labels of the results, in a sequence.
LEMMA LabelsFromResults ==
  ASSUME NEW S, NEW recs \in Seq(S), NEW code
  PROVE  LabelsFromJson(recs, code) \in Seq(LabelsOf(recs))
<1> DEFINE N == Len(recs)
           L == LabelsOf(recs)
           body(g, n) == IF n = 0 THEN <<>>
                         ELSE IF Selected(recs[n], code) THEN Append(g[n - 1], recs[n].label)
                         ELSE g[n - 1]
           Solves(g, m) == g \in [0..m -> Seq(L)] /\ \A n \in 0..m : g[n] = body(g, n)
           Bad == {m \in 0..N : ~ \E g : Solves(g, m)}
<1> HIDE DEF body
<1>1. N \in Nat /\ DOMAIN recs = 1..N
  OBVIOUS
<1> HIDE DEF N, L
<1>2. ASSUME Bad # {} PROVE FALSE
  <2> HIDE DEF Solves
  <2>0. Bad \subseteq Nat
    BY <1>1
  <2>1. PICK m \in Bad : \A k \in Bad : m <= k
    <3> HIDE DEF Bad
    <3> QED BY <1>2, <2>0, Smallest
  <2>2. m # 0
    <3> DEFINE g == [n \in 0..0 |-> <<>>]
    <3>1. Solves(g, 0)
      BY DEF body, Solves
    <3>2. QED BY <2>1, <3>1
  <2>3. m - 1 \in 0..N /\ m - 1 \notin Bad
    <3>1. m \in 0..N
      BY <2>1
    <3>2. m - 1 \in 0..N
      BY <1>1, <2>2, <3>1
    <3>3. ~ (m <= m - 1)
      BY <1>1, <3>1
    <3>4. QED BY <2>1, <3>2, <3>3
  <2>4. PICK g : Solves(g, m - 1)
    BY <2>3
  <2> USE DEF Solves
  <2>m. m \in 0..N /\ m \in Nat \ {0} /\ 0..(m - 1) \subseteq 0..m
    BY <1>1, <2>1, <2>2
  <2> DEFINE h == [n \in 0..m |-> IF n = m THEN body(g, m) ELSE g[n]]
  <2>5. body(g, m) \in Seq(L)
    <3>1. g[m - 1] \in Seq(L)
      BY <2>m, <2>4
    <3>2. recs[m].label \in L
      BY <1>1, <2>m DEF L, LabelsOf
    <3>3. QED BY <2>m, <3>1, <3>2 DEF body
  <2>6. h \in [0..m -> Seq(L)]
    BY <2>m, <2>4, <2>5
  <2>7. \A n \in 0..m : h[n] = body(h, n)
    <3>1. h[m] = body(h, m)
      BY <2>m DEF body
    <3>2. ASSUME NEW n \in 0..(m - 1) PROVE h[n] = body(h, n)
      <4>1. h[n] = g[n] /\ g[n] = body(g, n)
        BY <2>m, <2>4
      <4>2. n # 0 => h[n - 1] = g[n - 1]
        BY <2>m
      <4>3. QED BY <4>1, <4>2 DEF body
    <3>3. \A n \in 0..m : n = m \/ n \in 0..(m - 1)
      BY <2>m
    <3> HIDE DEF h
    <3>4. QED BY <3>1, <3>2, <3>3
  <2>8. Solves(h, m)
    BY <2>6, <2>7
  <2>9. QED BY <2>1, <2>8
<1>3. PICK g : Solves(g, N)
  <2>1. N \in 0..N
    BY <1>1
  <2>2. QED BY <1>2, <2>1
<1> DEFINE upto == CHOOSE f : f = [n \in 0..N |-> body(f, n)]
<1>4. g = [n \in 0..N |-> body(g, n)]
  BY <1>3
<1>5. upto = [n \in 0..N |-> body(upto, n)]
  BY <1>4
<1> HIDE DEF upto
<1> DEFINE Odd == {n \in 0..N : upto[n] \notin Seq(L)}
<1>6. ASSUME Odd # {} PROVE FALSE
  <2>1. Odd \subseteq Nat
    BY <1>1
  <2>2. PICK m \in Odd : \A k \in Odd : m <= k
    <3> HIDE DEF Odd
    <3> QED BY <1>6, <2>1, Smallest
  <2>3. m \in 0..N /\ upto[m] \notin Seq(L) /\ upto[m] = body(upto, m)
    BY <1>5, <2>2
  <2>4. m # 0
    BY <2>3 DEF body
  <2>5. m - 1 \in 0..N /\ ~ (m <= m - 1)
    BY <1>1, <2>3, <2>4
  <2>6. upto[m - 1] \in Seq(L)
    BY <2>2, <2>5
  <2>7. recs[m].label \in L
    BY <1>1, <2>3, <2>4 DEF L, LabelsOf
  <2>8. QED BY <2>3, <2>4, <2>6, <2>7 DEF body
<1>7. upto[N] \in Seq(L)
  BY <1>1, <1>6
<1>8. LabelsFromJson(recs, code) = upto[N]
  BY DEF LabelsFromJson, upto, body, N
<1>9. QED BY <1>7, <1>8 DEF L

\* The rows of a rerun: one of each label, as the manifest has it first.
LEMMA RerunRows ==
  ASSUME manifest \in Seq(Rows), NEW labels \in Seq(LabelsOf(manifest))
  PROVE  LET sel == SelectLabels(labels)
         IN  /\ sel \in Seq(Rows)
             /\ LabelsOf(sel) \subseteq LabelsOf(manifest)
             /\ \A k \in DOMAIN sel : sel[k] = FirstRow(sel[k].label)
<1> DEFINE sel == SelectLabels(labels)
<1>1. \A k \in DOMAIN labels : labels[k] \in LabelsOf(manifest)
  OBVIOUS
<1>2. sel = [k \in DOMAIN labels |-> FirstRow(labels[k])]
  BY DEF SelectLabels
<1>3. ASSUME NEW k \in DOMAIN labels
      PROVE  sel[k] \in Rows /\ sel[k] = FirstRow(labels[k]) /\ sel[k].label = labels[k]
  BY <1>1, <1>2, FirstRowFound
<1>4. DOMAIN sel = 1..Len(labels) /\ Len(labels) \in Nat /\ DOMAIN labels = 1..Len(labels)
  BY <1>2
<1> HIDE DEF sel
<1>5. sel \in Seq(Rows)
  <2>1. sel \in [1..Len(labels) -> Rows]
    BY <1>2, <1>3, <1>4
  <2>2. QED BY <1>4, <2>1
<1>6. LabelsOf(sel) \subseteq LabelsOf(manifest)
  BY <1>1, <1>3, <1>4 DEF LabelsOf
<1>7. \A k \in DOMAIN sel : sel[k] = FirstRow(sel[k].label)
  BY <1>3, <1>4
<1>8. QED BY <1>5, <1>6, <1>7 DEF sel

\* A record made of an exit status and a file that are the guest's own has the
\* class that the guest earns: if the status is not 0 the file does not matter,
\* and if it is 0 the guest has written the file.
LEMMA ClassIsOwn ==
  ASSUME NEW b \in Builds, NEW row \in Rows, NEW a, b[row].writes => a = b[row].out
  PROVE  /\ Record(row, b[row].rc, a).class = Own(b, row).class
         /\ Record(row, b[row].rc, a).label = row.label
<1>1. b[row].rc = 0 => b[row].writes
  BY GateAssumption
<1>2. Record(row, b[row].rc, a).class = Classify(row.expected, b[row].rc, a).class
  BY DEF Record
<1>3. Own(b, row).class =
        Classify(row.expected, b[row].rc, IF b[row].writes THEN b[row].out ELSE None).class
  BY DEF Own, Record
<1>4. CASE b[row].rc = 0
  BY <1>1, <1>2, <1>3, <1>4 DEF Record
<1>5. CASE b[row].rc # 0
  BY <1>2, <1>3, <1>5 DEF Classify, Record
<1>6. QED BY <1>4, <1>5

\* Whether a record passes depends on its class alone.
LEMMA PassesByClass ==
  ASSUME NEW r1, NEW r2, r1.class = r2.class
  PROVE  Passes(r1) <=> Passes(r2)
BY DEF Passes

\* In results without duplicates a label is no failure exactly if its record passes.
LEMMA FailuresOf ==
  ASSUME NEW recs, Distinct(recs), NEW i \in DOMAIN recs
  PROVE  Passes(recs[i]) <=> recs[i].label \notin DOMAIN Failures(recs)
<1>1. DOMAIN Failures(recs) = {recs[k].label : k \in {k \in DOMAIN recs : ~Passes(recs[k])}}
  BY DEF Failures
<1>2. QED BY <1>1 DEF Distinct
-----------------------------------------------------------------------------
(***************************************************************************)
(* The inductive invariant.                                                *)
(***************************************************************************)

\* What a job that has run, or has been answered, owes to its own guest alone:
\* nobody else writes the file of its label.
JobOwn(i) ==
  /\ job[i].state = "ran" =>
       /\ job[i].rc = build[rows[i]].rc
       /\ Distinct(rows) /\ build[rows[i]].writes => file[rows[i].label] = build[rows[i]].out
  /\ job[i].state = "done" =>
       /\ job[i].record.label = rows[i].label
       /\ Distinct(rows) => job[i].record.class = Own(build, rows[i]).class

\* The runner: it works on rows of the manifest, and a guest is not exchanged
\* while it runs.
RunnerInv ==
  /\ manifest \in Manifests /\ build \in Builds
  /\ DOMAIN file = Labels
  /\ rows \in Seq(Rows) /\ LabelsOf(rows) \subseteq LabelsOf(manifest)
  /\ Distinct(rows) => \A i \in Index : rows[i] = FirstRow(rows[i].label)
  /\ DOMAIN job = Index
  /\ runner \in {"running", "writing"} => \A i \in Index : JobOwn(i)
  /\ runner = "writing" => \A i \in Index : job[i].state = "done"

\* The results file is a sequence of records of labels of the manifest, each the
\* guest's own.
ResultsInv ==
  /\ json \notin {None, Torn} =>
       /\ json \in Seq({json[i] : i \in DOMAIN json})
       /\ LabelsOf(json) \subseteq LabelsOf(manifest)
       /\ measured \in Builds
  /\ ResultsAreOwn

IsSummary(entry) ==
  \E b \in Builds : \A l \in entry.labels :
    Passes(Own(b, FirstRow(l))) <=> l \notin DOMAIN entry.failures

\* An update reads the results while nothing runs, and its temporary file is a
\* summary like the baseline.
BaselineInv ==
  /\ tmp # None => runner = "idle" /\ json \notin {None, Torn} /\ ~HasDuplicates(json)
  /\ tmp \notin {None, Torn} => IsSummary(tmp)
  /\ baseline # None => baseline # Torn /\ IsSummary(baseline)

\* A verdict is forgotten before the next run changes what it was about.
VerdictInv == (verdict # None => runner = "idle") /\ PassMeansMeasured

Inv == RunnerInv /\ ResultsInv /\ BaselineInv /\ VerdictInv

\* Init gives the runner every row, none of them started, and no results.
LEMMA InitInv == Init => Inv
<1> SUFFICES ASSUME Init PROVE Inv
  OBVIOUS
<1>1. manifest \in Manifests /\ manifest \in Seq(Rows) /\ rows = manifest
  BY GateAssumption DEF Init
<1>2. Distinct(rows) => \A i \in Index : rows[i] = FirstRow(rows[i].label)
  BY <1>1, FirstRowOwn DEF Index
<1>3. RunnerInv
  BY <1>1, <1>2 DEF Init, RunnerInv, Index
<1>4. ResultsInv /\ BaselineInv /\ VerdictInv
  BY DEF Init, ResultsInv, ResultsAreOwn, BaselineInv, VerdictInv, PassMeansMeasured
<1>5. QED BY <1>3, <1>4 DEF Inv

LEMMA SameFirstRow == manifest' = manifest => \A l : FirstRow(l)' = FirstRow(l)
BY DEF FirstRow

\* Each part of the invariant stays while what it speaks of stays; of the runner,
\* what it works on, whatever becomes of its jobs.
LEMMA SameRows ==
  ASSUME RunnerInv, UNCHANGED <<manifest, rows>>, build' \in Builds,
         DOMAIN file' = Labels, DOMAIN job' = Index,
         runner' \in {"running", "writing"} => \A i \in Index : JobOwn(i)',
         runner' = "writing" => \A i \in Index : job'[i].state = "done"
  PROVE  RunnerInv'
<1>1. \A l : FirstRow(l)' = FirstRow(l)
  BY SameFirstRow
<1>2. Index' = Index /\ Distinct(rows)' = Distinct(rows)
  BY DEF Index, Distinct
<1>3. LabelsOf(rows)' = LabelsOf(rows) /\ LabelsOf(manifest)' = LabelsOf(manifest)
  BY DEF LabelsOf
<1>4. QED BY <1>1, <1>2, <1>3 DEF RunnerInv

LEMMA SameResults == ResultsInv /\ UNCHANGED <<manifest, json, measured>> => ResultsInv'
<1> SUFFICES ASSUME ResultsInv, UNCHANGED <<manifest, json, measured>> PROVE ResultsInv'
  OBVIOUS
<1>1. \A l : FirstRow(l)' = FirstRow(l)
  BY SameFirstRow
<1>2. QED BY <1>1, ZenonT(60) DEF ResultsInv, ResultsAreOwn, LabelsOf, HasDuplicates

LEMMA SameBaseline ==
  BaselineInv /\ UNCHANGED <<manifest, runner, json, tmp, baseline>> => BaselineInv'
<1> SUFFICES ASSUME BaselineInv, UNCHANGED <<manifest, runner, json, tmp, baseline>>
             PROVE  BaselineInv'
  OBVIOUS
<1>1. \A l : FirstRow(l)' = FirstRow(l)
  BY SameFirstRow
<1>2. HasDuplicates(json)' = HasDuplicates(json)
  BY DEF HasDuplicates, LabelsOf
<1>3. IsSummary(tmp)' = IsSummary(tmp) /\ IsSummary(baseline)' = IsSummary(baseline)
  BY <1>1 DEF IsSummary
<1>4. QED BY <1>2, <1>3 DEF BaselineInv

LEMMA SameVerdict ==
  VerdictInv /\ UNCHANGED <<manifest, runner, measured, verdict>> => VerdictInv'
<1> SUFFICES ASSUME VerdictInv, UNCHANGED <<manifest, runner, measured, verdict>>
             PROVE  VerdictInv'
  OBVIOUS
<1>1. \A l : FirstRow(l)' = FirstRow(l)
  BY SameFirstRow
<1>2. QED BY <1>1 DEF VerdictInv, PassMeansMeasured

\* No verdict says nothing.
LEMMA NoVerdict == verdict' = None => VerdictInv'
BY DEF VerdictInv, PassMeansMeasured

\* While something runs, there is no verdict and no update, and the results
\* and the runner may change.
LEMMA RunningBaseline ==
  BaselineInv /\ (runner # "idle" \/ tmp = None) /\ UNCHANGED <<manifest, tmp, baseline>>
    => BaselineInv'
<1> SUFFICES ASSUME BaselineInv, runner # "idle" \/ tmp = None,
                    UNCHANGED <<manifest, tmp, baseline>>
             PROVE  BaselineInv'
  OBVIOUS
<1>1. \A l : FirstRow(l)' = FirstRow(l)
  BY SameFirstRow
<1>2. IsSummary(baseline)' = IsSummary(baseline)
  BY <1>1 DEF IsSummary
<1>3. QED BY <1>2 DEF BaselineInv

LEMMA RunningVerdict ==
  VerdictInv /\ runner # "idle" /\ UNCHANGED verdict => VerdictInv'
BY NoVerdict DEF VerdictInv

LEMMA NewBuildInv == Inv /\ NewBuild => Inv'
<1> SUFFICES ASSUME Inv, NewBuild PROVE Inv'
  OBVIOUS
<1>1. RunnerInv'
  BY SameRows DEF Inv, NewBuild, RunnerInv
<1>2. QED BY <1>1, SameResults, SameBaseline, NoVerdict DEF Inv, NewBuild

\* A run begins with rows of the manifest, none of them started.
LEMMA LaunchInv ==
  ASSUME Inv, NEW sel \in Seq(Rows), LabelsOf(sel) \subseteq LabelsOf(manifest),
         Distinct(sel) => \A k \in DOMAIN sel : sel[k] = FirstRow(sel[k].label),
         Launch(sel)
  PROVE  Inv'
<1>1. /\ manifest' = manifest /\ build' = build /\ file' = file /\ rows' = sel
      /\ runner' = "running" /\ job' = [k \in DOMAIN sel |-> Queued]
  BY DEF Launch
<1>2. \A l : FirstRow(l)' = FirstRow(l)
  BY <1>1, SameFirstRow
<1>3. \A k \in Index' : JobOwn(k)'
  BY <1>1 DEF JobOwn, Index, Queued
<1>4. RunnerInv'
  BY <1>1, <1>2, <1>3, ZenonT(60) DEF Inv, RunnerInv, Index, LabelsOf, Distinct
<1>5. QED BY <1>4, SameResults, RunningBaseline, NoVerdict DEF Inv, Launch

LEMMA StartInv == Inv /\ Start => Inv'
<1> SUFFICES ASSUME Inv, Start PROVE Inv'
  OBVIOUS
<1>1. manifest \in Seq(Rows)
  BY GateAssumption DEF Inv, RunnerInv
<1>2. Distinct(manifest) => \A k \in DOMAIN manifest : manifest[k] = FirstRow(manifest[k].label)
  BY <1>1, FirstRowOwn
<1>3. QED BY <1>1, <1>2, LaunchInv DEF Start

LEMMA RerunInv == Inv /\ Rerun => Inv'
<1> SUFFICES ASSUME Inv, Rerun PROVE Inv'
  OBVIOUS
<1>1. manifest \in Seq(Rows)
  BY GateAssumption DEF Inv, RunnerInv
<1>2. json \in Seq({json[i] : i \in DOMAIN json}) /\ LabelsOf(json) \subseteq LabelsOf(manifest)
  BY DEF Inv, ResultsInv, Rerun
<1>3. PICK code : Launch(SelectLabels(LabelsFromJson(json, code)))
  BY DEF Rerun
<1>4. LabelsFromJson(json, code) \in Seq(LabelsOf(manifest))
  BY <1>2, LabelsFromResults
<1>5. QED BY <1>1, <1>3, <1>4, RerunRows, LaunchInv

\* What ends a run leaves no job to be answered.
LEMMA ExitInv ==
  ASSUME Inv, runner # "idle", runner' \notin {"running", "writing"},
         UNCHANGED <<manifest, build, file, rows, job, json, measured, baseline, tmp, verdict>>
  PROVE  Inv'
<1>1. RunnerInv'
  BY SameRows DEF Inv, RunnerInv
<1>2. QED BY <1>1, SameResults, RunningBaseline, RunningVerdict DEF Inv

\* A job that changes alone, with the file of its label at most.
LEMMA JobStepInv ==
  ASSUME Inv, runner = "running", NEW i \in Index,
         DOMAIN job' = Index, \A k \in Index \ {i} : job'[k] = job[k],
         DOMAIN file' = Labels, \A l \in Labels \ {rows[i].label} : file'[l] = file[l],
         job'[i].state \notin {"ran", "done"} => file' = file,
         JobOwn(i)',
         UNCHANGED <<manifest, build, rows, runner, json, measured, baseline, tmp, verdict>>
  PROVE  Inv'
<1>1. \A k \in Index : rows[k] \in Rows /\ rows[k].label \in Labels
  BY DEF Inv, RunnerInv, Index, Labels
<1>2. ASSUME NEW k \in Index, k # i
      PROVE  JobOwn(k)'
  <2>1. JobOwn(k)
    BY DEF Inv, RunnerInv
  <2>2. Distinct(rows) => file'[rows[k].label] = file[rows[k].label]
    BY <1>1, <1>2 DEF Distinct, Index
  <2>3. job'[k] = job[k]
    BY <1>2
  <2>4. Distinct(rows)' = Distinct(rows)
    BY DEF Distinct
  <2> QED BY <2>1, <2>2, <2>3, <2>4 DEF JobOwn
<1>3. \A k \in Index : JobOwn(k)'
  BY <1>2
<1>4. RunnerInv'
  BY <1>3, SameRows DEF Inv, RunnerInv
<1>5. QED BY <1>4, SameResults, SameBaseline, SameVerdict DEF Inv

LEMMA StartJobInv == ASSUME Inv, NEW i \in Index, StartJob(i) PROVE Inv'
<1>1. JobOwn(i)'
  BY DEF StartJob, JobOwn, Inv, RunnerInv
<1>2. QED BY <1>1, JobStepInv DEF StartJob, Inv, RunnerInv

LEMMA RaiseInJobInv == ASSUME Inv, NEW i \in Index, RaiseInJob(i) PROVE Inv'
<1>1. JobOwn(i)'
  BY DEF RaiseInJob, JobOwn, Inv, RunnerInv
<1>2. QED BY <1>1, JobStepInv DEF RaiseInJob, Inv, RunnerInv

LEMMA EmulateInv == ASSUME Inv, NEW i \in Index, Emulate(i) PROVE Inv'
<1>1. DOMAIN job = Index /\ DOMAIN file = Labels /\ rows[i].label \in Labels
  BY DEF Inv, RunnerInv, Index, Labels
<1>2. /\ job' = [job EXCEPT ![i] = [state |-> "ran", rc |-> build[rows[i]].rc]]
      /\ file' = IF build[rows[i]].writes
                 THEN [file EXCEPT ![rows[i].label] = build[rows[i]].out] ELSE file
      /\ runner = "running"
      /\ UNCHANGED <<manifest, build, rows, runner, json, measured, baseline, tmp, verdict>>
  BY DEF Emulate, OutputOf
<1>3. job'[i] = [state |-> "ran", rc |-> build[rows[i]].rc]
  BY <1>1, <1>2
<1>4. build[rows[i]].writes => file'[rows[i].label] = build[rows[i]].out
  BY <1>1, <1>2
<1>5. JobOwn(i)'
  BY <1>2, <1>3, <1>4 DEF JobOwn
<1>6. DOMAIN job' = Index /\ \A k \in Index \ {i} : job'[k] = job[k]
  BY <1>1, <1>2
<1>7. DOMAIN file' = Labels /\ \A l \in Labels \ {rows[i].label} : file'[l] = file[l]
  BY <1>1, <1>2
<1>8. QED BY <1>2, <1>3, <1>5, <1>6, <1>7, JobStepInv

LEMMA ReadOutputInv == ASSUME Inv, NEW i \in Index, ReadOutput(i) PROVE Inv'
<1> DEFINE rec == Record(rows[i], job[i].rc, file[rows[i].label])
<1>1. DOMAIN job = Index /\ rows[i] \in Rows /\ build \in Builds
  BY DEF Inv, RunnerInv, Index
<1>2. /\ job' = [job EXCEPT ![i] = [state |-> "done", record |-> rec]]
      /\ runner = "running" /\ job[i].state = "ran"
      /\ UNCHANGED <<manifest, build, file, rows, runner, json, measured, baseline, tmp, verdict>>
  BY DEF ReadOutput, OutputOf
<1>3. JobOwn(i)
  BY <1>2 DEF Inv, RunnerInv
<1>4. rec.label = rows[i].label
  BY DEF Record
<1>5. Distinct(rows) => rec.class = Own(build, rows[i]).class
  BY <1>1, <1>2, <1>3, ClassIsOwn DEF JobOwn
<1> HIDE DEF rec
<1>6. job'[i] = [state |-> "done", record |-> rec]
  BY <1>1, <1>2
<1>7. JobOwn(i)'
  BY <1>2, <1>4, <1>5, <1>6 DEF JobOwn, Distinct
<1>8. DOMAIN job' = Index /\ \A k \in Index \ {i} : job'[k] = job[k]
  BY <1>1, <1>2
<1>9. QED BY <1>2, <1>7, <1>8, JobStepInv DEF Inv, RunnerInv

LEMMA OpenJsonInv == Inv /\ OpenJson => Inv'
<1> SUFFICES ASSUME Inv, OpenJson PROVE Inv'
  OBVIOUS
<1>1. \A i \in Index : JobOwn(i)'
  BY DEF OpenJson, Inv, RunnerInv, JobOwn, Index, Distinct
<1>2. RunnerInv'
  BY <1>1, SameRows DEF Inv, RunnerInv, OpenJson
<1>3. ResultsInv'
  BY DEF OpenJson, ResultsInv, ResultsAreOwn
<1>4. QED BY <1>2, <1>3, RunningBaseline, RunningVerdict DEF Inv, OpenJson

\* The results are those of the jobs, in a sequence, and if no label is repeated
\* in them then none was in the rows.
LEMMA WriteJsonInv == Inv /\ WriteJson => Inv'
<1> SUFFICES ASSUME Inv, WriteJson PROVE Inv'
  OBVIOUS
<1> DEFINE n == Len(rows)
<1>1. /\ n \in Nat /\ Index = 1..n /\ rows \in Seq(Rows) /\ build \in Builds
      /\ LabelsOf(rows) \subseteq LabelsOf(manifest)
  BY DEF Inv, RunnerInv, Index
<1>2. /\ json' = [k \in Index |-> job[k].record] /\ measured' = build
      /\ runner = "writing" /\ runner' = "exited"
      /\ UNCHANGED <<manifest, build, rows, file, job, baseline, tmp, verdict>>
  BY DEF WriteJson
<1>3. \A k \in Index : JobOwn(k) /\ job[k].state = "done"
  BY <1>2 DEF Inv, RunnerInv
<1>4. \A k \in Index : json'[k] = job[k].record /\ json'[k].label = rows[k].label
  BY <1>2, <1>3 DEF JobOwn
<1> HIDE DEF n
<1>5. json' \in Seq({json'[k] : k \in DOMAIN json'}) /\ DOMAIN json' = Index
  <2>1. json' \in [1..n -> {json'[k] : k \in DOMAIN json'}]
    BY <1>1, <1>2
  <2>2. QED BY <1>1, <1>2, <2>1
<1>6. LabelsOf(json') = LabelsOf(rows)
  BY <1>4, <1>5 DEF LabelsOf, Index
<1>7. ASSUME ~HasDuplicates(json') PROVE Distinct(rows)
  <2>1. Distinct(json')
    BY <1>5, <1>7, NoDuplicates
  <2>2. QED BY <1>4, <1>5, <2>1 DEF Distinct, Index
<1>8. Distinct(rows) => \A k \in Index : rows[k] = FirstRow(rows[k].label)
  BY DEF Inv, RunnerInv
<1>9. ASSUME ~HasDuplicates(json'), NEW k \in Index
      PROVE  json'[k].class = Own(measured', FirstRow(json'[k].label)).class
  <2>1. json'[k].class = Own(build, rows[k]).class
    BY <1>3, <1>4, <1>7, <1>9 DEF JobOwn
  <2>2. rows[k] = FirstRow(json'[k].label)
    BY <1>4, <1>7, <1>8, <1>9
  <2>3. QED BY <1>2, <2>1, <2>2
<1>10. \A l : FirstRow(l)' = FirstRow(l)
  BY <1>2, SameFirstRow
<1>11. ResultsAreOwn'
  BY <1>5, <1>9, <1>10 DEF ResultsAreOwn, HasDuplicates, LabelsOf
<1>12. LabelsOf(json)' \subseteq LabelsOf(manifest)'
  <2>1. LabelsOf(json)' = LabelsOf(json') /\ LabelsOf(manifest)' = LabelsOf(manifest)
    BY <1>2 DEF LabelsOf
  <2>2. QED BY <1>1, <1>6, <2>1
<1>13. ResultsInv'
  BY <1>1, <1>2, <1>5, <1>11, <1>12 DEF ResultsInv
<1>14. RunnerInv'
  BY <1>2, SameRows DEF Inv, RunnerInv
<1>15. QED BY <1>2, <1>13, <1>14, RunningBaseline, RunningVerdict DEF Inv

\* A label of the results that is no failure is one the guest passes on.
LEMMA PassedByItself ==
  ASSUME Inv, json \notin {None, Torn}, ~HasDuplicates(json), NEW l \in LabelsOf(json)
  PROVE  Passes(Own(measured, FirstRow(l))) <=> l \notin DOMAIN Failures(json)
<1>1. Distinct(json)
  BY NoDuplicates DEF Inv, ResultsInv
<1>2. PICK i \in DOMAIN json : json[i].label = l
  BY DEF LabelsOf
<1>3. json[i].class = Own(measured, FirstRow(l)).class
  BY <1>2 DEF Inv, ResultsInv, ResultsAreOwn
<1>4. Passes(json[i]) <=> Passes(Own(measured, FirstRow(l)))
  BY <1>3, PassesByClass
<1>5. QED BY <1>1, <1>2, <1>4, FailuresOf

LEMMA GoneRunner ==
  ASSUME Inv, Gone, UNCHANGED <<manifest, build, file>>
  PROVE  RunnerInv'
<1>1. manifest \in Manifests /\ manifest \in Seq(Rows) /\ rows' = manifest
  BY GateAssumption DEF Inv, RunnerInv, Gone
<1>2. \A l : FirstRow(l)' = FirstRow(l)
  BY SameFirstRow
<1>3. Distinct(rows') => \A k \in Index' : rows'[k] = FirstRow(rows'[k].label)
  BY <1>1, FirstRowOwn DEF Index
<1>4. QED BY <1>1, <1>2, <1>3 DEF Inv, RunnerInv, Gone, Index, Distinct, LabelsOf

\* The gate's verdict is about results of one guest that cover the baseline.
LEMMA GateInv == Inv /\ Gate => Inv'
<1> SUFFICES ASSUME Inv, Gate PROVE Inv'
  OBVIOUS
<1>1. /\ verdict' = [pass |-> GatePasses, entry |-> baseline] /\ runner' = "idle"
      /\ UNCHANGED <<manifest, build, file, json, measured, baseline, tmp>>
      /\ runner = "exited"
  BY DEF Gate, Gone
<1>2. RunnerInv'
  BY <1>1, GoneRunner DEF Gate
<1>3. ASSUME verdict'.pass, NEW l \in verdict'.entry.labels \ DOMAIN verdict'.entry.failures
      PROVE  Passes(Own(measured, FirstRow(l)))
  <2>1. json \notin {None, Torn} /\ Check(baseline, json) /\ verdict'.entry = baseline
    BY <1>1, <1>3 DEF GatePasses
  <2>2. ~HasDuplicates(json) /\ l \in LabelsOf(json) /\ l \notin DOMAIN Failures(json)
    BY <1>3, <2>1 DEF Check, NoProblem
  <2>3. QED BY <2>1, <2>2, PassedByItself
<1>4. VerdictInv'
  BY <1>1, <1>3, SameFirstRow DEF VerdictInv, PassMeansMeasured
<1>5. QED BY <1>1, <1>2, <1>4, SameResults, RunningBaseline DEF Inv

LEMMA EndRerunInv == Inv /\ EndRerun => Inv'
<1> SUFFICES ASSUME Inv, EndRerun PROVE Inv'
  OBVIOUS
<1>1. RunnerInv'
  BY GoneRunner DEF EndRerun
<1>2. QED BY <1>1, SameResults, RunningBaseline, RunningVerdict DEF Inv, EndRerun

\* What an update does is no matter of the runner.
LEMMA UpdateInv ==
  ASSUME Inv, UNCHANGED <<manifest, build, runnerVars>>,
         verdict' = None \/ verdict' = verdict, BaselineInv'
  PROVE  Inv'
<1>1. UNCHANGED <<manifest, build, rows, gated, file, runner, job, exit, json, measured>>
  BY DEF runnerVars
<1>2. \A i \in Index : JobOwn(i) => JobOwn(i)'
  BY <1>1 DEF JobOwn, Distinct
<1>3. RunnerInv'
  BY <1>1, <1>2, SameRows DEF Inv, RunnerInv
<1>4. QED BY <1>1, <1>3, SameResults, SameVerdict, NoVerdict DEF Inv

LEMMA BeginUpdateInv == Inv /\ BeginUpdate => Inv'
<1> SUFFICES ASSUME Inv, BeginUpdate PROVE Inv'
  OBVIOUS
<1>1. \A l : FirstRow(l)' = FirstRow(l)
  BY SameFirstRow DEF BeginUpdate
<1>2. BaselineInv'
  BY <1>1 DEF Inv, BeginUpdate, runnerVars, BaselineInv, IsSummary, HasDuplicates, LabelsOf
<1>3. QED BY <1>2, UpdateInv DEF BeginUpdate

\* The summary of results without duplicates is one of the guest measured.
LEMMA WriteTmpInv == Inv /\ WriteTmp => Inv'
<1> SUFFICES ASSUME Inv, WriteTmp PROVE Inv'
  OBVIOUS
<1>1. /\ tmp = Torn /\ tmp' = Summarize(json)
      /\ UNCHANGED <<manifest, build, baseline, verdict, runner, json, measured>>
  BY DEF WriteTmp, runnerVars
<1>2. json \notin {None, Torn} /\ ~HasDuplicates(json) /\ runner = "idle"
  BY <1>1, GateAssumption DEF Inv, BaselineInv
<1>3. measured \in Builds
  BY <1>2 DEF Inv, ResultsInv
<1>4. \A l \in LabelsOf(json) :
        Passes(Own(measured, FirstRow(l))) <=> l \notin DOMAIN Failures(json)
  BY <1>2, PassedByItself
<1>5. Summarize(json).labels = LabelsOf(json) /\ Summarize(json).failures = Failures(json)
  BY DEF Summarize
<1>6. IsSummary(Summarize(json))
  BY <1>3, <1>4, <1>5 DEF IsSummary
<1>7. \A l : FirstRow(l)' = FirstRow(l)
  BY <1>1, SameFirstRow
<1>8. IsSummary(tmp)'
  BY <1>1, <1>6, <1>7 DEF IsSummary
<1>9. IsSummary(baseline)' = IsSummary(baseline)
  BY <1>1, <1>7 DEF IsSummary
<1>10. HasDuplicates(json)' = HasDuplicates(json)
  BY <1>1 DEF HasDuplicates, LabelsOf
<1>11. BaselineInv'
  BY <1>1, <1>2, <1>8, <1>9, <1>10 DEF Inv, BaselineInv
<1>12. QED BY <1>11, UpdateInv DEF WriteTmp

LEMMA ReplaceInv == Inv /\ Replace => Inv'
<1> SUFFICES ASSUME Inv, Replace PROVE Inv'
  OBVIOUS
<1>1. /\ tmp \notin {None, Torn} /\ baseline' = tmp /\ tmp' = None
      /\ UNCHANGED <<manifest, build, verdict, runnerVars>>
  BY DEF Replace
<1>2. \A l : FirstRow(l)' = FirstRow(l)
  BY <1>1, SameFirstRow
<1>3. IsSummary(baseline)'
  BY <1>1, <1>2 DEF Inv, BaselineInv, IsSummary
<1>4. BaselineInv'
  BY <1>1, <1>3 DEF Inv, BaselineInv
<1>5. QED BY <1>1, <1>4, UpdateInv

LEMMA StopUpdateInv == Inv /\ StopUpdate => Inv'
<1> SUFFICES ASSUME Inv, StopUpdate PROVE Inv'
  OBVIOUS
<1>1. \A l : FirstRow(l)' = FirstRow(l)
  BY SameFirstRow DEF StopUpdate
<1>2. IsSummary(baseline)' = IsSummary(baseline)
  BY <1>1 DEF StopUpdate, IsSummary
<1>3. BaselineInv'
  BY <1>2 DEF Inv, BaselineInv, StopUpdate
<1>4. QED BY <1>3, UpdateInv DEF StopUpdate

LEMMA NextInv == Inv /\ [Next]_vars => Inv'
<1> SUFFICES ASSUME Inv, [Next]_vars PROVE Inv'
  OBVIOUS
<1>1. CASE NewBuild
  BY <1>1, NewBuildInv
<1>2. CASE Start \/ Rerun
  BY <1>2, StartInv, RerunInv
<1>3. CASE Refuse \/ Traceback \/ Kill
  BY <1>3, ExitInv DEF Refuse, Traceback, Kill
<1>4. CASE OpenJson \/ WriteJson
  BY <1>4, OpenJsonInv, WriteJsonInv
<1>5. ASSUME NEW i \in Index, StartJob(i) \/ Emulate(i) \/ RaiseInJob(i) \/ ReadOutput(i)
      PROVE  Inv'
  BY <1>5, StartJobInv, EmulateInv, RaiseInJobInv, ReadOutputInv
<1>6. CASE RunnerStep
  BY <1>3, <1>4, <1>5, <1>6 DEF RunnerStep
<1>7. CASE Gate \/ EndRerun
  BY <1>7, GateInv, EndRerunInv
<1>8. CASE BeginUpdate \/ WriteTmp \/ Replace \/ StopUpdate
  BY <1>8, BeginUpdateInv, WriteTmpInv, ReplaceInv, StopUpdateInv
<1>9. CASE UNCHANGED vars
  <2>1. BaselineInv'
    BY <1>9, SameBaseline DEF Inv, vars
  <2>2. UNCHANGED <<manifest, build, runnerVars, verdict>>
    BY <1>9 DEF vars, runnerVars
  <2>3. QED BY <2>1, <2>2, UpdateInv
<1>10. QED BY <1>1, <1>2, <1>3, <1>6, <1>7, <1>8, <1>9 DEF Next

LEMMA Invariance == Spec => []Inv
BY InitInv, NextInv, PTL DEF Spec

\* In results without a repeated label each class is what the guest earned by
\* itself, in whatever order the jobs of the pool start, run the emulator and
\* read, and whatever earlier runs left behind (run_case, classify).
THEOREM ClassesAreOwn == Spec => []ResultsAreOwn
<1>1. Inv => ResultsAreOwn
  BY DEF Inv, ResultsInv
<1>2. QED BY <1>1, Invariance, PTL

\* A gate that passes read results of one guest that earns a pass wherever the
\* baseline has one (run_eest_with_baseline, check).
THEOREM PassIsEarned == Spec => []PassMeansMeasured
<1>1. Inv => PassMeansMeasured
  BY DEF Inv, VerdictInv
<1>2. QED BY <1>1, Invariance, PTL

\* The baseline is never half written, and what it allows is what one guest
\* earned in one finished run (write_baseline, summarize).
THEOREM BaselineIsWhole == Spec => []BaselineIsSummary
<1>1. Inv => BaselineIsSummary
  BY DEF Inv, BaselineInv, IsSummary, BaselineIsSummary
<1>2. QED BY <1>1, Invariance, PTL
=============================================================================
