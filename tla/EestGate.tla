------------------------------ MODULE EestGate ------------------------------
(***************************************************************************)
(* The gate that decides whether a guest may replace another one:          *)
(* tools/eest-run.py runs the guest over a manifest with a pool of         *)
(* threads, writes what it saw to a JSON file, and tools/eest-baseline.py  *)
(* compares that file with the checked-in baseline.  tools/check_all.sh    *)
(* joins the two in run_eest_with_baseline.                                *)
(*                                                                         *)
(* The runner's output files and its JSON file outlive a run, the JSON is  *)
(* written in place, and the runner may be killed, or end with a traceback *)
(* because a job raised.                                                   *)
(***************************************************************************)
EXTENDS Integers, Sequences, FiniteSets

CONSTANTS
    Manifests,  \* sequences of rows [label, expected] (one is used throughout)
    Builds,     \* guests: how each one behaves on each row
    Jobs,       \* --jobs
    None,       \* no such file
    Torn        \* a file whose writer was stopped

\* A result is root, succ and tail; the tail Sentinel stands for a
\* zero schema_id, the answer to an input that cannot be decoded.
Sentinel == 0

Rows   == UNION {{m[i] : i \in DOMAIN m} : m \in Manifests}
Labels == {r.label : r \in Rows}

ASSUME GateAssumption ==
    /\ Jobs \in Nat \ {0}
    /\ Manifests \subseteq Seq(Rows)
    /\ None # Torn
    /\ \A b \in Builds : DOMAIN b = Rows
    \* the emulator answers 0 only after it has written the output
    /\ \A b \in Builds, r \in Rows : b[r].rc = 0 => b[r].writes

VARIABLES
    manifest,   \* the rows of manifest.tsv
    build,      \* the guest in guest/build
    file,       \* out_dir: the output file of each label
    rows,       \* the rows this run of eest-run.py selected
    gated,      \* it was started by run_eest_with_baseline
    runner,     \* what eest-run.py is doing
    job,        \* its jobs, one for each row
    exit,       \* its exit status
    json,       \* the file given with --json
    measured,   \* the guest whose run wrote the JSON file (history)
    baseline,   \* tools/eest-baseline.json, the entry of this manifest
    tmp,        \* its temporary file
    verdict     \* of the last gate

vars == <<manifest, build, rows, gated, file, runner, job, exit, json, measured, baseline, tmp, verdict>>
runnerVars == <<rows, gated, file, runner, job, exit, json, measured>>

-----------------------------------------------------------------------------
(* eest-run.py: one case and its class *)

Index == DOMAIN rows
Queued == [state |-> "queued"]

\* What classify makes of the row's expectation, the exit status and the
\* file read: the class and the regions that agree.
Regions(e, a) == <<e.root = a.root, e.succ = a.succ, e.tail = a.tail>>
Classify(e, rc, a) ==
    IF rc # 0 \/ a = None THEN [class |-> "ERROR", regions |-> <<>>]
    ELSE IF e.tail = Sentinel
         THEN [class |-> IF Regions(e, a) = <<TRUE, TRUE, TRUE>>
                         THEN "PASS(malformed)" ELSE "FAIL[malformed]",
               regions |-> <<>>]
         ELSE [class |-> IF Regions(e, a) = <<TRUE, TRUE, TRUE>>
                         THEN "PASS(full)" ELSE "FAIL",
               regions |-> Regions(e, a)]

\* The record of a case: the file is read whatever the exit status was.
Record(row, rc, a) ==
    LET c == Classify(row.expected, rc, a)
    IN  [label |-> row.label, class |-> c.class, regions |-> c.regions,
         dbg |-> IF a = None THEN -1 ELSE a.dbg]

Passes(rec) == rec.class \in {"PASS(full)", "PASS(malformed)"}

\* a mistake: one output file for all rows
OutputOfAny(row) == CHOOSE l \in Labels : TRUE

\* Where run_case keeps the output of a row.
OutputOf(row) == row.label

FirstRow(l) ==
    LET first == CHOOSE i \in DOMAIN manifest :
                   /\ manifest[i].label = l
                   /\ \A k \in 1..(i - 1) : manifest[k].label # l
    IN  manifest[first]
SelectLabels(labels) == [k \in DOMAIN labels |-> FirstRow(labels[k])]

\* With a code, the records that failed with it; a class of ERROR is no FAIL.
Selected(rec, code) ==
    code = None \/ (rec.class \in {"FAIL", "FAIL[malformed]"} /\ rec.dbg = code)
LabelsFromJson(recs, code) ==
    LET upto[n \in 0..Len(recs)] ==
          IF n = 0 THEN <<>>
          ELSE IF Selected(recs[n], code) THEN Append(upto[n - 1], recs[n].label)
          ELSE upto[n - 1]
    IN  upto[Len(recs)]

-----------------------------------------------------------------------------
(* eest-baseline.py *)

LabelsOf(recs) == {recs[i].label : i \in DOMAIN recs}
HasDuplicates(recs) == Cardinality(LabelsOf(recs)) < Len(recs)

\* The failures of a result file; summarize refuses a file with duplicates.
Failures(recs) ==
    LET failed == {i \in DOMAIN recs : ~Passes(recs[i])}
    IN  [l \in {recs[i].label : i \in failed} |->
           LET i == CHOOSE i \in failed : recs[i].label = l
           IN  [class |-> recs[i].class, dbg |-> recs[i].dbg]]
Summarize(recs) == [labels |-> LabelsOf(recs), failures |-> Failures(recs)]

\* a mistake: as many failures as before are fine
NoProblemCounted(entry, recs) ==
    /\ Cardinality(entry.labels) = Cardinality(LabelsOf(recs))
    /\ Cardinality(DOMAIN Failures(recs)) <= Cardinality(DOMAIN entry.failures)

\* check finds no problem: nothing is missing, what passed still passes, and
\* each failure was recorded with the same class and code.
NoProblem(entry, recs) ==
    LET now == Failures(recs)
        old == entry.failures
    IN  /\ entry.labels \subseteq LabelsOf(recs)
        /\ (entry.labels \ DOMAIN old) \cap DOMAIN now = {}
        /\ \A l \in DOMAIN now : l \in DOMAIN old /\ now[l] = old[l]

Check(entry, recs) ==
    /\ entry # None
    /\ ~HasDuplicates(recs)
    /\ NoProblem(entry, recs)

-----------------------------------------------------------------------------
Init ==
    /\ manifest \in Manifests
    /\ build \in Builds
    /\ rows = manifest /\ gated = FALSE
    /\ file = [l \in Labels |-> None]
    /\ runner = "idle"
    /\ job = [i \in Index |-> Queued]
    /\ exit = 0
    /\ json = None
    /\ measured = None
    /\ baseline = None
    /\ tmp = None
    /\ verdict = None

\* A change of the guest's sources and a new build of it.
NewBuild ==
    /\ runner = "idle" /\ tmp = None
    /\ \E b \in Builds \ {build} : build' = b
    /\ verdict' = None
    /\ UNCHANGED <<manifest, rows, gated, file, runner, job, exit, json, measured, baseline, tmp>>

Launch(selected) ==
    /\ runner = "idle" /\ tmp = None
    /\ runner' = "running"
    /\ rows' = selected
    /\ job' = [i \in DOMAIN selected |-> Queued]
    /\ verdict' = None
    /\ UNCHANGED <<manifest, build, file, exit, json, measured, baseline, tmp>>

\* run_eest_with_baseline runs the whole manifest ...
Start == Launch(manifest) /\ gated' = TRUE

\* ... and somebody runs what --from-json takes from the last results: all
\* of them, or with --fail-code those that failed with one code.
Rerun ==
    /\ json \notin {None, Torn}
    /\ \E code \in {None} \cup {json[i].dbg : i \in DOMAIN json} :
         Launch(SelectLabels(LabelsFromJson(json, code)))
    /\ gated' = FALSE

\* An input file of the manifest does not exist.
Refuse ==
    /\ runner = "running" /\ \A i \in Index : job[i] = Queued
    /\ runner' = "exited" /\ exit' = 2
    /\ UNCHANGED <<manifest, build, rows, gated, file, job, json, measured, baseline, tmp, verdict>>

InFlight == {i \in Index : job[i].state \in {"started", "ran"}}

\* A free thread takes the next row.
StartJob(i) ==
    /\ runner = "running"
    /\ job[i] = Queued /\ \A k \in 1..(i - 1) : job[k] # Queued
    /\ Cardinality(InFlight) < Jobs
    /\ job' = [job EXCEPT ![i] = [state |-> "started"]]
    /\ UNCHANGED <<manifest, build, rows, gated, file, runner, exit, json, measured, baseline, tmp, verdict>>

\* subprocess.call: the emulator runs the guest and may write its output.
Emulate(i) ==
    /\ runner = "running" /\ job[i].state = "started"
    /\ LET b == build[rows[i]] IN
         /\ job' = [job EXCEPT ![i] = [state |-> "ran", rc |-> b.rc]]
         /\ file' = IF b.writes THEN [file EXCEPT ![OutputOf(rows[i])] = b.out] ELSE file
    /\ UNCHANGED <<manifest, build, rows, gated, runner, exit, json, measured, baseline, tmp, verdict>>

\* The job raises: no log file, no emulator, no memory for a process.
RaiseInJob(i) ==
    /\ runner = "running" /\ job[i].state = "started"
    /\ job' = [job EXCEPT ![i] = [state |-> "raised"]]
    /\ UNCHANGED <<manifest, build, rows, gated, file, runner, exit, json, measured, baseline, tmp, verdict>>

\* The rest of run_case.
ReadOutput(i) ==
    /\ runner = "running" /\ job[i].state = "ran"
    /\ job' = [job EXCEPT ![i] =
                 [state |-> "done",
                  record |-> Record(rows[i], job[i].rc, file[OutputOf(rows[i])])]]
    /\ UNCHANGED <<manifest, build, rows, gated, file, runner, exit, json, measured, baseline, tmp, verdict>>

\* a mistake: the exception is seen only if the other rows have been answered
TracebackAtEnd ==
    /\ runner = "running" /\ \A i \in Index : job[i].state \in {"raised", "done"}
    /\ \E i \in Index : job[i].state = "raised" /\ \A k \in Index \ {i} : job[k].state = "done"
    /\ runner' = "exited" /\ exit' = 1
    /\ UNCHANGED <<manifest, build, rows, gated, file, job, json, measured, baseline, tmp, verdict>>

\* The exception of a job leaves list(ex.map(...)) and the pool, which waits
\* for the jobs that run and drops the others.  Python answers 1.
Traceback ==
    /\ runner = "running" /\ InFlight = {}
    /\ \E i \in Index : /\ job[i].state = "raised"
                        /\ \A k \in 1..(i - 1) : job[k].state = "done"
    /\ runner' = "exited" /\ exit' = 1
    /\ UNCHANGED <<manifest, build, rows, gated, file, job, json, measured, baseline, tmp, verdict>>

\* All cases are in: main opens the JSON file, which empties it ...
OpenJson ==
    /\ runner = "running" /\ \A i \in Index : job[i].state = "done"
    /\ runner' = "writing"
    /\ json' = Torn
    /\ UNCHANGED <<manifest, build, rows, gated, file, job, exit, measured, baseline, tmp, verdict>>

\* ... writes the results in the order of the manifest, and answers.
WriteJson ==
    /\ runner = "writing"
    /\ json' = [i \in Index |-> job[i].record]
    /\ measured' = build
    /\ runner' = "exited"
    /\ exit' = IF \A i \in Index : Passes(job[i].record) THEN 0 ELSE 1
    /\ UNCHANGED <<manifest, build, rows, gated, file, job, baseline, tmp, verdict>>

\* A signal, or an error of the operating system, ends the runner.
Kill ==
    /\ runner \in {"running", "writing"}
    /\ runner' = "exited" /\ exit' \in {1, 137}
    /\ UNCHANGED <<manifest, build, rows, gated, file, job, json, measured, baseline, tmp, verdict>>

\* The process is gone; what it leaves are files.
Gone ==
    /\ runner' = "idle" /\ exit' = 0
    /\ rows' = manifest /\ gated' = FALSE
    /\ job' = [i \in DOMAIN manifest |-> Queued]

\* run_eest_with_baseline once the runner has ended; an empty file and one
\* that cannot be parsed fail alike.
GatePasses ==
    /\ exit <= 1
    /\ json \notin {None, Torn}
    /\ Check(baseline, json)
Gate ==
    /\ runner = "exited" /\ gated
    /\ verdict' = [pass |-> GatePasses, entry |-> baseline]
    /\ Gone
    /\ UNCHANGED <<manifest, build, file, json, measured, baseline, tmp>>

EndRerun ==
    /\ runner = "exited" /\ ~gated
    /\ Gone
    /\ UNCHANGED <<manifest, build, file, json, measured, baseline, tmp, verdict>>

\* eest-baseline.py update: summarize, write a temporary file ...
BeginUpdate ==
    /\ runner = "idle" /\ tmp = None
    /\ json \notin {None, Torn} /\ ~HasDuplicates(json)
    /\ tmp' = Torn
    /\ verdict' = None
    /\ UNCHANGED <<manifest, build, baseline, runnerVars>>

\* a mistake: the baseline is written in place
WriteTmpInPlace ==
    /\ tmp = Torn
    /\ tmp' = Summarize(json)
    /\ baseline' = Torn
    /\ UNCHANGED <<manifest, build, verdict, runnerVars>>

WriteTmp ==
    /\ tmp = Torn
    /\ tmp' = Summarize(json)
    /\ UNCHANGED <<manifest, build, baseline, verdict, runnerVars>>

\* ... and rename it over the baseline.
Replace ==
    /\ tmp \notin {None, Torn}
    /\ baseline' = tmp
    /\ tmp' = None
    /\ UNCHANGED <<manifest, build, verdict, runnerVars>>

\* update is stopped; the next one opens the temporary file anew.
StopUpdate ==
    /\ tmp # None
    /\ tmp' = None
    /\ UNCHANGED <<manifest, build, baseline, verdict, runnerVars>>

\* What the threads of the runner do; nobody has to stop them.
RunnerStep ==
    \/ Traceback \/ OpenJson \/ WriteJson
    \/ \E i \in Index : StartJob(i) \/ Emulate(i) \/ RaiseInJob(i) \/ ReadOutput(i)

Next ==
    \/ NewBuild \/ Start \/ Rerun \/ Refuse \/ RunnerStep \/ Kill \/ Gate \/ EndRerun
    \/ BeginUpdate \/ WriteTmp \/ Replace \/ StopUpdate

\* The threads of the pool and the main thread are scheduled, and the emulator
\* has a step cap, so that each case ends; a signal need not come.
Spec == Init /\ [][Next]_vars /\ WF_vars(RunnerStep)

-----------------------------------------------------------------------------
\* What a guest does on a row when nothing else is in the directory.
Own(b, row) == Record(row, b[row].rc, IF b[row].writes THEN b[row].out ELSE None)

\* If the labels in the JSON file are distinct, each class in it is
\* what the guest that was run earned by itself: neither the other threads of
\* run_case nor the files of earlier runs change it.
ResultsAreOwn ==
    json \notin {None, Torn} /\ ~HasDuplicates(json)
        => \A i \in DOMAIN json :
             json[i].class = Own(measured, FirstRow(json[i].label)).class

\* The gate passes only if the guest whose results it read earns a pass on
\* every fixture that passed when the baseline was recorded, whatever labels
\* the manifest repeats (of a label's rows a rerun takes the first) and wherever
\* runs and updates were stopped (run_eest_with_baseline, check).
PassMeansMeasured ==
    verdict # None /\ verdict.pass
        => \A l \in verdict.entry.labels \ DOMAIN verdict.entry.failures :
             Passes(Own(measured, FirstRow(l)))

\* The baseline is always the summary of one finished run, and of no other file:
\* it is never half written, and one guest earns the failures it allows
\* (write_baseline).
BaselineIsSummary ==
    baseline # None =>
        /\ baseline # Torn
        /\ \E b \in Builds : \A l \in baseline.labels :
             Passes(Own(b, FirstRow(l))) <=> l \notin DOMAIN baseline.failures

\* "setup and runner errors (2+) remain hard failures" (tools/check_all.sh):
\* a gate that passes is about the guest that was built.
PassIsAboutThisBuild == verdict # None /\ verdict.pass => measured = build

\* A run ends, with or without results (main, ThreadPoolExecutor).
RunEnds == (runner = "running") ~> (runner = "exited")

=============================================================================
