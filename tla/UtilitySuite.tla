---------------------------- MODULE UtilitySuite ----------------------------
(***************************************************************************)
(* A utility suite (internal/utilitysuite) runs its cases one after the    *)
(* other through internal/utilityrun, collects their outcomes in a staging *)
(* directory and publishes it by a rename.  internal/utilitysuiteartifact  *)
(* verifies what was published and packs it with the runs it links.  The   *)
(* invocations of this module all use one suite run id: a second shell, or *)
(* the retry after a crash.                                                *)
(***************************************************************************)
EXTENDS Naturals, Sequences, FiniteSets, SequencesExt

CONSTANTS Invocations,   \* processes started with the same suite run id
          SuiteTests,    \* sequences of utility tests a suite may list
          SuiteRepeats,  \* bound on the repeats of a case
          CleanName      \* CleanName[t]: the name of t in a run id

NoDir == [by |-> "nobody"]

VARIABLES suitePlan,     \* [cases: the entry run ids, stop: STOP_ON_FAIL]
          suitePc, suiteRows,
          suiteDir,      \* runs/utility-suites/<id>, or NoDir
          specFiles,     \* .tmp/utility-tests/<entry run id>.env
          caseRuns,      \* runs/<entry run id>: [state, by]
          packer         \* a concurrent bundle of the published suite

suiteVars == <<suitePlan, suitePc, suiteRows, suiteDir, specFiles, caseRuns, packer>>

\* Build: tests x profile sizes x repeats, named as Run names its entries.
CasesOf(tests, sizes, repeats) ==
  FlattenSeq([t \in 1..Len(tests) |-> FlattenSeq([s \in 1..Len(sizes) |->
    [r \in 1..repeats |-> <<CleanName[tests[t]], sizes[s], r>>]])])

SuitePlans == {[cases |-> CasesOf(t, <<"small">>, r), stop |-> s] :
                  t \in SuiteTests, r \in 1..SuiteRepeats, s \in BOOLEAN}

CaseIds == UNION {Range(p.cases) : p \in SuitePlans}
NoRun == [state |-> "absent", by |-> "nobody"]

SuiteInit == /\ suitePlan \in SuitePlans
             /\ suitePc = [i \in Invocations |-> "idle"]
             /\ suiteRows = [i \in Invocations |-> <<>>]
             /\ suiteDir = NoDir /\ specFiles = {}
             /\ caseRuns = [c \in CaseIds |-> NoRun]
             /\ packer = [at |-> "idle", runs |-> <<>>]

Goto(i, label) == suitePc' = [suitePc EXCEPT ![i] = label]
CurrentCase(i) == suitePlan.cases[Len(suiteRows[i]) + 1]

\* prepareRunDirectory: an existing final directory refuses the suite.
PrepareRunDirectory(i) ==
  /\ suitePc[i] = "idle"
  /\ Goto(i, IF suiteDir = NoDir THEN "case" ELSE "refused")
  /\ UNCHANGED <<suitePlan, suiteRows, suiteDir, specFiles, caseRuns, packer>>

\* The driver log is created exclusively: a second case of the same name ends
\* the suite and removes its staging directory.
OpenDriverLog(i) ==
  /\ suitePc[i] = "case"
  /\ Goto(i, IF CurrentCase(i) \in {r.run : r \in Range(suiteRows[i])} THEN "error" ELSE "select")
  /\ UNCHANGED <<suitePlan, suiteRows, suiteDir, specFiles, caseRuns, packer>>

\* The end of the loop body: the row, and the stop after a failed case.
EndCase(i, status) ==
  LET rows == Append(suiteRows[i], [run |-> CurrentCase(i), status |-> status])
  IN  /\ suiteRows' = [suiteRows EXCEPT ![i] = rows]
      /\ Goto(i, IF \/ status = "failed" /\ suitePlan.stop
                    \/ Len(rows) = Len(suitePlan.cases) THEN "write" ELSE "case")

\* selectSourceSpec reads one stable snapshot of the test's spec and the plan
\* is built from it; both may be refused, before anything is written.
SelectSourceSpec(i) ==
  /\ suitePc[i] = "select"
  /\ \/ Goto(i, "spec") /\ UNCHANGED suiteRows
     \/ EndCase(i, "failed")
  /\ UNCHANGED <<suitePlan, suiteDir, specFiles, caseRuns, packer>>

\* writeExperimentSpec: the generated spec is published exclusively and stays.
WriteExperimentSpec(i) ==
  /\ suitePc[i] = "spec"
  /\ IF CurrentCase(i) \in specFiles
     THEN EndCase(i, "failed") /\ UNCHANGED specFiles
     ELSE /\ specFiles' = specFiles \cup {CurrentCase(i)}
          /\ Goto(i, "start") /\ UNCHANGED suiteRows
  /\ UNCHANGED <<suitePlan, suiteDir, caseRuns, packer>>

\* RunPrepared: refused before the run directory is reserved, or because the
\* directory exists; otherwise the run is open.
StartCaseRun(i) ==
  /\ suitePc[i] = "start"
  /\ \/ EndCase(i, "failed") /\ UNCHANGED caseRuns
     \/ /\ caseRuns[CurrentCase(i)] = NoRun
        /\ caseRuns' = [caseRuns EXCEPT ![CurrentCase(i)] = [state |-> "open", by |-> i]]
        /\ Goto(i, "running") /\ UNCHANGED suiteRows
  /\ UNCHANGED <<suitePlan, suiteDir, specFiles, packer>>

\* The run ends with a verdict, or without one; utilityrun passes only a run
\* that passed, and closing the driver log may still fail the case.
FinishCaseRun(i) ==
  /\ suitePc[i] = "running"
  /\ \E verdict \in {"passed", "failed", "open"}, status \in {"passed", "failed"} :
       /\ status = "passed" => verdict = "passed"
       /\ caseRuns' = [caseRuns EXCEPT ![CurrentCase(i)].state = verdict]
       /\ EndCase(i, status)
  /\ UNCHANGED <<suitePlan, suiteDir, specFiles, packer>>

\* result.json and summary.md in the staging directory, then the second
\* inspection of the destination.
WriteSuiteResult(i) ==
  /\ suitePc[i] = "write"
  /\ \/ Goto(i, IF suiteDir = NoDir THEN "rename" ELSE "error")
     \/ Goto(i, "error")
  /\ UNCHANGED <<suitePlan, suiteRows, suiteDir, specFiles, caseRuns, packer>>

CountRows(rows, status) == Cardinality({n \in 1..Len(rows) : rows[n].status = status})

ResultOfLastRow(rows) ==
  [total |-> Len(suitePlan.cases), passed |-> CountRows(rows, "passed"),
   failed |-> CountRows(rows, "failed"), status |-> Last(rows).status]

\* result.json: the status starts as passed and the first failed case ends that.
SuiteResult(rows) ==
  [total |-> Len(suitePlan.cases), passed |-> CountRows(rows, "passed"),
   failed |-> CountRows(rows, "failed"),
   status |-> IF CountRows(rows, "failed") = 0 THEN "passed" ELSE "failed"]

\* rename(2) and os.Rename refuse a destination that is a directory.
PublishRunDirectory(i) ==
  /\ suitePc[i] = "rename"
  /\ IF suiteDir = NoDir
     THEN suiteDir' = [by |-> i, rows |-> suiteRows[i], result |-> SuiteResult(suiteRows[i])]
          /\ Goto(i, "done")
     ELSE UNCHANGED suiteDir /\ Goto(i, "error")
  /\ UNCHANGED <<suitePlan, suiteRows, specFiles, caseRuns, packer>>

SuiteEnded == {"refused", "error", "done", "crashed"}

\* The process dies: its staging directory, specs and runs stay.
SuiteCrash(i) ==
  /\ suitePc[i] \notin SuiteEnded \cup {"idle"}
  /\ Goto(i, "crashed")
  /\ UNCHANGED <<suitePlan, suiteRows, suiteDir, specFiles, caseRuns, packer>>

-----------------------------------------------------------------------------
\* checkRunResultConsistency: result.json against runs.tsv.
ResultConsistent(dir) ==
  /\ dir.result.total >= Len(dir.rows)
  /\ dir.result.passed + dir.result.failed = Len(dir.rows)

\* checkEntries, checkExperimentRun: a linked run that exists must verify,
\* which a run without a verdict does not; only a failed case may lack one.
RowsVerify(dir, runs) ==
  /\ dir.rows # <<>>
  /\ \A r \in Range(dir.rows) : /\ runs[r.run].state # "open"
                                /\ r.status = "passed" => runs[r.run].state # "absent"

SuiteVerifies(dir, runs) == ResultConsistent(dir) /\ RowsVerify(dir, runs)

LinkedRunsExist == \A r \in Range(suiteDir.rows) : caseRuns[r.run].state # "absent"

\* createBundle, first half: verify in place, then require every linked run.
PackVerify ==
  /\ packer.at = "idle" /\ suiteDir # NoDir
  /\ packer' = [packer EXCEPT !.at = IF SuiteVerifies(suiteDir, caseRuns) THEN "link" ELSE "refused"]
  /\ UNCHANGED <<suitePlan, suitePc, suiteRows, suiteDir, specFiles, caseRuns>>

\* The linked runs are inspected and copied into the stage.
PackCopy ==
  /\ packer.at = "link"
  /\ packer' = IF LinkedRunsExist THEN [at |-> "staged", runs |-> caseRuns]
                                  ELSE [packer EXCEPT !.at = "refused"]
  /\ UNCHANGED <<suitePlan, suitePc, suiteRows, suiteDir, specFiles, caseRuns>>

PackStage ==
  /\ packer.at = "staged"
  /\ packer' = [packer EXCEPT !.at = "packed"]
  /\ UNCHANGED <<suitePlan, suitePc, suiteRows, suiteDir, specFiles, caseRuns>>

\* The stage is verified like an artifact before the archive gets its name.
PackPublish ==
  /\ packer.at = "staged"
  /\ packer' = [packer EXCEPT !.at = IF SuiteVerifies(suiteDir, packer.runs) THEN "packed" ELSE "refused"]
  /\ UNCHANGED <<suitePlan, suitePc, suiteRows, suiteDir, specFiles, caseRuns>>

SuiteStep(i) == \/ OpenDriverLog(i) \/ SelectSourceSpec(i) \/ WriteExperimentSpec(i)
                \/ StartCaseRun(i) \/ FinishCaseRun(i)
                \/ WriteSuiteResult(i) \/ PublishRunDirectory(i)

SuiteNext == \/ \E i \in Invocations : PrepareRunDirectory(i) \/ SuiteStep(i) \/ SuiteCrash(i)
             \/ PackVerify \/ PackCopy \/ PackPublish

SuiteFairness == \A i \in Invocations : WF_suiteVars(SuiteStep(i))

SuiteSpec == SuiteInit /\ [][SuiteNext]_suiteVars /\ SuiteFairness
-----------------------------------------------------------------------------
\* A suite published as passed ran every case of its plan, and each linked run
\* passed and was started by the invocation that published: neither the leftovers
\* of a crash nor the runs of a concurrent invocation are taken for its own
\* (utilitysuite.Run, utilityrun.writeExperimentSpec).
SuitePassedIsEarned ==
  suiteDir # NoDir /\ suiteDir.result.status = "passed" =>
    /\ [n \in 1..Len(suiteDir.rows) |-> suiteDir.rows[n].run] = suitePlan.cases
    /\ \A r \in Range(suiteDir.rows) : caseRuns[r.run] = [state |-> "passed", by |-> suiteDir.by]

\* A packed suite holds a finished run for every row, although other invocations
\* of the same id may start and end runs while it is packed
\* (utilitysuiteartifact.createBundle).
PackedSuiteIsClosed ==
  packer.at = "packed" => \A r \in Range(suiteDir.rows) :
                             packer.runs[r.run].state \in {"passed", "failed"}

\* An invocation that started ends or dies (utilitysuite.Run).
SuiteEnds == \A i \in Invocations : suitePc[i] = "case" ~> suitePc[i] \in SuiteEnded
=============================================================================
