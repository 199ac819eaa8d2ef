-------------------------- MODULE OperationSeries ---------------------------
(***************************************************************************)
(* internal/operationbench runs an operation a fixed number of times from  *)
(* the live workspace, keeps the bytes it inspected at the start and       *)
(* compares the live files with them before and after each trial.  Others  *)
(* edit files, touch a linked run, or publish a series of the same id.     *)
(***************************************************************************)
EXTENDS Naturals, Sequences, FiniteSets

CONSTANTS OperationTrials,   \* spec.Trials
          MaxEdits           \* bound on the edits of live files

\* collectInputClosure reads the two specs and every file they refer to; the
\* engine and the native toolchain have identities of their own.
Closure == {"spec", "experiment", "referenced"}
LiveFiles == Closure \cup {"engine", "toolchain"}

\* What Run reads before it makes a directory, and what it then copies, in order;
\* a file is read for the identity of the same name.
Reads  == <<<<"specDigest", "spec">>, <<"engine", "engine">>, <<"toolchain", "toolchain">>,
            <<"spec", "spec">>, <<"experiment", "experiment">>, <<"referenced", "referenced">>,
            <<"experimentDigest", "experiment">>>>
Copies == <<<<"operation-spec", "spec">>, <<"experiment-spec", "experiment">>, <<"spec", "spec">>,
            <<"experiment", "experiment">>, <<"referenced", "referenced">>,
            <<"engine", "engine">>, <<"toolchain", "toolchain">>>>
Named(reads) == {reads[k][1] : k \in DOMAIN reads}
\* The identity a copy is held against.
IdentityOf(copy) == CASE copy = "operation-spec" -> "specDigest"
                      [] copy = "experiment-spec" -> "experimentDigest"
                      [] OTHER -> copy

NoOperation == [by |-> "nobody", result |-> "none", trials |-> <<>>]

VARIABLES opPc, opStep,     \* place, and position within Reads or Copies
          live,             \* version of each live file
          opEdits, opReverted,
          recorded,         \* identities read at the start
          capsule,          \* the copies of the stage, later of the series
          opDir,            \* runs/operation-benchmarks/<id>
          linkedRuns,       \* the trials' run directories: "absent", "valid" or "changed"
          opTrials,         \* series.Trials in memory
          opStatus          \* series.Status

opVars == <<opPc, opStep, live, opEdits, opReverted, recorded, capsule, opDir, linkedRuns, opTrials, opStatus>>

OperationInit ==
  /\ opPc = "read" /\ opStep = 1 /\ live = [f \in LiveFiles |-> 0] /\ opEdits = 0 /\ opReverted = FALSE
  /\ recorded = [r \in Named(Reads) |-> 0] /\ capsule = [c \in Named(Copies) |-> 0]
  /\ opDir \in {NoOperation, [NoOperation EXCEPT !.by = "earlier"]}
  /\ linkedRuns = [n \in 1..OperationTrials |-> "absent"]
  /\ opTrials = <<>> /\ opStatus = "passed"

\* Load, inspectEngineBinary, Inspect, collectInputClosure, DigestFile.
ReadIdentity ==
  /\ opPc = "read"
  /\ recorded' = [recorded EXCEPT ![Reads[opStep][1]] = live[Reads[opStep][2]]]
  /\ IF opStep < Len(Reads) THEN opStep' = opStep + 1 /\ UNCHANGED opPc
                            ELSE opStep' = 1 /\ opPc' = "reserve"
  /\ UNCHANGED <<live, opEdits, opReverted, capsule, opDir, linkedRuns, opTrials, opStatus>>

\* Lstat of the destination, then MkdirTemp.
ReserveOperation ==
  /\ opPc = "reserve" /\ opPc' = IF opDir = NoOperation THEN "copy" ELSE "refused"
  /\ UNCHANGED <<opStep, live, opEdits, opReverted, recorded, capsule, opDir, linkedRuns, opTrials, opStatus>>

\* snapshotFile copies whatever lies there; snapshotEngineBinary and Snapshot
\* compare their copy with the identity and give up.
CheckedCopies == {"engine", "toolchain"}
SnapshotFile ==
  /\ opPc = "copy"
  /\ LET c == Copies[opStep][1]  v == live[Copies[opStep][2]] IN
     /\ capsule' = [capsule EXCEPT ![c] = v]
     /\ IF c \in CheckedCopies /\ v # recorded[IdentityOf(c)] THEN opPc' = "refused" /\ UNCHANGED opStep
        ELSE IF opStep < Len(Copies) THEN opStep' = opStep + 1 /\ UNCHANGED opPc
        ELSE opStep' = 1 /\ opPc' = "rename"
  /\ UNCHANGED <<live, opEdits, opReverted, recorded, opDir, linkedRuns, opTrials, opStatus>>

\* os.Rename of the stage onto the series directory: refused when it exists.
ReplaceSeries == opDir' = [NoOperation EXCEPT !.by = "us"] /\ opPc' = "before"
PublishSeries == IF opDir = NoOperation THEN ReplaceSeries ELSE opPc' = "refused" /\ UNCHANGED opDir
RenameStage ==
  /\ opPc = "rename" /\ PublishSeries
  /\ UNCHANGED <<opStep, live, opEdits, opReverted, recorded, capsule, linkedRuns, opTrials, opStatus>>

\* revalidateEngineBinary, Revalidate, verifyLiveInputs.
StillRecorded(files) == \A f \in files : live[f] = recorded[f]

Trial == Len(opTrials) + 1
BeforeTrial ==
  /\ opPc = "before"
  /\ IF StillRecorded(LiveFiles) THEN opPc' = "run" /\ UNCHANGED opStatus
                                 ELSE opPc' = "finish" /\ opStatus' = "failed"
  /\ UNCHANGED <<opStep, live, opEdits, opReverted, recorded, capsule, opDir, linkedRuns, opTrials>>

\* An experiment run as collectTrial finds it: the verdict of the run, whether
\* the runner returned an error beside it, and the parameters, identity and
\* value of its manifest and result (0: derivePrimaryValue fails).
Outcomes ==
  [verdict : {"passed"}, err : BOOLEAN, contract : {1, 2}, value : {1, 2}]
  \cup [verdict : {"passed"}, err : {FALSE}, contract : {1}, value : {0}]
  \cup [verdict : {"failed", "none"}, err : {TRUE}, contract : {1}, value : {0}]

\* RunExperiment reads the live files; they are noted when it does.
RunTrial ==
  /\ opPc = "run"
  /\ \E o \in Outcomes :
       opTrials' = Append(opTrials, [run |-> o, used |-> live, status |-> "running"])
  /\ linkedRuns' = [linkedRuns EXCEPT ![Trial] = "valid"]
  /\ opPc' = "collect"
  /\ UNCHANGED <<opStep, live, opEdits, opReverted, recorded, capsule, opDir, opStatus>>

\* collectTrial: a passing run, that verifies now, without an error.
TrialStatus(o, dir) ==
  IF o.verdict = "passed" /\ ~o.err /\ dir = "valid" /\ o.value # 0 THEN "passed" ELSE "failed"
CollectTrial ==
  /\ opPc = "collect"
  /\ LET n == Len(opTrials) IN
     opTrials' = [opTrials EXCEPT ![n].status = TrialStatus(opTrials[n].run, linkedRuns[n])]
  /\ opPc' = "after"
  /\ UNCHANGED <<opStep, live, opEdits, opReverted, recorded, capsule, opDir, linkedRuns, opStatus>>

\* The same three checks after the trial, then the digests of both specs; a
\* trial error ends the series, the trial stays in it.
SpecsUnchanged == live["experiment"] = recorded["experimentDigest"] /\ live["spec"] = recorded["specDigest"]
TrialHolds == opTrials[Len(opTrials)].status = "passed" /\ SpecsUnchanged
TrialStands == TrialHolds /\ StillRecorded(LiveFiles)
AfterTrial ==
  /\ opPc = "after"
  /\ IF TrialStands
     THEN opPc' = (IF Len(opTrials) = OperationTrials THEN "finish" ELSE "before") /\ UNCHANGED opStatus
     ELSE opPc' = "finish" /\ opStatus' = "failed"
  /\ UNCHANGED <<opStep, live, opEdits, opReverted, recorded, capsule, opDir, linkedRuns, opTrials>>

\* finishSeries: all exact trials, one contract; noisy values are inconclusive
\* (the coefficient of variation is over the bound when two values differ).
Steady(trials, part) == \A i, j \in 1..Len(trials) : trials[i].run[part] = trials[j].run[part]
AllPassed(trials) == Len(trials) = OperationTrials /\ \A i \in 1..Len(trials) : trials[i].status = "passed"
FinishSeries(status, trials) ==
  IF status = "failed" \/ ~AllPassed(trials) \/ ~Steady(trials, "contract") THEN "failed"
  ELSE IF Steady(trials, "value") THEN "passed" ELSE "inconclusive"

\* writeSeries: trials/, result.json, summary.md; any of them may fail.
WriteSeries ==
  /\ opPc = "finish" /\ opStatus' = FinishSeries(opStatus, opTrials)
  /\ \/ /\ opDir' = [opDir EXCEPT !.result = opStatus', !.trials = opTrials]
        /\ opPc' = IF opStatus' = "failed" THEN "failed" ELSE "verify"
     \/ opPc' = "error" /\ UNCHANGED opDir
  /\ UNCHANGED <<opStep, live, opEdits, opReverted, recorded, capsule, linkedRuns, opTrials>>

\* checkInputCapsule, checkRetainedRuntimeIdentity, checkInputClosureCompleteness.
CapsuleVerifies == \A c \in Named(Copies) : capsule[c] = recorded[IdentityOf(c)]
SpecsAgree == recorded["spec"] = recorded["specDigest"] /\ recorded["experiment"] = recorded["experimentDigest"]
\* checkTrials: every linked run by tree digest, verdict and value.
TrialsVerify(trials) ==
  \A n \in 1..Len(trials) : linkedRuns[n] = "valid" /\ trials[n].status = trials[n].run.verdict
\* checkAggregate derives the status anew.
DerivedStatus(trials) == FinishSeries("passed", trials)
OperationVerifies == /\ opDir.result # "none" /\ opDir.trials # <<>>
                     /\ CapsuleVerifies /\ SpecsAgree /\ TrialsVerify(opDir.trials)
                     /\ opDir.result = DerivedStatus(opDir.trials)

VerifyOperation ==
  /\ opPc = "verify" /\ opPc' = IF OperationVerifies THEN "done" ELSE "failed"
  /\ UNCHANGED <<opStep, live, opEdits, opReverted, recorded, capsule, opDir, linkedRuns, opTrials, opStatus>>

OperationEnded == {"refused", "error", "failed", "done"}
\* Somebody edits a live file, back to its first version or away from it.
EditLive(f) ==
  /\ opEdits < MaxEdits /\ opEdits' = opEdits + 1 /\ opPc \notin OperationEnded
  /\ live' = [live EXCEPT ![f] = 1 - @] /\ opReverted' = (opReverted \/ live[f] = 1)
  /\ UNCHANGED <<opPc, opStep, recorded, capsule, opDir, linkedRuns, opTrials, opStatus>>
EditRun(n) ==
  /\ linkedRuns[n] = "valid" /\ opPc \notin OperationEnded
  /\ linkedRuns' = [linkedRuns EXCEPT ![n] = "changed"]
  /\ UNCHANGED <<opPc, opStep, live, opEdits, opReverted, recorded, capsule, opDir, opTrials, opStatus>>
RivalOperation ==
  /\ opDir = NoOperation /\ opDir' = [NoOperation EXCEPT !.by = "rival"]
  /\ UNCHANGED <<opPc, opStep, live, opEdits, opReverted, recorded, capsule, linkedRuns, opTrials, opStatus>>

OperationStep == \/ ReadIdentity \/ ReserveOperation \/ SnapshotFile \/ RenameStage \/ BeforeTrial
                 \/ RunTrial \/ CollectTrial \/ AfterTrial \/ WriteSeries \/ VerifyOperation
OperationNext == \/ OperationStep \/ RivalOperation
                 \/ \E f \in LiveFiles : EditLive(f)
                 \/ \E n \in 1..OperationTrials : EditRun(n)
OperationSpec == OperationInit /\ [][OperationNext]_opVars /\ WF_opVars(OperationStep)
-----------------------------------------------------------------------------
\* docs/operation-benchmarks.md:80: the boundary checks find every edit that
\* stays.  A series that Run returned without an error used, in each trial, the
\* bytes its capsule keeps, unless a file was changed and changed back; they are
\* read once per file and copied later (Run, verify).
DoneRanWhatItKeeps ==
  opPc = "done" /\ ~opReverted =>
    \A n \in 1..OperationTrials : \A c \in Named(Copies) :
      capsule[c] = opDir.trials[n].used[CHOOSE f \in LiveFiles : <<c, f>> \in {Copies[k] : k \in DOMAIN Copies}]

=============================================================================
