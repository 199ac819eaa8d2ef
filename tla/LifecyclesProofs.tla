------------------------ MODULE LifecyclesProofs ------------------------
(***************************************************************************)
(* Theorems about module MCLifecycles, for every value of its constants:   *)
(* what a run checks of each part on a small instance.  The shell's part   *)
(* is ExperimentRun under other names, and its proof is that of module     *)
(* ExperimentRunProofs.                                                    *)
(***************************************************************************)
EXTENDS MCLifecycles, FiniteSetTheorems, TLAPS

Proved == INSTANCE ExperimentRunProofs
            WITH pc <- shPc, code <- shCode, manifest <- shManifest, sig <- shSig

LEMMA SameInit == Shell!Init => Proved!Init
BY DEF Shell!Init, Proved!Init

LEMMA SameNext == Shell!Next => Proved!Next
BY DEF
  Shell!Shell, Shell!Reserve, Shell!WriteManifest, Shell!LoadSpec, Shell!PrepareRuntime,
  Shell!StartChildren, Shell!StartWorkload, Shell!WorkloadPhase, Shell!WorkloadPhaseFails,
  Shell!WorkloadRefuses, Shell!WorkloadKilled, Shell!StopChildren, Shell!RunAssertions,
  Shell!CollectEvidence, Shell!Decide, Shell!CleanUp, Shell!MarkCleaned,
  Shell!MaterializeControls, Shell!WritePassed, Shell!FlagWritten, Shell!Verify,
  Shell!EndBody, Shell!HandleTermination, Shell!CompletePhases, Shell!TerminalCleanup,
  Shell!TerminalControls, Shell!RestoreManifest, Shell!TerminalVerdict, Shell!StraySignal,
  Shell!GoStops, Shell!GoKills, Shell!GoReturns, Shell!Next,
  Proved!Shell, Proved!Reserve, Proved!WriteManifest, Proved!LoadSpec,
  Proved!PrepareRuntime, Proved!StartChildren, Proved!StartWorkload, Proved!WorkloadPhase,
  Proved!WorkloadPhaseFails, Proved!WorkloadRefuses, Proved!WorkloadKilled,
  Proved!StopChildren, Proved!RunAssertions, Proved!CollectEvidence, Proved!Decide,
  Proved!CleanUp, Proved!MarkCleaned, Proved!MaterializeControls, Proved!WritePassed,
  Proved!FlagWritten, Proved!Verify, Proved!EndBody, Proved!HandleTermination,
  Proved!CompletePhases, Proved!TerminalCleanup, Proved!TerminalControls,
  Proved!RestoreManifest, Proved!TerminalVerdict, Proved!StraySignal, Proved!GoStops,
  Proved!GoKills, Proved!GoReturns, Proved!Next,
  Shell!exits, Shell!files, Shell!flags, Shell!world, Shell!Benchmark, Shell!Record,
  Shell!Follows, Shell!At, Shell!Fails, Shell!WorkloadReturns, Shell!Signal, Shell!Armed,
  Shell!PreflightPassed, Shell!Preflight, Shell!Prepare, Shell!Stabilize, Shell!PreWarmup,
  Shell!Measure, Shell!Cooldown, Shell!Validate, Shell!Collect, Shell!Cleanup, Shell!Row,
  Shell!HasFailure, Shell!LastSequence, Shell!Closing, Shell!Completed,
  Shell!CompletionFails, Shell!Body, Shell!Trap, Shell!Over,
  Proved!exits, Proved!files, Proved!flags, Proved!world, Proved!Benchmark, Proved!Record,
  Proved!Follows, Proved!At, Proved!Fails, Proved!WorkloadReturns, Proved!Signal,
  Proved!Armed, Proved!PreflightPassed, Proved!Preflight, Proved!Prepare, Proved!Stabilize,
  Proved!PreWarmup, Proved!Measure, Proved!Cooldown, Proved!Validate, Proved!Collect,
  Proved!Cleanup, Proved!Row, Proved!HasFailure, Proved!LastSequence, Proved!Closing,
  Proved!Completed, Proved!CompletionFails, Proved!Body, Proved!Trap, Proved!Over

LEMMA SameVars == UNCHANGED ShellVars => UNCHANGED Proved!vars
BY DEF ShellVars, Proved!vars, Proved!exits, Proved!files, Proved!flags, Proved!world

ShellInv == part = "shell" => Proved!IInv

\* Of a step of the whole: the part stays, and it is a step of the part.
LEMMA ShellStep ==
  ASSUME [Next]_allVars, part = "shell"
  PROVE  part' = "shell" /\ (Shell!Next \/ UNCHANGED ShellVars)
BY DEF Next, allVars, ExperimentAlone, ShellAlone, SuiteAlone, CampaignAlone, DriverAlone

LEMMA PartStays == [Next]_allVars => part' = part
BY DEF Next, allVars, ExperimentAlone, ShellAlone, SuiteAlone, CampaignAlone, DriverAlone

LEMMA ShellInvariance == Spec => []ShellInv
<1>1. Init => ShellInv
  BY SameInit, Proved!InvInit
     DEF Init, ShellInv, ExperimentStarts, ShellStarts, SuiteStarts, CampaignStarts, DriverStarts
<1>2. ShellInv /\ [Next]_allVars => ShellInv'
  <2> SUFFICES ASSUME ShellInv, [Next]_allVars, part' = "shell" PROVE Proved!IInv'
    BY DEF ShellInv
  <2>1. part = "shell" /\ Proved!IInv /\ (Shell!Next \/ UNCHANGED ShellVars)
    BY PartStays, ShellStep DEF ShellInv
  <2>2. CASE Shell!Next
    BY <2>1, <2>2, SameNext, Proved!InvNext
  <2>3. CASE UNCHANGED ShellVars
    BY <2>1, <2>3, SameVars, Proved!InvStutter
  <2>4. QED BY <2>1, <2>2, <2>3
<1>3. QED BY <1>1, <1>2, PTL DEF Spec

\* The verdict on disk and the result the caller gets agree, wherever the shell
\* failed or was stopped (run_experiment.sh, experimentrun.Run).
THEOREM VerdictsAgree == Spec => []VerdictMatchesResult
<1>1. Proved!VerdictMatchesResult => Shell!VerdictMatchesResult
  BY DEF Proved!VerdictMatchesResult, Shell!VerdictMatchesResult, Proved!Finished, Shell!Finished
<1>2. ShellInv => VerdictMatchesResult
  BY <1>1, Proved!InvVerdict DEF ShellInv, VerdictMatchesResult
<1>3. QED BY <1>2, ShellInvariance, PTL

\* The journal a run leaves is one the Go reader accepts, and a failed phase fails
\* the run (benchmark_phase.sh, benchmarkphase.build).
THEOREM JournalsAreTrue == Spec => []JournalIsTrue
<1>1. Proved!JournalIsTrue => Shell!JournalIsTrue
  BY DEF Proved!JournalIsTrue, Shell!JournalIsTrue, Proved!AbortedTrialsParse,
     Shell!AbortedTrialsParse, Proved!FailedPhaseFailsRun, Shell!FailedPhaseFailsRun,
     Proved!Accepted, Shell!Accepted, Proved!HasFailure, Shell!HasFailure, Proved!Required,
     Shell!Required, Proved!Benchmark, Shell!Benchmark,
     Shell!Preflight, Shell!Prepare, Shell!Measure, Shell!Validate, Shell!Collect,
     Shell!Cleanup,
     Proved!Preflight, Proved!Prepare, Proved!Measure, Proved!Validate, Proved!Collect,
     Proved!Cleanup
<1>2. ShellInv => JournalIsTrue
  BY <1>1, Proved!InvJournal DEF ShellInv, JournalIsTrue
<1>3. QED BY <1>2, ShellInvariance, PTL

\* No verdict becomes passed before every exit is zero and, with a journal, eleven
\* phases are on record without a failure (run_experiment.sh).
THEOREM GatesBeforePassed == Spec => PassedAfterAllGates
<1> DEFINE G == part = "shell" /\ verdict # "passed" /\ verdict' = "passed" =>
                  ~workload /\ ~assert /\ ~scan /\ (mode = "benchmark" => Shell!TimelinePassed(journal))
<1>1. Proved!TimelinePassed(journal) => Shell!TimelinePassed(journal)
  BY DEF Proved!TimelinePassed, Shell!TimelinePassed, Proved!Accepted, Shell!Accepted,
     Proved!HasFailure, Shell!HasFailure, Proved!Required, Shell!Required,
     Shell!Preflight, Shell!Prepare, Shell!Measure, Shell!Validate, Shell!Collect,
     Shell!Cleanup,
     Proved!Preflight, Proved!Prepare, Proved!Measure, Proved!Validate, Proved!Collect,
     Proved!Cleanup
<1>2. ShellInv /\ [Next]_allVars => [G]_ShellVars
  <2> SUFFICES ASSUME ShellInv, [Next]_allVars, part = "shell", ~UNCHANGED ShellVars,
                      verdict # "passed", verdict' = "passed"
               PROVE  ~workload /\ ~assert /\ ~scan /\ (mode = "benchmark" => Shell!TimelinePassed(journal))
    OBVIOUS
  <2>1. Proved!IInv /\ Proved!Next
    BY ShellStep, SameNext DEF ShellInv
  <2>2. QED BY <1>1, <2>1, Proved!GateStep DEF Proved!Gated
<1>3. QED BY <1>2, ShellInvariance, PTL DEF Spec, PassedAfterAllGates
-----------------------------------------------------------------------------
(***************************************************************************)
(* The suites: whatever the invocations of one id do, the rows of each     *)
(* follow the plan, and only its own runs stand as passed in them.         *)
(***************************************************************************)

\* A list of one or two parts, put together.
LEMMA FlattenOne == \A s : Suite!FlattenSeq(<<s>>) = s
<1> SUFFICES ASSUME NEW s PROVE Suite!FlattenSeq(<<s>>) = s
  OBVIOUS
<1> DEFINE parts == <<s>>
           Step(f) == [i \in 1..Len(parts) |-> IF i = 1 THEN parts[i] ELSE f[i-1] \o parts[i]]
           flat == CHOOSE f : f = Step(f)
<1>1. \E f : f = Step(f)
  <2>1. [i \in {1} |-> s] = Step([i \in {1} |-> s])
    OBVIOUS
  <2>2. QED BY <2>1
<1>2. flat = Step(flat)
  BY <1>1
<1>3. flat[1] = s
  BY <1>2
<1>4. Suite!FlattenSeq(parts) = flat[Len(parts)]
  BY DEF Suite!FlattenSeq
<1>5. QED BY <1>3, <1>4

LEMMA FlattenTwo == \A s, t : Suite!FlattenSeq(<<s, t>>) = s \o t
<1> SUFFICES ASSUME NEW s, NEW t PROVE Suite!FlattenSeq(<<s, t>>) = s \o t
  OBVIOUS
<1> DEFINE parts == <<s, t>>
           Step(f) == [i \in 1..Len(parts) |-> IF i = 1 THEN parts[i] ELSE f[i-1] \o parts[i]]
           flat == CHOOSE f : f = Step(f)
<1>1. \E f : f = Step(f)
  <2> DEFINE g == [i \in 1..2 |-> IF i = 1 THEN s ELSE s \o t]
  <2>1. g = Step(g)
    OBVIOUS
  <2>2. QED BY <2>1
<1>2. flat = Step(flat)
  BY <1>1
<1>3. ASSUME NEW f, f = Step(f) PROVE f[2] = s \o t
  <2>1. \A i \in 1..2 : f[i] = IF i = 1 THEN parts[i] ELSE f[i-1] \o parts[i]
    BY <1>3
  <2>2. f[1] = s
    BY <2>1
  <2>3. f[2] = f[1] \o t
    BY <2>1
  <2>4. QED BY <2>2, <2>3
<1>4. flat[2] = s \o t
  BY <1>2, <1>3
<1>5. Suite!FlattenSeq(parts) = flat[Len(parts)]
  BY DEF Suite!FlattenSeq
<1>6. QED BY <1>3, <1>4, <1>5
LEMMA FunctionAsSequence ==
  ASSUME NEW n \in Nat, NEW S, NEW f \in [1..n -> S]
  PROVE  f \in Seq(S) /\ Len(f) = n
OBVIOUS

LEMMA Concatenated ==
  ASSUME NEW S, NEW s \in Seq(S), NEW t \in Seq(S)
  PROVE  s \o t \in Seq(S) /\ Len(s \o t) = Len(s) + Len(t)
OBVIOUS

LEMMA SequenceOfCases ==
  ASSUME NEW p \in Suite!SuitePlans, NEW T, p.cases \in Seq(T), Len(p.cases) >= 1
  PROVE  p.cases \in Seq(Suite!CaseIds) /\ p.cases # <<>>
<1>1. \A n \in DOMAIN p.cases : p.cases[n] \in Suite!CaseIds
  BY DEF Suite!CaseIds, Suite!Range
<1>2. QED BY <1>1

\* A suite of one or two tests lists a case at least, and its cases in one sequence.
LEMMA SuiteCases ==
  \A p \in Suite!SuitePlans : p.cases \in Seq(Suite!CaseIds) /\ p.cases # <<>>
<1> SUFFICES ASSUME NEW p \in Suite!SuitePlans
             PROVE  p.cases \in Seq(Suite!CaseIds) /\ p.cases # <<>>
  OBVIOUS
<1>1. PICK tests \in SuiteTests, repeats \in 1..SuiteRepeats :
        p.cases = Suite!CasesOf(tests, <<"small">>, repeats)
  BY DEF Suite!SuitePlans
<1> DEFINE Repeated(n) == [r \in 1..repeats |-> <<CleanName[tests[n]], "small", r>>]
           Sized(n) == Suite!FlattenSeq([s \in 1..Len(<<"small">>) |->
                         [r \in 1..repeats |-> <<CleanName[tests[n]], <<"small">>[s], r>>]])
<1>2. repeats \in Nat /\ repeats >= 1
  OBVIOUS
<1>3. \A n : Repeated(n) \in [1..repeats -> {Repeated(n)[r] : r \in 1..repeats}]
  OBVIOUS
<1>4. \A n : Sized(n) = Repeated(n)
  <2> SUFFICES ASSUME NEW n PROVE Sized(n) = Repeated(n)
    OBVIOUS
  <2> DEFINE Size(s) == [r \in 1..repeats |-> <<CleanName[tests[n]], <<"small">>[s], r>>]
  <2>1. Size(1) = Repeated(n)
    OBVIOUS
  <2> HIDE DEF Size, Repeated
  <2>2. [s \in 1..Len(<<"small">>) |-> Size(s)] = <<Repeated(n)>>
    BY <2>1
  <2>3. Suite!FlattenSeq([s \in 1..Len(<<"small">>) |-> Size(s)]) = Repeated(n)
    BY <2>2, FlattenOne
  <2>4. QED BY <2>3 DEF Size
<1>5. p.cases = Suite!FlattenSeq([n \in 1..Len(tests) |-> Sized(n)])
  BY <1>1 DEF Suite!CasesOf
<1> HIDE DEF Sized
<1>6. Len(tests) \in {1, 2} /\ DOMAIN tests = 1..Len(tests)
  BY DEF SuiteTests
<1>7. CASE Len(tests) = 1
  <2>1. [n \in 1..Len(tests) |-> Sized(n)] = <<Sized(1)>>
    BY <1>7
  <2>2. p.cases = Repeated(1)
    BY <1>4, <1>5, <2>1, FlattenOne
  <2>3. p.cases \in Seq({Repeated(1)[r] : r \in 1..repeats}) /\ Len(p.cases) = repeats
    BY <1>2, <1>3, <2>2, FunctionAsSequence
  <2>4. QED BY <1>2, <2>3, SequenceOfCases
<1>8. CASE Len(tests) = 2
  <2>1. [n \in 1..Len(tests) |-> Sized(n)] = <<Sized(1), Sized(2)>>
    BY <1>8
  <2>2. p.cases = Repeated(1) \o Repeated(2)
    BY <1>4, <1>5, <2>1, FlattenTwo
  <2> DEFINE T == {Repeated(1)[r] : r \in 1..repeats} \cup {Repeated(2)[r] : r \in 1..repeats}
  <2>3. Repeated(1) \in [1..repeats -> T] /\ Repeated(2) \in [1..repeats -> T]
    OBVIOUS
  <2> HIDE DEF T, Repeated
  <2>4. /\ Repeated(1) \in Seq(T) /\ Repeated(2) \in Seq(T)
        /\ Len(Repeated(1)) = repeats /\ Len(Repeated(2)) = repeats
    BY <1>2, <2>3, FunctionAsSequence
  <2>5. p.cases \in Seq(T) /\ Len(p.cases) = repeats + repeats
    BY <2>2, <2>4, Concatenated
  <2>6. QED BY <1>2, <2>5, SequenceOfCases
<1>9. QED BY <1>6, <1>7, <1>8
Cases == suitePlan.cases
Working == {"case", "select", "spec", "start", "running"}
CaseStates == [state : {"absent", "open", "passed", "failed"}, by : Invocations \cup {"nobody"}]
CaseRows == [run : Suite!CaseIds, status : {"passed", "failed"}]

SuiteTypes ==
  /\ suitePlan \in Suite!SuitePlans
  /\ suitePc \in [Invocations -> Working \cup {"idle", "write", "rename"} \cup Suite!SuiteEnded]
  /\ suiteRows \in [Invocations -> Seq(CaseRows)]
  /\ caseRuns \in [Suite!CaseIds -> CaseStates]
  /\ packer \in [at : {"idle", "link", "staged", "packed", "refused"},
                 runs : {<<>>} \cup [Suite!CaseIds -> CaseStates]]

\* The rows of an invocation are those of the first cases, each with a run of its own.
RowsFollowPlan(i) ==
  LET rows == suiteRows[i] IN
  /\ Len(rows) <= Len(Cases)
  /\ \A n \in 1..Len(rows) : rows[n].run = Cases[n]
  /\ \A m, n \in 1..Len(rows) : m # n => rows[m].run # rows[n].run
  /\ suitePc[i] \in {"idle", "refused"} => rows = <<>>
  /\ suitePc[i] \in Working => Len(rows) < Len(Cases)
  /\ suitePc[i] \in Working \ {"case"} =>
       \A n \in 1..Len(rows) : rows[n].run # Suite!CurrentCase(i)
  /\ suitePc[i] \in {"write", "rename", "done"} =>
       Len(rows) = Len(Cases) \/ \E n \in 1..Len(rows) : rows[n].status = "failed"
\* A run that is open, or passed, is of the invocation that has it in its rows.
RunsAreOwn(i) ==
  /\ suitePc[i] = "running" => caseRuns[Suite!CurrentCase(i)] = [state |-> "open", by |-> i]
  /\ \A n \in 1..Len(suiteRows[i]) : suiteRows[i][n].status = "passed" =>
       caseRuns[suiteRows[i][n].run] = [state |-> "passed", by |-> i]
Published ==
  suiteDir # Suite!NoDir =>
    /\ suiteDir.by \in Invocations /\ suitePc[suiteDir.by] = "done"
    /\ suiteDir.rows = suiteRows[suiteDir.by] /\ suiteDir.result = Suite!SuiteResult(suiteDir.rows)
Packed ==
  /\ packer.at \in {"link", "staged", "packed"} => suiteDir # Suite!NoDir
  /\ packer.at \in {"staged", "packed"} =>
       /\ packer.runs \in [Suite!CaseIds -> CaseStates]
       /\ \A r \in Suite!Range(suiteDir.rows) : packer.runs[r.run].state # "absent"
  /\ packer.at = "packed" =>
       \A r \in Suite!Range(suiteDir.rows) : packer.runs[r.run].state # "open"

SuiteIInv == /\ SuiteTypes /\ Published /\ Packed
             /\ \A i \in Invocations : RowsFollowPlan(i) /\ RunsAreOwn(i)

LEMMA SuiteInvInit == Suite!SuiteInit => SuiteIInv
<1> SUFFICES ASSUME Suite!SuiteInit PROVE SuiteIInv
  OBVIOUS
<1>1. Cases \in Seq(Suite!CaseIds) /\ Cases # <<>>
  BY SuiteCases DEF Suite!SuiteInit, Cases
<1>2. suiteRows \in [Invocations -> Seq(CaseRows)] /\ \A i \in Invocations : suiteRows[i] = <<>>
  BY DEF Suite!SuiteInit
<1>3. SuiteTypes
  BY <1>2 DEF Suite!SuiteInit, SuiteTypes, CaseStates, Suite!NoRun
<1>4. \A i \in Invocations : suitePc[i] = "idle"
  BY DEF Suite!SuiteInit
<1>5. \A i \in Invocations : RowsFollowPlan(i) /\ RunsAreOwn(i)
  BY <1>1, <1>2, <1>4 DEF RowsFollowPlan, RunsAreOwn, Working
<1>6. Published /\ Packed
  BY DEF Suite!SuiteInit, Published, Packed
<1>7. QED BY <1>3, <1>5, <1>6 DEF SuiteIInv

\* A row of an invocation names a case and says how it ended.
LEMMA RowOfSuite ==
  ASSUME SuiteTypes, NEW i \in Invocations, NEW n \in 1..Len(suiteRows[i])
  PROVE  suiteRows[i][n].run \in Suite!CaseIds /\ suiteRows[i][n].status \in {"passed", "failed"}
<1>1. suiteRows[i] \in Seq(CaseRows)
  BY DEF SuiteTypes
<1>2. suiteRows[i][n] \in CaseRows
  BY <1>1
<1>3. QED BY <1>2 DEF CaseRows

\* The case an invocation is at.
LEMMA AtCase ==
  ASSUME SuiteIInv, NEW i \in Invocations, suitePc[i] \in Working
  PROVE  /\ Len(suiteRows[i]) \in Nat /\ Len(Cases) \in Nat /\ Len(suiteRows[i]) < Len(Cases)
         /\ Suite!CurrentCase(i) = Cases[Len(suiteRows[i]) + 1]
         /\ Suite!CurrentCase(i) \in Suite!CaseIds
         /\ suiteRows[i] \in Seq(CaseRows)
<1>1. Cases \in Seq(Suite!CaseIds)
  BY SuiteCases DEF SuiteIInv, SuiteTypes, Cases
<1>2. suiteRows[i] \in Seq(CaseRows) /\ Len(suiteRows[i]) < Len(Cases)
  BY DEF SuiteIInv, SuiteTypes, RowsFollowPlan
<1>3. Suite!CurrentCase(i) = Cases[Len(suiteRows[i]) + 1]
  BY DEF Suite!CurrentCase, Cases
<1>4. Cases[Len(suiteRows[i]) + 1] \in Suite!CaseIds
  BY <1>1, <1>2
<1>5. QED BY <1>1, <1>2, <1>3, <1>4

\* An invocation moves on within a case, or out of the suite, and leaves rows,
\* runs and publication alone.
LEMMA SuiteMoves ==
  ASSUME SuiteIInv, NEW i \in Invocations, NEW label, Suite!Goto(i, label),
         UNCHANGED <<suitePlan, suiteRows, suiteDir, caseRuns, packer>>,
         label \in Working \cup {"rename"} \cup Suite!SuiteEnded, suitePc[i] # "done",
         label # "done",
         label = "refused" => suitePc[i] = "idle",
         label = "rename" => suitePc[i] = "write",
         label = "case" => suitePc[i] = "idle",
         label \in {"spec", "start"} => suitePc[i] \in Working \ {"case"},
         label = "select" =>
           suitePc[i] = "case" /\ \A n \in 1..Len(suiteRows[i]) : suiteRows[i][n].run # Suite!CurrentCase(i),
         label # "running"
  PROVE  SuiteIInv'
<1>1. /\ suitePc' = [suitePc EXCEPT ![i] = label] /\ suitePc'[i] = label
      /\ \A j \in Invocations : j # i => suitePc'[j] = suitePc[j]
  BY DEF Suite!Goto, SuiteIInv, SuiteTypes
<1>2. SuiteTypes'
  BY <1>1 DEF SuiteIInv, SuiteTypes
<1>3. Published'
  BY <1>1 DEF SuiteIInv, Published, Suite!SuiteResult, Suite!CountRows
<1>4. Packed'
  BY DEF SuiteIInv, Packed
<1>5. \A j \in Invocations : Suite!CurrentCase(j)' = Suite!CurrentCase(j)
  BY DEF Suite!CurrentCase
<1>6. ASSUME NEW j \in Invocations PROVE RunsAreOwn(j)'
  <2>1. CASE j = i
    BY <1>1, <2>1 DEF SuiteIInv, RunsAreOwn
  <2>2. CASE j # i
    BY <1>1, <1>5, <2>2 DEF SuiteIInv, RunsAreOwn
  <2>3. QED BY <2>1, <2>2
<1>7. ASSUME NEW j \in Invocations, j # i PROVE RowsFollowPlan(j)'
  BY <1>1, <1>5, <1>7 DEF SuiteIInv, RowsFollowPlan, Cases
<1>8. RowsFollowPlan(i)'
  <2>1. /\ RowsFollowPlan(i) /\ Cases' = Cases /\ Cases \in Seq(Suite!CaseIds) /\ Cases # <<>>
        /\ suiteRows'[i] = suiteRows[i]
    BY SuiteCases DEF SuiteIInv, SuiteTypes, Cases
  <2>2. label \in Working => Len(suiteRows[i]) < Len(Cases)
    <3>1. suitePc[i] = "idle" => Len(suiteRows[i]) = 0
      BY <2>1 DEF RowsFollowPlan
    <3>2. Len(Cases) > 0
      BY <2>1
    <3>3. QED BY <2>1, <3>1, <3>2 DEF RowsFollowPlan, Working
  <2>3. label \in Working \ {"case"} =>
          \A n \in 1..Len(suiteRows[i]) : suiteRows[i][n].run # Suite!CurrentCase(i)
    BY <2>1 DEF RowsFollowPlan, Working
  <2>4. label \in {"idle", "refused"} => suiteRows[i] = <<>>
    BY <2>1 DEF RowsFollowPlan, Working, Suite!SuiteEnded
  <2>5. label \in {"write", "rename", "done"} =>
          \/ Len(suiteRows[i]) = Len(Cases)
          \/ \E n \in 1..Len(suiteRows[i]) : suiteRows[i][n].status = "failed"
    BY <2>1 DEF RowsFollowPlan, Working, Suite!SuiteEnded
  <2>6. QED BY <1>1, <1>5, <2>1, <2>2, <2>3, <2>4, <2>5 DEF RowsFollowPlan
<1>9. QED BY <1>2, <1>3, <1>4, <1>6, <1>7, <1>8 DEF SuiteIInv
\* An invocation ends a case: with its own run passed, or as failed.
LEMMA SuiteEndsCase ==
  ASSUME SuiteIInv, NEW i \in Invocations, suitePc[i] \in Working \ {"case"},
         NEW how \in {"passed", "failed"}, Suite!EndCase(i, how),
         UNCHANGED <<suitePlan, suiteDir, packer>>, caseRuns' \in [Suite!CaseIds -> CaseStates],
         how = "passed" => caseRuns'[Suite!CurrentCase(i)] = [state |-> "passed", by |-> i],
         \A c \in Suite!CaseIds : c # Suite!CurrentCase(i) => caseRuns'[c] = caseRuns[c],
         suitePc[i] = "running" \/ caseRuns' = caseRuns
  PROVE  SuiteIInv'
<1> DEFINE old == suiteRows[i]
           row == [run |-> Suite!CurrentCase(i), status |-> how]
           new == Append(old, row)
           label == IF \/ how = "failed" /\ suitePlan.stop
                       \/ Len(new) = Len(suitePlan.cases) THEN "write" ELSE "case"
<1>1. /\ old \in Seq(CaseRows) /\ row \in CaseRows /\ Len(old) \in Nat /\ Len(Cases) \in Nat
      /\ Len(old) < Len(Cases) /\ Suite!CurrentCase(i) = Cases[Len(old) + 1]
      /\ Suite!CurrentCase(i) \in Suite!CaseIds
  BY AtCase DEF CaseRows
<1>2. /\ new \in Seq(CaseRows) /\ Len(new) = Len(old) + 1 /\ new[Len(old) + 1] = row
      /\ \A n \in 1..Len(old) : new[n] = old[n]
  BY <1>1
<1>3. /\ suiteRows' = [suiteRows EXCEPT ![i] = new] /\ suitePc' = [suitePc EXCEPT ![i] = label]
  BY DEF Suite!EndCase, Suite!Goto
<1>4. /\ suiteRows'[i] = new /\ suitePc'[i] = label /\ label \in {"write", "case"}
      /\ \A j \in Invocations : j # i => suiteRows'[j] = suiteRows[j] /\ suitePc'[j] = suitePc[j]
  BY <1>3 DEF SuiteIInv, SuiteTypes
<1> HIDE DEF new, old
<1>5. suiteRows' \in [Invocations -> Seq(CaseRows)]
  BY <1>2, <1>3 DEF SuiteIInv, SuiteTypes
<1>6. suitePc' \in [Invocations -> Working \cup {"idle", "write", "rename"} \cup Suite!SuiteEnded]
  BY <1>3 DEF SuiteIInv, SuiteTypes, Working
<1>7. SuiteTypes'
  BY <1>5, <1>6 DEF SuiteIInv, SuiteTypes
<1>8. Published'
  <2>1. suiteDir # Suite!NoDir => suiteDir.by # i
    BY DEF SuiteIInv, Published, Working
  <2>2. QED BY <1>4, <2>1 DEF SuiteIInv, Published, Suite!SuiteResult, Suite!CountRows
<1>9. Packed'
  BY DEF SuiteIInv, Packed
<1>10. Cases' = Cases /\ \A j \in Invocations : j # i => Suite!CurrentCase(j)' = Suite!CurrentCase(j)
  BY <1>4 DEF Cases, Suite!CurrentCase
<1>11. ASSUME NEW j \in Invocations, j # i PROVE RowsFollowPlan(j)'
  BY <1>4, <1>10, <1>11, SMTT(30) DEF SuiteIInv, RowsFollowPlan
<1>12. RowsFollowPlan(i)'
  <2>1. /\ \A n \in 1..Len(old) : old[n].run = Cases[n] /\ old[n].run # Suite!CurrentCase(i)
        /\ \A m, n \in 1..Len(old) : m # n => old[m].run # old[n].run
    BY DEF SuiteIInv, RowsFollowPlan, old
  <2>2. row.run = Suite!CurrentCase(i) /\ row.status = how
    OBVIOUS
  <2>3. \A n \in 1..Len(new) : n \in 1..Len(old) \/ n = Len(old) + 1
    BY <1>1, <1>2
  <2>4. \A n \in 1..Len(new) : new[n].run = Cases[n]
    BY <1>1, <1>2, <2>1, <2>2, <2>3
  <2>5. \A m, n \in 1..Len(new) : m # n => new[m].run # new[n].run
    BY <1>1, <1>2, <2>1, <2>2, <2>3
  <2>6. Len(new) <= Len(Cases)
    BY <1>1, <1>2
  <2>7. label = "write" => Len(new) = Len(Cases) \/ \E n \in 1..Len(new) : new[n].status = "failed"
    <3>1. Len(old) + 1 \in 1..Len(new)
      BY <1>1, <1>2
    <3>2. QED BY <1>2, <2>2, <3>1 DEF Cases
  <2>8. label = "case" => Len(new) < Len(Cases)
    BY <1>1, <1>2, <2>6 DEF Cases
  <2>9. QED BY <1>4, <1>10, <2>4, <2>5, <2>6, <2>7, <2>8 DEF RowsFollowPlan, Working
<1>13. ASSUME NEW j \in Invocations, j # i PROVE RunsAreOwn(j)'
  <2>1. CASE caseRuns' = caseRuns
    BY <1>4, <1>10, <1>13, <2>1 DEF SuiteIInv, RunsAreOwn
  <2>2. CASE suitePc[i] = "running"
    <3>1. caseRuns[Suite!CurrentCase(i)] = [state |-> "open", by |-> i]
      BY <2>2 DEF SuiteIInv, RunsAreOwn
    <3>2. suitePc[j] = "running" => /\ caseRuns[Suite!CurrentCase(j)] = [state |-> "open", by |-> j]
                                    /\ Suite!CurrentCase(j) \in Suite!CaseIds
      BY AtCase DEF SuiteIInv, RunsAreOwn, Working
    <3>3. [state |-> "open", by |-> j] # [state |-> "open", by |-> i]
      <4>1. [state |-> "open", by |-> j].by # [state |-> "open", by |-> i].by
        BY <1>13
      <4>2. QED BY <4>1
    <3>4. suitePc'[j] = "running" => caseRuns'[Suite!CurrentCase(j)'] = [state |-> "open", by |-> j]
      BY <1>4, <1>10, <1>13, <3>1, <3>2, <3>3
    <3>5. ASSUME NEW n \in 1..Len(suiteRows[j]), suiteRows[j][n].status = "passed"
          PROVE  caseRuns'[suiteRows[j][n].run] = [state |-> "passed", by |-> j]
      <4>1. caseRuns[suiteRows[j][n].run] = [state |-> "passed", by |-> j]
        BY <3>5 DEF SuiteIInv, RunsAreOwn
      <4>2. suiteRows[j][n].run \in Suite!CaseIds
        BY RowOfSuite DEF SuiteIInv
      <4>3. [state |-> "passed", by |-> j] # [state |-> "open", by |-> i]
        <5>1. [state |-> "passed", by |-> j].state # [state |-> "open", by |-> i].state
          OBVIOUS
        <5>2. QED BY <5>1
      <4>4. QED BY <3>1, <4>1, <4>2, <4>3
    <3>6. QED BY <1>4, <1>13, <3>4, <3>5 DEF RunsAreOwn
  <2>3. QED BY <2>1, <2>2
<1>14. RunsAreOwn(i)'
  <2>1. ASSUME NEW n \in 1..Len(new), new[n].status = "passed"
        PROVE  caseRuns'[new[n].run] = [state |-> "passed", by |-> i]
    <3>1. CASE n = Len(old) + 1
      BY <1>2, <2>1, <3>1
    <3>2. CASE n \in 1..Len(old)
      <4>1. /\ old[n].run # Suite!CurrentCase(i) /\ old[n].run \in Suite!CaseIds
            /\ old[n].status = "passed" =>
                 caseRuns[old[n].run] = [state |-> "passed", by |-> i]
        <5>1. SuiteTypes /\ RowsFollowPlan(i) /\ RunsAreOwn(i)
          BY DEF SuiteIInv
        <5>2. n \in 1..Len(suiteRows[i]) /\ old = suiteRows[i]
          BY <3>2 DEF old
        <5>3. suiteRows[i][n].run \in Suite!CaseIds
          BY <5>1, <5>2, RowOfSuite
        <5>4. suiteRows[i][n].run # Suite!CurrentCase(i)
          BY <5>1, <5>2 DEF RowsFollowPlan
        <5>5. suiteRows[i][n].status = "passed" =>
                caseRuns[suiteRows[i][n].run] = [state |-> "passed", by |-> i]
          BY <5>1, <5>2 DEF RunsAreOwn
        <5>6. QED BY <5>2, <5>3, <5>4, <5>5
      <4>2. QED BY <1>2, <2>1, <3>2, <4>1
    <3>3. QED BY <1>1, <1>2, <3>1, <3>2
  <2>2. QED BY <1>4, <2>1 DEF RunsAreOwn
<1>15. QED BY <1>7, <1>8, <1>9, <1>11, <1>12, <1>13, <1>14 DEF SuiteIInv

\* The run of a case is opened where there was none.
LEMMA SuiteStartsRun == ASSUME SuiteIInv, NEW i \in Invocations, Suite!StartCaseRun(i) PROVE SuiteIInv'
<1> DEFINE c == Suite!CurrentCase(i)
<1>1. suitePc[i] = "start" /\ UNCHANGED <<suitePlan, suiteDir, specFiles, packer>>
  BY DEF Suite!StartCaseRun
<1>2. CASE Suite!EndCase(i, "failed") /\ UNCHANGED caseRuns
  BY <1>1, <1>2, SuiteEndsCase DEF SuiteIInv, SuiteTypes, Working
<1>3. CASE /\ caseRuns[c] = Suite!NoRun
           /\ caseRuns' = [caseRuns EXCEPT ![c] = [state |-> "open", by |-> i]]
           /\ Suite!Goto(i, "running") /\ UNCHANGED suiteRows
  <2>1. c \in Suite!CaseIds
    BY <1>1, AtCase DEF Working
  <2>2. /\ suitePc'[i] = "running" /\ \A j \in Invocations : j # i => suitePc'[j] = suitePc[j]
        /\ suitePc' \in [Invocations -> Working \cup {"idle", "write", "rename"} \cup Suite!SuiteEnded]
    BY <1>3 DEF SuiteIInv, SuiteTypes, Suite!Goto, Working
  <2>3. /\ caseRuns' \in [Suite!CaseIds -> CaseStates] /\ caseRuns'[c] = [state |-> "open", by |-> i]
        /\ \A x \in Suite!CaseIds : x # c => caseRuns'[x] = caseRuns[x]
    BY <1>3, <2>1 DEF SuiteIInv, SuiteTypes, CaseStates
  <2>4. caseRuns[c].state = "absent"
    BY <1>3 DEF Suite!NoRun
  <2>5. SuiteTypes'
    BY <1>1, <1>3, <2>2, <2>3 DEF SuiteIInv, SuiteTypes
  <2>6. Published' /\ Packed'
    BY <1>1, <1>3, <2>2 DEF SuiteIInv, Published, Packed, Suite!SuiteResult, Suite!CountRows
  <2>7. Cases' = Cases /\ \A j \in Invocations : Suite!CurrentCase(j)' = Suite!CurrentCase(j)
    BY <1>1, <1>3 DEF Cases, Suite!CurrentCase
  <2>8. ASSUME NEW j \in Invocations PROVE RowsFollowPlan(j)'
    <3>1. CASE j = i
      BY <1>1, <1>3, <2>2, <2>7, <3>1 DEF SuiteIInv, RowsFollowPlan, Working
    <3>2. CASE j # i
      BY <1>1, <1>3, <2>2, <2>7, <3>2 DEF SuiteIInv, RowsFollowPlan
    <3>3. QED BY <3>1, <3>2
  <2>9. ASSUME NEW j \in Invocations PROVE RunsAreOwn(j)'
    <3>1. \A n \in 1..Len(suiteRows[j]) : suiteRows[j][n].status = "passed" =>
            /\ caseRuns[suiteRows[j][n].run] = [state |-> "passed", by |-> j]
            /\ suiteRows[j][n].run \in Suite!CaseIds
      BY RowOfSuite DEF SuiteIInv, RunsAreOwn
    <3>2. [state |-> "passed", by |-> j].state # "absent" /\ [state |-> "open", by |-> j].state # "absent"
      OBVIOUS
    <3>3. \A n \in 1..Len(suiteRows[j]) : suiteRows[j][n].status = "passed" =>
            caseRuns'[suiteRows[j][n].run] = [state |-> "passed", by |-> j]
      BY <2>3, <2>4, <3>1, <3>2
    <3>4. suitePc'[j] = "running" => caseRuns'[Suite!CurrentCase(j)] = [state |-> "open", by |-> j]
      <4>1. CASE j = i
        BY <2>3, <4>1
      <4>2. CASE j # i
        <5>1. suitePc[j] = "running" => /\ caseRuns[Suite!CurrentCase(j)] = [state |-> "open", by |-> j]
                                        /\ Suite!CurrentCase(j) \in Suite!CaseIds
          BY AtCase DEF SuiteIInv, RunsAreOwn, Working
        <5>2. QED BY <2>2, <2>3, <2>4, <3>2, <4>2, <5>1
      <4>3. QED BY <4>1, <4>2
    <3>5. QED BY <1>3, <2>7, <3>3, <3>4 DEF RunsAreOwn
  <2>10. QED BY <2>5, <2>6, <2>8, <2>9 DEF SuiteIInv
<1>4. QED BY <1>2, <1>3 DEF Suite!StartCaseRun

LEMMA SuiteFinishesRun ==
  ASSUME SuiteIInv, NEW i \in Invocations, Suite!FinishCaseRun(i) PROVE SuiteIInv'
<1> DEFINE c == Suite!CurrentCase(i)
<1>1. suitePc[i] = "running" /\ UNCHANGED <<suitePlan, suiteDir, specFiles, packer>>
  BY DEF Suite!FinishCaseRun
<1>2. PICK ended \in {"passed", "failed", "open"}, status_ \in {"passed", "failed"} :
        /\ status_ = "passed" => ended = "passed"
        /\ caseRuns' = [caseRuns EXCEPT ![c].state = ended] /\ Suite!EndCase(i, status_)
  BY DEF Suite!FinishCaseRun
<1>3. c \in Suite!CaseIds /\ caseRuns[c] = [state |-> "open", by |-> i]
  BY <1>1, AtCase DEF SuiteIInv, RunsAreOwn, Working
<1>4. /\ caseRuns'[c] = [state |-> ended, by |-> i]
      /\ \A x \in Suite!CaseIds : x # c => caseRuns'[x] = caseRuns[x]
      /\ caseRuns' \in [Suite!CaseIds -> CaseStates]
  BY <1>2, <1>3 DEF SuiteIInv, SuiteTypes, CaseStates
<1>5. QED BY <1>1, <1>2, <1>4, SuiteEndsCase DEF Working

\* The steps of one invocation.
LEMMA SuiteInvSteps ==
  ASSUME SuiteIInv, NEW i \in Invocations,
         Suite!PrepareRunDirectory(i) \/ Suite!SuiteStep(i) \/ Suite!SuiteCrash(i)
  PROVE  SuiteIInv'
<1>1. CASE Suite!PrepareRunDirectory(i)
  <2> DEFINE label == IF suiteDir = Suite!NoDir THEN "case" ELSE "refused"
  <2>1. /\ Suite!Goto(i, label) /\ suitePc[i] = "idle" /\ label \in {"case", "refused"}
        /\ UNCHANGED <<suitePlan, suiteRows, suiteDir, caseRuns, packer>>
    BY <1>1 DEF Suite!PrepareRunDirectory
  <2> HIDE DEF label
  <2>2. QED BY <2>1, SuiteMoves DEF Working, Suite!SuiteEnded
<1>2. CASE Suite!OpenDriverLog(i)
  <2> DEFINE taken == Suite!CurrentCase(i) \in {r.run : r \in Suite!Range(suiteRows[i])}
             label == IF taken THEN "error" ELSE "select"
  <2>1. /\ Suite!Goto(i, label) /\ suitePc[i] = "case" /\ label \in {"error", "select"}
        /\ UNCHANGED <<suitePlan, suiteRows, suiteDir, caseRuns, packer>>
    BY <1>2 DEF Suite!OpenDriverLog
  <2>2. ASSUME label = "select", NEW n \in 1..Len(suiteRows[i])
        PROVE  suiteRows[i][n].run # Suite!CurrentCase(i)
    <3>1. suiteRows[i] \in Seq(CaseRows)
      BY DEF SuiteIInv, SuiteTypes
    <3>2. suiteRows[i][n] \in Suite!Range(suiteRows[i])
      BY <3>1 DEF Suite!Range
    <3>3. ~taken
      BY <2>2
    <3>4. QED BY <3>2, <3>3
  <2> HIDE DEF label
  <2>3. QED BY <2>1, <2>2, SuiteMoves DEF Working, Suite!SuiteEnded
<1>3. CASE Suite!SelectSourceSpec(i)
  <2>1. suitePc[i] = "select" /\ UNCHANGED <<suitePlan, suiteDir, caseRuns, packer>>
    BY <1>3 DEF Suite!SelectSourceSpec
  <2>2. CASE Suite!Goto(i, "spec") /\ UNCHANGED suiteRows
    BY <2>1, <2>2, SuiteMoves DEF Working
  <2>3. CASE Suite!EndCase(i, "failed")
    BY <2>1, <2>3, SuiteEndsCase DEF SuiteIInv, SuiteTypes, Working
  <2>4. QED BY <1>3, <2>2, <2>3 DEF Suite!SelectSourceSpec
<1>4. CASE Suite!WriteExperimentSpec(i)
  <2>1. suitePc[i] = "spec" /\ UNCHANGED <<suitePlan, suiteDir, caseRuns, packer>>
    BY <1>4 DEF Suite!WriteExperimentSpec
  <2>2. CASE Suite!Goto(i, "start") /\ UNCHANGED suiteRows
    BY <2>1, <2>2, SuiteMoves DEF Working
  <2>3. CASE Suite!EndCase(i, "failed")
    BY <2>1, <2>3, SuiteEndsCase DEF SuiteIInv, SuiteTypes, Working
  <2>4. QED BY <1>4, <2>2, <2>3 DEF Suite!WriteExperimentSpec
<1>5. CASE Suite!StartCaseRun(i)
  BY <1>5, SuiteStartsRun
<1>6. CASE Suite!FinishCaseRun(i)
  BY <1>6, SuiteFinishesRun
<1>7. CASE Suite!WriteSuiteResult(i)
  <2>1. /\ suitePc[i] = "write" /\ (Suite!Goto(i, "rename") \/ Suite!Goto(i, "error"))
        /\ UNCHANGED <<suitePlan, suiteRows, suiteDir, caseRuns, packer>>
    BY <1>7 DEF Suite!WriteSuiteResult
  <2>2. QED BY <2>1, SuiteMoves DEF Working, Suite!SuiteEnded
<1>8. CASE Suite!PublishRunDirectory(i)
  <2>1. suitePc[i] = "rename" /\ UNCHANGED <<suitePlan, suiteRows, caseRuns, packer>>
    BY <1>8 DEF Suite!PublishRunDirectory
  <2>2. CASE UNCHANGED suiteDir /\ Suite!Goto(i, "error")
    BY <2>1, <2>2, SuiteMoves DEF Working, Suite!SuiteEnded
  <2>3. CASE /\ suiteDir = Suite!NoDir
             /\ suiteDir' = [by |-> i, rows |-> suiteRows[i], result |-> Suite!SuiteResult(suiteRows[i])]
             /\ Suite!Goto(i, "done")
    <3>1. /\ suitePc' \in [Invocations -> Working \cup {"idle", "write", "rename"} \cup Suite!SuiteEnded]
          /\ suitePc'[i] = "done" /\ \A j \in Invocations : j # i => suitePc'[j] = suitePc[j]
      BY <2>3 DEF SuiteIInv, SuiteTypes, Suite!Goto, Suite!SuiteEnded
    <3>2. SuiteTypes'
      BY <2>1, <3>1 DEF SuiteIInv, SuiteTypes
    <3>3. Suite!SuiteResult(suiteRows[i])' = Suite!SuiteResult(suiteRows[i])
      BY <2>1 DEF Suite!SuiteResult, Suite!CountRows
    <3>4. Published'
      BY <2>1, <2>3, <3>1, <3>3 DEF Published
    <3>5. Packed'
      BY <2>1, <2>3 DEF SuiteIInv, Packed
    <3>6. Cases' = Cases /\ \A j \in Invocations : Suite!CurrentCase(j)' = Suite!CurrentCase(j)
      BY <2>1 DEF Cases, Suite!CurrentCase
    <3>7. ASSUME NEW j \in Invocations PROVE RowsFollowPlan(j)' /\ RunsAreOwn(j)'
      <4>1. RowsFollowPlan(j) /\ RunsAreOwn(j)
        BY DEF SuiteIInv
      <4>2. CASE j = i
        BY <2>1, <3>1, <3>6, <4>1, <4>2 DEF RowsFollowPlan, RunsAreOwn, Working
      <4>3. CASE j # i
        BY <2>1, <3>1, <3>6, <4>1, <4>3 DEF RowsFollowPlan, RunsAreOwn
      <4>4. QED BY <4>2, <4>3
    <3>8. QED BY <3>2, <3>4, <3>5, <3>7 DEF SuiteIInv
  <2>4. QED BY <1>8, <2>2, <2>3 DEF Suite!PublishRunDirectory
<1>9. CASE Suite!SuiteCrash(i)
  <2>1. /\ suitePc[i] \notin Suite!SuiteEnded \cup {"idle"} /\ Suite!Goto(i, "crashed")
        /\ UNCHANGED <<suitePlan, suiteRows, suiteDir, caseRuns, packer>>
    BY <1>9 DEF Suite!SuiteCrash
  <2>2. QED BY <2>1, SuiteMoves DEF Working, Suite!SuiteEnded
<1>10. QED BY <1>1, <1>2, <1>3, <1>4, <1>5, <1>6, <1>7, <1>8, <1>9 DEF Suite!SuiteStep

\* What changes neither the invocations nor the published suite.
LEMMA SuiteStands ==
  ASSUME SuiteIInv, UNCHANGED <<suitePlan, suitePc, suiteRows, suiteDir, caseRuns>>,
         packer' \in [at : {"idle", "link", "staged", "packed", "refused"},
                      runs : {<<>>} \cup [Suite!CaseIds -> CaseStates]],
         Packed'
  PROVE  SuiteIInv'
<1>1. SuiteTypes' /\ Published'
  BY DEF SuiteIInv, SuiteTypes, Published, Suite!SuiteResult, Suite!CountRows
<1>2. Cases' = Cases /\ \A j \in Invocations : Suite!CurrentCase(j)' = Suite!CurrentCase(j)
  BY DEF Cases, Suite!CurrentCase
<1>3. ASSUME NEW j \in Invocations PROVE RowsFollowPlan(j)' /\ RunsAreOwn(j)'
  <2>1. RowsFollowPlan(j) /\ RunsAreOwn(j)
    BY DEF SuiteIInv
  <2>2. QED BY <1>2, <2>1 DEF RowsFollowPlan, RunsAreOwn
<1>4. QED BY <1>1, <1>3 DEF SuiteIInv

\* The packer.
LEMMA SuitePacks ==
  ASSUME SuiteIInv, Suite!PackVerify \/ Suite!PackCopy \/ Suite!PackPublish
  PROVE  SuiteIInv'
<1> DEFINE Ats == {"idle", "link", "staged", "packed", "refused"}
           Copies == {<<>>} \cup [Suite!CaseIds -> CaseStates]
<1>1. UNCHANGED <<suitePlan, suitePc, suiteRows, suiteDir, caseRuns>>
  BY DEF Suite!PackVerify, Suite!PackCopy, Suite!PackPublish
<1>2. packer \in [at : Ats, runs : Copies] /\ caseRuns \in Copies
  BY DEF SuiteIInv, SuiteTypes
<1>3. CASE Suite!PackVerify
  <2>1. /\ suiteDir # Suite!NoDir
        /\ packer' = [packer EXCEPT !.at = "link"] \/ packer' = [packer EXCEPT !.at = "refused"]
    BY <1>3 DEF Suite!PackVerify
  <2>2. packer' \in [at : Ats, runs : Copies] /\ packer'.at \in {"link", "refused"}
    BY <1>2, <2>1
  <2>3. Packed'
    BY <1>1, <2>1, <2>2 DEF Packed
  <2>4. QED BY <1>1, <2>2, <2>3, SuiteStands
<1>4. CASE Suite!PackCopy
  <2>1. /\ packer.at = "link"
        /\ \/ packer' = [at |-> "staged", runs |-> caseRuns] /\ Suite!LinkedRunsExist
           \/ packer' = [packer EXCEPT !.at = "refused"]
    BY <1>4 DEF Suite!PackCopy
  <2>2. packer' \in [at : Ats, runs : Copies]
    BY <1>2, <2>1
  <2>3. Packed'
    <3>1. CASE packer' = [at |-> "staged", runs |-> caseRuns] /\ Suite!LinkedRunsExist
      BY <1>1, <2>1, <3>1 DEF SuiteIInv, SuiteTypes, Packed, Suite!LinkedRunsExist, CaseStates
    <3>2. CASE packer' = [packer EXCEPT !.at = "refused"]
      <4>1. packer'.at = "refused"
        BY <1>2, <3>2
      <4>2. QED BY <4>1 DEF Packed
    <3>3. QED BY <2>1, <3>1, <3>2
  <2>4. QED BY <1>1, <2>2, <2>3, SuiteStands
<1>5. CASE Suite!PackPublish
  <2>1. /\ packer.at = "staged"
        /\ \/ packer' = [packer EXCEPT !.at = "packed"] /\ Suite!SuiteVerifies(suiteDir, packer.runs)
           \/ packer' = [packer EXCEPT !.at = "refused"]
    BY <1>5 DEF Suite!PackPublish
  <2>2. packer' \in [at : Ats, runs : Copies] /\ packer'.runs = packer.runs
    BY <1>2, <2>1
  <2>3. Packed'
    <3>1. CASE packer' = [packer EXCEPT !.at = "packed"] /\ Suite!SuiteVerifies(suiteDir, packer.runs)
      <4>1. \A r \in Suite!Range(suiteDir.rows) : packer.runs[r.run].state # "open"
        BY <3>1 DEF Suite!SuiteVerifies, Suite!RowsVerify
      <4>2. suiteDir # Suite!NoDir /\ packer.runs \in [Suite!CaseIds -> CaseStates]
            /\ \A r \in Suite!Range(suiteDir.rows) : packer.runs[r.run].state # "absent"
        BY <2>1 DEF SuiteIInv, Packed
      <4>3. QED BY <1>1, <2>2, <4>1, <4>2 DEF Packed, CaseStates
    <3>2. CASE packer' = [packer EXCEPT !.at = "refused"]
      <4>1. packer'.at = "refused"
        BY <1>2, <3>2
      <4>2. QED BY <4>1 DEF Packed
    <3>3. QED BY <2>1, <3>1, <3>2
  <2>4. QED BY <1>1, <2>2, <2>3, SuiteStands
<1>6. QED BY <1>3, <1>4, <1>5

LEMMA SuiteInvNext == SuiteIInv /\ Suite!SuiteNext => SuiteIInv'
BY SuiteInvSteps, SuitePacks DEF Suite!SuiteNext

LEMMA NoneCounted ==
  ASSUME NEW rows \in Seq(CaseRows), Suite!CountRows(rows, "failed") = 0
  PROVE  \A n \in 1..Len(rows) : rows[n].status = "passed"
<1> DEFINE failed == {n \in 1..Len(rows) : rows[n].status = "failed"}
<1>1. IsFiniteSet(failed)
  <2>1. Len(rows) \in Nat
    OBVIOUS
  <2>2. IsFiniteSet(1..Len(rows))
    BY <2>1, FS_Interval
  <2>3. QED BY <2>2, FS_Subset
<1>2. Suite!CountRows(rows, "failed") = Cardinality(failed)
  BY DEF Suite!CountRows, Suite!Cardinality, Cardinality
<1>3. failed = {}
  BY <1>1, <1>2, FS_EmptySet
<1>4. ASSUME NEW n \in 1..Len(rows) PROVE rows[n] \in CaseRows
  OBVIOUS
<1>5. QED BY <1>3, <1>4 DEF CaseRows

LEMMA SuitePublished == SuiteIInv => Suite!SuitePassedIsEarned /\ Suite!PackedSuiteIsClosed
<1> SUFFICES ASSUME SuiteIInv PROVE Suite!SuitePassedIsEarned /\ Suite!PackedSuiteIsClosed
  OBVIOUS
<1>1. ASSUME suiteDir # Suite!NoDir, suiteDir.result.status = "passed"
      PROVE  /\ [n \in 1..Len(suiteDir.rows) |-> suiteDir.rows[n].run] = suitePlan.cases
             /\ \A r \in Suite!Range(suiteDir.rows) :
                  caseRuns[r.run] = [state |-> "passed", by |-> suiteDir.by]
  <2> DEFINE i == suiteDir.by
             rows == suiteRows[i]
  <2>1. /\ i \in Invocations /\ suitePc[i] = "done" /\ suiteDir.rows = rows
        /\ suiteDir.result = Suite!SuiteResult(rows)
    BY <1>1 DEF SuiteIInv, Published
  <2>2. rows \in Seq(CaseRows) /\ Cases \in Seq(Suite!CaseIds)
    BY <2>1, SuiteCases DEF SuiteIInv, SuiteTypes, Cases
  <2> HIDE DEF i
  <2>3. Suite!SuiteResult(rows).status = IF Suite!CountRows(rows, "failed") = 0 THEN "passed" ELSE "failed"
    BY DEF Suite!SuiteResult
  <2>4. Suite!CountRows(rows, "failed") = 0
    BY <1>1, <2>1, <2>3
  <2> HIDE DEF rows
  <2>5. \A n \in 1..Len(rows) : rows[n].status = "passed"
    BY <2>2, <2>4, NoneCounted
  <2>6. /\ Len(rows) = Len(Cases) /\ \A n \in 1..Len(rows) : rows[n].run = Cases[n]
    BY <2>1, <2>5 DEF SuiteIInv, RowsFollowPlan, rows
  <2>7. [n \in 1..Len(rows) |-> rows[n].run] = Cases
    BY <2>2, <2>6
  <2>8. \A n \in 1..Len(rows) : caseRuns[rows[n].run] = [state |-> "passed", by |-> i]
    BY <2>1, <2>5 DEF SuiteIInv, RunsAreOwn, rows
  <2>9. \A r \in Suite!Range(rows) : \E n \in 1..Len(rows) : r = rows[n]
    BY <2>2 DEF Suite!Range
  <2>10. QED BY <2>1, <2>7, <2>8, <2>9 DEF Cases, i
<1>2. Suite!PackedSuiteIsClosed
  <2> SUFFICES ASSUME packer.at = "packed", NEW r \in Suite!Range(suiteDir.rows)
               PROVE  packer.runs[r.run].state \in {"passed", "failed"}
    BY DEF Suite!PackedSuiteIsClosed
  <2>1. suiteDir # Suite!NoDir /\ packer.runs \in [Suite!CaseIds -> CaseStates]
        /\ packer.runs[r.run].state \notin {"absent", "open"}
    BY DEF SuiteIInv, Packed
  <2>2. suiteDir.by \in Invocations /\ suiteDir.rows = suiteRows[suiteDir.by]
    BY <2>1 DEF SuiteIInv, Published
  <2>3. suiteRows[suiteDir.by] \in Seq(CaseRows)
    BY <2>2 DEF SuiteIInv, SuiteTypes
  <2>4. r \in CaseRows
    BY <2>2, <2>3 DEF Suite!Range
  <2>5. QED BY <2>1, <2>4 DEF CaseRows, CaseStates
<1>3. QED BY <1>1, <1>2 DEF Suite!SuitePassedIsEarned

\* A published suite was run by its publisher, and a packed one is closed, for
\* any invocations, tests and repeats (utilitysuite.Run, utilitysuiteartifact.createBundle).
THEOREM SuitesAreEarned == Spec => []SuiteIsEarned
<1> DEFINE Inv == part = "suite" => SuiteIInv
<1>1. Init => Inv
  BY SuiteInvInit DEF Init, ExperimentStarts, ShellStarts, SuiteStarts, CampaignStarts, DriverStarts
<1>2. Inv /\ [Next]_allVars => Inv'
  <2> SUFFICES ASSUME Inv, [Next]_allVars, part' = "suite" PROVE SuiteIInv'
    OBVIOUS
  <2>1. part = "suite"
    BY DEF Next, allVars, ExperimentAlone, ShellAlone, SuiteAlone, CampaignAlone, DriverAlone
  <2>2. CASE Suite!SuiteNext
    BY <2>1, <2>2, SuiteInvNext
  <2>3. CASE UNCHANGED SuiteVars
    <3>1. UNCHANGED <<suitePlan, suitePc, suiteRows, suiteDir, caseRuns, packer>>
      BY <2>3 DEF SuiteVars
    <3>2. SuiteIInv
      BY <2>1
    <3>3. packer' \in [at : {"idle", "link", "staged", "packed", "refused"},
                       runs : {<<>>} \cup [Suite!CaseIds -> CaseStates]] /\ Packed'
      BY <3>1, <3>2 DEF SuiteIInv, SuiteTypes, Packed
    <3>4. QED BY <3>1, <3>2, <3>3, SuiteStands
  <2>4. QED BY <2>1, <2>2, <2>3 DEF Next, allVars, ExperimentAlone, ShellAlone, SuiteAlone,
                                    CampaignAlone, DriverAlone
<1>3. Inv => SuiteIsEarned
  BY SuitePublished DEF SuiteIsEarned
<1>4. QED BY <1>1, <1>2, <1>3, PTL DEF Spec
-----------------------------------------------------------------------------
(***************************************************************************)
(* The campaign: its series were started in the order of its rows, each    *)
(* passed row is of a series of its own, and with nobody else about every  *)
(* row says what lies at its place.                                        *)
(***************************************************************************)

Statuses == {"passed", "inconclusive", "invalid", "failed"}
Open == {"absent", "init", "series", "running", "capture"}
SeriesStates == [by : {"nobody", "us", "rival"}, status : {"absent", "running", "broken"} \cup Statuses,
                 start : Nat, finish : Nat]
CampaignRows == [status : Statuses \cup {"unavailable"}, evidence : {"verified", "unverified"},
                 start : Nat, finish : Nat]

CampaignTypes ==
  /\ campPc \in Open \cup {"result", "verify"} \cup Campaign!CampaignEnded
  /\ campErr \in BOOLEAN /\ campClock \in Nat
  /\ campSeries \in [Campaign!Items -> SeriesStates] /\ campRows \in Seq(CampaignRows)
  /\ campDir \in [receipts : Seq(CampaignRows), result : Statuses \cup {"none"}, summary : BOOLEAN,
                  by : {"nobody", "earlier", "us"}]

\* A row for each series so far, and the same rows in memory and on disk.
RowsInOrder ==
  /\ Len(campRows) <= CampaignLength /\ campDir.receipts = campRows
  /\ campPc \in Open => Len(campRows) < CampaignLength
  /\ campPc \in {"absent", "init", "refused"} => campRows = <<>>
  /\ campPc \in {"result", "verify", "done", "failed"} => Len(campRows) = CampaignLength
\* A result was derived from all rows, and nothing is said before it.
Derived ==
  /\ campPc \in Open \cup {"result", "refused"} => campDir.result = "none" /\ ~campDir.summary
  /\ campDir.result # "none" =>
       Len(campRows) = CampaignLength /\ campDir.result = Campaign!DeriveTerminal(campRows)
  /\ campDir.summary => campDir.result # "none"

Ours(k) == campSeries[k].by = "us"
\* The series of the campaign were started in the order of its rows.
SeriesInOrder ==
  /\ \A k \in Campaign!Items :
       /\ campSeries[k].by = "nobody" => campSeries[k] = Campaign!NoSeriesDir
       /\ campSeries[k].finish <= campClock
       /\ Ours(k) => \/ k <= Len(campRows)
                     \/ k = Campaign!Item /\ campPc \in {"running", "capture", "error", "crashed"}
       /\ Ours(k) /\ campSeries[k].status = "running" => k = Campaign!Item /\ campPc = "running"
  /\ \A j, k \in Campaign!Items :
       j < k /\ Ours(j) /\ Ours(k) => campSeries[j].finish <= campSeries[k].start
\* What is known of the series the campaign is at.
AtSeries ==
  /\ campPc = "running" => Ours(Campaign!Item) /\ campSeries[Campaign!Item].status = "running"
  /\ campPc = "capture" =>
       (campErr = FALSE <=> Ours(Campaign!Item) /\ campSeries[Campaign!Item].status = "passed")
RowsEarned ==
  \A n \in 1..Len(campRows) : campRows[n].status = "passed" => Ours(n) /\ campSeries[n].status = "passed"
Alone == \A k \in Campaign!Items : campSeries[k].by # "rival"
RowsStand == Alone => \A n \in 1..Len(campRows) : Campaign!RowHolds(campRows[n], campSeries[n])

CampaignIInv == /\ CampaignTypes /\ RowsInOrder /\ Derived /\ SeriesInOrder /\ AtSeries
                /\ RowsEarned /\ RowsStand

LEMMA CampaignInvInit == Campaign!CampaignInit => CampaignIInv
<1> SUFFICES ASSUME Campaign!CampaignInit PROVE CampaignIInv
  OBVIOUS
<1>1. campDir \in {Campaign!NoCampaign, [Campaign!NoCampaign EXCEPT !.by = "earlier"]}
  BY DEF Campaign!CampaignInit
<1>2. /\ campDir.receipts = <<>> /\ campDir.result = "none" /\ campDir.summary = FALSE
      /\ campDir \in [receipts : Seq(CampaignRows), result : Statuses \cup {"none"}, summary : BOOLEAN,
                      by : {"nobody", "earlier", "us"}]
  <2>1. <<>> \in Seq(CampaignRows)
    OBVIOUS
  <2>2. PICK b \in {"nobody", "earlier"} :
          campDir = [receipts |-> <<>>, result |-> "none", summary |-> FALSE, by |-> b]
    BY <1>1 DEF Campaign!NoCampaign
  <2>3. QED BY <2>1, <2>2
<1>3. /\ campPc = "absent" /\ campErr = FALSE /\ campRows = <<>> /\ campClock = 0
      /\ campSeries = [k \in Campaign!Items |-> Campaign!NoSeriesDir]
  BY DEF Campaign!CampaignInit
<1>4. /\ campSeries \in [Campaign!Items -> SeriesStates]
      /\ \A k \in Campaign!Items : campSeries[k] = Campaign!NoSeriesDir
  BY <1>3 DEF SeriesStates, Campaign!NoSeriesDir
<1>5. \A k \in Campaign!Items : campSeries[k].by = "nobody" /\ campSeries[k].finish = 0
  BY <1>4 DEF Campaign!NoSeriesDir
<1>6. CampaignTypes
  BY <1>2, <1>3, <1>4 DEF CampaignTypes, Open
<1>7. RowsInOrder /\ Derived
  BY <1>2, <1>3, CampaignAssumption DEF RowsInOrder, Derived, Open
<1>8. SeriesInOrder /\ AtSeries
  BY <1>3, <1>4, <1>5 DEF SeriesInOrder, AtSeries, Ours
<1>9. RowsEarned /\ RowsStand
  BY <1>3 DEF RowsEarned, RowsStand
<1>10. QED BY <1>6, <1>7, <1>8, <1>9 DEF CampaignIInv

\* Steps that leave the series and the rows alone.
LEMMA CampaignMoves ==
  ASSUME CampaignIInv, UNCHANGED <<campErr, campDir, campSeries, campRows, campClock>>,
         \/ campPc = "absent" /\ campPc' \in {"init", "refused"}
         \/ campPc = "verify" /\ campPc' \in {"done", "failed"}
         \/ campPc' = campPc
  PROVE  CampaignIInv'
<1>1. CampaignTypes'
  BY DEF CampaignIInv, CampaignTypes, Open, Campaign!CampaignEnded
<1>2. RowsInOrder'
  BY DEF CampaignIInv, RowsInOrder, Open
<1>3. Derived'
  BY DEF CampaignIInv, Derived, Open, Campaign!DeriveTerminal
<1>4. SeriesInOrder'
  BY DEF CampaignIInv, SeriesInOrder, Ours, Campaign!Item
<1>5. AtSeries'
  BY DEF CampaignIInv, AtSeries, Ours, Campaign!Item
<1>6. RowsEarned' /\ RowsStand'
  BY DEF CampaignIInv, RowsEarned, RowsStand, Ours, Alone
<1>7. QED BY <1>1, <1>2, <1>3, <1>4, <1>5, <1>6 DEF CampaignIInv

LEMMA InitializeKeeps == CampaignIInv /\ Campaign!InitializeCampaign => CampaignIInv'
<1> SUFFICES ASSUME CampaignIInv, Campaign!InitializeCampaign PROVE CampaignIInv'
  OBVIOUS
<1>1. /\ campPc = "init" /\ campPc' = "series" /\ campRows = <<>>
      /\ UNCHANGED <<campErr, campSeries, campRows, campClock>>
  BY DEF Campaign!InitializeCampaign, CampaignIInv, RowsInOrder
<1>2. campDir' = [receipts |-> <<>>, result |-> "none", summary |-> FALSE, by |-> "us"]
  BY DEF Campaign!InitializeCampaign, Campaign!NoCampaign
<1>3. campDir' \in [receipts : Seq(CampaignRows), result : Statuses \cup {"none"}, summary : BOOLEAN,
                   by : {"nobody", "earlier", "us"}]
  BY <1>1, <1>2 DEF CampaignIInv, CampaignTypes
<1>4. CampaignTypes'
  BY <1>1, <1>3 DEF CampaignIInv, CampaignTypes, Open
<1>5. RowsInOrder' /\ Derived'
  BY <1>1, <1>2 DEF CampaignIInv, RowsInOrder, Derived, Open
<1>6. SeriesInOrder'
  BY <1>1 DEF CampaignIInv, SeriesInOrder, Ours, Campaign!Item
<1>7. AtSeries' /\ RowsEarned' /\ RowsStand'
  BY <1>1 DEF CampaignIInv, AtSeries, RowsEarned, RowsStand, Ours, Alone
<1>8. QED BY <1>4, <1>5, <1>6, <1>7 DEF CampaignIInv

\* The rows as a series changes: those before it stand.
LEMMA RowsKeep ==
  ASSUME CampaignIInv, NEW k \in Campaign!Items, NEW new \in SeriesStates,
         campSeries' = [campSeries EXCEPT ![k] = new], UNCHANGED <<campDir, campRows>>,
         campSeries[k].by = "rival" => new.by = "rival",
         (new.by = "rival" /\ campSeries[k].by # "us") \/ k \notin 1..Len(campRows)
  PROVE  RowsEarned' /\ RowsStand'
<1>1. /\ campSeries'[k] = new /\ \A j \in Campaign!Items : j # k => campSeries'[j] = campSeries[j]
  BY DEF CampaignIInv, CampaignTypes
<1>2. 1..Len(campRows) \subseteq Campaign!Items
  <2>1. Len(campRows) \in Nat /\ Len(campRows) <= CampaignLength
    BY DEF CampaignIInv, CampaignTypes, RowsInOrder
  <2>2. QED BY <2>1, CampaignAssumption DEF Campaign!Items
<1>3. Alone' => Alone /\ new.by # "rival"
  BY <1>1 DEF Alone
<1>4. ASSUME Alone', NEW n \in 1..Len(campRows)
      PROVE  Campaign!RowHolds(campRows[n], campSeries[n])'
  <2>1. Campaign!RowHolds(campRows[n], campSeries[n])
    BY <1>3, <1>4 DEF CampaignIInv, RowsStand
  <2>2. campSeries'[n] = campSeries[n]
    BY <1>1, <1>2, <1>3, <1>4
  <2>3. QED BY <2>1, <2>2 DEF Campaign!RowHolds, Campaign!SeriesDirVerifies, Campaign!RowOf,
                                Campaign!Unavailable
<1>5. ASSUME NEW n \in 1..Len(campRows), campRows[n].status = "passed"
      PROVE  campSeries'[n].by = "us" /\ campSeries'[n].status = "passed"
  <2>1. Ours(n) /\ campSeries[n].status = "passed"
    BY <1>5 DEF CampaignIInv, RowsEarned
  <2>2. campSeries'[n] = campSeries[n]
    BY <1>1, <1>2, <1>5, <2>1 DEF Ours
  <2>3. QED BY <2>1, <2>2 DEF Ours
<1>6. RowsEarned'
  BY <1>5 DEF RowsEarned, Ours
<1>7. QED BY <1>4, <1>6 DEF RowsStand

\* The place of the next series.
LEMMA AtItem ==
  ASSUME CampaignIInv, campPc \in Open
  PROVE  /\ Campaign!Item \in Campaign!Items /\ Campaign!Item = Len(campRows) + 1
         /\ Len(campRows) \in Nat /\ Campaign!Item \notin 1..Len(campRows)
<1>1. Len(campRows) \in Nat /\ Len(campRows) < CampaignLength
  BY DEF CampaignIInv, CampaignTypes, RowsInOrder
<1>2. QED BY <1>1, CampaignAssumption DEF Campaign!Item, Campaign!Items

LEMMA RefusedKeeps ==
  ASSUME CampaignIInv, campPc = "series", Campaign!SeriesRefused, UNCHANGED <<campDir, campRows>>
  PROVE  CampaignIInv'
<1>1. campPc' = "capture" /\ campErr' = TRUE /\ UNCHANGED <<campSeries, campClock, campDir, campRows>>
  BY DEF Campaign!SeriesRefused
<1>2. ~Ours(Campaign!Item)
  BY AtItem DEF CampaignIInv, SeriesInOrder, Open
<1>3. CampaignTypes' /\ RowsInOrder' /\ Derived'
  BY <1>1 DEF CampaignIInv, CampaignTypes, RowsInOrder, Derived, Open, Campaign!DeriveTerminal
<1>4. SeriesInOrder' /\ AtSeries'
  BY <1>1, <1>2 DEF CampaignIInv, SeriesInOrder, AtSeries, Ours, Campaign!Item
<1>5. RowsEarned' /\ RowsStand'
  BY <1>1 DEF CampaignIInv, RowsEarned, RowsStand, Ours, Alone
<1>6. QED BY <1>3, <1>4, <1>5 DEF CampaignIInv

\* A series appears where there was none, after every end so far.
LEMMA SeriesAppears ==
  ASSUME CampaignIInv, NEW k \in Campaign!Items, campSeries[k].by = "nobody",
         NEW by \in {"us", "rival"}, campClock' = campClock + 1,
         campSeries' = [campSeries EXCEPT ![k] =
            [by |-> by, status |-> "running", start |-> campClock + 1, finish |-> 0]],
         by = "us" => k = Campaign!Item,
         \/ by = "us" /\ campPc = "series" /\ campPc' = "running"
         \/ by = "rival" /\ campPc' = campPc,
         UNCHANGED <<campErr, campDir, campRows>>
  PROVE  CampaignIInv'
<1> DEFINE new == [by |-> by, status |-> "running", start |-> campClock + 1, finish |-> 0]
<1>1. /\ new \in SeriesStates /\ campClock \in Nat
      /\ campSeries'[k] = new /\ \A j \in Campaign!Items : j # k => campSeries'[j] = campSeries[j]
      /\ campSeries' \in [Campaign!Items -> SeriesStates]
  BY DEF CampaignIInv, CampaignTypes, SeriesStates
<1>2. CampaignTypes' /\ RowsInOrder' /\ Derived'
  BY <1>1 DEF CampaignIInv, CampaignTypes, RowsInOrder, Derived, Open, Campaign!DeriveTerminal
<1>3. RowsEarned' /\ RowsStand'
  <2>1. by = "rival" \/ k \notin 1..Len(campRows)
    BY AtItem DEF Open
  <2>2. QED BY <1>1, <2>1, RowsKeep
<1>4. AtSeries'
  BY <1>1 DEF CampaignIInv, AtSeries, Ours, Campaign!Item
<1>5. Len(campRows) \in Nat /\ \A j \in Campaign!Items : j \in Nat
  BY CampaignAssumption DEF CampaignIInv, CampaignTypes, Campaign!Items
<1>6. ASSUME NEW j \in Campaign!Items
      PROVE  /\ campSeries'[j].by = "nobody" => campSeries'[j] = Campaign!NoSeriesDir
             /\ campSeries'[j].finish <= campClock'
             /\ Ours(j)' => \/ j <= Len(campRows')
                            \/ j = Campaign!Item' /\ campPc' \in {"running", "capture", "error", "crashed"}
             /\ Ours(j)' /\ campSeries'[j].status = "running" => j = Campaign!Item' /\ campPc' = "running"
  <2>1. /\ campSeries[j].finish \in Nat /\ campSeries[j].finish <= campClock
    BY DEF CampaignIInv, CampaignTypes, SeriesStates, SeriesInOrder
  <2>2. CASE j = k
    BY <1>1, <2>2 DEF Ours, Campaign!Item
  <2>3. CASE j # k
    BY <1>1, <2>1, <2>3 DEF CampaignIInv, SeriesInOrder, Ours, Campaign!Item
  <2>4. QED BY <2>2, <2>3
<1>7. ASSUME NEW i \in Campaign!Items, NEW j \in Campaign!Items, i < j, Ours(i)', Ours(j)'
      PROVE  campSeries'[i].finish <= campSeries'[j].start
  <2>1. /\ campSeries[i].finish \in Nat /\ campSeries[i].finish <= campClock
        /\ campSeries[j].start \in Nat
    BY DEF CampaignIInv, CampaignTypes, SeriesStates, SeriesInOrder
  <2>2. CASE i = k
    <3>1. campSeries'[i].finish = 0 /\ campSeries'[j] = campSeries[j]
      BY <1>1, <1>5, <1>7, <2>2
    <3>2. QED BY <2>1, <3>1
  <2>3. CASE j = k
    <3>1. campSeries'[j].start = campClock + 1 /\ campSeries'[i] = campSeries[i]
      BY <1>1, <1>5, <1>7, <2>3
    <3>2. QED BY <1>1, <2>1, <3>1
  <2>4. CASE i # k /\ j # k
    BY <1>1, <1>7, <2>4 DEF CampaignIInv, SeriesInOrder, Ours
  <2>5. QED BY <2>2, <2>3, <2>4
<1>8. SeriesInOrder'
  BY <1>6, <1>7 DEF SeriesInOrder
<1>9. QED BY <1>2, <1>3, <1>4, <1>8 DEF CampaignIInv

\* A series that was running ends: ours at its place in the order, or a rival's.
LEMMA SeriesEnds ==
  ASSUME CampaignIInv, NEW k \in Campaign!Items, campSeries[k].status = "running",
         NEW status_ \in Campaign!SeriesEndings, Campaign!EndOf(k, status_),
         \/ /\ Ours(k) /\ campPc = "running" /\ campPc' = "capture" /\ k = Campaign!Item
            /\ campErr' = (status_ # "passed")
         \/ campSeries[k].by = "rival" /\ UNCHANGED <<campPc, campErr>>,
         UNCHANGED <<campDir, campRows>>
  PROVE  CampaignIInv'
<1> DEFINE old == campSeries[k]
           new == [old EXCEPT !.status = status_, !.finish = campClock + 1]
<1>1. /\ campClock' = campClock + 1 /\ campClock \in Nat /\ old \in SeriesStates
      /\ campSeries' = [campSeries EXCEPT ![k] = new]
  <2>1. /\ campClock' = campClock + 1 /\ campClock \in Nat /\ old \in SeriesStates
        /\ campSeries \in [Campaign!Items -> SeriesStates]
        /\ campSeries' = [campSeries EXCEPT ![k].status = status_, ![k].finish = campClock + 1]
    BY DEF CampaignIInv, CampaignTypes, Campaign!EndOf
  <2>2. campSeries' = [campSeries EXCEPT ![k] = new]
    BY <2>1
  <2>3. QED BY <2>1, <2>2
<1>2. /\ new \in SeriesStates /\ new.by = old.by /\ new.start = old.start
      /\ new.status = status_ /\ new.finish = campClock + 1
  <2>1. campClock + 1 \in Nat /\ old \in SeriesStates
    BY <1>1
  <2>2. new = [old EXCEPT !.status = status_, !.finish = campClock + 1]
    OBVIOUS
  <2> HIDE DEF new, old
  <2>3. QED BY <2>1, <2>2 DEF SeriesStates, Campaign!SeriesEndings, Statuses
<1> HIDE DEF new
<1>a. /\ campSeries'[k] = new /\ \A j \in Campaign!Items : j # k => campSeries'[j] = campSeries[j]
      /\ campSeries' \in [Campaign!Items -> SeriesStates]
  BY <1>1, <1>2 DEF CampaignIInv, CampaignTypes
<1>3. CampaignTypes' /\ RowsInOrder' /\ Derived'
  <2>1. campErr' \in BOOLEAN
    <3>1. campErr \in BOOLEAN
      BY DEF CampaignIInv, CampaignTypes
    <3>2. QED BY <3>1, Zenon
  <2>2. CampaignTypes'
    BY <1>1, <1>2, <1>a, <2>1 DEF CampaignIInv, CampaignTypes, Open
  <2>3. QED BY <1>1, <1>2, <1>a, <2>2 DEF CampaignIInv, RowsInOrder, Derived, Open, Campaign!DeriveTerminal
<1>4. RowsEarned' /\ RowsStand'
  <2>1. (new.by = "rival" /\ old.by # "us") \/ k \notin 1..Len(campRows)
    BY <1>2, AtItem DEF Open
  <2>2. QED BY <1>1, <1>2, <1>a, <2>1, RowsKeep
<1>5. AtSeries'
  <2>1. CASE /\ Ours(k) /\ campPc = "running" /\ campPc' = "capture" /\ k = Campaign!Item
             /\ campErr' = (status_ # "passed")
    <3>1. campErr' = FALSE <=> status_ = "passed"
      BY <2>1, Zenon
    <3>2. Campaign!Item' = k /\ new.by = "us"
      BY <1>2, <2>1 DEF Campaign!Item, Ours
    <3>3. QED BY <1>2, <1>a, <2>1, <3>1, <3>2 DEF AtSeries, Ours
  <2>2. CASE campSeries[k].by = "rival" /\ UNCHANGED <<campPc, campErr>>
    <3>1. Campaign!Item' = Campaign!Item
      BY DEF Campaign!Item
    <3>2. ~Ours(k) /\ new.by # "us"
      BY <1>2, <2>2 DEF Ours
    <3>3. CASE Campaign!Item = k
      BY <1>2, <1>a, <2>2, <3>1, <3>2, <3>3 DEF CampaignIInv, AtSeries, Ours
    <3>4. CASE Campaign!Item # k
      <4>1. CASE campPc \in Open
        <5>1. campSeries'[Campaign!Item] = campSeries[Campaign!Item]
          BY <1>2, <1>a, <3>4, <4>1, AtItem
        <5>2. QED BY <2>2, <3>1, <5>1 DEF CampaignIInv, AtSeries, Ours
      <4>2. CASE campPc \notin Open
        BY <2>2, <4>2 DEF AtSeries, Open
      <4>3. QED BY <4>1, <4>2
    <3>5. QED BY <3>3, <3>4
  <2>3. QED BY <2>1, <2>2
<1>6. Len(campRows) \in Nat /\ \A j \in Campaign!Items : j \in Nat
  BY CampaignAssumption DEF CampaignIInv, CampaignTypes, Campaign!Items
<1>7. ASSUME NEW j \in Campaign!Items
      PROVE  /\ campSeries'[j].by = "nobody" => campSeries'[j] = Campaign!NoSeriesDir
             /\ campSeries'[j].finish <= campClock'
             /\ Ours(j)' => \/ j <= Len(campRows')
                            \/ j = Campaign!Item' /\ campPc' \in {"running", "capture", "error", "crashed"}
             /\ Ours(j)' /\ campSeries'[j].status = "running" => j = Campaign!Item' /\ campPc' = "running"
  <2>1. /\ campSeries[j].finish \in Nat /\ campSeries[j].finish <= campClock
    BY DEF CampaignIInv, CampaignTypes, SeriesStates, SeriesInOrder
  <2>2. CASE j = k
    <3>1. campSeries'[j] = new /\ status_ # "running" /\ new.by \in {"us", "rival"}
      BY <1>2, <1>a, <2>2 DEF Campaign!SeriesEndings, Ours
    <3>2. QED BY <1>1, <1>2, <1>6, <2>2, <3>1 DEF Ours, Campaign!Item
  <2>3. CASE j # k
    <3>1. campSeries'[j] = campSeries[j] /\ campSeries[j].finish <= campClock'
      BY <1>1, <1>2, <1>a, <2>1, <2>3
    <3>2. QED BY <1>6, <2>3, <3>1 DEF CampaignIInv, SeriesInOrder, Ours, Campaign!Item
  <2>4. QED BY <2>2, <2>3
<1>8. ASSUME NEW i \in Campaign!Items, NEW j \in Campaign!Items, i < j, Ours(i)', Ours(j)'
      PROVE  campSeries'[i].finish <= campSeries'[j].start
  <2>1. campSeries'[j].start = campSeries[j].start /\ Ours(i) /\ Ours(j)
    BY <1>2, <1>a, <1>8 DEF Ours
  <2>2. CASE i = k
    <3>1. k = Len(campRows) + 1 /\ campPc = "running"
      BY <2>1, <2>2 DEF Ours, Campaign!Item
    <3>2. j <= Len(campRows) \/ j = Len(campRows) + 1
      BY <2>1 DEF CampaignIInv, SeriesInOrder, Campaign!Item
    <3>3. QED BY <1>6, <1>8, <2>2, <3>1, <3>2
  <2>3. CASE i # k
    BY <1>2, <1>a, <1>8, <2>1, <2>3 DEF CampaignIInv, SeriesInOrder
  <2>4. QED BY <2>2, <2>3
<1>9. SeriesInOrder'
  BY <1>7, <1>8 DEF SeriesInOrder
<1>10. QED BY <1>3, <1>4, <1>5, <1>9 DEF CampaignIInv

\* A row says what lies at the place of its series, and passed of our own alone.
LEMMA CapturedRow ==
  ASSUME CampaignIInv, campPc = "capture"
  PROVE  LET row == Campaign!CaptureExecution(campSeries[Campaign!Item], campErr)
         IN  /\ row \in CampaignRows
             /\ row.status = "passed" =>
                  Ours(Campaign!Item) /\ campSeries[Campaign!Item].status = "passed"
             /\ Alone => Campaign!RowHolds(row, campSeries[Campaign!Item])
<1> DEFINE series == campSeries[Campaign!Item]
           row == Campaign!CaptureExecution(series, campErr)
<1>1. series \in SeriesStates /\ campErr \in BOOLEAN /\ Campaign!Item \in Campaign!Items
  BY AtItem DEF CampaignIInv, CampaignTypes, Open
<1>2. campErr = FALSE <=> Ours(Campaign!Item) /\ series.status = "passed"
  BY DEF CampaignIInv, AtSeries
<1>3. \/ /\ Campaign!SeriesDirVerifies(series) /\ ~(campErr /\ series.status = "passed")
         /\ row = Campaign!RowOf(series)
      \/ /\ ~Campaign!SeriesDirVerifies(series) \/ (campErr /\ series.status = "passed")
         /\ row = Campaign!Unavailable
  BY DEF Campaign!CaptureExecution
<1>4. row \in CampaignRows
  BY <1>1, <1>3 DEF Campaign!SeriesDirVerifies, Campaign!RowOf, Campaign!Unavailable, CampaignRows,
                    SeriesStates, Statuses
<1>5. row.status = "passed" => Ours(Campaign!Item) /\ series.status = "passed"
  BY <1>1, <1>2, <1>3 DEF Campaign!RowOf, Campaign!Unavailable
<1>6. Alone => Campaign!RowHolds(row, series)
  <2> SUFFICES ASSUME Alone PROVE Campaign!RowHolds(row, series)
    OBVIOUS
  <2>1. campErr => series.status # "passed"
    <3>1. series.by \in {"us", "nobody"}
      BY <1>1 DEF Alone, SeriesStates
    <3>2. series.by = "nobody" => series = Campaign!NoSeriesDir
      BY <1>1 DEF CampaignIInv, SeriesInOrder
    <3>3. QED BY <1>2, <3>1, <3>2 DEF Ours, Campaign!NoSeriesDir
  <2> HIDE DEF row, series
  <2>2. QED BY <1>1, <1>3, <2>1 DEF Campaign!RowHolds, Campaign!RowOf, Campaign!Unavailable
<1>7. QED BY <1>4, <1>5, <1>6

LEMMA RecordKeeps == CampaignIInv /\ Campaign!RecordExecution => CampaignIInv'
<1> SUFFICES ASSUME CampaignIInv, Campaign!RecordExecution PROVE CampaignIInv'
  OBVIOUS
<1> DEFINE row == Campaign!CaptureExecution(campSeries[Campaign!Item], campErr)
           here == Campaign!Item
<1>1. campPc = "capture" /\ campErr' = FALSE /\ UNCHANGED <<campSeries, campClock>>
  BY DEF Campaign!RecordExecution
<1>2. /\ row \in CampaignRows
      /\ row.status = "passed" => Ours(here) /\ campSeries[here].status = "passed"
      /\ Alone => Campaign!RowHolds(row, campSeries[here])
  BY <1>1, CapturedRow
<1>3. here = Len(campRows) + 1 /\ here \in Campaign!Items /\ Len(campRows) \in Nat
  BY <1>1, AtItem DEF Open
<1>4. Alone' = Alone
  BY <1>1 DEF Alone
<1>5. CASE campPc' = "error" /\ UNCHANGED <<campDir, campRows>>
  <2>1. CampaignTypes' /\ RowsInOrder' /\ Derived'
    BY <1>1, <1>5 DEF CampaignIInv, CampaignTypes, RowsInOrder, Derived, Open, Campaign!DeriveTerminal,
                      Campaign!CampaignEnded
  <2>2. SeriesInOrder' /\ AtSeries'
    BY <1>1, <1>5 DEF CampaignIInv, SeriesInOrder, AtSeries, Ours, Campaign!Item
  <2>3. RowsEarned' /\ RowsStand'
    BY <1>1, <1>4, <1>5 DEF CampaignIInv, RowsEarned, RowsStand, Ours
  <2>4. QED BY <2>1, <2>2, <2>3 DEF CampaignIInv
<1>6. CASE /\ campDir' = [campDir EXCEPT !.receipts = Append(@, row)]
           /\ campRows' = Append(campRows, row)
           /\ campPc' = Campaign!NextAfter(campErr)
  <2> HIDE DEF row
  <2>1. /\ campRows \in Seq(CampaignRows) /\ campDir.receipts = campRows
        /\ campDir.result = "none" /\ campDir.summary = FALSE
        /\ campDir \in [receipts : Seq(CampaignRows), result : Statuses \cup {"none"},
                        summary : BOOLEAN, by : {"nobody", "earlier", "us"}]
    BY <1>1 DEF CampaignIInv, CampaignTypes, RowsInOrder, Derived, Open
  <2>2. /\ campRows' \in Seq(CampaignRows) /\ Len(campRows') = here /\ campRows'[here] = row
        /\ \A n \in 1..Len(campRows) : campRows'[n] = campRows[n]
    BY <1>2, <1>3, <1>6, <2>1
  <2>3. /\ campDir'.receipts = campRows' /\ campDir'.result = "none" /\ campDir'.summary = FALSE
        /\ campDir' \in [receipts : Seq(CampaignRows), result : Statuses \cup {"none"},
                         summary : BOOLEAN, by : {"nobody", "earlier", "us"}]
    <3>1. Append(campDir.receipts, row) \in Seq(CampaignRows)
      BY <1>2, <2>1
    <3>2. QED BY <1>6, <2>1, <3>1
  <2>4. campPc' = IF here = CampaignLength THEN "result" ELSE "series"
    BY <1>6 DEF Campaign!NextAfter
  <2>5. CampaignTypes'
    BY <1>1, <2>2, <2>3, <2>4 DEF CampaignIInv, CampaignTypes, Open
  <2>6. RowsInOrder'
    BY <1>3, <2>2, <2>3, <2>4, CampaignAssumption DEF RowsInOrder, Open, Campaign!Items
  <2>7. Derived'
    BY <2>3, <2>4 DEF Derived
  <2>8. SeriesInOrder'
    <3>1. \A k \in Campaign!Items : Ours(k)' => k <= Len(campRows')
      BY <1>1, <1>3, <2>2, CampaignAssumption DEF CampaignIInv, SeriesInOrder, Ours, Campaign!Items
    <3>2. \A k \in Campaign!Items : Ours(k)' => campSeries'[k].status # "running"
      BY <1>1 DEF CampaignIInv, SeriesInOrder, Ours
    <3>3. QED BY <1>1, <3>1, <3>2 DEF CampaignIInv, SeriesInOrder, Ours
  <2>9. AtSeries'
    BY <2>4 DEF AtSeries
  <2>10. \A n \in 1..Len(campRows') : n \in 1..Len(campRows) \/ n = here
    BY <1>3, <2>2
  <2>11. RowsEarned'
    BY <1>1, <1>2, <2>2, <2>10 DEF CampaignIInv, RowsEarned, Ours
  <2>12. RowsStand'
    <3> SUFFICES ASSUME Alone, NEW n \in 1..Len(campRows')
                 PROVE  Campaign!RowHolds(campRows'[n], campSeries'[n])
      BY <1>4 DEF RowsStand, Campaign!RowHolds, Campaign!SeriesDirVerifies, Campaign!RowOf,
                  Campaign!Unavailable
    <3>1. CASE n = here
      BY <1>1, <1>2, <2>2, <3>1
    <3>2. CASE n \in 1..Len(campRows)
      BY <1>1, <2>2, <3>2 DEF CampaignIInv, RowsStand
    <3>3. QED BY <2>10, <3>1, <3>2
  <2>13. QED BY <2>5, <2>6, <2>7, <2>8, <2>9, <2>11, <2>12 DEF CampaignIInv
<1>7. QED BY <1>5, <1>6 DEF Campaign!RecordExecution

LEMMA WriteKeeps == CampaignIInv /\ Campaign!WriteCampaignResult => CampaignIInv'
<1> SUFFICES ASSUME CampaignIInv, Campaign!WriteCampaignResult PROVE CampaignIInv'
  OBVIOUS
<1>1. PICK how \in {"both", "result", "none"} :
        /\ campDir' = [campDir EXCEPT !.result = IF how = "none" THEN @ ELSE Campaign!DeriveTerminal(campRows),
                                      !.summary = (how = "both")]
        /\ campPc' = IF how = "both" THEN "verify" ELSE "error"
  BY DEF Campaign!WriteCampaignResult
<1>2. campPc = "result" /\ UNCHANGED <<campErr, campSeries, campRows, campClock>>
  BY DEF Campaign!WriteCampaignResult
<1>3. /\ campDir \in [receipts : Seq(CampaignRows), result : Statuses \cup {"none"},
                      summary : BOOLEAN, by : {"nobody", "earlier", "us"}]
      /\ campDir.result = "none" /\ campDir.receipts = campRows
      /\ Len(campRows) = CampaignLength
  BY <1>2 DEF CampaignIInv, CampaignTypes, RowsInOrder, Derived
<1>4. Campaign!DeriveTerminal(campRows) \in Statuses
  BY DEF Campaign!DeriveTerminal, Statuses
<1>5. /\ campDir' \in [receipts : Seq(CampaignRows), result : Statuses \cup {"none"},
                       summary : BOOLEAN, by : {"nobody", "earlier", "us"}]
      /\ campDir'.receipts = campRows
      /\ campDir'.result = IF how = "none" THEN "none" ELSE Campaign!DeriveTerminal(campRows)
      /\ campDir'.summary = (how = "both")
  BY <1>1, <1>3, <1>4
<1>6. CampaignTypes'
  BY <1>1, <1>2, <1>5 DEF CampaignIInv, CampaignTypes, Campaign!CampaignEnded
<1>7. RowsInOrder'
  BY <1>1, <1>2, <1>3, <1>5 DEF CampaignIInv, RowsInOrder, Open
<1>8. Derived'
  <2>1. campPc' \in {"verify", "error"}
    BY <1>1
  <2>2. campDir'.summary => campDir'.result # "none"
    <3>1. campDir'.summary => how = "both"
      BY <1>5
    <3>2. QED BY <1>4, <1>5, <3>1 DEF Statuses
  <2>3. campDir'.result # "none" => Len(campRows') = CampaignLength
                                    /\ campDir'.result = Campaign!DeriveTerminal(campRows)'
    BY <1>2, <1>3, <1>5 DEF Campaign!DeriveTerminal
  <2>4. QED BY <2>1, <2>2, <2>3 DEF Derived, Open
<1>9. SeriesInOrder' /\ AtSeries'
  BY <1>1, <1>2 DEF CampaignIInv, SeriesInOrder, AtSeries, Ours, Campaign!Item
<1>10. RowsEarned' /\ RowsStand'
  BY <1>2 DEF CampaignIInv, RowsEarned, RowsStand, Ours, Alone
<1>11. QED BY <1>6, <1>7, <1>8, <1>9, <1>10 DEF CampaignIInv

\* The process dies; a series of ours that was running is broken.
LEMMA CrashKeeps == CampaignIInv /\ Campaign!CampaignCrash => CampaignIInv'
<1> SUFFICES ASSUME CampaignIInv, Campaign!CampaignCrash PROVE CampaignIInv'
  OBVIOUS
<1>1. /\ campPc \notin Campaign!CampaignEnded /\ campPc' = "crashed"
      /\ UNCHANGED <<campErr, campDir, campRows, campClock>>
  BY DEF Campaign!CampaignCrash
<1>2. ASSUME NEW k \in Campaign!Items
      PROVE  /\ campSeries[k] \in SeriesStates /\ campSeries'[k] \in SeriesStates
             /\ campSeries'[k].by = campSeries[k].by /\ campSeries'[k].start = campSeries[k].start
             /\ campSeries'[k].finish = campSeries[k].finish
             /\ Ours(k) => campSeries'[k].status # "running"
             /\ ~(Ours(k) /\ campSeries[k].status = "running") => campSeries'[k] = campSeries[k]
  <2>1. campSeries[k] \in SeriesStates
    BY DEF CampaignIInv, CampaignTypes
  <2>2. campSeries'[k] = IF campSeries[k].by = "us" /\ campSeries[k].status = "running"
                         THEN [campSeries[k] EXCEPT !.status = "broken"] ELSE campSeries[k]
    BY DEF Campaign!CampaignCrash
  <2>3. QED BY <2>1, <2>2 DEF SeriesStates, Ours
<1>3. campSeries' \in [Campaign!Items -> SeriesStates]
  <2>1. DOMAIN campSeries' = Campaign!Items /\ campSeries' = [k \in Campaign!Items |-> campSeries'[k]]
    BY DEF Campaign!CampaignCrash
  <2>2. QED BY <1>2, <2>1
<1>4. CampaignTypes'
  BY <1>1, <1>3 DEF CampaignIInv, CampaignTypes, Campaign!CampaignEnded
<1>5. RowsInOrder' /\ Derived'
  BY <1>1 DEF CampaignIInv, RowsInOrder, Derived, Open, Campaign!DeriveTerminal
<1>6. \A n \in 1..Len(campRows) : n \in Campaign!Items /\ campSeries'[n] = campSeries[n]
  <2>1. Len(campRows) \in Nat /\ Len(campRows) <= CampaignLength
    BY DEF CampaignIInv, CampaignTypes, RowsInOrder
  <2>2. \A n \in 1..Len(campRows) : n \in Campaign!Items /\ n # Campaign!Item
    BY <2>1, CampaignAssumption DEF Campaign!Items, Campaign!Item
  <2>3. QED BY <1>2, <2>2 DEF CampaignIInv, SeriesInOrder
<1>7. SeriesInOrder'
  <2>1. ASSUME NEW k \in Campaign!Items
        PROVE  /\ campSeries'[k].by = "nobody" => campSeries'[k] = Campaign!NoSeriesDir
               /\ campSeries'[k].finish <= campClock
               /\ Ours(k)' => k <= Len(campRows) \/ k = Campaign!Item
    BY <1>2 DEF CampaignIInv, SeriesInOrder, Ours
  <2>2. \A j, k \in Campaign!Items :
          j < k /\ Ours(j)' /\ Ours(k)' => campSeries'[j].finish <= campSeries'[k].start
    BY <1>2 DEF CampaignIInv, SeriesInOrder, Ours
  <2>3. QED BY <1>1, <1>2, <2>1, <2>2 DEF SeriesInOrder, Ours, Campaign!Item
<1>8. AtSeries'
  BY <1>1 DEF AtSeries
<1>9. RowsEarned'
  BY <1>1, <1>6 DEF CampaignIInv, RowsEarned, Ours
<1>10. RowsStand'
  <2>1. Alone' = Alone
    BY <1>2 DEF Alone
  <2>2. QED BY <1>1, <1>6, <2>1 DEF CampaignIInv, RowsStand, Campaign!RowHolds,
                    Campaign!SeriesDirVerifies, Campaign!RowOf, Campaign!Unavailable
<1>11. QED BY <1>4, <1>5, <1>7, <1>8, <1>9, <1>10 DEF CampaignIInv

LEMMA CampaignInvNext == CampaignIInv /\ Campaign!CampaignNext => CampaignIInv'
<1> SUFFICES ASSUME CampaignIInv, Campaign!CampaignNext PROVE CampaignIInv'
  OBVIOUS
<1>1. CASE Campaign!RequireAbsent \/ Campaign!VerifyCampaign
  BY <1>1, CampaignMoves DEF Campaign!RequireAbsent, Campaign!VerifyCampaign
<1>2. CASE Campaign!InitializeCampaign
  BY <1>2, InitializeKeeps
<1>3. CASE Campaign!StartSeries
  <2>1. campPc = "series" /\ UNCHANGED <<campDir, campRows>>
    BY <1>3 DEF Campaign!StartSeries
  <2>2. CASE Campaign!SeriesRefused
    BY <2>1, <2>2, RefusedKeeps
  <2>3. CASE /\ ~Campaign!SeriesExists(Campaign!Item) /\ campClock' = campClock + 1
             /\ campSeries' = [campSeries EXCEPT ![Campaign!Item] =
                   [by |-> "us", status |-> "running", start |-> campClock + 1, finish |-> 0]]
             /\ campPc' = "running" /\ UNCHANGED campErr
    <3>1. Campaign!Item \in Campaign!Items
      BY <2>1, AtItem DEF Open
    <3>2. campSeries[Campaign!Item].by = "nobody"
      BY <2>3 DEF Campaign!SeriesExists, Campaign!NoSeriesDir
    <3>3. QED BY <2>1, <2>3, <3>1, <3>2, SeriesAppears
  <2>4. QED BY <1>3, <2>2, <2>3 DEF Campaign!StartSeries
<1>4. CASE Campaign!EndSeries
  <2>1. PICK status_ \in Campaign!SeriesEndings :
          Campaign!EndOf(Campaign!Item, status_) /\ campErr' = (status_ # "passed")
    BY <1>4 DEF Campaign!EndSeries
  <2>2. campPc = "running" /\ campPc' = "capture" /\ UNCHANGED <<campDir, campRows>>
    BY <1>4 DEF Campaign!EndSeries
  <2>3. /\ Campaign!Item \in Campaign!Items /\ Ours(Campaign!Item)
        /\ campSeries[Campaign!Item].status = "running"
    BY <2>2, AtItem DEF CampaignIInv, AtSeries, Open
  <2>4. QED BY <2>1, <2>2, <2>3, SeriesEnds
<1>5. CASE Campaign!RecordExecution
  BY <1>5, RecordKeeps
<1>6. CASE Campaign!WriteCampaignResult
  BY <1>6, WriteKeeps
<1>7. CASE Campaign!CampaignCrash
  BY <1>7, CrashKeeps
<1>8. ASSUME NEW k \in Campaign!Items, Campaign!RivalStarts(k) PROVE CampaignIInv'
  <2>1. campSeries[k].by = "nobody"
    BY <1>8 DEF Campaign!RivalStarts, Campaign!SeriesExists, Campaign!NoSeriesDir
  <2>2. QED BY <1>8, <2>1, SeriesAppears DEF Campaign!RivalStarts
<1>9. ASSUME NEW k \in Campaign!Items, Campaign!RivalEnds(k) PROVE CampaignIInv'
  <2>1. PICK status_ \in Campaign!SeriesEndings : Campaign!EndOf(k, status_)
    BY <1>9 DEF Campaign!RivalEnds
  <2>2. QED BY <1>9, <2>1, SeriesEnds DEF Campaign!RivalEnds
<1>10. QED BY <1>1, <1>2, <1>3, <1>4, <1>5, <1>6, <1>7, <1>8, <1>9
            DEF Campaign!CampaignNext, Campaign!CampaignStep

LEMMA CampaignWritten ==
  CampaignIInv => Campaign!PassedCampaignIsEarned /\ Campaign!CampaignKeepsEveryRow
<1> SUFFICES ASSUME CampaignIInv PROVE Campaign!PassedCampaignIsEarned /\ Campaign!CampaignKeepsEveryRow
  OBVIOUS
<1>1. campRows \in Seq(CampaignRows) /\ campSeries \in [Campaign!Items -> SeriesStates]
  BY DEF CampaignIInv, CampaignTypes
<1>2. Campaign!PassedCampaignIsEarned
  <2> SUFFICES ASSUME campDir.result = "passed", NEW k \in Campaign!Items
               PROVE  /\ campSeries[k].by = "us" /\ campSeries[k].status = "passed"
                      /\ k > 1 => campSeries[k-1].finish <= campSeries[k].start
    BY DEF Campaign!PassedCampaignIsEarned
  <2>1. Len(campRows) = CampaignLength /\ Campaign!DeriveTerminal(campRows) = "passed"
    BY DEF CampaignIInv, Derived
  <2>2. \A n \in 1..Len(campRows) :
          campRows[n].status \notin {"unavailable", "failed", "invalid", "inconclusive"}
    BY <2>1 DEF Campaign!DeriveTerminal
  <2>3. \A n \in 1..Len(campRows) : campRows[n].status = "passed"
    <3>1. \A n \in 1..Len(campRows) : campRows[n] \in CampaignRows
      BY <1>1
    <3>2. QED BY <2>2, <3>1 DEF CampaignRows, Statuses
  <2>4. \A j \in Campaign!Items : Ours(j) /\ campSeries[j].status = "passed"
    BY <2>1, <2>3 DEF CampaignIInv, RowsEarned, Campaign!Items
  <2>5. k > 1 => k-1 \in Campaign!Items /\ k-1 < k
    BY CampaignAssumption DEF Campaign!Items
  <2>6. QED BY <2>4, <2>5 DEF CampaignIInv, SeriesInOrder, Ours
<1>3. Campaign!CampaignKeepsEveryRow
  <2> SUFFICES ASSUME campDir.summary, Alone
               PROVE  Campaign!CampaignVerifies(campDir) /\ Len(campDir.receipts) = CampaignLength
    BY DEF Campaign!CampaignKeepsEveryRow, Alone
  <2>1. /\ campDir.result # "none" /\ Len(campRows) = CampaignLength /\ campDir.receipts = campRows
        /\ campDir.result = Campaign!DeriveTerminal(campRows)
    BY DEF CampaignIInv, Derived, RowsInOrder
  <2>2. \A k \in Campaign!Items : Campaign!RowHolds(campRows[k], campSeries[k])
    BY <2>1 DEF CampaignIInv, RowsStand, Campaign!Items
  <2>3. ASSUME NEW i \in 1..Len(campRows), NEW j \in 1..Len(campRows), i < j,
               campRows[i].evidence = "verified", campRows[j].evidence = "verified"
        PROVE  campRows[i].finish <= campRows[j].start
    <3>1. ASSUME NEW n \in 1..Len(campRows), campRows[n].evidence = "verified"
          PROVE  Ours(n) /\ campRows[n] = Campaign!RowOf(campSeries[n])
      <4>1. n \in Campaign!Items
        BY <2>1 DEF Campaign!Items
      <4>2. Campaign!SeriesDirVerifies(campSeries[n]) /\ campRows[n] = Campaign!RowOf(campSeries[n])
        BY <2>2, <3>1, <4>1 DEF Campaign!RowHolds
      <4>3. campSeries[n].by # "nobody"
        BY <4>1, <4>2 DEF CampaignIInv, SeriesInOrder, Campaign!NoSeriesDir, Campaign!SeriesDirVerifies
      <4>4. campSeries[n].by \in {"us", "nobody"}
        BY <1>1, <4>1 DEF Alone, SeriesStates
      <4>5. QED BY <4>2, <4>3, <4>4 DEF Ours
    <3>2. i \in Campaign!Items /\ j \in Campaign!Items
      BY <2>1 DEF Campaign!Items
    <3>3. campSeries[i].finish <= campSeries[j].start
      BY <2>3, <3>1, <3>2 DEF CampaignIInv, SeriesInOrder
    <3>4. campRows[i].finish = campSeries[i].finish
      <4>1. campRows[i] = Campaign!RowOf(campSeries[i])
        BY <2>3, <3>1
      <4>2. Campaign!RowOf(campSeries[i]).finish = campSeries[i].finish
        BY DEF Campaign!RowOf
      <4>3. QED BY <4>1, <4>2
    <3>5. campRows[j].start = campSeries[j].start
      <4>1. campRows[j] = Campaign!RowOf(campSeries[j])
        BY <2>3, <3>1
      <4>2. Campaign!RowOf(campSeries[j]).start = campSeries[j].start
        BY DEF Campaign!RowOf
      <4>3. QED BY <4>1, <4>2
    <3>6. QED BY <3>3, <3>4, <3>5
  <2>4. Campaign!Sequential(campRows)
    BY <2>3 DEF Campaign!Sequential
  <2>5. QED BY <2>1, <2>2, <2>4 DEF Campaign!CampaignVerifies
<1>4. QED BY <1>2, <1>3

\* A passed campaign was earned, and left alone it verifies with every row, for
\* any number of series (captureExecution, checkSequentialExecutionChronology).
THEOREM CampaignsAreEarned == Spec => []CampaignIsEarned
<1> DEFINE Inv == part = "campaign" => CampaignIInv
<1>1. Init => Inv
  BY CampaignInvInit DEF Init, ExperimentStarts, ShellStarts, SuiteStarts, CampaignStarts, DriverStarts
<1>2. Inv /\ [Next]_allVars => Inv'
  <2> SUFFICES ASSUME Inv, [Next]_allVars, part' = "campaign" PROVE CampaignIInv'
    OBVIOUS
  <2>1. part = "campaign"
    BY DEF Next, allVars, ExperimentAlone, ShellAlone, SuiteAlone, CampaignAlone, DriverAlone
  <2>2. CASE Campaign!CampaignNext
    BY <2>1, <2>2, CampaignInvNext
  <2>3. CASE UNCHANGED CampaignVars
    BY <2>1, <2>3, CampaignMoves DEF CampaignVars
  <2>4. QED BY <2>1, <2>2, <2>3 DEF Next, allVars, ExperimentAlone, ShellAlone, SuiteAlone,
                                    CampaignAlone, DriverAlone
<1>3. Inv => CampaignIsEarned
  BY CampaignWritten DEF CampaignIsEarned
<1>4. QED BY <1>1, <1>2, <1>3, PTL DEF Spec
-----------------------------------------------------------------------------
(***************************************************************************)
(* The foreign driver: what is checked stays so up to the rename, and a    *)
(* record that matches other files is not the closure of the entry.        *)
(***************************************************************************)

Bound == drvBound = drvJob.root /\ drvJob.target = "loopback"
Confined == /\ Bound /\ drvGroup = {} /\ drvExit = "zero" /\ ~drvLate /\ drvStaged = drvBound
            /\ Driver!DriverVerifies([holds |-> drvStaged, recorded |-> drvBound])

\* What is known of the run at each label, and of what was published.
DriverIInv ==
  /\ drvPc \in {"start", "running", "group", "post"} => Bound
  /\ drvPc \in {"group", "post"} => drvExit # "none"
  /\ drvPc = "post" => drvGroup = {}
  /\ drvPc \in {"rename", "done"} => Confined
  /\ drvPc = "done" => drvOut = [by |-> "us", holds |-> drvStaged, recorded |-> drvBound]
  /\ drvOut.by = "us" => drvPc = "done"
  /\ drvOut.by = "tampered" => drvPc = "tampered" /\ ~Driver!DriverVerifies(drvOut)

\* The closure is of the job alone.
LEMMA SameRuntime ==
  ASSUME drvJob' = drvJob
  PROVE  \A out : Driver!DriverVerifies(out)' = Driver!DriverVerifies(out)
<1>1. \A out : Driver!DerivedRuntime(out)' = Driver!DerivedRuntime(out)
  BY DEF Driver!DerivedRuntime
<1>2. QED BY <1>1 DEF Driver!DriverVerifies, Driver!InventoryMatches

LEMMA DriverInvInit == Driver!DriverInit => DriverIInv
BY DEF Driver!DriverInit, Driver!NoOut, DriverIInv

\* The run as it is at the labels where nothing else changes it.
LEMMA ConfinedStays ==
  ASSUME Confined, UNCHANGED <<drvJob, drvStaged, drvBound, drvGroup, drvExit, drvLate>>
  PROVE  Confined'
<1> DEFINE out == [holds |-> drvStaged, recorded |-> drvBound]
<1>1. Driver!DriverVerifies(out)
  BY DEF Confined
<1>2. out' = out
  OBVIOUS
<1>3. Driver!DriverVerifies(out)'
  BY <1>1, <1>2, SameRuntime DEF Driver!DriverVerifies, Driver!InventoryMatches, Driver!DerivedRuntime
<1>4. QED BY <1>3 DEF Confined, Bound

LEMMA DriverInvNext == DriverIInv /\ Driver!DriverNext => DriverIInv'
<1> SUFFICES ASSUME DriverIInv, Driver!DriverNext PROVE DriverIInv'
  OBVIOUS
<1> DEFINE out == [holds |-> drvStaged, recorded |-> drvBound]
\* Before there is a published run.
<1>1. CASE \/ Driver!PrepareOutput \/ Driver!StageRuntime \/ Driver!StageJar \/ Driver!ClosureStaged
           \/ Driver!StartDriver \/ Driver!ReturnRun \/ Driver!CloseProcessGroup \/ Driver!StageWritten
           \/ Driver!ReplaceBinary \/ Driver!KillWorkbench
  <2>1. /\ drvPc \notin {"rename", "done", "tampered"} /\ drvPc' \notin {"rename", "done"}
        /\ UNCHANGED <<drvJob, drvBound, drvOut>>
    BY <1>1 DEF Driver!PrepareOutput, Driver!StageRuntime, Driver!StageJar, Driver!ClosureStaged,
                Driver!StartDriver, Driver!ReturnRun, Driver!CloseProcessGroup, Driver!StageWritten,
                Driver!ReplaceBinary, Driver!KillWorkbench
  <2>2. drvOut'.by \notin {"us", "tampered"}
    BY <2>1 DEF DriverIInv
  <2>3. drvPc' \in {"start", "running", "group", "post"} => drvPc \in {"start", "running", "group", "post"}
    BY <1>1 DEF Driver!PrepareOutput, Driver!StageRuntime, Driver!StageJar, Driver!ClosureStaged,
                Driver!StartDriver, Driver!ReturnRun, Driver!CloseProcessGroup, Driver!StageWritten,
                Driver!ReplaceBinary, Driver!KillWorkbench
  <2>4. drvPc' \in {"group", "post"} => drvExit' # "none"
    BY <1>1 DEF DriverIInv, Driver!PrepareOutput, Driver!StageRuntime, Driver!StageJar,
                Driver!ClosureStaged, Driver!StartDriver, Driver!ReturnRun, Driver!RunCanReturn,
                Driver!CloseProcessGroup, Driver!StageWritten, Driver!ReplaceBinary, Driver!KillWorkbench
  <2>5. drvPc' = "post" => drvGroup' = {}
    BY <1>1 DEF DriverIInv, Driver!PrepareOutput, Driver!StageRuntime, Driver!StageJar,
                Driver!ClosureStaged, Driver!StartDriver, Driver!ReturnRun, Driver!CloseProcessGroup,
                Driver!StageWritten, Driver!ReplaceBinary, Driver!KillWorkbench
  <2>6. QED BY <2>1, <2>2, <2>3, <2>4, <2>5 DEF DriverIInv, Bound
<1>2. CASE Driver!BindRuntime
  <2>1. /\ drvPc = "exact" /\ UNCHANGED <<drvJob, drvStaged, drvOut>>
        /\ \/ drvPc' = "start" /\ drvBound' = drvStaged /\ drvJob.root = drvStaged
                /\ drvJob.target = "loopback"
           \/ drvPc' = "refused"
    BY <1>2 DEF Driver!BindRuntime, Driver!RequireExactRuntime, Driver!TargetAllowed
  <2>2. drvOut.by \notin {"us", "tampered"}
    BY <2>1 DEF DriverIInv
  <2>3. QED BY <2>1, <2>2 DEF DriverIInv, Bound
<1>3. CASE Driver!Environment
  <2>1. /\ drvPc \in {"running", "group", "orphaned"} /\ UNCHANGED <<drvJob, drvPc, drvBound, drvOut>>
        /\ drvExit # "none" => drvExit' # "none"
    BY <1>3 DEF Driver!Environment, Driver!DriverForks, Driver!DriverWrites, Driver!LeaderExits,
                Driver!ChildExits
  <2>2. QED BY <2>1 DEF DriverIInv, Bound
<1>4. CASE Driver!DriverDeadline
  <2>1. /\ drvPc \in {"running", "group", "post"}
        /\ UNCHANGED <<drvJob, drvPc, drvStaged, drvBound, drvOut>>
        /\ \/ drvGroup' = {} /\ drvExit' = "killed"
           \/ UNCHANGED <<drvGroup, drvExit>>
    BY <1>4 DEF Driver!DriverDeadline
  <2>2. QED BY <2>1 DEF DriverIInv, Bound
<1>5. CASE Driver!CheckDriverRun
  <2>1. /\ drvPc = "post" /\ drvPc' \in {"rename", "refused"}
        /\ drvPc' = "rename" => /\ drvStaged = drvBound /\ ~drvLate /\ drvExit = "zero"
                                /\ Driver!DriverVerifies(out)
        /\ UNCHANGED <<drvJob, drvStaged, drvBound, drvGroup, drvExit, drvLate, drvOut>>
    BY <1>5 DEF Driver!CheckDriverRun, Driver!RuntimeIdentity
  <2>2. drvOut.by \notin {"us", "tampered"} /\ Bound /\ drvGroup = {}
    BY <2>1 DEF DriverIInv
  <2>3. drvPc' = "rename" => Confined'
    <3>1. drvPc' = "rename" => Confined
      BY <2>1, <2>2 DEF Confined
    <3>2. QED BY <2>1, <3>1, ConfinedStays
  <2>4. QED BY <2>1, <2>2, <2>3 DEF DriverIInv
<1>6. CASE Driver!PublishDriverRun
  <2>1. /\ drvPc = "rename" /\ UNCHANGED <<drvJob, drvStaged, drvBound, drvGroup, drvExit, drvLate>>
        /\ \/ drvPc' = "done" /\ drvOut' = [by |-> "us", holds |-> drvStaged, recorded |-> drvBound]
           \/ drvPc' = "refused" /\ UNCHANGED drvOut
    BY <1>6 DEF Driver!PublishDriverRun
  <2>2. drvOut.by \notin {"us", "tampered"} /\ Confined'
    BY <2>1, ConfinedStays DEF DriverIInv
  <2>3. QED BY <2>1, <2>2 DEF DriverIInv
<1>7. CASE Driver!TakeDriverOutput
  <2>1. /\ drvPc \in {"output", "rename"} /\ drvOut' = [by |-> "other"]
        /\ UNCHANGED <<drvJob, drvPc, drvStaged, drvBound, drvGroup, drvExit, drvLate>>
    BY <1>7 DEF Driver!TakeDriverOutput
  <2>2. drvPc = "rename" => Confined'
    BY <2>1, ConfinedStays DEF DriverIInv
  <2>3. QED BY <2>1, <2>2 DEF DriverIInv
<1>8. CASE Driver!TamperDriverRun
  <2>1. PICK f \in Driver!RuntimeNames \cup {"extra"} :
          LET files == IF f \in drvOut.holds THEN drvOut.holds \ {f} ELSE drvOut.holds \cup {f}
          IN  drvOut' = [by |-> "tampered", holds |-> files, recorded |-> files]
    BY <1>8 DEF Driver!TamperDriverRun
  <2>2. drvPc = "done" /\ drvPc' = "tampered" /\ drvJob' = drvJob
    BY <1>8 DEF Driver!TamperDriverRun
  <2> DEFINE files == IF f \in drvOut.holds THEN drvOut.holds \ {f} ELSE drvOut.holds \cup {f}
  <2>3. drvOut' = [by |-> "tampered", holds |-> files, recorded |-> files]
    BY <2>1
  <2>4. files # drvOut.holds
    OBVIOUS
  <2> HIDE DEF files
  <2>5. drvOut.holds = Driver!DerivedRuntime(drvOut)
    BY <2>2 DEF DriverIInv, Confined, Driver!DriverVerifies, Driver!InventoryMatches, Driver!DerivedRuntime
  <2>6. Driver!DerivedRuntime(drvOut)' = Driver!DerivedRuntime(drvOut)
    BY <2>2 DEF Driver!DerivedRuntime
  <2>7. drvOut'.recorded = files /\ drvOut'.by = "tampered"
    BY <2>3
  <2>8. ~Driver!DriverVerifies(drvOut)'
    BY <2>4, <2>5, <2>6, <2>7 DEF Driver!DriverVerifies
  <2>9. QED BY <2>2, <2>7, <2>8 DEF DriverIInv
<1>9. QED BY <1>1, <1>2, <1>3, <1>4, <1>5, <1>6, <1>7, <1>8 DEF Driver!DriverNext, Driver!DriverStep

LEMMA DriverPublished == DriverIInv => Driver!DriverRunIsConfined /\ Driver!VerifiedRuntimeIsClosed
<1> SUFFICES ASSUME DriverIInv PROVE Driver!DriverRunIsConfined /\ Driver!VerifiedRuntimeIsClosed
  OBVIOUS
<1>1. CASE drvOut.by = "us"
  <2> DEFINE out == [holds |-> drvStaged, recorded |-> drvBound]
  <2>1. Confined /\ drvOut = [by |-> "us", holds |-> drvStaged, recorded |-> drvBound]
    BY <1>1 DEF DriverIInv
  <2>2. Driver!DerivedRuntime(out) = Driver!DerivedRuntime(drvOut)
    BY DEF Driver!DerivedRuntime
  <2>3. drvOut.holds = out.holds /\ drvOut.recorded = out.recorded
    BY <2>1
  <2>4. Driver!DriverVerifies(out)
    BY <2>1 DEF Confined
  <2> HIDE DEF out
  <2>5. Driver!DriverVerifies(drvOut) /\ drvOut.holds = Driver!DerivedRuntime(drvOut)
    BY <2>2, <2>3, <2>4 DEF Driver!DriverVerifies, Driver!InventoryMatches
  <2>6. drvJob.root = drvOut.holds
    BY <2>1 DEF Confined, Bound
  <2>7. QED BY <1>1, <2>1, <2>5, <2>6 DEF Driver!DriverRunIsConfined, Driver!VerifiedRuntimeIsClosed,
                                          Confined, Bound
<1>2. CASE drvOut.by # "us"
  BY <1>2 DEF DriverIInv, Driver!DriverRunIsConfined, Driver!VerifiedRuntimeIsClosed
<1>3. QED BY <1>1, <1>2

\* A published driver run was confined and a verified one is closed, whatever jars the
\* runtime holds (benchmarkexternal.Run, deriveRetainedRuntime).
THEOREM DriversAreConfined == Spec => []DriverIsConfined
<1> DEFINE Inv == part = "driver" => DriverIInv
<1>1. Init => Inv
  BY DriverInvInit DEF Init, ExperimentStarts, ShellStarts, SuiteStarts, CampaignStarts, DriverStarts
<1>2. Inv /\ [Next]_allVars => Inv'
  <2> SUFFICES ASSUME Inv, [Next]_allVars, part' = "driver" PROVE DriverIInv'
    OBVIOUS
  <2>1. part = "driver"
    BY DEF Next, allVars, ExperimentAlone, ShellAlone, SuiteAlone, CampaignAlone, DriverAlone
  <2>2. CASE Driver!DriverNext
    BY <2>1, <2>2, DriverInvNext
  <2>3. CASE UNCHANGED DriverVars
    <3>1. UNCHANGED <<drvJob, drvPc, drvStaged, drvBound, drvGroup, drvExit, drvLate, drvOut>>
      BY <2>3 DEF DriverVars
    <3>2. DriverIInv
      BY <2>1
    <3>3. Confined => Confined'
      BY <3>1, ConfinedStays
    <3>4. Driver!DriverVerifies(drvOut)' = Driver!DriverVerifies(drvOut)
      BY <3>1 DEF Driver!DriverVerifies, Driver!InventoryMatches, Driver!DerivedRuntime
    <3>5. QED BY <3>1, <3>2, <3>3, <3>4 DEF DriverIInv, Bound
  <2>4. QED BY <2>1, <2>2, <2>3 DEF Next, allVars, ExperimentAlone, ShellAlone, SuiteAlone,
                                    CampaignAlone, DriverAlone
<1>3. Inv => DriverIsConfined
  BY DriverPublished DEF DriverIsConfined
<1>4. QED BY <1>1, <1>2, <1>3, PTL DEF Spec
=============================================================================
