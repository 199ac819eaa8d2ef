------------------------- MODULE MCLifecycles -------------------------
(***************************************************************************)
(* Components whose operations have to end, as one specification: a        *)
(* behaviour is of one component, its part, and the others stay idle.      *)
(* They share no state (each command line is a process of its own), so     *)
(* that nothing is lost by not interleaving them.                          *)
(***************************************************************************)
EXTENDS Naturals, Sequences, FiniteSets

CONSTANTS Kids, Piped, Faults, MaxStrays, Invocations, SuiteRepeats, CampaignLength, Jars,
          MaxRuntimeFiles

\* A campaign is declared over at least one series (benchmarkcampaign.BuildProtocol).
ASSUME CampaignAssumption == CampaignLength \in Nat \ {0}

VARIABLES part,   \* the component this behaviour is of
          leader, code, kids, doomed, job, half, waitCh, owner, manifest, env, json, pc,
          subscribed, sigCh, reason, sig, terr, contained, exit, err, snap, replaced, status,
          mode, shPc, wl, journal, bg, workload, assert, scan, shCode, owned, shManifest,
          verdict, written, cleaned, terminal, rowless, shSig, strays, go, result, suitePlan,
          suitePc, suiteRows, suiteDir, specFiles, caseRuns, packer, campPc, campErr, campErrors,
          campDir, campSeries, campRows, campClock, drvJob, drvPc, drvQueue, drvSeen, drvStaged,
          drvBound, drvGroup, drvExit, drvLate, drvBinary, drvOut

SuiteTests == {<<"a/b">>, <<"a/b", "a_b">>, <<"a/b", "c">>}
CleanName == [test \in {"a/b", "a_b", "c"} |-> IF test = "a/b" THEN "a_b" ELSE test]

Experiment == INSTANCE Runner
Shell == INSTANCE ExperimentRun WITH pc <- shPc, code <- shCode, manifest <- shManifest, sig <- shSig
Suite == INSTANCE UtilitySuite
Campaign == INSTANCE BenchmarkCampaign
Driver == INSTANCE ExternalDriver

ExperimentVars == <<leader, code, kids, doomed, job, half, waitCh, owner, manifest, env, json, pc,
                    subscribed, sigCh, reason, sig, terr, contained, exit, err, snap, replaced, status>>
ShellVars == <<mode, shPc, wl, journal, bg, workload, assert, scan, shCode, owned, shManifest,
               verdict, written, cleaned, terminal, rowless, shSig, strays, go, result>>
SuiteVars == <<suitePlan, suitePc, suiteRows, suiteDir, specFiles, caseRuns, packer>>
CampaignVars == <<campPc, campErr, campErrors, campDir, campSeries, campRows, campClock>>
DriverVars == <<drvJob, drvPc, drvQueue, drvSeen, drvStaged, drvBound, drvGroup, drvExit, drvLate,
                drvBinary, drvOut>>

\* A component that is not the part is idle: its variables keep one value.
ExperimentIdle == /\ leader = "idle" /\ code = "idle" /\ kids = "idle" /\ doomed = "idle" /\ job = "idle"
                  /\ half = "idle" /\ waitCh = "idle" /\ owner = "idle" /\ manifest = "idle" /\ env = "idle"
                  /\ json = "idle" /\ pc = "idle" /\ subscribed = "idle" /\ sigCh = "idle" /\ reason = "idle"
                  /\ sig = "idle" /\ terr = "idle" /\ contained = "idle" /\ exit = "idle" /\ err = "idle"
                  /\ snap = "idle" /\ replaced = "idle" /\ status = "idle"
ShellIdle == /\ mode = "idle" /\ shPc = "idle" /\ wl = "idle" /\ journal = "idle" /\ bg = "idle"
             /\ workload = "idle" /\ assert = "idle" /\ scan = "idle" /\ shCode = "idle" /\ owned = "idle"
             /\ shManifest = "idle" /\ verdict = "idle" /\ written = "idle" /\ cleaned = "idle"
             /\ terminal = "idle" /\ rowless = "idle" /\ shSig = "idle" /\ strays = "idle" /\ go = "idle"
             /\ result = "idle"
SuiteIdle == /\ suitePlan = "idle" /\ suitePc = [i \in Invocations |-> "idle"] /\ suiteRows = "idle"
             /\ suiteDir = "idle" /\ specFiles = "idle" /\ caseRuns = "idle" /\ packer = "idle"
CampaignIdle == /\ campPc = "idle" /\ campErr = "idle" /\ campErrors = "idle" /\ campDir = "idle"
                /\ campSeries = "idle" /\ campRows = "idle" /\ campClock = "idle"
DriverIdle == /\ drvJob = "idle" /\ drvPc = "idle" /\ drvQueue = "idle" /\ drvSeen = "idle" /\ drvStaged = "idle"
              /\ drvBound = "idle" /\ drvGroup = "idle" /\ drvExit = "idle" /\ drvLate = "idle"
              /\ drvBinary = "idle" /\ drvOut = "idle"

ExperimentStarts == /\ part = "runner" /\ Experiment!Init
                    /\ ShellIdle /\ SuiteIdle /\ CampaignIdle /\ DriverIdle
ShellStarts == /\ part = "shell" /\ Shell!Init
               /\ ExperimentIdle /\ SuiteIdle /\ CampaignIdle /\ DriverIdle
SuiteStarts == /\ part = "suite" /\ Suite!SuiteInit
               /\ ExperimentIdle /\ ShellIdle /\ CampaignIdle /\ DriverIdle
CampaignStarts == /\ part = "campaign" /\ Campaign!CampaignInit
                  /\ ExperimentIdle /\ ShellIdle /\ SuiteIdle /\ DriverIdle
DriverStarts == /\ part = "driver" /\ Driver!DriverInit
                /\ ExperimentIdle /\ ShellIdle /\ SuiteIdle /\ CampaignIdle
Init == \/ ExperimentStarts \/ ShellStarts \/ SuiteStarts \/ CampaignStarts
        \/ DriverStarts

ExperimentAlone == /\ part = "runner"
                   /\ UNCHANGED <<part, ShellVars, SuiteVars, CampaignVars, DriverVars>>
ShellAlone == /\ part = "shell"
              /\ UNCHANGED <<part, ExperimentVars, SuiteVars, CampaignVars, DriverVars>>
SuiteAlone == /\ part = "suite"
              /\ UNCHANGED <<part, ExperimentVars, ShellVars, CampaignVars, DriverVars>>
CampaignAlone == /\ part = "campaign"
                 /\ UNCHANGED <<part, ExperimentVars, ShellVars, SuiteVars, DriverVars>>
DriverAlone == /\ part = "driver"
               /\ UNCHANGED <<part, ExperimentVars, ShellVars, SuiteVars, CampaignVars>>

Next == \/ ExperimentAlone /\ Experiment!Next
        \/ ShellAlone /\ Shell!Next
        \/ SuiteAlone /\ Suite!SuiteNext
        \/ CampaignAlone /\ Campaign!CampaignNext
        \/ DriverAlone /\ Driver!DriverNext

allVars == <<part, ExperimentVars, ShellVars, SuiteVars, CampaignVars, DriverVars>>

\* Each component under the fairness of its own specification: the part never
\* changes, so that one condition serves for the steps of all.
PartStep == \/ ExperimentAlone /\ Experiment!RunnerStep
            \/ ShellAlone /\ Shell!GoStops
            \/ CampaignAlone /\ Campaign!CampaignStep
            \/ DriverAlone /\ Driver!DriverStep
Fairness ==
  /\ WF_allVars(PartStep)
  /\ WF_ShellVars(part = "shell" /\ Shell!GoKills)
  /\ WF_ShellVars(part = "shell" /\ Shell!GoReturns)
  /\ \A i \in Invocations : WF_SuiteVars(part = "suite" /\ Suite!SuiteStep(i))
  /\ WF_DriverVars(part = "driver" /\ Driver!DriverDeadline)

Spec == Init /\ [][Next]_allVars /\ Fairness
-----------------------------------------------------------------------------
\* A verified campaign was earned and none of its rows is lost, whatever its
\* series did (benchmarkcampaign.Run, benchmarkcampaign.Verify).
CampaignIsEarned ==
  part = "campaign" => Campaign!PassedCampaignIsEarned /\ Campaign!CampaignKeepsEveryRow

\* A published suite was run by its publisher, and a packed one is closed
\* (utilitysuite.Run, utilitysuiteartifact.createBundle).
SuiteIsEarned == part = "suite" => Suite!SuitePassedIsEarned /\ Suite!PackedSuiteIsClosed

\* A published driver run was confined, and an execution that verifies is closed
\* (benchmarkexternal.Run, deriveRetainedRuntime).
DriverIsConfined == part = "driver" => Driver!DriverRunIsConfined /\ Driver!VerifiedRuntimeIsClosed

\* The verdict on disk and the result agree (run_experiment.sh, experimentrun.Run).
VerdictMatchesResult == part = "shell" => Shell!VerdictMatchesResult

\* The journal of an aborted trial parses, and a failed phase fails the run (benchmark_phase.sh, benchmarkphase.build).
JournalIsTrue == part = "shell" => Shell!JournalIsTrue

\* No verdict becomes passed before every gate of the shell was (run_experiment.sh).
PassedAfterAllGates ==
  [][part = "shell" /\ verdict # "passed" /\ verdict' = "passed" =>
       ~workload /\ ~assert /\ ~scan /\ (mode = "benchmark" => Shell!TimelinePassed(journal))]_ShellVars

\* Once there is a manifest the run is judged (run_experiment.sh, experimentrun.Run).
EveryRunIsJudged == part = "shell" => Shell!EveryRunIsJudged

\* Runs, campaigns, suites and drivers end, whatever the series, trials
\* and processes they started do (the Run of each package).
OperationsEnd ==
  /\ part = "runner" => Experiment!RunnerReturns
  /\ part = "campaign" => Campaign!CampaignEnds
  /\ part = "suite" => Suite!SuiteEnds
  /\ part = "driver" => Driver!DriverRunEnds
=============================================================================
