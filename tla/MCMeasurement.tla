------------------------- MODULE MCMeasurement -------------------------
(***************************************************************************)
(* What a run and a trial measured and what is read from it, and the       *)
(* background workloads beside them, as one specification: a behaviour is  *)
(* of one component, its part, and the others stay idle.  Each reads the   *)
(* files the one before it left; what may be wrong with them is part of    *)
(* its own behaviours.                                                     *)
(***************************************************************************)
EXTENDS Integers, Sequences, FiniteSets

CONSTANTS MaxSwaps, Samples, MaxTouches, Interval, Resolution, RequiredSamples, MaxNow, MaxWork,
          MaxResets, Clients, TxPerClient, MaxClock, MaxSpoiled, MaxFaults, Users, Pids,
          MaxCommands

\* A process number is not what an absent or a truncated current.pid reads as.
ASSUME PidsAssumption == {"absent", "empty"} \cap Pids = {}
\* A millisecond has a tick at least.
ASSUME ResolutionAssumption == Resolution \in Nat \ {0}
\* pgbench has a client, finitely many, and none is named like an earlier log.
ASSUME ClientsAssumption == IsFiniteSet(Clients) /\ Clients # {} /\ "old" \notin Clients /\ TxPerClient \in Nat

VARIABLES part,   \* the component this behaviour is of
          runPc, runFiles, outcome, runSwaps, rvEdited, trialPc, gate, wanted, onDisk, runResult,
          kept, trialStatus, touches, ctPc, ctNext, passedPhases, raw, typed, derived, refs,
          ctStatus, swaps, early, scNow, scPhase, measure, policy, counter, work, epoch, resetAt,
          resetPc, resetRow, sampler, metrics, timing, cancelled, pgPc, plan, clock, span, did,
          logs, output, verdict, faults, wbPc, wbPid, procs, pidFile, commands, overlapped, cut,
          reused


Verdict == INSTANCE RunVerify WITH swaps <- runSwaps
Trial == INSTANCE TrialEvidence
Control == INSTANCE ControlEvidence
Sampled == INSTANCE SampledCounters
Pgbench == INSTANCE PgbenchResults WITH MaxNow <- MaxClock
Background == INSTANCE WorkloadBg

VerdictVars == <<runPc, runFiles, outcome, runSwaps, rvEdited>>
TrialVars == <<trialPc, gate, wanted, onDisk, runResult, kept, trialStatus, touches>>
ControlVars == <<ctPc, ctNext, passedPhases, raw, typed, derived, refs, ctStatus, swaps, early>>
SampledVars == <<scNow, scPhase, measure, policy, counter, work, epoch, resetAt, resetPc, resetRow,
                 sampler, metrics, timing, cancelled>>
PgbenchVars == <<pgPc, plan, clock, span, did, logs, output, verdict, faults>>
BackgroundVars == <<wbPc, wbPid, procs, pidFile, commands, overlapped, cut, reused>>

\* A component that is not the part is idle: its variables keep one value.
VerdictIdle == /\ runPc = "idle" /\ runFiles = "idle" /\ outcome = "idle" /\ runSwaps = "idle" /\ rvEdited = "idle"
TrialIdle == /\ trialPc = "idle" /\ gate = "idle" /\ wanted = "idle" /\ onDisk = "idle" /\ runResult = "idle"
             /\ kept = "idle" /\ trialStatus = "idle" /\ touches = "idle"
ControlIdle == /\ ctPc = "idle" /\ ctNext = "idle" /\ passedPhases = "idle" /\ raw = "idle" /\ typed = "idle"
               /\ derived = "idle" /\ refs = "idle" /\ ctStatus = "idle" /\ swaps = "idle" /\ early = "idle"
SampledIdle == /\ scNow = "idle" /\ scPhase = "idle" /\ measure = "idle" /\ policy = "idle" /\ counter = "idle"
               /\ work = "idle" /\ epoch = "idle" /\ resetAt = "idle" /\ resetPc = "idle" /\ resetRow = "idle"
               /\ sampler = "idle" /\ metrics = "idle" /\ timing = "idle" /\ cancelled = "idle"
PgbenchIdle == /\ pgPc = "idle" /\ plan = "idle" /\ clock = "idle" /\ span = "idle" /\ did = "idle" /\ logs = "idle"
               /\ output = "idle" /\ verdict = "idle" /\ faults = "idle"
BackgroundIdle == /\ wbPc = "idle" /\ wbPid = "idle" /\ procs = "idle" /\ pidFile = "idle" /\ commands = "idle"
                  /\ overlapped = "idle" /\ cut = "idle" /\ reused = "idle"

VerdictStarts == /\ part = "verdict" /\ Verdict!RunInit
                 /\ TrialIdle /\ ControlIdle /\ SampledIdle /\ PgbenchIdle /\ BackgroundIdle
TrialStarts == /\ part = "trial" /\ Trial!EvidenceInit
               /\ VerdictIdle /\ ControlIdle /\ SampledIdle /\ PgbenchIdle /\ BackgroundIdle
ControlStarts == /\ part = "control" /\ Control!ControlInit
                 /\ VerdictIdle /\ TrialIdle /\ SampledIdle /\ PgbenchIdle /\ BackgroundIdle
SampledStarts == /\ part = "sampled" /\ Sampled!SampledInit
                 /\ VerdictIdle /\ TrialIdle /\ ControlIdle /\ PgbenchIdle /\ BackgroundIdle
PgbenchStarts == /\ part = "pgbench" /\ Pgbench!PgbenchInit
                 /\ VerdictIdle /\ TrialIdle /\ ControlIdle /\ SampledIdle /\ BackgroundIdle
BackgroundStarts == /\ part = "background" /\ Background!BgInit
                    /\ VerdictIdle /\ TrialIdle /\ ControlIdle /\ SampledIdle /\ PgbenchIdle
Init == \/ VerdictStarts \/ TrialStarts \/ ControlStarts \/ SampledStarts
        \/ PgbenchStarts \/ BackgroundStarts

VerdictAlone == /\ part = "verdict"
                /\ UNCHANGED <<part, TrialVars, ControlVars, SampledVars, PgbenchVars, BackgroundVars>>
TrialAlone == /\ part = "trial"
              /\ UNCHANGED <<part, VerdictVars, ControlVars, SampledVars, PgbenchVars, BackgroundVars>>
ControlAlone == /\ part = "control"
                /\ UNCHANGED <<part, VerdictVars, TrialVars, SampledVars, PgbenchVars, BackgroundVars>>
SampledAlone == /\ part = "sampled"
                /\ UNCHANGED <<part, VerdictVars, TrialVars, ControlVars, PgbenchVars, BackgroundVars>>
PgbenchAlone == /\ part = "pgbench"
                /\ UNCHANGED <<part, VerdictVars, TrialVars, ControlVars, SampledVars, BackgroundVars>>
BackgroundAlone == /\ part = "background"
                   /\ UNCHANGED <<part, VerdictVars, TrialVars, ControlVars, SampledVars, PgbenchVars>>

Next == \/ VerdictAlone /\ Verdict!RunNext
        \/ TrialAlone /\ Trial!EvidenceNext
        \/ ControlAlone /\ Control!ControlNext
        \/ SampledAlone /\ Sampled!SampledNext
        \/ PgbenchAlone /\ Pgbench!PgbenchNext
        \/ BackgroundAlone /\ Background!BgNext

allVars == <<part, VerdictVars, TrialVars, ControlVars, SampledVars, PgbenchVars, BackgroundVars>>

Spec == Init /\ [][Next]_allVars
-----------------------------------------------------------------------------
\* The files of a run that verify are one writing, and what was written in peace
\* verifies (runstate, runverify.Verify).
RunIsOneWriting == part = "verdict" => Verdict!VerifiedRunIsOneWriting /\ Verdict!WrittenRunVerifies

\* A verified trial rests on files accepted now and recorded from the same bytes,
\* and a passed one verifies (benchmarkrun.runTrial, checkTrial).
TrialIsWhole == part = "trial" => Trial!VerifiedTrialIsWhole /\ Trial!PassedTrialVerifies

\* Verified controls are the trial's own, and honest ones verify
\* (benchmarkrun.loadDerivedControls, checkBenchmarkControls).
ControlsAreOwn == part = "control" => Control!VerifiedControlsAreOwn /\ Control!WrittenControlsVerify

\* A summary of sampled counters is a lower bound of what the server counted
\* (benchmarkmetrics.summarizeCounters).
CountersAreLowerBound == part = "sampled" => Sampled!SummaryIsLowerBound

\* The logs a trial passed with are whole, and no gate refuses an honest run
\* (pgbenchlog.ValidateTransactionLog, pgbenchresult/integrity.go).
PgbenchIsJudged == part = "pgbench" => Pgbench!PassedLogIsWhole /\ Pgbench!HonestRunPasses

\* One background workload at most, the one current.pid names, unless starts overlap,
\* one is killed or a number is taken again (workload_bg.sh).
OneWorkloadAtMost == part = "background" => Background!OneWorkloadAtMost
=============================================================================
