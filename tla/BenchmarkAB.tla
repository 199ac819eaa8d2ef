----------------------------- MODULE BenchmarkAB -----------------------------
(***************************************************************************)
(* The two callers of a benchmark series: the plain run, which executes    *)
(* one series and finishes it (benchmarkrun.Run), and the counterbalanced  *)
(* A/B run, which interleaves two series block by block in alternating     *)
(* order, finishes both and judges them together (benchmarkab.Run).        *)
(***************************************************************************)
EXTENDS BenchmarkSeries

CONSTANT Modes   \* the ways this process is started, see IsMode

Baseline == "baseline"
Candidate == "candidate"
Names == {Baseline, Candidate}

\* caller: "run" or "ab"; native: the runtime is native; toolchain: the A/B
\* subject is the native toolchain, so each arm has an installation.
IsMode(m) ==
  /\ m.caller \in {"run", "ab"} /\ m.native \in BOOLEAN /\ m.toolchain \in BOOLEAN
  /\ m.toolchain => m.native /\ m.caller = "ab"

ASSUME ABAssumption == Arms = Names /\ \A m \in Modes : IsMode(m)

VARIABLES
  mode,
  pc,           \* where the caller is
  slot,         \* A/B: the execution of the schedule that is next or running
  broken,       \* A/B: scheduleErr
  runtime,      \* toolchain subject: the arm whose PostgreSQL is up
  rejected,     \* toolchain subject: an installation failed its revalidation
  abResult,     \* A/B: the status in the published result.json
  exit          \* what the caller returned

callerVars == <<mode, pc, slot, broken, runtime, rejected, abResult, exit>>
vars == <<seriesVars, callerVars>>

Running == {a \in Arms : mode.caller = "ab" \/ a = Baseline}

\* A schedule that runs one arm after the other.
SlotArmGrouped(i) == IF i <= N THEN Baseline ELSE Candidate

\* protocol.Orders: odd blocks run AB, even blocks BA.
SlotArm(i) ==
  LET first == i % 2 = 1
      odd == ((i + 1) \div 2) % 2 = 1
  IN IF first = odd THEN Baseline ELSE Candidate

\* The arm of the call that is next or under way.
Current == IF mode.caller = "run" THEN Baseline ELSE SlotArm(slot)

Return(how) == pc' = "done" /\ exit' = how

-----------------------------------------------------------------------------
InitAB ==
  /\ Init
  /\ mode \in Modes
  /\ pc = "start" /\ slot = 1 /\ broken = FALSE
  /\ runtime = None /\ rejected = FALSE /\ abResult = None /\ exit = None

\* Baseline starts first.  A candidate that cannot start makes the A/B run
\* finish the baseline it just started and return.
StartNext ==
  /\ pc = "start"
  /\ \E a \in Running :
       /\ a = Candidate => at[Baseline] = "idle"
       /\ \/ /\ Start(a)
             /\ pc' = IF a = Baseline /\ mode.caller = "ab" THEN "start" ELSE "loop"
             /\ UNCHANGED <<exit, broken>>
          \/ /\ StartFails(a)
             /\ IF a = Baseline THEN Return("error") /\ UNCHANGED broken
                ELSE pc' = "finish" /\ broken' = TRUE /\ UNCHANGED exit
  /\ UNCHANGED <<mode, slot, runtime, rejected, abResult>>

\* benchmarkrun.Run asks before it calls; the A/B loop calls and is refused.
Call ==
  /\ pc = "loop"
  /\ \/ /\ mode.caller = "run" /\ Refuses(Baseline)
        /\ pc' = "finish" /\ UNCHANGED <<seriesVars, runtime>>
     \/ /\ mode.caller = "ab" /\ slot <= 2 * N
        /\ Refuse(Current)
        /\ pc' = "call" /\ UNCHANGED runtime
     \/ /\ mode.caller = "run" \/ slot <= 2 * N
        /\ BeginTrial(Current, mode.native)
        /\ pc' = "call"
        /\ runtime' = IF mode.toolchain /\ at'[Current] = "running"
                        THEN Current ELSE runtime
     \/ /\ mode.caller = "ab" /\ slot > 2 * N
        /\ pc' = "finish" /\ UNCHANGED <<seriesVars, runtime>>
  /\ UNCHANGED <<mode, slot, broken, rejected, abResult, exit>>

TrialEnds ==
  /\ pc = "call" /\ EndTrial(Current, mode.native)
  /\ UNCHANGED callerVars

TrialRecorded ==
  /\ pc = "call" /\ RecordTrial(Current)
  /\ UNCHANGED callerVars

\* ExecuteTrial is back in its caller.
CallReturned == pc = "call" /\ at[Current] = "idle" /\ returned[Current] # None

ClearReturned == returned' = [returned EXCEPT ![Current] = None]
OnlyReturnedChanges ==
  /\ ClearReturned
  /\ UNCHANGED <<at, trials, tally, expected, status, halted, drifted, disk,
                 altered>>

\* benchmarkrun.Run: an error leaves the series without a result.
RunContinues ==
  /\ mode.caller = "run" /\ CallReturned
  /\ IF returned[Current] = "error" THEN Return("error")
     ELSE pc' = "loop" /\ UNCHANGED exit
  /\ OnlyReturnedChanges /\ NoUpset
  /\ UNCHANGED <<mode, slot, broken, runtime, rejected, abResult>>

\* An A/B loop that goes on after a runtime it could not stop.
ABContinuesUnstopped ==
  /\ mode.caller = "ab" /\ CallReturned
  /\ \E stopped \in BOOLEAN :
       LET changed == mode.toolchain /\ <<"original", Current>> \in altered
       IN /\ IF stopped THEN NoUpset ELSE mode.toolchain /\ Upset
          /\ rejected' = (rejected \/ changed)
          /\ runtime' = IF stopped THEN None ELSE runtime
          /\ broken' = (returned[Current] \in {"error", "failed"} \/ changed)
          /\ pc' = IF broken' THEN "finish" ELSE "loop"
          /\ slot' = slot + 1
  /\ OnlyReturnedChanges
  /\ UNCHANGED <<mode, abResult, exit>>

\* benchmarkab.Run: with a toolchain subject the installation is revalidated
\* and the runtime stopped with its own pg_ctl, whatever the trial gave; any
\* error and any failed trial break the schedule.
ABContinues ==
  /\ mode.caller = "ab" /\ CallReturned
  /\ \E stopped \in BOOLEAN :
       LET changed == mode.toolchain /\ <<"original", Current>> \in altered
       IN /\ IF stopped THEN NoUpset ELSE mode.toolchain /\ Upset
          /\ rejected' = (rejected \/ changed)
          /\ runtime' = IF stopped THEN None ELSE runtime
          /\ broken' = (returned[Current] \in {"error", "failed"}
                          \/ changed \/ ~stopped)
          /\ pc' = IF broken' THEN "finish" ELSE "loop"
          /\ slot' = slot + 1
  /\ OnlyReturnedChanges
  /\ UNCHANGED <<mode, abResult, exit>>

-----------------------------------------------------------------------------
Open(a) == at[a] \notin {"closed", "unfinalized", "refused", "absent"}

\* Both series are finished, the baseline first, also after a broken schedule.
FinishNext ==
  /\ pc = "finish"
  /\ \E a \in Running :
       /\ a = Candidate => ~Open(Baseline)
       /\ Finish(a, mode.native) \/ Publish(a)
  /\ UNCHANGED callerVars

\* Finish returned nil.
SeriesPassed(a) == at[a] = "closed" /\ status[a] = "passed"

RunReturns ==
  /\ mode.caller = "run" /\ pc = "finish" /\ ~Open(Baseline)
  /\ Return(IF SeriesPassed(Baseline) THEN "ok" ELSE "error")
  /\ UNCHANGED <<seriesVars, mode, slot, broken, runtime, rejected, abResult>>

\* A judgement that asks the two series and not every trial.
ABStatusOfSeries(ts, st) ==
  IF \E a \in Arms : Len(ts[a]) # N \/ st[a] \in {"failed", "invalid"}
    THEN {"invalid"}
  ELSE IF \E a \in Arms : st[a] = "inconclusive" THEN {"invalid", "inconclusive"}
  ELSE {"passed", "inconclusive", "invalid"}

\* deriveTerminal over the two series in memory.  The bookend assessment, the
\* settings and the paired analysis are a free choice where every trial of
\* both arms passed; one that did not makes the settings evidence invalid.
ABStatus(ts, st) ==
  IF \E a \in Arms : \/ Len(ts[a]) # N
                     \/ st[a] \in {"failed", "invalid"}
                     \/ Count(ts[a], "passed") # N
    THEN {"invalid"}
  ELSE IF \E a \in Arms : st[a] = "inconclusive" THEN {"invalid", "inconclusive"}
  ELSE {"passed", "inconclusive", "invalid"}

\* The A/B run goes on when both series have a result.json, whatever Finish
\* returned; bookend, blocks, table and summary come before result.json.
ABJudges ==
  /\ mode.caller = "ab" /\ pc = "finish" /\ \A a \in Arms : ~Open(a)
  /\ \/ /\ at[Candidate] = "refused" \/ \E a \in Arms : disk[a].result = None
        /\ Return("error") /\ NoUpset /\ UNCHANGED abResult
     \/ /\ \A a \in Arms : disk[a].result # None
        /\ \/ Upset /\ Return("error") /\ UNCHANGED abResult
           \/ /\ NoUpset /\ pc' = "verify" /\ UNCHANGED exit
              /\ \E s \in ABStatus(trials, status) : abResult' = s
  /\ UNCHANGED <<series, disk, altered, mode, slot, broken, runtime, rejected>>

\* benchmarkab.Verify: both series verify and brought an environment, and the
\* terminal status follows from what is on disk.
ABVerifies ==
  /\ abResult # None
  /\ \A a \in Arms : Verifies(a) /\ disk[a].result.environment # None
  /\ abResult \in ABStatus([a \in Arms |-> disk[a].result.trials],
                           [a \in Arms |-> disk[a].result.status])

ABReturns ==
  /\ pc = "verify"
  /\ Return(IF ABVerifies /\ abResult = "passed" THEN "ok" ELSE "error")
  /\ UNCHANGED <<seriesVars, mode, slot, broken, runtime, rejected, abResult>>

\* What somebody else can change: a shared input, and in native runs the
\* snapshot of a series or the installation an arm runs from.  Bytes change
\* after every series captured its own, where the next look at them comes: before
\* a call, while an experiment runs, and before the last series is finished.
Watched ==
  Shared \cup (IF mode.native THEN {"snapshot"} \X Running ELSE {})
         \cup (IF mode.toolchain THEN {"original"} \X Running ELSE {})

AlterWatched ==
  /\ \/ pc = "loop"
     \/ pc = "call" /\ at[Current] = "running"
     \/ pc = "finish" /\ \E a \in Running : at[a] = "idle"
  /\ \E i \in Watched : Alter(i)
  /\ UNCHANGED callerVars

Step ==
  \/ StartNext \/ Call \/ TrialEnds \/ TrialRecorded
  \/ RunContinues \/ ABContinues
  \/ FinishNext \/ RunReturns \/ ABJudges \/ ABReturns

Next == Step \/ AlterWatched

Spec == InitAB /\ [][Next]_vars
\* The process is scheduled as long as it lives; a trial ends by the deadline
\* of its runner (module Runner).
FairSpec == Spec /\ WF_vars(Step)

-----------------------------------------------------------------------------
TypeOK ==
  /\ SeriesTypeOK
  /\ mode \in Modes
  /\ pc \in {"start", "loop", "call", "finish", "verify", "done"}
  /\ slot \in 1..(2 * N + 1) /\ broken \in BOOLEAN
  /\ runtime \in Arms \cup {None} /\ rejected \in BOOLEAN
  /\ abResult \in {None, "passed", "inconclusive", "invalid"}
  /\ exit \in {None, "ok", "error"}

\* A series that says it passed holds every planned trial, none failed, enough
\* of them valid, all valid ones from one environment, and no identity change
\* was seen while it ran: in every state, so also when the process dies right
\* after writing it.
PassedSeriesIsEarned ==
  \A a \in Arms :
    LET r == disk[a].result
    IN r # None /\ r.status = "passed" =>
         /\ Len(r.trials) = N /\ ~r.drift
         /\ Count(r.trials, "passed") >= MinValid
         /\ \A i \in 1..N : r.trials[i].status \in {"passed", "invalid"}
         /\ \A i \in 1..N : r.trials[i].status = "passed" =>
              r.trials[i].env = r.environment

\* The three counters agree with the statuses of the recorded trials through
\* every reclassification; the verifier counts them again.
TallyIsHonest ==
  \A a \in Arms :
    tally[a] = Tally(Count(trials[a], "passed"), Count(trials[a], "failed"),
                     Count(trials[a], "invalid") + Count(trials[a], ""))

\* Once a change of a protocol identity was seen, nothing recorded before or
\* after counts: every trial is invalid, no environment is claimed, and the
\* series can only end invalid.
DriftVoidsSeries ==
  \A a \in Arms : drifted[a] =>
    /\ \A i \in DOMAIN trials[a] : trials[a][i].status = "invalid"
    /\ expected[a] = None
    /\ status[a] \in {None, "invalid"}

\* A plain run that returns success leaves a series its own verifier accepts,
\* if each retained attempt kept a journal and a linked run that verify, and
\* nobody changed the snapshot since.
PassedRunVerifies ==
  mode.caller = "run" /\ exit = "ok" =>
    \/ Verifies(Baseline)
    \/ <<"snapshot", Baseline>> \in altered
    \/ \E i \in 1..N : trials[Baseline][i].evidence = "none"

\* A/B: with a toolchain subject the PostgreSQL of one arm is down before a
\* trial of the other arm starts one.
OneRuntimeAtATime == [][runtime # None => runtime' \in {runtime, None}]_vars

\* A/B: no arm runs ahead.  The order alternates, so an arm that stopped by an
\* identity change lets the other one start at most two more trials; without
\* such a change the arms are never more than one trial apart.
ArmsStayInStep ==
  mode.caller = "ab" =>
    LET b == Len(trials[Baseline])
        c == Len(trials[Candidate])
        lead == IF \E a \in Arms : drifted[a] THEN 2 ELSE 1
    IN b - c <= lead /\ c - b <= lead

\* A/B: a result that says passed and verifies rests on the full schedule:
\* every trial of both arms passed, on disk, before the result was written.
PassedABIsEarned ==
  mode.caller = "ab" /\ abResult = "passed" /\ ABVerifies =>
    \A a \in Arms : \A i \in 1..N : disk[a].trials[i] # None
                                    /\ disk[a].trials[i].status = "passed"

\* What a result was computed from does not change after it.
ResultIsFinal ==
  [][\A a \in Arms : disk[a].result # None =>
       disk'[a].result = disk[a].result /\ disk'[a].trials = disk[a].trials]_vars

\* Every run returns: a series that cannot count any more still ends.
Returns == <>(pc = "done")

\* An A/B run that succeeds saw no changed installation: the installations
\* are revalidated after every arm.
PassedABRevalidated == mode.caller = "ab" /\ exit = "ok" => ~rejected

=============================================================================
