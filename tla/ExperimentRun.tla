--------------------------- MODULE ExperimentRun ---------------------------
(***************************************************************************)
(* One experiment run from the inside: the shell body and EXIT trap of     *)
(* scripts/run_experiment.sh, the phases its workload child records        *)
(* (scripts/run_workload.sh), the verdict of the run, and the Go runner    *)
(* around it, reduced to what module Supervision promises and to the       *)
(* verdict it replaces.                                                    *)
(*                                                                         *)
(* "benchmark" is the mode with BENCHMARK_PREFLIGHT_ACTIVE=1 (a phase      *)
(* journal and a run id were given), "ordinary" the one without a journal. *)
(***************************************************************************)
EXTENDS PhaseJournal

CONSTANT MaxStrays   \* how many times the shell alone gets HUP, INT or TERM

VARIABLES
  mode,      \* "benchmark" or "ordinary", fixed for the run
  pc,        \* where the shell is
  wl,        \* the workload child: 0, or the phase (4..7) it is about to record
  journal,   \* the phase journal: a sequence of rows
  bg,        \* BACKGROUND_EXIT or METRICS_EXIT is not zero
  workload, assert, scan,  \* WORKLOAD_EXIT, ASSERT_EXIT, SCAN_EXIT not zero
  code,      \* the exit code of the shell (so far) is not zero
  owned,     \* RUN_DIRECTORY_OWNED: this run's directory exists
  manifest,  \* manifest.env: "none", "minimal" or "full"
  verdict,   \* the verdict files: "none", "passed" or "failed"
  written,   \* VERDICT_WRITTEN
  cleaned,   \* BENCHMARK_TERMINAL_CLEANUP_DONE
  terminal,  \* terminal_failure
  rowless,   \* the workload child failed before it recorded a phase, or the
             \* trap interrupted the shell between the cleanup row and its mark
  sig,       \* a signal is pending: traps run when the command in progress ends
  strays,    \* how many stray signals were sent
  go,        \* the Go runner: "waiting", "stopping" or "done"
  result     \* Result.Status: "none", "passed" or "failed"

exits == <<workload, assert, scan>>
files == <<owned, manifest, verdict>>
flags == <<written, cleaned, terminal>>
world == <<sig, strays, go, result>>
vars  == <<mode, pc, wl, journal, bg, exits, code, files, flags, rowless, world>>

Body == {"reserve", "manifest", "load", "prepare", "stabilize", "workload",
         "cooldown", "validate", "collect", "decide", "cleanup", "mark",
         "controls", "verdict", "flag", "verify", "end"}
Trap == {"t.phases", "t.cleanup", "t.controls", "t.manifest", "t.verdict"}
Over == {"exited", "dead"}

Benchmark == mode = "benchmark"

\* benchmark_phase_append is a no-op without a journal.
Record(n, s) == journal' = IF Benchmark THEN Append(journal, Row(n, s)) ELSE journal

\* What a later phase records of itself: skipped once an earlier one failed.
Follows(failed) == IF HasFailure(journal) THEN "skipped"
                   ELSE IF failed THEN "failed" ELSE "passed"

Init ==
  /\ mode \in {"benchmark", "ordinary"}
  /\ pc = "reserve" /\ wl = 0 /\ journal = <<>> /\ bg = FALSE
  /\ workload = FALSE /\ assert = FALSE /\ scan = FALSE /\ code = FALSE
  /\ owned = FALSE /\ manifest = "none" /\ verdict = "none"
  /\ written = FALSE /\ cleaned = FALSE /\ terminal = FALSE /\ rowless = FALSE
  /\ sig = FALSE /\ strays = 0 /\ go = "waiting" /\ result = "none"

\* The body goes on at p when no trap is due.
At(p) == pc = p /\ ~sig

\* errexit, return or exit with a nonzero status: the EXIT trap takes over.
Fails == pc' = "t.phases" /\ code' = TRUE

-----------------------------------------------------------------------------
(* begin_benchmark_preflight and the head of run_experiment                *)

\* mkdir of the run directory.  An ordinary run has no trap before it and its
\* refusal leaves nothing; a benchmark run closes its journal from the trap.
Reserve ==
  /\ At("reserve")
  /\ \/ owned' = TRUE /\ pc' = "manifest" /\ UNCHANGED code
     \/ Benchmark /\ Fails /\ UNCHANGED owned
     \/ ~Benchmark /\ pc' = "exited" /\ code' = TRUE /\ UNCHANGED owned
  /\ UNCHANGED <<mode, wl, journal, bg, exits, manifest, verdict, flags,
                 rowless, world>>

WriteManifest ==
  /\ At("manifest")
  /\ \/ /\ manifest' = IF Benchmark THEN "minimal" ELSE "full"
        /\ pc' = "load" /\ UNCHANGED code
     \/ Fails /\ UNCHANGED manifest
  /\ UNCHANGED <<mode, wl, journal, bg, exits, owned, verdict, flags, rowless,
                 world>>

\* Environment and spec are loaded, the manifest of a benchmark run is
\* completed and provenance captured; then the preflight phase has passed.
LoadSpec ==
  /\ At("load")
  /\ \/ manifest' = "full" /\ pc' = "prepare" /\ Record(Preflight, "passed")
        /\ UNCHANGED code
     \/ Fails /\ manifest' \in {manifest, "full"} /\ UNCHANGED journal
  /\ UNCHANGED <<mode, wl, bg, exits, owned, verdict, flags, rowless, world>>

-----------------------------------------------------------------------------
(* Phases 2 to 7                                                           *)

PrepareRuntime ==
  /\ At("prepare")
  /\ \/ pc' = "stabilize" /\ Record(Prepare, "passed") /\ UNCHANGED code
     \/ Fails /\ UNCHANGED journal
  /\ UNCHANGED <<mode, wl, bg, exits, files, flags, rowless, world>>

\* snapshot, start_metrics, start_background_specs: module OwnedChildren.
StartChildren ==
  /\ At("stabilize")
  /\ \/ /\ pc' = "workload" /\ \E s \in {"passed", "skipped"} : Record(Stabilize, s)
        /\ UNCHANGED code
     \/ Fails /\ UNCHANGED journal
  /\ UNCHANGED <<mode, wl, bg, exits, files, flags, rowless, world>>

\* experiment_workload_action run: a foreground child, under set +e.
StartWorkload ==
  /\ At("workload")
  /\ \/ wl' = PreWarmup /\ pc' = "workload.runs"
     \/ ~Benchmark /\ pc' = "cooldown" /\ UNCHANGED wl    \* no workload spec
  /\ UNCHANGED <<mode, journal, bg, exits, code, files, flags, rowless, world>>

WorkloadReturns(failed) ==
  wl' = 0 /\ pc' = "cooldown" /\ workload' = (workload \/ failed)

\* The child records phase wl as passed or skipped and goes on; the measure
\* phase is never skipped and its end is the child's.
WorkloadPhase ==
  /\ pc = "workload.runs"
  /\ \E s \in {"passed"} \cup (IF wl = Measure THEN {} ELSE {"skipped"}) :
       Record(wl, s)
  /\ IF wl = Measure THEN WorkloadReturns(FALSE)
                     ELSE wl' = wl + 1 /\ UNCHANGED <<pc, workload>>
  /\ UNCHANGED <<mode, bg, assert, scan, code, files, flags, rowless, world>>

\* Phase wl fails: the child records it and skips what is left up to measure.
WorkloadPhaseFails ==
  /\ pc = "workload.runs" /\ WorkloadReturns(TRUE)
  /\ journal' = IF Benchmark THEN journal \o Closing(wl, Measure, "failed")
                ELSE journal
  /\ UNCHANGED <<mode, bg, assert, scan, code, files, flags, rowless, world>>

\* The child fails before the first phase (image identity, script, log
\* directory): it returns and has recorded nothing.
WorkloadRefuses ==
  /\ pc = "workload.runs" /\ wl = PreWarmup /\ WorkloadReturns(TRUE)
  /\ rowless' = TRUE
  /\ UNCHANGED <<mode, journal, bg, assert, scan, code, files, flags, world>>

\* SIGTERM to the group ends the child at any point; the shell has it as well
\* and its trap runs as soon as the child is reaped.
WorkloadKilled ==
  /\ pc = "workload.runs" /\ go = "stopping" /\ sig /\ WorkloadReturns(TRUE)
  /\ UNCHANGED <<mode, journal, bg, assert, scan, code, files, flags, rowless,
                 world>>

-----------------------------------------------------------------------------
(* Phases 8 to 10                                                          *)

\* wait_background_specs only remembers a failure; the stops leave by errexit.
StopChildren ==
  /\ At("cooldown")
  /\ \/ \E b \in BOOLEAN :
          /\ bg' = b /\ workload' = (workload \/ b) /\ pc' = "validate"
          /\ Record(Cooldown, Follows(b)) /\ UNCHANGED code
     \/ Fails /\ UNCHANGED <<bg, workload, journal>>
  /\ UNCHANGED <<mode, wl, assert, scan, files, flags, rowless, world>>

RunAssertions ==
  /\ At("validate")
  /\ \/ \E a \in BOOLEAN :
          /\ assert' = a /\ pc' = "collect" /\ Record(Validate, Follows(a))
          /\ UNCHANGED code
     \/ Fails /\ UNCHANGED <<assert, journal>>
  /\ UNCHANGED <<mode, wl, bg, workload, scan, files, flags, rowless, world>>

\* collect only after a clean run so far, evidence files only after clean
\* assertions, then the failure scan and the digest of the manifest.
CollectEvidence ==
  /\ At("collect") /\ pc' = "decide"
  /\ workload' \in {workload} \cup
       (IF HasFailure(journal) \/ workload \/ assert THEN {} ELSE {TRUE})
  /\ assert' \in {assert, TRUE} /\ scan' \in BOOLEAN
  /\ UNCHANGED <<mode, wl, journal, bg, code, files, flags, rowless, world>>

\* Any failure so far ends the run at phase 10; an ordinary run publishes its
\* failed verdict here (write_intermediate_failed_verdict), a benchmark run
\* leaves it to the trap.
Decide ==
  /\ At("decide")
  /\ LET bad == workload \/ assert \/ scan \/ HasFailure(journal)
     IN /\ Record(Collect, Follows(bad))
        /\ IF bad THEN Fails
           ELSE pc' = (IF Benchmark THEN "cleanup" ELSE "verdict") /\ UNCHANGED code
        /\ IF bad /\ ~Benchmark THEN verdict' = "failed" /\ written' = TRUE
                                ELSE UNCHANGED <<verdict, written>>
  /\ UNCHANGED <<mode, wl, bg, exits, owned, manifest, cleaned, terminal,
                 rowless, world>>

-----------------------------------------------------------------------------
(* The passing end of the body                                             *)

CleanUp ==
  /\ At("cleanup") /\ pc' = "mark"
  /\ \E s \in {"passed", "failed"} : Record(Cleanup, s)
  /\ UNCHANGED <<mode, wl, bg, exits, code, files, flags, rowless, world>>

MarkCleaned ==
  /\ At("mark") /\ pc' = "controls" /\ cleaned' = TRUE
  /\ UNCHANGED <<mode, wl, journal, bg, exits, code, files, written, terminal,
                 rowless, world>>

\* The verdict of the controls alone, with the clean-up only on record.
MaterializeControlsOnly ==
  /\ At("controls")
  /\ \E failed \in BOOLEAN :
       IF failed
         THEN /\ Fails /\ workload' = TRUE /\ verdict' = "failed" /\ written' = TRUE
         ELSE pc' = "verdict" /\ UNCHANGED <<code, workload, verdict, written>>
  /\ UNCHANGED <<mode, wl, journal, bg, assert, scan, owned, manifest, cleaned,
                 terminal, rowless, world>>

\* Failed controls, then a failed cleanup, end in a failed verdict.
MaterializeControls ==
  /\ At("controls")
  /\ \E failed \in BOOLEAN :
       IF failed \/ HasFailure(journal)
         THEN /\ Fails /\ workload' = TRUE /\ verdict' = "failed" /\ written' = TRUE
         ELSE pc' = "verdict" /\ UNCHANGED <<code, workload, verdict, written>>
  /\ UNCHANGED <<mode, wl, journal, bg, assert, scan, owned, manifest, cleaned,
                 terminal, rowless, world>>

\* The writer refuses a passed verdict with a nonzero exit.
WritePassed ==
  /\ At("verdict")
  /\ \/ /\ ~workload /\ ~assert /\ ~scan /\ verdict' = "passed"
        /\ pc' = (IF Benchmark THEN "flag" ELSE "verify") /\ UNCHANGED code
     \/ Fails /\ UNCHANGED verdict
  /\ UNCHANGED <<mode, wl, journal, bg, exits, owned, manifest, flags, rowless,
                 world>>

FlagWritten ==
  /\ At("flag") /\ pc' = "verify" /\ written' = TRUE
  /\ UNCHANGED <<mode, wl, journal, bg, exits, code, files, cleaned, terminal,
                 rowless, world>>

\* A failed verification that leaves the passed verdict where it is.
VerifyKeepsVerdict ==
  /\ At("verify")
  /\ \/ pc' = "end" /\ UNCHANGED <<assert, verdict, written, code>>
     \/ Fails /\ assert' = TRUE /\ written' = TRUE /\ UNCHANGED verdict
  /\ UNCHANGED <<mode, wl, journal, bg, workload, scan, owned, manifest,
                 cleaned, terminal, rowless, world>>

\* "run verify" of the live artifact, and the failed verdict when it objects.
Verify ==
  /\ At("verify")
  /\ \/ pc' = "end" /\ UNCHANGED <<assert, verdict, written, code>>
     \/ Fails /\ assert' = TRUE /\ verdict' = "failed" /\ written' = TRUE
  /\ UNCHANGED <<mode, wl, journal, bg, workload, scan, owned, manifest,
                 cleaned, terminal, rowless, world>>

EndBody ==
  /\ At("end") /\ pc' = "t.phases" /\ written' = TRUE
  /\ UNCHANGED <<mode, wl, journal, bg, exits, code, files, cleaned, terminal,
                 rowless, world>>

-----------------------------------------------------------------------------
(* handle_termination and terminal_cleanup                                 *)

\* A trap between the row of phase 11 and its mark adds a second such row.
HandleTermination ==
  /\ pc \in Body /\ sig
  /\ sig' = FALSE /\ workload' = TRUE /\ Fails
  /\ rowless' = (rowless \/ pc = "mark")
  /\ UNCHANGED <<mode, wl, journal, bg, assert, scan, files, flags, strays, go,
                 result>>

\* The rows up to phase 10, unless the body has been through phase 11.
CompletePhases ==
  /\ pc = "t.phases"
  /\ IF cleaned
       THEN pc' = "t.manifest" /\ UNCHANGED <<journal, code, terminal>>
       ELSE LET bad == Benchmark /\ CompletionFails(journal)
            IN /\ pc' = "t.cleanup"
               /\ journal' = IF Benchmark THEN Completed(journal) ELSE journal
               /\ terminal' = (terminal \/ bad) /\ code' = (code \/ bad)
  /\ UNCHANGED <<mode, wl, bg, exits, files, written, cleaned, rowless, world>>

\* cleanup (module OwnedChildren, then the workload's), under set +e.
TerminalCleanup ==
  /\ pc = "t.cleanup" /\ pc' = "t.controls"
  /\ \E s \in {"passed", "failed"} :
       /\ Record(Cleanup, s)
       /\ terminal' = (terminal \/ s = "failed") /\ code' = (code \/ s = "failed")
  /\ UNCHANGED <<mode, wl, bg, exits, files, written, cleaned, rowless, world>>

TerminalControls ==
  /\ pc = "t.controls" /\ pc' = "t.manifest"
  /\ \E failed \in BOOLEAN :
       /\ failed => owned /\ Benchmark
       /\ terminal' = (terminal \/ failed) /\ code' = (code \/ failed)
  /\ UNCHANGED <<mode, wl, journal, bg, exits, files, written, cleaned, rowless,
                 world>>

\* Before phase 1 passed, the minimal manifest replaces whatever was written.
PreflightPassed == journal # <<>> /\ journal[1].status = "passed"

RestoreManifest ==
  /\ pc = "t.manifest" /\ pc' = "t.verdict"
  /\ manifest' \in IF Benchmark /\ ~PreflightPassed /\ owned
                     THEN {manifest, "minimal"} ELSE {manifest}
  /\ UNCHANGED <<mode, wl, journal, bg, exits, code, owned, verdict, flags,
                 rowless, world>>

\* A verdict that was written is replaced after a terminal failure; one that
\* was not is written now; a directory without a manifest is removed.
TerminalVerdict ==
  /\ pc = "t.verdict" /\ pc' = "exited"
  /\ IF owned /\ manifest # "none" /\ (terminal \/ ~written)
       THEN verdict' = "failed" /\ workload' = TRUE ELSE UNCHANGED <<verdict, workload>>
  /\ owned' = (owned /\ (Benchmark \/ manifest # "none"))
  /\ UNCHANGED <<mode, wl, journal, bg, assert, scan, code, manifest, flags,
                 rowless, world>>

-----------------------------------------------------------------------------
(* Signals and the Go runner                                               *)

\* A signal reaches the shell: pending while the traps are set, fatal before
\* they are and again in the EXIT trap, which resets them.
Armed == pc \notin Trap /\ (Benchmark \/ owned)
Signal == IF Armed THEN sig' = TRUE /\ UNCHANGED <<pc, code>>
                   ELSE pc' = "dead" /\ code' = TRUE /\ UNCHANGED sig

StraySignal ==
  /\ strays < MaxStrays /\ pc \notin Over /\ strays' = strays + 1 /\ Signal
  /\ UNCHANGED <<mode, wl, journal, bg, exits, files, flags, rowless, go, result>>

\* Timeout or interrupt: SIGTERM to the group, whether or not the shell has
\* just exited.
GoStops ==
  /\ go = "waiting" /\ go' = "stopping"
  /\ IF pc \in Over THEN UNCHANGED <<pc, code, sig>> ELSE Signal
  /\ UNCHANGED <<mode, wl, journal, bg, exits, files, flags, rowless, strays, result>>

\* The grace is over: SIGKILL.
GoKills ==
  /\ go = "stopping" /\ pc \notin Over /\ pc' = "dead" /\ code' = TRUE
  /\ UNCHANGED <<mode, wl, journal, bg, exits, files, flags, rowless, world>>

\* A runner that leaves the verdict to the shell it has stopped.
GoReturnsOnly ==
  /\ pc \in Over /\ go # "done" /\ go' = "done"
  /\ result' = IF go = "stopping" \/ code THEN "failed" ELSE "passed"
  /\ UNCHANGED <<mode, pc, wl, journal, bg, exits, code, files, flags, rowless,
                 sig, strays>>

\* writeRunnerFailureVerdict after a clean-up signal, and the Result.
GoReturns ==
  /\ pc \in Over /\ go # "done" /\ go' = "done"
  /\ verdict' = IF go = "stopping" /\ manifest # "none" THEN "failed" ELSE verdict
  /\ result' = IF go = "stopping" \/ code THEN "failed" ELSE "passed"
  /\ UNCHANGED <<mode, pc, wl, journal, bg, exits, code, owned, manifest, flags,
                 rowless, sig, strays>>

Shell ==
  \/ Reserve \/ WriteManifest \/ LoadSpec \/ PrepareRuntime \/ StartChildren
  \/ StartWorkload \/ WorkloadPhase \/ WorkloadPhaseFails \/ WorkloadRefuses
  \/ WorkloadKilled \/ StopChildren \/ RunAssertions \/ CollectEvidence
  \/ Decide \/ CleanUp \/ MarkCleaned \/ MaterializeControls \/ WritePassed
  \/ FlagWritten \/ Verify \/ EndBody
  \/ HandleTermination \/ CompletePhases \/ TerminalCleanup \/ TerminalControls
  \/ RestoreManifest \/ TerminalVerdict

Next == Shell \/ StraySignal \/ GoStops \/ GoKills \/ GoReturns

Spec == Init /\ [][Next]_vars

\* Only the Go runner has a timer: the commands of the shell may hang.  Its
\* execution timeout fires, its SIGKILL follows, and it returns: what module
\* Runner shows of it.
FairSpec == /\ Spec /\ WF_vars(GoStops) /\ WF_vars(GoKills) /\ WF_vars(GoReturns)

-----------------------------------------------------------------------------
(* Properties *)

TypeOK ==
  /\ mode \in {"benchmark", "ordinary"}
  /\ pc \in Body \cup Trap \cup Over \cup {"workload.runs"}
  /\ wl \in {0} \cup PreWarmup..Measure
  /\ pc # "dead" => (wl # 0 <=> pc = "workload.runs")
  /\ journal \in Seq(Rows) /\ Len(journal) <= (IF rowless THEN 12 ELSE 11)
  /\ {bg, workload, assert, scan, code, owned, written, cleaned, terminal,
      rowless, sig} \subseteq BOOLEAN
  /\ strays \in 0..MaxStrays
  /\ manifest \in {"none", "minimal", "full"}
  /\ verdict \in {"none", "passed", "failed"}
  /\ go \in {"waiting", "stopping", "done"} /\ result \in {"none", "passed", "failed"}

Finished == go = "done"

\* The verdict on disk and the result the caller gets agree, whatever failed
\* and wherever the Go runner stopped the shell, if no signal reached the shell
\* alone; and a passed result always has a passed verdict: "before returning a
\* successful command, the runner also verifies the completed live artifact and
\* rewrites the terminal verdict to failed if that check does not pass".
VerdictMatchesResult ==
  Finished /\ manifest # "none" =>
    /\ strays = 0 => verdict = result
    /\ result = "passed" => verdict = "passed"

\* A verdict never becomes passed unless every recorded exit is zero and, with
\* a journal, all eleven phases are on record and none failed.
PassedAfterAllGates ==
  [][verdict # "passed" /\ verdict' = "passed" =>
       ~workload /\ ~assert /\ ~scan /\ (Benchmark => TimelinePassed(journal))]_vars

\* "This keeps aborted trials independently parseable": wherever the shell
\* failed or was interrupted, the journal it leaves is one the Go reader
\* accepts, but for the two ways listed with rowless.
AbortedTrialsParse ==
  pc = "exited" /\ Benchmark /\ ~rowless => Accepted(journal)

\* "A failed timeline cannot support a passed trial", and no phase failure of
\* an exited shell goes without a failed verdict.
FailedPhaseFailsRun ==
  pc = "exited" /\ HasFailure(journal) => code /\ (manifest # "none" => verdict = "failed")

\* The journal of an aborted trial parses, and a failed phase fails the run
\* (benchmark_phase.sh, benchmarkphase.build).
JournalIsTrue == AbortedTrialsParse /\ FailedPhaseFailsRun

\* Once there is a manifest the run ends with a result and, unless a signal
\* reached the shell alone, a verdict, though every command of the shell may
\* hang and clean-up may never return.
EveryRunIsJudged ==
  manifest # "none" ~> (Finished /\ (verdict # "none" \/ strays > 0))

\* "events after a failure follow the closed skip transition": the same as
\* AbortedTrialsParse for every failure, as the documentation has it.
EveryTrialParses ==
  pc = "exited" /\ Benchmark => Accepted(journal)

\* "An early failure after manifest creation must still produce a failed
\* verdict", whoever signals the shell.
EveryManifestGetsVerdict ==
  Finished /\ manifest # "none" => verdict # "none"
=============================================================================
