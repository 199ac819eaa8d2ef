-------------------------- MODULE SampledCounters --------------------------
(***************************************************************************)
(* The cumulative counters of a benchmark trial: the sampler that reads    *)
(* them on a fixed grid (internal/benchmarksampler), the statistics reset  *)
(* at the control boundary (scripts/benchmark_control.sh), and the summary *)
(* that adds the samples up across that reset (internal/benchmarkmetrics,  *)
(* with the derivations of internal/benchmarkcontrol).  One counter stands *)
(* for the database's and the WAL's.  A sample is stamped in milliseconds, *)
(* after it was read; the server keeps a reset in microseconds.            *)
(***************************************************************************)
EXTENDS Integers, Sequences, FiniteSets, SequencesExt

CONSTANTS Interval,         \* ticks between two samples of the grid
          Resolution,       \* ticks in a millisecond
          RequiredSamples,  \* calibration rows the protocol asks for
          MaxNow, MaxWork, MaxResets   \* bounds: the clock, the work counted, resets with those by others

VARIABLES scNow, scPhase,   \* the server's and runner's clock; the phase of the trial
          measure,          \* the measure phase's [from, to]
          policy,           \* [managed, fixed]: fixed = 0 samples for a duration
          counter, work,    \* the server's cumulative counter; all the work it ever counted
          epoch, resetAt,   \* number of resets so far, and the time of the last one
          resetPc, resetRow,   \* place in run_statistics_reset; statistics-reset.tsv
          sampler,          \* [pc, k, first, started, value, seen, epoch, boundary]
          metrics, timing,  \* metrics.csv and the timing rows
          cancelled

scVars == <<scNow, scPhase, measure, policy, counter, work, epoch, resetAt, resetPc, resetRow,
            sampler, metrics, timing, cancelled>>
server == <<counter, work, epoch, resetAt>>
control == <<resetPc, resetRow>>
rows == <<sampler, metrics, timing, cancelled>>

Truncated(t) == t - (t % Resolution)
NoRow == [before |-> 0, after |-> 0, done |-> FALSE, epoch |-> 0]
Idle(k, first, pc) == [pc |-> pc, k |-> k, first |-> first, started |-> 0, value |-> 0,
                       seen |-> 0, epoch |-> 0, boundary |-> FALSE]

SampledInit ==
  /\ scNow = 1 /\ scPhase = "stabilize" /\ measure = [from |-> 0, to |-> 0]
  /\ policy \in [managed : BOOLEAN, fixed : {0, RequiredSamples}]
  /\ counter = 0 /\ work = 0 /\ epoch = 0 /\ resetAt = 0
  /\ resetPc = "before" /\ resetRow = NoRow
  /\ sampler = Idle(1, 0, "wait")
  /\ metrics = <<>> /\ timing = <<>> /\ cancelled = FALSE

Tick == scNow < MaxNow /\ scNow' = scNow + 1
        /\ UNCHANGED <<scPhase, measure, policy, server, control, rows>>
Work == /\ work < MaxWork /\ counter' = counter + 1 /\ work' = work + 1
        /\ UNCHANGED <<scNow, scPhase, measure, policy, epoch, resetAt, control, rows>>
ResetCounters == counter' = 0 /\ epoch' = epoch + 1 /\ resetAt' = scNow
\* Another session resets them while the trial measures.
ForeignReset ==
  /\ scPhase = "measure"
  /\ epoch < MaxResets /\ ResetCounters
  /\ UNCHANGED <<scNow, scPhase, measure, policy, work, control, rows>>

-----------------------------------------------------------------------------
(* Run of internal/benchmarksampler: one owned query at a time.            *)

Due == sampler.first + (sampler.k - 1) * Interval
\* The timer of the grid fires, or cancellation asks for one boundary sample,
\* whose scheduled time is later than any before it and which gets no timing row.
StartSample ==
  /\ sampler.pc = "wait" /\ ~cancelled /\ (sampler.k > 1 => scNow >= Due)
  /\ sampler' = [sampler EXCEPT !.pc = "query", !.started = scNow,
                                !.first = IF sampler.k = 1 THEN scNow ELSE @]
  /\ UNCHANGED <<scNow, scPhase, measure, policy, server, control, metrics, timing, cancelled>>
StartBoundarySample ==
  /\ sampler.pc = "wait" /\ cancelled /\ sampler.k > 1
  /\ sampler' = [sampler EXCEPT !.pc = "query", !.boundary = TRUE]
  /\ UNCHANGED <<scNow, scPhase, measure, policy, server, control, metrics, timing, cancelled>>

\* sql/metrics_sample.sql reads the counters, and stamps the row after that.
ReadCounters ==
  /\ sampler.pc = "query"
  /\ sampler' = [sampler EXCEPT !.pc = "stamp", !.value = counter, !.seen = work, !.epoch = epoch]
  /\ UNCHANGED <<scNow, scPhase, measure, policy, server, control, metrics, timing, cancelled>>

TimingRow(ok) == [scheduled |-> Due, started |-> sampler.started, finished |-> scNow, ok |-> ok]
\* A fixed count ends the sampler, and so may its duration once it has passed.
AfterSample == IF sampler.boundary THEN {"ended"}
               ELSE IF policy.fixed > 0 THEN {IF sampler.k = policy.fixed THEN "ended" ELSE "wait"}
               ELSE {"wait", "ended"}
FinishSample ==
  /\ sampler.pc = "stamp"
  /\ metrics' = Append(metrics, [at |-> Truncated(scNow), value |-> sampler.value,
                                 seen |-> sampler.seen, epoch |-> sampler.epoch])
  /\ timing' = IF sampler.boundary THEN timing ELSE Append(timing, TimingRow(TRUE))
  /\ \E next \in AfterSample : sampler' = Idle(sampler.k + 1, sampler.first, next)
  /\ UNCHANGED <<scNow, scPhase, measure, policy, server, control, cancelled>>
\* The query fails or runs into its 30 s limit: the row says so, the sampler ends
\* with an error, and the run fails whatever follows.
FailSample ==
  /\ sampler.pc \in {"query", "stamp"} /\ sampler' = [sampler EXCEPT !.pc = "failed"]
  /\ timing' = IF sampler.boundary THEN timing ELSE Append(timing, TimingRow(FALSE))
  /\ scPhase' = "failed"
  /\ UNCHANGED <<scNow, measure, policy, server, control, metrics, cancelled>>

-----------------------------------------------------------------------------
(* The phases, and the reset inside the control phase.                     *)

\* The experiment goes on once the first row is published (the readiness token).
EnterControl ==
  /\ scPhase = "stabilize" /\ metrics # <<>> /\ scPhase' = "control"
  /\ UNCHANGED <<scNow, measure, policy, server, control, rows>>
ReadResetBefore ==
  /\ scPhase = "control" /\ policy.managed /\ resetPc = "before" /\ resetPc' = "reset"
  /\ resetRow' = [resetRow EXCEPT !.before = resetAt]
  /\ UNCHANGED <<scNow, scPhase, measure, policy, server, rows>>
\* pg_stat_reset(); a failed command may still have reset the counters.
ResetStatistics ==
  /\ scPhase = "control" /\ resetPc = "reset" /\ resetPc' = "after"
  /\ \E done \in BOOLEAN : resetRow' = [resetRow EXCEPT !.done = done]
  /\ (resetRow'.done /\ ResetCounters) \/ (~resetRow'.done /\ (ResetCounters \/ UNCHANGED <<counter, epoch, resetAt>>))
  /\ UNCHANGED <<scNow, scPhase, measure, policy, work, rows>>
ReadResetAfter ==
  /\ scPhase = "control" /\ resetPc = "after" /\ resetPc' = "written"
  /\ resetRow' = [resetRow EXCEPT !.after = resetAt, !.epoch = epoch]
  /\ scPhase' = IF resetRow.done THEN scPhase ELSE "failed"
  /\ UNCHANGED <<scNow, measure, policy, server, rows>>
StartMeasure ==
  /\ scPhase = "control" /\ (policy.managed => resetPc = "written")
  /\ scPhase' = "measure" /\ measure' = [measure EXCEPT !.from = scNow]
  /\ UNCHANGED <<scNow, policy, server, control, rows>>
FinishMeasure ==
  /\ scPhase = "measure" /\ scNow > measure.from
  /\ scPhase' = "cooldown" /\ measure' = [measure EXCEPT !.to = scNow]
  /\ UNCHANGED <<scNow, policy, server, control, rows>>
\* stop_metrics lets a fixed count finish and stops the others; an interrupted
\* experiment stops both.
StopSampler ==
  /\ scPhase = "cooldown" /\ ~cancelled /\ cancelled' = TRUE
  /\ UNCHANGED <<scNow, scPhase, measure, policy, server, control, sampler, metrics, timing>>
CloseTrial ==
  /\ scPhase = "cooldown" /\ sampler.pc = "ended" /\ scPhase' = "closed"
  /\ UNCHANGED <<scNow, measure, policy, server, control, rows>>

Running == scPhase \notin {"closed", "failed"}
SampledNext == Running /\
 (\/ Tick \/ Work \/ ForeignReset \/ StartSample \/ StartBoundarySample \/ ReadCounters
  \/ FinishSample \/ FailSample \/ EnterControl \/ ReadResetBefore \/ ResetStatistics
  \/ ReadResetAfter \/ StartMeasure \/ FinishMeasure \/ StopSampler \/ CloseTrial)
SampledSpec == SampledInit /\ [][SampledNext]_scVars

-----------------------------------------------------------------------------
(* DeriveFile, over the files of a trial that closed.                      *)

ParsedRows == /\ Len(metrics) >= 2
              /\ \A k \in 1..(Len(metrics) - 1) : metrics[k].at < metrics[k + 1].at
Starts == {k \in DOMAIN metrics : metrics[k].at <= measure.from}
Finishes == {k \in DOMAIN metrics : metrics[k].at >= measure.to}
FirstRow == CHOOSE k \in Starts : \A j \in Starts : j <= k
LastRow == CHOOSE k \in Finishes : \A j \in Finishes : k <= j
Covered == Starts # {} /\ Finishes # {} /\ FirstRow < LastRow
Selected == SubSeq(metrics, FirstRow, LastRow)

\* deriveStatisticsReset: the command completed, and the timestamp moved.
ResetAdvanced == resetRow.before = 0 \/ resetRow.after > resetRow.before
ResetSatisfied == policy.managed => resetRow.done /\ ResetAdvanced
\* deriveCollectorOverhead over the timing rows of a calibrated collector; the
\* duty cycle's limit is left out.
GridHolds == \A k \in DOMAIN timing :
  /\ timing[k].started >= timing[k].scheduled /\ timing[k].finished >= timing[k].started
  /\ k > 1 => timing[k].scheduled - timing[k - 1].scheduled = Interval
WithinBudget == GridHolds /\ Len(timing) >= RequiredSamples /\ \A k \in DOMAIN timing : timing[k].ok
\* correlateTiming: a row lies within its query, and at most one boundary row follows.
Correlated ==
  /\ timing # <<>> /\ Len(metrics) - Len(timing) \in {0, 1}
  /\ \A k \in DOMAIN timing : metrics[k].at \in timing[k].started..timing[k].finished
CadenceHolds(calibrated) ==
  /\ \A k \in 1..(Len(Selected) - 1) : Selected[k + 1].at - Selected[k].at <= 2 * Interval
  /\ calibrated => WithinBudget /\ Correlated

\* summarizeCounters: a pair of rows that crosses the proven reset adds what the
\* counter holds after it.  CrossesEarly also takes a row at the reset's own instant
\* for one before it.
CrossesEarly(previous, current) == policy.managed /\ resetRow.after \in previous.at..current.at
Crosses(previous, current) == policy.managed /\ previous.at < resetRow.after /\ resetRow.after <= current.at
Added(k) == LET previous == Selected[k - 1]
                current == Selected[k]
            IN  IF Crosses(previous, current) THEN current.value ELSE current.value - previous.value
Steps == 2..Len(Selected)
CountersAddUp == \A k \in Steps : Added(k) >= 0
CrossedOnce == Cardinality({k \in Steps : Crosses(Selected[k - 1], Selected[k])}) <= 1
Counted[k \in DOMAIN Selected] == IF k = 1 THEN 0 ELSE Counted[k - 1] + Added(k)
Delta == Counted[Len(Selected)]
Summarized(calibrated) ==
  /\ scPhase = "closed" /\ ParsedRows /\ Covered /\ ResetSatisfied
  /\ CadenceHolds(calibrated) /\ CountersAddUp /\ CrossedOnce

-----------------------------------------------------------------------------
\* What the server really counted between the two rows of the coverage.
TrulyCounted == Last(Selected).seen - Head(Selected).seen
\* A row is placed when its stamp and its reading lie on the same side of the reset.
Placed(row) == (row.epoch >= resetRow.epoch) = (row.at >= resetRow.after)

\* A summary never reports more than the server counted between the rows it
\* spans, whatever resets, failed samples and late timers happened in between
\* (summarizeCounters, normalizeResetEvidence, normalizeCadence), as long as no
\* row's stamp disagrees with its reading about the side of the reset it is on.
SummaryIsLowerBound ==
  /\ \E calibrated \in BOOLEAN : Summarized(calibrated)
  /\ policy.managed => \A k \in DOMAIN Selected : Placed(Selected[k])
  => Delta <= TrulyCounted
=============================================================================
