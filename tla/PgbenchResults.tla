--------------------------- MODULE PgbenchResults ---------------------------
(***************************************************************************)
(* One measured pgbench run of a trial, from the phase stamp before it to  *)
(* the judgement of its summary and its transaction logs:                  *)
(* scripts/run_workload.sh (run_pgbench), the parsers internal/            *)
(* pgbenchresult and internal/pgbenchlog, and the gates of benchmarkrun    *)
(* runTrial that bind them to each other and to the measure phase.         *)
(* pgbench buffers its logs and exits 0 when a write is lost, so what the  *)
(* files hold and what its clients did are two things. Time is in ticks of *)
(* half a second, the allowance a phase has around pgbench.                *)
(***************************************************************************)
EXTENDS Integers, Sequences, FiniteSets

CONSTANTS Clients,      \* pgbench clients, one worker thread and log file each
          TxPerClient,  \* bound on the transactions of a client; its budget when fixed
          MaxNow,       \* bound on the clock
          MaxSpoiled,   \* bound on the transactions that do not commit at once
          MaxFaults     \* bound on lost writes and foreign files

\* --rate (rows may be skipped), --max-tries, sampled logs, a fixed budget.
Plan(rate, tries, sampled, fixed) ==
  [rate |-> rate, tries |-> tries, sampled |-> sampled, fixed |-> fixed]
Plans == {Plan(FALSE, FALSE, FALSE, TRUE), Plan(FALSE, FALSE, TRUE, FALSE),
          Plan(TRUE, TRUE, FALSE, FALSE)}

Old == "old"                     \* a log an earlier pgbench left behind
Lines == <<"type", "clients", "duration", "processed", "failed", "latency", "tps">>
Boundary == 1                    \* phaseBoundaryFixedSeconds, in ticks
Scale == 10                      \* one printed decimal

VARIABLES pgPc, plan, clock,
          span,       \* stamps of the measure phase, and of pgbench's own timer
          did,        \* the transactions each client ran, in order
          logs,       \* the rows each file of the raw directory holds
          output,     \* the lines of the summary file
          verdict,    \* "none", "passed" or "invalid"
          faults

pgVars == <<pgPc, plan, clock, span, did, logs, output, verdict, faults>>

PgbenchInit ==
  /\ pgPc = "idle" /\ plan \in Plans /\ clock = 1
  /\ span = [started |-> 0, from |-> 0, to |-> 0, finished |-> 0]
  /\ did = [c \in Clients |-> <<>>] /\ logs = [f \in Clients |-> <<>>]
  /\ output = <<>> /\ verdict = "none" /\ faults = 0

\* benchmark_phase_now before pgbench, then its start: the timer begins later.
StartMeasure ==
  /\ pgPc = "idle" /\ pgPc' = "starting" /\ span' = [span EXCEPT !.started = clock]
  /\ UNCHANGED <<plan, clock, did, logs, output, verdict, faults>>
StartTimer ==
  /\ pgPc = "starting" /\ pgPc' = "running" /\ span' = [span EXCEPT !.from = clock]
  /\ UNCHANGED <<plan, clock, did, logs, output, verdict, faults>>
PassTime ==
  /\ pgPc \in {"starting", "running", "stopping"} /\ clock < MaxNow /\ clock' = clock + 1
  /\ UNCHANGED <<pgPc, plan, span, did, logs, output, verdict, faults>>

\* A skipped transaction leaves its number to the next one.
Consumed(rows) == Cardinality({k \in DOMAIN rows : rows[k].outcome # "skipped"})
Row(c, outcome) ==
  LET n == Len(did[c])
      since == IF n = 0 THEN span.from ELSE did[c][n].at
  IN  [client |-> c, no |-> Consumed(did[c]), outcome |-> outcome, at |-> clock, latency |-> clock - since]
Spoiled == {row \in Clients \X (1..TxPerClient) :
              row[2] \in DOMAIN did[row[1]] /\ did[row[1]][row[2]].outcome # "completed"}
\* A client ends a transaction; its row is written, not sampled, or lost.
RunTransaction(c) ==
  /\ pgPc = "running" /\ Len(did[c]) < TxPerClient
  /\ \E outcome \in {"completed", "failed", "skipped", "retried"} :
       /\ outcome # "completed" => Cardinality(Spoiled) < MaxSpoiled
       /\ outcome = "skipped" => plan.rate
       /\ outcome = "retried" => plan.tries
       /\ did' = [did EXCEPT ![c] = Append(@, Row(c, outcome))]
       /\ \/ logs' = [logs EXCEPT ![c] = Append(@, Row(c, outcome))] /\ UNCHANGED faults
          \/ plan.sampled /\ UNCHANGED <<logs, faults>>
          \/ ~plan.sampled /\ faults < MaxFaults /\ faults' = faults + 1 /\ UNCHANGED logs
  /\ UNCHANGED <<pgPc, plan, clock, span, output, verdict>>

\* pgbench ends: with a fixed budget when every client has used it.
StopTimer ==
  /\ pgPc = "running" /\ clock > span.from
  /\ \A c \in Clients : plan.fixed => Consumed(did[c]) = TxPerClient
  /\ pgPc' = "stopping" /\ span' = [span EXCEPT !.to = clock]
  /\ UNCHANGED <<plan, clock, did, logs, output, verdict, faults>>
\* The summary, or the part of it a full disk left, or one with a warning in it
\* (both streams of pgbench go to the file); then the second phase stamp.
PrintSummary ==
  /\ pgPc = "stopping" /\ pgPc' = "collected" /\ span' = [span EXCEPT !.finished = clock]
  /\ \/ output' = Lines /\ UNCHANGED faults
     \/ /\ faults < MaxFaults /\ faults' = faults + 1
        /\ output' \in {SubSeq(Lines, 1, n) : n \in {0, 4}} \cup {Append(Lines, "warning")}
  /\ UNCHANGED <<plan, clock, did, logs, verdict>>
\* pgbench is killed or exits with an error: the run fails before any gate.
PgbenchFails ==
  /\ pgPc \in {"starting", "running"} /\ pgPc' = "judged" /\ verdict' = "invalid"
  /\ UNCHANGED <<plan, clock, span, did, logs, output, faults>>

\* Another hand on the raw directory before it is read: a file is gone, or cut
\* short, or its last row is there twice, or an earlier log is beside it.
Without(c) == [f \in DOMAIN logs \ {c} |-> logs[f]]
DisturbLogs ==
  /\ pgPc = "collected" /\ faults < MaxFaults /\ faults' = faults + 1
  /\ \E c \in DOMAIN logs :
       \/ logs' = Without(c)
       \/ /\ logs[c] # <<>>
          /\ \E rows \in {<<>>, Tail(logs[c]), Append(logs[c], logs[c][Len(logs[c])])} :
               logs' = [logs EXCEPT ![c] = rows]
       \/ /\ c # Old
          /\ logs' = [f \in DOMAIN logs \cup {Old} |-> IF f # Old THEN logs[f] ELSE
               <<[client |-> c, no |-> 0, outcome |-> "completed", at |-> 0, latency |-> 0]>>]
  /\ UNCHANGED <<pgPc, plan, clock, span, did, output, verdict>>

-----------------------------------------------------------------------------
\* What pgbench counts and prints (external), and what the gates compute.
AllOf(f, outcomes) == {p \in (DOMAIN f) \X (1..TxPerClient + 1) :
                         p[2] \in DOMAIN f[p[1]] /\ f[p[1]][p[2]].outcome \in outcomes}
Count(f, outcomes) == Cardinality(AllOf(f, outcomes))
Good == {"completed", "retried"}
RoundDiv(a, b) == (2 * a + b) \div (2 * b)
LatencySum(f) ==
  LET sum[S \in SUBSET AllOf(f, Good)] ==
        IF S = {} THEN 0 ELSE LET p == CHOOSE q \in S : TRUE IN f[p[1]][p[2]].latency + sum[S \ {p}]
  IN  sum[AllOf(f, Good)]

Processed == Count(did, Good)
Elapsed == span.to - span.from
Tps == RoundDiv(Scale * Processed, Elapsed)
\* Without --rate the mean is derived from the elapsed time, not from the rows.
Latency == IF plan.rate THEN RoundDiv(Scale * LatencySum(did), Processed)
           ELSE RoundDiv(Scale * Elapsed * Cardinality(Clients), Processed + Count(did, {"failed"}))

\* Parse knows every line of the summary it found; validate misses none.
LinesKnown == \A k \in DOMAIN output : \E j \in DOMAIN Lines : output[k] = Lines[j]
FieldsPresent ==
  /\ \A j \in DOMAIN Lines : \E k \in DOMAIN output : output[k] = Lines[j]
  /\ Processed > 0 /\ Tps > 0
\* ValidatePgbenchResult: nothing failed, was retried or skipped; the budget is used.
ProtocolHolds ==
  /\ Count(did, {"failed", "skipped", "retried"}) = 0
  /\ plan.fixed => Processed = Cardinality(Clients) * TxPerClient
\* validateMeasureWindow: the phase is the driver's time, give or take the rounding
\* of the printed rate, and the boundary allowed for starting and stopping it.
WithinMeasureTightly ==
  (span.finished - span.started) * (2 * Tps - 1) <= 2 * Scale * Processed
WithinMeasure ==
  LET M == span.finished - span.started
      scaled == 2 * Scale * Processed
  IN  /\ M * (2 * Tps + 1) >= scaled
      /\ (M - Boundary) * (2 * Tps - 1) <= scaled
\* ValidateLatencyIntegrity: the printed mean and the printed rate describe one window.
LatencyAgrees ==
  LET scaled == 4 * Scale * Scale * Cardinality(Clients)
  IN  plan.rate \/ (/\ scaled <= (2 * Latency + 1) * (2 * Tps + 1)
                    /\ (2 * Latency - 1) * (2 * Tps - 1) <= scaled)

\* addRecord, for the rows of one client: a number is used once, skipped rows
\* repeat it, time does not go back, and an unsampled log has no gap.
FollowsLoosely(a, b) == b.at >= a.at /\ b.no >= a.no
Follows(a, b) ==
  /\ b.at >= a.at
  /\ \/ b.no = a.no /\ a.outcome = "skipped"
     \/ b.no > a.no /\ (plan.sampled \/ (a.outcome # "skipped" /\ b.no = a.no + 1))
OneFilePerClient ==
  \A f, g \in DOMAIN logs : f # g =>
    \A j \in DOMAIN logs[f], k \in DOMAIN logs[g] : logs[f][j].client # logs[g][k].client
\* There is a log, and none without a row.
LogsParse ==
  /\ logs # <<>> /\ OneFilePerClient
  /\ \A f \in DOMAIN logs :
       logs[f] # <<>> /\ \A k \in 1..Len(logs[f]) - 1 : Follows(logs[f][k], logs[f][k + 1])
\* ValidateTransactionLog: with a full sample, the counts of the summary and a
\* mean no larger than it allows; ValidateRawLatencyMean.
RawMeanAgrees ==
  LET N == Count(logs, Good)
      raw == LatencySum(logs)
  IN  IF plan.rate THEN 2 * Scale * raw <= (2 * Latency + 1) * N /\ (2 * Latency - 1) * N <= 2 * Scale * raw
      ELSE /\ raw * (2 * Tps - 1) <= 2 * Scale * Cardinality(Clients) * N
           /\ raw * 2 * Scale <= (2 * Latency + 1) * N
LogsMatch ==
  /\ Count(logs, {"failed", "skipped", "retried"}) = 0
  /\ ~plan.sampled => Count(logs, Good) = Processed /\ RawMeanAgrees
\* ValidateCompletionWindow
InsideMeasure ==
  \A f \in DOMAIN logs : \A k \in DOMAIN logs[f] :
    logs[f][k].at >= span.started /\ logs[f][k].at <= span.finished

Judge ==
  /\ pgPc = "collected" /\ pgPc' = "judged"
  /\ verdict' = IF /\ LinesKnown /\ FieldsPresent /\ ProtocolHolds /\ WithinMeasure /\ LatencyAgrees
                   /\ LogsParse /\ LogsMatch /\ InsideMeasure
                THEN "passed" ELSE "invalid"
  /\ UNCHANGED <<plan, clock, span, did, logs, output, faults>>

PgbenchNext ==
  \/ StartMeasure \/ StartTimer \/ PassTime \/ StopTimer \/ PrintSummary \/ PgbenchFails
  \/ DisturbLogs \/ Judge \/ \E c \in Clients : RunTransaction(c)
PgbenchSpec == PgbenchInit /\ [][PgbenchNext]_pgVars

-----------------------------------------------------------------------------
\* The logs a trial passed with are the run it measured: unsampled, they hold every
\* transaction of every client in its order, whatever rows, files or earlier logs
\* were lost or added; sampled, no row that the run did not write and none twice.
\* (pgbenchlog addRecord, ValidateTransactionLog, ValidateCompletionWindow)
PassedLogIsWhole ==
  verdict = "passed" =>
    \A c \in Clients :
      LET rows == {r \in (DOMAIN logs) \X (1..TxPerClient + 1) :
                     r[2] \in DOMAIN logs[r[1]] /\ logs[r[1]][r[2]].client = c}
      IN  /\ Cardinality(rows) <= Len(did[c])
          /\ \A r \in rows : \E k \in DOMAIN did[c] : did[c][k] = logs[r[1]][r[2]]
          /\ ~plan.sampled => Cardinality(rows) = Len(did[c])

\* No gate refuses an honest run: nothing was lost or added, every transaction
\* committed at its first try, every worker logged one, pgbench took no longer to
\* start and stop than the boundary allows, and its rate does not print as 0. The
\* rounding of the printed rate and mean never makes them disagree.
\* (pgbenchresult/integrity.go)
HonestRunPasses ==
  (/\ pgPc = "judged" /\ output # <<>> /\ faults = 0
   /\ Count(did, {"failed", "skipped", "retried"}) = 0
   /\ \A c \in Clients : logs[c] # <<>>
   /\ span.finished - span.started <= Elapsed + Boundary
   /\ Tps > 0)
  => verdict = "passed"
=============================================================================
