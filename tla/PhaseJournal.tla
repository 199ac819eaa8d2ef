---------------------------- MODULE PhaseJournal ----------------------------
(***************************************************************************)
(* The phase journal of one benchmark trial: eleven rows in order, written *)
(* by the shell (scripts/benchmark_phase.sh) and judged by the Go reader   *)
(* (internal/benchmarkphase).  A row is its sequence number, which fixes   *)
(* its name, and its status; run id, trial and timestamps are left out: no *)
(* two writers of a journal run at the same time.                          *)
(***************************************************************************)
EXTENDS Integers, Sequences

Preflight == 1
Prepare == 2
Stabilize == 3
PreWarmup == 4
Warmup == 5
PreMeasure == 6
Measure == 7
Cooldown == 8
Validate == 9
Collect == 10
Cleanup == 11

Phases == 1..11
Row(n, s) == [sequence |-> n, status |-> s]
Rows == [sequence : Phases, status : {"passed", "failed", "skipped"}]

\* benchmark_phase_first_failure_name finds a row.
HasFailure(j) == \E i \in DOMAIN j : j[i].status = "failed"

LastSequence(j) == IF j = <<>> THEN 0 ELSE j[Len(j)].sequence

\* Rows a..b, the first of them with status s and the later ones skipped.
Closing(a, b, s) ==
  [i \in 1..(b - a + 1) |-> Row(a + i - 1, IF i = 1 THEN s ELSE "skipped")]

\* A completion that blames its first phase whatever failed before.
CompletedBlamingNext(j) ==
  j \o Closing(LastSequence(j) + 1, Collect, "failed")

\* benchmark_phase_complete_before_cleanup: what is missing up to phase 10
\* after the last row, never in between.
Completed(j) ==
  j \o Closing(LastSequence(j) + 1, Collect,
               IF HasFailure(j) THEN "skipped" ELSE "failed")

\* BENCHMARK_PHASE_BACKFILLED_FAILURE=1, or the journal cannot be completed.
CompletionFails(j) ==
  LastSequence(j) = Cleanup \/ (LastSequence(j) < Collect /\ ~HasFailure(j))

Required == {Preflight, Prepare, Measure, Validate, Collect, Cleanup}

\* benchmarkphase.build: the journals that ParseTSV accepts.
Accepted(j) ==
  /\ Len(j) = 11
  /\ \A i \in 1..11 :
       LET failedBefore == HasFailure(SubSeq(j, 1, i - 1))
       IN /\ j[i].sequence = i
          /\ i = Cleanup => j[i].status # "skipped"
          /\ i # Cleanup /\ failedBefore => j[i].status = "skipped"
          /\ i \in Required /\ ~failedBefore => j[i].status # "skipped"

\* Timeline.Status.
TimelinePassed(j) == Accepted(j) /\ ~HasFailure(j)
=============================================================================
