------------------------- MODULE BenchmarkCampaign --------------------------
(***************************************************************************)
(* internal/benchmarkcampaign predeclares an ordered list of series, runs  *)
(* them one after the other, keeps a receipt of each beside the result and *)
(* verifies the whole from the live series.  The ids of the series follow  *)
(* from that of the campaign, so somebody else's `benchmark run' can use   *)
(* one of them while the campaign runs.                                    *)
(***************************************************************************)
EXTENDS Naturals, Sequences, FiniteSets

CONSTANT CampaignLength     \* number of planned series

Items == 1..CampaignLength
NoCampaign == [receipts |-> <<>>, result |-> "none", summary |-> FALSE, by |-> "nobody"]
NoSeriesDir == [by |-> "nobody", status |-> "absent", start |-> 0, finish |-> 0]

VARIABLES campPc, campErr,    \* runErr of the current series
          campErrors,         \* runErrors is not empty
          campDir,            \* runs/benchmark-campaign/<id>
          campSeries,         \* runs/benchmarks/<id>-sNNN
          campRows,           \* result.Executions in memory
          campClock           \* order of the starts and ends of series

campVars == <<campPc, campErr, campErrors, campDir, campSeries, campRows, campClock>>

CampaignInit == /\ campPc = "absent" /\ campErr = FALSE /\ campErrors = FALSE
                /\ campDir \in {NoCampaign, [NoCampaign EXCEPT !.by = "earlier"]}
                /\ campSeries = [k \in Items |-> NoSeriesDir]
                /\ campRows = <<>> /\ campClock = 0

Item == Len(campRows) + 1
SeriesExists(k) == campSeries[k] # NoSeriesDir

\* requireAbsent: the campaign and every predeclared series.
RequireAbsent ==
  /\ campPc = "absent"
  /\ campPc' = IF campDir = NoCampaign /\ \A k \in Items : ~SeriesExists(k) THEN "init" ELSE "refused"
  /\ UNCHANGED <<campErr, campErrors, campDir, campSeries, campRows, campClock>>

\* initializeCampaignDir: protocol.json and executions/ appear with one rename.
InitializeCampaign ==
  /\ campPc = "init"
  /\ campDir' = [NoCampaign EXCEPT !.by = "us"] /\ campPc' = "series"
  /\ UNCHANGED <<campErr, campErrors, campSeries, campRows, campClock>>

\* RunSeries: benchmarkrun.Start refuses a directory that exists, or fails for
\* reasons of its own before there is one.
SeriesRetried == UNCHANGED <<campPc, campErr, campSeries, campClock>>
SeriesRefused == campPc' = "capture" /\ campErr' = TRUE /\ UNCHANGED <<campSeries, campClock>>
StartSeries ==
  /\ campPc = "series"
  /\ \/ /\ ~SeriesExists(Item)
        /\ campClock' = campClock + 1
        /\ campSeries' = [campSeries EXCEPT ![Item] =
              [by |-> "us", status |-> "running", start |-> campClock + 1, finish |-> 0]]
        /\ campPc' = "running" /\ UNCHANGED campErr
     \/ SeriesRefused
  /\ UNCHANGED <<campErrors, campDir, campRows>>

\* broken: a series whose own verification fails.
SeriesEndings == {"passed", "inconclusive", "invalid", "failed", "broken"}
EndOf(k, status) == /\ campClock' = campClock + 1
                    /\ campSeries' = [campSeries EXCEPT ![k].status = status, ![k].finish = campClock + 1]

EndSeries ==
  /\ campPc = "running"
  /\ \E status \in SeriesEndings : EndOf(Item, status) /\ campErr' = (status # "passed")
  /\ campPc' = "capture" /\ UNCHANGED <<campErrors, campDir, campRows>>

\* Somebody runs a series of the same id, once.
RivalStarts(k) ==
  /\ campPc \notin {"absent", "refused"} /\ ~SeriesExists(k) /\ \A j \in Items : campSeries[j].by # "rival"
  /\ campClock' = campClock + 1
  /\ campSeries' = [campSeries EXCEPT ![k] =
        [by |-> "rival", status |-> "running", start |-> campClock + 1, finish |-> 0]]
  /\ UNCHANGED <<campPc, campErr, campErrors, campDir, campRows>>
RivalEnds(k) ==
  /\ campSeries[k].by = "rival" /\ campSeries[k].status = "running"
  /\ \E status \in SeriesEndings : EndOf(k, status)
  /\ UNCHANGED <<campPc, campErr, campErrors, campDir, campRows>>

SeriesDirVerifies(series) == series.status \in {"passed", "inconclusive", "invalid", "failed"}
Unavailable == [status |-> "unavailable", evidence |-> "unverified", start |-> 0, finish |-> 0]
RowOf(series) == [status |-> series.status, evidence |-> "verified", start |-> series.start, finish |-> series.finish]

\* captureExecution: what lies at the series' place is verified, whatever the
\* runner returned; only a passing series beside an error is not believed.
CaptureWhatLies(series, err) == IF SeriesDirVerifies(series) THEN RowOf(series) ELSE Unavailable
CaptureExecution(series, err) ==
  IF SeriesDirVerifies(series) /\ ~(err /\ series.status = "passed") THEN RowOf(series) ELSE Unavailable

\* Whatever became of it, the next series is run.
StopsAtError(err) == IF err \/ Item = CampaignLength THEN "result" ELSE "series"
NextAfter(err) == IF Item = CampaignLength THEN "result" ELSE "series"

\* The receipt, exclusively; when it cannot be written the campaign ends there.
RecordExecution ==
  /\ campPc = "capture"
  /\ campErrors' = (campErrors \/ campErr) /\ campErr' = FALSE
  /\ LET row == CaptureExecution(campSeries[Item], campErr) IN
     \/ /\ campDir' = [campDir EXCEPT !.receipts = Append(@, row)]
        /\ campRows' = Append(campRows, row)
        /\ campPc' = NextAfter(campErr)
     \/ campPc' = "error" /\ UNCHANGED <<campDir, campRows>>
  /\ UNCHANGED <<campSeries, campClock>>

\* deriveTerminal: a failed or unavailable row outweighs an invalid one, that an
\* inconclusive one.
DeriveTerminal(rows) ==
  LET has(s) == \E n \in 1..Len(rows) : rows[n].status \in s
  IN  IF has({"unavailable", "failed"}) THEN "failed"
      ELSE IF has({"invalid"}) THEN "invalid"
      ELSE IF has({"inconclusive"}) THEN "inconclusive" ELSE "passed"

\* writeResultArtifacts: result.json, then summary.md, and either may fail.
WriteCampaignResult ==
  /\ campPc = "result"
  /\ \E written \in {"both", "result", "none"} :
       /\ campDir' = [campDir EXCEPT !.result = IF written = "none" THEN @ ELSE DeriveTerminal(campRows),
                                     !.summary = (written = "both")]
       /\ campPc' = IF written = "both" THEN "verify" ELSE "error"
  /\ UNCHANGED <<campErr, campErrors, campSeries, campRows, campClock>>

\* checkSequentialExecutionChronology over the verified rows.
Sequential(rows) ==
  \A i, j \in 1..Len(rows) : i < j /\ rows[i].evidence = "verified" /\ rows[j].evidence = "verified"
     => rows[i].finish <= rows[j].start

\* checkVerifiedExecution and checkUnverifiedExecution against the live series.
RowHolds(row, series) ==
  IF row.evidence = "verified" THEN SeriesDirVerifies(series) /\ row = RowOf(series)
                               ELSE row = Unavailable /\ ~SeriesDirVerifies(series)

CampaignVerifies(dir) ==
  /\ dir.result # "none" /\ dir.summary
  /\ Len(dir.receipts) = CampaignLength
  /\ dir.result = DeriveTerminal(dir.receipts)
  /\ \A k \in Items : RowHolds(dir.receipts[k], campSeries[k])
  /\ Sequential(dir.receipts)

\* Run succeeds only with a valid, passed campaign and no error on the way.
VerifyCampaign ==
  /\ campPc = "verify"
  /\ campPc' = IF CampaignVerifies(campDir) /\ campDir.result = "passed" /\ ~campErrors
               THEN "done" ELSE "failed"
  /\ UNCHANGED <<campErr, campErrors, campDir, campSeries, campRows, campClock>>

CampaignEnded == {"refused", "error", "done", "failed", "crashed"}
CampaignCrash ==
  /\ campPc \notin CampaignEnded /\ campPc' = "crashed"
  /\ campSeries' = [k \in Items |-> IF campSeries[k].by = "us" /\ campSeries[k].status = "running"
                                    THEN [campSeries[k] EXCEPT !.status = "broken"] ELSE campSeries[k]]
  /\ UNCHANGED <<campErr, campErrors, campDir, campRows, campClock>>

CampaignStep == \/ RequireAbsent \/ InitializeCampaign \/ StartSeries \/ EndSeries
                \/ RecordExecution \/ WriteCampaignResult \/ VerifyCampaign
CampaignNext == \/ CampaignStep \/ CampaignCrash
                \/ \E k \in Items : RivalStarts(k) \/ RivalEnds(k)
CampaignSpec == CampaignInit /\ [][CampaignNext]_campVars /\ WF_campVars(CampaignStep)
-----------------------------------------------------------------------------
\* A passed campaign that verifies consists of series that the campaign itself ran
\* to a pass, one after the other, although somebody else used an id of theirs
\* (captureExecution, checkSequentialExecutionChronology).
PassedCampaignIsEarned ==
  campDir.result = "passed" => \A k \in Items : /\ campSeries[k].by = "us" /\ campSeries[k].status = "passed"
                                                /\ k > 1 => campSeries[k-1].finish <= campSeries[k].start

\* Left alone, a campaign whose files were written verifies, whichever of its
\* series failed, was invalid or never appeared; the rows that failed are kept
\* (benchmarkcampaign.Run).
CampaignKeepsEveryRow ==
  /\ campDir.summary /\ \A k \in Items : campSeries[k].by # "rival"
  => CampaignVerifies(campDir) /\ Len(campDir.receipts) = CampaignLength

\* A campaign that was started ends, whatever its series do (benchmarkcampaign.Run).
CampaignEnds == campPc = "series" ~> campPc \in CampaignEnded
=============================================================================
