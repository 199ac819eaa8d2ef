-------------------------- MODULE BenchmarkHistory --------------------------
(***************************************************************************)
(* internal/benchmarkhistory orders the verified series of one population  *)
(* in time, publishes the result under runs/benchmark-history/<id> and     *)
(* rebuilds it from the live series whenever it is verified.  Two writers  *)
(* publish the same id here, and a series may be rewritten or removed      *)
(* between any two of their looks at it.                                   *)
(***************************************************************************)
EXTENDS Naturals, Sequences, FiniteSets, SequencesExt

CONSTANTS Writers, SeriesNames

NoHistory == [by |-> "nobody"]

\* What a verified series offers: [started, finished, median, flaw].  A flaw is
\* one of the reasons derive has to keep it out of a population.
Flaws == {"none", "status", "population", "sharedTrial"}
SeriesContents ==
  [started : {1}, finished : {2}, median : 0..1, flaw : {"none"}] \cup
  [started : {2}, finished : 3..4, median : {1}, flaw : {"none"}] \cup
  [started : {1}, finished : {2}, median : {1}, flaw : Flaws \ {"none"}]
Gone == [started |-> 0]

VARIABLES histLive,     \* runs/benchmarks/<id>/result.json of each series
          histInputs,   \* the arguments of each writer, in its order
          histPc, histSeen, histResult,
          histDir       \* the published directory

histVars == <<histLive, histInputs, histPc, histSeen, histResult, histDir>>

\* Two writers: the second names the same series the other way round; or one
\* series is named twice.
Orders == LET all == SetToSeq(SeriesNames) IN {all, <<Head(all), Head(all)>>}
GeneratedAt == 3     \* generated_at; the clock the writers read first

HistoryInit ==
  /\ histLive \in [SeriesNames -> SeriesContents]
  /\ \E order \in Orders :
       histInputs = [w \in Writers |-> IF w = CHOOSE v \in Writers : TRUE THEN order ELSE Reverse(order)]
  /\ histPc = [w \in Writers |-> "read"] /\ histDir = NoHistory
  /\ histSeen = [w \in Writers |-> <<>>] /\ histResult = [w \in Writers |-> NoHistory]

GotoHist(w, label) == histPc' = [histPc EXCEPT ![w] = label]

\* Create: every input is verified in place and its content kept.
ReadSeries(w) ==
  /\ histPc[w] = "read"
  /\ IF \A n \in 1..Len(histInputs[w]) : histLive[histInputs[w][n]] # Gone
     THEN /\ histSeen' = [histSeen EXCEPT ![w] =
                [n \in 1..Len(histInputs[w]) |-> [id |-> histInputs[w][n], content |-> histLive[histInputs[w][n]]]]]
          /\ GotoHist(w, "derive")
     ELSE GotoHist(w, "refused") /\ UNCHANGED histSeen
  /\ UNCHANGED <<histLive, histInputs, histResult, histDir>>

\* derive, first loop: no duplicate series, one population, no shared trial, an
\* accepted status; then chronology.
Shares(left, right) == left.content.flaw = "sharedTrial" /\ right.content.flaw = "sharedTrial"
Population(s) == s.content.flaw = "population"
Admissible(seen) ==
  /\ \A n \in 1..Len(seen) : seen[n].content.flaw # "status"
  /\ \A n, k \in 1..Len(seen) : n # k => /\ seen[n].id # seen[k].id
                                        /\ Population(seen[n]) = Population(seen[k])
                                        /\ ~Shares(seen[n], seen[k])
  /\ \A n \in 1..Len(seen) : seen[n].content.finished <= GeneratedAt

\* sort.Slice by start, and by run id when two start together.
NameRank == CHOOSE f \in [SeriesNames -> 1..Cardinality(SeriesNames)] : IsInjective(f)
BeforeByStart(left, right) == left.content.started < right.content.started
Before(left, right) == \/ left.content.started < right.content.started
                       \/ left.content.started = right.content.started /\ NameRank[left.id] < NameRank[right.id]

\* normalizedChange of positive values with direction "higher", by its sign; the
\* median 0 has no change.
Change(base, value) ==
  CASE base = 0 -> "none" [] base > 0 /\ value > base -> "up"
    [] base > 0 /\ value < base -> "down" [] base > 0 /\ value = base -> "level"

\* The positions in that order: the n-th is of the series with n-1 ahead of it.
\* Those that Before leaves undecided stay as they were named.
Ahead(seen, k, n) == Before(seen[k], seen[n]) \/ (k < n /\ ~Before(seen[n], seen[k]))
Chronology(seen) ==
  [n \in 1..Len(seen) |->
     CHOOSE m \in 1..Len(seen) : Cardinality({k \in 1..Len(seen) : Ahead(seen, k, m)}) = n - 1]

\* The entries; digests[n] is what DigestFile finds at result.json by then.
Derive(seen, digests) ==
  LET order == Chronology(seen)
      median(n) == seen[order[n]].content.median
  IN  [n \in 1..Len(seen) |->
        [id |-> seen[order[n]].id, content |-> seen[order[n]].content, digest |-> digests[order[n]],
         previous |-> IF n = 1 THEN "none" ELSE Change(median(n-1), median(n)),
         first    |-> IF n = 1 THEN "none" ELSE Change(median(1), median(n))]]

Digests(seen) == [n \in 1..Len(seen) |-> histLive[seen[n].id]]

DeriveHistory(w) ==
  /\ histPc[w] = "derive"
  /\ IF Admissible(histSeen[w]) /\ \A n \in 1..Len(histSeen[w]) : histLive[histSeen[w][n].id] # Gone
     THEN /\ histResult' = [histResult EXCEPT ![w] =
                [by |-> w, entries |-> Derive(histSeen[w], Digests(histSeen[w]))]]
          /\ GotoHist(w, "inspect")
     ELSE GotoHist(w, "refused") /\ UNCHANGED histResult
  /\ UNCHANGED <<histLive, histInputs, histSeen, histDir>>

\* Lstat of the final directory, the stage and its two files.
InspectHistory(w) ==
  /\ histPc[w] = "inspect"
  /\ GotoHist(w, IF histDir = NoHistory THEN "rename" ELSE "refused")
  /\ UNCHANGED <<histLive, histInputs, histSeen, histResult, histDir>>

ReplaceHistory(w) ==
  /\ histPc[w] = "rename" /\ histDir' = histResult[w] /\ GotoHist(w, "verify")
  /\ UNCHANGED <<histLive, histInputs, histSeen, histResult>>

\* os.Rename, which refuses a directory that is there by now.
PublishHistory(w) ==
  /\ histPc[w] = "rename"
  /\ IF histDir = NoHistory THEN histDir' = histResult[w] /\ GotoHist(w, "verify")
                            ELSE GotoHist(w, "refused") /\ UNCHANGED histDir
  /\ UNCHANGED <<histLive, histInputs, histSeen, histResult>>

Ids(history) == [n \in 1..Len(history.entries) |-> history.entries[n].id]

\* Verify: each series is verified where it lies, its digest compared, and the
\* whole result derived again from what the series say now.
BoundToSeries(history) ==
  \A n \in 1..Len(history.entries) : LET e == history.entries[n] IN
     histLive[e.id] # Gone /\ e.digest = histLive[e.id]
RederivedFromRecord(history) ==
  LET seen == [n \in 1..Len(history.entries) |-> [id |-> Ids(history)[n], content |-> history.entries[n].content]]
  IN  Admissible(seen) /\ history.entries = Derive(seen, Digests(seen))
Rederived(history) ==
  LET seen == [n \in 1..Len(history.entries) |-> [id |-> Ids(history)[n], content |-> histLive[Ids(history)[n]]]]
  IN  Admissible(seen) /\ history.entries = Derive(seen, Digests(seen))
HistoryVerifies(history) == Len(history.entries) >= 2 /\ BoundToSeries(history) /\ Rederived(history)

VerifyHistory(w) ==
  /\ histPc[w] = "verify"
  /\ GotoHist(w, IF HistoryVerifies(histDir) THEN "done" ELSE "invalid")
  /\ UNCHANGED <<histLive, histInputs, histSeen, histResult, histDir>>

\* A series is rewritten into another valid one, or removed, once.
RewriteSeries ==
  /\ \A s \in SeriesNames : histLive[s] # Gone /\ histLive[s].median # 2
  /\ \E s \in SeriesNames, new \in {Gone, [started |-> 1, finished |-> 3, median |-> 2, flaw |-> "none"]} :
       histLive' = [histLive EXCEPT ![s] = new]
  /\ UNCHANGED <<histInputs, histPc, histSeen, histResult, histDir>>

HistoryStep(w) == \/ ReadSeries(w) \/ DeriveHistory(w) \/ InspectHistory(w) \/ PublishHistory(w) \/ VerifyHistory(w)
HistoryNext == (\E w \in Writers : HistoryStep(w)) \/ RewriteSeries
HistorySpec == HistoryInit /\ [][HistoryNext]_histVars /\ \A w \in Writers : WF_histVars(HistoryStep(w))
-----------------------------------------------------------------------------
\* What derive makes of a set of series does not depend on the order in which the
\* arguments name them, and its verification, which names them in the order of the
\* entries, agrees with it (benchmarkhistory.derive).
HistoryOrderFree ==
  \A w, v \in Writers :
    /\ histResult[w] # NoHistory /\ histResult[v] # NoHistory
    /\ {histResult[w].entries[n].content : n \in 1..Len(histResult[w].entries)} = 
       {histResult[v].entries[n].content : n \in 1..Len(histResult[v].entries)}
    /\ \A s \in SeriesNames : histLive[s] # Gone /\ histLive[s].median # 2
    => histResult[w].entries = histResult[v].entries /\ HistoryVerifies(histResult[w])

\* Whatever was rewritten, and whenever: a history that verifies tells of each of
\* its series what the series says now, in the order of their starts, and of one
\* population without a common trial (benchmarkhistory.Verify).
VerifiedHistoryIsTrue ==
  histDir # NoHistory /\ HistoryVerifies(histDir) =>
    LET e == histDir.entries IN
    /\ \A n \in 1..Len(e) : e[n].content = histLive[e[n].id]
    /\ \A n, k \in 1..Len(e) : n < k =>
         /\ e[n].content.started <= e[k].content.started
         /\ Population(e[n]) = Population(e[k]) /\ ~Shares(e[n], e[k]) /\ e[n].id # e[k].id

=============================================================================
