--------------------------- MODULE ImportEvidence ---------------------------
(***************************************************************************)
(* internal/benchmarkimport turns the report another driver left behind    *)
(* into a descriptive artifact: it reads the bytes once, derives the       *)
(* normal form by the adapter the operator names, keeps bytes and result   *)
(* in a directory and verifies it by deriving again.  Reports are those of *)
(* complete, truncated and repeated runs; meanwhile the file is rewritten  *)
(* and the destination is taken.                                           *)
(***************************************************************************)
EXTENDS Naturals, Sequences, FiniteSets, SequencesExt

Line(k, n) == [key |-> k, n |-> n, rate |-> 0]
\* The console of sysbench, in its order: n events in one unit of time, and the
\* rate the line of the transactions reports.
Console(n, rate, errors) ==
  <<Line("version", 0)>> \o errors
  \o <<[Line("transactions", n) EXCEPT !.rate = rate], Line("ignored", Len(errors)),
       Line("general", 0), Line("time", 1), Line("events", n),
       Line("latency", 0), Line("avg", 0), Line("p95", 0), Line("fairness", 0)>>
FullConsoles == {Console(n, r, e) : n, r \in {1, 2}, e \in {<<>>, <<Line("error", 0)>>}}
\* A run cut short, and a run appended to what a shorter one had left.
ConsoleTexts == (UNION {Prefixes(c) : c \in FullConsoles})
                \cup {p \o Console(1, 1, <<>>) : p \in Prefixes(Console(2, 2, <<>>))}

\* The summary of BenchBase: counts, elapsed time and wall-clock window in
\* milliseconds, and the reported rate in requests per unit.
Summaries == [state : {"DONE", "EXIT"}, requests : {1, 2}, elapsed : {1, 2, 3}, window : {1, 2},
              throughput : {1, 2}, goodput : {0, 1, 2}, percentiles : {<<0, 1>>, <<1, 0>>}]

\* The job report of HammerDB: configuration keys, users asked for and active, the
\* two metrics of the kind of run, its chart, and the sections present.
TprocC == {"warehouses", "virtual_users", "rampup", "duration"}
TprocH == {"scale_factor"}
Reports == [kind : {"C", "H"}, config : {TprocC, TprocH, TprocC \cup TprocH}, users : {1}, active : {1, 2},
            metrics : {<<1, 2>>}, chart : {<<<<1, 1>>, <<2, 2>>>>, <<<<1, 1>>, <<1, 1>>>>, <<<<1, 1>>, <<2, 1>>>>},
            sections : {{"transactions", "responses"}, {"queries"}, {"transactions", "responses", "queries"}}]

\* A structured document and what the mapping selects from it.
Selections == [version : {"6.1", "5.0"}, value : {"number", "text"}, total : {0, 1, 2}, messages : {<<>>, <<"m">>, <<"m", "m">>},
               elapsed : {0, 1}]

Texts == [format : {"console"}, body : ConsoleTexts] \cup [format : {"summary"}, body : Summaries]
         \cup [format : {"report"}, body : Reports] \cup [format : {"structured"}, body : Selections]

ImportAdapters == {"sysbench1", "benchbase33c0047", "hammerdb6report", "hammerdb6", "benchbase"}
Mapped(adapter) == adapter \in {"hammerdb6", "benchbase"}
\* --manifest: none, one for the driver of each mapped adapter.
Mappings == {"none", "hammerdb6", "benchbase"}
FormatOf(adapter) == CASE adapter = "sysbench1" -> "console" [] adapter = "benchbase33c0047" -> "summary"
                       [] adapter = "hammerdb6report" -> "report" [] OTHER -> "structured"
-----------------------------------------------------------------------------
\* parseSysbench: every line at most once except errors, latency lines only in
\* their section, and a reported rate that agrees with the totals.
LinesOf(text, k) == {i \in DOMAIN text : text[i].key = k}
InLatency(text, k) == {i \in LinesOf(text, k) : \E at \in LinesOf(text, "latency") : at < i}
Told(text, k) == text[CHOOSE i \in LinesOf(text, k) : \A j \in LinesOf(text, k) : i <= j]
Reported(text, k) == Told(text, k).n
Once == {"version", "time", "events", "general", "latency"}
NoDuplicates(text) ==
  /\ \A k \in Once : Cardinality(LinesOf(text, k)) = 1
  /\ \A k \in {"transactions", "ignored"} : Cardinality(LinesOf(text, k)) <= 1
  /\ \A k \in {"avg", "p95"} : Cardinality(InLatency(text, k)) = 1
LastCounts(text) == \A k \in Once \cup {"avg", "p95"} : LinesOf(text, k) # {}
ParseSysbench(text) == NoDuplicates(text)
RateAgrees(text) ==
  LinesOf(text, "transactions") # {} =>
    LET told == Told(text, "transactions") IN told.n = Reported(text, "events") /\ told.rate = told.n
SysbenchErrors(text) ==
  LET told == Cardinality(LinesOf(text, "error"))
      ignored == IF LinesOf(text, "ignored") = {} THEN 0 ELSE Reported(text, "ignored")
  IN  IF ignored > told THEN ignored ELSE told

\* parseBenchBase33c0047.
ParseBenchBase(s) == /\ s.state = "DONE" /\ s.elapsed <= s.window + 1
                     /\ s.throughput * s.elapsed = s.requests /\ s.goodput <= s.throughput
                     /\ s.percentiles[1] <= s.percentiles[2]

\* validateHammerChart and parseHammerDB6Report.
ChartHolds(r) == Len(r.chart) = 2 /\ \A m \in {1, 2} : \E row \in ToSet(r.chart) : row = <<m, r.metrics[m]>>
ParseHammerDB(r) == /\ ChartHolds(r)
                    /\ IF r.kind = "C" THEN /\ r.config = TprocC /\ r.active = r.users
                                            /\ r.sections = {"transactions", "responses"}
                       ELSE r.config = TprocH /\ r.sections = {"queries"}

\* extractMappedValues and validateNormalized: messages are made unique.
ParseMapped(adapter, s) == /\ adapter = "hammerdb6" => s.version = "6.1"
                           /\ s.value = "number" /\ s.elapsed > 0 /\ s.total >= Cardinality(ToSet(s.messages))

Accepted(adapter, text, mapping) ==
  /\ text.format = FormatOf(adapter)
  /\ mapping = (IF Mapped(adapter) THEN adapter ELSE "none")
  /\ CASE adapter = "sysbench1" -> ParseSysbench(text.body) /\ RateAgrees(text.body)
       [] adapter = "benchbase33c0047" -> ParseBenchBase(text.body)
       [] adapter = "hammerdb6report" -> ParseHammerDB(text.body)
       [] OTHER -> ParseMapped(adapter, text.body)

\* derive, and the identity newArtifact gives: driver, source format and parser.
AdapterIdentity(adapter) ==
  CASE adapter = "sysbench1" -> <<"sysbench", "console", "sysbench">>
    [] adapter = "benchbase33c0047" -> <<"benchbase", "summary", "pinned">>
    [] adapter = "hammerdb6report" -> <<"hammerdb", "report", "pinned">>
    [] adapter = "hammerdb6" -> <<"hammerdb", "structured", "mapping">>
    [] adapter = "benchbase" -> <<"benchbase", "structured", "mapping">>
Metric(adapter, body) ==
  CASE adapter = "sysbench1" -> 
      IF LinesOf(body, "transactions") = {} THEN Reported(body, "events") ELSE Told(body, "transactions").rate
    [] adapter = "benchbase33c0047" -> body.throughput
    [] adapter = "hammerdb6report" -> body.metrics[1]
    [] OTHER -> 1
Normalized(adapter, text) ==
  [identity |-> AdapterIdentity(adapter), metric |-> Metric(adapter, text.body),
   errors |-> CASE adapter = "sysbench1" -> SysbenchErrors(text.body)
                [] Mapped(adapter) -> text.body.total
                [] OTHER -> 0,
   complete |-> adapter = "sysbench1"]

\* adapterForArtifact, the inverse of AdapterIdentity.
AdapterFor(result) == CHOOSE a \in ImportAdapters : AdapterIdentity(a) = result.identity
-----------------------------------------------------------------------------
VARIABLES impPc, impAdapter, impMapping,
          impFile,     \* the operator's source file now
          impRead,     \* the bytes that were read
          impDir,      \* the destination: by whom, raw/, result.json
          impStage

impVars == <<impPc, impAdapter, impMapping, impFile, impRead, impDir, impStage>>
NoImport == [by |-> "nobody"]
ImportEnded == {"refused", "imported"}

ImportInit == /\ impPc = "read" /\ impAdapter \in ImportAdapters /\ impMapping \in Mappings
              /\ impFile \in {t \in Texts : t.format = FormatOf(impAdapter)} /\ impRead = impFile
              /\ impDir = NoImport /\ impStage = NoImport

\* readRegularLimited, once, then derive from memory.
ReadSource ==
  /\ impPc = "read" /\ impRead' = impFile
  /\ impPc' = IF Accepted(impAdapter, impFile, impMapping) THEN "absent" ELSE "refused"
  /\ UNCHANGED <<impAdapter, impMapping, impFile, impDir, impStage>>

\* Lstat of the destination.
RequireNewImport ==
  /\ impPc = "absent" /\ impPc' = IF impDir = NoImport THEN "stage" ELSE "refused"
  /\ UNCHANGED <<impAdapter, impMapping, impFile, impRead, impDir, impStage>>

\* raw/source, raw/mapping.json and result.json below the private stage.
Retain(text) == [by |-> "us", raw |-> text, mapping |-> impMapping, result |-> Normalized(impAdapter, impRead)]
RetainFile == impStage' = Retain(impFile)
RetainBytes == impStage' = Retain(impRead)
StageImport ==
  /\ impPc = "stage" /\ RetainBytes /\ impPc' = "verify"
  /\ UNCHANGED <<impAdapter, impMapping, impFile, impRead, impDir>>

\* Verify derives from the retained bytes by the adapter the result names.
ImportVerifies(dir) ==
  LET a == AdapterFor(dir.result) IN
  Accepted(a, dir.raw, dir.mapping) /\ dir.result = Normalized(a, dir.raw)
VerifyImport ==
  /\ impPc = "verify" /\ impPc' = IF ImportVerifies(impStage) THEN "rename" ELSE "refused"
  /\ UNCHANGED <<impAdapter, impMapping, impFile, impRead, impDir, impStage>>

\* os.Rename: refused by a directory that exists.
PublishImport ==
  /\ impPc = "rename"
  /\ IF impDir = NoImport THEN impDir' = impStage /\ impPc' = "imported" ELSE impPc' = "refused" /\ UNCHANGED impDir
  /\ UNCHANGED <<impAdapter, impMapping, impFile, impRead, impStage>>

\* The driver runs again and rewrites or extends its report.
RewriteSource ==
  /\ impFile = impRead
  /\ impFile' \in {t \in Texts : t.format = impFile.format /\ Accepted(impAdapter, t, impMapping)}
  /\ UNCHANGED <<impPc, impAdapter, impMapping, impRead, impDir, impStage>>
TakeImportDir ==
  /\ impDir = NoImport /\ impPc \notin ImportEnded /\ impDir' = [by |-> "rival"]
  /\ UNCHANGED <<impPc, impAdapter, impMapping, impFile, impRead, impStage>>

ImportStep == ReadSource \/ RequireNewImport \/ StageImport \/ VerifyImport \/ PublishImport
ImportNext == ImportStep \/ RewriteSource \/ TakeImportDir
ImportSpec == ImportInit /\ [][ImportNext]_impVars /\ WF_impVars(ImportStep)
-----------------------------------------------------------------------------
\* What was imported is the report of one complete run: a truncated or repeated
\* console never, and the metric is the quotient of the totals beside it
\* (parseSysbench, parseBenchBase33c0047).
ImportIsOneWholeRun ==
  impPc = "imported" =>
    LET text == impDir.raw IN
    /\ text.format = "console" =>
         /\ \E c \in FullConsoles : Normalized("sysbench1", [text EXCEPT !.body = c]) = impDir.result
                                    /\ text.body \in Prefixes(c)
         /\ impDir.result.metric = Reported(text.body, "events")
    /\ text.format = "summary" => impDir.result.metric * text.body.elapsed = text.body.requests

\* The artifact keeps the bytes its result was derived from although the report
\* was rewritten meanwhile, and what the adapter left out verifies again under
\* the adapter the result names (Create, Verify).
ImportKeepsItsSource ==
  impPc = "imported" => /\ impDir.raw = impRead
                        /\ AdapterFor(impDir.result) = impAdapter
                        /\ ImportVerifies(impDir)
=============================================================================
