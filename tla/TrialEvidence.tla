--------------------------- MODULE TrialEvidence ---------------------------
(***************************************************************************)
(* One trial of a benchmark series, from the logs it opens to the record   *)
(* it returns (internal/benchmarkrun runTrial), and the verifier that      *)
(* reads the same files again (internal/benchmarkartifact checkTrial).     *)
(* runTrial reads about a dozen files of the linked run one after another, *)
(* some of them twice, while they lie in a directory others can write to.  *)
(***************************************************************************)
EXTENDS Naturals, Sequences, FiniteSets

CONSTANT MaxTouches   \* bound on the files others write to

\* What a file can hold: one of two contents the protocol accepts, one it does
\* not (a failed verdict, a failed timeline, counts that do not agree), or nothing.
Accepts == {"first", "second"}
Contents == Accepts \cup {"unmet", "absent"}

\* The gates of runTrial in their order, and the file each one reads.
Gate(name, file) == [name |-> name, file |-> file]
Gates == <<Gate("timeline", "phases"), Gate("phaseRef", "phases"), Gate("mirror", "mirror"),
           Gate("verdict", "verdict"), Gate("identity", "manifest"), Gate("binding", "manifest"),
           Gate("controlSource", "controlRaw"), Gate("controls", "controlJson"), Gate("settings", "settings"),
           Gate("summaryRef", "summary"), Gate("summary", "summary"),
           Gate("fingerprint", "manifest"), Gate("target", "stdout"),
           Gate("rawRefs", "rawLogs"), Gate("transactions", "rawLogs"),
           Gate("resetSource", "controlRaw"), Gate("reset", "controlJson"), Gate("metrics", "metrics")>>
GateNames == {Gates[k].name : k \in DOMAIN Gates}
TrialFiles == {Gates[k].file : k \in DOMAIN Gates}
FileOf(name) == Gates[CHOOSE k \in DOMAIN Gates : Gates[k].name = name].file
\* Contract v2, a counterbalanced A/B run and logged transactions each add gates.
Optional == {"controlSource", "controls", "resetSource", "reset", "settings", "rawRefs", "transactions"}

VARIABLES trialPc, gate,    \* place; position within Gates
          wanted,           \* the gates this protocol has
          onDisk,           \* content of each file
          runResult,        \* what RunExperiment returned: "passed", or "failed" for an error or a verdict
          kept,             \* what each gate read: the fields of the trial
          trialStatus, touches

teVars == <<trialPc, gate, wanted, onDisk, runResult, kept, trialStatus, touches>>

NothingKept == [n \in GateNames |-> "absent"]
EvidenceInit ==
  /\ trialPc = "open" /\ gate = 1 /\ wanted \in {GateNames, GateNames \ Optional}
  /\ onDisk = [f \in TrialFiles |-> "absent"] /\ runResult = "none"
  /\ kept = NothingKept /\ trialStatus = "invalid" /\ touches = 0

\* The driver log and the series mirror of the phase journal are created O_EXCL.
OpenLogs ==
  /\ trialPc = "open" /\ \E next \in {"run", "end"} : trialPc' = next
  /\ UNCHANGED <<gate, wanted, onDisk, runResult, kept, trialStatus, touches>>

\* RunExperiment up to the controls: a run whose files are all in order, or in
\* which one is not; the mirror repeats the journal row by row.
RunContents ==
  LET Files == TrialFiles \ {"verdict", "controlJson", "mirror"}
      Whole == [f \in Files |-> "first"]
  IN  {[Whole EXCEPT ![f] = c] : f \in Files, c \in {"first", "unmet", "absent"}}
RunWrites ==
  /\ trialPc = "run" /\ trialPc' = "materialize"
  /\ \E written \in RunContents : \E mirror \in Contents :
       /\ mirror \in {written["phases"], "second"} \/ written["phases"] = "absent"
       /\ onDisk' = [f \in TrialFiles |-> IF f = "mirror" THEN mirror
                                          ELSE IF f \in DOMAIN written THEN written[f] ELSE "absent"]
  /\ UNCHANGED <<gate, wanted, runResult, kept, trialStatus, touches>>

\* MaterializeControlsV2FromEnvironment, before the verdict: it needs the
\* complete journal, the bound manifest and every raw source, and derives the
\* typed files from them; unsatisfied controls are written and then refused.
Materialized == IF \A f \in {"phases", "manifest", "controlRaw"} : onDisk[f] # "absent"
                THEN onDisk["controlRaw"] ELSE "absent"
\* The verdict the shell then writes, and a runner error beside it (a changed
\* toolchain, a timeout).
FinishRun ==
  /\ trialPc = "materialize" /\ trialPc' = "timeline"
  /\ LET json == IF "controls" \in wanted THEN Materialized ELSE "absent" IN
     \E verdict \in {"first", "unmet", "absent"}, runErr \in BOOLEAN :
       /\ verdict = "first" => onDisk["phases"] = "first" /\ onDisk["manifest"] # "absent"
       /\ verdict = "first" /\ "controls" \in wanted => json = "first"
       /\ onDisk' = [onDisk EXCEPT !["controlJson"] = json, !["verdict"] = verdict]
       /\ runResult' = IF verdict = "first" /\ ~runErr THEN "passed" ELSE "failed"
  /\ UNCHANGED <<gate, wanted, kept, trialStatus, touches>>

Keep(names, content) == kept' = [n \in GateNames |-> IF n \in names THEN content ELSE kept[n]]

\* parsePhaseEvidence, first half: without a linked journal the mirror is kept as
\* evidence of the failure, never as that of a passed trial.
TakeTimeline ==
  /\ trialPc = "timeline"
  /\ IF onDisk["phases"] # "absent"
     THEN Keep({"timeline"}, onDisk["phases"]) /\ gate' = 2 /\ trialPc' = "gates" /\ UNCHANGED trialStatus
     ELSE /\ Keep({"timeline", "mirror"}, onDisk["mirror"])
          /\ trialStatus' = IF runResult = "passed" THEN "invalid" ELSE "failed"
          /\ trialPc' = "end" /\ UNCHANGED gate
  /\ UNCHANGED <<wanted, onDisk, runResult, touches>>

\* What a gate asks of the content it reads, given what was read before it.
SameAsJournal(c) == c = kept["timeline"]
\* The execution parameters of this trial of this plan, by digest.
BindsProtocol(c) == c \in Accepts
\* The typed controls are what their raw source gives.
ControlsDerive(c) == c \in Accepts /\ c = kept["controlSource"]
\* Counts, modes and limits of the summary are the ones declared.
MeasuresProtocol(c) == c \in Accepts
\* One endpoint line, of the measured target.
NamesTarget(c) == c \in Accepts
\* The counts of the log are those of the summary.
CountsAgree(c) == c \in Accepts /\ c = kept["summary"]
Asks(name, c) ==
  CASE name \in {"phaseRef", "summaryRef", "rawRefs"} -> c # "absent"
    [] name = "mirror" -> SameAsJournal(c) /\ kept["timeline"] \in Accepts /\ runResult = "passed"
    [] name = "identity" -> c = "first"      \* the verdict binds the digest of this manifest
    [] name = "binding" -> BindsProtocol(c)
    [] name = "controls" -> ControlsDerive(c)
    [] name = "summary" -> MeasuresProtocol(c)
    [] name = "target" -> NamesTarget(c)
    [] name = "transactions" -> CountsAgree(c)
    [] name = "reset" -> c = kept["controls"]
    [] OTHER -> c \in Accepts

\* A gate that refuses ends the trial: failed when the experiment was, invalid otherwise.
PassGate ==
  /\ trialPc = "gates" /\ Gates[gate].name \in wanted
  /\ LET name == Gates[gate].name  c == onDisk[Gates[gate].file] IN
     /\ Keep({name}, c)
     /\ IF ~Asks(name, c)
        THEN /\ trialStatus' = (IF gate <= 3 /\ runResult = "failed" THEN "failed" ELSE "invalid")
             /\ trialPc' = "end" /\ UNCHANGED gate
        ELSE IF gate < Len(Gates) THEN gate' = gate + 1 /\ UNCHANGED <<trialPc, trialStatus>>
        ELSE trialPc' = "end" /\ trialStatus' = "passed" /\ UNCHANGED gate
  /\ UNCHANGED <<wanted, onDisk, runResult, touches>>
SkipGate ==
  /\ trialPc = "gates" /\ Gates[gate].name \notin wanted /\ gate' = gate + 1
  /\ UNCHANGED <<trialPc, wanted, onDisk, runResult, kept, trialStatus, touches>>

\* Somebody writes to a file of the run, or of driver-logs/.
TouchFile(f) ==
  /\ trialPc \in {"timeline", "gates", "end"} /\ touches < MaxTouches /\ touches' = touches + 1
  /\ \E c \in Contents \ {onDisk[f]} : onDisk' = [onDisk EXCEPT ![f] = c]
  /\ UNCHANGED <<trialPc, gate, wanted, runResult, kept, trialStatus>>

TrialStep == OpenLogs \/ RunWrites \/ FinishRun \/ TakeTimeline \/ PassGate \/ SkipGate
EvidenceNext == TrialStep \/ \E f \in TrialFiles : TouchFile(f)
EvidenceSpec == EvidenceInit /\ [][EvidenceNext]_teVars /\ WF_teVars(TrialStep)
-----------------------------------------------------------------------------
(* checkTrial, over the files as they are now. *)

Kept(name) == kept[name] # "absent"
RefNamed(ref) == TRUE
RefHolds(ref) == Kept(ref) => onDisk[FileOf(ref)] = kept[ref]

\* runverify.Verify and checkLinkedVerdict.
LinkedVerdictHolds ==
  /\ onDisk["manifest"] = "first" /\ onDisk["verdict"] # "absent"
  /\ trialStatus = "passed" => onDisk["verdict"] \in Accepts
  /\ onDisk["verdict"] = "unmet" => trialStatus = "failed"
\* checkPhaseTimeline.
TimelineHolds ==
  /\ onDisk["mirror"] # "absent" /\ Kept("timeline") /\ onDisk["mirror"] = kept["timeline"]
  /\ IF Kept("phaseRef") THEN RefHolds("phaseRef") /\ onDisk["phases"] = onDisk["mirror"]
                         ELSE trialStatus # "passed"
  /\ trialStatus = "passed" => onDisk["mirror"] \in Accepts
  /\ trialStatus = "failed" => onDisk["mirror"] = "unmet"
\* checkArtifactRef, checkNormalizedSummary, checkTransactionLogs.
SummaryHolds ==
  /\ trialStatus = "passed" => Kept("summaryRef")
  /\ Kept("summaryRef") => RefHolds("summaryRef") /\ onDisk["summary"] \in Accepts /\ kept["summary"] = onDisk["summary"]
TransactionsHold ==
  /\ trialStatus = "passed" /\ "transactions" \in wanted => Kept("rawRefs")
  /\ Kept("rawRefs") => RefHolds("rawRefs") /\ CountsAgree(onDisk["rawLogs"]) /\ kept["transactions"] = onDisk["rawLogs"]
\* checkBenchmarkControls and checkEffectiveSettings derive from the raw files.
ControlsHold ==
  /\ trialStatus = "passed" /\ "controls" \in wanted => Kept("controls")
  /\ Kept("controls") => RefHolds("controls") /\ onDisk["controlRaw"] = onDisk["controlJson"]
  /\ trialStatus = "passed" => RefHolds("settings")
\* checkTrialEnvironment and checkPostgresMetrics.
EnvironmentHolds ==
  trialStatus = "passed" => kept["fingerprint"] = onDisk["manifest"] /\ kept["target"] = onDisk["stdout"]
MetricsHold == trialStatus = "passed" => kept["metrics"] = onDisk["metrics"]
TrialVerifies == /\ LinkedVerdictHolds /\ TimelineHolds /\ SummaryHolds
                 /\ TransactionsHold /\ ControlsHold /\ EnvironmentHolds /\ MetricsHold
-----------------------------------------------------------------------------
\* Gates that look without recording: a change undone before the verifier comes
\* is not seen there, nor is a rewording of the verdict.
Looks == {"verdict", "identity", "binding", "controlSource", "resetSource"}

\* A passed trial that verifies rests on files that the protocol accepts now, and
\* what it records of them was read from these contents: never a digest from one
\* and a value from another (runTrial, checkTrial).
VerifiedTrialIsWhole ==
  trialPc = "end" /\ trialStatus = "passed" /\ TrialVerifies =>
    \A name \in wanted : /\ onDisk[FileOf(name)] \in Accepts
                          /\ name \notin Looks => kept[name] = onDisk[FileOf(name)]

\* What runTrial calls passed the verifier accepts, as long as nobody writes to
\* the files; and only after an experiment that passed by itself.
PassedTrialVerifies ==
  trialPc = "end" /\ trialStatus = "passed" => runResult = "passed" /\ (touches = 0 => TrialVerifies)
=============================================================================
