----------------------------- MODULE RunVerify -----------------------------
(***************************************************************************)
(* The files of one experiment run, from the manifest to the two verdicts  *)
(* (internal/runstate), and the verifier that has to tell from them alone  *)
(* whether they are one whole run (internal/runverify).  Between the       *)
(* writes the shell or the runner may die, the runner may replace the      *)
(* verdict by its own, and files may be edited, lost or taken from another *)
(* run.  A digest is modelled by the content it is the digest of.          *)
(***************************************************************************)
EXTENDS Naturals, FiniteSets

CONSTANTS MaxSwaps,   \* bound on files lost or taken from another run
          Samples     \* EXPERIMENT_METRICS_SAMPLES when the spec fixes it

Absent == [file |-> "absent"]
Empty == "empty"    \* a field without a value
RunFiles == {"manifest", "env", "json", "metrics", "snapshot", "source"}

VARIABLES runPc,       \* "begin", "observe", "run", "verdict", "json", "stopped", "died", "replaceJson", "replaced", "closed"
          runFiles,    \* content of each file
          outcome,     \* status of the verdict being written
          swaps, rvEdited

rvVars == <<runPc, runFiles, outcome, swaps, rvEdited>>

\* ExperimentIdentity: every field that says what ran and where, and not the
\* run id or the times; the manifest records its digest.
Identity(man) == [spec |-> man.spec, source |-> man.source, metricsOn |-> man.metricsOn, fixed |-> man.fixed,
                  ports |-> man.ports, fingerprint |-> man.fingerprint, server |-> man.server]
Sealed(man) == [man EXCEPT !.identity = Identity(man)]
\* ManifestFromEnv: v2 exactly when the environment gives a digest of the ports.
ManifestSchema(ports) == IF ports = Empty THEN "v1" ELSE "v2"
Manifest(run, ports, metricsOn, fixed, kind, fingerprint) ==
  Sealed([file |-> "manifest", run |-> run, schema |-> ManifestSchema(ports), ports |-> ports,
          spec |-> "spec", source |-> kind, metricsOn |-> metricsOn, fixed |-> fixed,
          fingerprint |-> fingerprint, server |-> IF fingerprint = "observed" THEN "17" ELSE Empty,
          identity |-> Absent])

\* VerdictFromEnv, completed by bindVerdictToManifest; by stands for the
\* message and the time of writing, exit for the three exit codes.
Verdict(file, man, status, by) ==
  [file |-> file, run |-> man.run, schema |-> "v1", spec |-> man.spec, status |-> status,
   by |-> by, identity |-> man.identity, bound |-> man,
   exit |-> IF status = "passed" THEN 0 ELSE 1]
OutcomeHolds(v) == v.status \in {"passed", "failed"} /\ (v.status = "passed" <=> v.exit = 0)

\* The other run of the same spec, whole and valid.
OtherManifest == Manifest("other", Empty, TRUE, TRUE, Empty, "observed")
Other == [manifest |-> OtherManifest, env |-> Verdict("env", OtherManifest, "passed", "other"),
          json |-> Verdict("json", OtherManifest, "passed", "other"),
          metrics |-> [file |-> "metrics", rows |-> Samples],
          snapshot |-> [file |-> "snapshot", spec |-> "spec"], source |-> Absent]

RunInit ==
  /\ runPc = "begin" /\ outcome = "none" /\ swaps = 0 /\ rvEdited = FALSE
  /\ runFiles = [f \in RunFiles |-> IF f = "snapshot" THEN [file |-> "snapshot", spec |-> "spec"] ELSE Absent]

Put(f, content) == runFiles' = [runFiles EXCEPT ![f] = content]
Rest == UNCHANGED <<outcome, swaps, rvEdited>>

\* Each of these is CreateTemp and Rename: the old file or the new one, whole.
WriteManifest ==
  /\ runPc = "begin" /\ runPc' = "observe"
  /\ \E ports \in {Empty, "ports"}, metricsOn, fixed \in BOOLEAN, kind \in {Empty, "benchmark"} :
       runFiles' = [runFiles EXCEPT
         !["manifest"] = Manifest("this", ports, metricsOn, metricsOn /\ fixed, kind, "unavailable"),
         !["source"] = IF kind = Empty THEN Absent ELSE [file |-> "source", kind |-> kind]]
  /\ Rest
\* The server answers, and the manifest is written again with its fingerprint.
ObserveRuntime ==
  /\ runPc = "observe" /\ runPc' = "run"
  /\ LET man == runFiles["manifest"] IN
     Put("manifest", Sealed([man EXCEPT !.fingerprint = "observed", !.server = "17"]))
  /\ Rest
FailToObserve == runPc = "observe" /\ runPc' = "verdict" /\ outcome' = "failed" /\ UNCHANGED <<runFiles, swaps, rvEdited>>
\* The sampler writes its rows; a run that passed its phases with too few of
\* them is failed by the exit of the sampler.
RunAndSample ==
  /\ runPc = "run" /\ runPc' = "verdict"
  /\ LET man == runFiles["manifest"] IN
     \E rows \in 0..Samples, started, good \in BOOLEAN :
       /\ started => man.metricsOn
       /\ runFiles' = [runFiles EXCEPT !["metrics"] = IF started THEN [file |-> "metrics", rows |-> rows] ELSE @]
       /\ outcome' = IF good /\ (man.metricsOn => started /\ rows > 0 /\ (man.fixed => rows = Samples))
                     THEN "passed" ELSE "failed"
  /\ UNCHANGED <<swaps, rvEdited>>

\* bindVerdictToManifest reads the manifest on disk and refuses a passed verdict
\* over a runtime nobody observed, which these writers never ask for.
CanBind(status) ==
  /\ runFiles["manifest"] # Absent
  /\ status = "passed" => runFiles["manifest"].fingerprint = "observed"
WriteVerdictEnv ==
  /\ runPc = "verdict" /\ CanBind(outcome) /\ runPc' = "json"
  /\ Put("env", Verdict("env", runFiles["manifest"], outcome, "shell")) /\ Rest
\* The verdict was bound before either file was written.
WriteVerdictJson ==
  /\ runPc = "json" /\ runPc' = "stopped"
  /\ Put("json", [runFiles["env"] EXCEPT !.file = "json"])
  /\ Rest

\* writeRunnerFailureVerdict: the same two writes by the Go runner, over a run
\* whose shell failed, was killed or left no verdict.
ReplaceVerdictEnv ==
  /\ runPc \in {"stopped", "died"} /\ CanBind("failed") /\ runPc' = "replaceJson"
  /\ Put("env", Verdict("env", runFiles["manifest"], "failed", "runner")) /\ Rest
ReplaceVerdictJson ==
  /\ runPc = "replaceJson" /\ runPc' = "replaced"
  /\ Put("json", [runFiles["env"] EXCEPT !.file = "json"])
  /\ Rest
WriterDies ==
  /\ runPc \in {"begin", "observe", "run", "verdict", "json", "replaceJson"}
  /\ runPc' = (IF runPc = "replaceJson" THEN "replaced" ELSE "died") /\ UNCHANGED runFiles /\ Rest

RunnerReturns == runPc \in {"stopped", "died", "replaced"} /\ runPc' = "closed" /\ UNCHANGED runFiles /\ Rest

\* Later somebody loses a file, takes one of the other run, or edits one file.
LoseFile(f) == runFiles[f] # Absent /\ Put(f, Absent)
TakeFile(f) == runFiles[f] # Other[f] /\ Put(f, Other[f])
SwapFile(f) ==
  /\ runPc = "closed" /\ swaps < MaxSwaps /\ swaps' = swaps + 1
  /\ LoseFile(f) \/ TakeFile(f)
  /\ UNCHANGED <<runPc, outcome, rvEdited>>
Flip(status) == IF status = "passed" THEN "failed" ELSE "passed"
Edits(c) ==
  CASE c.file = "manifest" -> {[c EXCEPT !.spec = "changed"], [c EXCEPT !.fixed = FALSE],
                               Sealed([c EXCEPT !.spec = "changed"]), [c EXCEPT !.fingerprint = "observed"]}
    [] c.file \in {"env", "json"} -> {[c EXCEPT !.status = Flip(@), !.exit = 1 - @], [c EXCEPT !.exit = 1 - @],
                                      [c EXCEPT !.schema = Empty, !.bound = Absent, !.identity = Absent]}
    [] c.file = "metrics" -> {[c EXCEPT !.rows = @ - 1] : r \in {1} \cap {c.rows}}
    [] c.file = "snapshot" -> {[c EXCEPT !.spec = "changed"]}
    [] OTHER -> {}
EditFile(f) ==
  /\ runPc = "closed" /\ ~rvEdited /\ rvEdited' = TRUE
  /\ \E c \in Edits(runFiles[f]) : Put(f, c)
  /\ UNCHANGED <<runPc, outcome, swaps>>

RunWriterStep == WriteManifest \/ ObserveRuntime \/ FailToObserve \/ RunAndSample \/ WriteVerdictEnv
                 \/ WriteVerdictJson
RunNext == RunWriterStep \/ ReplaceVerdictEnv \/ ReplaceVerdictJson \/ WriterDies \/ RunnerReturns
           \/ \E f \in RunFiles : SwapFile(f) \/ EditFile(f)
RunSpec == RunInit /\ [][RunNext]_rvVars
-----------------------------------------------------------------------------
(* VerifyWithOptions, over the files as they are now. *)

IdentityHolds(man) == man.identity = Identity(man)
FingerprintHolds(man) == (man.fingerprint = "unavailable" /\ man.server = Empty)
                         \/ (man.fingerprint = "observed" /\ man.server # Empty)
SourceHolds(man) == man.source \in {Empty, "benchmark"}
ManifestHolds(man) ==
  /\ man # Absent /\ man.schema = ManifestSchema(man.ports)
  /\ IdentityHolds(man) /\ FingerprintHolds(man) /\ SourceHolds(man)
VerdictHolds(v) ==
  /\ v # Absent /\ OutcomeHolds(v)
  /\ v.schema # Empty => v.bound # Absent /\ v.identity # Absent
Versioned(v) == v.schema # Empty
NoCohesion(man, env, json) == TRUE
SchemaCohesion(man, env, json) == \A v \in {man, env, json} : Versioned(v)
\* Every field the three files share; an empty value is not compared.
VerdictsAgree(man, env, json) ==
  /\ \A v \in {env, json} : v.run = man.run /\ v.spec = man.spec
  /\ env.status = json.status /\ env.by = json.by /\ env.exit = json.exit
  /\ env.schema = json.schema \/ Empty \in {env.schema, json.schema}
  /\ \A d \in {env.identity, json.identity} : d = Absent \/ d = man.identity
  /\ Absent \in {env.bound, json.bound} \/ env.bound = json.bound
Bound(v, man) == v.bound = Absent \/ v.bound = man
\* checkMetrics: a run that failed or switched them off may have no file, but a
\* file that is there is checked.
MetricsAlways(man, json) == man.metricsOn
MetricsRequired(man, json) == man.metricsOn /\ json.status # "failed"
MetricsRowsHold(man, rows) == rows > 0 /\ (man.fixed => rows = Samples)
MetricsFileHolds(man, json, metrics) ==
  IF metrics = Absent THEN ~MetricsRequired(man, json) ELSE MetricsRowsHold(man, metrics.rows)

Verifies(files) ==
  LET man == files["manifest"]  env == files["env"]  json == files["json"] IN
  /\ ManifestHolds(man) /\ VerdictHolds(env) /\ VerdictHolds(json)
  /\ MetricsFileHolds(man, json, files["metrics"])
  /\ VerdictsAgree(man, env, json) /\ SchemaCohesion(man, env, json)
  /\ Bound(env, man) /\ Bound(json, man)
  /\ json.status = "passed" => man.fingerprint = "observed"
\* What a relocated bundle has to hold besides: the spec it ran, by digest.
SnapshotsHold(files) ==
  LET man == files["manifest"] IN
  /\ files["snapshot"] # Absent /\ files["snapshot"].spec = man.spec
  /\ man.source = "benchmark" => files["source"] # Absent /\ files["source"].kind = man.source
RunBundleVerifies(files) == Verifies(files) /\ SnapshotsHold(files)

\* LoadRunInfo and Load, which the catalogue and the reports print.
Listed(files) == IF files["env"] = Absent THEN "missing" ELSE files["env"].status
-----------------------------------------------------------------------------
(* Properties *)

\* Files that verify are one writing: the manifest is as it was written, both
\* verdicts were written together over exactly that manifest, and the status
\* the catalogue prints is theirs.  A passed one has its runtime observed and
\* its samples complete.
VerifiedRunIsOneWriting ==
  Verifies(runFiles) =>
    LET man == runFiles["manifest"]  env == runFiles["env"]  json == runFiles["json"] IN
    /\ env.by = json.by /\ env.bound = man /\ json.bound = man /\ man.spec = "spec"
    /\ Listed(runFiles) = json.status
    /\ json.status = "passed" =>
         /\ man.fingerprint = "observed" /\ env.by # "runner"
         /\ man.metricsOn => runFiles["metrics"] # Absent

\* What the writers leave, nobody disturbing them, verifies: a passed run
\* always, a failed one unless its sampler was cut short.
WrittenRunVerifies ==
  (runPc = "closed" /\ ~rvEdited /\ swaps = 0
     /\ runFiles["env"] # Absent /\ runFiles["json"] # Absent /\ runFiles["env"].by = runFiles["json"].by) =>
    LET metrics == runFiles["metrics"] IN
    \/ RunBundleVerifies(runFiles)
    \/ /\ runFiles["json"].status = "failed" /\ metrics # Absent
       /\ ~MetricsRowsHold(runFiles["manifest"], metrics.rows)
=============================================================================
