--------------------------- MODULE SeriesCapsule ---------------------------
(***************************************************************************)
(* The inputs of a benchmark series, from the plan that parses them        *)
(* (internal/benchmarkplan Build) through the capsule the series copies    *)
(* and the trials read (internal/benchmarkrun Start, ExecuteTrial and      *)
(* scripts/benchmark_capsule.sh) to the verifier of the published series   *)
(* (internal/benchmarkartifact Verify).  The live workspace is edited all  *)
(* the while, and so can the capsule be.                                   *)
(***************************************************************************)
EXTENDS Naturals, Sequences, FiniteSets

CONSTANTS CapsuleTrials,     \* trials of the series
          MaxLiveEdits,      \* bound on edits of the workspace
          MaxCapsuleEdits    \* bound on edits of the published capsule

\* spec: the benchmark spec, parsed and digested; workload: the workload spec,
\* parsed and digested; config: the inputs only digested (postgresql.conf, the
\* topology, the experiment spec, the SQL script).
Inputs == {"spec", "workload", "config"}
\* "a" and "b" declare different typed values, "a2" those of "a" under another
\* BENCHMARK_NAME and other comments, "bad" values no plan accepts.
Contents == {"a", "a2", "b", "bad"}
Typed(content) == IF content = "a2" THEN "a" ELSE content
\* What is edited while the series runs: the inputs, the rest of the scenario
\* pack (its scripts and Compose files), the running binary.
Files == Inputs \cup {"scripts", "engine"}
PackFiles == Files \ {"engine"}
\* What the series keeps: the inputs, the engine's bytes, the pack's inventory.
Retained == Inputs \cup {"engine", "inventory"}
PackOf(files) == [f \in PackFiles |-> files[f]]

VARIABLES capPc, at,         \* place; inputs already handled there
          live,              \* the workspace
          configured,        \* whether the caller named a scenario pack
          planned,           \* the plan: what Build parsed, what it digested
          inventory, engineId,   \* the retained pack inventory and engine digest
          capsule,           \* protocol/ of the series: the capsule, the engine, the inventory
          final,             \* the plan rebuilt from the published capsule
          used,              \* the inputs each trial read
          capStatus,         \* status of the series
          verified,          \* what the verifier said
          edited,            \* the files of the workspace that were ever edited
          liveEdits, capsuleEdits,
          capRestored        \* an edit of the capsule put back what the plan names

capVars == <<capPc, at, live, configured, planned, inventory, engineId, capsule, final,
             used, capStatus, verified, edited, liveEdits, capsuleEdits, capRestored>>

Blank == [i \in Inputs |-> "none"]
NoPlan == [parsed |-> Blank, digest |-> Blank]
\* The caller's pack identity is that of the workspace it started from.
CapsuleInit ==
  /\ capPc = "build" /\ at = 1
  /\ live = [f \in Files |-> "a"] /\ configured \in BOOLEAN
  /\ planned = NoPlan /\ inventory = PackOf(live) /\ engineId = "none"
  /\ capsule = [k \in Retained |-> "none"] /\ final = NoPlan /\ used = <<>>
  /\ capStatus = "none" /\ verified = "unknown"
  /\ edited = {} /\ liveEdits = 0 /\ capsuleEdits = 0 /\ capRestored = FALSE

Then(place) == capPc' = place /\ at' = 1
OneMore(last, place) == IF at < last THEN capPc' = capPc /\ at' = at + 1 ELSE Then(place)

Refused == Then("refused")
\* Build reads the files one after another, each spec twice.
Reads == <<<<"parsed", "spec">>, <<"parsed", "workload">>, <<"digest", "spec">>,
           <<"digest", "workload">>, <<"digest", "config">>>>
\* validateDeclarations: only specs with acceptable values make a plan.
Declares(plan) == \A i \in {"spec", "workload"} : plan.parsed[i] # "bad"
BuildRead ==
  /\ capPc = "build"
  /\ planned' = [planned EXCEPT ![Reads[at][1]][Reads[at][2]] = live[Reads[at][2]]]
  /\ IF Declares(planned') THEN OneMore(Len(Reads), "sources") ELSE Refused
  /\ UNCHANGED <<live, configured, inventory, engineId, capsule, final, used, capStatus, verified,
                 edited, liveEdits, capsuleEdits, capRestored>>

\* IdentityDigests: the typed values and the digests of every input but the
\* benchmark spec itself, whose name and wording are no part of the protocol.
Identity(plan) == [spec |-> Typed(plan.parsed["spec"]), mode |-> Typed(plan.parsed["workload"]),
                   workload |-> plan.digest["workload"], config |-> plan.digest["config"]]

Order == <<"spec", "workload", "config">>
\* validateProtocolSources: every live input must still have the plan's digest.
CheckSource ==
  /\ capPc = "sources"
  /\ IF live[Order[at]] = planned.digest[Order[at]] THEN OneMore(3, "inspect") ELSE Refused
  /\ UNCHANGED <<live, configured, planned, inventory, engineId, capsule, final, used, capStatus,
                 verified, edited, liveEdits, capsuleEdits, capRestored>>

\* inspectConfiguredScenarioPack and inspectEngineBinary.
PackHolds == configured => PackOf(live) = inventory
EngineHolds == live["engine"] = engineId
Inspect ==
  /\ capPc = "inspect" /\ IF PackHolds THEN Then("engine") ELSE Refused
  /\ engineId' = live["engine"]
  /\ UNCHANGED <<live, configured, planned, inventory, capsule, final, used, capStatus, verified,
                 edited, liveEdits, capsuleEdits, capRestored>>
SnapshotEngine ==
  /\ capPc = "engine" /\ IF EngineHolds THEN Then("copy") ELSE Refused
  /\ capsule' = [capsule EXCEPT !["engine"] = live["engine"]]
  /\ UNCHANGED <<live, configured, planned, inventory, engineId, final, used, capStatus, verified,
                 edited, liveEdits, capsuleEdits, capRestored>>

\* snapshotProtocolInputs: one read, digested and then written to the capsule.
CopyInput ==
  LET i == Order[at] IN
  /\ capPc = "copy"
  /\ IF live[i] = planned.digest[i] THEN OneMore(3, "rebuild") ELSE Refused
  /\ capsule' = [capsule EXCEPT ![i] = live[i]]
  /\ UNCHANGED <<live, configured, planned, inventory, engineId, final, used, capStatus, verified,
                 edited, liveEdits, capsuleEdits, capRestored>>

\* The staged capsule must give the plan's protocol; plan.json is the caller's
\* plan, and one rename publishes it with the capsule.
Rebuilt == LET read == [i \in Inputs |-> capsule[i]] IN [parsed |-> read, digest |-> read]
SameProtocol(plan) == Declares(plan) /\ Identity(plan) = Identity(planned)
PublishCapsule ==
  /\ capPc = "rebuild" /\ IF SameProtocol(Rebuilt) THEN Then("reload") ELSE Refused
  /\ capsule' = [capsule EXCEPT !["inventory"] = IF configured THEN "a" ELSE "none"]
  /\ UNCHANGED <<live, configured, planned, inventory, engineId, final, used, capStatus, verified,
                 edited, liveEdits, capsuleEdits, capRestored>>
\* The trials run the plan read back from the published capsule; a capsule that
\* makes no plan is renamed away again, if that rename works.
Reload ==
  /\ capPc = "reload" /\ final' = Rebuilt
  /\ IF Declares(Rebuilt) THEN Then("before") /\ capStatus' = "passed"
     ELSE Refused /\ capStatus' \in {"none", "stranded"}
  /\ UNCHANGED <<live, configured, planned, inventory, engineId, capsule, used, verified,
                 edited, liveEdits, capsuleEdits, capRestored>>

\* ExecuteTrial: engine and pack before the trial and after it; a change voids
\* every trial of the series and ends it.
BoundaryHolds == EngineHolds /\ PackHolds
Boundary(from, to) ==
  /\ capPc = from
  /\ IF BoundaryHolds THEN Then(to) /\ capStatus' = capStatus
     ELSE Then("finish") /\ capStatus' = "invalid"
  /\ UNCHANGED <<live, configured, planned, inventory, engineId, capsule, final, used, verified,
                 edited, liveEdits, capsuleEdits, capRestored>>
BeforeTrial == Boundary("before", "resolve")
AfterTrial == Boundary("after", IF Len(used) < CapsuleTrials THEN "before" ELSE "finish")

\* benchmark_capsule_resolve: the shell digests the capsule file against the
\* capability the runner passed, and refuses the trial if it differs.
CapsuleFile(i) == capsule[i]
WorkspaceFile(i) == live[i]
TrialReads(i) == CapsuleFile(i)
Resolves == \A i \in Inputs : TrialReads(i) = final.digest[i]
ResolveInputs ==
  /\ capPc = "resolve"
  /\ IF Resolves THEN Then("read") /\ capStatus' = capStatus
     ELSE Then("finish") /\ capStatus' = "failed"
  /\ UNCHANGED <<live, configured, planned, inventory, engineId, capsule, final, used, verified,
                 edited, liveEdits, capsuleEdits, capRestored>>
\* Only then is the resolved path read.
ReadInputs ==
  /\ capPc = "read" /\ Then("after") /\ used' = Append(used, [i \in Inputs |-> TrialReads(i)])
  /\ UNCHANGED <<live, configured, planned, inventory, engineId, capsule, final, capStatus, verified,
                 edited, liveEdits, capsuleEdits, capRestored>>

FinishSeries ==
  /\ capPc = "finish" /\ Then("verify")
  /\ capStatus' = IF BoundaryHolds THEN capStatus ELSE "invalid"
  /\ UNCHANGED <<live, configured, planned, inventory, engineId, capsule, final, used, verified,
                 edited, liveEdits, capsuleEdits, capRestored>>

\* checkProtocolInputs and checkProtocolCapsule: every retained input has the
\* digest plan.json names.
CapsuleHolds == \A i \in Inputs : capsule[i] = planned.digest[i]
\* VerifySpecDeclarations and VerifyWorkloadDeclarations: the retained specs
\* declare what plan.json says, the name included; the copy beside the capsule
\* was digested as it was written.
DeclarationsHold == /\ planned.parsed["spec"] = planned.digest["spec"]
                    /\ Typed(planned.parsed["workload"]) = Typed(planned.digest["workload"])
\* checkSeriesIdentity, checkScenarioPackInventory and checkSeriesEnvironment:
\* the engine and the pack the environment names are those retained.
RuntimeHolds == /\ capsule["engine"] = engineId
                /\ capsule["inventory"] = IF configured THEN "a" ELSE "none"
\* ValidateLinkedRunProtocol and checkTrialEnvironment: each linked run is
\* bound to the plan it ran, which must be that of plan.json.
RunsBind == Len(used) > 0 => /\ final.digest["spec"] = planned.digest["spec"]
                             /\ final.digest["config"] = planned.digest["config"]
                             /\ Typed(final.parsed["workload"]) = Typed(planned.parsed["workload"])
VerifySeries ==
  /\ capPc = "verify" /\ Then("end")
  /\ verified' = IF CapsuleHolds /\ DeclarationsHold /\ RuntimeHolds /\ RunsBind THEN "yes" ELSE "no"
  /\ UNCHANGED <<live, configured, planned, inventory, engineId, capsule, final, used, capStatus,
                 edited, liveEdits, capsuleEdits, capRestored>>

Settled == capPc \in {"refused", "end"}
\* Anyone may edit the workspace at any moment, and change it back.
EditLive ==
  /\ ~Settled /\ liveEdits < MaxLiveEdits /\ liveEdits' = liveEdits + 1
  /\ \E f \in Files, c \in Contents : live[f] # c /\ live' = [live EXCEPT ![f] = c]
                                /\ edited' = edited \cup {f}
  /\ UNCHANGED <<capPc, at, configured, planned, inventory, engineId, capsule, final, used,
                 capStatus, verified, capsuleEdits, capRestored>>
EditCapsule ==
  /\ capPc \in {"reload", "before", "resolve", "read", "after", "finish", "verify"}
  /\ capsuleEdits < MaxCapsuleEdits /\ capsuleEdits' = capsuleEdits + 1
  /\ \E k \in Retained, c \in Contents :
       /\ capsule[k] # c /\ capsule' = [capsule EXCEPT ![k] = c]
       /\ capRestored' = (capRestored \/ (k \in Inputs /\ c = planned.digest[k]))
  /\ UNCHANGED <<capPc, at, live, configured, planned, inventory, engineId, final, used, capStatus,
                 verified, edited, liveEdits>>

CapsuleStep == \/ BuildRead \/ CheckSource \/ Inspect \/ SnapshotEngine \/ CopyInput
               \/ PublishCapsule \/ Reload \/ BeforeTrial \/ ResolveInputs \/ ReadInputs
               \/ AfterTrial \/ FinishSeries \/ VerifySeries
CapsuleNext == CapsuleStep \/ EditLive \/ EditCapsule
CapsuleSpec == CapsuleInit /\ [][CapsuleNext]_capVars /\ WF_capVars(CapsuleStep)

(* Properties *)

\* A series that passed and verifies ran, in every trial, the very inputs its
\* plan.json names, and keeps its engine, whatever was edited in the workspace and
\* changed back, and whatever was changed in the capsule, unless a file of it was
\* changed back: the digest is taken before the trial reads the path (Start,
\* ExecuteTrial, benchmark_capsule_resolve, Verify).
VerifiedSeriesRanItsPlan ==
  capStatus = "passed" /\ verified = "yes" /\ ~capRestored =>
    /\ Len(used) = CapsuleTrials /\ capsule["engine"] = engineId
    /\ \A k \in DOMAIN used : used[k] = planned.digest

\* Once the plan was read in one piece and its inputs copied, edits of the
\* inputs touch neither the outcome nor the verification of a series that
\* names no scenario pack (snapshotProtocolInputs, ExecuteTrial).
WorkspaceEditsNeverReachIt ==
  /\ capPc = "end" /\ ~configured /\ edited \subseteq Inputs /\ capsuleEdits = 0
  /\ planned.parsed["spec"] = planned.digest["spec"]
  => capStatus = "passed" /\ verified = "yes"
=============================================================================
