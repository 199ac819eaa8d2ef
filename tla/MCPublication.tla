------------------------- MODULE MCPublication -------------------------
(***************************************************************************)
(* What is kept of series, concluded from them and published, as one       *)
(* specification: a behaviour is of one component, its part, and the       *)
(* others stay idle.  They run as processes of their own and meet in files *)
(* only, which each takes as it finds them.                                *)
(***************************************************************************)
EXTENDS Integers, Sequences, FiniteSets

CONSTANTS CapsuleTrials, MaxLiveEdits, MaxCapsuleEdits, OperationTrials, MaxOperationEdits,
          DecisionGates, UnitsPlanned, MinUnits, Threshold, MaxGap, MaxSteps, Writers,
          SeriesNames, Attachers, MaxRevision, MaxMeddles, Chains, MaxEdits, Platforms, Builds,
          MaxSwaps, Losses, Gains

\* A series has a trial (benchmarkspec and operationbench refuse none), a history has
\* series to choose from, a release a platform, and no bytes are the name of a file
\* that is not there.  An A/B protocol asks for complete pairs and has a threshold that
\* is not negative (benchmarkab.VerifyProtocol).
ASSUME TrialsAssumption == CapsuleTrials \in Nat \ {0} /\ OperationTrials \in Nat \ {0}
ASSUME EffectsAssumption == Losses \subseteq Nat /\ Gains \subseteq Nat
ASSUME UnitsAssumption == UnitsPlanned \in Nat /\ MinUnits \in Nat \ {0} /\ Threshold \in Nat
ASSUME SeriesAssumption == IsFiniteSet(SeriesNames) /\ Cardinality(SeriesNames) > 1
ASSUME PlatformsAssumption == Platforms # {}
ASSUME RevisionAssumption == MaxRevision \in Nat
ASSUME ChainsAssumption == "ours" \in Chains /\ "none" \notin Chains

VARIABLES part,   \* the component this behaviour is of
          capPc, capAt, live, configured, planned, capInventory, engineId, capsule, final, used,
          capStatus, verified, edited, liveEdits, capsuleEdits, capRestored, opPc, opStep, opLive, opEdits,
          opReverted, recorded, opCapsule, opDir, linkedRuns, opTrials, opStatus, pdPc, pdNow,
          pdBack, pdPolicy, pdSeen, pdFiles, pdBlocks, pdSpan, pdSettings, pdResult, pdSwapped,
          impPc, impAdapter, impMapping, impFile, impRead, impDir, impStage, histLive,
          histInputs, histPc, histSeen, histResult, histDir, bundleKind, isArm, bundleOutput,
          bundlePc, tree, stage, inventory, archive, bundleEdited, cast, scope, indexes, attPc,
          attRead, attOut, bundlerPc, bundlerAt, head, snapshots, packed, meddles, rbPc, use,
          held, extra, got, at, rbArchive, output, wholes, edits, rbRestored, raPc, raDir, made, raInventory,
          copied, raNext, candidate, indexed, raSwaps

\* Normalised effects, in ticks: a loss is a negative one.
Effects == {-loss : loss \in Losses} \cup Gains
Casts == {{"a1", "a2"}, {"a1", "bundler"}}
\* What an archive was built from: its pack, toolchain and commit.
Built(pack, go, commit) == [pack |-> pack, go |-> go, commit |-> commit]
Facts == [a |-> Built("k1", "g1", "h1"), b |-> Built("k2", "g1", "h1"),
          c |-> Built("k1", "g2", "h1"), d |-> Built("k1", "g1", "h2")]

Capsule == INSTANCE SeriesCapsule WITH inventory <- capInventory, at <- capAt
Operation == INSTANCE OperationSeries WITH live <- opLive, capsule <- opCapsule, MaxEdits <- MaxOperationEdits
Paired == INSTANCE PairedDecision
Import == INSTANCE ImportEvidence
History == INSTANCE BenchmarkHistory
Bundle == INSTANCE EvidenceBundle WITH edited <- bundleEdited
Release == INSTANCE ReleaseEvidence
Files == INSTANCE ReleaseBundle WITH archive <- rbArchive
Assets == INSTANCE ReleaseAssets WITH swaps <- raSwaps, inventory <- raInventory, next <- raNext, dir <- raDir

CapsuleVars == <<capPc, capAt, live, configured, planned, capInventory, engineId, capsule, final,
                 used, capStatus, verified, edited, liveEdits, capsuleEdits, capRestored>>
OperationVars == <<opPc, opStep, opLive, opEdits, opReverted, recorded, opCapsule, opDir, linkedRuns,
                   opTrials, opStatus>>
PairedVars == <<pdPc, pdNow, pdBack, pdPolicy, pdSeen, pdFiles, pdBlocks, pdSpan, pdSettings,
                pdResult, pdSwapped>>
ImportVars == <<impPc, impAdapter, impMapping, impFile, impRead, impDir, impStage>>
HistoryVars == <<histLive, histInputs, histPc, histSeen, histResult, histDir>>
BundleVars == <<bundleKind, isArm, bundleOutput, bundlePc, tree, stage, inventory, archive,
                bundleEdited>>
ReleaseVars == <<cast, scope, indexes, attPc, attRead, attOut, bundlerPc, bundlerAt, head, snapshots,
                 packed, meddles>>
FilesVars == <<rbPc, use, held, extra, got, at, rbArchive, output, wholes, edits, rbRestored>>
AssetsVars == <<raPc, raDir, made, raInventory, copied, raNext, candidate, indexed, raSwaps>>

\* A component that is not the part is idle: its variables keep one value.
CapsuleIdle == /\ capPc = "idle" /\ capAt = "idle" /\ live = "idle" /\ configured = "idle" /\ planned = "idle"
               /\ capInventory = "idle" /\ engineId = "idle" /\ capsule = "idle" /\ final = "idle" /\ used = "idle"
               /\ capStatus = "idle" /\ verified = "idle" /\ edited = "idle" /\ liveEdits = "idle"
               /\ capsuleEdits = "idle" /\ capRestored = "idle"
OperationIdle == /\ opPc = "idle" /\ opStep = "idle" /\ opLive = "idle" /\ opEdits = "idle" /\ opReverted = "idle"
                 /\ recorded = "idle" /\ opCapsule = "idle" /\ opDir = "idle" /\ linkedRuns = "idle"
                 /\ opTrials = "idle" /\ opStatus = "idle"
PairedIdle == /\ pdPc = "idle" /\ pdNow = "idle" /\ pdBack = "idle" /\ pdPolicy = "idle" /\ pdSeen = "idle"
              /\ pdFiles = "idle" /\ pdBlocks = "idle" /\ pdSpan = "idle" /\ pdSettings = "idle"
              /\ pdResult = "idle" /\ pdSwapped = "idle"
ImportIdle == /\ impPc = "idle" /\ impAdapter = "idle" /\ impMapping = "idle" /\ impFile = "idle"
              /\ impRead = "idle" /\ impDir = "idle" /\ impStage = "idle"
HistoryIdle == /\ histLive = "idle" /\ histInputs = "idle" /\ histPc = "idle" /\ histSeen = "idle"
               /\ histResult = "idle" /\ histDir = "idle"
BundleIdle == /\ bundleKind = "idle" /\ isArm = "idle" /\ bundleOutput = "idle" /\ bundlePc = "idle"
              /\ tree = "idle" /\ stage = "idle" /\ inventory = "idle" /\ archive = "idle" /\ bundleEdited = "idle"
ReleaseIdle == /\ cast = "idle" /\ scope = "idle" /\ indexes = "idle" /\ attPc = "idle" /\ attRead = "idle"
               /\ attOut = "idle" /\ bundlerPc = "idle" /\ bundlerAt = "idle" /\ head = "idle" /\ snapshots = "idle"
               /\ packed = "idle" /\ meddles = "idle"
FilesIdle == /\ rbPc = "idle" /\ use = "idle" /\ held = "idle" /\ extra = "idle" /\ got = "idle" /\ at = "idle"
             /\ rbArchive = "idle" /\ output = "idle" /\ wholes = "idle" /\ edits = "idle"
             /\ rbRestored = "idle"
AssetsIdle == /\ raPc = "idle" /\ raDir = "idle" /\ made = "idle" /\ raInventory = "idle" /\ copied = "idle"
              /\ raNext = "idle" /\ candidate = "idle" /\ indexed = "idle" /\ raSwaps = "idle"

CapsuleStarts == /\ part = "capsule" /\ Capsule!CapsuleInit
                 /\ OperationIdle /\ PairedIdle /\ ImportIdle /\ HistoryIdle /\ BundleIdle
                 /\ ReleaseIdle /\ FilesIdle /\ AssetsIdle
OperationStarts == /\ part = "operation" /\ Operation!OperationInit
                   /\ CapsuleIdle /\ PairedIdle /\ ImportIdle /\ HistoryIdle /\ BundleIdle
                   /\ ReleaseIdle /\ FilesIdle /\ AssetsIdle
PairedStarts == /\ part = "paired" /\ Paired!PairedInit
                /\ CapsuleIdle /\ OperationIdle /\ ImportIdle /\ HistoryIdle /\ BundleIdle
                /\ ReleaseIdle /\ FilesIdle /\ AssetsIdle
ImportStarts == /\ part = "import" /\ Import!ImportInit
                /\ CapsuleIdle /\ OperationIdle /\ PairedIdle /\ HistoryIdle /\ BundleIdle
                /\ ReleaseIdle /\ FilesIdle /\ AssetsIdle
HistoryStarts == /\ part = "history" /\ History!HistoryInit
                 /\ CapsuleIdle /\ OperationIdle /\ PairedIdle /\ ImportIdle /\ BundleIdle
                 /\ ReleaseIdle /\ FilesIdle /\ AssetsIdle
BundleStarts == /\ part = "bundle" /\ Bundle!BundleInit
                /\ CapsuleIdle /\ OperationIdle /\ PairedIdle /\ ImportIdle /\ HistoryIdle
                /\ ReleaseIdle /\ FilesIdle /\ AssetsIdle
ReleaseStarts == /\ part = "release" /\ Release!ReleaseInit
                 /\ CapsuleIdle /\ OperationIdle /\ PairedIdle /\ ImportIdle /\ HistoryIdle
                 /\ BundleIdle /\ FilesIdle /\ AssetsIdle
FilesStarts == /\ part = "files" /\ Files!BundleFilesInit
               /\ CapsuleIdle /\ OperationIdle /\ PairedIdle /\ ImportIdle /\ HistoryIdle
               /\ BundleIdle /\ ReleaseIdle /\ AssetsIdle
AssetsStarts == /\ part = "assets" /\ Assets!AssetsInit
                /\ CapsuleIdle /\ OperationIdle /\ PairedIdle /\ ImportIdle /\ HistoryIdle
                /\ BundleIdle /\ ReleaseIdle /\ FilesIdle
Init == \/ CapsuleStarts \/ OperationStarts \/ PairedStarts \/ ImportStarts
        \/ HistoryStarts \/ BundleStarts \/ ReleaseStarts \/ FilesStarts
        \/ AssetsStarts

CapsuleAlone == /\ part = "capsule"
                /\ UNCHANGED <<part, OperationVars, PairedVars, ImportVars, HistoryVars, BundleVars,
                                     ReleaseVars, FilesVars, AssetsVars>>
OperationAlone == /\ part = "operation"
                  /\ UNCHANGED <<part, CapsuleVars, PairedVars, ImportVars, HistoryVars, BundleVars,
                                       ReleaseVars, FilesVars, AssetsVars>>
PairedAlone == /\ part = "paired"
               /\ UNCHANGED <<part, CapsuleVars, OperationVars, ImportVars, HistoryVars, BundleVars,
                                    ReleaseVars, FilesVars, AssetsVars>>
ImportAlone == /\ part = "import"
               /\ UNCHANGED <<part, CapsuleVars, OperationVars, PairedVars, HistoryVars, BundleVars,
                                    ReleaseVars, FilesVars, AssetsVars>>
HistoryAlone == /\ part = "history"
                /\ UNCHANGED <<part, CapsuleVars, OperationVars, PairedVars, ImportVars, BundleVars,
                                     ReleaseVars, FilesVars, AssetsVars>>
BundleAlone == /\ part = "bundle"
               /\ UNCHANGED <<part, CapsuleVars, OperationVars, PairedVars, ImportVars, HistoryVars,
                                    ReleaseVars, FilesVars, AssetsVars>>
ReleaseAlone == /\ part = "release"
                /\ UNCHANGED <<part, CapsuleVars, OperationVars, PairedVars, ImportVars, HistoryVars,
                                     BundleVars, FilesVars, AssetsVars>>
FilesAlone == /\ part = "files"
              /\ UNCHANGED <<part, CapsuleVars, OperationVars, PairedVars, ImportVars, HistoryVars,
                                   BundleVars, ReleaseVars, AssetsVars>>
AssetsAlone == /\ part = "assets"
               /\ UNCHANGED <<part, CapsuleVars, OperationVars, PairedVars, ImportVars, HistoryVars,
                                    BundleVars, ReleaseVars, FilesVars>>

Next == \/ CapsuleAlone /\ Capsule!CapsuleNext
        \/ OperationAlone /\ Operation!OperationNext
        \/ PairedAlone /\ Paired!PairedNext
        \/ ImportAlone /\ Import!ImportNext
        \/ HistoryAlone /\ History!HistoryNext
        \/ BundleAlone /\ Bundle!BundleNext
        \/ ReleaseAlone /\ Release!ReleaseNext
        \/ FilesAlone /\ Files!BundleFilesNext
        \/ AssetsAlone /\ Assets!AssetsNext

allVars == <<part, CapsuleVars, OperationVars, PairedVars, ImportVars, HistoryVars, BundleVars,
                   ReleaseVars, FilesVars, AssetsVars>>

\* Each component under the fairness of its own specification: the part never
\* changes, so that one condition serves for the steps of all.
PartStep == \/ OperationAlone /\ Operation!OperationStep
            \/ ImportAlone /\ Import!ImportStep
            \/ BundleAlone /\ Bundle!BundleStep
            \/ ReleaseAlone /\ Release!BundlerStep
            \/ FilesAlone /\ Files!BundleFilesStep
Fairness ==
  /\ WF_allVars(PartStep)
  /\ \A w \in Writers : WF_HistoryVars(part = "history" /\ History!HistoryStep(w))

Spec == Init /\ [][Next]_allVars /\ Fairness

-----------------------------------------------------------------------------
\* A verified series ran its plan, in every trial, and is out of the reach of edits
\* of the workspace (benchmarkplan, benchmarkrun.Start, ExecuteTrial).
SeriesRanItsPlan == part = "capsule" => Capsule!VerifiedSeriesRanItsPlan /\ Capsule!WorkspaceEditsNeverReachIt

\* A decision was taken between two qualified bookends of this run, and is shown by
\* a complete pair of blocks (benchmarkab.AssessBookends, benchmarkcompare.AnalyzePaired).
DecisionIsEarned == part = "paired" => Paired!DecisionIsBracketed /\ Paired!DecisionIsPaired

\* What is imported is one whole run, and keeps the source it was derived from
\* (benchmarkimport parseSysbench, parseBenchBase33c0047, Create, Verify).
ImportIsTrue == part = "import" => Import!ImportIsOneWholeRun /\ Import!ImportKeepsItsSource

\* A history that verifies is true, and does not depend on the order of its
\* arguments (benchmarkhistory.derive, Verify).
HistoryIsTrue == part = "history" => History!HistoryOrderFree /\ History!VerifiedHistoryIsTrue

\* An operation series ran, in each trial, the bytes its capsule keeps
\* (operationbench.Run).
OperationRanWhatItKeeps == part = "operation" => Operation!DoneRanWhatItKeeps

\* A published history, and the directory of another operation series, is never
\* replaced nor written to (benchmarkhistory.Create, operationbench.Run).
PublishedOnce ==
  [][/\ part = "history" /\ histDir # History!NoHistory => histDir' = histDir
     /\ part = "operation" /\ opDir.by \in {"rival", "earlier"} => opDir' = opDir]_<<HistoryVars, OperationVars>>

\* What is packed verifies and is packed outside the evidence; a release bundle was
\* whole when it was accepted, and its archive is exact (createBundle of each package,
\* releaseevidence/bundle.go, bundle_publish.go).
ArchivesAreWhole ==
  /\ part = "bundle" => Bundle!PackedBundleVerifies /\ Bundle!OutputLeavesEvidence
  /\ part = "files" => Files!AcceptedBundleWasWhole /\ Files!PublishedArchiveIsExact

\* Honest attachers make one chain of revisions, and a bundled chain is honest
\* (releaseevidence/attach.go, bundle.go).
ReleaseChainIsHonest == part = "release" => Release!LineageIsOneChain /\ Release!BundledChainIsHonest

\* What is indexed is one distribution, and an undisturbed release is accepted
\* (releasemanifest, releaseassets).
DistributionIsOne == part = "assets" => Assets!IndexedIsOneDistribution /\ Assets!QuietReleaseIsAccepted
=============================================================================
