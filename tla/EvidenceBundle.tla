--------------------------- MODULE EvidenceBundle ---------------------------
(***************************************************************************)
(* Every kind of evidence is packed the same way: verify it in place, keep *)
(* the output away from it, copy its directories into a private stage,     *)
(* write an inventory, verify the stage as a relocated bundle, build the   *)
(* archive under a temporary name and give it its final name by a hard     *)
(* link.  The kinds differ in what they verify, copy and guard; meanwhile  *)
(* somebody may still write to the directories, or take the output name.   *)
(***************************************************************************)
EXTENDS Naturals, FiniteSets

\* The directories a bundle is made of: the artifact itself, the series and
\* the experiment runs it links, and a native toolchain kept in an A/B artifact.
Parts == {"own", "series", "runs", "toolchain"}

\* createBundle of each package: what Verify opens, what is copied, and which
\* directories the output must be outside of.
HistoryBundle(arm)  == [verified |-> {"own", "series", "runs"} \cup arm,
                        copied   |-> {"own", "series", "runs"},
                        guarded  |-> {"own", "series", "runs"}]
ABBundle(arm)       == [verified |-> {"own", "series", "runs"} \cup arm,
                        copied   |-> {"own", "series", "runs"} \cup arm,
                        guarded  |-> {"own", "series", "runs"} \cup arm]
CampaignBundle      == [verified |-> {"own", "series", "runs"},
                        copied   |-> {"own", "series", "runs"},
                        guarded  |-> {"own"}]
SeriesBundle(arm)   == [verified |-> {"own", "runs"} \cup arm,
                        copied   |-> {"own", "runs"},
                        guarded  |-> {"own", "runs"}]
OperationBundle     == [verified |-> {"own", "runs"},
                        copied   |-> {"own", "runs"},
                        guarded  |-> {"own", "runs"}]
ImportBundle        == [verified |-> {"own"}, copied |-> {"own"}, guarded |-> {"own"}]
RunBundle           == [verified |-> {"own"}, copied |-> {"own"}, guarded |-> {"own"}]

\* arm: the series are arms of a native toolchain A/B experiment, whose snapshot
\* lives in the A/B artifact; those of other kinds have their own or none.
BundleKinds == {"history", "ab", "campaign", "series", "operation", "import", "run"}
Toolchain(isArm) == IF isArm THEN {"toolchain"} ELSE {}

Recipe(kind, isArm) ==
  CASE kind = "history"   -> HistoryBundle(Toolchain(isArm))
    [] kind = "ab"        -> ABBundle(Toolchain(isArm))
    [] kind = "campaign"  -> CampaignBundle
    [] kind = "series"    -> SeriesBundle(Toolchain(isArm))
    [] kind = "operation" -> OperationBundle
    [] kind = "import"    -> ImportBundle
    [] kind = "run"       -> RunBundle

VARIABLES bundleKind, isArm,
          bundleOutput,   \* the directory the output path lies in, or "elsewhere"
          bundlePc,
          tree,           \* the live directories: "sound", "changed" or "gone"
          stage,          \* the copies, a function on the parts copied so far
          inventory,      \* the inventory in the stage
          archive,        \* the file of the output name: None, or what it holds
          edited          \* whether the live directories were written to

bundleVars == <<bundleKind, isArm, bundleOutput, bundlePc, tree, stage, inventory, archive, edited>>

NoTree == [p \in {} |-> "sound"]
NoArchive == [holds |-> NoTree, by |-> "nobody"]
Recorded == Recipe(bundleKind, isArm)

BundleInit ==
  /\ bundleKind \in BundleKinds
  /\ isArm \in (IF bundleKind \in {"history", "ab", "series"} THEN BOOLEAN ELSE {FALSE})
  /\ bundleOutput \in Recipe(bundleKind, isArm).copied \cup {"elsewhere"}
  /\ bundlePc = "verify" /\ tree \in [Parts -> {"sound", "changed"}]
  /\ stage = NoTree /\ inventory = NoTree /\ archive = NoArchive /\ edited = FALSE

\* Verify of each package rereads every file its records name, by digest.
Intact(parts, t) == parts \subseteq DOMAIN t /\ \A p \in parts : t[p] = "sound"

\* The kinds of requiresABBundle refuse; an experiment run is only verified staged.
VerifyInPlace ==
  /\ bundlePc = "verify"
  /\ bundlePc' = IF /\ bundleKind # "run" => Intact(Recorded.verified, tree)
                    /\ ~(bundleKind = "series" /\ isArm)
                 THEN "guard" ELSE "refused"
  /\ UNCHANGED <<bundleKind, isArm, bundleOutput, tree, stage, inventory, archive, edited>>

\* ResolveOutputOutside, for each guarded directory.
ResolveOutput ==
  /\ bundlePc = "guard"
  /\ bundlePc' = IF bundleOutput \in Recorded.guarded THEN "refused" ELSE "copy"
  /\ UNCHANGED <<bundleKind, isArm, bundleOutput, tree, stage, inventory, archive, edited>>

\* copyTree, one directory after the other.
CopyTree(p) ==
  /\ bundlePc = "copy" /\ p \in Recorded.copied \ DOMAIN stage
  /\ IF tree[p] = "gone" THEN bundlePc' = "refused" /\ UNCHANGED stage
     ELSE stage' = [q \in DOMAIN stage \cup {p} |-> IF q = p THEN tree[p] ELSE stage[q]]
          /\ UNCHANGED bundlePc
  /\ UNCHANGED <<bundleKind, isArm, bundleOutput, tree, inventory, archive, edited>>

\* bundleFiles: the inventory is of the copies, not of what was verified.
WriteInventory ==
  /\ bundlePc = "copy" /\ DOMAIN stage = Recorded.copied
  /\ inventory' = stage /\ bundlePc' = "stage"
  /\ UNCHANGED <<bundleKind, isArm, bundleOutput, tree, stage, archive, edited>>

\* compareBundleFiles: exactly the files of the inventory, with their digests.
MatchesInventory(t) == t = inventory

\* VerifyBundle of each package: Verify in the new place, and the inventory.
BundleVerifies(t) == Intact(Recorded.verified, t) /\ MatchesInventory(t)

StageUnverified ==
  /\ bundlePc = "stage" /\ bundlePc' = "output"
  /\ UNCHANGED <<bundleKind, isArm, bundleOutput, tree, stage, inventory, archive, edited>>

VerifyStage ==
  /\ bundlePc = "stage"
  /\ bundlePc' = IF BundleVerifies(stage) THEN "output" ELSE "refused"
  /\ UNCHANGED <<bundleKind, isArm, bundleOutput, tree, stage, inventory, archive, edited>>

\* PrepareNewOutputOutside and the temporary archive: the output name must be
\* free.  The run bundle writes from the live files and compares their digests
\* with the inventory; the others write from the stage and reread the archive.
BuildArchive ==
  /\ bundlePc = "output"
  /\ bundlePc' = IF archive # NoArchive \/ (bundleKind = "run" /\ ~Intact({"own"}, tree))
                 THEN "refused" ELSE "link"
  /\ UNCHANGED <<bundleKind, isArm, bundleOutput, tree, stage, inventory, archive, edited>>

\* PublishFileExclusive: link(2) never replaces the name.
PublishFileExclusive ==
  /\ bundlePc = "link"
  /\ IF archive = NoArchive
     THEN archive' = [holds |-> stage, by |-> "bundle"] /\ bundlePc' = "packed"
     ELSE bundlePc' = "refused" /\ UNCHANGED archive
  /\ UNCHANGED <<bundleKind, isArm, bundleOutput, tree, stage, inventory, edited>>

\* Somebody writes to, or removes, a live directory.
EditPart(p) ==
  /\ ~edited /\ edited' = TRUE
  /\ \E v \in {"changed", "gone"} : tree' = [tree EXCEPT ![p] = v]
  /\ UNCHANGED <<bundleKind, isArm, bundleOutput, bundlePc, stage, inventory, archive>>

\* Another process publishes a file of the output name.
TakeOutput ==
  /\ archive = NoArchive
  /\ archive' = [holds |-> NoTree, by |-> "other"]
  /\ UNCHANGED <<bundleKind, isArm, bundleOutput, bundlePc, tree, stage, inventory, edited>>

BundleStep == \/ VerifyInPlace \/ ResolveOutput \/ (\E p \in Parts : CopyTree(p)) \/ WriteInventory
              \/ VerifyStage \/ BuildArchive \/ PublishFileExclusive

BundleNext == BundleStep \/ (\E p \in Parts : EditPart(p)) \/ TakeOutput

BundleSpec == BundleInit /\ [][BundleNext]_bundleVars /\ WF_bundleVars(BundleStep)
-----------------------------------------------------------------------------
\* An archive that was published holds everything its verifier opens, unchanged,
\* although the directories were written to between the verification in place,
\* the copies and the archive (the createBundle of each package).
PackedBundleVerifies ==
  bundlePc = "packed" => /\ archive.by = "bundle"
                         /\ Intact(Recorded.verified, archive.holds)
                         /\ BundleVerifies(archive.holds)

\* The output never lands inside a directory that is packed, whose verifier would
\* reject it from then on; a campaign guards its own directory only.
OutputLeavesEvidence ==
  bundlePc = "packed" /\ bundleKind # "campaign" => bundleOutput \notin Recorded.copied

\* docs/benchmarking.md:325 says of the history, which normalises the run-specific
\* location of a native snapshot, that "It verifies and bundles the same transitive
\* closure": what verifies, and is not touched, can be packed.
VerifiedHistoryIsBundled ==
  /\ bundleKind = "history" /\ ~edited /\ bundleOutput = "elsewhere" /\ archive.by # "other"
  /\ Intact(Recorded.verified, tree)
  => bundlePc # "refused"
=============================================================================
