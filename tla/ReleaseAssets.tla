---------------------------- MODULE ReleaseAssets ----------------------------
(***************************************************************************)
(* The files of one release: the manifest made over a finished release     *)
(* directory (internal/releasemanifest Create, Write), the metadata        *)
(* checksums and the provider's inventory of the assets (external), and    *)
(* the candidate derived from a private copy of them (internal/            *)
(* releaseevidence InitializeCandidate, internal/releaseassets,            *)
(* releasemanifest Verify, internal/releasesbom). Create opens an archive  *)
(* four times and others can write to its directory between two of them.   *)
(***************************************************************************)
EXTENDS Naturals, Sequences, FiniteSets

CONSTANTS Platforms,   \* one archive and one SBOM each
          Builds,      \* distinct archives that bear the name of one platform
          Facts,       \* build -> its scenario pack, Go toolchain and commit
          MaxSwaps     \* bound on the files others put in the directory

\* The release is built from the tree of "a": its pack and its commit are given.
Given == Facts["a"]
Absent == "absent"

VARIABLES raPc,
          dir,        \* the release directory: archive and sbom of each platform, the
                      \* archive sums, the metadata sums, the manifest, a file of none of these
          made,       \* what Create has read so far; then the manifest it writes
          inventory,  \* the provider's inventory
          copied,     \* the private copy
          next,       \* the asset to copy next
          candidate, indexed, swaps

raVars == <<raPc, dir, made, inventory, copied, next, candidate, indexed, swaps>>

ReleaseFiles == {"archive", "sbom", "sums", "meta", "manifest"}
Assets == <<"archive", "sbom", "sums", "meta", "manifest">>
NoManifest == [archives |-> Absent, sboms |-> Absent, sums |-> Absent, pack |-> Absent, go |-> Absent]
NoFiles == [f \in ReleaseFiles |-> Absent]
NoCandidate == [commit |-> Absent, pack |-> Absent, fingerprint |-> NoFiles]

\* The builder left one archive, its SBOM and its sum per platform; one of them may
\* come from another tree or another toolchain.
AssetsInit ==
  /\ raPc = "sums"
  /\ \E b \in [Platforms -> Builds] :
       /\ Cardinality({p \in Platforms : b[p] # "a"}) <= 1
       /\ dir = [archive |-> b, sbom |-> b, sums |-> b, meta |-> Absent, manifest |-> Absent, extra |-> FALSE]
  /\ made = NoManifest /\ inventory = NoFiles /\ copied = NoFiles /\ next = 1
  /\ candidate = NoCandidate /\ indexed = FALSE /\ swaps = 0

\* Another process puts a build's file, or a file of its own, in the directory.
Swap ==
  /\ raPc \notin {"done", "refused"} /\ swaps < MaxSwaps /\ swaps' = swaps + 1
  /\ \/ \E f \in {"archive", "sbom", "sums"}, p \in Platforms :
          \E b \in Builds \ {dir[f][p]} : dir' = [dir EXCEPT ![f][p] = b]
     \/ dir' = [dir EXCEPT !.extra = ~@]
  /\ UNCHANGED <<raPc, made, inventory, copied, next, candidate, indexed>>

-----------------------------------------------------------------------------
\* What each check compares; the fields are those of a directory or of its copy.
Coverage(archive, sums) == archive = sums
PacksAre(archive, pack) == \A p \in Platforms : Facts[archive[p]].pack = pack
OneToolchain(archive) == Cardinality({Facts[archive[p]].go : p \in Platforms}) = 1
ToolchainOf(archive) == Facts[archive[CHOOSE p \in Platforms : TRUE]].go
\* ValidateReleaseSubject and ValidatePackageRoot: the SBOM names the commit, and
\* its files are those of the extracted archive.
DocumentsHold(sbom, archive) ==
  \A p \in Platforms : Facts[sbom[p]].commit = Given.commit /\ sbom[p] = archive[p]

CreateStep(from, to, holds, result) ==
  /\ raPc = from /\ raPc' = (IF holds THEN to ELSE "refused") /\ made' = result
  /\ UNCHANGED <<dir, inventory, copied, next, candidate, indexed, swaps>>

\* Create: the sums, the hashes of the archives, their packs, their toolchains, the
\* hashes of the SBOMs, their documents against the archives, the digest of the sums.
ReadSums == CreateStep("sums", "archives", TRUE, [made EXCEPT !.sums = dir.sums])
HashArchives ==
  CreateStep("archives", "packs", Coverage(dir.archive, made.sums), [made EXCEPT !.archives = dir.archive])
InspectPacks ==
  CreateStep("packs", "toolchains", PacksAre(dir.archive, Given.pack), [made EXCEPT !.pack = Given.pack])
InspectToolchains ==
  CreateStep("toolchains", "sboms", OneToolchain(dir.archive), [made EXCEPT !.go = ToolchainOf(dir.archive)])
HashSBOMs == CreateStep("sboms", "documents", TRUE, [made EXCEPT !.sboms = dir.sbom])
VerifyDocuments == CreateStep("documents", "digest", DocumentsHold(dir.sbom, dir.archive), made)
DigestSums == CreateStep("digest", "write", TRUE, [made EXCEPT !.sums = dir.sums])
\* Write links a new file.
WriteManifest ==
  /\ raPc = "write" /\ raPc' = "publish" /\ dir' = [dir EXCEPT !.manifest = made]
  /\ UNCHANGED <<made, inventory, copied, next, candidate, indexed, swaps>>

\* The workflow sums the SBOMs and the manifest, and the provider lists its assets.
PublishAssets ==
  /\ raPc = "publish" /\ raPc' = "inventory"
  /\ dir' = [dir EXCEPT !.meta = [sbom |-> dir.sbom, manifest |-> dir.manifest]]
  /\ UNCHANGED <<made, inventory, copied, next, candidate, indexed, swaps>>
CaptureInventory ==
  /\ raPc = "inventory" /\ raPc' = "entries" /\ inventory' = [f \in ReleaseFiles |-> dir[f]]
  /\ UNCHANGED <<dir, made, copied, next, candidate, indexed, swaps>>

-----------------------------------------------------------------------------
\* CreateVerifiedSnapshot: the directory holds the listed names and nothing else,
\* before and after each asset is copied and found to be the one listed.
RequireEntries ==
  /\ raPc \in {"entries", "entriesAgain"}
  /\ raPc' = IF dir.extra THEN "refused" ELSE IF raPc = "entries" THEN "copy" ELSE "verify"
  /\ UNCHANGED <<dir, made, inventory, copied, next, candidate, indexed, swaps>>
CopyAsset ==
  LET f == Assets[next]
  IN  /\ raPc = "copy" /\ copied' = [copied EXCEPT ![f] = dir[f]]
      /\ raPc' = IF dir[f] # inventory[f] THEN "refused"
                 ELSE IF next = Len(Assets) THEN "entriesAgain" ELSE "copy"
      /\ next' = IF next = Len(Assets) THEN next ELSE next + 1
  /\ UNCHANGED <<dir, made, inventory, candidate, indexed, swaps>>

\* What the manifest's digests say of the copy, without a look into the files.
VerifyNames ==
  LET m == copied.manifest
  IN  /\ m.sums = copied.sums /\ Coverage(copied.archive, copied.sums)
      /\ m.archives = copied.archive /\ m.sboms = copied.sbom
\* releasemanifest.Verify of the copy: nobody else writes there, so it is one step.
VerifyCopy ==
  LET m == copied.manifest
  IN  /\ VerifyNames
      /\ PacksAre(copied.archive, m.pack)
      /\ OneToolchain(copied.archive) /\ ToolchainOf(copied.archive) = m.go
      /\ DocumentsHold(copied.sbom, copied.archive)
VerifyManifest ==
  /\ raPc = "verify" /\ raPc' = IF VerifyCopy THEN "directory" ELSE "refused"
  /\ UNCHANGED <<dir, made, inventory, copied, next, candidate, indexed, swaps>>

\* VerifyDirectory: the metadata sums cover the SBOMs and the manifest, and the
\* manifest and the inventory name the same bytes.
MetadataCovers == copied.meta.sbom = copied.sbom /\ copied.meta.manifest = copied.manifest
InventoryBinds ==
  LET m == copied.manifest
  IN  m.archives = inventory.archive /\ m.sboms = inventory.sbom /\ m.sums = inventory.sums
VerifyAssets ==
  /\ raPc = "directory"
  /\ raPc' = IF MetadataCovers /\ InventoryBinds /\ (\A f \in ReleaseFiles : copied[f] = inventory[f])
             THEN "derive" ELSE "refused"
  /\ UNCHANGED <<dir, made, inventory, copied, next, candidate, indexed, swaps>>

\* CandidateFromArtifacts; the copy is removed, and a failure of that is the end,
\* before the index is written to a new path outside the release directory.
DeriveCandidate ==
  /\ raPc = "derive" /\ raPc' = "close"
  /\ candidate' = [commit |-> Given.commit, pack |-> copied.manifest.pack, fingerprint |-> inventory]
  /\ UNCHANGED <<dir, made, inventory, copied, next, indexed, swaps>>
CloseCopy ==
  /\ raPc = "close" /\ \E end \in {"index", "refused"} : raPc' = end
  /\ UNCHANGED <<dir, made, inventory, copied, next, candidate, indexed, swaps>>
WriteIndex ==
  /\ raPc = "index" /\ raPc' = "done" /\ indexed' = TRUE
  /\ UNCHANGED <<dir, made, inventory, copied, next, candidate, swaps>>

AssetsNext ==
  \/ Swap \/ ReadSums \/ HashArchives \/ InspectPacks \/ InspectToolchains \/ HashSBOMs
  \/ VerifyDocuments \/ DigestSums \/ WriteManifest \/ PublishAssets \/ CaptureInventory
  \/ RequireEntries \/ CopyAsset \/ VerifyManifest \/ VerifyAssets \/ DeriveCandidate
  \/ CloseCopy \/ WriteIndex
AssetsSpec == AssetsInit /\ [][AssetsNext]_raVars

-----------------------------------------------------------------------------
\* An index is written for one distribution only, however the directory changed while
\* its manifest was made, its assets were listed and copied: every archive the
\* fingerprint covers holds the candidate's pack, was built from its commit by one
\* toolchain, and has the SBOM of just these bytes. (docs/release-evidence.md:
\* semantics "are then evaluated only from those pinned bytes")
IndexedIsOneDistribution ==
  indexed =>
    LET files == candidate.fingerprint
    IN  /\ \A p \in Platforms :
             /\ Facts[files.archive[p]].pack = candidate.pack
             /\ Facts[files.archive[p]].commit = candidate.commit
             /\ files.sbom[p] = files.archive[p] /\ files.sums[p] = files.archive[p]
        /\ OneToolchain(files.archive)
        /\ files.manifest.archives = files.archive

\* A release nobody disturbed is never refused: what Create wrote, Verify and
\* VerifyDirectory accept, and only the removal of the private copy can fail.
QuietReleaseIsAccepted ==
  (raPc = "refused" /\ swaps = 0 /\ \A p \in Platforms : made.sums[p] = "a") => candidate.pack # Absent
=============================================================================
