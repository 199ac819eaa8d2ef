---------------------------- MODULE ReleaseBundle ----------------------------
(***************************************************************************)
(* One release evidence bundle (internal/releaseevidence bundle.go,        *)
(* bundle_publish_unix.go): verifyBundle reads a directory entry by entry  *)
(* while others may replace, rewrite, remove and add files in it; it is    *)
(* used on an extracted bundle and by createBundle on its own stage, which *)
(* is then archived, read back, compared and linked to its output name.    *)
(* How the source chain is read and confirmed is in ReleaseEvidence.       *)
(* Bytes are named by the chain they belong to: createBundle's is "ours".  *)
(***************************************************************************)
EXTENDS Naturals, Sequences

CONSTANTS Chains,      \* chains whose bundles may lie in the directory, with "ours"
          MaxEdits     \* bound on what others do to the files

VARIABLES rbPc,
          use,         \* "verify" an extracted directory, or "create" a bundle
          held,        \* entry -> its file: inode and bytes
          extra,       \* the directory holds a name of no bundle
          got,         \* entry -> the file as it was first read, held open to the end
          at,          \* the entry to look at next
          archive,     \* the staged archive: what it holds, and whether it was touched
          output,      \* the output name
          wholes,      \* the bundles the directory has been, entirely, since the start
          edits,
          rbRestored   \* a file held open was written over, and then with what was read of it

rbVars == <<rbPc, use, held, extra, got, at, archive, output, wholes, edits, rbRestored>>

Entries == <<"inventory", "r0", "r1">>
EntryNames == {Entries[i] : i \in 1..Len(Entries)}
Missing == [inode |-> 0, bytes |-> "none"]
NoArchive == [files |-> [e \in EntryNames |-> "none"], extra |-> FALSE, touched |-> FALSE]
Holding(h, x) == {c \in Chains : ~x /\ \A e \in EntryNames : h[e].bytes = c}
FirstFile(bytes) == IF bytes = "none" THEN Missing ELSE [inode |-> 1, bytes |-> bytes]

BundleFilesInit ==
  /\ \/ /\ use = "create" /\ extra = FALSE
        /\ held = [e \in EntryNames |-> FirstFile("ours")]
     \/ /\ use = "verify" /\ extra \in BOOLEAN
        /\ \E b \in [EntryNames -> Chains \cup {"junk", "none"}] : held = [e \in EntryNames |-> FirstFile(b[e])]
  /\ rbPc = "inventory" /\ got = [e \in EntryNames |-> Missing] /\ at = 1
  /\ archive = NoArchive /\ output = [by |-> "nobody"] /\ wholes = Holding(held, extra)
  /\ edits = 0 /\ rbRestored = FALSE

\* Others, between any two steps. A new file gets an inode nobody has: those
\* that were read are still open.
Edit ==
  /\ rbPc \notin {"accepted", "refused", "clean", "unconfirmed"}
  /\ edits < MaxEdits /\ edits' = edits + 1
  /\ \/ /\ \/ \E e \in EntryNames, b \in Chains \cup {"junk"} :
                \/ held' = [held EXCEPT ![e] = [inode |-> edits + 2, bytes |-> b]]
                \/ held[e] # Missing /\ held' = [held EXCEPT ![e].bytes = b]
           \/ \E e \in EntryNames : held' = [held EXCEPT ![e] = Missing]
        /\ wholes' = wholes \cup Holding(held', extra) /\ UNCHANGED <<extra, archive, output>>
        /\ rbRestored' = (rbRestored \/ \E e \in EntryNames : /\ got[e] # Missing
                                                              /\ held[e] # got[e] /\ held'[e] = got[e])
     \/ /\ extra' = ~extra /\ wholes' = wholes \cup Holding(held, extra')
        /\ UNCHANGED <<held, archive, output, rbRestored>>
     \/ /\ rbPc = "readBack" /\ archive' = [archive EXCEPT !.touched = TRUE]
        /\ UNCHANGED <<held, extra, output, wholes, rbRestored>>
     \/ /\ use = "create" /\ output' = [by |-> "others"]
        /\ UNCHANGED <<held, extra, archive, wholes, rbRestored>>
  /\ UNCHANGED <<rbPc, use, got, at>>

-----------------------------------------------------------------------------
(* verifyBundle *)
Goes(from, to, holds) == rbPc = from /\ rbPc' = IF holds THEN to ELSE "refused"

\* The inventory is read once, canonical, closed and consistent with itself.
InventoryValid(bytes) == bytes \in Chains
ReadInventory ==
  /\ Goes("inventory", "list", InventoryValid(held["inventory"].bytes))
  /\ got' = [got EXCEPT !["inventory"] = held["inventory"]] /\ at' = 2
  /\ UNCHANGED <<use, held, extra, archive, output, wholes, edits, rbRestored>>

\* The directory holds the entries of the inventory and no other: seen before the
\* indexes are read, after that, and once more between two confirmations.
NamesHold == ~extra /\ \A e \in EntryNames : held[e] # Missing
ListEntries ==
  /\ \/ Goes("list", "read", NamesHold) /\ UNCHANGED at
     \/ Goes("listAgain", "confirm", NamesHold) /\ at' = 1
     \/ Goes("listLast", "confirmLast", NamesHold) /\ at' = 1
  /\ UNCHANGED <<use, held, extra, got, archive, output, wholes, edits, rbRestored>>

\* Each index has the digest the inventory gives it; so the chain is the inventory's.
ReadIndex ==
  LET e == Entries[at]   last == at = Len(Entries)
  IN  /\ Goes("read", IF last THEN "listAgain" ELSE "read", held[e].bytes = got["inventory"].bytes)
      /\ got' = [got EXCEPT ![e] = held[e]] /\ at' = IF last THEN at ELSE at + 1
      /\ UNCHANGED <<use, held, extra, archive, output, wholes, edits, rbRestored>>

\* As if what was read were good for the whole verification.
ReadOnce(e) == got[e] # Missing
\* confirmBundleEntry: the name still leads to the inode that was read, with its bytes.
EntryConfirmed(e) == held[e] = got[e]
Verified == IF use = "create" THEN "archive" ELSE "accepted"
Confirm ==
  LET last == at = Len(Entries)
  IN  /\ \/ Goes("confirm", IF last THEN "listLast" ELSE "confirm", EntryConfirmed(Entries[at]))
         \/ Goes("confirmLast", IF last THEN Verified ELSE "confirmLast", EntryConfirmed(Entries[at]))
      /\ at' = IF last THEN at ELSE at + 1
      /\ UNCHANGED <<use, held, extra, got, archive, output, wholes, edits, rbRestored>>

-----------------------------------------------------------------------------
(* createBundle, after it has verified its stage *)
ArchiveStage ==
  /\ rbPc = "archive" /\ rbPc' = "readBack"
  /\ archive' = [files |-> [e \in EntryNames |-> held[e].bytes], extra |-> extra, touched |-> FALSE]
  /\ UNCHANGED <<use, held, extra, got, at, output, wholes, edits, rbRestored>>

StageWasVerified == ~archive.touched
\* The bytes read back have the digest the archiver gave, and the archive holds the
\* snapshots of the source chain and the inventory made of them, in order and no more.
ArchiveExact == ~archive.touched /\ ~archive.extra /\ \A e \in EntryNames : archive.files[e] = "ours"
ReadBackArchive ==
  /\ Goes("readBack", "clear", ArchiveExact)
  /\ UNCHANGED <<use, held, extra, got, at, archive, output, wholes, edits, rbRestored>>

\* Both private stages are removed before anything is published; a failure ends it.
RemoveStages ==
  /\ \/ Goes("clear", "publish", TRUE)
     \/ Goes("clear", "publish", FALSE)
  /\ UNCHANGED <<use, held, extra, got, at, archive, output, wholes, edits, rbRestored>>
\* The bytes are staged beside the output and linked to its name, if nobody has it.
LinkArchive ==
  /\ Goes("publish", "confirmOutput", output.by = "nobody")
  /\ output' = IF output.by = "nobody" THEN [by |-> "us", files |-> archive.files] ELSE output
  /\ UNCHANGED <<use, held, extra, got, at, archive, wholes, edits, rbRestored>>
ConfirmOutput ==
  /\ rbPc = "confirmOutput" /\ rbPc' = IF output.by = "us" THEN "clean" ELSE "unconfirmed"
  /\ UNCHANGED <<use, held, extra, got, at, archive, output, wholes, edits, rbRestored>>

BundleFilesStep ==
  \/ ReadInventory \/ ListEntries \/ ReadIndex \/ Confirm
  \/ ArchiveStage \/ ReadBackArchive \/ RemoveStages \/ LinkArchive \/ ConfirmOutput
BundleFilesNext == Edit \/ BundleFilesStep
BundleFilesSpec == BundleFilesInit /\ [][BundleFilesNext]_rbVars /\ WF_rbVars(BundleFilesStep)

-----------------------------------------------------------------------------
\* A directory is accepted as a bundle only if it was that bundle, every entry of
\* it and no other, at some moment of its verification: never for entries that
\* were each there when they were looked at and never there together, unless a
\* file that had been read was written over in place and back again, which
\* neither its inode nor its bytes show (verifyBundle, confirmBundleEntry).
AcceptedBundleWasWhole ==
  rbPc \in {"accepted", "archive"} /\ ~rbRestored => got["inventory"].bytes \in wholes

\* What is linked to the output name is the source chain that was verified, though
\* its stage was archived after the verification and read back after that.
PublishedArchiveIsExact ==
  output.by = "us" => \A e \in EntryNames : output.files[e] = "ours"
=============================================================================
