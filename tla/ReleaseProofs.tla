--------------------------- MODULE ReleaseProofs ---------------------------
(***************************************************************************)
(* Theorems about what module MCPublication says of a release, for every   *)
(* value of its constants, and of the archives all evidence is packed in:  *)
(* the files of a release bundle, the assets of the release and its chain  *)
(* of evidence.  A step of the whole keeps the part and is a step of it,   *)
(* so that the proof of a part speaks of its variables only.               *)
(***************************************************************************)
EXTENDS MCPublication, FiniteSetTheorems, WellFoundedInduction, TLAPS

\* The part stays, and a step of the whole is one of the part.
LEMMA PartSteps ==
  ASSUME [Next]_allVars
  PROVE  /\ part' = part
         /\ part = "capsule" => Capsule!CapsuleNext \/ UNCHANGED CapsuleVars
         /\ part = "operation" => Operation!OperationNext \/ UNCHANGED OperationVars
         /\ part = "paired" => Paired!PairedNext \/ UNCHANGED PairedVars
         /\ part = "import" => Import!ImportNext \/ UNCHANGED ImportVars
         /\ part = "history" => History!HistoryNext \/ UNCHANGED HistoryVars
         /\ part = "bundle" => Bundle!BundleNext \/ UNCHANGED BundleVars
         /\ part = "release" => Release!ReleaseNext \/ UNCHANGED ReleaseVars
         /\ part = "files" => Files!BundleFilesNext \/ UNCHANGED FilesVars
         /\ part = "assets" => Assets!AssetsNext \/ UNCHANGED AssetsVars
BY DEF Next, allVars, CapsuleAlone, OperationAlone, PairedAlone, ImportAlone, HistoryAlone,
   BundleAlone, ReleaseAlone, FilesAlone, AssetsAlone

LEMMA PartStarts ==
  ASSUME Init
  PROVE  /\ part = "capsule" => Capsule!CapsuleInit
         /\ part = "operation" => Operation!OperationInit
         /\ part = "paired" => Paired!PairedInit
         /\ part = "import" => Import!ImportInit
         /\ part = "history" => History!HistoryInit
         /\ part = "bundle" => Bundle!BundleInit
         /\ part = "release" => Release!ReleaseInit
         /\ part = "files" => Files!BundleFilesInit
         /\ part = "assets" => Assets!AssetsInit
BY DEF Init, CapsuleStarts, OperationStarts, PairedStarts, ImportStarts, HistoryStarts,
   BundleStarts, ReleaseStarts, FilesStarts, AssetsStarts

\* Induction over the natural numbers, stated of a set of them: what the library
\* says of an operator follows of its least counterexample.
LEMMA LeastOf ==
  ASSUME NEW T \in SUBSET Nat, T # {}
  PROVE  \E x \in T : \A y \in T : x <= y
<1> DEFINE Less == {p \in Nat \X Nat : p[1] < p[2]}
<1>1. Less = OpToRel(<, Nat)
  BY DEF OpToRel
<1> HIDE DEF Less
<1>2. IsWellFoundedOn(Less, Nat)
  BY <1>1, NatLessThanWellFounded, Zenon
<1>3. \E x \in T : \A y \in T : <<y, x>> \notin Less
  BY <1>2, WFMin, Zenon
<1>4. PICK x \in T : \A y \in T : <<y, x>> \notin Less
  BY <1>3
<1>5. ASSUME NEW y \in T PROVE x <= y
  <2>1. <<y, x>> \in Nat \X Nat
    OBVIOUS
  <2>2. ~(y < x)
    BY <1>4, <2>1 DEF Less
  <2>3. QED BY <2>2
<1>6. QED BY <1>5

LEMMA AllNaturals ==
  ASSUME NEW S \in SUBSET Nat, 0 \in S, \A n \in S : n + 1 \in S
  PROVE  S = Nat
<1> SUFFICES ASSUME Nat \ S # {} PROVE FALSE
  OBVIOUS
<1>1. PICK x \in Nat \ S : \A y \in Nat \ S : x <= y
  BY LeastOf
<1>2. x - 1 \in Nat /\ x - 1 \notin Nat \ S
  BY <1>1
<1>3. QED BY <1>2

-----------------------------------------------------------------------------
(* The files of an evidence bundle.  What was read of an entry is found    *)
(* under its name again in the last look but one, so that at the last list *)
(* of names each entry either is what was read, or is not and will never   *)
(* be again: another file has another inode, and nobody wrote the old      *)
(* bytes back.  The entries that are not will be met by the last look.     *)

Names == {"inventory", "r0", "r1"}
Bytes == Chains \cup {"ours", "junk", "none"}
FileSet == [inode : Nat, bytes : Bytes]

FilesTypes ==
  /\ rbPc \in {"inventory", "list", "read", "listAgain", "confirm", "listLast", "confirmLast",
               "archive", "readBack", "clear", "publish", "confirmOutput", "clean",
               "unconfirmed", "accepted", "refused"}
  /\ use \in {"create", "verify"} /\ extra \in BOOLEAN /\ at \in 1..3 /\ edits \in Nat
  /\ held \in [Names -> FileSet] /\ got \in [Names -> FileSet]
  /\ rbArchive \in [files : [Names -> Bytes], extra : BOOLEAN, touched : BOOLEAN]
  /\ rbRestored \in BOOLEAN
\* A file that is there has an inode, and none was ever younger than the edits.
Inodes ==
  \A e \in Names : /\ held[e] = Files!Missing \/ held[e].inode \in 1..(edits + 1)
                   /\ got[e] = Files!Missing \/ got[e].inode \in 1..(edits + 1)
WasRead(i) == rbPc \in {"list", "read"} => i < at
ReadOfOne ==
  rbPc \notin {"inventory", "refused"} =>
    /\ got["inventory"].bytes \in Chains
    /\ \A i \in 1..3 : WasRead(i) => /\ got[Files!Entries[i]] # Files!Missing
                                     /\ got[Files!Entries[i]].bytes = got["inventory"].bytes
Reading == rbPc \in {"list", "read"} => at > 1
WholesKept == Files!Holding(held, extra) \subseteq wholes
LookedAtTwice ==
  ~rbRestored =>
    /\ rbPc = "confirmLast" =>
         \/ got["inventory"].bytes \in wholes
         \/ \E i \in at..3 : held[Files!Entries[i]] # got[Files!Entries[i]]
    /\ rbPc \in {"archive", "accepted"} => got["inventory"].bytes \in wholes
OursAlone ==
  /\ rbPc \in {"clear", "publish"} => \A e \in Names : rbArchive.files[e] = "ours"
  /\ output.by = "us" => \A e \in Names : output.files[e] = "ours"

FilesIInv == /\ FilesTypes /\ Inodes /\ ReadOfOne /\ Reading /\ WholesKept /\ LookedAtTwice
             /\ OursAlone

LEMMA EntryTable ==
  /\ Files!EntryNames = Names /\ Len(Files!Entries) = 3
  /\ Files!Entries[1] = "inventory" /\ Files!Entries[2] = "r0" /\ Files!Entries[3] = "r1"
  /\ \A i \in 1..3 : Files!Entries[i] \in Names
  /\ \A e \in Names : \E i \in 1..3 : Files!Entries[i] = e
BY DEF Files!EntryNames, Files!Entries, Names

LEMMA FilesInvInit == Files!BundleFilesInit => FilesIInv
<1> SUFFICES ASSUME Files!BundleFilesInit PROVE FilesIInv
  OBVIOUS
<1> USE EntryTable
<1>1. held \in [Names -> FileSet]
      /\ \A e \in Names : held[e] = Files!Missing \/ held[e].inode = 1
  BY DEF Files!BundleFilesInit, Files!FirstFile, Files!Missing, FileSet, Bytes
<1>2. FilesTypes
  <2>1. Files!Missing \in FileSet /\ "none" \in Bytes
    BY DEF Files!Missing, FileSet, Bytes
  <2>2. Files!NoArchive \in [files : [Names -> Bytes], extra : BOOLEAN, touched : BOOLEAN]
    BY <2>1 DEF Files!NoArchive
  <2>3. got \in [Names -> FileSet]
    BY <2>1 DEF Files!BundleFilesInit
  <2>4. rbPc = "inventory" /\ use \in {"create", "verify"} /\ at \in 1..3
        /\ edits \in Nat /\ rbArchive = Files!NoArchive
    BY DEF Files!BundleFilesInit
  <2>5. extra \in BOOLEAN /\ rbRestored \in BOOLEAN
    BY Zenon DEF Files!BundleFilesInit
  <2>6. QED BY <1>1, <2>2, <2>3, <2>4, <2>5 DEF FilesTypes
<1>3. Inodes
  BY <1>1 DEF Inodes, Files!BundleFilesInit
<1>4. ReadOfOne /\ Reading /\ WholesKept /\ LookedAtTwice /\ OursAlone
  BY DEF ReadOfOne, Reading, WholesKept, LookedAtTwice, OursAlone, Files!BundleFilesInit
<1>5. QED BY <1>2, <1>3, <1>4 DEF FilesIInv

\* What others do to the files between two steps.
LEMMA EditKeeps == FilesIInv /\ Files!Edit => FilesIInv'
<1> SUFFICES ASSUME FilesIInv, Files!Edit PROVE FilesIInv'
  OBVIOUS
<1> USE EntryTable DEF FilesIInv
<1>0. UNCHANGED <<rbPc, use, got, at>> /\ edits' = edits + 1 /\ edits' \in Nat
  BY DEF Files!Edit, FilesTypes
<1> DEFINE Rewrites == /\ UNCHANGED <<extra, rbArchive, output>>
                       /\ wholes' = wholes \cup Files!Holding(held', extra)
                       /\ rbRestored' = (rbRestored \/ \E f \in Names : /\ got[f] # Files!Missing
                                                                       /\ held[f] # got[f] /\ held'[f] = got[f])
                       /\ \E e \in Names :
                            \/ \E b \in Bytes : held' = [held EXCEPT ![e] = [inode |-> edits + 2, bytes |-> b]]
                            \/ \E b \in Bytes : held[e] # Files!Missing /\ held' = [held EXCEPT ![e].bytes = b]
                            \/ held' = [held EXCEPT ![e] = Files!Missing]
           Adds == /\ extra' = ~extra /\ wholes' = wholes \cup Files!Holding(held, extra')
                   /\ UNCHANGED <<held, rbArchive, output, rbRestored>>
           Touches == /\ rbPc = "readBack" /\ rbArchive' = [rbArchive EXCEPT !.touched = TRUE]
                      /\ UNCHANGED <<held, extra, output, wholes, rbRestored>>
           Takes == /\ output' = [by |-> "others"]
                    /\ UNCHANGED <<held, extra, rbArchive, wholes, rbRestored>>
<1>a. Rewrites \/ Adds \/ Touches \/ Takes
  BY ZenonT(30) DEF Files!Edit, Bytes
<1>1. CASE Rewrites
  <2>1. UNCHANGED <<extra, rbArchive, output>> /\ wholes' = wholes \cup Files!Holding(held', extra)
    BY <1>1
  <2>2. PICK e \in Names : \/ \E b \in Bytes : held' = [held EXCEPT ![e] = [inode |-> edits + 2, bytes |-> b]]
                           \/ \E b \in Bytes : /\ held[e] # Files!Missing
                                              /\ held' = [held EXCEPT ![e].bytes = b]
                           \/ held' = [held EXCEPT ![e] = Files!Missing]
    BY <1>1
  <2>3. rbRestored' = (rbRestored \/ \E f \in Names : /\ got[f] # Files!Missing
                                                     /\ held[f] # got[f] /\ held'[f] = got[f])
    BY <1>1
  <2>4. held' \in [Names -> FileSet]
        /\ \A f \in Names : held'[f] = Files!Missing \/ held'[f].inode \in 1..(edits' + 1)
    <3>1. CASE \E b \in Bytes : held' = [held EXCEPT ![e] = [inode |-> edits + 2, bytes |-> b]]
      BY <3>1, <1>0 DEF FilesTypes, Inodes, FileSet
    <3>2. CASE \E b \in Bytes : held[e] # Files!Missing /\ held' = [held EXCEPT ![e].bytes = b]
      BY <3>2, <1>0 DEF FilesTypes, Inodes, FileSet
    <3>3. CASE held' = [held EXCEPT ![e] = Files!Missing]
      BY <3>3, <1>0 DEF FilesTypes, Inodes, FileSet, Bytes, Files!Missing
    <3>4. QED BY <2>2, <3>1, <3>2, <3>3
  <2>5. FilesTypes'
    BY <1>0, <2>1, <2>3, <2>4, Zenon DEF FilesTypes
  <2>6. Inodes'
    BY <1>0, <2>4 DEF Inodes, FilesTypes, FileSet
  <2>7. ReadOfOne' /\ Reading' /\ OursAlone'
    BY <1>0, <2>1 DEF ReadOfOne, WasRead, Reading, OursAlone
  <2>8. WholesKept'
    BY <2>1 DEF WholesKept
  <2>9. LookedAtTwice'
    <3> SUFFICES ASSUME ~rbRestored', rbPc = "confirmLast", got["inventory"].bytes \notin wholes'
                 PROVE  \E i \in at..3 : held'[Files!Entries[i]] # got[Files!Entries[i]]
      BY <1>0, <2>1, <2>3 DEF LookedAtTwice
    <3>1. PICK i \in at..3 : held[Files!Entries[i]] # got[Files!Entries[i]]
      BY <2>1, <2>3 DEF LookedAtTwice
    <3>2. i \in 1..3 /\ got[Files!Entries[i]] # Files!Missing
      BY DEF ReadOfOne, WasRead, FilesTypes
    <3>3. QED BY <2>3, <3>1, <3>2
  <2>10. QED BY <2>5, <2>6, <2>7, <2>8, <2>9
<1>2. CASE Adds
  <2>1. FilesTypes' /\ Inodes'
    BY <1>0, <1>2 DEF FilesTypes, Inodes, FileSet
  <2>2. ReadOfOne' /\ Reading' /\ OursAlone' /\ LookedAtTwice' /\ WholesKept'
    BY <1>0, <1>2 DEF ReadOfOne, WasRead, Reading, OursAlone, LookedAtTwice, WholesKept
  <2>3. QED BY <2>1, <2>2
<1>3. CASE Touches
  <2>1. rbArchive' \in [files : [Names -> Bytes], extra : BOOLEAN, touched : BOOLEAN]
    BY <1>3 DEF FilesTypes
  <2>2. FilesTypes' /\ Inodes'
    BY <1>0, <1>3, <2>1 DEF FilesTypes, Inodes, FileSet
  <2>3. ReadOfOne' /\ Reading' /\ OursAlone' /\ LookedAtTwice' /\ WholesKept'
    BY <1>0, <1>3 DEF ReadOfOne, WasRead, Reading, OursAlone, LookedAtTwice, WholesKept
  <2>4. QED BY <2>2, <2>3
<1>4. CASE Takes
  <2>1. FilesTypes' /\ Inodes'
    BY <1>0, <1>4 DEF FilesTypes, Inodes, FileSet
  <2>2. ReadOfOne' /\ Reading' /\ OursAlone' /\ LookedAtTwice' /\ WholesKept'
    BY <1>0, <1>4 DEF ReadOfOne, WasRead, Reading, OursAlone, LookedAtTwice, WholesKept
  <2>3. QED BY <2>1, <2>2
<1>5. QED BY <1>a, <1>1, <1>2, <1>3, <1>4

\* What was read once is read again, and what is archived is compared.
LEMMA StepKeeps == FilesIInv /\ Files!BundleFilesStep => FilesIInv'
<1> SUFFICES ASSUME FilesIInv, Files!BundleFilesStep PROVE FilesIInv'
  OBVIOUS
<1> USE EntryTable, ChainsAssumption DEF FilesIInv
<1>1. CASE Files!ReadInventory
  <2>1. UNCHANGED <<use, held, extra, rbArchive, output, wholes, edits, rbRestored>> /\ at' = 2
        /\ got' = [got EXCEPT !["inventory"] = held["inventory"]] /\ rbPc = "inventory"
        /\ rbPc' = IF held["inventory"].bytes \in Chains THEN "list" ELSE "refused"
    BY <1>1 DEF Files!ReadInventory, Files!Goes, Files!InventoryValid
  <2>2. FilesTypes' /\ Inodes'
    BY <2>1 DEF FilesTypes, Inodes, Names
  <2>3. rbPc' = "list" => held["inventory"] # Files!Missing
    BY <2>1 DEF Files!Missing
  <2>4. ReadOfOne'
    BY <2>1, <2>3 DEF ReadOfOne, WasRead, FilesTypes, Names
  <2>5. Reading' /\ WholesKept' /\ LookedAtTwice' /\ OursAlone'
    BY <2>1 DEF Reading, WholesKept, LookedAtTwice, OursAlone
  <2>6. QED BY <2>2, <2>4, <2>5
<1>2. CASE Files!ListEntries
  <2>1. UNCHANGED <<use, held, extra, got, rbArchive, output, wholes, edits, rbRestored>>
        /\ \/ rbPc = "list" /\ rbPc' \in {"read", "refused"} /\ at' = at
           \/ rbPc = "listAgain" /\ rbPc' \in {"confirm", "refused"} /\ at' = 1
           \/ rbPc = "listLast" /\ rbPc' \in {"confirmLast", "refused"} /\ at' = 1
    BY <1>2 DEF Files!ListEntries, Files!Goes
  <2>0. rbPc' # "refused" => ~extra
    BY <1>2 DEF Files!ListEntries, Files!Goes, Files!NamesHold
  <2>2. FilesTypes' /\ Inodes'
    BY <2>1 DEF FilesTypes, Inodes
  <2>3. ReadOfOne' /\ Reading' /\ WholesKept' /\ OursAlone'
    BY <2>1 DEF ReadOfOne, WasRead, Reading, WholesKept, OursAlone
  <2>4. LookedAtTwice'
    <3> SUFFICES ASSUME rbPc = "listLast", rbPc' = "confirmLast", at' = 1, ~extra,
                        \A i \in 1..3 : held[Files!Entries[i]] = got[Files!Entries[i]]
                 PROVE  got["inventory"].bytes \in wholes
      BY <2>0, <2>1 DEF LookedAtTwice
    <3>1. \A e \in Names : held[e].bytes = got["inventory"].bytes
      BY DEF ReadOfOne, WasRead
    <3>2. got["inventory"].bytes \in Files!Holding(held, extra)
      BY <3>1 DEF Files!Holding, ReadOfOne
    <3>3. QED BY <3>2 DEF WholesKept
  <2>5. QED BY <2>2, <2>3, <2>4
<1>3. CASE Files!ReadIndex
  <2> DEFINE e == Files!Entries[at]
  <2>1. UNCHANGED <<use, held, extra, rbArchive, output, wholes, edits, rbRestored>>
        /\ got' = [got EXCEPT ![e] = held[e]] /\ rbPc = "read"
        /\ rbPc' \in {"listAgain", "read", "refused"} /\ (rbPc' = "listAgain" => at = 3)
        /\ (rbPc' = "read" => at < 3 /\ at' = at + 1) /\ at' \in 1..3
        /\ (rbPc' # "refused" => held[e].bytes = got["inventory"].bytes)
    BY <1>3 DEF Files!ReadIndex, Files!Goes, FilesTypes
  <2>2. e \in Names /\ at \in 2..3 /\ e # "inventory"
    BY <2>1 DEF FilesTypes, Reading
  <2>3. FilesTypes' /\ Inodes'
    BY <2>1, <2>2 DEF FilesTypes, Inodes
  <2>4. rbPc' # "refused" => held[e] # Files!Missing
    BY <2>1 DEF Files!Missing, ReadOfOne
  <2>5. ReadOfOne'
    <3> SUFFICES ASSUME rbPc' # "refused" PROVE ReadOfOne'
      BY DEF ReadOfOne
    <3>1. got'["inventory"] = got["inventory"] /\ got["inventory"].bytes \in Chains
      BY <2>1, <2>2 DEF ReadOfOne, FilesTypes, Names
    <3>2. ASSUME NEW i \in 1..3, WasRead(i)'
          PROVE  /\ got'[Files!Entries[i]] # Files!Missing
                 /\ got'[Files!Entries[i]].bytes = got["inventory"].bytes
      <4>1. CASE i = at
        BY <4>1, <2>1, <2>2, <2>4 DEF FilesTypes
      <4>2. CASE i # at
        <5>1. i < at
          BY <3>2, <4>2, <2>1, <2>2 DEF WasRead, FilesTypes
        <5>2. got'[Files!Entries[i]] = got[Files!Entries[i]]
          BY <2>1, <2>2, <4>2 DEF FilesTypes, Names
        <5>3. QED BY <5>1, <5>2, <2>1 DEF ReadOfOne, WasRead
      <4>3. QED BY <4>1, <4>2
    <3>3. QED BY <3>1, <3>2 DEF ReadOfOne
  <2>6. Reading' /\ WholesKept' /\ LookedAtTwice' /\ OursAlone'
    BY <2>1, <2>2 DEF Reading, WholesKept, LookedAtTwice, OursAlone, FilesTypes
  <2>7. QED BY <2>3, <2>5, <2>6
<1>4. CASE Files!Confirm
  <2>1. UNCHANGED <<use, held, extra, got, rbArchive, output, wholes, edits, rbRestored>>
        /\ \/ rbPc = "confirm" /\ rbPc' \in {"confirm", "listLast", "refused"}
           \/ /\ rbPc = "confirmLast" /\ rbPc' \in {"confirmLast", "archive", "accepted", "refused"}
              /\ rbPc' # "refused" => held[Files!Entries[at]] = got[Files!Entries[at]]
              /\ rbPc' \in {"archive", "accepted"} => at = 3
              /\ rbPc' = "confirmLast" => at < 3 /\ at' = at + 1
        /\ at' \in 1..3
    <3>1. at \in 1..3 /\ Len(Files!Entries) = 3
      BY DEF FilesTypes
    <3>2. UNCHANGED <<use, held, extra, got, rbArchive, output, wholes, edits, rbRestored>>
          /\ at' = IF at = 3 THEN at ELSE at + 1
      BY <1>4, <3>1 DEF Files!Confirm
    <3>3. CASE Files!Goes("confirm", IF at = 3 THEN "listLast" ELSE "confirm", Files!EntryConfirmed(Files!Entries[at]))
      BY <3>1, <3>2, <3>3 DEF Files!Goes
    <3>4. CASE Files!Goes("confirmLast", IF at = 3 THEN Files!Verified ELSE "confirmLast", Files!EntryConfirmed(Files!Entries[at]))
      BY <3>1, <3>2, <3>4 DEF Files!Goes, Files!EntryConfirmed, Files!Verified
    <3>5. QED BY <1>4, <3>1, <3>3, <3>4 DEF Files!Confirm
  <2>2. FilesTypes' /\ Inodes'
    BY <2>1 DEF FilesTypes, Inodes
  <2>3. ReadOfOne' /\ Reading' /\ WholesKept' /\ OursAlone'
    BY <2>1 DEF ReadOfOne, WasRead, Reading, WholesKept, OursAlone
  <2>4. LookedAtTwice'
    BY <2>1 DEF LookedAtTwice, FilesTypes
  <2>5. QED BY <2>2, <2>3, <2>4
<1>5. CASE Files!ArchiveStage
  <2>1. UNCHANGED <<use, held, extra, got, at, output, wholes, edits, rbRestored>>
        /\ rbPc = "archive" /\ rbPc' = "readBack"
        /\ rbArchive' = [files |-> [e \in Names |-> held[e].bytes], extra |-> extra, touched |-> FALSE]
    BY <1>5 DEF Files!ArchiveStage
  <2>2. rbArchive' \in [files : [Names -> Bytes], extra : BOOLEAN, touched : BOOLEAN]
    BY <2>1 DEF FilesTypes, FileSet
  <2>3. FilesTypes' /\ Inodes'
    BY <2>1, <2>2 DEF FilesTypes, Inodes
  <2>4. ReadOfOne' /\ Reading' /\ WholesKept' /\ OursAlone' /\ LookedAtTwice'
    BY <2>1 DEF ReadOfOne, WasRead, Reading, WholesKept, OursAlone, LookedAtTwice
  <2>5. QED BY <2>3, <2>4
<1>6. CASE Files!ReadBackArchive \/ Files!RemoveStages \/ Files!LinkArchive \/ Files!ConfirmOutput
  <2>1. UNCHANGED <<use, held, extra, got, at, rbArchive, wholes, edits, rbRestored>>
        /\ rbPc \in {"readBack", "clear", "publish", "confirmOutput"}
        /\ rbPc' \in {"clear", "publish", "confirmOutput", "clean", "unconfirmed", "refused"}
    BY <1>6 DEF Files!ReadBackArchive, Files!RemoveStages, Files!LinkArchive, Files!ConfirmOutput,
                Files!Goes
  <2>2. FilesTypes' /\ Inodes'
    BY <2>1 DEF FilesTypes, Inodes
  <2>3. ReadOfOne' /\ Reading' /\ WholesKept' /\ LookedAtTwice'
    BY <2>1 DEF ReadOfOne, WasRead, Reading, WholesKept, LookedAtTwice
  <2>4. OursAlone'
    BY <1>6, <2>1 DEF OursAlone, Files!ReadBackArchive, Files!RemoveStages, Files!LinkArchive,
                Files!ConfirmOutput, Files!Goes, Files!ArchiveExact
  <2>5. QED BY <2>2, <2>3, <2>4
<1>7. QED BY <1>1, <1>2, <1>3, <1>4, <1>5, <1>6 DEF Files!BundleFilesStep

LEMMA FilesInvStays == FilesIInv /\ UNCHANGED FilesVars => FilesIInv'
BY DEF FilesIInv, FilesVars, FilesTypes, Inodes, ReadOfOne, WasRead, Reading, WholesKept,
   LookedAtTwice, OursAlone

LEMMA FilesInvariance == Spec => [](part = "files" => FilesIInv)
<1> DEFINE I == part = "files" => FilesIInv
<1>1. Init => I
  BY PartStarts, FilesInvInit
<1>2. I /\ [Next]_allVars => I'
  BY PartSteps, EditKeeps, StepKeeps, FilesInvStays DEF Files!BundleFilesNext
<1>3. QED BY <1>1, <1>2, PTL DEF Spec

-----------------------------------------------------------------------------
(* What is packed.  The stage is private, and verified after it was copied *)
(* and inventoried: from there to the link it is what its verifier accepts *)
(* whatever is done to the directories it was copied from.                 *)

BundleIInv ==
  /\ bundleKind \in Bundle!BundleKinds
  /\ bundlePc \in {"output", "link", "packed"} => Bundle!BundleVerifies(stage)
  /\ bundlePc = "packed" => archive = [holds |-> stage, by |-> "bundle"]
  /\ bundlePc \in {"copy", "stage", "output", "link", "packed"} => bundleOutput \notin Bundle!Recorded.guarded

LEMMA BundleInvInit == Bundle!BundleInit => BundleIInv
BY DEF Bundle!BundleInit, BundleIInv

LEMMA BundleInvNext == BundleIInv /\ Bundle!BundleNext => BundleIInv'
<1> SUFFICES ASSUME BundleIInv, Bundle!BundleNext PROVE BundleIInv'
  OBVIOUS
<1> USE DEF BundleIInv
<1>0. UNCHANGED <<bundleKind, isArm, bundleOutput>>
  BY DEF Bundle!BundleNext, Bundle!BundleStep, Bundle!VerifyInPlace, Bundle!ResolveOutput,
         Bundle!CopyTree, Bundle!WriteInventory, Bundle!VerifyStage, Bundle!BuildArchive,
         Bundle!PublishFileExclusive, Bundle!EditPart, Bundle!TakeOutput
<1>1. Bundle!Recorded' = Bundle!Recorded
  BY <1>0 DEF Bundle!Recorded
<1> USE <1>0, <1>1 DEF Bundle!BundleVerifies, Bundle!MatchesInventory
<1>2. CASE Bundle!VerifyInPlace \/ Bundle!WriteInventory \/ (\E p \in Bundle!Parts : Bundle!CopyTree(p))
  BY <1>2 DEF Bundle!VerifyInPlace, Bundle!WriteInventory, Bundle!CopyTree
<1>3. CASE Bundle!ResolveOutput
  BY <1>3 DEF Bundle!ResolveOutput
<1>4. CASE Bundle!VerifyStage \/ Bundle!BuildArchive
  BY <1>4 DEF Bundle!VerifyStage, Bundle!BuildArchive
<1>5. CASE Bundle!PublishFileExclusive
  BY <1>5 DEF Bundle!PublishFileExclusive
<1>6. CASE Bundle!TakeOutput
  <2>1. bundlePc # "packed"
    <3>1. archive = Bundle!NoArchive
      BY <1>6 DEF Bundle!TakeOutput
    <3>2. archive.by = "nobody"
      BY <3>1 DEF Bundle!NoArchive
    <3>3. bundlePc = "packed" => archive.by = "bundle"
      OBVIOUS
    <3>4. QED BY <3>2, <3>3
  <2>2. QED BY <1>6, <2>1 DEF Bundle!TakeOutput
<1>7. CASE \E p \in Bundle!Parts : Bundle!EditPart(p)
  BY <1>7 DEF Bundle!EditPart
<1>8. QED BY <1>2, <1>3, <1>4, <1>5, <1>6, <1>7 DEF Bundle!BundleNext, Bundle!BundleStep

LEMMA BundleInvStays == BundleIInv /\ UNCHANGED BundleVars => BundleIInv'
BY DEF BundleIInv, BundleVars, Bundle!BundleVerifies, Bundle!MatchesInventory, Bundle!Recorded,
       Bundle!Intact

LEMMA BundleInvariance == Spec => [](part = "bundle" => BundleIInv)
<1> DEFINE I == part = "bundle" => BundleIInv
<1>1. Init => I
  BY PartStarts, BundleInvInit
<1>2. I /\ [Next]_allVars => I'
  BY PartSteps, BundleInvNext, BundleInvStays
<1>3. QED BY <1>1, <1>2, PTL DEF Spec

\* Each kind but the campaign keeps its output out of all that it copies.
LEMMA GuardsCoverCopies ==
  BundleIInv /\ bundleKind # "campaign" => Bundle!Recorded.copied = Bundle!Recorded.guarded
BY DEF BundleIInv, Bundle!Recorded, Bundle!Recipe, Bundle!BundleKinds, Bundle!HistoryBundle,
       Bundle!ABBundle, Bundle!SeriesBundle, Bundle!OperationBundle, Bundle!ImportBundle,
       Bundle!RunBundle

\* What is packed is what its verifier accepts, and lies outside of it; a directory
\* is accepted as a release bundle only if it was that bundle at some moment, unless
\* a file that had been read was written over and back, and what is linked is the
\* chain that was verified (createBundle of each package, verifyBundle).
THEOREM BundlesAreWhole == Spec => []ArchivesAreWhole
<1>1. FilesIInv => Files!AcceptedBundleWasWhole /\ Files!PublishedArchiveIsExact
  BY EntryTable DEF FilesIInv, LookedAtTwice, OursAlone, Files!AcceptedBundleWasWhole,
                    Files!PublishedArchiveIsExact
<1>2. BundleIInv => Bundle!PackedBundleVerifies /\ Bundle!OutputLeavesEvidence
  BY GuardsCoverCopies DEF BundleIInv, Bundle!PackedBundleVerifies, Bundle!OutputLeavesEvidence,
                           Bundle!BundleVerifies
<1>3. (part = "files" => FilesIInv) /\ (part = "bundle" => BundleIInv) => ArchivesAreWhole
  BY <1>1, <1>2 DEF ArchivesAreWhole
<1>4. QED BY <1>3, FilesInvariance, BundleInvariance, PTL
-----------------------------------------------------------------------------
(* The assets of a release.  What was verified is the private copy, and    *)
(* the copy is the inventory: what the manifest says of the one holds for  *)
(* the other.  In a directory nobody disturbs, every look at a file shows  *)
(* what the builder left, so that of a release made of one tree nothing is *)
(* refused.                                                                *)

\* From the provider's list on, and from the last copy on.
Listed == {"entries", "copy", "entriesAgain", "verify", "directory", "derive", "close", "index", "done"}
Copied == {"entriesAgain", "verify", "directory", "derive", "close", "index", "done"}
AssetsTypes ==
  /\ raSwaps \in Nat /\ raNext \in 1..5
  /\ DOMAIN raDir = {"archive", "sbom", "sums", "meta", "manifest", "extra"}
  /\ DOMAIN made = {"archives", "sboms", "sums", "pack", "go"}
  /\ DOMAIN copied = Assets!ReleaseFiles
  /\ raPc \notin Copied \cup {"copy", "refused"} => raNext = 1
\* From the verification of the copy on.
CopyVerified == raPc \in {"directory", "derive", "close", "index", "done"} => Assets!VerifyCopy
CopyIsInventory ==
  raPc \in {"derive", "close", "index", "done"} =>
    Assets!InventoryBinds /\ \A f \in Assets!ReleaseFiles : copied[f] = raInventory[f]
Derived ==
  raPc \in {"close", "index", "done"} =>
    candidate = [commit |-> Assets!Given.commit, pack |-> copied.manifest.pack, fingerprint |-> raInventory]
\* In a directory nobody disturbed: what is there, what Create has read of it, what
\* it wrote, what the provider listed, and what is copied.
QuietDirectory ==
  /\ raDir.archive = raDir.sums /\ raDir.sbom = raDir.sums /\ raDir.extra = FALSE
  /\ raPc # "sums" => made.sums = raDir.sums
ReadByCreate ==
  /\ raPc \notin {"sums", "archives", "refused"} => made.archives = raDir.archive
  /\ raPc \notin {"sums", "archives", "packs", "refused"} => made.pack = Assets!Given.pack
  /\ raPc \notin {"sums", "archives", "packs", "toolchains", "refused"} =>
       made.go = Assets!ToolchainOf(raDir.archive)
  /\ raPc \notin {"sums", "archives", "packs", "toolchains", "sboms", "refused"} => made.sboms = raDir.sbom
Published ==
  /\ raPc \in Listed \cup {"publish", "inventory"} => raDir.manifest = made
  /\ raPc \in Listed \cup {"inventory"} => raDir.meta = [sbom |-> raDir.sbom, manifest |-> raDir.manifest]
  /\ raPc \in Listed => \A f \in Assets!ReleaseFiles : raInventory[f] = raDir[f]
  /\ raPc \in Copied => \A f \in Assets!ReleaseFiles : copied[f] = raDir[f]
  /\ raPc \in {"entries", "copy"} => \A i \in 1..5 : i < raNext => copied[Assets!Assets[i]] = raDir[Assets!Assets[i]]
NeverRefused ==
  raPc = "refused" /\ (\A p \in Platforms : made.sums[p] = "a") => candidate.pack # Assets!Absent

AssetsIInv == /\ AssetsTypes /\ CopyVerified /\ CopyIsInventory /\ Derived
              /\ indexed => raPc = "done"
              /\ raSwaps = 0 => QuietDirectory /\ ReadByCreate /\ Published /\ NeverRefused

LEMMA AssetTable ==
  /\ Len(Assets!Assets) = 5 /\ Assets!ReleaseFiles = {"archive", "sbom", "sums", "meta", "manifest"}
  /\ Assets!Assets[1] = "archive" /\ Assets!Assets[2] = "sbom" /\ Assets!Assets[3] = "sums"
  /\ Assets!Assets[4] = "meta" /\ Assets!Assets[5] = "manifest"
BY DEF Assets!Assets, Assets!ReleaseFiles

LEMMA AssetsCardinality == \A S : Assets!Cardinality(S) = Cardinality(S)
BY DEF Assets!Cardinality, Cardinality

\* What the tree of "a" gives: one toolchain, one pack, one commit.
LEMMA OneTree ==
  ASSUME NEW b, \A p \in Platforms : b[p] = "a"
  PROVE  /\ Assets!PacksAre(b, Assets!Given.pack) /\ Assets!OneToolchain(b)
         /\ Assets!DocumentsHold(b, b)
<1>1. Assets!PacksAre(b, Assets!Given.pack) /\ Assets!DocumentsHold(b, b)
  BY DEF Assets!PacksAre, Assets!DocumentsHold, Assets!Given
<1>2. {Facts[b[p]].go : p \in Platforms} = {Facts["a"].go}
  BY PlatformsAssumption
<1>3. Assets!OneToolchain(b)
  BY <1>2, FS_Singleton, AssetsCardinality DEF Assets!OneToolchain
<1>4. QED BY <1>1, <1>3

LEMMA AssetsInvInit == Assets!AssetsInit => AssetsIInv
<1> SUFFICES ASSUME Assets!AssetsInit PROVE AssetsIInv
  OBVIOUS
<1>1. PICK b \in [Platforms -> Builds] :
        raDir = [archive |-> b, sbom |-> b, sums |-> b, meta |-> Assets!Absent,
                 manifest |-> Assets!Absent, extra |-> FALSE]
  BY DEF Assets!AssetsInit
<1>2. raPc = "sums" /\ made = Assets!NoManifest /\ copied = Assets!NoFiles /\ raNext = 1
      /\ raSwaps = 0
  BY DEF Assets!AssetsInit
<1>3. indexed = FALSE
  BY DEF Assets!AssetsInit
<1>4. AssetsTypes
  BY <1>1, <1>2 DEF AssetsTypes, Copied, Assets!NoManifest, Assets!NoFiles
<1>5. QuietDirectory
  BY <1>1, <1>2 DEF QuietDirectory
<1>6. CopyVerified /\ CopyIsInventory /\ Derived /\ ReadByCreate /\ Published /\ NeverRefused
  BY <1>2 DEF CopyVerified, CopyIsInventory, Derived, ReadByCreate, Published, NeverRefused,
              Listed, Copied
<1>7. QED BY <1>3, <1>4, <1>5, <1>6, Zenon DEF AssetsIInv

\* What others put in the directory ends the quiet, and is not in the copy.
LEMMA SwapKeeps == AssetsIInv /\ Assets!Swap => AssetsIInv'
<1> SUFFICES ASSUME AssetsIInv, Assets!Swap PROVE AssetsIInv'
  OBVIOUS
<1> USE DEF AssetsIInv
<1>1. /\ UNCHANGED <<raPc, made, raInventory, raNext, copied, candidate, indexed>>
      /\ raSwaps' = raSwaps + 1 /\ raPc # "done"
  BY DEF Assets!Swap
<1>2. raSwaps' \in Nat /\ raSwaps' # 0
  BY <1>1 DEF AssetsTypes, Copied
<1>3. DOMAIN raDir' = DOMAIN raDir
  BY DEF Assets!Swap
<1>4. AssetsTypes'
  BY <1>1, <1>2, <1>3 DEF AssetsTypes, Copied
<1>5. CopyVerified' /\ CopyIsInventory' /\ Derived'
  BY <1>1 DEF CopyVerified, CopyIsInventory, Derived, Assets!VerifyCopy, Assets!VerifyNames,
              Assets!Coverage, Assets!PacksAre, Assets!OneToolchain, Assets!ToolchainOf,
              Assets!DocumentsHold, Assets!InventoryBinds
<1>6. QED BY <1>1, <1>2, <1>4, <1>5

\* Create: each step reads once more what the builder left.
LEMMA CreateKeeps ==
  ASSUME AssetsIInv,
         \/ Assets!ReadSums \/ Assets!HashArchives \/ Assets!InspectPacks \/ Assets!InspectToolchains
         \/ Assets!HashSBOMs \/ Assets!VerifyDocuments \/ Assets!DigestSums
  PROVE  AssetsIInv'
<1> USE DEF AssetsIInv
<1>1. /\ UNCHANGED <<raDir, raInventory, copied, raNext, candidate, indexed, raSwaps>>
      /\ raPc \in {"sums", "archives", "packs", "toolchains", "sboms", "documents", "digest"}
      /\ raPc' \in {"archives", "packs", "toolchains", "sboms", "documents", "digest", "write", "refused"}
  BY DEF Assets!CreateStep, Assets!ReadSums, Assets!HashArchives, Assets!InspectPacks, Assets!InspectToolchains,
         Assets!HashSBOMs, Assets!VerifyDocuments, Assets!DigestSums
<1>2. DOMAIN made' = DOMAIN made
  BY DEF Assets!CreateStep, Assets!ReadSums, Assets!HashArchives, Assets!InspectPacks, Assets!InspectToolchains,
         Assets!HashSBOMs, Assets!VerifyDocuments, Assets!DigestSums
<1>3. AssetsTypes'
  BY <1>1, <1>2 DEF AssetsTypes, Copied
<1>4. CopyVerified' /\ CopyIsInventory' /\ Derived' /\ (indexed' => raPc' = "done")
  BY <1>1 DEF CopyVerified, CopyIsInventory, Derived
<1>5. ASSUME raSwaps = 0 PROVE QuietDirectory' /\ ReadByCreate' /\ Published' /\ NeverRefused'
  <2> USE <1>5 DEF AssetsTypes
  <2>1. QuietDirectory'
    BY <1>1 DEF QuietDirectory, Assets!CreateStep, Assets!ReadSums, Assets!HashArchives, Assets!InspectPacks,
                Assets!InspectToolchains, Assets!HashSBOMs, Assets!VerifyDocuments, Assets!DigestSums
  <2>2. Published'
    BY <1>1 DEF Published, Listed, Copied
  <2>3. ReadByCreate'
    BY <1>1 DEF ReadByCreate, Assets!CreateStep, Assets!ReadSums, Assets!HashArchives, Assets!InspectPacks,
                Assets!InspectToolchains, Assets!HashSBOMs, Assets!VerifyDocuments, Assets!DigestSums,
                Assets!ToolchainOf
  <2>4. NeverRefused'
    <3> SUFFICES ASSUME raPc' = "refused", \A p \in Platforms : made'.sums[p] = "a" PROVE FALSE
      BY DEF NeverRefused
    <3>1. raPc # "sums" /\ made'.sums = raDir.sums
      BY <2>1, <1>1 DEF QuietDirectory, Assets!CreateStep, Assets!ReadSums, Assets!HashArchives, Assets!InspectPacks,
                  Assets!InspectToolchains, Assets!HashSBOMs, Assets!VerifyDocuments, Assets!DigestSums
    <3>2. \A p \in Platforms : raDir.archive[p] = "a"
      BY <3>1 DEF QuietDirectory
    <3>3. /\ Assets!PacksAre(raDir.archive, Assets!Given.pack) /\ Assets!OneToolchain(raDir.archive)
          /\ Assets!DocumentsHold(raDir.sbom, raDir.archive)
      BY <3>2, OneTree DEF QuietDirectory
    <3>4. Assets!Coverage(raDir.archive, made.sums)
      BY <3>1 DEF Assets!Coverage, QuietDirectory
    <3>5. QED BY <3>1, <3>3, <3>4 DEF Assets!CreateStep, Assets!ReadSums, Assets!HashArchives, Assets!InspectPacks,
                  Assets!InspectToolchains, Assets!HashSBOMs, Assets!VerifyDocuments, Assets!DigestSums
  <2>5. QED BY <2>1, <2>2, <2>3, <2>4
<1>6. QED BY <1>1, <1>3, <1>4, <1>5

\* What is published, listed and copied.
LEMMA PublishKeeps ==
  ASSUME AssetsIInv,
         Assets!WriteManifest \/ Assets!PublishAssets \/ Assets!CaptureInventory \/ Assets!RequireEntries
  PROVE  AssetsIInv'
<1> USE DEF AssetsIInv
<1>1. /\ UNCHANGED <<made, copied, raNext, candidate, indexed, raSwaps>>
      /\ raPc \in {"write", "publish", "inventory", "entries", "entriesAgain"}
      /\ raPc' \in {"publish", "inventory", "entries", "copy", "verify", "refused"}
  BY DEF Assets!WriteManifest, Assets!PublishAssets, Assets!CaptureInventory, Assets!RequireEntries
<1>2. DOMAIN raDir' = DOMAIN raDir
  BY DEF Assets!WriteManifest, Assets!PublishAssets, Assets!CaptureInventory, Assets!RequireEntries
<1>3. AssetsTypes'
  BY <1>1, <1>2 DEF AssetsTypes, Copied, Assets!WriteManifest, Assets!PublishAssets, Assets!CaptureInventory,
                        Assets!RequireEntries
<1>4. CopyVerified' /\ CopyIsInventory' /\ Derived' /\ (indexed' => raPc' = "done")
  BY <1>1 DEF CopyVerified, CopyIsInventory, Derived
<1>5. ASSUME raSwaps = 0 PROVE QuietDirectory' /\ ReadByCreate' /\ Published' /\ NeverRefused'
  <2> USE <1>5 DEF AssetsTypes
  <2>1. /\ raDir'.archive = raDir.archive /\ raDir'.sbom = raDir.sbom /\ raDir'.sums = raDir.sums
        /\ raDir'.extra = raDir.extra
    BY DEF Assets!WriteManifest, Assets!PublishAssets, Assets!CaptureInventory, Assets!RequireEntries
  <2>2. QuietDirectory' /\ ReadByCreate'
    BY <1>1, <2>1 DEF QuietDirectory, ReadByCreate, Assets!ToolchainOf
  <2>3. raPc' # "refused"
    BY DEF QuietDirectory, Assets!WriteManifest, Assets!PublishAssets, Assets!CaptureInventory, Assets!RequireEntries
  <2>4. Published'
    <3>1. CASE Assets!WriteManifest
      BY <3>1, <1>1 DEF Assets!WriteManifest, Published, Listed, Copied
    <3>2. CASE Assets!PublishAssets
      BY <3>2, <1>1 DEF Assets!PublishAssets, Published, Listed, Copied
    <3>3. CASE Assets!CaptureInventory
      BY <3>3, <1>1, AssetTable DEF Assets!CaptureInventory, Published, Listed, Copied
    <3>4. CASE Assets!RequireEntries
      BY <3>4, <1>1 DEF Assets!RequireEntries, Published, Listed, Copied
    <3>5. QED BY <3>1, <3>2, <3>3, <3>4
  <2>5. QED BY <2>2, <2>3, <2>4 DEF NeverRefused
<1>6. QED BY <1>1, <1>3, <1>4, <1>5

\* The copy: each asset is the one listed.
LEMMA CopyKeeps == AssetsIInv /\ Assets!CopyAsset => AssetsIInv'
<1> SUFFICES ASSUME AssetsIInv, Assets!CopyAsset PROVE AssetsIInv'
  OBVIOUS
<1> USE AssetTable DEF AssetsIInv
<1> DEFINE f == Assets!Assets[raNext]
<1>1. /\ UNCHANGED <<raDir, made, raInventory, candidate, indexed, raSwaps>>
      /\ raPc = "copy" /\ copied' = [copied EXCEPT ![f] = raDir[f]]
      /\ raPc' = IF raDir[f] # raInventory[f] THEN "refused"
                 ELSE IF raNext = 5 THEN "entriesAgain" ELSE "copy"
      /\ raNext' = IF raNext = 5 THEN raNext ELSE raNext + 1
  BY DEF Assets!CopyAsset
<1>2. f \in Assets!ReleaseFiles /\ f \in DOMAIN copied
  BY DEF AssetsTypes
<1>3. AssetsTypes'
  BY <1>1 DEF AssetsTypes, Copied
<1>4. CopyVerified' /\ CopyIsInventory' /\ Derived' /\ (indexed' => raPc' = "done")
  BY <1>1 DEF CopyVerified, CopyIsInventory, Derived
<1>5. ASSUME raSwaps = 0 PROVE QuietDirectory' /\ ReadByCreate' /\ Published' /\ NeverRefused'
  <2> USE <1>5
  <2>1. raPc' # "refused"
    BY <1>1, <1>2 DEF Published, Listed
  <2>2. QuietDirectory' /\ ReadByCreate' /\ NeverRefused'
    BY <1>1, <2>1 DEF QuietDirectory, ReadByCreate, NeverRefused, Assets!ToolchainOf
  <2>3. \A i \in 1..5 : i <= raNext => copied'[Assets!Assets[i]] = raDir[Assets!Assets[i]]
    <3> SUFFICES ASSUME NEW i \in 1..5, i <= raNext
                 PROVE  copied'[Assets!Assets[i]] = raDir[Assets!Assets[i]]
      OBVIOUS
    <3>1. CASE i = raNext
      BY <1>1, <1>2, <3>1
    <3>2. CASE i # raNext
      <4>1. copied[Assets!Assets[i]] = raDir[Assets!Assets[i]] /\ Assets!Assets[i] # f
        BY <1>1, <3>2 DEF Published, AssetsTypes
      <4>2. Assets!Assets[i] \in DOMAIN copied
        BY DEF AssetsTypes
      <4>3. QED BY <1>1, <4>1, <4>2
    <3>3. QED BY <3>1, <3>2
  <2>4. raPc' \in Copied => \A g \in Assets!ReleaseFiles : copied'[g] = raDir[g]
    BY <1>1, <2>3 DEF Copied
  <2>5. Published'
    BY <1>1, <2>1, <2>3, <2>4 DEF Published, Listed, Copied, AssetsTypes
  <2>6. QED BY <2>2, <2>5
<1>6. QED BY <1>1, <1>3, <1>4, <1>5

\* What is verified of the copy, derived from it and indexed.
LEMMA VerifyKeeps ==
  ASSUME AssetsIInv,
         \/ Assets!VerifyManifest \/ Assets!VerifyAssets \/ Assets!DeriveCandidate
         \/ Assets!CloseCopy \/ Assets!WriteIndex
  PROVE  AssetsIInv'
<1> USE DEF AssetsIInv
<1>1. /\ UNCHANGED <<raDir, made, raInventory, copied, raNext, raSwaps>>
      /\ raPc \in {"verify", "directory", "derive", "close", "index"}
      /\ raPc' \in {"directory", "derive", "close", "index", "done", "refused"}
  BY DEF Assets!VerifyManifest, Assets!VerifyAssets, Assets!DeriveCandidate, Assets!CloseCopy, Assets!WriteIndex
<1>2. AssetsTypes'
  BY <1>1 DEF AssetsTypes, Copied
<1>3. Assets!VerifyCopy' = Assets!VerifyCopy /\ Assets!InventoryBinds' = Assets!InventoryBinds
  BY <1>1 DEF Assets!VerifyCopy, Assets!VerifyNames, Assets!Coverage, Assets!PacksAre, Assets!OneToolchain,
              Assets!ToolchainOf, Assets!DocumentsHold, Assets!InventoryBinds
<1>4. CopyVerified' /\ CopyIsInventory' /\ Derived' /\ (indexed' => raPc' = "done")
  BY <1>1, <1>3 DEF CopyVerified, CopyIsInventory, Derived, Assets!VerifyManifest, Assets!VerifyAssets,
                    Assets!DeriveCandidate, Assets!CloseCopy, Assets!WriteIndex
<1>5. ASSUME raSwaps = 0 PROVE QuietDirectory' /\ ReadByCreate' /\ Published' /\ NeverRefused'
  <2> USE <1>5
  <2>1. QuietDirectory' /\ ReadByCreate' /\ Published'
    BY <1>1 DEF QuietDirectory, ReadByCreate, Published, Listed, Copied, Assets!ToolchainOf
  <2>2. NeverRefused'
    <3> SUFFICES ASSUME raPc' = "refused", \A p \in Platforms : made.sums[p] = "a"
                 PROVE  candidate'.pack # Assets!Absent
      BY <1>1 DEF NeverRefused
    <3>1. made.sums = raDir.sums /\ raDir.archive = raDir.sums /\ raDir.sbom = raDir.sums
          /\ made.archives = raDir.archive /\ made.pack = Assets!Given.pack
          /\ made.go = Assets!ToolchainOf(raDir.archive) /\ made.sboms = raDir.sbom
      BY <1>1 DEF QuietDirectory, ReadByCreate
    <3>2. \A f \in Assets!ReleaseFiles : copied[f] = raDir[f] /\ raInventory[f] = raDir[f]
      BY <1>1 DEF Published, Listed, Copied
    <3>3. copied.manifest = made /\ copied.archive = raDir.archive /\ copied.sbom = raDir.archive
          /\ copied.sums = raDir.archive
          /\ raInventory.archive = raDir.archive /\ raInventory.sbom = raDir.archive
          /\ raInventory.sums = raDir.archive
          /\ copied.meta = [sbom |-> raDir.sbom, manifest |-> raDir.manifest] /\ raDir.manifest = made
      BY <1>1, <3>1, <3>2, AssetTable DEF Published, Listed
    <3>4. Assets!VerifyCopy
      BY <3>1, <3>3, OneTree DEF Assets!VerifyCopy, Assets!VerifyNames, Assets!Coverage
    <3>5. Assets!InventoryBinds /\ Assets!MetadataCovers
      BY <3>1, <3>3 DEF Assets!InventoryBinds, Assets!MetadataCovers
    <3>6. Assets!CloseCopy
      BY <3>2, <3>4, <3>5 DEF Assets!VerifyManifest, Assets!VerifyAssets, Assets!DeriveCandidate, Assets!WriteIndex
    <3>7. candidate'.pack = Assets!Given.pack
      BY <3>1, <3>3, <3>6 DEF Derived, Assets!CloseCopy
    <3>8. QED BY <3>7 DEF Assets!Given, Assets!Absent, Facts, Built
  <2>3. QED BY <2>1, <2>2
<1>6. QED BY <1>1, <1>2, <1>4, <1>5

LEMMA AssetsInvStays == AssetsIInv /\ UNCHANGED AssetsVars => AssetsIInv'
BY DEF AssetsIInv, AssetsVars, AssetsTypes, CopyVerified, CopyIsInventory, Derived, QuietDirectory, ReadByCreate,
       Published, NeverRefused, Listed, Copied, Assets!VerifyCopy, Assets!VerifyNames, Assets!Coverage,
       Assets!PacksAre, Assets!OneToolchain, Assets!ToolchainOf, Assets!DocumentsHold, Assets!InventoryBinds

LEMMA AssetsInvariance == Spec => [](part = "assets" => AssetsIInv)
<1> DEFINE I == part = "assets" => AssetsIInv
<1>1. Init => I
  BY PartStarts, AssetsInvInit
<1>2. I /\ [Next]_allVars => I'
  BY PartSteps, SwapKeeps, CreateKeeps, PublishKeeps, CopyKeeps, VerifyKeeps, AssetsInvStays DEF Assets!AssetsNext
<1>3. QED BY <1>1, <1>2, PTL DEF Spec

\* An index is written for one distribution only, however many files were exchanged
\* while it was summed, listed and copied, and of a release of one tree that nobody
\* disturbed nothing is refused (releasemanifest.Create, Verify, VerifyDirectory).
THEOREM OneDistribution == Spec => []DistributionIsOne
<1>1. AssetsIInv => Assets!IndexedIsOneDistribution
  <2> SUFFICES ASSUME AssetsIInv, indexed PROVE Assets!IndexedIsOneDistribution
    BY DEF Assets!IndexedIsOneDistribution
  <2>1. Assets!VerifyCopy /\ \A f \in Assets!ReleaseFiles : copied[f] = raInventory[f]
    BY DEF AssetsIInv, CopyVerified, CopyIsInventory
  <2>2. candidate = [commit |-> Assets!Given.commit, pack |-> copied.manifest.pack, fingerprint |-> raInventory]
    BY DEF AssetsIInv, Derived
  <2>3. /\ raInventory.archive = copied.archive /\ raInventory.sbom = copied.sbom
        /\ raInventory.sums = copied.sums /\ raInventory.manifest = copied.manifest
    BY <2>1, AssetTable
  <2>4. QED BY <2>1, <2>2, <2>3 DEF Assets!IndexedIsOneDistribution, Assets!VerifyCopy, Assets!VerifyNames,
                                    Assets!Coverage, Assets!PacksAre, Assets!DocumentsHold
<1>2. AssetsIInv => Assets!QuietReleaseIsAccepted
  BY DEF AssetsIInv, NeverRefused, Assets!QuietReleaseIsAccepted
<1>3. (part = "assets" => AssetsIInv) => DistributionIsOne
  BY <1>1, <1>2 DEF DistributionIsOne
<1>4. QED BY <1>3, AssetsInvariance, PTL
-----------------------------------------------------------------------------
(* The chain of evidence.  An index, honest or forged, has evidence nobody *)
(* authenticated, or none; a chain that begins open and whose revisions    *)
(* each add one piece of it is honest, whether it was verified or is what  *)
(* attachers, each from the revision it read, linked to the one free name. *)

Evident(e, g) ==
  /\ DOMAIN e = {"status", "at", "digest", "subject", "adapter", "assurance"}
  /\ e.status # "open" /\ e.assurance = "operator-attested" /\ e.at \in Nat
  /\ g \in Release!Pilots => e.subject # Release!Nobody
Sound(index) ==
  /\ DOMAIN index = {"rev", "prev", "candidate", "gates", "at", "decision", "record"}
  /\ index.at \in Nat /\ DOMAIN index.gates = scope
  /\ \A g \in scope : index.gates[g] = Release!Open \/ Evident(index.gates[g], g)
\* One requirement is closed, and the rest left as it was.
Grows(before, after, g) ==
  /\ before.gates[g] = Release!Open /\ after.gates[g] # Release!Open
  /\ \A f \in scope \ {g} : after.gates[f] = before.gates[f]
  /\ before.at <= after.at
PilotsApart(index) ==
  {"pilot1", "pilot2"} \subseteq Release!Closed(index) =>
    Release!Subject(index, "pilot1") # Release!Subject(index, "pilot2")
Undecided(index) == index.decision = "no-go" /\ PilotsApart(index)

LEMMA ReleaseCardinality == \A S : Release!Cardinality(S) = Cardinality(S)
BY DEF Release!Cardinality, Cardinality

LEMMA EvidentIsNotOpen == \A e, g : Evident(e, g) => e # Release!Open
BY DEF Evident, Release!Open

LEMMA NothingAuthorises ==
  ASSUME NEW index, Sound(index), scope # {}
  PROVE  Release!Outcome(index) = "no-go"
<1> SUFFICES ASSUME \A g \in scope : index.gates[g].status = "passed"
             PROVE  Release!Pending(index)
  BY DEF Release!Outcome
<1>1. PICK g \in scope : TRUE
  OBVIOUS
<1>2. index.gates[g] # Release!Open
  BY DEF Release!Open
<1>3. g \in Release!Closed(index) /\ index.gates[g].assurance = "operator-attested"
  BY <1>2 DEF Release!Closed, Sound, Evident
<1>4. QED BY <1>3 DEF Release!Pending

LEMMA VerifiedIsUndecided ==
  ASSUME NEW index, Sound(index), scope # {}, Release!IndexVerifies(index)
  PROVE  Undecided(index)
<1>1. index.decision = "no-go"
  BY NothingAuthorises DEF Release!IndexVerifies
<1>2. PilotsApart(index)
  <2> SUFFICES ASSUME {"pilot1", "pilot2"} \subseteq Release!Closed(index)
               PROVE  Release!Subject(index, "pilot1") # Release!Subject(index, "pilot2")
    BY DEF PilotsApart
  <2>1. ASSUME NEW p \in {"pilot1", "pilot2"} PROVE Release!Subject(index, p) # Release!Nobody
    BY <2>1 DEF Sound, Evident, Release!Closed, Release!Subject, Release!Pilots
  <2>2. Release!PilotsAgree(index)
    BY DEF Release!IndexVerifies
  <2>3. QED BY <2>1, <2>2 DEF Release!PilotsAgree
<1>3. QED BY <1>1, <1>2 DEF Undecided

\* What the records are.
LEMMA RecordFacts ==
  \A record \in Release!Records :
    record.at \in Nat /\ (record.gate = "pilot" => record.participant # Release!Nobody)
<1> SUFFICES ASSUME NEW record \in Release!Records
             PROVE  record.at \in Nat /\ (record.gate = "pilot" => record.participant # Release!Nobody)
  OBVIOUS
<1>1. CASE record \in Release!Plain
  BY <1>1 DEF Release!Plain, Release!Record
<1>2. CASE record \in Release!Unfit
  BY <1>2 DEF Release!Unfit, Release!Record
<1>3. CASE record \in Release!Retries
  BY <1>3 DEF Release!Retries, Release!Record
<1>4. CASE record \in Release!Adoptions
  <2>1. PICK p \in {"p", "q", "r"}, a \in BOOLEAN, d \in BOOLEAN, t \in {1, 2} : record = Release!Pilot(p, a, d, t)
    BY <1>4, Zenon DEF Release!Adoptions
  <2>2. QED BY <2>1 DEF Release!Pilot, Release!Record, Release!Nobody
<1>5. QED BY <1>1, <1>2, <1>3, <1>4 DEF Release!Records

\* A successor grows by its evidence.
LEMMA SuccessorGrows ==
  ASSUME NEW index, Sound(index), scope # {}, NEW record \in Release!Records, NEW gate \in scope,
         Release!CanAttach(record, index, gate),
         NEW after, after = Release!Successor(index, gate, Release!Evidence(record, gate))
  PROVE  /\ Sound(after) /\ Undecided(after) /\ Grows(index, after, gate)
         /\ after.rev = index.rev + 1 /\ after.prev = index /\ after.candidate = index.candidate
         /\ after.gates[gate] = Release!Evidence(record, gate)
<1> DEFINE e == Release!Evidence(record, gate)
           with == [index EXCEPT !.gates[gate] = e, !.rev = @ + 1, !.prev = index]
           go == Release!Outcome(with)
<1>1. Evident(e, gate) /\ e.at = record.at /\ e.at \in Nat
  <2>1. e.at = record.at /\ e.at \in Nat
    BY RecordFacts DEF Release!Evidence
  <2>2. gate \in Release!Pilots => e.subject # Release!Nobody
    BY RecordFacts DEF Release!CanAttach, Release!Adapts, Release!Evidence
  <2>3. e.status # "open" /\ e.assurance = "operator-attested"
        /\ DOMAIN e = {"status", "at", "digest", "subject", "adapter", "assurance"}
    BY DEF Release!Evidence
  <2>4. QED BY <2>1, <2>2, <2>3 DEF Evident
<1>2. index.gates[gate] = Release!Open /\ Release!IndexVerifies(after)
  BY DEF Release!CanAttach
<1> HIDE DEF e
<1>3. /\ DOMAIN after = DOMAIN index /\ after.gates = [index.gates EXCEPT ![gate] = e]
      /\ after.rev = index.rev + 1 /\ after.prev = index /\ after.candidate = index.candidate
      /\ after.at = Release!Later(index.at, e.at)
  BY DEF Release!Successor, Release!Finalized, Sound, e
<1>4. after.at \in Nat /\ index.at <= after.at
  BY <1>1, <1>3 DEF Release!Later, Sound
<1>5. Sound(after)
  BY <1>1, <1>3, <1>4 DEF Sound
<1>6. Grows(index, after, gate)
  BY <1>1, <1>2, <1>3, <1>4, EvidentIsNotOpen DEF Grows, Sound
<1>7. Undecided(after)
  BY <1>2, <1>5, VerifiedIsUndecided
<1>8. QED BY <1>3, <1>5, <1>6, <1>7 DEF Sound, e

\* A chain whose revisions each grow by one piece of evidence is honest.
LEMMA GrowingIsHonest ==
  ASSUME NEW h \in Nat, NEW chain, DOMAIN chain = 0..h,
         \A r \in 0..h : Sound(chain[r]) /\ Undecided(chain[r]) /\ chain[r].candidate = chain[0].candidate,
         \A g \in scope : chain[0].gates[g] = Release!Open,
         \A r \in 1..h : \E g \in scope : Grows(chain[r - 1], chain[r], g)
  PROVE  Release!Honest(chain)
<1> DEFINE Cl(r) == Release!Closed(chain[r])
           Kept(q, r) == (\A g \in Cl(q) : chain[r].gates[g] = chain[q].gates[g]) /\ chain[q].at <= chain[r].at
           Good == {r \in Nat : r <= h => /\ IsFiniteSet(Cl(r)) /\ Cardinality(Cl(r)) = r
                                          /\ \A q \in 0..r : Kept(q, r)}
<1>1. 0 \in Good
  <2>1. Cl(0) = {}
    BY DEF Release!Closed
  <2>2. Kept(0, 0)
    BY DEF Sound
  <2>3. IsFiniteSet(Cl(0)) /\ Cardinality(Cl(0)) = 0
    BY <2>1, FS_EmptySet
  <2>4. \A q \in 0..0 : Kept(q, 0)
    BY <2>2
  <2>5. QED BY <2>3, <2>4
<1>2. ASSUME NEW r \in Good PROVE r + 1 \in Good
  <2> SUFFICES ASSUME r + 1 <= h
               PROVE  /\ IsFiniteSet(Cl(r + 1)) /\ Cardinality(Cl(r + 1)) = r + 1
                      /\ \A q \in 0..(r + 1) : Kept(q, r + 1)
    BY <1>2
  <2>0. r \in 0..h /\ r + 1 \in 1..h /\ r + 1 \in 0..h /\ (r + 1) - 1 = r
    OBVIOUS
  <2>1. PICK g \in scope : Grows(chain[r], chain[r + 1], g)
    BY <2>0
  <2>2. Cl(r + 1) = Cl(r) \cup {g} /\ g \notin Cl(r)
    BY <2>1 DEF Grows, Release!Closed
  <2>3. IsFiniteSet(Cl(r)) /\ Cardinality(Cl(r)) = r /\ \A q \in 0..r : Kept(q, r)
    OBVIOUS
  <2>4. IsFiniteSet(Cl(r + 1)) /\ Cardinality(Cl(r + 1)) = r + 1
    BY <2>2, <2>3, FS_AddElement, ZenonT(30)
  <2>5. ASSUME NEW q \in 0..(r + 1) PROVE Kept(q, r + 1)
    <3>1. CASE q = r + 1
      BY <2>0, <3>1 DEF Sound
    <3>2. CASE q # r + 1
      <4>1. q \in 0..r /\ q \in 0..h
        BY <2>0, <3>2
      <4>2. \A f \in Cl(q) : f \in scope /\ f # g /\ chain[r].gates[f] = chain[q].gates[f]
        BY <2>1, <2>3, <4>1 DEF Grows, Release!Closed
      <4>3. \A f \in Cl(q) : chain[r + 1].gates[f] = chain[q].gates[f]
        BY <2>1, <4>2 DEF Grows
      <4>4. chain[q].at <= chain[r].at /\ chain[r].at <= chain[r + 1].at
        BY <2>1, <2>3, <4>1 DEF Grows
      <4>5. chain[q].at <= chain[r + 1].at
        BY <2>0, <4>1, <4>4 DEF Sound
      <4>6. QED BY <4>3, <4>5
    <3>3. QED BY <3>1, <3>2
  <2>6. QED BY <2>4, <2>5
<1>3. Good = Nat
  <2>1. Good \in SUBSET Nat
    OBVIOUS
  <2> HIDE DEF Good
  <2>2. QED BY <1>1, <1>2, <2>1, AllNaturals
<1>4. ASSUME NEW r \in 0..h
      PROVE  /\ Cardinality(Cl(r)) = r /\ \A q \in 0..r : Kept(q, r)
             /\ chain[r].candidate = chain[0].candidate /\ Undecided(chain[r])
  BY <1>3
<1>5. \A r \in DOMAIN chain : Release!Cardinality(Cl(r)) = r
  BY <1>4, ReleaseCardinality
<1>6. QED BY <1>4, <1>5 DEF Release!Honest, Undecided, PilotsApart

IsIndex(f) == DOMAIN f = {"file", "inode", "index"} /\ f.file = "index" /\ Sound(f.index)
Attached(before, after) ==
  \E record \in Release!Records, gate \in scope :
    /\ Release!CanAttach(record, before, gate)
    /\ after = Release!Successor(before, gate, Release!Evidence(record, gate))
\* The second attempt names the first one there is.
Retried(index) ==
  "aggregate2" \in Release!Closed(index) =>
    /\ "aggregate1" \in Release!Closed(index)
    /\ \E record \in Release!Records : /\ record.gate = "aggregate2" /\ record.at = index.gates["aggregate2"].at
                                       /\ record.previous = index.gates["aggregate1"].digest

ReleaseTypes ==
  /\ scope \in Release!Scopes /\ meddles \in Nat /\ DOMAIN indexes = 0..MaxRevision
  /\ \A r \in 0..MaxRevision : indexes[r] = Release!NoFile \/ IsIndex(indexes[r])
  /\ DOMAIN attPc = Attachers /\ DOMAIN attRead = Attachers /\ DOMAIN attOut = Attachers
\* What an attacher has derived, and from what.
Attempts ==
  \A a \in Attachers : attPc[a] \in {"derived", "linked"} =>
    /\ IsIndex(attRead[a]) /\ attRead[a].index.rev \in 0..(MaxRevision - 1)
    /\ DOMAIN attOut[a] = {"file", "inode", "index"} /\ attOut[a].file = "index"
    /\ Attached(attRead[a].index, attOut[a].index)
    /\ meddles = 0 => indexes[attRead[a].index.rev] = attRead[a]
\* The line of revisions, while nobody meddles.
Lineage ==
  meddles = 0 =>
    /\ indexes[0] # Release!NoFile /\ Undecided(indexes[0].index)
    /\ \A g \in scope : indexes[0].index.gates[g] = Release!Open
    /\ \A r \in 0..MaxRevision : indexes[r] # Release!NoFile => Retried(indexes[r].index)
    /\ \A r \in 1..MaxRevision : indexes[r] # Release!NoFile =>
         indexes[r - 1] # Release!NoFile /\ Attached(indexes[r - 1].index, indexes[r].index)
\* What the bundler has read, verified and packed.
Verified(chain, h) ==
  /\ DOMAIN chain = 0..h /\ \A r \in 0..h : Sound(chain[r])
  /\ Release!ChainHolds(chain)
Bundled ==
  /\ bundlerPc = "idle" => bundlerAt = 0
  /\ bundlerPc \in {"reading", "confirm"} => head \in 0..MaxRevision
  /\ bundlerPc = "reading" => bundlerAt \in 0..(head + 1) /\ \A r \in 0..(bundlerAt - 1) : IsIndex(snapshots[r])
  /\ bundlerPc = "confirm" => Verified([r \in 0..head |-> snapshots[r].index], head)
  /\ bundlerPc \in {"reconfirm", "clean", "unconfirmed"} => \E h \in Nat : Verified(packed, h)

ReleaseIInv == ReleaseTypes /\ Attempts /\ Lineage /\ Bundled

LEMMA IndexIsThere == \A f : IsIndex(f) => f # Release!NoFile
BY DEF IsIndex, Release!NoFile

LEMMA FileIsIndex == \A index, i : Sound(index) => IsIndex(Release!File(index, i)) /\ Release!File(index, i).index = index
BY DEF IsIndex, Release!File

LEMMA ScopesAreOpen == scope \in Release!Scopes => scope # {}
BY DEF Release!Scopes

\* What an attached revision is.
LEMMA AttachedGrows ==
  ASSUME NEW before, NEW after, Sound(before), scope # {}, Attached(before, after)
  PROVE  /\ Sound(after) /\ Undecided(after) /\ \E g \in scope : Grows(before, after, g)
         /\ after.rev = before.rev + 1 /\ after.prev = before /\ after.candidate = before.candidate
         /\ Retried(before) => Retried(after)
<1>1. PICK record \in Release!Records, gate \in scope :
        /\ Release!CanAttach(record, before, gate)
        /\ after = Release!Successor(before, gate, Release!Evidence(record, gate))
  BY DEF Attached
<1>2. /\ Sound(after) /\ Undecided(after) /\ Grows(before, after, gate)
      /\ after.rev = before.rev + 1 /\ after.prev = before /\ after.candidate = before.candidate
      /\ after.gates[gate] = Release!Evidence(record, gate)
  BY <1>1, SuccessorGrows
<1>3. ASSUME Retried(before), "aggregate2" \in Release!Closed(after) PROVE Retried(after)
  <2>1. CASE gate = "aggregate2"
    <3>1. "aggregate1" \in Release!Closed(before) /\ before.gates["aggregate1"].digest = record.previous
          /\ record.gate = "aggregate2"
      BY <1>1, <2>1 DEF Release!CanAttach, Release!Adapts, Release!BindsFirstAttempt, Release!Pilots
    <3>2. after.gates["aggregate1"] = before.gates["aggregate1"] /\ "aggregate1" \in Release!Closed(after)
      BY <1>2, <2>1, <3>1 DEF Grows, Release!Closed
    <3>3. after.gates["aggregate2"].at = record.at
      BY <1>2, <2>1 DEF Release!Evidence
    <3>4. QED BY <3>1, <3>2, <3>3 DEF Retried
  <2>2. CASE gate # "aggregate2"
    <3>1. "aggregate2" \in Release!Closed(before) /\ after.gates["aggregate2"] = before.gates["aggregate2"]
      BY <1>2, <1>3, <2>2 DEF Grows, Release!Closed
    <3>2. "aggregate1" \in Release!Closed(before) /\ gate # "aggregate1"
      BY <1>2, <1>3, <3>1 DEF Retried, Grows, Release!Closed
    <3>3. after.gates["aggregate1"] = before.gates["aggregate1"] /\ "aggregate1" \in Release!Closed(after)
      BY <1>2, <3>2 DEF Grows, Release!Closed
    <3>4. QED BY <1>3, <3>1, <3>3 DEF Retried
  <2>3. QED BY <2>1, <2>2
<1>4. QED BY <1>2, <1>3 DEF Retried

LEMMA ReleaseInvInit == Release!ReleaseInit => ReleaseIInv
<1> SUFFICES ASSUME Release!ReleaseInit PROVE ReleaseIInv
  OBVIOUS
<1>0. scope \in Release!Scopes /\ scope # {} /\ MaxRevision \in Nat
  BY ScopesAreOpen, RevisionAssumption DEF Release!ReleaseInit
<1>1. /\ Sound(Release!NewIndex) /\ Release!NewIndex.rev = 0 /\ Undecided(Release!NewIndex)
      /\ (\A g \in scope : Release!NewIndex.gates[g] = Release!Open) /\ Retried(Release!NewIndex)
  BY DEF Release!NewIndex, Sound, Release!Created, Undecided, PilotsApart, Retried, Release!Closed
<1>2. PICK index \in {Release!NewIndex} \cup Release!Successors(Release!NewIndex) : indexes = Release!Reached(index)
  BY DEF Release!ReleaseInit
<1>3. index = Release!NewIndex \/ Attached(Release!NewIndex, index)
  BY DEF Release!Successors, Attached
<1>4. Attached(Release!NewIndex, index) => Sound(index) /\ index.rev = 1 /\ index.prev = Release!NewIndex /\ Retried(index)
  BY <1>0, <1>1, AttachedGrows
<1>5. \A r \in 0..MaxRevision :
        \/ r = 0 /\ indexes[r] = Release!File(Release!NewIndex, "attached")
        \/ /\ r = 1 /\ Attached(Release!NewIndex, index)
           /\ indexes[r] = Release!File(index, "attached")
        \/ r # 0 /\ indexes[r] = Release!NoFile
  BY <1>0, <1>1, <1>2, <1>3, <1>4 DEF Release!Reached
<1>6. DOMAIN indexes = 0..MaxRevision /\ \A r \in 0..MaxRevision : indexes[r] = Release!NoFile \/ IsIndex(indexes[r])
  BY <1>0, <1>1, <1>2, <1>4, <1>5, FileIsIndex DEF Release!Reached
<1>7. ReleaseTypes
  BY <1>0, <1>6 DEF ReleaseTypes, Release!ReleaseInit
<1>8. Lineage
  <2>1. indexes[0] = Release!File(Release!NewIndex, "attached")
    BY <1>0, <1>5
  <2>2. \A r \in 0..MaxRevision : indexes[r] # Release!NoFile => Retried(indexes[r].index)
    BY <1>1, <1>4, <1>5, FileIsIndex
  <2>3. \A r \in 1..MaxRevision : indexes[r] # Release!NoFile =>
          indexes[r - 1] # Release!NoFile /\ Attached(indexes[r - 1].index, indexes[r].index)
    <3> SUFFICES ASSUME NEW r \in 1..MaxRevision, indexes[r] # Release!NoFile
                 PROVE  indexes[r - 1] # Release!NoFile /\ Attached(indexes[r - 1].index, indexes[r].index)
      OBVIOUS
    <3>1. r = 1 /\ Attached(Release!NewIndex, index) /\ indexes[r] = Release!File(index, "attached")
      BY <1>0, <1>5
    <3>2. indexes[r].index = index /\ indexes[r - 1].index = Release!NewIndex /\ indexes[r - 1] # Release!NoFile
      BY <1>1, <1>4, <2>1, <3>1, FileIsIndex, IndexIsThere
    <3>3. QED BY <3>1, <3>2
  <2>4. indexes[0] # Release!NoFile /\ indexes[0].index = Release!NewIndex
    BY <1>1, <2>1, FileIsIndex, IndexIsThere
  <2>5. QED BY <1>1, <2>2, <2>3, <2>4 DEF Lineage
<1>9. Attempts /\ Bundled
  BY DEF Attempts, Bundled, Release!ReleaseInit
<1>10. QED BY <1>7, <1>8, <1>9 DEF ReleaseIInv

\* The scope is that of revision zero for ever, and what is said of an index with it.
LEMMA SameScope ==
  ASSUME scope' = scope
  PROVE  /\ \A x : Sound(x)' <=> Sound(x)
         /\ \A x : Undecided(x)' <=> Undecided(x)
         /\ \A x : Retried(x)' <=> Retried(x)
         /\ \A x, y : Attached(x, y)' <=> Attached(x, y)
         /\ \A x, h : Verified(x, h)' <=> Verified(x, h)
<1> USE DEF Release!Closed, Release!Subject
<1>1. \A x : Sound(x)' <=> Sound(x)
  BY DEF Sound, Evident
<1>2. \A x : Undecided(x)' <=> Undecided(x)
  BY DEF Undecided, PilotsApart
<1>3. \A x : Retried(x)' <=> Retried(x)
  BY DEF Retried
<1>4. \A x : Release!IndexVerifies(x)' <=> Release!IndexVerifies(x)
  BY DEF Release!IndexVerifies, Release!EvidenceHolds, Release!PilotsAgree, Release!Outcome, Release!Pending
<1>5. \A x, g, e : Release!Successor(x, g, e)' = Release!Successor(x, g, e)
  BY DEF Release!Successor, Release!Finalized, Release!Outcome, Release!Pending
<1>6. \A x, y : Attached(x, y)' <=> Attached(x, y)
  <2>1. \A r, x, g : Release!Adapts(r, x, g)' <=> Release!Adapts(r, x, g)
    BY DEF Release!Adapts, Release!BindsFirstAttempt, Release!ControlsBind
  <2>2. \A r, x, g : Release!CanAttach(r, x, g)' <=> Release!CanAttach(r, x, g)
    BY <1>4, <1>5, <2>1 DEF Release!CanAttach
  <2>3. QED BY <1>5, <2>2 DEF Attached
<1>7. \A x : Release!ChainHolds(x)' <=> Release!ChainHolds(x)
  <2>1. \A x, y : Release!TransitionHolds(x, y)' <=> Release!TransitionHolds(x, y)
    BY <1>5 DEF Release!TransitionHolds
  <2>2. Release!NewIndex' = Release!NewIndex
    BY DEF Release!NewIndex
  <2>3. QED BY <1>4, <2>1, <2>2 DEF Release!ChainHolds
<1>8. \A x, h : Verified(x, h)' <=> Verified(x, h)
  BY <1>1, <1>7 DEF Verified
<1>9. QED BY <1>1, <1>2, <1>3, <1>6, <1>8

LEMMA SameBundled ==
  ASSUME scope' = scope, UNCHANGED Release!bundlerState, Bundled
  PROVE  Bundled'
<1> USE SameScope DEF Release!bundlerState
<1>1. \A x : IsIndex(x)' <=> IsIndex(x)
  BY DEF IsIndex
<1>2. QED BY <1>1 DEF Bundled

\* An attacher derives from what it read; links to a free name only; confirms.
LEMMA AttachKeeps ==
  ASSUME ReleaseIInv, NEW a \in Attachers, Release!AttachStep(a)
  PROVE  ReleaseIInv'
<1> USE RevisionAssumption DEF ReleaseIInv
<1>1. /\ UNCHANGED <<cast, scope, Release!bundlerState, meddles>>
      /\ \/ \E r \in 0..MaxRevision : Release!DeriveSuccessor(a, r)
         \/ Release!PublishSuccessor(a) \/ Release!ConfirmSuccessor(a)
  BY DEF Release!AttachStep, Release!DeriveSuccessor, Release!PublishSuccessor, Release!ConfirmSuccessor
<1>2. Bundled' /\ (\A x : IsIndex(x)' <=> IsIndex(x)) /\ scope # {}
  BY <1>1, SameBundled, SameScope, ScopesAreOpen DEF IsIndex, ReleaseTypes
<1>3. CASE \E r \in 0..MaxRevision : Release!DeriveSuccessor(a, r)
  <2>1. PICK r \in 0..MaxRevision : Release!DeriveSuccessor(a, r)
    BY <1>3
  <2>2. indexes' = indexes /\ indexes[r] # Release!NoFile /\ r \in 0..(MaxRevision - 1)
        /\ indexes[r].index.rev = r /\ IsIndex(indexes[r])
    BY <2>1 DEF Release!DeriveSuccessor, ReleaseTypes
  <2>3. DOMAIN attPc' = DOMAIN attPc /\ DOMAIN attRead' = DOMAIN attRead /\ DOMAIN attOut' = DOMAIN attOut
    BY <2>1 DEF Release!DeriveSuccessor
  <2>4. ReleaseTypes' /\ Lineage'
    BY <1>1, <1>2, <2>2, <2>3, SameScope DEF ReleaseTypes, Lineage
  <2>5. ASSUME NEW b \in Attachers, attPc'[b] \in {"derived", "linked"}
        PROVE  /\ IsIndex(attRead'[b]) /\ attRead'[b].index.rev \in 0..(MaxRevision - 1)
               /\ DOMAIN attOut'[b] = {"file", "inode", "index"} /\ attOut'[b].file = "index"
               /\ Attached(attRead'[b].index, attOut'[b].index)
               /\ meddles = 0 => indexes[attRead'[b].index.rev] = attRead'[b]
    <3>1. CASE b = a
      <4>1. PICK record \in Release!Records, gate \in scope :
              /\ Release!CanAttach(record, indexes[r].index, gate)
              /\ attRead' = [attRead EXCEPT ![a] = indexes[r]]
              /\ attOut' = [attOut EXCEPT ![a] = Release!File(Release!Successor(indexes[r].index, gate,
                                                      Release!Evidence(record, gate)), "attached")]
        BY <2>1, <2>5, <3>1 DEF Release!DeriveSuccessor, ReleaseTypes
      <4>2. attRead'[a] = indexes[r]
            /\ attOut'[a] = Release!File(Release!Successor(indexes[r].index, gate, Release!Evidence(record, gate)), "attached")
        BY <4>1 DEF ReleaseTypes
      <4>3. Attached(attRead'[a].index, attOut'[a].index) /\ DOMAIN attOut'[a] = {"file", "inode", "index"}
            /\ attOut'[a].file = "index"
        BY <4>1, <4>2 DEF Attached, Release!File
      <4>4. QED BY <2>2, <3>1, <4>2, <4>3
    <3>2. CASE b # a
      <4>1. attPc'[b] = attPc[b] /\ attRead'[b] = attRead[b] /\ attOut'[b] = attOut[b]
        BY <2>1, <3>2 DEF Release!DeriveSuccessor, ReleaseTypes
      <4>2. QED BY <2>5, <4>1 DEF Attempts
    <3>3. QED BY <3>1, <3>2
  <2>6. Attempts'
    BY <1>1, <1>2, <2>2, <2>5, SameScope DEF Attempts
  <2>7. QED BY <1>2, <2>4, <2>6
<1>4. CASE Release!PublishSuccessor(a)
  <2> DEFINE r == attOut[a].index.rev
  <2>1. /\ IsIndex(attRead[a]) /\ attRead[a].index.rev \in 0..(MaxRevision - 1)
        /\ DOMAIN attOut[a] = {"file", "inode", "index"} /\ attOut[a].file = "index"
        /\ Attached(attRead[a].index, attOut[a].index)
        /\ meddles = 0 => indexes[attRead[a].index.rev] = attRead[a]
    BY <1>4 DEF Attempts, Release!PublishSuccessor
  <2>2. Sound(attOut[a].index) /\ r = attRead[a].index.rev + 1 /\ r \in 1..MaxRevision
        /\ (Retried(attRead[a].index) => Retried(attOut[a].index))
    BY <1>2, <2>1, AttachedGrows DEF IsIndex
  <2>3. IsIndex(attOut[a])
    BY <2>1, <2>2 DEF IsIndex
  <2>4. DOMAIN attPc' = DOMAIN attPc /\ DOMAIN attRead' = DOMAIN attRead /\ DOMAIN attOut' = DOMAIN attOut
        /\ \A b \in Attachers : attPc'[b] \in {"derived", "linked"} =>
             attPc[b] \in {"derived", "linked"} /\ attRead'[b] = attRead[b] /\ attOut'[b] = attOut[b]
    BY <1>4 DEF Release!PublishSuccessor, Release!LinkExclusive, Release!NoAttempt, ReleaseTypes
  <2>5. \/ indexes' = indexes
        \/ indexes[r] = Release!NoFile /\ indexes' = [indexes EXCEPT ![r] = attOut[a]]
    BY <1>4 DEF Release!PublishSuccessor, Release!LinkExclusive
  <2>6. ReleaseTypes'
    BY <1>1, <1>2, <2>2, <2>3, <2>4, <2>5 DEF ReleaseTypes
  <2>7. Attempts'
    <3>1. ASSUME NEW b \in Attachers, attPc'[b] \in {"derived", "linked"}, meddles = 0
          PROVE  indexes'[attRead[b].index.rev] = attRead[b]
      <4>1. indexes[attRead[b].index.rev] = attRead[b] /\ IsIndex(attRead[b]) /\ attRead[b].index.rev \in 0..MaxRevision
        BY <2>4, <3>1 DEF Attempts
      <4>2. attRead[b].index.rev = r => indexes' = indexes
        BY <2>5, <4>1, IndexIsThere
      <4>3. QED BY <2>5, <4>1, <4>2 DEF ReleaseTypes
    <3>2. QED BY <1>1, <1>2, <2>4, <3>1, SameScope DEF Attempts
  <2>8. Lineage'
    <3> SUFFICES ASSUME meddles = 0, indexes[r] = Release!NoFile, indexes' = [indexes EXCEPT ![r] = attOut[a]]
                 PROVE  Lineage'
      BY <1>1, <1>2, <2>5, SameScope DEF Lineage
    <3>1. indexes[r - 1] = attRead[a] /\ r - 1 \in 0..MaxRevision /\ attRead[a] # Release!NoFile
      BY <2>1, <2>2, IndexIsThere
    <3>2. \A q \in 0..MaxRevision : indexes'[q] = IF q = r THEN attOut[a] ELSE indexes[q]
      BY DEF ReleaseTypes
    <3>3. attOut[a] # Release!NoFile
      BY <2>3, IndexIsThere
    <3>4. indexes'[0] = indexes[0]
      BY <2>2, <3>2
    <3>5. \A q \in 0..MaxRevision : indexes'[q] # Release!NoFile => Retried(indexes'[q].index)
      BY <2>2, <3>1, <3>2 DEF Lineage
    <3>6. ASSUME NEW q \in 1..MaxRevision, indexes'[q] # Release!NoFile
          PROVE  indexes'[q - 1] # Release!NoFile /\ Attached(indexes'[q - 1].index, indexes'[q].index)
      <4>1. CASE q = r
        BY <2>1, <3>1, <3>2, <3>3, <4>1
      <4>2. CASE q # r
        <5>1. indexes'[q] = indexes[q] /\ indexes[q - 1] # Release!NoFile
          BY <3>2, <3>6, <4>2 DEF Lineage
        <5>2. q - 1 # r /\ indexes'[q - 1] = indexes[q - 1]
          BY <3>2, <5>1
        <5>3. QED BY <3>6, <5>1, <5>2 DEF Lineage
      <4>3. QED BY <4>1, <4>2
    <3>7. QED BY <1>1, <3>4, <3>5, <3>6, SameScope DEF Lineage
  <2>9. QED BY <1>2, <2>6, <2>7, <2>8
<1>5. CASE Release!ConfirmSuccessor(a)
  <2>1. /\ indexes' = indexes /\ DOMAIN attPc' = DOMAIN attPc /\ DOMAIN attRead' = DOMAIN attRead
        /\ DOMAIN attOut' = DOMAIN attOut
        /\ \A b \in Attachers : attPc'[b] \in {"derived", "linked"} =>
             attPc[b] \in {"derived", "linked"} /\ attRead'[b] = attRead[b] /\ attOut'[b] = attOut[b]
    BY <1>5 DEF Release!ConfirmSuccessor, Release!NoAttempt, ReleaseTypes
  <2>2. ReleaseTypes' /\ Lineage'
    BY <1>1, <1>2, <2>1, SameScope DEF ReleaseTypes, Lineage
  <2>3. Attempts'
    BY <1>1, <1>2, <2>1, SameScope DEF Attempts
  <2>4. QED BY <1>2, <2>2, <2>3
<1>6. QED BY <1>1, <1>3, <1>4, <1>5

\* The bundler reads a file at a time, and verifies what it read.
LEMMA BundlerKeeps ==
  ASSUME ReleaseIInv, Release!StartBundle \/ Release!BundlerStep
  PROVE  ReleaseIInv'
<1> USE RevisionAssumption DEF ReleaseIInv
<1>1. /\ UNCHANGED <<cast, scope, indexes, attPc, attRead, attOut, meddles>>
      /\ \/ Release!StartBundle \/ Release!ReadRevision \/ Release!StageBundle
         \/ Release!PublishBundle \/ Release!FinishBundle
  BY DEF Release!BundlerStep, Release!StartBundle, Release!ReadRevision, Release!StageBundle,
         Release!PublishBundle, Release!FinishBundle, Release!attState
<1>2. \A x : IsIndex(x)' <=> IsIndex(x)
  BY <1>1, SameScope DEF IsIndex
<1>3. ReleaseTypes' /\ Attempts' /\ Lineage'
  BY <1>1, <1>2, SameScope DEF ReleaseTypes, Attempts, Lineage
<1>4. CASE Release!StartBundle
  <2>1. bundlerPc' = "reading" /\ bundlerAt' = 0 /\ head' \in 0..MaxRevision
    BY <1>4 DEF Release!StartBundle, Bundled
  <2>2. bundlerAt' \in 0..(head' + 1)
    <3>1. \A n \in 0..MaxRevision : 0 \in 0..(n + 1)
      OBVIOUS
    <3>2. QED BY <2>1, <3>1
  <2>3. 0..(bundlerAt' - 1) = {}
    BY <2>1
  <2>4. QED BY <1>3, <2>1, <2>2, <2>3 DEF Bundled
<1>5. CASE Release!ReadRevision
  <2>0. bundlerPc = "reading" /\ head \in 0..MaxRevision /\ bundlerAt \in 0..head
        /\ \A r \in 0..(bundlerAt - 1) : IsIndex(snapshots[r])
    BY <1>5 DEF Release!ReadRevision, Bundled
  <2>1. CASE bundlerPc' = "refused"
    BY <1>3, <2>1 DEF Bundled
  <2>2. CASE bundlerPc' # "refused"
    <3>1. /\ bundlerPc' = "reading" /\ head' = head /\ bundlerAt' = bundlerAt + 1
          /\ indexes[bundlerAt] # Release!NoFile
          /\ snapshots' = [r \in 0..bundlerAt |-> IF r = bundlerAt THEN indexes[r] ELSE snapshots[r]]
      BY <1>5, <2>0, <2>2 DEF Release!ReadRevision, Release!BundlerFails
    <3>2. IsIndex(indexes[bundlerAt])
      BY <2>0, <3>1 DEF ReleaseTypes
    <3>3. \A r \in 0..bundlerAt : IsIndex(snapshots'[r])
      BY <2>0, <3>1, <3>2
    <3>4. QED BY <1>2, <1>3, <2>0, <3>1, <3>3 DEF Bundled
  <2>3. QED BY <2>1, <2>2
<1>6. CASE Release!StageBundle
  <2> DEFINE chain == [r \in 0..head |-> snapshots[r].index]
  <2>1. bundlerPc = "reading" /\ head \in 0..MaxRevision /\ bundlerAt = head + 1
        /\ \A r \in 0..head : IsIndex(snapshots[r])
    BY <1>6 DEF Release!StageBundle, Bundled
  <2>2. CASE bundlerPc' = "refused"
    BY <1>3, <2>2 DEF Bundled
  <2>3. CASE bundlerPc' # "refused"
    <3>1. bundlerPc' = "confirm" /\ head' = head /\ snapshots' = snapshots /\ Release!ChainHolds(chain)
      BY <1>6, <2>3 DEF Release!StageBundle, Release!BundlerFails, Release!VerifyBundleChain
    <3>2. Verified(chain, head)
      BY <2>1, <3>1 DEF Verified, IsIndex
    <3> HIDE DEF chain
    <3>3. chain' = chain
      BY <3>1 DEF chain
    <3>4. Verified(chain, head)'
      BY <1>1, <3>1, <3>2, <3>3, SameScope
    <3>5. QED BY <1>3, <2>1, <3>1, <3>4 DEF Bundled, chain
  <2>4. QED BY <2>2, <2>3
<1>7. CASE Release!PublishBundle \/ Release!FinishBundle
  <2>1. CASE bundlerPc' = "refused"
    BY <1>3, <2>1 DEF Bundled
  <2>2. CASE bundlerPc' # "refused"
    <3>1. bundlerPc' \in {"reconfirm", "clean", "unconfirmed"} /\ \E h \in Nat : Verified(packed', h)
      BY <1>7, <2>2 DEF Bundled, Release!PublishBundle, Release!FinishBundle
    <3>2. QED BY <1>1, <1>3, <3>1, SameScope DEF Bundled
  <2>3. QED BY <2>1, <2>2
<1>8. QED BY <1>1, <1>4, <1>5, <1>6, <1>7

\* A forged index still has evidence nobody authenticated, or none.
LEMMA ForgedIsSound ==
  ASSUME NEW index, Sound(index), NEW forged \in Release!Forged(index)
  PROVE  Sound(forged)
<1> USE DEF Sound
<1>1. CASE \E g \in Release!Closed(index) : forged = [index EXCEPT !.gates[g] = Release!Open]
  BY <1>1 DEF Release!Closed
<1>2. CASE \E g \in Release!Closed(index) : forged = [index EXCEPT !.gates[g].subject = "q"]
  <2>1. PICK g \in Release!Closed(index) : forged = [index EXCEPT !.gates[g].subject = "q"]
    BY <1>2
  <2>2. g \in scope /\ Evident(index.gates[g], g)
    BY DEF Release!Closed
  <2>3. Evident([index.gates[g] EXCEPT !.subject = "q"], g)
    BY <2>2 DEF Evident, Release!Nobody
  <2>4. /\ DOMAIN forged = DOMAIN index /\ forged.at = index.at
        /\ forged.gates = [index.gates EXCEPT ![g] = [index.gates[g] EXCEPT !.subject = "q"]]
    BY <2>1
  <2>5. QED BY <2>2, <2>3, <2>4
<1>3. CASE forged \in {[index EXCEPT !.decision = "go", !.record = "complete"], [index EXCEPT !.candidate = "other"]}
  BY <1>3
<1>4. QED BY <1>1, <1>2, <1>3 DEF Release!Forged

LEMMA MeddleKeeps ==
  ASSUME ReleaseIInv, Release!Meddle
  PROVE  ReleaseIInv'
<1> USE RevisionAssumption DEF ReleaseIInv
<1>1. /\ UNCHANGED <<cast, scope, attPc, attRead, attOut, Release!bundlerState>>
      /\ meddles' = meddles + 1 /\ meddles' \in Nat /\ meddles' # 0
  BY DEF Release!Meddle, Release!attState, ReleaseTypes
<1>2. Bundled' /\ (\A x : IsIndex(x)' <=> IsIndex(x))
  BY <1>1, SameBundled, SameScope DEF IsIndex
<1>3. PICK r \in 0..MaxRevision :
        /\ indexes[r] # Release!NoFile
        /\ \/ indexes' = [indexes EXCEPT ![r] = Release!NoFile]
           \/ indexes' = [indexes EXCEPT ![r].inode = "meddler"]
           \/ \E index \in Release!Forged(indexes[r].index) : indexes' = [indexes EXCEPT ![r].index = index]
  BY DEF Release!Meddle
<1>4. IsIndex(indexes[r])
  BY <1>3 DEF ReleaseTypes
<1>5. DOMAIN indexes' = 0..MaxRevision /\ (\A q \in 0..MaxRevision : q # r => indexes'[q] = indexes[q])
      /\ (indexes'[r] = Release!NoFile \/ IsIndex(indexes'[r]))
  <2>1. CASE indexes' = [indexes EXCEPT ![r] = Release!NoFile] \/ indexes' = [indexes EXCEPT ![r].inode = "meddler"]
    BY <1>4, <2>1 DEF ReleaseTypes, IsIndex
  <2>2. CASE \E index \in Release!Forged(indexes[r].index) : indexes' = [indexes EXCEPT ![r].index = index]
    BY <1>4, <2>2, ForgedIsSound DEF ReleaseTypes, IsIndex
  <2>3. QED BY <1>3, <2>1, <2>2
<1>6. ReleaseTypes' /\ Lineage'
  BY <1>1, <1>2, <1>5 DEF ReleaseTypes, Lineage
<1>7. Attempts'
  BY <1>1, <1>2, SameScope DEF Attempts
<1>8. QED BY <1>2, <1>6, <1>7

LEMMA ReleaseInvStays == ReleaseIInv /\ UNCHANGED ReleaseVars => ReleaseIInv'
<1> SUFFICES ASSUME ReleaseIInv, UNCHANGED ReleaseVars PROVE ReleaseIInv'
  OBVIOUS
<1> USE SameScope DEF ReleaseVars
<1>1. \A x : IsIndex(x)' <=> IsIndex(x)
  BY DEF IsIndex
<1>2. QED BY <1>1 DEF ReleaseIInv, ReleaseTypes, Attempts, Lineage, Bundled

LEMMA ReleaseInvariance == Spec => [](part = "release" => ReleaseIInv)
<1> DEFINE I == part = "release" => ReleaseIInv
<1>1. Init => I
  BY PartStarts, ReleaseInvInit
<1>2. I /\ [Next]_allVars => I'
  BY PartSteps, AttachKeeps, BundlerKeeps, MeddleKeeps, ReleaseInvStays DEF Release!ReleaseNext
<1>3. QED BY <1>1, <1>2, PTL DEF Spec

\* However many attachers start from one predecessor, the directory is one line of
\* revisions while nobody meddles; and whatever somebody edits, replaces or removes,
\* what is bundled is an honest chain (attach.go, verifyBundleTransition, createBundle).
THEOREM ChainsAreHonest == Spec => []ReleaseChainIsHonest
<1>1. ReleaseIInv => Release!LineageIsOneChain
  <2> DEFINE there == {r \in 0..MaxRevision : indexes[r] # Release!NoFile}
             chain == [r \in there |-> indexes[r].index]
  <2> SUFFICES ASSUME ReleaseIInv, meddles = 0
               PROVE  /\ \A r \in there : \A q \in 0..r : q \in there
                      /\ Release!Honest(chain) /\ \A r \in there \ {0} : chain[r].prev = chain[r - 1]
                      /\ \A r \in there : "aggregate2" \in Release!Closed(chain[r]) =>
                           \E record \in Release!Records :
                             /\ record.gate = "aggregate2" /\ record.at = chain[r].gates["aggregate2"].at
                             /\ record.previous = chain[r].gates["aggregate1"].digest
    BY Zenon DEF Release!LineageIsOneChain
  <2>1. MaxRevision \in Nat /\ scope # {}
    BY RevisionAssumption, ScopesAreOpen DEF ReleaseIInv, ReleaseTypes
  <2>2. /\ indexes[0] # Release!NoFile /\ Undecided(indexes[0].index)
        /\ \A g \in scope : indexes[0].index.gates[g] = Release!Open
        /\ \A r \in 0..MaxRevision : indexes[r] # Release!NoFile => Sound(indexes[r].index) /\ Retried(indexes[r].index)
        /\ \A r \in 1..MaxRevision : indexes[r] # Release!NoFile =>
             indexes[r - 1] # Release!NoFile /\ Attached(indexes[r - 1].index, indexes[r].index)
    BY DEF ReleaseIInv, Lineage, ReleaseTypes, IsIndex
  <2>3. \A r \in 1..MaxRevision : indexes[r] # Release!NoFile =>
          /\ Undecided(indexes[r].index) /\ \E g \in scope : Grows(indexes[r - 1].index, indexes[r].index, g)
          /\ indexes[r].index.prev = indexes[r - 1].index
          /\ indexes[r].index.candidate = indexes[r - 1].index.candidate
    BY <2>1, <2>2, AttachedGrows
  <2>4. \A r \in there : \A q \in 0..r : q \in there
    <3> SUFFICES ASSUME NEW r \in there, NEW z \in 0..r, z \notin there PROVE FALSE
      OBVIOUS
    <3> DEFINE Gaps == {k \in Nat : k <= r /\ r - k \notin there}
    <3>1. r - z \in Gaps
      BY <2>1
    <3>2. PICK k \in Gaps : \A j \in Gaps : k <= j
      BY <3>1, LeastOf
    <3>3. k # 0 /\ k - 1 \in Nat /\ k - 1 \notin Gaps /\ r - (k - 1) \in 1..MaxRevision
      BY <2>1, <3>2
    <3>4. PICK m \in 1..MaxRevision : m = r - (k - 1)
      BY <3>3
    <3>5. m \in there
      BY <2>1, <3>2, <3>3, <3>4
    <3>6. m - 1 \in there
      BY <2>1, <2>2, <3>5
    <3>7. m - 1 = r - k
      BY <3>3, <3>4
    <3>8. QED BY <3>2, <3>6, <3>7
  <2>5. PICK h \in Nat : there = 0..h /\ h <= MaxRevision
    <3> DEFINE Free == {k \in Nat : k <= MaxRevision + 1 /\ k \notin there}
    <3>1. MaxRevision + 1 \in Free
      BY <2>1
    <3>2. PICK k \in Free : \A j \in Free : k <= j
      BY <3>1, LeastOf
    <3>3. k # 0 /\ k - 1 \in Nat /\ k - 1 <= MaxRevision
      BY <2>1, <2>2, <3>2
    <3>4. ASSUME NEW r \in there PROVE r \in 0..(k - 1)
      <4>1. r < k
        BY <2>1, <2>4, <3>2
      <4>2. QED BY <2>1, <3>3, <4>1
    <3>5. ASSUME NEW r \in 0..(k - 1) PROVE r \in there
      BY <2>1, <3>2, <3>3
    <3>6. QED BY <3>3, <3>4, <3>5
  <2> HIDE DEF there
  <2>6. DOMAIN chain = 0..h /\ \A r \in 0..h : chain[r] = indexes[r].index /\ r \in 0..MaxRevision /\ indexes[r] # Release!NoFile
    BY <2>1, <2>5 DEF there
  <2> HIDE DEF chain
  <2>7. \A r \in 0..h : Sound(chain[r]) /\ Undecided(chain[r])
    BY <2>2, <2>3, <2>6
  <2>8. \A r \in 1..h : /\ \E g \in scope : Grows(chain[r - 1], chain[r], g)
                        /\ chain[r].prev = chain[r - 1] /\ chain[r].candidate = chain[r - 1].candidate
    BY <2>1, <2>3, <2>5, <2>6
  <2>9. \A r \in 0..h : chain[r].candidate = chain[0].candidate
    <3> DEFINE Same == {r \in Nat : r <= h => chain[r].candidate = chain[0].candidate}
    <3>1. 0 \in Same
      OBVIOUS
    <3>2. ASSUME NEW r \in Same PROVE r + 1 \in Same
      BY <2>8
    <3>3. Same = Nat
      <4>1. Same \in SUBSET Nat
        OBVIOUS
      <4> HIDE DEF Same
      <4>2. QED BY <3>1, <3>2, <4>1, AllNaturals
    <3>4. QED BY <3>3
  <2>10. Release!Honest(chain)
    <3>1. chain[0] = indexes[0].index
      BY <2>6
    <3>2. \A g \in scope : chain[0].gates[g] = Release!Open
      BY <2>2, <3>1
    <3>3. QED BY <2>6, <2>7, <2>8, <2>9, <3>2, GrowingIsHonest
  <2>11. \A r \in there \ {0} : chain[r].prev = chain[r - 1]
    BY <2>5, <2>8
  <2>12. \A r \in there : Retried(chain[r])
    BY <2>2, <2>5, <2>6
  <2>13. QED BY <2>4, <2>10, <2>11, <2>12 DEF Retried
<1>2. ReleaseIInv => Release!BundledChainIsHonest
  <2> SUFFICES ASSUME ReleaseIInv, bundlerPc \in {"reconfirm", "clean", "unconfirmed"}
               PROVE  Release!Honest(packed)
    BY DEF Release!BundledChainIsHonest
  <2>1. PICK h \in Nat : Verified(packed, h)
    BY DEF ReleaseIInv, Bundled
  <2>2. DOMAIN packed = 0..h /\ scope # {} /\ (\A r \in 0..h : Sound(packed[r])) /\ Release!ChainHolds(packed)
    BY <2>1, ScopesAreOpen DEF Verified, ReleaseIInv, ReleaseTypes
  <2>3. \A r \in 0..h : Undecided(packed[r]) /\ packed[r].candidate = packed[0].candidate
    BY <2>2, VerifiedIsUndecided DEF Release!ChainHolds
  <2>4. \A g \in scope : packed[0].gates[g] = Release!Open
    BY <2>2 DEF Release!ChainHolds, Release!NewIndex
  <2>5. ASSUME NEW r \in 1..h PROVE \E g \in scope : Grows(packed[r - 1], packed[r], g)
    <3>1. r \in 0..h /\ r - 1 \in 0..h /\ packed[r].at >= packed[r - 1].at
          /\ Release!TransitionHolds(packed[r - 1], packed[r])
      BY <2>2 DEF Release!ChainHolds
    <3>2. PICK g \in scope : /\ {f \in scope : packed[r - 1].gates[f] # packed[r].gates[f]} = {g}
                             /\ packed[r - 1].gates[g] = Release!Open
      BY <3>1 DEF Release!TransitionHolds
    <3>3. packed[r - 1].at <= packed[r].at
      BY <2>2, <3>1 DEF Sound
    <3>4. QED BY <3>2, <3>3 DEF Grows
  <2>6. QED BY <2>2, <2>3, <2>4, <2>5, GrowingIsHonest
<1>3. (part = "release" => ReleaseIInv) => ReleaseChainIsHonest
  BY <1>1, <1>2 DEF ReleaseChainIsHonest
<1>4. QED BY <1>3, ReleaseInvariance, PTL
=============================================================================
