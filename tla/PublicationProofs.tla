-------------------------- MODULE PublicationProofs --------------------------
(***************************************************************************)
(* Theorems about what module MCPublication says of series, operations,    *)
(* decisions, histories and imports, for every value of its constants.     *)
(* The parts and induction are those of module ReleaseProofs.              *)
(***************************************************************************)
EXTENDS ReleaseProofs, SequenceTheorems

-----------------------------------------------------------------------------
(* An operation series.  While no file was changed back, versions only     *)
(* grow: what was recorded is at most what was copied or used later, and   *)
(* that at most what is there after the trial; and that is what was        *)
(* recorded.                                                               *)

Versions == {0, 1}
Trials == [run : Operation!Outcomes, used : [Operation!LiveFiles -> Versions],
           status : {"running", "passed", "failed"}]
Prepares == {"read", "reserve", "copy", "rename"}
Runs == {"before", "run", "collect", "after"}
\* Of a read: identity and file; of a copy: its name, its file and its identity.
ReadAs(k) == Operation!Reads[k][1]
ReadOf(k) == Operation!Reads[k][2]
CopyAs(k) == Operation!Copies[k][1]
CopyOf(k) == Operation!Copies[k][2]
HeldTo(k) == Operation!IdentityOf(CopyAs(k))

OperationTypes ==
  /\ opPc \in Prepares \cup Runs \cup {"finish", "verify"} \cup Operation!OperationEnded
  /\ opStep \in 1..7 /\ (opPc = "reserve" => opStep = 1)
  /\ opLive \in [Operation!LiveFiles -> Versions]
  /\ recorded \in [Operation!Named(Operation!Reads) -> Versions]
  /\ opCapsule \in [Operation!Named(Operation!Copies) -> Versions]
  /\ opDir \in [by : {"nobody", "earlier", "rival", "us"},
                result : {"none", "passed", "failed", "inconclusive"}, trials : Seq(Trials)]
  /\ opTrials \in Seq(Trials) /\ (opPc \in {"collect", "after"} => Len(opTrials) > 0)
NoneYet == opPc \in Prepares => opTrials = <<>>
Ours == opPc \in Runs \cup {"finish", "verify", "done"} => opDir.by = "us"
\* Each identity is of a version of its file that was there, and each copy is of one
\* that was there when its identity had been read.
Recorded == \A k \in 1..7 : recorded[ReadAs(k)] <= opLive[ReadOf(k)]
HasCopied(k) == opPc \notin {"read", "reserve", "refused"} /\ (opPc = "copy" => k < opStep)
CopiedLater ==
  \A k \in 1..7 : HasCopied(k) =>
    recorded[HeldTo(k)] <= opCapsule[CopyAs(k)] /\ opCapsule[CopyAs(k)] <= opLive[CopyOf(k)]
LastUsed ==
  opPc \in {"collect", "after"} =>
    \A k \in 1..7 : /\ recorded[HeldTo(k)] <= opTrials[Len(opTrials)].used[CopyOf(k)]
                    /\ opTrials[Len(opTrials)].used[CopyOf(k)] <= opLive[CopyOf(k)]
Kept(trial) == \A k \in 1..7 : opCapsule[CopyAs(k)] = trial.used[CopyOf(k)]
Open(n) == n = Len(opTrials) /\ opPc \in {"collect", "after"}
AllKept == opStatus # "failed" => \A n \in 1..Len(opTrials) : Open(n) \/ Kept(opTrials[n])
PublishedTrials ==
  opPc \in {"verify", "done"} =>
    opDir.trials = opTrials /\ Len(opTrials) = OperationTrials /\ opStatus # "failed"

OperationIInv == /\ OperationTypes /\ NoneYet /\ Ours /\ PublishedTrials
                 /\ (~opReverted => Recorded /\ CopiedLater /\ LastUsed /\ AllKept)

LEMMA ReadTable ==
  /\ Len(Operation!Reads) = 7
  /\ \A k \in 1..7 : ReadAs(k) \in Operation!Named(Operation!Reads) /\ ReadOf(k) \in Operation!LiveFiles
  /\ \A k, j \in 1..7 : k # j => ReadAs(k) # ReadAs(j)
BY DEF Operation!Reads, Operation!Named, Operation!LiveFiles, Operation!Closure, ReadAs, ReadOf
LEMMA CopyTable ==
  /\ Len(Operation!Copies) = 7
  /\ \A k \in 1..7 : CopyAs(k) \in Operation!Named(Operation!Copies) /\ CopyOf(k) \in Operation!LiveFiles
  /\ \A k, j \in 1..7 : k # j => CopyAs(k) # CopyAs(j)
  /\ \A c \in Operation!Named(Operation!Copies) : \E k \in 1..7 : c = CopyAs(k)
BY DEF Operation!Copies, Operation!Named, Operation!LiveFiles, Operation!Closure, CopyAs, CopyOf
\* What the first file is copied from, and what each copy is held against.
LEMMA IdentityTable ==
  /\ \A k \in 1..7 : \E j \in 1..7 : ReadAs(j) = HeldTo(k) /\ ReadOf(j) = CopyOf(k)
  /\ \A k \in 1..7 : \/ HeldTo(k) = CopyOf(k)
                     \/ HeldTo(k) = "specDigest" /\ CopyOf(k) = "spec"
                     \/ HeldTo(k) = "experimentDigest" /\ CopyOf(k) = "experiment"
<1>1. /\ HeldTo(1) = "specDigest" /\ CopyOf(1) = "spec"
      /\ HeldTo(2) = "experimentDigest" /\ CopyOf(2) = "experiment"
      /\ HeldTo(3) = "spec" /\ CopyOf(3) = "spec"
      /\ HeldTo(4) = "experiment" /\ CopyOf(4) = "experiment"
      /\ HeldTo(5) = "referenced" /\ CopyOf(5) = "referenced"
      /\ HeldTo(6) = "engine" /\ CopyOf(6) = "engine"
      /\ HeldTo(7) = "toolchain" /\ CopyOf(7) = "toolchain"
  BY DEF Operation!Copies, Operation!IdentityOf, HeldTo, CopyAs, CopyOf
<1>2. /\ ReadAs(1) = "specDigest" /\ ReadOf(1) = "spec"
      /\ ReadAs(2) = "engine" /\ ReadOf(2) = "engine"
      /\ ReadAs(3) = "toolchain" /\ ReadOf(3) = "toolchain"
      /\ ReadAs(4) = "spec" /\ ReadOf(4) = "spec"
      /\ ReadAs(5) = "experiment" /\ ReadOf(5) = "experiment"
      /\ ReadAs(6) = "referenced" /\ ReadOf(6) = "referenced"
      /\ ReadAs(7) = "experimentDigest" /\ ReadOf(7) = "experiment"
  BY DEF Operation!Reads, ReadAs, ReadOf
<1>3. 1..7 = {1, 2, 3, 4, 5, 6, 7}
  OBVIOUS
<1>4. QED BY <1>1, <1>2, <1>3

\* The file the property looks up is the one the copy was made of.
LEMMA SourceOfCopy ==
  ASSUME NEW k \in 1..7
  PROVE  (CHOOSE f \in Operation!LiveFiles :
            <<CopyAs(k), f>> \in {Operation!Copies[j] : j \in DOMAIN Operation!Copies}) = CopyOf(k)
<1>1. DOMAIN Operation!Copies = 1..7 /\ \A j \in 1..7 : Operation!Copies[j] = <<CopyAs(j), CopyOf(j)>>
  BY DEF Operation!Copies, CopyAs, CopyOf
<1>2. \A f \in Operation!LiveFiles :
        <<CopyAs(k), f>> \in {Operation!Copies[j] : j \in DOMAIN Operation!Copies} <=> f = CopyOf(k)
  BY <1>1, CopyTable
<1>3. QED BY <1>2, CopyTable

LEMMA OperationInvInit == Operation!OperationInit => OperationIInv
<1> SUFFICES ASSUME Operation!OperationInit PROVE OperationIInv
  OBVIOUS
<1>1. opDir.trials = <<>> /\ opDir \in [by : {"nobody", "earlier", "rival", "us"},
                result : {"none", "passed", "failed", "inconclusive"}, trials : Seq(Trials)]
  <2>1. <<>> \in Seq(Trials)
    OBVIOUS
  <2>2. CASE opDir = Operation!NoOperation
    BY <2>1, <2>2 DEF Operation!NoOperation
  <2>3. CASE opDir = [Operation!NoOperation EXCEPT !.by = "earlier"]
    <3>1. opDir = [by |-> "earlier", result |-> "none", trials |-> <<>>]
      BY <2>3 DEF Operation!NoOperation
    <3>2. QED BY <2>1, <3>1
  <2>4. QED BY <2>2, <2>3 DEF Operation!OperationInit
<1>2. OperationTypes /\ NoneYet /\ Ours /\ PublishedTrials
  BY <1>1 DEF Operation!OperationInit, OperationTypes, NoneYet, Ours, PublishedTrials, Prepares, Runs, Versions
<1>3. Recorded /\ CopiedLater /\ LastUsed /\ AllKept
  BY ReadTable DEF Operation!OperationInit, Recorded, CopiedLater, HasCopied, LastUsed, AllKept
<1>4. QED BY <1>2, <1>3 DEF OperationIInv

\* A step that changes no version and no trial, and whose place has no more to keep.
LEMMA OperationReads ==
  ASSUME OperationIInv, Operation!ReadIdentity PROVE OperationIInv'
<1> USE ReadTable DEF Operation!ReadIdentity
<1>1. recorded' = [recorded EXCEPT ![ReadAs(opStep)] = opLive[ReadOf(opStep)]] /\ opStep \in 1..7
  BY DEF OperationIInv, OperationTypes, ReadAs, ReadOf
<1>2. OperationTypes'
  <2>1. opLive[ReadOf(opStep)] \in Versions
    BY <1>1 DEF OperationIInv, OperationTypes
  <2>2. recorded' \in [Operation!Named(Operation!Reads) -> Versions]
    BY <1>1, <2>1 DEF OperationIInv, OperationTypes
  <2>3. opStep' \in 1..7 /\ (opPc' = "reserve" => opStep' = 1) /\ opPc' \in {"read", "reserve"}
    BY DEF OperationIInv, OperationTypes
  <2>4. QED BY <2>2, <2>3 DEF OperationIInv, OperationTypes, Prepares
<1>3. NoneYet' /\ Ours' /\ PublishedTrials'
  BY DEF OperationIInv, NoneYet, Ours, PublishedTrials, Prepares, Runs
<1>4. ASSUME ~opReverted' PROVE Recorded' /\ CopiedLater' /\ LastUsed' /\ AllKept'
  <2>1. Recorded'
    <3> SUFFICES ASSUME NEW k \in 1..7 PROVE recorded'[ReadAs(k)] <= opLive[ReadOf(k)]
      BY DEF Recorded, ReadAs, ReadOf
    <3>1. recorded[ReadAs(k)] <= opLive[ReadOf(k)] /\ opLive[ReadOf(k)] \in Versions
      BY <1>4 DEF OperationIInv, OperationTypes, Recorded
    <3>2. CASE k = opStep
      BY <1>1, <3>1, <3>2 DEF OperationIInv, OperationTypes, Versions
    <3>3. CASE k # opStep
      BY <1>1, <3>1, <3>3 DEF OperationIInv, OperationTypes
    <3>4. QED BY <3>2, <3>3
  <2>2. CopiedLater' /\ LastUsed' /\ AllKept'
    BY DEF CopiedLater, HasCopied, LastUsed, AllKept, OperationIInv, NoneYet, Prepares
  <2>3. QED BY <2>1, <2>2
<1>5. QED BY <1>2, <1>3, <1>4 DEF OperationIInv

LEMMA OperationReserves ==
  ASSUME OperationIInv, Operation!ReserveOperation PROVE OperationIInv'
<1> USE DEF Operation!ReserveOperation
<1>1. OperationTypes' /\ NoneYet' /\ Ours' /\ PublishedTrials'
  BY DEF OperationIInv, OperationTypes, NoneYet, Ours, PublishedTrials, Prepares, Runs, Operation!OperationEnded
<1>2. ASSUME ~opReverted' PROVE Recorded' /\ CopiedLater' /\ LastUsed' /\ AllKept'
  <2>1. opStep' = opStep /\ OperationTypes
    BY DEF OperationIInv
  <2>2. Recorded'
    BY <1>2 DEF Recorded, OperationIInv, ReadAs, ReadOf
  <2>3. \A k \in 1..7 : ~(k < opStep)
    BY <2>1 DEF OperationTypes
  <2>4. CopiedLater'
    BY <2>1, <2>3 DEF CopiedLater, HasCopied
  <2>5. QED BY <2>2, <2>4 DEF LastUsed, AllKept, OperationIInv, NoneYet, Prepares
<1>3. QED BY <1>1, <1>2 DEF OperationIInv

LEMMA OperationCopies ==
  ASSUME OperationIInv, Operation!SnapshotFile PROVE OperationIInv'
<1> USE DEF Operation!SnapshotFile
<1>1. /\ opCapsule' = [opCapsule EXCEPT ![CopyAs(opStep)] = opLive[CopyOf(opStep)]]
      /\ opStep \in 1..7 /\ opPc = "copy"
      /\ \/ opPc' = "refused" /\ opStep' = opStep
         \/ opStep < 7 /\ opStep' = opStep + 1 /\ opPc' = "copy"
         \/ opStep = 7 /\ opStep' = 1 /\ opPc' = "rename"
  BY CopyTable DEF OperationIInv, OperationTypes, CopyAs, CopyOf
<1>2. OperationTypes'
  <2>1. opLive[CopyOf(opStep)] \in Versions
    BY <1>1, CopyTable DEF OperationIInv, OperationTypes
  <2>2. opCapsule' \in [Operation!Named(Operation!Copies) -> Versions]
    BY <1>1, <2>1, CopyTable DEF OperationIInv, OperationTypes
  <2>3. opStep' \in 1..7 /\ opPc' \in {"refused", "copy", "rename"}
    BY <1>1
  <2>4. QED BY <2>2, <2>3 DEF OperationIInv, OperationTypes, Prepares, Operation!OperationEnded
<1>3. NoneYet' /\ Ours' /\ PublishedTrials'
  BY <1>1 DEF OperationIInv, NoneYet, Ours, PublishedTrials, Prepares, Runs
<1>4. ASSUME ~opReverted' PROVE Recorded' /\ CopiedLater' /\ LastUsed' /\ AllKept'
  <2>1. Recorded'
    BY <1>4 DEF OperationIInv, Recorded, ReadAs, ReadOf
  <2>2. CopiedLater'
    <3> SUFFICES ASSUME NEW k \in 1..7, HasCopied(k)'
                 PROVE  /\ recorded[HeldTo(k)] <= opCapsule'[CopyAs(k)]
                        /\ opCapsule'[CopyAs(k)] <= opLive[CopyOf(k)]
      BY DEF CopiedLater, HeldTo, CopyAs, CopyOf
    <3>1. CASE k = opStep
      <4>1. recorded[HeldTo(k)] <= opLive[CopyOf(k)] /\ opLive[CopyOf(k)] \in Versions
        BY <1>4, IdentityTable, CopyTable DEF OperationIInv, OperationTypes, Recorded
      <4>2. opCapsule'[CopyAs(k)] = opLive[CopyOf(k)]
        BY <1>1, <3>1, CopyTable DEF OperationIInv, OperationTypes
      <4>3. QED BY <4>1, <4>2 DEF Versions
    <3>2. CASE k # opStep
      <4>1. HasCopied(k)
        BY <1>1, <3>2 DEF HasCopied
      <4>2. opCapsule'[CopyAs(k)] = opCapsule[CopyAs(k)]
        BY <1>1, <3>2, CopyTable DEF OperationIInv, OperationTypes
      <4>3. QED BY <1>4, <4>1, <4>2 DEF OperationIInv, CopiedLater
    <3>3. QED BY <3>1, <3>2
  <2>3. LastUsed' /\ AllKept'
    BY <1>1 DEF LastUsed, AllKept, OperationIInv, NoneYet, Prepares
  <2>4. QED BY <2>1, <2>2, <2>3
<1>5. QED BY <1>2, <1>3, <1>4 DEF OperationIInv

\* A step that keeps all versions and trials, and opens or closes none.
LEMMA OperationMoves ==
  ASSUME OperationIInv, OperationTypes', NoneYet', Ours', PublishedTrials',
         UNCHANGED <<opLive, opReverted, recorded, opCapsule, opTrials>>,
         opPc \notin {"read", "reserve", "copy", "refused", "collect", "after"},
         opPc' \notin {"read", "reserve", "copy", "collect", "after"},
         opStatus = "failed" => opStatus' = "failed"
  PROVE  OperationIInv'
<1> SUFFICES ASSUME ~opReverted' PROVE Recorded' /\ CopiedLater' /\ LastUsed' /\ AllKept'
  BY DEF OperationIInv
<1>1. Recorded'
  BY DEF OperationIInv, Recorded, ReadAs, ReadOf
<1>2. \A k \in 1..7 : HasCopied(k)' => HasCopied(k)
  BY DEF HasCopied
<1>3. CopiedLater'
  BY <1>2 DEF OperationIInv, CopiedLater, HeldTo, CopyAs, CopyOf
<1>4. LastUsed'
  BY DEF LastUsed
<1>5. AllKept'
  BY DEF AllKept, OperationIInv, Open, Kept, CopyAs, CopyOf
<1>6. QED BY <1>1, <1>3, <1>4, <1>5

LEMMA OperationRenames ==
  ASSUME OperationIInv, Operation!RenameStage PROVE OperationIInv'
<1>1. /\ opPc = "rename" /\ opPc' \in {"before", "refused"}
      /\ opDir' = opDir \/ opDir' = [by |-> "us", result |-> "none", trials |-> <<>>]
      /\ opPc' = "before" => opDir'.by = "us"
      /\ UNCHANGED <<opStep, opLive, opReverted, recorded, opCapsule, opTrials, opStatus>>
  BY DEF Operation!RenameStage, Operation!PublishSeries, Operation!ReplaceSeries, Operation!NoOperation
<1>2. <<>> \in Seq(Trials)
  OBVIOUS
<1>3. OperationTypes'
  <2>1. opDir' \in [by : {"nobody", "earlier", "rival", "us"},
                   result : {"none", "passed", "failed", "inconclusive"}, trials : Seq(Trials)]
    <3>1. CASE opDir' = opDir
      BY <3>1 DEF OperationIInv, OperationTypes
    <3>2. CASE opDir' = [by |-> "us", result |-> "none", trials |-> <<>>]
      BY <1>2, <3>2
    <3>3. QED BY <1>1, <3>1, <3>2
  <2>2. QED BY <1>1, <2>1 DEF OperationIInv, OperationTypes, Prepares, Runs, Operation!OperationEnded
<1>4. NoneYet' /\ Ours' /\ PublishedTrials'
  BY <1>1 DEF OperationIInv, NoneYet, Ours, PublishedTrials, Prepares, Runs
<1>5. QED BY <1>1, <1>3, <1>4, OperationMoves

LEMMA OperationBefore ==
  ASSUME OperationIInv, Operation!BeforeTrial PROVE OperationIInv'
<1>1. /\ opPc = "before" /\ opPc' \in {"run", "finish"} /\ (opStatus = "failed" => opStatus' = "failed")
      /\ UNCHANGED <<opStep, opLive, opReverted, recorded, opCapsule, opTrials, opDir>>
  BY DEF Operation!BeforeTrial
<1>2. OperationTypes'
  BY <1>1 DEF OperationIInv, OperationTypes, Prepares, Runs
<1>3. NoneYet' /\ Ours' /\ PublishedTrials'
  BY <1>1 DEF OperationIInv, NoneYet, Ours, PublishedTrials, Prepares, Runs
<1>4. QED BY <1>1, <1>2, <1>3, OperationMoves

\* The trial that runs is noted with what lies there.
LEMMA OperationRuns ==
  ASSUME OperationIInv, Operation!RunTrial PROVE OperationIInv'
<1> DEFINE n == Len(opTrials)
<1>1. PICK o \in Operation!Outcomes :
        opTrials' = Append(opTrials, [run |-> o, used |-> opLive, status |-> "running"])
  BY DEF Operation!RunTrial
<1>2. /\ opPc = "run" /\ opPc' = "collect"
      /\ UNCHANGED <<opStep, opLive, opReverted, recorded, opCapsule, opDir, opStatus>>
  BY DEF Operation!RunTrial
<1>3. opTrials \in Seq(Trials) /\ [run |-> o, used |-> opLive, status |-> "running"] \in Trials
  BY DEF OperationIInv, OperationTypes, Trials
<1>4. /\ opTrials' \in Seq(Trials) /\ Len(opTrials') = n + 1
      /\ opTrials'[n + 1].used = opLive /\ \A i \in 1..n : opTrials'[i] = opTrials[i]
  BY <1>1, <1>3
<1>5. OperationTypes'
  BY <1>2, <1>4 DEF OperationIInv, OperationTypes, Prepares, Runs
<1>6. NoneYet' /\ Ours' /\ PublishedTrials'
  BY <1>2 DEF OperationIInv, NoneYet, Ours, PublishedTrials, Prepares, Runs
<1>7. ASSUME ~opReverted' PROVE Recorded' /\ CopiedLater' /\ LastUsed' /\ AllKept'
  <2>1. Recorded'
    BY <1>2, <1>7 DEF OperationIInv, Recorded, ReadAs, ReadOf
  <2>2. CopiedLater'
    BY <1>2, <1>7 DEF OperationIInv, CopiedLater, HasCopied, HeldTo, CopyAs, CopyOf
  <2>3. LastUsed'
    <3> SUFFICES ASSUME NEW k \in 1..7
                 PROVE recorded[HeldTo(k)] <= opLive[CopyOf(k)] /\ opLive[CopyOf(k)] <= opLive[CopyOf(k)]
      BY <1>2, <1>4 DEF LastUsed, HeldTo, CopyAs, CopyOf
    <3>1. opLive[CopyOf(k)] \in Versions
      BY CopyTable DEF OperationIInv, OperationTypes
    <3>2. recorded[HeldTo(k)] <= opLive[CopyOf(k)]
      BY <1>2, <1>7, IdentityTable DEF OperationIInv, Recorded
    <3>3. QED BY <3>1, <3>2 DEF Versions
  <2>4. AllKept'
    <3> SUFFICES ASSUME opStatus # "failed", NEW i \in 1..(n + 1), i # n + 1
                 PROVE  \A k \in 1..7 : opCapsule[CopyAs(k)] = opTrials'[i].used[CopyOf(k)]
      BY <1>2, <1>4 DEF AllKept, Open, Kept, CopyAs, CopyOf
    <3>1. i \in 1..n
      BY <1>3
    <3>2. Kept(opTrials[i])
      BY <1>2, <1>7, <3>1 DEF OperationIInv, AllKept, Open
    <3>3. QED BY <1>4, <3>1, <3>2 DEF Kept
  <2>5. QED BY <2>1, <2>2, <2>3, <2>4
<1>8. QED BY <1>5, <1>6, <1>7 DEF OperationIInv

\* Collecting a trial settles its status, and nothing else of it.
LEMMA OperationCollects ==
  ASSUME OperationIInv, Operation!CollectTrial PROVE OperationIInv'
<1> DEFINE n == Len(opTrials)
           status == Operation!TrialStatus(opTrials[n].run, linkedRuns[n])
<1>1. /\ opPc = "collect" /\ opPc' = "after" /\ opTrials' = [opTrials EXCEPT ![n].status = status]
      /\ UNCHANGED <<opStep, opLive, opReverted, recorded, opCapsule, opDir, opStatus>>
  BY DEF Operation!CollectTrial
<1>2. opTrials \in Seq(Trials) /\ n \in 1..n
  BY <1>1 DEF OperationIInv, OperationTypes
<1>3. status \in {"passed", "failed"}
  BY DEF Operation!TrialStatus
<1>4. [opTrials[n] EXCEPT !.status = status] \in Trials
      /\ [opTrials[n] EXCEPT !.status = status].used = opTrials[n].used
  <2>1. opTrials[n] \in Trials
    BY <1>2
  <2> HIDE DEF status, n
  <2>2. QED BY <1>3, <2>1 DEF Trials
<1>5. opTrials' = [opTrials EXCEPT ![n] = [opTrials[n] EXCEPT !.status = status]]
  BY <1>1
<1>6. /\ opTrials' \in Seq(Trials) /\ Len(opTrials') = n
      /\ \A i \in 1..n : opTrials'[i].used = opTrials[i].used
  <2> HIDE DEF status
  <2>1. QED BY <1>2, <1>4, <1>5
<1>7. OperationTypes'
  BY <1>1, <1>2, <1>6 DEF OperationIInv, OperationTypes, Runs
<1>8. NoneYet' /\ Ours' /\ PublishedTrials'
  BY <1>1 DEF OperationIInv, NoneYet, Ours, PublishedTrials, Prepares, Runs
<1>9. ASSUME ~opReverted' PROVE Recorded' /\ CopiedLater' /\ LastUsed' /\ AllKept'
  <2>1. Recorded'
    BY <1>1, <1>9 DEF OperationIInv, Recorded, ReadAs, ReadOf
  <2>2. CopiedLater'
    BY <1>1, <1>9 DEF OperationIInv, CopiedLater, HasCopied, HeldTo, CopyAs, CopyOf
  <2>3. LastUsed'
    BY <1>1, <1>2, <1>6, <1>9 DEF OperationIInv, LastUsed, HeldTo, CopyAs, CopyOf
  <2>4. AllKept'
    <3> SUFFICES ASSUME opStatus # "failed", NEW i \in 1..n, i # n
                 PROVE  \A k \in 1..7 : opCapsule[CopyAs(k)] = opTrials'[i].used[CopyOf(k)]
      BY <1>1, <1>6 DEF AllKept, Open, Kept, CopyAs, CopyOf
    <3>1. Kept(opTrials[i])
      BY <1>1, <1>9 DEF OperationIInv, AllKept, Open
    <3>2. QED BY <1>6, <3>1 DEF Kept
  <2>5. QED BY <2>1, <2>2, <2>3, <2>4
<1>10. QED BY <1>7, <1>8, <1>9 DEF OperationIInv

\* What is there after a trial that stands is what was recorded, and so is what lies
\* between: the copies and what the trial used.
LEMMA StandingIsKept ==
  ASSUME OperationIInv, ~opReverted, opPc = "after", Operation!TrialStands
  PROVE  Kept(opTrials[Len(opTrials)])
<1> SUFFICES ASSUME NEW k \in 1..7
             PROVE  opCapsule[CopyAs(k)] = opTrials[Len(opTrials)].used[CopyOf(k)]
  BY DEF Kept
<1>1. opLive[CopyOf(k)] = recorded[HeldTo(k)]
  <2>1. /\ \A f \in Operation!LiveFiles : opLive[f] = recorded[f]
        /\ opLive["experiment"] = recorded["experimentDigest"] /\ opLive["spec"] = recorded["specDigest"]
    BY DEF Operation!TrialStands, Operation!TrialHolds, Operation!SpecsUnchanged, Operation!StillRecorded
  <2>2. QED BY <2>1, CopyTable, IdentityTable
<1>2. /\ recorded[HeldTo(k)] <= opCapsule[CopyAs(k)] /\ opCapsule[CopyAs(k)] <= opLive[CopyOf(k)]
  BY DEF OperationIInv, CopiedLater, HasCopied
<1>3. /\ recorded[HeldTo(k)] <= opTrials[Len(opTrials)].used[CopyOf(k)]
      /\ opTrials[Len(opTrials)].used[CopyOf(k)] <= opLive[CopyOf(k)]
  BY DEF OperationIInv, LastUsed
<1>4. /\ opLive[CopyOf(k)] \in Versions /\ opCapsule[CopyAs(k)] \in Versions
      /\ opTrials[Len(opTrials)].used[CopyOf(k)] \in Versions
  <2>1. opTrials[Len(opTrials)] \in Trials
    BY DEF OperationIInv, OperationTypes
  <2>2. QED BY <2>1, CopyTable DEF OperationIInv, OperationTypes, Trials
<1>5. QED BY <1>1, <1>2, <1>3, <1>4 DEF Versions

LEMMA OperationAfter ==
  ASSUME OperationIInv, Operation!AfterTrial PROVE OperationIInv'
<1>1. /\ opPc = "after" /\ opPc' \in {"before", "finish"}
      /\ UNCHANGED <<opStep, opLive, opReverted, recorded, opCapsule, opTrials, opDir>>
      /\ (Operation!TrialStands /\ opStatus' = opStatus) \/ opStatus' = "failed"
  BY DEF Operation!AfterTrial
<1>2. OperationTypes'
  BY <1>1 DEF OperationIInv, OperationTypes, Prepares, Runs
<1>3. NoneYet' /\ Ours' /\ PublishedTrials'
  BY <1>1 DEF OperationIInv, NoneYet, Ours, PublishedTrials, Prepares, Runs
<1>4. ASSUME ~opReverted' PROVE Recorded' /\ CopiedLater' /\ LastUsed' /\ AllKept'
  <2>1. Recorded'
    BY <1>1, <1>4 DEF OperationIInv, Recorded, ReadAs, ReadOf
  <2>2. CopiedLater'
    BY <1>1, <1>4 DEF OperationIInv, CopiedLater, HasCopied, HeldTo, CopyAs, CopyOf
  <2>3. AllKept'
    <3> SUFFICES ASSUME opStatus' # "failed", NEW i \in 1..Len(opTrials)
                 PROVE  Kept(opTrials[i])
      BY <1>1 DEF AllKept, Open, Kept, CopyAs, CopyOf
    <3>1. opStatus # "failed" /\ Operation!TrialStands
      BY <1>1
    <3>2. CASE i = Len(opTrials)
      BY <1>1, <1>4, <3>1, <3>2, StandingIsKept
    <3>3. CASE i # Len(opTrials)
      BY <1>1, <1>4, <3>1, <3>3 DEF OperationIInv, AllKept, Open
    <3>4. QED BY <3>2, <3>3
  <2>4. QED BY <1>1, <2>1, <2>2, <2>3 DEF LastUsed
<1>5. QED BY <1>2, <1>3, <1>4 DEF OperationIInv

LEMMA OperationWrites ==
  ASSUME OperationIInv, Operation!WriteSeries PROVE OperationIInv'
<1>1. /\ opPc = "finish" /\ opPc' \in {"failed", "verify", "error"}
      /\ opStatus' = Operation!FinishSeries(opStatus, opTrials)
      /\ opDir' = opDir \/ opDir' = [opDir EXCEPT !.result = opStatus', !.trials = opTrials]
      /\ opPc' = "verify" => opStatus' # "failed" /\ opDir' = [opDir EXCEPT !.result = opStatus', !.trials = opTrials]
      /\ UNCHANGED <<opStep, opLive, opReverted, recorded, opCapsule, opTrials>>
  BY DEF Operation!WriteSeries
<1>2. /\ opStatus' \in {"passed", "failed", "inconclusive"} /\ (opStatus = "failed" => opStatus' = "failed")
      /\ opStatus' # "failed" => Len(opTrials) = OperationTrials
  BY <1>1 DEF Operation!FinishSeries, Operation!AllPassed
<1>3. OperationTypes /\ opDir.by = "us"
  BY <1>1 DEF OperationIInv, Ours
<1>4. /\ opDir' \in [by : {"nobody", "earlier", "rival", "us"},
                result : {"none", "passed", "failed", "inconclusive"}, trials : Seq(Trials)]
      /\ opDir'.by = "us" /\ (opPc' = "verify" => opDir'.trials = opTrials)
  BY <1>1, <1>2, <1>3 DEF OperationTypes
<1>5. OperationTypes'
  BY <1>1, <1>3, <1>4 DEF OperationTypes, Operation!OperationEnded
<1>6. NoneYet' /\ Ours' /\ PublishedTrials'
  BY <1>1, <1>2, <1>4 DEF NoneYet, Ours, PublishedTrials, Prepares, Runs
<1>7. QED BY <1>1, <1>2, <1>5, <1>6, OperationMoves

LEMMA OperationVerified ==
  ASSUME OperationIInv, Operation!VerifyOperation PROVE OperationIInv'
<1>1. /\ opPc = "verify" /\ opPc' \in {"done", "failed"}
      /\ UNCHANGED <<opStep, opLive, opReverted, recorded, opCapsule, opTrials, opDir, opStatus>>
  BY DEF Operation!VerifyOperation
<1>2. OperationTypes'
  BY <1>1 DEF OperationIInv, OperationTypes, Operation!OperationEnded
<1>3. NoneYet' /\ Ours' /\ PublishedTrials'
  BY <1>1 DEF OperationIInv, NoneYet, Ours, PublishedTrials, Prepares, Runs
<1>4. QED BY <1>1, <1>2, <1>3, OperationMoves

\* An edit that was not back makes the version of a file larger.
LEMMA OperationEdited ==
  ASSUME OperationIInv, NEW f \in Operation!LiveFiles, Operation!EditLive(f) PROVE OperationIInv'
<1>1. /\ opLive' = [opLive EXCEPT ![f] = 1 - opLive[f]] /\ (opReverted \/ opLive[f] = 1) = opReverted'
      /\ UNCHANGED <<opPc, opStep, recorded, opCapsule, opDir, opTrials, opStatus>>
  BY DEF Operation!EditLive
<1>2. OperationTypes'
  <2>1. 1 - opLive[f] \in Versions
    BY DEF OperationIInv, OperationTypes, Versions
  <2>2. opLive' \in [Operation!LiveFiles -> Versions]
    BY <1>1, <2>1 DEF OperationIInv, OperationTypes
  <2>3. QED BY <1>1, <2>2 DEF OperationIInv, OperationTypes
<1>3. NoneYet' /\ Ours' /\ PublishedTrials'
  BY <1>1 DEF OperationIInv, NoneYet, Ours, PublishedTrials
<1>4. ASSUME ~opReverted' PROVE Recorded' /\ CopiedLater' /\ LastUsed' /\ AllKept'
  <2>1. ~opReverted /\ opLive[f] # 1
    BY <1>1, <1>4
  <2>2. \A g \in Operation!LiveFiles : opLive[g] <= opLive'[g] /\ opLive[g] \in Versions /\ opLive'[g] \in Versions
    BY <1>1, <1>2, <2>1 DEF OperationIInv, OperationTypes, Versions
  <2>3. Recorded'
    <3> SUFFICES ASSUME NEW k \in 1..7 PROVE recorded[ReadAs(k)] <= opLive'[ReadOf(k)]
      BY <1>1 DEF Recorded, ReadAs, ReadOf
    <3>1. recorded[ReadAs(k)] <= opLive[ReadOf(k)] /\ recorded[ReadAs(k)] \in Versions
      BY <2>1, ReadTable DEF OperationIInv, OperationTypes, Recorded
    <3>2. QED BY <2>2, <3>1, ReadTable DEF Versions
  <2>4. CopiedLater'
    <3> SUFFICES ASSUME NEW k \in 1..7, HasCopied(k)
                 PROVE  recorded[HeldTo(k)] <= opCapsule[CopyAs(k)] /\ opCapsule[CopyAs(k)] <= opLive'[CopyOf(k)]
      BY <1>1 DEF CopiedLater, HasCopied, HeldTo, CopyAs, CopyOf
    <3>1. /\ recorded[HeldTo(k)] <= opCapsule[CopyAs(k)] /\ opCapsule[CopyAs(k)] <= opLive[CopyOf(k)]
          /\ opCapsule[CopyAs(k)] \in Versions
      BY <2>1, CopyTable DEF OperationIInv, OperationTypes, CopiedLater
    <3>2. QED BY <2>2, <3>1, CopyTable DEF Versions
  <2>5. LastUsed'
    <3> SUFFICES ASSUME NEW k \in 1..7, opPc \in {"collect", "after"}
                 PROVE  /\ recorded[HeldTo(k)] <= opTrials[Len(opTrials)].used[CopyOf(k)]
                        /\ opTrials[Len(opTrials)].used[CopyOf(k)] <= opLive'[CopyOf(k)]
      BY <1>1 DEF LastUsed, HeldTo, CopyAs, CopyOf
    <3>1. /\ recorded[HeldTo(k)] <= opTrials[Len(opTrials)].used[CopyOf(k)]
          /\ opTrials[Len(opTrials)].used[CopyOf(k)] <= opLive[CopyOf(k)]
      BY <2>1 DEF OperationIInv, LastUsed
    <3>2. opTrials[Len(opTrials)] \in Trials
      BY DEF OperationIInv, OperationTypes
    <3>3. opTrials[Len(opTrials)].used[CopyOf(k)] \in Versions
      BY <3>2, CopyTable DEF Trials
    <3>4. QED BY <2>2, <3>1, <3>3, CopyTable DEF Versions
  <2>6. AllKept'
    BY <1>1, <2>1 DEF OperationIInv, AllKept, Open, Kept, CopyAs, CopyOf
  <2>7. QED BY <2>3, <2>4, <2>5, <2>6
<1>5. QED BY <1>2, <1>3, <1>4 DEF OperationIInv

\* A touched run, another's series, or nothing at all.
LEMMA OperationElsewhere ==
  ASSUME OperationIInv, UNCHANGED <<opPc, opStep, opLive, opReverted, recorded, opCapsule, opTrials, opStatus>>,
         opDir' = opDir \/ Operation!RivalOperation
  PROVE  OperationIInv'
<1>1. CASE opDir' = opDir
  BY <1>1, ZenonT(30) DEF OperationIInv, OperationTypes, NoneYet, Ours, PublishedTrials, Recorded, CopiedLater, HasCopied,
     LastUsed, AllKept, Open, Kept, ReadAs, ReadOf, HeldTo, CopyAs, CopyOf
<1>2. CASE Operation!RivalOperation
  <2>1. opDir.by = "nobody" /\ opDir' = [by |-> "rival", result |-> "none", trials |-> <<>>]
    BY <1>2 DEF Operation!RivalOperation, Operation!NoOperation
  <2>2. <<>> \in Seq(Trials)
    OBVIOUS
  <2>3. OperationTypes'
    BY <2>1, <2>2 DEF OperationIInv, OperationTypes
  <2>4. NoneYet' /\ Ours' /\ PublishedTrials'
    BY <2>1 DEF OperationIInv, NoneYet, Ours, PublishedTrials
  <2>5. ~opReverted' => Recorded' /\ CopiedLater' /\ LastUsed' /\ AllKept'
    BY DEF OperationIInv, Recorded, CopiedLater, HasCopied, LastUsed, AllKept, Open, Kept, ReadAs, ReadOf,
       HeldTo, CopyAs, CopyOf
  <2>6. QED BY <2>3, <2>4, <2>5 DEF OperationIInv
<1>3. QED BY <1>1, <1>2

LEMMA OperationInvStays ==
  ASSUME OperationIInv, Operation!OperationNext \/ UNCHANGED OperationVars PROVE OperationIInv'
<1>1. CASE Operation!OperationStep
  BY <1>1, OperationReads, OperationReserves, OperationCopies, OperationRenames, OperationBefore, OperationRuns,
     OperationCollects, OperationAfter, OperationWrites, OperationVerified DEF Operation!OperationStep
<1>2. CASE Operation!RivalOperation
  BY <1>2, OperationElsewhere DEF Operation!RivalOperation
<1>3. CASE \E f \in Operation!LiveFiles : Operation!EditLive(f)
  BY <1>3, OperationEdited
<1>4. CASE \E n \in 1..OperationTrials : Operation!EditRun(n)
  BY <1>4, OperationElsewhere DEF Operation!EditRun
<1>5. CASE UNCHANGED OperationVars
  BY <1>5, OperationElsewhere DEF OperationVars
<1>6. QED BY <1>1, <1>2, <1>3, <1>4, <1>5 DEF Operation!OperationNext

LEMMA OperationInvariance == Spec => [](part = "operation" => OperationIInv)
<1>1. Init => (part = "operation" => OperationIInv)
  BY PartStarts, OperationInvInit
<1>2. (part = "operation" => OperationIInv) /\ [Next]_allVars => (part = "operation" => OperationIInv)'
  BY PartSteps, OperationInvStays
<1>3. QED BY <1>1, <1>2, PTL DEF Spec

\* A series that Run returned without an error used, in each trial, the bytes its
\* capsule keeps, unless a file was changed and changed back (operationbench.Run).
THEOREM OperationsRanWhatTheyKeep == Spec => []OperationRanWhatItKeeps
<1>1. (part = "operation" => OperationIInv) => OperationRanWhatItKeeps
  <2> SUFFICES ASSUME OperationIInv, opPc = "done", ~opReverted,
                      NEW n \in 1..OperationTrials, NEW c \in Operation!Named(Operation!Copies)
               PROVE  opCapsule[c] = opDir.trials[n].used[
                        CHOOSE f \in Operation!LiveFiles :
                          <<c, f>> \in {Operation!Copies[k] : k \in DOMAIN Operation!Copies}]
    BY DEF OperationRanWhatItKeeps, Operation!DoneRanWhatItKeeps
  <2>1. opDir.trials = opTrials /\ Len(opTrials) = OperationTrials /\ opStatus # "failed"
    BY DEF OperationIInv, PublishedTrials
  <2>2. Kept(opTrials[n])
    BY <2>1 DEF OperationIInv, AllKept, Open
  <2>3. PICK k \in 1..7 : c = CopyAs(k)
    BY CopyTable
  <2>4. QED BY <2>1, <2>2, <2>3, SourceOfCopy DEF Kept
<1>2. QED BY <1>1, OperationInvariance, PTL

\* A published history, and the directory of another operation series, is never
\* replaced nor written to (benchmarkhistory.Create, operationbench.Run).
THEOREM NeverPublishedTwice == Spec => PublishedOnce
<1>1. ASSUME part = "history", histDir # History!NoHistory, History!HistoryNext \/ UNCHANGED HistoryVars
      PROVE  histDir' = histDir
  BY <1>1 DEF History!HistoryNext, History!HistoryStep, History!ReadSeries, History!DeriveHistory,
     History!InspectHistory, History!PublishHistory, History!VerifyHistory, History!RewriteSeries, HistoryVars
<1>2. ASSUME OperationIInv, opDir.by \in {"rival", "earlier"}, Operation!OperationNext \/ UNCHANGED OperationVars
      PROVE  opDir' = opDir
  <2>1. opDir # Operation!NoOperation /\ opPc # "finish"
    BY <1>2 DEF OperationIInv, Ours, Operation!NoOperation
  <2>2. QED BY <1>2, <2>1 DEF Operation!OperationNext, Operation!OperationStep, Operation!ReadIdentity,
        Operation!ReserveOperation, Operation!SnapshotFile, Operation!RenameStage, Operation!PublishSeries,
        Operation!BeforeTrial, Operation!RunTrial, Operation!CollectTrial, Operation!AfterTrial,
        Operation!WriteSeries, Operation!VerifyOperation, Operation!RivalOperation, Operation!EditLive,
        Operation!EditRun, OperationVars
<1>3. (part = "operation" => OperationIInv) /\ [Next]_allVars =>
        [/\ part = "history" /\ histDir # History!NoHistory => histDir' = histDir
         /\ part = "operation" /\ opDir.by \in {"rival", "earlier"} => opDir' = opDir]_<<HistoryVars, OperationVars>>
  BY <1>1, <1>2, PartSteps
<1>4. QED BY <1>3, OperationInvariance, PTL DEF Spec, PublishedOnce

-----------------------------------------------------------------------------
(* A benchmark series.  An edit of a retained input that puts back nothing *)
(* leaves it other than its digest for good, so that the inputs a trial    *)
(* read are those of the plan or the verifier finds one that is not.       *)

Texts == Capsule!Contents \cup {"none"}
Early == {"build", "sources", "inspect", "refused"}
Copying == {"engine", "copy", "rebuild", "reload"}
Trying == {"before", "resolve", "read", "after"}
Late == {"finish", "verify", "end"}

CapsuleTypes ==
  /\ capPc \in Early \cup Copying \cup Trying \cup Late
  /\ capAt \in 1..5 /\ (capPc \in {"sources", "copy"} => capAt \in 1..3)
  /\ live \in [Capsule!Files -> Texts]
  /\ capsule \in [Capsule!Retained -> Texts]
  /\ planned \in [parsed : [Capsule!Inputs -> Texts], digest : [Capsule!Inputs -> Texts]]
  /\ used \in Seq([Capsule!Inputs -> Texts]) /\ capsuleEdits \in Nat /\ configured \in BOOLEAN
NothingRead == capPc \in Early \cup Copying => used = <<>>
\* A trial read what the plan names, or it shows.
ReadOrShown ==
  ~capRestored =>
    \A k \in 1..Len(used), i \in Capsule!Inputs :
      used[k][i] = planned.digest[i] \/ capsule[i] # planned.digest[i]
AllTried ==
  capStatus = "passed" =>
    /\ capPc \in Trying \ {"after"} => Len(used) < CapsuleTrials
    /\ capPc = "after" => Len(used) <= CapsuleTrials
    /\ capPc \in Late => Len(used) = CapsuleTrials
VerifiedHolds ==
  verified = "yes" => capPc = "end" /\ Capsule!CapsuleHolds /\ capsule["engine"] = engineId
\* What nobody edited is as it was copied, and no boundary finds another.
Undisturbed == ~configured /\ edited \subseteq Capsule!Inputs /\ capsuleEdits = 0
EngineKept ==
  /\ capPc \in Copying \cup Trying \cup Late => live["engine"] = engineId
  /\ capPc \in (Copying \cup Trying \cup Late) \ {"engine"} => capsule["engine"] = engineId
InputsKept ==
  /\ capPc = "copy" => \A j \in 1..3 : j < capAt => capsule[Capsule!Order[j]] = planned.digest[Capsule!Order[j]]
  /\ capPc \in {"rebuild", "reload"} \cup Trying \cup Late => Capsule!CapsuleHolds
PlanKept ==
  capPc \in {"reload"} \cup Trying \cup Late =>
    /\ capsule["spec"] # "bad" /\ capsule["workload"] # "bad" /\ capsule["inventory"] = "none"
    /\ Capsule!Typed(capsule["workload"]) = Capsule!Typed(planned.parsed["workload"])
RunKept ==
  capPc \in Trying \cup Late =>
    /\ capStatus = "passed"
    /\ \A i \in Capsule!Inputs : final.parsed[i] = capsule[i] /\ final.digest[i] = capsule[i]
Confirmed == capPc = "end" /\ planned.parsed["spec"] = planned.digest["spec"] => verified = "yes"

CapsuleIInv == /\ CapsuleTypes /\ NothingRead /\ ReadOrShown /\ AllTried /\ VerifiedHolds
               /\ (Undisturbed => EngineKept /\ InputsKept /\ PlanKept /\ RunKept /\ Confirmed)

LEMMA CapsuleInvInit == Capsule!CapsuleInit => CapsuleIInv
<1> SUFFICES ASSUME Capsule!CapsuleInit PROVE CapsuleIInv
  OBVIOUS
<1>1. CapsuleTypes
  BY DEF Capsule!CapsuleInit, CapsuleTypes, Early, Texts, Capsule!NoPlan, Capsule!Blank, Capsule!Contents
<1>2. NothingRead /\ ReadOrShown /\ AllTried /\ VerifiedHolds
  BY DEF Capsule!CapsuleInit, NothingRead, ReadOrShown, AllTried, VerifiedHolds, Trying, Late
<1>3. EngineKept /\ InputsKept /\ PlanKept /\ RunKept /\ Confirmed
  BY DEF Capsule!CapsuleInit, EngineKept, InputsKept, PlanKept, RunKept, Confirmed, Copying, Trying, Late
<1>4. QED BY <1>1, <1>2, <1>3 DEF CapsuleIInv

\* A step before the copies, that reads no input and verifies nothing.
LEMMA CapsuleEarly ==
  ASSUME CapsuleIInv, CapsuleTypes', capPc \in Early, capPc' \in Early \cup {"engine"},
         UNCHANGED <<capsule, used, verified, capStatus, capRestored, live>>,
         capPc' = "engine" => live["engine"] = engineId'
  PROVE  CapsuleIInv'
<1>1. used = <<>> /\ verified # "yes"
  BY DEF CapsuleIInv, NothingRead, VerifiedHolds, Early
<1>2. NothingRead' /\ ReadOrShown' /\ AllTried' /\ VerifiedHolds'
  BY <1>1 DEF NothingRead, ReadOrShown, AllTried, VerifiedHolds, Early, Trying, Late
<1>3. EngineKept' /\ InputsKept' /\ PlanKept' /\ RunKept' /\ Confirmed'
  BY DEF EngineKept, InputsKept, PlanKept, RunKept, Confirmed, Early, Copying, Trying, Late
<1>4. QED BY <1>2, <1>3 DEF CapsuleIInv

LEMMA CapsuleBuilds ==
  ASSUME CapsuleIInv, Capsule!BuildRead PROVE CapsuleIInv'
<1>1. /\ capPc = "build" /\ capPc' \in {"build", "sources", "refused"} /\ capAt' \in 1..5
      /\ capPc' = "sources" => capAt' = 1
      /\ UNCHANGED <<capsule, used, verified, capStatus, capRestored, live, capsuleEdits, configured>>
  BY DEF CapsuleIInv, CapsuleTypes, Capsule!BuildRead, Capsule!OneMore, Capsule!Refused, Capsule!Then, Capsule!Reads
<1>2. planned' \in [parsed : [Capsule!Inputs -> Texts], digest : [Capsule!Inputs -> Texts]]
  <2> DEFINE p == Capsule!Reads[capAt][1]
             i == Capsule!Reads[capAt][2]
  <2>1. /\ planned' = [planned EXCEPT ![p][i] = live[i]]
        /\ p \in {"parsed", "digest"} /\ i \in Capsule!Inputs /\ live[i] \in Texts
        /\ planned \in [parsed : [Capsule!Inputs -> Texts], digest : [Capsule!Inputs -> Texts]]
    BY <1>1 DEF CapsuleIInv, CapsuleTypes, Capsule!BuildRead, Capsule!Reads, Capsule!Inputs, Capsule!Files
  <2> HIDE DEF p, i
  <2>2. CASE p = "parsed"
    BY <2>1, <2>2
  <2>3. CASE p = "digest"
    BY <2>1, <2>3
  <2>4. QED BY <2>1, <2>2, <2>3
<1>3. CapsuleTypes'
  BY <1>1, <1>2 DEF CapsuleIInv, CapsuleTypes, Early
<1>4. QED BY <1>1, <1>3, CapsuleEarly DEF Early

LEMMA CapsuleChecks ==
  ASSUME CapsuleIInv, Capsule!CheckSource \/ Capsule!Inspect PROVE CapsuleIInv'
<1>1. /\ capPc \in {"sources", "inspect"} /\ capPc' \in {"sources", "inspect", "engine", "refused"}
      /\ capAt' \in 1..3
      /\ UNCHANGED <<capsule, used, verified, capStatus, capRestored, live, capsuleEdits, configured, planned>>
      /\ capPc' = "engine" => live["engine"] = engineId'
  BY DEF CapsuleIInv, CapsuleTypes, Capsule!CheckSource, Capsule!Inspect, Capsule!OneMore, Capsule!Refused, Capsule!Then
<1>2. CapsuleTypes'
  BY <1>1 DEF CapsuleIInv, CapsuleTypes, Early, Copying
<1>3. QED BY <1>1, <1>2, CapsuleEarly DEF Early

LEMMA CapsuleEngine ==
  ASSUME CapsuleIInv, Capsule!SnapshotEngine PROVE CapsuleIInv'
<1>1. /\ capPc = "engine" /\ capAt' = 1
      /\ (capPc' = "copy" /\ live["engine"] = engineId) \/ capPc' = "refused"
      /\ capsule' = [capsule EXCEPT !["engine"] = live["engine"]]
      /\ UNCHANGED <<live, configured, planned, capInventory, engineId, final, used, capStatus, verified,
                     edited, liveEdits, capsuleEdits, capRestored>>
  BY DEF Capsule!SnapshotEngine, Capsule!EngineHolds, Capsule!Refused, Capsule!Then
<1>2. CapsuleTypes'
  BY <1>1 DEF CapsuleIInv, CapsuleTypes, Early, Copying, Capsule!Files, Capsule!Retained
<1>3. used = <<>> /\ verified # "yes"
  BY <1>1 DEF CapsuleIInv, NothingRead, VerifiedHolds, Copying
<1>4. NothingRead' /\ ReadOrShown' /\ AllTried' /\ VerifiedHolds'
  BY <1>1, <1>3 DEF NothingRead, ReadOrShown, AllTried, VerifiedHolds, Trying, Late
<1>5. capPc' = "copy" => live'["engine"] = engineId' /\ capsule'["engine"] = engineId'
  BY <1>1 DEF CapsuleIInv, CapsuleTypes, Capsule!Retained
<1>6. EngineKept' /\ InputsKept' /\ PlanKept' /\ RunKept' /\ Confirmed'
  <2>1. capPc' = "copy" => \A j \in 1..3 : ~(j < capAt')
    BY <1>1
  <2>2. EngineKept' /\ InputsKept'
    BY <1>1, <1>5, <2>1 DEF EngineKept, InputsKept, Copying, Trying, Late
  <2>3. PlanKept' /\ RunKept' /\ Confirmed'
    BY <1>1 DEF PlanKept, RunKept, Confirmed, Trying, Late
  <2>4. QED BY <2>2, <2>3
<1>7. QED BY <1>2, <1>4, <1>6 DEF CapsuleIInv

LEMMA OrderTable ==
  /\ \A j \in 1..3 : Capsule!Order[j] \in Capsule!Inputs /\ Capsule!Order[j] \in Capsule!Retained
  /\ \A j, k \in 1..3 : j # k => Capsule!Order[j] # Capsule!Order[k]
  /\ \A i \in Capsule!Inputs : \E j \in 1..3 : i = Capsule!Order[j]
  /\ \A i \in Capsule!Inputs : i \in Capsule!Files /\ i \in Capsule!Retained /\ i # "engine" /\ i # "inventory"
BY DEF Capsule!Order, Capsule!Inputs, Capsule!Retained, Capsule!Files

LEMMA CapsuleCopies ==
  ASSUME CapsuleIInv, Capsule!CopyInput PROVE CapsuleIInv'
<1> DEFINE i == Capsule!Order[capAt]
<1>1. /\ capPc = "copy" /\ capAt \in 1..3 /\ capsule' = [capsule EXCEPT ![i] = live[i]]
      /\ \/ capPc' = "refused" /\ capAt' = 1
         \/ live[i] = planned.digest[i] /\ capAt < 3 /\ capPc' = "copy" /\ capAt' = capAt + 1
         \/ live[i] = planned.digest[i] /\ capAt = 3 /\ capPc' = "rebuild" /\ capAt' = 1
      /\ UNCHANGED <<live, configured, planned, capInventory, engineId, final, used, capStatus, verified,
                     edited, liveEdits, capsuleEdits, capRestored>>
  BY DEF CapsuleIInv, CapsuleTypes, Capsule!CopyInput, Capsule!OneMore, Capsule!Refused, Capsule!Then
<1>2. i \in Capsule!Inputs /\ i \in Capsule!Retained /\ i \in Capsule!Files /\ i # "engine"
  BY <1>1, OrderTable
<1> HIDE DEF i
<1>3. CapsuleTypes'
  <2>1. capsule' \in [Capsule!Retained -> Texts]
    BY <1>1, <1>2 DEF CapsuleIInv, CapsuleTypes
  <2>2. capAt' \in 1..3 /\ capPc' \in {"refused", "copy", "rebuild"}
    BY <1>1
  <2>3. QED BY <1>1, <2>1, <2>2 DEF CapsuleIInv, CapsuleTypes, Early, Copying
<1>4. used = <<>> /\ verified # "yes"
  BY <1>1 DEF CapsuleIInv, NothingRead, VerifiedHolds, Copying
<1>5. NothingRead' /\ ReadOrShown' /\ AllTried' /\ VerifiedHolds'
  BY <1>1, <1>4 DEF NothingRead, ReadOrShown, AllTried, VerifiedHolds, Trying, Late
<1>6. ASSUME Undisturbed' PROVE EngineKept' /\ InputsKept' /\ PlanKept' /\ RunKept' /\ Confirmed'
  <2>1. Undisturbed
    BY <1>1, <1>6 DEF Undisturbed
  <2>2. capsule'["engine"] = capsule["engine"]
    BY <1>1, <1>2 DEF CapsuleIInv, CapsuleTypes, Capsule!Retained
  <2>3. EngineKept'
    BY <1>1, <2>1, <2>2 DEF CapsuleIInv, EngineKept, Copying, Trying, Late
  <2>4. ASSUME capPc' # "refused", NEW j \in 1..3, j <= capAt
        PROVE  capsule'[Capsule!Order[j]] = planned.digest[Capsule!Order[j]]
    <3>1. CASE j = capAt
      BY <1>1, <1>2, <2>4, <3>1 DEF CapsuleIInv, CapsuleTypes, i
    <3>2. CASE j # capAt
      <4>1. Capsule!Order[j] # i /\ Capsule!Order[j] \in Capsule!Retained /\ j < capAt
        BY <1>1, <2>4, <3>2, OrderTable DEF i
      <4>2. capsule[Capsule!Order[j]] = planned.digest[Capsule!Order[j]]
        BY <1>1, <2>1, <4>1 DEF CapsuleIInv, InputsKept
      <4>3. QED BY <1>1, <4>1, <4>2 DEF CapsuleIInv, CapsuleTypes
    <3>3. QED BY <3>1, <3>2
  <2>5. capPc' = "copy" =>
          \A j \in 1..3 : j < capAt' => capsule'[Capsule!Order[j]] = planned'.digest[Capsule!Order[j]]
    BY <1>1, <2>4
  <2>6. capPc' = "rebuild" => Capsule!CapsuleHolds'
    <3> SUFFICES ASSUME capPc' = "rebuild", NEW k \in Capsule!Inputs
                 PROVE  capsule'[k] = planned.digest[k]
      BY <1>1 DEF Capsule!CapsuleHolds
    <3>1. PICK j \in 1..3 : k = Capsule!Order[j]
      BY OrderTable
    <3>2. QED BY <1>1, <2>4, <3>1
  <2>7. InputsKept'
    BY <1>1, <2>5, <2>6 DEF InputsKept, Trying, Late, Capsule!Order
  <2>8. PlanKept' /\ RunKept' /\ Confirmed'
    BY <1>1 DEF PlanKept, RunKept, Confirmed, Trying, Late
  <2>9. QED BY <2>3, <2>7, <2>8
<1>7. QED BY <1>3, <1>5, <1>6 DEF CapsuleIInv

\* What the rebuilt capsule declares is what the plan declares.
LEMMA SameDeclarations ==
  ASSUME CapsuleTypes, Capsule!SameProtocol(Capsule!Rebuilt)
  PROVE  /\ capsule["spec"] # "bad" /\ capsule["workload"] # "bad"
         /\ Capsule!Typed(capsule["workload"]) = Capsule!Typed(planned.parsed["workload"])
<1>1. /\ Capsule!Rebuilt.parsed["spec"] = capsule["spec"]
      /\ Capsule!Rebuilt.parsed["workload"] = capsule["workload"]
  BY DEF Capsule!Rebuilt, Capsule!Inputs
<1>2. Capsule!Identity(Capsule!Rebuilt).mode = Capsule!Identity(planned).mode
  BY DEF Capsule!SameProtocol
<1>3. QED BY <1>1, <1>2 DEF Capsule!SameProtocol, Capsule!Declares, Capsule!Identity

LEMMA CapsulePublished ==
  ASSUME CapsuleIInv, Capsule!PublishCapsule PROVE CapsuleIInv'
<1>1. /\ capPc = "rebuild" /\ capAt' = 1
      /\ (capPc' = "reload" /\ Capsule!SameProtocol(Capsule!Rebuilt)) \/ capPc' = "refused"
      /\ capsule' = [capsule EXCEPT !["inventory"] = IF configured THEN "a" ELSE "none"]
      /\ UNCHANGED <<live, configured, planned, capInventory, engineId, final, used, capStatus, verified,
                     edited, liveEdits, capsuleEdits, capRestored>>
  BY DEF Capsule!PublishCapsule, Capsule!Refused, Capsule!Then
<1>2. /\ \A k \in Capsule!Retained : k # "inventory" => capsule'[k] = capsule[k]
      /\ (~configured => capsule'["inventory"] = "none") /\ capsule' \in [Capsule!Retained -> Texts]
  BY <1>1 DEF CapsuleIInv, CapsuleTypes, Capsule!Retained, Texts, Capsule!Contents
<1>3. CapsuleTypes'
  BY <1>1, <1>2 DEF CapsuleIInv, CapsuleTypes, Early, Copying
<1>4. used = <<>> /\ verified # "yes"
  BY <1>1 DEF CapsuleIInv, NothingRead, VerifiedHolds, Copying
<1>5. NothingRead' /\ ReadOrShown' /\ AllTried' /\ VerifiedHolds'
  BY <1>1, <1>4 DEF NothingRead, ReadOrShown, AllTried, VerifiedHolds, Trying, Late
<1>6. ASSUME Undisturbed', capPc' = "reload" PROVE EngineKept' /\ InputsKept' /\ PlanKept'
  <2>1. Undisturbed
    BY <1>1, <1>6 DEF Undisturbed
  <2>2. EngineKept'
    BY <1>1, <1>2, <2>1 DEF CapsuleIInv, EngineKept, Copying, Trying, Late, Capsule!Retained
  <2>3. Capsule!CapsuleHolds'
    BY <1>1, <1>2, <2>1, OrderTable DEF CapsuleIInv, InputsKept, Capsule!CapsuleHolds
  <2>4. InputsKept'
    BY <1>6, <2>3 DEF InputsKept
  <2>5. "spec" \in Capsule!Retained /\ "workload" \in Capsule!Retained
    BY DEF Capsule!Retained, Capsule!Inputs
  <2>6. /\ capsule["spec"] # "bad" /\ capsule["workload"] # "bad"
        /\ Capsule!Typed(capsule["workload"]) = Capsule!Typed(planned.parsed["workload"])
    BY <1>1, <1>6, SameDeclarations DEF CapsuleIInv
  <2>7. PlanKept'
    BY <1>1, <1>2, <2>1, <2>5, <2>6 DEF PlanKept, Capsule!Typed, Undisturbed
  <2>8. QED BY <2>2, <2>4, <2>7
<1>7. RunKept' /\ Confirmed' /\ (capPc' = "refused" => EngineKept' /\ InputsKept' /\ PlanKept')
  BY <1>1 DEF EngineKept, InputsKept, PlanKept, RunKept, Confirmed, Copying, Trying, Late
<1>8. QED BY <1>1, <1>3, <1>5, <1>6, <1>7 DEF CapsuleIInv

LEMMA CapsuleReloads ==
  ASSUME CapsuleIInv, Capsule!Reload PROVE CapsuleIInv'
<1>1. /\ capPc = "reload" /\ capAt' = 1 /\ final' = Capsule!Rebuilt
      /\ (capPc' = "before" /\ capStatus' = "passed") \/ (capPc' = "refused" /\ capStatus' # "passed")
      /\ Capsule!Declares(Capsule!Rebuilt) => capPc' = "before"
      /\ UNCHANGED <<live, configured, planned, capInventory, engineId, capsule, used, verified,
                     edited, liveEdits, capsuleEdits, capRestored>>
  BY DEF Capsule!Reload, Capsule!Refused, Capsule!Then
<1>2. CapsuleTypes'
  BY <1>1 DEF CapsuleIInv, CapsuleTypes, Early, Copying, Trying
<1>3. used = <<>> /\ verified # "yes"
  BY <1>1 DEF CapsuleIInv, NothingRead, VerifiedHolds, Copying
<1>4. NothingRead' /\ ReadOrShown' /\ AllTried' /\ VerifiedHolds'
  <2>1. Len(used) < CapsuleTrials
    BY <1>3, TrialsAssumption
  <2>2. QED BY <1>1, <1>3, <2>1 DEF NothingRead, ReadOrShown, AllTried, VerifiedHolds, Trying, Late
<1>5. ASSUME Undisturbed', capPc' = "before"
      PROVE  EngineKept' /\ InputsKept' /\ PlanKept' /\ RunKept' /\ Confirmed'
  <2>1. Undisturbed
    BY <1>1, <1>5 DEF Undisturbed
  <2>2. EngineKept' /\ InputsKept'
    BY <1>1, <2>1 DEF CapsuleIInv, EngineKept, InputsKept, Copying, Trying, Late, Capsule!CapsuleHolds
  <2>3. PlanKept'
    BY <1>1, <2>1 DEF CapsuleIInv, PlanKept, Trying, Late, Capsule!Typed
  <2>4. RunKept'
    BY <1>1, <1>5 DEF RunKept, Capsule!Rebuilt
  <2>5. QED BY <1>1, <1>5, <2>2, <2>3, <2>4 DEF Confirmed
<1>6. capPc' = "refused" => EngineKept' /\ InputsKept' /\ PlanKept' /\ RunKept' /\ Confirmed'
  BY <1>1 DEF EngineKept, InputsKept, PlanKept, RunKept, Confirmed, Copying, Trying, Late
<1>7. QED BY <1>1, <1>2, <1>4, <1>5, <1>6 DEF CapsuleIInv

\* A step of the trials changes no file: what is left to show is where it leads.
LEMMA CapsuleTries ==
  ASSUME CapsuleIInv, capPc \in Trying \cup {"finish"}, capPc' \in Trying \cup {"finish", "verify"},
         capAt' \in 1..3,
         UNCHANGED <<live, configured, planned, capInventory, engineId, capsule, final, verified,
                     edited, liveEdits, capsuleEdits, capRestored>>,
         used' \in Seq([Capsule!Inputs -> Texts]), ReadOrShown', AllTried',
         Undisturbed => capStatus' = "passed"
  PROVE  CapsuleIInv'
<1>1. CapsuleTypes'
  BY DEF CapsuleIInv, CapsuleTypes, Early, Copying, Trying, Late
<1>2. NothingRead' /\ VerifiedHolds'
  BY DEF CapsuleIInv, NothingRead, VerifiedHolds, Early, Copying, Trying, Late
<1>3. ASSUME Undisturbed' PROVE EngineKept' /\ InputsKept' /\ PlanKept' /\ RunKept' /\ Confirmed'
  <2>1. Undisturbed
    BY <1>3 DEF Undisturbed
  <2>2. EngineKept' /\ InputsKept'
    BY <2>1 DEF CapsuleIInv, EngineKept, InputsKept, Copying, Trying, Late, Capsule!CapsuleHolds
  <2>3. PlanKept'
    BY <2>1 DEF CapsuleIInv, PlanKept, Trying, Late, Capsule!Typed
  <2>4. RunKept'
    BY <2>1 DEF CapsuleIInv, RunKept, Trying, Late
  <2>5. QED BY <2>2, <2>3, <2>4 DEF Confirmed, Trying
<1>4. QED BY <1>1, <1>2, <1>3 DEF CapsuleIInv

LEMMA BoundaryUndisturbed ==
  ASSUME CapsuleIInv, Undisturbed, capPc \in Trying \cup {"finish"}
  PROVE  Capsule!BoundaryHolds /\ Capsule!Resolves /\ capStatus = "passed"
<1>1. EngineKept /\ RunKept /\ ~configured
  BY DEF CapsuleIInv, Undisturbed
<1>2. QED BY <1>1 DEF EngineKept, RunKept, Trying, Late, Capsule!BoundaryHolds, Capsule!EngineHolds,
      Capsule!PackHolds, Capsule!Resolves, Capsule!TrialReads, Capsule!CapsuleFile

\* The boundaries, and the digests the shell compares.
LEMMA CapsuleBoundaries ==
  ASSUME CapsuleIInv, Capsule!BeforeTrial \/ Capsule!AfterTrial \/ Capsule!ResolveInputs \/ Capsule!FinishSeries
  PROVE  CapsuleIInv'
<1>1. /\ capPc \in {"before", "after", "resolve", "finish"} /\ capAt' = 1
      /\ UNCHANGED <<live, configured, planned, capInventory, engineId, capsule, final, used, verified,
                     edited, liveEdits, capsuleEdits, capRestored>>
      /\ \/ capPc = "before" /\ capPc' = "resolve" /\ capStatus' = capStatus
         \/ capPc = "resolve" /\ capPc' = "read" /\ capStatus' = capStatus
         \/ capPc = "after" /\ Len(used) < CapsuleTrials /\ capPc' = "before" /\ capStatus' = capStatus
         \/ capPc = "after" /\ ~(Len(used) < CapsuleTrials) /\ capPc' = "finish" /\ capStatus' = capStatus
         \/ capPc = "finish" /\ capPc' = "verify" /\ (capStatus' = capStatus \/ capStatus' = "invalid")
         \/ capPc' = "finish" /\ capStatus' \in {"invalid", "failed"}
  BY DEF Capsule!BeforeTrial, Capsule!AfterTrial, Capsule!ResolveInputs, Capsule!FinishSeries, Capsule!Boundary,
     Capsule!Then
<1>2. /\ capPc' \in {"before", "resolve", "read", "finish", "verify"} /\ used \in Seq([Capsule!Inputs -> Texts])
      /\ AllTried /\ ReadOrShown /\ Len(used) \in Nat
  BY <1>1 DEF CapsuleIInv, CapsuleTypes
<1>3. ReadOrShown'
  BY <1>1, <1>2 DEF ReadOrShown
<1>4. AllTried'
  BY <1>1, <1>2, TrialsAssumption DEF AllTried, Trying, Late
<1>5. ASSUME Undisturbed PROVE capStatus' = "passed"
  <2>1. Capsule!BoundaryHolds /\ Capsule!Resolves /\ capStatus = "passed"
    BY <1>1, <1>5, BoundaryUndisturbed DEF Trying
  <2>2. QED BY <2>1 DEF Capsule!BeforeTrial, Capsule!AfterTrial, Capsule!ResolveInputs, Capsule!FinishSeries,
        Capsule!Boundary
<1>6. QED BY <1>1, <1>2, <1>3, <1>4, <1>5, CapsuleTries DEF Trying

LEMMA CapsuleReads ==
  ASSUME CapsuleIInv, Capsule!ReadInputs PROVE CapsuleIInv'
<1> DEFINE read == [i \in Capsule!Inputs |-> capsule[i]]
<1>1. /\ capPc = "read" /\ capPc' = "after" /\ capAt' = 1 /\ used' = Append(used, read)
      /\ UNCHANGED <<live, configured, planned, capInventory, engineId, capsule, final, capStatus, verified,
                     edited, liveEdits, capsuleEdits, capRestored>>
  BY DEF Capsule!ReadInputs, Capsule!Then, Capsule!TrialReads, Capsule!CapsuleFile
<1>2. read \in [Capsule!Inputs -> Texts] /\ used \in Seq([Capsule!Inputs -> Texts])
  BY OrderTable DEF CapsuleIInv, CapsuleTypes
<1>3. /\ used' \in Seq([Capsule!Inputs -> Texts]) /\ Len(used') = Len(used) + 1
      /\ used'[Len(used) + 1] = read /\ \A k \in 1..Len(used) : used'[k] = used[k]
  BY <1>1, <1>2
<1>4. ReadOrShown'
  <2> SUFFICES ASSUME ~capRestored, NEW k \in 1..(Len(used) + 1), NEW i \in Capsule!Inputs
               PROVE  used'[k][i] = planned.digest[i] \/ capsule[i] # planned.digest[i]
    BY <1>1, <1>3 DEF ReadOrShown
  <2>1. CASE k = Len(used) + 1
    BY <1>3, <2>1
  <2>2. CASE k # Len(used) + 1
    <3>1. k \in 1..Len(used)
      BY <1>2, <2>2
    <3>2. QED BY <1>3, <3>1 DEF CapsuleIInv, ReadOrShown
  <2>3. QED BY <2>1, <2>2
<1>5. AllTried'
  <2>1. Len(used) \in Nat /\ AllTried
    BY <1>2 DEF CapsuleIInv
  <2>2. QED BY <1>1, <1>3, <2>1, TrialsAssumption DEF AllTried, Trying, Late
<1>6. Undisturbed => capStatus' = "passed"
  BY <1>1, BoundaryUndisturbed DEF Trying
<1>7. QED BY <1>1, <1>3, <1>4, <1>5, <1>6, CapsuleTries DEF Trying

LEMMA CapsuleVerified ==
  ASSUME CapsuleIInv, Capsule!VerifySeries PROVE CapsuleIInv'
<1>1. /\ capPc = "verify" /\ capPc' = "end" /\ capAt' = 1
      /\ verified' = IF Capsule!CapsuleHolds /\ Capsule!DeclarationsHold /\ Capsule!RuntimeHolds /\ Capsule!RunsBind
                     THEN "yes" ELSE "no"
      /\ UNCHANGED <<live, configured, planned, capInventory, engineId, capsule, final, used, capStatus,
                     edited, liveEdits, capsuleEdits, capRestored>>
  BY DEF Capsule!VerifySeries, Capsule!Then
<1>2. CapsuleTypes' /\ NothingRead' /\ ReadOrShown' /\ AllTried'
  BY <1>1 DEF CapsuleIInv, CapsuleTypes, NothingRead, ReadOrShown, AllTried, Early, Copying, Trying, Late
<1>3. VerifiedHolds'
  BY <1>1 DEF VerifiedHolds, Capsule!CapsuleHolds, Capsule!RuntimeHolds
<1>4. ASSUME Undisturbed' PROVE EngineKept' /\ InputsKept' /\ PlanKept' /\ RunKept' /\ Confirmed'
  <2>1. Undisturbed
    BY <1>1, <1>4 DEF Undisturbed
  <2>2. EngineKept' /\ InputsKept'
    BY <1>1, <2>1 DEF CapsuleIInv, EngineKept, InputsKept, Copying, Trying, Late, Capsule!CapsuleHolds
  <2>3. PlanKept'
    BY <1>1, <2>1 DEF CapsuleIInv, PlanKept, Trying, Late, Capsule!Typed
  <2>4. RunKept'
    BY <1>1, <2>1 DEF CapsuleIInv, RunKept, Trying, Late
  <2>5. Confirmed'
    <3> SUFFICES ASSUME planned.parsed["spec"] = planned.digest["spec"] PROVE verified' = "yes"
      BY <1>1 DEF Confirmed
    <3>1. /\ Capsule!CapsuleHolds /\ capsule["engine"] = engineId /\ capsule["inventory"] = "none" /\ ~configured
          /\ Capsule!Typed(capsule["workload"]) = Capsule!Typed(planned.parsed["workload"])
          /\ \A i \in Capsule!Inputs : final.parsed[i] = capsule[i] /\ final.digest[i] = capsule[i]
      BY <1>1, <2>1 DEF CapsuleIInv, EngineKept, InputsKept, PlanKept, RunKept, Undisturbed, Copying, Trying, Late
    <3>2. {"spec", "workload", "config"} = Capsule!Inputs
      BY DEF Capsule!Inputs
    <3>3. capsule["workload"] = planned.digest["workload"]
      BY <3>1, <3>2 DEF Capsule!CapsuleHolds
    <3>4. Capsule!DeclarationsHold /\ Capsule!RuntimeHolds
      BY <3>1, <3>3 DEF Capsule!DeclarationsHold, Capsule!RuntimeHolds
    <3>5. Capsule!RunsBind
      BY <3>1, <3>2 DEF Capsule!CapsuleHolds, Capsule!RunsBind
    <3>6. QED BY <1>1, <3>1, <3>4, <3>5
  <2>6. QED BY <2>2, <2>3, <2>4, <2>5
<1>5. QED BY <1>2, <1>3, <1>4 DEF CapsuleIInv

\* An edit of the workspace: of an input, of which nothing is read any more, or one
\* that disturbs.
LEMMA CapsuleLive ==
  ASSUME CapsuleIInv, Capsule!EditLive PROVE CapsuleIInv'
<1>1. PICK f \in Capsule!Files, c \in Capsule!Contents : /\ live' = [live EXCEPT ![f] = c] /\ edited' = edited \cup {f}
  BY DEF Capsule!EditLive
<1>2. UNCHANGED <<capPc, capAt, configured, planned, capInventory, engineId, capsule, final, used,
                  capStatus, verified, capsuleEdits, capRestored>>
  BY DEF Capsule!EditLive
<1>3. CapsuleTypes'
  <2>1. live' \in [Capsule!Files -> Texts]
    BY <1>1 DEF CapsuleIInv, CapsuleTypes, Texts
  <2>2. QED BY <1>2, <2>1 DEF CapsuleIInv, CapsuleTypes
<1>4. NothingRead' /\ ReadOrShown' /\ AllTried' /\ VerifiedHolds'
  BY <1>2 DEF CapsuleIInv, NothingRead, ReadOrShown, AllTried, VerifiedHolds, Capsule!CapsuleHolds
<1>5. ASSUME Undisturbed' PROVE EngineKept' /\ InputsKept' /\ PlanKept' /\ RunKept' /\ Confirmed'
  <2>1. Undisturbed /\ f \in Capsule!Inputs
    BY <1>1, <1>2, <1>5 DEF Undisturbed
  <2>2. live'["engine"] = live["engine"]
    BY <1>1, <2>1, OrderTable DEF CapsuleIInv, CapsuleTypes, Capsule!Files
  <2>3. EngineKept' /\ InputsKept'
    BY <1>2, <2>1, <2>2 DEF CapsuleIInv, EngineKept, InputsKept, Capsule!CapsuleHolds
  <2>4. PlanKept' /\ RunKept' /\ Confirmed'
    BY <1>2, <2>1 DEF CapsuleIInv, PlanKept, RunKept, Confirmed, Capsule!Typed
  <2>5. QED BY <2>3, <2>4
<1>6. QED BY <1>3, <1>4, <1>5 DEF CapsuleIInv

\* An edit of the capsule leaves no input what the plan names that was not, unless
\* it puts it back.
LEMMA CapsuleTampered ==
  ASSUME CapsuleIInv, Capsule!EditCapsule PROVE CapsuleIInv'
<1>1. PICK k \in Capsule!Retained, c \in Capsule!Contents :
        /\ capsule[k] # c /\ capsule' = [capsule EXCEPT ![k] = c]
        /\ capRestored' = (capRestored \/ (k \in Capsule!Inputs /\ c = planned.digest[k]))
  BY DEF Capsule!EditCapsule
<1>2. /\ UNCHANGED <<capPc, capAt, live, configured, planned, capInventory, engineId, final, used, capStatus,
                     verified, edited, liveEdits>>
      /\ capsuleEdits' = capsuleEdits + 1 /\ capPc # "end"
  BY DEF Capsule!EditCapsule
<1>3. CapsuleTypes'
  <2>1. capsule' \in [Capsule!Retained -> Texts]
    BY <1>1 DEF CapsuleIInv, CapsuleTypes, Texts
  <2>2. QED BY <1>2, <2>1 DEF CapsuleIInv, CapsuleTypes
<1>4. ReadOrShown'
  <2> SUFFICES ASSUME ~capRestored', NEW n \in 1..Len(used), NEW i \in Capsule!Inputs
               PROVE  used[n][i] = planned.digest[i] \/ capsule'[i] # planned.digest[i]
    BY <1>2 DEF ReadOrShown
  <2>1. CASE i = k
    BY <1>1, <2>1 DEF CapsuleIInv, CapsuleTypes
  <2>2. CASE i # k
    <3>1. capsule'[i] = capsule[i] /\ ~capRestored
      BY <1>1, <2>2, OrderTable DEF CapsuleIInv, CapsuleTypes
    <3>2. QED BY <3>1 DEF CapsuleIInv, ReadOrShown
  <2>3. QED BY <2>1, <2>2
<1>5. NothingRead' /\ AllTried' /\ VerifiedHolds'
  BY <1>2 DEF CapsuleIInv, NothingRead, AllTried, VerifiedHolds
<1>6. ~Undisturbed'
  BY <1>2 DEF CapsuleIInv, CapsuleTypes, Undisturbed
<1>7. QED BY <1>3, <1>4, <1>5, <1>6 DEF CapsuleIInv

LEMMA CapsuleInvStays ==
  ASSUME CapsuleIInv, Capsule!CapsuleNext \/ UNCHANGED CapsuleVars PROVE CapsuleIInv'
<1>1. CASE Capsule!CapsuleStep
  BY <1>1, CapsuleBuilds, CapsuleChecks, CapsuleEngine, CapsuleCopies, CapsulePublished, CapsuleReloads,
     CapsuleBoundaries, CapsuleReads, CapsuleVerified DEF Capsule!CapsuleStep
<1>2. CASE UNCHANGED CapsuleVars
  <2>1. CapsuleTypes' /\ NothingRead' /\ ReadOrShown' /\ AllTried' /\ VerifiedHolds'
    BY <1>2 DEF CapsuleVars, CapsuleIInv, CapsuleTypes, NothingRead, ReadOrShown, AllTried, VerifiedHolds,
       Capsule!CapsuleHolds
  <2>2. Undisturbed' = Undisturbed
    BY <1>2 DEF CapsuleVars, Undisturbed
  <2>3. Undisturbed => EngineKept' /\ InputsKept' /\ PlanKept' /\ RunKept' /\ Confirmed'
    BY <1>2 DEF CapsuleVars, CapsuleIInv, EngineKept, InputsKept, PlanKept, RunKept, Confirmed,
       Capsule!CapsuleHolds, Capsule!Typed
  <2>4. QED BY <2>1, <2>2, <2>3 DEF CapsuleIInv
<1>3. QED BY <1>1, <1>2, CapsuleLive, CapsuleTampered DEF Capsule!CapsuleNext

LEMMA CapsuleInvariance == Spec => [](part = "capsule" => CapsuleIInv)
<1>1. Init => (part = "capsule" => CapsuleIInv)
  BY PartStarts, CapsuleInvInit
<1>2. (part = "capsule" => CapsuleIInv) /\ [Next]_allVars => (part = "capsule" => CapsuleIInv)'
  BY PartSteps, CapsuleInvStays
<1>3. QED BY <1>1, <1>2, PTL DEF Spec

\* A verified series ran its plan, in every trial, and is out of the reach of edits
\* of the workspace (benchmarkplan, benchmarkrun.Start, ExecuteTrial).
THEOREM SeriesRanTheirPlan == Spec => []SeriesRanItsPlan
<1>1. CapsuleIInv => Capsule!VerifiedSeriesRanItsPlan
  <2> SUFFICES ASSUME CapsuleIInv, capStatus = "passed", verified = "yes", ~capRestored
               PROVE  /\ Len(used) = CapsuleTrials /\ capsule["engine"] = engineId
                      /\ \A k \in DOMAIN used : used[k] = planned.digest
    BY DEF Capsule!VerifiedSeriesRanItsPlan
  <2>1. capPc = "end" /\ Capsule!CapsuleHolds /\ capsule["engine"] = engineId /\ Len(used) = CapsuleTrials
    BY DEF CapsuleIInv, VerifiedHolds, AllTried, Late
  <2>2. ASSUME NEW k \in DOMAIN used PROVE used[k] = planned.digest
    <3>1. k \in 1..Len(used) /\ used[k] \in [Capsule!Inputs -> Texts] /\ planned.digest \in [Capsule!Inputs -> Texts]
      BY DEF CapsuleIInv, CapsuleTypes
    <3>2. \A i \in Capsule!Inputs : used[k][i] = planned.digest[i]
      BY <2>1, <3>1 DEF CapsuleIInv, ReadOrShown, Capsule!CapsuleHolds
    <3>3. QED BY <3>1, <3>2
  <2>3. QED BY <2>1, <2>2
<1>2. CapsuleIInv => Capsule!WorkspaceEditsNeverReachIt
  BY DEF CapsuleIInv, Undisturbed, RunKept, Confirmed, Late, Capsule!WorkspaceEditsNeverReachIt
<1>3. (part = "capsule" => CapsuleIInv) => SeriesRanItsPlan
  BY <1>1, <1>2 DEF SeriesRanItsPlan
<1>4. QED BY <1>3, CapsuleInvariance, PTL

-----------------------------------------------------------------------------
(* Ranks.  In a total order of 1..n each number has the rank of those      *)
(* below it, from 0 to n-1, and no rank is left over.                      *)

IsOrder(R, n) ==
  /\ \A i \in 1..n : <<i, i>> \notin R
  /\ \A i, j \in 1..n : i # j => <<i, j>> \in R \/ <<j, i>> \in R
  /\ \A i, j, k \in 1..n : <<i, j>> \in R /\ <<j, k>> \in R => <<i, k>> \in R
Lower(R, n, i) == {k \in 1..n : <<k, i>> \in R}
Rank(R, n, i) == Cardinality(Lower(R, n, i))

LEMMA RankIsNumber ==
  ASSUME NEW n \in Nat, NEW R, IsOrder(R, n), NEW i \in 1..n
  PROVE  Rank(R, n, i) \in 0..(n - 1) /\ IsFiniteSet(Lower(R, n, i))
<1>1. IsFiniteSet(1..n) /\ Cardinality(1..n) = n
  BY FS_Interval
<1>2. IsFiniteSet((1..n) \ {i}) /\ Cardinality((1..n) \ {i}) = n - 1
  BY <1>1, FS_RemoveElement
<1>3. Lower(R, n, i) \in SUBSET ((1..n) \ {i})
  BY DEF Lower, IsOrder
<1>4. QED BY <1>1, <1>2, <1>3, FS_Subset, FS_CardinalityType DEF Rank

LEMMA RankIsOrder ==
  ASSUME NEW n \in Nat, NEW R, IsOrder(R, n), NEW i \in 1..n, NEW j \in 1..n
  PROVE  /\ <<i, j>> \in R <=> Rank(R, n, i) < Rank(R, n, j)
         /\ Rank(R, n, i) = Rank(R, n, j) => i = j
<1>1. ASSUME NEW a \in 1..n, NEW b \in 1..n, <<a, b>> \in R
      PROVE  Rank(R, n, a) < Rank(R, n, b)
  <2>1. a \notin Lower(R, n, a) /\ Lower(R, n, a) \cup {a} \in SUBSET Lower(R, n, b)
    BY <1>1 DEF Lower, IsOrder
  <2>2. Cardinality(Lower(R, n, a) \cup {a}) = Rank(R, n, a) + 1
    BY <2>1, RankIsNumber, FS_AddElement DEF Rank
  <2>3. Cardinality(Lower(R, n, a) \cup {a}) <= Rank(R, n, b)
    BY <2>1, RankIsNumber, FS_Subset DEF Rank
  <2>4. QED BY <2>2, <2>3, RankIsNumber
<1>2. Rank(R, n, i) \in Int /\ Rank(R, n, j) \in Int
  BY RankIsNumber
<1>3. i = j \/ <<i, j>> \in R \/ <<j, i>> \in R
  BY DEF IsOrder
<1>4. <<j, i>> \in R => Rank(R, n, j) < Rank(R, n, i)
  BY <1>1
<1>5. <<i, j>> \in R => Rank(R, n, i) < Rank(R, n, j)
  BY <1>1
<1>6. QED BY <1>2, <1>3, <1>4, <1>5

\* As many ranks as numbers, and no two of one rank: each rank is taken.
LEMMA EachRankIsTaken ==
  ASSUME NEW n \in Nat, NEW R, IsOrder(R, n), NEW r \in 0..(n - 1)
  PROVE  \E i \in 1..n : Rank(R, n, i) = r
<1> SUFFICES ASSUME \A i \in 1..n : Rank(R, n, i) # r PROVE FALSE
  OBVIOUS
<1> DEFINE Others == (0..(n - 1)) \ {r}
           f == [i \in 1..n |-> Rank(R, n, i)]
<1>1. IsFiniteSet(1..n) /\ Cardinality(1..n) = n
  BY FS_Interval
<1>2. IsFiniteSet(0..(n - 1)) /\ Cardinality(0..(n - 1)) = n
  <2>1. \A b \in Int : IsFiniteSet(0..b) /\ Cardinality(0..b) = IF 0 > b THEN 0 ELSE b - 0 + 1
    <3>1. 0 \in Int
      OBVIOUS
    <3>2. QED BY <3>1, FS_Interval
  <2>2. n - 1 \in Int
    OBVIOUS
  <2>3. IsFiniteSet(0..(n - 1)) /\ Cardinality(0..(n - 1)) = IF 0 > n - 1 THEN 0 ELSE (n - 1) - 0 + 1
    BY <2>1, <2>2, Zenon
  <2>4. QED BY <2>3
<1>3. IsFiniteSet(Others) /\ Cardinality(Others) = n - 1
  BY <1>2, FS_RemoveElement
<1>4. f \in [1..n -> Others]
  BY RankIsNumber
<1>5. Cardinality(Others) < Cardinality(1..n)
  BY <1>1, <1>3
<1> HIDE DEF Others, f
<1>6. \E x, y \in 1..n : x # y /\ f[x] = f[y]
  BY <1>1, <1>3, <1>4, <1>5, FS_PigeonHole
<1>7. QED BY <1>6, RankIsOrder DEF f

-----------------------------------------------------------------------------
(* A history.  The order of its series is that of their starts and names,  *)
(* which is total on series of different names: each series has a place of *)
(* its own in it, whatever the order they were named in.                   *)

Told == [started : Nat, finished : Nat, median : Nat, flaw : History!Flaws]
Named(seen) ==
  /\ seen \in Seq([id : SeriesNames, content : Told])
  /\ \A k, n \in 1..Len(seen) : k # n => seen[k].id # seen[n].id
AheadOf(seen, n) == {k \in 1..Len(seen) : History!Before(seen[k], seen[n])}
Place(seen, n) == Cardinality(AheadOf(seen, n))

LEMMA NamedSeries ==
  ASSUME NEW seen, Named(seen)
  PROVE  /\ Len(seen) \in Nat /\ IsFiniteSet(1..Len(seen)) /\ Cardinality(1..Len(seen)) = Len(seen)
         /\ \A n \in 1..Len(seen) : seen[n].id \in SeriesNames /\ seen[n].content \in Told
<1> DEFINE Series == [id : SeriesNames, content : Told]
<1>1. seen \in Seq(Series)
  BY DEF Named
<1>2. \A s \in Series : s.id \in SeriesNames /\ s.content \in Told
  OBVIOUS
<1> HIDE DEF Series
<1>3. Len(seen) \in Nat /\ \A n \in 1..Len(seen) : seen[n] \in Series
  BY <1>1
<1>4. IsFiniteSet(1..Len(seen)) /\ Cardinality(1..Len(seen)) = Len(seen)
  BY <1>3, FS_Interval
<1>5. QED BY <1>2, <1>3, <1>4

LEMMA HistoryCounts == \A S : History!Cardinality(S) = Cardinality(S)
BY DEF History!Cardinality, Cardinality

LEMMA RankTable ==
  /\ \A s \in SeriesNames : History!NameRank[s] \in Nat
  /\ \A s, r \in SeriesNames : s # r => History!NameRank[s] # History!NameRank[r]
<1> DEFINE N == Cardinality(SeriesNames)
<1>1. N \in Nat /\ IsFiniteSet(1..N) /\ Cardinality(1..N) = N
  BY FS_CardinalityType, FS_Interval, SeriesAssumption
<1>2. PICK f : f \in Bijection(SeriesNames, 1..N)
  BY <1>1, FS_SameCardinalityBij, SeriesAssumption DEF ExistsBijection
<1>3. f \in [SeriesNames -> 1..N] /\ History!IsInjective(f)
  BY <1>2 DEF Bijection, Injection, IsInjective, History!IsInjective
<1>4. History!NameRank \in [SeriesNames -> 1..N] /\ History!IsInjective(History!NameRank)
  BY <1>3, HistoryCounts DEF History!NameRank
<1>5. QED BY <1>1, <1>4 DEF History!IsInjective

LEMMA BeforeIsTotal ==
  ASSUME NEW seen, Named(seen), NEW k \in 1..Len(seen), NEW n \in 1..Len(seen)
  PROVE  /\ ~History!Before(seen[n], seen[n])
         /\ k # n => History!Before(seen[k], seen[n]) \/ History!Before(seen[n], seen[k])
         /\ History!Before(seen[k], seen[n]) => ~History!Before(seen[n], seen[k])
         /\ History!Ahead(seen, k, n) <=> History!Before(seen[k], seen[n])
         /\ \A m \in 1..Len(seen) :
              History!Before(seen[k], seen[n]) /\ History!Before(seen[n], seen[m]) => History!Before(seen[k], seen[m])
<1>1. \A m \in 1..Len(seen) : /\ seen[m].id \in SeriesNames /\ seen[m].content.started \in Nat
                              /\ History!NameRank[seen[m].id] \in Nat
  BY RankTable, NamedSeries DEF Told
<1>2. k # n => History!NameRank[seen[k].id] # History!NameRank[seen[n].id]
  BY <1>1, NamedSeries, RankTable DEF Named
<1>3. /\ ~History!Before(seen[n], seen[n])
      /\ k # n => History!Before(seen[k], seen[n]) \/ History!Before(seen[n], seen[k])
      /\ History!Before(seen[k], seen[n]) => ~History!Before(seen[n], seen[k])
  BY <1>1, <1>2 DEF History!Before
<1>4. ASSUME NEW m \in 1..Len(seen), History!Before(seen[k], seen[n]), History!Before(seen[n], seen[m])
      PROVE  History!Before(seen[k], seen[m])
  BY <1>1, <1>4 DEF History!Before
<1>5. History!Ahead(seen, k, n) <=> History!Before(seen[k], seen[n])
  BY <1>3 DEF History!Ahead
<1>6. QED BY <1>3, <1>4, <1>5

Earlier(seen) ==
  {p \in (1..Len(seen)) \X (1..Len(seen)) : History!Before(seen[p[1]], seen[p[2]])}
LEMMA EarlierIsOrder ==
  ASSUME NEW seen, Named(seen)
  PROVE  /\ IsOrder(Earlier(seen), Len(seen))
         /\ \A k, n \in 1..Len(seen) : <<k, n>> \in Earlier(seen) <=> History!Before(seen[k], seen[n])
         /\ \A n \in 1..Len(seen) : /\ AheadOf(seen, n) = Lower(Earlier(seen), Len(seen), n)
                                   /\ Place(seen, n) = Rank(Earlier(seen), Len(seen), n)
<1>1. \A k, n \in 1..Len(seen) : <<k, n>> \in Earlier(seen) <=> History!Before(seen[k], seen[n])
  BY DEF Earlier
<1>2. IsOrder(Earlier(seen), Len(seen))
  BY <1>1, BeforeIsTotal DEF IsOrder
<1>3. \A n \in 1..Len(seen) : AheadOf(seen, n) = Lower(Earlier(seen), Len(seen), n)
  BY <1>1 DEF AheadOf, Lower
<1>4. QED BY <1>1, <1>2, <1>3 DEF Place, Rank

LEMMA PlaceIsNumber ==
  ASSUME NEW seen, Named(seen), NEW n \in 1..Len(seen)
  PROVE  Place(seen, n) \in 0..(Len(seen) - 1) /\ IsFiniteSet(AheadOf(seen, n))
BY EarlierIsOrder, RankIsNumber, NamedSeries

LEMMA PlaceIsOrder ==
  ASSUME NEW seen, Named(seen), NEW k \in 1..Len(seen), NEW n \in 1..Len(seen)
  PROVE  /\ History!Before(seen[k], seen[n]) <=> Place(seen, k) < Place(seen, n)
         /\ Place(seen, k) = Place(seen, n) => k = n
<1> DEFINE L == Len(seen)
           R == Earlier(seen)
<1>1. L \in Nat /\ IsOrder(R, L) /\ (<<k, n>> \in R <=> History!Before(seen[k], seen[n]))
  BY EarlierIsOrder, NamedSeries
<1>2. Place(seen, k) = Rank(R, L, k) /\ Place(seen, n) = Rank(R, L, n)
  BY EarlierIsOrder
<1>3. k \in 1..L /\ n \in 1..L
  OBVIOUS
<1> HIDE DEF L, R
<1>4. (<<k, n>> \in R <=> Rank(R, L, k) < Rank(R, L, n)) /\ (Rank(R, L, k) = Rank(R, L, n) => k = n)
  BY <1>1, <1>3, RankIsOrder
<1>5. QED BY <1>1, <1>2, <1>4

LEMMA EachPlaceIsTaken ==
  ASSUME NEW seen, Named(seen), NEW i \in 1..Len(seen)
  PROVE  \E n \in 1..Len(seen) : Place(seen, n) = i - 1
<1>1. Len(seen) \in Nat /\ i - 1 \in 0..(Len(seen) - 1)
  BY NamedSeries
<1>2. \E n \in 1..Len(seen) : Rank(Earlier(seen), Len(seen), n) = i - 1
  BY <1>1, EarlierIsOrder, EachRankIsTaken
<1>3. QED BY <1>2, EarlierIsOrder

\* The order that derive puts series in.
LEMMA ChronologyPlaces ==
  ASSUME NEW seen, Named(seen)
  PROVE  LET order == History!Chronology(seen) IN
         /\ \A i \in 1..Len(seen) : order[i] \in 1..Len(seen) /\ Place(seen, order[i]) = i - 1
         /\ \A i, j \in 1..Len(seen) : i < j => History!Before(seen[order[i]], seen[order[j]])
         /\ \A i, j \in 1..Len(seen) : i # j => order[i] # order[j]
         /\ \A n \in 1..Len(seen) : \E i \in 1..Len(seen) : order[i] = n
<1> DEFINE order == History!Chronology(seen)
<1>1. ASSUME NEW i \in 1..Len(seen) PROVE order[i] \in 1..Len(seen) /\ Place(seen, order[i]) = i - 1
  <2>1. \A m \in 1..Len(seen) :
          History!Cardinality({k \in 1..Len(seen) : History!Ahead(seen, k, m)}) = Place(seen, m)
    <3> SUFFICES ASSUME NEW m \in 1..Len(seen)
                 PROVE  {k \in 1..Len(seen) : History!Ahead(seen, k, m)} = AheadOf(seen, m)
      BY HistoryCounts DEF Place
    <3>1. QED BY BeforeIsTotal DEF AheadOf
  <2>2. order[i] = CHOOSE m \in 1..Len(seen) :
          History!Cardinality({k \in 1..Len(seen) : History!Ahead(seen, k, m)}) = i - 1
    BY DEF History!Chronology
  <2>3. \E m \in 1..Len(seen) :
          History!Cardinality({k \in 1..Len(seen) : History!Ahead(seen, k, m)}) = i - 1
    BY <2>1, EachPlaceIsTaken
  <2>4. QED BY <2>1, <2>2, <2>3
<1> HIDE DEF order
<1>2. ASSUME NEW i \in 1..Len(seen), NEW j \in 1..Len(seen), i < j
      PROVE  History!Before(seen[order[i]], seen[order[j]])
  BY <1>1, <1>2, PlaceIsOrder
<1>3. ASSUME NEW i \in 1..Len(seen), NEW j \in 1..Len(seen), i # j
      PROVE  order[i] # order[j]
  BY <1>1, <1>3
<1>4. ASSUME NEW n \in 1..Len(seen) PROVE \E i \in 1..Len(seen) : order[i] = n
  <2>1. Place(seen, n) + 1 \in 1..Len(seen)
    BY PlaceIsNumber, NamedSeries
  <2>2. Place(seen, order[Place(seen, n) + 1]) = Place(seen, n) /\ order[Place(seen, n) + 1] \in 1..Len(seen)
    BY <1>1, <2>1, PlaceIsNumber
  <2>3. QED BY <2>1, <2>2, PlaceIsOrder
<1>5. QED BY <1>1, <1>2, <1>3, <1>4 DEF order

\* The place of a series is told by the set of series alone.
LEMMA PlaceInSet ==
  ASSUME NEW seen, Named(seen), NEW n \in 1..Len(seen), NEW E, E = {seen[k] : k \in 1..Len(seen)}
  PROVE  Place(seen, n) = Cardinality({e \in E : History!Before(e, seen[n])})
<1> DEFINE S == AheadOf(seen, n)
           T == {e \in E : History!Before(e, seen[n])}
           g == [k \in S |-> seen[k]]
<1>1. g \in [S -> T]
  BY DEF AheadOf
<1>2. \A k, j \in S : g[k] = g[j] => k = j
  BY DEF AheadOf, Named
<1>3. \A e \in T : \E k \in S : g[k] = e
  BY DEF AheadOf
<1> HIDE DEF S, T, g
<1>4. g \in Bijection(S, T)
  BY <1>1, <1>2, <1>3 DEF Bijection, Injection, Surjection, IsInjective
<1>5. IsFiniteSet(S)
  BY PlaceIsNumber DEF S
<1>6. Cardinality(T) = Cardinality(S)
  BY <1>4, <1>5, FS_Bijection DEF ExistsBijection
<1>7. QED BY <1>6 DEF S, T, Place

Alike(s, t) ==
  /\ Named(s) /\ Named(t) /\ Len(s) = Len(t)
  /\ \A n \in 1..Len(s) : \E m \in 1..Len(s) : s[n] = t[m]
  /\ \A n \in 1..Len(s) : \E m \in 1..Len(s) : t[n] = s[m]

LEMMA SameChronology ==
  ASSUME NEW s, NEW t, Alike(s, t), NEW i \in 1..Len(s)
  PROVE  s[History!Chronology(s)[i]] = t[History!Chronology(t)[i]]
<1> DEFINE E == {s[k] : k \in 1..Len(s)}
           a == History!Chronology(s)[i]
           b == History!Chronology(t)[i]
<1>0. Named(s) /\ Named(t) /\ Len(s) = Len(t)
  BY DEF Alike
<1>1. E = {t[k] : k \in 1..Len(t)}
  <2>1. ASSUME NEW k \in 1..Len(s) PROVE s[k] \in {t[j] : j \in 1..Len(t)}
    BY DEF Alike
  <2>2. ASSUME NEW k \in 1..Len(t) PROVE t[k] \in E
    BY DEF Alike
  <2>3. QED BY <2>1, <2>2
<1>2. /\ a \in 1..Len(s) /\ Place(s, a) = i - 1 /\ b \in 1..Len(t) /\ Place(t, b) = i - 1
  BY <1>0, ChronologyPlaces
<1>9. E = {s[k] : k \in 1..Len(s)}
  OBVIOUS
<1> HIDE DEF a, b, E
<1>3. PICK m \in 1..Len(t) : s[a] = t[m]
  BY <1>2 DEF Alike
<1>4. Place(t, m) = Cardinality({e \in E : History!Before(e, t[m])})
  BY <1>0, <1>1, PlaceInSet
<1>5. Place(s, a) = Cardinality({e \in E : History!Before(e, s[a])})
  BY <1>0, <1>2, <1>9, PlaceInSet
<1>6. Place(t, m) = i - 1
  BY <1>2, <1>3, <1>4, <1>5
<1>7. m = b
  BY <1>2, <1>6, PlaceIsOrder DEF Alike
<1>8. QED BY <1>3, <1>7 DEF a, b

\* What derive makes of series: each entry is of one of them, in their order.
LEMMA DerivedEntries ==
  ASSUME NEW seen, Named(seen), NEW digests
  PROVE  LET entries == History!Derive(seen, digests)
             order == History!Chronology(seen)
         IN  /\ Len(entries) = Len(seen) /\ DOMAIN entries = 1..Len(seen)
             /\ \A n \in 1..Len(seen) : /\ entries[n].id = seen[order[n]].id
                                        /\ entries[n].content = seen[order[n]].content
                                        /\ entries[n].digest = digests[order[n]]
BY NamedSeries DEF History!Derive

LEMMA DerivedAlike ==
  ASSUME NEW s, NEW t, Alike(s, t)
  PROVE  History!Derive(s, History!Digests(s)) = History!Derive(t, History!Digests(t))
<1> DEFINE a == History!Chronology(s)
           b == History!Chronology(t)
<1>1. \A n \in 1..Len(s) : s[a[n]] = t[b[n]] /\ a[n] \in 1..Len(s) /\ b[n] \in 1..Len(t)
  <2>1. Named(s) /\ Named(t) /\ Len(s) = Len(t)
    BY DEF Alike
  <2>2. \A n \in 1..Len(s) : a[n] \in 1..Len(s)
    BY <2>1, ChronologyPlaces
  <2>3. \A n \in 1..Len(t) : b[n] \in 1..Len(t)
    BY <2>1, ChronologyPlaces
  <2>4. \A n \in 1..Len(s) : s[a[n]] = t[b[n]]
    BY SameChronology
  <2>5. QED BY <2>1, <2>2, <2>3, <2>4
<1>2. \A n \in 1..Len(s) : History!Digests(s)[a[n]] = History!Digests(t)[b[n]]
  BY <1>1 DEF History!Digests
<1>3. Len(s) = Len(t) /\ Len(s) \in Nat
  BY NamedSeries DEF Alike
<1> HIDE DEF a, b
<1>4. \A n \in 1..Len(s) : n # 1 => n - 1 \in 1..Len(s) /\ 1 \in 1..Len(s)
  BY <1>3
<1> DEFINE Entry(seen, o, digests, n) ==
             [id |-> seen[o[n]].id, content |-> seen[o[n]].content, digest |-> digests[o[n]],
              previous |-> IF n = 1 THEN "none"
                           ELSE History!Change(seen[o[n-1]].content.median, seen[o[n]].content.median),
              first    |-> IF n = 1 THEN "none"
                           ELSE History!Change(seen[o[1]].content.median, seen[o[n]].content.median)]
<1>5. ASSUME NEW n \in 1..Len(s)
      PROVE  Entry(s, a, History!Digests(s), n) = Entry(t, b, History!Digests(t), n)
  BY <1>1, <1>2, <1>4
<1>6. /\ History!Derive(s, History!Digests(s)) = [n \in 1..Len(s) |-> Entry(s, a, History!Digests(s), n)]
      /\ History!Derive(t, History!Digests(t)) = [n \in 1..Len(t) |-> Entry(t, b, History!Digests(t), n)]
  BY DEF History!Derive, a, b
<1> HIDE DEF Entry
<1>7. QED BY <1>3, <1>5, <1>6

\* Series put in their order are the same series.
LEMMA Rearranged ==
  ASSUME NEW s, Named(s), NEW t, t = [n \in 1..Len(s) |-> s[History!Chronology(s)[n]]]
  PROVE  Alike(s, t) /\ (History!Admissible(s) => History!Admissible(t))
<1> DEFINE a == History!Chronology(s)
<1>1. /\ \A i \in 1..Len(s) : a[i] \in 1..Len(s)
      /\ \A i, j \in 1..Len(s) : i # j => a[i] # a[j]
      /\ \A n \in 1..Len(s) : \E i \in 1..Len(s) : a[i] = n
  BY ChronologyPlaces
<1> HIDE DEF a
<1>2. t = [n \in 1..Len(s) |-> s[a[n]]]
  BY DEF a
<1>3. Len(t) = Len(s) /\ Len(s) \in Nat /\ \A n \in 1..Len(s) : t[n] = s[a[n]]
  BY <1>2, NamedSeries
<1>4. Named(t)
  <2> DEFINE Series == [id : SeriesNames, content : Told]
  <2>1. s \in Seq(Series)
    BY DEF Named
  <2> HIDE DEF Series
  <2>2. \A n \in 1..Len(s) : s[a[n]] \in Series
    BY <1>1, <2>1
  <2>3. t \in Seq(Series)
    BY <1>2, <1>3, <2>2
  <2>4. ASSUME NEW k \in 1..Len(t), NEW n \in 1..Len(t), k # n PROVE t[k].id # t[n].id
    <3>1. a[n] \in 1..Len(s) /\ a[k] \in 1..Len(s) /\ a[n] # a[k] /\ t[n] = s[a[n]] /\ t[k] = s[a[k]]
      BY <1>1, <1>3, <2>4
    <3>2. QED BY <3>1 DEF Named
  <2>5. QED BY <2>3, <2>4 DEF Named, Series
<1>5. ASSUME NEW n \in 1..Len(s)
      PROVE  (\E m \in 1..Len(s) : s[n] = t[m]) /\ (\E m \in 1..Len(s) : t[n] = s[m])
  <2>1. PICK i \in 1..Len(s) : a[i] = n
    BY <1>1
  <2>2. s[n] = t[i] /\ t[n] = s[a[n]] /\ a[n] \in 1..Len(s)
    BY <1>1, <1>3, <2>1
  <2>3. QED BY <2>2
<1>6. Alike(s, t)
  BY <1>3, <1>4, <1>5 DEF Alike
<1>7. ASSUME History!Admissible(s) PROVE History!Admissible(t)
  <2>1. ASSUME NEW n \in 1..Len(t)
        PROVE  t[n].content.flaw # "status" /\ t[n].content.finished <= History!GeneratedAt
    <3>1. a[n] \in 1..Len(s) /\ t[n] = s[a[n]]
      BY <1>1, <1>3
    <3>2. QED BY <1>7, <3>1 DEF History!Admissible
  <2>2. ASSUME NEW n \in 1..Len(t), NEW k \in 1..Len(t), n # k
        PROVE  /\ t[n].id # t[k].id /\ History!Population(t[n]) = History!Population(t[k])
               /\ ~History!Shares(t[n], t[k])
    <3>1. a[n] \in 1..Len(s) /\ a[k] \in 1..Len(s) /\ a[n] # a[k] /\ t[n] = s[a[n]] /\ t[k] = s[a[k]]
      BY <1>1, <1>3, <2>2
    <3>2. QED BY <1>7, <3>1 DEF History!Admissible
  <2>3. QED BY <2>1, <2>2 DEF History!Admissible
<1>8. QED BY <1>6, <1>7

HistoryPcs == {"read", "derive", "inspect", "rename", "verify", "refused", "done", "invalid"}
HistoryTypes ==
  /\ histLive \in [SeriesNames -> Told \cup {History!Gone}]
  /\ histInputs \in [Writers -> Seq(SeriesNames)]
  /\ histPc \in [Writers -> HistoryPcs]
  /\ DOMAIN histSeen = Writers /\ DOMAIN histResult = Writers
\* The writers were given the same series, in the same order or the other way round.
SameSeries ==
  \E order \in Seq(SeriesNames) :
    Len(order) > 1 /\ \A w \in Writers : histInputs[w] = order \/ histInputs[w] = History!Reverse(order)
Unread(w) == histSeen[w] = <<>> /\ histResult[w] = History!NoHistory
ReadWhole(w) ==
  /\ histSeen[w] \in Seq([id : SeriesNames, content : Told]) /\ Len(histSeen[w]) = Len(histInputs[w])
  /\ \A n \in 1..Len(histSeen[w]) : histSeen[w][n].id = histInputs[w][n]
Underived(w) == histResult[w] = History!NoHistory
DerivedOf(w) ==
  /\ History!Admissible(histSeen[w])
  /\ \E digests : histResult[w] = [by |-> w, entries |-> History!Derive(histSeen[w], digests)]
WriterHolds(w) ==
  /\ Unread(w) \/ ReadWhole(w)
  /\ histPc[w] = "read" => Unread(w)
  /\ histPc[w] = "derive" => ReadWhole(w) /\ Underived(w)
  /\ Underived(w) \/ (ReadWhole(w) /\ DerivedOf(w))
\* While no series was rewritten, what was read and derived is what is there.
Quiet == \A s \in SeriesNames : histLive[s] # History!Gone /\ histLive[s].median # 2
StillThere(w) ==
  /\ \A n \in 1..Len(histSeen[w]) : histSeen[w][n].content = histLive[histSeen[w][n].id]
  /\ ~Underived(w) => histResult[w].entries = History!Derive(histSeen[w], History!Digests(histSeen[w]))
PublishedByOne == histDir = History!NoHistory \/ \E w \in Writers : histDir = histResult[w]

HistoryIInv == /\ HistoryTypes /\ SameSeries /\ PublishedByOne
               /\ \A w \in Writers : WriterHolds(w)
               /\ (Quiet => \A w \in Writers : StillThere(w))

LEMMA ToldContents ==
  /\ History!SeriesContents \subseteq Told /\ History!Gone \notin Told
  /\ [started |-> 1, finished |-> 3, median |-> 2, flaw |-> "none"] \in Told
<1>1. \A s \in Told : DOMAIN s = {"started", "finished", "median", "flaw"}
  BY DEF Told
<1>2. DOMAIN History!Gone = {"started"}
  BY DEF History!Gone
<1>3. History!Gone \notin Told
  BY <1>1, <1>2
<1>4. [started |-> 1, finished |-> 3, median |-> 2, flaw |-> "none"] \in Told
  BY DEF Told, History!Flaws
<1>5. [started : {1}, finished : {2}, median : 0..1, flaw : {"none"}] \subseteq Told
  BY DEF Told, History!Flaws
<1>6. [started : {2}, finished : 3..4, median : {1}, flaw : {"none"}] \subseteq Told
  BY DEF Told, History!Flaws
<1>7. [started : {1}, finished : {2}, median : {1}, flaw : History!Flaws \ {"none"}] \subseteq Told
  BY DEF Told, History!Flaws
<1>8. QED BY <1>3, <1>4, <1>5, <1>6, <1>7 DEF History!SeriesContents

LEMMA ListedSeries ==
  /\ History!SetToSeq(SeriesNames) \in Seq(SeriesNames)
  /\ Len(History!SetToSeq(SeriesNames)) > 1
<1> DEFINE N == Cardinality(SeriesNames)
<1>1. N \in Nat /\ N > 1 /\ IsFiniteSet(1..N) /\ Cardinality(1..N) = N
  BY FS_CardinalityType, FS_Interval, SeriesAssumption
<1>2. PICK f : f \in Bijection(1..N, SeriesNames)
  BY <1>1, FS_SameCardinalityBij, SeriesAssumption DEF ExistsBijection
<1>3. f \in [1..N -> SeriesNames] /\ History!IsInjective(f)
  BY <1>2 DEF Bijection, Injection, IsInjective, History!IsInjective
<1>4. History!SetToSeq(SeriesNames) \in [1..N -> SeriesNames]
  BY <1>3, HistoryCounts DEF History!SetToSeq
<1> HIDE DEF N
<1>5. QED BY <1>1, <1>4

LEMMA HistoryInvInit == History!HistoryInit => HistoryIInv
<1> SUFFICES ASSUME History!HistoryInit PROVE HistoryIInv
  OBVIOUS
<1> DEFINE all == History!SetToSeq(SeriesNames)
<1>1. PICK order \in {all, <<Head(all), Head(all)>>} :
        histInputs = [w \in Writers |-> IF w = CHOOSE v \in Writers : TRUE THEN order ELSE History!Reverse(order)]
  BY DEF History!HistoryInit, History!Orders
<1>2. order \in Seq(SeriesNames) /\ Len(order) > 1
  <2>1. all \in Seq(SeriesNames) /\ Len(all) > 1
    BY ListedSeries
  <2> HIDE DEF all
  <2>2. Head(all) \in SeriesNames
    BY <2>1
  <2>3. <<Head(all), Head(all)>> \in Seq(SeriesNames) /\ Len(<<Head(all), Head(all)>>) > 1
    BY <2>2
  <2>4. QED BY <1>1, <2>1, <2>3
<1>3. History!Reverse(order) \in Seq(SeriesNames)
  BY <1>2 DEF History!Reverse
<1>4. HistoryTypes /\ SameSeries
  BY <1>1, <1>2, <1>3, ToldContents DEF History!HistoryInit, HistoryTypes, SameSeries, HistoryPcs
<1>5. PublishedByOne /\ \A w \in Writers : WriterHolds(w) /\ StillThere(w)
  BY DEF History!HistoryInit, PublishedByOne, WriterHolds, StillThere, Unread, Underived
<1>6. QED BY <1>4, <1>5 DEF HistoryIInv

\* A step of one writer that leaves the series, its arguments and its reading alone.
LEMMA HistoryMoves ==
  ASSUME HistoryIInv, UNCHANGED <<histLive, histInputs, histSeen, histResult>>,
         histPc' \in [Writers -> HistoryPcs], PublishedByOne',
         \A w \in Writers : histPc'[w] \in {"read", "derive"} => histPc'[w] = histPc[w]
  PROVE  HistoryIInv'
<1>1. HistoryTypes' /\ SameSeries'
  BY DEF HistoryIInv, HistoryTypes, SameSeries
<1>2. \A w \in Writers : WriterHolds(w)'
  BY DEF HistoryIInv, WriterHolds, Unread, ReadWhole, Underived, DerivedOf
<1>3. Quiet' => \A w \in Writers : StillThere(w)'
  BY DEF HistoryIInv, Quiet, StillThere, Underived, History!Digests
<1>4. QED BY <1>1, <1>2, <1>3 DEF HistoryIInv

LEMMA HistoryLooks ==
  ASSUME HistoryIInv, NEW w \in Writers,
         History!InspectHistory(w) \/ History!PublishHistory(w) \/ History!VerifyHistory(w)
  PROVE  HistoryIInv'
<1>1. PICK label \in {"rename", "refused", "verify", "done", "invalid"} : histPc' = [histPc EXCEPT ![w] = label]
  BY DEF History!InspectHistory, History!PublishHistory, History!VerifyHistory, History!GotoHist
<1>2. UNCHANGED <<histLive, histInputs, histSeen, histResult>> /\ (histDir' = histDir \/ histDir' = histResult[w])
  BY DEF History!InspectHistory, History!PublishHistory, History!VerifyHistory
<1>3. histPc' \in [Writers -> HistoryPcs] /\ \A v \in Writers : histPc'[v] \in {"read", "derive"} => histPc'[v] = histPc[v]
  BY <1>1 DEF HistoryIInv, HistoryTypes, HistoryPcs
<1>4. PublishedByOne'
  BY <1>2 DEF HistoryIInv, PublishedByOne
<1>5. QED BY <1>2, <1>3, <1>4, HistoryMoves

LEMMA HistoryReads ==
  ASSUME HistoryIInv, NEW w \in Writers, History!ReadSeries(w) PROVE HistoryIInv'
<1> DEFINE inputs == histInputs[w]
           read == [n \in 1..Len(inputs) |-> [id |-> inputs[n], content |-> histLive[inputs[n]]]]
<1>1. UNCHANGED <<histLive, histInputs, histResult, histDir>> /\ histPc[w] = "read"
  BY DEF History!ReadSeries
<1>2. CASE histPc' = [histPc EXCEPT ![w] = "refused"] /\ histSeen' = histSeen
  <2>1. histPc' \in [Writers -> HistoryPcs]
        /\ \A v \in Writers : histPc'[v] \in {"read", "derive"} => histPc'[v] = histPc[v]
    BY <1>2 DEF HistoryIInv, HistoryTypes, HistoryPcs
  <2>2. PublishedByOne'
    BY <1>1 DEF HistoryIInv, PublishedByOne
  <2>3. QED BY <1>1, <1>2, <2>1, <2>2, HistoryMoves
<1>3. CASE /\ histPc' = [histPc EXCEPT ![w] = "derive"] /\ histSeen' = [histSeen EXCEPT ![w] = read]
           /\ \A n \in 1..Len(inputs) : histLive[inputs[n]] # History!Gone
  <2>1. inputs \in Seq(SeriesNames) /\ Len(inputs) \in Nat
    BY DEF HistoryIInv, HistoryTypes
  <2>2. \A n \in 1..Len(inputs) : inputs[n] \in SeriesNames /\ histLive[inputs[n]] \in Told
    BY <1>3, <2>1 DEF HistoryIInv, HistoryTypes
  <2>3. \A n \in 1..Len(inputs) : [id |-> inputs[n], content |-> histLive[inputs[n]]] \in [id : SeriesNames, content : Told]
    BY <2>2
  <2> HIDE DEF inputs
  <2>4. /\ read \in Seq([id : SeriesNames, content : Told]) /\ Len(read) = Len(inputs)
        /\ \A n \in 1..Len(inputs) : read[n].id = inputs[n] /\ read[n].content = histLive[inputs[n]]
    BY <2>1, <2>3
  <2> HIDE DEF read
  <2>5. DOMAIN histSeen' = Writers /\ histSeen'[w] = read /\ \A v \in Writers \ {w} : histSeen'[v] = histSeen[v]
    BY <1>3 DEF HistoryIInv, HistoryTypes
  <2>6. histPc' \in [Writers -> HistoryPcs] /\ histPc'[w] = "derive" /\ \A v \in Writers \ {w} : histPc'[v] = histPc[v]
    BY <1>3 DEF HistoryIInv, HistoryTypes, HistoryPcs
  <2>7. HistoryTypes' /\ SameSeries' /\ PublishedByOne'
    BY <1>1, <2>5, <2>6 DEF HistoryIInv, HistoryTypes, SameSeries, PublishedByOne
  <2>8. Underived(w)'
    BY <1>1 DEF HistoryIInv, WriterHolds, Unread, Underived
  <2>9. ReadWhole(w)'
    BY <1>1, <2>4, <2>5 DEF ReadWhole, inputs
  <2>10. ASSUME NEW v \in Writers PROVE WriterHolds(v)'
    <3>1. CASE v = w
      BY <2>6, <2>8, <2>9, <3>1 DEF WriterHolds
    <3>2. CASE v # w
      <4>1. WriterHolds(v) /\ histSeen'[v] = histSeen[v] /\ histPc'[v] = histPc[v]
        BY <2>5, <2>6, <3>2 DEF HistoryIInv
      <4>2. QED BY <1>1, <4>1 DEF WriterHolds, Unread, ReadWhole, Underived, DerivedOf
    <3>3. QED BY <3>1, <3>2
  <2>11. ASSUME Quiet', NEW v \in Writers PROVE StillThere(v)'
    <3>1. CASE v = w
      BY <1>1, <2>4, <2>5, <2>8, <3>1 DEF StillThere
    <3>2. CASE v # w
      BY <1>1, <2>5, <2>11, <3>2 DEF HistoryIInv, Quiet, StillThere, Underived, History!Digests
    <3>3. QED BY <3>1, <3>2
  <2>12. QED BY <2>7, <2>10, <2>11 DEF HistoryIInv
<1>4. QED BY <1>2, <1>3 DEF History!ReadSeries, History!GotoHist

LEMMA HistoryDerives ==
  ASSUME HistoryIInv, NEW w \in Writers, History!DeriveHistory(w) PROVE HistoryIInv'
<1> DEFINE result == [by |-> w, entries |-> History!Derive(histSeen[w], History!Digests(histSeen[w]))]
<1>1. UNCHANGED <<histLive, histInputs, histSeen, histDir>> /\ histPc[w] = "derive"
  BY DEF History!DeriveHistory
<1>2. ReadWhole(w) /\ Underived(w)
  BY <1>1 DEF HistoryIInv, WriterHolds
<1>3. CASE histPc' = [histPc EXCEPT ![w] = "refused"] /\ histResult' = histResult
  <2>1. histPc' \in [Writers -> HistoryPcs]
        /\ \A v \in Writers : histPc'[v] \in {"read", "derive"} => histPc'[v] = histPc[v]
    BY <1>3 DEF HistoryIInv, HistoryTypes, HistoryPcs
  <2>2. PublishedByOne'
    BY <1>1, <1>3 DEF HistoryIInv, PublishedByOne
  <2>3. QED BY <1>1, <1>3, <2>1, <2>2, HistoryMoves
<1>4. CASE /\ histPc' = [histPc EXCEPT ![w] = "inspect"] /\ histResult' = [histResult EXCEPT ![w] = result]
           /\ History!Admissible(histSeen[w])
  <2>1. DOMAIN histResult' = Writers /\ histResult'[w] = result
        /\ \A v \in Writers \ {w} : histResult'[v] = histResult[v]
    BY <1>4 DEF HistoryIInv, HistoryTypes
  <2>2. histPc' \in [Writers -> HistoryPcs] /\ histPc'[w] = "inspect" /\ \A v \in Writers \ {w} : histPc'[v] = histPc[v]
    BY <1>4 DEF HistoryIInv, HistoryTypes, HistoryPcs
  <2>3. HistoryTypes' /\ SameSeries'
    BY <1>1, <2>1, <2>2 DEF HistoryIInv, HistoryTypes, SameSeries
  <2>4. PublishedByOne'
    BY <1>1, <1>2, <2>1 DEF HistoryIInv, PublishedByOne, Underived
  <2>5. ReadWhole(w)' /\ DerivedOf(w)'
    BY <1>1, <1>2, <1>4, <2>1 DEF ReadWhole, DerivedOf
  <2>6. ASSUME NEW v \in Writers PROVE WriterHolds(v)'
    <3>1. CASE v = w
      BY <2>2, <2>5, <3>1 DEF WriterHolds
    <3>2. CASE v # w
      BY <1>1, <2>1, <2>2, <3>2, ZenonT(30) DEF HistoryIInv, WriterHolds, Unread, ReadWhole, Underived, DerivedOf
    <3>3. QED BY <3>1, <3>2
  <2>7. ASSUME Quiet', NEW v \in Writers PROVE StillThere(v)'
    <3>1. Quiet /\ StillThere(v)
      BY <1>1, <2>7 DEF HistoryIInv, Quiet
    <3>2. History!Digests(histSeen[v])' = History!Digests(histSeen[v])
      BY <1>1 DEF History!Digests
    <3>3. CASE v = w
      BY <1>1, <2>1, <3>1, <3>2, <3>3 DEF StillThere
    <3>4. CASE v # w
      BY <1>1, <2>1, <3>1, <3>2, <3>4 DEF StillThere, Underived
    <3>5. QED BY <3>3, <3>4
  <2>8. QED BY <2>3, <2>4, <2>6, <2>7 DEF HistoryIInv
<1>5. QED BY <1>3, <1>4 DEF History!DeriveHistory, History!GotoHist

\* A rewritten series is no longer quiet, for good.
LEMMA HistoryRewritten ==
  ASSUME HistoryIInv, History!RewriteSeries PROVE HistoryIInv'
<1>1. PICK s \in SeriesNames, new \in {History!Gone, [started |-> 1, finished |-> 3, median |-> 2, flaw |-> "none"]} :
        histLive' = [histLive EXCEPT ![s] = new]
  BY DEF History!RewriteSeries
<1>2. UNCHANGED <<histInputs, histPc, histSeen, histResult, histDir>>
  BY DEF History!RewriteSeries
<1>3. histLive' \in [SeriesNames -> Told \cup {History!Gone}] /\ histLive'[s] = new
  BY <1>1, ToldContents DEF HistoryIInv, HistoryTypes
<1>4. HistoryTypes' /\ SameSeries' /\ PublishedByOne'
  BY <1>2, <1>3 DEF HistoryIInv, HistoryTypes, SameSeries, PublishedByOne
<1>5. \A w \in Writers : WriterHolds(w)'
  BY <1>2 DEF HistoryIInv, WriterHolds, Unread, ReadWhole, Underived, DerivedOf
<1>6. new = History!Gone \/ new.median = 2
  BY <1>1
<1>7. ~Quiet'
  BY <1>3, <1>6 DEF Quiet
<1>8. QED BY <1>4, <1>5, <1>7 DEF HistoryIInv

LEMMA HistoryInvStays ==
  ASSUME HistoryIInv, History!HistoryNext \/ UNCHANGED HistoryVars PROVE HistoryIInv'
<1>1. CASE \E w \in Writers : History!HistoryStep(w)
  BY <1>1, HistoryReads, HistoryDerives, HistoryLooks DEF History!HistoryStep
<1>2. CASE UNCHANGED HistoryVars
  <2>1. histPc' \in [Writers -> HistoryPcs] /\ histPc' = histPc /\ PublishedByOne'
    BY <1>2 DEF HistoryVars, HistoryIInv, HistoryTypes, PublishedByOne
  <2>2. QED BY <1>2, <2>1, HistoryMoves DEF HistoryVars
<1>3. QED BY <1>1, <1>2, HistoryRewritten DEF History!HistoryNext

LEMMA HistoryInvariance == Spec => [](part = "history" => HistoryIInv)
<1>1. Init => (part = "history" => HistoryIInv)
  BY PartStarts, HistoryInvInit
<1>2. (part = "history" => HistoryIInv) /\ [Next]_allVars => (part = "history" => HistoryIInv)'
  BY PartSteps, HistoryInvStays
<1>3. QED BY <1>1, <1>2, PTL DEF Spec

\* The entries of whatever is published are of series.
LEMMA ResultEntries ==
  ASSUME HistoryIInv, NEW w \in Writers, histResult[w] # History!NoHistory
  PROVE  /\ Named(histSeen[w]) /\ Len(histResult[w].entries) = Len(histSeen[w])
         /\ \A n \in 1..Len(histSeen[w]) : histResult[w].entries[n].id \in SeriesNames
<1>1. ReadWhole(w) /\ DerivedOf(w)
  BY DEF HistoryIInv, WriterHolds, Underived
<1>2. Named(histSeen[w])
  BY <1>1 DEF ReadWhole, DerivedOf, History!Admissible, Named
<1>3. PICK digests : histResult[w].entries = History!Derive(histSeen[w], digests)
  BY <1>1 DEF DerivedOf
<1> DEFINE o == History!Chronology(histSeen[w])
<1>4. /\ Len(histResult[w].entries) = Len(histSeen[w])
      /\ \A n \in 1..Len(histSeen[w]) : histResult[w].entries[n].id = histSeen[w][o[n]].id
  BY <1>2, <1>3, DerivedEntries
<1>5. \A n \in 1..Len(histSeen[w]) : o[n] \in 1..Len(histSeen[w])
  BY <1>2, ChronologyPlaces
<1> HIDE DEF o
<1>6. QED BY <1>2, <1>4, <1>5, NamedSeries

\* Verified, it tells what its series say now.
LEMMA VerifiedIsTrue ==
  ASSUME HistoryIInv, histDir # History!NoHistory, History!HistoryVerifies(histDir)
  PROVE  LET e == histDir.entries IN
         /\ \A n \in 1..Len(e) : e[n].content = histLive[e[n].id]
         /\ \A n, k \in 1..Len(e) : n < k =>
              /\ e[n].content.started <= e[k].content.started
              /\ History!Population(e[n]) = History!Population(e[k])
              /\ ~History!Shares(e[n], e[k]) /\ e[n].id # e[k].id
<1> DEFINE e == histDir.entries
           L == Len(e)
           seen == [n \in 1..L |-> [id |-> e[n].id, content |-> histLive[e[n].id]]]
<1>1. L \in Nat /\ \A n \in 1..L : e[n].id \in SeriesNames
  BY ResultEntries, NamedSeries DEF HistoryIInv, PublishedByOne
<1>2. \A n \in 1..L : histLive[e[n].id] # History!Gone
  BY DEF History!HistoryVerifies, History!BoundToSeries
<1>3. \A n \in 1..L : histLive[e[n].id] \in Told
  BY <1>1, <1>2 DEF HistoryIInv, HistoryTypes
<1>4. History!Admissible(seen) /\ e = History!Derive(seen, History!Digests(seen))
  <2>1. seen = [n \in 1..L |-> [id |-> History!Ids(histDir)[n], content |-> histLive[History!Ids(histDir)[n]]]]
    BY DEF History!Ids
  <2> HIDE DEF seen
  <2>2. QED BY <2>1 DEF History!HistoryVerifies, History!Rederived
<1>5. \A n \in 1..L : [id |-> e[n].id, content |-> histLive[e[n].id]] \in [id : SeriesNames, content : Told]
  BY <1>1, <1>3
<1> HIDE DEF e, L
<1>6. /\ seen \in Seq([id : SeriesNames, content : Told]) /\ Len(seen) = L
      /\ \A n \in 1..L : seen[n].id = e[n].id /\ seen[n].content = histLive[e[n].id]
  BY <1>1, <1>5
<1> HIDE DEF seen
<1>7. Named(seen)
  BY <1>4, <1>6 DEF Named, History!Admissible
<1> DEFINE o == History!Chronology(seen)
<1>8. /\ \A n \in 1..L : o[n] \in 1..L
      /\ \A n, k \in 1..L : n < k => History!Before(seen[o[n]], seen[o[k]])
      /\ \A n, k \in 1..L : n # k => o[n] # o[k]
  BY <1>6, <1>7, ChronologyPlaces
<1>9. \A n \in 1..L : e[n].id = seen[o[n]].id /\ e[n].content = seen[o[n]].content
  BY <1>4, <1>6, <1>7, DerivedEntries
<1> HIDE DEF o
<1>10. ASSUME NEW n \in 1..L PROVE e[n].content = histLive[e[n].id]
  BY <1>6, <1>8, <1>9
<1>11. ASSUME NEW n \in 1..L, NEW k \in 1..L, n < k
       PROVE  /\ e[n].content.started <= e[k].content.started
              /\ History!Population(e[n]) = History!Population(e[k])
              /\ ~History!Shares(e[n], e[k]) /\ e[n].id # e[k].id
  <2>1. o[n] \in 1..Len(seen) /\ o[k] \in 1..Len(seen) /\ o[n] # o[k]
    BY <1>1, <1>6, <1>8, <1>11
  <2>2. e[n].content.started \in Nat /\ e[k].content.started \in Nat
    <3>1. seen[o[n]].content \in Told /\ seen[o[k]].content \in Told
      BY <1>7, <2>1, NamedSeries
    <3>2. \A c \in Told : c.started \in Nat
      BY DEF Told
    <3>3. e[n].content = seen[o[n]].content /\ e[k].content = seen[o[k]].content
      BY <1>9
    <3>4. QED BY <3>1, <3>2, <3>3
  <2>3. History!Before(seen[o[n]], seen[o[k]])
    BY <1>8, <1>11
  <2>4. e[n].content.started <= e[k].content.started
    BY <1>9, <2>2, <2>3 DEF History!Before
  <2>5. /\ seen[o[n]].id # seen[o[k]].id /\ History!Population(seen[o[n]]) = History!Population(seen[o[k]])
        /\ ~History!Shares(seen[o[n]], seen[o[k]])
    BY <1>4, <2>1 DEF History!Admissible
  <2>6. QED BY <1>9, <2>4, <2>5 DEF History!Population, History!Shares
<1>12. QED BY <1>10, <1>11 DEF e, L

\* What two writers read of quiet series is alike.
LEMMA WritersReadAlike ==
  ASSUME HistoryIInv, Quiet, NEW w \in Writers, NEW v \in Writers,
         histResult[w] # History!NoHistory, histResult[v] # History!NoHistory
  PROVE  Alike(histSeen[w], histSeen[v]) /\ Len(histSeen[w]) > 1
<1> DEFINE s == histSeen[w]
           t == histSeen[v]
<1>1. Named(s) /\ Named(t) /\ ReadWhole(w) /\ ReadWhole(v) /\ StillThere(w) /\ StillThere(v)
  BY ResultEntries DEF HistoryIInv, WriterHolds, Underived
<1>2. PICK order \in Seq(SeriesNames) :
        Len(order) > 1 /\ \A u \in Writers : histInputs[u] = order \/ histInputs[u] = History!Reverse(order)
  BY DEF HistoryIInv, SameSeries
<1> DEFINE L == Len(order)
<1>3. L \in Nat /\ Len(History!Reverse(order)) = L
      /\ \A n \in 1..L : History!Reverse(order)[n] = order[(L - n) + 1] /\ (L - n) + 1 \in 1..L
  BY <1>2 DEF History!Reverse
<1>4. Len(s) = L /\ Len(t) = L
  BY <1>1, <1>2, <1>3 DEF ReadWhole
<1>5. ASSUME NEW a \in {w, v}, NEW b \in {w, v}, NEW n \in 1..L
      PROVE  \E m \in 1..L : histSeen[a][n] = histSeen[b][m]
  <2>1. \A u \in {w, v} : \A m \in 1..L : /\ histSeen[u][m].id = histInputs[u][m]
                                          /\ histSeen[u][m].content = histLive[histInputs[u][m]]
    BY <1>1, <1>4 DEF ReadWhole, StillThere
  <2>2. \A u \in {w, v} : \A m \in 1..L : histSeen[u][m] = [id |-> histSeen[u][m].id, content |-> histSeen[u][m].content]
    <3>1. \A u \in {w, v} : histSeen[u] \in Seq([id : SeriesNames, content : Told]) /\ Len(histSeen[u]) = L
      BY <1>1, <1>4 DEF ReadWhole
    <3>2. \A r \in [id : SeriesNames, content : Told] : r = [id |-> r.id, content |-> r.content]
      OBVIOUS
    <3>3. ASSUME NEW u \in {w, v}, NEW m \in 1..L
          PROVE  histSeen[u][m] \in [id : SeriesNames, content : Told]
      <4> DEFINE Series == [id : SeriesNames, content : Told]
      <4>1. histSeen[u] \in Seq(Series) /\ Len(histSeen[u]) = L
        BY <3>1
      <4> HIDE DEF Series, L
      <4>2. histSeen[u][m] \in Series
        BY <4>1
      <4>3. QED BY <4>2 DEF Series
    <3>4. QED BY <3>2, <3>3
  <2>3. \A u \in {w, v} : \A m \in 1..L :
          histSeen[u][m] = [id |-> histInputs[u][m], content |-> histLive[histInputs[u][m]]]
    BY <2>1, <2>2
  <2>4. \E m \in 1..L : histInputs[a][n] = histInputs[b][m]
    <3>1. a \in Writers /\ b \in Writers
      OBVIOUS
    <3> HIDE DEF L
    <3>2. CASE histInputs[a] = histInputs[b]
      BY <3>2
    <3>3. CASE histInputs[a] = order /\ histInputs[b] = History!Reverse(order)
      <4>1. (L - n) + 1 \in 1..L /\ (L - ((L - n) + 1)) + 1 = n
        BY <1>3
      <4>2. histInputs[b][(L - n) + 1] = order[n]
        BY <1>3, <3>3, <4>1
      <4>3. QED BY <3>3, <4>1, <4>2
    <3>4. CASE histInputs[a] = History!Reverse(order) /\ histInputs[b] = order
      BY <1>3, <3>4
    <3>5. QED BY <1>2, <3>1, <3>2, <3>3, <3>4
  <2>5. PICK m \in 1..L : histInputs[a][n] = histInputs[b][m]
    BY <2>4
  <2>6. histSeen[a][n] = histSeen[b][m]
    <3> HIDE DEF L
    <3>1. /\ histSeen[a][n] = [id |-> histInputs[a][n], content |-> histLive[histInputs[a][n]]]
          /\ histSeen[b][m] = [id |-> histInputs[b][m], content |-> histLive[histInputs[b][m]]]
      BY <2>3, Zenon
    <3>2. QED BY <2>5, <3>1
  <2>7. QED BY <2>6
<1>6. \A n \in 1..L : (\E m \in 1..L : s[n] = t[m]) /\ (\E m \in 1..L : t[n] = s[m])
  BY <1>5
<1>7. QED BY <1>1, <1>2, <1>4, <1>6 DEF Alike

\* Undisturbed, what was derived is what anyone derives from the series, and verifies.
LEMMA QuietVerifies ==
  ASSUME HistoryIInv, Quiet, NEW w \in Writers, histResult[w] # History!NoHistory
  PROVE  History!HistoryVerifies(histResult[w])
<1> DEFINE s == histSeen[w]
           o == History!Chronology(s)
           e == histResult[w].entries
           t == [n \in 1..Len(s) |-> s[o[n]]]
           seen == [n \in 1..Len(e) |-> [id |-> e[n].id, content |-> histLive[e[n].id]]]
<1>1. Named(s) /\ Len(s) > 1 /\ History!Admissible(s) /\ StillThere(w)
      /\ e = History!Derive(s, History!Digests(s))
  BY ResultEntries, WritersReadAlike DEF HistoryIInv, WriterHolds, DerivedOf, Underived, StillThere
<1>2. /\ Len(e) = Len(s) /\ \A n \in 1..Len(s) : o[n] \in 1..Len(s)
      /\ \A n \in 1..Len(s) : /\ e[n].id = s[o[n]].id /\ e[n].content = s[o[n]].content
                              /\ e[n].digest = History!Digests(s)[o[n]]
  <2>1. /\ Len(e) = Len(s)
        /\ \A n \in 1..Len(s) : /\ e[n].id = s[o[n]].id /\ e[n].content = s[o[n]].content
                                /\ e[n].digest = History!Digests(s)[o[n]]
    BY <1>1, DerivedEntries
  <2>2. \A n \in 1..Len(s) : o[n] \in 1..Len(s)
    BY <1>1, ChronologyPlaces
  <2>3. QED BY <2>1, <2>2
<1>3. \A n \in 1..Len(s) : /\ s[o[n]].id \in SeriesNames /\ s[o[n]].content = histLive[s[o[n]].id]
                           /\ e[n].digest = histLive[e[n].id]
  BY <1>1, <1>2, NamedSeries DEF StillThere, History!Digests
<1>4. seen = t
  <2>1. \A r \in [id : SeriesNames, content : Told] : r = [id |-> r.id, content |-> r.content]
    OBVIOUS
  <2>2. s \in Seq([id : SeriesNames, content : Told])
    BY <1>1 DEF Named
  <2>3. ASSUME NEW n \in 1..Len(s) PROVE s[o[n]] \in [id : SeriesNames, content : Told]
    <3> DEFINE Series == [id : SeriesNames, content : Told]
    <3>1. s \in Seq(Series) /\ o[n] \in 1..Len(s)
      BY <1>2, <2>2
    <3> HIDE DEF Series, s, o
    <3>2. s[o[n]] \in Series
      BY <3>1
    <3>3. QED BY <3>2 DEF Series
  <2> HIDE DEF s, o, e
  <2>4. \A n \in 1..Len(s) : [id |-> e[n].id, content |-> histLive[e[n].id]] = s[o[n]]
    BY <1>2, <1>3, <2>1, <2>3
  <2>5. QED BY <1>2, <2>4
<1>5. Alike(s, t) /\ History!Admissible(t)
  BY <1>1, Rearranged
<1>6. History!Admissible(seen) /\ e = History!Derive(seen, History!Digests(seen))
  <2> HIDE DEF s, t, e, seen
  <2>1. QED BY <1>1, <1>4, <1>5, DerivedAlike
<1>7. seen = [n \in 1..Len(e) |-> [id |-> History!Ids(histResult[w])[n], content |-> histLive[History!Ids(histResult[w])[n]]]]
  BY DEF History!Ids
<1>8. History!Rederived(histResult[w])
  <2> HIDE DEF seen
  <2>1. QED BY <1>6, <1>7 DEF History!Rederived
<1>9. History!BoundToSeries(histResult[w])
  BY <1>2, <1>3 DEF History!BoundToSeries, Quiet
<1>10. Len(e) >= 2
  BY <1>1, <1>2, NamedSeries
<1>11. QED BY <1>8, <1>9, <1>10 DEF History!HistoryVerifies

\* A history that verifies is true, and does not depend on the order of its
\* arguments (benchmarkhistory.derive, Verify).
THEOREM HistoriesAreTrue == Spec => []HistoryIsTrue
<1>1. HistoryIInv => History!VerifiedHistoryIsTrue
  BY VerifiedIsTrue DEF History!VerifiedHistoryIsTrue
<1>2. HistoryIInv => History!HistoryOrderFree
  <2> SUFFICES ASSUME HistoryIInv, Quiet, NEW w \in Writers, NEW v \in Writers,
                      histResult[w] # History!NoHistory, histResult[v] # History!NoHistory
               PROVE  histResult[w].entries = histResult[v].entries /\ History!HistoryVerifies(histResult[w])
    BY DEF History!HistoryOrderFree, Quiet
  <2>1. /\ histResult[w].entries = History!Derive(histSeen[w], History!Digests(histSeen[w]))
        /\ histResult[v].entries = History!Derive(histSeen[v], History!Digests(histSeen[v]))
    BY DEF HistoryIInv, StillThere, Underived
  <2>2. QED BY <2>1, WritersReadAlike, DerivedAlike, QuietVerifies
<1>3. (part = "history" => HistoryIInv) => HistoryIsTrue
  BY <1>1, <1>2 DEF HistoryIsTrue
<1>4. QED BY <1>3, HistoryInvariance, PTL

-----------------------------------------------------------------------------
(* A decision.  Of the n + 1 lower effects of n units two are of one, and  *)
(* so are two of the n + 1 upper ones: a unit lies at or below the median, *)
(* and one at or above.                                                    *)

LEMMA PairedCounts == \A S : Paired!Cardinality(S) = Cardinality(S)
BY DEF Paired!Cardinality, Cardinality

Smaller(bag) == {p \in (1..Len(bag)) \X (1..Len(bag)) : Paired!Below(bag, p[1], p[2])}
Position(bag, n) ==
  CHOOSE i \in 1..Len(bag) : Paired!Cardinality({j \in 1..Len(bag) : Paired!Below(bag, j, i)}) = n - 1

LEMMA SmallerIsOrder ==
  ASSUME NEW bag \in Seq(Int)
  PROVE  /\ IsOrder(Smaller(bag), Len(bag))
         /\ \A i, j \in 1..Len(bag) : <<i, j>> \in Smaller(bag) <=> Paired!Below(bag, i, j)
<1>1. \A i, j \in 1..Len(bag) : <<i, j>> \in Smaller(bag) <=> Paired!Below(bag, i, j)
  BY DEF Smaller
<1>2. \A i \in 1..Len(bag) : bag[i] \in Int
  OBVIOUS
<1>3. /\ \A i \in 1..Len(bag) : ~Paired!Below(bag, i, i)
      /\ \A i, j \in 1..Len(bag) : i # j => Paired!Below(bag, i, j) \/ Paired!Below(bag, j, i)
  BY <1>2 DEF Paired!Below
<1>4. \A i, j, k \in 1..Len(bag) : Paired!Below(bag, i, j) /\ Paired!Below(bag, j, k) => Paired!Below(bag, i, k)
  BY <1>2 DEF Paired!Below
<1>5. QED BY <1>1, <1>3, <1>4 DEF IsOrder

LEMMA PositionsAreSorted ==
  ASSUME NEW bag \in Seq(Int)
  PROVE  /\ \A r \in 1..Len(bag) : Position(bag, r) \in 1..Len(bag) /\ Paired!InOrder(bag, r) = bag[Position(bag, r)]
         /\ \A r, s \in 1..Len(bag) : r < s => bag[Position(bag, r)] <= bag[Position(bag, s)]
         /\ \A r, s \in 1..Len(bag) : r < s => Position(bag, r) # Position(bag, s)
<1> DEFINE L == Len(bag)
           rank(i) == Rank(Smaller(bag), L, i)
<1>1. L \in Nat /\ \A i \in 1..L : bag[i] \in Int
  OBVIOUS
<1>2. \A i \in 1..L : Paired!Cardinality({j \in 1..L : Paired!Below(bag, j, i)}) = rank(i)
  <2> SUFFICES ASSUME NEW i \in 1..L PROVE {j \in 1..L : Paired!Below(bag, j, i)} = Lower(Smaller(bag), L, i)
    BY PairedCounts DEF Rank
  <2>1. QED BY SmallerIsOrder DEF Lower
<1>3. ASSUME NEW r \in 1..L PROVE Position(bag, r) \in 1..L /\ rank(Position(bag, r)) = r - 1
  <2>1. r - 1 \in 0..(L - 1)
    BY <1>1
  <2>2. \E i \in 1..L : rank(i) = r - 1
    BY <1>1, <2>1, SmallerIsOrder, EachRankIsTaken
  <2>3. \E i \in 1..L : Paired!Cardinality({j \in 1..L : Paired!Below(bag, j, i)}) = r - 1
    BY <1>2, <2>2
  <2>4. QED BY <1>2, <2>3 DEF Position
<1>4. \A r \in 1..L : Paired!InOrder(bag, r) = bag[Position(bag, r)]
  BY DEF Paired!InOrder, Position
<1>5. ASSUME NEW r \in 1..L, NEW s \in 1..L, r < s
      PROVE  bag[Position(bag, r)] <= bag[Position(bag, s)] /\ Position(bag, r) # Position(bag, s)
  <2>1. rank(Position(bag, r)) < rank(Position(bag, s))
    BY <1>3, <1>5
  <2>2. <<Position(bag, r), Position(bag, s)>> \in Smaller(bag)
    BY <1>1, <1>3, <2>1, SmallerIsOrder, RankIsOrder
  <2>3. Paired!Below(bag, Position(bag, r), Position(bag, s))
    BY <1>3, <2>2, SmallerIsOrder
  <2>4. bag[Position(bag, r)] \in Int /\ bag[Position(bag, s)] \in Int
    BY <1>1, <1>3
  <2> HIDE DEF rank
  <2>5. bag[Position(bag, r)] <= bag[Position(bag, s)]
    BY <2>3, <2>4 DEF Paired!Below
  <2>6. Position(bag, r) # Position(bag, s)
    <3>1. r - 1 # s - 1
      BY <1>1, <1>5
    <3>2. QED BY <3>1, <1>3
  <2>7. QED BY <2>5, <2>6
<1>6. QED BY <1>3, <1>4, <1>5

\* The unit of an effect.
UnitAt(i) == (i + 1) \div 2
Total(bag, k) == bag[2*k - 1] + bag[2*k]

LEMMA BothOfUnit ==
  ASSUME NEW n \in Nat, NEW bag \in Seq(Int), Len(bag) = 2 * n,
         NEW p \in 1..(2*n), NEW q \in 1..(2*n), p # q, UnitAt(p) = UnitAt(q)
  PROVE  UnitAt(p) \in 1..n /\ Total(bag, UnitAt(p)) = bag[p] + bag[q]
<1> DEFINE k == UnitAt(p)
<1>1. k \in 1..n /\ (p = 2*k - 1 \/ p = 2*k) /\ (q = 2*k - 1 \/ q = 2*k)
  BY DEF UnitAt
<1>2. bag[p] \in Int /\ bag[q] \in Int
  OBVIOUS
<1> HIDE DEF k
<1>3. bag[2*k - 1] + bag[2*k] = bag[p] + bag[q]
  <2>1. CASE p = 2*k - 1 /\ q = 2*k
    BY <2>1
  <2>2. CASE p = 2*k /\ q = 2*k - 1
    BY <2>2, <1>2
  <2>3. QED BY <1>1, <2>1, <2>2
<1>4. QED BY <1>1, <1>3 DEF Total, k

LEMMA TwoOfOneUnit ==
  ASSUME NEW n \in Nat \ {0}, NEW bag \in Seq(Int), Len(bag) = 2 * n, NEW base \in {0, n - 1}
  PROVE  \E r, s \in (base + 1)..(base + n + 1) : r < s /\ UnitAt(Position(bag, r)) = UnitAt(Position(bag, s))
<1> DEFINE f == [x \in 1..(n + 1) |-> UnitAt(Position(bag, base + x))]
<1>1. \A x \in 1..(n + 1) : base + x \in 1..(2*n)
  OBVIOUS
<1>2. \A x \in 1..(n + 1) : Position(bag, base + x) \in 1..(2*n)
  BY <1>1, PositionsAreSorted
<1>3. \A p \in 1..(2*n) : UnitAt(p) \in 1..n
  BY DEF UnitAt
<1>4. f \in [1..(n + 1) -> 1..n]
  BY <1>2, <1>3
<1>5. n + 1 \in Nat
  OBVIOUS
<1>6. \A b \in Nat : IsFiniteSet(1..b) /\ Cardinality(1..b) = b
  <2>1. 1 \in Int /\ \A b \in Nat : b \in Int
    OBVIOUS
  <2>2. \A b \in Nat : IsFiniteSet(1..b) /\ Cardinality(1..b) = IF 1 > b THEN 0 ELSE b - 1 + 1
    BY <2>1, FS_Interval, Zenon
  <2>3. \A b \in Nat : (IF 1 > b THEN 0 ELSE b - 1 + 1) = b
    OBVIOUS
  <2>4. QED BY <2>2, <2>3
<1>7. IsFiniteSet(1..n) /\ IsFiniteSet(1..(n + 1)) /\ Cardinality(1..n) = n /\ Cardinality(1..(n + 1)) = n + 1
  BY <1>5, <1>6
<1>8. Cardinality(1..n) < Cardinality(1..(n + 1))
  BY <1>7
<1>9. PICK x \in 1..(n + 1), y \in 1..(n + 1) : x # y /\ f[x] = f[y]
  <2> DEFINE S == 1..(n + 1)
             T == 1..n
  <2>1. IsFiniteSet(S) /\ IsFiniteSet(T) /\ Cardinality(T) < Cardinality(S) /\ f \in [S -> T]
    BY <1>4, <1>7, <1>8
  <2> HIDE DEF S, T, f
  <2>2. \E x, y \in S : x # y /\ f[x] = f[y]
    BY <2>1, FS_PigeonHole
  <2>3. QED BY <2>2 DEF S
<1>10. UnitAt(Position(bag, base + x)) = UnitAt(Position(bag, base + y))
  BY <1>9 DEF f
<1>11. CASE x < y
  <2>1. base + x \in (base + 1)..(base + n + 1) /\ base + y \in (base + 1)..(base + n + 1) /\ base + x < base + y
    BY <1>11
  <2>2. QED BY <1>10, <2>1
<1>12. CASE y < x
  <2>1. base + x \in (base + 1)..(base + n + 1) /\ base + y \in (base + 1)..(base + n + 1) /\ base + y < base + x
    BY <1>12
  <2>2. QED BY <1>10, <2>1
<1>13. QED BY <1>9, <1>11, <1>12

LEMMA MedianIsBetween ==
  ASSUME NEW n \in Nat \ {0}, NEW bag \in Seq(Int), Len(bag) = 2 * n
  PROVE  /\ Paired!DoubledMedian(bag) \in Int
         /\ \E k \in 1..n : Total(bag, k) <= Paired!DoubledMedian(bag)
         /\ \E k \in 1..n : Total(bag, k) >= Paired!DoubledMedian(bag)
<1> DEFINE nth(r) == bag[Position(bag, r)]
<1>1. \A r \in 1..(2*n) : nth(r) \in Int /\ Position(bag, r) \in 1..(2*n)
  <2>1. \A r \in 1..(2*n) : Position(bag, r) \in 1..(2*n)
    BY PositionsAreSorted
  <2>2. \A i \in 1..(2*n) : bag[i] \in Int
    OBVIOUS
  <2>3. QED BY <2>1, <2>2
<1>2. \A r, s \in 1..(2*n) : r <= s => nth(r) <= nth(s)
  <2>1. \A r, s \in 1..(2*n) : r < s => nth(r) <= nth(s)
    BY PositionsAreSorted
  <2> SUFFICES ASSUME NEW r \in 1..(2*n), NEW s \in 1..(2*n), r <= s PROVE nth(r) <= nth(s)
    OBVIOUS
  <2>2. nth(r) \in Int
    BY <1>1
  <2> HIDE DEF nth
  <2>3. CASE r = s
    BY <2>2, <2>3
  <2>4. CASE r < s
    BY <2>1, <2>4
  <2>5. QED BY <2>3, <2>4
<1>3. Paired!DoubledMedian(bag) = nth(n) + nth(n + 1)
  <2>1. Len(bag) \div 2 = n /\ n \in 1..Len(bag) /\ n + 1 \in 1..Len(bag)
    OBVIOUS
  <2>2. QED BY <2>1, PositionsAreSorted DEF Paired!DoubledMedian
<1>4. n \in 1..(2*n) /\ n + 1 \in 1..(2*n)
  OBVIOUS
<1>5. ASSUME NEW r \in 1..(2*n), NEW s \in 1..(2*n), r < s,
             UnitAt(Position(bag, r)) = UnitAt(Position(bag, s))
      PROVE  UnitAt(Position(bag, r)) \in 1..n /\ Total(bag, UnitAt(Position(bag, r))) = nth(r) + nth(s)
  <2>1. Position(bag, r) # Position(bag, s) /\ Position(bag, r) \in 1..(2*n) /\ Position(bag, s) \in 1..(2*n)
    BY <1>1, <1>5, PositionsAreSorted
  <2>2. QED BY <1>5, <2>1, BothOfUnit
<1> HIDE DEF nth
<1>6. \E k \in 1..n : Total(bag, k) <= Paired!DoubledMedian(bag)
  <2>1. PICK r \in 1..(n + 1), s \in 1..(n + 1) : r < s /\ UnitAt(Position(bag, r)) = UnitAt(Position(bag, s))
    <3>1. \E r, s \in (0 + 1)..(0 + n + 1) : r < s /\ UnitAt(Position(bag, r)) = UnitAt(Position(bag, s))
      BY TwoOfOneUnit
    <3>2. QED BY <3>1
  <2>2. r \in 1..(2*n) /\ s \in 1..(2*n) /\ r <= n /\ s <= n + 1
    BY <2>1
  <2>3. nth(r) + nth(s) <= nth(n) + nth(n + 1)
    <3>1. nth(r) <= nth(n) /\ nth(s) <= nth(n + 1)
      BY <1>2, <1>4, <2>2
    <3>2. nth(r) \in Int /\ nth(s) \in Int /\ nth(n) \in Int /\ nth(n + 1) \in Int
      BY <1>1, <1>4, <2>2
    <3>3. QED BY <3>1, <3>2
  <2>4. QED BY <1>3, <1>5, <2>1, <2>2, <2>3
<1>7. \E k \in 1..n : Total(bag, k) >= Paired!DoubledMedian(bag)
  <2>1. PICK r \in n..(2*n), s \in n..(2*n) : r < s /\ UnitAt(Position(bag, r)) = UnitAt(Position(bag, s))
    <3>1. \E r, s \in (n - 1 + 1)..(n - 1 + n + 1) : r < s /\ UnitAt(Position(bag, r)) = UnitAt(Position(bag, s))
      BY TwoOfOneUnit
    <3>2. QED BY <3>1
  <2>2. r \in 1..(2*n) /\ s \in 1..(2*n) /\ n <= r /\ n + 1 <= s
    BY <2>1
  <2>3. nth(r) + nth(s) >= nth(n) + nth(n + 1)
    <3>1. nth(n) <= nth(r) /\ nth(n + 1) <= nth(s)
      BY <1>2, <1>4, <2>2
    <3>2. nth(r) \in Int /\ nth(s) \in Int /\ nth(n) \in Int /\ nth(n + 1) \in Int
      BY <1>1, <1>4, <2>2
    <3>3. QED BY <3>1, <3>2
  <2>4. QED BY <1>3, <1>5, <2>1, <2>2, <2>3
<1>8. Paired!DoubledMedian(bag) \in Int
  BY <1>1, <1>3, <1>4
<1>9. QED BY <1>6, <1>7, <1>8

Judged == {"verify", "passed", "not passed"}
Chosen == IF Cardinality(Paired!Eligible(pdBlocks)) < MinUnits THEN {<<>>} ELSE Paired!Draws(pdBlocks)
SeenBy(low, high) == Paired!Derived(pdSeen["before"], pdSeen["after"], pdBlocks, {low, high})
DerivedAsSeen == \E low, high \in Chosen : pdResult.derived = SeenBy(low, high)

PairedIInv ==
  /\ pdPc \in {"protocol", "refused", "before", "blocks", "after", "judge", "error"} \cup Judged
  /\ pdPc \notin {"protocol", "refused"} => pdPolicy = DecisionGates
  /\ DOMAIN pdSeen = Paired!Bookends /\ \A b \in Paired!Bookends : pdSeen[b].met \subseteq DecisionGates
  /\ pdBlocks \in Seq(Paired!BlockOutcomes)
  /\ pdPc \notin Judged => pdResult = Paired!NoDecision
  /\ pdPc \in Judged => DerivedAsSeen

LEMMA PairedInvInit == Paired!PairedInit => PairedIInv
BY DEF Paired!PairedInit, PairedIInv, Judged, Paired!NoArtifact, Paired!Bookends

LEMMA SameDerived ==
  ASSUME UNCHANGED <<pdSeen, pdBlocks, pdSpan, pdPolicy, pdSettings>>
  PROVE  Chosen' = Chosen /\ \A low, high : SeenBy(low, high)' = SeenBy(low, high)
<1>1. Chosen' = Chosen
  BY DEF Chosen
<1>2. ASSUME NEW low, NEW high PROVE SeenBy(low, high)' = SeenBy(low, high)
  <2> DEFINE before == pdSeen["before"]
             after == pdSeen["after"]
  <2>1. before' = before /\ after' = after
    OBVIOUS
  <2>2. Paired!AssessQualification(before, after, pdSpan)' = Paired!AssessQualification(before, after, pdSpan)
    BY DEF Paired!AssessQualification, Paired!AssessBookends, Paired!Surrounds
  <2>3. Paired!SettingsStatus(pdBlocks)' = Paired!SettingsStatus(pdBlocks)
    BY DEF Paired!SettingsStatus
  <2>4. QED BY <2>2, <2>3 DEF SeenBy, Paired!Derived
<1>3. QED BY <1>1, <1>2

LEMMA DerivedStays ==
  DerivedAsSeen /\ UNCHANGED <<pdResult, pdSeen, pdBlocks, pdSpan, pdPolicy, pdSettings>> => DerivedAsSeen'
BY SameDerived DEF DerivedAsSeen

LEMMA PairedInspects ==
  ASSUME PairedIInv, Paired!RecordBefore \/ Paired!RecordAfter
  PROVE  PairedIInv'
<1>1. PICK b \in Paired!Bookends : Paired!InspectHost(b) /\ Paired!WriteBookend(b)
  BY DEF Paired!RecordBefore, Paired!RecordAfter, Paired!Bookends
<1>2. /\ pdPc \in {"before", "after"} /\ pdPc' \in {"blocks", "judge", "error"}
      /\ UNCHANGED <<pdPolicy, pdBlocks, pdResult>>
  BY DEF Paired!RecordBefore, Paired!RecordAfter, Paired!WriteBookend, Paired!design, Paired!trials
<1>3. PICK class \in Paired!HostClasses, met \in Paired!GatesMet :
        pdSeen' = [pdSeen EXCEPT ![b] = [by |-> "us", at |-> pdNow, class |-> class, met |-> met]]
  BY <1>1 DEF Paired!InspectHost
<1>4. met \subseteq DecisionGates
  BY DEF Paired!GatesMet
<1>5. DOMAIN pdSeen' = Paired!Bookends /\ \A c \in Paired!Bookends : pdSeen'[c].met \subseteq DecisionGates
  BY <1>3, <1>4 DEF PairedIInv
<1>6. QED BY <1>2, <1>5 DEF PairedIInv, Judged

LEMMA PairedRuns ==
  ASSUME PairedIInv, Paired!RunBlock
  PROVE  PairedIInv'
<1>1. /\ pdPc = "blocks" /\ pdPc' \in {"after", "blocks"} /\ UNCHANGED <<pdPolicy, pdSeen, pdResult>>
      /\ \E block \in Paired!BlockOutcomes : pdBlocks' = Append(pdBlocks, block)
  BY DEF Paired!RunBlock, Paired!design
<1>2. pdBlocks' \in Seq(Paired!BlockOutcomes)
  BY <1>1 DEF PairedIInv
<1>3. QED BY <1>1, <1>2 DEF PairedIInv, Judged

LEMMA PairedConcludes ==
  ASSUME PairedIInv, Paired!BuildResult
  PROVE  PairedIInv'
<1>1. /\ pdPc = "judge" /\ pdPc' = "verify"
      /\ UNCHANGED <<pdPolicy, pdSettings, pdSeen, pdBlocks, pdSpan>>
  BY DEF Paired!BuildResult, Paired!design, Paired!trials
<1>2. PICK low \in Chosen, high \in Chosen :
        pdResult' = [derived |-> SeenBy(low, high), refs |-> pdFiles]
  BY PairedCounts DEF Paired!BuildResult, Chosen, SeenBy
<1>3. pdResult'.derived = SeenBy(low, high)
  BY <1>2
<1>4. DerivedAsSeen'
  BY <1>1, <1>3, SameDerived DEF DerivedAsSeen
<1>5. QED BY <1>1, <1>4 DEF PairedIInv, Judged

LEMMA PairedInvNext == PairedIInv /\ Paired!PairedNext => PairedIInv'
<1> SUFFICES ASSUME PairedIInv, Paired!PairedNext PROVE PairedIInv'
  OBVIOUS
<1>1. CASE Paired!BuildABProtocol
  BY <1>1 DEF Paired!BuildABProtocol, Paired!DecisionProfileComplete, Paired!design, Paired!trials,
              PairedIInv, Judged
<1>2. CASE Paired!VerifyDecision
  <2>1. /\ pdPc = "verify" /\ pdPc' \in {"passed", "not passed"}
        /\ UNCHANGED <<pdResult, pdSeen, pdBlocks, pdSpan, pdPolicy, pdSettings>>
    BY <1>2 DEF Paired!VerifyDecision, Paired!design, Paired!trials
  <2>2. QED BY <2>1, DerivedStays DEF PairedIInv, Judged
<1>3. CASE Paired!ClockStep \/ Paired!BookendReplaced
  <2>1. UNCHANGED <<pdPc, pdResult, pdSeen, pdBlocks, pdSpan, pdPolicy, pdSettings>>
    BY <1>3 DEF Paired!ClockStep, Paired!BookendReplaced, Paired!design, Paired!trials
  <2>2. QED BY <2>1, DerivedStays DEF PairedIInv, Judged
<1>4. QED BY <1>1, <1>2, <1>3, PairedInspects, PairedRuns, PairedConcludes
         DEF Paired!PairedNext, Paired!PairedStep

LEMMA PairedInvStays == PairedIInv /\ UNCHANGED PairedVars => PairedIInv'
<1> SUFFICES ASSUME PairedIInv, UNCHANGED PairedVars PROVE PairedIInv'
  OBVIOUS
<1>1. UNCHANGED <<pdPc, pdResult, pdSeen, pdBlocks, pdSpan, pdPolicy, pdSettings>>
  BY DEF PairedVars
<1>2. QED BY <1>1, DerivedStays DEF PairedIInv, Judged

LEMMA PairedInvariance == Spec => [](part = "paired" => PairedIInv)
<1>1. Init => (part = "paired" => PairedIInv)
  BY PartStarts, PairedInvInit
<1>2. (part = "paired" => PairedIInv) /\ [Next]_allVars => (part = "paired" => PairedIInv)'
  BY PartSteps, PairedInvNext, PairedInvStays
<1>3. QED BY <1>1, <1>2, PTL DEF Spec

EffectOf(i) == pdBlocks[i].effect
PairTotal(u) == EffectOf(2*u - 1) + EffectOf(2*u)
Fit == {u \in 1..UnitsPlanned : Paired!Complete(pdBlocks, u)}

LEMMA BlockEffects ==
  ASSUME pdBlocks \in Seq(Paired!BlockOutcomes), NEW i \in 1..Len(pdBlocks)
  PROVE  EffectOf(i) \in Int
<1>1. \A e \in Effects : e \in Int
  <2> SUFFICES ASSUME NEW e \in Effects PROVE e \in Int
    OBVIOUS
  <2>1. CASE e \in Gains
    BY <2>1, EffectsAssumption
  <2>2. CASE e \notin Gains
    <3>1. PICK loss \in Losses : e = -loss
      BY <2>2, Zenon DEF Effects
    <3>2. loss \in Nat
      BY EffectsAssumption
    <3>3. QED BY <3>1, <3>2
  <2>3. QED BY <2>1, <2>2
<1>2. \A block \in Paired!BlockOutcomes : block.effect \in Int
  BY <1>1 DEF Paired!BlockOutcomes
<1>3. pdBlocks[i] \in Paired!BlockOutcomes
  OBVIOUS
<1>4. QED BY <1>2, <1>3 DEF EffectOf

LEMMA EligibleUnits ==
  ASSUME PairedIInv
  PROVE  /\ Cardinality(Paired!Eligible(pdBlocks)) \in Nat
         /\ \A u \in Paired!Eligible(pdBlocks) :
              /\ u \in Fit /\ 2*u - 1 \in 1..Len(pdBlocks) /\ 2*u \in 1..Len(pdBlocks)
<1>1. IsFiniteSet(1..UnitsPlanned)
  BY UnitsAssumption, FS_Interval
<1>2. Paired!Eligible(pdBlocks) \in SUBSET (1..UnitsPlanned)
  BY DEF Paired!Eligible, Paired!Units
<1>3. Cardinality(Paired!Eligible(pdBlocks)) \in Nat
  BY <1>1, <1>2, FS_Subset, FS_CardinalityType
<1>4. ASSUME NEW u \in Paired!Eligible(pdBlocks)
      PROVE  u \in Fit /\ 2*u - 1 \in 1..Len(pdBlocks) /\ 2*u \in 1..Len(pdBlocks)
  <2>1. u \in 1..UnitsPlanned /\ 2*u <= Len(pdBlocks) /\ Paired!Complete(pdBlocks, u)
    BY DEF Paired!Eligible, Paired!Units
  <2>2. Len(pdBlocks) \in Nat
    BY DEF PairedIInv
  <2>3. QED BY <2>1, <2>2, UnitsAssumption DEF Fit
<1>5. QED BY <1>3, <1>4

\* A draw is of complete units, and its effects are theirs, two by two.
LEMMA DrawnUnits ==
  ASSUME PairedIInv, ~(Cardinality(Paired!Eligible(pdBlocks)) < MinUnits),
         NEW draw \in Paired!Draws(pdBlocks)
  PROVE  LET bag == Paired!Resample(pdBlocks, draw) IN
         /\ Len(draw) \in Nat \ {0} /\ bag \in Seq(Int) /\ Len(bag) = 2 * Len(draw)
         /\ \A k \in 1..Len(draw) : draw[k] \in Fit /\ Total(bag, k) = PairTotal(draw[k])
<1> DEFINE E == Paired!Eligible(pdBlocks)
           n == Cardinality(E)
           bag == Paired!Resample(pdBlocks, draw)
<1>1. n \in Nat \ {0}
  BY EligibleUnits, UnitsAssumption
<1>2. draw \in [1..n -> E]
  BY PairedCounts DEF Paired!Draws
<1>3. bag = [i \in 1..(2 * Len(draw)) |-> EffectOf(2 * draw[(i + 1) \div 2] - (i % 2))]
  BY DEF Paired!Resample, EffectOf
<1>4. \A u \in E : u \in Fit /\ u \in Int /\ 2*u - 1 \in 1..Len(pdBlocks) /\ 2*u \in 1..Len(pdBlocks)
  BY EligibleUnits DEF Fit
<1>5. \A u \in E : EffectOf(2*u - 1) \in Int /\ EffectOf(2*u) \in Int
  BY <1>4, BlockEffects DEF PairedIInv
<1> HIDE DEF E, n, bag
<1>6. Len(draw) = n
  BY <1>1, <1>2
<1>7. \A i \in 1..(2*n) : /\ (i + 1) \div 2 \in 1..n
                          /\ i % 2 = 0 \/ i % 2 = 1
  BY <1>1
<1>8. ASSUME NEW i \in 1..(2*n) PROVE EffectOf(2 * draw[(i + 1) \div 2] - (i % 2)) \in Int
  <2>1. draw[(i + 1) \div 2] \in E
    BY <1>2, <1>7
  <2>2. CASE i % 2 = 0
    <3>1. 2 * draw[(i + 1) \div 2] - (i % 2) = 2 * draw[(i + 1) \div 2]
      BY <2>1, <2>2, <1>4
    <3>2. QED BY <3>1, <2>1, <1>5
  <2>3. CASE i % 2 = 1
    BY <2>1, <2>3, <1>5
  <2>4. QED BY <1>7, <2>2, <2>3
<1>9. bag \in [1..(2*n) -> Int]
  BY <1>3, <1>6, <1>8
<1>10. bag \in Seq(Int) /\ Len(bag) = 2 * n
  BY <1>1, <1>9
<1>11. ASSUME NEW k \in 1..n PROVE draw[k] \in Fit /\ Total(bag, k) = PairTotal(draw[k])
  <2>1. draw[k] \in E /\ draw[k] \in Int /\ draw[k] \in Fit
    BY <1>2, <1>4
  <2>2. /\ 2*k - 1 \in 1..(2*n) /\ 2*k \in 1..(2*n) /\ (2*k - 1 + 1) \div 2 = k /\ (2*k + 1) \div 2 = k
        /\ (2*k - 1) % 2 = 1 /\ (2*k) % 2 = 0
    BY <1>1
  <2>3. bag[2*k - 1] = EffectOf(2 * draw[k] - 1)
    BY <1>3, <1>6, <2>2
  <2>4. bag[2*k] = EffectOf(2 * draw[k] - 0)
    BY <1>3, <1>6, <2>2
  <2>5. 2 * draw[k] - 0 = 2 * draw[k]
    BY <2>1
  <2>6. QED BY <2>1, <2>3, <2>4, <2>5 DEF Total, PairTotal
<1>12. QED BY <1>1, <1>6, <1>10, <1>11 DEF bag

\* One of the complete units lies at or below the median of a draw, and one at or above.
LEMMA MedianOfDraw ==
  ASSUME PairedIInv, ~(Cardinality(Paired!Eligible(pdBlocks)) < MinUnits),
         NEW draw \in Paired!Draws(pdBlocks)
  PROVE  LET median == Paired!DoubledMedian(Paired!Resample(pdBlocks, draw)) IN
         /\ median \in Int
         /\ \E u \in Fit : PairTotal(u) \in Int /\ PairTotal(u) <= median
         /\ \E u \in Fit : PairTotal(u) \in Int /\ PairTotal(u) >= median
<1> DEFINE bag == Paired!Resample(pdBlocks, draw)
<1>1. /\ Len(draw) \in Nat \ {0} /\ bag \in Seq(Int) /\ Len(bag) = 2 * Len(draw)
      /\ \A k \in 1..Len(draw) : draw[k] \in Fit /\ Total(bag, k) = PairTotal(draw[k])
  BY DrawnUnits
<1> HIDE DEF bag
<1>2. \A k \in 1..Len(draw) : Total(bag, k) \in Int
  <2> SUFFICES ASSUME NEW k \in 1..Len(draw) PROVE bag[2*k - 1] \in Int /\ bag[2*k] \in Int
    BY DEF Total
  <2>1. 2*k - 1 \in 1..Len(bag) /\ 2*k \in 1..Len(bag)
    BY <1>1
  <2>2. QED BY <1>1, <2>1
<1>3. /\ Paired!DoubledMedian(bag) \in Int
      /\ \E k \in 1..Len(draw) : Total(bag, k) <= Paired!DoubledMedian(bag)
      /\ \E k \in 1..Len(draw) : Total(bag, k) >= Paired!DoubledMedian(bag)
  BY <1>1, MedianIsBetween
<1>4. QED BY <1>1, <1>2, <1>3 DEF bag

LEMMA JudgedOnes ==
  ASSUME PairedIInv, Paired!Decided
  PROVE  /\ pdPc \in Judged /\ pdPolicy = DecisionGates
         /\ \E low, high \in Chosen :
              /\ pdResult.derived = SeenBy(low, high)
              /\ pdResult.derived.status = Paired!Analysis(pdBlocks, {low, high})
              /\ pdResult.derived.assessment =
                   Paired!AssessQualification(pdSeen["before"], pdSeen["after"], pdSpan)
              /\ pdResult.derived.assessment.passed
         /\ Paired!SettingsStatus(pdBlocks) # "invalid"
         /\ pdResult.derived.status \notin {"invalid", "inconclusive"}
<1>1. pdPc \in Judged /\ pdPolicy = DecisionGates /\ DerivedAsSeen
  BY DEF PairedIInv, Paired!Decided, Paired!ABDecisionVerifies, Judged
<1>2. PICK low \in Chosen, high \in Chosen : pdResult.derived = SeenBy(low, high)
  BY <1>1 DEF DerivedAsSeen
<1> DEFINE assessment == Paired!AssessQualification(pdSeen["before"], pdSeen["after"], pdSpan)
           settings == Paired!SettingsStatus(pdBlocks)
           analysis == Paired!Analysis(pdBlocks, {low, high})
<1>3. /\ pdResult.derived.status = Paired!Terminal(pdBlocks, assessment, settings, analysis)
      /\ pdResult.derived.assessment = assessment
  BY <1>2 DEF SeenBy, Paired!Derived
<1>4. pdResult.derived.status \notin {"invalid", "inconclusive"}
  BY DEF Paired!Decided
<1> HIDE DEF assessment, settings, analysis
<1>5. settings # "invalid" /\ assessment.passed /\ pdResult.derived.status = analysis
  BY <1>3, <1>4 DEF Paired!Terminal
<1>6. QED BY <1>1, <1>2, <1>3, <1>4, <1>5 DEF assessment, settings, analysis

LEMMA BracketedOnes ==
  ASSUME PairedIInv, Paired!Decided
  PROVE  /\ \A b \in Paired!Bookends : pdFiles[b] = pdSeen[b] /\ pdSeen[b].met = DecisionGates
         /\ pdSeen["before"].class = pdSeen["after"].class
         /\ Len(pdBlocks) = Paired!BlocksPlanned
<1>1. /\ pdPolicy = DecisionGates /\ Paired!SettingsStatus(pdBlocks) # "invalid"
      /\ pdResult.derived.assessment = Paired!AssessQualification(pdSeen["before"], pdSeen["after"], pdSpan)
      /\ pdResult.derived.assessment.passed
  BY JudgedOnes
<1>2. pdResult.derived.assessment = Paired!AssessQualification(pdFiles["before"], pdFiles["after"], pdSpan)
  BY DEF Paired!Decided, Paired!ABDecisionVerifies, Paired!Derived
<1>3. <<pdFiles["before"], pdFiles["after"]>> = <<pdSeen["before"], pdSeen["after"]>>
  BY <1>1, <1>2 DEF Paired!AssessQualification
<1>4. pdFiles["before"] = pdSeen["before"] /\ pdFiles["after"] = pdSeen["after"]
  BY <1>3
<1>5. Paired!AssessBookends(pdSeen["before"], pdSeen["after"])
  <2> DEFINE before == pdSeen["before"]
             after == pdSeen["after"]
             bracketed == Paired!AssessBookends(before, after) /\ Paired!Surrounds(before, after, pdSpan)
  <2>1. Paired!AssessQualification(before, after, pdSpan).passed
    BY <1>1
  <2>2. Paired!AssessQualification(before, after, pdSpan).passed = bracketed
    BY Zenon DEF Paired!AssessQualification
  <2>3. QED BY <2>1, <2>2
<1>6. /\ pdSeen["before"].class = pdSeen["after"].class
      /\ DecisionGates \subseteq pdSeen["before"].met /\ DecisionGates \subseteq pdSeen["after"].met
  BY <1>1, <1>5 DEF Paired!AssessBookends, Paired!Qualified
<1>7. Len(pdBlocks) = Paired!BlocksPlanned
  BY <1>1 DEF Paired!SettingsStatus
<1>8. \A b \in Paired!Bookends : pdSeen[b].met \subseteq DecisionGates
  BY DEF PairedIInv
<1>9. QED BY <1>4, <1>6, <1>7, <1>8 DEF Paired!Bookends

LEMMA PairedOnes ==
  ASSUME PairedIInv, Paired!Decided
  PROVE  LET decision == pdResult.derived.status IN
         /\ decision = "regressed" => \E u \in Fit : PairTotal(u) < -2 * Threshold
         /\ decision # "regressed" => \E u \in Fit : PairTotal(u) >= -2 * Threshold
         /\ decision = "improved" => \E u \in Fit : PairTotal(u) > 0
         /\ decision = "equivalent-within-threshold" => \E u \in Fit : PairTotal(u) <= 2 * Threshold
<1> DEFINE decision == pdResult.derived.status
           median(draw) == Paired!DoubledMedian(Paired!Resample(pdBlocks, draw))
           some == Cardinality(Paired!Eligible(pdBlocks)) < MinUnits
<1>1. PICK low \in Chosen, high \in Chosen :
        decision = Paired!Analysis(pdBlocks, {low, high}) /\ decision \notin {"invalid", "inconclusive"}
  BY JudgedOnes
<1> DEFINE medians == {median(draw) : draw \in {low, high}}
           least == CHOOSE m \in medians : \A o \in medians : m <= o
           most == CHOOSE m \in medians : \A o \in medians : m >= o
<1>2. ~some /\ decision = Paired!DecideInterval(least, most)
  BY <1>1, PairedCounts DEF Paired!Analysis
<1>3. low \in Paired!Draws(pdBlocks) /\ high \in Paired!Draws(pdBlocks)
  BY <1>2 DEF Chosen
<1>4. \A draw \in {low, high} :
        /\ median(draw) \in Int
        /\ \E u \in Fit : PairTotal(u) \in Int /\ PairTotal(u) <= median(draw)
        /\ \E u \in Fit : PairTotal(u) \in Int /\ PairTotal(u) >= median(draw)
  BY <1>2, <1>3, MedianOfDraw
<1> HIDE DEF median, some
<1>5. least \in medians /\ most \in medians
  <2>1. medians = {median(low), median(high)} /\ median(low) \in Int /\ median(high) \in Int
    BY <1>4
  <2>2. \E m \in medians : \A o \in medians : m <= o
    BY <2>1
  <2>3. \E m \in medians : \A o \in medians : m >= o
    BY <2>1
  <2>4. QED BY <2>2, <2>3
<1>6. \A m \in medians : /\ m \in Int
                         /\ \E u \in Fit : PairTotal(u) \in Int /\ PairTotal(u) <= m
                         /\ \E u \in Fit : PairTotal(u) \in Int /\ PairTotal(u) >= m
  BY <1>4
<1> HIDE DEF medians, least, most
<1>7. least \in Int /\ most \in Int /\ Threshold \in Int
  BY <1>5, <1>6, UnitsAssumption
<1>8. PICK below \in Fit : PairTotal(below) \in Int /\ PairTotal(below) <= most
  BY <1>5, <1>6
<1>9. PICK above \in Fit : PairTotal(above) \in Int /\ PairTotal(above) >= least
  BY <1>5, <1>6
<1>10. ASSUME decision = "regressed" PROVE PairTotal(below) < -2 * Threshold
  <2>1. most < -2 * Threshold
    BY <1>2, <1>10 DEF Paired!DecideInterval
  <2>2. QED BY <2>1, <1>7, <1>8
<1>11. ASSUME decision # "regressed" PROVE PairTotal(above) >= -2 * Threshold
  <2>1. ~(least < -2 * Threshold)
    BY <1>1, <1>2, <1>11 DEF Paired!DecideInterval
  <2>2. QED BY <2>1, <1>7, <1>9
<1>12. ASSUME decision = "improved" PROVE PairTotal(above) > 0
  <2>1. least > 0
    BY <1>2, <1>12 DEF Paired!DecideInterval
  <2>2. QED BY <2>1, <1>7, <1>9
<1>13. ASSUME decision = "equivalent-within-threshold" PROVE PairTotal(below) <= 2 * Threshold
  <2>1. most <= 2 * Threshold
    BY <1>2, <1>13 DEF Paired!DecideInterval
  <2>2. QED BY <2>1, <1>7, <1>8
<1>14. QED BY <1>10, <1>11, <1>12, <1>13

THEOREM DecisionsAreEarned == Spec => []DecisionIsEarned
<1>1. PairedIInv => Paired!DecisionIsBracketed
  BY BracketedOnes DEF Paired!DecisionIsBracketed
<1>2. PairedIInv => Paired!DecisionIsPaired
  <2> SUFFICES ASSUME PairedIInv, Paired!Decided PROVE Paired!DecisionIsPaired
    BY DEF Paired!DecisionIsPaired
  <2>1. QED BY PairedOnes DEF Paired!DecisionIsPaired, Fit, PairTotal, EffectOf
<1>3. (part = "paired" => PairedIInv) => DecisionIsEarned
  BY <1>1, <1>2 DEF DecisionIsEarned
<1>4. QED BY <1>3, PairedInvariance, PTL

-----------------------------------------------------------------------------
(* An import.  What was read is what is derived from, kept and published,  *)
(* by the adapter that was asked for.                                      *)

Imported == [by |-> "us", raw |-> impRead, mapping |-> impMapping,
            result |-> Import!Normalized(impAdapter, impRead)]
ImportIInv ==
  /\ impFile \in Import!Texts /\ impRead \in Import!Texts
  /\ impAdapter \in Import!ImportAdapters
  /\ impPc \in {"read", "absent", "stage", "verify", "rename"} \cup Import!ImportEnded
  /\ impPc \notin {"read", "refused"} => Import!Accepted(impAdapter, impRead, impMapping)
  /\ impPc \in {"verify", "rename"} => impStage = Imported
  /\ impPc = "imported" => impDir = Imported

LEMMA ImportInvInit == Import!ImportInit => ImportIInv
BY DEF Import!ImportInit, ImportIInv

LEMMA ImportInvNext == ImportIInv /\ Import!ImportNext => ImportIInv'
<1> SUFFICES ASSUME ImportIInv, Import!ImportNext PROVE ImportIInv'
  OBVIOUS
<1> USE DEF ImportIInv
<1>1. CASE Import!ReadSource
  BY <1>1 DEF Import!ReadSource, Import!ImportEnded
<1>2. CASE Import!RequireNewImport
  BY <1>2 DEF Import!RequireNewImport, Import!ImportEnded
<1>3. CASE Import!StageImport
  BY <1>3 DEF Import!StageImport, Import!RetainBytes, Import!Retain, Imported, Import!ImportEnded
<1>4. CASE Import!VerifyImport
  BY <1>4 DEF Import!VerifyImport, Imported, Import!ImportEnded
<1>5. CASE Import!PublishImport
  BY <1>5 DEF Import!PublishImport, Imported, Import!ImportEnded
<1>6. CASE Import!RewriteSource
  BY <1>6 DEF Import!RewriteSource, Imported, Import!ImportEnded
<1>7. CASE Import!TakeImportDir
  BY <1>7 DEF Import!TakeImportDir, Imported, Import!ImportEnded
<1>8. QED
  BY <1>1, <1>2, <1>3, <1>4, <1>5, <1>6, <1>7 DEF Import!ImportNext, Import!ImportStep

LEMMA ImportInvStays == ImportIInv /\ UNCHANGED ImportVars => ImportIInv'
BY DEF ImportIInv, Imported, ImportVars

\* The identity of a result names one adapter.
LEMMA AdapterIsNamed ==
  ASSUME NEW a \in Import!ImportAdapters, NEW text
  PROVE  Import!AdapterFor(Import!Normalized(a, text)) = a
<1>1. Import!Normalized(a, text).identity = Import!AdapterIdentity(a)
  BY DEF Import!Normalized
<1>2. ASSUME NEW b \in Import!ImportAdapters, Import!AdapterIdentity(b) = Import!AdapterIdentity(a)
      PROVE  b = a
  BY <1>2 DEF Import!AdapterIdentity, Import!ImportAdapters
<1>3. QED BY <1>1, <1>2 DEF Import!AdapterFor

\* The lines of a console, in their order, after the errors if there are any.
LogKeys == {"version", "error", "transactions", "ignored", "general", "time", "events", "latency",
            "avg", "p95", "fairness"}
LogLines == [key : LogKeys, n : Nat, rate : Nat]
Errors == {<<>>, <<Import!Line("error", 0)>>}
KeyAt(d, i) ==
  CASE i = 1 -> "version" [] i = 2 /\ d = 1 -> "error" [] i = 2 + d -> "transactions"
    [] i = 3 + d -> "ignored" [] i = 4 + d -> "general" [] i = 5 + d -> "time" [] i = 6 + d -> "events"
    [] i = 7 + d -> "latency" [] i = 8 + d -> "avg" [] i = 9 + d -> "p95" [] i = 10 + d -> "fairness"

LEMMA ConsoleLines ==
  ASSUME NEW n \in {1, 2}, NEW r \in {1, 2}, NEW e \in Errors
  PROVE  LET c == Import!Console(n, r, e)
             d == Len(e)
         IN  /\ c \in Seq(LogLines) /\ d \in {0, 1} /\ Len(c) = 10 + d
             /\ \A i \in 1..(10 + d) : c[i].key = KeyAt(d, i)
<1> DEFINE A == <<Import!Line("version", 0)>>
           t == [Import!Line("transactions", n) EXCEPT !.rate = r]
           B == <<t, Import!Line("ignored", Len(e)), Import!Line("general", 0), Import!Line("time", 1),
                  Import!Line("events", n), Import!Line("latency", 0), Import!Line("avg", 0),
                  Import!Line("p95", 0), Import!Line("fairness", 0)>>
           d == Len(e)
           c == Import!Console(n, r, e)
<1>1. d \in {0, 1} /\ e \in Seq(LogLines) /\ \A i \in 1..d : e[i].key = "error"
  <2> DEFINE x == Import!Line("error", 0)
  <2>1. x \in LogLines /\ x.key = "error"
    BY DEF Import!Line, LogLines, LogKeys
  <2>2. e = <<>> \/ e = <<x>>
    BY DEF Errors
  <2> HIDE DEF x
  <2>3. CASE e = <<>>
    BY <2>3
  <2>4. CASE e = <<x>>
    BY <2>1, <2>4
  <2>5. QED BY <2>2, <2>3, <2>4
<1>2. A \in Seq(LogLines) /\ Len(A) = 1 /\ A[1].key = "version"
  <2> DEFINE x == Import!Line("version", 0)
  <2>1. x \in LogLines /\ x.key = "version"
    BY DEF Import!Line, LogLines, LogKeys
  <2> HIDE DEF x
  <2>2. QED BY <2>1 DEF x
<1>3. t \in LogLines /\ t.key = "transactions"
  <2>1. t = [key |-> "transactions", n |-> n, rate |-> r]
    BY DEF Import!Line
  <2>2. n \in Nat /\ r \in Nat
    OBVIOUS
  <2> HIDE DEF t
  <2>3. QED BY <2>1, <2>2 DEF LogLines, LogKeys
<1> DEFINE b2 == Import!Line("ignored", Len(e))
           b3 == Import!Line("general", 0)
           b4 == Import!Line("time", 1)
           b5 == Import!Line("events", n)
           b6 == Import!Line("latency", 0)
           b7 == Import!Line("avg", 0)
           b8 == Import!Line("p95", 0)
           b9 == Import!Line("fairness", 0)
<1>4. /\ b2 \in LogLines /\ b2.key = "ignored" /\ b3 \in LogLines /\ b3.key = "general"
      /\ b4 \in LogLines /\ b4.key = "time" /\ b5 \in LogLines /\ b5.key = "events"
      /\ b6 \in LogLines /\ b6.key = "latency" /\ b7 \in LogLines /\ b7.key = "avg"
      /\ b8 \in LogLines /\ b8.key = "p95" /\ b9 \in LogLines /\ b9.key = "fairness"
  <2>1. Len(e) \in Nat /\ n \in Nat
    BY <1>1
  <2>2. QED BY <2>1 DEF Import!Line, LogLines, LogKeys
<1>5. B = <<t, b2, b3, b4, b5, b6, b7, b8, b9>>
  OBVIOUS
<1>6. c = (A \o e) \o B
  BY DEF Import!Console
<1> HIDE DEF A, B, c, t, b2, b3, b4, b5, b6, b7, b8, b9
<1>7. /\ B \in Seq(LogLines) /\ Len(B) = 9
      /\ B[1].key = "transactions" /\ B[2].key = "ignored" /\ B[3].key = "general" /\ B[4].key = "time"
      /\ B[5].key = "events" /\ B[6].key = "latency" /\ B[7].key = "avg" /\ B[8].key = "p95"
      /\ B[9].key = "fairness"
  BY <1>3, <1>4, <1>5
<1>8. /\ A \o e \in Seq(LogLines) /\ Len(A \o e) = 1 + d /\ (A \o e)[1].key = "version"
      /\ \A i \in 2..(1 + d) : (A \o e)[i].key = "error"
  <2> DEFINE f == A \o e
  <2>1. f \in Seq(LogLines) /\ Len(f) = 1 + d /\ f[1] = A[1] /\ \A i \in 2..(1 + d) : f[i] = e[i - 1]
    <3>1. A \in Seq(LogLines) /\ e \in Seq(LogLines)
      BY <1>1, <1>2
    <3>2. /\ A \o e \in Seq(LogLines) /\ Len(A \o e) = Len(A) + Len(e)
          /\ \A i \in 1..(Len(A) + Len(e)) : (A \o e)[i] = IF i <= Len(A) THEN A[i] ELSE e[i - Len(A)]
      BY <3>1, ConcatProperties
    <3> HIDE DEF f
    <3>3. f \in Seq(LogLines) /\ Len(f) = 1 + d
          /\ \A i \in 1..(1 + d) : f[i] = IF i <= 1 THEN A[i] ELSE e[i - 1]
      BY <1>2, <3>2 DEF f
    <3>4. 1 \in 1..(1 + d) /\ \A i \in 2..(1 + d) : i \in 1..(1 + d) /\ ~(i <= 1)
      BY <1>1
    <3>5. QED BY <3>3, <3>4
  <2> HIDE DEF f
  <2>2. \A i \in 2..(1 + d) : i - 1 \in 1..d
    BY <1>1
  <2>3. QED BY <1>1, <1>2, <2>1, <2>2 DEF f
<1>9. /\ c \in Seq(LogLines) /\ Len(c) = 10 + d
      /\ \A i \in 1..(1 + d) : c[i] = (A \o e)[i]
      /\ \A i \in (2 + d)..(10 + d) : c[i] = B[i - (1 + d)]
  <2> DEFINE f == A \o e
  <2>1. c = f \o B /\ f \in Seq(LogLines) /\ Len(f) = 1 + d
    BY <1>6, <1>8
  <2> HIDE DEF f
  <2>2. /\ c \in Seq(LogLines) /\ Len(c) = Len(f) + Len(B)
        /\ \A i \in 1..(Len(f) + Len(B)) : c[i] = IF i <= Len(f) THEN f[i] ELSE B[i - Len(f)]
    <3>1. B \in Seq(LogLines)
      BY <1>7
    <3> HIDE DEF d
    <3>0. f \in Seq(LogLines)
      BY <2>1
    <3>2. /\ f \o B \in Seq(LogLines) /\ Len(f \o B) = Len(f) + Len(B)
          /\ \A i \in 1..(Len(f) + Len(B)) : (f \o B)[i] = IF i <= Len(f) THEN f[i] ELSE B[i - Len(f)]
      BY <3>0, <3>1, ConcatProperties
    <3>3. QED BY <2>1, <3>2, Zenon
  <2>3. Len(f) + Len(B) = 10 + d
    BY <1>1, <1>7, <2>1
  <2>4. \A i \in 1..(10 + d) : c[i] = IF i <= 1 + d THEN f[i] ELSE B[i - (1 + d)]
    BY <2>1, <2>2, <2>3
  <2>5. (1..(1 + d)) \subseteq 1..(10 + d) /\ (2 + d)..(10 + d) \subseteq 1..(10 + d)
    BY <1>1
  <2>6. \A i \in 1..(1 + d) : i <= 1 + d
    OBVIOUS
  <2>7. \A i \in (2 + d)..(10 + d) : ~(i <= 1 + d)
    BY <1>1
  <2>8. QED BY <2>2, <2>3, <2>4, <2>5, <2>6, <2>7 DEF f
<1>11. ASSUME NEW i \in 1..(10 + d) PROVE c[i].key = KeyAt(d, i)
  <2>1. CASE i = 1
    <3>1. c[i] = (A \o e)[1] /\ (A \o e)[1].key = "version"
      BY <1>1, <1>8, <1>9, <2>1
    <3>2. KeyAt(d, i) = "version"
      BY <2>1 DEF KeyAt
    <3>3. QED BY <3>1, <3>2
  <2>2. CASE i = 2 /\ d = 1
    BY <1>8, <1>9, <2>2 DEF KeyAt
  <2>3. CASE i \in (2 + d)..(10 + d)
    <3>1. PICK j \in 1..9 : j = i - (1 + d) /\ i = j + (1 + d)
      BY <1>1, <2>3
    <3>2. c[i] = B[j]
      BY <1>9, <2>3, <3>1
    <3>3. KeyAt(d, j + (1 + d)) = CASE j = 1 -> "transactions" [] j = 2 -> "ignored" [] j = 3 -> "general"
                                    [] j = 4 -> "time" [] j = 5 -> "events" [] j = 6 -> "latency"
                                    [] j = 7 -> "avg" [] j = 8 -> "p95" [] j = 9 -> "fairness"
      <4>1. /\ (j + (1 + d) = 2 + d <=> j = 1) /\ (j + (1 + d) = 3 + d <=> j = 2) /\ (j + (1 + d) = 4 + d <=> j = 3)
            /\ (j + (1 + d) = 5 + d <=> j = 4) /\ (j + (1 + d) = 6 + d <=> j = 5) /\ (j + (1 + d) = 7 + d <=> j = 6)
            /\ (j + (1 + d) = 8 + d <=> j = 7) /\ (j + (1 + d) = 9 + d <=> j = 8) /\ (j + (1 + d) = 10 + d <=> j = 9)
            /\ j + (1 + d) # 1 /\ ~(j + (1 + d) = 2 /\ d = 1)
        <5> HIDE DEF d
        <5>1. PICK m \in {0, 1} : m = d
          BY <1>1
        <5>2. QED BY <5>1
      <4>2. QED BY <4>1 DEF KeyAt
    <3>4. B[j].key = CASE j = 1 -> "transactions" [] j = 2 -> "ignored" [] j = 3 -> "general"
                       [] j = 4 -> "time" [] j = 5 -> "events" [] j = 6 -> "latency"
                       [] j = 7 -> "avg" [] j = 8 -> "p95" [] j = 9 -> "fairness"
      BY <1>7
    <3>5. QED BY <3>1, <3>2, <3>3, <3>4
  <2>4. QED BY <1>1, <2>1, <2>2, <2>3
<1>12. QED BY <1>1, <1>9, <1>11 DEF c

\* One line is what is told.
LEMMA ToldIs ==
  ASSUME NEW text, NEW k, NEW i \in Nat, Import!LinesOf(text, k) = {i}
  PROVE  Import!Told(text, k) = text[i]
BY DEF Import!Told

LEMMA ImCardinality == \A S : Import!Cardinality(S) = Cardinality(S)
BY DEF Import!Cardinality, Cardinality

\* A text that says a line once has one place of it.
LEMMA SaidOnce ==
  ASSUME NEW text, NEW k, IsFiniteSet(DOMAIN text), Cardinality(Import!LinesOf(text, k)) = 1
  PROVE  \E i : Import!LinesOf(text, k) = {i}
<1>1. IsFiniteSet(Import!LinesOf(text, k))
  BY FS_Subset DEF Import!LinesOf
<1>2. QED BY <1>1, FS_Singleton

\* What a place of a console says is said there only.
LEMMA KeysDiffer ==
  ASSUME NEW d \in {0, 1}, NEW i \in 1..(10 + d)
  PROVE  /\ KeyAt(d, i) = "p95" <=> i = 9 + d
         /\ KeyAt(d, i) = "transactions" <=> i = 2 + d
         /\ KeyAt(d, i) = "ignored" <=> i = 3 + d
         /\ KeyAt(d, i) = "events" <=> i = 6 + d
         /\ KeyAt(d, i) = "fairness" <=> i = 10 + d
         /\ KeyAt(d, 1) = "version"
BY SMTT(30) DEF KeyAt

LEMMA PrefixLines ==
  ASSUME NEW c \in Seq(LogLines), NEW m \in 0..Len(c)
  PROVE  /\ SubSeq(c, 1, m) \in Seq(LogLines) /\ Len(SubSeq(c, 1, m)) = m
         /\ DOMAIN SubSeq(c, 1, m) = 1..m /\ \A i \in 1..m : SubSeq(c, 1, m)[i] = c[i]
<1>1. \A i \in 1..m : c[i] \in LogLines
  BY ElementOfSeq
<1>2. /\ SubSeq(c, 1, m) \in Seq(LogLines)
      /\ Len(SubSeq(c, 1, m)) = IF 1 <= m THEN m - 1 + 1 ELSE 0
      /\ \A i \in 1..(m - 1 + 1) : SubSeq(c, 1, m)[i] = c[1 + i - 1]
  BY <1>1, SubSeqProperties
<1>3. m - 1 + 1 = m /\ (~(1 <= m) => m = 0) /\ \A i \in 1..m : 1 + i - 1 = i
  OBVIOUS
<1>4. Len(SubSeq(c, 1, m)) = m /\ \A i \in 1..m : SubSeq(c, 1, m)[i] = c[i]
  BY <1>2, <1>3
<1>5. DOMAIN SubSeq(c, 1, m) = 1..m
  BY <1>2, <1>4
<1>6. QED BY <1>2, <1>4, <1>5

\* A console that is cut short after its latencies says all that is imported.
LEMMA CutShort ==
  ASSUME NEW n \in {1, 2}, NEW r \in {1, 2}, NEW e \in Errors,
         NEW text \in Import!Prefixes(Import!Console(n, r, e)),
         Import!LinesOf(text, "p95") # {}
  PROVE  /\ \A k \in {"transactions", "events", "ignored"} :
              /\ Import!LinesOf(text, k) # {}
              /\ Import!Told(text, k) = Import!Told(Import!Console(n, r, e), k)
         /\ \A k \in {"transactions", "events", "ignored", "error"} :
              Import!LinesOf(text, k) = Import!LinesOf(Import!Console(n, r, e), k)
<1> DEFINE c == Import!Console(n, r, e)
           d == Len(e)
<1>1. c \in Seq(LogLines) /\ d \in {0, 1} /\ Len(c) = 10 + d /\ \A i \in 1..(10 + d) : c[i].key = KeyAt(d, i)
  BY ConsoleLines
<1>2. PICK m \in 0..Len(c) : text = SubSeq(c, 1, m)
  BY DEF Import!Prefixes
<1> HIDE DEF c, d
<1>3. PICK dd \in {0, 1} : dd = d
  BY <1>1
<1>4. m \in 0..(10 + dd) /\ DOMAIN c = 1..(10 + dd) /\ \A i \in 1..(10 + dd) : c[i].key = KeyAt(dd, i)
  BY <1>1, <1>2, <1>3
<1>5. DOMAIN text = 1..m /\ \A i \in 1..m : text[i] = c[i]
  BY <1>1, <1>2, PrefixLines
<1>6. (1..m) \subseteq 1..(10 + dd)
  BY <1>4
<1>7. m \in {9 + dd, 10 + dd}
  <2>1. PICK i \in 1..m : text[i].key = "p95"
    BY <1>5 DEF Import!LinesOf
  <2>2. i \in 1..(10 + dd) /\ KeyAt(dd, i) = "p95"
    BY <2>1, <1>4, <1>5, <1>6
  <2>3. i = 9 + dd
    BY <2>2, KeysDiffer, SMTT(30)
  <2>4. QED BY <1>4, <2>1, <2>3
<1>8. \A i \in 1..(10 + dd) : i \notin 1..m => KeyAt(dd, i) = "fairness"
  <2>1. ASSUME NEW i \in 1..(10 + dd), i \notin 1..m PROVE KeyAt(dd, i) = "fairness"
    <3>1. i = 10 + dd
      BY <1>7, <2>1
    <3>2. QED BY <3>1, KeysDiffer
  <2>2. QED BY <2>1
<1>9. ASSUME NEW k, k # "fairness" PROVE Import!LinesOf(text, k) = Import!LinesOf(c, k)
  BY <1>4, <1>5, <1>6, <1>8, <1>9 DEF Import!LinesOf
<1>10. ASSUME NEW k, NEW i \in 1..m, \A j \in 1..(10 + dd) : KeyAt(dd, j) = k <=> j = i, k # "fairness"
       PROVE  Import!LinesOf(text, k) # {} /\ Import!Told(text, k) = Import!Told(c, k)
  <2>1. Import!LinesOf(c, k) = {i} /\ Import!LinesOf(text, k) = {i}
    <3>1. i \in 1..(10 + dd)
      BY <1>6
    <3>2. \A j \in 1..(10 + dd) : c[j].key = k <=> j = i
      BY <1>4, <1>10
    <3>3. Import!LinesOf(c, k) = {i}
      BY <1>4, <3>1, <3>2 DEF Import!LinesOf
    <3>4. QED BY <1>9, <1>10, <3>3
  <2>2. Import!Told(c, k) = c[i] /\ Import!Told(text, k) = text[i]
    <3>1. i \in Nat
      BY <1>4
    <3>2. QED BY <2>1, <3>1, ToldIs
  <2>3. QED BY <1>5, <2>1, <2>2
<1>11. 2 + dd \in 1..m /\ 3 + dd \in 1..m /\ 6 + dd \in 1..m
  BY <1>7
<1>12. \A j \in 1..(10 + dd) : /\ KeyAt(dd, j) = "transactions" <=> j = 2 + dd
                               /\ KeyAt(dd, j) = "ignored" <=> j = 3 + dd
                               /\ KeyAt(dd, j) = "events" <=> j = 6 + dd
  <2>1. ASSUME NEW j \in 1..(10 + dd)
        PROVE  /\ KeyAt(dd, j) = "transactions" <=> j = 2 + dd
               /\ KeyAt(dd, j) = "ignored" <=> j = 3 + dd
               /\ KeyAt(dd, j) = "events" <=> j = 6 + dd
    BY KeysDiffer
  <2>2. QED BY <2>1
<1>13. \A k \in {"transactions", "events", "ignored"} :
         Import!LinesOf(text, k) # {} /\ Import!Told(text, k) = Import!Told(c, k)
  <2>1. Import!LinesOf(text, "transactions") # {} /\ Import!Told(text, "transactions") = Import!Told(c, "transactions")
    BY <1>10, <1>11, <1>12
  <2>2. Import!LinesOf(text, "ignored") # {} /\ Import!Told(text, "ignored") = Import!Told(c, "ignored")
    BY <1>10, <1>11, <1>12
  <2>3. Import!LinesOf(text, "events") # {} /\ Import!Told(text, "events") = Import!Told(c, "events")
    BY <1>10, <1>11, <1>12
  <2>4. QED BY <2>1, <2>2, <2>3
<1>14. QED BY <1>9, <1>13 DEF c

\* A console appended to what another run left says its version twice, unless
\* nothing was left.
LEMMA Repeated ==
  ASSUME NEW p \in Import!Prefixes(Import!Console(2, 2, <<>>)),
         Import!NoDuplicates(p \o Import!Console(1, 1, <<>>))
  PROVE  p \o Import!Console(1, 1, <<>>) = Import!Console(1, 1, <<>>)
<1>0. Import!NoDuplicates(p \o Import!Console(1, 1, <<>>))
  OBVIOUS
<1> DEFINE c == Import!Console(2, 2, <<>>)
           b == Import!Console(1, 1, <<>>)
           text == p \o b
<1>1. PICK m \in 0..Len(c) : p = SubSeq(c, 1, m)
  BY DEF Import!Prefixes
<1>2. c \in Seq(LogLines) /\ Len(c) = 10 /\ c[1].key = "version"
  <2>1. <<>> \in Errors /\ Len(<<>>) = 0
    BY DEF Errors
  <2>2. c \in Seq(LogLines) /\ Len(c) = 10 + Len(<<>>) /\ \A i \in 1..(10 + Len(<<>>)) : c[i].key = KeyAt(Len(<<>>), i)
    BY <2>1, ConsoleLines
  <2> HIDE DEF c
  <2>3. QED BY <2>1, <2>2 DEF KeyAt
<1>3. b \in Seq(LogLines) /\ Len(b) = 10 /\ b[1].key = "version"
  <2>1. <<>> \in Errors /\ Len(<<>>) = 0
    BY DEF Errors
  <2>2. b \in Seq(LogLines) /\ Len(b) = 10 + Len(<<>>) /\ \A i \in 1..(10 + Len(<<>>)) : b[i].key = KeyAt(Len(<<>>), i)
    BY <2>1, ConsoleLines
  <2> HIDE DEF b
  <2>3. QED BY <2>1, <2>2 DEF KeyAt
<1> SUFFICES text = b
  OBVIOUS
<1> HIDE DEF b, c, text
<1>4. m \in 0..10 /\ p \in Seq(LogLines) /\ Len(p) = m /\ DOMAIN p = 1..m /\ \A i \in 1..m : p[i] = c[i]
  <2>1. m \in 0..10
    BY <1>1, <1>2
  <2>2. /\ SubSeq(c, 1, m) \in Seq(LogLines) /\ Len(SubSeq(c, 1, m)) = m
        /\ DOMAIN SubSeq(c, 1, m) = 1..m /\ \A i \in 1..m : SubSeq(c, 1, m)[i] = c[i]
    BY <1>2, PrefixLines
  <2>3. QED BY <1>1, <2>1, <2>2, Zenon
<1>5. /\ text \in Seq(LogLines) /\ Len(text) = Len(p) + Len(b)
      /\ \A i \in 1..(Len(p) + Len(b)) : text[i] = IF i <= Len(p) THEN p[i] ELSE b[i - Len(p)]
  BY <1>3, <1>4, ConcatProperties DEF text
<1>6. CASE m = 0
  <2>1. p = <<>>
    BY <1>4, <1>6
  <2>2. QED BY <1>3, <2>1 DEF text
<1>7. CASE m # 0
  <2>1. DOMAIN text = 1..(m + 10)
    BY <1>3, <1>4, <1>5
  <2>2. text[1].key = "version"
    <3>1. 1 \in 1..(Len(p) + Len(b)) /\ 1 <= Len(p) /\ 1 \in 1..m
      BY <1>3, <1>4, <1>7
    <3>2. text[1] = p[1] /\ p[1] = c[1]
      BY <1>4, <1>5, <3>1
    <3>3. QED BY <1>2, <3>2
  <2>3. text[m + 1].key = "version"
    <3>1. m + 1 \in 1..(Len(p) + Len(b)) /\ ~(m + 1 <= Len(p)) /\ (m + 1) - Len(p) = 1
      BY <1>3, <1>4
    <3>2. text[m + 1] = b[1]
      BY <1>5, <3>1
    <3>3. QED BY <1>3, <3>2
  <2>4. 1 \in Import!LinesOf(text, "version") /\ m + 1 \in Import!LinesOf(text, "version") /\ m + 1 # 1
    BY <1>4, <1>7, <2>1, <2>2, <2>3 DEF Import!LinesOf
  <2>5. IsFiniteSet(DOMAIN text)
    BY <1>4, <2>1, FS_Interval
  <2>6. Cardinality(Import!LinesOf(text, "version")) = 1
    <3>1. ASSUME NEW t, Import!NoDuplicates(t) PROVE Cardinality(Import!LinesOf(t, "version")) = 1
      BY <3>1, ImCardinality DEF Import!NoDuplicates, Import!Once
    <3>2. Import!NoDuplicates(text)
      BY <1>0 DEF text, b
    <3>3. QED BY <3>1, <3>2
  <2>7. \E i : Import!LinesOf(text, "version") = {i}
    BY <2>5, <2>6, SaidOnce
  <2>8. QED BY <2>4, <2>7
<1>8. QED BY <1>6, <1>7

\* A console that is accepted is one complete run, up to what follows its latencies.
LEMMA OneWholeRun ==
  ASSUME NEW text \in Import!ConsoleTexts, Import!NoDuplicates(text)
  PROVE  \E c \in Import!FullConsoles :
           /\ text \in Import!Prefixes(c)
           /\ Import!Metric("sysbench1", text) = Import!Metric("sysbench1", c)
           /\ Import!SysbenchErrors(text) = Import!SysbenchErrors(c)
<1>1. CASE text \in UNION {Import!Prefixes(c) : c \in Import!FullConsoles}
  <2>1. PICK n \in {1, 2}, r \in {1, 2}, e \in Errors : text \in Import!Prefixes(Import!Console(n, r, e))
    BY <1>1 DEF Import!FullConsoles, Errors
  <2> DEFINE c == Import!Console(n, r, e)
  <2>2. c \in Import!FullConsoles
    BY DEF Import!FullConsoles, Errors
  <2>4. Import!LinesOf(text, "p95") # {}
    <3>1. Cardinality(Import!InLatency(text, "p95")) = 1
      BY ImCardinality DEF Import!NoDuplicates
    <3>2. Import!InLatency(text, "p95") # {}
      BY <3>1, FS_EmptySet
    <3>3. QED BY <3>2 DEF Import!InLatency
  <2>5. /\ \A k \in {"transactions", "events", "ignored"} :
             Import!LinesOf(text, k) # {} /\ Import!Told(text, k) = Import!Told(c, k)
        /\ \A k \in {"transactions", "events", "ignored", "error"} :
             Import!LinesOf(text, k) = Import!LinesOf(c, k)
    BY <2>1, <2>4, CutShort
  <2> HIDE DEF c
  <2>6. Import!Metric("sysbench1", text) = Import!Metric("sysbench1", c)
    BY <2>5 DEF Import!Metric, Import!Reported
  <2>7. Import!SysbenchErrors(text) = Import!SysbenchErrors(c)
    <3>1. /\ Import!LinesOf(text, "error") = Import!LinesOf(c, "error")
          /\ Import!LinesOf(text, "ignored") = Import!LinesOf(c, "ignored")
          /\ Import!Reported(text, "ignored") = Import!Reported(c, "ignored")
      BY <2>5 DEF Import!Reported
    <3>2. QED BY <3>1, Zenon DEF Import!SysbenchErrors
  <2>8. QED BY <2>1, <2>2, <2>6, <2>7 DEF c
<1>2. CASE text \in {p \o Import!Console(1, 1, <<>>) : p \in Import!Prefixes(Import!Console(2, 2, <<>>))}
  <2> DEFINE b == Import!Console(1, 1, <<>>)
  <2>1. text = b
    BY <1>2, Repeated
  <2>2. b \in Import!FullConsoles
    BY DEF Import!FullConsoles
  <2>3. b \in Seq(LogLines)
    BY ConsoleLines DEF Errors
  <2> HIDE DEF b
  <2>4. b \in Import!Prefixes(b)
    <3>1. Len(b) \in 0..Len(b)
      BY <2>3
    <3>2. SubSeq(b, 1, Len(b)) = b
      BY <2>3
    <3>3. QED BY <3>1, <3>2 DEF Import!Prefixes
  <2>5. QED BY <2>1, <2>2, <2>4
<1>3. QED BY <1>1, <1>2, Zenon DEF Import!ConsoleTexts

\* A text that is accepted has the format of the adapter, and the shape of that format.
LEMMA AcceptedShape ==
  ASSUME NEW a \in Import!ImportAdapters, NEW text \in Import!Texts, NEW mapping,
         Import!Accepted(a, text, mapping)
  PROVE  /\ text.format = "console" => a = "sysbench1" /\ text.body \in Import!ConsoleTexts
         /\ text.format = "summary" => a = "benchbase33c0047" /\ text.body \in Import!Summaries
<1>1. text.format = Import!FormatOf(a)
  BY DEF Import!Accepted
<1>2. /\ Import!FormatOf(a) = "console" => a = "sysbench1"
      /\ Import!FormatOf(a) = "summary" => a = "benchbase33c0047"
  BY DEF Import!FormatOf, Import!ImportAdapters
<1>3. /\ text.format = "console" => text.body \in Import!ConsoleTexts
      /\ text.format = "summary" => text.body \in Import!Summaries
  BY DEF Import!Texts
<1>4. QED BY <1>1, <1>2, <1>3

\* What sysbench reports is what the one whole run it is a part of reports.
LEMMA ConsoleIsOneRun ==
  ASSUME NEW text \in Import!Texts, NEW mapping, text.format = "console",
         Import!Accepted("sysbench1", text, mapping)
  PROVE  /\ \E c \in Import!FullConsoles :
               /\ Import!Normalized("sysbench1", [text EXCEPT !.body = c]) = Import!Normalized("sysbench1", text)
               /\ text.body \in Import!Prefixes(c)
         /\ Import!Normalized("sysbench1", text).metric = Import!Reported(text.body, "events")
<1>1. Import!NoDuplicates(text.body) /\ Import!RateAgrees(text.body)
  BY DEF Import!Accepted, Import!ParseSysbench
<1>2. text.body \in Import!ConsoleTexts /\ \A c : [text EXCEPT !.body = c].body = c
  BY DEF Import!Texts
<1>3. PICK c \in Import!FullConsoles :
        /\ text.body \in Import!Prefixes(c)
        /\ Import!Metric("sysbench1", text.body) = Import!Metric("sysbench1", c)
        /\ Import!SysbenchErrors(text.body) = Import!SysbenchErrors(c)
  BY <1>1, <1>2, OneWholeRun
<1>4. Import!Normalized("sysbench1", [text EXCEPT !.body = c]) = Import!Normalized("sysbench1", text)
  <2> DEFINE whole == [text EXCEPT !.body = c]
  <2>1. whole.body = c
    BY <1>2
  <2> HIDE DEF whole
  <2>2. Import!Normalized("sysbench1", whole) = Import!Normalized("sysbench1", text)
    <3>1. ASSUME NEW t
          PROVE  Import!Normalized("sysbench1", t)
                   = [identity |-> Import!AdapterIdentity("sysbench1"), metric |-> Import!Metric("sysbench1", t.body),
                      errors |-> Import!SysbenchErrors(t.body), complete |-> TRUE]
      BY DEF Import!Normalized, Import!Mapped
    <3>2. /\ Import!Metric("sysbench1", whole.body) = Import!Metric("sysbench1", text.body)
          /\ Import!SysbenchErrors(whole.body) = Import!SysbenchErrors(text.body)
      BY <1>3, <2>1, Zenon
    <3>3. QED BY <3>1, <3>2, Zenon
  <2>3. QED BY <2>2 DEF whole
<1>5. Import!Normalized("sysbench1", text).metric = Import!Metric("sysbench1", text.body)
  BY DEF Import!Normalized
<1>6. Import!Metric("sysbench1", text.body) = Import!Reported(text.body, "events")
  BY <1>1 DEF Import!Metric, Import!RateAgrees
<1>7. QED BY <1>3, <1>4, <1>5, <1>6

LEMMA SummaryIsOneRun ==
  ASSUME NEW text, NEW mapping, Import!Accepted("benchbase33c0047", text, mapping)
  PROVE  Import!Normalized("benchbase33c0047", text).metric * text.body.elapsed = text.body.requests
<1>1. text.body.throughput * text.body.elapsed = text.body.requests
  BY DEF Import!Accepted, Import!ParseBenchBase
<1>2. Import!Normalized("benchbase33c0047", text).metric = text.body.throughput
  BY DEF Import!Normalized, Import!Metric
<1>3. QED BY <1>1, <1>2

\* What was imported is the report of one complete run: a sysbench console that was cut
\* short before its latencies, or appended to another run's, never is, and its metric is
\* the total beside it, as the rate of a BenchBase summary is (parseSysbench,
\* parseBenchBase33c0047).  The artifact keeps the bytes its result was derived from,
\* although the report was rewritten meanwhile, and verifies again under the adapter that
\* its result names, which is the one that was asked for (Create, Verify).
THEOREM ImportsAreTrue == Spec => []ImportIsTrue
<1> DEFINE I == part = "import" => ImportIInv
<1>1. Init => I
  BY PartStarts, ImportInvInit
<1>2. I /\ [Next]_allVars => I'
  BY PartSteps, ImportInvNext, ImportInvStays
<1>3. ASSUME ImportIInv, impPc = "imported"
      PROVE  /\ impDir.raw = impRead /\ impDir.mapping = impMapping
             /\ impDir.result = Import!Normalized(impAdapter, impRead)
             /\ Import!Accepted(impAdapter, impRead, impMapping)
             /\ impRead \in Import!Texts /\ impAdapter \in Import!ImportAdapters
  BY <1>3 DEF ImportIInv, Imported
<1>4. ImportIInv => Import!ImportKeepsItsSource
  <2> SUFFICES ASSUME ImportIInv, impPc = "imported"
               PROVE  /\ impDir.raw = impRead /\ Import!AdapterFor(impDir.result) = impAdapter
                      /\ Import!ImportVerifies(impDir)
    BY DEF Import!ImportKeepsItsSource
  <2>1. Import!AdapterFor(impDir.result) = impAdapter
    BY <1>3, AdapterIsNamed
  <2>2. QED BY <1>3, <2>1 DEF Import!ImportVerifies
<1>5. ImportIInv => Import!ImportIsOneWholeRun
  <2> SUFFICES ASSUME ImportIInv, impPc = "imported" PROVE Import!ImportIsOneWholeRun
    BY DEF Import!ImportIsOneWholeRun
  <2>1. /\ impRead.format = "console" => impAdapter = "sysbench1"
        /\ impRead.format = "summary" => impAdapter = "benchbase33c0047"
    BY <1>3, AcceptedShape
  <2>2. ASSUME impRead.format = "console"
        PROVE  /\ \E c \in Import!FullConsoles :
                     /\ Import!Normalized("sysbench1", [impRead EXCEPT !.body = c]) = impDir.result
                     /\ impRead.body \in Import!Prefixes(c)
               /\ impDir.result.metric = Import!Reported(impRead.body, "events")
    BY <1>3, <2>1, <2>2, ConsoleIsOneRun
  <2>3. ASSUME impRead.format = "summary"
        PROVE  impDir.result.metric * impRead.body.elapsed = impRead.body.requests
    BY <1>3, <2>1, <2>3, SummaryIsOneRun
  <2>4. QED BY <1>3, <2>2, <2>3 DEF Import!ImportIsOneWholeRun
<1>6. I => ImportIsTrue
  BY <1>4, <1>5 DEF ImportIsTrue
<1>7. QED BY <1>1, <1>2, <1>6, PTL DEF Spec
=============================================================================
