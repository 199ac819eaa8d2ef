-------------------------- MODULE ReleaseEvidence --------------------------
(***************************************************************************)
(* The release evidence chain (internal/releaseevidence): a directory of   *)
(* immutable index revisions index-r0.json, index-r1.json, ..., to which   *)
(* concurrent attachers each add one revision that closes one requirement  *)
(* of its predecessor, and a bundler that reads a prefix of it file by     *)
(* file.  Somebody may edit, replace or remove a file meanwhile.  The      *)
(* digest of an index is modelled by the index.                            *)
(***************************************************************************)
EXTENDS Naturals, FiniteSets

CONSTANTS Attachers, MaxRevision,
          Casts,       \* who may be at work together: sets of attachers and "bundler"
          MaxMeddles   \* bound on files somebody edits, replaces or removes

NoFile == [file |-> "none"]
Created == 1            \* the time the asset inventory was captured
Open == [status |-> "open"]

VARIABLES cast,         \* who is at work
          scope,        \* the readiness requirements of the index
          indexes,      \* revision -> the file index-r<revision>.json
          attPc, attRead, attOut,     \* of each attacher
          bundlerPc, bundlerAt, head, snapshots, packed, meddles

relVars == <<cast, scope, indexes, attPc, attRead, attOut, bundlerPc, bundlerAt, head, snapshots, packed, meddles>>

\* The sixteen requirements in the shapes the adapters give them; two or three
\* of them are open at a time, so that all of them can be closed.
Scopes == {{"aggregate1", "aggregate2"}, {"pilot1", "pilot2", "authoring"}, {"source", "review"}, {"controls"}}
Pilots == {"pilot1", "pilot2"}

\* Gate records: who made them, for which candidate, with what outcome, when.
Nobody == "nobody"
Record(gate, id, at) == [gate |-> gate, id |-> id, at |-> at, candidate |-> "this", passed |-> TRUE,
                         participant |-> Nobody, authored |-> FALSE, previous |-> "none"]
Pilot(p, authored, passed, at) ==
  [Record("pilot", p, at) EXCEPT !.participant = p, !.authored = authored, !.passed = passed]
Plain == {Record("aggregate1", "x", 2), Record("aggregate1", "y", 1), Record("source", "s", 1),
          Record("source", "s", 0), Record("controls", "c", 1), Record("review", "r", 2)}
Unfit == {[Record("source", "o", 2) EXCEPT !.candidate = "other"], [Record("review", "n", 1) EXCEPT !.passed = FALSE]}
Retries == {[Record("aggregate2", "z", 1) EXCEPT !.previous = "x"], [Record("aggregate2", "z", 2) EXCEPT !.previous = "y"]}
Adoptions == {Pilot("p", TRUE, TRUE, 1), Pilot("q", TRUE, FALSE, 2), Pilot("r", TRUE, TRUE, 1)}
Records == Plain \cup Unfit \cup Retries \cup Adoptions

Evidence(record, gate) ==
  [status |-> IF record.passed THEN "passed" ELSE "failed", at |-> record.at, digest |-> record.id,
   subject |-> record.participant, adapter |-> gate, assurance |-> "operator-attested"]

Closed(index) == {g \in scope : index.gates[g] # Open}
Subject(index, g) == IF g \in Closed(index) THEN index.gates[g].subject ELSE Nobody

\* readinessOutcome: evidence nobody authenticated never authorises.
Pending(index) == \E g \in Closed(index) : index.gates[g].assurance # "authorization-eligible"
Outcome(index) ==
  IF /\ \A g \in scope : index.gates[g].status = "passed"
     /\ ~Pending(index)
  THEN "go" ELSE "no-go"

PilotsAgree(index) ==
  LET first == Subject(index, "pilot1")   second == Subject(index, "pilot2")
      author == Subject(index, "authoring") IN
  /\ Nobody \notin {first, second} => first # second
  /\ Nobody \notin {author, first, second} => author \in {first, second}

LineageHolds(index) == (index.rev = 0) <=> (index.prev = NoFile)
EvidenceHolds(index) == \A g \in Closed(index) : index.gates[g].adapter = g
IndexVerifies(index) ==
  /\ LineageHolds(index) /\ EvidenceHolds(index) /\ PilotsAgree(index)
  /\ index.at >= Created
  /\ index.decision = Outcome(index)
  /\ (index.decision = "go") <=> (index.record = "complete")

NewIndex == [rev |-> 0, prev |-> NoFile, candidate |-> "this", gates |-> [g \in scope |-> Open],
             at |-> Created, decision |-> "no-go", record |-> "active"]

\* finalizeDerivedDecision, over the index with its new evidence in place.
Later(a, b) == IF a > b THEN a ELSE b
Finalized(index, at) ==
  LET go == Outcome(index) IN
  [index EXCEPT !.at = Later(@, at), !.decision = go, !.record = IF go = "go" THEN "complete" ELSE "active"]
Successor(index, gate, evidence) ==
  Finalized([index EXCEPT !.gates[gate] = evidence, !.rev = @ + 1, !.prev = index], evidence.at)

\* adaptGateRecord: the gates this record may close in this index.
OtherPilot(gate) == IF gate = "pilot1" THEN "pilot2" ELSE "pilot1"
BindsFirstAttempt(record, index) ==
  /\ "aggregate1" \in Closed(index)
  /\ index.gates["aggregate1"].digest = record.previous
\* attachControls: one record closes the three open controls, here one gate, at once.
ControlsBind(record, index) == record.gate = "controls" /\ index.gates["controls"] = Open
Adapts(record, index, gate) ==
  /\ record.candidate = index.candidate
  /\ record.gate = IF gate \in Pilots \cup {"authoring"} THEN "pilot" ELSE gate
  /\ gate \in Pilots => record.participant # Subject(index, OtherPilot(gate))
  /\ gate = "authoring" => record.authored /\ record.passed
  /\ gate = "aggregate2" => BindsFirstAttempt(record, index)
  /\ gate = "controls" => ControlsBind(record, index)
CanAttach(record, index, gate) ==
  /\ index.record = "active"
  /\ Adapts(record, index, gate)
  /\ record.at >= Created
  /\ index.gates[gate] = Open
  /\ IndexVerifies(Successor(index, gate, Evidence(record, gate)))

File(index, inode) == [file |-> "index", inode |-> inode, index |-> index]
bundlerState == <<bundlerPc, bundlerAt, head, snapshots, packed>>

\* The indexes a legal history may have reached: revision zero, initialised from
\* the verified release assets, and its successors.
Successors(index) ==
  {Successor(index, p[2], Evidence(p[1], p[2])) : p \in {q \in Records \X scope : CanAttach(q[1], index, q[2])}}
Reached(index) == [r \in 0..MaxRevision |-> IF r = index.rev THEN File(index, "attached")
                                            ELSE IF r = index.rev - 1 THEN File(index.prev, "attached")
                                            ELSE NoFile]
ReleaseInit ==
  /\ scope \in Scopes /\ cast \in Casts
  /\ \E index \in {NewIndex} \cup Successors(NewIndex) : indexes = Reached(index)
  /\ attPc = [a \in Attachers |-> "idle"] /\ attRead = [a \in Attachers |-> NoFile] /\ attOut = [a \in Attachers |-> NoFile]
  /\ bundlerPc = "idle" /\ bundlerAt = 0 /\ head = 0 /\ snapshots = [r \in {} |-> NoFile] /\ packed = [r \in {} |-> NoFile]
  /\ meddles = 0

\* The predecessor is pinned, read once, parsed and verified; its successor is
\* derived from that one snapshot.
NoAttempt(a) == attRead' = [attRead EXCEPT ![a] = NoFile] /\ attOut' = [attOut EXCEPT ![a] = NoFile]
DeriveSuccessor(a, r) ==
  /\ attPc[a] = "idle" /\ a \in cast /\ indexes[r] # NoFile /\ r < MaxRevision
  /\ LET index == indexes[r].index IN
     /\ IndexVerifies(index) /\ index.rev = r
     /\ \/ \E record \in Records, gate \in scope :
             /\ CanAttach(record, index, gate)
             /\ attRead' = [attRead EXCEPT ![a] = indexes[r]]
             /\ attOut' = [attOut EXCEPT ![a] = File(Successor(index, gate, Evidence(record, gate)), "attached")]
             /\ attPc' = [attPc EXCEPT ![a] = "derived"]
        \/ /\ \E record \in Records, gate \in scope : ~CanAttach(record, index, gate)
           /\ attPc' = [attPc EXCEPT ![a] = "refused"] /\ UNCHANGED <<attRead, attOut>>
  /\ UNCHANGED <<cast, scope, indexes, bundlerState, meddles>>

\* WriteNewAt: the staged file is linked to the only name it may have; linkat
\* refuses a name that exists.
LinkReplacing(a) ==
  /\ indexes' = [indexes EXCEPT ![attOut[a].index.rev] = attOut[a]]
  /\ attPc' = [attPc EXCEPT ![a] = "linked"] /\ UNCHANGED <<attRead, attOut>>
LinkExclusive(a) ==
  LET r == attOut[a].index.rev IN
  IF indexes[r] = NoFile
  THEN /\ indexes' = [indexes EXCEPT ![r] = attOut[a]]
       /\ attPc' = [attPc EXCEPT ![a] = "linked"] /\ UNCHANGED <<attRead, attOut>>
  ELSE attPc' = [attPc EXCEPT ![a] = "refused"] /\ NoAttempt(a) /\ UNCHANGED indexes
PublishSuccessor(a) ==
  /\ attPc[a] = "derived" /\ LinkExclusive(a)
  /\ UNCHANGED <<cast, scope, bundlerState, meddles>>
\* The published file, then the predecessor, are opened again and compared with
\* what was staged and parsed: same inode, same bytes.
ConfirmSuccessor(a) ==
  /\ attPc[a] = "linked"
  /\ LET r == attOut[a].index.rev IN
     attPc' = [attPc EXCEPT ![a] =
       IF indexes[r] = attOut[a] /\ indexes[r - 1] = attRead[a] THEN "clean" ELSE "unconfirmed"]
  /\ NoAttempt(a) /\ UNCHANGED <<cast, scope, indexes, bundlerState, meddles>>
AttachStep(a) == (\E r \in 0..MaxRevision : DeriveSuccessor(a, r)) \/ PublishSuccessor(a) \/ ConfirmSuccessor(a)

(* -------------------------- the bundle --------------------------------- *)
\* verifyBundleTransition: the successor is exactly the attachment, made again
\* from its predecessor and the evidence it added.  The gate records are not in
\* the bundle, so what they bind is not checked here.
TransitionHolds(before, after) ==
  \E g \in scope :
    /\ {h \in scope : before.gates[h] # after.gates[h]} = {g}
    /\ before.gates[g] = Open /\ after.gates[g].adapter = g /\ after.gates[g].at >= Created
    /\ after.gates[g].status = "failed" => g \in Pilots \cup {"review"}
    /\ g = "aggregate2" => "aggregate1" \in Closed(before)
    /\ after = Successor(before, g, after.gates[g])
ChainHolds(chain) ==
  /\ chain[0] = [NewIndex EXCEPT !.candidate = chain[0].candidate]
  /\ \A r \in DOMAIN chain : IndexVerifies(chain[r]) /\ chain[r].rev = r
  /\ \A r \in DOMAIN chain \ {0} :
       /\ chain[r].prev = chain[r - 1] /\ chain[r].at >= chain[r - 1].at
       /\ chain[r].candidate = chain[0].candidate
       /\ TransitionHolds(chain[r - 1], chain[r])
\* As if a revision were checked by itself and by the digest it names.
LinksHold(chain) == \A r \in DOMAIN chain : IndexVerifies(chain[r]) /\ (r > 0 => chain[r].prev = chain[r - 1])
VerifyBundleChain(chain) == ChainHolds(chain)

attState == <<attPc, attRead, attOut>>
BundlerFails == bundlerPc' = "refused" /\ UNCHANGED <<bundlerAt, head, snapshots, packed>>
StartBundle ==
  /\ bundlerPc = "idle" /\ "bundler" \in cast /\ bundlerPc' = "reading"
  /\ head' \in 1..MaxRevision /\ \A r \in 0..head' : indexes[r] # NoFile
  /\ UNCHANGED <<cast, scope, indexes, attState, bundlerAt, snapshots, packed, meddles>>
ReadRevision ==
  /\ bundlerPc = "reading" /\ bundlerAt <= head
  /\ \/ /\ indexes[bundlerAt] # NoFile
        /\ snapshots' = [r \in 0..bundlerAt |-> IF r = bundlerAt THEN indexes[r] ELSE snapshots[r]]
        /\ bundlerAt' = bundlerAt + 1 /\ UNCHANGED <<bundlerPc, head, packed>>
     \/ indexes[bundlerAt] = NoFile /\ BundlerFails
  /\ UNCHANGED <<cast, scope, indexes, attState, meddles>>
StageBundle ==
  /\ bundlerPc = "reading" /\ bundlerAt > head
  /\ \/ /\ VerifyBundleChain([r \in 0..head |-> snapshots[r].index])
        /\ bundlerPc' = "confirm" /\ bundlerAt' = 0 /\ UNCHANGED <<head, snapshots, packed>>
     \/ ~VerifyBundleChain([r \in 0..head |-> snapshots[r].index]) /\ BundlerFails
  /\ UNCHANGED <<cast, scope, indexes, attState, meddles>>
\* confirmBundleSource reopens every revision, before and after publication.
SourceConfirmed == \A r \in 0..head : indexes[r] = snapshots[r]
PublishBundle ==
  /\ bundlerPc = "confirm"
  /\ \/ SourceConfirmed /\ packed' = [r \in 0..head |-> snapshots[r].index] /\ bundlerPc' = "reconfirm"
     \/ ~SourceConfirmed /\ bundlerPc' = "refused" /\ UNCHANGED packed
  /\ UNCHANGED <<cast, scope, indexes, attState, bundlerAt, head, snapshots, meddles>>
FinishBundle ==
  /\ bundlerPc = "reconfirm" /\ bundlerPc' = (IF SourceConfirmed THEN "clean" ELSE "unconfirmed")
  /\ UNCHANGED <<cast, scope, indexes, attState, bundlerAt, head, snapshots, packed, meddles>>
BundlerStep == ReadRevision \/ StageBundle \/ PublishBundle \/ FinishBundle

\* Someone writes over a file in place, puts a copy in its place, or removes it.
Forged(index) ==
  {[index EXCEPT !.gates[g] = Open] : g \in Closed(index)}
  \cup {[index EXCEPT !.gates[g].subject = "q"] : g \in Closed(index)}
  \cup {[index EXCEPT !.decision = "go", !.record = "complete"], [index EXCEPT !.candidate = "other"]}
Meddle ==
  /\ meddles < MaxMeddles /\ meddles' = meddles + 1
  /\ bundlerPc \in {"reading", "confirm", "reconfirm"} \/ \E a \in Attachers : attPc[a] \in {"derived", "linked"}
  /\ \E r \in {q \in 0..MaxRevision : indexes[q] # NoFile} :
       \/ indexes' = [indexes EXCEPT ![r] = NoFile]
       \/ indexes' = [indexes EXCEPT ![r].inode = "meddler"]
       \/ \E index \in Forged(indexes[r].index) : indexes' = [indexes EXCEPT ![r].index = index]
  /\ UNCHANGED <<cast, scope, attState, bundlerState>>

ReleaseNext ==
  \/ StartBundle \/ BundlerStep \/ Meddle
  \/ \E a \in Attachers : AttachStep(a)
ReleaseSpec == ReleaseInit /\ [][ReleaseNext]_relVars /\ WF_relVars(BundlerStep)

(* -------------------------- properties --------------------------------- *)
\* What an honest chain is, said without the verifier: evidence is only ever
\* added, one requirement at a time, the second attempt names the first one
\* there is, two pilots are two people, and nothing unauthenticated authorises.
Honest(chain) ==
  \A r \in DOMAIN chain :
    /\ Cardinality(Closed(chain[r])) = r /\ chain[r].candidate = chain[0].candidate /\ chain[r].decision = "no-go"
    /\ \A q \in 0..r : \A g \in Closed(chain[q]) : chain[r].gates[g] = chain[q].gates[g]
    /\ \A q \in 0..r : chain[q].at <= chain[r].at
    /\ {"pilot1", "pilot2"} \subseteq Closed(chain[r]) => Subject(chain[r], "pilot1") # Subject(chain[r], "pilot2")

\* While nobody meddles, however many attachers start from one predecessor, the
\* directory is one line of revisions, and what each record binds is in it
\* (attach.go; release-evidence.md: "concurrent local writers have one destination").
LineageIsOneChain ==
  meddles = 0 =>
    LET there == {r \in 0..MaxRevision : indexes[r] # NoFile}
        chain == [r \in there |-> indexes[r].index] IN
    /\ \A r \in there : \A q \in 0..r : q \in there
    /\ Honest(chain) /\ \A r \in there \ {0} : chain[r].prev = chain[r - 1]
    /\ \A r \in there : "aggregate2" \in Closed(chain[r]) =>
         \E record \in Records : /\ record.gate = "aggregate2" /\ record.at = chain[r].gates["aggregate2"].at
                                 /\ record.previous = chain[r].gates["aggregate1"].digest

\* A bundle read file by file, of a chain somebody may be editing or adding to,
\* carries an honest chain, whatever was put in its place (bundle.go createBundle).
BundledChainIsHonest == bundlerPc \in {"reconfirm", "clean", "unconfirmed"} => Honest(packed)
=============================================================================
