--------------------------- MODULE ExternalDriver ---------------------------
(***************************************************************************)
(* internal/benchmarkexternal runs a foreign benchmark driver: it stages   *)
(* the closure of the driver's runtime, runs it in a process group of its  *)
(* own under a deadline, kills what the driver leaves behind, imports the  *)
(* result strictly and publishes the directory by a rename.  Verify later  *)
(* derives the closure again from the retained files alone.                *)
(***************************************************************************)
EXTENDS Naturals, Sequences, FiniteSets, SequencesExt, FiniteSetsExt

CONSTANTS Jars,             \* files a BenchBase runtime root may hold below lib/
          MaxRuntimeFiles   \* maxDriverRuntimeFiles

Entry == "entry"
Plugin == "plugin"
RuntimeNames == Jars \cup {Entry, Plugin}

VARIABLES drvJob,     \* [adapter, target, root: files below --runtime-root,
                      \*  links: the manifest Class-Path of each jar]
          drvPc, drvQueue, drvSeen,
          drvStaged,  \* the staged runtime: what the directory holds
          drvBound,   \* the runtime the records name
          drvGroup,   \* live members of the driver's process group
          drvExit,    \* how the driver's leader ended
          drvLate,    \* the deadline has passed
          drvBinary,  \* the source executor is as it was read
          drvOut      \* the output directory

drvVars == <<drvJob, drvPc, drvQueue, drvSeen, drvStaged, drvBound, drvGroup, drvExit, drvLate, drvBinary, drvOut>>

NoOut == [by |-> "nobody"]
Linked(job, jar) == IF jar \in DOMAIN job.links THEN job.links[jar] ELSE {}

\* The files each adapter's runtime consists of, beside the jars it discovers.
FixedFiles(adapter) == IF adapter = "hammerdb" THEN {Entry}
                       ELSE {Entry, Plugin}     \* plugin.xml; or oltp_common.lua

Jobs == UNION {
  [adapter : {"sysbench", "hammerdb"}, target : {"loopback"},
   root : SUBSET {Entry, Plugin}, links : {[j \in {Entry} |-> {}]}],
  [adapter : {"benchbase"}, target : {"loopback", "unsafe"},   \* unsafe: another host or a system database
   root : {{Entry, Plugin} \cup s : s \in SUBSET Jars},
   links : {l \in [Jars \cup {Entry} -> SUBSET Jars] :
             \A j \in Jars : Cardinality(l[j]) <= 1 /\ j \notin l[j]}]}

DriverInit == /\ drvJob \in Jobs
              /\ drvOut = NoOut
              /\ drvPc = "output" /\ drvQueue = <<>> /\ drvSeen = {}
              /\ drvStaged = {} /\ drvBound = {} /\ drvGroup = {} /\ drvExit = "none"
              /\ drvLate = FALSE /\ drvBinary = TRUE

\* prepareOutput: the name is inspected once, before anything runs.
PrepareOutput ==
  /\ drvPc = "output"
  /\ drvPc' = IF drvOut = NoOut THEN "stage" ELSE "refused"
  /\ UNCHANGED <<drvJob, drvQueue, drvSeen, drvStaged, drvBound, drvGroup, drvExit, drvLate, drvBinary, drvOut>>

\* stageDriverRuntime: the fixed files; a BenchBase entry starts the queue.
StageRuntime ==
  /\ drvPc = "stage"
  /\ IF ~(FixedFiles(drvJob.adapter) \subseteq drvJob.root)
     THEN drvPc' = "refused" /\ UNCHANGED <<drvQueue, drvSeen, drvStaged>>
     ELSE IF drvJob.adapter = "benchbase"
     THEN drvPc' = "closure" /\ drvQueue' = <<Entry>> /\ drvSeen' = {Entry} /\ UNCHANGED drvStaged
     ELSE drvPc' = "exact" /\ drvStaged' = FixedFiles(drvJob.adapter) /\ UNCHANGED <<drvQueue, drvSeen>>
  /\ UNCHANGED <<drvJob, drvBound, drvGroup, drvExit, drvLate, drvBinary, drvOut>>

\* A breadth-first search that enqueues only what no jar named before.
NewlyNamed(jar) == Linked(drvJob, jar) \ drvSeen

\* stageBenchBaseManifestClosure, one jar: its bytes, then its Class-Path.
StageJar ==
  /\ drvPc = "closure" /\ drvQueue # <<>>
  /\ LET jar == Head(drvQueue)  new == NewlyNamed(jar) IN
     IF \/ jar \notin drvJob.root
        \/ jar = Entry /\ Linked(drvJob, jar) = {}
        \/ Cardinality(drvSeen \cup new) > MaxRuntimeFiles
     THEN drvPc' = "refused" /\ UNCHANGED <<drvQueue, drvSeen, drvStaged>>
     ELSE /\ drvStaged' = drvStaged \cup {jar} /\ drvSeen' = drvSeen \cup new
          /\ \E order \in SetToSeqs(new) : drvQueue' = Tail(drvQueue) \o order
          /\ UNCHANGED drvPc
  /\ UNCHANGED <<drvJob, drvBound, drvGroup, drvExit, drvLate, drvBinary, drvOut>>

\* The queue is empty: config/plugin.xml is added.
ClosureStaged ==
  /\ drvPc = "closure" /\ drvQueue = <<>>
  /\ drvStaged' = drvStaged \cup {Plugin} /\ drvPc' = "exact"
  /\ UNCHANGED <<drvJob, drvQueue, drvSeen, drvBound, drvGroup, drvExit, drvLate, drvBinary, drvOut>>

\* validateExternalTarget: numeric loopback and no system database, read from
\* the driver's own configuration.
TargetAllowed == drvJob.target = "loopback"

\* requireExactSourceRuntime and finalizeDriverRuntime, then the retained inputs
\* and the invocation, which checks the target.
RequireExactRuntime(files) == drvJob.root = files
BindRuntime ==
  /\ drvPc = "exact"
  /\ IF RequireExactRuntime(drvStaged) /\ TargetAllowed
     THEN drvBound' = drvStaged /\ drvPc' = "start"
     ELSE drvPc' = "refused" /\ UNCHANGED drvBound
  /\ UNCHANGED <<drvJob, drvQueue, drvSeen, drvStaged, drvGroup, drvExit, drvLate, drvBinary, drvOut>>

\* verifyStagedRuntimeIdentity: the tree, scanned again, is the bound one.
RuntimeIdentity == drvStaged = drvBound

\* command.Run: the driver leads a group of its own.
StartDriver ==
  /\ drvPc = "start"
  /\ IF RuntimeIdentity THEN drvGroup' = {"leader"} /\ drvPc' = "running"
                        ELSE drvPc' = "refused" /\ UNCHANGED drvGroup
  /\ UNCHANGED <<drvJob, drvQueue, drvSeen, drvStaged, drvBound, drvExit, drvLate, drvBinary, drvOut>>

\* What the driver may do: fork, write into its runtime, end with any status.
DriverForks == drvExit = "none" /\ drvGroup' = drvGroup \cup {"child"} /\ UNCHANGED <<drvExit, drvStaged>>
DriverWrites == \E f \in {"extra"} \cup drvStaged : 
                  /\ drvStaged' = IF f = "extra" THEN drvStaged \cup {f} ELSE drvStaged \ {f}
                  /\ UNCHANGED <<drvExit, drvGroup>>
LeaderExits == \E status \in {"zero", "nonzero"} :
                  /\ drvExit' = status /\ drvGroup' = drvGroup \ {"leader"} /\ UNCHANGED drvStaged
ChildExits == "child" \in drvGroup /\ drvGroup' = drvGroup \ {"child"} /\ UNCHANGED <<drvExit, drvStaged>>

Environment ==
  /\ drvPc \in {"running", "group", "orphaned"} /\ drvGroup # {}
  /\ \/ DriverForks
     \/ RuntimeIdentity /\ DriverWrites
     \/ "leader" \in drvGroup /\ LeaderExits
     \/ ChildExits
  /\ UNCHANGED <<drvJob, drvPc, drvQueue, drvSeen, drvBound, drvLate, drvBinary, drvOut>>
\* Another hand in the stage before the driver starts.
StageWritten ==
  /\ drvPc = "start" /\ RuntimeIdentity /\ DriverWrites
  /\ UNCHANGED <<drvJob, drvPc, drvQueue, drvSeen, drvBound, drvLate, drvBinary, drvOut>>

\* Somebody replaces the executor that BenchBase runs in place.
ReplaceBinary == /\ drvPc = "running" /\ drvBinary /\ drvBinary' = FALSE
                 /\ UNCHANGED <<drvJob, drvPc, drvQueue, drvSeen, drvStaged, drvBound, drvGroup, drvExit, drvLate, drvOut>>

\* The deadline: Cancel kills the whole group, as long as the leader runs; it is
\* consulted once more after the run.
DriverDeadline ==
  /\ drvPc \in {"running", "group", "post"} /\ ~drvLate
  /\ drvLate' = TRUE
  /\ IF drvExit = "none" THEN drvGroup' = {} /\ drvExit' = "killed"
                         ELSE UNCHANGED <<drvGroup, drvExit>>
  /\ UNCHANGED <<drvJob, drvPc, drvQueue, drvSeen, drvStaged, drvBound, drvBinary, drvOut>>

\* Run returns once the leader is reaped: output pipes that a descendant still
\* holds are closed after WaitDelay, with an error.
RunReturnsWithPipes == drvExit # "none" /\ drvGroup = {}
RunCanReturn == drvExit # "none"
ReturnRun ==
  /\ drvPc = "running" /\ RunCanReturn
  /\ drvPc' = "group"
  /\ UNCHANGED <<drvJob, drvQueue, drvSeen, drvStaged, drvBound, drvGroup, drvExit, drvLate, drvBinary, drvOut>>

\* closeProcessGroup: any member left is killed, and refuses the run.
CloseGroupAnyway ==
  /\ drvPc = "group"
  /\ drvPc' = "post" /\ UNCHANGED drvGroup
  /\ UNCHANGED <<drvJob, drvQueue, drvSeen, drvStaged, drvBound, drvExit, drvLate, drvBinary, drvOut>>
CloseProcessGroup ==
  /\ drvPc = "group"
  /\ drvPc' = IF drvGroup = {} THEN "post" ELSE "refused"
  /\ drvGroup' = {}
  /\ UNCHANGED <<drvJob, drvQueue, drvSeen, drvStaged, drvBound, drvExit, drvLate, drvBinary, drvOut>>

\* What jars reach from the entry, the definition the searches are held against.
Reach(job) == LET step(s) == s \cup UNION {Linked(job, j) : j \in s}
              IN  FoldSet(LAMBDA n, s : step(s), {Entry}, 1..Cardinality(Jars))

\* deriveRetainedRuntime: the same search over the retained files; one that is
\* missing is an error.
RecordedRuntime(out) == out.recorded
DerivedRuntime(out) ==
  IF drvJob.adapter = "benchbase" THEN Reach(drvJob) \cup {Plugin} ELSE FixedFiles(drvJob.adapter)
\* verifyInventory: the recorded files, and no other, are there.
InventoryMatches(out) == out.recorded = out.holds
DriverVerifies(out) ==
  /\ DerivedRuntime(out) \subseteq out.holds
  /\ DerivedRuntime(out) = out.recorded
  /\ InventoryMatches(out)

\* The checks after the run, the collected result, its strict import and the
\* verification of the stage; any of those on the output may fail.
CheckDriverRun ==
  /\ drvPc = "post"
  /\ drvPc' \in IF /\ drvJob.adapter = "benchbase" => drvBinary
                   /\ RuntimeIdentity /\ ~drvLate /\ drvExit = "zero"
                   /\ DriverVerifies([holds |-> drvStaged, recorded |-> drvBound])
                THEN {"rename", "refused"} ELSE {"refused"}
  /\ UNCHANGED <<drvJob, drvQueue, drvSeen, drvStaged, drvBound, drvGroup, drvExit, drvLate, drvBinary, drvOut>>

\* os.Rename refuses a directory that appeared since prepareOutput.
PublishDriverRun ==
  /\ drvPc = "rename"
  /\ IF drvOut = NoOut
     THEN drvPc' = "done" /\ drvOut' = [by |-> "us", holds |-> drvStaged, recorded |-> drvBound]
     ELSE drvPc' = "refused" /\ UNCHANGED drvOut
  /\ UNCHANGED <<drvJob, drvQueue, drvSeen, drvStaged, drvBound, drvGroup, drvExit, drvLate, drvBinary>>

\* Another process publishes under the output name.
TakeDriverOutput ==
  /\ drvOut = NoOut /\ drvPc \in {"output", "rename"} /\ drvOut' = [by |-> "other"]
  /\ UNCHANGED <<drvJob, drvPc, drvQueue, drvSeen, drvStaged, drvBound, drvGroup, drvExit, drvLate, drvBinary>>

\* The command installs no signal handler: a signal to pgworkbench ends it at
\* once, and the driver, in a group of its own, goes on.
KillWorkbench ==
  /\ drvPc = "running" /\ drvPc' = "orphaned"
  /\ UNCHANGED <<drvJob, drvQueue, drvSeen, drvStaged, drvBound, drvGroup, drvExit, drvLate, drvBinary, drvOut>>

\* Somebody adds or removes a runtime file and rewrites every record to match.
TamperDriverRun ==
  /\ drvPc = "done"
  /\ \E f \in RuntimeNames \cup {"extra"} :
       LET files == IF f \in drvOut.holds THEN drvOut.holds \ {f} ELSE drvOut.holds \cup {f}
       IN  drvOut' = [by |-> "tampered", holds |-> files, recorded |-> files]
  /\ drvPc' = "tampered"
  /\ UNCHANGED <<drvJob, drvQueue, drvSeen, drvStaged, drvBound, drvGroup, drvExit, drvLate, drvBinary>>

DriverStep == \/ PrepareOutput \/ StageRuntime \/ StageJar \/ ClosureStaged \/ BindRuntime \/ StartDriver
              \/ ReturnRun \/ CloseProcessGroup \/ CheckDriverRun \/ PublishDriverRun
DriverNext == \/ DriverStep \/ Environment \/ StageWritten \/ ReplaceBinary \/ DriverDeadline
              \/ TakeDriverOutput \/ KillWorkbench \/ TamperDriverRun
DriverSpec == DriverInit /\ [][DriverNext]_drvVars /\ WF_drvVars(DriverStep) /\ WF_drvVars(DriverDeadline)
-----------------------------------------------------------------------------
\* A published execution ended with status zero before its deadline, against a
\* loopback target, with nothing left in its group and over exactly the closure of
\* its runtime (benchmarkexternal.Run).
DriverRunIsConfined ==
  drvOut.by = "us" => /\ drvExit = "zero" /\ ~drvLate /\ drvGroup = {} /\ drvJob.target = "loopback"
                      /\ drvOut.holds = DerivedRuntime(drvOut) /\ drvJob.root = drvOut.holds
                      /\ DriverVerifies(drvOut)

\* An execution that verifies retains exactly the closure of its entry, although
\* files were added or removed and every record rewritten to match
\* (deriveRetainedRuntime).
VerifiedRuntimeIsClosed ==
  drvOut.by = "tampered" => ~DriverVerifies(drvOut)

\* Whatever the driver does, the command returns and leaves nothing of the group,
\* unless pgworkbench itself is killed (WaitDelay, killProcessGroup).
DriverRunEnds ==
  drvPc = "running" ~> (drvPc \in {"refused", "done", "tampered"} /\ drvGroup = {}) \/ drvPc = "orphaned"
=============================================================================
