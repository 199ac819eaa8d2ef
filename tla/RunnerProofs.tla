---------------------------- MODULE RunnerProofs ----------------------------
(***************************************************************************)
(* Theorems about module Runner, for every set Kids, with or without pipes *)
(* and faults.  The inductive invariant relates the runner's program       *)
(* counter to the process group: where the runner has concluded that the   *)
(* group is gone, it is gone, and an empty group can never be joined.      *)
(***************************************************************************)
EXTENDS Runner, TLAPS

\* Before cmd.Start there is no shell, and without a shell no descendant.
Unborn ==
  /\ pc \in {"snapshot", "subscribe", "fork", "refused"} => leader = "unborn"
  /\ exit = "start" => leader = "unborn" /\ sig = "none"
  /\ leader = "unborn" => kids = {} /\ waitCh = "empty" /\ code = "zero"
                          /\ half = {} /\ sig = "none" /\ exit # "zero"
  /\ pc \in Terminating \cup {"select", "probe.exit"} => leader # "unborn"
  /\ waitCh # "empty" => leader = "reaped"
  /\ pc \in AfterCommand /\ leader = "unborn" => exit = "start"

\* The runner is subscribed as long as an unfinished group may exist.
Subscribed ==
  pc \in Terminating \cup {"fork", "select", "probe.exit"} => subscribed

\* Which clean-up signal was sent where, and why.
Signals ==
  /\ pc \in {"snapshot", "subscribe", "fork", "select", "probe.exit",
             "send.term", "refused"} => sig = "none"
  /\ pc \in {"probe.term", "grace.term", "send.kill"} => sig = "TERM"
  /\ pc \in {"probe.kill", "grace.kill"} => sig = "KILL"
  /\ pc = "report" => sig # "none"
  /\ pc \in Terminating => reason # "none"

\* Confirmation is the last word on the group.
Confirmed ==
  contained => /\ ~GroupAlive /\ ~terr
               /\ pc \in AfterCommand \cup {"report", "killed"}

Quiet ==
  pc \in AfterCommand /\ sig = "none" /\ exit # "start"
    => ~GroupAlive /\ leader = "reaped"

\* The exit code is the shell's own until a clean-up gives it another.
Exit ==
  /\ pc \in {"snapshot", "subscribe", "fork", "select", "refused"}
       => exit = "none" /\ ~err
  /\ pc = "probe.exit" => exit \in {"zero", "shell"}
  /\ pc \in Terminating /\ reason = "residual" => exit \in {"zero", "shell"}
  /\ exit = "zero" => leader = "reaped" /\ code = "zero"
  /\ pc \in AfterCommand /\ exit = "zero" => sig = "none"
  /\ pc \in AfterCommand /\ sig # "none" => err

\* After a shell that exited zero no state writer is left.
ZeroShell ==
  leader \in {"zombie", "reaped"} /\ code = "zero"
    => /\ \A k \in kids : job[k] = "idle"
       /\ replaced = "no" => env = "passed" /\ json = "passed"

Writers == \A k \in half : job[k] # "idle"

\* The verdict files are replaced only for a failure of the runner's own, and
\* for each such failure.
Replacing ==
  /\ pc \in AfterCommand /\ pc \in {"verdict.env", "verdict.json"}
       => sig # "none" \/ (err /\ exit = "zero")
  /\ replaced # "no" => /\ pc \in {"verdict.json", "finish", "done", "killed"}
                        /\ sig # "none" \/ (err /\ exit = "zero")
  /\ pc = "verdict.json" => replaced = "env"
  /\ pc \in {"finish", "done"} /\ (sig # "none" \/ (err /\ exit = "zero"))
       => replaced \in {"both", "error"}

\* The group is known to be gone.
Settled == \/ contained
           \/ pc \in AfterCommand /\ sig = "none" /\ exit # "start"

Replaced ==
  pc # "killed" /\ Settled =>
    /\ replaced \in {"env", "both"} => env = "failed"
    /\ replaced = "both" => json = "failed"

Snapshot == pc \in AfterCommand \ {"cleanup"} => snap = "removed" \/ err

Status ==
  /\ status # "none" <=> pc = "done"
  /\ status = "passed" <=> pc = "done" /\ ~err /\ exit = "zero"

Killed == NoOrphanedGroup

Inv == /\ Unborn /\ Subscribed /\ Signals /\ Confirmed /\ Quiet
       /\ Exit /\ ZeroShell /\ Writers /\ Replacing /\ Replaced /\ Snapshot
       /\ Status /\ Killed

IInv == TypeOK /\ Inv

-----------------------------------------------------------------------------
(* The invariant is inductive *)

\* No command, no group, no verdict of this run: the initial state.
LEMMA InitInv == Init => IInv
<1> USE DEF IInv, TypeOK, Unborn, Subscribed, Signals, Confirmed, Quiet, Exit,
            ZeroShell, Writers, Replacing, Replaced, Snapshot, Status,
            Killed, NoOrphanedGroup, Settled, PCs, AfterCommand, Terminating,
            Terminal, GroupAlive, group, files, result
<1> QED
  BY DEF Init, Inv

\* The steps of the shell, of its descendants and of cmd.Wait: they may empty
\* the group and never refill it.
LEMMA ShellStepInv == ASSUME IInv, ShellStep PROVE IInv'
<1> USE DEF IInv, TypeOK, Unborn, Subscribed, Signals, Confirmed, Quiet, Exit,
            ZeroShell, Writers, Replacing, Replaced, Snapshot, Status,
            Killed, NoOrphanedGroup, Settled, PCs, AfterCommand, Terminating,
            Terminal, GroupAlive, group, files, result
<1>1. ASSUME NEW k \in Kids, Fork(k) PROVE IInv'
  BY <1>1 DEF Fork, Inv
<1>2. ASSUME NEW k \in Kids, KidExit(k) PROVE IInv'
  BY <1>2 DEF KidExit, Inv
<1>3. ASSUME NEW k \in Kids, WriterRenamesEnv(k) PROVE IInv'
  BY <1>3 DEF WriterRenamesEnv, Inv
<1>4. ASSUME NEW k \in Kids, WriterRenamesJson(k) PROVE IInv'
  BY <1>4 DEF WriterRenamesJson, Inv
<1>5. ASSUME NEW k \in Kids, NEW v \in {"passed", "failed"}, ShellStartsWriter(k, v)
      PROVE  IInv'
  BY <1>5 DEF ShellStartsWriter, Inv
<1>6. CASE ShellReserves
  BY <1>6 DEF ShellReserves, Inv
<1>7. CASE ShellWritesManifest
  BY <1>7 DEF ShellWritesManifest, Inv
<1>8. ASSUME NEW c \in {"zero", "nonzero"}, ShellExit(c) PROVE IInv'
  BY <1>8 DEF ShellExit, Inv
<1>9. CASE Reap
  BY <1>9 DEF Reap, Inv
<1>10. CASE WaitReturns
  BY <1>10 DEF WaitReturns, Inv
<1>11. QED BY <1>1, <1>2, <1>3, <1>4, <1>5, <1>6, <1>7, <1>8, <1>9, <1>10 DEF ShellStep

\* The steps of the runner up to the select, the group clean-up, and the
\* steps after the command.
LEMMA RunnerStepInv == ASSUME IInv, RunnerStep PROVE IInv'
<1> USE DEF IInv, TypeOK, Unborn, Subscribed, Signals, Confirmed, Quiet, Exit,
            ZeroShell, Writers, Replacing, Replaced, Snapshot, Status,
            Killed, NoOrphanedGroup, Settled, PCs, AfterCommand, Terminating,
            Terminal, GroupAlive, group, files, result
<1>1. CASE CreateSnapshot
  BY <1>1 DEF CreateSnapshot, Inv
<1>2. CASE Subscribe
  BY <1>2 DEF Subscribe, Inv
<1>3. CASE Start
  <2>1. err' \in BOOLEAN /\ subscribed' \in BOOLEAN
    BY <1>3 DEF Start
  <2>2. TypeOK'
    BY <1>3, <2>1 DEF Start
  <2>3. Inv'
    BY <1>3, <2>1, <2>2 DEF Start, Inv
  <2>4. QED BY <2>2, <2>3
<1>4. CASE SelectWait
  <2>1. err' \in BOOLEAN
    BY <1>4 DEF SelectWait
  <2>2. TypeOK'
    BY <1>4, <2>1 DEF SelectWait
  <2>3. Inv'
    BY <1>4, <2>1, <2>2 DEF SelectWait, Inv
  <2>4. QED BY <2>2, <2>3
<1>5. CASE SelectTimeout
  BY <1>5 DEF SelectTimeout, Inv
<1>6. CASE SelectSignal
  <2>1. sigCh' \in BOOLEAN
    BY <1>6 DEF SelectSignal
  <2>2. TypeOK'
    BY <1>6, <2>1 DEF SelectSignal
  <2>3. Inv'
    BY <1>6, <2>1, <2>2 DEF SelectSignal, Inv
  <2>4. QED BY <2>2, <2>3
<1>7. CASE ProbeAfterExit
  <2>1. terr' \in BOOLEAN /\ subscribed' \in BOOLEAN
    BY <1>7 DEF ProbeAfterExit, Probe
  <2>2. TypeOK'
    BY <1>7, <2>1 DEF ProbeAfterExit, Probe
  <2>3. PICK p \in Probe :
      /\ pc' = IF p = "gone" THEN "cleanup" ELSE "send.term"
      /\ subscribed' = (p # "gone") /\ terr' = (p = "error")
      /\ reason' = IF p = "gone" THEN "none" ELSE "residual"
    BY <1>7 DEF ProbeAfterExit
  <2>4. CASE p = "gone"
    BY <1>7, <2>1, <2>2, <2>3, <2>4 DEF ProbeAfterExit, Probe, Inv
  <2>5. CASE p # "gone"
    BY <1>7, <2>1, <2>2, <2>3, <2>5, ZenonT(30) DEF ProbeAfterExit, Probe, Inv
  <2>6. QED BY <2>4, <2>5
<1>8. CASE SendTerm
  BY <1>8 DEF SendTerm, Inv
<1>9. CASE SendKill
  <2>1. doomed' \in BOOLEAN /\ terr' \in BOOLEAN
    BY <1>9 DEF SendKill
  <2>2. TypeOK'
    BY <1>9, <2>1 DEF SendKill
  <2>3. Inv'
    BY <1>9, <2>1, <2>2 DEF SendKill, Inv
  <2>4. QED BY <2>2, <2>3
<1>10. CASE ConfirmTerm
  BY <1>10 DEF ConfirmTerm, ConfirmProbe, Probe, Drained, Inv
<1>11. CASE ConfirmKill
  BY <1>11 DEF ConfirmKill, ConfirmProbe, Probe, Drained, Inv
<1>12. CASE GraceExpires
  BY <1>12 DEF GraceExpires, Inv
<1>13. CASE ConfirmationExpires
  <2>1. terr' \in BOOLEAN /\ contained' \in BOOLEAN
    BY <1>13 DEF ConfirmationExpires, Drained
  <2>2. TypeOK'
    BY <1>13, <2>1 DEF ConfirmationExpires, Drained
  <2>3. Inv'
    BY <1>13, <2>1, <2>2 DEF ConfirmationExpires, Drained, Inv
  <2>4. QED BY <2>2, <2>3
<1>14. CASE Report
  <2>1. err' \in BOOLEAN /\ subscribed' \in BOOLEAN
    BY <1>14 DEF Report
  <2>2. TypeOK'
    BY <1>14, <2>1 DEF Report
  <2>3. Inv'
    BY <1>14, <2>1, <2>2 DEF Report, Inv
  <2>4. QED BY <2>2, <2>3
<1>15. CASE RemoveSnapshot
  <2>1. err' \in BOOLEAN
    BY <1>15 DEF RemoveSnapshot
  <2>2. TypeOK'
    BY <1>15, <2>1 DEF RemoveSnapshot
  <2>3. Inv'
    BY <1>15, <2>1, <2>2 DEF RemoveSnapshot, Inv
  <2>4. QED BY <2>2, <2>3
<1>16. CASE Decide
  BY <1>16 DEF Decide, RunnerOwnsFailure, Inv
<1>17. CASE ReplaceEnv
  <2>1. err' \in BOOLEAN
    BY <1>17 DEF ReplaceEnv
  <2>2. TypeOK'
    BY <1>17, <2>1 DEF ReplaceEnv
  <2>3. Inv'
    BY <1>17, <2>1, <2>2 DEF ReplaceEnv, Inv
  <2>4. QED BY <2>2, <2>3
<1>18. CASE ReplaceJson
  <2>1. err' \in BOOLEAN
    BY <1>18 DEF ReplaceJson
  <2>2. TypeOK'
    BY <1>18, <2>1 DEF ReplaceJson
  <2>3. Inv'
    BY <1>18, <2>1, <2>2 DEF ReplaceJson, Inv
  <2>4. QED BY <2>2, <2>3
<1>19. CASE Finish
  BY <1>19 DEF Finish, Inv
<1>20. QED BY <1>1, <1>2, <1>3, <1>4, <1>5, <1>6, <1>7, <1>8, <1>9, <1>10,
         <1>11, <1>12, <1>13, <1>14, <1>15, <1>16, <1>17, <1>18,
         <1>19
         DEF RunnerStep

\* A signal is buffered, or kills a runner that is not subscribed.
LEMMA SignalledInv == ASSUME IInv, Signalled PROVE IInv'
<1> USE DEF IInv, TypeOK, Unborn, Subscribed, Signals, Confirmed, Quiet, Exit,
            ZeroShell, Writers, Replacing, Replaced, Snapshot, Status,
            Killed, NoOrphanedGroup, Settled, PCs, AfterCommand, Terminating,
            Terminal, GroupAlive, group, files, result
<1>1. sigCh' \in BOOLEAN
  BY DEF Signalled
<1>2. TypeOK'
  BY <1>1 DEF Signalled
<1>3. Inv'
  BY <1>1, <1>2 DEF Signalled, Inv
<1>4. QED BY <1>2, <1>3

\* The invariant every theorem below follows from.
LEMMA InductiveInv == Spec => []IInv
<1>1. ASSUME IInv, [Next]_vars PROVE IInv'
  <2>1. CASE Next
    BY <1>1, <2>1, ShellStepInv, RunnerStepInv, SignalledInv DEF Next
  <2>2. CASE UNCHANGED vars
    BY <1>1, <2>2
       DEF vars, IInv, TypeOK, Inv, Unborn, Subscribed, Signals, Confirmed,
           Quiet, Exit, ZeroShell, Writers, Replacing, Replaced, Snapshot,
           Status, Killed, NoOrphanedGroup, Settled, GroupAlive
  <2>3. QED BY <1>1, <2>1, <2>2
<1>2. QED BY InitInv, <1>1, PTL DEF Spec

-----------------------------------------------------------------------------
(* Theorems *)

\* Every variable keeps its type, and a half-published verdict its live
\* writer: the types of the runner's and of the group's state.
THEOREM TypeCorrect == Spec => []TypeOK
BY InductiveInv, PTL DEF IInv

\* "confirmed" in a result is true of the process group, for any number of
\* descendants and any interleaving of probes, forks and exits.
THEOREM ConfirmedIsGone == Spec => []ConfirmedMeansGone
<1>1. IInv => ConfirmedMeansGone
  BY DEF IInv, Inv, Confirmed, ConfirmedMeansGone
<1>2. QED BY InductiveInv, <1>1, PTL

\* A result that names no clean-up signal leaves no process behind.
THEOREM QuietIsGone == Spec => []QuietMeansGone
<1>1. IInv => QuietMeansGone
  BY DEF IInv, Inv, Quiet, QuietMeansGone
<1>2. QED BY InductiveInv, <1>1, PTL

\* A passed result rests on the shell's own zero exit and passed verdict.
THEOREM PassedEarned == Spec => []PassedIsEarned
<1>1. IInv => PassedIsEarned
  BY DEF IInv, Inv, TypeOK, PassedIsEarned, Status, Exit, Quiet, ZeroShell,
         Replacing, Snapshot, AfterCommand
<1>2. QED BY InductiveInv, <1>1, PTL

\* A failure only the runner knows of reaches both verdict files and stays.
THEOREM FailureIsRecorded == Spec => []FailureReachesVerdict
<1>1. IInv => FailureReachesVerdict
  BY DEF IInv, Inv, FailureReachesVerdict, Replacing, Replaced, Settled,
         AfterCommand
<1>2. QED BY InductiveInv, <1>1, PTL

\* A signal never kills the runner while it owes a clean-up to a live group.
THEOREM NoGroupOrphaned == Spec => []NoOrphanedGroup
<1>1. IInv => NoOrphanedGroup
  BY DEF IInv, Inv, Killed
<1>2. QED BY InductiveInv, <1>1, PTL

\* SIGTERM always comes first, SIGKILL only after its grace period.
THEOREM Escalation == Spec => EscalationOnly
<1>1. IInv /\ [Next]_vars =>
        [sig' # sig => /\ sig = "none" => sig' = "TERM"
                       /\ sig = "TERM" => sig' = "KILL" /\ pc = "send.kill"
                       /\ sig # "KILL"]_vars
  BY DEF IInv, Inv, Signals, Terminating, vars, group, files, result, Next,
         RunnerStep, ShellStep, Signalled, CreateSnapshot, Subscribe, Start,
         SelectWait, SelectTimeout, SelectSignal, ProbeAfterExit, SendTerm,
         SendKill, ConfirmTerm, ConfirmKill, ConfirmProbe, GraceExpires,
         ConfirmationExpires, Report, RemoveSnapshot, Decide, ReplaceEnv,
         ReplaceJson, Finish, Fork, KidExit, WriterRenamesEnv,
         WriterRenamesJson, ShellStartsWriter, ShellReserves,
         ShellWritesManifest, ShellExit, Reap, WaitReturns
<1>2. QED BY InductiveInv, <1>1, PTL DEF Spec, EscalationOnly

\* What a step does to the group and to the result, as module Supervision
\* sees it.
LEMMA StepIsSupervised ==
  ASSUME IInv, Next
  PROVE  Supervised!Next \/ UNCHANGED <<leader # "unborn", GroupAlive, Outcome>>
<1>1. CASE Start
  BY <1>1 DEF Supervised!Next, Supervised!Begin, IInv, Inv, TypeOK, Start,
         Unborn, Status, GroupAlive, Outcome
<1>2. CASE Finish
  <2>1. UNCHANGED <<leader, kids>> /\ status = "none" /\ Outcome = "none"
    BY <1>2 DEF Finish, group, IInv, Inv, TypeOK, Status, Outcome
  <2>2. Outcome' \in Supervised!Outcomes
    BY <1>2 DEF Finish, Outcome, Supervised!Outcomes
  <2>3. Outcome' # "uncontained" => ~GroupAlive
    BY <1>2 DEF Finish, Outcome, IInv, Inv, TypeOK, Unborn, Exit, Quiet,
           Confirmed, GroupAlive, AfterCommand
  <2>4. Outcome' = "passed" => leader # "unborn"
    BY <1>2 DEF Finish, Outcome, IInv, Inv, Exit
  <2>5. QED BY <2>1, <2>2, <2>3, <2>4
            DEF Supervised!Next, Supervised!Return, GroupAlive
<1>3. CASE RunnerStep /\ ~Start /\ ~Finish
  <2>1. UNCHANGED <<leader, kids, status, sig, contained>>
        \/ (UNCHANGED <<leader, kids, status>> /\ status = "none")
    BY <1>3 DEF RunnerStep, IInv, Inv, Status, group, files, result,
           CreateSnapshot, Subscribe, SelectWait, SelectTimeout, SelectSignal,
           ProbeAfterExit, SendTerm, SendKill, ConfirmTerm, ConfirmKill,
           ConfirmProbe, GraceExpires, ConfirmationExpires, Report,
           RemoveSnapshot, Decide, ReplaceEnv, ReplaceJson
  <2>2. QED BY <2>1 DEF GroupAlive, Outcome
<1>4. CASE ShellStep \/ Signalled
  <2>1. UNCHANGED <<status, sig, contained>>
    BY <1>4 DEF ShellStep, Signalled, group, files, result, Fork, KidExit,
           WriterRenamesEnv, WriterRenamesJson, ShellStartsWriter,
           ShellReserves, ShellWritesManifest, ShellExit, Reap, WaitReturns
  <2>2. /\ leader' # "unborn" <=> leader # "unborn"
        /\ GroupAlive' => GroupAlive
    BY <1>4 DEF IInv, TypeOK, GroupAlive, ShellStep, Signalled, group, files,
           result, Fork, KidExit, WriterRenamesEnv, WriterRenamesJson,
           ShellStartsWriter, ShellReserves, ShellWritesManifest, ShellExit,
           Reap, WaitReturns
  <2>3. QED BY <2>1, <2>2
            DEF Supervised!Next, Supervised!Vanish, GroupAlive, Outcome
<1>5. QED BY <1>1, <1>2, <1>3, <1>4 DEF Next

\* The runner keeps the contract its callers rely on, whatever the shell does.
THEOREM RunnerSupervises == Spec => SupervisionHolds
<1>1. Init => Supervised!Init
  BY DEF Init, Supervised!Init, GroupAlive, Outcome
<1>2. IInv /\ [Next]_vars
        => [Supervised!Next]_<<leader # "unborn", GroupAlive, Outcome>>
  <2>1. CASE UNCHANGED vars
    BY <2>1 DEF vars, GroupAlive, Outcome
  <2>2. QED BY <2>1, StepIsSupervised
<1>3. QED BY InductiveInv, <1>1, <1>2, PTL
          DEF Spec, SupervisionHolds, Supervised!Spec
=============================================================================
