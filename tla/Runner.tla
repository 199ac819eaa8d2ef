------------------------------- MODULE Runner -------------------------------
(***************************************************************************)
(* The Go experiment runner, internal/experimentrun: it starts the         *)
(* experiment shell as leader of a process group of its own, selects over  *)
(* the shell's exit, the execution timeout and HUP/INT/TERM, ends the      *)
(* whole group with SIGTERM and then SIGKILL, probes whether the group is  *)
(* gone, removes its private copy of the spec and, after a failure of its  *)
(* own, replaces the verdict files of the run.                             *)
(*                                                                         *)
(* The shell and its descendants are the environment here; the shell's own *)
(* control is the subject of module ExperimentRun.                         *)
(***************************************************************************)
EXTENDS Naturals

CONSTANTS
  Kids,       \* descendants that can live in the shell's process group
  Piped,      \* TRUE: Stdout is not an *os.File, cmd.Wait also waits for EOF
  Faults      \* TRUE: kill(2), probes, renames and removals may also fail

ASSUME PipedAssumption == Piped \in BOOLEAN
ASSUME FaultsAssumption == Faults \in BOOLEAN

VARIABLES
  leader,     \* the shell: "unborn", "running", "zombie" or "reaped"
  code,       \* "zero" or "nonzero": how the shell exited
  kids,       \* descendants alive in the group
  doomed,     \* SIGKILL reached the whole group
  job,        \* [Kids -> "idle" | "passed" | "failed"]: the verdict a
              \* state-writer child of the shell is publishing
  half,       \* writers that renamed verdict.env and not yet verdict.json
  waitCh,     \* channel wait of capacity one: "empty", "full" or "drained"
  owner,      \* who made the run directory: "none", "prior" or "shell"
  manifest,   \* a manifest.env that matches run id, spec id and digest
  env, json,  \* verdict.env and verdict.json: "none", "passed" or "failed"
  pc,         \* where the runner's goroutine is
  subscribed, \* signal.Notify is in effect
  sigCh,      \* a signal is buffered in the terminationSignals channel
  reason,     \* commandTerminationReason
  sig,        \* TerminationSignal: the last clean-up signal attempted
  terr,       \* processGroupTermination.err is not nil
  contained,  \* ContainmentConfirmed
  exit, err,  \* ExitCode (by origin) and Err # nil of the CommandResult
  snap,       \* private spec snapshot: "none", "present" or "removed"
  replaced,   \* the runner's own verdict write: "no", "env", "both", "error"
  status      \* Result.Status

group  == <<leader, code, kids, doomed, job, half>>
files  == <<owner, manifest, env, json>>
result == <<reason, sig, terr, contained, exit, err, snap, replaced, status>>
vars   == <<leader, code, kids, doomed, job, half, waitCh, owner, manifest,
            env, json, pc, subscribed, sigCh, reason, sig, terr, contained,
            exit, err, snap, replaced, status>>

\* The runner's program counter.  The three terminal values: a result was
\* returned, an error before any command was started, death by a signal that
\* arrived while the runner was not subscribed.
AfterCommand == {"cleanup", "decide", "verdict.env", "verdict.json", "finish",
                 "done"}
Terminating  == {"send.term", "probe.term", "grace.term", "send.kill",
                 "probe.kill", "grace.kill", "report"}
Terminal     == {"done", "refused", "killed"}
PCs == {"snapshot", "subscribe", "fork", "select", "probe.exit"}
         \cup AfterCommand \cup Terminating \cup Terminal

\* kill(-pgid, 0) succeeds while any member is left, a zombie leader included.
GroupAlive == leader \in {"running", "zombie"} \/ kids # {}

Init ==
  /\ leader = "unborn" /\ code = "zero" /\ kids = {} /\ doomed = FALSE
  /\ job = [k \in Kids |-> "idle"] /\ half = {}
  /\ waitCh = "empty"
  \* runs/<run-id> may be the complete evidence of an earlier run of the spec.
  /\ \/ owner = "none" /\ manifest = FALSE /\ env = "none" /\ json = "none"
     \/ owner = "prior" /\ manifest = TRUE /\ env = "passed" /\ json = "passed"
  /\ pc = "snapshot" /\ subscribed = FALSE /\ sigCh = FALSE
  /\ reason = "none" /\ sig = "none" /\ terr = FALSE /\ contained = FALSE
  /\ exit = "none" /\ err = FALSE
  /\ snap = "none" /\ replaced = "no" /\ status = "none"

-----------------------------------------------------------------------------
(* The process group: the shell, its children, the state writer            *)

\* A live member that is not being killed forks; the child stays in the group.
Fork(k) ==
  /\ leader = "running" \/ kids # {}
  /\ ~doomed /\ k \notin kids
  /\ kids' = kids \cup {k}
  /\ job' = [job EXCEPT ![k] = "idle"]
  /\ UNCHANGED <<leader, code, doomed, half, waitCh, files, pc, subscribed,
                 sigCh, result>>

KidExit(k) ==
  /\ k \in kids
  /\ kids' = kids \ {k} /\ half' = half \ {k}
  /\ UNCHANGED <<leader, code, doomed, job, waitCh, files, pc, subscribed,
                 sigCh, result>>

\* mkdir "$RUN_DIR", refused when the directory exists, then write_manifest.
ShellReserves ==
  /\ leader = "running" /\ ~doomed /\ owner = "none"
  /\ owner' = "shell"
  /\ UNCHANGED <<group, waitCh, manifest, env, json, pc, subscribed, sigCh,
                 result>>

ShellWritesManifest ==
  /\ leader = "running" /\ ~doomed /\ owner = "shell" /\ ~manifest
  /\ manifest' = TRUE
  /\ UNCHANGED <<group, waitCh, owner, env, json, pc, subscribed, sigCh,
                 result>>

\* write_verdict runs the state writer in the foreground: one at a time.
ShellStartsWriter(k, v) ==
  /\ leader = "running" /\ ~doomed
  /\ owner = "shell" /\ manifest
  /\ k \notin kids /\ \A q \in kids : job[q] = "idle"
  /\ kids' = kids \cup {k}
  /\ job' = [job EXCEPT ![k] = v]
  /\ UNCHANGED <<leader, code, doomed, half, waitCh, files, pc, subscribed,
                 sigCh, result>>

\* WriteVerdict: verdict.env is renamed into place, verdict.json after it.
WriterRenamesEnv(k) ==
  /\ k \in kids /\ ~doomed /\ job[k] # "idle" /\ k \notin half
  /\ env' = job[k] /\ half' = half \cup {k}
  /\ UNCHANGED <<leader, code, kids, doomed, job, waitCh, owner, manifest,
                 json, pc, subscribed, sigCh, result>>

WriterRenamesJson(k) ==
  /\ k \in half /\ ~doomed
  /\ json' = job[k] /\ half' = half \ {k} /\ kids' = kids \ {k}
  /\ UNCHANGED <<leader, code, doomed, job, waitCh, owner, manifest, env, pc,
                 subscribed, sigCh, result>>

\* The shell exits zero only after the passed verdict it waited for; it can
\* exit nonzero, or be killed, at any point.
ShellExit(c) ==
  /\ leader = "running"
  /\ c = "zero" => /\ ~doomed /\ owner = "shell"
                   /\ env = "passed" /\ json = "passed"
                   /\ \A k \in kids : job[k] = "idle"
  /\ leader' = "zombie" /\ code' = c
  /\ UNCHANGED <<kids, doomed, job, half, waitCh, files, pc, subscribed,
                 sigCh, result>>

\* The goroutine of cmd.Wait reaps the shell and then, when the output goes
\* through pipes, waits until every holder of the write end is gone.
Reap ==
  /\ leader = "zombie" /\ leader' = "reaped"
  /\ UNCHANGED <<code, kids, doomed, job, half, waitCh, files, pc, subscribed,
                 sigCh, result>>

WaitReturns ==
  /\ leader = "reaped" /\ waitCh = "empty"
  /\ Piped => kids = {}
  /\ waitCh' = "full"
  /\ UNCHANGED <<group, files, pc, subscribed, sigCh, result>>

\* An operator or a supervisor signals the runner: buffered while subscribed,
\* fatal otherwise.  cmd.Start has not happened, or has returned, then.
Signalled ==
  /\ pc \notin Terminal
  /\ IF subscribed THEN sigCh' = TRUE /\ UNCHANGED pc
                   ELSE pc' = "killed" /\ UNCHANGED sigCh
  /\ UNCHANGED <<group, waitCh, files, subscribed, result>>

-----------------------------------------------------------------------------
(* runPreparedPlan up to the select                                        *)

CreateSnapshot ==
  /\ pc = "snapshot"
  /\ \/ pc' = "subscribe" /\ snap' = "present"
     \/ Faults /\ pc' = "refused" /\ UNCHANGED snap
  /\ UNCHANGED <<group, waitCh, files, subscribed, sigCh, reason, sig, terr,
                 contained, exit, err, replaced, status>>

\* The subscription moved after Start, the order the code's comment rules out.
SubscribeLate == 
  /\ pc = "subscribe" /\ pc' = "fork"
  /\ UNCHANGED <<group, waitCh, files, subscribed, sigCh, result>>

Subscribe ==
  /\ pc = "subscribe" /\ pc' = "fork" /\ subscribed' = TRUE
  /\ UNCHANGED <<group, waitCh, files, sigCh, result>>

Start ==
  /\ pc = "fork"
  /\ \/ /\ pc' = "select" /\ leader' = "running"
        /\ UNCHANGED <<subscribed, exit, err>>
     \/ /\ Faults /\ pc' = "cleanup" /\ exit' = "start" /\ err' = TRUE
        /\ subscribed' = FALSE /\ UNCHANGED leader
  /\ UNCHANGED <<code, kids, doomed, job, half, waitCh, files, sigCh, reason,
                 sig, terr, contained, snap, replaced, status>>

\* select picks any ready case: the exit, the timer or a buffered signal.
SelectWait ==
  /\ pc = "select" /\ waitCh = "full"
  /\ waitCh' = "drained" /\ pc' = "probe.exit"
  /\ exit' = IF code = "zero" THEN "zero" ELSE "shell"
  /\ err' = (code # "zero")
  /\ UNCHANGED <<group, files, subscribed, sigCh, reason, sig, terr,
                 contained, snap, replaced, status>>

SelectTimeout ==
  /\ pc = "select"
  /\ pc' = "send.term" /\ reason' = "timeout"
  /\ UNCHANGED <<group, waitCh, files, subscribed, sigCh, sig, terr,
                 contained, exit, err, snap, replaced, status>>

SelectSignal ==
  /\ pc = "select" /\ sigCh
  /\ sigCh' = FALSE /\ pc' = "send.term" /\ reason' = "interrupt"
  /\ UNCHANGED <<group, waitCh, files, subscribed, sig, terr, contained,
                 exit, err, snap, replaced, status>>

-----------------------------------------------------------------------------
(* commandResultAfterWait and terminateProcessGroup                        *)

\* What a probe of the group may report: an error is neither gone nor alive.
Probe == (IF GroupAlive THEN {"alive"} ELSE {"gone"})
           \cup (IF Faults THEN {"error"} ELSE {})

\* The group is probed after the shell exited; anything but "gone" is cleaned
\* up as residual, and a failed first probe rules out confirmation for good.
ProbeAfterExit ==
  /\ pc = "probe.exit"
  /\ \E p \in Probe :
       /\ pc' = IF p = "gone" THEN "cleanup" ELSE "send.term"
       /\ subscribed' = (p # "gone")
       /\ reason' = IF p = "gone" THEN "none" ELSE "residual"
       /\ terr' = (p = "error")
  /\ UNCHANGED <<group, waitCh, files, sigCh, sig, contained, exit, err, snap,
                 replaced, status>>

SendTerm ==
  /\ pc = "send.term" /\ pc' = "probe.term" /\ sig' = "TERM"
  /\ \E e \in BOOLEAN : (e => Faults) /\ terr' = (terr \/ e)
  /\ UNCHANGED <<group, waitCh, files, subscribed, sigCh, reason, contained,
                 exit, err, snap, replaced, status>>

\* SIGKILL reaches every member at once and none of them runs again, though
\* it may take its time to disappear; a kill(2) that fails reaches none.
SendKill ==
  /\ pc = "send.kill" /\ pc' = "probe.kill" /\ sig' = "KILL"
  /\ \/ doomed' = GroupAlive /\ UNCHANGED terr
     \/ Faults /\ terr' = TRUE /\ UNCHANGED doomed
  /\ UNCHANGED <<leader, code, kids, job, half, waitCh, files, subscribed,
                 sigCh, reason, contained, exit, err, snap, replaced, status>>

\* The channel of cmd.Wait is drained when it is ready and never waited for.
Drained == IF waitCh = "full" THEN "drained" ELSE waitCh

\* Confirmation that forgets the errors met on the way to it.
ConfirmProbeForgetful(from, loop) ==
  /\ pc \in {from, loop}
  /\ \E p \in Probe :
       /\ pc' = IF p = "alive" THEN loop ELSE "report"
       /\ terr' = (terr \/ p = "error")
       /\ contained' = (p # "alive")
       /\ waitCh' \in IF p # "alive" THEN {Drained}
                      ELSE IF pc = loop THEN {waitCh, Drained} ELSE {waitCh}
  /\ UNCHANGED <<group, files, subscribed, sigCh, reason, sig, exit, err,
                 snap, replaced, status>>

\* One probe of confirmProcessGroupDisappearance: the immediate one (from
\* "probe.*"), or one after a tick or after the leader was reaped.
ConfirmProbe(from, loop) ==
  /\ pc \in {from, loop}
  /\ \E p \in Probe :
       /\ pc' = IF p = "gone" THEN "report" ELSE loop
       /\ terr' = (terr \/ p = "error")
       /\ contained' = (p = "gone" /\ ~terr)
       /\ waitCh' \in IF p = "gone" THEN {Drained}
                      ELSE IF pc = loop THEN {waitCh, Drained} ELSE {waitCh}
  /\ UNCHANGED <<group, files, subscribed, sigCh, reason, sig, exit, err,
                 snap, replaced, status>>

ConfirmTerm == ConfirmProbe("probe.term", "grace.term")
ConfirmKill == ConfirmProbe("probe.kill", "grace.kill")

\* A loop that ends with the leader's exit instead of with the deadline.
GraceWaitsForLeader ==
  /\ pc = "grace.term" /\ waitCh = "drained" /\ pc' = "send.kill"
  /\ UNCHANGED <<group, waitCh, files, subscribed, sigCh, result>>

\* The grace period is over and the group was still seen: SIGKILL.
GraceExpires ==
  /\ pc = "grace.term" /\ pc' = "send.kill"
  /\ UNCHANGED <<group, waitCh, files, subscribed, sigCh, result>>

\* postKillConfirmationTime is over: containment stays unconfirmed.
ConfirmationExpires ==
  /\ pc = "grace.kill" /\ pc' = "report"
  /\ terr' = TRUE /\ contained' = FALSE /\ waitCh' = Drained
  /\ UNCHANGED <<group, files, subscribed, sigCh, reason, sig, exit, err,
                 snap, replaced, status>>

\* timeoutCommandResult, interruptCommandResult or the residual result; the
\* deferred stopSignals restores the default action of the signals.
Report ==
  /\ pc = "report" /\ pc' = "cleanup" /\ subscribed' = FALSE
  /\ err' = TRUE
  /\ exit' = IF reason = "residual"
               THEN IF exit = "zero" THEN "residual" ELSE exit
               ELSE reason
  /\ UNCHANGED <<group, waitCh, files, sigCh, reason, sig, terr, contained,
                 snap, replaced, status>>

-----------------------------------------------------------------------------
(* runPreparedPlan after the command                                       *)

RemoveSnapshot ==
  /\ pc = "cleanup" /\ pc' = "decide"
  /\ \/ snap' = "removed" /\ UNCHANGED err
     \/ Faults /\ err' = TRUE /\ UNCHANGED snap
  /\ UNCHANGED <<group, waitCh, files, subscribed, sigCh, reason, sig, terr,
                 contained, exit, replaced, status>>

\* The condition without the clause for a clean exit that failed afterwards.
RunnerOwnsFailureNarrow == sig # "none"

\* A failure only the runner knows of must reach the verdict files.
RunnerOwnsFailure == sig # "none" \/ (err /\ exit = "zero")

Decide ==
  /\ pc = "decide"
  /\ pc' = IF RunnerOwnsFailure THEN "verdict.env" ELSE "finish"
  /\ UNCHANGED <<group, waitCh, files, subscribed, sigCh, result>>

\* writeRunnerFailureVerdict: it needs a manifest that names this run and
\* spec; nothing asks who made the run directory.
ReplaceEnv ==
  /\ pc = "verdict.env"
  /\ \/ manifest /\ pc' = "verdict.json" /\ env' = "failed"
        /\ replaced' = "env" /\ UNCHANGED err
     \/ (Faults \/ ~manifest) /\ pc' = "finish" /\ err' = TRUE
        /\ replaced' = "error" /\ UNCHANGED env
  /\ UNCHANGED <<group, waitCh, owner, manifest, json, subscribed, sigCh,
                 reason, sig, terr, contained, exit, snap, status>>

ReplaceJson ==
  /\ pc = "verdict.json" /\ pc' = "finish"
  /\ \/ json' = "failed" /\ replaced' = "both" /\ UNCHANGED err
     \/ Faults /\ err' = TRUE /\ replaced' = "error" /\ UNCHANGED json
  /\ UNCHANGED <<group, waitCh, owner, manifest, env, subscribed, sigCh,
                 reason, sig, terr, contained, exit, snap, status>>

\* The status taken from the exit code alone.
FinishOnExitCode ==
  /\ pc = "finish" /\ pc' = "done"
  /\ status' = IF exit = "zero" THEN "passed" ELSE "failed"
  /\ UNCHANGED <<group, waitCh, files, subscribed, sigCh, reason, sig, terr,
                 contained, exit, err, snap, replaced>>

Finish ==
  /\ pc = "finish" /\ pc' = "done"
  /\ status' = IF ~err /\ exit = "zero" THEN "passed" ELSE "failed"
  /\ UNCHANGED <<group, waitCh, files, subscribed, sigCh, reason, sig, terr,
                 contained, exit, err, snap, replaced>>

-----------------------------------------------------------------------------

RunnerStep ==
  \/ CreateSnapshot \/ Subscribe \/ Start
  \/ SelectWait \/ SelectTimeout \/ SelectSignal
  \/ ProbeAfterExit \/ SendTerm \/ SendKill
  \/ ConfirmTerm \/ ConfirmKill \/ GraceExpires \/ ConfirmationExpires
  \/ Report \/ RemoveSnapshot \/ Decide \/ ReplaceEnv \/ ReplaceJson \/ Finish

ShellStep ==
  \/ \E k \in Kids :
       \/ Fork(k) \/ KidExit(k) \/ WriterRenamesEnv(k) \/ WriterRenamesJson(k)
       \/ \E v \in {"passed", "failed"} : ShellStartsWriter(k, v)
  \/ ShellReserves \/ ShellWritesManifest
  \/ \E c \in {"zero", "nonzero"} : ShellExit(c)
  \/ Reap \/ WaitReturns

Next == RunnerStep \/ ShellStep \/ Signalled

Spec == Init /\ [][Next]_vars

\* The runner's goroutine is scheduled and its timers fire.  Nothing is
\* assumed of the shell, of its descendants, of cmd.Wait or of the signals.
FairSpec == Spec /\ WF_vars(RunnerStep)

-----------------------------------------------------------------------------
(* Properties *)

TypeOK ==
  /\ leader \in {"unborn", "running", "zombie", "reaped"}
  /\ code \in {"zero", "nonzero"}
  /\ kids \subseteq Kids /\ half \subseteq kids /\ doomed \in BOOLEAN
  /\ job \in [Kids -> {"idle", "passed", "failed"}]
  /\ waitCh \in {"empty", "full", "drained"}
  /\ owner \in {"none", "prior", "shell"} /\ manifest \in BOOLEAN
  /\ env \in {"none", "passed", "failed"}
  /\ json \in {"none", "passed", "failed"}
  /\ pc \in PCs /\ subscribed \in BOOLEAN /\ sigCh \in BOOLEAN
  /\ reason \in {"none", "timeout", "interrupt", "residual"}
  /\ sig \in {"none", "TERM", "KILL"}
  /\ terr \in BOOLEAN /\ contained \in BOOLEAN /\ err \in BOOLEAN
  /\ exit \in {"none", "zero", "shell", "start", "residual", "timeout",
               "interrupt"}
  /\ snap \in {"none", "present", "removed"}
  /\ replaced \in {"no", "env", "both", "error"}
  /\ status \in {"none", "passed", "failed"}

\* "Containment is reported as confirmed only after an error-free cleanup
\* sequence and successful absence probe": a confirmed clean-up leaves no
\* member of the group behind, however the probes, the exits and the forks of
\* the group interleaved, and met no error.
ConfirmedMeansGone ==
  contained => ~GroupAlive /\ ~terr

\* A result without a clean-up signal is a result about a finished group: the
\* early return of commandResultAfterWait leaves nothing running behind it.
QuietMeansGone ==
  pc \in AfterCommand /\ sig = "none" /\ exit # "start"
    => ~GroupAlive /\ leader = "reaped"

\* Result.Passed() is earned: the shell itself exited zero, nothing of its
\* group survives, no clean-up was needed, the private spec copy is gone, and
\* both verdict files say passed.
PassedIsEarned ==
  status = "passed" =>
    /\ code = "zero" /\ leader = "reaped" /\ ~GroupAlive
    /\ sig = "none" /\ snap = "removed"
    /\ env = "passed" /\ json = "passed"

\* "If the shell exits while any residual process is alive, the Go runner
\* applies bounded whole-group TERM/KILL cleanup, fails the command, and
\* atomically replaces any transient passed shell verdict": a failure only the
\* runner knows of ends with both verdict files failed, and they stay so: no
\* state writer of the shell comes late and puts "passed" back.
FailureReachesVerdict ==
  pc = "done" /\ (sig # "none" \/ (err /\ exit = "zero"))
              /\ (contained \/ sig = "none") /\ replaced # "error"
    => env = "failed" /\ json = "failed"

\* SIGKILL is an escalation: it is sent only after a SIGTERM whose grace ran
\* out, and the runner never goes back to a weaker signal.
EscalationOnly ==
  [][sig' # sig => /\ sig = "none" => sig' = "TERM"
                   /\ sig = "TERM" => sig' = "KILL" /\ pc = "send.kill"
                   /\ sig # "KILL"]_vars

\* No group is orphaned: a signal to the runner kills it only before there is
\* a process group or after the group was dealt with.  ("Subscribe before
\* Start so no process group can exist in a window where normal SIGINT/SIGTERM
\* handling terminates the runner without cleanup.")
NoOrphanedGroup ==
  pc = "killed" =>
    leader = "unborn" \/ sig # "none" \/ ~GroupAlive

\* "if runs/<trial-id> already exists, the runner never overwrites or augments
\* that immutable evidence": docs/benchmarking.md.
PriorEvidenceUntouched ==
  owner = "prior" => env = "passed" /\ json = "passed"

\* The runner seen from outside: what its Result says of the process group.
Outcome ==
  IF status = "none" THEN "none"
  ELSE IF status = "passed" THEN "passed"
  ELSE IF sig = "none" THEN "quiet"
  ELSE IF contained THEN "contained" ELSE "uncontained"

\* Module Supervision is what callers of RunPlan rely on.
Supervised == INSTANCE Supervision WITH
  begun <- leader # "unborn", alive <- GroupAlive, outcome <- Outcome

\* The runner implements it: every outcome it returns is true of the group at
\* the moment it is returned and from then on.
SupervisionHolds == Supervised!Spec

\* Every invocation is finite: whatever the group does with SIGTERM and
\* SIGKILL, and whether or not cmd.Wait ever returns, the runner ends.
RunnerReturns == <>(pc \in Terminal)
=============================================================================
