----------------------------- MODULE WorkloadBg -----------------------------
(***************************************************************************)
(* Background workloads an operator starts and stops with                  *)
(* scripts/workload_bg.sh: any number of invocations, which meet only in   *)
(* the file current.pid and in the process table.  The file is truncated   *)
(* and then written; is_running and current_pid read it one after the      *)
(* other; nothing locks it.  The four start commands differ in the program *)
(* they fork; a number stands for the forked subshell, which is all that   *)
(* stop signals, and not for what it runs.  Recorded beside the program:   *)
(* what it cannot know.                                                    *)
(***************************************************************************)
EXTENDS Naturals, FiniteSets

CONSTANTS Users,        \* invocations that can be in progress at once
          Pids,         \* process numbers, taken again once they are free
          MaxCommands   \* bound on the commands that are given

VARIABLES wbPc,      \* where each invocation is
          wbPid,     \* the number each remembers: $! of a start, pid of a stop
          procs,     \* what runs under each number: "none", "ours", "foreign"
          pidFile,   \* content of current.pid: a number, "absent" or "empty"
          commands,
          overlapped, \* two starts were in progress at once
          cut,       \* an invocation was killed half way
          reused     \* a number somebody remembers was taken by another process

wbVars == <<wbPc, wbPid, procs, pidFile, commands, overlapped, cut, reused>>

Free == {p \in Pids : procs[p] = "none"}
Ours == {p \in Pids : procs[p] = "ours"}
\* kill -0 "$(cat current.pid)"; an empty argument is an error of kill.
IsRunning == pidFile \in Pids /\ procs[pidFile] # "none"
Resting == {"idle", "started", "refused", "stopped"}
Starting == {"start", "fork", "forked", "open"}
Stopping == {"term", "poll"}
Remembered == {pidFile} \cup {wbPid[u] : u \in {v \in Users : wbPc[v] \in Stopping \cup Starting}}

BgInit ==
  /\ wbPc = [u \in Users |-> "idle"] /\ wbPid = [u \in Users |-> "absent"]
  /\ procs \in [Pids -> {"none", "foreign"}]
  /\ pidFile \in {"absent"} \cup Pids     \* or the number of a workload of long ago
  /\ commands = 0 /\ overlapped = FALSE /\ cut = FALSE /\ reused = IsRunning

Command(u, first) ==
  /\ wbPc[u] \in Resting /\ commands < MaxCommands /\ commands' = commands + 1
  /\ wbPc' = [wbPc EXCEPT ![u] = first]
  /\ overlapped' = (overlapped \/ (first = "start" /\ \E v \in Users \ {u} : wbPc[v] \in Starting))
  /\ UNCHANGED <<wbPid, procs, pidFile, cut, reused>>

\* require_idle, in each of the start commands.
StartsAnyway(u) ==
  /\ wbPc[u] = "start" /\ wbPc' = [wbPc EXCEPT ![u] = "fork"]
  /\ UNCHANGED <<wbPid, procs, pidFile, commands, overlapped, cut, reused>>
RequireIdle(u) ==
  /\ wbPc[u] = "start" /\ wbPc' = [wbPc EXCEPT ![u] = IF IsRunning THEN "refused" ELSE "fork"]
  /\ UNCHANGED <<wbPid, procs, pidFile, commands, overlapped, cut, reused>>
\* ( ... ) & and $!
Fork(u) ==
  /\ wbPc[u] = "fork" /\ wbPc' = [wbPc EXCEPT ![u] = "forked"]
  /\ \E p \in Free : /\ procs' = [procs EXCEPT ![p] = "ours"] /\ wbPid' = [wbPid EXCEPT ![u] = p]
                     /\ reused' = (reused \/ \E v \in Users \ {u} : wbPid[v] = p /\ wbPc[v] \in Stopping)
  /\ UNCHANGED <<pidFile, commands, overlapped, cut>>
\* write_state: the redirection truncates the file, printf fills it.
OpenPidFile(u) ==
  /\ wbPc[u] = "forked" /\ wbPc' = [wbPc EXCEPT ![u] = "open"] /\ pidFile' = "empty"
  /\ UNCHANGED <<wbPid, procs, commands, overlapped, cut, reused>>
WritePid(u) ==
  /\ wbPc[u] = "open" /\ wbPc' = [wbPc EXCEPT ![u] = "started"] /\ pidFile' = wbPid[u]
  /\ UNCHANGED <<wbPid, procs, commands, overlapped, cut, reused>>

\* stop_workload: is_running, then current_pid reads the file again.
LookRunning(u) ==
  /\ wbPc[u] = "look" /\ wbPc' = [wbPc EXCEPT ![u] = IF IsRunning THEN "read" ELSE "refused"]
  /\ UNCHANGED <<wbPid, procs, pidFile, commands, overlapped, cut, reused>>
ReadPid(u) ==
  /\ wbPc[u] = "read" /\ wbPc' = [wbPc EXCEPT ![u] = "term"] /\ wbPid' = [wbPid EXCEPT ![u] = pidFile]
  /\ UNCHANGED <<procs, pidFile, commands, overlapped, cut, reused>>
\* SIGTERM may be ignored; kill "" or of a number nobody has is only an error.
Signalled(p) == IF p \in Pids THEN [procs EXCEPT ![p] = "none"] ELSE procs
SendTerm(u) ==
  /\ wbPc[u] = "term" /\ wbPc' = [wbPc EXCEPT ![u] = "poll"] /\ procs' \in {procs, Signalled(wbPid[u])}
  /\ UNCHANGED <<wbPid, pidFile, commands, overlapped, cut, reused>>
\* The loop ends when the process is gone, or with SIGKILL after its last turn.
StopEnds(u) ==
  /\ wbPc[u] = "poll" /\ wbPc' = [wbPc EXCEPT ![u] = "stopped"] /\ procs' = Signalled(wbPid[u])
  /\ UNCHANGED <<wbPid, pidFile, commands, overlapped, cut, reused>>

\* The rest of the machine: processes end, others start, an invocation is killed.
ProcessEnds == \E p \in Pids \ Free :
  /\ procs' = [procs EXCEPT ![p] = "none"]
  /\ UNCHANGED <<wbPc, wbPid, pidFile, commands, overlapped, cut, reused>>
ForeignStarts == \E p \in Free :
  /\ procs' = [procs EXCEPT ![p] = "foreign"] /\ reused' = (reused \/ p \in Remembered)
  /\ UNCHANGED <<wbPc, wbPid, pidFile, commands, overlapped, cut>>
InvocationDies(u) ==
  /\ wbPc[u] \notin Resting /\ wbPc' = [wbPc EXCEPT ![u] = "idle"] /\ cut' = TRUE
  /\ UNCHANGED <<wbPid, procs, pidFile, commands, overlapped, reused>>

BgNext ==
  \/ ProcessEnds \/ ForeignStarts
  \/ \E u \in Users : \/ Command(u, "start") \/ Command(u, "look") \/ RequireIdle(u) \/ Fork(u)
                      \/ OpenPidFile(u) \/ WritePid(u) \/ LookRunning(u) \/ ReadPid(u)
                      \/ SendTerm(u) \/ StopEnds(u) \/ InvocationDies(u)
BgSpec == BgInit /\ [][BgNext]_wbVars
-----------------------------------------------------------------------------
\* As long as no two starts overlap, none is killed half way and no number is taken
\* again, there is one workload at most, it is the one current.pid names once the
\* commands have ended, and nothing else is signalled; overlapping stops do no harm.
OneWorkloadAtMost ==
  ~overlapped /\ ~cut /\ ~reused =>
    /\ Cardinality(Ours) <= 1
    /\ (\A u \in Users : wbPc[u] \in Resting) => Ours \subseteq {pidFile}
    /\ \A u \in Users : wbPc[u] = "poll" /\ wbPid[u] \in Pids => procs[wbPid[u]] # "foreign"
=============================================================================
