--------------------------- MODULE OwnedChildren ---------------------------
(***************************************************************************)
(* The children an experiment shell owns while it runs: one metrics        *)
(* collector and the declared background workloads.  Each is started under *)
(* a Bash supervisor that keeps it as an unreaped job and stops it when a  *)
(* directory, the stop token, appears (scripts/process_lifecycle.sh).      *)
(* The owner is the part of scripts/run_experiment.sh that starts them,    *)
(* waits for the collector's first sample, stops them after the workload   *)
(* and stops what is left from its EXIT trap.                              *)
(***************************************************************************)
EXTENDS Naturals, FiniteSets

CONSTANTS
  Collector,  \* the metrics collector
  Jobs,       \* the declared background workloads
  Sampled,    \* values of EXPERIMENT_METRICS_SAMPLES: TRUE is a bounded count
  Waits,      \* values of EXPERIMENT_BACKGROUND_WAIT: TRUE is 1
  Faults,     \* TRUE: mkdir and rmdir of a token may fail
  Contained   \* TRUE: the Go runner may send SIGTERM to the whole group

ASSUME CollectorAssumption == Collector \notin Jobs
ASSUME SwitchAssumption == /\ Sampled \subseteq BOOLEAN /\ Waits \subseteq BOOLEAN
                           /\ Faults \in BOOLEAN /\ Contained \in BOOLEAN

Procs == Jobs \cup {Collector}

VARIABLES
  counted, \* the collector takes a fixed number of samples and ends by itself
  joins,   \* the run waits for its background workloads instead of stopping them
  child,   \* "none", "boot" (no TERM handler yet), "work", "last" (in the
           \* handler), "doomed" (SIGKILL on its way) or "dead"
  died,    \* exit status of the child: "none", "zero", "fail", "term", "kill"
  early,   \* children that ended with status 143 before a stop was requested
  sup,     \* supervisor: "none", "poll", "kill", "grace", "reap", "exited"
  sent,    \* stop_signal_sent of each supervisor
  status,  \* exit status of each supervisor
  token,   \* the stop token of each supervisor exists
  ready,   \* the readiness token exists
  flag,    \* READY_PUBLISHED of the collector
  sampled, \* the collector has published a complete first sample
  grouped, \* SIGTERM reached the whole process group
  stage,   \* where the owner is
  sub,     \* where it is in the procedure the stage has called
  at,      \* the process that procedure is about
  todo,    \* processes the loop of the stage has still to handle
  named,   \* processes whose supervisor's PID the owner's variables hold
  gone,    \* processes stop_background_specs found not running
  wstat,   \* status of the wait: "zero", "fail", "term", "kill", "late", "error"
  why,     \* how the wait for readiness failed: "none", "exited", "other"
  budget,  \* PGWORKBENCH_OWNED_CLEANUP_DEADLINE: "unset", "open", "spent"
  mexit, bexit,  \* METRICS_EXIT and BACKGROUND_EXIT are not zero
  terminating,   \* PGWORKBENCH_TERMINATING
  cstat    \* status of cleanup: "zero" or "fail"

mode     == <<counted, joins>>
children == <<child, died, early, flag, sampled>>
sups     == <<sup, sent, status>>
exits    == <<mexit, bexit, cstat>>
owner    == <<stage, sub, at, todo, named, gone, wstat, why, budget,
              exits, terminating, mode>>
vars     == <<children, sups, token, ready, grouped, owner>>

Main     == {"start", "record", "ready", "spawn", "spawned", "work", "join",
             "begin", "jobs", "metrics", "cool"}
Terminal == {"t.begin", "t.metrics", "t.jobs", "done"}
Statuses == {"none", "zero", "fail", "term", "kill"}

Alive(p)   == child[p] \in {"boot", "work", "last", "doomed"}
Running(p) == sup[p] \notin {"none", "exited"}

Init ==
  /\ counted \in Sampled /\ joins \in Waits
  /\ child = [p \in Procs |-> "none"] /\ died = [p \in Procs |-> "none"]
  /\ early = {} /\ flag = FALSE /\ sampled = FALSE
  /\ sup = [p \in Procs |-> "none"] /\ sent = [p \in Procs |-> FALSE]
  /\ status = [p \in Procs |-> "none"]
  /\ token = [p \in Procs |-> FALSE] /\ ready = FALSE /\ grouped = FALSE
  /\ stage = "start" /\ sub = "idle" /\ at = Collector /\ todo = {}
  /\ named = {} /\ gone = {} /\ wstat = "zero" /\ why = "none"
  /\ budget = "unset" /\ mexit = FALSE /\ bexit = FALSE /\ cstat = "zero"
  /\ terminating = FALSE

-----------------------------------------------------------------------------
(* The children *)

Boot(p) ==
  /\ child[p] = "boot" /\ child' = [child EXCEPT ![p] = "work"]
  /\ UNCHANGED <<died, early, flag, sampled, sups, token, ready, grouped, owner>>

\* publish_ready: mkdir of the readiness token, then READY_PUBLISHED=1.
PublishReady ==
  /\ child[Collector] = "work" /\ ~sampled /\ ~ready
  /\ ready' = TRUE /\ sampled' = TRUE
  /\ UNCHANGED <<child, died, early, flag, sups, token, grouped, owner>>

SetPublished ==
  /\ child[Collector] = "work" /\ sampled /\ ~flag
  /\ flag' = TRUE
  /\ UNCHANGED <<child, died, early, sampled, sups, token, ready, grouped, owner>>

\* A child ends by itself, or through a signal of somebody else.  The collector
\* ends with status zero only after it has published.
ChildEnds(p, d) ==
  /\ child[p] \in {"boot", "work"}
  /\ p = Collector /\ d = "zero" => flag
  /\ child' = [child EXCEPT ![p] = "dead"] /\ died' = [died EXCEPT ![p] = d]
  /\ early' = IF d = "term" /\ ~token[p] THEN early \cup {p} ELSE early
  /\ UNCHANGED <<flag, sampled, sups, token, ready, grouped, owner>>

\* The TERM handler: the final boundary sample, then exit 0.  Interrupted
\* between mkdir and READY_PUBLISHED=1 it publishes a second time: that fails
\* while the first token is there and leaves a stray one when it was consumed.
HandlerEnds(p, d) ==
  /\ child[p] = "last"
  /\ d = "zero" /\ p = Collector => flag \/ ~ready
  /\ child' = [child EXCEPT ![p] = "dead"] /\ died' = [died EXCEPT ![p] = d]
  /\ IF d = "zero" /\ p = Collector /\ ~flag
       THEN ready' = TRUE /\ sampled' = TRUE ELSE UNCHANGED <<ready, sampled>>
  /\ UNCHANGED <<early, flag, sups, token, grouped, owner>>

KillLands(p) ==
  /\ child[p] = "doomed"
  /\ child' = [child EXCEPT ![p] = "dead"] /\ died' = [died EXCEPT ![p] = "kill"]
  /\ UNCHANGED <<early, flag, sampled, sups, token, ready, grouped, owner>>

\* What SIGTERM makes of a child: death before the handler is installed, the
\* handler afterwards; a background workload need not have one.
AfterTerm(p) ==
  CASE child[p] = "boot" -> {"dead"}
    [] child[p] = "work" -> IF p = Collector THEN {"last"} ELSE {"last", "dead"}
    [] OTHER             -> {child[p]}

-----------------------------------------------------------------------------
(* The supervisor: the literal program of pgworkbench_start_owned_process  *)

\* jobs -pr still shows the child and the stop token is a directory.
SupSeesToken(p) ==
  /\ sup[p] = "poll" /\ Alive(p) /\ token[p]
  /\ sup' = [sup EXCEPT ![p] = "kill"]
  /\ UNCHANGED <<children, sent, status, token, ready, grouped, owner>>

\* kill -TERM %1; it may also succeed on a child that has just ended.
SupSendsTerm(p) ==
  /\ sup[p] = "kill" /\ sup' = [sup EXCEPT ![p] = "grace"]
  /\ \E s \in BOOLEAN : /\ Alive(p) => s
                        /\ sent' = [sent EXCEPT ![p] = s]
  /\ \E c \in AfterTerm(p) :
       /\ child' = [child EXCEPT ![p] = c]
       /\ died' = IF c = "dead" /\ Alive(p) THEN [died EXCEPT ![p] = "term"]
                                            ELSE died
  /\ UNCHANGED <<early, flag, sampled, status, token, ready, grouped, owner>>

\* A supervisor that waits for its child after TERM, however long it takes.
SupOnlyAsks(p) ==
  /\ sup[p] = "grace" /\ ~Alive(p)
  /\ sup' = [sup EXCEPT ![p] = "reap"]
  /\ UNCHANGED <<children, sent, status, token, ready, grouped, owner>>

\* grace_polls are used up and the child is still a running job: SIGKILL.
SupKills(p) ==
  /\ sup[p] = "grace" /\ Alive(p)
  /\ sup' = [sup EXCEPT ![p] = "reap"]
  /\ child' = [child EXCEPT ![p] = "doomed"]
  /\ UNCHANGED <<died, early, flag, sampled, sent, status, token, ready,
                 grouped, owner>>

\* Normalising because a token exists, whoever ended the child and when.
SupTrustsToken(p) ==
  /\ sup[p] \in {"poll", "grace", "reap"} /\ child[p] = "dead"
  /\ sup' = [sup EXCEPT ![p] = "exited"]
  /\ status' = [status EXCEPT ![p] =
                  IF token[p] /\ died[p] = "term" THEN "zero" ELSE died[p]]
  /\ UNCHANGED <<children, sent, token, ready, grouped, owner>>

\* wait reaps the child; 143 becomes 0 only after a TERM that was delivered.
SupExits(p) ==
  /\ sup[p] \in {"poll", "grace", "reap"} /\ child[p] = "dead"
  /\ sup' = [sup EXCEPT ![p] = "exited"]
  /\ status' = [status EXCEPT ![p] =
                  IF sent[p] /\ died[p] = "term" THEN "zero" ELSE died[p]]
  /\ UNCHANGED <<children, sent, token, ready, grouped, owner>>

\* The Go runner's SIGTERM to the group: supervisors have no trap and die with
\* 143, leaving their children, which have received it too.
GroupTerm ==
  /\ Contained /\ ~grouped /\ grouped' = TRUE
  /\ sup' = [p \in Procs |-> IF Running(p) THEN "exited" ELSE sup[p]]
  /\ status' = [p \in Procs |-> IF Running(p) THEN "term" ELSE status[p]]
  /\ child' \in [Procs -> {"none", "work", "last", "doomed", "dead"}]
  /\ \A p \in Procs : child'[p] \in AfterTerm(p)
  /\ died' = [p \in Procs |-> IF child'[p] = "dead" /\ Alive(p) THEN "term"
                              ELSE died[p]]
  /\ UNCHANGED <<early, flag, sampled, sent, token, ready, owner>>

-----------------------------------------------------------------------------
(* The owner's procedures.  sub is "idle" when the stage itself is running. *)

Env == <<children, sups, grouped, mode>>
Goto(s) == stage' = s /\ sub' = "idle"

\* pgworkbench_wait_after_stop_request begins: token first, then the polling.
AskToStop(p) ==
  /\ at' = p
  /\ \/ token' = [token EXCEPT ![p] = TRUE] /\ sub' = "poll" /\ wstat' = "zero"
     \/ /\ Faults /\ ~token[p] /\ sub' = "after" /\ wstat' = "error"
        /\ UNCHANGED token

\* pgworkbench_wait_owned_process: no token and no deadline.
JustWait(p) == /\ at' = p /\ sub' = "wait" /\ wstat' = "zero"
               /\ UNCHANGED token

PollAlive ==
  /\ sub = "poll" /\ Running(at) /\ sub' = "deadline"
  /\ UNCHANGED <<Env, token, ready, stage, at, todo, named, gone, wstat, why,
                 budget, exits, terminating>>

\* A poll without a deadline.
PollForever ==
  /\ sub = "deadline" /\ sub' = "poll"
  /\ UNCHANGED <<Env, token, ready, stage, at, todo, named, gone, wstat, why,
                 budget, exits, terminating>>

\* A deadline that takes the token back before the supervisor has seen it.
PollDeadlineUnlinks ==
  /\ sub = "deadline"
  /\ IF budget = "spent"
       THEN sub' = "after" /\ wstat' = "late" /\ token' = [token EXCEPT ![at] = FALSE]
       ELSE sub' = "poll" /\ UNCHANGED <<wstat, token>>
  /\ UNCHANGED <<Env, ready, stage, at, todo, named, gone, why, budget, exits,
                 terminating>>

\* The deadline is looked at after the job table: the supervisor may be gone.
PollDeadline ==
  /\ sub = "deadline"
  /\ IF budget = "spent" THEN sub' = "after" /\ wstat' = "late"
                         ELSE sub' = "poll" /\ UNCHANGED wstat
  /\ UNCHANGED <<Env, token, ready, stage, at, todo, named, gone, why, budget,
                 exits, terminating>>

ReapSupervisor ==
  /\ sub \in {"poll", "wait"} /\ ~Running(at)
  /\ wstat' = status[at] /\ sub' = "unlink"
  /\ UNCHANGED <<Env, token, ready, stage, at, todo, named, gone, why, budget,
                 exits, terminating>>

RemoveToken ==
  /\ sub = "unlink" /\ sub' = "after"
  /\ \/ token' = [token EXCEPT ![at] = FALSE] /\ UNCHANGED wstat
     \/ Faults /\ token[at] /\ wstat' = "error" /\ UNCHANGED token
  /\ UNCHANGED <<Env, ready, stage, at, todo, named, gone, why, budget, exits,
                 terminating>>

Spend ==
  /\ budget = "open" /\ budget' = "spent"
  /\ UNCHANGED <<Env, token, ready, stage, sub, at, todo, named, gone, wstat,
                 why, exits, terminating>>

-----------------------------------------------------------------------------
(* start_metrics and pgworkbench_wait_for_metrics_ready                    *)

\* The owner leaves for the EXIT trap and knows of the processes n only.
LeaveKnowing(n) ==
  /\ Goto("t.begin") /\ named' = n /\ todo' = n /\ gone' = {}
  /\ budget' = "open" /\ cstat' = "zero"

Launch(p) ==
  /\ child' = [child EXCEPT ![p] = "boot"] /\ sup' = [sup EXCEPT ![p] = "poll"]
  /\ at' = p
  /\ UNCHANGED <<died, early, flag, sampled, sent, status, token, ready,
                 grouped, mode, named, gone, wstat, why, budget, exits, terminating>>

StartMetrics == stage = "start" /\ Launch(Collector) /\ Goto("record")
                /\ UNCHANGED todo

SkipMetrics ==
  /\ stage = "start" /\ Goto("spawn") /\ todo' = Jobs
  /\ UNCHANGED <<Env, token, ready, at, named, gone, wstat, why, budget, exits,
                 terminating>>

\* The PID is assigned after the fork: a trap may run in between.
RecordMetrics ==
  /\ stage = "record" /\ stage' = "ready" /\ sub' = "try"
  /\ named' = named \cup {Collector}
  /\ UNCHANGED <<Env, token, ready, at, todo, gone, wstat, why, budget, exits,
                 terminating>>

ConsumeReady ==
  /\ stage = "ready" /\ sub \in {"try", "recheck"} /\ ready
  /\ ready' = FALSE /\ Goto("spawn") /\ todo' = Jobs
  /\ UNCHANGED <<Env, token, at, named, gone, wstat, why, budget, exits,
                 terminating>>

\* rmdir fails: the supervisor is stopped (or only reaped when it is gone).
ConsumeFails ==
  /\ stage = "ready" /\ sub = "try" /\ ready /\ Faults
  /\ AskToStop(Collector) /\ budget' = "open" /\ why' = "other"
  /\ UNCHANGED <<Env, ready, stage, todo, named, gone, exits, terminating>>

ReadyPolls ==
  /\ stage = "ready"
  /\ \/ sub = "try" /\ ~ready /\ sub' = "look"
     \/ sub = "look" /\ sub' = (IF Running(Collector) THEN "pause" ELSE "recheck")
     \/ sub = "pause" /\ sub' = "try"
  /\ UNCHANGED <<Env, token, ready, stage, at, todo, named, gone, wstat, why,
                 budget, exits, terminating>>

ReadyDeadline ==
  /\ stage = "ready" /\ sub = "pause"
  /\ AskToStop(Collector) /\ budget' = "open" /\ why' = "other"
  /\ UNCHANGED <<Env, ready, stage, todo, named, gone, exits, terminating>>

\* The PID is forgotten only when the job table no longer shows it running.
ReadyStopped ==
  /\ stage = "ready" /\ sub = "after"
  /\ ready' \in {ready, FALSE} /\ mexit' = TRUE
  /\ LeaveKnowing(IF Running(Collector) THEN named ELSE named \ {Collector})
  /\ UNCHANGED <<Env, token, at, wstat, why, bexit, terminating>>

\* No second look at the token after the supervisor was seen gone.
ExitedWithoutRecheck ==
  /\ stage = "ready" /\ sub = "recheck"
  /\ why' = "exited" /\ mexit' = TRUE /\ LeaveKnowing(named \ {Collector})
  /\ UNCHANGED <<Env, token, ready, at, wstat, bexit, terminating>>

\* The supervisor is gone and its collector had published nothing.
ExitedUnready ==
  /\ stage = "ready" /\ sub = "recheck" /\ (ready => Faults)
  /\ why' = (IF ready THEN "other" ELSE "exited") /\ mexit' = TRUE
  /\ LeaveKnowing(named \ {Collector})
  /\ UNCHANGED <<Env, token, ready, at, wstat, bexit, terminating>>

-----------------------------------------------------------------------------
(* start_background_specs, the workload, wait_background_specs             *)

StartJob ==
  /\ stage = "spawn" /\ \E p \in todo : Launch(p) /\ todo' = todo \ {p}
  /\ Goto("spawned")

RecordJob ==
  /\ stage = "spawned" /\ Goto("spawn") /\ named' = named \cup {at}
  /\ UNCHANGED <<Env, token, ready, at, todo, gone, wstat, why, budget, exits,
                 terminating>>

JobsStarted ==
  /\ stage = "spawn" /\ todo = {} /\ Goto("work")
  /\ UNCHANGED <<Env, token, ready, at, todo, named, gone, wstat, why, budget,
                 exits, terminating>>

\* begin_owned_children_stop 0: a collector with a sample count is not asked.
BeginStopForced(n) ==
  /\ Goto("begin") /\ named' = n /\ budget' = "open" /\ cstat' = "zero"
  /\ todo' = n

BeginStop(n) ==
  /\ Goto("begin") /\ named' = n /\ budget' = "open" /\ cstat' = "zero"
  /\ todo' = IF counted THEN n \ {Collector} ELSE n

WorkEnds ==
  /\ stage = "work"
  /\ IF joins THEN /\ Goto("join") /\ todo' = named \cap Jobs
                   /\ UNCHANGED <<named, budget, cstat>>
              ELSE BeginStop(named)
  /\ UNCHANGED <<Env, token, ready, at, gone, wstat, why, mexit, bexit,
                 terminating>>

JoinJob ==
  /\ stage = "join" /\ sub = "idle" /\ \E p \in todo : JustWait(p)
  /\ UNCHANGED <<Env, ready, stage, todo, named, gone, why, budget, exits,
                 terminating>>

\* A failed background workload that the run goes on without.
JobJoinedAnyway ==
  /\ stage = "join" /\ sub = "after" /\ sub' = "idle"
  /\ todo' = todo \ {at} /\ UNCHANGED bexit
  /\ UNCHANGED <<Env, token, ready, stage, at, named, gone, wstat, why, budget,
                 mexit, cstat, terminating>>

JobJoined ==
  /\ stage = "join" /\ sub = "after" /\ sub' = "idle"
  /\ todo' = todo \ {at} /\ bexit' = (bexit \/ wstat # "zero")
  /\ UNCHANGED <<Env, token, ready, stage, at, named, gone, wstat, why, budget,
                 mexit, cstat, terminating>>

Joined ==
  /\ stage = "join" /\ sub = "idle" /\ todo = {} /\ BeginStop(named \ Jobs)
  /\ UNCHANGED <<Env, token, ready, at, gone, wstat, why, mexit, bexit,
                 terminating>>

-----------------------------------------------------------------------------
(* begin_owned_children_stop, stop_background_specs, stop_metrics: in the  *)
(* body of the run, where errexit leaves at the first failure, and in the  *)
(* EXIT trap ("t." stages), where cleanup goes on and remembers it.        *)

RequestStop ==
  /\ stage \in {"begin", "t.begin"}
  /\ \E p \in todo : todo' = todo \ {p} /\ token' = [token EXCEPT ![p] = TRUE]
  /\ UNCHANGED <<Env, ready, stage, sub, at, named, gone, wstat, why, budget,
                 exits, terminating>>

RequestFails ==
  /\ Faults
  /\ \/ stage = "begin" /\ todo # {} /\ LeaveKnowing(named)
     \/ /\ stage = "t.begin"
        /\ \E p \in todo : ~token[p] /\ todo' = todo \ {p}
        /\ cstat' \in {cstat, "fail"}
        /\ UNCHANGED <<stage, sub, named, gone, budget>>
  /\ UNCHANGED <<Env, token, ready, at, wstat, why, mexit, bexit, terminating>>

Requested ==
  /\ todo = {}
  /\ \/ stage = "begin" /\ Goto("jobs") /\ todo' = named \cap Jobs
     \/ stage = "t.begin" /\ Goto("t.metrics") /\ UNCHANGED todo
  /\ UNCHANGED <<Env, token, ready, at, named, gone, wstat, why, budget, exits,
                 terminating>>

StopJob ==
  /\ stage \in {"jobs", "t.jobs"} /\ sub = "idle"
  /\ \E p \in todo : AskToStop(p)
  /\ UNCHANGED <<Env, ready, stage, todo, named, gone, why, budget, exits,
                 terminating>>

\* A failed stop that is recorded but not returned (overall_status).
JobStoppedQuietly ==
  /\ stage \in {"jobs", "t.jobs"} /\ sub = "after" /\ sub' = "idle"
  /\ todo' = todo \ {at} /\ gone' = IF Running(at) THEN gone ELSE gone \cup {at}
  /\ bexit' = (bexit \/ wstat # "zero") /\ UNCHANGED cstat
  /\ UNCHANGED <<Env, token, ready, stage, at, named, wstat, why, budget, mexit,
                 terminating>>

JobStopped ==
  /\ stage \in {"jobs", "t.jobs"} /\ sub = "after" /\ sub' = "idle"
  /\ todo' = todo \ {at} /\ gone' = IF Running(at) THEN gone ELSE gone \cup {at}
  /\ bexit' = (bexit \/ wstat # "zero")
  /\ cstat' = IF wstat = "zero" THEN cstat ELSE "fail"
  /\ UNCHANGED <<Env, token, ready, stage, at, named, wstat, why, budget, mexit,
                 terminating>>

\* remaining_pids replaces BACKGROUND_PIDS when the loop is over.
JobsStopped ==
  /\ sub = "idle" /\ todo = {}
  /\ \/ /\ stage = "jobs" /\ cstat = "zero" /\ Goto("metrics")
        /\ named' = named \ gone /\ gone' = {} /\ UNCHANGED <<todo, budget, cstat>>
     \/ stage = "jobs" /\ cstat # "zero" /\ LeaveKnowing(named \ gone)
     \/ /\ stage = "t.jobs" /\ Goto("done") /\ budget' = "unset"
        /\ named' = named \ gone /\ gone' = {} /\ UNCHANGED <<todo, cstat>>
  /\ UNCHANGED <<Env, token, ready, at, wstat, why, mexit, bexit, terminating>>

StopMetrics ==
  /\ stage \in {"metrics", "t.metrics"} /\ sub = "idle" /\ Collector \in named
  /\ IF token[Collector] \/ ~counted \/ terminating
       THEN AskToStop(Collector) ELSE JustWait(Collector)
  /\ UNCHANGED <<Env, ready, stage, todo, named, gone, why, budget, exits,
                 terminating>>

\* What is left of the run's body after phase 8, or of the trap.
AfterMetrics(n, ok) ==
  \/ /\ stage = "metrics" /\ ok /\ Goto("cool") /\ named' = n
     /\ budget' = "unset" /\ UNCHANGED <<todo, gone, cstat>>
  \/ stage = "metrics" /\ ~ok /\ LeaveKnowing(n)
  \/ /\ stage = "t.metrics" /\ Goto("t.jobs") /\ named' = n
     /\ todo' = n \cap Jobs /\ gone' = {}
     /\ cstat' = (IF ok THEN cstat ELSE "fail") /\ UNCHANGED budget

\* METRICS_PID cleared whether or not the supervisor is still running.
MetricsStoppedForgets ==
  /\ sub = "after" /\ mexit' = (mexit \/ wstat # "zero")
  /\ AfterMetrics(named \ {Collector}, wstat = "zero")
  /\ UNCHANGED <<Env, token, ready, at, wstat, why, bexit, terminating>>

MetricsStopped ==
  /\ sub = "after" /\ mexit' = (mexit \/ wstat # "zero")
  /\ AfterMetrics(IF Running(Collector) THEN named ELSE named \ {Collector},
                  wstat = "zero")
  /\ UNCHANGED <<Env, token, ready, at, wstat, why, bexit, terminating>>

NoMetricsToStop ==
  /\ sub = "idle" /\ Collector \notin named /\ AfterMetrics(named, TRUE)
  /\ UNCHANGED <<Env, token, ready, at, wstat, why, mexit, bexit, terminating>>

-----------------------------------------------------------------------------
(* Leaving the body: a command fails under errexit, HUP/INT/TERM, the end  *)

ShellFails ==
  /\ stage \in {"spawn", "work"} /\ LeaveKnowing(named)
  /\ UNCHANGED <<Env, token, ready, at, wstat, why, mexit, bexit, terminating>>

ShellSignalled ==
  /\ stage \in Main /\ terminating' = TRUE /\ LeaveKnowing(named)
  /\ UNCHANGED <<Env, token, ready, at, wstat, why, mexit, bexit>>

RunEnds ==
  /\ stage = "cool" /\ LeaveKnowing(named)
  /\ UNCHANGED <<Env, token, ready, at, wstat, why, mexit, bexit, terminating>>

OwnerStep ==
  \/ StartMetrics \/ SkipMetrics \/ RecordMetrics
  \/ ConsumeReady \/ ConsumeFails \/ ReadyPolls \/ ReadyDeadline
  \/ ReadyStopped \/ ExitedUnready
  \/ StartJob \/ RecordJob \/ JobsStarted \/ WorkEnds
  \/ JoinJob \/ JobJoined \/ Joined
  \/ RequestStop \/ RequestFails \/ Requested
  \/ StopJob \/ JobStopped \/ JobsStopped
  \/ StopMetrics \/ MetricsStopped \/ NoMetricsToStop
  \/ PollAlive \/ PollDeadline \/ ReapSupervisor \/ RemoveToken \/ RunEnds

SupStep(p) == SupSeesToken(p) \/ SupSendsTerm(p) \/ SupKills(p) \/ SupExits(p)

ChildStep(p) ==
  \/ Boot(p) \/ \E d \in {"zero", "fail", "term"} : ChildEnds(p, d)
  \/ \E d \in {"zero", "fail"} : HandlerEnds(p, d)

Next ==
  \/ OwnerStep \/ ShellFails \/ ShellSignalled \/ Spend \/ GroupTerm
  \/ PublishReady \/ SetPublished
  \/ \E p \in Procs : SupStep(p) \/ ChildStep(p) \/ KillLands(p)

Spec == Init /\ [][Next]_vars

\* The owner and the supervisors are scheduled and SECONDS advances.  Nothing is
\* assumed of the children, which may ignore SIGTERM, nor of a SIGKILL, which a
\* child in an uninterruptible system call outlives.
FairSpec ==
  /\ Spec /\ WF_vars(OwnerStep) /\ WF_vars(Spend)
  /\ \A p \in Procs : WF_vars(SupStep(p))

-----------------------------------------------------------------------------
(* Properties *)

TypeOK ==
  /\ counted \in Sampled /\ joins \in Waits
  /\ child \in [Procs -> {"none", "boot", "work", "last", "doomed", "dead"}]
  /\ died \in [Procs -> Statuses] /\ status \in [Procs -> Statuses]
  /\ sup \in [Procs -> {"none", "poll", "kill", "grace", "reap", "exited"}]
  /\ sent \in [Procs -> BOOLEAN] /\ token \in [Procs -> BOOLEAN]
  /\ early \subseteq Procs /\ {flag, sampled, ready, grouped} \subseteq BOOLEAN
  /\ stage \in Main \cup Terminal
  /\ sub \in {"idle", "try", "look", "pause", "recheck", "poll", "deadline",
              "wait", "unlink", "after"}
  /\ at \in Procs /\ todo \subseteq named \cup Jobs /\ named \subseteq Procs
  /\ gone \subseteq named /\ wstat \in Statuses \cup {"late", "error"}
  /\ why \in {"none", "exited", "other"} /\ budget \in {"unset", "open", "spent"}
  /\ {mexit, bexit, terminating} \subseteq BOOLEAN /\ cstat \in {"zero", "fail"}

\* "A caller that merely created the token cannot safely infer that causality
\* afterwards": a child that had already ended with 143 when its stop was
\* requested is never reported as a clean stop, and SIGKILL never is.
HonestZero ==
  \A p \in Procs : status[p] = "zero" /\ died[p] # "zero"
                     => died[p] = "term" /\ p \notin early

\* A stop request is never taken back from a supervisor that could still see
\* it: the token outlives the supervisor it was made for.
StopNeverLost ==
  [][\A p \in Procs : token[p] /\ ~token'[p] => ~Running(p)]_vars

\* "Metrics collector exited before publishing its first complete sample" is
\* said only of a collector that published none, even when it published and
\* exited between the probe of the token and that of the job table.
ReadinessFailureIsTrue ==
  [][why = "none" /\ why' = "exited" => ~sampled]_vars

\* "A bounded sampler is evidence-producing foreground work: let it finish":
\* a run that reaches its end never cut a fixed-count collector short.
SampledRunsOut ==
  stage = "cool" /\ counted /\ sup[Collector] # "none"
    => ~sent[Collector] /\ died[Collector] = "zero"

\* The run reaches its end only with every failure of a child on record: a
\* collector that failed ends the body, a background workload that failed, also
\* by a TERM to the whole group, leaves BACKGROUND_EXIT not zero.
ChildFailureCounts ==
  stage = "cool" =>
    /\ status[Collector] \in {"none", "zero"}
    /\ (\E p \in Jobs : status[p] \notin {"none", "zero"}) => bexit

\* Phase 8 is over only when every owned child is dead, its supervisor reaped
\* and its token removed (a TERM to the whole group apart, which fails the run).
CoolMeansQuiet ==
  stage = "cool" /\ ~grouped
    => \A p \in Procs : ~Alive(p) /\ ~Running(p) /\ ~token[p]

\* A clean-up that reports success left no child running, but for the one that
\* was forked and not yet recorded when a signal came: only the Go runner's
\* containment of the group reaches that one.
CleanupIsComplete ==
  stage = "done" /\ cstat = "zero" /\ ~grouped
    => LET left == {p \in Procs : Alive(p)}
       IN left = {} \/ (terminating /\ Cardinality(left) = 1)

\* No child outlives phase 8, nor a clean-up that reports success (run_experiment.sh,
\* stop_background_specs, cleanup).
ChildrenEndWithRun == CleanupIsComplete /\ CoolMeansQuiet

\* The terminal clean-up ends whatever the children do, also when SIGKILL does
\* not end them: the shared deadline bounds every wait of it.
CleanupEnds == stage = "t.begin" ~> stage = "done"

\* Every stop request is honoured: its supervisor ends, or has sent SIGKILL.
StopTakesEffect ==
  \A p \in Procs : token[p] ~> (~Running(p) \/ child[p] = "doomed")
=============================================================================
