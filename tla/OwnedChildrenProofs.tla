------------------------ MODULE OwnedChildrenProofs ------------------------
(***************************************************************************)
(* Theorems about module OwnedChildren, for every set of background        *)
(* workloads and every setting.  The inductive invariant has three parts:  *)
(* what holds of a child and its supervisor (Pairs), where the owner can   *)
(* be and what it has found out there (Places, Waited), and that every     *)
(* process the owner has started is either in its variables or accounted   *)
(* for (Recorded, Handled, Tokens, Cut, Strays).                           *)
(***************************************************************************)
EXTENDS OwnedChildren, FiniteSetTheorems, TLAPS

\* A child and its supervisor: a status is that of a child that died, a zero
\* one of a child that ended well or that a delivered TERM has ended.
Pair(p) ==
  /\ child[p] = "none" <=> sup[p] = "none"
  /\ child[p] = "dead" <=> died[p] # "none"
  /\ status[p] # "none" <=> sup[p] = "exited"
  /\ sup[p] = "exited" => child[p] = "dead" \/ (grouped /\ status[p] = "term")
  /\ sent[p] => sup[p] \in {"grace", "reap", "exited"}
  /\ sup[p] \in {"kill", "grace", "reap"} => token[p] /\ p \notin early
  /\ p \in early => died[p] = "term"
  /\ status[p] = "zero" /\ died[p] # "zero"
       => died[p] = "term" /\ sent[p] /\ p \notin early
Pairs == \A p \in Procs : Pair(p)

Stopping == {"poll", "deadline", "unlink", "after"}

\* Which procedure each stage has called, and about which process.
Places ==
  /\ stage \in {"start", "record", "spawn", "spawned", "work", "begin", "cool",
                "t.begin", "done"} => sub = "idle"
  /\ stage \in {"record", "ready"} => at = Collector
  /\ stage = "ready" => /\ sub \in {"try", "look", "pause", "recheck"} \cup Stopping
                        /\ Collector \in named
  /\ stage = "join" => sub \in {"idle", "wait", "unlink", "after"}
  /\ stage \in {"jobs", "t.jobs"} => sub \in {"idle"} \cup Stopping
  /\ stage \in {"metrics", "t.metrics"} => sub \in {"idle", "wait"} \cup Stopping
  /\ stage \in {"metrics", "t.metrics"} /\ sub # "idle" => at = Collector
  /\ stage \in {"join", "jobs", "t.jobs"} /\ sub # "idle" => at \in todo
  /\ stage \in {"join", "jobs", "t.jobs"} => todo \subseteq named \cap Jobs
  /\ stage \in {"begin", "t.begin"} => todo \subseteq named
  /\ stage \in {"metrics", "cool", "t.metrics"} => todo = {}
  /\ stage = "spawned" => at \in Jobs \ todo
  /\ gone \subseteq Jobs /\ (gone # {} => stage \in {"jobs", "t.jobs"})
  /\ terminating => stage \in Terminal

\* Nothing is started twice.
Unstarted ==
  /\ stage = "start" => \A p \in Procs : sup[p] = "none"
  /\ stage \in {"record", "ready"} => \A p \in Jobs : sup[p] = "none"
  /\ stage \in {"spawn", "spawned"}
       => todo \subseteq Jobs /\ \A p \in todo : sup[p] = "none"
  /\ stage \in {"record", "spawned"} => sup[at] # "none"
  /\ \A p \in named : sup[p] # "none"

\* What the owner has found out about the process it waits for.
Waited ==
  /\ sub = "recheck" => ~Running(Collector)
  /\ sub = "unlink" => ~Running(at) /\ wstat = status[at]
  /\ sub = "after" /\ wstat \notin {"late", "error"}
       => ~Running(at) /\ wstat = status[at] /\ ~token[at]
  /\ stage = "join" /\ sub = "after" => ~Running(at)
  /\ \A p \in gone : ~Running(p)

\* A token is there only while the supervisor it was made for is.
Tokens ==
  stage \in Main => \A p \in Procs : token[p] =>
    /\ p \in named
    /\ \/ stage \in {"begin", "jobs", "metrics"}
       \/ stage = "ready" /\ p = Collector /\ sub \in Stopping

\* The supervisor has ended, its token is removed and its failure on record.
Accounted(p) ==
  /\ sup[p] = "exited" /\ ~token[p]
  /\ p \in Jobs => (status[p] # "zero" => bexit)
  /\ p = Collector => stage = "cool" /\ status[p] = "zero"

\* The owner's variables hold every process started and not yet accounted for.
Recorded ==
  stage \in Main => \A p \in Procs :
    \/ sup[p] = "none"
    \/ p \in named
    \/ stage \in {"record", "spawned"} /\ p = at
    \/ Accounted(p)

\* The loops over the background workloads leave none of them behind.
Handled ==
  /\ stage = "join" => \A p \in (named \cap Jobs) \ todo : Accounted(p)
  /\ stage = "jobs" /\ cstat = "zero"
       => \A p \in (named \cap Jobs) \ todo : Accounted(p)
  /\ stage \in {"metrics", "cool"}
       => \A p \in Jobs : sup[p] = "none" \/ Accounted(p)
  /\ stage = "cool" => sup[Collector] = "none" \/ Accounted(Collector)
  /\ stage = "t.jobs" /\ cstat = "zero"
       => /\ Collector \notin named
          /\ \A p \in (named \cap Jobs) \ todo : ~Running(p)
  /\ stage = "done" /\ cstat = "zero" => \A p \in named : ~Running(p)

\* The body of the run never asks a fixed-count collector to stop.
Cut ==
  counted /\ stage \in Main /\ (stage = "ready" => sub \notin Stopping)
    => /\ ~token[Collector] /\ ~sent[Collector]
       /\ stage = "begin" => Collector \notin todo

\* The collector has published only what the owner can still consume.
Published == stage \in {"start", "record", "ready"} => (sampled => ready)

\* After the body, at most the one process a signal kept from being recorded.
Stray(p) == Running(p) /\ p \notin named
Strays ==
  stage \in Terminal =>
    /\ \A p \in Procs : Stray(p) => terminating
    /\ \A p, q \in Procs : Stray(p) /\ Stray(q) => p = q

Inv == /\ Pairs /\ Places /\ Unstarted /\ Waited /\ Tokens /\ Recorded
       /\ Handled /\ Cut /\ Published /\ Strays

IInv == TypeOK /\ Inv

-----------------------------------------------------------------------------
(* The children and the supervisors *)

ProcStep ==
  \/ GroupTerm \/ PublishReady \/ SetPublished
  \/ \E p \in Procs : SupStep(p) \/ ChildStep(p) \/ KillLands(p)

\* Nothing has been started, no token made: the initial state.
LEMMA InitInv == Init => IInv
<1> SUFFICES ASSUME Init PROVE IInv
  OBVIOUS
<1> USE DEF Init
<1>1. TypeOK
  BY SwitchAssumption DEF TypeOK, Procs, Main, Statuses
<1>2. Pairs /\ Waited /\ Strays
  BY DEF Pairs, Pair, Waited, Strays, Stray, Running, Terminal
<1>3. Places /\ Unstarted /\ Tokens /\ Recorded
  BY DEF Places, Unstarted, Tokens, Recorded
<1>4. Handled /\ Cut /\ Published
  BY DEF Handled, Cut, Published, Procs
<1>5. QED BY <1>1, <1>2, <1>3, <1>4 DEF IInv, Inv

\* A step of a child or of a supervisor touches its own pair only.
LEMMA ChildStepPairs ==
  ASSUME TypeOK, Pairs, NEW p \in Procs, ChildStep(p) \/ KillLands(p)
  PROVE  Pairs'
<1> USE DEF TypeOK, Pairs, Pair, Statuses
<1>1. CASE Boot(p)
  BY <1>1 DEF Boot, sups, owner
<1>2. ASSUME NEW d \in {"zero", "fail", "term"}, ChildEnds(p, d) PROVE Pairs'
  BY <1>2 DEF ChildEnds, sups, owner
<1>3. ASSUME NEW d \in {"zero", "fail"}, HandlerEnds(p, d) PROVE Pairs'
  BY <1>3 DEF HandlerEnds, sups, owner
<1>4. CASE KillLands(p)
  BY <1>4 DEF KillLands, sups, owner
<1>5. QED BY <1>1, <1>2, <1>3, <1>4 DEF ChildStep

LEMMA SupStepPairs ==
  ASSUME TypeOK, Pairs, NEW p \in Procs, SupStep(p)
  PROVE  Pairs'
<1> USE DEF TypeOK, Pairs, Pair, Statuses
<1>1. CASE SupSeesToken(p)
  BY <1>1 DEF SupSeesToken, children, owner, Alive
<1>2. CASE SupSendsTerm(p)
  BY <1>2 DEF SupSendsTerm, AfterTerm, owner, Alive
<1>3. CASE SupKills(p)
  BY <1>3 DEF SupKills, owner, Alive
<1>4. CASE SupExits(p)
  BY <1>4 DEF SupExits, children, owner
<1>5. QED BY <1>1, <1>2, <1>3, <1>4 DEF SupStep

LEMMA GroupTermPairs == ASSUME TypeOK, Pairs, GroupTerm PROVE Pairs'
<1> SUFFICES ASSUME NEW p \in Procs PROVE Pair(p)'
  BY DEF Pairs
<1> USE DEF TypeOK, Statuses
<1>1. Pair(p)
  BY DEF Pairs
<1>2. /\ sup'[p] = IF Running(p) THEN "exited" ELSE sup[p]
      /\ status'[p] = IF Running(p) THEN "term" ELSE status[p]
      /\ died'[p] = IF child'[p] = "dead" /\ Alive(p) THEN "term" ELSE died[p]
      /\ child'[p] \in AfterTerm(p)
      /\ grouped' /\ UNCHANGED <<early, sent, token>>
  BY DEF GroupTerm
<1>3. QED BY <1>1, <1>2 DEF Pair, AfterTerm, Alive, Running

\* What the owner can rely on while the children and the supervisors run.
LEMMA ProcFrame ==
  ASSUME TypeOK, Pairs, ProcStep
  PROVE  /\ UNCHANGED <<token, owner>>
         /\ \A p \in Procs :
              /\ sup'[p] = "none" <=> sup[p] = "none"
              /\ Running(p)' => Running(p)
              /\ ~Running(p) => sup'[p] = sup[p] /\ status'[p] = status[p]
              /\ sent'[p] # sent[p] => token[p]
<1> USE DEF TypeOK, Running, ProcStep
<1>1. CASE GroupTerm
  BY <1>1 DEF GroupTerm
<1>2. CASE PublishReady \/ SetPublished
  BY <1>2 DEF PublishReady, SetPublished, sups
<1>3. ASSUME NEW p \in Procs, SupStep(p)
      PROVE  /\ UNCHANGED <<token, owner>>
             /\ \A q \in Procs :
                  /\ sup'[q] = "none" <=> sup[q] = "none"
                  /\ Running(q)' => Running(q)
                  /\ ~Running(q) => sup'[q] = sup[q] /\ status'[q] = status[q]
                  /\ sent'[q] # sent[q] => token[q]
  BY <1>3 DEF SupStep, SupSeesToken, SupSendsTerm, SupKills, SupExits, Pairs, Pair
<1>4. ASSUME NEW p \in Procs, ChildStep(p) \/ KillLands(p)
      PROVE  UNCHANGED <<token, owner, sups>>
  BY <1>4 DEF ChildStep, KillLands, Boot, ChildEnds, HandlerEnds
<1>5. QED BY <1>1, <1>2, <1>3, <1>4 DEF sups

LEMMA ProcStepType == ASSUME TypeOK, ProcStep PROVE TypeOK'
<1> USE DEF TypeOK, Statuses, ProcStep
<1>1. CASE GroupTerm
  <2>1. child' \in [Procs -> {"none", "work", "last", "doomed", "dead"}]
        /\ grouped' = TRUE
        /\ UNCHANGED <<early, flag, sampled, sent, token, ready, owner>>
    BY <1>1 DEF GroupTerm
  <2>2. sup' \in [Procs -> {"none", "poll", "kill", "grace", "reap", "exited"}]
    BY <1>1 DEF GroupTerm
  <2>3. status' \in [Procs -> Statuses]
    BY <1>1 DEF GroupTerm
  <2>4. died' \in [Procs -> Statuses]
    BY <1>1 DEF GroupTerm
  <2>5. QED BY <2>1, <2>2, <2>3, <2>4 DEF owner, exits, mode
<1>2. CASE PublishReady \/ SetPublished
  <2>1. {flag', sampled', ready'} \subseteq BOOLEAN
    BY <1>2 DEF PublishReady, SetPublished
  <2>2. UNCHANGED <<child, died, early, sups, token, grouped, owner>>
    BY <1>2 DEF PublishReady, SetPublished
  <2>3. QED BY <2>1, <2>2 DEF sups, owner, exits, mode
<1>3. ASSUME NEW p \in Procs, SupStep(p) PROVE TypeOK'
  <2> USE DEF children, owner, exits, mode
  <2>1. CASE SupSeesToken(p)
    BY <2>1 DEF SupSeesToken
  <2>2. CASE SupSendsTerm(p)
    <3>1. sup' \in [Procs -> {"none", "poll", "kill", "grace", "reap", "exited"}]
          /\ sent' \in [Procs -> BOOLEAN]
          /\ UNCHANGED <<early, flag, sampled, status, token, ready, grouped, owner>>
      BY <2>2 DEF SupSendsTerm
    <3>2. PICK c \in AfterTerm(p) :
            /\ child' = [child EXCEPT ![p] = c]
            /\ died' = IF c = "dead" /\ Alive(p) THEN [died EXCEPT ![p] = "term"] ELSE died
      BY <2>2 DEF SupSendsTerm
    <3>3. c \in {"none", "boot", "work", "last", "doomed", "dead"}
      BY DEF AfterTerm
    <3>4. died' \in [Procs -> Statuses]
          /\ child' \in [Procs -> {"none", "boot", "work", "last", "doomed", "dead"}]
      BY <3>2, <3>3
    <3>5. QED BY <3>1, <3>4
  <2>3. CASE SupKills(p)
    BY <2>3 DEF SupKills
  <2>4. CASE SupExits(p)
    BY <2>4 DEF SupExits
  <2>5. QED BY <1>3, <2>1, <2>2, <2>3, <2>4 DEF SupStep
<1>4. ASSUME NEW p \in Procs, ChildStep(p) \/ KillLands(p) PROVE TypeOK'
  <2>1. {flag', sampled', ready'} \subseteq BOOLEAN
    BY <1>4 DEF ChildStep, KillLands, Boot, ChildEnds, HandlerEnds
  <2>2. child' \in [Procs -> {"none", "boot", "work", "last", "doomed", "dead"}]
    BY <1>4 DEF ChildStep, KillLands, Boot, ChildEnds, HandlerEnds
  <2>3. died' \in [Procs -> Statuses] /\ early' \subseteq Procs
    BY <1>4 DEF ChildStep, KillLands, Boot, ChildEnds, HandlerEnds
  <2>4. UNCHANGED <<sups, token, grouped, owner>>
    BY <1>4 DEF ChildStep, KillLands, Boot, ChildEnds, HandlerEnds
  <2>5. QED BY <2>1, <2>2, <2>3, <2>4 DEF sups, owner, exits, mode
<1>5. QED BY <1>1, <1>2, <1>3, <1>4

\* The owner's part of the invariant survives their steps: it only speaks of
\* supervisors that have ended, and of the ones started.
LEMMA ProcStepInv == ASSUME IInv, ProcStep PROVE IInv'
<1> USE DEF IInv, Inv
<1>1. TypeOK'
  BY ProcStepType
<1>2. Pairs'
  BY ChildStepPairs, SupStepPairs, GroupTermPairs
     DEF ProcStep, PublishReady, SetPublished, sups, owner, Pairs, Pair
<1>3. UNCHANGED <<token, stage, sub, at, todo, named, gone, wstat, counted,
                  bexit, cstat, terminating>>
  BY ProcFrame DEF owner, exits, mode
<1>4. \A p \in Procs :
        /\ sup'[p] = "none" <=> sup[p] = "none"
        /\ Running(p)' => Running(p)
        /\ ~Running(p) => sup'[p] = sup[p] /\ status'[p] = status[p]
        /\ sent'[p] # sent[p] => token[p]
  BY ProcFrame
<1>5. at \in Procs /\ Collector \in Procs /\ Jobs \subseteq Procs
      /\ named \subseteq Procs
  BY DEF TypeOK, Procs
<1>6. Places' /\ Tokens'
  BY <1>3 DEF Places, Tokens
<1>7. Unstarted'
  BY <1>3, <1>4, <1>5 DEF Unstarted, Places
<1>8. Waited'
  BY <1>3, <1>4, <1>5 DEF Waited, Places
<1>9. \A p \in Procs : Accounted(p) => Accounted(p)'
  BY <1>3, <1>4 DEF Accounted, Running
<1>10. Recorded'
  BY <1>3, <1>4, <1>9 DEF Recorded
<1>11. Handled'
  BY <1>3, <1>4, <1>5, <1>9 DEF Handled
<1>12. Cut'
  BY <1>3, <1>4, <1>5 DEF Cut, TypeOK
<1>13. Published'
  <2>1. CASE PublishReady \/ \E p \in Procs, d \in {"zero", "fail"} : HandlerEnds(p, d)
    BY <1>3, <2>1 DEF PublishReady, HandlerEnds, Published
  <2>2. CASE ~(PublishReady \/ \E p \in Procs, d \in {"zero", "fail"} : HandlerEnds(p, d))
    <3>1. UNCHANGED <<sampled, ready>>
      BY <2>2 DEF ProcStep, GroupTerm, SetPublished, SupStep, SupSeesToken,
             SupSendsTerm, SupKills, SupExits, ChildStep, KillLands, Boot,
             ChildEnds, children
    <3>2. QED BY <1>3, <3>1 DEF Published
  <2>3. QED BY <2>1, <2>2
<1>14. Strays'
  BY <1>3, <1>4 DEF Strays, Stray
<1>15. QED BY <1>1, <1>2, <1>6, <1>7, <1>8, <1>10, <1>11, <1>12, <1>13, <1>14

-----------------------------------------------------------------------------
(* The owner, procedure by procedure *)

Starting == StartMetrics \/ SkipMetrics \/ RecordMetrics \/ StartJob \/
            RecordJob \/ JobsStarted
Readying == ConsumeReady \/ ConsumeFails \/ ReadyPolls \/ ReadyDeadline \/
            ReadyStopped \/ ExitedUnready
Joining == WorkEnds \/ JoinJob \/ JobJoined \/ Joined
Asking == RequestStop \/ RequestFails \/ Requested
StoppingJobs == StopJob \/ JobStopped \/ JobsStopped
StoppingMetrics == StopMetrics \/ MetricsStopped \/ NoMetricsToStop
Waiting == PollAlive \/ PollDeadline \/ ReapSupervisor \/ RemoveToken \/ Spend
Leaving == RunEnds \/ ShellFails \/ ShellSignalled
OwnerMoves == Starting \/ Readying \/ Joining \/ Asking \/ StoppingJobs \/ StoppingMetrics \/ Waiting \/ Leaving

LEMMA OwnerActions == OwnerStep \/ ShellFails \/ ShellSignalled \/ Spend <=> OwnerMoves
BY DEF OwnerStep, OwnerMoves, Starting, Readying, Joining, Asking, StoppingJobs, StoppingMetrics, Waiting, Leaving

LEMMA OwnerStepType == ASSUME IInv, OwnerMoves PROVE TypeOK'
<1> USE DEF IInv, TypeOK, Inv, Places, Procs, Env, Goto, Launch, LeaveKnowing,
            AskToStop, JustWait, BeginStop, AfterMetrics, Main, Terminal,
            Statuses, children, sups, mode, exits
<1>1. CASE Starting
    BY <1>1 DEF Starting, StartMetrics, SkipMetrics, RecordMetrics, StartJob,
         RecordJob, JobsStarted
<1>2. CASE Readying
  <2>1. CASE ConsumeReady
        BY <2>1 DEF ConsumeReady
  <2>2. CASE ConsumeFails
        BY <2>2 DEF ConsumeFails
  <2>3. CASE ReadyPolls
        BY <2>3 DEF ReadyPolls
  <2>4. CASE ReadyDeadline
        BY <2>4 DEF ReadyDeadline
  <2>5. CASE ReadyStopped
        BY <2>5 DEF ReadyStopped
  <2>6. CASE ExitedUnready
        BY <2>6 DEF ExitedUnready
  <2>7. QED BY <1>2, <2>1, <2>2, <2>3, <2>4, <2>5, <2>6 DEF Readying
<1>3. CASE Joining
  <2>1. CASE WorkEnds
        BY <2>1 DEF WorkEnds
  <2>2. CASE JoinJob
        BY <2>2 DEF JoinJob
  <2>3. CASE JobJoined
    <3>1. bexit' \in BOOLEAN
            BY <2>3 DEF JobJoined
    <3>2. QED BY <2>3, <3>1 DEF JobJoined
  <2>4. CASE Joined
        BY <2>4 DEF Joined
  <2>5. QED BY <1>3, <2>1, <2>2, <2>3, <2>4 DEF Joining
<1>4. CASE Asking
  <2>1. CASE RequestStop
        BY <2>1 DEF RequestStop
  <2>2. CASE RequestFails
        BY <2>2 DEF RequestFails
  <2>3. CASE Requested
        BY <2>3 DEF Requested
  <2>4. QED BY <1>4, <2>1, <2>2, <2>3 DEF Asking
<1>5. CASE StoppingJobs
  <2>1. CASE StopJob
        BY <2>1 DEF StopJob
  <2>2. CASE JobStopped
    <3>1. bexit' \in BOOLEAN
            BY <2>2 DEF JobStopped
    <3>2. QED BY <2>2, <3>1 DEF JobStopped
  <2>3. CASE JobsStopped
        BY <2>3 DEF JobsStopped
  <2>4. QED BY <1>5, <2>1, <2>2, <2>3 DEF StoppingJobs
<1>6. CASE StoppingMetrics
  <2>1. CASE StopMetrics
        BY <2>1 DEF StopMetrics
  <2>2. CASE MetricsStopped
    <3>1. mexit' \in BOOLEAN
            BY <2>2 DEF MetricsStopped
    <3>2. /\ stage' \in Main \cup Terminal /\ sub' = "idle"
          /\ budget' \in {"unset", "open", "spent"} /\ cstat' \in {"zero", "fail"}
      BY <2>2 DEF MetricsStopped
    <3>3. todo' \subseteq named' \cup Jobs /\ named' \subseteq Procs /\ gone' \subseteq named'
      <4>1. named' \in {named, named \ {Collector}} /\ gone = {} /\ gone' = {}
        BY <2>2 DEF MetricsStopped
      <4>2. todo' \in {todo, named', named' \cap Jobs}
        BY <2>2 DEF MetricsStopped
      <4>3. todo = {}
        BY <2>2 DEF MetricsStopped
      <4>4. QED BY <4>1, <4>2, <4>3
    <3>4. UNCHANGED <<Env, token, ready, at, wstat, why, bexit, terminating>>
      BY <2>2 DEF MetricsStopped
    <3>5. QED BY <3>1, <3>2, <3>3, <3>4
  <2>3. CASE NoMetricsToStop
        BY <2>3 DEF NoMetricsToStop
  <2>4. QED BY <1>6, <2>1, <2>2, <2>3 DEF StoppingMetrics
<1>7. CASE Waiting
  <2>1. CASE PollAlive
        BY <2>1 DEF PollAlive
  <2>2. CASE PollDeadline
        BY <2>2 DEF PollDeadline
  <2>3. CASE ReapSupervisor
        BY <2>3 DEF ReapSupervisor
  <2>4. CASE RemoveToken
    <3>1. token' \in [Procs -> BOOLEAN]
            BY <2>4 DEF RemoveToken
    <3>2. QED BY <2>4, <3>1 DEF RemoveToken
  <2>5. CASE Spend
        BY <2>5 DEF Spend
  <2>6. QED BY <1>7, <2>1, <2>2, <2>3, <2>4, <2>5 DEF Waiting
<1>8. CASE Leaving
    BY <1>8, ZenonT(30) DEF Leaving, RunEnds, ShellFails, ShellSignalled
<1>9. QED BY <1>1, <1>2, <1>3, <1>4, <1>5, <1>6, <1>7, <1>8 DEF OwnerMoves

\* The owner does not touch what is running, and takes a token back only when
\* its supervisor is gone.
LEMMA OwnerFrame ==
  ASSUME IInv, OwnerMoves, ~StartMetrics, ~StartJob
  PROVE  /\ UNCHANGED Env
         /\ \A p \in Procs : token[p] /\ ~token'[p] => ~Running(p)
<1>1. UNCHANGED Env /\ \/ UNCHANGED token
                       \/ \E p \in Procs : token' = [token EXCEPT ![p] = TRUE]
                       \/ RemoveToken
    BY DEF OwnerMoves, Starting, Readying, Joining, Asking, StoppingJobs,
         StoppingMetrics, Waiting, Leaving, IInv, TypeOK, Procs, AskToStop,
         JustWait, SkipMetrics, RecordMetrics, RecordJob, JobsStarted,
         ConsumeReady, ConsumeFails, ReadyPolls, ReadyDeadline, ReadyStopped,
         ExitedUnready, WorkEnds, JoinJob, JobJoined, Joined, RequestStop,
         RequestFails, Requested, StopJob, JobStopped, JobsStopped,
         StopMetrics, MetricsStopped, NoMetricsToStop, PollAlive,
         PollDeadline, ReapSupervisor, RemoveToken, Spend, RunEnds,
         ShellFails, ShellSignalled
<1>2. CASE RemoveToken
  BY <1>1, <1>2 DEF RemoveToken, IInv, Inv, TypeOK, Waited
<1>3. QED BY <1>1, <1>2 DEF IInv, TypeOK

LEMMA OwnerStepPairs == ASSUME IInv, OwnerMoves PROVE Pairs'
<1> USE DEF IInv, Inv, Pairs, Pair
<1>1. CASE StartMetrics
  BY <1>1 DEF StartMetrics, Launch, Unstarted, TypeOK
<1>2. CASE StartJob
  BY <1>2 DEF StartJob, Launch, Unstarted, TypeOK
<1>3. CASE ~StartMetrics /\ ~StartJob
  BY <1>3, OwnerFrame, OwnerStepType DEF Env, children, sups, Running, TypeOK
<1>4. QED BY <1>1, <1>2, <1>3

LEMMA OwnerStepPlaces == ASSUME IInv, OwnerMoves PROVE (Places /\ Unstarted)'
<1> USE CollectorAssumption DEF IInv, Inv, TypeOK, Procs, Env, Goto, Launch,
            LeaveKnowing, AskToStop, JustWait, BeginStop, AfterMetrics, Main,
            Terminal, Stopping, Running, Accounted, children, sups, mode,
            exits, Places, Unstarted
<1>1. CASE Starting
    BY <1>1 DEF Starting, StartMetrics, SkipMetrics, RecordMetrics, StartJob,
         RecordJob, JobsStarted
<1>2. CASE Readying
  <2>1. CASE ConsumeReady
        BY <2>1 DEF ConsumeReady
  <2>2. CASE ConsumeFails
        BY <2>2 DEF ConsumeFails
  <2>3. CASE ReadyPolls
        BY <2>3 DEF ReadyPolls
  <2>4. CASE ReadyDeadline
        BY <2>4 DEF ReadyDeadline
  <2>5. CASE ReadyStopped
        BY <2>5 DEF ReadyStopped
  <2>6. CASE ExitedUnready
        BY <2>6 DEF ExitedUnready
  <2>7. QED BY <1>2, <2>1, <2>2, <2>3, <2>4, <2>5, <2>6 DEF Readying
<1>3. CASE Joining
    BY <1>3 DEF Joining, WorkEnds, JoinJob, JobJoined, Joined
<1>4. CASE Asking
    BY <1>4 DEF Asking, RequestStop, RequestFails, Requested
<1>5. CASE StoppingJobs
    BY <1>5 DEF StoppingJobs, StopJob, JobStopped, JobsStopped
<1>6. CASE StoppingMetrics
    BY <1>6 DEF StoppingMetrics, StopMetrics, MetricsStopped, NoMetricsToStop
<1>7. CASE Waiting
    BY <1>7 DEF Waiting, PollAlive, PollDeadline, ReapSupervisor, RemoveToken,
         Spend
<1>8. CASE Leaving
    BY <1>8 DEF Leaving, RunEnds, ShellFails, ShellSignalled
<1>9. QED BY <1>1, <1>2, <1>3, <1>4, <1>5, <1>6, <1>7, <1>8 DEF OwnerMoves

LEMMA OwnerStepWaited == ASSUME IInv, OwnerMoves PROVE Waited'
<1> USE CollectorAssumption DEF IInv, Inv, TypeOK, Procs, Env, Goto, Launch,
            LeaveKnowing, AskToStop, JustWait, BeginStop, AfterMetrics, Main,
            Terminal, Stopping, Running, Accounted, children, sups, mode,
            exits, Places, Unstarted, Waited, Tokens
<1>1. CASE Starting
    BY <1>1 DEF Starting, StartMetrics, SkipMetrics, RecordMetrics, StartJob,
         RecordJob, JobsStarted
<1>2. CASE Readying
    BY <1>2 DEF Readying, ConsumeReady, ConsumeFails, ReadyPolls,
         ReadyDeadline, ReadyStopped, ExitedUnready
<1>3. CASE Joining
    BY <1>3 DEF Joining, WorkEnds, JoinJob, JobJoined, Joined
<1>4. CASE Asking
    BY <1>4 DEF Asking, RequestStop, RequestFails, Requested
<1>5. CASE StoppingJobs
    BY <1>5 DEF StoppingJobs, StopJob, JobStopped, JobsStopped
<1>6. CASE StoppingMetrics
    BY <1>6 DEF StoppingMetrics, StopMetrics, MetricsStopped, NoMetricsToStop
<1>7. CASE Waiting
    BY <1>7 DEF Waiting, PollAlive, PollDeadline, ReapSupervisor, RemoveToken,
         Spend
<1>8. CASE Leaving
    BY <1>8 DEF Leaving, RunEnds, ShellFails, ShellSignalled
<1>9. QED BY <1>1, <1>2, <1>3, <1>4, <1>5, <1>6, <1>7, <1>8 DEF OwnerMoves

LEMMA OwnerStepTokens == ASSUME IInv, OwnerMoves PROVE Tokens'
<1> USE CollectorAssumption DEF IInv, Inv, TypeOK, Procs, Env, Goto, Launch,
            LeaveKnowing, AskToStop, JustWait, BeginStop, AfterMetrics, Main,
            Terminal, Stopping, Running, Accounted, children, sups, mode,
            exits, Places, Unstarted, Waited, Tokens, Handled
<1>1. CASE Starting
    BY <1>1 DEF Starting, StartMetrics, SkipMetrics, RecordMetrics, StartJob,
         RecordJob, JobsStarted
<1>2. CASE Readying
  <2>1. CASE ConsumeReady
        BY <2>1 DEF ConsumeReady
  <2>2. CASE ConsumeFails
        BY <2>2 DEF ConsumeFails
  <2>3. CASE ReadyPolls
        BY <2>3 DEF ReadyPolls
  <2>4. CASE ReadyDeadline
        BY <2>4 DEF ReadyDeadline
  <2>5. CASE ReadyStopped
        BY <2>5 DEF ReadyStopped
  <2>6. CASE ExitedUnready
        BY <2>6 DEF ExitedUnready
  <2>7. QED BY <1>2, <2>1, <2>2, <2>3, <2>4, <2>5, <2>6 DEF Readying
<1>3. CASE Joining
    BY <1>3 DEF Joining, WorkEnds, JoinJob, JobJoined, Joined
<1>4. CASE Asking
    BY <1>4 DEF Asking, RequestStop, RequestFails, Requested
<1>5. CASE StoppingJobs
    BY <1>5 DEF StoppingJobs, StopJob, JobStopped, JobsStopped
<1>6. CASE StoppingMetrics
    BY <1>6 DEF StoppingMetrics, StopMetrics, MetricsStopped, NoMetricsToStop
<1>7. CASE Waiting
    BY <1>7 DEF Waiting, PollAlive, PollDeadline, ReapSupervisor, RemoveToken,
         Spend
<1>8. CASE Leaving
    BY <1>8 DEF Leaving, RunEnds, ShellFails, ShellSignalled
<1>9. QED BY <1>1, <1>2, <1>3, <1>4, <1>5, <1>6, <1>7, <1>8 DEF OwnerMoves

LEMMA OwnerStepRecorded == ASSUME IInv, OwnerMoves PROVE Recorded'
<1> USE CollectorAssumption DEF IInv, Inv, TypeOK, Procs, Env, Goto, Launch,
            LeaveKnowing, AskToStop, JustWait, BeginStop, AfterMetrics, Main,
            Terminal, Stopping, Running, Accounted, children, sups, mode,
            exits, Places, Unstarted, Waited, Tokens, Handled, Recorded
<1>1. CASE Starting
    BY <1>1 DEF Starting, StartMetrics, SkipMetrics, RecordMetrics, StartJob,
         RecordJob, JobsStarted
<1>2. CASE Readying
    BY <1>2, ZenonT(30) DEF Readying, ConsumeReady, ConsumeFails, ReadyPolls,
         ReadyDeadline, ReadyStopped, ExitedUnready
<1>3. CASE Joining
    BY <1>3 DEF Joining, WorkEnds, JoinJob, JobJoined, Joined
<1>4. CASE Asking
    BY <1>4 DEF Asking, RequestStop, RequestFails, Requested
<1>5. CASE StoppingJobs
    BY <1>5 DEF StoppingJobs, StopJob, JobStopped, JobsStopped
<1>6. CASE StoppingMetrics
    BY <1>6 DEF StoppingMetrics, StopMetrics, MetricsStopped, NoMetricsToStop
<1>7. CASE Waiting
    BY <1>7 DEF Waiting, PollAlive, PollDeadline, ReapSupervisor, RemoveToken,
         Spend
<1>8. CASE Leaving
    BY <1>8 DEF Leaving, RunEnds, ShellFails, ShellSignalled
<1>9. QED BY <1>1, <1>2, <1>3, <1>4, <1>5, <1>6, <1>7, <1>8 DEF OwnerMoves

LEMMA OwnerStepHandled == ASSUME IInv, OwnerMoves PROVE Handled'
<1> USE CollectorAssumption DEF IInv, Inv, TypeOK, Procs, Env, Goto, Launch,
            LeaveKnowing, AskToStop, JustWait, BeginStop, AfterMetrics, Main,
            Terminal, Stopping, Running, Accounted, children, sups, mode,
            exits, Places, Unstarted, Waited, Tokens, Recorded, Handled
<1>1. CASE Starting
    BY <1>1 DEF Starting, StartMetrics, SkipMetrics, RecordMetrics, StartJob,
         RecordJob, JobsStarted
<1>2. CASE Readying
    BY <1>2 DEF Readying, ConsumeReady, ConsumeFails, ReadyPolls,
         ReadyDeadline, ReadyStopped, ExitedUnready
<1>3. CASE Joining
  <2>1. CASE WorkEnds
        BY <2>1 DEF WorkEnds
  <2>2. CASE JoinJob
        BY <2>2 DEF JoinJob
  <2>3. CASE JobJoined
        BY <2>3 DEF JobJoined
  <2>4. CASE Joined
        BY <2>4 DEF Joined
  <2>5. QED BY <1>3, <2>1, <2>2, <2>3, <2>4 DEF Joining
<1>4. CASE Asking
    BY <1>4 DEF Asking, RequestStop, RequestFails, Requested
<1>5. CASE StoppingJobs
    BY <1>5 DEF StoppingJobs, StopJob, JobStopped, JobsStopped
<1>6. CASE StoppingMetrics
    BY <1>6 DEF StoppingMetrics, StopMetrics, MetricsStopped, NoMetricsToStop
<1>7. CASE Waiting
    BY <1>7 DEF Waiting, PollAlive, PollDeadline, ReapSupervisor, RemoveToken,
         Spend
<1>8. CASE Leaving
    BY <1>8 DEF Leaving, RunEnds, ShellFails, ShellSignalled
<1>9. QED BY <1>1, <1>2, <1>3, <1>4, <1>5, <1>6, <1>7, <1>8 DEF OwnerMoves

LEMMA OwnerStepCut == ASSUME IInv, OwnerMoves PROVE Cut'
<1> USE CollectorAssumption DEF IInv, Inv, TypeOK, Procs, Env, Goto, Launch,
            LeaveKnowing, AskToStop, JustWait, BeginStop, AfterMetrics, Main,
            Terminal, Stopping, Running, Accounted, children, sups, mode,
            exits, Places, Unstarted, Waited, Tokens, Cut
<1>1. CASE Starting
    BY <1>1, ZenonT(30) DEF Starting, StartMetrics, SkipMetrics, RecordMetrics, StartJob,
         RecordJob, JobsStarted
<1>2. CASE Readying
    BY <1>2, ZenonT(30) DEF Readying, ConsumeReady, ConsumeFails, ReadyPolls,
         ReadyDeadline, ReadyStopped, ExitedUnready
<1>3. CASE Joining
  <2>1. CASE WorkEnds
        BY <2>1 DEF WorkEnds
  <2>2. CASE JoinJob
        BY <2>2 DEF JoinJob
  <2>3. CASE JobJoined
        BY <2>3 DEF JobJoined
  <2>4. CASE Joined
        BY <2>4 DEF Joined
  <2>5. QED BY <1>3, <2>1, <2>2, <2>3, <2>4 DEF Joining
<1>4. CASE Asking
    BY <1>4, ZenonT(30) DEF Asking, RequestStop, RequestFails, Requested
<1>5. CASE StoppingJobs
    BY <1>5, ZenonT(30) DEF StoppingJobs, StopJob, JobStopped, JobsStopped
<1>6. CASE StoppingMetrics
    BY <1>6, ZenonT(30) DEF StoppingMetrics, StopMetrics, MetricsStopped, NoMetricsToStop
<1>7. CASE Waiting
    BY <1>7, ZenonT(30) DEF Waiting, PollAlive, PollDeadline, ReapSupervisor, RemoveToken,
         Spend
<1>8. CASE Leaving
    BY <1>8 DEF Leaving, RunEnds, ShellFails, ShellSignalled
<1>9. QED BY <1>1, <1>2, <1>3, <1>4, <1>5, <1>6, <1>7, <1>8 DEF OwnerMoves

LEMMA OwnerStepPublished == ASSUME IInv, OwnerMoves PROVE Published'
<1> USE CollectorAssumption DEF IInv, Inv, TypeOK, Procs, Env, Goto, Launch,
            LeaveKnowing, AskToStop, JustWait, BeginStop, AfterMetrics, Main,
            Terminal, Stopping, Running, Accounted, children, sups, mode,
            exits, Places, Unstarted, Published
<1>1. CASE Starting
    BY <1>1 DEF Starting, StartMetrics, SkipMetrics, RecordMetrics, StartJob,
         RecordJob, JobsStarted
<1>2. CASE Readying
    BY <1>2 DEF Readying, ConsumeReady, ConsumeFails, ReadyPolls,
         ReadyDeadline, ReadyStopped, ExitedUnready
<1>3. CASE Joining
    BY <1>3 DEF Joining, WorkEnds, JoinJob, JobJoined, Joined
<1>4. CASE Asking
    BY <1>4 DEF Asking, RequestStop, RequestFails, Requested
<1>5. CASE StoppingJobs
    BY <1>5 DEF StoppingJobs, StopJob, JobStopped, JobsStopped
<1>6. CASE StoppingMetrics
    BY <1>6 DEF StoppingMetrics, StopMetrics, MetricsStopped, NoMetricsToStop
<1>7. CASE Waiting
    BY <1>7 DEF Waiting, PollAlive, PollDeadline, ReapSupervisor, RemoveToken,
         Spend
<1>8. CASE Leaving
    BY <1>8 DEF Leaving, RunEnds, ShellFails, ShellSignalled
<1>9. QED BY <1>1, <1>2, <1>3, <1>4, <1>5, <1>6, <1>7, <1>8 DEF OwnerMoves

LEMMA OwnerStepStrays == ASSUME IInv, OwnerMoves PROVE Strays'
<1> USE CollectorAssumption DEF IInv, Inv, TypeOK, Procs, Env, Goto, Launch,
            LeaveKnowing, AskToStop, JustWait, BeginStop, AfterMetrics, Main,
            Terminal, Stopping, Running, Accounted, children, sups, mode,
            exits, Places, Unstarted, Waited, Recorded, Strays, Stray
<1>1. CASE Starting
    BY <1>1 DEF Starting, StartMetrics, SkipMetrics, RecordMetrics, StartJob,
         RecordJob, JobsStarted
<1>2. CASE Readying
    BY <1>2, ZenonT(30) DEF Readying, ConsumeReady, ConsumeFails, ReadyPolls,
         ReadyDeadline, ReadyStopped, ExitedUnready
<1>3. CASE Joining
    BY <1>3 DEF Joining, WorkEnds, JoinJob, JobJoined, Joined
<1>4. CASE Asking
    BY <1>4 DEF Asking, RequestStop, RequestFails, Requested
<1>5. CASE StoppingJobs
    BY <1>5 DEF StoppingJobs, StopJob, JobStopped, JobsStopped
<1>6. CASE StoppingMetrics
    BY <1>6 DEF StoppingMetrics, StopMetrics, MetricsStopped, NoMetricsToStop
<1>7. CASE Waiting
    BY <1>7 DEF Waiting, PollAlive, PollDeadline, ReapSupervisor, RemoveToken,
         Spend
<1>8. CASE Leaving
    BY <1>8 DEF Leaving, RunEnds, ShellFails, ShellSignalled
<1>9. QED BY <1>1, <1>2, <1>3, <1>4, <1>5, <1>6, <1>7, <1>8 DEF OwnerMoves

LEMMA OwnerStepInv == ASSUME IInv, OwnerMoves PROVE IInv'
BY OwnerStepType, OwnerStepPairs, OwnerStepPlaces, OwnerStepWaited, OwnerStepTokens,
   OwnerStepRecorded, OwnerStepHandled, OwnerStepCut, OwnerStepPublished,
   OwnerStepStrays DEF IInv, Inv

\* The invariant every theorem below follows from.
LEMMA InductiveInv == Spec => []IInv
<1>1. ASSUME IInv, [Next]_vars PROVE IInv'
  <2>1. CASE Next
    BY <1>1, <2>1, ProcStepInv, OwnerStepInv, OwnerActions DEF Next, ProcStep
  <2>2. CASE UNCHANGED vars
    <3>1. UNCHANGED <<child, died, early, flag, sampled, sup, sent, status, token,
                      ready, grouped, stage, sub, at, todo, named, gone, wstat,
                      why, budget, mexit, bexit, cstat, terminating, counted, joins>>
      BY <2>2 DEF vars, children, sups, owner, exits, mode
    <3>2. QED
      BY <1>1, <3>1
         DEF IInv, TypeOK, Inv, Pairs, Pair, Places, Unstarted, Waited, Tokens,
             Recorded, Accounted, Handled, Cut, Published, Strays, Stray, Running
  <2>3. QED BY <1>1, <2>1, <2>2
<1>2. QED BY InitInv, <1>1, PTL DEF Spec

-----------------------------------------------------------------------------
(* Theorems *)

\* Every variable keeps its type, for any number of background workloads.
THEOREM OwnedTypes == Spec => []TypeOK
BY InductiveInv, PTL DEF IInv

\* The supervisors report a clean stop only for a child that a delivered TERM
\* has ended, whoever else sends signals and whenever the token was made.
THEOREM ZeroIsHonest == Spec => []HonestZero
<1>1. IInv => HonestZero
  BY DEF IInv, Inv, Pairs, Pair, HonestZero
<1>2. QED BY InductiveInv, <1>1, PTL

\* The owner removes a stop token only after the supervisor it was made for,
\* also when it gives up waiting.
THEOREM StopIsKept == Spec => StopNeverLost
<1>1. IInv /\ [Next]_vars
        => [\A p \in Procs : token[p] /\ ~token'[p] => ~Running(p)]_vars
  <2>1. ASSUME IInv, Next
        PROVE  \A p \in Procs : token[p] /\ ~token'[p] => ~Running(p)
    <3>1. CASE ProcStep
      BY <2>1, <3>1, ProcFrame DEF IInv, Inv
    <3>2. CASE OwnerMoves /\ ~StartMetrics /\ ~StartJob
      BY <2>1, <3>2, OwnerFrame
    <3>3. CASE StartMetrics \/ StartJob
      BY <3>3 DEF StartMetrics, StartJob, Launch
    <3>4. QED BY <2>1, <3>1, <3>2, <3>3, OwnerActions DEF Next, ProcStep
  <2>2. QED BY <2>1
<1>2. QED BY InductiveInv, <1>1, PTL DEF Spec, StopNeverLost

\* The owner says that the collector ended before its first sample only of one
\* that has published none.
THEOREM ReadinessIsTrue == Spec => ReadinessFailureIsTrue
<1>1. ASSUME IInv, Next PROVE why = "none" /\ why' = "exited" => ~sampled
  <2>1. CASE ExitedUnready
    BY <1>1, <2>1 DEF ExitedUnready, IInv, Inv, Published
  <2>2. CASE OwnerMoves /\ ~ExitedUnready
    BY <2>2 DEF OwnerMoves, Starting, Readying, Joining, Asking, StoppingJobs,
           StoppingMetrics, Waiting, Leaving, StartMetrics, SkipMetrics,
           RecordMetrics, StartJob, RecordJob, JobsStarted, ConsumeReady,
           ConsumeFails, ReadyPolls, ReadyDeadline, ReadyStopped, WorkEnds,
           JoinJob, JobJoined, Joined, RequestStop, RequestFails, Requested,
           StopJob, JobStopped, JobsStopped, StopMetrics, MetricsStopped,
           NoMetricsToStop, PollAlive, PollDeadline, ReapSupervisor,
           RemoveToken, Spend, RunEnds, ShellFails, ShellSignalled, Launch
  <2>3. CASE ProcStep
    BY <1>1, <2>3, ProcFrame DEF IInv, Inv, owner
  <2>4. QED BY <1>1, <2>1, <2>2, <2>3, OwnerActions DEF Next, ProcStep
<1>2. IInv /\ [Next]_vars => [why = "none" /\ why' = "exited" => ~sampled]_vars
  BY <1>1
<1>3. QED BY InductiveInv, <1>2, PTL DEF Spec, ReadinessFailureIsTrue

\* A run that reaches its end let its fixed-count collector finish by itself.
THEOREM FixedCountRunsOut == Spec => []SampledRunsOut
<1>1. IInv => SampledRunsOut
  BY CollectorAssumption
     DEF IInv, Inv, TypeOK, Procs, Main, Handled, Accounted, Cut, Pairs, Pair,
         SampledRunsOut
<1>2. QED BY InductiveInv, <1>1, PTL

\* No failure of a child is lost on the way to the end of a run, for any number
\* of workloads, joined or stopped, and also when the group received a TERM.
THEOREM FailuresCount == Spec => []ChildFailureCounts
<1>1. IInv => ChildFailureCounts
  BY CollectorAssumption
     DEF IInv, Inv, TypeOK, Procs, Handled, Accounted, Pairs, Pair, Statuses,
         ChildFailureCounts
<1>2. QED BY InductiveInv, <1>1, PTL

\* After phase 8 nothing the run started is left, and after a successful
\* clean-up at most the one process that a signal kept from being recorded.
THEOREM ChildrenEnd == Spec => []ChildrenEndWithRun
<1>1. IInv => CoolMeansQuiet
  <2>1. SUFFICES ASSUME IInv, stage = "cool", ~grouped, NEW p \in Procs
                 PROVE  ~Alive(p) /\ ~Running(p) /\ ~token[p]
    BY DEF CoolMeansQuiet
  <2>2. sup[p] \in {"none", "exited"}
    BY <2>1 DEF IInv, Inv, Handled, Accounted, Procs
  <2>3. ~token[p]
    BY <2>1 DEF IInv, Inv, Tokens, Main
  <2>4. QED BY <2>1, <2>2, <2>3 DEF IInv, Inv, Pairs, Pair, Alive, Running
<1>2. IInv => CleanupIsComplete
  <2>1. SUFFICES ASSUME IInv, stage = "done", cstat = "zero", ~grouped
                 PROVE  LET left == {p \in Procs : Alive(p)}
                        IN  left = {} \/ (terminating /\ Cardinality(left) = 1)
    BY DEF CleanupIsComplete
  <2> DEFINE left == {p \in Procs : Alive(p)}
  <2>2. \A p \in left : Stray(p)
    BY <2>1 DEF IInv, Inv, Pairs, Pair, Alive, Running, Handled, Stray
  <2>3. \A p \in left : terminating /\ left = {p}
    BY <2>1, <2>2 DEF IInv, Inv, Strays, Terminal
  <2>4. ASSUME left # {} PROVE terminating /\ Cardinality(left) = 1
    <3>1. PICK p \in left : TRUE
      BY <2>4
    <3>2. QED BY <2>3, <3>1, FS_Singleton
  <2>5. QED BY <2>4
<1>3. QED BY InductiveInv, <1>1, <1>2, PTL DEF ChildrenEndWithRun
=============================================================================
