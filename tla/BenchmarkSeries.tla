-------------------------- MODULE BenchmarkSeries --------------------------
(***************************************************************************)
(* One benchmark series: the declared trials of one subject, run one after *)
(* the other, each recorded on disk as it ends, and closed by a result     *)
(* that a verifier rebuilds from the files (internal/benchmarkrun,         *)
(* internal/benchmarkartifact).  The module holds the operations of an     *)
(* Execution for a set of series (the arms of an A/B run); who calls them, *)
(* and in which order, is module BenchmarkAB.                              *)
(*                                                                         *)
(* Every check of an identity (the engine binary, the scenario pack, the   *)
(* retained toolchain snapshot) reads bytes that somebody else can change  *)
(* and change back between any two steps: that is `altered'.               *)
(***************************************************************************)
EXTENDS Integers, Sequences, FiniteSets

CONSTANTS
  Arms,          \* the series of this process
  N,             \* plan.Trials
  MinValid,      \* plan.MinValidTrials
  Envs,          \* environment digests a passed trial can bring
  SharedInputs,  \* inputs every series watches: engine binary, scenario pack
  None,
  MaxUpsets      \* bound: changes of watched bytes, failing writes and calls

ASSUME SeriesAssumption ==
  /\ N \in Nat \ {0}
  /\ MinValid \in 1..N
  /\ None \notin Envs
  /\ MaxUpsets \in Nat

VARIABLES
  at,        \* what the execution of a series is doing
  trials,    \* series.Trials
  tally,     \* series.TrialsValid, TrialsFailed, TrialsInvalid
  expected,  \* expectedEnvironment
  status,    \* series.Status once Finish evaluated it
  halted,
  drifted,   \* series.Reasons names a change of a protocol identity
  returned,  \* what the last ExecuteTrial gave its caller
  disk,      \* the files of the series directory
  altered,   \* the identities whose bytes differ from the captured ones
  upsets     \* how many changes and failures there were

series == <<at, trials, tally, expected, status, halted, drifted, returned>>
seriesVars == <<series, disk, altered, upsets>>

-----------------------------------------------------------------------------
(* Values.  A trial keeps what the verifier can tell apart.  `evidence' is   *)
(* what the phase journal and the linked run support together: a failed     *)
(* trial (failed journal, failed verdict), a trial that is passed or        *)
(* invalid (a journal that parses, a verdict that is not failed), or none.  *)

Trial(n, s, ev, e) == [number |-> n, status |-> s, evidence |-> ev, env |-> e]

Trials ==
  [number : 0..N, status : {"", "passed", "failed", "invalid"},
   evidence : {"passed", "failed", "none"}, env : Envs \cup {None}]

Tally(v, f, i) == [valid |-> v, failed |-> f, invalid |-> i]

\* What result.json can hold.
Results ==
  [status : {"passed", "failed", "invalid", "inconclusive"}, trials : Seq(Trials),
   tally : [valid : Nat, failed : Nat, invalid : Nat],
   environment : Envs \cup {None}, drift : BOOLEAN]

\* What is not there is told apart from what a caller returns and from every file.
ASSUME NoneAssumption ==
  None \notin {"ok", "error"} /\ None \notin Trials /\ None \notin Results

\* The identities: one for each shared input, one copy of the toolchain in
\* each series directory, and the installation each arm runs from.
Shared == SharedInputs \X {"all"}
Identities == Shared \cup ({"snapshot", "original"} \X Arms)

Count(ts, s) == Cardinality({i \in DOMAIN ts : ts[i].status = s})

\* EvaluateSeries.  The coefficient of variation of at least two values is a
\* free choice between a passed and an inconclusive series.
Evaluate(ts) ==
  IF Count(ts, "") > 0 THEN {"invalid"}
  ELSE IF Count(ts, "failed") > 0 THEN {"failed"}
  ELSE IF Len(ts) # N \/ Count(ts, "passed") < MinValid THEN {"invalid"}
  ELSE IF Count(ts, "passed") = 1 THEN {"passed"}
  ELSE {"passed", "inconclusive"}

EmptyDir ==
  [trials |-> [i \in 1..N |-> None], environment |-> None, result |-> None,
   text |-> FALSE]

-----------------------------------------------------------------------------
(* The verifier of a series directory (benchmarkartifact.Verify).           *)

TrialVerifies(ts, i, env) ==
  LET t == ts[i]
  IN /\ t.number = i
     /\ t.status \in {"passed", "failed", "invalid"}
     /\ t.evidence = IF t.status = "failed" THEN "failed" ELSE "passed"
     /\ t.status = "passed" => t.env = env /\ env # None

\* The directories trials/ and driver-logs/ exist only after a first trial.
Verifies(a) ==
  LET d == disk[a]
      r == d.result
  IN /\ r # None
     /\ d.text
     /\ r.trials # <<>>
     /\ \A i \in 1..N :
          d.trials[i] = IF i \in DOMAIN r.trials THEN r.trials[i] ELSE None
     /\ \A i \in DOMAIN r.trials : TrialVerifies(r.trials, i, r.environment)
     /\ r.tally = Tally(Count(r.trials, "passed"), Count(r.trials, "failed"),
                        Count(r.trials, "invalid"))
     /\ r.status \in Evaluate(r.trials)
     /\ d.environment = r.environment
     /\ <<"snapshot", a>> \notin altered

-----------------------------------------------------------------------------
Init ==
  /\ at = [a \in Arms |-> "absent"]
  /\ trials = [a \in Arms |-> <<>>]
  /\ tally = [a \in Arms |-> Tally(0, 0, 0)]
  /\ expected = [a \in Arms |-> None]
  /\ status = [a \in Arms |-> None]
  /\ halted = [a \in Arms |-> FALSE]
  /\ drifted = [a \in Arms |-> FALSE]
  /\ returned = [a \in Arms |-> None]
  /\ disk = [a \in Arms |-> EmptyDir]
  /\ altered = {}
  /\ upsets = 0

Upset == upsets < MaxUpsets /\ upsets' = upsets + 1
NoUpset == UNCHANGED upsets

\* Start: everything is staged and the directory appears by one rename, or
\* nothing appears under its name.
Start(a) ==
  /\ at[a] = "absent"
  /\ at' = [at EXCEPT ![a] = "idle"]
  /\ UNCHANGED <<trials, tally, expected, status, halted, drifted, returned,
                 disk, altered, upsets>>

StartFails(a) ==
  /\ at[a] = "absent"
  /\ at' = [at EXCEPT ![a] = "refused"]
  /\ UNCHANGED <<trials, tally, expected, status, halted, drifted, returned,
                 disk, altered, upsets>>

\* Every trial on disk at an index of `written' becomes the one in ts.
Rewritten(d, ts, written) ==
  [d EXCEPT !.trials = [i \in 1..N |-> IF i \in written THEN ts[i] ELSE @[i]]]

\* A voiding that only withdraws what was valid.
VoidedValid(ts) ==
  [i \in DOMAIN ts |-> IF ts[i].status = "passed"
                         THEN [ts[i] EXCEPT !.status = "invalid"] ELSE ts[i]]

Voided(ts) == [i \in DOMAIN ts |-> [ts[i] EXCEPT !.status = "invalid"]]

\* An invalidation that lets the caller go on.
InvalidateAndGoOn(a, ts) ==
  /\ drifted' = [drifted EXCEPT ![a] = TRUE]
  /\ expected' = [expected EXCEPT ![a] = None]
  /\ trials' = [trials EXCEPT ![a] = Voided(ts)]
  /\ tally' = [tally EXCEPT ![a] = Tally(0, 0, Len(ts))]
  /\ disk' = [disk EXCEPT ![a] = Rewritten(@, Voided(ts), DOMAIN ts)]
  /\ UNCHANGED <<halted, upsets>>

\* invalidateForProtocolIdentityDrift, with ts as the recorded trials: a write
\* that fails (or a crash before it) leaves the older file.
Invalidate(a, ts) ==
  /\ halted' = [halted EXCEPT ![a] = TRUE]
  /\ drifted' = [drifted EXCEPT ![a] = TRUE]
  /\ expected' = [expected EXCEPT ![a] = None]
  /\ trials' = [trials EXCEPT ![a] = Voided(ts)]
  /\ tally' = [tally EXCEPT ![a] = Tally(0, 0, Len(ts))]
  /\ \/ /\ disk' = [disk EXCEPT ![a] = Rewritten(@, Voided(ts), DOMAIN ts)]
        /\ NoUpset
     \/ /\ Upset
        /\ \E written \in (SUBSET DOMAIN ts) \ {DOMAIN ts} :
             disk' = [disk EXCEPT ![a] = Rewritten(@, Voided(ts), written)]

\* A judgement that reads the environment and compares it with nothing.
JudgedAlone(a, t, readable) ==
  IF t.status = "passed" /\ ~readable
    THEN [t EXCEPT !.status = "invalid"] ELSE t

\* A trial that passed, but whose environment cannot be derived again or is
\* not the one of the first passed trial, is an invalid attempt.
Judged(a, t, readable) ==
  IF t.status = "passed" /\ (~readable \/ expected[a] \notin {None, t.env})
    THEN [t EXCEPT !.status = "invalid"] ELSE t

\* A count that knows valid trials and all others.
CountedValid(c, s) ==
  IF s = "passed" THEN [c EXCEPT !.valid = @ + 1]
  ELSE [c EXCEPT !.invalid = @ + 1]

Counted(c, s) ==
  CASE s = "passed" -> [c EXCEPT !.valid = @ + 1]
    [] s = "failed" -> [c EXCEPT !.failed = @ + 1]
    [] OTHER -> [c EXCEPT !.invalid = @ + 1]

\* ExecuteTrial after runTrial returned t.  The code counts first and moves
\* the count when the environment turns the trial into an invalid one.
Conclude(a, t) ==
  /\ at' = [at EXCEPT ![a] = "recording"]
  /\ UNCHANGED <<status, returned, altered>>
  /\ IF altered \cap Shared # {}
       THEN Invalidate(a, Append(trials[a], t))
       ELSE \E readable \in (IF t.status = "passed" THEN BOOLEAN ELSE {TRUE}) :
              LET judged == Judged(a, t, readable)
              IN /\ trials' = [trials EXCEPT ![a] = Append(@, judged)]
                 /\ tally' = [tally EXCEPT ![a] = Counted(@, judged.status)]
                 /\ expected' = [expected EXCEPT ![a] =
                      IF judged.status = "passed" THEN judged.env ELSE @]
                 /\ UNCHANGED <<halted, drifted, disk, upsets>>

\* ExecuteTrial refuses a finished or halted series and a trial too many.
Refuses(a) == halted[a] \/ Len(trials[a]) >= N

Refuse(a) ==
  /\ at[a] = "idle" /\ Refuses(a)
  /\ returned' = [returned EXCEPT ![a] = "error"]
  /\ UNCHANGED <<at, trials, tally, expected, status, halted, drifted, disk,
                 altered, upsets>>

\* ExecuteTrial up to the experiment: changed engine or pack bytes void the
\* series and run nothing; a changed toolchain snapshot gives a trial with
\* no number and no status; otherwise the experiment starts.
BeginTrial(a, native) ==
  /\ at[a] = "idle" /\ ~Refuses(a)
  /\ IF altered \cap Shared # {}
       THEN /\ Invalidate(a, trials[a])
            /\ returned' = [returned EXCEPT ![a] = "invalid"]
            /\ UNCHANGED <<at, status, altered>>
       ELSE IF native /\ <<"snapshot", a>> \in altered
         THEN Conclude(a, Trial(0, "", "none", None))
         ELSE /\ at' = [at EXCEPT ![a] = "running"]
              /\ UNCHANGED <<trials, tally, expected, status, halted, drifted,
                             returned, disk, altered, upsets>>

\* What runTrial returns for trial n: an experiment that failed, with or
\* without evidence that says so; an attempt that missed a gate (no log or
\* journal, a bad timeline, a linked run that does not verify, a protocol
\* mismatch); a pass.  A snapshot that changed during the experiment makes
\* the trial failed, whatever its evidence says.
Outcomes(n, snapshotChanged) ==
  LET failing == {Trial(n, "failed", ev, None) : ev \in {"failed", "none"}}
  IN IF snapshotChanged
       THEN failing \cup {Trial(n, "failed", "passed", None)}
       ELSE failing
              \cup {Trial(n, "invalid", ev, None) : ev \in {"passed", "none"}}
              \cup {Trial(n, "passed", "passed", e) : e \in Envs}

EndTrial(a, native) ==
  /\ at[a] = "running"
  /\ \E t \in Outcomes(Len(trials[a]) + 1,
                       native /\ <<"snapshot", a>> \in altered) : Conclude(a, t)

\* A record written as runTrial returned it, before it was judged.
RecordUnjudged(a) ==
  LET n == Len(trials[a])
      t == IF trials[a][n].env # None
             THEN [trials[a][n] EXCEPT !.status = "passed"] ELSE trials[a][n]
  IN /\ at[a] = "recording"
     /\ at' = [at EXCEPT ![a] = "idle"]
     /\ disk' = [disk EXCEPT ![a].trials[n] = t]
     /\ halted' = [halted EXCEPT ![a] = @ \/ t.status = "failed"]
     /\ returned' = [returned EXCEPT ![a] =
          IF t.status = "" THEN "invalid" ELSE t.status]
     /\ UNCHANGED <<trials, tally, expected, status, drifted, altered, upsets>>

\* ExecuteTrial writes trials/NNN.json; a write that fails returns before the
\* series is halted.
RecordTrial(a) ==
  LET n == Len(trials[a])
      t == trials[a][n]
  IN /\ at[a] = "recording"
     /\ at' = [at EXCEPT ![a] = "idle"]
     /\ \/ /\ disk' = [disk EXCEPT ![a].trials[n] = t]
           /\ halted' = [halted EXCEPT ![a] = @ \/ t.status = "failed"]
           /\ returned' = [returned EXCEPT ![a] =
                IF t.status = "" THEN "invalid" ELSE t.status]
           /\ NoUpset
        \/ /\ Upset
           /\ returned' = [returned EXCEPT ![a] = "error"]
           /\ UNCHANGED <<disk, halted>>
     /\ UNCHANGED <<trials, tally, expected, status, drifted, altered>>

\* Finish up to the first file: the last look at every identity, then the
\* policy.  environment.json is skipped when no trial brought an environment.
Finish(a, native) ==
  /\ at[a] = "idle"
  /\ IF altered \cap Shared # {} \/ (native /\ <<"snapshot", a>> \in altered)
       THEN Invalidate(a, trials[a])
       ELSE UNCHANGED <<trials, tally, expected, halted, drifted, disk, upsets>>
  /\ \E s \in Evaluate(trials'[a]) : status' = [status EXCEPT ![a] = s]
  /\ at' = [at EXCEPT ![a] =
       IF expected'[a] = None THEN "result" ELSE "environment"]
  /\ UNCHANGED <<returned, altered>>

Files == <<"environment", "result", "text">>
NextFile(f) == LET i == CHOOSE i \in 1..3 : Files[i] = f
               IN IF i = 3 THEN "closed" ELSE Files[i + 1]

Written(a) ==
  CASE at[a] = "environment" -> [disk[a] EXCEPT !.environment = expected[a]]
    [] at[a] = "result" ->
         [disk[a] EXCEPT !.result =
            [status |-> status[a], trials |-> trials[a], tally |-> tally[a],
             environment |-> expected[a], drift |-> drifted[a]]]
    [] OTHER -> [disk[a] EXCEPT !.text = TRUE]

\* A finalization that starts over when a file could not be written.
PublishAgain(a) ==
  /\ at[a] \in {"environment", "result", "text"}
  /\ \/ /\ disk' = [disk EXCEPT ![a] = Written(a)]
        /\ at' = [at EXCEPT ![a] = NextFile(at[a])]
        /\ NoUpset
     \/ /\ Upset
        /\ at' = [at EXCEPT ![a] = "idle"]
        /\ UNCHANGED disk
  /\ UNCHANGED <<trials, tally, expected, status, halted, drifted, returned,
                 altered>>

\* finalize: one file after the other, each by a rename; the first that fails
\* ends it, and the series is never `finished'.  The two projections of the
\* result, runs.tsv and summary.md, are one file here.
Publish(a) ==
  /\ at[a] \in {"environment", "result", "text"}
  /\ \/ /\ disk' = [disk EXCEPT ![a] = Written(a)]
        /\ at' = [at EXCEPT ![a] = NextFile(at[a])]
        /\ NoUpset
     \/ /\ Upset
        /\ at' = [at EXCEPT ![a] = "unfinalized"]
        /\ UNCHANGED disk
  /\ UNCHANGED <<trials, tally, expected, status, halted, drifted, returned,
                 altered>>

\* Somebody replaces watched bytes, or puts the captured ones back.
Alter(i) ==
  /\ Upset
  /\ altered' = IF i \in altered THEN altered \ {i} ELSE altered \cup {i}
  /\ UNCHANGED <<series, disk>>

-----------------------------------------------------------------------------
IsTrials(ts) == Len(ts) \in 0..N /\ \A i \in DOMAIN ts : ts[i] \in Trials

\* The type of the series' state.
SeriesTypeOK ==
  /\ at \in [Arms -> {"absent", "refused", "idle", "running", "recording",
                      "environment", "result", "text", "closed",
                      "unfinalized"}]
  /\ \A a \in Arms : IsTrials(trials[a])
  /\ tally \in [Arms -> [valid : 0..N, failed : 0..N, invalid : 0..N]]
  /\ expected \in [Arms -> Envs \cup {None}]
  /\ status \in [Arms -> {"passed", "failed", "invalid", "inconclusive", None}]
  /\ halted \in [Arms -> BOOLEAN] /\ drifted \in [Arms -> BOOLEAN]
  /\ returned \in [Arms -> {"passed", "failed", "invalid", "error", None}]
  /\ \A a \in Arms :
       /\ \A i \in 1..N : disk[a].trials[i] \in Trials \cup {None}
       /\ disk[a].environment \in Envs \cup {None}
       /\ disk[a].text \in BOOLEAN
       /\ disk[a].result # None =>
            /\ disk[a].result.status \in {"passed", "failed", "invalid", "inconclusive"}
            /\ IsTrials(disk[a].result.trials)
  /\ altered \subseteq Identities
  /\ upsets \in 0..MaxUpsets

=============================================================================
