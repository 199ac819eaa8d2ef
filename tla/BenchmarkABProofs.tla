------------------------ MODULE BenchmarkABProofs ------------------------
(***************************************************************************)
(* Theorems about module BenchmarkAB, for any number of trials, of         *)
(* environments and of disturbances: what a series claims of its trials,   *)
(* in memory and on disk, is what happened, and the two arms of an A/B run *)
(* take turns.  The first part counts trials, the second follows one       *)
(* series through the operations of module BenchmarkSeries, the third      *)
(* follows its callers.                                                    *)
(***************************************************************************)
EXTENDS MCBenchmarkAB, FiniteSetTheorems, SequenceTheorems, TLAPS

LEMMA Sizes == N \in Nat /\ MinValid \in Nat /\ N >= 1 /\ MinValid >= 1 /\ MinValid <= N
BY SeriesAssumption

-----------------------------------------------------------------------------
(* Counting the trials of a series by their status.                        *)

LEMMA CountFinite ==
  ASSUME NEW ts \in Seq(Trials), NEW s
  PROVE  /\ DOMAIN ts = 1..Len(ts) /\ Len(ts) \in Nat
         /\ IsFiniteSet({i \in DOMAIN ts : ts[i].status = s})
         /\ Count(ts, s) \in Nat /\ Count(ts, s) <= Len(ts)
<1>1. DOMAIN ts = 1..Len(ts) /\ Len(ts) \in Nat
  OBVIOUS
<1>2. IsFiniteSet(1..Len(ts)) /\ Cardinality(1..Len(ts)) = Len(ts)
  BY <1>1, FS_Interval, SMTT(30)
<1>3. {i \in DOMAIN ts : ts[i].status = s} \subseteq 1..Len(ts)
  BY <1>1
<1>4. QED BY <1>1, <1>2, <1>3, FS_Subset, FS_CardinalityType DEF Count

LEMMA CountNone ==
  ASSUME NEW ts \in Seq(Trials), NEW s
  PROVE  Count(ts, s) = 0 <=> \A i \in DOMAIN ts : ts[i].status # s
<1>1. {i \in DOMAIN ts : ts[i].status = s} = {} <=> \A i \in DOMAIN ts : ts[i].status # s
  OBVIOUS
<1>2. QED BY <1>1, CountFinite, FS_EmptySet DEF Count

LEMMA CountAll ==
  ASSUME NEW ts \in Seq(Trials), NEW s
  PROVE  Count(ts, s) = Len(ts) <=> \A i \in DOMAIN ts : ts[i].status = s
<1> DEFINE S == {i \in DOMAIN ts : ts[i].status = s}
<1>1. /\ DOMAIN ts = 1..Len(ts) /\ IsFiniteSet(1..Len(ts)) /\ Cardinality(1..Len(ts)) = Len(ts)
      /\ S \subseteq 1..Len(ts)
  <2>1. DOMAIN ts = 1..Len(ts) /\ Len(ts) \in Nat
    OBVIOUS
  <2>2. IsFiniteSet(1..Len(ts)) /\ Cardinality(1..Len(ts)) = Len(ts)
    BY <2>1, FS_Interval, SMTT(30)
  <2>3. QED BY <2>1, <2>2
<1>2. Cardinality(S) = Len(ts) <=> S = 1..Len(ts)
  BY <1>1, FS_Subset
<1>3. S = 1..Len(ts) <=> \A i \in DOMAIN ts : ts[i].status = s
  BY <1>1
<1>4. QED BY <1>2, <1>3 DEF Count

LEMMA CountAppend ==
  ASSUME NEW ts \in Seq(Trials), NEW t \in Trials, NEW s
  PROVE  Count(Append(ts, t), s) = IF t.status = s THEN Count(ts, s) + 1 ELSE Count(ts, s)
<1> DEFINE us == Append(ts, t)
           S == {i \in DOMAIN ts : ts[i].status = s}
           U == {i \in DOMAIN us : us[i].status = s}
           n == Len(ts) + 1
<1>1. /\ DOMAIN ts = 1..Len(ts) /\ Len(ts) \in Nat /\ DOMAIN us = 1..n /\ us[n] = t
      /\ \A i \in 1..Len(ts) : us[i] = ts[i]
  OBVIOUS
<1>2. n \notin S /\ IsFiniteSet(S)
  <2>1. n \notin 1..Len(ts)
    BY <1>1
  <2>2. QED BY <1>1, <2>1, CountFinite
<1>3. U = IF t.status = s THEN S \cup {n} ELSE S
  <2>1. \A i : i \in 1..n <=> i \in 1..Len(ts) \/ i = n
    BY <1>1
  <2>2. \A i : i \in U <=> i \in S \/ (i = n /\ t.status = s)
    BY <1>1, <2>1
  <2>3. QED BY <2>2
<1>4. Cardinality(S \cup {n}) = Cardinality(S) + 1
  BY <1>2, FS_AddElement
<1>5. QED BY <1>3, <1>4 DEF Count

LEMMA VoidedTrials ==
  ASSUME NEW ts \in Seq(Trials)
  PROVE  /\ Voided(ts) \in Seq(Trials) /\ Len(Voided(ts)) = Len(ts)
         /\ \A i \in DOMAIN Voided(ts) : Voided(ts)[i].status = "invalid"
         /\ Count(Voided(ts), "passed") = 0 /\ Count(Voided(ts), "failed") = 0
         /\ Count(Voided(ts), "") = 0 /\ Count(Voided(ts), "invalid") = Len(ts)
<1> DEFINE vs == Voided(ts)
<1>1. DOMAIN ts = 1..Len(ts) /\ Len(ts) \in Nat /\ \A i \in 1..Len(ts) : ts[i] \in Trials
  BY ElementOfSeq
<1>2. \A i \in 1..Len(ts) : [ts[i] EXCEPT !.status = "invalid"] \in Trials
                           /\ [ts[i] EXCEPT !.status = "invalid"].status = "invalid"
  BY <1>1 DEF Trials
<1>3. vs = [i \in 1..Len(ts) |-> [ts[i] EXCEPT !.status = "invalid"]]
  BY <1>1 DEF Voided
<1>4. vs \in Seq(Trials) /\ Len(vs) = Len(ts) /\ DOMAIN vs = 1..Len(ts)
  <2>1. vs \in [1..Len(ts) -> Trials]
    BY <1>2, <1>3
  <2>2. QED BY <1>1, <2>1, SeqDef, LenProperties
<1>5. \A i \in DOMAIN vs : vs[i].status = "invalid"
  BY <1>2, <1>3, <1>4
<1> HIDE DEF vs
<1>6. QED
  <2>1. Count(vs, "passed") = 0 /\ Count(vs, "failed") = 0 /\ Count(vs, "") = 0
    BY <1>4, <1>5, CountNone
  <2>2. Count(vs, "invalid") = Len(ts)
    BY <1>4, <1>5, CountAll
  <2>3. QED BY <1>4, <1>5, <2>1, <2>2 DEF vs

\* A series that passes: all trials are there, none failed, enough are valid.
LEMMA EvaluatePassed ==
  ASSUME NEW ts \in Seq(Trials), "passed" \in Evaluate(ts)
  PROVE  /\ Len(ts) = N /\ Count(ts, "passed") >= MinValid
         /\ Count(ts, "") = 0 /\ Count(ts, "failed") = 0
         /\ \A i \in DOMAIN ts : ts[i].status \in {"passed", "invalid"}
<1>1. /\ ~(Count(ts, "") > 0) /\ ~(Count(ts, "failed") > 0)
      /\ Len(ts) = N /\ ~(Count(ts, "passed") < MinValid)
  BY DEF Evaluate
<1>2. Count(ts, "") \in Nat /\ Count(ts, "failed") \in Nat /\ Count(ts, "passed") \in Nat
  BY CountFinite
<1>3. Count(ts, "") = 0 /\ Count(ts, "failed") = 0 /\ Count(ts, "passed") >= MinValid
  <2>1. \A n \in Nat : ~(n > 0) => n = 0
    OBVIOUS
  <2>2. \A n \in Nat : ~(n < MinValid) => n >= MinValid
    BY Sizes
  <2>3. QED BY <1>1, <1>2, <2>1, <2>2
<1>4. \A i \in DOMAIN ts : ts[i].status # "" /\ ts[i].status # "failed"
  BY <1>3, CountNone
<1>5. \A i \in DOMAIN ts : ts[i] \in Trials
  BY ElementOfSeq
<1>6. QED BY <1>1, <1>3, <1>4, <1>5 DEF Trials

\* Voided trials can only make an invalid series.
LEMMA EvaluateVoided ==
  ASSUME NEW ts \in Seq(Trials), \A i \in DOMAIN ts : ts[i].status = "invalid"
  PROVE  Evaluate(ts) = {"invalid"}
<1>1. Count(ts, "") = 0 /\ Count(ts, "failed") = 0 /\ Count(ts, "passed") = 0
  BY CountNone
<1>2. ~(0 > 0) /\ 0 < MinValid
  BY Sizes
<1>3. QED BY <1>1, <1>2 DEF Evaluate

LEMMA EvaluateStatus ==
  ASSUME NEW ts
  PROVE  Evaluate(ts) \subseteq {"passed", "failed", "invalid", "inconclusive"}
BY DEF Evaluate

-----------------------------------------------------------------------------
(* One series.  ArmInv(a) says what is true of series a between any two    *)
(* steps: what its counters, its environment and its trials have to do     *)
(* with each other (Tallied, OneEnvironment, Attempts), that a change of   *)
(* an identity voids it for good (Void), where it stands (Stage), and what *)
(* its result, once written, repeats (Closing).                            *)

Statuses == {"passed", "failed", "invalid", "inconclusive"}
Tallies == [valid : Nat, failed : Nat, invalid : Nat]
Dirs ==
  [trials : [1..N -> Trials \cup {None}], environment : Envs \cup {None},
   result : Results \cup {None}, text : BOOLEAN]

Ended == {"environment", "result", "text", "closed", "unfinalized"}

SeriesTypes ==
  /\ at \in [Arms -> {"absent", "refused", "idle", "running", "recording"} \cup Ended]
  /\ trials \in [Arms -> Seq(Trials)]
  /\ tally \in [Arms -> Tallies]
  /\ expected \in [Arms -> Envs \cup {None}]
  /\ status \in [Arms -> Statuses \cup {None}]
  /\ halted \in [Arms -> BOOLEAN] /\ drifted \in [Arms -> BOOLEAN]
  /\ returned \in [Arms -> {"passed", "failed", "invalid", "error", None}]
  /\ disk \in [Arms -> Dirs]

Tallied(a) ==
  tally[a] = Tally(Count(trials[a], "passed"), Count(trials[a], "failed"),
                   Count(trials[a], "invalid") + Count(trials[a], ""))

OneEnvironment(a) == \A i \in DOMAIN trials[a] :
  trials[a][i].status = "passed" => trials[a][i].env = expected[a] /\ expected[a] \in Envs

Void(a) == drifted[a] =>
  /\ \A i \in DOMAIN trials[a] : trials[a][i].status = "invalid"
  /\ expected[a] = None /\ halted[a] /\ status[a] \in {None, "invalid"}

\* What runTrial returns for trial n and what judging makes of it.
Attempt(t, n) ==
  /\ t.status # "" => t.number = n
  /\ t.status = "passed" => t.evidence = "passed"
  /\ t.status = "invalid" => t.evidence \in {"passed", "none"}
Attempts(a) == ~drifted[a] => \A i \in DOMAIN trials[a] : Attempt(trials[a][i], i)

Stage(a) ==
  /\ Len(trials[a]) <= N
  /\ at[a] \in {"absent", "refused"} => trials[a] = <<>>
  /\ at[a] = "running" => ~halted[a] /\ Len(trials[a]) < N
  /\ at[a] = "recording" => Len(trials[a]) >= 1
  /\ IF at[a] \in Ended THEN status[a] \in Evaluate(trials[a]) ELSE status[a] = None

ResultOf(a) == [status |-> status[a], trials |-> trials[a], tally |-> tally[a],
                environment |-> expected[a], drift |-> drifted[a]]
Closing(a) ==
  /\ at[a] \in {"text", "closed"} => disk[a].result = ResultOf(a)
  /\ disk[a].result # None
       => at[a] \in {"text", "closed", "unfinalized"} /\ disk[a].result = ResultOf(a)
  /\ disk[a].environment = IF at[a] \in {"result", "text", "closed"} THEN expected[a]
                           ELSE IF at[a] = "unfinalized" THEN disk[a].environment ELSE None
  /\ at[a] = "closed" => disk[a].text

ArmInv(a) ==
  Tallied(a) /\ OneEnvironment(a) /\ Void(a) /\ Attempts(a) /\ Stage(a) /\ Closing(a)

SeriesInv == SeriesTypes /\ \A a \in Arms : ArmInv(a)

\* Every trial but one that is being recorded is on disk as it is in memory.
Saved(a) == drifted[a] \/ \A i \in 1..N :
  disk[a].trials[i] = IF i \in DOMAIN trials[a] /\ (at[a] = "recording" => i # Len(trials[a]))
                        THEN trials[a][i] ELSE None

\* What a step of series a leaves alone in the others.
Others(a) == \A b \in Arms : b # a =>
  /\ at'[b] = at[b] /\ trials'[b] = trials[b] /\ drifted'[b] = drifted[b]
  /\ disk'[b] = disk[b]

\* A step of another series.
LEMMA OtherArm ==
  ASSUME NEW a \in Arms, ArmInv(a), at'[a] = at[a], trials'[a] = trials[a],
         tally'[a] = tally[a], expected'[a] = expected[a], status'[a] = status[a],
         halted'[a] = halted[a], drifted'[a] = drifted[a], disk'[a] = disk[a]
  PROVE  ArmInv(a)'
BY DEF ArmInv, Tallied, OneEnvironment, Void, Attempts, Stage, Closing, ResultOf

\* The trials of a series that a change of an identity voids, whatever is written.
LEMMA Invalidated ==
  ASSUME SeriesTypes, NEW a \in Arms, NEW ts \in Seq(Trials), Len(ts) <= N, Invalidate(a, ts)
  PROVE  /\ trials' = [trials EXCEPT ![a] = Voided(ts)]
         /\ tally' = [tally EXCEPT ![a] = Tally(0, 0, Len(ts))]
         /\ expected' = [expected EXCEPT ![a] = None]
         /\ halted' = [halted EXCEPT ![a] = TRUE] /\ drifted' = [drifted EXCEPT ![a] = TRUE]
         /\ disk' \in [Arms -> Dirs]
         /\ \A b \in Arms : /\ b # a => disk'[b] = disk[b]
                            /\ disk'[b].result = disk[b].result
                            /\ disk'[b].environment = disk[b].environment
                            /\ disk'[b].text = disk[b].text
         /\ Tallied(a)' /\ OneEnvironment(a)' /\ Attempts(a)'
         /\ Evaluate(trials'[a]) = {"invalid"} /\ Len(trials'[a]) = Len(ts)
         /\ \A i \in DOMAIN trials'[a] : trials'[a][i].status = "invalid"
<1>1. /\ trials' = [trials EXCEPT ![a] = Voided(ts)]
      /\ tally' = [tally EXCEPT ![a] = Tally(0, 0, Len(ts))]
      /\ expected' = [expected EXCEPT ![a] = None]
      /\ halted' = [halted EXCEPT ![a] = TRUE] /\ drifted' = [drifted EXCEPT ![a] = TRUE]
  BY DEF Invalidate
<1>2. trials'[a] = Voided(ts) /\ drifted'[a]
  BY <1>1 DEF SeriesTypes
<1>3. PICK written \in SUBSET DOMAIN ts :
        disk' = [disk EXCEPT ![a] = Rewritten(@, Voided(ts), written)]
  BY DEF Invalidate
<1>4. \A i \in written : Voided(ts)[i] \in Trials
  BY VoidedTrials, CountFinite, ElementOfSeq
<1>5. Rewritten(disk[a], Voided(ts), written) \in Dirs
      /\ Rewritten(disk[a], Voided(ts), written).result = disk[a].result
      /\ Rewritten(disk[a], Voided(ts), written).environment = disk[a].environment
      /\ Rewritten(disk[a], Voided(ts), written).text = disk[a].text
  <2>1. disk[a] \in Dirs
    BY DEF SeriesTypes
  <2>2. [i \in 1..N |-> IF i \in written THEN Voided(ts)[i] ELSE disk[a].trials[i]]
          \in [1..N -> Trials \cup {None}]
    BY <1>4, <2>1 DEF Dirs
  <2>3. QED BY <2>1, <2>2 DEF Rewritten, Dirs
<1>6. /\ disk' \in [Arms -> Dirs]
      /\ \A b \in Arms : /\ b # a => disk'[b] = disk[b]
                         /\ disk'[b].result = disk[b].result
                         /\ disk'[b].environment = disk[b].environment
                         /\ disk'[b].text = disk[b].text
  BY <1>3, <1>5 DEF SeriesTypes
<1>7. /\ \A i \in DOMAIN trials'[a] : trials'[a][i].status = "invalid"
      /\ Len(trials'[a]) = Len(ts)
  BY <1>2, VoidedTrials
<1>8. Tallied(a)'
  <2>1. tally'[a] = Tally(0, 0, Len(ts))
    BY <1>1 DEF SeriesTypes
  <2>2. Len(ts) + 0 = Len(ts)
    BY CountFinite
  <2>3. QED BY <1>2, <2>1, <2>2, VoidedTrials DEF Tallied
<1>9. OneEnvironment(a)' /\ Attempts(a)'
  BY <1>2, <1>7 DEF OneEnvironment, Attempts
<1>10. Evaluate(trials'[a]) = {"invalid"}
  BY <1>2, <1>7, VoidedTrials, EvaluateVoided
<1>11. QED BY <1>1, <1>6, <1>7, <1>8, <1>9, <1>10

LEMMA NoneOutside == None \notin Envs
BY SeriesAssumption

LEMMA Regroup == \A x, y \in Nat : (x + y) + 1 = (x + 1) + y /\ (x + y) + 1 = x + (y + 1)
OBVIOUS

\* The tally of p valid, f failed, i invalid and e trials without a status,
\* and of one more trial of status s.
Added(p, f, i, e, s) ==
  Tally(IF s = "passed" THEN p + 1 ELSE p, IF s = "failed" THEN f + 1 ELSE f,
        (IF s = "invalid" THEN i + 1 ELSE i) + (IF s = "" THEN e + 1 ELSE e))

LEMMA CountedTally ==
  ASSUME NEW p \in Nat, NEW f \in Nat, NEW i \in Nat, NEW e \in Nat,
         NEW s \in {"", "passed", "failed", "invalid"}
  PROVE  Counted(Tally(p, f, i + e), s) = Added(p, f, i, e, s)
<1>1. CASE s = "passed"
  BY <1>1 DEF Counted, Tally, Added
<1>2. CASE s = "failed"
  BY <1>2 DEF Counted, Tally, Added
<1>3. (i + e) + 1 = (i + 1) + e /\ (i + e) + 1 = i + (e + 1)
  BY Regroup
<1>4. CASE s = "invalid"
  BY <1>3, <1>4 DEF Counted, Tally, Added
<1>5. CASE s = ""
  BY <1>3, <1>5 DEF Counted, Tally, Added
<1>6. QED BY <1>1, <1>2, <1>4, <1>5

\* The trial of an experiment is recorded in memory, or voids the series.
LEMMA ConcludeStep ==
  ASSUME SeriesInv, NEW a \in Arms, at[a] \in {"idle", "running"}, ~halted[a],
         Len(trials[a]) < N, NEW t \in Trials, Attempt(t, Len(trials[a]) + 1),
         t.status = "passed" => t.env \in Envs, Conclude(a, t)
  PROVE  /\ SeriesInv' /\ at'[a] = "recording" /\ Len(trials'[a]) = Len(trials[a]) + 1
         /\ Others(a) /\ (Saved(a) => Saved(a)')
         /\ UNCHANGED <<status, returned, altered>>
<1>1. /\ at' = [at EXCEPT ![a] = "recording"] /\ UNCHANGED <<status, returned, altered>>
  BY DEF Conclude
<1>2. /\ at'[a] = "recording" /\ \A b \in Arms : b # a => at'[b] = at[b]
      /\ trials[a] \in Seq(Trials) /\ ArmInv(a) /\ status[a] = None
      /\ disk[a].result = None /\ disk[a].environment = None
  BY <1>1 DEF SeriesInv, SeriesTypes, ArmInv, Stage, Closing, Ended
<1>3. Len(trials[a]) \in Nat /\ Len(trials[a]) + 1 <= N /\ ~drifted[a]
  BY <1>2, Sizes, CountFinite DEF ArmInv, Void
<1>4. CASE altered \cap Shared # {}
  <2> DEFINE ts == Append(trials[a], t)
  <2>1. ts \in Seq(Trials) /\ Len(ts) = Len(trials[a]) + 1
    BY <1>2
  <2>2. Invalidate(a, ts)
    BY <1>4 DEF Conclude
  <2> HIDE DEF ts
  <2>3. /\ trials' = [trials EXCEPT ![a] = Voided(ts)]
        /\ tally' = [tally EXCEPT ![a] = Tally(0, 0, Len(ts))]
        /\ expected' = [expected EXCEPT ![a] = None]
        /\ halted' = [halted EXCEPT ![a] = TRUE] /\ drifted' = [drifted EXCEPT ![a] = TRUE]
        /\ disk' \in [Arms -> Dirs]
        /\ \A b \in Arms : b # a => disk'[b] = disk[b]
        /\ disk'[a].result = disk[a].result /\ disk'[a].environment = disk[a].environment
        /\ Tallied(a)' /\ OneEnvironment(a)' /\ Attempts(a)'
        /\ Len(trials'[a]) = Len(trials[a]) + 1
        /\ \A i \in DOMAIN trials'[a] : trials'[a][i].status = "invalid"
    BY <1>3, <2>1, <2>2, Invalidated DEF SeriesInv
  <2>4. SeriesTypes'
    <3>1. Tally(0, 0, Len(ts)) \in Tallies
      BY <1>3, <2>1 DEF Tally, Tallies
    <3>2. Voided(ts) \in Seq(Trials)
      BY <2>1, VoidedTrials
    <3>3. QED BY <1>1, <2>3, <3>1, <3>2 DEF SeriesInv, SeriesTypes
  <2>5. Void(a)' /\ Stage(a)' /\ Closing(a)'
    BY <1>1, <1>2, <1>3, <2>3 DEF Void, Stage, Closing, Ended, SeriesInv, SeriesTypes
  <2>6. ASSUME NEW b \in Arms PROVE ArmInv(b)'
    <3>1. CASE b = a
      BY <2>3, <2>5, <3>1 DEF ArmInv
    <3>2. CASE b # a
      BY <1>1, <1>2, <2>3, <3>2, OtherArm DEF SeriesInv, SeriesTypes
    <3>3. QED BY <3>1, <3>2
  <2>7. Others(a) /\ Saved(a)'
    BY <1>2, <2>3 DEF SeriesInv, SeriesTypes, Others, Saved
  <2>8. QED BY <1>1, <1>2, <2>3, <2>4, <2>6, <2>7 DEF SeriesInv
<1>5. CASE altered \cap Shared = {}
  <2>1. PICK readable \in BOOLEAN :
          /\ trials' = [trials EXCEPT ![a] = Append(@, Judged(a, t, readable))]
          /\ tally' = [tally EXCEPT ![a] = Counted(@, Judged(a, t, readable).status)]
          /\ expected' = [expected EXCEPT ![a] =
               IF Judged(a, t, readable).status = "passed" THEN Judged(a, t, readable).env ELSE @]
          /\ UNCHANGED <<halted, drifted, disk, upsets>>
    BY <1>5 DEF Conclude
  <2> DEFINE judged == Judged(a, t, readable)
             n == Len(trials[a]) + 1
  <2>2. /\ judged \in Trials /\ Attempt(judged, n)
        /\ judged.status = "passed" =>
             judged.env \in Envs /\ expected[a] \in {None, judged.env}
    BY DEF Judged, Trials, Attempt
  <2> HIDE DEF judged
  <2>3. /\ trials'[a] = Append(trials[a], judged) /\ trials'[a] \in Seq(Trials)
        /\ tally'[a] = Counted(tally[a], judged.status)
        /\ expected'[a] = IF judged.status = "passed" THEN judged.env ELSE expected[a]
        /\ \A b \in Arms : b # a => /\ trials'[b] = trials[b] /\ tally'[b] = tally[b]
                                    /\ expected'[b] = expected[b]
    BY <1>2, <2>1, <2>2 DEF SeriesInv, SeriesTypes, judged
  <2>4. /\ Len(trials'[a]) = n /\ DOMAIN trials'[a] = 1..n /\ trials'[a][n] = judged
        /\ \A i \in 1..n : i # n => i \in DOMAIN trials[a] /\ trials'[a][i] = trials[a][i]
    BY <1>2, <2>3, <2>2
  <2>5. Tallied(a)'
    <3>1. \A s : Count(trials[a], s) \in Nat
      BY <1>2, CountFinite
    <3>2. \A s : Count(trials'[a], s) = IF judged.status = s THEN Count(trials[a], s) + 1
                                        ELSE Count(trials[a], s)
      BY <1>2, <2>2, <2>3, CountAppend
    <3>3. tally[a] = Tally(Count(trials[a], "passed"), Count(trials[a], "failed"),
                           Count(trials[a], "invalid") + Count(trials[a], ""))
      BY <1>2 DEF ArmInv, Tallied
    <3>4. judged.status \in {"", "passed", "failed", "invalid"}
      BY <2>2 DEF Trials
    <3>5. tally'[a] = Tally(Count(trials'[a], "passed"), Count(trials'[a], "failed"),
                            Count(trials'[a], "invalid") + Count(trials'[a], ""))
      <4>1. tally'[a] = Counted(Tally(Count(trials[a], "passed"), Count(trials[a], "failed"),
                                      Count(trials[a], "invalid") + Count(trials[a], "")),
                                judged.status)
        BY <2>3, <3>3
      <4>2. /\ Count(trials'[a], "passed") = IF judged.status = "passed"
                   THEN Count(trials[a], "passed") + 1 ELSE Count(trials[a], "passed")
            /\ Count(trials'[a], "failed") = IF judged.status = "failed"
                   THEN Count(trials[a], "failed") + 1 ELSE Count(trials[a], "failed")
            /\ Count(trials'[a], "invalid") = IF judged.status = "invalid"
                   THEN Count(trials[a], "invalid") + 1 ELSE Count(trials[a], "invalid")
            /\ Count(trials'[a], "") = IF judged.status = ""
                   THEN Count(trials[a], "") + 1 ELSE Count(trials[a], "")
        BY <3>2
      <4>3. Counted(Tally(Count(trials[a], "passed"), Count(trials[a], "failed"),
                          Count(trials[a], "invalid") + Count(trials[a], "")), judged.status)
              = Added(Count(trials[a], "passed"), Count(trials[a], "failed"),
                      Count(trials[a], "invalid"), Count(trials[a], ""), judged.status)
        BY <3>1, <3>4, CountedTally
      <4>4. QED BY <4>1, <4>2, <4>3 DEF Added
    <3>6. QED BY <3>5 DEF Tallied
  <2>6. OneEnvironment(a)'
    <3>1. ASSUME NEW i \in 1..n, trials'[a][i].status = "passed"
          PROVE  trials'[a][i].env = expected'[a] /\ expected'[a] \in Envs
      <4>1. CASE i = n
        BY <2>2, <2>3, <2>4, <3>1, <4>1
      <4>2. CASE i # n
        <5>1. trials'[a][i].env = expected[a] /\ expected[a] \in Envs
          BY <1>2, <2>4, <3>1, <4>2 DEF ArmInv, OneEnvironment
        <5>2. expected'[a] = expected[a]
          BY <2>2, <2>3, <5>1, NoneOutside
        <5>3. QED BY <5>1, <5>2
      <4>3. QED BY <4>1, <4>2
    <3>2. QED BY <2>4, <3>1 DEF OneEnvironment
  <2>7. Attempts(a)'
    BY <1>2, <1>3, <2>1, <2>2, <2>4 DEF ArmInv, Attempts
  <2>8. Void(a)' /\ Stage(a)' /\ Closing(a)'
    BY <1>1, <1>2, <1>3, <2>1, <2>4 DEF Void, Stage, Closing, Ended
  <2>9. SeriesTypes'
    <3>1. tally'[a] \in Tallies
      BY <2>3 DEF SeriesInv, SeriesTypes, Counted, Tallies
    <3>2. expected'[a] \in Envs \cup {None}
      BY <2>2, <2>3 DEF SeriesInv, SeriesTypes
    <3>3. tally' \in [Arms -> Tallies] /\ expected' \in [Arms -> Envs \cup {None}]
      BY <2>1, <2>3, <3>1, <3>2 DEF SeriesInv, SeriesTypes
    <3>4. trials' \in [Arms -> Seq(Trials)]
      BY <2>1, <2>3 DEF SeriesInv, SeriesTypes
    <3>5. QED BY <1>1, <2>1, <3>3, <3>4 DEF SeriesInv, SeriesTypes
  <2>10. ASSUME NEW b \in Arms PROVE ArmInv(b)'
    <3>1. CASE b = a
      BY <2>5, <2>6, <2>7, <2>8, <3>1 DEF ArmInv
    <3>2. CASE b # a
      BY <1>1, <1>2, <2>1, <2>3, <3>2, OtherArm DEF SeriesInv
    <3>3. QED BY <3>1, <3>2
  <2>11. Others(a)
    BY <1>2, <2>1, <2>3 DEF Others
  <2>12. ASSUME Saved(a) PROVE Saved(a)'
    <3>1. ASSUME NEW i \in 1..N
          PROVE  disk'[a].trials[i] = IF i \in 1..n /\ i # n THEN trials'[a][i] ELSE None
      <4>1. disk'[a] = disk[a] /\ (i \in 1..n /\ i # n <=> i \in DOMAIN trials[a])
        BY <1>2, <1>3, <2>1
      <4>2. at[a] # "recording"
        OBVIOUS
      <4>3. QED BY <1>3, <2>4, <2>12, <4>1, <4>2 DEF Saved
    <3>2. QED BY <1>2, <2>4, <3>1 DEF Saved
  <2>13. QED BY <1>1, <1>2, <2>4, <2>9, <2>10, <2>11, <2>12 DEF SeriesInv
<1>6. QED BY <1>4, <1>5

-----------------------------------------------------------------------------
(* The operations of one series.  Each keeps SeriesInv and leaves the other *)
(* series alone; what else a lemma says is what the callers rest on.        *)

\* An operation that changes only where series a stands.
LEMMA Moved ==
  ASSUME SeriesInv, NEW a \in Arms,
         UNCHANGED <<trials, tally, expected, status, halted, drifted, disk>>,
         NEW p, at' = [at EXCEPT ![a] = p], at[a] \in {"absent", "idle"},
         p \in {"refused", "idle", "running"}, p = "refused" => at[a] = "absent",
         p = "running" => at[a] = "idle" /\ ~halted[a] /\ Len(trials[a]) < N,
         returned' \in [Arms -> {"passed", "failed", "invalid", "error", None}]
  PROVE  SeriesInv' /\ Others(a) /\ at'[a] = p /\ (Saved(a) => Saved(a)')
<1>1. at'[a] = p /\ (\A b \in Arms : b # a => at'[b] = at[b]) /\ SeriesTypes'
  BY DEF SeriesInv, SeriesTypes
<1>2. ArmInv(a)'
  BY <1>1, ZenonT(30) DEF SeriesInv, ArmInv, Tallied, OneEnvironment, Void, Attempts, Stage, Closing,
              ResultOf, Ended
<1>3. ASSUME NEW b \in Arms PROVE ArmInv(b)'
  <2>1. CASE b = a
    BY <1>2, <2>1
  <2>2. CASE b # a
    BY <1>1, <2>2, OtherArm DEF SeriesInv
  <2>3. QED BY <2>1, <2>2
<1>4. Others(a)
  BY <1>1 DEF Others
<1>5. Saved(a) => Saved(a)'
  BY <1>1 DEF Saved
<1>6. QED BY <1>1, <1>3, <1>4, <1>5 DEF SeriesInv

LEMMA StartStep ==
  ASSUME SeriesInv, NEW a \in Arms, Start(a) \/ StartFails(a)
  PROVE  /\ SeriesInv' /\ Others(a) /\ (Saved(a) => Saved(a)')
         /\ UNCHANGED <<trials, drifted>> /\ at[a] = "absent"
         /\ Start(a) => at'[a] = "idle"
         /\ StartFails(a) => at'[a] = "refused"
<1>1. returned' \in [Arms -> {"passed", "failed", "invalid", "error", None}]
  BY DEF Start, StartFails, SeriesInv, SeriesTypes
<1>2. CASE Start(a)
  BY <1>1, <1>2, Moved DEF Start, StartFails
<1>3. CASE StartFails(a)
  BY <1>1, <1>3, Moved DEF Start, StartFails
<1>4. QED BY <1>2, <1>3

LEMMA RefuseStep ==
  ASSUME SeriesInv, NEW a \in Arms, Refuse(a)
  PROVE  /\ SeriesInv' /\ Others(a) /\ (Saved(a) => Saved(a)')
         /\ UNCHANGED <<at, trials, drifted>> /\ at[a] = "idle" /\ returned'[a] = "error"
<1>1. /\ returned' \in [Arms -> {"passed", "failed", "invalid", "error", None}]
      /\ returned'[a] = "error"
  BY DEF Refuse, SeriesInv, SeriesTypes
<1>2. at' = [at EXCEPT ![a] = "idle"]
  BY DEF Refuse, SeriesInv, SeriesTypes
<1>3. QED BY <1>1, <1>2, Moved DEF Refuse

\* A look at the identities that voids the recorded trials.
LEMMA VoidStep ==
  ASSUME SeriesInv, NEW a \in Arms, at[a] = "idle", Invalidate(a, trials[a])
  PROVE  /\ Tallied(a)' /\ OneEnvironment(a)' /\ Attempts(a)'
         /\ trials' \in [Arms -> Seq(Trials)] /\ tally' \in [Arms -> Tallies]
         /\ expected' = [expected EXCEPT ![a] = None]
         /\ halted' = [halted EXCEPT ![a] = TRUE] /\ drifted' = [drifted EXCEPT ![a] = TRUE]
         /\ disk' \in [Arms -> Dirs]
         /\ disk'[a].result = None /\ disk'[a].environment = None
         /\ \A b \in Arms : b # a => /\ trials'[b] = trials[b] /\ tally'[b] = tally[b]
                                     /\ disk'[b] = disk[b]
         /\ Evaluate(trials'[a]) = {"invalid"}
         /\ Len(trials'[a]) = Len(trials[a]) /\ Len(trials[a]) <= N
         /\ \A i \in DOMAIN trials'[a] : trials'[a][i].status = "invalid"
<1>1. /\ trials[a] \in Seq(Trials) /\ Len(trials[a]) <= N
      /\ disk[a].result = None /\ disk[a].environment = None
  BY DEF SeriesInv, SeriesTypes, ArmInv, Stage, Closing, Ended
<1>2. /\ trials' = [trials EXCEPT ![a] = Voided(trials[a])]
      /\ tally' = [tally EXCEPT ![a] = Tally(0, 0, Len(trials[a]))]
      /\ expected' = [expected EXCEPT ![a] = None]
      /\ halted' = [halted EXCEPT ![a] = TRUE] /\ drifted' = [drifted EXCEPT ![a] = TRUE]
      /\ disk' \in [Arms -> Dirs]
      /\ \A b \in Arms : /\ b # a => disk'[b] = disk[b]
                         /\ disk'[b].result = disk[b].result
                         /\ disk'[b].environment = disk[b].environment
      /\ Tallied(a)' /\ OneEnvironment(a)' /\ Attempts(a)'
      /\ Evaluate(trials'[a]) = {"invalid"} /\ Len(trials'[a]) = Len(trials[a])
      /\ \A i \in DOMAIN trials'[a] : trials'[a][i].status = "invalid"
  BY <1>1, Invalidated DEF SeriesInv
<1>3. Tally(0, 0, Len(trials[a])) \in Tallies
  BY <1>1, CountFinite DEF Tally, Tallies
<1>4. Voided(trials[a]) \in Seq(Trials)
  BY <1>1, VoidedTrials
<1>5. trials' \in [Arms -> Seq(Trials)] /\ tally' \in [Arms -> Tallies]
  BY <1>2, <1>3, <1>4 DEF SeriesInv, SeriesTypes
<1>6. \A b \in Arms : b # a => trials'[b] = trials[b] /\ tally'[b] = tally[b]
  BY <1>2 DEF SeriesInv, SeriesTypes
<1>7. QED BY <1>1, <1>2, <1>5, <1>6

LEMMA BeginStep ==
  ASSUME SeriesInv, NEW a \in Arms, NEW native, BeginTrial(a, native)
  PROVE  /\ SeriesInv' /\ Others(a) /\ (Saved(a) => Saved(a)')
         /\ at[a] = "idle" /\ ~drifted[a]
         /\ \/ at'[a] = "running" /\ UNCHANGED <<trials, drifted>>
            \/ at'[a] = "recording" /\ Len(trials'[a]) = Len(trials[a]) + 1
            \/ at'[a] = "idle" /\ drifted'[a] /\ Len(trials'[a]) = Len(trials[a])
<1>1. /\ at[a] = "idle" /\ ~halted[a] /\ ArmInv(a) /\ trials[a] \in Seq(Trials)
      /\ ~drifted[a] /\ status[a] = None
  BY DEF BeginTrial, Refuses, SeriesInv, SeriesTypes, ArmInv, Void, Stage, Ended
<1>2. Len(trials[a]) < N
  <2>1. ~(Len(trials[a]) >= N) /\ Len(trials[a]) \in Nat
    BY <1>1, CountFinite DEF BeginTrial, Refuses
  <2>2. QED BY <2>1, Sizes
<1>3. CASE altered \cap Shared # {}
  <2>1. /\ Invalidate(a, trials[a]) /\ UNCHANGED <<at, status, altered>>
        /\ returned' = [returned EXCEPT ![a] = "invalid"]
    BY <1>3 DEF BeginTrial
  <2>2. /\ Tallied(a)' /\ OneEnvironment(a)' /\ Attempts(a)'
        /\ trials' \in [Arms -> Seq(Trials)] /\ tally' \in [Arms -> Tallies]
        /\ expected' = [expected EXCEPT ![a] = None]
        /\ halted' = [halted EXCEPT ![a] = TRUE] /\ drifted' = [drifted EXCEPT ![a] = TRUE]
        /\ disk' \in [Arms -> Dirs]
        /\ disk'[a].result = None /\ disk'[a].environment = None
        /\ \A b \in Arms : b # a => /\ trials'[b] = trials[b] /\ tally'[b] = tally[b]
                                    /\ disk'[b] = disk[b]
        /\ Len(trials'[a]) = Len(trials[a]) /\ Len(trials[a]) <= N
        /\ \A i \in DOMAIN trials'[a] : trials'[a][i].status = "invalid"
    BY <1>1, <2>1, VoidStep
  <2>3. SeriesTypes'
    BY <2>1, <2>2 DEF SeriesInv, SeriesTypes
  <2>4. Void(a)' /\ Stage(a)' /\ Closing(a)'
    BY <1>1, <2>1, <2>2 DEF Void, Stage, Closing, Ended, SeriesInv, SeriesTypes
  <2>5. ASSUME NEW b \in Arms PROVE ArmInv(b)'
    <3>1. CASE b = a
      BY <2>2, <2>4, <3>1 DEF ArmInv
    <3>2. CASE b # a
      BY <2>1, <2>2, <3>2, OtherArm DEF SeriesInv, SeriesTypes
    <3>3. QED BY <3>1, <3>2
  <2>6. Others(a) /\ Saved(a)' /\ at'[a] = "idle" /\ drifted'[a]
    BY <1>1, <2>1, <2>2 DEF SeriesInv, SeriesTypes, Others, Saved
  <2>7. QED BY <1>1, <2>2, <2>3, <2>5, <2>6 DEF SeriesInv
<1>4. CASE altered \cap Shared = {} /\ native /\ <<"snapshot", a>> \in altered
  <2> DEFINE t == Trial(0, "", "none", None)
  <2>1. Conclude(a, t)
    BY <1>4 DEF BeginTrial
  <2>2. 0 \in 0..N
    BY Sizes
  <2>3. t \in Trials /\ Attempt(t, Len(trials[a]) + 1) /\ (t.status = "passed" => t.env \in Envs)
    BY <2>2 DEF Trial, Trials, Attempt
  <2> HIDE DEF t
  <2>4. QED BY <1>1, <1>2, <2>1, <2>3, ConcludeStep
<1>5. CASE altered \cap Shared = {} /\ ~(native /\ <<"snapshot", a>> \in altered)
  <2>1. /\ at' = [at EXCEPT ![a] = "running"]
        /\ UNCHANGED <<trials, tally, expected, status, halted, drifted, returned, disk>>
    BY <1>5 DEF BeginTrial
  <2>2. returned' \in [Arms -> {"passed", "failed", "invalid", "error", None}]
    BY <2>1 DEF SeriesInv, SeriesTypes
  <2>3. SeriesInv' /\ Others(a) /\ at'[a] = "running" /\ (Saved(a) => Saved(a)')
    BY <1>1, <1>2, <2>1, <2>2, Moved
  <2>4. QED BY <1>1, <2>1, <2>3
<1>6. QED BY <1>3, <1>4, <1>5

LEMMA EndStep ==
  ASSUME SeriesInv, NEW a \in Arms, NEW native, EndTrial(a, native)
  PROVE  /\ SeriesInv' /\ Others(a) /\ (Saved(a) => Saved(a)')
         /\ at[a] = "running" /\ at'[a] = "recording"
         /\ Len(trials'[a]) = Len(trials[a]) + 1
<1>1. /\ at[a] = "running" /\ ~halted[a] /\ Len(trials[a]) < N /\ trials[a] \in Seq(Trials)
  BY DEF EndTrial, SeriesInv, SeriesTypes, ArmInv, Stage
<1>2. Len(trials[a]) + 1 \in 0..N
  BY <1>1, Sizes, CountFinite
<1> DEFINE n == Len(trials[a]) + 1
<1>3. PICK t \in Outcomes(n, native /\ <<"snapshot", a>> \in altered) : Conclude(a, t)
  BY DEF EndTrial
<1> HIDE DEF n
<1>4. /\ t.number = n /\ t.status \in {"passed", "failed", "invalid"}
      /\ \E s \in {"passed", "failed", "invalid"}, ev \in {"passed", "failed", "none"},
            e \in Envs \cup {None} : t = Trial(n, s, ev, e)
      /\ t.status = "passed" => t.evidence = "passed" /\ t.env \in Envs
      /\ t.status = "invalid" => t.evidence \in {"passed", "none"}
  BY <1>3 DEF Outcomes, Trial
<1>5. t \in Trials /\ Attempt(t, n) /\ (t.status = "passed" => t.env \in Envs)
  <2>1. n \in 0..N
    BY <1>2 DEF n
  <2>2. t \in Trials
    <3>1. PICK s \in {"passed", "failed", "invalid"}, ev \in {"passed", "failed", "none"},
               e \in Envs \cup {None} : t = Trial(n, s, ev, e)
      BY <1>4
    <3>2. s \in {"", "passed", "failed", "invalid"}
      OBVIOUS
    <3>3. QED BY <2>1, <3>1, <3>2 DEF Trial, Trials
  <2>3. Attempt(t, n)
    BY <1>4 DEF Attempt
  <2>4. QED BY <1>4, <2>2, <2>3
<1>6. QED BY <1>1, <1>3, <1>5, ConcludeStep DEF n

LEMMA RecordStep ==
  ASSUME SeriesInv, NEW a \in Arms, RecordTrial(a)
  PROVE  /\ SeriesInv' /\ Others(a)
         /\ at[a] = "recording" /\ at'[a] = "idle" /\ UNCHANGED <<trials, drifted>>
         /\ (returned'[a] # "error" /\ Saved(a)) => Saved(a)'
<1> DEFINE n == Len(trials[a])
           t == trials[a][n]
<1>1. /\ at[a] = "recording" /\ at' = [at EXCEPT ![a] = "idle"]
      /\ UNCHANGED <<trials, tally, expected, status, drifted>>
  BY DEF RecordTrial
<1>2. /\ trials[a] \in Seq(Trials) /\ ArmInv(a) /\ n >= 1 /\ n <= N /\ disk[a] \in Dirs
      /\ at'[a] = "idle" /\ \A b \in Arms : b # a => at'[b] = at[b]
  BY <1>1 DEF SeriesInv, SeriesTypes, ArmInv, Stage
<1>3. n \in Nat /\ n \in 1..N /\ n \in DOMAIN trials[a] /\ DOMAIN trials[a] = 1..n /\ t \in Trials
  <2>1. n \in Nat /\ DOMAIN trials[a] = 1..n
    BY <1>2
  <2>2. n \in 1..N /\ n \in 1..n
    BY <1>2, <2>1, Sizes
  <2>3. QED BY <1>2, <2>1, <2>2, ElementOfSeq
<1>4. CASE UNCHANGED <<disk, halted>> /\ returned' = [returned EXCEPT ![a] = "error"]
  <2>1. returned' \in [Arms -> {"passed", "failed", "invalid", "error", None}]
        /\ returned'[a] = "error"
    BY <1>4 DEF SeriesInv, SeriesTypes
  <2>2. SeriesTypes'
    BY <1>1, <1>4, <2>1 DEF SeriesInv, SeriesTypes
  <2>3. ArmInv(a)'
    BY <1>1, <1>2, <1>4 DEF ArmInv, Tallied, OneEnvironment, Void, Attempts, Stage, Closing,
                            ResultOf, Ended
  <2>4. ASSUME NEW b \in Arms PROVE ArmInv(b)'
    <3>1. CASE b = a
      BY <2>3, <3>1
    <3>2. CASE b # a
      BY <1>1, <1>2, <1>4, <3>2, OtherArm DEF SeriesInv
    <3>3. QED BY <3>1, <3>2
  <2>5. Others(a)
    BY <1>1, <1>2, <1>4 DEF Others
  <2>6. QED BY <1>1, <1>2, <2>1, <2>2, <2>4, <2>5 DEF SeriesInv
<1>5. CASE /\ disk' = [disk EXCEPT ![a].trials[n] = t]
           /\ halted' = [halted EXCEPT ![a] = @ \/ t.status = "failed"]
           /\ returned' = [returned EXCEPT ![a] = IF t.status = "" THEN "invalid" ELSE t.status]
  <2> HIDE DEF t
  <2>1. /\ disk'[a] = [disk[a] EXCEPT !.trials = [disk[a].trials EXCEPT ![n] = t]]
        /\ \A b \in Arms : b # a => disk'[b] = disk[b] /\ halted'[b] = halted[b]
    BY <1>5 DEF SeriesInv, SeriesTypes
  <2>2. /\ disk'[a] \in Dirs /\ disk'[a].result = disk[a].result
        /\ disk'[a].environment = disk[a].environment /\ disk'[a].text = disk[a].text
        /\ disk'[a].trials = [disk[a].trials EXCEPT ![n] = t]
        /\ disk[a].trials \in [1..N -> Trials \cup {None}]
    <3> DEFINE X == [disk[a].trials EXCEPT ![n] = t]
    <3>1. disk[a].trials \in [1..N -> Trials \cup {None}]
      BY <1>2 DEF Dirs
    <3>2. X \in [1..N -> Trials \cup {None}]
      BY <1>3, <3>1
    <3> HIDE DEF X
    <3>3. disk'[a] = [disk[a] EXCEPT !.trials = X]
      BY <2>1 DEF X
    <3>4. /\ disk'[a] \in Dirs /\ disk'[a].trials = X
          /\ disk'[a].result = disk[a].result
          /\ disk'[a].environment = disk[a].environment /\ disk'[a].text = disk[a].text
      BY <1>2, <3>2, <3>3 DEF Dirs
    <3>5. QED BY <3>1, <3>4 DEF X
  <2>3. disk' \in [Arms -> Dirs]
    BY <1>5, <2>1, <2>2 DEF SeriesInv, SeriesTypes
  <2>4. halted' \in [Arms -> BOOLEAN] /\ (halted[a] => halted'[a])
    BY <1>5 DEF SeriesInv, SeriesTypes
  <2>5. /\ (IF t.status = "" THEN "invalid" ELSE t.status) \in {"passed", "failed", "invalid"}
    BY <1>3 DEF Trials
  <2>6. returned' \in [Arms -> {"passed", "failed", "invalid", "error", None}]
    BY <1>5, <2>5 DEF SeriesInv, SeriesTypes
  <2>7. SeriesTypes'
    BY <1>1, <2>3, <2>4, <2>6 DEF SeriesInv, SeriesTypes
  <2>8. ArmInv(a)'
    BY <1>1, <1>2, <2>2, <2>4 DEF ArmInv, Tallied, OneEnvironment, Void, Attempts, Stage,
                                  Closing, ResultOf, Ended
  <2>9. ASSUME NEW b \in Arms PROVE ArmInv(b)'
    <3>1. CASE b = a
      BY <2>8, <3>1
    <3>2. CASE b # a
      BY <1>1, <1>2, <2>1, <3>2, OtherArm DEF SeriesInv
    <3>3. QED BY <3>1, <3>2
  <2>10. Others(a)
    BY <1>1, <1>2, <2>1 DEF Others
  <2>11. ASSUME Saved(a), ~drifted[a] PROVE Saved(a)'
    <3>1. ASSUME NEW i \in 1..N
          PROVE  disk'[a].trials[i] = IF i \in DOMAIN trials[a] THEN trials[a][i] ELSE None
      <4>1. CASE i = n
        BY <1>3, <2>2, <3>1, <4>1 DEF t
      <4>2. CASE i # n
        BY <1>1, <2>2, <2>11, <3>1, <4>2 DEF Saved
      <4>3. QED BY <4>1, <4>2
    <3>2. QED BY <1>1, <1>2, <3>1 DEF Saved
  <2>12. drifted[a] => Saved(a)'
    BY <1>1 DEF Saved
  <2>13. QED BY <1>1, <1>2, <2>7, <2>9, <2>10, <2>11, <2>12 DEF SeriesInv
<1>6. QED BY <1>4, <1>5 DEF RecordTrial

LEMMA FinishStep ==
  ASSUME SeriesInv, NEW a \in Arms, NEW native, Finish(a, native)
  PROVE  /\ SeriesInv' /\ Others(a) /\ (Saved(a) => Saved(a)')
         /\ at[a] = "idle" /\ at'[a] \in Ended /\ Len(trials'[a]) = Len(trials[a])
         /\ (drifted[a] => drifted'[a]) /\ disk'[a].result = None
<1> DEFINE looked == altered \cap Shared # {} \/ (native /\ <<"snapshot", a>> \in altered)
<1>1. /\ at[a] = "idle" /\ UNCHANGED <<returned, altered>>
      /\ at' = [at EXCEPT ![a] = IF expected'[a] = None THEN "result" ELSE "environment"]
  BY DEF Finish
<1>2. PICK s \in Evaluate(trials'[a]) : status' = [status EXCEPT ![a] = s]
  BY DEF Finish
<1>3. /\ ArmInv(a) /\ trials[a] \in Seq(Trials)
      /\ at'[a] = (IF expected'[a] = None THEN "result" ELSE "environment")
      /\ status'[a] = s /\ s \in Statuses
      /\ \A b \in Arms : b # a => at'[b] = at[b] /\ status'[b] = status[b]
      /\ disk[a].result = None /\ disk[a].environment = None
  <2>1. s \in Statuses
    BY <1>2, EvaluateStatus DEF Statuses
  <2>2. QED BY <1>1, <1>2, <2>1 DEF SeriesInv, SeriesTypes, ArmInv, Closing, Ended
<1>4. CASE looked
  <2>1. Invalidate(a, trials[a])
    BY <1>4 DEF Finish
  <2>2. /\ Tallied(a)' /\ OneEnvironment(a)' /\ Attempts(a)'
        /\ trials' \in [Arms -> Seq(Trials)] /\ tally' \in [Arms -> Tallies]
        /\ expected' = [expected EXCEPT ![a] = None]
        /\ halted' = [halted EXCEPT ![a] = TRUE] /\ drifted' = [drifted EXCEPT ![a] = TRUE]
        /\ disk' \in [Arms -> Dirs]
        /\ disk'[a].result = None /\ disk'[a].environment = None
        /\ \A b \in Arms : b # a => /\ trials'[b] = trials[b] /\ tally'[b] = tally[b]
                                    /\ disk'[b] = disk[b]
        /\ Evaluate(trials'[a]) = {"invalid"}
        /\ Len(trials'[a]) = Len(trials[a]) /\ Len(trials[a]) <= N
        /\ \A i \in DOMAIN trials'[a] : trials'[a][i].status = "invalid"
    BY <1>1, <2>1, VoidStep
  <2>3. /\ expected'[a] = None /\ halted'[a] /\ drifted'[a] /\ s = "invalid"
        /\ at'[a] = "result"
        /\ \A b \in Arms : b # a => /\ expected'[b] = expected[b] /\ halted'[b] = halted[b]
                                    /\ drifted'[b] = drifted[b]
    BY <1>2, <1>3, <2>2 DEF SeriesInv, SeriesTypes
  <2>4. SeriesTypes'
    BY <1>1, <1>2, <1>3, <2>2 DEF SeriesInv, SeriesTypes, Ended
  <2>5. Void(a)' /\ Stage(a)' /\ Closing(a)'
    BY <1>2, <1>3, <2>2, <2>3 DEF Void, Stage, Closing, Ended
  <2>6. ASSUME NEW b \in Arms PROVE ArmInv(b)'
    <3>1. CASE b = a
      BY <2>2, <2>5, <3>1 DEF ArmInv
    <3>2. CASE b # a
      BY <1>3, <2>2, <2>3, <3>2, OtherArm DEF SeriesInv
    <3>3. QED BY <3>1, <3>2
  <2>7. Others(a) /\ Saved(a)' /\ at'[a] \in Ended
    BY <1>3, <2>2, <2>3 DEF Others, Saved, Ended
  <2>8. QED BY <1>1, <2>2, <2>3, <2>4, <2>6, <2>7 DEF SeriesInv
<1>5. CASE ~looked
  <2>1. UNCHANGED <<trials, tally, expected, halted, drifted, disk>>
    BY <1>5 DEF Finish
  <2>2. SeriesTypes'
    BY <1>1, <1>2, <1>3, <2>1 DEF SeriesInv, SeriesTypes, Ended
  <2>3. Void(a)'
    <3>1. drifted[a] => s = "invalid"
      BY <1>2, <1>3, <2>1, EvaluateVoided DEF ArmInv, Void
    <3>2. QED BY <1>3, <2>1, <3>1 DEF ArmInv, Void
  <2>4. Stage(a)'
    BY <1>2, <1>3, <2>1 DEF ArmInv, Stage, Ended
  <2>5. Closing(a)'
    BY <1>3, <2>1 DEF Closing, Ended
  <2>6. Tallied(a)' /\ OneEnvironment(a)' /\ Attempts(a)'
    BY <1>3, <2>1 DEF ArmInv, Tallied, OneEnvironment, Attempts
  <2>7. ASSUME NEW b \in Arms PROVE ArmInv(b)'
    <3>1. CASE b = a
      BY <2>3, <2>4, <2>5, <2>6, <3>1 DEF ArmInv
    <3>2. CASE b # a
      BY <1>3, <2>1, <3>2, OtherArm DEF SeriesInv
    <3>3. QED BY <3>1, <3>2
  <2>8. Others(a) /\ at'[a] \in Ended
    BY <1>3, <2>1 DEF Others, Ended
  <2>9. Saved(a) => Saved(a)'
    BY <1>1, <1>3, <2>1 DEF Saved
  <2>10. QED BY <1>1, <1>3, <2>1, <2>2, <2>7, <2>8, <2>9 DEF SeriesInv
<1>6. QED BY <1>4, <1>5

LEMMA NextFiles ==
  NextFile("environment") = "result" /\ NextFile("result") = "text" /\ NextFile("text") = "closed"
<1>1. Files[1] = "environment" /\ Files[2] = "result" /\ Files[3] = "text"
  BY DEF Files
<1>2. 1..3 = {1, 2, 3}
  OBVIOUS
<1>3. /\ (CHOOSE i \in 1..3 : Files[i] = "environment") = 1
      /\ (CHOOSE i \in 1..3 : Files[i] = "result") = 2
      /\ (CHOOSE i \in 1..3 : Files[i] = "text") = 3
  BY <1>1, <1>2
<1>4. QED BY <1>1, <1>3 DEF NextFile

LEMMA PublishStep ==
  ASSUME SeriesInv, NEW a \in Arms, Publish(a)
  PROVE  /\ SeriesInv' /\ Others(a) /\ (Saved(a) => Saved(a)') /\ UNCHANGED <<trials, drifted>>
         /\ at[a] \in {"environment", "result", "text"} /\ at'[a] \in Ended
         /\ disk[a].result # None => /\ disk'[a].result = disk[a].result
                                   /\ disk'[a].trials = disk[a].trials
<1>1. /\ at[a] \in {"environment", "result", "text"}
      /\ UNCHANGED <<trials, tally, expected, status, halted, drifted, returned>>
  BY DEF Publish
<1>2. /\ ArmInv(a) /\ disk[a] \in Dirs /\ status[a] \in Evaluate(trials[a])
      /\ status[a] \in Statuses /\ ResultOf(a) \in Results
  <2>1. ArmInv(a) /\ disk[a] \in Dirs /\ status[a] \in Evaluate(trials[a])
    BY <1>1 DEF SeriesInv, SeriesTypes, ArmInv, Stage, Ended
  <2>2. status[a] \in Statuses
    BY <2>1, EvaluateStatus DEF Statuses
  <2>3. QED BY <2>1, <2>2 DEF SeriesInv, SeriesTypes, ResultOf, Results, Statuses, Tallies
<1>3. /\ disk[a].result # None => at[a] = "text"
      /\ at[a] = "text" => disk[a].result = ResultOf(a)
      /\ at[a] = "environment" => disk[a].environment = None
      /\ at[a] \in {"result", "text"} => disk[a].environment = expected[a]
  BY <1>1, <1>2 DEF ArmInv, Closing
<1>4. CASE at' = [at EXCEPT ![a] = "unfinalized"] /\ UNCHANGED disk
  <2>1. at'[a] = "unfinalized" /\ \A b \in Arms : b # a => at'[b] = at[b]
    BY <1>4 DEF SeriesInv, SeriesTypes
  <2>2. SeriesTypes'
    BY <1>1, <1>4 DEF SeriesInv, SeriesTypes, Ended
  <2>3. ArmInv(a)'
    BY <1>1, <1>2, <1>3, <1>4, <2>1 DEF ArmInv, Tallied, OneEnvironment, Void, Attempts,
                                        Stage, Closing, ResultOf, Ended
  <2>4. ASSUME NEW b \in Arms PROVE ArmInv(b)'
    <3>1. CASE b = a
      BY <2>3, <3>1
    <3>2. CASE b # a
      BY <1>1, <1>4, <2>1, <3>2, OtherArm DEF SeriesInv
    <3>3. QED BY <3>1, <3>2
  <2>5. Others(a)
    BY <1>1, <1>4, <2>1 DEF Others
  <2>6. Saved(a) => Saved(a)'
    BY <1>1, <1>4, <2>1 DEF Saved
  <2>7. QED BY <1>1, <1>4, <2>1, <2>2, <2>4, <2>5, <2>6 DEF SeriesInv, Ended
<1>5. CASE disk' = [disk EXCEPT ![a] = Written(a)] /\ at' = [at EXCEPT ![a] = NextFile(at[a])]
  <2>1. /\ disk'[a] = Written(a) /\ at'[a] = NextFile(at[a])
        /\ \A b \in Arms : b # a => disk'[b] = disk[b] /\ at'[b] = at[b]
    BY <1>5 DEF SeriesInv, SeriesTypes
  <2>2. /\ at[a] = "environment" => /\ Written(a) = [disk[a] EXCEPT !.environment = expected[a]]
                                    /\ at'[a] = "result"
        /\ at[a] = "result" => /\ Written(a) = [disk[a] EXCEPT !.result = ResultOf(a)]
                               /\ at'[a] = "text"
        /\ at[a] = "text" => /\ Written(a) = [disk[a] EXCEPT !.text = TRUE]
                             /\ at'[a] = "closed"
    BY <2>1, NextFiles DEF Written, ResultOf
  <2>3. expected[a] \in Envs \cup {None}
    BY DEF SeriesInv, SeriesTypes
  <2>4. /\ disk'[a] \in Dirs /\ disk'[a].trials = disk[a].trials
        /\ at[a] = "environment" => /\ disk'[a].environment = expected[a]
                                    /\ disk'[a].result = disk[a].result
        /\ at[a] = "result" => /\ disk'[a].environment = disk[a].environment
                               /\ disk'[a].result = ResultOf(a)
        /\ at[a] = "text" => /\ disk'[a].environment = disk[a].environment
                             /\ disk'[a].result = disk[a].result /\ disk'[a].text
    <3>1. CASE at[a] = "environment"
      BY <1>2, <2>1, <2>2, <2>3, <3>1 DEF Dirs
    <3>2. CASE at[a] = "result"
      BY <1>2, <2>1, <2>2, <3>2 DEF Dirs
    <3>3. CASE at[a] = "text"
      <4>1. disk'[a] = [disk[a] EXCEPT !.text = TRUE]
        BY <2>1, <2>2, <3>3
      <4>2. /\ disk'[a].trials = disk[a].trials /\ disk'[a].environment = disk[a].environment
            /\ disk'[a].result = disk[a].result
        BY <1>2, <4>1 DEF Dirs
      <4>3. disk'[a].text = TRUE
        BY <1>2, <4>1 DEF Dirs
      <4>4. disk'[a] \in Dirs
        BY <1>2, <4>1 DEF Dirs
      <4>5. QED BY <3>3, <4>2, <4>3, <4>4
    <3>4. QED BY <1>1, <3>1, <3>2, <3>3
  <2>5. SeriesTypes'
    <3>1. disk' \in [Arms -> Dirs]
      BY <1>5, <2>1, <2>4 DEF SeriesInv, SeriesTypes
    <3>2. at'[a] \in {"result", "text", "closed"}
      BY <1>1, <2>2
    <3>3. at' \in [Arms -> {"absent", "refused", "idle", "running", "recording"} \cup Ended]
      BY <1>5, <2>1, <3>2 DEF SeriesInv, SeriesTypes, Ended
    <3>4. QED BY <1>1, <3>1, <3>3 DEF SeriesInv, SeriesTypes
  <2>6. ResultOf(a)' = ResultOf(a)
    BY <1>1 DEF ResultOf
  <2>7. Closing(a)'
    BY <1>1, <1>3, <2>2, <2>4, <2>6 DEF Closing
  <2>8. Tallied(a)' /\ OneEnvironment(a)' /\ Void(a)' /\ Attempts(a)'
    BY <1>1, <1>2 DEF ArmInv, Tallied, OneEnvironment, Void, Attempts
  <2>9. Stage(a)'
    BY <1>1, <1>2, <2>2 DEF ArmInv, Stage, Ended
  <2>10. ASSUME NEW b \in Arms PROVE ArmInv(b)'
    <3>1. CASE b = a
      BY <2>7, <2>8, <2>9, <3>1 DEF ArmInv
    <3>2. CASE b # a
      BY <1>1, <2>1, <3>2, OtherArm DEF SeriesInv
    <3>3. QED BY <3>1, <3>2
  <2>11. Others(a) /\ at'[a] \in Ended
    BY <1>1, <2>1, <2>2 DEF Others, Ended
  <2>12. Saved(a) => Saved(a)'
    BY <1>1, <2>2, <2>4 DEF Saved
  <2>13. disk[a].result # None => disk'[a].result = disk[a].result
    BY <1>1, <1>3, <2>4
  <2>14. QED BY <1>1, <2>4, <2>5, <2>10, <2>11, <2>12, <2>13 DEF SeriesInv
<1>6. QED BY <1>4, <1>5 DEF Publish

\* A step that leaves the series and their files alone.
Aside ==
  /\ UNCHANGED <<at, trials, tally, expected, status, halted, drifted, disk>>
  /\ returned' = returned \/ \E a \in Arms : returned' = [returned EXCEPT ![a] = None]

\* Every operation of a series, as its callers use it.
Operation(a) ==
  \/ Start(a) \/ StartFails(a) \/ Refuse(a) \/ BeginTrial(a, mode.native)
  \/ EndTrial(a, mode.native) \/ RecordTrial(a) \/ Finish(a, mode.native) \/ Publish(a)

LEMMA AsideStep ==
  ASSUME SeriesInv, Aside
  PROVE  SeriesInv' /\ \A a \in Arms : Saved(a) => Saved(a)'
<1>1. returned' \in [Arms -> {"passed", "failed", "invalid", "error", None}]
  BY DEF Aside, SeriesInv, SeriesTypes
<1>2. SeriesTypes'
  BY <1>1 DEF Aside, SeriesInv, SeriesTypes
<1>3. ASSUME NEW a \in Arms PROVE ArmInv(a)' /\ (Saved(a) => Saved(a)')
  BY OtherArm DEF Aside, SeriesInv, Saved
<1>4. QED BY <1>2, <1>3 DEF SeriesInv

LEMMA OperationStep ==
  ASSUME SeriesInv, NEW a \in Arms, Operation(a)
  PROVE  /\ SeriesInv' /\ Others(a)
         /\ disk[a].result # None => /\ disk'[a].result = disk[a].result
                                     /\ disk'[a].trials = disk[a].trials
<1>1. disk[a].result # None => at[a] \in {"text", "closed", "unfinalized"}
  BY DEF SeriesInv, ArmInv, Closing
<1>2. CASE Start(a) \/ StartFails(a)
  BY <1>1, <1>2, StartStep
<1>3. CASE Refuse(a)
  BY <1>1, <1>3, RefuseStep
<1>4. CASE BeginTrial(a, mode.native)
  BY <1>1, <1>4, BeginStep
<1>5. CASE EndTrial(a, mode.native)
  BY <1>1, <1>5, EndStep
<1>6. CASE RecordTrial(a)
  BY <1>1, <1>6, RecordStep
<1>7. CASE Finish(a, mode.native)
  BY <1>1, <1>7, FinishStep
<1>8. CASE Publish(a)
  BY <1>8, PublishStep
<1>9. QED BY <1>2, <1>3, <1>4, <1>5, <1>6, <1>7, <1>8 DEF Operation

-----------------------------------------------------------------------------
(* The two callers.                                                        *)

LEMMA TwoArms ==
  /\ Arms = {Baseline, Candidate} /\ Baseline # Candidate
  /\ Running \subseteq Arms /\ Baseline \in Arms /\ Candidate \in Arms
  /\ (mode.caller = "run" => Running = {Baseline})
  /\ Current \in Arms /\ (mode.caller = "run" => Current = Baseline)
<1>1. Arms = {Baseline, Candidate} /\ Baseline # Candidate
  BY ABAssumption DEF Names, Baseline, Candidate
<1>2. Running \subseteq Arms /\ (mode.caller = "run" => Running = {Baseline})
  BY <1>1 DEF Running
<1>3. Current \in Arms /\ (mode.caller = "run" => Current = Baseline)
  BY <1>1 DEF Current, SlotArm
<1>4. QED BY <1>1, <1>2, <1>3

\* Every step is an operation of one series, or touches none.
LEMMA OneOperation ==
  ASSUME [Next]_vars
  PROVE  Aside \/ \E a \in Arms : Operation(a)
<1>1. CASE StartNext
  BY <1>1, TwoArms DEF StartNext, Operation
<1>2. CASE Call
  BY <1>2, TwoArms DEF Call, Operation, Aside, seriesVars, series
<1>3. CASE TrialEnds \/ TrialRecorded
  BY <1>3, TwoArms DEF TrialEnds, TrialRecorded, Operation
<1>4. CASE RunContinues \/ ABContinues
  BY <1>4, TwoArms DEF RunContinues, ABContinues, OnlyReturnedChanges, ClearReturned, Aside
<1>5. CASE FinishNext
  BY <1>5, TwoArms DEF FinishNext, Operation
<1>6. CASE RunReturns \/ ABReturns
  BY <1>6 DEF RunReturns, ABReturns, Aside, seriesVars, series
<1>7. CASE ABJudges
  BY <1>7 DEF ABJudges, Aside, series
<1>8. CASE AlterWatched
  BY <1>8 DEF AlterWatched, Alter, Aside, series
<1>9. CASE UNCHANGED vars
  BY <1>9 DEF vars, seriesVars, series, Aside
<1>10. QED BY <1>1, <1>2, <1>3, <1>4, <1>5, <1>6, <1>7, <1>8, <1>9 DEF Next, Step

LEMMA SeriesNext ==
  ASSUME SeriesInv, [Next]_vars
  PROVE  SeriesInv'
BY OneOperation, OperationStep, AsideStep

LEMMA SeriesInit == InitAB => SeriesInv
<1> SUFFICES ASSUME InitAB PROVE SeriesInv
  OBVIOUS
<1>1. \A s : Count(<<>>, s) = 0
  <2>1. <<>> \in Seq(Trials) /\ DOMAIN <<>> = {}
    OBVIOUS
  <2>2. QED BY <2>1, CountNone
<1>2. EmptyDir \in Dirs /\ EmptyDir.result = None /\ EmptyDir.environment = None
  BY DEF EmptyDir, Dirs
<1>3. Tally(0, 0, 0) \in Tallies /\ 0 + 0 = 0
  BY DEF Tally, Tallies
<1>4. <<>> \in Seq(Trials) /\ Len(<<>>) = 0 /\ DOMAIN <<>> = {} /\ 0 <= N
  BY Sizes
<1>5. SeriesTypes
  BY <1>2, <1>3, <1>4 DEF InitAB, Init, SeriesTypes
<1>6. ASSUME NEW a \in Arms PROVE ArmInv(a)
  <2>1. /\ at[a] = "absent" /\ trials[a] = <<>> /\ tally[a] = Tally(0, 0, 0)
        /\ status[a] = None /\ ~drifted[a] /\ disk[a] = EmptyDir
    BY DEF InitAB, Init
  <2>2. Tallied(a)
    BY <1>1, <1>3, <2>1 DEF Tallied
  <2>3. OneEnvironment(a) /\ Void(a) /\ Attempts(a)
    BY <1>4, <2>1 DEF OneEnvironment, Void, Attempts
  <2>4. Stage(a) /\ Closing(a)
    BY <1>2, <1>4, <2>1 DEF Stage, Closing, Ended
  <2>5. QED BY <2>2, <2>3, <2>4 DEF ArmInv
<1>7. QED BY <1>5, <1>6 DEF SeriesInv

LEMMA SeriesInvariance == Spec => []SeriesInv
<1>1. SeriesInv /\ [Next]_vars => SeriesInv'
  BY SeriesNext
<1>2. QED BY <1>1, SeriesInit, PTL DEF Spec

-----------------------------------------------------------------------------
(* What the invariant of the series says to their readers.                 *)

LEMMA HonestSeries ==
  ASSUME SeriesInv
  PROVE  SeriesIsHonest /\ DriftVoidsSeries
<1>1. TallyIsHonest
  BY DEF SeriesInv, ArmInv, Tallied, TallyIsHonest
<1>2. DriftVoidsSeries
  BY DEF SeriesInv, ArmInv, Void, DriftVoidsSeries
<1>3. ASSUME NEW a \in Arms, disk[a].result # None, disk[a].result.status = "passed"
      PROVE  /\ Len(disk[a].result.trials) = N /\ ~disk[a].result.drift
             /\ Count(disk[a].result.trials, "passed") >= MinValid
             /\ \A i \in 1..N : disk[a].result.trials[i].status \in {"passed", "invalid"}
             /\ \A i \in 1..N : disk[a].result.trials[i].status = "passed" =>
                  disk[a].result.trials[i].env = disk[a].result.environment
  <2>1. /\ ArmInv(a) /\ trials[a] \in Seq(Trials)
        /\ at[a] \in Ended /\ disk[a].result = ResultOf(a)
    BY <1>3 DEF SeriesInv, SeriesTypes, ArmInv, Closing, Ended
  <2>2. /\ disk[a].result.status = status[a] /\ disk[a].result.trials = trials[a]
        /\ disk[a].result.environment = expected[a] /\ disk[a].result.drift = drifted[a]
    BY <2>1 DEF ResultOf
  <2>3. status[a] = "passed" /\ "passed" \in Evaluate(trials[a])
    BY <1>3, <2>1, <2>2 DEF ArmInv, Stage
  <2>4. /\ Len(trials[a]) = N /\ Count(trials[a], "passed") >= MinValid
        /\ \A i \in DOMAIN trials[a] : trials[a][i].status \in {"passed", "invalid"}
    BY <2>1, <2>3, EvaluatePassed
  <2>5. DOMAIN trials[a] = 1..N
    BY <2>1, <2>4
  <2>6. drifted[a] = FALSE
    <3>1. drifted[a] \in BOOLEAN
      BY DEF SeriesInv, SeriesTypes
    <3>2. ASSUME drifted[a] PROVE FALSE
      <4>1. \A i \in DOMAIN trials[a] : trials[a][i].status # "passed"
        BY <2>1, <3>2 DEF ArmInv, Void
      <4>2. Count(trials[a], "passed") = 0
        BY <2>1, <4>1, CountNone
      <4>3. ~(0 >= MinValid)
        BY Sizes
      <4>4. QED BY <2>4, <4>2, <4>3
    <3>3. QED BY <3>1, <3>2
  <2>7. \A i \in DOMAIN trials[a] : trials[a][i].status = "passed" =>
          trials[a][i].env = expected[a]
    BY <2>1 DEF ArmInv, OneEnvironment
  <2>8. QED BY <2>2, <2>4, <2>5, <2>6, <2>7
<1>4. PassedSeriesIsEarned
  BY <1>3 DEF PassedSeriesIsEarned
<1>5. QED BY <1>1, <1>2, <1>4 DEF SeriesIsHonest

\* What a passed series says of itself is what happened, and its counters agree
\* with its trials, whatever is reclassified or written when (ExecuteTrial,
\* invalidateForProtocolIdentityDrift, EvaluateSeries, finalize).
THEOREM SeriesAreHonest == Spec => []SeriesIsHonest
<1>1. SeriesInv => SeriesIsHonest
  BY HonestSeries
<1>2. QED BY <1>1, SeriesInvariance, PTL

\* A change of a protocol identity that the series saw voids it for good, before
\* and after it (invalidateForProtocolIdentityDrift, Finish).
THEOREM DriftVoids == Spec => []DriftVoidsSeries
<1>1. SeriesInv => DriftVoidsSeries
  BY HonestSeries
<1>2. QED BY <1>1, SeriesInvariance, PTL

\* No step of either caller changes a result, or a trial it was computed from,
\* once result.json is written (finalize).
THEOREM ResultsAreFinal == Spec => ResultIsFinal
<1>1. SeriesInv /\ [Next]_vars =>
        [\A a \in Arms : disk[a].result # None =>
           disk'[a].result = disk[a].result /\ disk'[a].trials = disk[a].trials]_vars
  <2> SUFFICES ASSUME SeriesInv, [Next]_vars, NEW a \in Arms, disk[a].result # None
               PROVE  disk'[a].result = disk[a].result /\ disk'[a].trials = disk[a].trials
    OBVIOUS
  <2>1. CASE Aside
    BY <2>1 DEF Aside
  <2>2. CASE \E b \in Arms : Operation(b)
    <3>1. PICK b \in Arms : Operation(b)
      BY <2>2
    <3>2. /\ Others(b)
          /\ disk[b].result # None => /\ disk'[b].result = disk[b].result
                                      /\ disk'[b].trials = disk[b].trials
      BY <3>1, OperationStep
    <3>3. QED BY <3>2 DEF Others
  <2>3. QED BY <2>1, <2>2, OneOperation
<1>2. QED BY <1>1, SeriesInvariance, PTL DEF Spec, ResultIsFinal

-----------------------------------------------------------------------------
(* The order of an A/B run.  Calls(a, n) is how many of the first n calls  *)
(* of the schedule go to arm a; without a change of an identity that is    *)
(* what the arm has recorded, with one at most one less (Pace).            *)

Calls(a, n) == (n \div 2) + (IF n % 2 = 1 /\ SlotArm(n) = a THEN 1 ELSE 0)

Pace(ts, dr, a, n) == IF dr[a] THEN Len(ts[a]) \in {Calls(a, n) - 1, Calls(a, n)}
                               ELSE Len(ts[a]) = Calls(a, n)
AllPace(ts, dr, n) == \A a \in Arms : Pace(ts, dr, a, n)

LEMMA Halves ==
  ASSUME NEW n \in Nat
  PROVE  n \div 2 \in Nat /\ n % 2 \in {0, 1}
<1>1. n \div 2 \in Nat
  OBVIOUS
<1>2. n % 2 \in 0..1
  OBVIOUS
<1>3. QED BY <1>1, <1>2

LEMMA CallsTyped ==
  ASSUME NEW n \in Nat, NEW a
  PROVE  Calls(a, n) \in Nat /\ Calls(a, n) \in {n \div 2, n \div 2 + 1}
BY Halves DEF Calls

\* The call in slot n goes to its arm, and to no other.
LEMMA OneMoreCall ==
  ASSUME NEW n \in Nat, n >= 1
  PROVE  /\ Calls(SlotArm(n), n) = Calls(SlotArm(n), n - 1) + 1
         /\ \A a \in Arms : a # SlotArm(n) => Calls(a, n) = Calls(a, n - 1)
<1>1. n - 1 \in Nat /\ Baseline # Candidate /\ Arms = {Baseline, Candidate}
  BY TwoArms
<1>2. CASE n % 2 = 1
  <2>1. n \div 2 = (n - 1) \div 2 /\ (n - 1) % 2 = 0
    BY <1>2
  <2>2. QED BY <1>1, <1>2, <2>1, Halves DEF Calls
<1>3. CASE n % 2 = 0
  <2>1. n \div 2 = (n - 1) \div 2 + 1 /\ (n - 1) % 2 = 1 /\ (n + 1) \div 2 = n \div 2
        /\ ((n - 1) + 1) \div 2 = n \div 2
    BY <1>3
  <2>2. SlotArm(n) # SlotArm(n - 1) /\ SlotArm(n) \in Arms /\ SlotArm(n - 1) \in Arms
    BY <1>1, <1>3, <2>1 DEF SlotArm
  <2>3. \A a \in Arms : a # SlotArm(n) => a = SlotArm(n - 1)
    BY <1>1, <2>2
  <2>4. (n - 1) \div 2 \in Nat
    BY <1>1, Halves
  <2>5. QED BY <1>3, <2>1, <2>2, <2>3, <2>4 DEF Calls
<1>4. QED BY <1>2, <1>3, Halves

LEMMA NoCalls == \A a : Calls(a, 0) = 0
BY DEF Calls

\* Arms that keep the pace of the schedule are in step.
LEMMA PaceIsStep ==
  ASSUME SeriesInv, NEW n \in Nat, AllPace(trials, drifted, n)
  PROVE  ArmsStayInStep
<1> DEFINE b == Len(trials[Baseline])
           c == Len(trials[Candidate])
           d == \E a \in Arms : drifted[a]
           h == n \div 2
<1>1. /\ h \in Nat /\ Calls(Baseline, n) \in {h, h + 1} /\ Calls(Candidate, n) \in {h, h + 1}
      /\ b \in Nat /\ c \in Nat
  <2>1. trials[Baseline] \in Seq(Trials) /\ trials[Candidate] \in Seq(Trials)
    BY TwoArms DEF SeriesInv, SeriesTypes
  <2>2. QED BY <2>1, Halves, CallsTyped
<1>2. \A h1, b1, c1, m1, m2 \in Nat :
        (m1 \in {h1, h1 + 1} /\ m2 \in {h1, h1 + 1} /\ b1 \in {m1 - 1, m1} /\ c1 \in {m2 - 1, m2})
          => b1 - c1 <= 2 /\ c1 - b1 <= 2
  OBVIOUS
<1>3. Calls(Baseline, n) \in Nat /\ Calls(Candidate, n) \in Nat
  BY CallsTyped
<1>4. Pace(trials, drifted, Baseline, n) /\ Pace(trials, drifted, Candidate, n)
  BY TwoArms DEF AllPace
<1>5. CASE ~d
  <2>1. b = Calls(Baseline, n) /\ c = Calls(Candidate, n)
    BY <1>4, <1>5, TwoArms DEF Pace
  <2>2. b - c <= 1 /\ c - b <= 1
    BY <1>1, <2>1
  <2>3. QED BY <1>5, <2>2 DEF ArmsStayInStep
<1>6. CASE d
  <2>1. /\ b \in {Calls(Baseline, n) - 1, Calls(Baseline, n)}
        /\ c \in {Calls(Candidate, n) - 1, Calls(Candidate, n)}
    BY <1>4 DEF Pace
  <2>2. b - c <= 2 /\ c - b <= 2
    BY <1>1, <1>2, <1>3, <2>1
  <2>3. QED BY <1>6, <2>2 DEF ArmsStayInStep
<1>7. QED BY <1>5, <1>6

\* What records no trial and takes no change back keeps the pace.
LEMMA PaceStays ==
  ASSUME NEW n \in Nat, AllPace(trials, drifted, n),
         \A a \in Arms : Len(trials'[a]) = Len(trials[a]) /\ (drifted[a] => drifted'[a])
  PROVE  AllPace(trials', drifted', n)
<1>1. ASSUME NEW a \in Arms PROVE Pace(trials', drifted', a, n)
  <2>1. Pace(trials, drifted, a, n)
    BY DEF AllPace
  <2>2. QED BY <2>1 DEF Pace
<1>2. QED BY <1>1 DEF AllPace

\* A call that recorded a trial, or refused to because an identity changed.
LEMMA PaceCalled ==
  ASSUME SeriesInv, NEW n \in Nat, n >= 1, AllPace(trials, drifted, n - 1), NEW a \in Arms, a = SlotArm(n),
         Others(a), ~drifted[a],
         \/ Len(trials'[a]) = Len(trials[a]) + 1
         \/ drifted'[a] /\ Len(trials'[a]) = Len(trials[a])
  PROVE  AllPace(trials', drifted', n)
<1>1. n - 1 \in Nat
  OBVIOUS
<1>2. ASSUME NEW b \in Arms PROVE Pace(trials', drifted', b, n)
  <2>1. CASE b = a
    <3>1. Len(trials[a]) = Calls(a, n - 1) /\ Calls(a, n) = Calls(a, n - 1) + 1
      BY OneMoreCall DEF AllPace, Pace
    <3>2. Calls(a, n - 1) \in Nat
      BY <1>1, CallsTyped
    <3>3. \/ Len(trials'[a]) = Calls(a, n)
          \/ drifted'[a] /\ Len(trials'[a]) = Calls(a, n) - 1
      <4>1. \A k \in Nat : (k + 1) - 1 = k
        OBVIOUS
      <4>2. CASE Len(trials'[a]) = Len(trials[a]) + 1
        <5>1. Len(trials'[a]) = Calls(a, n - 1) + 1
          BY <3>1, <4>2
        <5>2. QED BY <3>1, <5>1
      <4>3. CASE drifted'[a] /\ Len(trials'[a]) = Len(trials[a])
        BY <3>1, <3>2, <4>1, <4>3
      <4>4. QED BY <4>2, <4>3
    <3>4. QED BY <2>1, <3>3 DEF Pace
  <2>2. CASE b # a
    BY <2>2, OneMoreCall DEF AllPace, Pace, Others
  <2>3. QED BY <2>1, <2>2
<1>3. QED BY <1>2 DEF AllPace

Placed ==
  /\ mode \in Modes /\ slot \in Nat /\ slot >= 1
  /\ pc = "start" => slot = 1 /\ \A a \in Arms : trials[a] = <<>> /\ ~drifted[a]

\* Where the two arms of an A/B run are in its schedule.
InPace ==
  /\ \E n \in Nat : AllPace(trials, drifted, n)
  /\ (pc \in {"start", "loop"} \/ (pc = "call" /\ at[Current] = "running"))
       => AllPace(trials, drifted, slot - 1)
  /\ (pc = "call" /\ (\/ at[Current] = "recording"
                      \/ at[Current] = "idle" /\ returned[Current] # "error"))
       => AllPace(trials, drifted, slot)

PaceInv == Placed /\ (mode.caller = "ab" => InPace)

LEMMA PlacedNext ==
  ASSUME SeriesInv, Placed, [Next]_vars
  PROVE  Placed' /\ mode' = mode
<1> USE DEF Placed, callerVars
<1>1. CASE StartNext
  <2>1. UNCHANGED <<trials, drifted, mode, slot>>
    BY <1>1 DEF StartNext, Start, StartFails
  <2>2. QED BY <1>1, <2>1 DEF StartNext
<1>2. CASE Call
  BY <1>2 DEF Call
<1>3. CASE TrialEnds \/ TrialRecorded
  BY <1>3 DEF TrialEnds, TrialRecorded
<1>4. CASE RunContinues
  BY <1>4 DEF RunContinues, Return
<1>5. CASE ABContinues
  <2>1. mode' = mode /\ pc' \in {"loop", "finish"} /\ slot' = slot + 1
    BY <1>5 DEF ABContinues
  <2>2. QED BY <2>1
<1>6. CASE FinishNext
  BY <1>6 DEF FinishNext
<1>7. CASE RunReturns \/ ABReturns \/ ABJudges
  BY <1>7 DEF RunReturns, ABReturns, ABJudges, Return
<1>8. CASE AlterWatched
  BY <1>8 DEF AlterWatched
<1>9. CASE UNCHANGED vars
  BY <1>9 DEF vars, seriesVars, series
<1>10. QED BY <1>1, <1>2, <1>3, <1>4, <1>5, <1>6, <1>7, <1>8, <1>9 DEF Next, Step

LEMMA PaceNext ==
  ASSUME SeriesInv, Placed, mode.caller = "ab", InPace, [Next]_vars
  PROVE  InPace'
<1>1. PICK k \in Nat : AllPace(trials, drifted, k)
  BY DEF InPace
<1>2. PICK c \in Arms : c = Current
  BY TwoArms
<1>3. c = SlotArm(slot) /\ slot \in Nat /\ slot >= 1 /\ slot - 1 \in Nat
  BY <1>2 DEF Current, Placed
<1>4. UNCHANGED <<mode, slot>> => Current' = c
  BY <1>2 DEF Current
<1>5. CASE StartNext
  <2>1. UNCHANGED <<trials, drifted, slot>> /\ pc = "start" /\ pc' \in {"start", "loop", "finish", "done"}
    BY <1>5 DEF StartNext, Start, StartFails, Return
  <2>2. QED BY <1>1, <2>1 DEF InPace
<1>6. CASE Call
  <2>1. /\ pc = "loop" /\ UNCHANGED <<mode, slot>> /\ AllPace(trials, drifted, slot - 1)
    BY <1>6 DEF Call, InPace
  <2>2. CASE pc' = "finish" /\ UNCHANGED seriesVars
    BY <1>1, <2>2 DEF InPace, seriesVars, series
  <2>3. CASE Refuse(c) /\ pc' = "call"
    <3>1. UNCHANGED <<at, trials, drifted>> /\ at[c] = "idle" /\ returned'[c] = "error"
      BY <2>3, RefuseStep
    <3>2. QED BY <1>1, <1>4, <2>1, <2>3, <3>1 DEF InPace
  <2>4. CASE BeginTrial(c, mode.native) /\ pc' = "call"
    <3>1. /\ Others(c) /\ ~drifted[c]
          /\ \/ at'[c] = "running" /\ UNCHANGED <<trials, drifted>>
             \/ at'[c] = "recording" /\ Len(trials'[c]) = Len(trials[c]) + 1
             \/ at'[c] = "idle" /\ drifted'[c] /\ Len(trials'[c]) = Len(trials[c])
      BY <2>4, BeginStep
    <3>2. CASE at'[c] = "running" /\ UNCHANGED <<trials, drifted>>
      BY <1>1, <1>4, <2>1, <2>4, <3>2 DEF InPace
    <3>3. CASE \/ at'[c] = "recording" /\ Len(trials'[c]) = Len(trials[c]) + 1
               \/ at'[c] = "idle" /\ drifted'[c] /\ Len(trials'[c]) = Len(trials[c])
      <4>1. AllPace(trials', drifted', slot)
        BY <1>3, <2>1, <3>1, <3>3, PaceCalled
      <4>2. QED BY <1>3, <1>4, <2>1, <2>4, <3>3, <4>1 DEF InPace
    <3>4. QED BY <3>1, <3>2, <3>3
  <2>5. QED BY <1>2, <1>6, <2>2, <2>3, <2>4 DEF Call
<1>7. CASE TrialEnds
  <2>1. pc = "call" /\ EndTrial(c, mode.native) /\ UNCHANGED <<mode, slot, pc>>
    BY <1>2, <1>7 DEF TrialEnds, callerVars
  <2>2. /\ Others(c) /\ at[c] = "running" /\ at'[c] = "recording"
        /\ Len(trials'[c]) = Len(trials[c]) + 1
    BY <2>1, EndStep
  <2>3. ~drifted[c] /\ AllPace(trials, drifted, slot - 1)
    BY <1>2, <2>1, <2>2 DEF SeriesInv, ArmInv, Stage, Void, InPace
  <2>4. AllPace(trials', drifted', slot)
    BY <1>3, <2>2, <2>3, PaceCalled
  <2>5. QED BY <1>3, <1>4, <2>1, <2>2, <2>4 DEF InPace
<1>8. CASE TrialRecorded
  <2>1. pc = "call" /\ RecordTrial(c) /\ UNCHANGED <<mode, slot, pc>>
    BY <1>2, <1>8 DEF TrialRecorded, callerVars
  <2>2. at[c] = "recording" /\ at'[c] = "idle" /\ UNCHANGED <<trials, drifted>>
    BY <2>1, RecordStep
  <2>3. AllPace(trials, drifted, slot)
    BY <1>2, <2>1, <2>2 DEF InPace
  <2>4. QED BY <1>3, <1>4, <2>1, <2>2, <2>3 DEF InPace
<1>9. CASE ABContinues
  <2>1. /\ pc = "call" /\ at[c] = "idle" /\ UNCHANGED <<trials, drifted>> /\ slot' = slot + 1
        /\ pc' \in {"loop", "finish"} /\ (pc' = "loop" => returned[c] # "error")
    BY <1>2, <1>9 DEF ABContinues, CallReturned, OnlyReturnedChanges
  <2>2. pc' = "loop" => AllPace(trials, drifted, slot)
    BY <1>2, <2>1 DEF InPace
  <2>3. slot' - 1 = slot
    BY <1>3, <2>1
  <2>4. QED BY <1>1, <2>1, <2>2, <2>3 DEF InPace
<1>10. CASE FinishNext
  <2>1. pc = "finish" /\ pc' = "finish"
    BY <1>10 DEF FinishNext, callerVars
  <2>2. PICK a \in Arms : Finish(a, mode.native) \/ Publish(a)
    BY <1>10, TwoArms DEF FinishNext
  <2>3. /\ Others(a) /\ Len(trials'[a]) = Len(trials[a]) /\ (drifted[a] => drifted'[a])
    BY <2>2, FinishStep, PublishStep
  <2>4. AllPace(trials', drifted', k)
    <3>1. \A b \in Arms : Len(trials'[b]) = Len(trials[b]) /\ (drifted[b] => drifted'[b])
      BY <2>3 DEF Others
    <3>2. QED BY <1>1, <3>1, PaceStays
  <2>5. QED BY <1>1, <2>1, <2>4 DEF InPace
<1>11. CASE ABReturns \/ ABJudges
  <2>1. UNCHANGED <<trials, drifted>> /\ pc' \in {"verify", "done"}
    BY <1>11 DEF ABReturns, ABJudges, Return, seriesVars, series
  <2>2. QED BY <1>1, <2>1 DEF InPace
<1>12. CASE AlterWatched \/ UNCHANGED vars
  <2>1. UNCHANGED <<trials, drifted, at, returned, pc, slot, mode>>
    BY <1>12 DEF AlterWatched, Alter, vars, callerVars, seriesVars, series
  <2>2. QED BY <1>2, <1>4, <2>1 DEF InPace
<1>13. QED
  BY <1>5, <1>6, <1>7, <1>8, <1>9, <1>10, <1>11, <1>12
  DEF Next, Step, RunContinues, RunReturns

LEMMA PaceInit == InitAB => PaceInv
<1> SUFFICES ASSUME InitAB PROVE PaceInv
  OBVIOUS
<1>1. Placed
  BY DEF InitAB, Init, Placed
<1>2. AllPace(trials, drifted, 0)
  BY NoCalls DEF InitAB, Init, AllPace, Pace
<1>3. InPace
  BY <1>2 DEF InitAB, InPace
<1>4. QED BY <1>1, <1>3 DEF PaceInv

LEMMA PaceInvariance == Spec => []PaceInv
<1>1. SeriesInv /\ PaceInv /\ [Next]_vars => PaceInv'
  BY PlacedNext, PaceNext DEF PaceInv
<1>2. QED BY <1>1, PaceInit, SeriesInvariance, PTL DEF Spec

\* A passed A/B result whose files verify rests on a passed trial on disk for
\* every call of the schedule.
LEMMA EarnedAB ==
  ASSUME SeriesInv
  PROVE  PassedABIsEarned
<1> SUFFICES ASSUME abResult = "passed", ABVerifies, NEW a \in Arms, NEW i \in 1..N
             PROVE  disk[a].trials[i] # None /\ disk[a].trials[i].status = "passed"
  BY DEF PassedABIsEarned
<1> DEFINE r == disk[a].result
           ts == [b \in Arms |-> disk[b].result.trials]
           st == [b \in Arms |-> disk[b].result.status]
<1>1. Verifies(a) /\ "passed" \in ABStatus(ts, st)
  BY DEF ABVerifies
<1>2. ts[a] = r.trials
  OBVIOUS
<1> HIDE DEF ts, st
<1>3. Len(r.trials) = N /\ Count(r.trials, "passed") = N
  BY <1>1, <1>2 DEF ABStatus
<1>4. r.trials \in Seq(Trials)
  BY <1>1 DEF Verifies, SeriesInv, SeriesTypes, Dirs, Results
<1>5. \A j \in DOMAIN r.trials : r.trials[j].status = "passed"
  BY <1>3, <1>4, CountAll
<1>6. i \in DOMAIN r.trials
  BY <1>3, <1>4
<1>7. disk[a].trials[i] = r.trials[i] /\ r.trials[i] \in Trials
  BY <1>1, <1>4, <1>6, ElementOfSeq DEF Verifies
<1>8. QED BY <1>5, <1>6, <1>7, NoneAssumption

\* A passed A/B result rests on the full schedule, in which neither arm is ever
\* more than one trial ahead, or two when an identity changed (benchmarkab.Run,
\* benchmarkab.Verify).
THEOREM ABRunsAreEarned == Spec => []ABIsEarned
<1>1. SeriesInv /\ PaceInv => ABIsEarned
  <2> SUFFICES ASSUME SeriesInv, PaceInv PROVE ABIsEarned
    OBVIOUS
  <2>1. PassedABIsEarned
    BY EarnedAB
  <2>2. ASSUME mode.caller = "ab" PROVE ArmsStayInStep
    BY <2>2, PaceIsStep DEF PaceInv, InPace
  <2>3. ArmsStayInStep
    BY <2>2 DEF ArmsStayInStep
  <2>4. QED BY <2>1, <2>3 DEF ABIsEarned
<1>2. QED BY <1>1, SeriesInvariance, PaceInvariance, PTL

-----------------------------------------------------------------------------
(* One runtime at a time.                                                  *)

RuntimeInv == mode \in Modes /\ ((pc \in {"start", "loop"} \/ ~mode.toolchain) => runtime = None)

\* The PostgreSQL of one arm is stopped before a trial of the other arm starts
\* one (benchmarkab.Run, stopRuntime).
THEOREM RuntimesTakeTurns == Spec => OneRuntimeAtATime
<1>1. InitAB => RuntimeInv
  BY DEF InitAB, RuntimeInv
<1>2. ASSUME RuntimeInv, [Next]_vars
      PROVE  RuntimeInv' /\ (runtime # None => runtime' \in {runtime, None})
  <2> USE DEF RuntimeInv, callerVars
  <2>1. CASE StartNext
    BY <1>2, <2>1 DEF StartNext
  <2>2. CASE Call
    BY <1>2, <2>2 DEF Call
  <2>3. CASE TrialEnds \/ TrialRecorded
    BY <1>2, <2>3 DEF TrialEnds, TrialRecorded
  <2>4. CASE RunContinues
    <3>1. mode.caller = "run" /\ UNCHANGED <<mode, runtime>>
      BY <2>4 DEF RunContinues
    <3>2. ~mode.toolchain
      BY <1>2, <3>1, ABAssumption DEF IsMode
    <3>3. QED BY <1>2, <3>1, <3>2
  <2>5. CASE ABContinues
    <3>1. PICK stopped \in BOOLEAN :
            /\ stopped \/ mode.toolchain
            /\ runtime' = IF stopped THEN None ELSE runtime
            /\ ~stopped => broken'
      BY <2>5 DEF ABContinues
    <3>2. mode' = mode /\ pc' = (IF broken' THEN "finish" ELSE "loop")
      BY <2>5 DEF ABContinues
    <3>3. QED BY <1>2, <3>1, <3>2
  <2>6. CASE FinishNext
    BY <1>2, <2>6 DEF FinishNext
  <2>7. CASE RunReturns \/ ABReturns \/ ABJudges
    BY <1>2, <2>7 DEF RunReturns, ABReturns, ABJudges, Return
  <2>8. CASE AlterWatched
    BY <1>2, <2>8 DEF AlterWatched
  <2>9. CASE UNCHANGED vars
    BY <1>2, <2>9 DEF vars
  <2>10. QED
    BY <1>2, <2>1, <2>2, <2>3, <2>4, <2>5, <2>6, <2>7, <2>8, <2>9 DEF Next, Step
<1>3. RuntimeInv /\ [Next]_vars => [runtime # None => runtime' \in {runtime, None}]_vars
  BY <1>2
<1>4. RuntimeInv /\ [Next]_vars => RuntimeInv'
  BY <1>2
<1>5. QED BY <1>1, <1>3, <1>4, PTL DEF Spec, OneRuntimeAtATime

-----------------------------------------------------------------------------
(* The plain run: as long as no write failed, and then it returns an error, *)
(* what its series has in memory is what is on disk.                        *)

SavedInv == mode.caller = "run" =>
  /\ \/ Saved(Baseline) \/ pc = "done"
     \/ pc = "call" /\ at[Baseline] = "idle" /\ returned[Baseline] = "error"
  /\ pc # "verify" /\ (pc # "done" => exit = None)
  /\ exit = "ok" => SeriesPassed(Baseline) /\ Saved(Baseline)

LEMMA SavedNext ==
  ASSUME SeriesInv, SavedInv, mode.caller = "run", mode' = mode, [Next]_vars
  PROVE  SavedInv'
<1> USE DEF SavedInv
<1>1. /\ Current = Baseline /\ Baseline \in Arms /\ Running = {Baseline}
      /\ None # "ok" /\ Baseline # Candidate
  <2>1. None # "ok"
    BY NoneAssumption
  <2>2. QED BY <2>1, TwoArms
<1>2. CASE StartNext
  <2>1. /\ pc = "start"
        /\ \/ Start(Baseline) /\ pc' = "loop" /\ UNCHANGED exit
           \/ StartFails(Baseline) /\ Return("error")
    <3>1. mode.caller # "ab"
      OBVIOUS
    <3>2. QED BY <1>1, <1>2, <3>1 DEF StartNext
  <2>2. Saved(Baseline) => Saved(Baseline)'
    BY <1>1, <2>1, StartStep
  <2>3. QED BY <1>1, <2>1, <2>2 DEF Return
<1>3. CASE Call
  <2>1. /\ pc = "loop" /\ UNCHANGED exit
        /\ \/ pc' = "finish" /\ UNCHANGED seriesVars
           \/ pc' = "call" /\ BeginTrial(Baseline, mode.native)
    BY <1>1, <1>3 DEF Call
  <2>2. Saved(Baseline)'
    <3>1. CASE UNCHANGED seriesVars
      BY <2>1, <3>1 DEF Saved, seriesVars, series
    <3>2. CASE BeginTrial(Baseline, mode.native)
      BY <1>1, <2>1, <3>2, BeginStep
    <3>3. QED BY <2>1, <3>1, <3>2
  <2>3. QED BY <1>1, <2>1, <2>2
<1>4. CASE TrialEnds
  <2>1. pc = "call" /\ EndTrial(Baseline, mode.native) /\ UNCHANGED <<pc, exit>>
    BY <1>1, <1>4 DEF TrialEnds, callerVars
  <2>2. at[Baseline] = "running" /\ (Saved(Baseline) => Saved(Baseline)')
    BY <1>1, <2>1, EndStep
  <2>3. QED BY <1>1, <2>1, <2>2
<1>5. CASE TrialRecorded
  <2>1. pc = "call" /\ RecordTrial(Baseline) /\ UNCHANGED <<pc, exit>>
    BY <1>1, <1>5 DEF TrialRecorded, callerVars
  <2>2. /\ at[Baseline] = "recording" /\ at'[Baseline] = "idle"
        /\ (returned'[Baseline] # "error" /\ Saved(Baseline)) => Saved(Baseline)'
    BY <1>1, <2>1, RecordStep
  <2>3. QED BY <1>1, <2>1, <2>2
<1>6. CASE RunContinues
  <2>1. /\ pc = "call" /\ UNCHANGED <<at, trials, drifted, disk>>
        /\ IF returned[Baseline] = "error" THEN pc' = "done" /\ exit' = "error"
           ELSE pc' = "loop" /\ exit' = exit
    <3>1. pc = "call" /\ UNCHANGED <<at, trials, drifted, disk>>
      BY <1>6 DEF RunContinues, CallReturned, OnlyReturnedChanges
    <3>2. IF returned[Current] = "error" THEN Return("error") ELSE pc' = "loop" /\ UNCHANGED exit
      BY <1>6 DEF RunContinues
    <3>3. QED BY <1>1, <3>1, <3>2 DEF Return
  <2>2. Saved(Baseline) => Saved(Baseline)'
    BY <2>1 DEF Saved
  <2>3. QED BY <1>1, <2>1, <2>2
<1>7. CASE FinishNext
  <2>1. pc = "finish" /\ UNCHANGED <<pc, exit>>
        /\ (Finish(Baseline, mode.native) \/ Publish(Baseline))
    BY <1>1, <1>7 DEF FinishNext, callerVars
  <2>2. Saved(Baseline) => Saved(Baseline)'
    BY <1>1, <2>1, FinishStep, PublishStep
  <2>3. QED BY <1>1, <2>1, <2>2
<1>8. CASE RunReturns
  <2>1. /\ pc = "finish" /\ pc' = "done" /\ UNCHANGED <<at, trials, drifted, disk, status>>
        /\ exit' = IF SeriesPassed(Baseline) THEN "ok" ELSE "error"
    BY <1>8 DEF RunReturns, Return, seriesVars, series
  <2>2. Saved(Baseline)' /\ (SeriesPassed(Baseline) => SeriesPassed(Baseline)')
    BY <2>1 DEF Saved, SeriesPassed
  <2>3. QED BY <2>1, <2>2
<1>9. CASE ABReturns
  <2>1. pc = "verify"
    BY <1>9 DEF ABReturns
  <2>2. QED BY <2>1
<1>10. CASE AlterWatched \/ UNCHANGED vars
  <2>1. UNCHANGED <<at, trials, drifted, disk, status, returned, pc, exit>>
    BY <1>10 DEF AlterWatched, Alter, vars, callerVars, seriesVars, series
  <2>2. Saved(Baseline)' = Saved(Baseline) /\ SeriesPassed(Baseline)' = SeriesPassed(Baseline)
    BY <2>1 DEF Saved, SeriesPassed
  <2>3. QED BY <2>1, <2>2
<1>11. QED
  BY <1>2, <1>3, <1>4, <1>5, <1>6, <1>7, <1>8, <1>9, <1>10
  DEF Next, Step, ABContinues, ABJudges

LEMMA SavedInvariance == Spec => []SavedInv
<1>1. InitAB => SavedInv
  <2> SUFFICES ASSUME InitAB PROVE SavedInv
    OBVIOUS
  <2>1. Saved(Baseline)
    <3>1. /\ trials[Baseline] = <<>> /\ DOMAIN <<>> = {}
          /\ \A i \in 1..N : disk[Baseline].trials[i] = None
      <4>1. Baseline \in Arms /\ trials = [a \in Arms |-> <<>>] /\ disk = [a \in Arms |-> EmptyDir]
        BY TwoArms DEF InitAB, Init
      <4>2. DOMAIN <<>> = {}
        OBVIOUS
      <4>3. \A i \in 1..N : EmptyDir.trials[i] = None
        BY DEF EmptyDir
      <4>4. trials[Baseline] = <<>> /\ disk[Baseline] = EmptyDir
        BY <4>1
      <4>5. QED BY <4>2, <4>3, <4>4
    <3>2. QED BY <3>1 DEF Saved
  <2>2. None # "ok"
    BY NoneAssumption
  <2>3. QED BY <2>1, <2>2 DEF InitAB, SavedInv
<1>2. SeriesInv /\ PaceInv /\ SavedInv /\ [Next]_vars => SavedInv'
  <2> SUFFICES ASSUME SeriesInv, PaceInv, SavedInv, [Next]_vars
               PROVE  SavedInv'
    OBVIOUS
  <2>1. mode' = mode /\ mode \in Modes
    BY PlacedNext DEF PaceInv, Placed
  <2>2. CASE mode.caller = "run"
    BY <2>1, <2>2, SavedNext
  <2>3. CASE mode.caller # "run"
    BY <2>1, <2>3 DEF SavedInv
  <2>4. QED BY <2>1, <2>2, <2>3
<1>3. QED BY <1>1, <1>2, SeriesInvariance, PaceInvariance, PTL DEF Spec

\* A closed, passed and saved series passes every look of its verifier.
LEMMA PassedVerifies ==
  ASSUME SeriesInv, NEW a \in Arms, SeriesPassed(a), Saved(a),
         <<"snapshot", a>> \notin altered, \A i \in 1..N : trials[a][i].evidence # "none"
  PROVE  Verifies(a)
<1> DEFINE r == disk[a].result
<1>1. /\ at[a] = "closed" /\ status[a] = "passed" /\ ArmInv(a) /\ trials[a] \in Seq(Trials)
      /\ disk[a] \in Dirs
  BY DEF SeriesPassed, SeriesInv, SeriesTypes
<1>2. /\ r = ResultOf(a) /\ disk[a].text /\ disk[a].environment = expected[a]
      /\ "passed" \in Evaluate(trials[a])
  BY <1>1 DEF ArmInv, Closing, Stage, Ended
<1>3. /\ r.status = "passed" /\ r.trials = trials[a] /\ r.tally = tally[a]
      /\ r.environment = expected[a]
  BY <1>1, <1>2 DEF ResultOf
<1>4. r # None
  <2>1. ResultOf(a) \in Results
    BY <1>1 DEF SeriesInv, SeriesTypes, ResultOf, Results, Statuses, Tallies
  <2>2. QED BY <1>2, <2>1, NoneAssumption
<1> HIDE DEF r
<1>5. /\ Len(trials[a]) = N /\ Count(trials[a], "") = 0
      /\ Count(trials[a], "passed") >= MinValid
      /\ \A i \in DOMAIN trials[a] : trials[a][i].status \in {"passed", "invalid"}
  BY <1>1, <1>2, EvaluatePassed
<1>6. DOMAIN trials[a] = 1..N /\ trials[a] # <<>>
  <2>1. DOMAIN trials[a] = 1..N
    <3>1. DOMAIN trials[a] = 1..Len(trials[a])
      BY <1>1, CountFinite
    <3>2. QED BY <1>5, <3>1
  <2>2. 1 \in 1..N /\ DOMAIN <<>> = {}
    BY Sizes
  <2>3. QED BY <2>1, <2>2
<1>7. ~drifted[a]
  <2>1. ASSUME drifted[a] PROVE FALSE
    <3>1. \A i \in DOMAIN trials[a] : trials[a][i].status # "passed"
      BY <1>1, <2>1 DEF ArmInv, Void
    <3>2. Count(trials[a], "passed") = 0 /\ ~(0 >= MinValid)
      BY <1>1, <3>1, CountNone, Sizes
    <3>3. QED BY <1>5, <3>2
  <2>2. QED BY <2>1
<1>8. \A i \in 1..N : disk[a].trials[i] = trials[a][i]
  BY <1>1, <1>6, <1>7 DEF Saved
<1>9. ASSUME NEW i \in 1..N PROVE TrialVerifies(r.trials, i, r.environment)
  <2> DEFINE t == trials[a][i]
  <2>1. t \in Trials /\ t.status \in {"passed", "invalid"} /\ Attempt(t, i)
    BY <1>1, <1>5, <1>6, <1>7, ElementOfSeq DEF ArmInv, Attempts
  <2>2. t.evidence # "none"
    OBVIOUS
  <2>3. t.status = "passed" => t.env = expected[a] /\ expected[a] # None
    BY <1>1, <1>6, NoneOutside DEF ArmInv, OneEnvironment
  <2> HIDE DEF t
  <2>4. t.number = i /\ t.evidence = "passed"
    BY <2>1, <2>2 DEF Attempt
  <2>5. r.trials[i] = t
    BY <1>3 DEF t
  <2>6. QED BY <1>3, <2>1, <2>3, <2>4, <2>5 DEF TrialVerifies
<1>10. r.tally = Tally(Count(r.trials, "passed"), Count(r.trials, "failed"),
                       Count(r.trials, "invalid"))
  <2>1. Count(trials[a], "invalid") \in Nat
    BY <1>1, CountFinite
  <2>2. Count(trials[a], "invalid") + 0 = Count(trials[a], "invalid")
    BY <2>1
  <2>3. QED BY <1>1, <1>3, <1>5, <2>2 DEF ArmInv, Tallied
<1>11. \A i \in 1..N : disk[a].trials[i] = IF i \in DOMAIN r.trials THEN r.trials[i] ELSE None
  BY <1>3, <1>6, <1>8
<1>12. \A i \in DOMAIN r.trials : TrialVerifies(r.trials, i, r.environment)
  BY <1>3, <1>6, <1>9
<1>13. /\ r.trials # <<>> /\ r.status \in Evaluate(r.trials)
       /\ disk[a].environment = r.environment
  BY <1>2, <1>3, <1>6
<1>14. QED BY <1>2, <1>4, <1>10, <1>11, <1>12, <1>13 DEF Verifies, r

\* A plain run that returns success leaves a series its own verifier accepts, when
\* every attempt kept evidence and nobody changed the snapshot since
\* (benchmarkrun.Run, benchmarkartifact.Verify).
THEOREM PassedRunsVerify == Spec => []PassedRunVerifies
<1>1. SeriesInv /\ SavedInv => PassedRunVerifies
  <2> SUFFICES ASSUME SeriesInv, SavedInv, mode.caller = "run", exit = "ok",
                      <<"snapshot", Baseline>> \notin altered,
                      \A i \in 1..N : trials[Baseline][i].evidence # "none"
               PROVE  Verifies(Baseline)
    BY DEF PassedRunVerifies
  <2>1. SeriesPassed(Baseline) /\ Saved(Baseline) /\ Baseline \in Arms
    BY TwoArms DEF SavedInv
  <2>2. QED BY <2>1, PassedVerifies
<1>2. QED BY <1>1, SeriesInvariance, SavedInvariance, PTL
=============================================================================
