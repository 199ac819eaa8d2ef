------------------------ MODULE MeasurementProofs ------------------------
(***************************************************************************)
(* Theorems about module MCMeasurement, for every value of its constants:  *)
(* what a run checks of each part on a small instance.  A step of the      *)
(* whole keeps the part and is a step of it, so that the proof of a part   *)
(* speaks of the variables of its component only.                          *)
(***************************************************************************)
EXTENDS MCMeasurement, FiniteSetTheorems, WellFoundedInduction, TLAPS

\* The part stays, and a step of the whole is one of the part.
LEMMA PartSteps ==
  ASSUME [Next]_allVars
  PROVE  /\ part' = part
         /\ part = "verdict" => Verdict!RunNext \/ UNCHANGED VerdictVars
         /\ part = "trial" => Trial!EvidenceNext \/ UNCHANGED TrialVars
         /\ part = "control" => Control!ControlNext \/ UNCHANGED ControlVars
         /\ part = "sampled" => Sampled!SampledNext \/ UNCHANGED SampledVars
         /\ part = "pgbench" => Pgbench!PgbenchNext \/ UNCHANGED PgbenchVars
         /\ part = "background" => Background!BgNext \/ UNCHANGED BackgroundVars
BY DEF Next, allVars, VerdictAlone, TrialAlone, ControlAlone, SampledAlone, PgbenchAlone,
   BackgroundAlone

LEMMA PartStarts ==
  ASSUME Init
  PROVE  /\ part = "verdict" => Verdict!RunInit
         /\ part = "trial" => Trial!EvidenceInit
         /\ part = "control" => Control!ControlInit
         /\ part = "sampled" => Sampled!SampledInit
         /\ part = "pgbench" => Pgbench!PgbenchInit
         /\ part = "background" => Background!BgInit
BY DEF Init, VerdictStarts, TrialStarts, ControlStarts, SampledStarts, PgbenchStarts,
   BackgroundStarts

-----------------------------------------------------------------------------
(* The controls of a trial.  The invariant follows a raw file of another   *)
(* trial: into the directory (Swapped), into what the producer derives     *)
(* (Derived) and into a typed file that names this trial (Bound).  A       *)
(* producer that died and is run again meets its own first file, which is  *)
(* why it need not be followed there.                                      *)

Shown == {"met", "short", "torn"}
RawFiles == {Control!None} \cup [of : {"own", "other"}, shows : Shown]
TypedFiles == {Control!NoTyped} \cup [raw : RawFiles, trial : {"own", "other"}, met : BOOLEAN]
Kinds == {"resource", "reset", "cache", "overhead"}

ControlTypes ==
  /\ ctPc \in {"observe", "derive", "write", "reopen", "load", "keep", "kept", "invalid"}
  /\ ctNext \in 1..4
  /\ raw \in [Kinds -> RawFiles]
  /\ typed \in [Kinds -> TypedFiles] /\ derived \in [Kinds -> TypedFiles]
  /\ refs \in [Kinds -> TypedFiles]
  /\ ctStatus = IF ctPc = "kept" THEN "passed" ELSE "invalid"
  /\ swaps \in Nat /\ early \subseteq Kinds

\* The first file that the producer writes is there, and it will not write it again.
Begun == typed["cache"] # Control!NoTyped
Swapped ==
  ctPc \in {"observe", "derive"} =>
    Begun \/ \A k \in Kinds : raw[k].of = "other" => k \in early
Derived ==
  /\ ctPc = "write" =>
       \/ ctNext = 1 /\ Begun
       \/ \A k \in Kinds : derived[k].raw.of = "other" => k \in early
  /\ ctPc = "write" /\ ctNext > 1 => Begun
  /\ ctPc = "write" => \A k \in Kinds : derived[k] # Control!NoTyped
  /\ ctPc = "keep" => \A k \in Kinds : derived[k].trial = "own"
Bound == \A k \in Kinds :
  typed[k].trial = "own" /\ typed[k].raw.of = "other" => k \in early

\* A reference that the runner kept, and what lies beside it when nobody meddles.
Kept ==
  ctPc = "kept" => \A k \in Kinds :
    /\ refs[k].trial = "own" /\ refs[k].raw.shows = "met" /\ refs[k].met
    /\ k \in Control!Timed => refs[k].raw.of = "own"
    /\ refs[k].raw.of = "other" => k \in early
    /\ swaps = 0 => typed[k] = refs[k] /\ Control!FileVerifies(k)

ControlIInv == ControlTypes /\ Swapped /\ Derived /\ Bound /\ Kept

LEMMA ControlKinds ==
  /\ Control!Controls = Kinds
  /\ \A n \in 1..4 : Control!Observed[n] \in Kinds /\ Control!Written[n] \in Kinds
  /\ Len(Control!Observed) = 4 /\ Len(Control!Written) = 4
  /\ Control!Written[1] = "cache" /\ Control!Timed \subseteq Kinds
BY DEF Control!Controls, Control!Observed, Control!Written, Control!Timed, Kinds

LEMMA ControlInvInit == Control!ControlInit => ControlIInv
<1> USE ControlKinds
<1> SUFFICES ASSUME Control!ControlInit PROVE ControlIInv
  OBVIOUS
<1>1. Control!NoTyped.raw = Control!None /\ Control!NoTyped.trial = "none" /\ Control!None.of = "none"
  BY DEF Control!NoTyped, Control!None, Control!Raw
<1>2. ControlTypes
  BY DEF Control!ControlInit, ControlTypes, RawFiles, TypedFiles
<1>3. Swapped /\ Derived /\ Bound /\ Kept
  BY <1>1 DEF Control!ControlInit, Swapped, Derived, Bound, Kept
<1>4. QED BY <1>2, <1>3 DEF ControlIInv

\* A raw file, a typed file.
LEMMA FileFields ==
  /\ Control!None.of = "none" /\ Control!None.shows = "nothing"
  /\ Control!NoTyped.raw = Control!None /\ Control!NoTyped.trial = "none"
  /\ \A r \in RawFiles : r.of = "other" => r # Control!None
  /\ \A shows \in Shown : Control!Raw("own", shows) \in RawFiles /\ Control!Raw("own", shows).of = "own"
  /\ Control!Raw("other", "met") \in RawFiles
  /\ \A r \in RawFiles, t \in {"own", "other"} :
       /\ Control!Typed(r, t) \in TypedFiles /\ Control!Typed(r, t) # Control!NoTyped
       /\ Control!Typed(r, t).raw = r /\ Control!Typed(r, t).trial = t
       /\ Control!Typed(r, t).met = Control!Met(r)
BY DEF Control!None, Control!NoTyped, Control!Raw, Control!Typed, Control!Met, RawFiles,
   TypedFiles, Shown

LEMMA ControlInvNext == ControlIInv /\ Control!ControlNext => ControlIInv'
<1> USE ControlKinds
<1> SUFFICES ASSUME ControlIInv, Control!ControlNext PROVE ControlIInv'
  OBVIOUS
<1>1. CASE Control!Observe
  <2>1. PICK k \in Kinds : k = Control!Observed[ctNext]
    BY DEF ControlIInv, ControlTypes
  <2>2. CASE raw[k] # Control!None
    <3>1. /\ ctPc = "observe" /\ ctPc' = "derive" /\ ctNext' = 1
          /\ UNCHANGED <<raw, typed, derived, refs, ctStatus, swaps, early>>
      BY <1>1, <2>1, <2>2 DEF Control!Observe
    <3>2. QED BY <3>1 DEF ControlIInv, ControlTypes, Swapped, Derived, Bound, Kept, Begun
  <2>3. CASE raw[k] = Control!None
    <3>1. PICK shows \in Shown :
            /\ ctPc = "observe" /\ ctPc' \in {"observe", "derive"}
            /\ ctNext' = IF ctPc' = "observe" THEN ctNext + 1 ELSE 1
            /\ ctPc' = "observe" => ctNext < 4
            /\ raw' = [raw EXCEPT ![k] = Control!Raw("own", shows)]
            /\ UNCHANGED <<typed, derived, refs, ctStatus, swaps, early>>
      BY <1>1, <2>1, <2>3 DEF Control!Observe, Shown
    <3>2. /\ raw' \in [Kinds -> RawFiles] /\ raw'[k].of = "own"
          /\ \A x \in Kinds : x # k => raw'[x] = raw[x]
      BY <3>1, FileFields DEF ControlIInv, ControlTypes
    <3>3. ControlTypes'
      BY <3>1, <3>2 DEF ControlIInv, ControlTypes
    <3>4. Swapped' /\ Derived' /\ Bound' /\ Kept'
      BY <3>1, <3>2 DEF ControlIInv, Swapped, Derived, Bound, Kept, Begun
    <3>5. QED BY <3>3, <3>4 DEF ControlIInv
  <2>4. QED BY <2>2, <2>3
<1>2. CASE Control!DeriveControls
  <2>1. CASE ~Control!Derivable
    BY <1>2, <2>1
       DEF Control!DeriveControls, ControlIInv, ControlTypes, Swapped, Derived, Bound, Kept, Begun
  <2>2. CASE Control!Derivable
    <3>1. /\ ctPc = "derive" /\ ctPc' = "write" /\ ctNext' = 1
          /\ derived' = Control!Derivation
          /\ UNCHANGED <<raw, typed, refs, ctStatus, swaps, early>>
      BY <1>2, <2>2 DEF Control!DeriveControls
    <3>2. /\ derived' \in [Kinds -> TypedFiles]
          /\ \A k \in Kinds : derived'[k].raw = raw[k] /\ derived'[k] # Control!NoTyped
      BY <3>1, FileFields DEF Control!Derivation, ControlIInv, ControlTypes
    <3>3. QED BY <3>1, <3>2 DEF ControlIInv, ControlTypes, Swapped, Derived, Bound, Kept, Begun
  <2>3. QED BY <2>1, <2>2
<1>3. CASE Control!WriteControl
  <2>1. PICK k \in Kinds : k = Control!Written[ctNext]
    BY DEF ControlIInv, ControlTypes
  <2>2. CASE typed[k] # Control!NoTyped
    <3>1. /\ ctPc = "write" /\ ctPc' = "invalid"
          /\ UNCHANGED <<ctNext, raw, typed, derived, refs, ctStatus, swaps, early>>
      BY <1>3, <2>1, <2>2 DEF Control!WriteControl
    <3>2. QED BY <3>1 DEF ControlIInv, ControlTypes, Swapped, Derived, Bound, Kept, Begun
  <2>3. CASE typed[k] = Control!NoTyped
    <3>1. /\ ctPc = "write" /\ typed' = [typed EXCEPT ![k] = derived[k]]
          /\ ctPc' = IF ctNext < 4 THEN "write" ELSE "reopen"
          /\ ctNext' = IF ctNext < 4 THEN ctNext + 1 ELSE 1
          /\ UNCHANGED <<raw, derived, refs, ctStatus, swaps, early>>
      BY <1>3, <2>1, <2>3 DEF Control!WriteControl
    <3>2. typed' \in [Kinds -> TypedFiles] /\ typed'[k] = derived[k]
          /\ \A x \in Kinds : x # k => typed'[x] = typed[x]
      BY <3>1 DEF ControlIInv, ControlTypes
    <3>3. \A x \in Kinds : derived[x].raw.of = "other" => x \in early
      BY <2>1, <2>3, <3>1 DEF ControlIInv, Derived, Begun
    <3>4. ControlTypes' /\ Swapped' /\ Bound' /\ Kept'
      BY <3>1, <3>2, <3>3 DEF ControlIInv, ControlTypes, Swapped, Bound, Kept
    <3>5. ctNext' > 1 => Begun'
      BY <2>1, <3>1, <3>2 DEF ControlIInv, ControlTypes, Derived, Begun
    <3>6. Derived'
      BY <3>1, <3>3, <3>5 DEF ControlIInv, Derived
    <3>7. QED BY <3>4, <3>6 DEF ControlIInv
  <2>4. QED BY <2>2, <2>3

<1>4. CASE Control!ProducerDies
  BY <1>4
     DEF Control!ProducerDies, ControlIInv, ControlTypes, Swapped, Derived, Bound, Kept, Begun
<1>5. CASE Control!ReopenControls
  BY <1>5
     DEF Control!ReopenControls, ControlIInv, ControlTypes, Swapped, Derived, Bound, Kept,
         Begun
<1>6. CASE Control!LoadControls
  <2>1. CASE ~Control!Derivable
    BY <1>6, <2>1
       DEF Control!LoadControls, ControlIInv, ControlTypes, Swapped, Derived, Bound, Kept, Begun
  <2>2. CASE Control!Derivable
    <3>1. /\ ctPc = "load" /\ ctPc' = "keep"
          /\ derived' = Control!Derivation
          /\ UNCHANGED <<ctNext, raw, typed, refs, ctStatus, swaps, early>>
      BY <1>6, <2>2 DEF Control!LoadControls
    <3>2. /\ derived' \in [Kinds -> TypedFiles]
          /\ \A k \in Kinds : derived'[k].trial = "own"
      BY <3>1, FileFields DEF Control!Derivation, ControlIInv, ControlTypes
    <3>3. QED BY <3>1, <3>2 DEF ControlIInv, ControlTypes, Swapped, Derived, Bound, Kept, Begun
  <2>3. QED BY <2>1, <2>2
<1>7. CASE Control!KeepControls
  <2>1. CASE ~(Control!Reopened /\ Control!Satisfied)
    BY <1>7, <2>1
       DEF Control!KeepControls, ControlIInv, ControlTypes, Swapped, Derived, Bound, Kept, Begun
  <2>2. CASE Control!Reopened /\ Control!Satisfied
    <3>1. /\ ctPc = "keep" /\ ctPc' = "kept" /\ refs' = typed /\ ctStatus' = "passed"
          /\ UNCHANGED <<ctNext, raw, typed, derived, swaps, early>>
      BY <1>7, <2>2 DEF Control!KeepControls
    <3>2. \A k \in Kinds : /\ Control!FileVerifies(k) /\ typed[k] = derived[k]
                           /\ derived[k].trial = "own" /\ derived[k].met
      BY <2>2, <3>1 DEF Control!Reopened, Control!Satisfied, ControlIInv, Derived
    <3>3. \A k \in Kinds : /\ typed[k].raw.shows = "met"
                           /\ k \in Control!Timed => typed[k].raw.of = "own"
      BY <3>2 DEF Control!FileVerifies, Control!SelfConsistent, Control!Met, Control!WindowHolds
    <3>4. \A k \in Kinds : Control!FileVerifies(k)'
      BY <3>1, <3>2 DEF Control!FileVerifies, Control!SelfConsistent, Control!SourceHolds
    <3>5. Kept'
      BY <3>1, <3>2, <3>3, <3>4 DEF Kept, ControlIInv, Bound
    <3>6. QED BY <3>1, <3>5 DEF ControlIInv, ControlTypes, Swapped, Derived, Bound, Begun
  <2>3. QED BY <2>1, <2>2
<1>8. CASE Control!SwapRaw
  <2>1. PICK k \in Kinds :
          /\ raw' = [raw EXCEPT ![k] = Control!Raw("other", "met")]
          /\ early' = IF ctPc \in {"observe", "derive"} THEN early \cup {k} ELSE early
    BY <1>8 DEF Control!SwapRaw
  <2>2. swaps' = swaps + 1
        /\ UNCHANGED <<ctPc, ctNext, typed, derived, refs, ctStatus>>
    BY <1>8 DEF Control!SwapRaw
  <2>3. /\ raw' \in [Kinds -> RawFiles]
        /\ \A x \in Kinds : x # k => raw'[x] = raw[x]
    BY <2>1, FileFields DEF ControlIInv, ControlTypes
  <2>4. early \subseteq early' /\ early' \subseteq Kinds
    BY <2>1 DEF ControlIInv, ControlTypes
  <2>5. ControlTypes' /\ swaps' # 0
    BY <2>2, <2>3, <2>4 DEF ControlIInv, ControlTypes
  <2>6. Swapped'
    BY <2>1, <2>2, <2>3 DEF ControlIInv, Swapped, Begun
  <2>7. Derived' /\ Bound'
    BY <2>2, <2>4 DEF ControlIInv, Derived, Bound, Begun
  <2>8. Kept'
    BY <2>2, <2>4, <2>5 DEF ControlIInv, Kept
  <2>9. QED BY <2>5, <2>6, <2>7, <2>8 DEF ControlIInv
<1>9. CASE Control!SwapTyped
  <2>1. PICK k \in Kinds :
          typed' = [typed EXCEPT ![k] = Control!Typed(Control!Raw("other", "met"), "other")]
    BY <1>9 DEF Control!SwapTyped
  <2>2. swaps' = swaps + 1
        /\ UNCHANGED <<ctPc, ctNext, raw, derived, refs, ctStatus, early>>
    BY <1>9 DEF Control!SwapTyped
  <2>3. /\ typed' \in [Kinds -> TypedFiles]
        /\ typed'[k] # Control!NoTyped /\ typed'[k].trial = "other"
        /\ \A x \in Kinds : x # k => typed'[x] = typed[x]
    BY <2>1, FileFields DEF ControlIInv, ControlTypes
  <2>4. ControlTypes' /\ swaps' # 0
    BY <2>2, <2>3 DEF ControlIInv, ControlTypes
  <2>5. Begun => Begun'
    BY <2>3 DEF Begun, Kinds
  <2>6. Swapped' /\ Derived'
    BY <2>2, <2>5 DEF ControlIInv, Swapped, Derived
  <2>7. Bound'
    BY <2>2, <2>3 DEF ControlIInv, Bound
  <2>8. Kept'
    BY <2>2, <2>4 DEF ControlIInv, Kept
  <2>9. QED BY <2>4, <2>6, <2>7, <2>8 DEF ControlIInv
<1>10. QED BY <1>1, <1>2, <1>3, <1>4, <1>5, <1>6, <1>7, <1>8, <1>9 DEF Control!ControlNext

LEMMA ControlInvStutter == ControlIInv /\ UNCHANGED ControlVars => ControlIInv'
BY DEF ControlVars, ControlIInv, ControlTypes, Swapped, Derived, Bound, Kept, Begun,
   Control!FileVerifies, Control!SelfConsistent, Control!SourceHolds

\* Verified controls are this trial's own, and those of a passed trial that nobody
\* touched verify (benchmarkrun.loadDerivedControls, checkBenchmarkControls).
THEOREM ControlsOfTheTrial == Spec => []ControlsAreOwn
<1> USE ControlKinds
<1> DEFINE I == part = "control" => ControlIInv
<1>1. Init => I
  BY PartStarts, ControlInvInit
<1>2. I /\ [Next]_allVars => I'
  BY PartSteps, ControlInvNext, ControlInvStutter
<1>3. I => ControlsAreOwn
  <2> SUFFICES ASSUME ControlIInv
               PROVE  Control!VerifiedControlsAreOwn /\ Control!WrittenControlsVerify
    BY DEF ControlsAreOwn
  <2>1. Control!VerifiedControlsAreOwn
    <3> SUFFICES ASSUME ctStatus = "passed", Control!ControlsVerify, NEW k \in Kinds
                 PROVE  Control!Met(raw[k]) /\ (raw[k].of = "own" \/ k \in early \ Control!Timed)
      BY DEF Control!VerifiedControlsAreOwn
    <3>1. raw[k] = refs[k].raw
      BY DEF Control!ControlsVerify, Control!FileVerifies, Control!SourceHolds
    <3>2. /\ refs[k].raw.shows = "met"
          /\ k \in Control!Timed => refs[k].raw.of = "own"
          /\ refs[k].raw.of = "other" => k \in early
      BY DEF ControlIInv, ControlTypes, Kept
    <3>3. raw[k].of \in {"own", "other"}
      BY <3>1, <3>2, FileFields DEF ControlIInv, ControlTypes, RawFiles
    <3>4. QED BY <3>1, <3>2, <3>3 DEF Control!Met
  <2>2. Control!WrittenControlsVerify
    BY
       DEF Control!WrittenControlsVerify, Control!ControlsVerify, ControlIInv, ControlTypes,
           Kept
  <2>3. QED BY <2>1, <2>2
<1>4. QED BY <1>1, <1>2, <1>3, PTL DEF Spec

-----------------------------------------------------------------------------
(* Background workloads.  As long as the condition of the property holds   *)
(* (Undisturbed, which is never regained), one start at a time is on its   *)
(* way and the workload is where that start says: nowhere before it forks, *)
(* under the number it remembers until it has written it, and in           *)
(* current.pid from then on (Located).  No number somebody remembers is    *)
(* that of a foreign process (Known).                                      *)

Undisturbed == ~overlapped /\ ~cut /\ ~reused
Forked == {"forked", "open"}

BgTypes ==
  /\ wbPc \in [Users -> Background!Resting \cup Background!Starting \cup Background!Stopping
                         \cup {"look", "read"}]
  /\ wbPid \in [Users -> Pids \cup {"absent", "empty"}]
  /\ procs \in [Pids -> {"none", "ours", "foreign"}]
  /\ pidFile \in Pids \cup {"absent", "empty"}
  /\ overlapped \in BOOLEAN /\ cut \in BOOLEAN /\ reused \in BOOLEAN
OneStart == \A u, v \in Users :
  wbPc[u] \in Background!Starting /\ wbPc[v] \in Background!Starting => u = v
Located ==
  /\ (\A u \in Users : wbPc[u] \notin Forked) => \A p \in Pids : procs[p] = "ours" => p = pidFile
  /\ \A u \in Users : wbPc[u] = "fork" => \A p \in Pids : procs[p] # "ours"
  /\ \A u \in Users : wbPc[u] \in Forked => \A p \in Pids : procs[p] = "ours" => p = wbPid[u]
Known ==
  /\ pidFile \in Pids => procs[pidFile] # "foreign"
  /\ \A u \in Users : wbPc[u] \in Forked \cup Background!Stopping /\ wbPid[u] \in Pids
       => procs[wbPid[u]] # "foreign"
  /\ \A u \in Users : wbPc[u] \in Forked => wbPid[u] \in Pids

BgIInv == BgTypes /\ (Undisturbed => OneStart /\ Located /\ Known)

LEMMA BgInvInit == Background!BgInit => BgIInv
BY PidsAssumption
   DEF Background!BgInit, Background!IsRunning, Background!Resting, Background!Starting,
       Background!Stopping, BgIInv, BgTypes, Undisturbed, OneStart, Located, Known, Forked

LEMMA BgInvNext == BgIInv /\ Background!BgNext => BgIInv'
<1> SUFFICES ASSUME BgIInv, Background!BgNext PROVE BgIInv'
  OBVIOUS
<1> USE PidsAssumption DEF Background!Resting, Background!Starting, Background!Stopping, Forked
<1> DEFINE Holds == OneStart /\ Located /\ Known
<1>1. ASSUME NEW u \in Users, Background!Command(u, "start") \/ Background!Command(u, "look")
      PROVE  BgIInv'
  <2>1. /\ wbPc[u] \in Background!Resting
        /\ \E first \in {"start", "look"} : /\ wbPc' = [wbPc EXCEPT ![u] = first]
             /\ overlapped' = (overlapped \/ (first = "start"
                  /\ \E v \in Users \ {u} : wbPc[v] \in Background!Starting))
        /\ UNCHANGED <<wbPid, procs, pidFile, cut, reused>>
    BY <1>1 DEF Background!Command
  <2>2. BgTypes'
    BY <2>1 DEF BgIInv, BgTypes
  <2>3. ASSUME Undisturbed' PROVE Holds'
    <3>1. Undisturbed /\ Holds
      BY <2>1, <2>3 DEF Undisturbed, BgIInv
    <3>2. OneStart'
      BY <2>1, <2>3, <3>1, ZenonT(30) DEF Undisturbed, OneStart, BgIInv, BgTypes
    <3>3. Located' /\ Known'
      BY <2>1, <3>1 DEF Located, Known, BgIInv, BgTypes
    <3>4. QED BY <3>2, <3>3
  <2>4. QED BY <2>2, <2>3 DEF BgIInv
<1>2. ASSUME NEW u \in Users, Background!RequireIdle(u) PROVE BgIInv'
  BY <1>2
     DEF Background!RequireIdle, Background!IsRunning, BgIInv, BgTypes, Undisturbed, OneStart,
     Located, Known
<1>3. ASSUME NEW u \in Users, Background!Fork(u) PROVE BgIInv'
  <2>1. PICK p \in Pids :
          /\ procs[p] = "none"
          /\ procs' = [procs EXCEPT ![p] = "ours"] /\ wbPid' = [wbPid EXCEPT ![u] = p]
          /\ reused' = (reused \/ \E v \in Users \ {u} : wbPid[v] = p
                                                    /\ wbPc[v] \in Background!Stopping)
    BY <1>3 DEF Background!Fork, Background!Free
  <2>2. /\ wbPc[u] = "fork" /\ wbPc' = [wbPc EXCEPT ![u] = "forked"]
        /\ UNCHANGED <<pidFile, overlapped, cut>>
    BY <1>3 DEF Background!Fork
  <2>3. BgTypes'
    BY <2>1, <2>2 DEF BgIInv, BgTypes
  <2>4. ASSUME Undisturbed' PROVE Holds'
    <3>1. Undisturbed /\ Holds
      BY <2>1, <2>2, <2>4 DEF Undisturbed, BgIInv, BgTypes
    <3>2. OneStart'
      BY <2>2, <3>1 DEF OneStart, BgIInv, BgTypes
    <3>3. Located'
      BY <2>1, <2>2, <3>1 DEF OneStart, Located, BgIInv, BgTypes
    <3>4. Known'
      BY <2>1, <2>2, <3>1 DEF OneStart, Known, BgIInv, BgTypes
    <3>5. QED BY <3>2, <3>3, <3>4
  <2>5. QED BY <2>3, <2>4 DEF BgIInv
<1>4. ASSUME NEW u \in Users, Background!OpenPidFile(u) PROVE BgIInv'
  BY <1>4 DEF Background!OpenPidFile, BgIInv, BgTypes, Undisturbed, OneStart, Located, Known
<1>5. ASSUME NEW u \in Users, Background!WritePid(u) PROVE BgIInv'
  BY <1>5 DEF Background!WritePid, BgIInv, BgTypes, Undisturbed, OneStart, Located, Known
<1>6. ASSUME NEW u \in Users, Background!LookRunning(u) PROVE BgIInv'
  BY <1>6
     DEF Background!LookRunning, Background!IsRunning, BgIInv, BgTypes, Undisturbed, OneStart,
     Located, Known
<1>7. ASSUME NEW u \in Users, Background!ReadPid(u) PROVE BgIInv'
  BY <1>7 DEF Background!ReadPid, BgIInv, BgTypes, Undisturbed, OneStart, Located, Known
<1>8. ASSUME NEW p \in Pids, procs' = [procs EXCEPT ![p] = "none"],
             UNCHANGED <<wbPc, wbPid, pidFile, overlapped, cut, reused>>
      PROVE  BgIInv'
  BY <1>8 DEF BgIInv, BgTypes, Undisturbed, OneStart, Located, Known
<1>9. ASSUME NEW u \in Users, Background!SendTerm(u) \/ Background!StopEnds(u) PROVE BgIInv'
  <2>1. /\ procs' = procs
           \/ (wbPid[u] \in Pids /\ procs' = [procs EXCEPT ![wbPid[u]] = "none"])
        /\ \/ wbPc[u] = "term" /\ wbPc' = [wbPc EXCEPT ![u] = "poll"]
           \/ wbPc[u] = "poll" /\ wbPc' = [wbPc EXCEPT ![u] = "stopped"]
        /\ UNCHANGED <<wbPid, pidFile, overlapped, cut, reused>>
    BY <1>9 DEF Background!SendTerm, Background!StopEnds, Background!Signalled
  <2>2. BgTypes'
    BY <2>1 DEF BgIInv, BgTypes
  <2>3. ASSUME Undisturbed' PROVE Holds'
    <3>1. Undisturbed /\ Holds
      BY <2>1, <2>3 DEF Undisturbed, BgIInv
    <3>2. \A p \in Pids : procs'[p] \in {"none", procs[p]}
      BY <2>1 DEF BgIInv, BgTypes
    <3>3. OneStart' /\ Located' /\ Known'
      BY <2>1, <3>1, <3>2 DEF OneStart, Located, Known, BgIInv, BgTypes
    <3>4. QED BY <3>3
  <2>4. QED BY <2>2, <2>3 DEF BgIInv
<1>10. CASE Background!ForeignStarts
  <2>1. PICK p \in Pids :
          /\ procs[p] = "none" /\ procs' = [procs EXCEPT ![p] = "foreign"]
          /\ reused' = (reused \/ p \in Background!Remembered)
    BY <1>10 DEF Background!ForeignStarts, Background!Free
  <2>2. UNCHANGED <<wbPc, wbPid, pidFile, overlapped, cut>>
    BY <1>10 DEF Background!ForeignStarts
  <2>3. BgTypes'
    <3>1. procs' \in [Pids -> {"none", "ours", "foreign"}]
      BY <2>1 DEF BgIInv, BgTypes
    <3>2. (p \in Background!Remembered) \in BOOLEAN
      OBVIOUS
    <3>3. reused' \in BOOLEAN
      BY <2>1, <3>2 DEF BgIInv, BgTypes
    <3>4. QED BY <2>2, <3>1, <3>3 DEF BgIInv, BgTypes
  <2>4. ASSUME Undisturbed' PROVE Holds'
    <3>1. Undisturbed /\ Holds /\ p \notin Background!Remembered
      BY <2>1, <2>2, <2>4 DEF Undisturbed, BgIInv, BgTypes
    <3>2. /\ p # pidFile
          /\ \A u \in Users : wbPc[u] \in Background!Stopping \cup Background!Starting => wbPid[u] # p
      BY <3>1 DEF Background!Remembered
    <3>3. \A q \in Pids : q # p => procs'[q] = procs[q]
      BY <2>1 DEF BgIInv, BgTypes
    <3>4. procs'[p] = "foreign"
      BY <2>1 DEF BgIInv, BgTypes
    <3>5. OneStart' /\ Located'
      BY <2>2, <3>1, <3>3, <3>4 DEF OneStart, Located
    <3>6. Known'
      BY <2>2, <3>1, <3>2, <3>3 DEF Known
    <3>7. QED BY <3>5, <3>6
  <2>5. QED BY <2>3, <2>4 DEF BgIInv
<1>11. ASSUME NEW u \in Users, Background!InvocationDies(u) PROVE BgIInv'
  BY <1>11 DEF Background!InvocationDies, BgIInv, BgTypes, Undisturbed
<1>12. QED
  BY <1>1, <1>2, <1>3, <1>4, <1>5, <1>6, <1>7, <1>8, <1>9, <1>10, <1>11
     DEF Background!BgNext, Background!ProcessEnds

LEMMA BgInvStutter == BgIInv /\ UNCHANGED BackgroundVars => BgIInv'
BY DEF BackgroundVars, BgIInv, BgTypes, Undisturbed, OneStart, Located, Known

LEMMA BgCardinality == \A S : Background!Cardinality(S) = Cardinality(S)
BY DEF Background!Cardinality, Cardinality

\* One background workload at most, the one current.pid names once the commands have
\* ended, and nothing else is signalled, as long as no two starts overlap, none is cut
\* off and no number is taken again (workload_bg.sh).
THEOREM OneWorkload == Spec => []OneWorkloadAtMost
<1> DEFINE I == part = "background" => BgIInv
<1>1. Init => I
  BY PartStarts, BgInvInit
<1>2. I /\ [Next]_allVars => I'
  BY PartSteps, BgInvNext, BgInvStutter
<1>3. I => OneWorkloadAtMost
  <2> SUFFICES ASSUME BgIInv PROVE Background!OneWorkloadAtMost
    BY DEF OneWorkloadAtMost
  <2> SUFFICES ASSUME Undisturbed
               PROVE  /\ Cardinality(Background!Ours) <= 1
                      /\ (\A u \in Users : wbPc[u] \in Background!Resting)
                           => Background!Ours \subseteq {pidFile}
                      /\ \A u \in Users : wbPc[u] = "poll" /\ wbPid[u] \in Pids
                           => procs[wbPid[u]] # "foreign"
    BY BgCardinality DEF Background!OneWorkloadAtMost, Undisturbed
  <2>1. PICK p : Background!Ours \subseteq {p}
    BY DEF BgIInv, Located, Background!Ours
  <2>2. Background!Ours = {} \/ Background!Ours = {p}
    BY <2>1
  <2>3. Cardinality(Background!Ours) <= 1
    <3>1. Cardinality({}) = 0 /\ Cardinality({p}) = 1
      BY FS_EmptySet, FS_Singleton
    <3>2. QED BY <2>2, <3>1
  <2>4. (\A u \in Users : wbPc[u] \in Background!Resting) => Background!Ours \subseteq {pidFile}
    BY DEF BgIInv, Located, Background!Ours, Background!Resting, Forked
  <2>5. \A u \in Users : wbPc[u] = "poll" /\ wbPid[u] \in Pids => procs[wbPid[u]] # "foreign"
    BY DEF BgIInv, Known, Background!Stopping
  <2>6. QED BY <2>3, <2>4, <2>5
<1>4. QED BY <1>1, <1>2, <1>3, PTL DEF Spec

-----------------------------------------------------------------------------
(* The files of a run.  Until somebody disturbs them they are what the     *)
(* writers left (Untouched); whatever happens to them later, a verdict     *)
(* names the spec that ran, and the runner's own two verdicts are not both *)
(* edited into passed ones.                                                *)

Identities == [spec : {"spec", "changed"}, source : {Verdict!Empty, "benchmark"}, metricsOn : BOOLEAN,
               fixed : BOOLEAN, ports : {Verdict!Empty, "ports"},
               fingerprint : {"unavailable", "observed"}, server : {Verdict!Empty, "17"}]
Manifests == [file : {"manifest"}, run : {"this", "other"}, schema : {"v1", "v2"},
              ports : {Verdict!Empty, "ports"}, spec : {"spec", "changed"},
              source : {Verdict!Empty, "benchmark"}, metricsOn : BOOLEAN, fixed : BOOLEAN,
              fingerprint : {"unavailable", "observed"}, server : {Verdict!Empty, "17"},
              identity : Identities]
VerdictFiles(f) ==
  [file : {f}, run : {"this", "other"}, schema : {"v1", Verdict!Empty}, spec : {"spec"},
   status : {"passed", "failed"}, by : {"shell", "runner", "other"},
   identity : Identities \cup {Verdict!Absent}, bound : Manifests \cup {Verdict!Absent}, exit : 0..1]

ManifestFile == runFiles["manifest"]
EnvFile == runFiles["env"]
JsonFile == runFiles["json"]
MetricsFile == runFiles["metrics"]

VerdictTypes ==
  /\ runPc \in {"begin", "observe", "run", "verdict", "json", "stopped", "died", "replaceJson",
                "replaced", "closed"}
  /\ DOMAIN runFiles = Verdict!RunFiles /\ runFiles = [f \in Verdict!RunFiles |-> runFiles[f]]
  /\ ManifestFile \in Manifests \cup {Verdict!Absent}
  /\ EnvFile \in VerdictFiles("env") \cup {Verdict!Absent}
  /\ JsonFile \in VerdictFiles("json") \cup {Verdict!Absent}
  /\ outcome \in {"none", "passed", "failed"} /\ runSwaps \in Nat /\ rvEdited \in BOOLEAN
  /\ runPc # "closed" => runSwaps = 0 /\ ~rvEdited

\* Each file as the writers leave it, by the place they have come to.
ManifestWritten ==
  /\ runPc = "begin" => ManifestFile = Verdict!Absent
  /\ runPc \in {"observe", "run", "verdict", "json", "stopped", "replaceJson"} =>
       ManifestFile # Verdict!Absent
  /\ ManifestFile # Verdict!Absent =>
       /\ ManifestFile.run = "this" /\ ManifestFile.spec = "spec"
       /\ Verdict!ManifestHolds(ManifestFile)
       /\ ManifestFile.source = "benchmark" =>
            runFiles["source"] = [file |-> "source", kind |-> "benchmark"]
  /\ runPc = "run" => ManifestFile.fingerprint = "observed"
  /\ runFiles["snapshot"] = [file |-> "snapshot", spec |-> "spec"]
OutcomeEarned ==
  /\ runPc \in {"begin", "observe", "run"} => outcome = "none" /\ MetricsFile = Verdict!Absent
  /\ runPc \in {"verdict", "json"} => outcome \in {"passed", "failed"}
  /\ MetricsFile # Verdict!Absent => ManifestFile # Verdict!Absent /\ ManifestFile.metricsOn
  /\ outcome = "passed" =>
       /\ ManifestFile # Verdict!Absent /\ ManifestFile.fingerprint = "observed"
       /\ ManifestFile.metricsOn =>
            /\ MetricsFile # Verdict!Absent
            /\ Verdict!MetricsRowsHold(ManifestFile, MetricsFile.rows)
ByShell(f) == Verdict!Verdict(f, ManifestFile, outcome, "shell")
ByRunner(f) == Verdict!Verdict(f, ManifestFile, "failed", "runner")
VerdictsWritten ==
  /\ runPc \in {"begin", "observe", "run", "verdict"} =>
       EnvFile = Verdict!Absent /\ JsonFile = Verdict!Absent
  /\ runPc = "json" => EnvFile = ByShell("env")
  /\ runPc = "replaceJson" => EnvFile = ByRunner("env")
  /\ EnvFile # Verdict!Absent =>
       /\ ManifestFile # Verdict!Absent
       /\ EnvFile = ByRunner("env") \/ (EnvFile = ByShell("env") /\ outcome # "none")
  /\ JsonFile # Verdict!Absent =>
       /\ ManifestFile # Verdict!Absent
       /\ JsonFile = ByRunner("json") \/ (JsonFile = ByShell("json") /\ outcome # "none")
Untouched == runSwaps = 0 /\ ~rvEdited => ManifestWritten /\ OutcomeEarned /\ VerdictsWritten

PassedByRunner(v) == v # Verdict!Absent /\ v.by = "runner" /\ v.status = "passed"
OneEdited ==
  /\ ~rvEdited => ~PassedByRunner(EnvFile) /\ ~PassedByRunner(JsonFile)
  /\ ~(PassedByRunner(EnvFile) /\ PassedByRunner(JsonFile))

VerdictIInv == VerdictTypes /\ Untouched /\ OneEdited

\* What the writers put together.
LEMMA Unlike ==
  /\ \A v \in Identities : v # Verdict!Absent
  /\ \A v \in Manifests : v # Verdict!Absent
  /\ \A f : \A v \in VerdictFiles(f) : v # Verdict!Absent
  /\ \A n : [file |-> "metrics", rows |-> n] # Verdict!Absent
<1> DEFINE A == Verdict!Absent
<1>1. "spec" \notin DOMAIN A /\ "run" \notin DOMAIN A /\ "rows" \notin DOMAIN A
  BY DEF Verdict!Absent
<1>2. \A v \in Identities : "spec" \in DOMAIN v
  BY DEF Identities
<1>3. \A v \in Manifests : "run" \in DOMAIN v
  BY DEF Manifests
<1>4. \A f : \A v \in VerdictFiles(f) : "run" \in DOMAIN v
  BY DEF VerdictFiles
<1>5. \A n : "rows" \in DOMAIN [file |-> "metrics", rows |-> n]
  OBVIOUS
<1> HIDE DEF A
<1>6. QED
  <2>1. \A v : "spec" \in DOMAIN v \/ "run" \in DOMAIN v \/ "rows" \in DOMAIN v => v # A
    BY <1>1
  <2>2. QED BY <1>2, <1>3, <1>4, <1>5, <2>1 DEF A

LEMMA SealedManifest ==
  ASSUME NEW man \in Manifests
  PROVE  /\ Verdict!Identity(man) \in Identities
         /\ Verdict!Sealed(man) \in Manifests
         /\ Verdict!IdentityHolds(Verdict!Sealed(man))
         /\ \A f \in {"file", "run", "schema", "ports", "spec", "source", "metricsOn", "fixed",
                      "fingerprint", "server"} : Verdict!Sealed(man)[f] = man[f]
<1>1. Verdict!Identity(man) \in Identities
  BY DEF Verdict!Identity, Manifests, Identities
<1>2. Verdict!Sealed(man) \in Manifests
  BY <1>1 DEF Verdict!Sealed, Manifests
<1>3. /\ Verdict!Sealed(man).identity = Verdict!Identity(man)
      /\ Verdict!Sealed(man).file = man.file /\ Verdict!Sealed(man).run = man.run
      /\ Verdict!Sealed(man).schema = man.schema /\ Verdict!Sealed(man).ports = man.ports
      /\ Verdict!Sealed(man).spec = man.spec /\ Verdict!Sealed(man).source = man.source
      /\ Verdict!Sealed(man).metricsOn = man.metricsOn /\ Verdict!Sealed(man).fixed = man.fixed
      /\ Verdict!Sealed(man).fingerprint = man.fingerprint
      /\ Verdict!Sealed(man).server = man.server
  BY DEF Verdict!Sealed, Manifests
<1>4. Verdict!IdentityHolds(Verdict!Sealed(man))
  BY <1>3 DEF Verdict!IdentityHolds, Verdict!Identity
<1>5. QED BY <1>1, <1>2, <1>3, <1>4

LEMMA NewManifest ==
  ASSUME NEW run \in {"this", "other"}, NEW ports \in {Verdict!Empty, "ports"},
         NEW on \in BOOLEAN, NEW fixed \in BOOLEAN, NEW kind \in {Verdict!Empty, "benchmark"},
         NEW fingerprint \in {"unavailable", "observed"},
         NEW man, man = Verdict!Manifest(run, ports, on, fixed, kind, fingerprint)
  PROVE  /\ man \in Manifests /\ Verdict!ManifestHolds(man)
         /\ man.run = run /\ man.ports = ports /\ man.spec = "spec" /\ man.source = kind
         /\ man.metricsOn = on /\ man.fixed = fixed /\ man.fingerprint = fingerprint

<1> DEFINE server == IF fingerprint = "observed" THEN "17" ELSE Verdict!Empty
           bare == [file |-> "manifest", run |-> run, schema |-> Verdict!ManifestSchema(ports),
                    ports |-> ports, spec |-> "spec", source |-> kind, metricsOn |-> on,
                    fixed |-> fixed, fingerprint |-> fingerprint, server |-> server,
                    identity |-> Verdict!Absent]
<1>1. man = [bare EXCEPT !.identity = Verdict!Identity(bare)]
  BY DEF Verdict!Manifest, Verdict!Sealed
<1>2. /\ man.file = "manifest" /\ man.run = run /\ man.ports = ports /\ man.spec = "spec"
      /\ man.source = kind /\ man.metricsOn = on /\ man.fixed = fixed
      /\ man.fingerprint = fingerprint /\ man.schema = Verdict!ManifestSchema(ports)
      /\ man.server = server /\ man.identity = Verdict!Identity(bare)
  BY <1>1
<1>3. Verdict!Identity(bare) \in Identities
  BY DEF Verdict!Identity, Identities
<1>4. Verdict!ManifestSchema(ports) \in {"v1", "v2"}
  BY DEF Verdict!ManifestSchema
<1>5. man \in Manifests
  BY <1>1, <1>3, <1>4 DEF Manifests
<1>6. Verdict!Identity(man) = Verdict!Identity(bare)
  BY <1>2 DEF Verdict!Identity
<1>7. Verdict!ManifestHolds(man)
  BY <1>2, <1>5, <1>6, Unlike DEF Verdict!ManifestHolds, Verdict!IdentityHolds,
     Verdict!FingerprintHolds, Verdict!SourceHolds, Verdict!Empty
<1>8. QED BY <1>2, <1>5, <1>7

LEMMA NewVerdict ==
  ASSUME NEW f \in {"env", "json"}, NEW man \in Manifests, man.spec = "spec",
         NEW status \in {"passed", "failed"}, NEW by \in {"shell", "runner", "other"},
         NEW v, v = Verdict!Verdict(f, man, status, by)
  PROVE  /\ v \in VerdictFiles(f) /\ Verdict!VerdictHolds(v)
         /\ v.run = man.run /\ v.schema = "v1" /\ v.spec = man.spec /\ v.status = status
         /\ v.by = by /\ v.identity = man.identity /\ v.bound = man
         /\ v.exit = IF status = "passed" THEN 0 ELSE 1
<1>1. /\ v.run = man.run /\ v.schema = "v1" /\ v.spec = man.spec /\ v.status = status
      /\ v.by = by /\ v.identity = man.identity /\ v.bound = man
      /\ v.exit = IF status = "passed" THEN 0 ELSE 1
  BY DEF Verdict!Verdict
<1>2. man.run \in {"this", "other"} /\ man.identity \in Identities
  BY DEF Manifests
<1>3. v \in VerdictFiles(f)
  BY <1>2 DEF Verdict!Verdict, VerdictFiles
<1>4. Verdict!VerdictHolds(v)
  BY <1>1, <1>2, <1>3, Unlike DEF Verdict!VerdictHolds, Verdict!OutcomeHolds
<1>5. QED BY <1>1, <1>3, <1>4
LEMMA PutFile ==
  ASSUME VerdictTypes, NEW f \in Verdict!RunFiles, NEW c, Verdict!Put(f, c)
  PROVE  /\ DOMAIN runFiles' = Verdict!RunFiles
         /\ runFiles' = [g \in Verdict!RunFiles |-> runFiles'[g]]
         /\ runFiles'[f] = c /\ \A g \in Verdict!RunFiles \ {f} : runFiles'[g] = runFiles[g]
BY DEF VerdictTypes, Verdict!Put

LEMMA FilesOfRun == {"manifest", "env", "json", "metrics", "snapshot", "source"} = Verdict!RunFiles
BY DEF Verdict!RunFiles

LEMMA VerdictInvInit == Verdict!RunInit => VerdictIInv
<1> SUFFICES ASSUME Verdict!RunInit PROVE VerdictIInv
  OBVIOUS
<1>1. /\ ManifestFile = Verdict!Absent /\ EnvFile = Verdict!Absent /\ JsonFile = Verdict!Absent
      /\ MetricsFile = Verdict!Absent /\ runFiles["snapshot"] = [file |-> "snapshot", spec |-> "spec"]
      /\ DOMAIN runFiles = Verdict!RunFiles
      /\ runFiles = [f \in Verdict!RunFiles |-> runFiles[f]]
  BY FilesOfRun DEF Verdict!RunInit, ManifestFile, EnvFile, JsonFile, MetricsFile
<1>2. VerdictTypes
  BY <1>1 DEF Verdict!RunInit, VerdictTypes
<1>3. Untouched /\ OneEdited
  BY <1>1
     DEF Verdict!RunInit, Untouched, ManifestWritten, OutcomeEarned, VerdictsWritten,
         OneEdited,
     PassedByRunner
<1>4. QED BY <1>2, <1>3 DEF VerdictIInv

LEMMA RunWritesManifest == ASSUME VerdictIInv, Verdict!WriteManifest PROVE VerdictIInv'
<1>1. PICK ports \in {Verdict!Empty, "ports"}, on \in BOOLEAN, fixed \in BOOLEAN,
           kind \in {Verdict!Empty, "benchmark"} :
        runFiles' = [runFiles EXCEPT
          !["manifest"] = Verdict!Manifest("this", ports, on, on /\ fixed, kind, "unavailable"),
          !["source"] = IF kind = Verdict!Empty THEN Verdict!Absent
                        ELSE [file |-> "source", kind |-> kind]]
  BY DEF Verdict!WriteManifest
<1>2. PICK man : man = Verdict!Manifest("this", ports, on, on /\ fixed, kind, "unavailable")
  OBVIOUS
<1>3. /\ man \in Manifests /\ Verdict!ManifestHolds(man)
      /\ man.run = "this" /\ man.spec = "spec" /\ man.source = kind
  <2>1. (on /\ fixed) \in BOOLEAN
    OBVIOUS
  <2>2. QED BY <1>2, <2>1, NewManifest
<1>4. /\ DOMAIN runFiles' = Verdict!RunFiles /\ runFiles' = [g \in Verdict!RunFiles |-> runFiles'[g]]
      /\ ManifestFile' = man /\ EnvFile' = EnvFile /\ JsonFile' = JsonFile
      /\ MetricsFile' = MetricsFile /\ runFiles'["snapshot"] = runFiles["snapshot"]
      /\ kind = "benchmark" => runFiles'["source"] = [file |-> "source", kind |-> "benchmark"]
  BY <1>1, <1>2, FilesOfRun DEF VerdictIInv, VerdictTypes, ManifestFile, EnvFile, JsonFile,
     MetricsFile, Verdict!Empty
<1>5. runPc = "begin" /\ runPc' = "observe" /\ UNCHANGED <<outcome, runSwaps, rvEdited>>
  BY DEF Verdict!WriteManifest, Verdict!Rest
<1>6. VerdictTypes'
  BY <1>3, <1>4, <1>5 DEF VerdictIInv, VerdictTypes
<1>7. man # Verdict!Absent
  BY <1>3, Unlike
<1>8. ManifestWritten'
  BY <1>3, <1>4, <1>5, <1>7 DEF VerdictIInv, VerdictTypes, Untouched, ManifestWritten
<1>9. Untouched' /\ OneEdited'
  BY <1>4, <1>5, <1>7, <1>8
     DEF VerdictIInv, VerdictTypes, Untouched, OutcomeEarned, VerdictsWritten,
     OneEdited, PassedByRunner
<1>10. QED BY <1>6, <1>9 DEF VerdictIInv

LEMMA RunObserves == ASSUME VerdictIInv, Verdict!ObserveRuntime PROVE VerdictIInv'
<1> DEFINE seen == [ManifestFile EXCEPT !.fingerprint = "observed", !.server = "17"]
<1>1. /\ runPc = "observe" /\ runPc' = "run" /\ UNCHANGED <<outcome, runSwaps, rvEdited>>
      /\ Verdict!Put("manifest", Verdict!Sealed(seen))
  BY DEF Verdict!ObserveRuntime, Verdict!Rest, ManifestFile
<1>2. /\ runSwaps = 0 /\ ~rvEdited /\ ManifestFile \in Manifests /\ ManifestFile # Verdict!Absent
      /\ ManifestWritten /\ OutcomeEarned /\ VerdictsWritten
  BY <1>1 DEF VerdictIInv, VerdictTypes, Untouched, ManifestWritten
<1>3. seen \in Manifests /\ seen.fingerprint = "observed" /\ seen.server = "17"
      /\ seen.run = ManifestFile.run /\ seen.spec = ManifestFile.spec
      /\ seen.schema = ManifestFile.schema /\ seen.ports = ManifestFile.ports
      /\ seen.source = ManifestFile.source
  BY <1>2 DEF Manifests
<1> HIDE DEF seen
<1>4. PICK man : man = Verdict!Sealed(seen)
  OBVIOUS
<1>5. /\ man \in Manifests /\ man.run = ManifestFile.run /\ man.spec = ManifestFile.spec
      /\ man.source = ManifestFile.source /\ man.schema = ManifestFile.schema
      /\ man.ports = ManifestFile.ports /\ man.fingerprint = "observed" /\ man.server = "17"
      /\ Verdict!IdentityHolds(man)
  BY <1>3, <1>4, SealedManifest
<1>6. Verdict!ManifestHolds(man) /\ man # Verdict!Absent
  BY <1>2, <1>5, Unlike DEF ManifestWritten, Verdict!ManifestHolds, Verdict!FingerprintHolds,
     Verdict!SourceHolds, Verdict!Empty
<1>7. /\ DOMAIN runFiles' = Verdict!RunFiles /\ runFiles' = [g \in Verdict!RunFiles |-> runFiles'[g]]
      /\ ManifestFile' = man /\ EnvFile' = EnvFile /\ JsonFile' = JsonFile
      /\ MetricsFile' = MetricsFile /\ runFiles'["snapshot"] = runFiles["snapshot"]
      /\ runFiles'["source"] = runFiles["source"]
  BY <1>1, <1>4, PutFile, FilesOfRun
     DEF VerdictIInv, ManifestFile, EnvFile, JsonFile, MetricsFile
<1>8. VerdictTypes'
  BY <1>1, <1>5, <1>7 DEF VerdictIInv, VerdictTypes
<1>9. ManifestWritten'
  BY <1>1, <1>2, <1>5, <1>6, <1>7 DEF ManifestWritten
<1>10. OutcomeEarned' /\ VerdictsWritten'
  BY <1>1, <1>2, <1>6, <1>7 DEF OutcomeEarned, VerdictsWritten
<1>11. OneEdited'
  BY <1>1, <1>7 DEF VerdictIInv, OneEdited, PassedByRunner
<1>12. QED BY <1>8, <1>9, <1>10, <1>11 DEF VerdictIInv, Untouched

LEMMA RunIsNotObserved == ASSUME VerdictIInv, Verdict!FailToObserve PROVE VerdictIInv'
BY
   DEF Verdict!FailToObserve, VerdictIInv, VerdictTypes, Untouched, ManifestWritten,
       OutcomeEarned,
   VerdictsWritten, OneEdited, PassedByRunner, ManifestFile, EnvFile, JsonFile, MetricsFile

LEMMA RunSamples == ASSUME VerdictIInv, Verdict!RunAndSample PROVE VerdictIInv'
<1>1. /\ runPc = "run" /\ runPc' = "verdict" /\ UNCHANGED <<runSwaps, rvEdited>>
      /\ ManifestFile # Verdict!Absent /\ ManifestFile.fingerprint = "observed"
      /\ MetricsFile = Verdict!Absent /\ runSwaps = 0 /\ ~rvEdited
      /\ ManifestWritten /\ OutcomeEarned /\ VerdictsWritten
  BY
     DEF Verdict!RunAndSample, VerdictIInv, VerdictTypes, Untouched, ManifestWritten,
         OutcomeEarned
<1>2. PICK count \in 0..Samples, started \in BOOLEAN, good \in BOOLEAN :
        /\ started => ManifestFile.metricsOn
        /\ runFiles' = [runFiles EXCEPT
             !["metrics"] = IF started THEN [file |-> "metrics", rows |-> count] ELSE @]
        /\ outcome' = IF good /\ (ManifestFile.metricsOn =>
                                   started /\ count > 0 /\ (ManifestFile.fixed => count = Samples))
                      THEN "passed" ELSE "failed"
  BY DEF Verdict!RunAndSample, ManifestFile
<1>3. /\ DOMAIN runFiles' = Verdict!RunFiles /\ runFiles' = [g \in Verdict!RunFiles |-> runFiles'[g]]
      /\ ManifestFile' = ManifestFile /\ EnvFile' = EnvFile /\ JsonFile' = JsonFile
      /\ MetricsFile' = IF started THEN [file |-> "metrics", rows |-> count] ELSE MetricsFile
      /\ runFiles'["snapshot"] = runFiles["snapshot"] /\ runFiles'["source"] = runFiles["source"]
  BY <1>2, FilesOfRun
     DEF VerdictIInv, VerdictTypes, ManifestFile, EnvFile, JsonFile, MetricsFile
<1>4. VerdictTypes' /\ ManifestWritten' /\ VerdictsWritten' /\ OneEdited'
  BY <1>1, <1>2, <1>3
     DEF VerdictIInv, VerdictTypes, ManifestWritten, VerdictsWritten, OneEdited,
     PassedByRunner
<1>5. OutcomeEarned'
  <2>1. started => MetricsFile' # Verdict!Absent /\ MetricsFile'.rows = count
    BY <1>3, Unlike
  <2>2. ~started => MetricsFile' = Verdict!Absent
    BY <1>1, <1>3
  <2>3. outcome' \in {"passed", "failed"}
    BY <1>2
  <2>4. outcome' = "passed" /\ ManifestFile.metricsOn =>
          started /\ Verdict!MetricsRowsHold(ManifestFile, count)
    BY <1>2 DEF Verdict!MetricsRowsHold
  <2>5. QED BY <1>1, <1>2, <1>3, <2>1, <2>2, <2>3, <2>4 DEF OutcomeEarned
<1>6. QED BY <1>4, <1>5 DEF VerdictIInv, Untouched

\* A verdict is put in the place of f; what the others hold stays.
LEMMA RunPutsVerdict ==
  ASSUME VerdictIInv, NEW f \in {"env", "json"}, NEW v \in VerdictFiles(f), Verdict!Put(f, v),
         UNCHANGED <<outcome, runSwaps, rvEdited>>, ~PassedByRunner(v), ~rvEdited,
         runPc' \in {"json", "stopped", "replaceJson", "replaced"}, runSwaps = 0,
         ManifestFile # Verdict!Absent, outcome # "none" \/ runPc' \in {"replaceJson", "replaced"},
         v = ByRunner(f) \/ (v = ByShell(f) /\ outcome # "none"),
         runPc' = "json" => f = "env" /\ v = ByShell("env"),
         runPc' = "replaceJson" => f = "env" /\ v = ByRunner("env")
  PROVE  VerdictIInv'
<1>1. /\ DOMAIN runFiles' = Verdict!RunFiles /\ runFiles' = [g \in Verdict!RunFiles |-> runFiles'[g]]
      /\ ManifestFile' = ManifestFile /\ MetricsFile' = MetricsFile
      /\ EnvFile' = (IF f = "env" THEN v ELSE EnvFile) /\ JsonFile' = (IF f = "json" THEN v ELSE JsonFile)
      /\ runFiles'["snapshot"] = runFiles["snapshot"] /\ runFiles'["source"] = runFiles["source"]
  BY PutFile, FilesOfRun DEF VerdictIInv, ManifestFile, EnvFile, JsonFile, MetricsFile
<1>2. VerdictTypes'
  BY <1>1 DEF VerdictIInv, VerdictTypes
<1>3. ManifestWritten /\ OutcomeEarned /\ VerdictsWritten
  BY DEF VerdictIInv, Untouched
<1>4. ManifestWritten'
  BY <1>1, <1>3 DEF ManifestWritten
<1>5. OutcomeEarned'
  BY <1>1, <1>3 DEF VerdictIInv, VerdictTypes, OutcomeEarned
<1>6. /\ \A g : ByShell(g)' = ByShell(g) /\ ByRunner(g)' = ByRunner(g)
  BY <1>1 DEF ByShell, ByRunner
<1>7. VerdictsWritten'
  BY <1>1, <1>3, <1>6 DEF VerdictsWritten
<1>8. OneEdited'
  BY <1>1 DEF VerdictIInv, OneEdited, PassedByRunner
<1>9. QED BY <1>2, <1>4, <1>5, <1>7, <1>8 DEF VerdictIInv, Untouched
LEMMA SameVerdict ==
  \A man, status, by :
    [Verdict!Verdict("env", man, status, by) EXCEPT !.file = "json"]
      = Verdict!Verdict("json", man, status, by)
BY DEF Verdict!Verdict

LEMMA RunWritesVerdicts ==
  ASSUME VerdictIInv, Verdict!WriteVerdictEnv \/ Verdict!WriteVerdictJson PROVE VerdictIInv'
<1>1. /\ runPc \in {"verdict", "json"} /\ UNCHANGED <<outcome, runSwaps, rvEdited>>
      /\ runSwaps = 0 /\ ~rvEdited /\ ManifestFile \in Manifests /\ ManifestFile # Verdict!Absent
      /\ ManifestFile.spec = "spec" /\ outcome \in {"passed", "failed"} /\ VerdictsWritten
  BY
     DEF Verdict!WriteVerdictEnv, Verdict!WriteVerdictJson, Verdict!Rest, VerdictIInv,
         VerdictTypes,
     Untouched, ManifestWritten, OutcomeEarned
<1>2. \A f \in {"env", "json"} : ByShell(f) \in VerdictFiles(f) /\ ByShell(f).by = "shell"
  BY <1>1, NewVerdict DEF ByShell
<1>3. CASE Verdict!WriteVerdictEnv
  <2>1. runPc' = "json" /\ Verdict!Put("env", ByShell("env"))
    BY <1>3 DEF Verdict!WriteVerdictEnv, ByShell, ManifestFile
  <2>2. QED BY <1>1, <1>2, <2>1, RunPutsVerdict DEF PassedByRunner
<1>4. CASE Verdict!WriteVerdictJson
  <2>1. runPc = "json" /\ runPc' = "stopped" /\ Verdict!Put("json", [EnvFile EXCEPT !.file = "json"])
    BY <1>4 DEF Verdict!WriteVerdictJson, EnvFile
  <2>2. [EnvFile EXCEPT !.file = "json"] = ByShell("json")
    BY <1>1, <2>1, SameVerdict DEF VerdictsWritten, ByShell
  <2>3. QED BY <1>1, <1>2, <2>1, <2>2, RunPutsVerdict DEF PassedByRunner
<1>5. QED BY <1>3, <1>4

LEMMA RunnerReplacesVerdicts ==
  ASSUME VerdictIInv, Verdict!ReplaceVerdictEnv \/ Verdict!ReplaceVerdictJson PROVE VerdictIInv'
<1>1. /\ runPc \in {"stopped", "died", "replaceJson"} /\ UNCHANGED <<outcome, runSwaps, rvEdited>>
      /\ runSwaps = 0 /\ ~rvEdited /\ ManifestFile \in Manifests /\ ManifestFile # Verdict!Absent
      /\ ManifestFile.spec = "spec" /\ VerdictsWritten
  BY DEF Verdict!ReplaceVerdictEnv, Verdict!ReplaceVerdictJson, Verdict!CanBind, Verdict!Rest,
     VerdictIInv, VerdictTypes, Untouched, ManifestWritten, ManifestFile
<1>2. \A f \in {"env", "json"} : ByRunner(f) \in VerdictFiles(f) /\ ByRunner(f).status = "failed"
  BY <1>1, NewVerdict DEF ByRunner
<1>3. CASE Verdict!ReplaceVerdictEnv
  <2>1. runPc' = "replaceJson" /\ Verdict!Put("env", ByRunner("env"))
    BY <1>3 DEF Verdict!ReplaceVerdictEnv, ByRunner, ManifestFile
  <2>2. QED BY <1>1, <1>2, <2>1, RunPutsVerdict DEF PassedByRunner
<1>4. CASE Verdict!ReplaceVerdictJson
  <2>1. /\ runPc = "replaceJson" /\ runPc' = "replaced"
        /\ Verdict!Put("json", [EnvFile EXCEPT !.file = "json"])
    BY <1>4 DEF Verdict!ReplaceVerdictJson, EnvFile
  <2>2. [EnvFile EXCEPT !.file = "json"] = ByRunner("json")
    BY <1>1, <2>1, SameVerdict DEF VerdictsWritten, ByRunner
  <2>3. QED BY <1>1, <1>2, <2>1, <2>2, RunPutsVerdict DEF PassedByRunner
<1>5. QED BY <1>3, <1>4

LEMMA RunEnds ==
  ASSUME VerdictIInv, Verdict!WriterDies \/ Verdict!RunnerReturns PROVE VerdictIInv'
<1>1. /\ runPc # "closed" /\ runPc' \in {"died", "replaced", "closed"}
      /\ UNCHANGED <<runFiles, outcome, runSwaps, rvEdited>>
  BY DEF Verdict!WriterDies, Verdict!RunnerReturns, Verdict!Rest
<1>2. UNCHANGED <<ManifestFile, EnvFile, JsonFile, MetricsFile>>
  BY <1>1 DEF ManifestFile, EnvFile, JsonFile, MetricsFile
<1>3. VerdictTypes' /\ OneEdited'
  BY <1>1, <1>2 DEF VerdictIInv, VerdictTypes, OneEdited, PassedByRunner
<1>4. \A g : ByShell(g)' = ByShell(g) /\ ByRunner(g)' = ByRunner(g)
  BY <1>1, <1>2 DEF ByShell, ByRunner
<1>5. Untouched'
  BY <1>1, <1>2, <1>4
     DEF VerdictIInv, VerdictTypes, Untouched, ManifestWritten, OutcomeEarned, VerdictsWritten
<1>6. QED BY <1>3, <1>5 DEF VerdictIInv

\* The files of the other run.
LEMMA OtherFiles ==
  /\ Verdict!Other["manifest"] \in Manifests
  /\ Verdict!Other["env"] \in VerdictFiles("env") /\ Verdict!Other["env"].by = "other"
  /\ Verdict!Other["json"] \in VerdictFiles("json") /\ Verdict!Other["json"].by = "other"
<1>1. Verdict!OtherManifest \in Manifests /\ Verdict!OtherManifest.spec = "spec"
  <2>1. PICK on \in BOOLEAN : on
    OBVIOUS
  <2>2. PICK man : man = Verdict!Manifest("other", Verdict!Empty, on, on, Verdict!Empty, "observed")
    OBVIOUS
  <2>3. man \in Manifests /\ man.spec = "spec"
    BY <2>2, NewManifest
  <2>4. on = TRUE
    BY <2>1
  <2>5. Verdict!OtherManifest = man
    BY <2>2, <2>4 DEF Verdict!OtherManifest
  <2>6. QED BY <2>3, <2>5
<1>2. \A f \in {"env", "json"} :
        LET v == Verdict!Verdict(f, Verdict!OtherManifest, "passed", "other")
        IN  v \in VerdictFiles(f) /\ v.by = "other"
  BY <1>1, NewVerdict
<1>3. QED BY <1>1, <1>2 DEF Verdict!Other

LEMMA RunSwapped ==
  ASSUME VerdictIInv, NEW f \in Verdict!RunFiles, Verdict!SwapFile(f) PROVE VerdictIInv'
<1>1. /\ runPc = "closed" /\ runSwaps' = runSwaps + 1 /\ runSwaps \in Nat
      /\ UNCHANGED <<runPc, outcome, rvEdited>>
  BY DEF Verdict!SwapFile, VerdictIInv, VerdictTypes
<1>2. PICK c \in {Verdict!Absent, Verdict!Other[f]} : Verdict!Put(f, c)
  BY DEF Verdict!SwapFile, Verdict!LoseFile, Verdict!TakeFile
<1>3. /\ DOMAIN runFiles' = Verdict!RunFiles /\ runFiles' = [g \in Verdict!RunFiles |-> runFiles'[g]]
      /\ ManifestFile' = (IF f = "manifest" THEN c ELSE ManifestFile)
      /\ EnvFile' = (IF f = "env" THEN c ELSE EnvFile) /\ JsonFile' = (IF f = "json" THEN c ELSE JsonFile)
  BY <1>2, PutFile, FilesOfRun DEF VerdictIInv, ManifestFile, EnvFile, JsonFile
<1>4. VerdictTypes'
  BY <1>1, <1>2, <1>3, OtherFiles DEF VerdictIInv, VerdictTypes
<1>5. f \in {"env", "json"} => ~PassedByRunner(c)
  BY <1>2, OtherFiles DEF PassedByRunner
<1>6. OneEdited'
  BY <1>1, <1>3, <1>5 DEF VerdictIInv, OneEdited, PassedByRunner
<1>7. QED BY <1>1, <1>4, <1>6 DEF VerdictIInv, Untouched

\* An edited manifest is a manifest, an edited verdict a verdict.
LEMMA EditedFiles ==
  /\ \A man \in Manifests : Verdict!Edits(man) \subseteq Manifests
  /\ \A f \in {"env", "json"} : \A v \in VerdictFiles(f) : Verdict!Edits(v) \subseteq VerdictFiles(f)
  /\ Verdict!Edits(Verdict!Absent) = {}
<1>1. ASSUME NEW man \in Manifests PROVE Verdict!Edits(man) \subseteq Manifests
  <2>1. Verdict!Edits(man) =
          {[man EXCEPT !.spec = "changed"], [man EXCEPT !.fixed = FALSE],
           Verdict!Sealed([man EXCEPT !.spec = "changed"]), [man EXCEPT !.fingerprint = "observed"]}
    BY DEF Verdict!Edits, Manifests
  <2>2. /\ [man EXCEPT !.spec = "changed"] \in Manifests /\ [man EXCEPT !.fixed = FALSE] \in Manifests
        /\ [man EXCEPT !.fingerprint = "observed"] \in Manifests
    BY DEF Manifests
  <2>3. QED BY <2>1, <2>2, SealedManifest
<1>2. ASSUME NEW f \in {"env", "json"}, NEW v \in VerdictFiles(f)
      PROVE  Verdict!Edits(v) \subseteq VerdictFiles(f)
  <2>1. Verdict!Edits(v) =
          {[v EXCEPT !.status = Verdict!Flip(v.status), !.exit = 1 - v.exit], [v EXCEPT !.exit = 1 - v.exit],
           [v EXCEPT !.schema = Verdict!Empty, !.bound = Verdict!Absent, !.identity = Verdict!Absent]}
    BY DEF Verdict!Edits, VerdictFiles
  <2>2. Verdict!Flip(v.status) \in {"passed", "failed"} /\ 1 - v.exit \in 0..1
    BY DEF Verdict!Flip, VerdictFiles
  <2>3. [v EXCEPT !.status = Verdict!Flip(v.status), !.exit = 1 - v.exit] \in VerdictFiles(f)
    BY <2>2 DEF VerdictFiles
  <2>4. [v EXCEPT !.exit = 1 - v.exit] \in VerdictFiles(f)
    BY <2>2 DEF VerdictFiles
  <2>5. [v EXCEPT !.schema = Verdict!Empty, !.bound = Verdict!Absent, !.identity = Verdict!Absent]
          \in VerdictFiles(f)
    BY DEF VerdictFiles
  <2>6. QED BY <2>1, <2>3, <2>4, <2>5
<1>3. Verdict!Edits(Verdict!Absent) = {}
  BY DEF Verdict!Edits, Verdict!Absent
<1>4. QED BY <1>1, <1>2, <1>3

LEMMA RunEdited ==
  ASSUME VerdictIInv, NEW f \in Verdict!RunFiles, Verdict!EditFile(f) PROVE VerdictIInv'
<1>1. runPc = "closed" /\ ~rvEdited /\ rvEdited' = TRUE /\ UNCHANGED <<runPc, outcome, runSwaps>>
  BY DEF Verdict!EditFile
<1>2. PICK c \in Verdict!Edits(runFiles[f]) : Verdict!Put(f, c)
  BY DEF Verdict!EditFile
<1>3. /\ DOMAIN runFiles' = Verdict!RunFiles /\ runFiles' = [g \in Verdict!RunFiles |-> runFiles'[g]]
      /\ ManifestFile' = (IF f = "manifest" THEN c ELSE ManifestFile)
      /\ EnvFile' = (IF f = "env" THEN c ELSE EnvFile) /\ JsonFile' = (IF f = "json" THEN c ELSE JsonFile)
  BY <1>2, PutFile, FilesOfRun DEF VerdictIInv, ManifestFile, EnvFile, JsonFile
<1>4. /\ f = "manifest" => c \in Manifests
      /\ f = "env" => c \in VerdictFiles("env")
      /\ f = "json" => c \in VerdictFiles("json")
  BY <1>2, EditedFiles DEF VerdictIInv, VerdictTypes, ManifestFile, EnvFile, JsonFile
<1>5. VerdictTypes'
  BY <1>1, <1>3, <1>4 DEF VerdictIInv, VerdictTypes
<1>6. OneEdited'
  BY <1>1, <1>3 DEF VerdictIInv, OneEdited, PassedByRunner
<1>7. QED BY <1>1, <1>5, <1>6 DEF VerdictIInv, Untouched

LEMMA VerdictInvNext == VerdictIInv /\ Verdict!RunNext => VerdictIInv'
BY RunWritesManifest, RunObserves, RunIsNotObserved, RunSamples, RunWritesVerdicts,
   RunnerReplacesVerdicts, RunEnds, RunSwapped, RunEdited DEF Verdict!RunNext, Verdict!RunWriterStep

LEMMA VerdictInvStays == VerdictIInv /\ UNCHANGED VerdictVars => VerdictIInv'
<1> SUFFICES ASSUME VerdictIInv, UNCHANGED VerdictVars PROVE VerdictIInv'
  OBVIOUS
<1>1. UNCHANGED <<runPc, runFiles, outcome, runSwaps, rvEdited, ManifestFile, EnvFile, JsonFile,
                  MetricsFile>>
  BY DEF VerdictVars, ManifestFile, EnvFile, JsonFile, MetricsFile
<1>2. \A g : ByShell(g)' = ByShell(g) /\ ByRunner(g)' = ByRunner(g)
  BY <1>1 DEF ByShell, ByRunner
<1>3. QED
  BY <1>1, <1>2 DEF VerdictIInv, VerdictTypes, Untouched, ManifestWritten, OutcomeEarned,
     VerdictsWritten, OneEdited, PassedByRunner

\* A verdict that verifies is bound to the manifest beside it; the runner's own are
\* failed, or one of the two still says so.
LEMMA VerifiedIsOneWriting == VerdictIInv => Verdict!VerifiedRunIsOneWriting
<1> SUFFICES ASSUME VerdictIInv, Verdict!Verifies(runFiles)
             PROVE  /\ EnvFile.by = JsonFile.by /\ EnvFile.bound = ManifestFile
                    /\ JsonFile.bound = ManifestFile /\ ManifestFile.spec = "spec"
                    /\ Verdict!Listed(runFiles) = JsonFile.status
                    /\ JsonFile.status = "passed" =>
                         /\ ManifestFile.fingerprint = "observed" /\ EnvFile.by # "runner"
                         /\ ManifestFile.metricsOn => MetricsFile # Verdict!Absent
  BY DEF Verdict!VerifiedRunIsOneWriting, ManifestFile, EnvFile, JsonFile, MetricsFile
<1>1. /\ Verdict!VerdictHolds(EnvFile) /\ Verdict!VerdictHolds(JsonFile)
      /\ Verdict!MetricsFileHolds(ManifestFile, JsonFile, MetricsFile)
      /\ Verdict!VerdictsAgree(ManifestFile, EnvFile, JsonFile)
      /\ Verdict!SchemaCohesion(ManifestFile, EnvFile, JsonFile)
      /\ Verdict!Bound(EnvFile, ManifestFile) /\ Verdict!Bound(JsonFile, ManifestFile)
      /\ JsonFile.status = "passed" => ManifestFile.fingerprint = "observed"
  BY DEF Verdict!Verifies, ManifestFile, EnvFile, JsonFile, MetricsFile
<1>2. EnvFile \in VerdictFiles("env") /\ JsonFile \in VerdictFiles("json")
  BY <1>1 DEF VerdictIInv, VerdictTypes, Verdict!VerdictHolds
<1>3. EnvFile.bound = ManifestFile /\ JsonFile.bound = ManifestFile
  BY <1>1 DEF Verdict!SchemaCohesion, Verdict!Versioned, Verdict!VerdictHolds, Verdict!Bound
<1>4. /\ EnvFile.by = JsonFile.by /\ EnvFile.status = JsonFile.status
      /\ EnvFile.spec = ManifestFile.spec
  BY <1>1 DEF Verdict!VerdictsAgree
<1>5. EnvFile.spec = "spec"
  BY <1>2 DEF VerdictFiles
<1>6. EnvFile # Verdict!Absent /\ JsonFile # Verdict!Absent
  BY <1>1 DEF Verdict!VerdictHolds
<1>7. Verdict!Listed(runFiles) = JsonFile.status
  BY <1>4, <1>6 DEF Verdict!Listed, EnvFile
<1>8. JsonFile.status = "passed" => EnvFile.by # "runner"
  BY <1>4, <1>6 DEF VerdictIInv, OneEdited, PassedByRunner
<1>9. JsonFile.status = "passed" /\ ManifestFile.metricsOn => MetricsFile # Verdict!Absent
  BY <1>1 DEF Verdict!MetricsFileHolds, Verdict!MetricsRequired
<1>10. QED BY <1>1, <1>3, <1>4, <1>5, <1>7, <1>8, <1>9

\* What the writers leave agrees, field by field.
LEMMA WrittenVerifies == VerdictIInv => Verdict!WrittenRunVerifies
<1> SUFFICES ASSUME VerdictIInv, runPc = "closed", ~rvEdited, runSwaps = 0,
                    EnvFile # Verdict!Absent, JsonFile # Verdict!Absent, EnvFile.by = JsonFile.by
             PROVE  \/ Verdict!RunBundleVerifies(runFiles)
                    \/ /\ JsonFile.status = "failed" /\ MetricsFile # Verdict!Absent
                       /\ ~Verdict!MetricsRowsHold(ManifestFile, MetricsFile.rows)
  BY DEF Verdict!WrittenRunVerifies, ManifestFile, EnvFile, JsonFile, MetricsFile
<1>1. ManifestWritten /\ OutcomeEarned /\ VerdictsWritten
  BY DEF VerdictIInv, Untouched
<1>2. /\ ManifestFile \in Manifests /\ ManifestFile # Verdict!Absent /\ ManifestFile.spec = "spec"
      /\ Verdict!ManifestHolds(ManifestFile)
  BY <1>1 DEF VerdictIInv, VerdictTypes, ManifestWritten, VerdictsWritten
<1>3. PICK status \in {"passed", "failed"}, by \in {"shell", "runner"} :
        /\ EnvFile = Verdict!Verdict("env", ManifestFile, status, by)
        /\ JsonFile = Verdict!Verdict("json", ManifestFile, status, by)
        /\ status = "passed" => outcome = "passed"
  <2>1. /\ ByRunner("env").by = "runner" /\ ByShell("env").by = "shell"
        /\ ByRunner("json").by = "runner" /\ ByShell("json").by = "shell"
    BY DEF ByRunner, ByShell, Verdict!Verdict
  <2>2. CASE EnvFile.by = "runner"
    <3>1. EnvFile = ByRunner("env") /\ JsonFile = ByRunner("json")
      BY <1>1, <2>1, <2>2 DEF VerdictsWritten
    <3>2. QED BY <3>1 DEF ByRunner
  <2>3. CASE EnvFile.by # "runner"
    <3>1. EnvFile = ByShell("env") /\ JsonFile = ByShell("json") /\ outcome \in {"passed", "failed"}
      BY <1>1, <2>1, <2>3 DEF VerdictsWritten, VerdictIInv, VerdictTypes
    <3>2. QED BY <3>1 DEF ByShell
  <2>4. QED BY <2>2, <2>3
<1>4. \A f \in {"env", "json"} :
        LET v == Verdict!Verdict(f, ManifestFile, status, by)
        IN  /\ Verdict!VerdictHolds(v) /\ v.run = ManifestFile.run /\ v.schema = "v1"
            /\ v.spec = ManifestFile.spec /\ v.status = status /\ v.by = by
            /\ v.identity = ManifestFile.identity /\ v.bound = ManifestFile
            /\ v.exit = IF status = "passed" THEN 0 ELSE 1
  BY <1>2, NewVerdict
<1>5. /\ Verdict!VerdictHolds(EnvFile) /\ Verdict!VerdictHolds(JsonFile)
      /\ Verdict!VerdictsAgree(ManifestFile, EnvFile, JsonFile)
      /\ Verdict!Bound(EnvFile, ManifestFile) /\ Verdict!Bound(JsonFile, ManifestFile)
  BY <1>3, <1>4 DEF Verdict!VerdictsAgree, Verdict!Bound
<1>6. Verdict!SchemaCohesion(ManifestFile, EnvFile, JsonFile)
  <2>1. ManifestFile.schema # Verdict!Empty
    BY <1>2 DEF Manifests, Verdict!Empty
  <2>2. EnvFile.schema # Verdict!Empty /\ JsonFile.schema # Verdict!Empty
    BY <1>3, <1>4 DEF Verdict!Empty
  <2>3. QED BY <2>1, <2>2 DEF Verdict!SchemaCohesion, Verdict!Versioned
<1>7. JsonFile.status = "passed" => ManifestFile.fingerprint = "observed"
  BY <1>1, <1>3, <1>4 DEF OutcomeEarned
<1>8. Verdict!SnapshotsHold(runFiles)
  <2>1. /\ [file |-> "snapshot", spec |-> "spec"] # Verdict!Absent
        /\ [file |-> "source", kind |-> "benchmark"] # Verdict!Absent
    BY DEF Verdict!Absent
  <2>2. QED BY <1>1, <1>2, <2>1 DEF ManifestWritten, Verdict!SnapshotsHold, ManifestFile
<1>9. CASE Verdict!MetricsFileHolds(ManifestFile, JsonFile, MetricsFile)
  BY <1>2, <1>5, <1>6, <1>7, <1>8, <1>9 DEF Verdict!RunBundleVerifies, Verdict!Verifies,
     ManifestFile, EnvFile, JsonFile, MetricsFile
<1>10. CASE ~Verdict!MetricsFileHolds(ManifestFile, JsonFile, MetricsFile)
  <2>1. CASE MetricsFile = Verdict!Absent
    <3>1. ManifestFile.metricsOn /\ status = "passed"
      BY <1>3, <1>4, <1>10, <2>1 DEF Verdict!MetricsFileHolds, Verdict!MetricsRequired
    <3>2. QED BY <1>1, <1>3, <2>1, <3>1 DEF OutcomeEarned
  <2>2. CASE MetricsFile # Verdict!Absent
    <3>1. ~Verdict!MetricsRowsHold(ManifestFile, MetricsFile.rows)
      BY <1>10, <2>2 DEF Verdict!MetricsFileHolds
    <3>2. status # "passed"
      BY <1>1, <1>3, <2>2, <3>1 DEF OutcomeEarned
    <3>3. QED BY <1>3, <1>4, <2>2, <3>1, <3>2
  <2>3. QED BY <2>1, <2>2
<1>11. QED BY <1>9, <1>10

\* The files of a run that verify are one writing, whatever was edited, lost or taken
\* from another run, and what was written in peace verifies (runstate,
\* runverify.Verify).  For any number of files lost or taken.
THEOREM RunsAreOneWriting == Spec => []RunIsOneWriting
<1> DEFINE I == part = "verdict" => VerdictIInv
<1>1. Init => I
  BY PartStarts, VerdictInvInit
<1>2. I /\ [Next]_allVars => I'
  BY PartSteps, VerdictInvNext, VerdictInvStays
<1>3. I => RunIsOneWriting
  BY VerifiedIsOneWriting, WrittenVerifies DEF RunIsOneWriting
<1>4. QED BY <1>1, <1>2, <1>3, PTL DEF Spec

-----------------------------------------------------------------------------
(* The evidence of a trial.  The invariant says of the gates that were     *)
(* passed what they asked of the content they read, and, as long as nobody *)
(* writes to the files, that this content still lies there.  A gate may    *)
(* ask for the content an earlier one read, never a later one: what was    *)
(* asked stays true as more is read.                                       *)

TrialTypes ==
  /\ trialPc \in {"open", "run", "materialize", "timeline", "gates", "end"}
  /\ gate \in 1..18 /\ wanted \in {Trial!GateNames, Trial!GateNames \ Trial!Optional}
  /\ onDisk \in [Trial!TrialFiles -> Trial!Contents]
  /\ runResult \in {"none", "passed", "failed"}
  /\ kept \in [Trial!GateNames -> Trial!Contents]
  /\ trialStatus \in {"invalid", "failed", "passed"} /\ touches \in Nat

NameOf(k) == Trial!Gates[k].name
PassedBy(k) == (trialPc = "gates" /\ k < gate) \/ trialStatus = "passed"
Opening ==
  /\ trialPc \in {"open", "run", "materialize", "timeline"} => kept = Trial!NothingKept
  /\ trialPc = "gates" => gate \in 2..18
  /\ trialPc # "end" => trialStatus = "invalid"
Asked == \A k \in 2..18 :
  PassedBy(k) /\ NameOf(k) \in wanted => Trial!Asks(NameOf(k), kept[NameOf(k)])
Unwanted == \A name \in Trial!GateNames \ wanted : kept[name] = "absent"
StillThere ==
  touches = 0 => \A k \in 1..18 :
    PassedBy(k) /\ NameOf(k) \in wanted => kept[NameOf(k)] = onDisk[Trial!Gates[k].file]

TrialIInv == TrialTypes /\ Opening /\ Asked /\ Unwanted /\ StillThere

\* The gates by position, their names and files.
LEMMA GateTable ==
  /\ Len(Trial!Gates) = 18 /\ DOMAIN Trial!Gates = 1..18
  /\ NameOf(1) = "timeline" /\ NameOf(2) = "phaseRef" /\ NameOf(3) = "mirror"
  /\ NameOf(4) = "verdict" /\ NameOf(5) = "identity" /\ NameOf(6) = "binding"
  /\ NameOf(7) = "controlSource" /\ NameOf(8) = "controls" /\ NameOf(9) = "settings"
  /\ NameOf(10) = "summaryRef" /\ NameOf(11) = "summary" /\ NameOf(12) = "fingerprint"
  /\ NameOf(13) = "target" /\ NameOf(14) = "rawRefs" /\ NameOf(15) = "transactions"
  /\ NameOf(16) = "resetSource" /\ NameOf(17) = "reset" /\ NameOf(18) = "metrics"
BY DEF Trial!Gates, Trial!Gate, NameOf

LEMMA GateFiles ==
  /\ Trial!Gates[1].file = "phases" /\ Trial!Gates[2].file = "phases"
  /\ Trial!Gates[3].file = "mirror" /\ Trial!Gates[4].file = "verdict"
  /\ Trial!Gates[5].file = "manifest" /\ Trial!Gates[6].file = "manifest"
  /\ Trial!Gates[7].file = "controlRaw" /\ Trial!Gates[8].file = "controlJson"
  /\ Trial!Gates[9].file = "settings" /\ Trial!Gates[10].file = "summary"
  /\ Trial!Gates[11].file = "summary" /\ Trial!Gates[12].file = "manifest"
  /\ Trial!Gates[13].file = "stdout" /\ Trial!Gates[14].file = "rawLogs"
  /\ Trial!Gates[15].file = "rawLogs" /\ Trial!Gates[16].file = "controlRaw"
  /\ Trial!Gates[17].file = "controlJson" /\ Trial!Gates[18].file = "metrics"
BY DEF Trial!Gates, Trial!Gate

\* Every gate has a name of its own, so that a name has one file.
LEMMA GateNamesDiffer ==
  \A j, k \in 1..18 : NameOf(j) = NameOf(k) => j = k
<1> DEFINE Lower(j) == NameOf(j) \in {"timeline", "phaseRef", "mirror", "verdict", "identity",
                                      "binding", "controlSource", "controls", "settings"}
<1> SUFFICES ASSUME NEW j \in 1..18, NEW k \in 1..18, NameOf(j) = NameOf(k) PROVE j = k
  OBVIOUS
<1>1. Lower(j) <=> j \in 1..9
  BY GateTable
<1>2. Lower(k) <=> k \in 1..9
  BY GateTable
<1>3. CASE j \in 1..9 /\ k \in 1..9
  BY <1>3, GateTable
<1>4. CASE j \in 10..18 /\ k \in 10..18
  BY <1>4, GateTable
<1>5. QED BY <1>1, <1>2, <1>3, <1>4

LEMMA FilesOfGates == \A k \in 1..18 : Trial!FileOf(NameOf(k)) = Trial!Gates[k].file
<1> SUFFICES ASSUME NEW k \in 1..18 PROVE Trial!FileOf(NameOf(k)) = Trial!Gates[k].file
  OBVIOUS
<1> DEFINE Named(j) == Trial!Gates[j].name = NameOf(k)
           Chosen == CHOOSE j \in DOMAIN Trial!Gates : Named(j)
<1>1. \E j \in DOMAIN Trial!Gates : Named(j)
  BY GateTable DEF NameOf
<1>2. Chosen \in DOMAIN Trial!Gates /\ Named(Chosen)
  BY <1>1
<1>3. Chosen = k
  BY <1>2, GateTable, GateNamesDiffer DEF NameOf
<1>4. QED BY <1>3 DEF Trial!FileOf

\* The names and the files, as sets.
LEMMA GateSets ==
  /\ Trial!GateNames = {NameOf(k) : k \in 1..18}
  /\ Trial!TrialFiles = {Trial!Gates[k].file : k \in 1..18}
  /\ \A k \in 1..18 : NameOf(k) \in Trial!GateNames /\ Trial!Gates[k].file \in Trial!TrialFiles
  /\ \A name \in Trial!GateNames : \E k \in 1..18 : name = NameOf(k)
BY GateTable DEF Trial!GateNames, Trial!TrialFiles, NameOf

LEMMA NeverOptional ==
  ASSUME TrialTypes
  PROVE  /\ \A k \in (1..6) \cup (10..13) \cup {18} : NameOf(k) \in wanted
         /\ \A name \in wanted : name \in Trial!GateNames
         /\ NameOf(7) \in wanted <=> NameOf(8) \in wanted
<1>1. \A k \in (1..6) \cup (10..13) \cup {18} : NameOf(k) \notin Trial!Optional
  BY GateTable DEF Trial!Optional
<1>2. NameOf(7) \in Trial!Optional /\ NameOf(8) \in Trial!Optional
  BY GateTable DEF Trial!Optional
<1>3. QED BY <1>1, <1>2, GateSets DEF TrialTypes

\* What a gate asked of its content does not change when a later one is read,
\* or the gate itself.
LEMMA AskedAgain ==
  ASSUME NEW k \in 2..18, NEW g \in k..18, NEW c, NEW read,
         TrialTypes, Trial!Keep({NameOf(g)}, read), UNCHANGED runResult
  PROVE  Trial!Asks(NameOf(k), c)' <=> Trial!Asks(NameOf(k), c)
<1>1. \A j \in 1..18 : j # g => kept'[NameOf(j)] = kept[NameOf(j)]
  BY GateNamesDiffer, GateSets DEF Trial!Keep
<1>2. kept'["timeline"] = kept["timeline"]
  BY <1>1, GateTable
<1>3. k = 8 => kept'["controlSource"] = kept["controlSource"]
  BY <1>1, GateTable
<1>4. k = 15 => kept'["summary"] = kept["summary"]
  BY <1>1, GateTable
<1>5. k = 17 => kept'["controls"] = kept["controls"]
  BY <1>1, GateTable
<1>6. /\ NameOf(k) = "controls" <=> k = 8
      /\ NameOf(k) = "transactions" <=> k = 15
      /\ NameOf(k) = "reset" <=> k = 17
  BY GateNamesDiffer, GateTable
<1>7. QED
  BY <1>2, <1>3, <1>4, <1>5, <1>6 DEF Trial!Asks, Trial!SameAsJournal, Trial!BindsProtocol,
     Trial!ControlsDerive, Trial!MeasuresProtocol, Trial!NamesTarget, Trial!CountsAgree
LEMMA TrialInvInit == Trial!EvidenceInit => TrialIInv
<1> SUFFICES ASSUME Trial!EvidenceInit PROVE TrialIInv
  OBVIOUS
<1>1. kept \in [Trial!GateNames -> Trial!Contents] /\ \A name \in Trial!GateNames : kept[name] = "absent"
  BY DEF Trial!EvidenceInit, Trial!NothingKept, Trial!Contents
<1>2. onDisk \in [Trial!TrialFiles -> Trial!Contents]
  BY DEF Trial!EvidenceInit, Trial!Contents
<1>3. TrialTypes /\ Opening
  BY <1>1, <1>2 DEF Trial!EvidenceInit, TrialTypes, Opening
<1>4. \A k \in 1..18 : ~PassedBy(k)
  BY DEF Trial!EvidenceInit, PassedBy
<1>5. Asked /\ Unwanted /\ StillThere
  BY <1>1, <1>4 DEF Asked, Unwanted, StillThere
<1>6. QED BY <1>3, <1>5 DEF TrialIInv

\* The run is over before the first gate: what it writes no gate has read.
LEMMA TrialRuns ==
  ASSUME TrialIInv, Trial!OpenLogs \/ Trial!RunWrites \/ Trial!FinishRun PROVE TrialIInv'
<1>1. /\ trialPc' \in {"run", "end", "materialize", "timeline"}
      /\ trialPc \in {"open", "run", "materialize"}
      /\ UNCHANGED <<gate, wanted, kept, trialStatus, touches>>
  BY DEF Trial!OpenLogs, Trial!RunWrites, Trial!FinishRun
<1>2. CASE Trial!OpenLogs
  <2>1. UNCHANGED <<onDisk, runResult>>
    BY <1>2 DEF Trial!OpenLogs
  <2>2. QED BY <1>1, <2>1 DEF TrialIInv, TrialTypes, Opening, Asked, Unwanted, StillThere, PassedBy
<1>3. CASE Trial!RunWrites
  <2>1. UNCHANGED runResult
    BY <1>3 DEF Trial!RunWrites
  <2>2. PICK written \in Trial!RunContents, mirror \in Trial!Contents :
          onDisk' = [f \in Trial!TrialFiles |-> IF f = "mirror" THEN mirror
                                          ELSE IF f \in DOMAIN written THEN written[f] ELSE "absent"]
    BY <1>3 DEF Trial!RunWrites
  <2>3. \A f \in DOMAIN written : written[f] \in Trial!Contents
    BY DEF Trial!RunContents, Trial!Contents, Trial!Accepts
  <2>4. onDisk' \in [Trial!TrialFiles -> Trial!Contents]
    BY <2>2, <2>3 DEF Trial!Contents
  <2>5. QED
    BY <1>1, <2>1, <2>4
       DEF TrialIInv, TrialTypes, Opening, Asked, Unwanted, StillThere, PassedBy
<1>4. CASE Trial!FinishRun
  <2>1. PICK json \in Trial!Contents, verdictFile \in Trial!Contents :
          onDisk' = [onDisk EXCEPT !["controlJson"] = json, !["verdict"] = verdictFile]
    <3>1. Trial!Materialized \in Trial!Contents /\ "absent" \in Trial!Contents
      BY GateSets, GateFiles DEF TrialIInv, TrialTypes, Trial!Materialized, Trial!Contents
    <3>2. {"first", "unmet", "absent"} \subseteq Trial!Contents
      BY DEF Trial!Contents, Trial!Accepts
    <3>3. QED BY <1>4, <3>1, <3>2 DEF Trial!FinishRun
  <2>2. onDisk' \in [Trial!TrialFiles -> Trial!Contents] /\ runResult' \in {"passed", "failed"}
    BY <1>4, <2>1 DEF TrialIInv, TrialTypes, Trial!FinishRun
  <2>3. QED
    BY <1>1, <2>2 DEF TrialIInv, TrialTypes, Opening, Asked, Unwanted, StillThere, PassedBy
<1>5. QED BY <1>2, <1>3, <1>4

\* The journal is read first, by a step of its own.
LEMMA TrialTakesTimeline == ASSUME TrialIInv, Trial!TakeTimeline PROVE TrialIInv'
<1>1. /\ trialPc = "timeline" /\ UNCHANGED <<wanted, onDisk, runResult, touches>>
      /\ trialStatus = "invalid" /\ kept = Trial!NothingKept /\ gate \in 1..18
  BY DEF Trial!TakeTimeline, TrialIInv, Opening, TrialTypes
<1>2. onDisk["phases"] \in Trial!Contents /\ onDisk["mirror"] \in Trial!Contents
  BY GateSets, GateFiles DEF TrialIInv, TrialTypes
<1>3. NameOf(1) \in wanted /\ NameOf(3) \in wanted
  BY NeverOptional DEF TrialIInv
<1>4. CASE onDisk["phases"] # "absent"
  <2>1. /\ Trial!Keep({"timeline"}, onDisk["phases"]) /\ gate' = 2 /\ trialPc' = "gates"
        /\ UNCHANGED trialStatus
    BY <1>4 DEF Trial!TakeTimeline
  <2>2. /\ kept' \in [Trial!GateNames -> Trial!Contents] /\ kept'[NameOf(1)] = onDisk["phases"]
        /\ \A name \in Trial!GateNames \ {"timeline"} : kept'[name] = kept[name]
    BY <1>2, <2>1, GateSets, GateTable DEF Trial!Keep, TrialIInv, TrialTypes
  <2>3. TrialTypes' /\ Opening'
    BY <1>1, <2>1, <2>2 DEF TrialIInv, TrialTypes, Opening
  <2>4. \A k \in 1..18 : PassedBy(k)' <=> k = 1
    BY <1>1, <2>1 DEF PassedBy
  <2>5. Asked' /\ StillThere'
    BY <1>1, <2>2, <2>4, GateFiles DEF Asked, StillThere, NameOf
  <2>6. Unwanted'
    BY <1>1, <1>3, <2>2, GateTable DEF TrialIInv, Unwanted
  <2>7. QED BY <2>3, <2>5, <2>6 DEF TrialIInv
<1>5. CASE onDisk["phases"] = "absent"
  <2>1. /\ Trial!Keep({"timeline", "mirror"}, onDisk["mirror"])
        /\ trialStatus' \in {"invalid", "failed"} /\ trialPc' = "end" /\ UNCHANGED gate
    BY <1>5 DEF Trial!TakeTimeline
  <2>2. /\ kept' \in [Trial!GateNames -> Trial!Contents]
        /\ \A name \in Trial!GateNames \ {"timeline", "mirror"} : kept'[name] = kept[name]
    BY <1>2, <2>1 DEF Trial!Keep, TrialIInv, TrialTypes
  <2>3. TrialTypes' /\ Opening'
    BY <1>1, <2>1, <2>2 DEF TrialIInv, TrialTypes, Opening
  <2>4. \A k \in 1..18 : ~PassedBy(k)'
    BY <2>1 DEF PassedBy
  <2>5. Asked' /\ StillThere'
    BY <2>4 DEF Asked, StillThere
  <2>6. Unwanted'
    BY <1>1, <1>3, <2>2, GateTable DEF TrialIInv, Unwanted
  <2>7. QED BY <2>3, <2>5, <2>6 DEF TrialIInv
<1>6. QED BY <1>4, <1>5

\* A gate the protocol has reads its file, and passes on or ends the trial.
LEMMA TrialPassesGate == ASSUME TrialIInv, Trial!PassGate PROVE TrialIInv'
<1> DEFINE name == NameOf(gate)
           c == onDisk[Trial!Gates[gate].file]
<1>1. /\ trialPc = "gates" /\ gate \in 2..18 /\ name \in wanted /\ trialStatus = "invalid"
      /\ Trial!Keep({name}, c) /\ UNCHANGED <<wanted, onDisk, runResult, touches>>
  BY DEF Trial!PassGate, NameOf, TrialIInv, Opening
<1>2. name \in Trial!GateNames /\ c \in Trial!Contents
  BY <1>1, GateSets DEF TrialIInv, TrialTypes
<1>3. /\ kept' \in [Trial!GateNames -> Trial!Contents] /\ kept'[name] = c
      /\ \A other \in Trial!GateNames \ {name} : kept'[other] = kept[other]
  BY <1>1, <1>2 DEF Trial!Keep, TrialIInv, TrialTypes
<1>4. Unwanted'
  BY <1>1, <1>2, <1>3 DEF TrialIInv, Unwanted
<1>5. CASE ~Trial!Asks(name, c)
  <2>1. trialStatus' \in {"failed", "invalid"} /\ trialPc' = "end" /\ UNCHANGED gate
    BY <1>5 DEF Trial!PassGate, NameOf
  <2>2. TrialTypes' /\ Opening'
    BY <1>1, <1>3, <2>1 DEF TrialIInv, TrialTypes, Opening
  <2>3. \A k \in 1..18 : ~PassedBy(k)'
    BY <2>1 DEF PassedBy
  <2>4. QED BY <1>4, <2>2, <2>3 DEF TrialIInv, Asked, StillThere
<1>6. CASE Trial!Asks(name, c)
  <2>1. \/ gate < 18 /\ gate' = gate + 1 /\ trialPc' = "gates" /\ trialStatus' = "invalid"
        \/ gate = 18 /\ gate' = gate /\ trialPc' = "end" /\ trialStatus' = "passed"
    BY <1>1, <1>6, GateTable DEF Trial!PassGate, NameOf
  <2>2. TrialTypes' /\ Opening'
    BY <1>1, <1>3, <2>1 DEF TrialIInv, TrialTypes, Opening
  <2>3. \A k \in 1..18 : PassedBy(k)' => k = gate \/ (k < gate /\ PassedBy(k))
    BY <1>1, <2>1 DEF PassedBy
  <2>4. \A k \in 1..18 : k # gate => kept'[NameOf(k)] = kept[NameOf(k)]
    BY <1>1, <1>3, GateSets, GateNamesDiffer
  <2>5. ASSUME NEW k \in 2..18, PassedBy(k)', NameOf(k) \in wanted
        PROVE  Trial!Asks(NameOf(k), kept[NameOf(k)])'
    <3>1. gate \in k..18
      BY <1>1, <2>3, <2>5
    <3>2. Trial!Asks(NameOf(k), kept'[NameOf(k)])
      BY <1>1, <1>3, <1>6, <2>3, <2>4, <2>5 DEF TrialIInv, Asked
    <3>3. \A x : Trial!Asks(NameOf(k), x)' <=> Trial!Asks(NameOf(k), x)
      BY <1>1, <3>1, AskedAgain DEF TrialIInv
    <3>4. QED BY <3>2, <3>3
  <2>6. Asked'
    BY <1>1, <2>5 DEF Asked
  <2>7. StillThere'
    BY <1>1, <1>3, <2>3, <2>4 DEF TrialIInv, StillThere, NameOf
  <2>8. QED BY <1>4, <2>2, <2>6, <2>7 DEF TrialIInv
<1>7. QED BY <1>5, <1>6

\* A gate the protocol does not have is passed unread; the last one it has.
LEMMA TrialSkipsGate == ASSUME TrialIInv, Trial!SkipGate PROVE TrialIInv'
<1>1. /\ trialPc = "gates" /\ gate \in 2..18 /\ NameOf(gate) \notin wanted /\ gate' = gate + 1
      /\ UNCHANGED <<trialPc, wanted, onDisk, runResult, kept, trialStatus, touches>>
  BY DEF Trial!SkipGate, NameOf, TrialIInv, Opening
<1>2. gate < 18
  BY <1>1, NeverOptional DEF TrialIInv
<1>3. \A k \in 1..18 : PassedBy(k)' /\ NameOf(k) \in wanted => PassedBy(k)
  BY <1>1 DEF PassedBy
<1>4. TrialTypes' /\ Opening' /\ Unwanted'
  BY <1>1, <1>2 DEF TrialIInv, TrialTypes, Opening, Unwanted
<1>5. \A name, x : Trial!Asks(name, x)' <=> Trial!Asks(name, x)
  BY <1>1 DEF Trial!Asks, Trial!SameAsJournal, Trial!BindsProtocol, Trial!ControlsDerive,
     Trial!MeasuresProtocol, Trial!NamesTarget, Trial!CountsAgree
<1>6. Asked' /\ StillThere'
  BY <1>1, <1>3, <1>5 DEF TrialIInv, Asked, StillThere
<1>7. QED BY <1>4, <1>6 DEF TrialIInv
\* Somebody writes to a file: nothing that was read changes with it.
LEMMA TrialTouched ==
  ASSUME TrialIInv, NEW f \in Trial!TrialFiles, Trial!TouchFile(f) PROVE TrialIInv'
<1>1. /\ touches' = touches + 1 /\ touches \in Nat
      /\ UNCHANGED <<trialPc, gate, wanted, runResult, kept, trialStatus>>
  BY DEF Trial!TouchFile, TrialIInv, TrialTypes
<1>2. onDisk' \in [Trial!TrialFiles -> Trial!Contents]
  BY DEF Trial!TouchFile, TrialIInv, TrialTypes
<1>3. \A name, x : Trial!Asks(name, x)' <=> Trial!Asks(name, x)
  BY <1>1 DEF Trial!Asks, Trial!SameAsJournal, Trial!BindsProtocol, Trial!ControlsDerive,
     Trial!MeasuresProtocol, Trial!NamesTarget, Trial!CountsAgree
<1>4. TrialTypes' /\ Opening' /\ Unwanted'
  BY <1>1, <1>2 DEF TrialIInv, TrialTypes, Opening, Unwanted
<1>5. Asked' /\ StillThere'
  BY <1>1, <1>3 DEF TrialIInv, Asked, StillThere, PassedBy
<1>6. QED BY <1>4, <1>5 DEF TrialIInv

LEMMA TrialInvNext == TrialIInv /\ Trial!EvidenceNext => TrialIInv'
BY TrialRuns, TrialTakesTimeline, TrialPassesGate, TrialSkipsGate, TrialTouched
   DEF Trial!EvidenceNext, Trial!TrialStep

LEMMA TrialInvStays == TrialIInv /\ UNCHANGED TrialVars => TrialIInv'
<1> SUFFICES ASSUME TrialIInv, UNCHANGED TrialVars PROVE TrialIInv'
  OBVIOUS
<1>1. \A name, x : Trial!Asks(name, x)' <=> Trial!Asks(name, x)
  BY DEF TrialVars, Trial!Asks, Trial!SameAsJournal, Trial!BindsProtocol, Trial!ControlsDerive,
     Trial!MeasuresProtocol, Trial!NamesTarget, Trial!CountsAgree
<1>2. QED
  BY <1>1 DEF TrialIInv, TrialVars, TrialTypes, Opening, Asked, Unwanted, StillThere, PassedBy

\* What the gates of a passed trial asked, by name.
LEMMA PassedTrialAsked ==
  ASSUME TrialIInv, trialStatus = "passed"
  PROVE  /\ runResult = "passed"
         /\ kept["phaseRef"] # "absent" /\ kept["summaryRef"] # "absent"
         /\ kept["timeline"] \in Trial!Accepts /\ kept["mirror"] = kept["timeline"]
         /\ kept["verdict"] \in Trial!Accepts /\ kept["identity"] = "first"
         /\ kept["summary"] \in Trial!Accepts /\ kept["fingerprint"] \in Trial!Accepts
         /\ kept["target"] \in Trial!Accepts /\ kept["metrics"] \in Trial!Accepts
         /\ "controls" \in wanted => /\ kept["controls"] \in Trial!Accepts
                                     /\ kept["controls"] = kept["controlSource"]
         /\ "controls" \notin wanted => kept["controls"] = "absent"
         /\ "settings" \in wanted => kept["settings"] \in Trial!Accepts
         /\ "rawRefs" \in wanted => kept["rawRefs"] # "absent"
         /\ "rawRefs" \notin wanted => kept["rawRefs"] = "absent"
         /\ "transactions" \in wanted => /\ kept["transactions"] \in Trial!Accepts
                                         /\ kept["transactions"] = kept["summary"]
         /\ "reset" \in wanted => kept["reset"] = kept["controls"]
<1>1. \A k \in 2..18 : NameOf(k) \in wanted => Trial!Asks(NameOf(k), kept[NameOf(k)])
  BY DEF TrialIInv, Asked, PassedBy
<1>2. \A k \in (2..6) \cup (10..13) \cup {18} : Trial!Asks(NameOf(k), kept[NameOf(k)])
  BY <1>1, NeverOptional DEF TrialIInv
<1>3. /\ Trial!Asks("phaseRef", kept["phaseRef"]) /\ Trial!Asks("mirror", kept["mirror"])
      /\ Trial!Asks("verdict", kept["verdict"]) /\ Trial!Asks("identity", kept["identity"])
      /\ Trial!Asks("summaryRef", kept["summaryRef"]) /\ Trial!Asks("summary", kept["summary"])
      /\ Trial!Asks("fingerprint", kept["fingerprint"]) /\ Trial!Asks("target", kept["target"])
      /\ Trial!Asks("metrics", kept["metrics"])
  BY <1>2, GateTable
<1>4. /\ "controls" \in wanted => Trial!Asks("controls", kept["controls"])
      /\ "settings" \in wanted => Trial!Asks("settings", kept["settings"])
      /\ "rawRefs" \in wanted => Trial!Asks("rawRefs", kept["rawRefs"])
      /\ "transactions" \in wanted => Trial!Asks("transactions", kept["transactions"])
      /\ "reset" \in wanted => Trial!Asks("reset", kept["reset"])
  BY <1>1, GateTable
<1>5. {"controls", "rawRefs"} \subseteq Trial!GateNames
  BY GateSets, GateTable
<1>6. /\ "controls" \notin wanted => kept["controls"] = "absent"
      /\ "rawRefs" \notin wanted => kept["rawRefs"] = "absent"
  BY <1>5 DEF TrialIInv, Unwanted
<1>7. QED
  BY <1>3, <1>4, <1>6 DEF Trial!Asks, Trial!SameAsJournal, Trial!BindsProtocol,
     Trial!ControlsDerive, Trial!MeasuresProtocol, Trial!NamesTarget, Trial!CountsAgree

\* The file of a name.
LEMMA FileTable ==
  /\ Trial!FileOf("timeline") = "phases" /\ Trial!FileOf("phaseRef") = "phases"
  /\ Trial!FileOf("mirror") = "mirror" /\ Trial!FileOf("verdict") = "verdict"
  /\ Trial!FileOf("identity") = "manifest" /\ Trial!FileOf("binding") = "manifest"
  /\ Trial!FileOf("controlSource") = "controlRaw" /\ Trial!FileOf("controls") = "controlJson"
  /\ Trial!FileOf("settings") = "settings" /\ Trial!FileOf("summaryRef") = "summary"
  /\ Trial!FileOf("summary") = "summary" /\ Trial!FileOf("fingerprint") = "manifest"
  /\ Trial!FileOf("target") = "stdout" /\ Trial!FileOf("rawRefs") = "rawLogs"
  /\ Trial!FileOf("transactions") = "rawLogs" /\ Trial!FileOf("resetSource") = "controlRaw"
  /\ Trial!FileOf("reset") = "controlJson" /\ Trial!FileOf("metrics") = "metrics"
<1>1. \A k \in 1..18 : Trial!FileOf(NameOf(k)) = Trial!Gates[k].file
  BY FilesOfGates
<1>2. QED BY <1>1, GateTable, GateFiles

\* The gates that come and go together.
LEMMA WantedTogether ==
  ASSUME TrialTypes
  PROVE  /\ "controlSource" \in wanted <=> "controls" \in wanted
         /\ "resetSource" \in wanted <=> "controls" \in wanted
         /\ "reset" \in wanted <=> "controls" \in wanted
         /\ "transactions" \in wanted <=> "rawRefs" \in wanted
<1>1. {"controlSource", "controls", "resetSource", "reset", "rawRefs", "transactions"}
        \subseteq Trial!GateNames \cap Trial!Optional
  BY GateSets, GateTable DEF Trial!Optional
<1>2. QED BY <1>1 DEF TrialTypes

\* What verifies lies there as it was read and is accepted, name by name.
LEMMA TrialVerifiedWhole == TrialIInv => Trial!VerifiedTrialIsWhole
<1> SUFFICES ASSUME TrialIInv, trialPc = "end", trialStatus = "passed", Trial!TrialVerifies
             PROVE  \A name \in wanted :
                      /\ onDisk[Trial!FileOf(name)] \in Trial!Accepts
                      /\ name \notin Trial!Looks => kept[name] = onDisk[Trial!FileOf(name)]
  BY DEF Trial!VerifiedTrialIsWhole
<1>1. /\ Trial!LinkedVerdictHolds /\ Trial!TimelineHolds /\ Trial!SummaryHolds
      /\ Trial!TransactionsHold /\ Trial!ControlsHold /\ Trial!EnvironmentHolds /\ Trial!MetricsHold
  BY DEF Trial!TrialVerifies
<1>2. "first" \in Trial!Accepts /\ "absent" \notin Trial!Accepts
  BY DEF Trial!Accepts
<1>3. onDisk["manifest"] \in Trial!Accepts /\ onDisk["verdict"] \in Trial!Accepts
  BY <1>1, <1>2 DEF Trial!LinkedVerdictHolds
<1>4. /\ onDisk["mirror"] = kept["timeline"] /\ onDisk["phases"] = onDisk["mirror"]
      /\ onDisk["phases"] = kept["phaseRef"] /\ kept["mirror"] = kept["timeline"]
      /\ onDisk["mirror"] \in Trial!Accepts
  BY <1>1, PassedTrialAsked, FileTable
     DEF Trial!TimelineHolds, Trial!RefHolds, Trial!Kept
<1>5. /\ onDisk["summary"] = kept["summaryRef"] /\ kept["summary"] = onDisk["summary"]
      /\ onDisk["summary"] \in Trial!Accepts
  BY <1>1, PassedTrialAsked, FileTable
     DEF Trial!SummaryHolds, Trial!RefHolds, Trial!Kept
<1>6. /\ kept["fingerprint"] = onDisk["manifest"] /\ kept["target"] = onDisk["stdout"]
      /\ kept["metrics"] = onDisk["metrics"]
      /\ onDisk["stdout"] \in Trial!Accepts /\ onDisk["metrics"] \in Trial!Accepts
  BY <1>1, PassedTrialAsked DEF Trial!EnvironmentHolds, Trial!MetricsHold
<1>7. "rawRefs" \in wanted => /\ onDisk["rawLogs"] = kept["rawRefs"]
                              /\ kept["transactions"] = onDisk["rawLogs"]
                              /\ onDisk["rawLogs"] \in Trial!Accepts
  BY <1>1, PassedTrialAsked, FileTable
     DEF Trial!TransactionsHold, Trial!RefHolds, Trial!Kept, Trial!CountsAgree
<1>8. "controls" \in wanted => /\ onDisk["controlJson"] = kept["controls"]
                               /\ onDisk["controlRaw"] = onDisk["controlJson"]
                               /\ onDisk["controlJson"] \in Trial!Accepts
  BY <1>1, <1>2, PassedTrialAsked, FileTable DEF Trial!ControlsHold, Trial!RefHolds, Trial!Kept
<1>9. "settings" \in wanted => /\ onDisk["settings"] = kept["settings"]
                               /\ onDisk["settings"] \in Trial!Accepts
  BY <1>1, <1>2, PassedTrialAsked, FileTable DEF Trial!ControlsHold, Trial!RefHolds, Trial!Kept
<1>10. SUFFICES ASSUME NEW name \in wanted
                PROVE  /\ onDisk[Trial!FileOf(name)] \in Trial!Accepts
                       /\ name \notin Trial!Looks => kept[name] = onDisk[Trial!FileOf(name)]
  OBVIOUS
<1>11. PICK k \in 1..18 : name = NameOf(k)
  BY <1>10, GateSets DEF TrialIInv, TrialTypes
<1>12. "reset" \in wanted => kept["reset"] = kept["controls"]
  BY PassedTrialAsked
<1>13. CASE k \in 1..3
  <2>1. name \in {"timeline", "phaseRef", "mirror"}
    BY <1>11, <1>13, GateTable
  <2>2. onDisk["phases"] \in Trial!Accepts /\ kept["timeline"] = onDisk["phases"]
    BY <1>4
  <2>3. kept["mirror"] = onDisk["mirror"] /\ kept["phaseRef"] = onDisk["phases"]
    BY <1>4
  <2>4. QED BY <1>4, <2>1, <2>2, <2>3, FileTable
<1>14. CASE k \in 4..6
  BY <1>3, <1>11, <1>14, GateTable, FileTable DEF Trial!Looks
<1>15. CASE k \in {7, 16}
  BY <1>8, <1>10, <1>11, <1>15, GateTable, FileTable, WantedTogether DEF Trial!Looks, TrialIInv
<1>16. CASE k \in {8, 17}
  BY <1>8, <1>10, <1>11, <1>12, <1>16, GateTable, FileTable, WantedTogether DEF TrialIInv
<1>17. CASE k = 9
  BY <1>9, <1>10, <1>11, <1>17, GateTable, FileTable
<1>18. CASE k \in 10..11
  BY <1>5, <1>11, <1>18, GateTable, FileTable
<1>19. CASE k \in {12, 13, 18}
  BY <1>3, <1>6, <1>11, <1>19, GateTable, FileTable
<1>20. CASE k \in {14, 15}
  BY <1>7, <1>10, <1>11, <1>20, GateTable, FileTable, WantedTogether DEF TrialIInv
<1>21. QED BY <1>13, <1>14, <1>15, <1>16, <1>17, <1>18, <1>19, <1>20

\* What passed lies there as it was read when nobody wrote to it, and verifies.
LEMMA TrialPassedVerifies == TrialIInv => Trial!PassedTrialVerifies
<1> SUFFICES ASSUME TrialIInv, trialPc = "end", trialStatus = "passed"
             PROVE  runResult = "passed" /\ (touches = 0 => Trial!TrialVerifies)
  BY DEF Trial!PassedTrialVerifies
<1>1. SUFFICES ASSUME touches = 0 PROVE Trial!TrialVerifies
  BY PassedTrialAsked
<1>2. \A k \in 1..18 : NameOf(k) \in wanted => kept[NameOf(k)] = onDisk[Trial!Gates[k].file]
  BY <1>1 DEF TrialIInv, StillThere, PassedBy
<1>3. \A k \in (1..6) \cup (10..13) \cup {18} : kept[NameOf(k)] = onDisk[Trial!Gates[k].file]
  BY <1>2, NeverOptional DEF TrialIInv
<1>4. /\ kept["timeline"] = onDisk["phases"] /\ kept["phaseRef"] = onDisk["phases"]
      /\ kept["mirror"] = onDisk["mirror"] /\ kept["verdict"] = onDisk["verdict"]
      /\ kept["identity"] = onDisk["manifest"] /\ kept["summaryRef"] = onDisk["summary"]
      /\ kept["summary"] = onDisk["summary"] /\ kept["fingerprint"] = onDisk["manifest"]
      /\ kept["target"] = onDisk["stdout"] /\ kept["metrics"] = onDisk["metrics"]
  BY <1>3, GateTable, GateFiles
<1>5. /\ "controls" \in wanted => /\ kept["controlSource"] = onDisk["controlRaw"]
                                  /\ kept["controls"] = onDisk["controlJson"]
      /\ "settings" \in wanted => kept["settings"] = onDisk["settings"]
      /\ "rawRefs" \in wanted => /\ kept["rawRefs"] = onDisk["rawLogs"]
                                 /\ kept["transactions"] = onDisk["rawLogs"]
  <2>1. /\ "controlSource" \in wanted => kept["controlSource"] = onDisk["controlRaw"]
        /\ "controls" \in wanted => kept["controls"] = onDisk["controlJson"]
        /\ "settings" \in wanted => kept["settings"] = onDisk["settings"]
        /\ "rawRefs" \in wanted => kept["rawRefs"] = onDisk["rawLogs"]
        /\ "transactions" \in wanted => kept["transactions"] = onDisk["rawLogs"]
    BY <1>2, GateTable, GateFiles
  <2>2. QED BY <2>1, WantedTogether DEF TrialIInv
<1>6. "settings" \notin wanted => kept["settings"] = "absent"
  <2>1. "settings" \in Trial!GateNames
    BY GateSets, GateTable
  <2>2. QED BY <2>1 DEF TrialIInv, Unwanted
<1>7. "absent" \notin Trial!Accepts /\ "unmet" \notin Trial!Accepts
  BY DEF Trial!Accepts
<1>8. Trial!LinkedVerdictHolds
  BY <1>4, <1>7, PassedTrialAsked DEF Trial!LinkedVerdictHolds
<1>9. Trial!TimelineHolds
  BY <1>4, <1>7, PassedTrialAsked, FileTable DEF Trial!TimelineHolds, Trial!RefHolds, Trial!Kept
<1>10. Trial!SummaryHolds
  BY <1>4, <1>7, PassedTrialAsked, FileTable DEF Trial!SummaryHolds, Trial!RefHolds, Trial!Kept
<1>11. Trial!TransactionsHold
  BY <1>4, <1>5, <1>7, PassedTrialAsked, FileTable, WantedTogether
     DEF Trial!TransactionsHold, Trial!RefHolds, Trial!Kept, Trial!CountsAgree, TrialIInv
<1>12. Trial!ControlsHold
  BY <1>4, <1>5, <1>6, <1>7, PassedTrialAsked, FileTable
     DEF Trial!ControlsHold, Trial!RefHolds, Trial!Kept
<1>13. Trial!EnvironmentHolds /\ Trial!MetricsHold
  BY <1>4 DEF Trial!EnvironmentHolds, Trial!MetricsHold
<1>14. QED
  BY <1>8, <1>9, <1>10, <1>11, <1>12, <1>13 DEF Trial!TrialVerifies

\* A trial that passed and verifies rests on files that are accepted, and what it
\* records of each was read from the content that lies there; what passed verifies
\* when nobody writes to the files (runTrial, checkTrial).  For any number of edits.
THEOREM TrialsAreWhole == Spec => []TrialIsWhole
<1> DEFINE I == part = "trial" => TrialIInv
<1>1. Init => I
  BY PartStarts, TrialInvInit
<1>2. I /\ [Next]_allVars => I'
  BY PartSteps, TrialInvNext, TrialInvStays
<1>3. I => TrialIsWhole
  BY TrialVerifiedWhole, TrialPassedVerifies DEF TrialIsWhole
<1>4. QED BY <1>1, <1>2, <1>3, PTL DEF Spec

-----------------------------------------------------------------------------
(* Numbers: a set of them has a least one, a bounded one a greatest, and a *)
(* sum that is defined recursively exists and telescopes.  Each is an      *)
(* induction, made by the least counterexample.                            *)

LEMMA LeastOf ==
  ASSUME NEW T \in SUBSET Nat, T # {}
  PROVE  \E x \in T : \A y \in T : x <= y
<1> DEFINE Less == {p \in Nat \X Nat : p[1] < p[2]}
<1>1. Less = OpToRel(<, Nat)
  BY DEF OpToRel
<1> HIDE DEF Less
<1>2. IsWellFoundedOn(Less, Nat)
  BY <1>1, NatLessThanWellFounded, Zenon
<1>3. \E x \in T : \A y \in T : <<y, x>> \notin Less
  BY <1>2, WFMin, Zenon
<1>4. PICK x \in T : \A y \in T : <<y, x>> \notin Less
  BY <1>3
<1>5. ASSUME NEW y \in T PROVE x <= y
  <2>1. <<y, x>> \in Nat \X Nat
    OBVIOUS
  <2>2. ~(y < x)
    BY <1>4, <2>1 DEF Less
  <2>3. QED BY <2>2
<1>6. QED BY <1>5

LEMMA GreatestUpTo ==
  ASSUME NEW n \in Nat, NEW T \in SUBSET (1..n), T # {}
  PROVE  \E x \in T : \A y \in T : y <= x
<1> DEFINE Rest == {n - y : y \in T}
<1>1. Rest \in SUBSET Nat /\ Rest # {}
  <2>1. \A y \in T : n - y \in Nat
    OBVIOUS
  <2>2. QED BY <2>1
<1> HIDE DEF Rest
<1>2. PICK r \in Rest : \A y \in Rest : r <= y
  BY <1>1, LeastOf
<1>3. PICK x \in T : r = n - x
  BY DEF Rest
<1>4. ASSUME NEW y \in T PROVE y <= x
  <2>1. n - y \in Rest
    BY DEF Rest
  <2>2. n - x <= n - y
    BY <1>2, <1>3, <2>1
  <2>3. x \in Int /\ y \in Int
    OBVIOUS
  <2>4. QED BY <2>2, <2>3
<1>5. QED BY <1>4

\* A recursive sum over 1..n exists.
LEMMA SumExists ==
  ASSUME NEW n \in Nat, NEW s \in [1..n -> Int]
  PROVE  \E f \in [1..n -> Int] : f = [k \in 1..n |-> IF k = 1 THEN 0 ELSE f[k - 1] + s[k]]
<1> DEFINE Sums(m, f) == f \in [1..m -> Int] /\ \A k \in 1..m : f[k] = IF k = 1 THEN 0 ELSE f[k - 1] + s[k]
           Bad == {m \in 0..n : ~\E f \in [1..m -> Int] : Sums(m, f)}
<1>1. Bad = {}
  <2> SUFFICES ASSUME Bad # {} PROVE FALSE
    OBVIOUS
  <2>0. Bad \in SUBSET Nat
    OBVIOUS
  <2>1. PICK m \in Bad : \A y \in Bad : m <= y
    <3> HIDE DEF Bad
    <3> QED BY <2>0, LeastOf
  <2>2. m # 0
    <3>1. Sums(0, [k \in 1..0 |-> 0])
      OBVIOUS
    <3>2. QED BY <3>1
  <2>3. m - 1 \in 0..n /\ m - 1 \notin Bad
    <3>1. m \in 0..n
      OBVIOUS
    <3> HIDE DEF Bad
    <3>2. QED BY <2>1, <2>2, <3>1
  <2>4. PICK f \in [1..(m - 1) -> Int] : Sums(m - 1, f)
    BY <2>3
  <2> DEFINE g == [k \in 1..m |-> IF k = m THEN (IF m = 1 THEN 0 ELSE f[m - 1] + s[m]) ELSE f[k]]
  <2>5. m \in 1..n /\ s[m] \in Int
    BY <2>1, <2>2
  <2>6. g \in [1..m -> Int]
    BY <2>5
  <2>7. \A k \in 1..m : g[k] = IF k = 1 THEN 0 ELSE g[k - 1] + s[k]
    BY <2>4, <2>5
  <2>8. QED BY <2>1, <2>6, <2>7
<1>2. PICK f \in [1..n -> Int] : Sums(n, f)
  <2>1. n \in 0..n /\ n \notin Bad
    <3> HIDE DEF Bad
    <3> QED BY <1>1
  <2>2. QED BY <2>1
<1>3. f = [k \in 1..n |-> IF k = 1 THEN 0 ELSE f[k - 1] + s[k]]
  BY <1>2
<1>4. QED BY <1>3

LEMMA Chained ==
  \A a, b, c, d, e \in Int : a <= c - e /\ b <= d - c => a + b \in Int /\ a + b <= d - e
OBVIOUS

\* A sum whose steps are bounded by those of a function is bounded by its growth.
LEMMA SumGrows ==
  ASSUME NEW n \in Nat \ {0}, NEW s \in [1..n -> Int], NEW t \in [1..n -> Int],
         \A k \in 2..n : s[k] <= t[k] - t[k - 1],
         NEW f, f[1] = 0, \A k \in 2..n : f[k] = f[k - 1] + s[k]
  PROVE  f[n] <= t[n] - t[1]
<1> DEFINE Bad == {k \in 1..n : ~(f[k] \in Int /\ f[k] <= t[k] - t[1])}
<1>1. Bad = {}
  <2> SUFFICES ASSUME Bad # {} PROVE FALSE
    OBVIOUS
  <2>0. Bad \in SUBSET Nat
    OBVIOUS
  <2>1. PICK m \in Bad : \A y \in Bad : m <= y
    <3> HIDE DEF Bad
    <3> QED BY <2>0, LeastOf
  <2>2. 1 \notin Bad
    <3>1. t[1] \in Int
      OBVIOUS
    <3>2. f[1] \in Int /\ f[1] <= t[1] - t[1]
      BY <3>1
    <3>3. QED BY <3>2
  <2>3. m - 1 \in 1..n /\ m - 1 \notin Bad /\ m \in 2..n
    <3>1. m \in 1..n
      OBVIOUS
    <3> HIDE DEF Bad
    <3>2. m # 1
      BY <2>1, <2>2
    <3>3. m - 1 \in 1..n /\ m - 1 < m /\ m \in 2..n
      BY <3>1, <3>2
    <3>4. QED BY <2>1, <3>3
  <2>4. f[m - 1] \in Int /\ f[m - 1] <= t[m - 1] - t[1]
    BY <2>3, Zenon
  <2> HIDE DEF Bad
  <2>5. f[m] = f[m - 1] + s[m]
    BY <2>3
  <2>6. s[m] <= t[m] - t[m - 1]
    BY <2>3
  <2>7. s[m] \in Int /\ t[m] \in Int /\ t[m - 1] \in Int /\ t[1] \in Int
    BY <2>3
  <2>8. f[m] \in Int /\ f[m] <= t[m] - t[1]
    <3>1. f[m - 1] + s[m] \in Int /\ f[m - 1] + s[m] <= t[m] - t[1]
      BY <2>4, <2>6, <2>7, Chained, Zenon
    <3>2. QED BY <2>5, <3>1, Zenon
  <2>9. QED BY <2>1, <2>8 DEF Bad
<1>2. n \in 1..n /\ n \notin Bad
  <2> HIDE DEF Bad
  <2> QED BY <1>1
<1>3. QED BY <1>2

LEMMA SumIsBounded ==
  ASSUME NEW n \in Nat \ {0}, NEW s \in [1..n -> Int], NEW t \in [1..n -> Int],
         \A k \in 2..n : s[k] <= t[k] - t[k - 1],
         NEW f, f = [k \in 1..n |-> IF k = 1 THEN 0 ELSE f[k - 1] + s[k]]
  PROVE  f[n] <= t[n] - t[1]
<1>1. f[1] = 0
  <2>1. 1 \in 1..n
    OBVIOUS
  <2>2. QED BY <2>1, Zenon
<1>2. ASSUME NEW k \in 2..n PROVE f[k] = f[k - 1] + s[k]
  <2>1. k \in 1..n /\ k # 1
    OBVIOUS
  <2>2. QED BY <2>1, Zenon
<1>3. QED BY <1>1, <1>2, SumGrows, Zenon

\* Counted is the sum that its definition asks for.
LEMMA CountedSums ==
  ASSUME NEW n \in Nat, DOMAIN Sampled!Selected = 1..n, \A k \in 1..n : k # 1 => Sampled!Added(k) \in Int
  PROVE  Sampled!Counted = [k \in 1..n |-> IF k = 1 THEN 0 ELSE Sampled!Counted[k - 1] + Sampled!Added(k)]
<1> DEFINE s == [k \in 1..n |-> IF k = 1 THEN 0 ELSE Sampled!Added(k)]
<1>1. s \in [1..n -> Int]
  OBVIOUS
<1>2. PICK f : f = [k \in 1..n |-> IF k = 1 THEN 0 ELSE f[k - 1] + s[k]]
  <2> HIDE DEF s
  <2>1. \E f \in [1..n -> Int] : f = [k \in 1..n |-> IF k = 1 THEN 0 ELSE f[k - 1] + s[k]]
    BY <1>1, SumExists
  <2>2. QED BY <2>1
<1>3. f = [k \in DOMAIN Sampled!Selected |-> IF k = 1 THEN 0 ELSE f[k - 1] + Sampled!Added(k)]
  BY <1>2
<1>4. QED BY <1>3 DEF Sampled!Counted

-----------------------------------------------------------------------------
(* The sampled counters.  A row, the row that is being read and the        *)
(* server's counters now are readings, and each follows those before it:   *)
(* within one epoch the counter grew by the work done, and across a reset  *)
(* it holds no more than that.                                             *)

Follows(a, b) ==
  /\ a.epoch <= b.epoch /\ a.seen <= b.seen
  /\ IF a.epoch = b.epoch THEN b.value - a.value = b.seen - a.seen ELSE b.value <= b.seen - a.seen
Present == [value |-> counter, seen |-> work, epoch |-> epoch]
Reading == [value |-> sampler.value, seen |-> sampler.seen, epoch |-> sampler.epoch]
Readings == [value : Nat, seen : Nat, epoch : Nat]
ReadingOf(row) == [value |-> row.value, seen |-> row.seen, epoch |-> row.epoch]

SampledTypes ==
  /\ scNow \in Nat /\ resetAt \in Nat
  /\ counter \in Nat /\ work \in Nat /\ epoch \in Nat
  /\ resetRow \in [before : Nat, after : Nat, done : BOOLEAN, epoch : Nat]
  /\ sampler \in [pc : {"wait", "query", "stamp", "ended", "failed"}, k : Nat, first : Nat, started : Nat,
                  value : Nat, seen : Nat, epoch : Nat, boundary : BOOLEAN]
  /\ metrics \in Seq([at : Int, value : Nat, seen : Nat, epoch : Nat])
RowsFollow == \A k \in DOMAIN metrics : \A j \in 1..(k - 1) : Follows(metrics[j], metrics[k])
ReadingFollows ==
  sampler.pc = "stamp" => /\ \A k \in DOMAIN metrics : Follows(metrics[k], sampler)
                          /\ Follows(sampler, Present)
PresentFollows == \A k \in DOMAIN metrics : Follows(metrics[k], Present)
SampledIInv == SampledTypes /\ RowsFollow /\ ReadingFollows /\ PresentFollows

LEMMA SampledInvInit == Sampled!SampledInit => SampledIInv
BY DEF Sampled!SampledInit, SampledIInv, SampledTypes, RowsFollow, ReadingFollows, PresentFollows,
   Sampled!NoRow, Sampled!Idle

\* The server only counts on, and a reset empties the counter: what was read before
\* is followed by the counters still.
LEMMA CountersGrow ==
  ASSUME SampledTypes,
         \/ counter' = counter + 1 /\ work' = work + 1 /\ epoch' = epoch
         \/ counter' = 0 /\ work' = work /\ epoch' = epoch + 1
         \/ counter' = counter /\ work' = work /\ epoch' = epoch
  PROVE  /\ counter' \in Nat /\ work' \in Nat /\ epoch' \in Nat
         /\ \A a : a.value \in Nat /\ a.seen \in Nat /\ a.epoch \in Nat /\ Follows(a, Present)
                     => Follows(a, Present)'
<1>0. counter \in Nat /\ work \in Nat /\ epoch \in Nat
  BY DEF SampledTypes
<1>1. counter' \in Nat /\ work' \in Nat /\ epoch' \in Nat
  BY <1>0
<1>2. ASSUME NEW a, a.value \in Nat, a.seen \in Nat, a.epoch \in Nat, Follows(a, Present)
      PROVE  Follows(a, Present')
  BY <1>0, <1>1, <1>2 DEF Follows, Present
<1>3. QED BY <1>1, <1>2 DEF Follows

\* What a row of metrics.csv holds.
LEMMA RowTypes ==
  ASSUME SampledTypes, NEW k \in DOMAIN metrics
  PROVE  /\ metrics[k].value \in Nat /\ metrics[k].seen \in Nat /\ metrics[k].epoch \in Nat
         /\ metrics[k].at \in Int /\ k \in 1..Len(metrics)
<1> DEFINE Row == [at : Int, value : Nat, seen : Nat, epoch : Nat]
<1>1. metrics \in Seq(Row)
  BY DEF SampledTypes
<1> HIDE DEF Row
<1>2. metrics[k] \in Row /\ k \in 1..Len(metrics)
  BY <1>1
<1>3. QED BY <1>2 DEF Row

LEMMA SampledInvNext == SampledIInv /\ Sampled!SampledNext => SampledIInv'
<1> SUFFICES ASSUME SampledIInv, Sampled!SampledNext PROVE SampledIInv'
  OBVIOUS
<1> USE DEF SampledIInv
<1>1. ASSUME UNCHANGED <<metrics, sampler>>, SampledTypes',
             \/ counter' = counter + 1 /\ work' = work + 1 /\ epoch' = epoch
             \/ counter' = 0 /\ work' = work /\ epoch' = epoch + 1
             \/ counter' = counter /\ work' = work /\ epoch' = epoch
      PROVE  SampledIInv'
  <2>1. RowsFollow'
    BY <1>1 DEF RowsFollow
  <2>2. \A k \in DOMAIN metrics : Follows(metrics[k], Present)'
    BY <1>1, CountersGrow, RowTypes DEF PresentFollows
  <2>3. sampler.pc = "stamp" => Follows(sampler, Present)'
    BY <1>1, CountersGrow DEF ReadingFollows, SampledTypes
  <2>4. QED BY <1>1, <2>1, <2>2, <2>3 DEF ReadingFollows, PresentFollows
<1>2. CASE Sampled!Tick
  <2>1. SampledTypes'
    BY <1>2 DEF Sampled!Tick, Sampled!server, Sampled!control, Sampled!rows, SampledTypes
  <2>2. QED BY <1>1, <1>2, <2>1 DEF Sampled!Tick, Sampled!server, Sampled!rows
<1>3. CASE Sampled!Work
  <2>1. SampledTypes'
    BY <1>3 DEF Sampled!Work, Sampled!control, Sampled!rows, SampledTypes
  <2>2. QED BY <1>1, <1>3, <2>1 DEF Sampled!Work, Sampled!rows
<1>4. CASE Sampled!ForeignReset
  <2>1. SampledTypes'
    BY <1>4 DEF Sampled!ForeignReset, Sampled!ResetCounters, Sampled!control, Sampled!rows, SampledTypes
  <2>2. QED BY <1>1, <1>4, <2>1 DEF Sampled!ForeignReset, Sampled!ResetCounters, Sampled!rows
<1>5. CASE Sampled!ResetStatistics
  <2>1. \/ Sampled!ResetCounters
        \/ UNCHANGED <<counter, epoch, resetAt>>
    BY <1>5 DEF Sampled!ResetStatistics
  <2>2. UNCHANGED <<work, metrics, sampler, scNow>>
        /\ \E done \in BOOLEAN : resetRow' = [resetRow EXCEPT !.done = done]
    BY <1>5 DEF Sampled!ResetStatistics, Sampled!rows
  <2>3. SampledTypes'
    <3>1. resetRow' \in [before : Nat, after : Nat, done : BOOLEAN, epoch : Nat]
      BY <2>2 DEF SampledTypes
    <3>2. counter' \in Nat /\ epoch' \in Nat /\ resetAt' \in Nat
      BY <2>1, SMTT(30) DEF Sampled!ResetCounters, SampledTypes
    <3>3. QED BY <2>2, <3>1, <3>2 DEF SampledTypes
  <2>4. QED BY <1>1, <2>1, <2>2, <2>3 DEF Sampled!ResetCounters
<1>6. CASE Sampled!EnterControl \/ Sampled!ReadResetBefore \/ Sampled!ReadResetAfter \/ Sampled!StartMeasure
           \/ Sampled!FinishMeasure \/ Sampled!StopSampler \/ Sampled!CloseTrial
  <2>1. UNCHANGED <<scNow, counter, work, epoch, resetAt, sampler, metrics>>
    BY <1>6 DEF Sampled!EnterControl, Sampled!ReadResetBefore, Sampled!ReadResetAfter, Sampled!StartMeasure,
       Sampled!FinishMeasure, Sampled!StopSampler, Sampled!CloseTrial, Sampled!server, Sampled!rows
  <2>2. resetRow' \in [before : Nat, after : Nat, done : BOOLEAN, epoch : Nat]
    <3>1. \/ resetRow' = resetRow
          \/ resetRow' = [resetRow EXCEPT !.before = resetAt]
          \/ resetRow' = [resetRow EXCEPT !.after = resetAt, !.epoch = epoch]
      BY <1>6 DEF Sampled!EnterControl, Sampled!ReadResetBefore, Sampled!ReadResetAfter, Sampled!StartMeasure,
         Sampled!FinishMeasure, Sampled!StopSampler, Sampled!CloseTrial, Sampled!control
    <3>2. QED BY <3>1 DEF SampledTypes
  <2>3. SampledTypes'
    BY <2>1, <2>2 DEF SampledTypes
  <2>4. QED BY <1>1, <2>1, <2>3
<1>7. CASE Sampled!StartSample \/ Sampled!StartBoundarySample \/ Sampled!FailSample
  <2>1. UNCHANGED <<scNow, counter, work, epoch, resetAt, resetRow, metrics>>
        /\ sampler'.pc # "stamp"
    BY <1>7 DEF Sampled!StartSample, Sampled!StartBoundarySample, Sampled!FailSample, Sampled!server,
       Sampled!control, SampledTypes
  <2>2. SampledTypes'
    BY <1>7, <2>1, ZenonT(30) DEF Sampled!StartSample, Sampled!StartBoundarySample, Sampled!FailSample, SampledTypes
  <2>3. QED BY <2>1, <2>2 DEF RowsFollow, ReadingFollows, PresentFollows, Present
<1>8. CASE Sampled!ReadCounters
  <2>1. UNCHANGED <<scNow, counter, work, epoch, resetAt, resetRow, metrics>>
        /\ sampler' = [sampler EXCEPT !.pc = "stamp", !.value = counter, !.seen = work, !.epoch = epoch]
    BY <1>8 DEF Sampled!ReadCounters, Sampled!server, Sampled!control
  <2>2. SampledTypes'
    BY <2>1 DEF SampledTypes
  <2>3. sampler'.value = counter /\ sampler'.seen = work /\ sampler'.epoch = epoch
    BY <2>1 DEF SampledTypes
  <2>4. \A a : Follows(a, Present) => Follows(a, sampler')
    BY <2>3 DEF Follows, Present
  <2>5. Follows(sampler', Present)
    BY <2>3 DEF Follows, Present, SampledTypes
  <2>6. QED BY <2>1, <2>2, <2>4, <2>5 DEF RowsFollow, ReadingFollows, PresentFollows, Present
<1>9. CASE Sampled!FinishSample
  <2> DEFINE row == [at |-> Sampled!Truncated(scNow), value |-> sampler.value, seen |-> sampler.seen,
                     epoch |-> sampler.epoch]
             Row == [at : Int, value : Nat, seen : Nat, epoch : Nat]
  <2>1. /\ UNCHANGED <<scNow, counter, work, epoch, resetAt, resetRow>>
        /\ metrics' = Append(metrics, row) /\ sampler.pc = "stamp"
        /\ \E next \in {"wait", "ended"} : sampler' = Sampled!Idle(sampler.k + 1, sampler.first, next)
    BY <1>9 DEF Sampled!FinishSample, Sampled!AfterSample, Sampled!server, Sampled!control
  <2>2. row \in Row
    BY ResolutionAssumption DEF Sampled!Truncated, SampledTypes
  <2>3. metrics \in Seq(Row)
    BY DEF SampledTypes
  <2>4. row.value = sampler.value /\ row.seen = sampler.seen /\ row.epoch = sampler.epoch
    OBVIOUS
  <2>5. (\A a : Follows(a, sampler) => Follows(a, row)) /\ Follows(row, Present)
    BY <2>1, <2>4 DEF Follows, ReadingFollows
  <2> HIDE DEF row, Row
  <2>6. /\ metrics' \in Seq(Row) /\ DOMAIN metrics' = 1..(Len(metrics) + 1) /\ DOMAIN metrics = 1..Len(metrics)
        /\ \A k \in 1..Len(metrics) : metrics'[k] = metrics[k]
        /\ metrics'[Len(metrics) + 1] = row /\ Len(metrics) \in Nat
    BY <2>1, <2>2, <2>3
  <2>7. /\ sampler' \in [pc : {"wait", "query", "stamp", "ended", "failed"}, k : Nat, first : Nat, started : Nat,
                         value : Nat, seen : Nat, epoch : Nat, boundary : BOOLEAN]
        /\ sampler'.pc # "stamp"
    BY <2>1 DEF Sampled!Idle, SampledTypes
  <2>8. SampledTypes'
    BY <2>1, <2>6, <2>7 DEF SampledTypes, Row
  <2>9. RowsFollow'
    <3> SUFFICES ASSUME NEW k \in 1..(Len(metrics) + 1), NEW j \in 1..(k - 1)
                 PROVE  Follows(metrics'[j], metrics'[k])
      BY <2>6 DEF RowsFollow
    <3>1. CASE k = Len(metrics) + 1
      BY <2>1, <2>5, <2>6, <3>1 DEF ReadingFollows
    <3>2. CASE k # Len(metrics) + 1
      BY <2>6, <3>2, SMTT(30) DEF RowsFollow
    <3>3. QED BY <3>1, <3>2
  <2>10. PresentFollows'
    <3> SUFFICES ASSUME NEW k \in 1..(Len(metrics) + 1) PROVE Follows(metrics'[k], Present)
      BY <2>1, <2>6 DEF PresentFollows, Present
    <3>1. QED BY <2>5, <2>6 DEF PresentFollows
  <2>11. QED BY <2>7, <2>8, <2>9, <2>10 DEF ReadingFollows
<1>10. QED BY <1>2, <1>3, <1>4, <1>5, <1>6, <1>7, <1>8, <1>9 DEF Sampled!SampledNext

LEMMA SampledInvStays == SampledIInv /\ UNCHANGED SampledVars => SampledIInv'
BY DEF SampledIInv, SampledTypes, RowsFollow, ReadingFollows, PresentFollows, Present, SampledVars

-----------------------------------------------------------------------------
\* What a row adds is no more than the work between it and the row before.
LEMMA RowAddsWork ==
  ASSUME NEW a, NEW b, a.value \in Nat, b.value \in Nat, a.seen \in Nat, b.seen \in Nat,
         a.epoch \in Nat, b.epoch \in Nat, Follows(a, b)
  PROVE  /\ b.value - a.value <= b.seen - a.seen
         /\ a.epoch < b.epoch => b.value <= b.seen - a.seen
BY DEF Follows

\* The rows of the coverage are a stretch of the rows of metrics.csv.
LEMMA SelectedRows ==
  ASSUME SampledTypes, Sampled!Covered
  PROVE  /\ Sampled!FirstRow \in 1..Len(metrics) /\ Sampled!LastRow \in 1..Len(metrics)
         /\ Sampled!FirstRow < Sampled!LastRow
         /\ Sampled!Selected \in Seq([at : Int, value : Nat, seen : Nat, epoch : Nat])
         /\ Len(Sampled!Selected) = Sampled!LastRow - Sampled!FirstRow + 1
         /\ \A k \in 1..Len(Sampled!Selected) : Sampled!Selected[k] = metrics[Sampled!FirstRow + k - 1]
<1> DEFINE n == Len(metrics)
           Row == [at : Int, value : Nat, seen : Nat, epoch : Nat]
<1>1. metrics \in Seq(Row) /\ n \in Nat /\ DOMAIN metrics = 1..n
  BY DEF SampledTypes
<1> HIDE DEF n, Row
<1>2. Sampled!FirstRow \in 1..n
  <2>1. Sampled!Starts \in SUBSET (1..n) /\ Sampled!Starts # {}
    BY <1>1 DEF Sampled!Covered, Sampled!Starts
  <2>2. \E k \in Sampled!Starts : \A j \in Sampled!Starts : j <= k
    BY <1>1, <2>1, GreatestUpTo
  <2>3. QED BY <2>1, <2>2 DEF Sampled!FirstRow
<1>3. Sampled!LastRow \in 1..n
  <2>1. Sampled!Finishes \in SUBSET (1..n) /\ Sampled!Finishes # {}
    BY <1>1 DEF Sampled!Covered, Sampled!Finishes
  <2>2. \E k \in Sampled!Finishes : \A j \in Sampled!Finishes : k <= j
    BY <1>1, <2>1, LeastOf
  <2>3. QED BY <2>1, <2>2 DEF Sampled!LastRow
<1>4. Sampled!FirstRow < Sampled!LastRow
  BY DEF Sampled!Covered
<1> DEFINE first == Sampled!FirstRow
           last == Sampled!LastRow
<1>5. first \in 1..n /\ last \in 1..n /\ first < last
  BY <1>2, <1>3, <1>4
<1>6. Sampled!Selected = SubSeq(metrics, first, last)
  BY DEF Sampled!Selected
<1> HIDE DEF first, last
<1>7. /\ Sampled!Selected \in Seq(Row) /\ Len(Sampled!Selected) = last - first + 1
      /\ \A k \in 1..(last - first + 1) : Sampled!Selected[k] = metrics[first + k - 1]
  BY <1>1, <1>5, <1>6 DEF n
<1>8. QED BY <1>5, <1>7 DEF n, Row, first, last

\* Each row adds no more than was done since the one before it: a row that crosses
\* the reset was read after it, since its stamp and its reading agree.
LEMMA SummaryBound == SampledIInv => Sampled!SummaryIsLowerBound
<1> SUFFICES ASSUME SampledIInv, \E calibrated \in BOOLEAN : Sampled!Summarized(calibrated),
                    policy.managed => \A k \in DOMAIN Sampled!Selected : Sampled!Placed(Sampled!Selected[k])
             PROVE  Sampled!Delta <= Sampled!TrulyCounted
  BY DEF Sampled!SummaryIsLowerBound
<1> DEFINE rows == Sampled!Selected
           n == Len(rows)
           Row == [at : Int, value : Nat, seen : Nat, epoch : Nat]
<1>1. SampledTypes /\ Sampled!Covered
  BY DEF SampledIInv, Sampled!Summarized
<1>2. rows \in Seq(Row) /\ n \in Nat \ {0} /\ DOMAIN rows = 1..n
  BY <1>1, SelectedRows
<1>3. \A k \in 1..n : rows[k] \in Row
  <2> HIDE DEF rows, n, Row
  <2> QED BY <1>2 DEF n
<1>4. \A k \in 1..n : /\ rows[k].at \in Int /\ rows[k].value \in Nat /\ rows[k].seen \in Nat
                      /\ rows[k].epoch \in Nat
  <2> HIDE DEF rows, n
  <2> QED BY <1>3
<1>5. \A k \in 2..n : Follows(rows[k - 1], rows[k])
  <2> SUFFICES ASSUME NEW k \in 2..n PROVE Follows(rows[k - 1], rows[k])
    OBVIOUS
  <2> DEFINE i == Sampled!FirstRow + k - 1
  <2>1. rows[k] = metrics[i] /\ rows[k - 1] = metrics[i - 1] /\ i \in 2..Len(metrics)
    <3> DEFINE first == Sampled!FirstRow
               last == Sampled!LastRow
    <3>1. /\ first \in 1..Len(metrics) /\ last \in 1..Len(metrics) /\ n = last - first + 1
          /\ \A m \in 1..n : rows[m] = metrics[first + m - 1]
      BY <1>1, SelectedRows
    <3> HIDE DEF first, last, rows, n
    <3>2. k \in 1..n /\ k - 1 \in 1..n
      BY <1>2
    <3>3. rows[k] = metrics[first + k - 1] /\ rows[k - 1] = metrics[first + (k - 1) - 1]
      BY <3>1, <3>2
    <3>4. Len(metrics) \in Nat
      BY <1>1 DEF SampledTypes
    <3>5. first + (k - 1) - 1 = (first + k - 1) - 1 /\ first + k - 1 \in 2..Len(metrics)
      BY <3>1, <3>2, <3>4, <1>2
    <3>6. QED BY <3>3, <3>5 DEF first
  <2>2. DOMAIN metrics = 1..Len(metrics)
    BY <1>1 DEF SampledTypes
  <2> HIDE DEF i
  <2>3. i \in DOMAIN metrics /\ i - 1 \in 1..(i - 1)
    BY <2>1, <2>2
  <2>4. Follows(metrics[i - 1], metrics[i])
    BY <2>3 DEF SampledIInv, RowsFollow
  <2>5. QED BY <2>1, <2>4
<1> HIDE DEF n, Row
<1>6. \A k \in 2..n : Sampled!Added(k) \in Int /\ Sampled!Added(k) <= rows[k].seen - rows[k - 1].seen
  <2> SUFFICES ASSUME NEW k \in 2..n
               PROVE  Sampled!Added(k) \in Int /\ Sampled!Added(k) <= rows[k].seen - rows[k - 1].seen
    OBVIOUS
  <2> DEFINE a == rows[k - 1]
             b == rows[k]
  <2>1. k \in 1..n /\ k - 1 \in 1..n
    BY <1>2
  <2>2. /\ a.at \in Int /\ a.value \in Nat /\ a.seen \in Nat /\ a.epoch \in Nat
        /\ b.at \in Int /\ b.value \in Nat /\ b.seen \in Nat /\ b.epoch \in Nat /\ Follows(a, b)
    BY <1>4, <1>5, <2>1
  <2>3. Sampled!Added(k) = IF Sampled!Crosses(a, b) THEN b.value ELSE b.value - a.value
    BY DEF Sampled!Added
  <2>4. Sampled!Crosses(a, b) => a.epoch < b.epoch
    <3> SUFFICES ASSUME Sampled!Crosses(a, b) PROVE a.epoch < b.epoch
      OBVIOUS
    <3>1. Sampled!Placed(a) /\ Sampled!Placed(b)
      BY <1>2, <2>1 DEF Sampled!Crosses
    <3>2. resetRow.after \in Nat /\ resetRow.epoch \in Nat
      BY <1>1 DEF SampledTypes
    <3>3. a.at < resetRow.after /\ resetRow.after <= b.at
      BY DEF Sampled!Crosses
    <3> HIDE DEF a, b
    <3>4. ~(a.epoch >= resetRow.epoch)
      BY <2>2, <3>1, <3>2, <3>3 DEF Sampled!Placed
    <3>5. b.epoch >= resetRow.epoch
      BY <2>2, <3>1, <3>2, <3>3 DEF Sampled!Placed
    <3>6. QED BY <2>2, <3>2, <3>4, <3>5
  <2> HIDE DEF a, b
  <2>5. Sampled!Added(k) \in Int /\ Sampled!Added(k) <= b.seen - a.seen
    BY <2>2, <2>3, <2>4, RowAddsWork
  <2>6. QED BY <2>5 DEF a, b
<1> DEFINE s == [k \in 1..n |-> IF k = 1 THEN 0 ELSE Sampled!Added(k)]
           t == [k \in 1..n |-> rows[k].seen]
<1>7. s \in [1..n -> Int] /\ t \in [1..n -> Int] /\ \A k \in 2..n : s[k] <= t[k] - t[k - 1]
  <2> HIDE DEF rows
  <2> QED BY <1>2, <1>4, <1>6
<1>8. Sampled!Counted = [k \in 1..n |-> IF k = 1 THEN 0 ELSE Sampled!Counted[k - 1] + s[k]]
  <2>1. Sampled!Counted = [k \in 1..n |-> IF k = 1 THEN 0 ELSE Sampled!Counted[k - 1] + Sampled!Added(k)]
    BY <1>2, <1>6, CountedSums
  <2>2. QED BY <2>1
<1>9. Sampled!Counted[n] <= t[n] - t[1]
  <2> HIDE DEF s, t
  <2> QED BY <1>2, <1>7, <1>8, SumIsBounded
<1>10. t[n] = Sampled!Last(rows).seen /\ t[1] = Head(rows).seen
  <2> HIDE DEF rows
  <2> QED BY <1>2 DEF n, Sampled!Last
<1>11. QED
  BY <1>9, <1>10 DEF Sampled!Delta, Sampled!TrulyCounted, n

\* What a summary says of a counter is no more than the server counted between the
\* two rows that it spans, whatever was reset, by the trial or by others, and however
\* late a sample came, as long as no row's stamp disagrees with its reading about the
\* side of the reset (summarizeCounters, coverageIndexes, deriveStatisticsReset).  For
\* any number of samples, resets and ticks, and any resolution of the stamps.
THEOREM CountersBound == Spec => []CountersAreLowerBound
<1> DEFINE I == part = "sampled" => SampledIInv
<1>1. Init => I
  BY PartStarts, SampledInvInit
<1>2. I /\ [Next]_allVars => I'
  BY PartSteps, SampledInvNext, SampledInvStays
<1>3. I => CountersAreLowerBound
  BY SummaryBound DEF CountersAreLowerBound
<1>4. QED BY <1>1, <1>2, <1>3, PTL DEF Spec

-----------------------------------------------------------------------------
(* The logs of pgbench.  Each row of a client's file is one that the       *)
(* client's run wrote, whatever was lost, cut or written twice; the rows   *)
(* of an earlier log are older than the run.  What the gates hold is kept  *)
(* with the verdict.                                                       *)

Outcomes == {"completed", "failed", "skipped", "retried"}
LogRows == [client : Clients, no : Nat, outcome : Outcomes, at : Nat, latency : Int]
PgPlaces == {"idle", "starting", "running", "stopping", "collected", "judged"}
\* The rows a log may hold that file f is of.
WrittenBy(run, f, row) ==
  /\ row \in LogRows
  /\ f = "old" => row.at = 0
  /\ f \in Clients => row.client = f /\ \E k \in DOMAIN run[f] : run[f][k] = row
LogWritten(run, f, rows) == rows \in Seq(LogRows) /\ \A k \in 1..Len(rows) : WrittenBy(run, f, rows[k])
Accepted ==
  /\ Pgbench!LinesKnown /\ Pgbench!FieldsPresent /\ Pgbench!ProtocolHolds /\ Pgbench!WithinMeasure
  /\ Pgbench!LatencyAgrees /\ Pgbench!LogsParse /\ Pgbench!LogsMatch /\ Pgbench!InsideMeasure

PgTypes ==
  /\ pgPc \in PgPlaces /\ clock \in Nat \ {0}
  /\ span \in [started : Nat, from : Nat, to : Nat, finished : Nat]
  /\ pgPc # "idle" => span.started > 0
  /\ did \in [Clients -> Seq(LogRows)]
DidBounded == \A c \in Clients : Len(did[c]) <= TxPerClient
Files ==
  /\ logs \in [DOMAIN logs -> Seq(LogRows)] /\ DOMAIN logs \subseteq Clients \cup {"old"}
  /\ pgPc \notin {"collected", "judged"} => DOMAIN logs = Clients
LogsWritten == \A f \in DOMAIN logs : LogWritten(did, f, logs[f])
Judged == verdict = "passed" => pgPc = "judged" /\ Accepted
PgIInv == PgTypes /\ DidBounded /\ Files /\ LogsWritten /\ Judged

LEMMA PgInvInit == Pgbench!PgbenchInit => PgIInv
BY ClientsAssumption DEF Pgbench!PgbenchInit, PgIInv, PgTypes, DidBounded, Files, LogsWritten, LogWritten,
   Judged, PgPlaces

LEMMA PgCardinality == \A S : Pgbench!Cardinality(S) = Cardinality(S)
BY DEF Pgbench!Cardinality, Cardinality

\* A new row of a client is of the types, and a log that takes it is written.
LEMMA NewRow ==
  ASSUME PgTypes, NEW c \in Clients, NEW result \in Outcomes
  PROVE  Pgbench!Row(c, result) \in LogRows /\ Pgbench!Row(c, result).client = c
<1>1. did[c] \in Seq(LogRows) /\ span.from \in Nat /\ clock \in Nat
  BY DEF PgTypes
<1>2. Pgbench!Consumed(did[c]) \in Nat
  <2> DEFINE S == {k \in DOMAIN did[c] : did[c][k].outcome # "skipped"}
  <2>1. S \in SUBSET (1..Len(did[c])) /\ Len(did[c]) \in Nat
    BY <1>1
  <2>2. Cardinality(S) \in Nat
    <3> HIDE DEF S
    <3>1. IsFiniteSet(1..Len(did[c]))
      BY <2>1, FS_Interval
    <3>2. QED BY <2>1, <3>1, FS_Subset, FS_CardinalityType
  <2>3. QED BY <2>2, PgCardinality DEF Pgbench!Consumed
<1>3. (IF Len(did[c]) = 0 THEN span.from ELSE did[c][Len(did[c])].at) \in Int
  <2>1. CASE Len(did[c]) = 0
    BY <1>1, <2>1
  <2>2. CASE Len(did[c]) # 0
    <3>1. Len(did[c]) \in DOMAIN did[c]
      BY <1>1, <2>2
    <3>2. did[c][Len(did[c])] \in LogRows
      BY <1>1, <3>1
    <3>3. QED BY <2>2, <3>2 DEF LogRows
  <2>3. QED BY <2>1, <2>2
<1> DEFINE since == IF Len(did[c]) = 0 THEN span.from ELSE did[c][Len(did[c])].at
<1>4. Pgbench!Row(c, result) = [client |-> c, no |-> Pgbench!Consumed(did[c]), outcome |-> result,
                                 at |-> clock, latency |-> clock - since]
  BY DEF Pgbench!Row
<1> HIDE DEF since
<1>5. since \in Int
  BY <1>3 DEF since
<1>6. clock - since \in Int
  BY <1>1, <1>5
<1>7. QED BY <1>1, <1>2, <1>4, <1>6 DEF LogRows

\* Elements of a sequence of rows.
LEMMA PutRow ==
  ASSUME NEW run, NEW f, NEW rows, LogWritten(run, f, rows), NEW row, WrittenBy(run, f, row)
  PROVE  LogWritten(run, f, Append(rows, row))
<1>1. rows \in Seq(LogRows) /\ row \in LogRows
  BY DEF LogWritten, WrittenBy
<1>2. /\ Append(rows, row) \in Seq(LogRows) /\ Len(Append(rows, row)) = Len(rows) + 1 /\ Len(rows) \in Nat
      /\ \A k \in 1..Len(rows) : Append(rows, row)[k] = rows[k]
      /\ Append(rows, row)[Len(rows) + 1] = row
  BY <1>1
<1>3. \A k \in 1..(Len(rows) + 1) : WrittenBy(run, f, Append(rows, row)[k])
  <2> SUFFICES ASSUME NEW k \in 1..(Len(rows) + 1) PROVE WrittenBy(run, f, Append(rows, row)[k])
    OBVIOUS
  <2>1. CASE k = Len(rows) + 1
    BY <1>2, <2>1
  <2>2. CASE k \in 1..Len(rows)
    BY <1>2, <2>2 DEF LogWritten
  <2>3. QED BY <1>2, <2>1, <2>2
<1>4. QED BY <1>2, <1>3 DEF LogWritten

LEMMA CutRows ==
  ASSUME NEW run, NEW f, NEW rows, LogWritten(run, f, rows), rows # <<>>
  PROVE  LogWritten(run, f, <<>>) /\ LogWritten(run, f, Tail(rows)) /\ WrittenBy(run, f, rows[Len(rows)])
<1>1. rows \in Seq(LogRows) /\ Len(rows) \in Nat \ {0}
  BY DEF LogWritten
<1>2. LogWritten(run, f, <<>>)
  BY DEF LogWritten
<1>3. /\ Tail(rows) \in Seq(LogRows) /\ Len(Tail(rows)) = Len(rows) - 1
      /\ \A k \in 1..(Len(rows) - 1) : Tail(rows)[k] = rows[k + 1] /\ k + 1 \in 1..Len(rows)
  BY <1>1
<1>4. LogWritten(run, f, Tail(rows))
  BY <1>3 DEF LogWritten
<1>5. QED BY <1>1, <1>2, <1>4 DEF LogWritten


\* A run that only grows has written what it had.
LEMMA RunGrows ==
  ASSUME PgTypes, NEW f, NEW rows, LogWritten(did, f, rows),
         NEW c \in Clients, NEW row, did' = [did EXCEPT ![c] = Append(did[c], row)]
  PROVE  LogWritten(did', f, rows)
<1>1. did[c] \in Seq(LogRows) /\ did \in [Clients -> Seq(LogRows)]
  BY DEF PgTypes
<1>2. /\ DOMAIN Append(did[c], row) = 1..(Len(did[c]) + 1) /\ DOMAIN did[c] = 1..Len(did[c])
      /\ Len(did[c]) \in Nat
      /\ \A k \in 1..Len(did[c]) : Append(did[c], row)[k] = did[c][k]
  BY <1>1
<1>3. ASSUME NEW r, WrittenBy(did, f, r) PROVE WrittenBy(did', f, r)
  <2>1. CASE f \notin Clients
    BY <1>3, <2>1 DEF WrittenBy
  <2>2. CASE f \in Clients /\ f # c
    BY <1>1, <1>3, <2>2 DEF WrittenBy
  <2>3. CASE f = c
    <3>1. did'[c] = Append(did[c], row)
      BY <1>1
    <3>2. PICK k \in DOMAIN did[c] : did[c][k] = r
      BY <1>3, <2>3 DEF WrittenBy
    <3>3. k \in DOMAIN did'[c] /\ did'[c][k] = r
      BY <1>2, <3>1, <3>2
    <3>4. QED BY <1>3, <2>3, <3>3 DEF WrittenBy
  <2>4. QED BY <2>1, <2>2, <2>3
<1>4. QED BY <1>3 DEF LogWritten

LEMMA PgTransaction == ASSUME PgIInv, NEW c \in Clients, Pgbench!RunTransaction(c) PROVE PgIInv'
<1>1. PICK result \in Outcomes :
        /\ did' = [did EXCEPT ![c] = Append(@, Pgbench!Row(c, result))]
        /\ \/ logs' = [logs EXCEPT ![c] = Append(@, Pgbench!Row(c, result))]
           \/ logs' = logs
  BY DEF Pgbench!RunTransaction, Outcomes
<1>0. PICK row : row = Pgbench!Row(c, result)
  OBVIOUS
<1>2. /\ pgPc = "running" /\ Len(did[c]) < TxPerClient
      /\ UNCHANGED <<pgPc, plan, clock, span, output, verdict>>
  BY DEF Pgbench!RunTransaction
<1>3. row \in LogRows /\ row.client = c
  BY <1>0, NewRow DEF PgIInv
<1>4. /\ did' = [did EXCEPT ![c] = Append(did[c], row)]
      /\ \/ logs' = [logs EXCEPT ![c] = Append(logs[c], row)]
         \/ logs' = logs
  BY <1>0, <1>1
<1>5. did \in [Clients -> Seq(LogRows)] /\ logs \in [Clients -> Seq(LogRows)] /\ PgTypes
  BY <1>2 DEF PgIInv, PgTypes, Files
<1>6. /\ did'[c] = Append(did[c], row) /\ \A d \in Clients \ {c} : did'[d] = did[d]
      /\ did' \in [Clients -> Seq(LogRows)] /\ Len(did'[c]) = Len(did[c]) + 1 /\ Len(did[c]) \in Nat
      /\ did'[c][Len(did[c]) + 1] = row /\ Len(did[c]) + 1 \in DOMAIN did'[c]
  BY <1>3, <1>4, <1>5
<1>7. PgTypes'
  BY <1>2, <1>6 DEF PgIInv, PgTypes
<1>8. DidBounded'
  <2>1. Len(did'[c]) <= TxPerClient
    BY <1>2, <1>6, ClientsAssumption
  <2>2. \A d \in Clients \ {c} : Len(did'[d]) <= TxPerClient
    BY <1>6 DEF PgIInv, DidBounded
  <2>3. QED BY <2>1, <2>2 DEF DidBounded
<1>9. logs' \in [Clients -> Seq(LogRows)] /\ DOMAIN logs' = Clients
  <2>1. logs[c] \in Seq(LogRows)
    BY <1>5
  <2>2. Append(logs[c], row) \in Seq(LogRows)
    BY <1>3, <2>1
  <2>3. QED BY <1>4, <1>5, <2>2
<1>10. Files'
  BY <1>2, <1>9 DEF Files
<1>11. ASSUME NEW f \in Clients PROVE LogWritten(did', f, logs'[f])
  <2>1. LogWritten(did, f, logs[f])
    BY <1>5 DEF PgIInv, LogsWritten
  <2>2. ASSUME NEW rows, LogWritten(did, f, rows) PROVE LogWritten(did', f, rows)
    BY <1>4, <1>5, <2>2, RunGrows
  <2>3. CASE logs'[f] = logs[f]
    BY <2>1, <2>2, <2>3
  <2>4. CASE f = c /\ logs'[c] = Append(logs[c], row)
    <3>1. WrittenBy(did', c, row)
      BY <1>3, <1>6, ClientsAssumption DEF WrittenBy
    <3>2. LogWritten(did', c, logs[c])
      BY <2>1, <2>2, <2>4
    <3>3. QED BY <2>4, <3>1, <3>2, PutRow
  <2>5. QED BY <1>4, <1>5, <2>3, <2>4
<1>12. LogsWritten'
  BY <1>9, <1>11 DEF LogsWritten
<1>13. Judged'
  BY <1>2 DEF PgIInv, Judged
<1>14. QED BY <1>7, <1>8, <1>10, <1>12, <1>13 DEF PgIInv

LEMMA PgDisturbs == ASSUME PgIInv, Pgbench!DisturbLogs PROVE PgIInv'
<1>1. /\ pgPc = "collected" /\ UNCHANGED <<pgPc, plan, clock, span, did, output, verdict>>
      /\ PgTypes /\ DidBounded /\ Files /\ LogsWritten /\ verdict # "passed"
  BY DEF Pgbench!DisturbLogs, PgIInv, Judged
<1>2. PgTypes' /\ DidBounded' /\ Judged'
  BY <1>1 DEF PgTypes, DidBounded, Judged
<1>3. /\ DOMAIN logs' \subseteq Clients \cup {"old"} /\ logs' = [f \in DOMAIN logs' |-> logs'[f]]
      /\ \A f \in DOMAIN logs' : LogWritten(did, f, logs'[f])
  <2>1. PICK c \in DOMAIN logs :
           \/ logs' = Pgbench!Without(c)
           \/ /\ logs[c] # <<>>
              /\ \E rows \in {<<>>, Tail(logs[c]), Append(logs[c], logs[c][Len(logs[c])])} :
                   logs' = [logs EXCEPT ![c] = rows]
           \/ logs' = [f \in DOMAIN logs \cup {"old"} |-> IF f # "old" THEN logs[f] ELSE
                <<[client |-> c, no |-> 0, outcome |-> "completed", at |-> 0, latency |-> 0]>>] /\ c # "old"
    BY DEF Pgbench!DisturbLogs, Pgbench!Old
  <2>2. logs \in [DOMAIN logs -> Seq(LogRows)] /\ DOMAIN logs \subseteq Clients \cup {"old"}
    BY <1>1 DEF Files
  <2>3. \A f \in DOMAIN logs : LogWritten(did, f, logs[f])
    BY <1>1 DEF LogsWritten
  <2>4. CASE logs' = Pgbench!Without(c)
    BY <2>2, <2>3, <2>4 DEF Pgbench!Without
  <2>5. ASSUME logs[c] # <<>>, NEW rows \in {<<>>, Tail(logs[c]), Append(logs[c], logs[c][Len(logs[c])])},
               logs' = [logs EXCEPT ![c] = rows]
        PROVE  /\ DOMAIN logs' \subseteq Clients \cup {"old"} /\ logs' = [f \in DOMAIN logs' |-> logs'[f]]
               /\ \A f \in DOMAIN logs' : LogWritten(did, f, logs'[f])
    <3>1. LogWritten(did, c, rows)
      BY <2>3, <2>5, CutRows, PutRow
    <3>2. QED BY <2>2, <2>3, <2>5, <3>1
  <2>6. CASE /\ logs' = [f \in DOMAIN logs \cup {"old"} |-> IF f # "old" THEN logs[f] ELSE
                  <<[client |-> c, no |-> 0, outcome |-> "completed", at |-> 0, latency |-> 0]>>]
             /\ c # "old"
    <3> DEFINE row == [client |-> c, no |-> 0, outcome |-> "completed", at |-> 0, latency |-> 0]
    <3>1. row \in LogRows /\ row.at = 0
      BY <2>2, <2>6 DEF LogRows, Outcomes
    <3> HIDE DEF row
    <3>2. WrittenBy(did, "old", row)
      BY <3>1, ClientsAssumption DEF WrittenBy
    <3>3. <<row>> \in Seq(LogRows) /\ Len(<<row>>) = 1 /\ <<row>>[1] = row
      BY <3>1
    <3>4. LogWritten(did, "old", <<row>>)
      BY <3>2, <3>3 DEF LogWritten
    <3>5. QED BY <2>2, <2>3, <2>6, <3>4 DEF row
  <2>7. QED BY <2>1, <2>4, <2>5, <2>6
<1>4. LogsWritten'
  BY <1>1, <1>3 DEF LogsWritten
<1>5. logs' \in [DOMAIN logs' -> Seq(LogRows)]
  BY <1>3 DEF LogWritten
<1>6. Files'
  BY <1>1, <1>3, <1>5 DEF Files
<1>7. QED BY <1>2, <1>4, <1>6 DEF PgIInv

LEMMA PgInvNext == PgIInv /\ Pgbench!PgbenchNext => PgIInv'
<1> SUFFICES ASSUME PgIInv, Pgbench!PgbenchNext PROVE PgIInv'
  OBVIOUS
<1>1. ASSUME UNCHANGED <<did, logs>>, PgTypes', Judged',
             pgPc' \in {"collected", "judged"} \/ pgPc \notin {"collected", "judged"}
      PROVE  PgIInv'
  <2>1. LogsWritten'
    BY <1>1 DEF PgIInv, LogsWritten
  <2>2. DidBounded' /\ Files'
    BY <1>1 DEF PgIInv, DidBounded, Files
  <2>3. QED BY <1>1, <2>1, <2>2 DEF PgIInv
<1>2. CASE Pgbench!StartMeasure
  <2>1. PgTypes' /\ Judged'
    BY <1>2 DEF Pgbench!StartMeasure, PgIInv, PgTypes, PgPlaces, Judged
  <2>2. QED BY <1>1, <1>2, <2>1 DEF Pgbench!StartMeasure
<1>3. CASE Pgbench!StartTimer
  <2>1. PgTypes' /\ Judged'
    BY <1>3 DEF Pgbench!StartTimer, PgIInv, PgTypes, PgPlaces, Judged
  <2>2. QED BY <1>1, <1>3, <2>1 DEF Pgbench!StartTimer
<1>4. CASE Pgbench!PassTime
  <2>1. PgTypes' /\ Judged'
    BY <1>4 DEF Pgbench!PassTime, PgIInv, PgTypes, PgPlaces, Judged
  <2>2. QED BY <1>1, <1>4, <2>1 DEF Pgbench!PassTime
<1>5. CASE Pgbench!StopTimer
  <2>1. PgTypes' /\ Judged'
    BY <1>5 DEF Pgbench!StopTimer, PgIInv, PgTypes, PgPlaces, Judged
  <2>2. QED BY <1>1, <1>5, <2>1 DEF Pgbench!StopTimer
<1>6. CASE Pgbench!PrintSummary
  <2>1. PgTypes' /\ Judged'
    BY <1>6 DEF Pgbench!PrintSummary, PgIInv, PgTypes, PgPlaces, Judged
  <2>2. QED BY <1>1, <1>6, <2>1 DEF Pgbench!PrintSummary
<1>7. CASE Pgbench!PgbenchFails
  <2>1. PgTypes' /\ Judged'
    BY <1>7 DEF Pgbench!PgbenchFails, PgIInv, PgTypes, PgPlaces, Judged
  <2>2. QED BY <1>1, <1>7, <2>1 DEF Pgbench!PgbenchFails
<1>8. CASE Pgbench!Judge
  <2>1. /\ pgPc = "collected" /\ pgPc' = "judged" /\ UNCHANGED <<plan, clock, span, did, logs, output, faults>>
        /\ verdict' = IF Accepted THEN "passed" ELSE "invalid"
    BY <1>8 DEF Pgbench!Judge, Accepted
  <2>2. PgTypes'
    BY <2>1 DEF PgIInv, PgTypes, PgPlaces
  <2>3. Accepted' = Accepted
    BY <2>1 DEF Accepted, Pgbench!LinesKnown, Pgbench!FieldsPresent, Pgbench!ProtocolHolds,
       Pgbench!WithinMeasure, Pgbench!LatencyAgrees, Pgbench!LogsParse, Pgbench!LogsMatch,
       Pgbench!InsideMeasure, Pgbench!Processed, Pgbench!Tps, Pgbench!Elapsed, Pgbench!Latency,
       Pgbench!OneFilePerClient, Pgbench!Follows, Pgbench!RawMeanAgrees
  <2>4. Judged'
    BY <2>1, <2>3 DEF Judged
  <2>5. QED BY <1>1, <2>1, <2>2, <2>4
<1>9. QED
  BY <1>2, <1>3, <1>4, <1>5, <1>6, <1>7, <1>8, PgTransaction, PgDisturbs DEF Pgbench!PgbenchNext

LEMMA PgInvStays == PgIInv /\ UNCHANGED PgbenchVars => PgIInv'
<1> SUFFICES ASSUME PgIInv, UNCHANGED PgbenchVars PROVE PgIInv'
  OBVIOUS
<1>1. UNCHANGED <<pgPc, plan, clock, span, did, logs, output, verdict, faults>>
  BY DEF PgbenchVars
<1>2. PgTypes' /\ DidBounded' /\ Files' /\ LogsWritten'
  BY <1>1 DEF PgIInv, PgTypes, DidBounded, Files, LogsWritten
<1>3. Accepted' = Accepted
  BY <1>1 DEF Accepted, Pgbench!LinesKnown, Pgbench!FieldsPresent, Pgbench!ProtocolHolds,
     Pgbench!WithinMeasure, Pgbench!LatencyAgrees, Pgbench!LogsParse, Pgbench!LogsMatch,
     Pgbench!InsideMeasure, Pgbench!Processed, Pgbench!Tps, Pgbench!Elapsed, Pgbench!Latency,
     Pgbench!OneFilePerClient, Pgbench!Follows, Pgbench!RawMeanAgrees
<1>4. Judged'
  BY <1>1, <1>3 DEF PgIInv, Judged
<1>5. QED BY <1>2, <1>4 DEF PgIInv

\* What the run wrote, and each file, has finitely many places.
LEMMA Counted ==
  ASSUME NEW f, NEW S, IsFiniteSet(S), DOMAIN f \subseteq S, NEW outcomes
  PROVE  /\ IsFiniteSet(Pgbench!AllOf(f, outcomes))
         /\ Pgbench!Count(f, outcomes) = Cardinality(Pgbench!AllOf(f, outcomes))
         /\ Pgbench!Count(f, outcomes) = 0 => Pgbench!AllOf(f, outcomes) = {}
<1>1. IsFiniteSet(DOMAIN f)
  BY FS_Subset
<1>2. IsFiniteSet(1..TxPerClient + 1)
  BY ClientsAssumption, FS_Interval
<1>3. IsFiniteSet((DOMAIN f) \X (1..TxPerClient + 1))
  BY <1>1, <1>2, FS_Product
<1>4. IsFiniteSet(Pgbench!AllOf(f, outcomes))
  BY <1>3, FS_Subset DEF Pgbench!AllOf
<1>5. QED BY <1>4, PgCardinality, FS_EmptySet DEF Pgbench!Count

\* In an accepted log each row is of the client of its file and completed, and numbers
\* grow from row to row.
LEMMA AcceptedRows ==
  ASSUME PgIInv, verdict = "passed"
  PROVE  /\ DOMAIN logs \subseteq Clients
         /\ \A f \in DOMAIN logs : \A k \in 1..Len(logs[f]) :
              /\ logs[f][k].client = f /\ logs[f][k].no \in Nat
              /\ \E j \in DOMAIN did[f] : did[f][j] = logs[f][k]
              /\ k <= TxPerClient + 1 => logs[f][k].outcome = "completed"
<1>1. Accepted /\ pgPc = "judged" /\ PgTypes /\ Files /\ LogsWritten
  BY DEF PgIInv, Judged
<1>2. \A f \in DOMAIN logs : logs[f] \in Seq(LogRows) /\ logs[f] # <<>>
  BY <1>1 DEF Files, Accepted, Pgbench!LogsParse
<1>3. "old" \notin DOMAIN logs
  <2> SUFFICES ASSUME "old" \in DOMAIN logs PROVE FALSE
    OBVIOUS
  <2>1. 1 \in 1..Len(logs["old"]) /\ 1 \in DOMAIN logs["old"]
    BY <1>2
  <2>2. logs["old"][1].at = 0
    BY <1>1, <2>1 DEF LogsWritten, LogWritten, WrittenBy
  <2>3. logs["old"][1].at >= span.started /\ span.started \in Nat \ {0}
    BY <1>1, <2>1 DEF Accepted, Pgbench!InsideMeasure, PgTypes
  <2>4. QED BY <2>2, <2>3
<1>4. DOMAIN logs \subseteq Clients
  BY <1>1, <1>3 DEF Files
<1>5. Pgbench!AllOf(logs, {"failed", "skipped", "retried"}) = {}
  BY <1>1, <1>4, Counted, ClientsAssumption DEF Accepted, Pgbench!LogsMatch
<1>6. ASSUME NEW f \in DOMAIN logs, NEW k \in 1..Len(logs[f])
      PROVE  /\ logs[f][k].client = f /\ logs[f][k].no \in Nat
             /\ \E j \in DOMAIN did[f] : did[f][j] = logs[f][k]
             /\ k <= TxPerClient + 1 => logs[f][k].outcome = "completed"
  <2>1. WrittenBy(did, f, logs[f][k]) /\ f \in Clients
    BY <1>1, <1>4 DEF LogsWritten, LogWritten
  <2>2. k <= TxPerClient + 1 => logs[f][k].outcome \notin {"failed", "skipped", "retried"}
    <3> SUFFICES ASSUME k <= TxPerClient + 1, logs[f][k].outcome \in {"failed", "skipped", "retried"}
                 PROVE  FALSE
      OBVIOUS
    <3>1. k \in 1..TxPerClient + 1 /\ k \in DOMAIN logs[f]
      BY <1>2, ClientsAssumption
    <3>2. <<f, k>> \in Pgbench!AllOf(logs, {"failed", "skipped", "retried"})
      BY <3>1 DEF Pgbench!AllOf
    <3>3. QED BY <1>5, <3>2
  <2>3. QED BY <2>1, <2>2 DEF WrittenBy, LogRows, Outcomes
<1>7. QED BY <1>4, <1>6

LEMMA NumbersGrow ==
  ASSUME PgIInv, verdict = "passed", NEW f \in DOMAIN logs,
         NEW k \in 1..Len(logs[f]), k <= TxPerClient + 1, NEW j \in 1..(k - 1)
  PROVE  logs[f][j].no < logs[f][k].no
<1> DEFINE Bad == {m \in 1..Len(logs[f]) : m <= TxPerClient + 1 /\ j < m /\ ~(logs[f][j].no < logs[f][m].no)}
<1> SUFFICES ASSUME Bad # {} PROVE FALSE
  OBVIOUS
<1>1. Bad \in SUBSET Nat
  OBVIOUS
<1>2. PICK m \in Bad : \A n \in Bad : m <= n
  <2> HIDE DEF Bad
  <2> QED BY <1>1, LeastOf
<1>3. m \in 1..Len(logs[f]) /\ m <= TxPerClient + 1 /\ j < m /\ ~(logs[f][j].no < logs[f][m].no)
  OBVIOUS
<1>4. m - 1 \notin Bad
  <2> HIDE DEF Bad
  <2>1. m \in Int
    BY <1>3
  <2>2. QED BY <1>2, <2>1
<1>5. logs[f] \in Seq(LogRows) /\ Len(logs[f]) \in Nat
  BY DEF PgIInv, Files
<1>6. m - 1 \in 1..Len(logs[f]) - 1 /\ m - 1 \in 1..Len(logs[f]) /\ m - 1 <= TxPerClient + 1
  BY <1>3, <1>5, ClientsAssumption
<1>7. Pgbench!Follows(logs[f][m - 1], logs[f][m - 1 + 1]) /\ m - 1 + 1 = m
  BY <1>3, <1>6 DEF PgIInv, Judged, Accepted, Pgbench!LogsParse
<1>8. logs[f][m - 1].outcome = "completed"
  BY <1>6, AcceptedRows
<1>9. logs[f][m].no > logs[f][m - 1].no
  BY <1>7, <1>8 DEF Pgbench!Follows
<1>10. logs[f][j].no \in Nat /\ logs[f][m].no \in Nat /\ logs[f][m - 1].no \in Nat
  BY <1>3, <1>6, AcceptedRows, SMTT(30)
<1>11. CASE j = m - 1
  BY <1>3, <1>9, <1>11
<1>12. CASE j < m - 1
  <2>1. logs[f][j].no < logs[f][m - 1].no
    BY <1>4, <1>6, <1>12
  <2>2. QED BY <1>3, <1>9, <1>10, <2>1, SMTT(30)
<1>13. QED BY <1>3, <1>11, <1>12

\* Two places of the accepted logs hold two rows.
LEMMA PlacesDiffer ==
  ASSUME PgIInv, verdict = "passed", NEW f \in DOMAIN logs, NEW g \in DOMAIN logs,
         NEW j \in 1..Len(logs[f]), NEW k \in 1..Len(logs[g]), j <= TxPerClient + 1, k <= TxPerClient + 1,
         logs[f][j] = logs[g][k]
  PROVE  f = g /\ j = k
<1>1. f = g
  BY AcceptedRows
<1>2. ~(j < k)
  <2> SUFFICES ASSUME j < k PROVE FALSE
    OBVIOUS
  <2>1. j \in 1..(k - 1)
    OBVIOUS
  <2>2. logs[g][j].no < logs[g][k].no
    BY <1>1, <2>1, NumbersGrow
  <2>3. logs[g][k].no \in Nat
    BY AcceptedRows
  <2>4. QED BY <1>1, <2>2, <2>3
<1>3. ~(k < j)
  <2> SUFFICES ASSUME k < j PROVE FALSE
    OBVIOUS
  <2>1. k \in 1..(j - 1)
    OBVIOUS
  <2>2. logs[f][k].no < logs[f][j].no
    BY <1>1, <2>1, NumbersGrow
  <2>3. logs[f][j].no \in Nat
    BY AcceptedRows
  <2>4. QED BY <1>1, <2>2, <2>3
<1>4. QED BY <1>1, <1>2, <1>3

\* In an accepted log the rows of a client are as many as it ran, at most, and all of
\* them when nothing is sampled: places of rows go to places of the run, no two to one,
\* and each place of the run is met when the counts agree.
LEMMA AcceptedLogIsWhole == PgIInv => Pgbench!PassedLogIsWhole
<1> SUFFICES ASSUME PgIInv, verdict = "passed", NEW c \in Clients
             PROVE  LET rows == {r \in (DOMAIN logs) \X (1..TxPerClient + 1) :
                                   r[2] \in DOMAIN logs[r[1]] /\ logs[r[1]][r[2]].client = c}
                    IN  /\ Pgbench!Cardinality(rows) <= Len(did[c])
                        /\ \A r \in rows : \E k \in DOMAIN did[c] : did[c][k] = logs[r[1]][r[2]]
                        /\ ~plan.sampled => Pgbench!Cardinality(rows) = Len(did[c])
  BY DEF Pgbench!PassedLogIsWhole
<1> DEFINE places == {r \in (DOMAIN logs) \X (1..TxPerClient + 1) : r[2] \in DOMAIN logs[r[1]]}
           rows == {r \in places : logs[r[1]][r[2]].client = c}
           RowAt(r) == logs[r[1]][r[2]]
           IndexOf(r) == CHOOSE k \in DOMAIN did[r[1]] : did[r[1]][k] = RowAt(r)
           ran == {p \in Clients \X (1..TxPerClient + 1) : p[2] \in DOMAIN did[p[1]]}
           h == [r \in places |-> <<r[1], IndexOf(r)>>]
           g == [r \in rows |-> IndexOf(r)]
<1>1. /\ DOMAIN logs \subseteq Clients /\ logs \in [DOMAIN logs -> Seq(LogRows)]
      /\ did \in [Clients -> Seq(LogRows)] /\ \A d \in Clients : Len(did[d]) <= TxPerClient
      /\ TxPerClient \in Nat /\ IsFiniteSet(Clients)
  BY AcceptedRows, ClientsAssumption DEF PgIInv, Files, PgTypes, DidBounded
<1>2. \A r \in places : /\ r = <<r[1], r[2]>> /\ r[1] \in DOMAIN logs /\ r[1] \in Clients
                        /\ r[2] \in 1..Len(logs[r[1]]) /\ r[2] \in Nat /\ r[2] <= TxPerClient + 1
  BY <1>1
<1>3. \A r \in places : /\ RowAt(r).client = r[1] /\ RowAt(r).outcome = "completed"
                        /\ \E k \in DOMAIN did[r[1]] : did[r[1]][k] = RowAt(r)
  <2> HIDE DEF places
  <2> QED BY <1>2, AcceptedRows
<1>4. \A r \in places : IndexOf(r) \in DOMAIN did[r[1]] /\ did[r[1]][IndexOf(r)] = RowAt(r)
  <2> HIDE DEF places, RowAt
  <2> QED BY <1>3
<1>5. \A r, q \in places : RowAt(r) = RowAt(q) => r = q
  <2> SUFFICES ASSUME NEW r \in places, NEW q \in places, RowAt(r) = RowAt(q) PROVE r = q
    OBVIOUS
  <2> HIDE DEF places
  <2>1. r[1] = q[1] /\ r[2] = q[2]
    BY <1>2, PlacesDiffer
  <2>2. QED BY <1>2, <2>1
<1>6. \A d \in Clients : /\ DOMAIN did[d] = 1..Len(did[d]) /\ Len(did[d]) \in Nat
                         /\ \A k \in DOMAIN did[d] : k \in 1..TxPerClient + 1
  BY <1>1
<1> HIDE DEF places, RowAt, IndexOf
<1>7. h \in Injection(places, ran)
  <2>1. h \in [places -> ran]
    BY <1>2, <1>4, <1>6
  <2>2. ASSUME NEW r \in places, NEW q \in places, h[r] = h[q] PROVE r = q
    BY <1>4, <1>5, <2>2
  <2>3. QED BY <2>1, <2>2 DEF Injection, IsInjective
<1>8. rows \subseteq places /\ \A r \in rows : r[1] = c
  BY <1>3 DEF RowAt
<1>9. g \in Injection(rows, 1..Len(did[c]))
  <2>1. g \in [rows -> 1..Len(did[c])]
    BY <1>4, <1>6, <1>8
  <2>2. ASSUME NEW r \in rows, NEW q \in rows, g[r] = g[q] PROVE r = q
    BY <1>4, <1>5, <1>8, <2>2
  <2>3. QED BY <2>1, <2>2 DEF Injection, IsInjective
<1>10. IsFiniteSet(1..Len(did[c])) /\ Cardinality(1..Len(did[c])) = Len(did[c])
  BY <1>6, FS_Interval
<1>11. /\ Cardinality(rows) <= Len(did[c])
       /\ Cardinality(rows) = Len(did[c]) <=> g \in Surjection(rows, 1..Len(did[c]))
  <2> HIDE DEF rows, g
  <2> QED BY <1>9, <1>10, FS_Injection
<1>12. \A r \in rows : \E k \in DOMAIN did[c] : did[c][k] = RowAt(r)
  BY <1>3, <1>8
<1>13. ASSUME ~plan.sampled PROVE Cardinality(rows) = Len(did[c])
  <2>1. Pgbench!Count(logs, {"completed", "retried"}) = Pgbench!Count(did, {"completed", "retried"})
    BY <1>13 DEF PgIInv, Judged, Accepted, Pgbench!LogsMatch, Pgbench!Processed, Pgbench!Good
  <2>2. Pgbench!AllOf(did, {"failed", "skipped", "retried"}) = {}
    BY <1>1, Counted DEF PgIInv, Judged, Accepted, Pgbench!ProtocolHolds
  <2>3. Pgbench!AllOf(did, {"completed", "retried"}) = ran
    <3>1. \A p \in ran : did[p[1]][p[2]].outcome \in {"completed", "retried"}
      <4> SUFFICES ASSUME NEW p \in ran PROVE did[p[1]][p[2]].outcome \in {"completed", "retried"}
        OBVIOUS
      <4>1. did[p[1]][p[2]] \in LogRows
        BY <1>1
      <4>2. p \notin Pgbench!AllOf(did, {"failed", "skipped", "retried"})
        BY <2>2
      <4>3. did[p[1]][p[2]].outcome \notin {"failed", "skipped", "retried"}
        BY <1>1, <4>2 DEF Pgbench!AllOf
      <4>4. QED BY <4>1, <4>3 DEF LogRows, Outcomes
    <3>2. DOMAIN did = Clients
      BY <1>1
    <3>3. QED BY <3>1, <3>2 DEF Pgbench!AllOf
  <2>4. Pgbench!AllOf(logs, {"completed", "retried"}) = places
    BY <1>3 DEF Pgbench!AllOf, places, RowAt
  <2>5. IsFiniteSet(ran) /\ Cardinality(places) = Cardinality(ran)
    <3>1. DOMAIN did \subseteq Clients
      BY <1>1
    <3> HIDE DEF ran
    <3>2. DOMAIN logs \subseteq Clients /\ IsFiniteSet(Clients)
      BY <1>1, ClientsAssumption
    <3>3. /\ IsFiniteSet(ran)
          /\ Pgbench!Count(did, {"completed", "retried"}) = Cardinality(ran)
      BY <2>3, <3>1, <3>2, Counted
    <3>4. Pgbench!Count(logs, {"completed", "retried"}) = Cardinality(places)
      BY <2>4, <3>2, Counted
    <3>5. QED BY <2>1, <3>3, <3>4
  <2>6. h \in Surjection(places, ran)
    <3> HIDE DEF h, ran
    <3> QED BY <1>7, <2>5, FS_Injection
  <2>7. ASSUME NEW k \in 1..Len(did[c]) PROVE \E r \in rows : g[r] = k
    <3>1. <<c, k>> \in ran
      BY <1>6
    <3>2. PICK r \in places : h[r] = <<c, k>>
      <4> HIDE DEF h, ran
      <4> QED BY <2>6, <3>1 DEF Surjection
    <3>3. r[1] = c /\ IndexOf(r) = k
      BY <3>2
    <3>4. RowAt(r).client = c
      BY <1>3, <3>3
    <3>5. QED BY <3>3, <3>4 DEF RowAt
  <2>8. g \in Surjection(rows, 1..Len(did[c]))
    <3> HIDE DEF g, rows
    <3> QED BY <1>9, <2>7 DEF Surjection, Injection
  <2>9. QED BY <1>11, <2>8
<1>14. rows = {r \in (DOMAIN logs) \X (1..TxPerClient + 1) :
                 r[2] \in DOMAIN logs[r[1]] /\ logs[r[1]][r[2]].client = c}
  BY DEF places
<1> HIDE DEF rows
<1>15. QED BY <1>11, <1>12, <1>13, <1>14, PgCardinality DEF RowAt

-----------------------------------------------------------------------------
(* An honest run of pgbench.  What the run did is followed row by row:     *)
(* when each ended, how long it took, and, as long as none was skipped,    *)
(* its number; while nothing was lost or added, a log holds the rows of    *)
(* its client in their order, and all of them when nothing is sampled.     *)

Past(c, k) == IF k = 1 THEN span.from ELSE did[c][k - 1].at
RowTold(c, k) ==
  /\ did[c][k].client = c /\ did[c][k].at >= Past(c, k)
  /\ did[c][k].latency = did[c][k].at - Past(c, k)
  /\ (\A j \in 1..(k - 1) : did[c][j].outcome # "skipped") => did[c][k].no = k - 1
RowsTold == \A c \in Clients : \A k \in 1..Len(did[c]) : RowTold(c, k)
Stopped == pgPc \in {"stopping", "collected"} \/ (pgPc = "judged" /\ output # <<>>)
Timed ==
  /\ plan \in Pgbench!Plans /\ faults \in Nat
  /\ pgPc \notin {"collected", "judged"} => output = <<>>
  /\ pgPc \in {"idle", "starting"} => \A c \in Clients : did[c] = <<>>
  /\ pgPc = "starting" => span.started <= clock
  /\ pgPc = "running" \/ Stopped => span.started <= span.from
  /\ pgPc = "running" => span.from <= clock /\ \A c \in Clients : \A k \in 1..Len(did[c]) : did[c][k].at <= clock
  /\ pgPc = "stopping" => span.to <= clock
  /\ Stopped => /\ span.from < span.to
                /\ \A c \in Clients : \A k \in 1..Len(did[c]) : did[c][k].at <= span.to
                /\ plan.fixed => \A c \in Clients : Pgbench!Consumed(did[c]) = TxPerClient
  /\ Stopped /\ pgPc # "stopping" => span.to <= span.finished /\ (faults = 0 => output = Pgbench!Lines)
InOrder(c) ==
  \A k \in 1..Len(logs[c]) : \A j \in 1..(k - 1) :
    \E n \in 1..Len(did[c]) : \E m \in 1..(n - 1) : logs[c][j] = did[c][m] /\ logs[c][k] = did[c][n]
LogsInOrder ==
  faults = 0 => /\ DOMAIN logs = Clients /\ (~plan.sampled => logs = did)
                /\ \A c \in Clients : InOrder(c)
Sentenced == pgPc = "judged" /\ output # <<>> /\ Accepted => verdict = "passed"
HonestIInv == PgIInv /\ RowsTold /\ Timed /\ LogsInOrder /\ Sentenced

LEMMA HonestInvInit == Pgbench!PgbenchInit => HonestIInv
BY PgInvInit DEF Pgbench!PgbenchInit, HonestIInv, RowsTold, RowTold, Timed, LogsInOrder, InOrder, Sentenced, Stopped

\* A run of which nothing changes is told as it was.
LEMMA SameTold ==
  ASSUME HonestIInv, UNCHANGED did, span'.from = span.from \/ \A c \in Clients : did[c] = <<>>
  PROVE  RowsTold'
<1>1. ASSUME span'.from = span.from PROVE RowsTold'
  BY <1>1 DEF HonestIInv, RowsTold, RowTold, Past
<1>2. ASSUME \A c \in Clients : did[c] = <<>> PROVE RowsTold'
  BY <1>2 DEF RowsTold
<1>3. QED BY <1>1, <1>2

LEMMA HonestTransaction == ASSUME HonestIInv, NEW c \in Clients, Pgbench!RunTransaction(c) PROVE HonestIInv'
<1>1. PICK result \in Outcomes :
        /\ did' = [did EXCEPT ![c] = Append(@, Pgbench!Row(c, result))]
        /\ \/ logs' = [logs EXCEPT ![c] = Append(@, Pgbench!Row(c, result))] /\ faults' = faults
           \/ plan.sampled /\ logs' = logs /\ faults' = faults
           \/ logs' = logs /\ faults' = faults + 1
  BY DEF Pgbench!RunTransaction, Outcomes
<1>2. /\ pgPc = "running" /\ Len(did[c]) < TxPerClient
      /\ UNCHANGED <<pgPc, plan, clock, span, output, verdict>>
  BY DEF Pgbench!RunTransaction
<1>3. PICK row : row = Pgbench!Row(c, result)
  OBVIOUS
<1>4. /\ did' = [did EXCEPT ![c] = Append(did[c], row)]
      /\ \/ logs' = [logs EXCEPT ![c] = Append(logs[c], row)] /\ faults' = faults
         \/ plan.sampled /\ logs' = logs /\ faults' = faults
         \/ logs' = logs /\ faults' = faults + 1
  BY <1>1, <1>3
<1>5. PgIInv' /\ PgTypes /\ Files /\ LogsWritten
  BY PgTransaction DEF HonestIInv, PgIInv
<1>6. row \in LogRows
  BY <1>3, <1>5, NewRow
<1>7. did \in [Clients -> Seq(LogRows)] /\ logs \in [Clients -> Seq(LogRows)] /\ clock \in Nat /\ span.from \in Nat
  BY <1>2, <1>5 DEF PgTypes, Files
<1>0. PICK n : n = Len(did[c])
  OBVIOUS
<1>8. /\ n \in Nat /\ did'[c] = Append(did[c], row) /\ \A d \in Clients \ {c} : did'[d] = did[d]
      /\ Len(did'[c]) = n + 1 /\ did'[c][n + 1] = row /\ \A k \in 1..n : did'[c][k] = did[c][k]
  BY <1>0, <1>6, <1>4, <1>7
<1>a. \A d \in Clients : \A k \in 1..Len(did[d]) :
        /\ did'[d][k] = did[d][k] /\ k \in 1..Len(did'[d]) /\ k \in Nat
        /\ \A j \in 1..(k - 1) : did'[d][j] = did[d][j]
  <2> SUFFICES ASSUME NEW d \in Clients, NEW k \in 1..Len(did[d])
               PROVE  /\ did'[d][k] = did[d][k] /\ k \in 1..Len(did'[d]) /\ k \in Nat
                      /\ \A j \in 1..(k - 1) : did'[d][j] = did[d][j]
    OBVIOUS
  <2>1. CASE d = c
    BY <1>0, <1>8, <2>1
  <2>2. CASE d # c
    BY <1>7, <1>8, <2>2
  <2>3. QED BY <2>1, <2>2
<1>9. /\ row.client = c /\ row.at = clock /\ row.no = Pgbench!Consumed(did[c])
      /\ row.latency = clock - (IF n = 0 THEN span.from ELSE did[c][n].at)
  BY <1>0, <1>3 DEF Pgbench!Row
<1>10. (\A j \in 1..n : did[c][j].outcome # "skipped") => row.no = n
  <2> SUFFICES ASSUME \A j \in 1..n : did[c][j].outcome # "skipped" PROVE row.no = n
    OBVIOUS
  <2>1. {k \in DOMAIN did[c] : did[c][k].outcome # "skipped"} = 1..n
    BY <1>0, <1>7
  <2>2. Cardinality(1..n) = n
    BY <1>8, FS_Interval
  <2>3. QED BY <1>9, <2>1, <2>2, PgCardinality DEF Pgbench!Consumed
<1>11. RowTold(c, n + 1)'
  <2>1. Past(c, n + 1)' = IF n = 0 THEN span.from ELSE did[c][n].at
    <3>1. CASE n = 0
      BY <1>2, <3>1 DEF Past
    <3>2. CASE n # 0
      BY <1>8, <3>2 DEF Past
    <3>3. QED BY <3>1, <3>2
  <2>2. clock >= IF n = 0 THEN span.from ELSE did[c][n].at
    BY <1>0, <1>2, <1>8 DEF HonestIInv, Timed
  <2>3. (\A j \in 1..n : did'[c][j].outcome # "skipped") => row.no = n + 1 - 1
    BY <1>8, <1>10
  <2>4. QED BY <1>8, <1>9, <2>1, <2>2, <2>3 DEF RowTold
<1>12. ASSUME NEW d \in Clients, NEW k \in 1..Len(did[d]) PROVE RowTold(d, k)'
  <2>1. RowTold(d, k)
    BY DEF HonestIInv, RowsTold
  <2>2. did'[d][k] = did[d][k] /\ \A j \in 1..(k - 1) : did'[d][j] = did[d][j]
    BY <1>a
  <2>3. k = 1 \/ k - 1 \in 1..(k - 1)
    OBVIOUS
  <2>4. Past(d, k)' = Past(d, k)
    BY <1>2, <2>2, <2>3 DEF Past
  <2>5. QED BY <2>1, <2>2, <2>4 DEF RowTold
<1>13. RowsTold'
  <2> SUFFICES ASSUME NEW d \in Clients, NEW k \in 1..Len(did'[d]) PROVE RowTold(d, k)'
    BY DEF RowsTold
  <2>1. (d = c /\ k = n + 1) \/ k \in 1..Len(did[d])
    BY <1>0, <1>8
  <2>2. QED BY <1>11, <1>12, <2>1
<1>14. Timed'
  <2>1. faults' \in Nat /\ ~Stopped /\ ~Stopped'
    BY <1>2, <1>4 DEF HonestIInv, Timed, Stopped
  <2>2. \A d \in Clients : \A k \in 1..Len(did'[d]) : did'[d][k].at <= clock
    <3> SUFFICES ASSUME NEW d \in Clients, NEW k \in 1..Len(did'[d]) PROVE did'[d][k].at <= clock
      OBVIOUS
    <3>1. CASE d = c /\ k = n + 1
      BY <1>7, <1>8, <1>9, <3>1
    <3>2. CASE k \in 1..Len(did[d])
      <4>1. did'[d][k] = did[d][k]
        BY <1>a, <3>2
      <4>2. QED BY <1>2, <3>2, <4>1 DEF HonestIInv, Timed
    <3>3. QED BY <1>0, <1>8, <3>1, <3>2
  <2>3. QED BY <1>2, <2>1, <2>2 DEF HonestIInv, Timed
<1>15. LogsInOrder'
  <2> SUFFICES ASSUME faults' = 0
               PROVE  /\ DOMAIN logs' = Clients /\ (~plan.sampled => logs' = did')
                      /\ \A d \in Clients : InOrder(d)'
    BY <1>2 DEF LogsInOrder
  <2>1. faults = 0 /\ faults' = faults
    BY <1>4 DEF HonestIInv, Timed
  <2>2. (~plan.sampled => logs = did) /\ \A d \in Clients : InOrder(d)
    BY <2>1 DEF HonestIInv, LogsInOrder
  <2>3. DOMAIN logs' = Clients /\ (~plan.sampled => logs' = did')
    BY <1>4, <1>7, <2>1, <2>2
  <2>4. ASSUME NEW d \in Clients, logs'[d] = logs[d] PROVE InOrder(d)'
    <3> SUFFICES ASSUME NEW k \in 1..Len(logs'[d]), NEW j \in 1..(k - 1)
                 PROVE  \E i \in 1..Len(did'[d]) : \E m \in 1..(i - 1) :
                          logs'[d][j] = did'[d][m] /\ logs'[d][k] = did'[d][i]
      BY DEF InOrder
    <3>0. k \in 1..Len(logs[d]) /\ InOrder(d)
      BY <2>2, <2>4
    <3>1. PICK i \in 1..Len(did[d]) : \E m \in 1..(i - 1) : logs[d][j] = did[d][m] /\ logs[d][k] = did[d][i]
      BY <3>0 DEF InOrder
    <3>2. i \in 1..Len(did'[d]) /\ did'[d][i] = did[d][i] /\ \A m \in 1..(i - 1) : did'[d][m] = did[d][m]
      BY <1>a
    <3>3. QED BY <2>4, <3>1, <3>2
  <2>5. ASSUME logs'[c] = Append(logs[c], row) PROVE InOrder(c)'
    <3>1. /\ logs[c] \in Seq(LogRows) /\ Len(logs'[c]) = Len(logs[c]) + 1 /\ Len(logs[c]) \in Nat
          /\ logs'[c][Len(logs[c]) + 1] = row /\ \A k \in 1..Len(logs[c]) : logs'[c][k] = logs[c][k]
      BY <1>6, <1>7, <2>5
    <3> SUFFICES ASSUME NEW k \in 1..(Len(logs[c]) + 1), NEW j \in 1..(k - 1)
                 PROVE  \E i \in 1..Len(did'[c]) : \E m \in 1..(i - 1) :
                          logs'[c][j] = did'[c][m] /\ logs'[c][k] = did'[c][i]
      BY <3>1 DEF InOrder
    <3>2. CASE k = Len(logs[c]) + 1
      <4>1. j \in 1..Len(logs[c]) /\ logs'[c][j] = logs[c][j]
        BY <3>1, <3>2
      <4>2. PICK m \in DOMAIN did[c] : did[c][m] = logs[c][j]
        BY <1>5, <1>7, <4>1 DEF LogsWritten, LogWritten, WrittenBy
      <4>3. m \in 1..n /\ did'[c][m] = logs'[c][j]
        BY <1>0, <1>7, <1>8, <4>1, <4>2
      <4>4. n + 1 \in 1..Len(did'[c]) /\ m \in 1..((n + 1) - 1) /\ logs'[c][k] = did'[c][n + 1]
        BY <1>8, <3>1, <3>2, <4>3
      <4> USE <4>3, <4>4
      <4> WITNESS n + 1 \in 1..Len(did'[c])
      <4> WITNESS m \in 1..((n + 1) - 1)
      <4>5. QED OBVIOUS
    <3>3. CASE k \in 1..Len(logs[c])
      <4>1. logs'[c][k] = logs[c][k] /\ logs'[c][j] = logs[c][j]
        BY <3>1, <3>3
      <4>2. PICK i \in 1..Len(did[c]) : \E m \in 1..(i - 1) : logs[c][j] = did[c][m] /\ logs[c][k] = did[c][i]
        BY <2>2, <3>3 DEF InOrder
      <4>3. i \in 1..Len(did'[c]) /\ did'[c][i] = did[c][i] /\ \A m \in 1..(i - 1) : did'[c][m] = did[c][m]
        BY <1>a
      <4>4. QED BY <4>1, <4>2, <4>3
    <3>4. k = Len(logs[c]) + 1 \/ k \in 1..Len(logs[c])
      BY <3>1
    <3>5. QED BY <3>2, <3>3, <3>4, Zenon
  <2>6. ASSUME NEW d \in Clients PROVE InOrder(d)'
    BY <1>4, <1>7, <2>4, <2>5
  <2>7. QED BY <2>3, <2>6
<1>16. Sentenced'
  BY <1>2 DEF Sentenced
<1>17. QED BY <1>5, <1>13, <1>14, <1>15, <1>16 DEF HonestIInv

LEMMA HonestInvNext == HonestIInv /\ Pgbench!PgbenchNext => HonestIInv'
<1> SUFFICES ASSUME HonestIInv, Pgbench!PgbenchNext PROVE HonestIInv'
  OBVIOUS
<1>0. PgIInv' /\ PgTypes
  BY PgInvNext DEF HonestIInv, PgIInv
<1>1. ASSUME UNCHANGED <<did, logs, plan, faults>> \/ faults' = faults + 1,
             UNCHANGED <<did, plan>>, Timed',
             span'.from = span.from \/ \A c \in Clients : did[c] = <<>>,
             pgPc' # "judged" \/ output' = <<>>
      PROVE  HonestIInv'
  <2>1. RowsTold'
    BY <1>1, SameTold
  <2>2. LogsInOrder'
    <3>1. CASE UNCHANGED <<did, logs, plan, faults>>
      <4>1. \A c : InOrder(c)' = InOrder(c)
        BY <3>1 DEF InOrder
      <4>2. QED BY <3>1, <4>1 DEF HonestIInv, LogsInOrder
    <3>2. CASE faults' = faults + 1
      BY <3>2 DEF HonestIInv, Timed, LogsInOrder
    <3>3. QED BY <1>1, <3>1, <3>2
  <2>3. QED BY <1>0, <1>1, <2>1, <2>2 DEF HonestIInv, Sentenced
<1> USE DEF HonestIInv, Timed, Stopped, PgTypes
<1>2. CASE Pgbench!StartMeasure
  <2>1. Timed'
    BY <1>0, <1>2 DEF Pgbench!StartMeasure
  <2>2. QED BY <1>1, <1>2, <2>1 DEF Pgbench!StartMeasure
<1>3. CASE Pgbench!StartTimer
  <2>1. Timed'
    BY <1>0, <1>3 DEF Pgbench!StartTimer
  <2>2. QED BY <1>1, <1>3, <2>1 DEF Pgbench!StartTimer
<1>4. CASE Pgbench!PassTime
  <2>1. /\ pgPc \in {"starting", "running", "stopping"} /\ clock' = clock + 1
        /\ UNCHANGED <<pgPc, plan, span, did, logs, output, verdict, faults>>
    BY <1>4 DEF Pgbench!PassTime
  <2>2. \A c \in Clients : \A k \in 1..Len(did[c]) : did[c][k].at \in Nat
    <3>1. ASSUME NEW c \in Clients, NEW k \in 1..Len(did[c]) PROVE did[c][k] \in LogRows
      BY <1>0
    <3>2. QED BY <3>1 DEF LogRows
  <2>3. pgPc = "running" => \A c \in Clients : \A k \in 1..Len(did[c]) : did[c][k].at <= clock'
    BY <1>0, <2>1, <2>2
  <2>4. Timed'
    BY <1>0, <2>1, <2>3
  <2>5. QED BY <1>1, <2>1, <2>4
<1>5. CASE Pgbench!StopTimer
  <2>1. /\ pgPc = "running" /\ pgPc' = "stopping" /\ span' = [span EXCEPT !.to = clock] /\ clock > span.from
        /\ \A c \in Clients : plan.fixed => Pgbench!Consumed(did[c]) = TxPerClient
        /\ UNCHANGED <<plan, clock, did, logs, output, verdict, faults>>
    BY <1>5 DEF Pgbench!StopTimer
  <2>2. span'.to = clock /\ span'.from = span.from /\ span'.started = span.started
    BY <1>0, <2>1
  <2>3. Timed'
    BY <1>0, <2>1, <2>2
  <2>4. QED BY <1>1, <2>1, <2>2, <2>3
<1>6. CASE Pgbench!PrintSummary
  <2>1. /\ pgPc = "stopping" /\ pgPc' = "collected" /\ span' = [span EXCEPT !.finished = clock]
        /\ \/ output' = Pgbench!Lines /\ UNCHANGED faults
           \/ faults' = faults + 1
        /\ UNCHANGED <<plan, clock, did, logs, verdict>>
    BY <1>6 DEF Pgbench!PrintSummary
  <2>2. span'.to = span.to /\ span'.from = span.from /\ span'.started = span.started /\ span'.finished = clock
    BY <1>0, <2>1
  <2>3. Timed'
    BY <1>0, <2>1, <2>2
  <2>4. QED BY <1>1, <2>1, <2>2, <2>3
<1>7. CASE Pgbench!PgbenchFails
  <2>1. Timed'
    BY <1>0, <1>7 DEF Pgbench!PgbenchFails
  <2>2. QED BY <1>1, <1>7, <2>1 DEF Pgbench!PgbenchFails
<1>8. CASE Pgbench!DisturbLogs
  <2>1. pgPc = "collected" /\ faults' = faults + 1 /\ UNCHANGED <<pgPc, plan, clock, span, did, output, verdict>>
    BY <1>8 DEF Pgbench!DisturbLogs
  <2>2. Timed'
    BY <2>1
  <2>3. QED BY <1>1, <2>1, <2>2
<1>9. CASE Pgbench!Judge
  <2>1. /\ pgPc = "collected" /\ pgPc' = "judged" /\ UNCHANGED <<plan, clock, span, did, logs, output, faults>>
        /\ verdict' = IF Accepted THEN "passed" ELSE "invalid"
    BY <1>9 DEF Pgbench!Judge, Accepted
  <2>2. Timed'
    BY <2>1
  <2>3. RowsTold' /\ LogsInOrder'
    BY <2>1, SameTold DEF LogsInOrder, InOrder
  <2>4. Accepted' = Accepted
    BY <2>1 DEF Accepted, Pgbench!LinesKnown, Pgbench!FieldsPresent, Pgbench!ProtocolHolds,
       Pgbench!WithinMeasure, Pgbench!LatencyAgrees, Pgbench!LogsParse, Pgbench!LogsMatch,
       Pgbench!InsideMeasure, Pgbench!Processed, Pgbench!Tps, Pgbench!Elapsed, Pgbench!Latency,
       Pgbench!OneFilePerClient, Pgbench!Follows, Pgbench!RawMeanAgrees
  <2>5. Sentenced'
    BY <2>1, <2>4 DEF Sentenced
  <2>6. QED BY <1>0, <2>2, <2>3, <2>5
<1>10. QED
  BY <1>2, <1>3, <1>4, <1>5, <1>6, <1>7, <1>8, <1>9, HonestTransaction DEF Pgbench!PgbenchNext

LEMMA HonestInvStays == HonestIInv /\ UNCHANGED PgbenchVars => HonestIInv'
<1> SUFFICES ASSUME HonestIInv, UNCHANGED PgbenchVars PROVE HonestIInv'
  OBVIOUS
<1>1. UNCHANGED <<pgPc, plan, clock, span, did, logs, output, verdict, faults>>
  BY DEF PgbenchVars
<1>2. PgIInv'
  BY PgInvStays DEF HonestIInv
<1>3. RowsTold' /\ Timed' /\ LogsInOrder'
  <2>1. RowsTold'
    BY <1>1, SameTold
  <2>2. Timed'
    BY <1>1 DEF HonestIInv, Timed, Stopped
  <2>3. LogsInOrder'
    <3>1. LogsInOrder
      BY DEF HonestIInv
    <3>2. ASSUME NEW c PROVE InOrder(c)' <=> InOrder(c)
      BY <1>1 DEF InOrder
    <3>3. QED BY <1>1, <3>1, <3>2 DEF LogsInOrder
  <2>4. QED BY <2>1, <2>2, <2>3
<1>4. Accepted' = Accepted
  BY <1>1 DEF Accepted, Pgbench!LinesKnown, Pgbench!FieldsPresent, Pgbench!ProtocolHolds,
     Pgbench!WithinMeasure, Pgbench!LatencyAgrees, Pgbench!LogsParse, Pgbench!LogsMatch,
     Pgbench!InsideMeasure, Pgbench!Processed, Pgbench!Tps, Pgbench!Elapsed, Pgbench!Latency,
     Pgbench!OneFilePerClient, Pgbench!Follows, Pgbench!RawMeanAgrees
<1>5. Sentenced'
  BY <1>1, <1>4 DEF HonestIInv, Sentenced
<1>6. QED BY <1>2, <1>3, <1>5 DEF HonestIInv

-----------------------------------------------------------------------------
(* Sums over a finite set, taken in the order in which CHOOSE picks: they  *)
(* exist, and each member adds its weight, whichever is taken first.       *)

First(S) == CHOOSE q \in S : TRUE
IsSum(F, D, w) ==
  F = [S \in SUBSET D |-> IF S = {} THEN 0 ELSE w[First(S)] + F[S \ {First(S)}]]

LEMMA FirstIsMember == \A S : S # {} => First(S) \in S
BY DEF First

LEMMA FewerMembers ==
  ASSUME NEW D, IsFiniteSet(D), NEW S \in SUBSET D
  PROVE  /\ IsFiniteSet(S) /\ Cardinality(S) \in Nat /\ (Cardinality(S) = 0 <=> S = {})
         /\ \A x \in S : S \ {x} \in SUBSET D /\ Cardinality(S \ {x}) = Cardinality(S) - 1
<1>1. IsFiniteSet(S)
  BY FS_Subset
<1>2. Cardinality(S) \in Nat /\ (Cardinality(S) = 0 <=> S = {})
  BY <1>1, FS_CardinalityType, FS_EmptySet
<1>3. \A x \in S : S \ {x} \in SUBSET D /\ Cardinality(S \ {x}) = Cardinality(S) - 1
  BY <1>1, FS_RemoveElement
<1>4. QED BY <1>1, <1>2, <1>3

LEMMA SumOfSetExists ==
  ASSUME NEW D, IsFiniteSet(D), NEW w \in [D -> Int]
  PROVE  \E F : IsSum(F, D, w)
<1> DEFINE Small(n) == {S \in SUBSET D : Cardinality(S) <= n}
           Sums(n, F) == \A S \in Small(n) : F[S] = IF S = {} THEN 0 ELSE w[First(S)] + F[S \ {First(S)}]
           Bad == {n \in Nat : ~\E F \in [Small(n) -> Int] : Sums(n, F)}
<1>1. Bad = {}
  <2> SUFFICES ASSUME Bad # {} PROVE FALSE
    OBVIOUS
  <2>1. Bad \in SUBSET Nat
    OBVIOUS
  <2>2. PICK m \in Bad : \A n \in Bad : m <= n
    <3> HIDE DEF Bad
    <3> QED BY <2>1, LeastOf
  <2>3. m \in Nat /\ ~\E F \in [Small(m) -> Int] : Sums(m, F)
    OBVIOUS
  <2>4. m # 0
    <3> SUFFICES ASSUME m = 0 PROVE FALSE
      OBVIOUS
    <3> DEFINE F == [S \in Small(0) |-> 0]
    <3>1. \A S \in Small(0) : S = {}
      BY FewerMembers
    <3>2. F \in [Small(0) -> Int] /\ Sums(0, F)
      BY <3>1
    <3>3. QED BY <2>3, <3>2
  <2>5. m - 1 \in Nat /\ m - 1 \notin Bad
    <3> HIDE DEF Bad
    <3> QED BY <2>2, <2>3, <2>4
  <2>6. PICK F \in [Small(m - 1) -> Int] : Sums(m - 1, F)
    BY <2>5
  <2> DEFINE G == [S \in Small(m) |-> IF S = {} THEN 0 ELSE w[First(S)] + F[S \ {First(S)}]]
  <2>7. \A S \in Small(m) : S # {} => First(S) \in D /\ S \ {First(S)} \in Small(m - 1)
    BY <2>3, FewerMembers, FirstIsMember
  <2>8. \A S \in Small(m - 1) : S \in Small(m) /\ G[S] = F[S]
    <3>1. \A S \in Small(m - 1) : S \in Small(m)
      BY <2>3, FewerMembers
    <3>2. QED BY <2>6, <3>1
  <2>9. G \in [Small(m) -> Int]
    BY <2>7
  <2>10. Sums(m, G)
    <3> HIDE DEF Small
    <3>1. \A S \in Small(m) : S # {} => G[S \ {First(S)}] = F[S \ {First(S)}]
      BY <2>7, <2>8
    <3>2. QED BY <3>1
  <2>11. QED BY <2>3, <2>9, <2>10
<1>2. Cardinality(D) \in Nat /\ Cardinality(D) \notin Bad
  BY <1>1, FS_CardinalityType
<1>3. PICK F \in [Small(Cardinality(D)) -> Int] : Sums(Cardinality(D), F)
  BY <1>2
<1>4. Small(Cardinality(D)) = SUBSET D
  BY FS_Subset
<1>5. IsSum(F, D, w)
  BY <1>3, <1>4 DEF IsSum
<1>6. QED BY <1>5

LEMMA SumsCommute == \A a, b, c \in Int : a + (b + c) = b + (a + c)
OBVIOUS

\* The order does not matter.
LEMMA MemberAdds ==
  ASSUME NEW D, IsFiniteSet(D), NEW w \in [D -> Int], NEW F, IsSum(F, D, w)
  PROVE  /\ F[{}] = 0
         /\ \A S \in SUBSET D : F[S] \in Int /\ \A x \in S : F[S] = w[x] + F[S \ {x}]
<1> DEFINE Adds(S) == F[S] \in Int /\ \A x \in S : F[S] = w[x] + F[S \ {x}]
           Bad == {n \in Nat : \E S \in SUBSET D : Cardinality(S) = n /\ ~Adds(S)}
<1>0. \A S \in SUBSET D : F[S] = IF S = {} THEN 0 ELSE w[First(S)] + F[S \ {First(S)}]
  BY DEF IsSum
<1>1. F[{}] = 0
  BY <1>0
<1>2. Bad = {}
  <2> SUFFICES ASSUME Bad # {} PROVE FALSE
    OBVIOUS
  <2>1. Bad \in SUBSET Nat
    OBVIOUS
  <2>2. PICK m \in Bad : \A n \in Bad : m <= n
    <3> HIDE DEF Bad
    <3> QED BY <2>1, LeastOf
  <2>3. PICK S \in SUBSET D : Cardinality(S) = m /\ ~Adds(S)
    OBVIOUS
  <2>4. m \in Nat
    OBVIOUS
  <2>5. ASSUME NEW T \in SUBSET D, Cardinality(T) < m PROVE Adds(T)
    <3>1. Cardinality(T) \in Nat /\ Cardinality(T) \notin Bad
      <4>1. Cardinality(T) \in Nat
        BY FewerMembers
      <4> HIDE DEF Bad
      <4>2. QED BY <2>2, <2>4, <2>5, <4>1
    <3>2. QED BY <3>1
  <2>6. S # {}
    BY <1>1, <2>3
  <2> DEFINE p == First(S)
  <2>7. p \in S /\ p \in D
    BY <2>6, FirstIsMember
  <2>8. F[S] = w[p] + F[S \ {p}]
    BY <1>0, <2>6
  <2> HIDE DEF p
  <2>9. \A x \in S : S \ {x} \in SUBSET D /\ Cardinality(S \ {x}) < m
    BY <2>3, <2>4, FewerMembers
  <2> HIDE DEF Bad
  <2>10. \A x \in S : F[S \ {x}] \in Int /\ \A y \in S \ {x} : F[S \ {x}] = w[y] + F[(S \ {x}) \ {y}]
    BY <2>5, <2>9
  <2>11. F[S] \in Int
    <3>1. w[p] \in Int /\ F[S \ {p}] \in Int
      BY <2>7, <2>10
    <3>2. PICK a \in Int, b \in Int : a = w[p] /\ b = F[S \ {p}]
      BY <3>1
    <3>3. F[S] = a + b
      BY <2>8, <3>2
    <3>4. QED BY <3>3
  <2>12. ASSUME NEW x \in S, x # p PROVE F[S] = w[x] + F[S \ {x}]
    <3>1. F[S \ {p}] = w[x] + F[(S \ {p}) \ {x}]
      BY <2>7, <2>10, <2>12
    <3>2. F[S \ {x}] = w[p] + F[(S \ {x}) \ {p}]
      BY <2>7, <2>10, <2>12
    <3>3. (S \ {p}) \ {x} = (S \ {x}) \ {p}
      OBVIOUS
    <3>4. F[(S \ {p}) \ {x}] \in Int
      <4>1. S \ {p} \in SUBSET D /\ Cardinality(S \ {p}) \in Nat /\ Cardinality(S \ {p}) < m
        BY <2>7, <2>9, FewerMembers
      <4>2. (S \ {p}) \ {x} \in SUBSET D /\ Cardinality((S \ {p}) \ {x}) < m
        BY <2>4, <2>12, <4>1, FewerMembers
      <4>3. QED BY <2>5, <4>2
    <3>5. w[x] \in Int /\ w[p] \in Int
      BY <2>7
    <3>6. F[S] = w[p] + (w[x] + F[(S \ {p}) \ {x}]) /\ F[S \ {x}] = w[p] + F[(S \ {p}) \ {x}]
      BY <2>8, <3>1, <3>2, <3>3, Zenon
    <3>7. w[p] + (w[x] + F[(S \ {p}) \ {x}]) = w[x] + (w[p] + F[(S \ {p}) \ {x}])
      <4> DEFINE a == w[p]
                 b == w[x]
                 c == F[(S \ {p}) \ {x}]
      <4>1. a \in Int /\ b \in Int /\ c \in Int
        BY <3>4, <3>5
      <4> HIDE DEF a, b, c
      <4>2. a + (b + c) = b + (a + c)
        BY <4>1, SumsCommute
      <4>3. QED BY <4>2 DEF a, b, c
    <3>8. QED BY <3>6, <3>7, Zenon
  <2>13. Adds(S)
    BY <2>8, <2>11, <2>12
  <2>14. QED BY <2>3, <2>13
<1>3. ASSUME NEW S \in SUBSET D PROVE Adds(S)
  <2>1. Cardinality(S) \in Nat /\ Cardinality(S) \notin Bad
    BY <1>2, FewerMembers
  <2>2. QED BY <2>1
<1>4. QED BY <1>1, <1>3

-----------------------------------------------------------------------------
(* The latencies of an honest run.  When every transaction committed, the  *)
(* rows of a client fill the time from the timer's start to its last row,  *)
(* so that all of them together fill no more than the elapsed time of each *)
(* client.                                                                 *)

Faulty == {"failed", "skipped", "retried"}
Places(run) == {p \in Clients \X (1..(TxPerClient + 1)) : p[2] \in 1..Len(run[p[1]])}
Weights(run) == [p \in Places(run) |-> run[p[1]][p[2]].latency]

LEMMA PlacesAreFinite == \A run : IsFiniteSet(Places(run))
<1>1. IsFiniteSet(Clients \X (1..(TxPerClient + 1)))
  <2>1. IsFiniteSet(1..(TxPerClient + 1)) /\ IsFiniteSet(Clients)
    BY ClientsAssumption, FS_Interval
  <2>2. QED BY <2>1, FS_Product
<1>2. QED BY <1>1, FS_Subset DEF Places

\* The rows of some outcomes are finitely many, and none is not there when none counts.
LEMMA CountedRows ==
  ASSUME NEW run \in [Clients -> Seq(LogRows)], NEW S
  PROVE  /\ Pgbench!AllOf(run, S) \in SUBSET Places(run)
         /\ Pgbench!Count(run, S) \in Nat /\ Pgbench!Count(run, S) = Cardinality(Pgbench!AllOf(run, S))
         /\ \A c \in Clients : \A k \in 1..Len(run[c]) :
              Len(run[c]) <= TxPerClient + 1 /\ run[c][k].outcome \in S => <<c, k>> \in Pgbench!AllOf(run, S)
<1>1. \A c \in Clients : DOMAIN run[c] = 1..Len(run[c]) /\ Len(run[c]) \in Nat
  OBVIOUS
<1>2. Pgbench!AllOf(run, S) \in SUBSET Places(run)
  BY <1>1 DEF Pgbench!AllOf, Places
<1>3. Pgbench!Count(run, S) = Cardinality(Pgbench!AllOf(run, S))
  BY PgCardinality DEF Pgbench!Count
<1>4. Cardinality(Pgbench!AllOf(run, S)) \in Nat
  BY <1>2, PlacesAreFinite, FS_Subset, FS_CardinalityType
<1>5. ASSUME NEW c \in Clients, NEW k \in 1..Len(run[c]), Len(run[c]) <= TxPerClient + 1, run[c][k].outcome \in S
      PROVE  <<c, k>> \in Pgbench!AllOf(run, S)
  <2>1. k \in 1..(TxPerClient + 1) /\ k \in DOMAIN run[c]
    BY <1>1, <1>5, ClientsAssumption
  <2>2. QED BY <1>5, <2>1 DEF Pgbench!AllOf
<1>6. QED BY <1>2, <1>3, <1>4, <1>5

LEMMA AllCommitted ==
  ASSUME NEW run \in [Clients -> Seq(LogRows)], \A c \in Clients : Len(run[c]) <= TxPerClient + 1,
         Pgbench!Count(run, Faulty) = 0
  PROVE  /\ \A c \in Clients : \A k \in 1..Len(run[c]) : run[c][k].outcome = "completed"
         /\ Pgbench!AllOf(run, Pgbench!Good) = Places(run)
<1>1. Pgbench!AllOf(run, Faulty) = {}
  <2>1. IsFiniteSet(Pgbench!AllOf(run, Faulty))
    BY CountedRows, PlacesAreFinite, FS_Subset
  <2>2. QED BY <2>1, CountedRows, FS_EmptySet
<1>2. ASSUME NEW c \in Clients, NEW k \in 1..Len(run[c]) PROVE run[c][k].outcome = "completed"
  <2>1. run[c][k] \in LogRows
    OBVIOUS
  <2>2. run[c][k].outcome \notin Faulty
    BY <1>1, CountedRows
  <2>3. QED BY <2>1, <2>2 DEF LogRows, Outcomes, Faulty
<1>3. ASSUME NEW p \in Places(run) PROVE p \in Pgbench!AllOf(run, Pgbench!Good)
  <2>1. p[1] \in Clients /\ p[2] \in 1..Len(run[p[1]]) /\ p = <<p[1], p[2]>>
    BY DEF Places
  <2>2. QED BY <1>2, <2>1, CountedRows DEF Pgbench!Good
<1>4. QED BY <1>2, <1>3, CountedRows

\* What a client's first m rows add is the time from the start to the last of them.
Gone(c, m) == IF m = 0 THEN 0 ELSE did[c][m].at - span.from
Block(c, m) == {c} \X (1..m)

LEMMA ClientAdds ==
  ASSUME HonestIInv, NEW F, IsSum(F, Places(did), Weights(did)), NEW c \in Clients,
         NEW S \in SUBSET Places(did), \A p \in S : p[1] # c
  PROVE  \A m \in 0..Len(did[c]) :
           /\ S \cup Block(c, m) \in SUBSET Places(did)
           /\ F[S \cup Block(c, m)] = F[S] + Gone(c, m) /\ Gone(c, m) \in Nat
<1> DEFINE D == Places(did)
           w == Weights(did)
           n == Len(did[c])
<1>1. /\ did \in [Clients -> Seq(LogRows)] /\ did[c] \in Seq(LogRows) /\ n \in Nat /\ n <= TxPerClient
      /\ span.from \in Nat /\ TxPerClient \in Nat
  BY ClientsAssumption DEF HonestIInv, PgIInv, PgTypes, DidBounded
<1>2. \A k \in 1..n : did[c][k] \in LogRows /\ RowTold(c, k)
  BY <1>1 DEF HonestIInv, RowsTold
<1>3. w \in [D -> Int]
  <2> SUFFICES ASSUME NEW p \in D PROVE did[p[1]][p[2]].latency \in Int
    BY DEF Weights
  <2>1. p[1] \in Clients /\ p[2] \in 1..Len(did[p[1]])
    BY DEF Places
  <2>2. did[p[1]][p[2]] \in LogRows
    BY <1>1, <2>1
  <2>3. QED BY <2>2 DEF LogRows
<1>4. \A T \in SUBSET D : F[T] \in Int /\ \A x \in T : F[T] = w[x] + F[T \ {x}]
  BY <1>3, PlacesAreFinite, MemberAdds
<1>5. \A m \in 0..n : S \cup Block(c, m) \in SUBSET D
  <2> SUFFICES ASSUME NEW m \in 0..n, NEW k \in 1..m PROVE <<c, k>> \in D
    BY DEF Block
  <2>1. k \in 1..(TxPerClient + 1) /\ k \in 1..n
    BY <1>1
  <2>2. QED BY <2>1 DEF Places
<1> DEFINE Claim(m) == F[S \cup Block(c, m)] = F[S] + Gone(c, m) /\ Gone(c, m) \in Nat
           T == {m \in 0..n : ~Claim(m)}
<1>6. Claim(0)
  <2>1. S \cup Block(c, 0) = S
    BY DEF Block
  <2>2. PICK a \in Int : a = F[S]
    BY <1>4
  <2>3. a = a + Gone(c, 0) /\ Gone(c, 0) \in Nat
    BY DEF Gone
  <2>4. QED BY <2>1, <2>2, <2>3
<1>7. ASSUME NEW m \in 1..n, Claim(m - 1) PROVE Claim(m)
  <2> DEFINE x == <<c, m>>
             a == did[c][m].at
             b == Past(c, m)
  <2>1. m \in 0..n /\ m - 1 \in 0..n /\ m \in Nat
    BY <1>1
  <2>2. x \in S \cup Block(c, m) /\ (S \cup Block(c, m)) \ {x} = S \cup Block(c, m - 1)
    <3>1. x \notin S
      OBVIOUS
    <3>2. x \in Block(c, m) /\ Block(c, m) \ {x} = Block(c, m - 1)
      BY <2>1 DEF Block
    <3>3. QED BY <3>1, <3>2
  <2>3. x \in D
    BY <1>5, <2>1, <2>2
  <2>4. w[x] = a - b /\ a >= b /\ a \in Int
    <3>1. w[x] = did[c][m].latency
      BY <2>3 DEF Weights
    <3>2. QED BY <1>2, <3>1 DEF RowTold, LogRows
  <2>5. Gone(c, m - 1) = b - span.from /\ Gone(c, m) = a - span.from /\ b \in Int
    <3>1. CASE m = 1
      BY <1>1, <3>1 DEF Gone, Past
    <3>2. CASE m # 1
      <4>1. m - 1 # 0 /\ m # 0 /\ m - 1 \in 1..n
        BY <2>1, <3>2
      <4>2. did[c][m - 1].at \in Int
        BY <1>2, <4>1 DEF LogRows
      <4>3. QED BY <3>2, <4>1, <4>2 DEF Gone, Past
    <3>3. QED BY <3>1, <3>2
  <2>6. F[S \cup Block(c, m)] = w[x] + F[S \cup Block(c, m - 1)]
    BY <1>4, <1>5, <2>1, <2>2, ZenonT(30)
  <2>7. PICK t \in Int : t = F[S]
    BY <1>4
  <2>8. PICK s \in Nat : s = span.from
    BY <1>1
  <2>9. F[S \cup Block(c, m - 1)] = t + (b - s) /\ b - s \in Nat
    BY <1>7, <2>5, <2>7, <2>8
  <2> HIDE DEF a, b, x, w
  <2>10. F[S \cup Block(c, m)] = (a - b) + (t + (b - s))
    BY <2>4, <2>6, <2>9
  <2>11. (a - b) + (t + (b - s)) = t + (a - s) /\ a - s \in Nat
    <3>1. a \in Int /\ b \in Int /\ a >= b
      BY <2>4, <2>5
    <3>2. QED BY <2>9, <3>1
  <2>12. QED BY <2>5, <2>7, <2>8, <2>10, <2>11
<1>8. T = {}
  <2> SUFFICES ASSUME T # {} PROVE FALSE
    OBVIOUS
  <2>1. T \in SUBSET Nat
    BY <1>1
  <2>2. PICK m \in T : \A k \in T : m <= k
    <3> HIDE DEF T
    <3> QED BY <2>1, LeastOf
  <2>3. m \in 0..n /\ ~Claim(m)
    OBVIOUS
  <2> HIDE DEF Claim
  <2>4. m # 0
    BY <1>6, <2>3
  <2>5. m - 1 \in 0..n /\ m \in 1..n /\ ~(m <= m - 1)
    BY <1>1, <2>3, <2>4
  <2>6. Claim(m - 1)
    BY <2>2, <2>5
  <2>7. QED BY <1>7, <2>3, <2>5, <2>6
<1>9. QED BY <1>5, <1>8

LEMMA OneMoreClient ==
  \A a, b, c, e \in Nat : a <= c * e /\ b <= e => a + b \in Nat /\ a + b <= (c + 1) * e
OBVIOUS

\* All the clients together: each adds no more than the elapsed time.
LEMMA ElapsedBoundsSum ==
  ASSUME HonestIInv, Stopped, NEW F, IsSum(F, Places(did), Weights(did))
  PROVE  F[Places(did)] \in Nat /\ F[Places(did)] <= Cardinality(Clients) * Pgbench!Elapsed
<1> DEFINE P(K) == {p \in Places(did) : p[1] \in K}
           E == Pgbench!Elapsed
           Claim(K) == F[P(K)] \in Nat /\ F[P(K)] <= Cardinality(K) * E
           T == {n \in Nat : \E K \in SUBSET Clients : Cardinality(K) = n /\ ~Claim(K)}
<1>1. /\ did \in [Clients -> Seq(LogRows)] /\ IsFiniteSet(Clients) /\ E = span.to - span.from
      /\ span.from \in Nat /\ span.to \in Nat /\ E \in Nat /\ TxPerClient \in Nat
      /\ \A c \in Clients : Len(did[c]) <= TxPerClient
  BY ClientsAssumption DEF HonestIInv, PgIInv, PgTypes, Timed, Pgbench!Elapsed, DidBounded
<1>2. F[{}] = 0
  <2>1. \A p \in Places(did) : did[p[1]][p[2]] \in LogRows
    BY <1>1 DEF Places
  <2>2. Weights(did) \in [Places(did) -> Int]
    BY <2>1 DEF Weights, LogRows
  <2>3. QED BY <2>2, PlacesAreFinite, MemberAdds
<1>3. \A K \in SUBSET Clients : P(K) \in SUBSET Places(did) /\ IsFiniteSet(K) /\ Cardinality(K) \in Nat
  BY <1>1, FS_Subset, FS_CardinalityType
<1>4. Claim({})
  <2>1. P({}) = {} /\ Cardinality({}) = 0
    BY FS_EmptySet
  <2>2. F[P({})] = 0
    BY <1>2, <2>1
  <2> HIDE DEF P, E
  <2>3. 0 <= 0 * E
    BY <1>1
  <2>4. QED BY <2>1, <2>2, <2>3
<1>5. ASSUME NEW K \in SUBSET Clients, NEW c \in K, Claim(K \ {c}) PROVE Claim(K)
  <2> DEFINE L == K \ {c}
  <2>1. P(L) \in SUBSET Places(did) /\ \A p \in P(L) : p[1] # c
    BY <1>3
  <2>2. P(K) = P(L) \cup Block(c, Len(did[c]))
    <3>1. \A p \in Places(did) : p[1] = c => p \in Block(c, Len(did[c]))
      BY DEF Places, Block
    <3>2. Len(did[c]) \in 0..Len(did[c])
      BY <1>1
    <3>3. P(L) \cup Block(c, Len(did[c])) \in SUBSET Places(did)
      <4> HIDE DEF P, L
      <4> QED BY <2>1, <3>2, ClientAdds
    <3>4. \A p \in Block(c, Len(did[c])) : p[1] = c
      BY DEF Block
    <3>5. QED BY <3>1, <3>3, <3>4
  <2>3. F[P(K)] = F[P(L)] + Gone(c, Len(did[c])) /\ Gone(c, Len(did[c])) \in Nat
    <3>1. Len(did[c]) \in 0..Len(did[c])
      BY <1>1
    <3>2. ASSUME NEW S \in SUBSET Places(did), \A p \in S : p[1] # c
          PROVE  \A m \in 0..Len(did[c]) :
                   /\ S \cup Block(c, m) \in SUBSET Places(did)
                   /\ F[S \cup Block(c, m)] = F[S] + Gone(c, m) /\ Gone(c, m) \in Nat
      <4>1. c \in Clients
        OBVIOUS
      <4>2. QED BY <3>2, <4>1, ClientAdds
    <3> HIDE DEF P, L
    <3>3. QED BY <2>1, <2>2, <3>1, <3>2
  <2>4. Gone(c, Len(did[c])) <= E
    <3>1. CASE Len(did[c]) = 0
      BY <1>1, <3>1 DEF Gone
    <3>2. CASE Len(did[c]) # 0
      <4>1. Len(did[c]) \in 1..Len(did[c])
        BY <1>1, <3>2
      <4>2. did[c][Len(did[c])].at <= span.to /\ did[c][Len(did[c])] \in LogRows
        BY <1>1, <4>1 DEF HonestIInv, Timed
      <4>3. did[c][Len(did[c])].at \in Int
        BY <4>2 DEF LogRows
      <4>4. QED BY <1>1, <3>2, <4>2, <4>3 DEF Gone
    <3>3. QED BY <3>1, <3>2
  <2>5. Cardinality(K) = Cardinality(L) + 1 /\ Cardinality(L) \in Nat
    <3>1. Cardinality(L) = Cardinality(K) - 1 /\ Cardinality(K) \in Nat /\ Cardinality(L) \in Nat
      BY <1>3, FS_RemoveElement
    <3>2. QED BY <3>1
  <2> HIDE DEF P, E, L
  <2>6. F[P(L)] \in Nat /\ F[P(L)] <= Cardinality(L) * E
    BY <1>5 DEF L
  <2>7. PICK a \in Nat, b \in Nat, n \in Nat, e \in Nat :
          a = F[P(L)] /\ b = Gone(c, Len(did[c])) /\ n = Cardinality(L) /\ e = E
    BY <1>1, <2>3, <2>5, <2>6
  <2>8. a + b \in Nat /\ a + b <= (n + 1) * e
    BY <2>4, <2>6, <2>7, OneMoreClient
  <2>9. F[P(K)] = a + b /\ Cardinality(K) = n + 1
    BY <2>3, <2>5, <2>7
  <2>10. QED BY <2>7, <2>8, <2>9
<1>6. T = {}
  <2> SUFFICES ASSUME T # {} PROVE FALSE
    OBVIOUS
  <2>1. T \in SUBSET Nat
    OBVIOUS
  <2>2. PICK m \in T : \A k \in T : m <= k
    <3> HIDE DEF T
    <3> QED BY <2>1, LeastOf
  <2> HIDE DEF Claim
  <2>3. PICK K \in SUBSET Clients : Cardinality(K) = m /\ ~Claim(K)
    OBVIOUS
  <2>4. PICK c : c \in K
    BY <1>4, <2>3
  <2>5. Cardinality(K \ {c}) = m - 1 /\ K \ {c} \in SUBSET Clients /\ Cardinality(K \ {c}) \in Nat
    BY <1>3, <2>3, <2>4, FS_RemoveElement
  <2>6. m - 1 \in Nat /\ m \in Nat /\ ~(m <= m - 1)
    BY <2>5
  <2>7. Claim(K \ {c})
    <3> SUFFICES ASSUME ~Claim(K \ {c}) PROVE FALSE
      OBVIOUS
    <3>1. m - 1 \in T
      BY <2>5, <2>6
    <3> HIDE DEF T
    <3>2. QED BY <2>2, <2>6, <3>1
  <2>8. QED BY <1>5, <2>3, <2>4, <2>7
<1>7. Claim(Clients)
  <2>1. Cardinality(Clients) \in Nat /\ Cardinality(Clients) \notin T
    BY <1>3, <1>6
  <2> HIDE DEF Claim
  <2>2. QED BY <2>1
<1>8. P(Clients) = Places(did)
  BY DEF Places
<1>9. QED BY <1>7, <1>8

\* The sum the gates compute is such a sum.
LEMMA LatencySumIs ==
  ASSUME NEW run \in [Clients -> Seq(LogRows)], Pgbench!AllOf(run, Pgbench!Good) = Places(run)
  PROVE  \E F : IsSum(F, Places(run), Weights(run)) /\ Pgbench!LatencySum(run) = F[Places(run)]
<1> DEFINE D == Places(run)
           Sums(g) == g = [S \in SUBSET D |->
             IF S = {} THEN 0 ELSE LET p == CHOOSE q \in S : TRUE IN run[p[1]][p[2]].latency + g[S \ {p}]]
<1>1. \A p \in D : run[p[1]][p[2]] \in LogRows
  BY DEF Places
<1>2. Weights(run) \in [D -> Int]
  BY <1>1 DEF Weights, LogRows
<1>3. \A g : Sums(g) <=> IsSum(g, D, Weights(run))
  <2> SUFFICES ASSUME NEW g
               PROVE  [S \in SUBSET D |-> IF S = {} THEN 0 ELSE
                        LET p == CHOOSE q \in S : TRUE IN run[p[1]][p[2]].latency + g[S \ {p}]]
                    = [S \in SUBSET D |-> IF S = {} THEN 0 ELSE Weights(run)[First(S)] + g[S \ {First(S)}]]
    BY DEF IsSum
  <2>1. ASSUME NEW S \in SUBSET D, S # {}
        PROVE  Weights(run)[First(S)] = run[First(S)[1]][First(S)[2]].latency
    <3>1. First(S) \in D
      BY <2>1, FirstIsMember
    <3>2. QED BY <3>1 DEF Weights
  <2>2. QED BY <2>1 DEF First
<1>4. \E g : Sums(g)
  <2>1. \E F : IsSum(F, D, Weights(run))
    BY <1>2, PlacesAreFinite, SumOfSetExists
  <2> HIDE DEF Sums
  <2>2. QED BY <1>3, <2>1
<1>5. Pgbench!LatencySum(run) = (CHOOSE g : Sums(g))[D]
  BY DEF Pgbench!LatencySum
<1>6. Sums(CHOOSE g : Sums(g))
  <2> HIDE DEF Sums
  <2> QED BY <1>4
<1> HIDE DEF Sums
<1>7. QED BY <1>3, <1>5, <1>6

-----------------------------------------------------------------------------
(* The gates and an honest run.  What is printed with one decimal is off   *)
(* by half a unit at most, and what is compared allows for it.             *)

LEMMA Rounded ==
  ASSUME NEW a \in Nat, NEW b \in Nat \ {0}
  PROVE  /\ Pgbench!RoundDiv(a, b) \in Nat
         /\ b * (2 * Pgbench!RoundDiv(a, b) - 1) <= 2 * a /\ 2 * a < b * (2 * Pgbench!RoundDiv(a, b) + 1)
<1> DEFINE x == 2 * a + b
           y == 2 * b
           q == x \div y
<1>1. x \in Nat /\ y \in Nat \ {0}
  OBVIOUS
<1>2. q \in Nat /\ y * q <= x /\ x < y * q + y
  <2> HIDE DEF x, y
  <2> QED BY <1>1
<1>3. Pgbench!RoundDiv(a, b) = q
  BY DEF Pgbench!RoundDiv
<1> HIDE DEF q
<1>4. y * q = 2 * (b * q) /\ b * q \in Int
  BY <1>2
<1>5. b * (2 * q - 1) = 2 * (b * q) - b /\ b * (2 * q + 1) = 2 * (b * q) + b
  BY <1>2
<1>6. QED BY <1>2, <1>3, <1>4, <1>5

LEMMA CancelFactor == \A e \in Nat \ {0} : \A x, y \in Int : e * x <= e * y => x <= y
OBVIOUS
LEMMA GrowsByFactor == \A e \in Nat : \A x, y \in Int : x <= y => x * e <= y * e
OBVIOUS

\* The phase, a boundary longer than the elapsed time at most.
LEMMA PhaseAgrees ==
  ASSUME NEW E \in Nat, NEW P \in Nat, NEW T \in Nat \ {0}, NEW M \in Nat, E <= M, M <= E + 1,
         E * (2 * T - 1) <= 20 * P, 20 * P < E * (2 * T + 1)
  PROVE  M * (2 * T + 1) >= 20 * P /\ (M - 1) * (2 * T - 1) <= 20 * P
<1>1. E * (2 * T + 1) <= M * (2 * T + 1)
  BY GrowsByFactor
<1>2. (M - 1) * (2 * T - 1) <= E * (2 * T - 1)
  BY GrowsByFactor
<1>3. QED BY <1>1, <1>2

\* The printed mean and the printed rate, of one elapsed time.
LEMMA MeanAgrees ==
  ASSUME NEW E \in Nat \ {0}, NEW P \in Nat \ {0}, NEW T \in Nat \ {0}, NEW L \in Nat, NEW C \in Nat,
         E * (2 * T - 1) <= 20 * P, 20 * P < E * (2 * T + 1),
         P * (2 * L - 1) <= 20 * (E * C), 20 * (E * C) < P * (2 * L + 1)
  PROVE  400 * C <= (2 * L + 1) * (2 * T + 1) /\ (2 * L - 1) * (2 * T - 1) <= 400 * C
<1> DEFINE u == 2 * L + 1
           v == 2 * T + 1
           u0 == 2 * L - 1
           v0 == 2 * T - 1
<1>1. u \in Nat /\ v \in Nat /\ u0 \in Int /\ v0 \in Nat
  OBVIOUS
<1>2. /\ E * v0 <= 20 * P /\ 20 * P < E * v /\ P * u0 <= 20 * (E * C) /\ 20 * (E * C) < P * u
  OBVIOUS
<1>3. L = 0 => u0 = -1
  OBVIOUS
<1>4. L # 0 => u0 \in Nat
  OBVIOUS
<1> HIDE DEF u, v, u0, v0
<1>5. 400 * C <= u * v
  <2>1. (20 * P) * u <= (E * v) * u
    BY <1>1, <1>2, GrowsByFactor
  <2>2. (20 * P) * u = 20 * (P * u) /\ (E * v) * u = E * (u * v) /\ 20 * (20 * (E * C)) = E * (400 * C)
    BY <1>1
  <2>3. P * u \in Int /\ E * C \in Int /\ u * v \in Int /\ E * (u * v) \in Int
    BY <1>1
  <2>4. 20 * (20 * (E * C)) <= 20 * (P * u)
    BY <1>2, <2>3
  <2>5. E * (400 * C) <= E * (u * v)
    BY <2>1, <2>2, <2>3, <2>4
  <2>6. QED BY <2>3, <2>5, CancelFactor
<1>6. u0 * v0 <= 400 * C
  <2>1. CASE L = 0
    BY <1>1, <1>3, <2>1
  <2>2. CASE L # 0
    <3>1. (E * v0) * u0 <= (20 * P) * u0
      BY <1>1, <1>2, <1>4, <2>2, GrowsByFactor
    <3>2. (E * v0) * u0 = E * (u0 * v0) /\ (20 * P) * u0 = 20 * (P * u0) /\ 20 * (20 * (E * C)) = E * (400 * C)
      BY <1>1
    <3>3. P * u0 \in Int /\ E * C \in Int /\ u0 * v0 \in Int /\ E * (u0 * v0) \in Int
      BY <1>1
    <3>4. 20 * (P * u0) <= 20 * (20 * (E * C))
      BY <1>2, <3>3
    <3>5. E * (u0 * v0) <= E * (400 * C)
      BY <3>1, <3>2, <3>3, <3>4
    <3>6. QED BY <3>3, <3>5, CancelFactor
  <2>3. QED BY <2>1, <2>2
<1>7. QED BY <1>5, <1>6 DEF u, v, u0, v0

\* The mean of the rows, which fill no more than the clients' elapsed time.
LEMMA RowsAgree ==
  ASSUME NEW E \in Nat, NEW P \in Nat, NEW T \in Nat \ {0}, NEW L \in Nat, NEW C \in Nat,
         NEW R \in Nat, R <= C * E, E * (2 * T - 1) <= 20 * P, 20 * (E * C) < P * (2 * L + 1)
  PROVE  R * (2 * T - 1) <= 20 * C * P /\ R * 20 <= (2 * L + 1) * P
<1>1. R * (2 * T - 1) <= (C * E) * (2 * T - 1)
  BY GrowsByFactor
<1>2. (C * E) * (2 * T - 1) = (E * (2 * T - 1)) * C
  OBVIOUS
<1>3. (E * (2 * T - 1)) * C <= (20 * P) * C
  BY GrowsByFactor
<1>4. (20 * P) * C = 20 * C * P
  OBVIOUS
<1>5. R * (2 * T - 1) <= 20 * C * P
  BY <1>1, <1>2, <1>3, <1>4
<1>6. R * 20 <= (2 * L + 1) * P
  BY GrowsByFactor
<1>7. QED BY <1>5, <1>6

\* Time does not go back along the rows of a client.
LEMMA TimeForward ==
  ASSUME HonestIInv, NEW c \in Clients
  PROVE  \A k \in 1..Len(did[c]) : /\ did[c][k].at >= span.from
                                   /\ \A j \in 1..(k - 1) : did[c][j].at <= did[c][k].at
<1> DEFINE n == Len(did[c])
           Claim(k) == did[c][k].at >= span.from /\ \A j \in 1..(k - 1) : did[c][j].at <= did[c][k].at
           T == {k \in 1..n : ~Claim(k)}
<1>1. did[c] \in Seq(LogRows) /\ n \in Nat /\ span.from \in Nat
  BY DEF HonestIInv, PgIInv, PgTypes
<1>2. \A k \in 1..n : did[c][k].at \in Nat /\ RowTold(c, k)
  <2>1. \A k \in 1..n : did[c][k] \in LogRows
    BY <1>1
  <2>2. QED BY <2>1 DEF HonestIInv, RowsTold, LogRows
<1> SUFFICES ASSUME T # {} PROVE FALSE
  OBVIOUS
<1>3. T \in SUBSET Nat
  OBVIOUS
<1>4. PICK k \in T : \A m \in T : k <= m
  <2> HIDE DEF T
  <2> QED BY <1>3, LeastOf
<1>5. k \in 1..n /\ ~Claim(k)
  OBVIOUS
<1>6. k # 1
  <2> SUFFICES ASSUME k = 1 PROVE FALSE
    OBVIOUS
  <2>1. did[c][1].at >= span.from
    BY <1>2, <1>5 DEF RowTold, Past
  <2>2. QED BY <1>5, <2>1
<1>7. k - 1 \in 1..n /\ ~(k <= k - 1)
  BY <1>1, <1>5, <1>6
<1>8. Claim(k - 1)
  <2> HIDE DEF Claim
  <2> QED BY <1>4, <1>7
<1>9. did[c][k].at >= did[c][k - 1].at
  BY <1>2, <1>5, <1>6 DEF RowTold, Past
<1>10. did[c][k].at >= span.from
  BY <1>1, <1>2, <1>5, <1>7, <1>8, <1>9, SMTT(30)
<1>11. ASSUME NEW j \in 1..(k - 1) PROVE did[c][j].at <= did[c][k].at
  <2>1. j = k - 1 \/ j \in 1..((k - 1) - 1)
    BY <1>5
  <2>2. j \in 1..n
    BY <1>1, <1>5
  <2>3. did[c][j].at \in Nat /\ did[c][k - 1].at \in Nat /\ did[c][k].at \in Nat
    BY <1>2, <1>5, <1>7, <2>2
  <2>4. did[c][j].at <= did[c][k - 1].at
    BY <1>8, <2>1, <2>3
  <2> HIDE DEF n, Claim, T
  <2>5. QED BY <1>9, <2>3, <2>4
<1>12. QED BY <1>5, <1>10, <1>11

\* The rows of an honest run, all of them committed.
LEMMA HonestRows ==
  ASSUME HonestIInv, Stopped, Pgbench!Count(did, Faulty) = 0
  PROVE  /\ did \in [Clients -> Seq(LogRows)] /\ \A c \in Clients : Len(did[c]) \in Nat /\ Len(did[c]) <= TxPerClient
         /\ Pgbench!AllOf(did, Pgbench!Good) = Places(did)
         /\ \A c \in Clients : \A k \in 1..Len(did[c]) :
              /\ did[c][k] \in LogRows /\ did[c][k].outcome = "completed" /\ did[c][k].no = k - 1
              /\ span.started <= did[c][k].at /\ did[c][k].at <= span.to
              /\ \A j \in 1..(k - 1) : did[c][j].at <= did[c][k].at
<1>1. /\ did \in [Clients -> Seq(LogRows)] /\ \A c \in Clients : Len(did[c]) \in Nat /\ Len(did[c]) <= TxPerClient
      /\ TxPerClient \in Nat /\ span.started \in Nat /\ span.from \in Nat /\ span.started <= span.from
  BY ClientsAssumption DEF HonestIInv, PgIInv, PgTypes, DidBounded, Timed
<1>2. \A c \in Clients : Len(did[c]) <= TxPerClient + 1
  BY <1>1
<1>3. /\ Pgbench!AllOf(did, Pgbench!Good) = Places(did)
      /\ \A c \in Clients : \A k \in 1..Len(did[c]) : did[c][k].outcome = "completed"
  BY <1>1, <1>2, AllCommitted
<1>4. ASSUME NEW c \in Clients, NEW k \in 1..Len(did[c])
      PROVE  /\ did[c][k] \in LogRows /\ did[c][k].outcome = "completed" /\ did[c][k].no = k - 1
             /\ span.started <= did[c][k].at /\ did[c][k].at <= span.to
             /\ \A j \in 1..(k - 1) : did[c][j].at <= did[c][k].at
  <2>1. did[c][k] \in LogRows /\ did[c][k].outcome = "completed" /\ did[c][k].at <= span.to
    BY <1>1, <1>3 DEF HonestIInv, Timed
  <2>2. \A j \in 1..(k - 1) : did[c][j].outcome # "skipped"
    <3> SUFFICES ASSUME NEW j \in 1..(k - 1) PROVE did[c][j].outcome # "skipped"
      OBVIOUS
    <3>1. j \in 1..Len(did[c])
      BY <1>1
    <3>2. QED BY <1>3, <3>1
  <2>3. did[c][k].no = k - 1
    BY <2>2 DEF HonestIInv, RowsTold, RowTold
  <2>4. did[c][k].at >= span.from /\ \A j \in 1..(k - 1) : did[c][j].at <= did[c][k].at
    BY TimeForward
  <2>5. did[c][k].at \in Nat
    BY <2>1 DEF LogRows
  <2>6. span.started <= did[c][k].at
    BY <1>1, <2>4, <2>5
  <2>7. QED BY <2>1, <2>3, <2>4, <2>6
<1>5. QED BY <1>1, <1>3, <1>4

\* The run that no gate refuses.
Honest ==
  /\ pgPc = "judged" /\ output # <<>> /\ faults = 0
  /\ Pgbench!Count(did, Faulty) = 0
  /\ \A c \in Clients : logs[c] # <<>>
  /\ span.finished - span.started <= Pgbench!Elapsed + Pgbench!Boundary
  /\ Pgbench!Tps > 0

LEMMA HonestTimes ==
  ASSUME HonestIInv, Honest
  PROVE  /\ Stopped /\ span.started \in Nat /\ span.finished \in Nat /\ span.to \in Nat /\ span.to <= span.finished
         /\ Pgbench!Elapsed \in Nat \ {0} /\ span.finished - span.started \in Nat
         /\ Pgbench!Elapsed <= span.finished - span.started
         /\ span.finished - span.started <= Pgbench!Elapsed + 1
         /\ output = Pgbench!Lines /\ plan \in Pgbench!Plans
<1>1. /\ span.started \in Nat /\ span.from \in Nat /\ span.to \in Nat /\ span.finished \in Nat
      /\ Stopped /\ pgPc = "judged" /\ faults = 0
  BY DEF HonestIInv, PgIInv, PgTypes, Honest, Stopped
<1>2. /\ span.started <= span.from /\ span.from < span.to /\ span.to <= span.finished
      /\ output = Pgbench!Lines /\ plan \in Pgbench!Plans
  BY <1>1 DEF HonestIInv, Timed
<1>3. span.finished - span.started <= Pgbench!Elapsed + 1
  BY DEF Honest, Pgbench!Boundary
<1>4. QED BY <1>1, <1>2, <1>3 DEF Pgbench!Elapsed

\* What is counted, summed and printed of it.
LEMMA HonestNumbers ==
  ASSUME HonestIInv, Honest
  PROVE  /\ Pgbench!Processed \in Nat \ {0} /\ Pgbench!Tps \in Nat \ {0} /\ Pgbench!Latency \in Nat
         /\ Cardinality(Clients) \in Nat /\ Pgbench!LatencySum(did) \in Nat
         /\ Pgbench!LatencySum(did) <= Cardinality(Clients) * Pgbench!Elapsed
         /\ Pgbench!Elapsed * (2 * Pgbench!Tps - 1) <= 20 * Pgbench!Processed
         /\ 20 * Pgbench!Processed < Pgbench!Elapsed * (2 * Pgbench!Tps + 1)
         /\ plan.rate =>
              /\ Pgbench!Processed * (2 * Pgbench!Latency - 1) <= 20 * Pgbench!LatencySum(did)
              /\ 20 * Pgbench!LatencySum(did) < Pgbench!Processed * (2 * Pgbench!Latency + 1)
         /\ ~plan.rate =>
              /\ Pgbench!Processed * (2 * Pgbench!Latency - 1) <= 20 * (Pgbench!Elapsed * Cardinality(Clients))
              /\ 20 * (Pgbench!Elapsed * Cardinality(Clients)) < Pgbench!Processed * (2 * Pgbench!Latency + 1)
<1> DEFINE E == Pgbench!Elapsed
           P == Pgbench!Processed
           T == Pgbench!Tps
           L == Pgbench!Latency
           C == Cardinality(Clients)
           R == Pgbench!LatencySum(did)
<1>1. Stopped /\ E \in Nat \ {0}
  BY HonestTimes
<1>2. /\ did \in [Clients -> Seq(LogRows)] /\ Pgbench!AllOf(did, Pgbench!Good) = Places(did)
      /\ \A c \in Clients : \A k \in 1..Len(did[c]) : did[c][k].outcome = "completed"
  BY <1>1, HonestRows DEF Honest
<1>3. C \in Nat
  BY ClientsAssumption, FS_CardinalityType
<1>4. P \in Nat
  BY <1>2, CountedRows DEF Pgbench!Processed
<1>5. R \in Nat /\ R <= C * E
  <2>1. PICK F : IsSum(F, Places(did), Weights(did)) /\ R = F[Places(did)]
    BY <1>2, LatencySumIs
  <2>2. F[Places(did)] \in Nat /\ F[Places(did)] <= C * E
    BY <1>1, <2>1, ElapsedBoundsSum
  <2>3. QED BY <2>1, <2>2
<1>6. T = Pgbench!RoundDiv(10 * P, E)
  BY DEF Pgbench!Tps, Pgbench!Scale
<1>7. L = IF plan.rate THEN Pgbench!RoundDiv(10 * R, P) ELSE Pgbench!RoundDiv(10 * E * C, P)
  <2>1. Pgbench!AllOf(did, {"failed"}) = {}
    <3> SUFFICES ASSUME NEW p \in Pgbench!AllOf(did, {"failed"}) PROVE FALSE
      OBVIOUS
    <3>1. p \in Places(did) /\ did[p[1]][p[2]].outcome = "failed"
      BY <1>2, CountedRows DEF Pgbench!AllOf
    <3>2. p[1] \in Clients /\ p[2] \in 1..Len(did[p[1]])
      BY <3>1 DEF Places
    <3>3. QED BY <1>2, <3>1, <3>2
  <2>2. Pgbench!Count(did, {"failed"}) = 0
    BY <1>2, <2>1, CountedRows, FS_EmptySet
  <2>3. P + Pgbench!Count(did, {"failed"}) = P
    BY <1>4, <2>2
  <2>4. QED BY <2>3, PgCardinality DEF Pgbench!Latency, Pgbench!Scale
<1>8. T > 0
  BY DEF Honest
<1> HIDE DEF E, P, T, L, C, R
<1>9. T \in Nat \ {0} /\ E * (2 * T - 1) <= 20 * P /\ 20 * P < E * (2 * T + 1)
  <2>1. 10 * P \in Nat /\ 2 * (10 * P) = 20 * P
    BY <1>4
  <2>2. T \in Nat /\ E * (2 * T - 1) <= 2 * (10 * P) /\ 2 * (10 * P) < E * (2 * T + 1)
    BY <1>1, <1>6, <2>1, Rounded
  <2>3. QED BY <1>8, <2>1, <2>2
<1>10. P \in Nat \ {0}
  <2> SUFFICES ASSUME P = 0 PROVE FALSE
    BY <1>4
  <2>1. PICK v \in Nat \ {0} : v = 2 * T - 1
    BY <1>9
  <2>2. E * v <= 0
    BY <1>9, <2>1
  <2>3. QED BY <1>1, <2>2
<1>11. ASSUME plan.rate
       PROVE  L \in Nat /\ P * (2 * L - 1) <= 20 * R /\ 20 * R < P * (2 * L + 1)
  <2>1. 10 * R \in Nat /\ 2 * (10 * R) = 20 * R
    BY <1>5
  <2>2. L \in Nat /\ P * (2 * L - 1) <= 2 * (10 * R) /\ 2 * (10 * R) < P * (2 * L + 1)
    BY <1>7, <1>10, <1>11, <2>1, Rounded
  <2>3. QED BY <2>1, <2>2
<1>12. ASSUME ~plan.rate
       PROVE  L \in Nat /\ P * (2 * L - 1) <= 20 * (E * C) /\ 20 * (E * C) < P * (2 * L + 1)
  <2>1. 10 * E * C \in Nat /\ 2 * (10 * E * C) = 20 * (E * C)
    BY <1>1, <1>3
  <2>2. L \in Nat /\ P * (2 * L - 1) <= 2 * (10 * E * C) /\ 2 * (10 * E * C) < P * (2 * L + 1)
    BY <1>7, <1>10, <1>12, <2>1, Rounded
  <2>3. QED BY <2>1, <2>2
<1>13. QED BY <1>3, <1>5, <1>9, <1>10, <1>11, <1>12 DEF E, P, T, L, C, R

LEMMA HonestSummary ==
  ASSUME HonestIInv, Honest
  PROVE  /\ Pgbench!LinesKnown /\ Pgbench!FieldsPresent /\ Pgbench!ProtocolHolds
         /\ Pgbench!WithinMeasure /\ Pgbench!LatencyAgrees
<1> DEFINE E == Pgbench!Elapsed
           P == Pgbench!Processed
           T == Pgbench!Tps
           L == Pgbench!Latency
           C == Cardinality(Clients)
           M == span.finished - span.started
<1>1. output = Pgbench!Lines /\ Stopped /\ E \in Nat \ {0} /\ M \in Nat /\ E <= M /\ M <= E + 1
  BY HonestTimes
<1>2. /\ P \in Nat \ {0} /\ T \in Nat \ {0} /\ L \in Nat /\ C \in Nat
      /\ E * (2 * T - 1) <= 20 * P /\ 20 * P < E * (2 * T + 1)
      /\ ~plan.rate => P * (2 * L - 1) <= 20 * (E * C) /\ 20 * (E * C) < P * (2 * L + 1)
  BY HonestNumbers
<1>3. Pgbench!LinesKnown
  BY <1>1 DEF Pgbench!LinesKnown
<1>4. Pgbench!FieldsPresent
  BY <1>1, <1>2 DEF Pgbench!FieldsPresent
<1>5. Pgbench!ProtocolHolds
  <2>1. Pgbench!Count(did, {"failed", "skipped", "retried"}) = 0
    BY DEF Honest, Faulty
  <2>2. ASSUME plan.fixed PROVE P = C * TxPerClient
    <3>1. /\ did \in [Clients -> Seq(LogRows)] /\ \A c \in Clients : Len(did[c]) \in Nat /\ Len(did[c]) <= TxPerClient
          /\ Pgbench!AllOf(did, Pgbench!Good) = Places(did)
          /\ \A c \in Clients : \A k \in 1..Len(did[c]) : did[c][k].outcome = "completed"
      BY <1>1, HonestRows DEF Honest
    <3>2. ASSUME NEW c \in Clients PROVE Len(did[c]) = TxPerClient
      <4>1. Pgbench!Consumed(did[c]) = TxPerClient
        BY <1>1, <2>2 DEF HonestIInv, Timed
      <4>2. {k \in DOMAIN did[c] : did[c][k].outcome # "skipped"} = 1..Len(did[c])
        BY <3>1
      <4>3. Cardinality(1..Len(did[c])) = Len(did[c])
        <5>1. PICK n \in Nat : n = Len(did[c])
          BY <3>1
        <5>2. Cardinality(1..n) = n
          BY FS_Interval
        <5>3. QED BY <5>1, <5>2
      <4>4. QED BY <4>1, <4>2, <4>3, PgCardinality DEF Pgbench!Consumed
    <3>3. Places(did) = Clients \X (1..TxPerClient)
      BY <3>2, ClientsAssumption DEF Places
    <3>4. IsFiniteSet(1..TxPerClient) /\ Cardinality(1..TxPerClient) = TxPerClient /\ IsFiniteSet(Clients)
      BY ClientsAssumption, FS_Interval
    <3>5. Cardinality(Clients \X (1..TxPerClient)) = C * TxPerClient
      BY <3>4, FS_Product
    <3>6. QED BY <3>1, <3>3, <3>5, CountedRows DEF Pgbench!Processed
  <2>3. QED BY <2>1, <2>2, PgCardinality DEF Pgbench!ProtocolHolds
<1>6. Pgbench!WithinMeasure
  <2>1. M * (2 * T + 1) >= 20 * P /\ (M - 1) * (2 * T - 1) <= 20 * P
    <3> HIDE DEF E, P, T, L, C, M
    <3> QED BY <1>1, <1>2, PhaseAgrees
  <2>2. 2 * Pgbench!Scale * P = 20 * P
    BY DEF Pgbench!Scale
  <2> HIDE DEF P, T
  <2>3. QED BY <2>1, <2>2 DEF Pgbench!WithinMeasure, Pgbench!Boundary, P, T
<1>7. Pgbench!LatencyAgrees
  <2> SUFFICES ASSUME ~plan.rate
               PROVE  /\ 400 * C <= (2 * L + 1) * (2 * T + 1)
                      /\ (2 * L - 1) * (2 * T - 1) <= 400 * C
    BY PgCardinality DEF Pgbench!LatencyAgrees, Pgbench!Scale
  <2> HIDE DEF E, P, T, L, C
  <2>1. QED BY <1>1, <1>2, MeanAgrees
<1>8. QED BY <1>3, <1>4, <1>5, <1>6, <1>7

\* The logs of an honest run: rows of the run in its order, one file for each client.
LEMMA HonestLogs ==
  ASSUME HonestIInv, Honest
  PROVE  Pgbench!LogsParse /\ Pgbench!LogsMatch /\ Pgbench!InsideMeasure
<1>1. /\ DOMAIN logs = Clients /\ logs \in [Clients -> Seq(LogRows)] /\ (~plan.sampled => logs = did)
      /\ \A c \in Clients : InOrder(c)
  BY DEF HonestIInv, PgIInv, Files, Honest, LogsInOrder
<1>2. /\ did \in [Clients -> Seq(LogRows)] /\ \A c \in Clients : Len(did[c]) \in Nat /\ Len(did[c]) <= TxPerClient
      /\ Pgbench!AllOf(did, Pgbench!Good) = Places(did)
      /\ \A c \in Clients : \A k \in 1..Len(did[c]) :
              /\ did[c][k] \in LogRows /\ did[c][k].outcome = "completed" /\ did[c][k].no = k - 1
              /\ span.started <= did[c][k].at /\ did[c][k].at <= span.to
              /\ \A j \in 1..(k - 1) : did[c][j].at <= did[c][k].at
  <2>1. Stopped
    BY HonestTimes
  <2>2. QED BY <2>1, HonestRows DEF Honest
<1>3. \A c \in Clients : \A k \in 1..Len(logs[c]) :
        logs[c][k].client = c /\ \E i \in 1..Len(did[c]) : logs[c][k] = did[c][i]
  <2> SUFFICES ASSUME NEW c \in Clients, NEW k \in 1..Len(logs[c])
               PROVE  logs[c][k].client = c /\ \E i \in 1..Len(did[c]) : logs[c][k] = did[c][i]
    OBVIOUS
  <2>1. WrittenBy(did, c, logs[c][k])
    BY <1>1 DEF HonestIInv, PgIInv, LogsWritten, LogWritten
  <2>2. DOMAIN did[c] = 1..Len(did[c])
    BY <1>2
  <2>3. QED BY <2>1, <2>2 DEF WrittenBy
<1>4. Pgbench!LogsParse
  <2>1. logs # <<>>
    BY <1>1, ClientsAssumption
  <2>2. \A c \in Clients : DOMAIN logs[c] = 1..Len(logs[c]) /\ Len(logs[c]) \in Nat /\ logs[c] # <<>>
    BY <1>1 DEF Honest
  <2>3. Pgbench!OneFilePerClient
    BY <1>1, <1>3, <2>2 DEF Pgbench!OneFilePerClient
  <2>4. ASSUME NEW c \in Clients, NEW k \in 1..Len(logs[c]) - 1
        PROVE  Pgbench!Follows(logs[c][k], logs[c][k + 1])
    <3>1. k + 1 \in 1..Len(logs[c]) /\ k \in 1..((k + 1) - 1) /\ k \in 1..Len(logs[c])
      BY <2>2
    <3>2. PICK n \in 1..Len(did[c]) : \E m \in 1..(n - 1) : logs[c][k] = did[c][m] /\ logs[c][k + 1] = did[c][n]
      BY <1>1, <3>1 DEF InOrder
    <3>3. PICK m \in 1..(n - 1) : logs[c][k] = did[c][m] /\ logs[c][k + 1] = did[c][n]
      BY <3>2
    <3>4. m \in 1..Len(did[c])
      BY <1>2
    <3>5. did[c][m].at <= did[c][n].at /\ did[c][m].at \in Nat /\ did[c][n].at \in Nat
      BY <1>2, <3>4 DEF LogRows
    <3>6. did[c][m].no = m - 1 /\ did[c][n].no = n - 1 /\ did[c][m].outcome = "completed"
      BY <1>2, <3>4
    <3>7. logs[c][k + 1].no > logs[c][k].no
      BY <3>3, <3>6
    <3>8. ~plan.sampled => logs[c][k + 1].no = logs[c][k].no + 1
      <4> SUFFICES ASSUME ~plan.sampled PROVE logs[c][k + 1].no = logs[c][k].no + 1
        OBVIOUS
      <4>1. did[c][k].no = k - 1 /\ did[c][k + 1].no = (k + 1) - 1
        BY <1>1, <1>2, <3>1
      <4>2. QED BY <1>1, <4>1
    <3>9. QED BY <3>3, <3>5, <3>6, <3>7, <3>8 DEF Pgbench!Follows
  <2>5. QED BY <1>1, <2>1, <2>2, <2>3, <2>4 DEF Pgbench!LogsParse
<1>5. Pgbench!LogsMatch
  <2>1. Pgbench!AllOf(logs, {"failed", "skipped", "retried"}) = {}
    <3> SUFFICES ASSUME NEW p \in Pgbench!AllOf(logs, {"failed", "skipped", "retried"}) PROVE FALSE
      OBVIOUS
    <3>1. /\ p[1] \in Clients /\ p[2] \in 1..Len(logs[p[1]])
          /\ logs[p[1]][p[2]].outcome \in {"failed", "skipped", "retried"}
      BY <1>1 DEF Pgbench!AllOf
    <3>2. PICK i \in 1..Len(did[p[1]]) : logs[p[1]][p[2]] = did[p[1]][i]
      BY <1>3, <3>1
    <3>3. did[p[1]][i].outcome = "completed"
      BY <1>2, <3>1
    <3>4. QED BY <3>1, <3>2, <3>3
  <2>2. Pgbench!Count(logs, {"failed", "skipped", "retried"}) = 0
    BY <2>1, PgCardinality, FS_EmptySet DEF Pgbench!Count
  <2>3. ASSUME ~plan.sampled PROVE Pgbench!Count(logs, Pgbench!Good) = Pgbench!Processed /\ Pgbench!RawMeanAgrees
    <3>1. logs = did
      BY <1>1, <2>3
    <3>2. Pgbench!Count(logs, Pgbench!Good) = Pgbench!Processed
      BY <3>1 DEF Pgbench!Processed
    <3> DEFINE E == Pgbench!Elapsed
               P == Pgbench!Processed
               T == Pgbench!Tps
               L == Pgbench!Latency
               C == Cardinality(Clients)
               R == Pgbench!LatencySum(did)
    <3>3. /\ P \in Nat \ {0} /\ T \in Nat \ {0} /\ L \in Nat /\ C \in Nat /\ R \in Nat /\ R <= C * E
          /\ E * (2 * T - 1) <= 20 * P /\ 20 * P < E * (2 * T + 1)
          /\ plan.rate => P * (2 * L - 1) <= 20 * R /\ 20 * R < P * (2 * L + 1)
          /\ ~plan.rate => P * (2 * L - 1) <= 20 * (E * C) /\ 20 * (E * C) < P * (2 * L + 1)
      BY HonestNumbers
    <3>4. E \in Nat
      BY HonestTimes
    <3> HIDE DEF E, P, T, L, C, R
    <3>5. plan.rate => 20 * R <= (2 * L + 1) * P /\ (2 * L - 1) * P <= 20 * R
      <4>1. P * (2 * L - 1) = (2 * L - 1) * P /\ P * (2 * L + 1) = (2 * L + 1) * P
        BY <3>3
      <4>2. QED BY <3>3, <4>1
    <3>6. ~plan.rate => R * (2 * T - 1) <= 20 * C * P /\ R * 20 <= (2 * L + 1) * P
      BY <3>3, <3>4, RowsAgree
    <3>7. 2 * Pgbench!Scale * R = 20 * R /\ 2 * Pgbench!Scale * C * P = 20 * C * P /\ R * 2 * Pgbench!Scale = R * 20
      BY <3>3 DEF Pgbench!Scale
    <3>8. Pgbench!RawMeanAgrees
      <4>1. /\ Pgbench!Count(logs, Pgbench!Good) = P /\ Pgbench!LatencySum(logs) = R
            /\ Pgbench!Cardinality(Clients) = C
        BY <3>1, <3>2, PgCardinality DEF P, R, C
      <4>2. QED BY <3>5, <3>6, <3>7, <4>1 DEF Pgbench!RawMeanAgrees, T, L
    <3>9. QED BY <3>2, <3>8
  <2>4. QED BY <2>2, <2>3 DEF Pgbench!LogsMatch
<1>6. Pgbench!InsideMeasure
  <2> SUFFICES ASSUME NEW c \in Clients, NEW k \in 1..Len(logs[c])
               PROVE  logs[c][k].at >= span.started /\ logs[c][k].at <= span.finished
    <3>1. \A c \in Clients : DOMAIN logs[c] = 1..Len(logs[c])
      BY <1>1
    <3>2. QED BY <1>1, <3>1 DEF Pgbench!InsideMeasure
  <2>1. PICK i \in 1..Len(did[c]) : logs[c][k] = did[c][i]
    BY <1>3
  <2>2. span.started <= did[c][i].at /\ did[c][i].at <= span.to /\ did[c][i].at \in Nat
    BY <1>2 DEF LogRows
  <2>3. span.started \in Nat /\ span.to \in Nat /\ span.finished \in Nat /\ span.to <= span.finished
    BY HonestTimes
  <2>4. QED BY <2>1, <2>2, <2>3
<1>7. QED BY <1>4, <1>5, <1>6

LEMMA HonestIsPassed == HonestIInv => Pgbench!HonestRunPasses
<1> SUFFICES ASSUME HonestIInv, Honest PROVE verdict = "passed"
  BY DEF Pgbench!HonestRunPasses, Honest, Faulty
<1>1. Accepted
  BY HonestSummary, HonestLogs DEF Accepted
<1>2. QED BY <1>1 DEF HonestIInv, Sentenced, Honest

\* What the gates accept is the run: unsampled, the logs a trial passed with hold every
\* transaction of every client in its order; sampled, no row the run did not write and none
\* twice, whatever rows, files or earlier logs were lost or added (addRecord,
\* ValidateTransactionLog, ValidateCompletionWindow).  And no gate refuses an honest run:
\* the phase, the printed rate and mean, and the rows agree within the rounding that the
\* gates allow for (validateMeasureWindow, ValidateLatencyIntegrity,
\* ValidateRawLatencyMean).  For any clients, transactions, faults and ticks.
THEOREM PgbenchRunsAreJudged == Spec => []PgbenchIsJudged
<1> DEFINE I == part = "pgbench" => HonestIInv
<1>1. Init => I
  BY PartStarts, HonestInvInit
<1>2. I /\ [Next]_allVars => I'
  BY PartSteps, HonestInvNext, HonestInvStays
<1>3. I => PgbenchIsJudged
  BY AcceptedLogIsWhole, HonestIsPassed DEF PgbenchIsJudged, HonestIInv
<1>4. QED BY <1>1, <1>2, <1>3, PTL DEF Spec
=============================================================================
