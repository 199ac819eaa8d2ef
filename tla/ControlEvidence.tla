-------------------------- MODULE ControlEvidence --------------------------
(***************************************************************************)
(* The four controls of a protocol-v2 trial (internal/benchmarkcontrol):   *)
(* the shell publishes one raw observation each during its phase, the EXIT *)
(* trap of the run derives a typed file from every raw one                 *)
(* (internal/benchmarkrun controls.go), the series runner derives them     *)
(* again, and the verifier reads typed and raw together                    *)
(* (internal/benchmarkartifact controls.go).  All eight files lie in one   *)
(* directory that others can write to.                                     *)
(***************************************************************************)
EXTENDS Naturals, Sequences, FiniteSets

CONSTANT MaxSwaps   \* bound on the files others replace

\* The order in which the shell observes, and in which the producer writes.
Observed == <<"resource", "reset", "cache", "overhead">>
Written == <<"cache", "reset", "overhead", "resource">>
Controls == {Observed[k] : k \in DOMAIN Observed}
\* The rows of these two carry timestamps, which must lie inside their window.
Timed == {"reset", "overhead"}
\* The overhead's window runs across phases and asks none of them to have passed.
Phased == Controls \ {"overhead"}

VARIABLES ctPc, ctNext,     \* place; position in Observed, Written or Controls
          passedPhases,     \* controls whose phase passed
          raw, typed,       \* the directory: raw[k], typed[k]
          derived,          \* what the producer holds in memory
          refs,             \* what the trial of the series record keeps of the typed files
          ctStatus,         \* "passed" or "invalid"
          swaps, early      \* files replaced; raw ones replaced before the producer read them

ctVars == <<ctPc, ctNext, passedPhases, raw, typed, derived, refs, ctStatus, swaps, early>>

\* What a raw file shows: what the protocol asked for, something short of it (a
\* table half resident, a reset that moved no timestamp, a sampler over its duty
\* cycle, another memory limit), or no more than a header and part of its rows.
Raw(trial, shows) == [of |-> trial, shows |-> shows]
None == Raw("none", "nothing")
NoTyped == [raw |-> None, trial |-> "none", met |-> FALSE]
\* Parse..Source: the exact header and rows.
Parses(source) == source.shows \in {"met", "short"}
\* derive..: the status the observations earn.
Met(source) == source.shows = "met"
\* New..FromSource: the source's digest, the binding with its window (one per
\* trial), and the status.
Typed(source, trial) == [raw |-> source, trial |-> trial, met |-> Met(source)]

ControlInit ==
  /\ ctPc = "observe" /\ ctNext = 1 /\ passedPhases = {}
  /\ raw = [k \in Controls |-> None] /\ typed = [k \in Controls |-> NoTyped]
  /\ derived = [k \in Controls |-> NoTyped] /\ refs = derived
  /\ ctStatus = "invalid" /\ swaps = 0 /\ early = {}

\* benchmark_control_capture_*: noclobber or a hard link, so that a file already
\* there fails the phase; an observation that fails after its header fails it too,
\* and the shell goes straight to its trap.
Observe ==
  /\ ctPc = "observe"
  /\ LET k == Observed[ctNext] IN
     IF raw[k] # None THEN ctPc' = "derive" /\ ctNext' = 1 /\ UNCHANGED <<raw, passedPhases>>
     ELSE \E shows \in {"met", "short", "torn"}, ok \in BOOLEAN :
       /\ ok => shows # "torn"
       /\ raw' = [raw EXCEPT ![k] = Raw("own", shows)]
       /\ passedPhases' = IF ok THEN passedPhases \cup {k} ELSE passedPhases
       /\ ctPc' = IF ok /\ ctNext < Len(Observed) THEN "observe" ELSE "derive"
       /\ ctNext' = IF ctPc' = "observe" THEN ctNext + 1 ELSE 1
  /\ UNCHANGED <<typed, derived, refs, ctStatus, swaps, early>>

-----------------------------------------------------------------------------
(* deriveControlsFromRaw, MaterializeControlsV2 and LoadControlsV2.        *)

WindowHolds(k, source) == k \in Timed => source.of = "own"
Derivable == \A k \in Controls : /\ Parses(raw[k]) /\ WindowHolds(k, raw[k])
                                 /\ k \in Phased => k \in passedPhases
Derivation == [k \in Controls |-> Typed(raw[k], "own")]
\* verifySourceBytes: the source on disk is the one the typed file was derived
\* from.  SourceNamed only asks that one is there.
SourceNamed(k) == raw[k] # None
SourceHolds(k) == raw[k] = typed[k].raw
SelfConsistent(k) == /\ typed[k] # NoTyped /\ Parses(typed[k].raw)
                     /\ typed[k].met = Met(typed[k].raw) /\ WindowHolds(k, typed[k].raw)
FileVerifies(k) == SelfConsistent(k) /\ SourceHolds(k)

DeriveControls ==
  /\ ctPc = "derive"
  /\ IF Derivable THEN ctPc' = "write" /\ ctNext' = 1 /\ derived' = Derivation
     ELSE ctPc' = "invalid" /\ UNCHANGED <<ctNext, derived>>
  /\ UNCHANGED <<passedPhases, raw, typed, refs, ctStatus, swaps, early>>
\* writeBytesNoReplace, one file after the other.
WriteControl ==
  /\ ctPc = "write"
  /\ LET k == Written[ctNext] IN
     IF typed[k] # NoTyped THEN ctPc' = "invalid" /\ UNCHANGED <<ctNext, typed>>
     ELSE /\ typed' = [typed EXCEPT ![k] = derived[k]]
          /\ ctPc' = IF ctNext < Len(Written) THEN "write" ELSE "reopen"
          /\ ctNext' = IF ctNext < Len(Written) THEN ctNext + 1 ELSE 1
  /\ UNCHANGED <<passedPhases, raw, derived, refs, ctStatus, swaps, early>>
\* The producer dies between two files, and is run again: it derives anew and
\* meets its own first file.
ProducerDies ==
  /\ ctPc = "write" /\ ctNext > 1 /\ ctPc' = "derive"
  /\ UNCHANGED <<ctNext, passedPhases, raw, typed, derived, refs, ctStatus, swaps, early>>

\* loadDerivedControls: every typed file against its source and against the
\* derivation, then whether all of them are satisfied.
Reopened == \A k \in Controls : FileVerifies(k) /\ typed[k] = derived[k]
\* The four checks.
Satisfied == \A k \in Controls : derived[k].met
ReopenControls ==
  /\ ctPc = "reopen" /\ ctPc' = IF Reopened /\ Satisfied THEN "load" ELSE "invalid"
  /\ UNCHANGED <<ctNext, passedPhases, raw, typed, derived, refs, ctStatus, swaps, early>>
\* The runner, after the run has its verdict: LoadControlsV2 writes nothing.
LoadControls ==
  /\ ctPc = "load"
  /\ IF Derivable THEN ctPc' = "keep" /\ derived' = Derivation
     ELSE ctPc' = "invalid" /\ UNCHANGED derived
  /\ UNCHANGED <<ctNext, passedPhases, raw, typed, refs, ctStatus, swaps, early>>
KeepControls ==
  /\ ctPc = "keep"
  /\ IF Reopened /\ Satisfied THEN ctPc' = "kept" /\ refs' = typed /\ ctStatus' = "passed"
     ELSE ctPc' = "invalid" /\ UNCHANGED <<refs, ctStatus>>
  /\ UNCHANGED <<ctNext, passedPhases, raw, typed, derived, swaps, early>>

-----------------------------------------------------------------------------
\* Someone replaces a file by another trial's, whose control was satisfied.
SwapRaw ==
  /\ swaps < MaxSwaps /\ swaps' = swaps + 1
  /\ \E k \in Controls : /\ raw' = [raw EXCEPT ![k] = Raw("other", "met")]
                         /\ early' = IF ctPc \in {"observe", "derive"} THEN early \cup {k} ELSE early
  /\ UNCHANGED <<ctPc, ctNext, passedPhases, typed, derived, refs, ctStatus>>
SwapTyped ==
  /\ swaps < MaxSwaps /\ swaps' = swaps + 1
  /\ \E k \in Controls : typed' = [typed EXCEPT ![k] = Typed(Raw("other", "met"), "other")]
  /\ UNCHANGED <<ctPc, ctNext, passedPhases, raw, derived, refs, ctStatus, early>>

ControlNext ==
  \/ Observe \/ DeriveControls \/ WriteControl \/ ProducerDies \/ ReopenControls
  \/ LoadControls \/ KeepControls \/ SwapRaw \/ SwapTyped
ControlSpec == ControlInit /\ [][ControlNext]_ctVars

-----------------------------------------------------------------------------
\* checkBenchmarkControls: the kept reference, the source, the trial's own binding
\* and window, and a satisfied control unless the trial is invalid.
ControlsVerify == \A k \in Controls :
  /\ typed[k] = refs[k] /\ FileVerifies(k) /\ typed[k].trial = "own"
  /\ typed[k].met \/ ctStatus = "invalid"

\* A passed trial whose controls verify stands on this trial's own, satisfied
\* observations, whatever was replaced between the shell, the producer, the runner
\* and the verifier; only an untimed source (cache, resource) replaced before the
\* producer first read it goes unnoticed, for nothing in it names its trial.
VerifiedControlsAreOwn ==
  ctStatus = "passed" /\ ControlsVerify =>
    \A k \in Controls : Met(raw[k]) /\ (raw[k].of = "own" \/ k \in early \ Timed)
\* Controls nobody touched verify once the trial passed, also when a producer died
\* half way and was run again (writeBytesNoReplace, loadDerivedControls).
WrittenControlsVerify == ctStatus = "passed" /\ swaps = 0 => ControlsVerify
=============================================================================
