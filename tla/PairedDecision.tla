--------------------------- MODULE PairedDecision ---------------------------
(***************************************************************************)
(* How a counterbalanced A/B run comes to a decision: the host is          *)
(* inspected before and after (internal/benchmarkqualify), the blocks      *)
(* alternate AB and BA, and the complete pairs of blocks are analysed      *)
(* (internal/benchmarkcompare/paired.go, internal/benchmarkab).  The       *)
(* schedule and the evidence of the two series are module BenchmarkAB; a   *)
(* block is here its outcome, its settings and its time.                   *)
(***************************************************************************)
EXTENDS Integers, Sequences, FiniteSets

CONSTANTS DecisionGates,   \* the gates of a complete decision profile
          UnitsPlanned,    \* counterbalanced pairs of blocks
          MinUnits,        \* complete pairs the protocol asks for
          Threshold,       \* the practical threshold, in effect ticks
          Effects,         \* normalised effects of a block, in ticks
          MaxGap,          \* allowed interval of the bookends
          MaxSteps         \* bound: backward steps of the wall clock

VARIABLES pdPc, pdNow, pdBack,     \* the runner, the wall clock, its steps back so far
          pdPolicy,                \* gates of the protocol's policy
          pdSeen,                  \* the artifacts this run inspected and still holds in memory
          pdFiles,                 \* qualification/before.json and after.json
          pdBlocks, pdSpan,        \* blocks executed: [outcome, effect]; their first and last trial time
          pdSettings,              \* what the trials observe of the settings of the two arms
          pdResult, pdSwapped

pdVars == <<pdPc, pdNow, pdBack, pdPolicy, pdSettings, pdSeen, pdFiles, pdBlocks, pdSpan, pdResult, pdSwapped>>
design == <<pdPolicy, pdSettings>>
trials == <<pdBlocks, pdSpan>>

Bookends == {"before", "after"}
NoArtifact == [by |-> "nobody", at |-> 0, class |-> "none", met |-> {}]
NoDecision == [status |-> "none"]
BlocksPlanned == 2 * UnitsPlanned

PairedInit ==
  /\ pdPc = "protocol" /\ pdNow = 1 /\ pdBack = 0
  /\ pdPolicy \in SUBSET DecisionGates
  /\ pdSeen = [b \in Bookends |-> NoArtifact] /\ pdFiles = [b \in Bookends |-> NoArtifact]
  /\ pdSettings \in {"differ", "equal"}
  /\ pdBlocks = <<>> /\ pdSpan = [first |-> 0, last |-> 0] /\ pdResult = NoDecision /\ pdSwapped = FALSE

Passing == pdNow' = pdNow + 1

\* VerifyProtocol wants the complete profile; anything less is refused.
DecisionProfileComplete(policy) == policy = DecisionGates
BuildABProtocol ==
  /\ pdPc = "protocol"
  /\ pdPc' = IF DecisionProfileComplete(pdPolicy) THEN "before" ELSE "refused"
  /\ UNCHANGED <<pdNow, pdBack, design, pdSeen, pdFiles, trials, pdResult, pdSwapped>>

-----------------------------------------------------------------------------
(* benchmarkqualify                                                        *)

\* collectSnapshot and evaluate: a gate is met by what was read; what is
\* unavailable meets no gate.
HostClasses == {"c1", "c2"}
GatesMet == {met \in SUBSET DecisionGates : Cardinality(DecisionGates \ met) <= 1}
Qualified(artifact, policy) == policy # {} /\ policy \subseteq artifact.met

\* The time is taken before the host is looked at.
InspectHost(b) ==
  \E class \in HostClasses, met \in GatesMet :
    /\ b = "before" => class = "c1"
    /\ pdSeen' = [pdSeen EXCEPT ![b] = [by |-> "us", at |-> pdNow, class |-> class, met |-> met]]

\* An artifact written without replacing another one, read back and verified.
WriteBookend(b) ==
  \/ /\ pdFiles[b] = NoArtifact /\ pdFiles' = [pdFiles EXCEPT ![b] = pdSeen'[b]]
     /\ pdPc' = IF b = "before" THEN "blocks" ELSE "judge"
  \/ pdPc' = "error" /\ UNCHANGED pdFiles

RecordBefore ==
  /\ pdPc = "before" /\ InspectHost("before") /\ WriteBookend("before") /\ Passing
  /\ UNCHANGED <<pdBack, design, trials, pdResult, pdSwapped>>
RecordAfter ==
  /\ pdPc = "after" /\ InspectHost("after") /\ WriteBookend("after") /\ Passing
  /\ UNCHANGED <<pdBack, design, trials, pdResult, pdSwapped>>

\* AssessBookends and assessQualification: the same policy, the same stable host
\* class, both qualified, around all trials and not too far apart.
AssessBookends(before, after) ==
  /\ before.class = after.class
  /\ Qualified(before, pdPolicy) /\ Qualified(after, pdPolicy)
  /\ before.at <= after.at
Surrounds(before, after, span) ==
  after.at - before.at <= MaxGap /\ before.at <= span.first /\ span.last <= after.at
AssessWithoutDigests(before, after, span) ==
  [passed |-> AssessBookends(before, after) /\ Surrounds(before, after, span), digests |-> <<>>]
AssessQualification(before, after, span) ==
  [passed |-> AssessBookends(before, after) /\ Surrounds(before, after, span), digests |-> <<before, after>>]

-----------------------------------------------------------------------------
(* The blocks                                                              *)

\* A failed execution ends the schedule; an invalid one stays as it is.
BlockOutcomes == [outcome : {"passed"}, effect : Effects] \cup [outcome : {"invalid", "failed"}, effect : {0}]
\* trialInterval: the recorded times of the first and the last trial.
Extended(span, blocks) ==
  [first |-> IF blocks = <<>> \/ pdNow < span.first THEN pdNow ELSE span.first,
   last |-> IF blocks = <<>> \/ pdNow > span.last THEN pdNow ELSE span.last]
RunBlock ==
  /\ pdPc = "blocks"
  /\ \E block \in BlockOutcomes :
       /\ pdBlocks' = Append(pdBlocks, block)
       /\ pdPc' = IF Len(pdBlocks') = BlocksPlanned \/ block.outcome = "failed" THEN "after" ELSE "blocks"
  /\ pdSpan' = Extended(pdSpan, pdBlocks)
  /\ Passing /\ UNCHANGED <<pdBack, design, pdSeen, pdFiles, pdResult, pdSwapped>>

\* assessEffectiveSettings: only a full population of passed trials is judged.
SettingsStatus(blocks) ==
  IF Len(blocks) # BlocksPlanned \/ \E i \in 1..Len(blocks) : blocks[i].outcome # "passed" THEN "invalid"
  ELSE IF pdSettings = "differ" THEN "verified-different" ELSE pdSettings

\* pairedUnits: block 2u-1 is AB and block 2u is BA; a unit counts when both passed.
Units(blocks) == {u \in 1..UnitsPlanned : 2 * u <= Len(blocks)}
Complete(blocks, u) == blocks[2*u - 1].outcome = "passed" /\ blocks[2*u].outcome = "passed"
Eligible(blocks) == {u \in Units(blocks) : Complete(blocks, u)}

\* The n-th effect in ascending order: the one with n-1 below it.
Below(bag, j, i) == bag[j] < bag[i] \/ (bag[j] = bag[i] /\ j < i)
InOrder(bag, n) ==
  bag[CHOOSE i \in 1..Len(bag) : Cardinality({j \in 1..Len(bag) : Below(bag, j, i)}) = n - 1]
\* The median (type 7) of an even number of effects, doubled to stay an integer.
DoubledMedian(bag) ==
  LET half == Len(bag) \div 2 IN InOrder(bag, half) + InOrder(bag, half + 1)

\* bootstrapPairedCI draws whole units, as many as there are and in any order, which
\* a median forgets.  The seed, which the protocol fixes, decides which draws bound
\* the interval.
Draws(blocks) ==
  LET n == Cardinality(Eligible(blocks))
  IN  {draw \in [1..n -> Eligible(blocks)] : \A k \in 2..n : draw[k-1] <= draw[k]}
ResampleBlocks(blocks, draw) ==
  [i \in 1..(2 * Len(draw)) |->
     LET u == draw[(i + 1) \div 2]
     IN  IF i % 2 = 1 THEN blocks[2*u - 1].effect ELSE blocks[2 * (1 + (u % UnitsPlanned))].effect]
Resample(blocks, draw) ==
  [i \in 1..(2 * Len(draw)) |-> blocks[2 * draw[(i + 1) \div 2] - (i % 2)].effect]

\* DecideInterval over doubled bounds.
DecideInterval(low, high) ==
  IF high < -2 * Threshold THEN "regressed"
  ELSE IF low < -2 * Threshold THEN "inconclusive"
  ELSE IF low > 0 THEN "improved"
  ELSE IF high <= 2 * Threshold THEN "equivalent-within-threshold" ELSE "no-regression"

\* AnalyzePaired
Analysis(blocks, draws) ==
  LET medians == {DoubledMedian(Resample(blocks, draw)) : draw \in draws}
  IN  IF Cardinality(Eligible(blocks)) < MinUnits THEN "inconclusive"
      ELSE DecideInterval(CHOOSE m \in medians : \A o \in medians : m <= o,
                          CHOOSE m \in medians : \A o \in medians : m >= o)

\* deriveTerminal: an incomplete population is invalid, and any gate that is not
\* met leaves no decision.
Terminal(blocks, assessment, settings, analysis) ==
  IF settings = "invalid" THEN "invalid"
  ELSE IF ~assessment.passed \/ settings # "verified-different" THEN "inconclusive" ELSE analysis

\* buildResult: the bookends are judged as they were inspected, and referenced
\* as they lie on disk.
Derived(before, after, blocks, draws) ==
  LET assessment == AssessQualification(before, after, pdSpan)
      settings == SettingsStatus(blocks)
      analysis == Analysis(blocks, draws)
  IN  [status |-> Terminal(blocks, assessment, settings, analysis), draws |-> draws,
       assessment |-> assessment, settings |-> settings, analysis |-> analysis]
BuildResult ==
  /\ pdPc = "judge"
  /\ \E low, high \in IF Cardinality(Eligible(pdBlocks)) < MinUnits THEN {<<>>} ELSE Draws(pdBlocks) :
       pdResult' = [derived |-> Derived(pdSeen["before"], pdSeen["after"], pdBlocks, {low, high}),
                    refs |-> pdFiles]
  /\ pdPc' = "verify"
  /\ UNCHANGED <<pdNow, pdBack, design, pdSeen, pdFiles, trials, pdSwapped>>

\* Verify reads the bookends from disk and derives everything once more.
ABDecisionVerifies ==
  /\ pdResult # NoDecision /\ pdResult.refs = pdFiles
  /\ pdResult.derived = Derived(pdFiles["before"], pdFiles["after"], pdBlocks, pdResult.derived.draws)
VerifyDecision ==
  /\ pdPc = "verify"
  /\ pdPc' = IF ABDecisionVerifies /\ pdResult.derived.status \notin {"invalid", "inconclusive", "regressed"}
             THEN "passed" ELSE "not passed"
  /\ UNCHANGED <<pdNow, pdBack, design, pdSeen, pdFiles, trials, pdResult, pdSwapped>>

-----------------------------------------------------------------------------
(* The surroundings                                                        *)

\* The wall clock is set back, or the host sleeps, between a bookend and the trials.
ClockStep ==
  /\ pdPc = "after" \/ (pdPc = "blocks" /\ pdBlocks = <<>>)
  /\ pdBack < MaxSteps /\ pdBack' = pdBack + 1
  /\ pdNow' \in {0, pdNow + MaxGap}
  /\ UNCHANGED <<pdPc, design, pdSeen, pdFiles, trials, pdResult, pdSwapped>>

\* A bookend is replaced by the one of another run, on a host that qualified.
BookendReplaced ==
  /\ ~pdSwapped /\ pdSwapped' = TRUE /\ pdPc \in {"judge", "verify"}
  /\ \E b \in Bookends :
       pdFiles' = [pdFiles EXCEPT ![b] = [by |-> "other", at |-> pdSeen[b].at, class |-> "c1", met |-> DecisionGates]]
  /\ UNCHANGED <<pdPc, pdNow, pdBack, design, pdSeen, trials, pdResult>>

PairedStep == \/ BuildABProtocol \/ RecordBefore \/ RunBlock \/ RecordAfter \/ BuildResult \/ VerifyDecision
PairedNext == PairedStep \/ ClockStep \/ BookendReplaced
PairedSpec == PairedInit /\ [][PairedNext]_pdVars
-----------------------------------------------------------------------------
Decided == /\ ABDecisionVerifies
           /\ pdResult.derived.status \notin {"invalid", "inconclusive"}

\* A verified decision was taken on a host that this run itself saw qualified, in one
\* class, before the first and after the last trial (AssessBookends, buildResult):
\* a bookend borrowed from another run never carries one.
DecisionIsBracketed ==
  Decided => /\ \A b \in Bookends : pdFiles[b] = pdSeen[b] /\ pdSeen[b].met = DecisionGates
             /\ pdSeen["before"].class = pdSeen["after"].class
             /\ Len(pdBlocks) = BlocksPlanned

\* A decision always has one complete pair of blocks which on its own, with the order
\* effect averaged out, shows what was decided (AnalyzePaired resamples whole
\* units): blocks of different pairs never add up to one.
DecisionIsPaired ==
  Decided =>
    LET pairs == {u \in 1..UnitsPlanned : Complete(pdBlocks, u)}
        total(u) == pdBlocks[2*u - 1].effect + pdBlocks[2*u].effect
        decision == pdResult.derived.status
    IN  /\ decision = "regressed" => \E u \in pairs : total(u) < -2 * Threshold
        /\ decision # "regressed" => \E u \in pairs : total(u) >= -2 * Threshold
        /\ decision = "improved" => \E u \in pairs : total(u) > 0
        /\ decision = "equivalent-within-threshold" => \E u \in pairs : total(u) <= 2 * Threshold
=============================================================================
