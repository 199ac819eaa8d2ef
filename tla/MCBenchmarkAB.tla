--------------------------- MODULE MCBenchmarkAB ---------------------------
(* Instances of BenchmarkAB for TLC. *)
EXTENDS BenchmarkAB, TLC

CONSTANTS e1, e2, engine

MCArms == Names
Mode(c, n, t) == [caller |-> c, native |-> n, toolchain |-> t]
MCModes == {Mode("run", TRUE, FALSE), Mode("ab", TRUE, TRUE)}
MCToolchain == {Mode("ab", TRUE, TRUE)}
-----------------------------------------------------------------------------
\* What a series claims of its trials agrees with their records, and with the three
\* counters its verifier derives again (benchmarkrun.ExecuteTrial, EvaluateSeries).
SeriesIsHonest == PassedSeriesIsEarned /\ TallyIsHonest

\* A passed A/B result rests on the full schedule, which neither arm left ahead of the
\* other (benchmarkab.Run).
ABIsEarned == PassedABIsEarned /\ ArmsStayInStep

\* The arms take turns on the machine, no result changes once it is written, and the
\* caller returns (benchmarkab.Run, benchmarkrun.Run).
RunsTakeTurns == OneRuntimeAtATime /\ ResultIsFinal /\ Returns
=============================================================================
