------------------------ MODULE ExperimentRunProofs ------------------------
(***************************************************************************)
(* Theorems about module ExperimentRun, for any number of stray signals:   *)
(* the verdict on disk, the journal and the result of a run agree.  The    *)
(* first part is about journals alone: what one more row, and the rows a   *)
(* trap adds, make of a journal that is in order.                          *)
(***************************************************************************)
EXTENDS ExperimentRun, SequenceTheorems, TLAPS

\* One of the first n rows failed.
FailedBy(j, n) == \E k \in 1..n : j[k].status = "failed"

\* Row i is what the Go reader expects after the rows before it.
Fits(j, i) ==
  /\ j[i].sequence = i
  /\ i = Cleanup => j[i].status # "skipped"
  /\ i # Cleanup /\ FailedBy(j, i - 1) => j[i].status = "skipped"
  /\ i \in Required /\ ~FailedBy(j, i - 1) => j[i].status # "skipped"

\* The beginning of a journal that the Go reader accepts.
Orderly(j) == \A i \in 1..Len(j) : Fits(j, i)

Journals == Seq(Rows)

LEMMA RowFields == \A n, s : Row(n, s).sequence = n /\ Row(n, s).status = s
BY DEF Row

LEMMA FailureByIndex ==
  ASSUME NEW j \in Journals
  PROVE  /\ Len(j) \in Nat
         /\ \A i \in 1..Len(j) : j[i] \in Rows
         /\ HasFailure(j) <=> FailedBy(j, Len(j))
BY LenProperties, ElementOfSeq DEF HasFailure, FailedBy, Journals

\* An orderly journal of eleven rows is accepted.
LEMMA OrderlyAccepted ==
  ASSUME NEW j \in Journals, Orderly(j), Len(j) = 11
  PROVE  Accepted(j)
<1>1. ASSUME NEW i \in 1..11
      PROVE  HasFailure(SubSeq(j, 1, i - 1)) <=> FailedBy(j, i - 1)
  <2> DEFINE t == SubSeq(j, 1, i - 1)
  <2>1. \A k \in 1..(i - 1) : j[k] \in Rows
    <3>1. \A k \in 1..11 : j[k] \in Rows
      BY FailureByIndex
    <3>2. \A k \in 1..(i - 1) : k \in 1..11
      BY <1>1
    <3>3. QED BY <3>1, <3>2
  <2>2. /\ t \in Journals
        /\ Len(t) = i - 1
        /\ \A k \in 1..(i - 1) : t[k] = j[k]
    <3>1. /\ t \in Seq(Rows)
          /\ Len(t) = IF 1 <= i - 1 THEN (i - 1) - 1 + 1 ELSE 0
          /\ \A k \in 1..((i - 1) - 1 + 1) : t[k] = j[1 + k - 1]
      BY <1>1, <2>1, SubSeqProperties
    <3>2. QED BY <1>1, <3>1 DEF Journals
  <2> HIDE DEF t
  <2>3. HasFailure(t) <=> FailedBy(t, i - 1)
    BY <1>1, <2>2, FailureByIndex
  <2>4. QED BY <2>2, <2>3 DEF FailedBy, t
<1>2. QED BY <1>1 DEF Accepted, Orderly, Fits, Cleanup, Required

\* The number of the last row of an orderly journal is its length.
LEMMA OrderlyLast ==
  ASSUME NEW j \in Journals, Orderly(j)
  PROVE  LastSequence(j) = Len(j)
BY FailureByIndex, EmptySeq DEF LastSequence, Orderly, Fits, Journals

\* One more row, with a status that fits.
LEMMA RecordOrderly ==
  ASSUME NEW j \in Journals, Orderly(j), NEW n \in Phases, n = Len(j) + 1,
         NEW s \in {"passed", "failed", "skipped"},
         n = Cleanup => s # "skipped",
         n # Cleanup /\ HasFailure(j) => s = "skipped",
         n \in Required /\ ~HasFailure(j) => s # "skipped"
  PROVE  Orderly(Append(j, Row(n, s)))
<1> DEFINE t == Append(j, Row(n, s))
<1>1. /\ Len(t) = n
      /\ \A i \in 1..Len(j) : t[i] = j[i]
      /\ t[n] = Row(n, s)
  BY FailureByIndex DEF Journals
<1> HIDE DEF t
<1>2. \A i \in 1..n : FailedBy(t, i - 1) <=> FailedBy(j, i - 1)
  BY <1>1, FailureByIndex DEF FailedBy
<1>3. \A i \in 1..Len(j) : Fits(t, i)
  BY <1>1, <1>2, FailureByIndex DEF Orderly, Fits
<1>4. Fits(t, n)
  BY <1>1, <1>2, FailureByIndex DEF Fits, Row
<1>5. QED BY <1>1, <1>3, <1>4, FailureByIndex DEF Orderly, t

\* Appending a row of any journal: its type, length and failures.
LEMMA RecordProperties ==
  ASSUME NEW j \in Journals, NEW n \in Phases,
         NEW s \in {"passed", "failed", "skipped"}
  PROVE  /\ Append(j, Row(n, s)) \in Journals
         /\ Len(Append(j, Row(n, s))) = Len(j) + 1
         /\ LastSequence(Append(j, Row(n, s))) = n
         /\ HasFailure(Append(j, Row(n, s))) <=> HasFailure(j) \/ s = "failed"
<1> DEFINE t == Append(j, Row(n, s))
<1>1. Row(n, s) \in Rows
  BY DEF Row, Rows
<1>2. /\ t \in Journals /\ t # <<>>
      /\ Len(t) = Len(j) + 1
      /\ \A i \in 1..Len(j) : t[i] = j[i]
      /\ t[Len(j) + 1] = Row(n, s)
  BY <1>1, FailureByIndex DEF Journals
<1> HIDE DEF t
<1>3. LastSequence(t) = n
  BY <1>2 DEF LastSequence, Row
<1>4. HasFailure(t) <=> HasFailure(j) \/ s = "failed"
  BY <1>2, FailureByIndex DEF FailedBy, Row
<1>5. QED BY <1>2, <1>3, <1>4 DEF t

\* Rows a..b: as many as there are, each with its own number.
LEMMA ClosingProperties ==
  ASSUME NEW a \in 1..12, NEW b \in 0..10,
         NEW s \in {"passed", "failed", "skipped"}
  PROVE  /\ Closing(a, b, s) \in Journals
         /\ Len(Closing(a, b, s)) = IF a <= b THEN b - a + 1 ELSE 0
         /\ \A i \in 1..(b - a + 1) :
              Closing(a, b, s)[i] = Row(a + i - 1, IF i = 1 THEN s ELSE "skipped")
<1> DEFINE c == Closing(a, b, s)
           n == IF a <= b THEN b - a + 1 ELSE 0
<1>1. n \in Nat /\ 1..(b - a + 1) = 1..n
  OBVIOUS
<1>2. \A i \in 1..n : Row(a + i - 1, IF i = 1 THEN s ELSE "skipped") \in Rows
  BY <1>1 DEF Row, Rows, Phases
<1>3. c = [i \in 1..n |-> Row(a + i - 1, IF i = 1 THEN s ELSE "skipped")]
  BY <1>1 DEF Closing
<1>4. c \in [1..n -> Rows]
  BY <1>2, <1>3, ZenonT(30)
<1> HIDE DEF n, c
<1>5. c \in Seq(Rows)
  BY <1>1, <1>4, SeqDef
<1>6. Len(c) = n
  <2>1. Len(c) \in Nat /\ 1..Len(c) = 1..n
    BY <1>4, <1>5, LenProperties
  <2>2. QED BY <1>1, <2>1
<1>7. QED BY <1>1, <1>3, <1>5, <1>6 DEF c, n, Journals

Closed(j, a, b, s) == j \o Closing(a, b, s)

\* Closing rows after any journal.
LEMMA ClosedRows ==
  ASSUME NEW j \in Journals, NEW a \in 1..12, NEW b \in 0..10,
         NEW s \in {"passed", "failed", "skipped"}
  PROVE  /\ Closed(j, a, b, s) \in Journals
         /\ Len(Closed(j, a, b, s)) = Len(j) + (IF a <= b THEN b - a + 1 ELSE 0)
         /\ \A i \in 1..Len(j) : Closed(j, a, b, s)[i] = j[i]
         /\ \A i \in (Len(j) + 1)..Len(Closed(j, a, b, s)) :
              Closed(j, a, b, s)[i] =
                Row(a + (i - Len(j)) - 1, IF i = Len(j) + 1 THEN s ELSE "skipped")
<1> DEFINE c == Closing(a, b, s)
           t == Closed(j, a, b, s)
           n == IF a <= b THEN b - a + 1 ELSE 0
<1>1. /\ n \in Nat /\ Len(j) \in Nat
      /\ c \in Journals /\ Len(c) = n
      /\ \A i \in 1..n : c[i] = Row(a + i - 1, IF i = 1 THEN s ELSE "skipped")
  <2>1. n \in Nat /\ 1..(b - a + 1) = 1..n
    OBVIOUS
  <2>2. c \in Journals /\ Len(c) = n
    BY ClosingProperties, ZenonT(30)
  <2>3. \A i \in 1..(b - a + 1) : c[i] = Row(a + i - 1, IF i = 1 THEN s ELSE "skipped")
    BY ClosingProperties, ZenonT(30)
  <2> HIDE DEF c, n
  <2>4. QED BY <2>1, <2>2, <2>3, FailureByIndex
<1> HIDE DEF c, n
<1>2. /\ t \in Journals
      /\ Len(t) = Len(j) + n
      /\ \A i \in 1..(Len(j) + n) : t[i] = IF i <= Len(j) THEN j[i] ELSE c[i - Len(j)]
  BY <1>1, ConcatProperties DEF Journals, c, Closed
<1> HIDE DEF t
<1>3. \A i \in 1..Len(j) : t[i] = j[i]
  BY <1>1, <1>2
<1>4. \A i \in (Len(j) + 1)..(Len(j) + n) :
        t[i] = Row(a + (i - Len(j)) - 1, IF i = Len(j) + 1 THEN s ELSE "skipped")
  <2> TAKE i \in (Len(j) + 1)..(Len(j) + n)
  <2>1. t[i] = c[i - Len(j)] /\ i - Len(j) \in 1..n
    BY <1>1, <1>2
  <2>2. c[i - Len(j)] = Row(a + (i - Len(j)) - 1, IF i - Len(j) = 1 THEN s ELSE "skipped")
    BY <1>1, <2>1
  <2>3. QED BY <1>1, <2>1, <2>2
<1>5. QED BY <1>1, <1>2, <1>3, <1>4 DEF n, t

\* What they make of its failures and of its last number.
LEMMA ClosedSummary ==
  ASSUME NEW j \in Journals, NEW a \in 1..12, NEW b \in 0..10,
         NEW s \in {"passed", "failed", "skipped"}
  PROVE  /\ HasFailure(Closed(j, a, b, s)) <=> HasFailure(j) \/ (a <= b /\ s = "failed")
         /\ LastSequence(Closed(j, a, b, s)) = IF a <= b THEN b ELSE LastSequence(j)
<1> DEFINE t == Closed(j, a, b, s)
           n == IF a <= b THEN b - a + 1 ELSE 0
<1>1. n \in Nat /\ Len(j) \in Nat
  BY FailureByIndex
<1>2. t \in Journals /\ Len(t) = Len(j) + n
  BY ClosedRows
<1>3. \A i \in 1..Len(j) : t[i] = j[i]
  BY ClosedRows
<1>4. \A i \in (Len(j) + 1)..(Len(j) + n) :
        t[i] = Row(a + (i - Len(j)) - 1, IF i = Len(j) + 1 THEN s ELSE "skipped")
  <2>1. \A i \in (Len(j) + 1)..Len(t) :
          t[i] = Row(a + (i - Len(j)) - 1, IF i = Len(j) + 1 THEN s ELSE "skipped")
    BY ClosedRows
  <2> HIDE DEF t, n
  <2>2. QED BY <1>2, <2>1
<1> HIDE DEF t, n
<1>5. HasFailure(t) <=> FailedBy(j, Len(j)) \/ (n > 0 /\ s = "failed")
  <2>1. HasFailure(t) <=> FailedBy(t, Len(j) + n)
    BY <1>2, FailureByIndex
  <2>2. n > 0 => t[Len(j) + 1].status = s
    <3>1. n > 0 => \E m : t[Len(j) + 1] = Row(m, s)
      BY <1>1, <1>4
    <3>2. QED BY <3>1, RowFields
  <2>3. \A i \in (Len(j) + 2)..(Len(j) + n) : t[i].status = "skipped"
    <3> TAKE i \in (Len(j) + 2)..(Len(j) + n)
    <3>1. i \in (Len(j) + 1)..(Len(j) + n) /\ i # Len(j) + 1
      BY <1>1
    <3>2. \E m : t[i] = Row(m, "skipped")
      BY <1>4, <3>1
    <3>3. QED BY <3>2, RowFields
  <2>4. ASSUME NEW k \in 1..(Len(j) + n), t[k].status = "failed"
        PROVE  FailedBy(j, Len(j)) \/ (n > 0 /\ s = "failed")
    <3>1. CASE k \in 1..Len(j)
      BY <1>3, <2>4, <3>1 DEF FailedBy
    <3>2. CASE k = Len(j) + 1
      BY <1>1, <2>2, <2>4, <3>2
    <3>3. CASE k \in (Len(j) + 2)..(Len(j) + n)
      BY <2>3, <2>4, <3>3
    <3>4. QED BY <1>1, <2>4, <3>1, <3>2, <3>3
  <2>5. FailedBy(j, Len(j)) => FailedBy(t, Len(j) + n)
    BY <1>1, <1>3 DEF FailedBy
  <2>6. n > 0 /\ s = "failed" => FailedBy(t, Len(j) + n)
    <3>1. n > 0 => Len(j) + 1 \in 1..(Len(j) + n)
      BY <1>1
    <3>2. QED BY <2>2, <3>1 DEF FailedBy
  <2>7. QED BY <2>1, <2>4, <2>5, <2>6 DEF FailedBy
<1>6. LastSequence(t) = IF a <= b THEN b ELSE LastSequence(j)
  <2>1. CASE a <= b
    <3>1. t # <<>> /\ n = b - a + 1 /\ n > 0
      BY <1>1, <1>2, <2>1, EmptySeq DEF n, Journals
    <3>2. \E v : t[Len(j) + n] = Row(b, v)
      <4>1. Len(j) + n \in (Len(j) + 1)..(Len(j) + n)
        BY <1>1, <3>1
      <4>2. \E v : t[Len(j) + n] = Row(a + ((Len(j) + n) - Len(j)) - 1, v)
        BY <1>4, <4>1
      <4>3. a + ((Len(j) + n) - Len(j)) - 1 = b
        BY <1>1, <3>1
      <4>4. QED BY <4>2, <4>3
    <3>3. QED BY <1>2, <2>1, <3>1, <3>2, RowFields DEF LastSequence
  <2>2. CASE ~(a <= b)
    <3>1. Closing(a, b, s) = <<>>
      <4>1. Closing(a, b, s) \in Journals
        BY ClosingProperties
      <4>2. Len(Closing(a, b, s)) = 0
        BY <2>2, ClosingProperties, SMTT(30)
      <4>3. QED BY <4>1, <4>2, EmptySeq DEF Journals
    <3>2. t = j
      BY <3>1, ConcatEmptySeq DEF t, Closed, Journals
    <3>3. QED BY <2>2, <3>2
  <2>3. QED BY <2>1, <2>2
<1>7. QED BY <1>1, <1>5, <1>6, FailureByIndex DEF n, t

\* Closing rows that continue an orderly journal.
LEMMA CloseOrderly ==
  ASSUME NEW j \in Journals, NEW a \in 1..12, NEW b \in 0..10,
         NEW s \in {"passed", "failed", "skipped"}
  PROVE  /\ Orderly(j) /\ a = Len(j) + 1 /\ a <= b + 1
         /\ s = IF HasFailure(j) THEN "skipped" ELSE "failed"
         => Orderly(Closed(j, a, b, s)) /\ Len(Closed(j, a, b, s)) = b
<1> DEFINE t == Closed(j, a, b, s)
           n == IF a <= b THEN b - a + 1 ELSE 0
<1>a. t \in Journals
  BY ClosedRows
<1>b. Len(t) = Len(j) + n
  BY ClosedRows
<1>c. \A i \in 1..Len(j) : t[i] = j[i]
  BY ClosedRows
<1>d. \A i \in (Len(j) + 1)..Len(t) :
        t[i] = Row(a + (i - Len(j)) - 1, IF i = Len(j) + 1 THEN s ELSE "skipped")
  BY ClosedRows
<1> HIDE DEF t
<1> SUFFICES ASSUME Orderly(j), a = Len(j) + 1, a <= b + 1,
                    s = IF HasFailure(j) THEN "skipped" ELSE "failed"
             PROVE  Orderly(t) /\ Len(t) = b
  BY DEF t
<1>0. Len(j) \in Nat
  BY FailureByIndex
<1>1. /\ Len(t) = b
      /\ \A i \in (Len(j) + 1)..b :
           t[i] = Row(i, IF i = Len(j) + 1 THEN s ELSE "skipped")
  <2>1. Len(t) = b
    BY <1>0, <1>b
  <2>2. \A i \in (Len(j) + 1)..b : a + (i - Len(j)) - 1 = i
    BY <1>0
  <2>3. QED BY <1>d, <2>1, <2>2
<1>2. \A i \in 1..(Len(j) + 1) : FailedBy(t, i - 1) <=> FailedBy(j, i - 1)
  BY <1>0, <1>1, <1>a, <1>c DEF FailedBy
<1>3. \A i \in 1..Len(j) : Fits(t, i)
  BY <1>0, <1>1, <1>a, <1>c, <1>2 DEF Orderly, Fits
<1>4. Len(j) < b => Fits(t, Len(j) + 1)
  <2>1. FailedBy(t, Len(j)) <=> HasFailure(j)
    BY <1>0, <1>1, <1>a, <1>c, FailureByIndex DEF FailedBy
  <2>2. Len(j) < b => /\ t[Len(j) + 1] = Row(Len(j) + 1, s)
                      /\ Len(j) + 1 # Cleanup
    BY <1>0, <1>1, <1>a, <1>c DEF Cleanup
  <2>3. QED BY <1>0, <2>1, <2>2, RowFields DEF Fits
<1>5. \A i \in (Len(j) + 2)..b : Fits(t, i)
  <2> TAKE i \in (Len(j) + 2)..b
  <2>1. FailedBy(t, i - 1)
    <3>1. CASE HasFailure(j)
      BY <1>0, <1>1, <1>a, <1>c, <3>1, FailureByIndex DEF FailedBy
    <3>2. CASE ~HasFailure(j)
      <4>1. t[Len(j) + 1] = Row(Len(j) + 1, "failed") /\ Len(j) + 1 \in 1..(i - 1)
        BY <1>0, <1>1, <1>a, <1>c, <3>2
      <4>2. QED BY <4>1, RowFields DEF FailedBy
    <3>3. QED BY <3>1, <3>2
  <2>2. t[i] = Row(i, "skipped") /\ i # Cleanup
    BY <1>0, <1>1, <1>a, <1>c DEF Cleanup
  <2>3. QED BY <2>1, <2>2, RowFields DEF Fits
<1>6. QED BY <1>0, <1>1, <1>a, <1>c, <1>3, <1>4, <1>5 DEF Orderly

-----------------------------------------------------------------------------
(* The inductive invariant                                                 *)

Inside == Body \cup {"workload.runs"}
Early == {"reserve", "manifest", "load", "prepare", "stabilize", "workload",
          "workload.runs"}
Passing == {"cleanup", "mark", "controls", "verdict", "flag", "verify", "end"}
Cleared == {"verdict", "flag", "verify", "end"}

Types ==
  /\ mode \in {"benchmark", "ordinary"}
  /\ pc \in Inside \cup Trap \cup Over
  /\ wl \in {0} \cup PreWarmup..Measure
  /\ pc # "dead" => (wl # 0 <=> pc = "workload.runs")
  /\ journal \in Journals
  /\ bg \in BOOLEAN /\ workload \in BOOLEAN /\ assert \in BOOLEAN /\ scan \in BOOLEAN
  /\ code \in BOOLEAN /\ owned \in BOOLEAN /\ written \in BOOLEAN
  /\ cleaned \in BOOLEAN /\ terminal \in BOOLEAN /\ rowless \in BOOLEAN
  /\ sig \in BOOLEAN /\ strays \in Nat
  /\ manifest \in {"none", "minimal", "full"}
  /\ verdict \in {"none", "passed", "failed"}
  /\ go \in {"waiting", "stopping", "done"} /\ result \in {"none", "passed", "failed"}

\* The number of rows the shell and its workload child have got to.
Length ==
  /\ pc \in {"reserve", "manifest", "load"} => Len(journal) = 0
  /\ pc = "prepare" => Len(journal) <= 1
  /\ pc = "stabilize" => Len(journal) <= 2
  /\ pc = "workload" => Len(journal) <= 3
  /\ pc = "workload.runs" => Len(journal) <= wl - 1
  /\ pc = "cooldown" => Len(journal) <= 7
  /\ pc = "validate" => Len(journal) <= 8
  /\ pc \in {"collect", "decide"} => Len(journal) <= 9
  /\ pc = "cleanup" => Len(journal) <= 10
  /\ pc \in Passing => Len(journal) <= 11
  /\ pc \in Inside \cup {"t.phases", "t.cleanup"} => Len(journal) <= LastSequence(journal)
  /\ Len(journal) <= 12

\* A benchmark run without a gap in its journal is where its last row says.
Placed ==
  /\ Orderly(journal) /\ Len(journal) <= 11
  /\ pc = "prepare" => Len(journal) = 1
  /\ pc = "stabilize" => Len(journal) = 2
  /\ pc = "workload" => Len(journal) = 3
  /\ pc = "workload.runs" => Len(journal) = wl - 1
  /\ pc = "cooldown" /\ ~sig => Len(journal) = 7
  /\ pc = "validate" => Len(journal) = 8
  /\ pc \in {"collect", "decide"} => Len(journal) = 9
  /\ pc = "cleanup" => Len(journal) = 10
  /\ pc \in Passing \ {"cleanup"} => Len(journal) = 11
  /\ pc = "t.phases" => IF cleaned THEN Len(journal) = 11 ELSE Len(journal) <= 10
  /\ pc = "t.cleanup" => Len(journal) = 10
  /\ pc \in {"t.controls", "t.manifest", "t.verdict", "exited"} => Len(journal) = 11
InOrder == Benchmark /\ ~rowless => Placed

\* What the modes and the mark of phase 11 say of the place.
Modes ==
  /\ ~Benchmark => journal = <<>> /\ ~cleaned
  /\ pc \in {"cleanup", "mark", "controls", "flag"} => Benchmark
  /\ cleaned => pc \in {"controls"} \cup Cleared \cup Trap \cup Over
  /\ pc = "controls" \/ (pc \in Cleared /\ Benchmark) => cleaned
  /\ pc = "t.cleanup" => ~cleaned
  /\ manifest # "none" => owned
  /\ pc \in {"manifest", "load"} => owned
  /\ pc = "reserve" => manifest = "none"

\* Which failures can be on record where.
Failures ==
  /\ pc \in Early \cup {"cleanup"} \cup Cleared => ~HasFailure(journal)
  /\ pc \in Passing => ~workload /\ ~scan /\ ~assert
  /\ pc \in Inside => ~code /\ ~terminal
  /\ HasFailure(journal) /\ pc \in Trap \cup {"exited"} => code
  /\ rowless => workload
  /\ sig => strays > 0 \/ go # "waiting"
  /\ pc = "dead" => code /\ (strays > 0 \/ go # "waiting")

\* The verdict written so far.
Verdicts ==
  /\ pc \in Inside \ {"flag", "verify", "end"} => verdict = "none" /\ ~written
  /\ pc \in {"flag", "verify", "end"} => verdict = "passed"
  /\ pc \in Trap /\ ~code => written /\ verdict = "passed" /\ ~terminal
  /\ pc = "exited" /\ ~code /\ ~Finished => verdict = "passed"
  /\ pc \in Trap /\ code /\ written /\ ~terminal
       => verdict = "failed" \/ (~HasFailure(journal) /\ (strays > 0 \/ go # "waiting"))
  /\ pc = "exited" /\ code /\ manifest # "none"
       => verdict = "failed" \/ (~HasFailure(journal) /\ (strays > 0 \/ go # "waiting"))

\* The result agrees with the verdict.
Results ==
  Finished => pc \in Over /\ VerdictMatchesResult

Inv == /\ Length /\ InOrder /\ Modes /\ Failures /\ Verdicts /\ Results
IInv == Types /\ Inv

-----------------------------------------------------------------------------
(* What the actions do to the journal                                      *)

Statuses == {"passed", "failed", "skipped"}

LEMMA LastInRange ==
  ASSUME NEW j \in Journals
  PROVE  LastSequence(j) \in 0..11
<1>1. CASE j = <<>>
  BY <1>1 DEF LastSequence
<1>2. CASE j # <<>>
  <2>1. Len(j) \in 1..Len(j)
    BY <1>2, FailureByIndex, EmptySeq DEF Journals
  <2>2. j[Len(j)] \in Rows
    BY <2>1, FailureByIndex
  <2>3. QED BY <1>2, <2>2 DEF LastSequence, Rows, Phases
<1>3. QED BY <1>1, <1>2

\* A step leaves the journal alone, or in a benchmark run adds a row to it.
LEMMA Recording ==
  ASSUME journal \in Journals, NEW n \in Phases, NEW s \in Statuses, Record(n, s)
  PROVE  /\ ~Benchmark => journal' = journal
         /\ Benchmark =>
              /\ journal' \in Journals
              /\ Len(journal') = Len(journal) + 1
              /\ LastSequence(journal') = n
              /\ HasFailure(journal') <=> HasFailure(journal) \/ s = "failed"
              /\ Orderly(journal) /\ n = Len(journal) + 1
                   /\ (n = Cleanup => s # "skipped")
                   /\ (n # Cleanup /\ HasFailure(journal) => s = "skipped")
                   /\ (n \in Required /\ ~HasFailure(journal) => s # "skipped")
                 => Orderly(journal')
<1>1. ~Benchmark => journal' = journal
  BY DEF Record
<1>2. Benchmark => journal' = Append(journal, Row(n, s))
  BY DEF Record
<1>3. Benchmark =>
        /\ journal' \in Journals
        /\ Len(journal') = Len(journal) + 1
        /\ LastSequence(journal') = n
        /\ HasFailure(journal') <=> HasFailure(journal) \/ s = "failed"
  <2> DEFINE t == Append(journal, Row(n, s))
  <2>1. s \in {"passed", "failed", "skipped"}
    BY DEF Statuses
  <2>2. t \in Journals /\ Len(t) = Len(journal) + 1
    BY <2>1, RecordProperties
  <2>3. LastSequence(t) = n
    BY <2>1, RecordProperties
  <2>4. HasFailure(t) <=> HasFailure(journal) \/ s = "failed"
    BY <2>1, RecordProperties
  <2> HIDE DEF t
  <2>5. Benchmark => journal' = t
    BY <1>2 DEF t
  <2>6. QED BY <2>2, <2>3, <2>4, <2>5
<1>4. ASSUME Benchmark, Orderly(journal), n = Len(journal) + 1,
             n = Cleanup => s # "skipped",
             n # Cleanup /\ HasFailure(journal) => s = "skipped",
             n \in Required /\ ~HasFailure(journal) => s # "skipped"
      PROVE  Orderly(journal')
  BY <1>2, <1>4, RecordOrderly DEF Statuses
<1>5. QED BY <1>1, <1>3, <1>4

\* The rows a trap or a failed workload child adds.
LEMMA ClosingRows ==
  ASSUME journal \in Journals, NEW a \in 1..12, NEW b \in 0..10, NEW s \in Statuses,
         Benchmark, journal' = journal \o Closing(a, b, s)
  PROVE  /\ journal' \in Journals
         /\ Len(journal') = Len(journal) + (IF a <= b THEN b - a + 1 ELSE 0)
         /\ HasFailure(journal') <=> HasFailure(journal) \/ (a <= b /\ s = "failed")
         /\ LastSequence(journal') = IF a <= b THEN b ELSE LastSequence(journal)
         /\ Orderly(journal) /\ a = Len(journal) + 1 /\ a <= b + 1
              /\ s = (IF HasFailure(journal) THEN "skipped" ELSE "failed")
            => Orderly(journal') /\ Len(journal') = b
<1>1. journal' = Closed(journal, a, b, s)
  BY DEF Closed
<1>2. s \in {"passed", "failed", "skipped"}
  BY DEF Statuses
<1>3. /\ Closed(journal, a, b, s) \in Journals
      /\ Len(Closed(journal, a, b, s)) =
           Len(journal) + (IF a <= b THEN b - a + 1 ELSE 0)
  BY <1>2, ClosedRows, ZenonT(30)
<1>4. /\ HasFailure(Closed(journal, a, b, s)) <=>
           HasFailure(journal) \/ (a <= b /\ s = "failed")
      /\ LastSequence(Closed(journal, a, b, s)) =
           IF a <= b THEN b ELSE LastSequence(journal)
  BY <1>2, ClosedSummary
<1>5. Orderly(journal) /\ a = Len(journal) + 1 /\ a <= b + 1
        /\ s = (IF HasFailure(journal) THEN "skipped" ELSE "failed")
      => Orderly(Closed(journal, a, b, s)) /\ Len(Closed(journal, a, b, s)) = b
  BY <1>2, CloseOrderly
<1>6. QED BY <1>1, <1>3, <1>4, <1>5

Phased == LoadSpec \/ PrepareRuntime \/ StartChildren \/ WorkloadPhase
          \/ StopChildren \/ RunAssertions \/ Decide \/ CleanUp \/ TerminalCleanup
Filled == WorkloadPhaseFails \/ CompletePhases
Quiet == Reserve \/ WriteManifest \/ StartWorkload \/ WorkloadRefuses
         \/ WorkloadKilled \/ CollectEvidence \/ MarkCleaned \/ MaterializeControls
         \/ WritePassed \/ FlagWritten \/ Verify \/ EndBody \/ HandleTermination
         \/ TerminalControls \/ RestoreManifest \/ TerminalVerdict
Outer == StraySignal \/ GoStops \/ GoKills \/ GoReturns

LEMMA NextByKind == Next => Phased \/ Filled \/ Quiet \/ Outer
BY DEF Next, Shell, Phased, Filled, Quiet, Outer

\* Early on, errexit or a return hands over to the EXIT trap and nothing else.
LEMMA TrapTaken ==
  ASSUME Types, Inv, pc \in (Early \ {"workload.runs"}) \cup {"cooldown", "validate"}, ~sig,
         pc' = "t.phases", code' = TRUE, manifest' # "none" => owned',
         UNCHANGED <<mode, wl, journal, bg, workload, verdict, flags, rowless, world>>
  PROVE  Inv'
<1>1. Length'
  BY
     DEF Inv, Length, InOrder, Modes, Failures, Verdicts, Results, VerdictMatchesResult,
         Finished, Benchmark, Inside, Early, Passing, Cleared, Body, Trap, Over, flags, world,
         Types
<1>2. InOrder'
  BY
     DEF Inv, InOrder, Placed, Length, Modes, Benchmark, Passing, Cleared, Trap, Over, Early,
         flags
<1>3. Modes'
  BY
     DEF Inv, Modes, Length, InOrder, Failures, Verdicts, Results, VerdictMatchesResult,
         Finished, Benchmark, Inside, Early, Passing, Cleared, Body, Trap, Over, flags, world,
         Types
<1>4. Failures'
  BY
     DEF Inv, Failures, Length, InOrder, Modes, Verdicts, Results, VerdictMatchesResult,
         Finished, Benchmark, Inside, Early, Passing, Cleared, Body, Trap, Over, flags, world,
         Types
<1>5. Verdicts'
  BY
     DEF Inv, Verdicts, Length, InOrder, Modes, Failures, Results, VerdictMatchesResult,
         Finished, Benchmark, Inside, Early, Passing, Cleared, Body, Trap, Over, flags, world,
         Types
<1>6. Results'
  BY
     DEF Inv, Results, Length, InOrder, Modes, Failures, Verdicts, VerdictMatchesResult,
         Finished, Benchmark, Inside, Early, Passing, Cleared, Body, Trap, Over, flags, world,
         Types
<1>7. QED BY <1>1, <1>2, <1>3, <1>4, <1>5, <1>6 DEF Inv

\* The body records phase n and goes on.
LEMMA BodyPhase ==
  ASSUME Types, Inv, NEW n \in Phases, NEW s \in Statuses, Record(n, s), ~sig,
         \/ pc = "load" /\ n = 1 /\ pc' = "prepare"
         \/ pc = "prepare" /\ n = 2 /\ pc' = "stabilize"
         \/ pc = "stabilize" /\ n = 3 /\ pc' = "workload"
         \/ pc = "cooldown" /\ n = 8 /\ pc' = "validate"
         \/ pc = "validate" /\ n = 9 /\ pc' = "collect",
         n \in {1, 2} => s = "passed", n = 3 => s # "failed",
         HasFailure(journal) => s = "skipped", n = 9 /\ ~HasFailure(journal) => s # "skipped",
         manifest' # "none" => owned, workload => workload',
         UNCHANGED <<mode, wl, code, owned, verdict, flags, rowless, world>>
  PROVE  Inv'
<1>1. journal \in Journals /\ Len(journal) \in Nat /\ n \in 1..9
  BY FailureByIndex DEF Types
<1>2. n \in {1, 2, 3} => ~HasFailure(journal)
  BY DEF Inv, Failures, Early
<1>3. ~cleaned /\ ~code /\ ~terminal
  BY DEF Inv, Modes, Failures, Cleared, Trap, Over, Inside, Body
<1>4. CASE Benchmark
  <2>1. /\ journal' \in Journals
        /\ Len(journal') = Len(journal) + 1
        /\ LastSequence(journal') = n
        /\ HasFailure(journal') <=> HasFailure(journal) \/ s = "failed"
    BY <1>1, <1>4, Recording
  <2>2. Len(journal) <= n - 1
    BY <1>1 DEF Inv, Length
  <2>3. ASSUME ~rowless PROVE Placed'
    <3>1. Placed
      BY <1>4, <2>3 DEF Inv, InOrder
    <3>2. Len(journal) = n - 1
      <4>1. CASE n = 1
        BY <1>1, <2>2, <4>1
      <4>2. CASE n = 2
        BY <3>1, <4>2 DEF Placed
      <4>3. CASE n = 3
        BY <3>1, <4>3 DEF Placed
      <4>4. CASE n = 8
        BY <3>1, <4>4 DEF Placed
      <4>5. CASE n = 9
        BY <3>1, <4>5 DEF Placed
      <4>6. QED BY <4>1, <4>2, <4>3, <4>4, <4>5
    <3>3. /\ n = Cleanup => s # "skipped"
          /\ n # Cleanup /\ HasFailure(journal) => s = "skipped"
          /\ n \in Required /\ ~HasFailure(journal) => s # "skipped"
      BY <1>1 DEF Required, Preflight, Prepare, Measure, Validate, Collect, Cleanup
    <3>4. n = Len(journal) + 1
      BY <1>1, <3>2
    <3>5. Orderly(journal')
      BY <1>1, <1>4, <3>1, <3>3, <3>4, Recording DEF Placed
    <3>6. Len(journal') = n
      BY <2>1, <3>4
    <3>7. QED BY <3>5, <3>6 DEF Placed, Passing
  <2>4. InOrder'
    BY <2>3 DEF InOrder
  <2>5. Len(journal') <= n
    BY <1>1, <2>1, <2>2
  <2>6. Length' /\ Modes'
    BY <1>1, <1>3, <1>4, <2>1, <2>5
       DEF Inv, Length, Modes, Benchmark, flags, Inside, Body, Passing, Cleared, Trap, Over
  <2>7. Failures' /\ Verdicts' /\ Results'
    BY <1>2, <1>3, <2>1 DEF Inv, Failures, Verdicts, Results, Finished, Types, flags, world,
       Inside, Early, Passing, Cleared, Body, Trap, Over
  <2>8. QED BY <2>4, <2>6, <2>7 DEF Inv
<1>5. CASE ~Benchmark
  <2>1. journal' = journal /\ Len(journal) = 0
    BY <1>5, Recording, EmptySeq DEF Types, Inv, Modes
  <2>2. InOrder' /\ Length' /\ Modes'
    BY <1>3, <1>5, <2>1 DEF Inv, InOrder, Length, Modes, Benchmark, flags, Inside, Body,
       Passing, Cleared, Trap, Over
  <2>3. Failures' /\ Verdicts' /\ Results'
    BY <1>2, <1>3, <2>1 DEF Inv, Failures, Verdicts, Results, Finished, Types, flags, world,
       Inside, Early, Passing, Cleared, Body, Trap, Over
  <2>4. QED BY <2>2, <2>3 DEF Inv
<1>6. QED BY <1>4, <1>5

\* Phases 1, 2, 3, 8 and 9, or the trap instead of them.
LEMMA BodyPhaseStep ==
  ASSUME Types, Inv,
         LoadSpec \/ PrepareRuntime \/ StartChildren \/ StopChildren \/ RunAssertions
  PROVE  Inv'
<1> USE DEF At, Fails, exits, files
<1>1. manifest # "none" \/ pc = "load" => owned
  BY DEF Inv, Modes
<1>2. CASE pc' = "t.phases"
  <2>1. /\ pc \in (Early \ {"workload.runs"}) \cup {"cooldown", "validate"} /\ ~sig
        /\ code' = TRUE /\ owned' = owned /\ journal' = journal
        /\ UNCHANGED <<mode, wl, bg, workload, verdict, flags, rowless, world>>
    BY <1>2 DEF LoadSpec, PrepareRuntime, StartChildren, StopChildren, RunAssertions, Early
  <2>2. manifest' # "none" => owned'
    BY <1>1 DEF LoadSpec, PrepareRuntime, StartChildren, StopChildren, RunAssertions
  <2>3. QED BY <1>2, <2>1, <2>2, TrapTaken
<1>3. pc \in {"load", "prepare", "stabilize"} => ~HasFailure(journal)
  BY DEF Inv, Failures, Early
<1>4. CASE LoadSpec /\ pc' # "t.phases"
  <2>1. Record(1, "passed") /\ 1 \in Phases /\ "passed" \in Statuses
    BY <1>4 DEF LoadSpec, Preflight, Phases, Statuses
  <2>2. QED BY <1>1, <1>3, <1>4, <2>1, BodyPhase DEF LoadSpec
<1>5. CASE PrepareRuntime /\ pc' # "t.phases"
  <2>1. Record(2, "passed") /\ 2 \in Phases /\ "passed" \in Statuses
    BY <1>5 DEF PrepareRuntime, Prepare, Phases, Statuses
  <2>2. QED BY <1>1, <1>3, <1>5, <2>1, BodyPhase DEF PrepareRuntime
<1>6. CASE StartChildren /\ pc' # "t.phases"
  <2>1. PICK s \in Statuses : Record(3, s) /\ s # "failed" /\ 3 \in Phases
    BY <1>6 DEF StartChildren, Stabilize, Phases, Statuses
  <2>2. QED BY <1>1, <1>3, <1>6, <2>1, BodyPhase DEF StartChildren
<1>7. CASE StopChildren /\ pc' # "t.phases"
  <2>1. PICK s \in Statuses : /\ Record(8, s) /\ 8 \in Phases
                              /\ HasFailure(journal) => s = "skipped"
    BY <1>7 DEF StopChildren, Follows, Cooldown, Phases, Statuses
  <2>2. /\ pc = "cooldown" /\ pc' = "validate" /\ ~sig /\ owned' = owned
        /\ manifest' = manifest
        /\ UNCHANGED <<mode, wl, code, owned, verdict, flags, rowless, world>>
    BY <1>7 DEF StopChildren
  <2>3. workload => workload'
    BY <1>7 DEF StopChildren
  <2>4. QED BY <1>1, <2>1, <2>2, <2>3, BodyPhase
<1>8. CASE RunAssertions /\ pc' # "t.phases"
  <2>1. PICK s \in Statuses : /\ Record(9, s) /\ 9 \in Phases
                              /\ HasFailure(journal) <=> s = "skipped"
    BY <1>8 DEF RunAssertions, Follows, Validate, Phases, Statuses
  <2>2. QED BY <1>1, <1>8, <2>1, BodyPhase DEF RunAssertions
<1>9. QED BY <1>2, <1>4, <1>5, <1>6, <1>7, <1>8

\* Phase 10 and the decision: the passing end of the body, or the trap.
LEMMA DecideStep == ASSUME Types, Inv, Decide PROVE Inv'
<1>1. /\ pc = "decide" /\ ~sig
      /\ UNCHANGED <<mode, wl, bg, exits, owned, manifest, cleaned, terminal, rowless, world>>
  BY DEF Decide, At
<1>2. /\ journal \in Journals /\ Len(journal) \in Nat /\ Len(journal) <= 9 /\ 10 \in Phases
      /\ ~cleaned /\ ~code /\ ~terminal /\ ~written /\ verdict = "none" /\ code \in BOOLEAN
  BY <1>1, FailureByIndex DEF Types, Inv, Length, Modes, Failures, Verdicts, Inside, Body,
     Cleared, Trap, Over, Phases
<1>3. PICK s \in Statuses :
        /\ Record(10, s)
        /\ HasFailure(journal) <=> s = "skipped"
        /\ \/ /\ pc' = "t.phases" /\ code' = TRUE
              /\ IF Benchmark THEN UNCHANGED <<verdict, written>>
                              ELSE verdict' = "failed" /\ written' = TRUE
           \/ /\ pc' = (IF Benchmark THEN "cleanup" ELSE "verdict") /\ s = "passed"
              /\ code' = code /\ UNCHANGED <<verdict, written>>
              /\ ~workload /\ ~assert /\ ~scan /\ ~HasFailure(journal)
  <2>1. CASE workload \/ assert \/ scan \/ HasFailure(journal)
    <3>1. Record(Collect, Follows(TRUE)) /\ pc' = "t.phases" /\ code' = TRUE
      BY <2>1 DEF Decide, Fails
    <3>2. IF Benchmark THEN UNCHANGED <<verdict, written>>
                       ELSE verdict' = "failed" /\ written' = TRUE
      BY <2>1 DEF Decide
    <3>3. QED BY <3>1, <3>2 DEF Follows, Statuses, Collect
  <2>2. CASE ~(workload \/ assert \/ scan \/ HasFailure(journal))
    <3>1. /\ Record(Collect, Follows(FALSE)) /\ code' = code
          /\ pc' = IF Benchmark THEN "cleanup" ELSE "verdict"
          /\ UNCHANGED <<verdict, written>>
      BY <2>2 DEF Decide
    <3>2. QED BY <2>2, <3>1 DEF Follows, Statuses, Collect
  <2>3. QED BY <2>1, <2>2
<1>4. CASE Benchmark
  <2>1. /\ journal' \in Journals
        /\ Len(journal') = Len(journal) + 1
        /\ LastSequence(journal') = 10
        /\ HasFailure(journal') <=> HasFailure(journal) \/ s = "failed"
    BY <1>2, <1>3, <1>4, Recording
  <2>2. ASSUME ~rowless PROVE Placed'
    <3>1. Orderly(journal) /\ Len(journal) = 9
      BY <1>1, <1>4, <2>2 DEF Inv, InOrder, Placed
    <3>2. /\ 10 = Cleanup => s # "skipped"
          /\ 10 # Cleanup /\ HasFailure(journal) => s = "skipped"
          /\ 10 \in Required /\ ~HasFailure(journal) => s # "skipped"
      BY <1>3 DEF Cleanup
    <3>3. Len(journal') = 10 /\ 10 = Len(journal) + 1
      BY <2>1, <3>1
    <3>4. Orderly(journal')
      BY <1>2, <1>3, <1>4, <3>1, <3>2, <3>3, Recording
    <3>5. (pc' = "t.phases" \/ pc' = "cleanup") /\ ~cleaned'
      BY <1>1, <1>2, <1>3, <1>4
    <3>6. QED BY <3>3, <3>4, <3>5 DEF Placed, Passing
  <2>3. InOrder'
    BY <1>1, <2>2 DEF InOrder
  <2>4. Len(journal') <= 10
    BY <1>2, <2>1
  <2>5. Length' /\ Modes'
    BY <1>1, <1>2, <1>3, <1>4, <2>1, <2>4
       DEF Inv, Length, Modes, Benchmark, Inside, Body, Passing, Cleared, Trap, Over
  <2>6. Failures' /\ Verdicts' /\ Results'
    BY <1>1, <1>2, <1>3, <1>4, <2>1 DEF Inv, Failures, Verdicts, Results, Finished, Types,
       exits, world, Inside, Early, Passing, Cleared, Body, Trap, Over
  <2>7. QED BY <2>3, <2>5, <2>6 DEF Inv
<1>5. CASE ~Benchmark
  <2>1. journal' = journal /\ Len(journal) = 0 /\ LastSequence(journal) \in 0..11
    BY <1>2, <1>3, <1>5, Recording, LastInRange, EmptySeq DEF Types, Inv, Modes
  <2>2. InOrder' /\ Length' /\ Modes'
    BY <1>1, <1>2, <1>3, <1>5, <2>1 DEF Inv, InOrder, Length, Modes, Benchmark, Inside, Body,
       Passing, Cleared, Trap, Over
  <2>3. Failures' /\ Verdicts' /\ Results'
    BY <1>1, <1>2, <1>3, <1>5, <2>1 DEF Inv, Failures, Verdicts, Results, Finished, Types,
       Benchmark, Modes, exits, world, Inside, Early, Passing, Cleared, Body, Trap, Over
  <2>4. QED BY <2>2, <2>3 DEF Inv
<1>6. QED BY <1>4, <1>5

\* The row of phase 11, from the body or from the trap.
LEMMA CleanupStep == ASSUME Types, Inv, CleanUp \/ TerminalCleanup PROVE Inv'
<1>1. PICK s \in Statuses :
        /\ Record(11, s) /\ s # "skipped"
        /\ \/ pc = "cleanup" /\ ~sig /\ pc' = "mark" /\ code' = code /\ terminal' = terminal
           \/ /\ pc = "t.cleanup" /\ pc' = "t.controls"
              /\ terminal' = (terminal \/ s = "failed") /\ code' = (code \/ s = "failed")
  BY DEF CleanUp, TerminalCleanup, At, flags, Cleanup, Statuses
<1>2. UNCHANGED <<mode, wl, bg, exits, files, written, cleaned, rowless, world>>
  BY DEF CleanUp, TerminalCleanup, flags
<1>3. /\ journal \in Journals /\ Len(journal) \in Nat /\ Len(journal) <= 11 /\ 11 \in Phases
      /\ pc = "cleanup" => Len(journal) <= 10
      /\ ~cleaned
  BY <1>1, FailureByIndex, LastInRange
     DEF Types, Inv, Length, Modes, Cleared, Trap, Over, Phases
<1>4. CASE Benchmark
  <2>1. /\ journal' \in Journals
        /\ Len(journal') = Len(journal) + 1
        /\ LastSequence(journal') = 11
        /\ HasFailure(journal') <=> HasFailure(journal) \/ s = "failed"
    BY <1>1, <1>3, <1>4, Recording
  <2>2. ASSUME ~rowless PROVE Placed'
    <3>1. Orderly(journal) /\ Len(journal) = 10
      BY <1>1, <1>4, <2>2 DEF Inv, InOrder, Placed
    <3>2. /\ 11 = Cleanup => s # "skipped"
          /\ 11 # Cleanup /\ HasFailure(journal) => s = "skipped"
          /\ 11 \in Required /\ ~HasFailure(journal) => s # "skipped"
      BY <1>1 DEF Cleanup
    <3>3. Len(journal') = 11 /\ 11 = Len(journal) + 1
      BY <2>1, <3>1
    <3>4. Orderly(journal')
      BY <1>1, <1>3, <1>4, <3>1, <3>2, <3>3, Recording
    <3>5. pc' \in {"mark", "t.controls"}
      BY <1>1
    <3>6. QED BY <3>3, <3>4, <3>5 DEF Placed, Passing
  <2>3. InOrder'
    BY <1>2, <2>2 DEF InOrder
  <2>4. Len(journal') <= 12 /\ (pc = "cleanup" => Len(journal') <= 11)
    BY <1>3, <2>1
  <2>5. Length' /\ Modes'
    BY <1>1, <1>2, <1>3, <1>4, <2>1, <2>4
       DEF Inv, Length, Modes, Benchmark, files, Inside, Body, Passing, Cleared, Trap, Over
  <2>6. Failures' /\ Verdicts' /\ Results'
    BY <1>1, <1>2, <1>3, <2>1 DEF Inv, Failures, Verdicts, Results, Finished, Types,
       exits, files, world, Inside, Early, Passing, Cleared, Body, Trap, Over
  <2>7. QED BY <2>3, <2>5, <2>6 DEF Inv
<1>5. CASE ~Benchmark
  <2>1. journal' = journal /\ pc = "t.cleanup" /\ Len(journal) = 0
    BY <1>1, <1>3, <1>5, Recording, EmptySeq DEF Types, Inv, Modes
  <2>2. InOrder' /\ Length' /\ Modes'
    BY <1>1, <1>2, <1>3, <1>5, <2>1 DEF Inv, InOrder, Length, Modes, Benchmark, files, Inside,
       Body, Passing, Cleared, Trap, Over
  <2>3. Failures' /\ Verdicts' /\ Results'
    BY <1>1, <1>2, <2>1 DEF Inv, Failures, Verdicts, Results, Finished, Types,
       exits, files, world, Inside, Early, Passing, Cleared, Body, Trap, Over
  <2>4. QED BY <2>2, <2>3 DEF Inv
<1>6. QED BY <1>4, <1>5

\* A row of the workload child.
LEMMA WorkloadPhaseStep == ASSUME Types, Inv, WorkloadPhase PROVE Inv'
<1>1. PICK s \in Statuses : Record(wl, s) /\ s # "failed" /\ (wl = 7 => s # "skipped")
  BY DEF WorkloadPhase, Measure, Statuses
<1>2. /\ pc = "workload.runs" /\ wl \in 4..7
      /\ IF wl = 7 THEN pc' = "cooldown" /\ wl' = 0 ELSE pc' = pc /\ wl' = wl + 1
      /\ workload' = workload /\ UNCHANGED <<mode, bg, assert, scan, code, files, flags, rowless, world>>
  BY DEF WorkloadPhase, WorkloadReturns, Types, PreWarmup, Measure
<1>3. /\ journal \in Journals /\ Len(journal) \in Nat /\ Len(journal) <= wl - 1
      /\ wl \in Phases /\ ~HasFailure(journal)
  BY <1>2, FailureByIndex DEF Types, Inv, Length, Failures, Early, Phases
<1>4. CASE Benchmark
  <2>1. /\ journal' \in Journals
        /\ Len(journal') = Len(journal) + 1
        /\ LastSequence(journal') = wl
        /\ HasFailure(journal') <=> HasFailure(journal) \/ s = "failed"
    BY <1>1, <1>3, <1>4, Recording
  <2>2. ASSUME ~rowless PROVE Placed'
    <3>1. Orderly(journal) /\ Len(journal) = wl - 1
      BY <1>2, <1>4, <2>2 DEF Inv, InOrder, Placed
    <3>2. /\ wl = Cleanup => s # "skipped"
          /\ wl # Cleanup /\ HasFailure(journal) => s = "skipped"
          /\ wl \in Required /\ ~HasFailure(journal) => s # "skipped"
      BY <1>1, <1>2, <1>3 DEF Cleanup, Required, Preflight, Prepare, Measure, Validate, Collect
    <3>3. Len(journal') = wl /\ wl = Len(journal) + 1
      BY <1>2, <2>1, <3>1
    <3>4. Orderly(journal')
      BY <1>1, <1>3, <1>4, <3>1, <3>2, <3>3, Recording
    <3>5. CASE wl = 7
      BY <1>2, <3>3, <3>4, <3>5 DEF Placed, Passing
    <3>6. CASE wl # 7
      <4>1. pc' = "workload.runs" /\ Len(journal') = wl' - 1 /\ Len(journal') <= 11
        BY <1>2, <3>3, <3>6
      <4>2. QED BY <3>4, <4>1 DEF Placed, Passing
    <3>7. QED BY <3>5, <3>6
  <2>3. InOrder'
    BY <1>2, <2>2 DEF InOrder
  <2>4. /\ Len(journal') <= LastSequence(journal') /\ Len(journal') <= 7
        /\ pc' = "workload.runs" => Len(journal') <= wl' - 1
    BY <1>2, <1>3, <2>1
  <2>5. pc' \in {"workload.runs", "cooldown"}
    BY <1>2
  <2>6. Length'
    BY <2>4, <2>5 DEF Length, Inside, Body, Passing
  <2>7. Modes' /\ Failures' /\ Verdicts' /\ Results'
    BY <1>1, <1>2, <1>3, <1>4, <2>1
       DEF Inv, Modes, Failures, Verdicts, Results, Finished, Types,
       Benchmark, files, flags, world, Inside, Early, Passing, Cleared, Body, Trap, Over
  <2>8. QED BY <2>3, <2>6, <2>7 DEF Inv
<1>5. CASE ~Benchmark
  <2>1. journal' = journal /\ Len(journal) = 0 /\ LastSequence(journal) \in 0..11
    BY <1>1, <1>3, <1>5, Recording, LastInRange, EmptySeq DEF Types, Inv, Modes
  <2>2. InOrder' /\ Length'
    BY <1>2, <1>5, <2>1 DEF Inv, InOrder, Length, Benchmark, Inside, Body, Passing
  <2>3. Modes' /\ Failures' /\ Verdicts' /\ Results'
    BY <1>2, <1>3, <1>5, <2>1 DEF Inv, Modes, Failures, Verdicts, Results, Finished, Types,
       Benchmark, files, flags, world, Inside, Early, Passing, Cleared, Body, Trap, Over
  <2>4. QED BY <2>2, <2>3 DEF Inv
<1>6. QED BY <1>4, <1>5

LEMMA HandleTerminationStep == ASSUME Types, Inv, HandleTermination PROVE Inv'
<1>1. Length'
  BY
     DEF Inv, Length, PreWarmup, Measure, Types, Benchmark, HandleTermination, At, Fails,
         WorkloadReturns, exits, files, flags, world, Inside, Early, Passing, Cleared, Body, Trap,
         Over
<1>2. InOrder'
  <2>1. /\ pc \in Body /\ pc' = "t.phases" /\ mode' = mode /\ journal' = journal
        /\ cleaned' = cleaned /\ rowless' = (rowless \/ pc = "mark")
    BY DEF HandleTermination, Fails, flags
  <2>2. ASSUME Benchmark, ~rowless, pc # "mark"
        PROVE  Placed'
    <3>1. Placed
      BY <2>2 DEF Inv, InOrder
    <3>2. CASE pc \in {"controls"} \cup Cleared
      <4>1. cleaned /\ Len(journal) = 11
        BY <2>2, <3>1, <3>2 DEF Inv, Modes, Placed, Passing, Cleared
      <4>2. QED BY <2>1, <3>1, <4>1 DEF Placed, Passing
    <3>3. CASE pc \notin {"controls"} \cup Cleared
      <4>1. ~cleaned
        BY <2>1, <3>3 DEF Inv, Modes, Body, Trap, Over
      <4>2. Len(journal) \in Nat
        BY FailureByIndex DEF Types
      <4>3. Len(journal) <= 10
        BY <2>1, <2>2, <3>3, <4>2 DEF Inv, Length, Body, Cleared
      <4>4. QED BY <2>1, <3>1, <4>1, <4>3 DEF Placed, Passing
    <3>4. QED BY <3>2, <3>3
  <2>3. QED BY <2>1, <2>2 DEF InOrder, Benchmark
<1>3. Modes'
  BY
     DEF Inv, Modes, Types, Benchmark, HandleTermination, At, Fails, WorkloadReturns, exits,
         files, flags, world, Inside, Early, Passing, Cleared, Body, Trap, Over
<1>4. Failures'
  BY
     DEF Inv, Failures, Modes, Types, Benchmark, HandleTermination, At, Fails,
         WorkloadReturns, exits, files, flags, world, Inside, Early, Passing, Cleared, Body, Trap,
         Over
<1>5. Verdicts'
  BY
     DEF Inv, Verdicts, Failures, Modes, Types, Benchmark, HandleTermination, At, Fails,
         WorkloadReturns, exits, files, flags, world, Inside, Early, Passing, Cleared, Body, Trap,
         Over
<1>6. Results'
  BY
     DEF Inv, Results, VerdictMatchesResult, Finished, Types, Benchmark, HandleTermination,
         At, Fails, WorkloadReturns, exits, files, flags, world, Inside, Early, Passing, Cleared,
         Body, Trap, Over
<1>7. QED BY <1>1, <1>2, <1>3, <1>4, <1>5, <1>6 DEF Inv

\* The steps that record no phase.
LEMMA QuietStep == ASSUME Types, Inv, Quiet PROVE Inv'
<1>0. CASE HandleTermination
  BY <1>0, HandleTerminationStep
<1> USE DEF Inv, InOrder, Placed, Length, Modes, Failures, Verdicts, Results,
        VerdictMatchesResult, Finished, Types, Benchmark, At, Fails, WorkloadReturns,
        exits, files, flags, world, PreWarmup, Measure, Inside, Early, Passing, Cleared,
        Body, Trap, Over
<1>1. CASE Reserve
  BY <1>1 DEF Reserve
<1>2. CASE WriteManifest
  BY <1>2 DEF WriteManifest
<1>3. CASE StartWorkload
  <2>1. InOrder'
    BY <1>3 DEF StartWorkload
  <2>2. Length' /\ Modes' /\ Failures' /\ Verdicts' /\ Results'
    BY <1>3 DEF StartWorkload
  <2>3. QED BY <2>1, <2>2
<1>4. CASE WorkloadRefuses
  <2>1. InOrder' /\ Modes' /\ Verdicts' /\ Results'
    BY <1>4 DEF WorkloadRefuses
  <2>2. Length'
    BY <1>4 DEF WorkloadRefuses
  <2>3. Failures'
    BY <1>4 DEF WorkloadRefuses
  <2>4. QED BY <2>1, <2>2, <2>3
<1>5. CASE WorkloadKilled
  BY <1>5 DEF WorkloadKilled
<1>6. CASE CollectEvidence
  BY <1>6 DEF CollectEvidence
<1>7. CASE MarkCleaned
  BY <1>7 DEF MarkCleaned
<1>8. CASE MaterializeControls
  BY <1>8 DEF MaterializeControls
<1>9. CASE WritePassed
  BY <1>9 DEF WritePassed
<1>10. CASE FlagWritten
  BY <1>10 DEF FlagWritten
<1>11. CASE Verify
  BY <1>11 DEF Verify
<1>12. CASE EndBody
  BY <1>12 DEF EndBody
<1>13. CASE TerminalControls
  BY <1>13 DEF TerminalControls
<1>14. CASE RestoreManifest
  BY <1>14 DEF RestoreManifest
<1>15. CASE TerminalVerdict
  BY <1>15 DEF TerminalVerdict
<1>16. QED BY <1>0, <1>1, <1>2, <1>3, <1>4, <1>5, <1>6, <1>7, <1>8, <1>9, <1>10, <1>11, <1>12, <1>13, <1>14, <1>15 DEF Quiet

\* Signals leave the files alone.
LEMMA SignalsStep == ASSUME Types, Inv, StraySignal \/ GoStops \/ GoKills PROVE Inv'
<1> USE DEF Inv, InOrder, Placed, Length, Modes, Failures, Verdicts, Results,
        VerdictMatchesResult, Finished, Types, Benchmark, Signal, Armed, exits, files, flags,
        world, Inside, Early, Passing, Cleared, Body, Trap, Over
<1>1. CASE StraySignal
  <2>1. InOrder' /\ Length' /\ Modes'
    BY <1>1 DEF StraySignal
  <2>2. Failures' /\ Verdicts' /\ Results'
    BY <1>1 DEF StraySignal
  <2>3. QED BY <2>1, <2>2
<1>2. CASE GoStops
  <2>1. InOrder' /\ Length' /\ Modes'
    BY <1>2 DEF GoStops
  <2>2. Failures' /\ Verdicts' /\ Results'
    BY <1>2 DEF GoStops
  <2>3. QED BY <2>1, <2>2
<1>3. CASE GoKills
  <2>1. InOrder' /\ Length' /\ Modes'
    BY <1>3 DEF GoKills
  <2>2. Failures' /\ Verdicts' /\ Results'
    BY <1>3 DEF GoKills
  <2>3. QED BY <2>1, <2>2
<1>4. QED BY <1>1, <1>2, <1>3

LEMMA GoReturnsStep == ASSUME Types, Inv, GoReturns PROVE Inv'
<1>1. /\ pc \in Over /\ go # "done" /\ go' = "done"
      /\ verdict' = IF go = "stopping" /\ manifest # "none" THEN "failed" ELSE verdict
      /\ result' = IF go = "stopping" \/ code THEN "failed" ELSE "passed"
      /\ UNCHANGED <<mode, pc, wl, journal, bg, exits, code, owned, manifest, flags,
                     rowless, sig, strays>>
  BY DEF GoReturns
<1>2. Length'
  BY <1>1 DEF Inv, Length
<1>3. InOrder'
  BY <1>1 DEF Inv, InOrder, Placed, Benchmark, flags
<1>4. Modes'
  BY <1>1 DEF Inv, Modes, Benchmark, flags
<1>5. Failures'
  BY <1>1 DEF Inv, Failures, exits, flags
<1>6. Verdicts'
  BY <1>1 DEF Inv, Verdicts, Inside, Body, Trap, Over, Finished
<1>7. Results'
  <2>1. CASE pc = "exited"
    BY <1>1, <2>1 DEF Inv, Types, Verdicts, Results, VerdictMatchesResult, Finished, Over
  <2>2. CASE pc = "dead"
    BY <1>1, <2>2 DEF Inv, Types, Failures, Results, VerdictMatchesResult, Finished, Over
  <2>3. QED BY <1>1, <2>1, <2>2 DEF Over
<1>8. QED BY <1>2, <1>3, <1>4, <1>5, <1>6, <1>7 DEF Inv

\* The child closes its phases: seven rows, the first of them failed.
LEMMA WorkloadPhaseFailsStep == ASSUME Types, Inv, WorkloadPhaseFails PROVE Inv'
<1>1. /\ pc = "workload.runs" /\ wl \in 4..7 /\ wl' = 0 /\ pc' = "cooldown" /\ workload' = TRUE
      /\ journal' = IF Benchmark THEN journal \o Closing(wl, Measure, "failed") ELSE journal
      /\ UNCHANGED <<mode, bg, assert, scan, code, files, flags, rowless, world>>
  BY DEF WorkloadPhaseFails, WorkloadReturns, Types, PreWarmup, Measure
<1>2. journal \in Journals /\ Len(journal) \in Nat /\ ~HasFailure(journal) /\ Len(journal) <= wl - 1
  BY <1>1, FailureByIndex DEF Types, Inv, Failures, Early, Length
<1>3. CASE Benchmark
  <2>1. /\ journal' \in Journals
        /\ Len(journal') = Len(journal) + (IF wl <= 7 THEN 7 - wl + 1 ELSE 0)
        /\ LastSequence(journal') = IF wl <= 7 THEN 7 ELSE LastSequence(journal)
        /\ Orderly(journal) /\ wl = Len(journal) + 1 /\ wl <= 7 + 1
             /\ "failed" = (IF HasFailure(journal) THEN "skipped" ELSE "failed")
           => Orderly(journal') /\ Len(journal') = 7
    <3>1. journal' = journal \o Closing(wl, 7, "failed")
      BY <1>1, <1>3 DEF Measure
    <3>2. wl \in 1..12 /\ 7 \in 0..10 /\ "failed" \in Statuses
      BY <1>1 DEF Statuses
    <3>3. QED BY <1>2, <1>3, <3>1, <3>2, ClosingRows
  <2>2. Len(journal') <= 7 /\ LastSequence(journal') = 7
    BY <1>1, <1>2, <2>1
  <2>3. ASSUME ~rowless PROVE Placed'
    <3>1. Orderly(journal) /\ Len(journal) = wl - 1
      BY <1>1, <1>3, <2>3 DEF Inv, InOrder, Placed
    <3>2. Orderly(journal') /\ Len(journal') = 7
      BY <1>1, <1>2, <2>1, <3>1
    <3>3. pc' = "cooldown"
      BY <1>1
    <3>4. QED BY <3>2, <3>3 DEF Placed, Passing
  <2>4. InOrder'
    BY <1>1, <2>3 DEF InOrder
  <2>5. Length'
    BY <1>1, <2>2 DEF Length, Passing, Inside, Body
  <2>6. Modes' /\ Failures'
    BY <1>1, <1>3 DEF Inv, Modes, Failures, Benchmark, Inside, Body, Early, Passing, Cleared,
       Trap, Over, files, flags, world
  <2>7. Verdicts' /\ Results'
    BY <1>1 DEF Inv, Verdicts, Results, Finished, Inside, Body, Trap, Over, files, flags, world
  <2>8. QED BY <2>4, <2>5, <2>6, <2>7 DEF Inv
<1>4. CASE ~Benchmark
  <2>1. journal' = journal /\ Len(journal) = 0
    BY <1>1, <1>4, EmptySeq DEF Inv, Modes
  <2>2. InOrder' /\ Length' /\ Modes'
    BY <1>1, <1>4, <2>1 DEF Inv, InOrder, Length, Modes, Benchmark, Passing, Cleared, Inside,
       Body, Trap, Over, files, flags
  <2>3. Failures'
    BY <1>1, <1>2, <1>4, <2>1 DEF Inv, Failures, Early, Inside, Body, Passing, Cleared, Trap,
       Over, flags, world
  <2>4. Verdicts' /\ Results'
    BY <1>1 DEF Inv, Verdicts, Results, Finished, Inside, Body, Trap, Over, files, flags, world
  <2>5. QED BY <2>2, <2>3, <2>4 DEF Inv
<1>5. QED BY <1>3, <1>4

\* The trap completes a journal up to phase 10, and blames a phase only if no
\* failure is on record.
LEMMA CompletePhasesStep == ASSUME Types, Inv, CompletePhases PROVE Inv'
<1>1. CASE cleaned
  <2>1. /\ pc = "t.phases" /\ pc' = "t.manifest"
        /\ UNCHANGED <<mode, wl, journal, bg, exits, code, files, flags, rowless, world>>
    BY <1>1 DEF CompletePhases, flags
  <2>2. InOrder' /\ Length'
    BY <1>1, <2>1 DEF Inv, InOrder, Placed, Length, Benchmark, flags, Inside, Body, Passing
  <2>3. Modes' /\ Failures'
    BY <1>1, <2>1 DEF Inv, Modes, Failures, Benchmark, Inside, Body, Early, Passing, Cleared,
       Trap, Over, exits, files, flags, world
  <2>4. Verdicts' /\ Results'
    BY <2>1 DEF Inv, Verdicts, Results, Finished, Inside, Body, Trap, Over, files, flags, world
  <2>5. QED BY <2>2, <2>3, <2>4 DEF Inv
<1>2. CASE ~cleaned /\ ~Benchmark
  <2>1. /\ pc = "t.phases" /\ pc' = "t.cleanup" /\ journal = <<>> /\ Len(journal) = 0
        /\ UNCHANGED <<mode, wl, journal, bg, exits, code, files, flags, rowless, world>>
    BY <1>2, EmptySeq DEF CompletePhases, flags, Types, Inv, Modes
  <2>2. InOrder' /\ Length'
    BY <1>2, <2>1 DEF Inv, InOrder, Length, Benchmark, flags, Inside, Body, Passing
  <2>3. Modes' /\ Failures'
    BY <1>2, <2>1 DEF Inv, Modes, Failures, Benchmark, Inside, Body, Early, Passing, Cleared,
       Trap, Over, exits, files, flags, world
  <2>4. Verdicts' /\ Results'
    BY <2>1 DEF Inv, Verdicts, Results, Finished, Inside, Body, Trap, Over, files, flags, world
  <2>5. QED BY <2>2, <2>3, <2>4 DEF Inv
<1>3. CASE ~cleaned /\ Benchmark
  <2> DEFINE last == LastSequence(journal)
             a == last + 1
             s == IF HasFailure(journal) THEN "skipped" ELSE "failed"
             bad == CompletionFails(journal)
  <2>1. /\ pc = "t.phases" /\ pc' = "t.cleanup"
        /\ journal' = journal \o Closing(a, 10, s)
        /\ terminal' = (terminal \/ bad) /\ code' = (code \/ bad)
        /\ UNCHANGED <<mode, wl, bg, exits, files, written, cleaned, rowless, world>>
    BY <1>3 DEF CompletePhases, Completed, Collect
  <2>2. journal \in Journals /\ Len(journal) \in Nat /\ last \in 0..11 /\ Len(journal) <= last
    BY <2>1, FailureByIndex, LastInRange DEF Types, Inv, Length
  <2>3. bad <=> last = 11 \/ (last < 10 /\ ~HasFailure(journal))
    BY DEF CompletionFails, Cleanup, Collect
  <2>4. a \in 1..12 /\ 10 \in 0..10 /\ s \in Statuses
    BY <2>2 DEF Statuses
  <2> HIDE DEF a, s, bad
  <2>5. /\ journal' \in Journals
        /\ Len(journal') = Len(journal) + (IF a <= 10 THEN 10 - a + 1 ELSE 0)
    BY <1>3, <2>1, <2>2, <2>4, ClosingRows
  <2>6. HasFailure(journal') <=> HasFailure(journal) \/ (a <= 10 /\ s = "failed")
    BY <1>3, <2>1, <2>2, <2>4, ClosingRows
  <2>7. LastSequence(journal') = IF a <= 10 THEN 10 ELSE last
    BY <1>3, <2>1, <2>2, <2>4, ClosingRows
  <2>8. HasFailure(journal') => HasFailure(journal) \/ bad
    BY <2>2, <2>3, <2>6 DEF a
  <2>9. InOrder'
    <3>1. ASSUME ~rowless PROVE Placed'
      <4>1. Orderly(journal) /\ Len(journal) <= 10
        BY <1>3, <2>1, <3>1 DEF Inv, InOrder, Placed
      <4>2. last = Len(journal)
        BY <2>2, <4>1, OrderlyLast
      <4>3. Orderly(journal') /\ Len(journal') = 10
        <5>1. /\ Orderly(journal) /\ a = Len(journal) + 1 /\ a <= 10 + 1
              /\ s = (IF HasFailure(journal) THEN "skipped" ELSE "failed")
          BY <2>2, <4>1, <4>2 DEF a, s
        <5>2. Orderly(journal) /\ a = Len(journal) + 1 /\ a <= 10 + 1
                /\ s = (IF HasFailure(journal) THEN "skipped" ELSE "failed")
              => Orderly(journal') /\ Len(journal') = 10
          BY <1>3, <2>1, <2>2, <2>4, ClosingRows
        <5>3. QED BY <5>1, <5>2
      <4>4. QED BY <2>1, <4>3 DEF Placed, Passing
    <3>2. QED BY <2>1, <3>1 DEF InOrder
  <2>10. Length'
    <3>1. Len(journal') <= LastSequence(journal') /\ Len(journal') <= 12
      BY <2>2, <2>5, <2>7 DEF a
    <3>2. QED BY <2>1, <3>1 DEF Length, Passing, Inside, Body
  <2>11. Modes'
    BY <1>3, <2>1 DEF Inv, Modes, Benchmark, Inside, Body, Passing, Cleared, Trap, Over, files
  <2>12. bad \in BOOLEAN
    BY <2>3
  <2>13. Failures'
    BY <2>1, <2>8, <2>12 DEF Inv, Failures, Types, Inside, Body, Early, Passing, Cleared, Trap,
       Over, exits, world
  <2>14. Verdicts'
    BY <2>1, <2>8, <2>12
       DEF Inv, Verdicts, Types, Inside, Body, Trap, Over, files, world, Finished
  <2>15. Results'
    BY <2>1 DEF Inv, Results, Finished, Trap, Over, files, world
  <2>16. QED BY <2>9, <2>10, <2>11, <2>13, <2>14, <2>15 DEF Inv
<1>4. QED BY <1>1, <1>2, <1>3 DEF Types

-----------------------------------------------------------------------------
(* Theorems                                                                *)

LEMMA JournalStep == ASSUME Types, Next PROVE journal' \in Journals
<1>1. CASE Phased
  <2>1. \/ journal' = journal
        \/ \E n \in Phases, s \in Statuses : Record(n, s)
    <3>1. CASE LoadSpec
      BY <3>1 DEF LoadSpec, Fails, Follows, Phases, Statuses, Preflight
    <3>2. CASE PrepareRuntime
      BY <3>2 DEF PrepareRuntime, Fails, Follows, Phases, Statuses, Prepare
    <3>3. CASE StartChildren
      BY <3>3 DEF StartChildren, Fails, Follows, Phases, Statuses, Stabilize
    <3>4. CASE WorkloadPhase
      BY <3>4 DEF WorkloadPhase, Fails, Follows, Phases, Statuses, Types, PreWarmup, Measure
    <3>5. CASE StopChildren
      BY <3>5 DEF StopChildren, Fails, Follows, Phases, Statuses, Cooldown
    <3>6. CASE RunAssertions
      BY <3>6 DEF RunAssertions, Fails, Follows, Phases, Statuses, Validate
    <3>7. CASE Decide
      BY <3>7 DEF Decide, Fails, Follows, Phases, Statuses, Collect
    <3>8. CASE CleanUp
      BY <3>8 DEF CleanUp, Fails, Follows, Phases, Statuses, Cleanup
    <3>9. CASE TerminalCleanup
      BY <3>9 DEF TerminalCleanup, Fails, Follows, Phases, Statuses, Cleanup
    <3>10. QED BY <1>1, <3>1, <3>2, <3>3, <3>4, <3>5, <3>6, <3>7, <3>8, <3>9 DEF Phased
  <2>2. QED BY <2>1, Recording DEF Types
<1>2. CASE Filled
  <2>1. CASE ~Benchmark
    BY <1>2, <2>1 DEF Filled, WorkloadPhaseFails, CompletePhases, Types
  <2>2. CASE Benchmark /\ WorkloadPhaseFails
    <3>1. wl \in 1..12 /\ 7 \in 0..10 /\ "failed" \in Statuses
      BY <2>2 DEF WorkloadPhaseFails, Types, PreWarmup, Measure, Statuses
    <3>2. journal' = journal \o Closing(wl, 7, "failed")
      BY <2>2 DEF WorkloadPhaseFails, Measure
    <3>3. QED BY <2>2, <3>1, <3>2, ClosingRows DEF Types
  <2>3. CASE Benchmark /\ CompletePhases
    <3> DEFINE a == LastSequence(journal) + 1
               s == IF HasFailure(journal) THEN "skipped" ELSE "failed"
    <3>1. a \in 1..12 /\ 10 \in 0..10 /\ s \in Statuses
      BY LastInRange DEF Types, Statuses
    <3>2. journal' = journal \/ journal' = journal \o Closing(a, 10, s)
      BY <2>3 DEF CompletePhases, Completed, Collect
    <3> HIDE DEF a, s
    <3>3. QED BY <2>3, <3>1, <3>2, ClosingRows DEF Types
  <2>4. QED BY <1>2, <2>1, <2>2, <2>3 DEF Filled
<1>3. CASE Quiet
  BY <1>3 DEF Quiet, Reserve, WriteManifest, StartWorkload, WorkloadRefuses, WorkloadKilled,
     CollectEvidence, MarkCleaned, MaterializeControls, WritePassed, FlagWritten, Verify,
     EndBody, HandleTermination, TerminalControls, RestoreManifest, TerminalVerdict, Types
<1>4. CASE Outer
  BY <1>4 DEF Outer, StraySignal, GoStops, GoKills, GoReturns, Types
<1>5. QED BY <1>1, <1>2, <1>3, <1>4, NextByKind

LEMMA TypesStep == ASSUME Types, Next PROVE Types'
<1>1. /\ journal' \in Journals
      /\ bg' \in BOOLEAN
      /\ workload' \in BOOLEAN
      /\ assert' \in BOOLEAN
      /\ scan' \in BOOLEAN
      /\ code' \in BOOLEAN
      /\ owned' \in BOOLEAN
      /\ written' \in BOOLEAN
      /\ cleaned' \in BOOLEAN
      /\ terminal' \in BOOLEAN
      /\ rowless' \in BOOLEAN
      /\ sig' \in BOOLEAN
      /\ mode' \in {"benchmark", "ordinary"} /\ strays' \in Nat
      /\ manifest' \in {"none", "minimal", "full"}
      /\ verdict' \in {"none", "passed", "failed"}
      /\ go' \in {"waiting", "stopping", "done"} /\ result' \in {"none", "passed", "failed"}
      /\ pc' \in Inside \cup Trap \cup Over
      /\ wl' \in {0} \cup PreWarmup..Measure
      /\ pc' # "dead" => (wl' # 0 <=> pc' = "workload.runs")
  <2> USE DEF Next, Shell, Reserve, WriteManifest, LoadSpec, PrepareRuntime, StartChildren,
          StartWorkload, WorkloadPhase, WorkloadPhaseFails, WorkloadRefuses, WorkloadKilled,
          StopChildren, RunAssertions, CollectEvidence, Decide, CleanUp, MarkCleaned,
          MaterializeControls, WritePassed, FlagWritten, Verify, EndBody, HandleTermination,
          CompletePhases, TerminalCleanup, TerminalControls, RestoreManifest, TerminalVerdict,
          StraySignal, GoStops, GoKills, GoReturns, Signal, WorkloadReturns, At, Fails,
          exits, files, flags, world, Types
  <2>1. journal' \in Journals
    BY JournalStep
  <2>2. bg' \in BOOLEAN
    OBVIOUS
  <2>3. workload' \in BOOLEAN
    OBVIOUS
  <2>4. assert' \in BOOLEAN
    OBVIOUS
  <2>5. scan' \in BOOLEAN
    OBVIOUS
  <2>6. code' \in BOOLEAN
    OBVIOUS
  <2>7. owned' \in BOOLEAN
    OBVIOUS
  <2>8. written' \in BOOLEAN
    OBVIOUS
  <2>9. cleaned' \in BOOLEAN
    OBVIOUS
  <2>10. terminal' \in BOOLEAN
    OBVIOUS
  <2>11. rowless' \in BOOLEAN
    OBVIOUS
  <2>12. sig' \in BOOLEAN
    <3>1. CASE StraySignal \/ GoStops
      BY <3>1
    <3>2. CASE ~(StraySignal \/ GoStops)
      BY <3>2
    <3>3. QED BY <3>1, <3>2
  <2>13. mode' \in {"benchmark", "ordinary"} /\ strays' \in Nat
    <3>1. mode' = mode
      OBVIOUS
    <3>2. strays' = strays \/ strays' = strays + 1
      OBVIOUS
    <3>3. QED BY <3>1, <3>2
  <2>14. manifest' \in {"none", "minimal", "full"}
    OBVIOUS
  <2>15. verdict' \in {"none", "passed", "failed"}
    OBVIOUS
  <2>16. go' \in {"waiting", "stopping", "done"} /\ result' \in {"none", "passed", "failed"}
    OBVIOUS
  <2>17. pc' \in Inside \cup Trap \cup Over
    BY ZenonT(30) DEF Inside, Body, Trap, Over
  <2>18. /\ wl' \in {0} \cup PreWarmup..Measure
         /\ pc' # "dead" => (wl' # 0 <=> pc' = "workload.runs")
    <3>1. CASE WorkloadPhase
      BY <3>1 DEF PreWarmup, Measure
    <3>2. CASE StartWorkload
      BY <3>2 DEF PreWarmup, Measure
    <3>3. CASE WorkloadPhaseFails \/ WorkloadRefuses \/ WorkloadKilled
      BY <3>3
    <3>4. CASE StraySignal \/ GoStops \/ GoKills \/ GoReturns
      BY <3>4
    <3>5. CASE ~(\/ WorkloadPhase \/ StartWorkload \/ WorkloadPhaseFails \/ WorkloadRefuses
                \/ WorkloadKilled \/ StraySignal \/ GoStops \/ GoKills \/ GoReturns)
      <4>1. wl' = wl /\ pc # "dead" /\ pc # "workload.runs" /\ pc' # "workload.runs"
        BY <3>5 DEF Body
      <4>2. QED BY <4>1
    <3>6. QED BY <3>1, <3>2, <3>3, <3>4, <3>5
  <2>20. QED BY <2>1, <2>2, <2>3, <2>4, <2>5, <2>6, <2>7, <2>8, <2>9, <2>10, <2>11, <2>12, <2>13, <2>14, <2>15, <2>16, <2>17, <2>18
<1>2. QED BY <1>1 DEF Types

LEMMA InvInit == Init => IInv
<1> SUFFICES ASSUME Init PROVE IInv
  OBVIOUS
<1>1. journal = <<>> /\ journal \in Journals /\ Len(journal) = 0
  BY EmptySeq DEF Init, Journals
<1>2. Types
  BY <1>1 DEF Init, Types, Inside, Body
<1>3. Orderly(journal) /\ ~HasFailure(journal) /\ LastSequence(journal) = 0
  BY <1>1, FailureByIndex DEF Orderly, FailedBy, LastSequence
<1>4. Length /\ InOrder /\ Modes
  BY <1>1, <1>3
     DEF Init, Length, InOrder, Placed, Modes, Passing, Cleared, Inside, Body, Trap, Over
<1>5. Failures /\ Verdicts /\ Results
  BY <1>3 DEF Init, Failures, Verdicts, Results, Finished, Inside, Body, Trap, Over, Passing
<1>6. QED BY <1>2, <1>4, <1>5 DEF IInv, Inv

LEMMA InvStutter == IInv /\ UNCHANGED vars => IInv'
BY DEF IInv, Inv, vars, exits, files, flags, world, Types, Length, InOrder, Placed, Modes,
   Failures, Verdicts, Results, Finished, VerdictMatchesResult, Benchmark

LEMMA InvNext == IInv /\ Next => IInv'
<1> SUFFICES ASSUME Types, Inv, Next PROVE Inv'
  BY TypesStep DEF IInv
<1>1. CASE Phased
  BY <1>1, BodyPhaseStep, WorkloadPhaseStep, DecideStep, CleanupStep DEF Phased
<1>2. CASE Filled
  BY <1>2, WorkloadPhaseFailsStep, CompletePhasesStep DEF Filled
<1>3. CASE Quiet
  BY <1>3, QuietStep
<1>4. CASE Outer
  BY <1>4, SignalsStep, GoReturnsStep DEF Outer
<1>5. QED BY <1>1, <1>2, <1>3, <1>4, NextByKind

LEMMA Invariance == Spec => []IInv
<1>1. Init => IInv
  BY InvInit
<1>2. IInv /\ [Next]_vars => IInv'
  BY InvNext, InvStutter
<1>3. QED BY <1>1, <1>2, PTL DEF Spec

\* What the invariant says of the verdict and of the journal.
LEMMA InvVerdict == IInv => VerdictMatchesResult
BY DEF IInv, Inv, Results, VerdictMatchesResult

LEMMA InvJournal == IInv => JournalIsTrue
<1> SUFFICES ASSUME IInv PROVE JournalIsTrue
  OBVIOUS
<1>1. AbortedTrialsParse
  <2> SUFFICES ASSUME pc = "exited", Benchmark, ~rowless PROVE Accepted(journal)
    BY DEF AbortedTrialsParse
  <2>1. journal \in Journals /\ Orderly(journal) /\ Len(journal) = 11
    BY DEF IInv, Types, Inv, InOrder, Placed
  <2>2. QED BY <2>1, OrderlyAccepted
<1>2. FailedPhaseFailsRun
  BY DEF FailedPhaseFailsRun, IInv, Inv, Types, Failures, Verdicts
<1>3. QED BY <1>1, <1>2 DEF JournalIsTrue

\* A step that makes the verdict passed finds every gate passed.
Gated == verdict # "passed" /\ verdict' = "passed" =>
           /\ ~workload /\ ~assert /\ ~scan
           /\ mode = "benchmark" => TimelinePassed(journal)

LEMMA GateStep == IInv /\ Next => Gated
<1> SUFFICES ASSUME IInv, Next, verdict # "passed", verdict' = "passed"
             PROVE  /\ ~workload /\ ~assert /\ ~scan
                    /\ Benchmark => TimelinePassed(journal)
  BY DEF Gated, Benchmark
<1>1. WritePassed
  BY DEF Next, Shell, Reserve, WriteManifest, LoadSpec, PrepareRuntime, StartChildren,
     StartWorkload, WorkloadPhase, WorkloadPhaseFails, WorkloadRefuses, WorkloadKilled,
     StopChildren, RunAssertions, CollectEvidence, Decide, CleanUp, MarkCleaned,
     MaterializeControls, FlagWritten, Verify, EndBody, HandleTermination, CompletePhases,
     TerminalCleanup, TerminalControls, RestoreManifest, TerminalVerdict, StraySignal, GoStops,
     GoKills, GoReturns, files
<1>2. pc = "verdict" /\ ~workload /\ ~assert /\ ~scan
  BY <1>1 DEF WritePassed, At
<1>3. ASSUME Benchmark PROVE TimelinePassed(journal)
  <2>1. ~rowless /\ ~HasFailure(journal)
    BY <1>2 DEF IInv, Types, Inv, Failures, Cleared
  <2>2. journal \in Journals /\ Orderly(journal) /\ Len(journal) = 11
    BY <1>2, <1>3, <2>1 DEF IInv, Types, Inv, InOrder, Placed, Passing
  <2>3. QED BY <2>1, <2>2, OrderlyAccepted DEF TimelinePassed
<1>4. QED BY <1>2, <1>3

\* The verdict on disk and the result the caller gets agree, wherever the
\* shell failed or was stopped (run_experiment.sh, experimentrun.Run).
THEOREM VerdictsAgree == Spec => []VerdictMatchesResult
BY InvVerdict, Invariance, PTL

\* The journal a run leaves is one the Go reader accepts, and a failed phase
\* fails the run (benchmark_phase.sh, benchmarkphase.build).
THEOREM JournalsAreTrue == Spec => []JournalIsTrue
BY InvJournal, Invariance, PTL

\* No verdict becomes passed before every exit is zero and, with a journal,
\* eleven phases are on record without a failure (write_verdict).
THEOREM GatesBeforePassed == Spec => PassedAfterAllGates
<1>1. IInv /\ [Next]_vars => [Gated]_vars
  BY GateStep
<1>2. [][Gated]_vars => PassedAfterAllGates
  <2>1. Gated => (verdict # "passed" /\ verdict' = "passed" =>
                    /\ ~workload /\ ~assert /\ ~scan
                    /\ Benchmark => TimelinePassed(journal))
    BY DEF Gated, Benchmark
  <2>2. QED BY <2>1, PTL DEF PassedAfterAllGates
<1>3. QED BY <1>1, <1>2, Invariance, PTL DEF Spec

\* The types of the variables, for any number of stray signals.
THEOREM RunTypes == ASSUME MaxStrays \in Nat PROVE Spec => []TypeOK
<1> DEFINE Bound == strays <= MaxStrays
<1>1. Init => Bound
  BY DEF Init
<1>2. IInv /\ Bound /\ [Next]_vars => Bound'
  <2> SUFFICES ASSUME IInv, Bound, [Next]_vars PROVE Bound'
    OBVIOUS
  <2>1. CASE StraySignal
    BY <2>1 DEF StraySignal, IInv, Types
  <2>2. CASE strays' = strays
    BY <2>2
  <2>3. QED
    BY <2>1, <2>2
       DEF Next, Shell, Reserve, WriteManifest, LoadSpec, PrepareRuntime, StartChildren,
       StartWorkload, WorkloadPhase, WorkloadPhaseFails, WorkloadRefuses, WorkloadKilled,
       StopChildren, RunAssertions, CollectEvidence, Decide, CleanUp, MarkCleaned,
       MaterializeControls, WritePassed, FlagWritten, Verify, EndBody, HandleTermination,
       CompletePhases, TerminalCleanup, TerminalControls, RestoreManifest, TerminalVerdict,
       GoStops, GoKills, GoReturns, world, vars
<1>3. IInv /\ Bound => TypeOK
  <2> SUFFICES ASSUME IInv, Bound PROVE TypeOK
    OBVIOUS
  <2>1. Len(journal) \in Nat /\ Len(journal) <= (IF rowless THEN 12 ELSE 11)
    <3>1. Len(journal) \in Nat /\ (~Benchmark => Len(journal) = 0)
      BY FailureByIndex, EmptySeq DEF IInv, Types, Inv, Modes
    <3>2. QED BY <3>1 DEF IInv, Inv, Length, InOrder, Placed
  <2>2. QED BY <2>1 DEF IInv, Types, TypeOK, Inside, Journals
<1>4. QED BY <1>1, <1>2, <1>3, Invariance, PTL DEF Spec
=============================================================================
