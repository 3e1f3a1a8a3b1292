------------------------- MODULE VictimProbeProofs --------------------------
(***************************************************************************)
(* Proofs about VictimProbe, for every period, range and duration, with    *)
(* any number of rows.  The two properties need an account of where every  *)
(* value is, and of how the loop's next deadline follows its last wake-up. *)
(***************************************************************************)
EXTENDS VictimProbe, SequenceTheorems, FiniteSetTheorems, TLAPS

Histogram == [n : Nat, max : Nat]

-----------------------------------------------------------------------------
(* The values in the rows *)

\* The rows of a file and their numbers of values.
LEMMA RowsType ==
  ASSUME NEW rows \in Seq(Histogram)
  PROVE  /\ Len(rows) \in Nat /\ DOMAIN rows = 1..Len(rows)
         /\ \A k \in 1..Len(rows) : rows[k] \in Histogram /\ rows[k].n \in Nat
<1>1. \A k \in 1..Len(rows) : rows[k] \in Histogram
  OBVIOUS
<1>2. \A x \in Histogram : x.n \in Nat
  BY DEF Histogram
<1>3. QED
  BY <1>1, <1>2

\* A row counts as many values as it says.
LEMMA RowCounts ==
  ASSUME NEW k, NEW n \in Nat
  PROVE  IsFiniteSet({k} \X (1..n)) /\ Cardinality({k} \X (1..n)) = n
<1>1. IsFiniteSet({k}) /\ Cardinality({k}) = 1
  BY FS_Singleton
<1>2. IsFiniteSet(1..n) /\ Cardinality(1..n) = n
  BY FS_Interval
<1>3. /\ IsFiniteSet({k} \X (1..n))
      /\ Cardinality({k} \X (1..n)) = Cardinality({k}) * Cardinality(1..n)
  BY <1>1, <1>2, FS_Product
<1>4. 1 * n = n
  OBVIOUS
<1>5. QED
  BY <1>1, <1>2, <1>3, <1>4

\* A file holds finitely many values.
LEMMA RecordedFinite ==
  ASSUME NEW rows \in Seq(Histogram)
  PROVE  IsFiniteSet(Recorded(rows))
<1> DEFINE n == Len(rows)
           R == {{k} \X (1..rows[k].n) : k \in 1..n}
           f == [k \in 1..n |-> {k} \X (1..rows[k].n)]
<1>1. n \in Nat /\ DOMAIN rows = 1..n /\ \A k \in 1..n : rows[k].n \in Nat
  BY RowsType
<1>2. f \in Surjection(1..n, R)
  BY DEF Surjection
<1>3. IsFiniteSet(1..n)
  BY <1>1, FS_Interval
<1>4. IsFiniteSet(R)
  BY <1>2, <1>3, FS_Surjection
<1>5. \A S \in R : IsFiniteSet(S)
  <2>1. ASSUME NEW k \in 1..n PROVE IsFiniteSet({k} \X (1..rows[k].n))
    BY <1>1, RowCounts
  <2>2. QED
    BY <2>1
<1>6. Recorded(rows) = UNION R
  BY <1>1 DEF Recorded
<1>7. QED
  BY <1>4, <1>5, <1>6, FS_UNION

\* So their number is a natural number.
LEMMA ValuesType ==
  ASSUME NEW rows \in Seq(Histogram)
  PROVE  Values(rows) \in Nat
BY RecordedFinite, FS_CardinalityType DEF Values

\* A file without rows holds none.
LEMMA ValuesEmpty == Values(<< >>) = 0
<1>1. Recorded(<< >>) = {}
  BY DEF Recorded
<1>2. QED
  BY <1>1, FS_EmptySet DEF Values

\* A row that is appended adds its values.
LEMMA ValuesAppend ==
  ASSUME NEW rows \in Seq(Histogram), NEW r \in Histogram
  PROVE  Values(Append(rows, r)) = Values(rows) + r.n
<1> DEFINE all == Append(rows, r)
           n == Len(rows)
           new == {n + 1} \X (1..r.n)
<1>1. /\ all \in Seq(Histogram) /\ n \in Nat /\ r.n \in Nat
      /\ DOMAIN rows = 1..n /\ DOMAIN all = 1..(n + 1)
      /\ \A k \in 1..n : all[k] = rows[k]
      /\ all[n + 1] = r
  BY RowsType, AppendProperties DEF Histogram
<1>2. Recorded(all) = Recorded(rows) \cup new
  <2>1. \A k \in 1..(n + 1) : k \in 1..n \/ k = n + 1
    BY <1>1
  <2>2. 1..n \subseteq 1..(n + 1) /\ n + 1 \in 1..(n + 1)
    BY <1>1
  <2> HIDE DEF all, n
  <2>3. QED
    BY <1>1, <2>1, <2>2 DEF Recorded
<1>3. Recorded(rows) \cap new = {}
  <2>1. \A v \in Recorded(rows) : v[1] \in 1..n
    BY <1>1 DEF Recorded
  <2>2. \A v \in new : v[1] = n + 1
    OBVIOUS
  <2>3. n + 1 \notin 1..n
    BY <1>1
  <2>4. QED
    BY <2>1, <2>2, <2>3
<1>4. IsFiniteSet(Recorded(rows)) /\ Cardinality(Recorded(rows)) \in Nat
  BY RecordedFinite, FS_CardinalityType
<1>5. IsFiniteSet(new) /\ Cardinality(new) = r.n
  BY <1>1, RowCounts
<1> HIDE DEF new
<1>6. Cardinality(Recorded(rows) \cup new) = Cardinality(Recorded(rows)) + r.n - 0
  BY <1>3, <1>4, <1>5, FS_Union, FS_EmptySet
<1>7. QED
  BY <1>1, <1>2, <1>4, <1>6 DEF Values

-----------------------------------------------------------------------------
(* The inductive invariant *)

Types ==
  /\ mode \in {"hires_jitter", "http_rtt"}
  /\ clock \in Nat /\ ctx \in BOOLEAN /\ tick \in BOOLEAN /\ beat \in BOOLEAN
  /\ loop \in {"top", "wait", "request", "bucket", "snapshot", "returned"}
  /\ target \in Nat /\ actual \in Nat /\ value \in Nat
  /\ h \in Histogram /\ bucket \in Histogram /\ row \in Histogram /\ hdr \in Histogram
  /\ roller \in {"select", "write", "returned"}
  /\ csv \in Seq(Histogram)
  /\ saved \in BOOLEAN

\* The loop has measured up to its last wake-up or request, and its next deadline
\* is never more than one period beyond that, nor more than the skip limit before.
Deadline ==
  /\ actual <= clock
  /\ mode = "hires_jitter" /\ loop \in {"top", "wait"} =>
       target <= actual + Period /\ actual <= target + SkipAfter
  /\ mode = "hires_jitter" /\ loop = "bucket" => target <= actual
  /\ loop = "wait" => mode = "hires_jitter"
  /\ loop = "request" => mode = "http_rtt"

\* Every value of h is in the rows, in bucketHist or between the two.
Conserved == h.n = Rolled + bucket.n + OnItsWay

\* No figure of a row, written or not, is beyond those of the run.
Covered ==
  /\ bucket.max <= h.max
  /\ loop = "bucket" /\ value <= MaxValue => value <= h.max
  /\ roller = "write" => row.max <= h.max
  /\ \A k \in DOMAIN csv : csv[k].max <= h.max

\* The snapshot is the last thing the process makes of h.
SnapshotIsLast == saved => loop = "returned" /\ hdr = h

Inv == Types /\ Deadline /\ Conserved /\ Covered /\ SnapshotIsLast

\* What a histogram holds.
LEMMA HistogramType ==
  ASSUME NEW x \in Histogram
  PROVE  x.n \in Nat /\ x.max \in Nat
BY DEF Histogram

\* The histogram after a reset.
LEMMA EmptyType == Empty \in Histogram /\ Empty.n = 0 /\ Empty.max = 0
BY DEF Empty, Histogram

\* What RecordValue does to a histogram.
LEMMA RecordValueType ==
  ASSUME NEW x \in Histogram, NEW v \in Nat
  PROVE  /\ RecordValue(x, v) \in Histogram
         /\ RecordValue(x, v).n = x.n + (IF v <= MaxValue THEN 1 ELSE 0)
         /\ x.max <= RecordValue(x, v).max
         /\ v <= MaxValue => v <= RecordValue(x, v).max
         /\ \A m \in Nat : x.max <= m /\ (v <= MaxValue => v <= m) => RecordValue(x, v).max <= m
<1>1. x.n \in Nat /\ x.max \in Nat /\ MaxValue \in Nat
  BY HistogramType, TimeAssumption
<1>2. CASE v > MaxValue
  <2>1. RecordValue(x, v) = x /\ ~(v <= MaxValue)
    BY <1>1, <1>2 DEF RecordValue
  <2>2. QED
    BY <1>1, <2>1
<1>3. CASE ~(v > MaxValue)
  <2> DEFINE y == [n |-> x.n + 1, max |-> IF v > x.max THEN v ELSE x.max]
  <2>1. RecordValue(x, v) = y /\ v <= MaxValue
    BY <1>1, <1>3 DEF RecordValue
  <2>2. y \in Histogram /\ y.n = x.n + 1 /\ y.max = IF v > x.max THEN v ELSE x.max
    BY <1>1 DEF Histogram
  <2>3. QED
    BY <1>1, <2>1, <2>2
<1>4. QED
  BY <1>2, <1>3

\* The invariant holds before the loop starts.
LEMMA InitInv == Init => Inv
<1> SUFFICES ASSUME Init PROVE Inv
  OBVIOUS
<1> USE TimeAssumption DEF Init, runJitter, runHTTP
<1>1. << >> \in Seq(Histogram) /\ DOMAIN << >> = {}
  OBVIOUS
<1>2. Types
  <2>1. target \in Nat /\ mode \in {"hires_jitter", "http_rtt"}
    OBVIOUS
  <2>2. h \in Histogram /\ bucket \in Histogram /\ row \in Histogram /\ hdr \in Histogram
    BY EmptyType
  <2>3. csv \in Seq(Histogram)
    BY <1>1
  <2>4. QED
    BY <2>1, <2>2, <2>3 DEF Types
<1>3. Deadline
  BY DEF Deadline
<1>4. Conserved
  BY ValuesEmpty, EmptyType DEF Conserved, Rolled, OnItsWay
<1>5. Covered
  BY <1>1, EmptyType DEF Covered
<1>6. QED
  BY <1>2, <1>3, <1>4, <1>5 DEF Inv, SnapshotIsLast

\* The types of a state, in the form the steps below use.
LEMMA Facts ==
  ASSUME Types
  PROVE  /\ clock \in Nat /\ target \in Nat /\ actual \in Nat /\ value \in Nat
         /\ h.n \in Nat /\ h.max \in Nat /\ bucket.n \in Nat /\ bucket.max \in Nat
         /\ row.n \in Nat /\ row.max \in Nat /\ hdr.n \in Nat /\ hdr.max \in Nat
         /\ Values(csv) \in Nat /\ Rolled \in Nat /\ OnItsWay \in {0, 1}
         /\ Period \in Nat \ {0} /\ SkipAfter \in Nat /\ MaxValue \in Nat
<1>1. /\ clock \in Nat /\ target \in Nat /\ actual \in Nat /\ value \in Nat
      /\ h \in Histogram /\ bucket \in Histogram /\ row \in Histogram /\ hdr \in Histogram
      /\ csv \in Seq(Histogram)
  BY DEF Types
<1>2. /\ h.n \in Nat /\ h.max \in Nat /\ bucket.n \in Nat /\ bucket.max \in Nat
      /\ row.n \in Nat /\ row.max \in Nat /\ hdr.n \in Nat /\ hdr.max \in Nat
      /\ Values(csv) \in Nat
  BY <1>1, HistogramType, ValuesType
<1>3. Rolled \in Nat /\ OnItsWay \in {0, 1}
  BY <1>2 DEF Rolled, OnItsWay
<1>4. QED
  BY <1>1, <1>2, <1>3, TimeAssumption

\* A step that moves neither a value nor the deadline, and does not lead into or
\* out of the loop's recording part.
LEMMA Frame ==
  ASSUME Inv, Types',
         UNCHANGED <<mode, target, h, bucket, value, row, csv, roller>>,
         actual' = actual, clock <= clock',
         (loop # "bucket" /\ loop' # "bucket") \/ loop' = loop,
         (mode = "hires_jitter" /\ loop' \in {"top", "wait"}) => loop \in {"top", "wait"},
         loop' = "wait" => mode = "hires_jitter",
         loop' = "request" => mode = "http_rtt",
         UNCHANGED <<hdr, saved>>, saved => loop' = loop
  PROVE  Inv'
<1>1. Deadline'
  <2>1. /\ clock \in Nat /\ clock' \in Nat /\ actual \in Nat /\ target \in Nat
        /\ Period \in Nat
    BY Facts DEF Inv, Types
  <2>2. Deadline
    BY DEF Inv
  <2>3. actual' <= clock'
    BY <2>1, <2>2 DEF Deadline
  <2>4. QED
    BY <2>2, <2>3 DEF Deadline
<1>2. Rolled' = Rolled /\ OnItsWay' = OnItsWay
  BY DEF Rolled, OnItsWay
<1>3. Conserved' /\ Covered' /\ SnapshotIsLast'
  BY <1>2 DEF Inv, Conserved, Covered, SnapshotIsLast
<1>4. QED
  BY <1>1, <1>3 DEF Inv

-----------------------------------------------------------------------------
(* The steps *)

\* A value is measured and goes into h.
LEMMA MeasureKeeps ==
  ASSUME Inv, Wake \/ Respond
  PROVE  Inv'
<1> USE TimeAssumption
<1>0. Types /\ Deadline
  BY DEF Inv
<1>1. /\ loop # "bucket" /\ loop # "returned" /\ loop' = "bucket"
      /\ value' \in Nat /\ h' = RecordValue(h, value') /\ actual' \in Nat /\ actual' <= clock
      /\ mode = "hires_jitter" => target <= actual'
      /\ clock' = clock
      /\ UNCHANGED <<mode, ctx, target, beat, bucket, roller, row, csv, tick, hdr, saved>>
  <2>1. CASE Wake
    <3>1. /\ clock >= target /\ actual' = clock /\ value' = clock - target
          /\ clock \in Nat /\ target \in Nat
      BY <2>1, <1>0, Facts DEF Wake, sleepUntil
    <3>2. QED
      BY <2>1, <3>1 DEF Wake, rollerVars, outVars
  <2>2. CASE Respond
    <3>1. /\ actual <= clock /\ actual' = actual /\ value' = clock - actual
          /\ clock \in Nat /\ actual \in Nat /\ mode = "http_rtt"
      BY <2>2, <1>0, Facts DEF Respond, Deadline
    <3>2. QED
      BY <2>2, <3>1 DEF Respond, rollerVars, outVars
  <2>3. QED
    BY <2>1, <2>2
<1>2. /\ h' \in Histogram /\ h'.n = h.n + (IF value' <= MaxValue THEN 1 ELSE 0)
      /\ h.max <= h'.max /\ (value' <= MaxValue => value' <= h'.max)
  BY <1>0, <1>1, RecordValueType DEF Types
<1>3. h'.max \in Nat
  BY <1>2, HistogramType
<1>4. Types'
  BY <1>0, <1>1, <1>2 DEF Types
<1>5. Deadline'
  BY <1>0, <1>1 DEF Deadline
<1>6. Conserved'
  <2>1. /\ OnItsWay = 0 /\ OnItsWay' = (IF value' <= MaxValue THEN 1 ELSE 0)
        /\ Rolled' = Rolled /\ bucket' = bucket
    BY <1>1 DEF OnItsWay, Rolled
  <2>2. h.n = Rolled + bucket.n
    BY <1>0, <2>1, Facts DEF Inv, Conserved
  <2>3. QED
    BY <1>0, <1>2, <2>1, <2>2, Facts DEF Conserved
<1>7. Covered'
  <2>1. \A k \in DOMAIN csv : csv[k].max \in Nat /\ csv[k].max <= h.max
    <3>1. \A k \in DOMAIN csv : csv[k] \in Histogram
      BY <1>0, RowsType DEF Types
    <3>2. QED
      BY <3>1, HistogramType DEF Inv, Covered
  <2>2. /\ bucket.max <= h.max /\ (roller = "write" => row.max <= h.max)
        /\ bucket.max \in Nat /\ row.max \in Nat /\ h.max \in Nat
    BY <1>0, Facts DEF Inv, Covered
  <2>3. QED
    BY <1>1, <1>2, <1>3, <2>1, <2>2 DEF Covered
<1>8. SnapshotIsLast'
  BY <1>1 DEF Inv, SnapshotIsLast
<1>9. QED
  BY <1>4, <1>5, <1>6, <1>7, <1>8 DEF Inv

\* The value goes into bucketHist, and the next deadline is set.
LEMMA RecordBucketKeeps ==
  ASSUME Inv, RecordBucket
  PROVE  Inv'
<1>0. Types /\ Deadline
  BY DEF Inv
<1>1. /\ bucket' \in Histogram
      /\ bucket'.n = bucket.n + (IF value <= MaxValue THEN 1 ELSE 0)
      /\ bucket'.max <= h.max
  <2>1. bucket.max <= h.max /\ (value <= MaxValue => value <= h.max) /\ h.max \in Nat
    BY <1>0, Facts DEF Inv, Covered, RecordBucket
  <2>2. QED
    BY <1>0, <2>1, RecordValueType DEF Types, RecordBucket
<1>2. /\ target' \in Nat
      /\ mode = "hires_jitter" => target' <= actual + Period /\ actual <= target' + SkipAfter
  BY <1>0, Facts DEF RecordBucket, NextTarget, Deadline
<1>3. Types'
  BY <1>0, <1>1, <1>2 DEF Types, RecordBucket, rollerVars, outVars
<1>4. Deadline'
  BY <1>0, <1>2 DEF Deadline, RecordBucket
<1>5. Conserved'
  <2>1. /\ OnItsWay = (IF value <= MaxValue THEN 1 ELSE 0) /\ OnItsWay' = 0
        /\ Rolled' = Rolled /\ h' = h
    BY DEF OnItsWay, Rolled, RecordBucket, rollerVars
  <2>2. h.n = Rolled + bucket.n + OnItsWay
    BY DEF Inv, Conserved
  <2>3. h.n = Rolled + bucket'.n + 0
    BY <1>0, <1>1, <2>1, <2>2, Facts
  <2>4. QED
    BY <2>1, <2>3 DEF Conserved
<1>6. Covered' /\ SnapshotIsLast'
  BY <1>1 DEF Inv, Covered, SnapshotIsLast, RecordBucket, rollerVars, outVars
<1>7. QED
  BY <1>3, <1>4, <1>5, <1>6 DEF Inv

\* A second's figures leave bucketHist.
LEMMA RollKeepsInv ==
  ASSUME Inv, Roll
  PROVE  Inv'
<1>0. Types /\ Deadline
  BY DEF Inv
<1>1. /\ roller = "select" /\ roller' = "write" /\ row' = bucket /\ bucket' = Empty
      /\ UNCHANGED <<mode, clock, loop, target, actual, value, h, csv, hdr, saved, ctx, beat>>
      /\ tick' = FALSE
  BY DEF Roll, probeVars, outVars
<1>2. Types'
  BY <1>0, <1>1, EmptyType DEF Types
<1>3. Conserved'
  <2>1. /\ Rolled = Values(csv) + 0 /\ Rolled' = Values(csv) + bucket.n
        /\ OnItsWay' = OnItsWay /\ bucket'.n = 0
    BY <1>1, EmptyType DEF Rolled, OnItsWay
  <2>2. QED
    BY <1>0, <1>1, <2>1, Facts DEF Inv, Conserved
<1>4. Deadline' /\ SnapshotIsLast'
  BY <1>1 DEF Inv, Deadline, SnapshotIsLast
<1>5. Covered'
  BY <1>0, <1>1, EmptyType, Facts DEF Inv, Covered
<1>6. QED
  BY <1>2, <1>3, <1>4, <1>5 DEF Inv

\* They reach the file.
LEMMA WriteRowKeeps ==
  ASSUME Inv, WriteRow
  PROVE  Inv'
<1>0. Types /\ Deadline
  BY DEF Inv
<1>1. /\ roller = "write" /\ roller' = "select" /\ csv' = Append(csv, row)
      /\ csv \in Seq(Histogram) /\ row \in Histogram
      /\ UNCHANGED <<mode, clock, ctx, loop, target, actual, value, h, beat, bucket, row,
                     tick, hdr, saved>>
  BY <1>0 DEF Types, WriteRow, probeVars, outVars
<1>2. Types'
  <2>1. csv' \in Seq(Histogram)
    BY <1>1, AppendProperties
  <2>2. QED
    BY <1>0, <1>1, <2>1 DEF Types
<1>3. Conserved'
  <2>1. Rolled = Values(csv) + row.n /\ Rolled' = Values(csv') + 0
    BY <1>1 DEF Rolled
  <2>2. Values(csv') = Values(csv) + row.n
    BY <1>1, ValuesAppend
  <2>3. OnItsWay' = OnItsWay
    BY <1>1 DEF OnItsWay
  <2>4. Rolled' = Rolled
    BY <1>0, <2>1, <2>2, Facts
  <2>5. QED
    BY <1>1, <2>3, <2>4 DEF Inv, Conserved
<1>4. Deadline' /\ SnapshotIsLast'
  BY <1>1 DEF Inv, Deadline, SnapshotIsLast
<1>5. Covered'
  <2>1. ASSUME NEW k \in DOMAIN csv' PROVE csv'[k].max <= h.max
    <3>1. CASE k \in DOMAIN csv
      <4>1. csv'[k] = csv[k]
        BY <1>1, <3>1, AppendProperties
      <4>2. QED
        BY <3>1, <4>1 DEF Inv, Covered
    <3>2. CASE k \notin DOMAIN csv
      <4>1. csv'[k] = row
        BY <1>1, <3>2, <2>1, AppendProperties
      <4>2. QED
        BY <1>1, <4>1 DEF Inv, Covered
    <3>3. QED
      BY <3>1, <3>2
  <2>2. QED
    BY <1>1, <2>1 DEF Inv, Covered
<1>6. QED
  BY <1>2, <1>3, <1>4, <1>5 DEF Inv

\* victim.hdr is written when nothing can be recorded any more.
LEMMA SnapshotKeeps ==
  ASSUME Inv, Snapshot
  PROVE  Inv'
<1>0. Types
  BY DEF Inv
<1>1. /\ loop = "snapshot" /\ loop' = "returned"
      /\ (hdr' = h /\ saved' = TRUE) \/ UNCHANGED <<hdr, saved>>
      /\ UNCHANGED <<mode, clock, ctx, target, actual, value, h, beat, bucket, roller, row,
                     csv, tick>>
  BY DEF Snapshot, rollerVars, outVars
<1>2. Types'
  BY <1>0, <1>1 DEF Types
<1>3. Conserved'
  <2>1. Rolled' = Rolled /\ OnItsWay' = OnItsWay
    BY <1>1 DEF Rolled, OnItsWay
  <2>2. QED
    BY <1>1, <2>1 DEF Inv, Conserved
<1>4. Deadline' /\ Covered' /\ SnapshotIsLast'
  BY <1>1 DEF Inv, Deadline, Covered, SnapshotIsLast
<1>5. QED
  BY <1>2, <1>3, <1>4 DEF Inv

\* Every step keeps the invariant.
LEMMA InvInductive ==
  ASSUME Inv, [Next]_vars
  PROVE  Inv'
<1>0. Types /\ Deadline /\ SnapshotIsLast
  BY DEF Inv
<1>1. CASE Passes
  <2>1. clock' = clock + 1 /\ clock <= clock' /\ tick' \in BOOLEAN /\ beat' \in BOOLEAN
    BY <1>0, <1>1, Facts DEF Passes, Types
  <2>2. Types'
    BY <1>0, <1>1, <2>1 DEF Types, Passes, probeVars, rollerVars, outVars
  <2>3. QED
    BY <1>0, <1>1, <2>1, <2>2, Frame DEF Passes, probeVars, rollerVars, outVars, Deadline
<1>2. CASE Cancel \/ UNCHANGED vars
  <2>1. clock' = clock /\ clock <= clock /\ ctx' \in BOOLEAN
    <3>1. clock' = clock /\ ctx' \in {ctx, TRUE}
      BY <1>2 DEF Cancel, vars
    <3>2. clock <= clock
      BY <1>0, Facts
    <3>3. QED
      BY <1>0, <3>1, <3>2 DEF Types
  <2>2. Types'
    BY <1>0, <1>2, <2>1 DEF Types, Cancel, vars, probeVars, rollerVars, outVars
  <2>3. QED
    BY <1>0, <1>2, <2>1, <2>2, Frame DEF Cancel, vars, probeVars, rollerVars, outVars, Deadline
<1>3. CASE LoopTop \/ HTTPStops \/ RequestFails
  <2>1. clock' = clock /\ clock <= clock
    BY <1>0, <1>3, Facts DEF LoopTop, HTTPStops, RequestFails
  <2>2. Types'
    BY <1>0, <1>3 DEF Types, LoopTop, HTTPStops, RequestFails, rollerVars, outVars
  <2>3. QED
    BY <1>0, <1>3, <2>1, <2>2, Frame
       DEF LoopTop, HTTPStops, RequestFails, rollerVars, outVars, Deadline, SnapshotIsLast
<1>4. CASE SendRequest
  <2>1. Types'
    BY <1>0, <1>4, Facts DEF Types, SendRequest, rollerVars, outVars
  <2>2. /\ loop = "top" /\ loop' = "request" /\ mode = "http_rtt" /\ actual' = clock
        /\ clock' = clock /\ clock <= clock
        /\ UNCHANGED <<mode, target, value, h, bucket, roller, row, csv, hdr, saved>>
    BY <1>0, <1>4, Facts DEF SendRequest, rollerVars, outVars
  <2>3. Rolled' = Rolled /\ OnItsWay' = OnItsWay
    BY <2>2 DEF Rolled, OnItsWay
  <2>4. Deadline' /\ Conserved' /\ Covered' /\ SnapshotIsLast'
    BY <2>2, <2>3 DEF Inv, Deadline, Conserved, Covered, SnapshotIsLast
  <2>5. QED
    BY <2>1, <2>4 DEF Inv
<1>5. CASE RollerReturns
  <2>1. Types'
    BY <1>0, <1>5 DEF Types, RollerReturns, probeVars, outVars
  <2>2. /\ roller = "select" /\ roller' = "returned"
        /\ UNCHANGED <<mode, clock, loop, target, actual, value, h, bucket, row, csv, hdr,
                       saved>>
    BY <1>5 DEF RollerReturns, probeVars, outVars
  <2>3. Rolled' = Rolled /\ OnItsWay' = OnItsWay
    BY <2>2 DEF Rolled, OnItsWay
  <2>4. Deadline' /\ Conserved' /\ Covered' /\ SnapshotIsLast'
    BY <2>2, <2>3 DEF Inv, Deadline, Conserved, Covered, SnapshotIsLast
  <2>5. QED
    BY <2>1, <2>4 DEF Inv
<1>6. QED
  BY <1>1, <1>2, <1>3, <1>4, <1>5, MeasureKeeps, RecordBucketKeeps, RollKeepsInv,
     WriteRowKeeps, SnapshotKeeps DEF Next

-----------------------------------------------------------------------------
(* The theorems *)

\* In every state of the victim each value is accounted for, no row is beyond the
\* run's histogram, and the next deadline follows the last wake-up
\* (chaos-victim/main.go 128-206).
THEOREM Invariant == Spec => []Inv
<1>1. Inv /\ [Next]_vars => Inv'
  BY InvInductive
<1>2. QED
  BY <1>1, InitInv, PTL DEF Spec

\* Every value of the run is in exactly one row, in the second in progress or on
\* its way, and the snapshot covers every row (chaos-victim/main.go 145-194).
THEOREM EveryValueIsInOneRow == Spec => []RowsConserved
<1>1. ASSUME Inv PROVE RowsConserved
  <2>1. ASSUME saved PROVE hdr.n >= Rolled /\ \A k \in DOMAIN csv : csv[k].max <= hdr.max
    <3>1. loop = "returned" /\ hdr = h
      BY <1>1, <2>1 DEF Inv, SnapshotIsLast
    <3>2. h.n = Rolled + bucket.n + OnItsWay /\ \A k \in DOMAIN csv : csv[k].max <= h.max
      BY <1>1 DEF Inv, Conserved, Covered
    <3>3. QED
      BY <1>1, <3>1, <3>2, Facts DEF Inv
  <2>2. QED
    BY <1>1, <2>1 DEF Inv, Conserved, RowsConserved
<1>2. QED
  BY <1>1, Invariant, PTL

\* However long the process was stopped, and however often the loop has skipped
\* ahead, the value recorded next is the stall, less one period at the most and
\* more by no more than the lag the loop is allowed (chaos-victim/main.go 176-201).
THEOREM StallsAreRecorded == Spec => StallIsRecorded
<1> DEFINE passed == actual' - actual
           Records == (loop = "wait" /\ loop' = "bucket") =>
                        /\ passed - Period <= value' /\ value' <= passed + SkipAfter
                        /\ value' <= MaxValue => h'.n = h.n + 1 /\ value' <= h'.max
<1>1. ASSUME Inv, [Next]_vars PROVE [Records]_vars
  <2> SUFFICES ASSUME Next, loop = "wait", loop' = "bucket"
               PROVE  /\ passed - Period <= value' /\ value' <= passed + SkipAfter
                      /\ value' <= MaxValue => h'.n = h.n + 1 /\ value' <= h'.max
    BY <1>1
  <2>1. Wake
    BY DEF Next, Passes, Cancel, LoopTop, HTTPStops, SendRequest, RequestFails, Respond,
           RecordBucket, Snapshot, Roll, WriteRow, RollerReturns, probeVars
  <2>2. Types /\ target <= actual + Period /\ actual <= target + SkipAfter
    BY <1>1, <2>1 DEF Inv, Deadline, Wake
  <2>3. /\ clock >= target /\ actual' = clock /\ value' = clock - target
        /\ h' = RecordValue(h, value') /\ h \in Histogram
    BY <2>1, <2>2 DEF Wake, sleepUntil, Types
  <2>4. value' \in Nat /\ actual \in Nat /\ target \in Nat /\ clock \in Nat
        /\ Period \in Nat /\ SkipAfter \in Nat
    BY <2>2, <2>3, Facts
  <2>5. value' <= MaxValue => h'.n = h.n + 1 /\ value' <= h'.max
    BY <2>3, <2>4, RecordValueType
  <2>6. passed - Period <= value' /\ value' <= passed + SkipAfter
    BY <2>2, <2>3, <2>4
  <2>7. QED
    BY <2>5, <2>6
<1>2. Inv /\ [Next]_vars => [Records]_vars
  BY <1>1
<1>3. QED
  BY <1>2, Invariant, PTL DEF Spec, StallIsRecorded
=============================================================================
