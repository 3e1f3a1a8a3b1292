--------------------------- MODULE ObserverProofs ---------------------------
(***************************************************************************)
(* Proofs about Observer, for every limit of the counters, however often   *)
(* they have wrapped around, and for any number of rows.  A reading is     *)
(* what the kernel's counters were, modulo the limit; the lemmas on uint64 *)
(* arithmetic say what the differences of readings tell about those of the *)
(* counters.                                                               *)
(***************************************************************************)
EXTENDS Observer, TLAPS

-----------------------------------------------------------------------------
(* uint64 arithmetic *)

Unsigned == 0..(Limit - 1)

\* Division with remainder.
LEMMA Division ==
  ASSUME NEW a \in Int
  PROVE  a % Limit \in Unsigned /\ a \div Limit \in Int /\ a = Limit * (a \div Limit) + (a % Limit)
<1>1. a % Limit \in 0..(Limit - 1)
  BY LimitAssumption
<1>2. a \div Limit \in Int
  BY LimitAssumption
<1>3. a = Limit * (a \div Limit) + (a % Limit)
  BY LimitAssumption
<1>4. QED
  BY <1>1, <1>2, <1>3 DEF Unsigned

\* Two multiples of Limit are no less than Limit apart, or they are the same.
LEMMA RemainderUnique ==
  ASSUME NEW p \in Int, NEW q \in Int, NEW r \in Unsigned, NEW s \in Unsigned,
         Limit * p + r = Limit * q + s
  PROVE  r = s
<1> USE LimitAssumption DEF Unsigned
<1>1. Limit * (p - q) = s - r
  OBVIOUS
<1>2. CASE p - q >= 1
  <2>1. Limit * (p - q) >= Limit
    BY <1>2
  <2>2. QED
    BY <1>1, <2>1
<1>3. CASE p - q <= -1
  <2>1. Limit * (p - q) <= -Limit
    BY <1>3
  <2>2. QED
    BY <1>1, <2>1
<1>4. CASE p = q
  BY <1>1, <1>4
<1>5. QED
  BY <1>2, <1>3, <1>4

\* A remainder that is known up to a multiple of Limit is known.
LEMMA Remainder ==
  ASSUME NEW a \in Int, NEW k \in Int, NEW r \in Unsigned, a = Limit * k + r
  PROVE  a % Limit = r
BY Division, RemainderUnique

\* Numbers that differ by a multiple of Limit have the same remainder.
LEMMA Congruent ==
  ASSUME NEW a \in Int, NEW b \in Int, NEW k \in Int, a = b + Limit * k
  PROVE  a % Limit = b % Limit
<1>1. b % Limit \in Unsigned /\ b \div Limit \in Int /\ b = Limit * (b \div Limit) + (b % Limit)
  BY Division
<1>2. k + (b \div Limit) \in Int /\ a = Limit * (k + (b \div Limit)) + (b % Limit)
  BY <1>1, LimitAssumption DEF Unsigned
<1>3. QED
  BY <1>1, <1>2, Remainder

\* A uint64 is its own remainder.
LEMMA Small ==
  ASSUME NEW a \in Unsigned
  PROVE  a % Limit = a
<1>1. a \in Int /\ a = Limit * 0 + a
  BY LimitAssumption DEF Unsigned
<1>2. QED
  BY <1>1, Remainder

\* The difference of two readings of a counter is that of the counter.
LEMMA MinusOfReadings ==
  ASSUME NEW a \in Int, NEW b \in Int
  PROVE  Minus(a % Limit, b % Limit) = (a - b) % Limit
<1> DEFINE p == a \div Limit
           q == b \div Limit
           x == a % Limit
           y == b % Limit
<1>1. /\ p \in Int /\ q \in Int /\ x \in Int /\ y \in Int
      /\ a = Limit * p + x /\ b = Limit * q + y
  BY Division, LimitAssumption DEF Unsigned
<1> HIDE DEF p, q, x, y
<1>2. x - y \in Int /\ a - b \in Int /\ q - p \in Int /\ x - y = (a - b) + Limit * (q - p)
  BY <1>1, LimitAssumption
<1>3. (x - y) % Limit = (a - b) % Limit
  BY <1>2, Congruent
<1>4. QED
  BY <1>3 DEF Minus, x, y

\* The sum of two readings is the reading of the sum.
LEMMA PlusOfReadings ==
  ASSUME NEW a \in Int, NEW b \in Int
  PROVE  ((a % Limit) + (b % Limit)) % Limit = (a + b) % Limit
<1> DEFINE p == a \div Limit
           q == b \div Limit
           x == a % Limit
           y == b % Limit
<1>1. /\ p \in Int /\ q \in Int /\ x \in Int /\ y \in Int
      /\ a = Limit * p + x /\ b = Limit * q + y
  BY Division, LimitAssumption DEF Unsigned
<1> HIDE DEF p, q, x, y
<1>2. x + y \in Int /\ a + b \in Int /\ -(p + q) \in Int /\ x + y = (a + b) + Limit * (-(p + q))
  BY <1>1, LimitAssumption
<1>3. (x + y) % Limit = (a + b) % Limit
  BY <1>2, Congruent
<1>4. QED
  BY <1>3 DEF x, y

-----------------------------------------------------------------------------
(* Sums of counters *)

\* The sum of integers is an integer.
LEMMA SumType ==
  ASSUME NEW v \in [Field -> Int]
  PROVE  Sum(v) \in Int
BY DEF Sum, Field

\* The sum of what is read of the counters is that of the counters, modulo Limit.
LEMMA TotalOfReading ==
  ASSUME NEW v \in [Field -> Int]
  PROVE  Total([f \in Field |-> v[f] % Limit]) = Sum(v) % Limit
<1> DEFINE w == [f \in Field |-> v[f] % Limit]
           d == [f \in Field |-> v[f] \div Limit]
<1>1. /\ w \in [Field -> Int] /\ d \in [Field -> Int]
      /\ \A f \in Field : v[f] = Limit * d[f] + w[f]
  <2>1. ASSUME NEW f \in Field
        PROVE  /\ v[f] % Limit \in Int /\ v[f] \div Limit \in Int
               /\ v[f] = Limit * (v[f] \div Limit) + (v[f] % Limit)
    <3>1. v[f] \in Int
      OBVIOUS
    <3>2. /\ v[f] % Limit \in Unsigned /\ v[f] \div Limit \in Int
          /\ v[f] = Limit * (v[f] \div Limit) + (v[f] % Limit)
      BY <3>1, Division
    <3>3. QED
      BY <3>2, LimitAssumption DEF Unsigned
  <2>2. QED
    BY <2>1
<1> HIDE DEF w, d
<1>2. Sum(w) = Sum(v) + Limit * (-Sum(d))
  BY <1>1, LimitAssumption DEF Sum, Field
<1>3. Sum(w) \in Int /\ Sum(v) \in Int /\ Sum(d) \in Int
  BY <1>1, SumType
<1>4. Sum(w) % Limit = Sum(v) % Limit
  BY <1>2, <1>3, Congruent
<1>5. QED
  BY <1>4 DEF Total, w

\* Sums of differences.
LEMMA SumOfGrowth ==
  ASSUME NEW v \in [Field -> Int], NEW w \in [Field -> Int]
  PROVE  Sum([f \in Field |-> v[f] - w[f]]) = Sum(v) - Sum(w)
BY DEF Sum, Field

\* Counters that have not decreased have grown by no more than they did together.
LEMMA SumBounds ==
  ASSUME NEW v \in [Field -> Int], \A f \in Field : v[f] >= 0
  PROVE  /\ \A f \in Field : v[f] <= Sum(v)
         /\ v["user"] + v["nice"] <= Sum(v)
         /\ Sum(v) >= 0
BY DEF Sum, Field

-----------------------------------------------------------------------------
(* The inductive invariant *)

Counters == [ts : Nat, v : [Field -> Nat], ctxt : Nat]

\* What is read of the counters.
Reading(c) ==
  [ts |-> c.ts, v |-> [f \in Field |-> c.v[f] % Limit], ctxt |-> c.ctxt % Limit]

Types ==
  /\ clock \in Nat \ {0} /\ kernel \in [Field -> Nat] /\ context \in Nat
  /\ ctx \in BOOLEAN /\ tick \in BOOLEAN
  /\ pc \in {"start", "select", "returned"}
  /\ basis \in Counters
  /\ Total(first.v) \in Unsigned

\* prev is what was read of the counters in basis, which are not ahead of the
\* kernel's.
PrevIsReading ==
  /\ prev = Reading(basis)
  /\ basis.ts <= clock
  /\ basis.ctxt <= context
  /\ basis.ts = clock => basis = Snapshot

\* Before the first good reading no row counts anything.
NothingYet ==
  /\ pc = "start" => basis.ts = 0
  /\ basis.ts = 0 => counted = 0 /\ Total(prev.v) = Total(first.v)

Inv == Types /\ PrevIsReading /\ NothingYet /\ IntervalsTile

\* What a reading of the counters is.
LEMMA ReadingType ==
  ASSUME NEW c \in Counters
  PROVE  /\ Reading(c).ts = c.ts
         /\ Total(Reading(c).v) = Sum(c.v) % Limit
         /\ Total(Reading(c).v) \in Unsigned
<1>1. c.v \in [Field -> Nat]
  BY DEF Counters
<1>2. c.v \in [Field -> Int]
  BY <1>1
<1>3. Sum(c.v) \in Int
  BY <1>2, SumType
<1>4. Total([f \in Field |-> c.v[f] % Limit]) = Sum(c.v) % Limit
  BY <1>2, TotalOfReading
<1>5. Sum(c.v) % Limit \in Unsigned
  BY <1>3, Division
<1>6. Reading(c).ts = c.ts /\ Reading(c).v = [f \in Field |-> c.v[f] % Limit]
  BY DEF Reading
<1>7. QED
  BY <1>4, <1>5, <1>6

\* The zero value is a reading of counters that are all 0.
LEMMA ZeroIsReading == ZeroReading \in Counters /\ ZeroReading = Reading(ZeroReading)
<1>1. 0 % Limit = 0
  BY LimitAssumption
<1>2. QED
  BY <1>1 DEF ZeroReading, Reading, Counters

\* readStat is a reading of the counters as they are.
LEMMA SnapshotType ==
  ASSUME Types
  PROVE  Snapshot \in Counters /\ readStat = Reading(Snapshot) /\ Snapshot.ts = clock
BY DEF Types, Snapshot, Counters, readStat, Reading

\* Differences of uint64 values are uint64 values.
LEMMA MinusType ==
  ASSUME NEW a \in Unsigned, NEW b \in Unsigned
  PROVE  Minus(a, b) \in Unsigned /\ Minus(a, a) = 0
<1>1. a - b \in Int /\ a - a = 0 /\ 0 \in Unsigned
  BY LimitAssumption DEF Unsigned
<1>2. (a - b) % Limit \in Unsigned
  BY <1>1, Division
<1>3. (a - a) % Limit = 0
  BY <1>1, Small
<1>4. QED
  BY <1>2, <1>3 DEF Minus

\* Two intervals that meet are as long as the one from the start of the first
\* to the end of the second.
LEMMA MinusChain ==
  ASSUME NEW a \in Unsigned, NEW b \in Unsigned, NEW c \in Unsigned
  PROVE  (Minus(b, a) + Minus(c, b)) % Limit = Minus(c, a)
<1>1. b - a \in Int /\ c - b \in Int /\ (b - a) + (c - b) = c - a
  BY LimitAssumption DEF Unsigned
<1>2. (((b - a) % Limit) + ((c - b) % Limit)) % Limit = ((b - a) + (c - b)) % Limit
  BY <1>1, PlusOfReadings
<1>3. QED
  BY <1>1, <1>2 DEF Minus

-----------------------------------------------------------------------------
(* The steps *)

\* The invariant holds before the first reading.
LEMMA InitInv == Init => Inv
<1> SUFFICES ASSUME Init PROVE Inv
  OBVIOUS
<1>1. basis \in Counters /\ basis.ts = 0 /\ prev = Reading(basis) /\ basis.ctxt = 0
  BY ZeroIsReading DEF Init, ZeroReading
<1>2. Total(prev.v) \in Unsigned /\ first = prev
  BY <1>1, ReadingType DEF Init
<1>3. Types
  <2>1. kernel \in [Field -> Nat] /\ clock \in Nat \ {0} /\ context \in Nat
    BY DEF Init
  <2>2. ctx \in BOOLEAN /\ tick \in BOOLEAN /\ pc \in {"start", "select", "returned"}
    BY DEF Init
  <2>3. QED
    BY <1>1, <1>2, <2>1, <2>2 DEF Types
<1>4. PrevIsReading /\ NothingYet
  <2>1. clock = 1 /\ context = 0 /\ counted = 0
    BY DEF Init
  <2>2. QED
    BY <1>1, <1>2, <2>1 DEF PrevIsReading, NothingYet
<1>5. IntervalsTile
  BY <1>2, MinusType DEF IntervalsTile, Init
<1>6. QED
  BY <1>3, <1>4, <1>5 DEF Inv

\* Time passes.
LEMMA ElapseKeeps ==
  ASSUME Inv, ElapseIdle \/ \E f \in Moving : Elapse(f)
  PROVE  Inv'
<1>1. /\ clock' = clock + 1
      /\ UNCHANGED <<ctx, tick, pc, prev, row, basis, first, counted>>
  BY DEF Elapse, ElapseIdle, mainVars
<1>2. context' \in Nat /\ context <= context'
  BY DEF Inv, Types, Elapse, ElapseIdle
<1>3. kernel' \in [Field -> Nat]
  <2>1. CASE ElapseIdle
    BY <2>1 DEF Inv, Types, ElapseIdle
  <2>2. ASSUME NEW f \in Moving, Elapse(f) PROVE kernel' \in [Field -> Nat]
    <3>1. f \in Field /\ kernel[f] + 1 \in Nat
      BY MovingAssumption DEF Inv, Types
    <3>2. QED
      BY <2>2, <3>1 DEF Inv, Types, Elapse
  <2>3. QED
    BY <2>1, <2>2
<1>4. clock' \in Nat \ {0} /\ clock < clock'
  BY <1>1 DEF Inv, Types
<1>5. Types'
  BY <1>1, <1>2, <1>3, <1>4 DEF Inv, Types
<1>6. basis.ts \in Nat /\ basis.ctxt \in Nat /\ clock \in Nat /\ context \in Nat
  BY DEF Inv, Types, Counters
<1>7. basis'.ts <= clock' /\ basis'.ts # clock' /\ basis'.ctxt <= context'
  BY <1>1, <1>2, <1>4, <1>6 DEF Inv, PrevIsReading
<1>8. PrevIsReading'
  BY <1>1, <1>7 DEF Inv, PrevIsReading, Reading
<1>9. NothingYet' /\ IntervalsTile'
  BY <1>1 DEF Inv, NothingYet, IntervalsTile, Total, Sum
<1>10. QED
  BY <1>5, <1>8, <1>9 DEF Inv

\* The reading of now, of which the next row and the next reading are made.
LEMMA Now ==
  ASSUME Inv
  PROVE  /\ Snapshot \in Counters /\ readStat = Reading(Snapshot) /\ readStat.ts = clock
         /\ Total(readStat.v) \in Unsigned /\ Total(prev.v) \in Unsigned
         /\ Total(first.v) \in Unsigned /\ counted \in Unsigned
         /\ prev.ts = basis.ts /\ prev.ts \in Nat /\ clock \in Nat \ {0} /\ prev.ts <= clock
         /\ prev.ts = clock => readStat = prev
<1>1. Types /\ PrevIsReading
  BY DEF Inv
<1>2. Snapshot \in Counters /\ readStat = Reading(Snapshot) /\ Snapshot.ts = clock
  BY <1>1, SnapshotType
<1>3. readStat.ts = clock /\ Total(readStat.v) \in Unsigned
  BY <1>2, ReadingType
<1>4. /\ basis \in Counters /\ basis.ts \in Nat /\ clock \in Nat \ {0}
      /\ Total(first.v) \in Unsigned
  BY <1>1 DEF Types, Counters
<1>5. prev.ts = basis.ts /\ Total(prev.v) \in Unsigned
  BY <1>1, <1>4, ReadingType DEF PrevIsReading
<1>6. counted \in Unsigned
  BY <1>4, <1>5, MinusType DEF Inv, IntervalsTile
<1>7. prev.ts <= clock
  BY <1>1, <1>5 DEF PrevIsReading
<1>8. prev.ts = clock => readStat = prev
  BY <1>1, <1>2, <1>5 DEF PrevIsReading
<1>9. QED
  BY <1>2, <1>3, <1>4, <1>5, <1>6, <1>7, <1>8

\* A row: nothing at the first good reading or when no time has passed, else the
\* difference of the readings.
LEMMA RowTotal ==
  ASSUME Inv
  PROVE  /\ (prev.ts = 0 \/ readStat = prev) => Delta(readStat).total = 0
         /\ (prev.ts # 0 /\ readStat # prev) =>
              /\ prev.ts < clock
              /\ Delta(readStat).total = Minus(Total(readStat.v), Total(prev.v))
<1>1. ZeroRow.total = 0
  BY DEF ZeroRow
<1>2. CASE prev.ts = 0 \/ clock <= prev.ts
  <2>1. Delta(readStat) = ZeroRow
    BY <1>2, Now DEF Delta
  <2>2. prev.ts # 0 => readStat = prev
    BY <1>2, Now
  <2>3. QED
    BY <1>1, <2>1, <2>2
<1>3. CASE prev.ts # 0 /\ ~(clock <= prev.ts)
  <2>1. Delta(readStat).total = Minus(Total(readStat.v), Total(prev.v))
    BY <1>3, Now DEF Delta
  <2>2. readStat # prev /\ prev.ts < clock
    BY <1>3, Now
  <2>3. QED
    BY <1>3, <2>1, <2>2
<1>4. QED
  BY <1>2, <1>3

\* A row counts what lies between its two readings.
LEMMA SampleKeeps ==
  ASSUME Inv, Sample
  PROVE  Inv'
<1>1. /\ prev' = readStat /\ row' = Delta(readStat) /\ basis' = Snapshot
      /\ first' = (IF prev.ts = 0 THEN readStat ELSE first)
      /\ counted' = (counted + row'.total) % Limit
      /\ pc = "select" /\ tick' = FALSE
      /\ UNCHANGED <<clock, kernel, context, ctx, pc>>
  BY DEF Sample, kernelVars
<1>2. Types'
  BY <1>1, Now DEF Inv, Types
<1>3. PrevIsReading'
  <2>1. Snapshot' = Snapshot /\ Snapshot.ts = clock /\ Snapshot.ctxt = context
    BY <1>1 DEF Snapshot
  <2>2. prev' = Reading(basis')
    BY <1>1, Now
  <2>3. clock <= clock /\ context <= context
    BY DEF Inv, Types
  <2>4. QED
    BY <1>1, <2>1, <2>2, <2>3 DEF PrevIsReading
<1>4. NothingYet'
  <2>1. pc' # "start" /\ basis'.ts = clock /\ clock # 0
    BY <1>1, Now DEF Snapshot
  <2>2. QED
    BY <2>1 DEF NothingYet
<1>5. IntervalsTile'
  <2>1. SUFFICES counted' = Minus(Total(readStat.v), Total(first'.v))
    BY <1>1 DEF IntervalsTile
  <2>2. CASE prev.ts = 0
    <3>1. counted = 0 /\ row'.total = 0 /\ first' = readStat
      BY <1>1, <2>2, Now, RowTotal DEF Inv, NothingYet
    <3>2. counted' = 0
      BY <1>1, <3>1, LimitAssumption
    <3>3. QED
      BY <3>1, <3>2, Now, MinusType
  <2>3. CASE prev.ts # 0 /\ readStat = prev
    <3>1. row'.total = 0 /\ first' = first
      BY <1>1, <2>3, RowTotal
    <3>2. counted' = counted
      <4>1. counted + 0 = counted
        BY Now DEF Unsigned
      <4>2. QED
        BY <1>1, <3>1, <4>1, Now, Small
    <3>3. QED
      BY <2>3, <3>1, <3>2 DEF Inv, IntervalsTile
  <2>4. CASE prev.ts # 0 /\ readStat # prev
    <3>1. row'.total = Minus(Total(readStat.v), Total(prev.v)) /\ first' = first
      BY <1>1, <2>4, RowTotal
    <3>2. counted = Minus(Total(prev.v), Total(first.v))
      BY DEF Inv, IntervalsTile
    <3>3. QED
      BY <1>1, <3>1, <3>2, Now, MinusChain
  <2>5. QED
    BY <2>2, <2>3, <2>4
<1>6. QED
  BY <1>2, <1>3, <1>4, <1>5 DEF Inv

\* The first reading, good or failed.
LEMMA FirstReadingKeeps ==
  ASSUME Inv, FirstReading
  PROVE  Inv'
<1>1. /\ pc = "start" /\ pc' = "select"
      /\ UNCHANGED <<clock, kernel, context, ctx, tick, row, counted>>
  BY DEF FirstReading, kernelVars
<1>2. counted = 0
  BY <1>1 DEF Inv, NothingYet
<1>3. CASE prev' = readStat /\ first' = readStat /\ basis' = Snapshot
  <2>1. Types'
    BY <1>1, <1>3, Now DEF Inv, Types
  <2>2. PrevIsReading'
    <3>1. Snapshot' = Snapshot /\ Snapshot.ts = clock /\ Snapshot.ctxt = context
      BY <1>1 DEF Snapshot
    <3>2. clock <= clock /\ context <= context
      BY DEF Inv, Types
    <3>3. QED
      BY <1>1, <1>3, <3>1, <3>2, Now DEF PrevIsReading
  <2>3. NothingYet' /\ IntervalsTile'
    BY <1>1, <1>2, <1>3, Now, MinusType DEF NothingYet, IntervalsTile
  <2>4. QED
    BY <2>1, <2>2, <2>3 DEF Inv
<1>4. CASE UNCHANGED <<prev, first, basis>>
  <2>1. Types'
    BY <1>1, <1>4 DEF Inv, Types
  <2>2. PrevIsReading' /\ NothingYet' /\ IntervalsTile'
    BY <1>1, <1>4 DEF Inv, PrevIsReading, NothingYet, IntervalsTile, Reading, Snapshot
  <2>3. QED
    BY <2>1, <2>2 DEF Inv
<1>5. QED
  BY <1>3, <1>4 DEF FirstReading

\* Every step keeps the invariant.
LEMMA InvInductive ==
  ASSUME Inv, [Next]_vars
  PROVE  Inv'
<1>1. CASE TickerFires \/ Cancel \/ SampleFails \/ Return \/ UNCHANGED vars
  <2>1. /\ UNCHANGED <<clock, kernel, context, prev, row, basis, first, counted>>
        /\ tick' \in BOOLEAN /\ ctx' \in BOOLEAN
        /\ pc' = pc \/ pc' = "returned"
    BY <1>1 DEF TickerFires, Cancel, SampleFails, Return, vars, mainVars, kernelVars, Inv,
                Types
  <2>2. Types'
    BY <2>1 DEF Inv, Types
  <2>3. PrevIsReading' /\ NothingYet' /\ IntervalsTile'
    BY <2>1 DEF Inv, PrevIsReading, NothingYet, IntervalsTile, Reading, Snapshot
  <2>4. QED
    BY <2>2, <2>3 DEF Inv
<1>2. QED
  BY <1>1, ElapseKeeps, FirstReadingKeeps, SampleKeeps DEF Next

-----------------------------------------------------------------------------
(* What a row tells *)

\* As long as no counter went backwards and not more than Limit was counted, the
\* differences of two readings are those of the counters.
Faithful == Sum(Growth) < Limit /\ \A f \in Field : Growth[f] >= 0

\* The sum of what the counters have grown by is what their sum has grown by.
LEMMA GrowthType ==
  ASSUME Inv
  PROVE  /\ kernel \in [Field -> Int] /\ basis.v \in [Field -> Int]
         /\ Growth \in [Field -> Int]
         /\ Sum(Growth) = Sum(kernel) - Sum(basis.v)
<1>1. kernel \in [Field -> Int] /\ basis.v \in [Field -> Int]
  BY DEF Inv, Types, Counters
<1>2. Growth \in [Field -> Int]
  BY <1>1 DEF Growth
<1>3. Sum(Growth) = Sum(kernel) - Sum(basis.v)
  BY <1>1, SumOfGrowth DEF Growth
<1>4. QED
  BY <1>1, <1>2, <1>3

\* The difference of two readings is what the counter has grown by.
LEMMA GrownIsGrowth ==
  ASSUME Inv, Faithful
  PROVE  \A f \in Field : Grown(readStat)[f] = Growth[f] /\ Growth[f] \in Unsigned
<1>1. ASSUME NEW f \in Field PROVE Grown(readStat)[f] = Growth[f] /\ Growth[f] \in Unsigned
  <2>1. kernel[f] \in Int /\ basis.v[f] \in Int /\ Growth[f] = kernel[f] - basis.v[f]
    BY GrowthType DEF Growth
  <2>2. Growth[f] <= Sum(Growth) /\ Sum(Growth) \in Int
    BY GrowthType, SumBounds, SumType DEF Faithful
  <2>3. Growth[f] \in Unsigned
    BY <2>1, <2>2, LimitAssumption DEF Faithful, Unsigned
  <2>4. Grown(readStat)[f] = Minus(kernel[f] % Limit, basis.v[f] % Limit)
    BY DEF Grown, readStat, Inv, PrevIsReading, Reading
  <2>5. Minus(kernel[f] % Limit, basis.v[f] % Limit) = (kernel[f] - basis.v[f]) % Limit
    BY <2>1, MinusOfReadings
  <2>6. QED
    BY <2>1, <2>3, <2>4, <2>5, Small
<1>2. QED
  BY <1>1

\* So is the difference of the totals.
LEMMA TotalIsGrowth ==
  ASSUME Inv, Faithful
  PROVE  /\ Minus(Total(readStat.v), Total(prev.v)) = Sum(Growth)
         /\ Sum(Growth) \in Unsigned
<1>1. Sum(kernel) \in Int /\ Sum(basis.v) \in Int /\ Sum(Growth) \in Int
  BY GrowthType, SumType
<1>2. Sum(Growth) \in Unsigned
  BY <1>1, GrowthType, SumBounds, LimitAssumption DEF Faithful, Unsigned
<1>3. Total(readStat.v) = Sum(kernel) % Limit
  BY Now, ReadingType DEF Snapshot
<1>4. Total(prev.v) = Sum(basis.v) % Limit
  BY ReadingType DEF Inv, Types, PrevIsReading
<1>5. Minus(Total(readStat.v), Total(prev.v)) = (Sum(kernel) - Sum(basis.v)) % Limit
  BY <1>1, <1>3, <1>4, MinusOfReadings
<1>6. QED
  BY <1>2, <1>5, GrowthType, Small

\* The shares, in both cases of delta.
LEMMA SharesAreTrue ==
  ASSUME Inv, Faithful, prev.ts # 0, readStat # prev
  PROVE  LET r == Delta(readStat)
         IN  /\ r.total = Sum(Growth)
             /\ Shown(r.share) = r.total
             /\ \A c \in Column \ {"user"} : r.share[c] = Growth[c]
<1> DEFINE r == Delta(readStat)
           grown == Grown(readStat)
<1>1. r.total = Sum(Growth) /\ prev.ts < clock
  BY RowTotal, TotalIsGrowth
<1>2. r.share = IF Sum(Growth) = 0 THEN ZeroRow.share ELSE Share(grown)
  <2>1. ~(prev.ts = 0 \/ readStat.ts <= prev.ts)
    BY <1>1, Now
  <2>2. QED
    BY <2>1, TotalIsGrowth DEF Delta
<1>3. \A f \in Field : grown[f] = Growth[f] /\ Growth[f] \in Nat
  BY GrownIsGrowth DEF Unsigned
<1>4. Growth["user"] + Growth["nice"] \in Unsigned
  <2>1. Growth["user"] + Growth["nice"] <= Sum(Growth)
    BY GrowthType, SumBounds DEF Faithful
  <2>2. Growth["user"] \in Nat /\ Growth["nice"] \in Nat
    BY <1>3 DEF Field
  <2>3. QED
    BY <2>1, <2>2, TotalIsGrowth, LimitAssumption DEF Unsigned
<1>5. CASE Sum(Growth) = 0
  <2>1. \A f \in Field : Growth[f] = 0
    BY <1>3, <1>5, GrowthType, SumBounds
  <2>2. r.share = [c \in Column |-> 0]
    BY <1>2, <1>5 DEF ZeroRow
  <2>3. Shown(r.share) = 0
    BY <2>2 DEF Shown, Column, Field
  <2>4. QED
    BY <1>1, <1>5, <2>1, <2>2, <2>3 DEF Column
<1>6. CASE Sum(Growth) # 0
  <2>1. r.share = Share(grown)
    BY <1>2, <1>6
  <2> HIDE DEF r, grown
  <2>2. r.share["user"] = Growth["user"] + Growth["nice"]
    <3>1. (grown["user"] + grown["nice"]) % Limit = Growth["user"] + Growth["nice"]
      BY <1>3, <1>4, Small DEF Field
    <3>2. QED
      BY <2>1, <3>1 DEF Share, Column, Field
  <2>3. \A c \in Column \ {"user"} : r.share[c] = Growth[c]
    BY <1>3, <2>1 DEF Share, Column
  <2>4. Shown(r.share) = Sum(Growth)
    <3>1. \A f \in Field : Growth[f] \in Nat
      BY <1>3
    <3>2. QED
      BY <2>2, <2>3, <3>1 DEF Shown, Sum, Column, Field
  <2>5. QED
    BY <1>1, <2>3, <2>4 DEF r
<1>7. QED
  BY <1>5, <1>6

\* The rate is the quotient, rounded down, of the context switches and the time
\* between the readings.
LEMMA QuotientBounds ==
  ASSUME NEW x \in Nat, NEW n \in Nat \ {0}
  PROVE  LET q == Quotient(x, n) IN q * n <= x /\ x < (q + 1) * n
<1>1. Quotient(x, n) = x \div n
  BY DEF Quotient
<1>2. /\ x \div n \in Int /\ x % n \in 0..(n - 1)
  OBVIOUS
<1>3. x = n * (x \div n) + (x % n)
  OBVIOUS
<1> DEFINE q == x \div n
           m == x % n
<1>4. q \in Int /\ m \in 0..(n - 1) /\ x = n * q + m
  BY <1>2, <1>3
<1> HIDE DEF q, m
<1>5. q * n = n * q /\ (q + 1) * n = n * q + n
  BY <1>4
<1>6. q * n <= x /\ x < (q + 1) * n
  BY <1>4, <1>5
<1>7. QED
  BY <1>1, <1>6 DEF q

\* The rate is the quotient rounded down.
LEMMA RateIsTrue ==
  ASSUME Inv, prev.ts # 0, readStat # prev, 2 * (context - basis.ctxt) < Limit
  PROVE  LET dt == clock - basis.ts
             q == Delta(readStat).ctxt
         IN  q * dt <= context - basis.ctxt /\ context - basis.ctxt < (q + 1) * dt
<1> DEFINE n == context - basis.ctxt
           dt == clock - basis.ts
<1>1. prev.ts < clock /\ prev.ts = basis.ts /\ readStat.ts = clock
  BY RowTotal, Now
<1>2. /\ context \in Nat /\ basis.ctxt \in Nat /\ basis.ctxt <= context
      /\ clock \in Nat /\ basis.ts \in Nat
  BY DEF Inv, Types, Counters, PrevIsReading
<1>3. n \in Nat /\ n \in Unsigned /\ dt \in Nat \ {0}
  BY <1>1, <1>2, LimitAssumption DEF Unsigned
<1>4. Minus(readStat.ctxt, prev.ctxt) = n
  <2>1. readStat.ctxt = context % Limit /\ prev.ctxt = basis.ctxt % Limit
    BY DEF readStat, Inv, PrevIsReading, Reading
  <2>2. Minus(context % Limit, basis.ctxt % Limit) = n % Limit
    <3>1. context \in Int /\ basis.ctxt \in Int
      BY <1>2
    <3>2. QED
      BY <3>1, MinusOfReadings
  <2>3. QED
    BY <1>3, <2>1, <2>2, Small
<1>5. Signed(n) = n
  BY <1>3 DEF Signed
<1>6. Delta(readStat).ctxt = Quotient(n, dt)
  <2>1. ~(prev.ts = 0 \/ readStat.ts <= prev.ts)
    BY <1>1, Now
  <2>2. Delta(readStat).ctxt = Rate(readStat)
    BY <2>1 DEF Delta
  <2>3. Rate(readStat) = Quotient(n, dt)
    BY <1>1, <1>4, <1>5 DEF Rate
  <2>4. QED
    BY <2>2, <2>3
<1> HIDE DEF n, dt
<1>7. QED
  BY <1>3, <1>6, QuotientBounds DEF n, dt

-----------------------------------------------------------------------------
(* The theorems *)

\* The invariant holds of every behaviour of the observer: prev is the reading
\* of the counters as they were when it was taken, and counted what lies between
\* the first reading and prev (chaos-observer/main.go 104-138).
THEOREM Invariant == Spec => []Inv
<1>1. Inv /\ [Next]_vars => Inv'
  BY InvInductive
<1>2. QED
  BY <1>1, InitInv, PTL DEF Spec

\* The totals of the rows add up to what lies between the first and the last good
\* reading, whatever failed in between and however often the counters have
\* wrapped around (chaos-observer/main.go 104-138 and 198-228).
THEOREM RowsTile == Spec => []IntervalsTile
<1>1. Inv => IntervalsTile
  BY DEF Inv
<1>2. QED
  BY <1>1, Invariant, PTL

\* A row tells what happened since the last good reading: true shares that add up
\* to 100%, and the true rate of context switches (chaos-observer/main.go
\* 198-228).
THEOREM RowsAreTrue == Spec => RowIsTrue
<1> DEFINE Tells ==
             Sampled =>
               /\ (Sum(Growth) < Limit /\ \A f \in Field : Growth[f] >= 0) =>
                    /\ Shown(row'.share) = row'.total
                    /\ row'.total = Sum(Growth)
                    /\ \A c \in Column \ {"user"} : row'.share[c] = Growth[c]
               /\ 2 * (context - basis.ctxt) < Limit =>
                    LET dt == clock - basis.ts
                    IN  /\ row'.ctxt * dt <= context - basis.ctxt
                        /\ context - basis.ctxt < (row'.ctxt + 1) * dt
<1>1. ASSUME Inv, [Next]_vars PROVE [Tells]_vars
  <2>1. SUFFICES ASSUME Sampled PROVE Tells
    OBVIOUS
  <2>2. Sample
    <3>1. pc # "start"
      BY <1>1, <2>1, Now DEF Sampled, Inv, NothingYet
    <3>2. QED
      BY <1>1, <2>1, <3>1 DEF Sampled, Next, Elapse, ElapseIdle, TickerFires, Cancel,
         FirstReading, SampleFails, Return, mainVars, kernelVars, vars
  <2>3. prev' = readStat /\ row' = Delta(readStat) /\ prev.ts # 0 /\ readStat # prev
    BY <2>1, <2>2 DEF Sampled, Sample
  <2>4. QED
    BY <1>1, <2>3, SharesAreTrue, RateIsTrue DEF Faithful
<1>2. Inv /\ [Next]_vars => [Tells]_vars
  BY <1>1
<1>3. QED
  BY <1>2, Invariant, PTL DEF Spec, RowIsTrue
=============================================================================
