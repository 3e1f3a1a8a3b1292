----------------------------- MODULE VictimProbe -----------------------------
(***************************************************************************)
(* chaos-victim: the measuring loop of runJitter or of runHTTP, and the    *)
(* goroutine that rolls a second's samples up into a row of                *)
(* victim-buckets.csv.  Both modes feed the same two histograms: h, for    *)
(* victim.hdr, and bucketHist, which every row resets under bucketMu.      *)
(*                                                                         *)
(* Time is a discrete clock that passes between any two steps, as it does  *)
(* for a process the scheduler may stop anywhere.  A histogram is the      *)
(* number of values recorded and the largest of them; the quantiles are    *)
(* left out.                                                               *)
(***************************************************************************)
EXTENDS Integers, Sequences, FiniteSets

CONSTANTS
  Period,     \* the jitter loop's period (1 ms), and the request interval
  SkipAfter,  \* how far behind the loop may be before it skips ahead (100 ms)
  MaxValue,   \* the largest value the histograms take (10 s)
  Second,     \* the period of the rows
  MaxTime     \* bound on the clock

ASSUME TimeAssumption ==
  /\ Period \in Nat \ {0} /\ Second \in Nat \ {0}
  /\ SkipAfter \in Nat /\ MaxValue \in Nat /\ MaxTime \in Nat

VARIABLES
  mode,     \* --mode
  clock,
  ctx,      \* the context is cancelled: duration over, SIGTERM or SIGINT
  loop,     \* where the measuring loop is
  target,   \* hires_jitter: when the loop wants to wake up
  actual,   \* when it last did; http_rtt: when the request was sent
  beat,     \* http_rtt: a tick waits in the ticker's channel
  value,    \* the value being recorded
  h,        \* the histogram of the run
  bucket,   \* bucketHist
  roller,   \* the goroutine of the rows
  tick,     \* a tick waits in the channel of its ticker
  row,      \* the row it is about to write
  csv,      \* the rows in victim-buckets.csv
  hdr,      \* the snapshot in victim.hdr
  saved     \* victim.hdr was written

probeVars  == <<loop, target, actual, value, h>>
rollerVars == <<roller, row, csv>>
outVars    == <<hdr, saved>>
vars == <<mode, clock, ctx, probeVars, beat, bucket, rollerVars, tick, outVars>>

Empty == [n |-> 0, max |-> 0]

\* The variables of runJitter and of runHTTP that the two do not share.
runJitter == mode = "hires_jitter" /\ target = Period
runHTTP == mode = "http_rtt" /\ target = 0

Init ==
  /\ runJitter \/ runHTTP
  /\ clock = 0
  /\ ctx = FALSE
  /\ loop = "top"
  /\ actual = 0
  /\ beat = FALSE
  /\ value = 0
  /\ h = Empty /\ bucket = Empty
  /\ roller = "select" /\ tick = FALSE
  /\ row = Empty /\ csv = << >>
  /\ hdr = Empty /\ saved = FALSE

Up == loop # "returned"

-----------------------------------------------------------------------------
(* Time, and the context *)

\* A ticker's channel holds one tick; another one is dropped.
Passes ==
  /\ Up /\ clock < MaxTime
  /\ clock' = clock + 1
  /\ tick' = (tick \/ clock' % Second = 0)
  /\ beat' = (beat \/ (mode = "http_rtt" /\ clock' % Period = 0))
  /\ UNCHANGED <<mode, ctx, probeVars, bucket, rollerVars, outVars>>

Cancel ==
  /\ Up /\ ~ctx
  /\ ctx' = TRUE
  /\ UNCHANGED <<mode, clock, probeVars, beat, bucket, rollerVars, tick, outVars>>

-----------------------------------------------------------------------------
(* The histograms *)

\* RecordValue refuses a value beyond the range; the error is ignored.
RecordValue(hist, v) ==
  IF v > MaxValue THEN hist
  ELSE [n |-> hist.n + 1, max |-> IF v > hist.max THEN v ELSE hist.max]

-----------------------------------------------------------------------------
(* runJitter *)

LoopTop ==
  /\ loop = "top" /\ mode = "hires_jitter"
  /\ loop' = IF ctx THEN "snapshot" ELSE "wait"
  /\ UNCHANGED <<mode, clock, ctx, target, actual, value, h, beat, bucket, rollerVars,
                 tick, outVars>>

\* sleepUntil, which retries when it is interrupted: an absolute deadline, and
\* no sleep at all when it has passed.  Its error path needs a clock or a
\* deadline the kernel refuses and is left out, and so is the clamp of a
\* negative jitter, which needs that path.
sleepUntil == clock >= target

\* sleepUntil(target) returns, the clock is read, and the jitter goes into h.
Wake ==
  /\ loop = "wait" /\ mode = "hires_jitter"
  /\ sleepUntil
  /\ actual' = clock
  /\ value' = clock - target
  /\ h' = RecordValue(h, value')
  /\ loop' = "bucket"
  /\ UNCHANGED <<mode, clock, ctx, target, beat, bucket, rollerVars, tick, outVars>>

\* Mutant: the loop skips ahead from the time it is, not from its last wake-up.
NextTargetFromNow ==
  IF actual - (target + Period) > SkipAfter THEN clock + Period ELSE target + Period

\* The next target, or one period from now for a loop that is far behind.
NextTarget ==
  IF actual - (target + Period) > SkipAfter THEN actual + Period ELSE target + Period

-----------------------------------------------------------------------------
(* runHTTP *)

HTTPStops ==
  /\ loop = "top" /\ mode = "http_rtt"
  /\ ctx
  /\ loop' = "snapshot"
  /\ UNCHANGED <<mode, clock, ctx, target, actual, value, h, beat, bucket, rollerVars,
                 tick, outVars>>

SendRequest ==
  /\ loop = "top" /\ mode = "http_rtt"
  /\ beat
  /\ beat' = FALSE
  /\ actual' = clock
  /\ loop' = "request"
  /\ UNCHANGED <<mode, clock, ctx, target, value, h, bucket, rollerVars, tick, outVars>>

\* The request fails or times out: no value.
RequestFails ==
  /\ loop = "request"
  /\ loop' = "top"
  /\ UNCHANGED <<mode, clock, ctx, target, actual, value, h, beat, bucket, rollerVars,
                 tick, outVars>>

Respond ==
  /\ loop = "request"
  /\ value' = clock - actual
  /\ h' = RecordValue(h, value')
  /\ loop' = "bucket"
  /\ UNCHANGED <<mode, clock, ctx, target, actual, beat, bucket, rollerVars, tick, outVars>>

-----------------------------------------------------------------------------
(* Both modes *)

\* bucketHist.RecordValue under the lock, then round the loop.
RecordBucket ==
  /\ loop = "bucket"
  /\ bucket' = RecordValue(bucket, value)
  /\ target' = IF mode = "hires_jitter" THEN NextTarget ELSE target
  /\ loop' = "top"
  /\ UNCHANGED <<mode, clock, ctx, actual, value, h, beat, rollerVars, tick, outVars>>

\* writeHDRSnapshot, and main returns.  When the file cannot be created that is
\* only logged.
Snapshot ==
  /\ loop = "snapshot"
  /\ \/ hdr' = h /\ saved' = TRUE
     \/ UNCHANGED outVars
  /\ loop' = "returned"
  /\ UNCHANGED <<mode, clock, ctx, target, actual, value, h, beat, bucket, rollerVars,
                 tick>>

\* Mutant: bucketHist is not reset.
RollKeeps ==
  /\ Up /\ roller = "select" /\ tick
  /\ tick' = FALSE
  /\ row' = bucket
  /\ roller' = "write"
  /\ UNCHANGED <<mode, clock, ctx, probeVars, beat, bucket, csv, outVars>>

\* Under the lock: the second's figures are taken and bucketHist is reset.
Roll ==
  /\ Up /\ roller = "select" /\ tick
  /\ tick' = FALSE
  /\ row' = bucket
  /\ bucket' = Empty
  /\ roller' = "write"
  /\ UNCHANGED <<mode, clock, ctx, probeVars, beat, csv, outVars>>

\* The row is written and flushed.
WriteRow ==
  /\ Up /\ roller = "write"
  /\ csv' = Append(csv, row)
  /\ roller' = "select"
  /\ UNCHANGED <<mode, clock, ctx, probeVars, beat, bucket, row, tick, outVars>>

RollerReturns ==
  /\ Up /\ roller = "select"
  /\ ctx
  /\ roller' = "returned"
  /\ UNCHANGED <<mode, clock, ctx, probeVars, beat, bucket, row, csv, tick, outVars>>

-----------------------------------------------------------------------------
Next ==
  \/ Passes \/ Cancel
  \/ LoopTop \/ Wake
  \/ HTTPStops \/ SendRequest \/ RequestFails \/ Respond
  \/ RecordBucket \/ Snapshot
  \/ Roll \/ WriteRow \/ RollerReturns

Spec == Init /\ [][Next]_vars

-----------------------------------------------------------------------------
(* Properties *)

\* The values counted in a sequence of rows, each as its row and its place in it.
Recorded(rows) == UNION {{k} \X (1..rows[k].n) : k \in DOMAIN rows}

Values(rows) == Cardinality(Recorded(rows))

\* The values that left bucketHist, and the one that is between the histograms.
Rolled == Values(csv) + (IF roller = "write" THEN row.n ELSE 0)
OnItsWay == IF loop = "bucket" /\ value <= MaxValue THEN 1 ELSE 0

\* No value is counted in two rows or in none: the rows, the second in progress
\* and the value between the two histograms are the values of the run, however
\* the roller and the loop interleave (main.go 145-194).  The snapshot, when it
\* could be written, covers every row, those included that were rolled up while
\* the loop was ending.
RowsConserved ==
  /\ h.n = Rolled + bucket.n + OnItsWay
  /\ saved => hdr.n >= Rolled /\ \A k \in DOMAIN csv : csv[k].max <= hdr.max

\* The loop's own bookkeeping neither hides a stall nor repeats it: wherever the
\* process was stopped since the last wake-up, also in a loop that skips ahead
\* after a pause, the time beyond one period is in the value recorded next, and
\* that value is larger than the time that has passed by no more than what the
\* loop may still have to catch up (main.go 176-201).  It goes into h unless it
\* is out of the histogram's range.
StallIsRecorded ==
  [][(loop = "wait" /\ loop' = "bucket") =>
        LET passed == actual' - actual IN
        /\ passed - Period <= value' /\ value' <= passed + SkipAfter
        /\ value' <= MaxValue => h'.n = h.n + 1 /\ value' <= h'.max]_vars
=============================================================================
