------------------------------ MODULE Observer ------------------------------
(***************************************************************************)
(* chaos-observer: on every tick it reads the kernel's counters from       *)
(* /proc/stat and writes a row of observer.csv with what has happened      *)
(* since the reading before.                                               *)
(*                                                                         *)
(* The kernel's counters are kept twice: as they would be without a limit  *)
(* (kernel, context) and, in a reading, modulo Limit, the range of uint64. *)
(* A share of the row is its numerator: the code divides it by the total   *)
(* and formats 100 times the quotient.                                     *)
(***************************************************************************)
EXTENDS Integers

CONSTANTS
  Moving,     \* the counters of CPU time that move; the others stay 0
  Limit,      \* 2^64
  MaxTime     \* bound on the clock

\* The counters of the "cpu" line that are read.
Field == {"user", "nice", "system", "idle", "iowait", "irq", "softirq", "steal"}

ASSUME MovingAssumption == Moving \subseteq Field
ASSUME LimitAssumption == Limit \in Nat \ {0} /\ Limit % 2 = 0 /\ MaxTime \in Nat \ {0}

VARIABLES
  clock,     \* 0 is time.Time's zero value and before the start
  kernel,    \* per field: the CPU time so far
  context,   \* the context switches so far
  ctx,       \* the context is cancelled: duration over, SIGTERM or SIGINT
  tick,      \* a tick waits in the ticker's channel
  pc,        \* where main is
  prev,      \* the reading the next row is relative to
  row,       \* the last row written
  \* history
  basis,     \* the unlimited counters when prev was read
  first,     \* the first reading
  counted    \* the sum of the totals the rows so far are relative to

vars == <<clock, kernel, context, ctx, tick, pc, prev, row, basis, first, counted>>

Column == Field \ {"nice"}

\* uint64 arithmetic.
Minus(a, b) == (a - b) % Limit

\* The CPU time of all counters, and what the code computes of it.
Sum(v) ==
  v["user"] + v["nice"] + v["system"] + v["idle"] + v["iowait"] + v["irq"] + v["softirq"]
    + v["steal"]

Total(v) == Sum(v) % Limit

\* int64(x) of a uint64.
Signed(x) == IF 2 * x < Limit THEN x ELSE x - Limit

\* Division of an integer by a positive one, truncated towards zero.
Quotient(x, n) == IF x >= 0 THEN x \div n ELSE -((-x) \div n)

ZeroReading == [ts |-> 0, v |-> [f \in Field |-> 0], ctxt |-> 0]

ZeroRow == [ctxt |-> 0, total |-> 0, share |-> [c \in Column |-> 0]]

Snapshot == [ts |-> clock, v |-> kernel, ctxt |-> context]

\* readStat, at one instant.
readStat ==
  [ts |-> clock, v |-> [f \in Field |-> kernel[f] % Limit], ctxt |-> context % Limit]

Init ==
  /\ clock = 1
  /\ kernel = [f \in Field |-> 0] /\ context = 0
  /\ ctx = FALSE /\ tick = FALSE
  /\ pc = "start"
  /\ prev = ZeroReading /\ row = ZeroRow
  /\ basis = ZeroReading /\ first = ZeroReading
  /\ counted = 0

-----------------------------------------------------------------------------
(* The kernel and the context *)

mainVars == <<pc, prev, row, basis, first, counted>>

\* Time passes: some CPU time and maybe a context switch are counted.
Elapse(f) ==
  /\ pc # "returned" /\ clock < MaxTime
  /\ clock' = clock + 1
  /\ kernel' = [kernel EXCEPT ![f] = @ + 1]
  /\ context' \in {context, context + 1}
  /\ UNCHANGED <<ctx, tick, mainVars>>

\* No CPU time is counted, or the kernel takes some iowait back.
ElapseIdle ==
  /\ pc # "returned" /\ clock < MaxTime
  /\ clock' = clock + 1
  /\ \/ UNCHANGED kernel
     \/ kernel["iowait"] > 0 /\ kernel' = [kernel EXCEPT !["iowait"] = @ - 1]
  /\ UNCHANGED <<context, ctx, tick, mainVars>>

TickerFires ==
  /\ pc # "returned" /\ ~tick
  /\ tick' = TRUE
  /\ UNCHANGED <<clock, kernel, context, ctx, mainVars>>

Cancel ==
  /\ pc # "returned" /\ ~ctx
  /\ ctx' = TRUE
  /\ UNCHANGED <<clock, kernel, context, tick, mainVars>>

-----------------------------------------------------------------------------
(* main *)

kernelVars == <<clock, kernel, context, ctx>>

\* prev, _ := readStat(): an error leaves the zero reading.
FirstReading ==
  /\ pc = "start"
  /\ pc' = "select"
  /\ \/ /\ prev' = readStat /\ first' = readStat
        /\ basis' = Snapshot
     \/ UNCHANGED <<prev, first, basis>>
  /\ UNCHANGED <<kernelVars, tick, row, counted>>

\* The numerators of cur.delta(prev).
Grown(cur) == [f \in Field |-> Minus(cur.v[f], prev.v[f])]

\* Mutant: the nice time is left out.
ShareDropsNice(grown) == [c \in Column |-> grown[c]]

Share(grown) ==
  [c \in Column |-> IF c = "user" THEN (grown["user"] + grown["nice"]) % Limit
                    ELSE grown[c]]

Rate(cur) == Quotient(Signed(Minus(cur.ctxt, prev.ctxt)), cur.ts - prev.ts)

\* cur.delta(prev): nothing without an earlier reading, and no shares when no
\* CPU time was counted.
Delta(cur) ==
  IF prev.ts = 0 \/ cur.ts <= prev.ts THEN ZeroRow
  ELSE LET total == Minus(Total(cur.v), Total(prev.v))
       IN  [ctxt  |-> Rate(cur),
            total |-> total,
            share |-> IF total = 0 THEN ZeroRow.share ELSE Share(Grown(cur))]

\* A tick is taken and /proc/stat is read: a row, and the reading is kept.
Sample ==
  /\ pc = "select" /\ tick
  /\ tick' = FALSE
  /\ prev' = readStat
  /\ row' = Delta(readStat)
  /\ basis' = Snapshot
  /\ first' = IF prev.ts = 0 THEN readStat ELSE first
  /\ counted' = (counted + row'.total) % Limit
  /\ UNCHANGED <<kernelVars, pc>>

\* Mutant: the failed reading replaces the last one.
SampleFailsForgets ==
  /\ pc = "select" /\ tick
  /\ tick' = FALSE
  /\ prev' = ZeroReading
  /\ UNCHANGED <<kernelVars, pc, row, basis, first, counted>>

\* /proc/stat cannot be opened: no row, the last reading is kept.
SampleFails ==
  /\ pc = "select" /\ tick
  /\ tick' = FALSE
  /\ UNCHANGED <<kernelVars, mainVars>>

Return ==
  /\ pc = "select" /\ ctx
  /\ pc' = "returned"
  /\ UNCHANGED <<kernelVars, tick, prev, row, basis, first, counted>>

Next ==
  \/ \E f \in Moving : Elapse(f)
  \/ ElapseIdle \/ TickerFires \/ Cancel
  \/ FirstReading \/ Sample \/ SampleFails \/ Return

Spec == Init /\ [][Next]_vars

-----------------------------------------------------------------------------
(* Properties *)

\* A second reading is taken.
Sampled == prev' # prev /\ prev.ts # 0 /\ prev'.ts # 0

Growth == [f \in Field |-> kernel[f] - basis.v[f]]

\* The shares of a row together.
Shown(share) ==
  share["user"] + share["system"] + share["idle"] + share["iowait"] + share["irq"]
    + share["softirq"] + share["steal"]

\* A row tells what happened since the last good reading.  As long as no counter
\* went backwards, its shares are the true CPU times and add up to 100%, also
\* when counters have wrapped around; its rate of context switches is the true
\* one, rounded down, over the time that has really passed, however many
\* readings failed in between (main.go 198-228).
RowIsTrue ==
  [][Sampled =>
       /\ (Sum(Growth) < Limit /\ \A f \in Field : Growth[f] >= 0) =>
            /\ Shown(row'.share) = row'.total
            /\ row'.total = Sum(Growth)
            /\ \A c \in Column \ {"user"} : row'.share[c] = Growth[c]
       /\ 2 * (context - basis.ctxt) < Limit =>
            LET dt == clock - basis.ts
            IN  /\ row'.ctxt * dt <= context - basis.ctxt
                /\ context - basis.ctxt < (row'.ctxt + 1) * dt]_vars

\* Every interval is in exactly one row: the totals of the rows add up to what
\* lies between the first and the last reading, whatever failed in between.
IntervalsTile == counted = Minus(Total(prev.v), Total(first.v))
=============================================================================
