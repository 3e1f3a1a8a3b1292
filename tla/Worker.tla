------------------------------- MODULE Worker -------------------------------
(***************************************************************************)
(* chaos-worker: main, the goroutines it starts that emit events, and      *)
(* their common output.Writer.  main's order is what makes the Writer      *)
(* safe: Emit checks closed and sends in two steps, so Close may only be   *)
(* called when nobody else can be in Emit.                                 *)
(*                                                                         *)
(* The four workload primitives emit nothing; that main waits for them as  *)
(* well is left out.  How a burst is triggered is SyncProtocol's subject:  *)
(* here one may start at any time.                                         *)
(***************************************************************************)
EXTENDS JsonlWriter

CONSTANTS
  Main,         \* main's own goroutine
  Coordinator,  \* startReconcileCoordinator's
  Sampler,      \* startObserver's and startGCWatcher's
  MaxEvents     \* bound on the samples and bursts of a run

Loop == Sampler \cup {Coordinator}

ASSUME ThreadAssumption == /\ Thread = Loop \cup {Main}
                           /\ Main \notin Loop /\ Coordinator \notin Sampler
ASSUME EventAssumption ==
  Event = {"startup", "sample", "sync_error", "start", "end", "shutdown"}
ASSUME BoundAssumption == MaxEvents \in Nat

VARIABLES
  main,    \* where main is
  loop,    \* per goroutine
  ctx,     \* the context is cancelled: duration over, SIGTERM or SIGINT
  work,    \* history: samples and bursts so far
  exit     \* "none", "ok", "error" (os.Exit(1)), "killed"

workerVars == <<main, loop, ctx, work, exit>>
vars == <<writerVars, workerVars>>

\* Type invariant.
TypeOK ==
  /\ WriterTypeOK
  /\ main \in {"startup", "spawn", "join", "close", "seal", "drain", "sync", "returned"}
  /\ loop \in [Loop -> {"off", "connect", "run", "burst", "returned"}]
  /\ ctx \in BOOLEAN
  /\ work \in 0..MaxEvents
  /\ exit \in {"none", "ok", "error", "killed"}

Init ==
  /\ NewWriter
  /\ main = "startup"
  /\ loop = [g \in Loop |-> "off"]
  /\ ctx = FALSE
  /\ work = 0
  /\ exit = "none"

Up == exit = "none"

-----------------------------------------------------------------------------
(* The goroutines *)

\* A tick of the observer or the GC watcher, taken also when the context is
\* done: select picks any ready case.
Tick(g) ==
  /\ Up /\ loop[g] = "run"
  /\ work < MaxEvents
  /\ Emit(g, "sample")
  /\ work' = work + 1
  /\ UNCHANGED <<main, loop, ctx, exit>>

SamplerReturns(g) ==
  /\ Up /\ loop[g] = "run" /\ ~Emitting(g)
  /\ ctx
  /\ loop' = [loop EXCEPT ![g] = "returned"]
  /\ UNCHANGED <<writerVars, main, ctx, work, exit>>

\* Drift mode, or a sync mode whose Connect succeeded.
ConnectOK ==
  /\ Up /\ loop[Coordinator] = "connect"
  /\ loop' = [loop EXCEPT ![Coordinator] = "run"]
  /\ UNCHANGED <<writerVars, main, ctx, work, exit>>

ConnectFails ==
  /\ Up /\ loop[Coordinator] = "connect"
  /\ Emit(Coordinator, "sync_error")
  /\ loop' = [loop EXCEPT ![Coordinator] = "run"]
  /\ UNCHANGED <<main, ctx, work, exit>>

\* runReconcileBurst.
BurstStarts ==
  /\ Up /\ loop[Coordinator] = "run"
  /\ work < MaxEvents
  /\ Emit(Coordinator, "start")
  /\ work' = work + 1
  /\ loop' = [loop EXCEPT ![Coordinator] = "burst"]
  /\ UNCHANGED <<main, ctx, exit>>

\* Mutant: a cancelled burst returns without its end event.
BurstEndsQuietly ==
  /\ Up /\ loop[Coordinator] = "burst"
  /\ ~Emitting(Coordinator)
  /\ \/ ctx /\ UNCHANGED writerVars
     \/ ~ctx /\ Emit(Coordinator, "end")
  /\ loop' = [loop EXCEPT ![Coordinator] = "run"]
  /\ UNCHANGED <<main, ctx, work, exit>>

\* The burst's goroutines end with its window or with the context; the end
\* event is emitted either way.
BurstEnds ==
  /\ Up /\ loop[Coordinator] = "burst"
  /\ Emit(Coordinator, "end")
  /\ loop' = [loop EXCEPT ![Coordinator] = "run"]
  /\ UNCHANGED <<main, ctx, work, exit>>

\* The coordinator returns when the context is done, but also when the sync
\* channel is closed or the profile has no period.
CoordinatorReturns ==
  /\ Up /\ loop[Coordinator] = "run" /\ ~Emitting(Coordinator)
  /\ loop' = [loop EXCEPT ![Coordinator] = "returned"]
  /\ UNCHANGED <<writerVars, main, ctx, work, exit>>

-----------------------------------------------------------------------------
(* main *)

EmitStartup ==
  /\ Up /\ main = "startup"
  /\ Emit(Main, "startup")
  /\ main' = "spawn"
  /\ UNCHANGED <<loop, ctx, work, exit>>

Spawn ==
  /\ Up /\ main = "spawn" /\ ~Emitting(Main)
  /\ loop' = [g \in Loop |-> IF g = Coordinator THEN "connect" ELSE "run"]
  /\ main' = "join"
  /\ UNCHANGED <<writerVars, ctx, work, exit>>

\* Mutant: main waits for the context instead of the goroutines.
JoinContext ==
  /\ Up /\ main = "join" /\ ctx
  /\ Emit(Main, "shutdown")
  /\ main' = "close"
  /\ UNCHANGED <<loop, ctx, work, exit>>

\* wg.Wait() returns, the shutdown event is emitted.
Join ==
  /\ Up /\ main = "join"
  /\ \A g \in Loop : loop[g] = "returned"
  /\ Emit(Main, "shutdown")
  /\ main' = "close"
  /\ UNCHANGED <<loop, ctx, work, exit>>

\* w.Close()
Close ==
  /\ Up /\ main = "close" /\ ~Emitting(Main)
  /\ CloseMark
  /\ main' = "seal"
  /\ UNCHANGED <<loop, ctx, work, exit>>

Seal ==
  /\ Up /\ main = "seal"
  /\ CloseChannel
  /\ main' = "drain"
  /\ UNCHANGED <<loop, ctx, work, exit>>

\* The flusher is waited for, then the buffer is flushed.
Flush ==
  /\ Up /\ main = "drain"
  /\ CloseFlush
  /\ main' = IF FlushOK THEN "sync" ELSE "returned"
  /\ exit' = IF FlushOK THEN exit ELSE "error"
  /\ UNCHANGED <<loop, ctx, work>>

\* f.Sync() and f.Close().
SyncFile ==
  /\ Up /\ main = "sync"
  /\ main' = "returned"
  /\ exit' = IF disk = "ok" THEN "ok" ELSE "error"
  /\ UNCHANGED <<writerVars, loop, ctx, work>>

-----------------------------------------------------------------------------
(* The process *)

EmitSends(t) == Up /\ Send(t) /\ UNCHANGED workerVars

Flusher ==
  /\ Up
  /\ Encode \/ FlusherReturns
  /\ UNCHANGED workerVars

\* The context is made when the startup event has been emitted; a signal
\* before that kills the process.
Cancel ==
  /\ Up /\ main # "startup" /\ ~(main = "spawn" /\ Emitting(Main))
  /\ ~ctx
  /\ ctx' = TRUE
  /\ UNCHANGED <<writerVars, main, loop, work, exit>>

\* SIGKILL.
Kill ==
  /\ Up
  /\ exit' = "killed"
  /\ UNCHANGED <<writerVars, main, loop, ctx, work>>

Disk == Up /\ DiskChanges /\ UNCHANGED workerVars

MainStep == EmitStartup \/ Spawn \/ Join \/ Close \/ Seal \/ Flush \/ SyncFile

LoopStep(g) ==
  \/ g \in Sampler /\ (Tick(g) \/ SamplerReturns(g))
  \/ g = Coordinator /\ (\/ ConnectOK \/ ConnectFails
                         \/ BurstStarts \/ BurstEnds \/ CoordinatorReturns)

Next ==
  \/ MainStep \/ Flusher \/ Cancel \/ Kill \/ Disk
  \/ \E g \in Loop : LoopStep(g)
  \/ \E t \in Thread : EmitSends(t)

Spec == Init /\ [][Next]_vars

\* Go schedules every runnable goroutine.  A select with several ready cases
\* picks them all sooner or later, so a goroutine whose context is done does
\* return.  Nothing cancels the context by itself here.
Fairness ==
  /\ WF_vars(MainStep) /\ WF_vars(Flusher)
  /\ \A t \in Thread : WF_vars(EmitSends(t))
  /\ \A g \in Loop : WF_vars(LoopStep(g))
  /\ \A g \in Sampler : SF_vars(SamplerReturns(g))
  /\ SF_vars(ctx /\ CoordinatorReturns)

FairSpec == Spec /\ Fairness

-----------------------------------------------------------------------------
(* Properties *)

\* No event meets a closed writer: nobody is past the check of closed when the
\* channel is closed, which would panic, and nobody calls Emit later, which
\* would lose the event without counting it (main.go 141-156, jsonl.go 51-79).
EmitsBeforeClose ==
  /\ ignored = 0
  /\ closed => \A t \in Thread : ~Emitting(t)

\* Until the disk fails, the events in the file, in the bufio.Writer and in the
\* channel are the accepted ones in the order Emit took them; after that, and
\* when the process is killed, the file still holds a prefix of them.
NothingOutOfOrder ==
  /\ ~failed => accepted = file \o buf \o queue
  /\ \E n \in 0..Len(accepted) : file = SubSeq(accepted, 1, n)

\* A worker that exits with status 0 has every accepted event in its file: no
\* write error, however early, stays unreported although Encode's is ignored.
NoSilentLoss == exit = "ok" => file = accepted

\* No burst begins or ends in s between the positions i and j.
Quiet(s, i, j) == \A k \in DOMAIN s : (i < k /\ k < j) => s[k] \notin {"start", "end"}

\* The start event at i and the end event at j are those of one burst.
Burst(s, i, j) == i < j /\ s[i] = "start" /\ s[j] = "end" /\ Quiet(s, i, j)

\* If nothing was dropped, start and end events alternate in a file that was
\* closed: every start event has its end event, for the burst that the context
\* cut short as well, and no end event is without its start event (main.go
\* 370-429).
BurstsPaired ==
  (exit = "ok" /\ dropped = 0) =>
    \A k \in DOMAIN file :
      /\ file[k] = "start" => \E j \in DOMAIN file : Burst(file, k, j)
      /\ file[k] = "end" => \E i \in DOMAIN file : Burst(file, i, k)

\* A worker whose context is done exits.
CancelEnds == ctx ~> (exit # "none")
=============================================================================
