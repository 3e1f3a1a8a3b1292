---------------------------- MODULE JsonlWriter -----------------------------
(***************************************************************************)
(* output.Writer of pkg/output/jsonl.go: Emit, Close and the flusher       *)
(* goroutine run, as actions of the goroutine that calls them.  Worker     *)
(* puts them together with the goroutines that call them.                  *)
(*                                                                         *)
(* An event is its "type" field.  The bufio.Writer holds BufCap lines; a   *)
(* write error is sticky, as it is in bufio.  What is in buf is lost when  *)
(* the process dies, what is in file is not.                               *)
(***************************************************************************)
EXTENDS Naturals, Sequences

CONSTANTS
  Thread,   \* the goroutines that call Emit
  Event,    \* the event types
  None,     \* no event
  ChanCap,  \* capacity of the channel (4096 in chaos-worker)
  BufCap    \* lines the bufio.Writer holds (64 KiB in the code)

ASSUME CapAssumption == ChanCap \in Nat \ {0} /\ BufCap \in Nat \ {0}
ASSUME NoneAssumption == None \notin Event

VARIABLES
  closed,    \* w.closed
  sealed,    \* w.ch is closed
  queue,     \* w.ch
  dropped,   \* w.dropped
  pending,   \* per goroutine: the event it is about to send, past the check of closed
  flusher,   \* run: "running" or "done"
  buf,       \* w.w
  failed,    \* w.w has met a write error
  file,      \* the lines in the file
  disk,      \* the file can be written: "ok" or "bad"
  \* history
  accepted,  \* the events that Emit put into the channel, in order
  ignored    \* the number of events that Emit discarded because closed was set

writerVars == <<closed, sealed, queue, dropped, pending, flusher, buf, failed, file, disk,
                accepted, ignored>>

WriterTypeOK ==
  /\ closed \in BOOLEAN /\ sealed \in BOOLEAN
  /\ queue \in Seq(Event) /\ Len(queue) <= ChanCap
  /\ dropped \in Nat
  /\ pending \in [Thread -> Event \cup {None}]
  /\ flusher \in {"running", "done"}
  /\ buf \in Seq(Event) /\ Len(buf) <= BufCap
  /\ failed \in BOOLEAN
  /\ file \in Seq(Event)
  /\ disk \in {"ok", "bad"}
  /\ accepted \in Seq(Event)
  /\ ignored \in Nat

\* NewWriter: the file is created or truncated.
NewWriter ==
  /\ closed = FALSE /\ sealed = FALSE
  /\ queue = << >> /\ dropped = 0
  /\ pending = [t \in Thread |-> None]
  /\ flusher = "running"
  /\ buf = << >> /\ failed = FALSE /\ file = << >>
  /\ disk = "ok"
  /\ accepted = << >> /\ ignored = 0

-----------------------------------------------------------------------------
(* Emit, by goroutine t *)

Emitting(t) == pending[t] # None

\* The call: closed is read, then the event is on its way to the channel.
Emit(t, event) ==
  /\ ~Emitting(t)
  /\ IF closed
     THEN ignored' = ignored + 1 /\ UNCHANGED pending
     ELSE pending' = [pending EXCEPT ![t] = event] /\ UNCHANGED ignored
  /\ UNCHANGED <<closed, sealed, queue, dropped, flusher, buf, failed, file, disk,
                 accepted>>

\* Mutant: an event that does not fit replaces the oldest one.
SendReplaces(t) ==
  /\ Emitting(t)
  /\ ~sealed
  /\ pending' = [pending EXCEPT ![t] = None]
  /\ queue' = Append(IF Len(queue) < ChanCap THEN queue ELSE Tail(queue), pending[t])
  /\ accepted' = Append(accepted, pending[t])
  /\ dropped' = IF Len(queue) < ChanCap THEN dropped ELSE dropped + 1
  /\ UNCHANGED <<closed, sealed, flusher, buf, failed, file, disk, ignored>>

\* Mutant: the channel's capacity is not looked at.
SendUnbounded(t) ==
  /\ Emitting(t)
  /\ ~sealed
  /\ pending' = [pending EXCEPT ![t] = None]
  /\ queue' = Append(queue, pending[t])
  /\ accepted' = Append(accepted, pending[t])
  /\ UNCHANGED <<closed, sealed, dropped, flusher, buf, failed, file, disk,
                 ignored>>

\* The select: the channel takes the event, or it is dropped and counted.  On
\* a closed channel the send would panic: that it is never reached is Worker's
\* EmitsBeforeClose.
Send(t) ==
  /\ Emitting(t)
  /\ ~sealed
  /\ pending' = [pending EXCEPT ![t] = None]
  /\ \/ /\ Len(queue) < ChanCap
        /\ queue' = Append(queue, pending[t])
        /\ accepted' = Append(accepted, pending[t])
        /\ UNCHANGED dropped
     \/ /\ Len(queue) >= ChanCap
        /\ dropped' = dropped + 1
        /\ UNCHANGED <<queue, accepted>>
  /\ UNCHANGED <<closed, sealed, flusher, buf, failed, file, disk, ignored>>

-----------------------------------------------------------------------------
(* run *)

\* The bufio.Writer's content goes to the file, or is lost with the error.
FlushTo(f, b) == IF disk = "ok" THEN f \o b ELSE f

\* One event is received and encoded.  Encode's error is ignored.
Encode ==
  /\ flusher = "running"
  /\ queue # << >>
  /\ queue' = Tail(queue)
  /\ \/ failed /\ UNCHANGED <<buf, file, failed>>
     \/ /\ ~failed
        /\ Len(buf) < BufCap
        /\ buf' = Append(buf, Head(queue))
        /\ UNCHANGED <<file, failed>>
     \/ /\ ~failed
        /\ Len(buf) >= BufCap
        /\ file' = FlushTo(file, buf)
        /\ buf' = IF disk = "ok" THEN <<Head(queue)>> ELSE buf
        /\ failed' = (disk = "bad")
  /\ UNCHANGED <<closed, sealed, dropped, pending, flusher, disk, accepted, ignored>>

\* The channel is closed and empty.
FlusherReturns ==
  /\ flusher = "running"
  /\ sealed /\ queue = << >>
  /\ flusher' = "done"
  /\ UNCHANGED <<closed, sealed, queue, dropped, pending, buf, failed, file, disk,
                 accepted, ignored>>

-----------------------------------------------------------------------------
(* Close *)

\* CompareAndSwap(false, true), then close(w.ch).
CloseMark ==
  /\ ~closed
  /\ closed' = TRUE
  /\ UNCHANGED <<sealed, queue, dropped, pending, flusher, buf, failed, file, disk,
                 accepted, ignored>>

\* Mutant: Close forgets to close the channel.
CloseChannelForgotten ==
  /\ closed /\ ~sealed
  /\ UNCHANGED writerVars

CloseChannel ==
  /\ closed /\ ~sealed
  /\ sealed' = TRUE
  /\ UNCHANGED <<closed, queue, dropped, pending, flusher, buf, failed, file, disk,
                 accepted, ignored>>

\* Mutant: an error the bufio.Writer met earlier is not reported.
FlushOKNow == disk = "ok"

\* Flush after the flusher has returned; it fails with the sticky error too.
FlushOK == ~failed /\ disk = "ok"

CloseFlush ==
  /\ flusher = "done"
  /\ IF FlushOK
     THEN file' = file \o buf /\ buf' = << >> /\ UNCHANGED failed
     ELSE failed' = TRUE /\ UNCHANGED <<file, buf>>
  /\ UNCHANGED <<closed, sealed, queue, dropped, pending, flusher, disk, accepted,
                 ignored>>

-----------------------------------------------------------------------------
(* The disk, which may fill up or be cleaned at any time *)

DiskChanges ==
  /\ disk' \in {"ok", "bad"} \ {disk}
  /\ UNCHANGED <<closed, sealed, queue, dropped, pending, flusher, buf, failed, file, accepted, ignored>>
=============================================================================
