---------------------------- MODULE SyncProtocol ----------------------------
(***************************************************************************)
(* pkg/sync: the reconcile-trigger protocol between the launcher's Server  *)
(* and the workers, with the two goroutines that drive it: the launcher's  *)
(* trigger loop and the worker's reconcile coordinator.                    *)
(*                                                                         *)
(* Each worker has one connection, a pair of byte streams that carry       *)
(* whole lines: up (worker to launcher) and down.  down holds at most      *)
(* SockCap unread lines, the socket buffer.  An end is open or closed; a   *)
(* reader sees what was written before the peer closed and then EOF.       *)
(***************************************************************************)
EXTENDS Naturals, Sequences, FiniteSets

CONSTANTS
  Client,         \* the workers
  ChanCap,        \* capacity of Connect's channel (16 in the code)
  SockCap,        \* lines that fit in a connection's socket buffer
  MaxTriggers,    \* bound on the number of calls of Trigger
  Enders,         \* the workers that may end (a bound: the code lets any)
  Stallers,       \* the sets of workers that may stop running for ever
  CloseWhenLive   \* FALSE: Close is called when every worker is gone, as main
                  \* does; TRUE: at any time, as the package allows

ASSUME CapAssumption == ChanCap \in Nat \ {0} /\ SockCap \in Nat \ {0}
ASSUME TriggerAssumption == MaxTriggers \in Nat
ASSUME EndAssumption == Enders \subseteq Client
ASSUME StallAssumption == Stallers \subseteq SUBSET Client
ASSUME CloseAssumption == CloseWhenLive \in BOOLEAN

VARIABLES
  \* the server
  server,      \* "up", "closing", "closed", or the launcher is gone: "exited", "panicked"
  backlog,     \* connections dialled and not accepted yet
  handler,     \* per connection: serveClient and its drain goroutine
  clients,     \* the keys of s.clients
  nilMap,      \* s.clients = nil
  timed,       \* connections on which Trigger has set a write deadline
  trigger,     \* "idle" or "writing"
  triggers,    \* calls of Trigger so far
  todo,        \* connections Trigger has still to write to
  closeTodo,   \* connections Close has still to write BYE to
  farewell,    \* the connection Close has written BYE to and closes next
  \* the connections
  sOpen,       \* connections whose server end is open
  cOpen,       \* connections whose worker end is open
  up, down,    \* the two streams of a connection
  \* the workers
  worker,      \* per worker: Connect and its reader goroutine
  chan,        \* per worker: tokens in the channel Connect returned
  coord,       \* per worker: the reconcile coordinator
  ctx,         \* the workers whose context is cancelled
  stalled,     \* the workers whose goroutines may never be scheduled again
  \* owed
  owed         \* per worker: RECONCILE lines written to it that were neither
               \* taken by its coordinator nor dropped by its reader, without
               \* those that turned out to be behind a BYE

mapVars     == <<clients, nilMap>>
triggerVars == <<timed, trigger, triggers, todo>>
closeVars   == <<closeTodo, farewell>>
connVars    == <<sOpen, cOpen, up, down>>
workerVars  == <<worker, chan, coord, ctx, stalled>>
vars == <<server, backlog, handler, mapVars, triggerVars, closeVars, connVars, workerVars,
          owed>>

Alive == server \notin {"exited", "panicked"}

\* Type invariant.
TypeOK ==
  /\ server \in {"up", "closing", "closed", "exited", "panicked"}
  /\ backlog \subseteq Client
  /\ handler \in [Client -> {"none", "read", "register", "drain", "done"}]
  /\ clients \subseteq Client
  /\ nilMap \in BOOLEAN
  /\ timed \subseteq Client
  /\ trigger \in {"idle", "writing"}
  /\ triggers \in 0..MaxTriggers
  /\ todo \subseteq Client
  /\ closeTodo \subseteq Client /\ farewell \subseteq Client
  /\ sOpen \subseteq Client /\ cOpen \subseteq Client
  /\ up \in [Client -> {<< >>, <<"REGISTER">>}]
  /\ down \in [Client -> Seq({"RECONCILE", "BYE"})]
  /\ \A c \in Client : Len(down[c]) <= SockCap
  /\ worker \in [Client -> {"off", "dialled", "reading", "closed", "failed", "exited"}]
  /\ chan \in [Client -> 0..ChanCap]
  /\ coord \in [Client -> {"idle", "burst", "returned"}]
  /\ ctx \subseteq Client /\ stalled \in Stallers
  /\ owed \in [Client -> 0..MaxTriggers]

Init ==
  /\ server = "up"
  /\ backlog = {} /\ handler = [c \in Client |-> "none"]
  /\ clients = {} /\ nilMap = FALSE
  /\ timed = {} /\ trigger = "idle" /\ triggers = 0 /\ todo = {}
  /\ closeTodo = {} /\ farewell = {}
  /\ sOpen = {} /\ cOpen = {}
  /\ up = [c \in Client |-> << >>] /\ down = [c \in Client |-> << >>]
  /\ worker = [c \in Client |-> "off"]
  /\ chan = [c \in Client |-> 0]
  /\ coord = [c \in Client |-> "idle"]
  /\ ctx = {} /\ stalled \in Stallers
  /\ owed = [c \in Client |-> 0]

-----------------------------------------------------------------------------
(* The server's goroutines *)

\* acceptLoop: one connection is accepted, serveClient starts.
Accept(c) ==
  /\ Alive /\ c \in backlog
  /\ backlog' = backlog \ {c}
  /\ handler' = [handler EXCEPT ![c] = "read"]
  /\ UNCHANGED <<server, mapVars, triggerVars, closeVars, connVars, workerVars, owed>>

\* serveClient reads the first line.
ReadRegister(c) ==
  /\ Alive /\ handler[c] = "read"
  /\ up[c] # << >>
  /\ up' = [up EXCEPT ![c] = Tail(@)]
  /\ handler' = [handler EXCEPT ![c] = "register"]
  /\ UNCHANGED <<server, backlog, mapVars, triggerVars, closeVars, sOpen, cOpen, down,
                 workerVars, owed>>

\* The peer hung up before it registered.
ReadRegisterFails(c) ==
  /\ Alive /\ handler[c] = "read"
  /\ up[c] = << >> /\ c \notin cOpen
  /\ handler' = [handler EXCEPT ![c] = "done"]
  /\ sOpen' = sOpen \ {c}
  /\ UNCHANGED <<server, backlog, mapVars, triggerVars, closeVars, cOpen, up, down,
                 workerVars, owed>>

\* The launcher process ends, with all it held: every connection's server end
\* is closed.
Gone(how) ==
  /\ server' = how
  /\ sOpen' = {} /\ backlog' = {} /\ clients' = {} /\ todo' = {}
  /\ closeTodo' = {} /\ farewell' = {}
  /\ handler' = [c \in Client |-> IF handler[c] = "none" THEN "none" ELSE "done"]
  /\ trigger' = "idle" /\ timed' = {} /\ nilMap' = FALSE
  /\ UNCHANGED <<triggers, cOpen, up, down, workerVars, owed>>

\* s.clients[c] = pid under the lock; the drain goroutine takes over.
Register(c) ==
  /\ Alive /\ handler[c] = "register"
  /\ ~nilMap
  /\ clients' = clients \cup {c}
  /\ handler' = [handler EXCEPT ![c] = "drain"]
  /\ UNCHANGED <<server, backlog, nilMap, triggerVars, closeVars, connVars, workerVars,
                 owed>>

\* The same assignment after Close has set the map to nil panics.
RegisterPanics(c) ==
  /\ Alive /\ handler[c] = "register"
  /\ nilMap
  /\ Gone("panicked")

\* Mutant: the drain goroutine closes the connection but forgets the map.
DrainKeeps(c) ==
  /\ Alive /\ handler[c] = "drain"
  /\ c \notin cOpen \/ c \notin sOpen
  /\ handler' = [handler EXCEPT ![c] = "done"]
  /\ sOpen' = sOpen \ {c}
  /\ UNCHANGED <<server, backlog, mapVars, triggerVars, closeVars, cOpen, up, down,
                 workerVars, owed>>

\* The drain goroutine's read fails: the peer, or Close, closed the connection.
Drain(c) ==
  /\ Alive /\ handler[c] = "drain"
  /\ c \notin cOpen \/ c \notin sOpen
  /\ handler' = [handler EXCEPT ![c] = "done"]
  /\ clients' = clients \ {c}
  /\ sOpen' = sOpen \ {c}
  /\ UNCHANGED <<server, backlog, nilMap, triggerVars, closeVars, cOpen, up, down,
                 workerVars, owed>>

-----------------------------------------------------------------------------
(* Trigger, called by the launcher's ticker loop, which runs until the      *)
(* launcher is interrupted or exits and so may overlap Close.               *)

Reachable(c) == c \in sOpen \cap cOpen

Full(c) == Len(down[c]) >= SockCap

\* The connections are snapshotted under the lock.
TriggerStart ==
  /\ Alive /\ trigger = "idle"
  /\ triggers < MaxTriggers
  /\ trigger' = "writing"
  /\ todo' = clients
  /\ triggers' = triggers + 1
  /\ UNCHANGED <<server, backlog, handler, mapVars, timed, closeVars, connVars, workerVars,
                 owed>>

\* Mutant: no write deadline is set.
TriggerWriteUntimed(c) ==
  /\ trigger = "writing" /\ c \in todo
  /\ Reachable(c) /\ ~Full(c)
  /\ down' = [down EXCEPT ![c] = Append(@, "RECONCILE")]
  /\ owed' = [owed EXCEPT ![c] = @ + 1]
  /\ todo' = todo \ {c}
  /\ UNCHANGED <<server, backlog, handler, mapVars, timed, trigger, triggers, closeVars,
                 sOpen, cOpen, up, workerVars>>

\* The write succeeds: the line fits in the socket buffer.
TriggerWrite(c) ==
  /\ trigger = "writing" /\ c \in todo
  /\ Reachable(c) /\ ~Full(c)
  /\ down' = [down EXCEPT ![c] = Append(@, "RECONCILE")]
  /\ owed' = [owed EXCEPT ![c] = @ + 1]
  /\ todo' = todo \ {c}
  /\ timed' = timed \cup {c}
  /\ UNCHANGED <<server, backlog, handler, mapVars, trigger, triggers, closeVars, sOpen,
                 cOpen, up, workerVars>>

\* The write fails: a closed connection at once, a full buffer after 500 ms.
\* The connection stays in the map.
TriggerWriteFails(c) ==
  /\ trigger = "writing" /\ c \in todo
  /\ ~Reachable(c) \/ Full(c)
  /\ todo' = todo \ {c}
  /\ timed' = timed \cup {c}
  /\ UNCHANGED <<server, backlog, handler, mapVars, trigger, triggers, closeVars, connVars,
                 workerVars, owed>>

TriggerEnd ==
  /\ trigger = "writing" /\ todo = {}
  /\ trigger' = "idle"
  /\ UNCHANGED <<server, backlog, handler, mapVars, timed, triggers, todo, closeVars,
                 connVars, workerVars, owed>>

-----------------------------------------------------------------------------
(* Close, deferred by the launcher's main, and the end of the launcher *)

CloseStart ==
  /\ server = "up"
  /\ CloseWhenLive \/ \A c \in Client : worker[c] = "exited"
  /\ server' = "closing"
  /\ closeTodo' = clients
  /\ clients' = {} /\ nilMap' = TRUE
  /\ UNCHANGED <<backlog, handler, triggerVars, farewell, connVars, workerVars, owed>>

\* The connections are taken one after the other.
CloseNext(c) ==
  /\ server = "closing" /\ farewell = {} /\ c \in closeTodo
  /\ closeTodo' = closeTodo \ {c}
  /\ farewell' = {c}

\* BYE is written.  The connection stays open for a moment, in which a Trigger
\* that has it in its snapshot may still write to it.
CloseBye(c) ==
  /\ CloseNext(c)
  /\ Reachable(c) /\ ~Full(c)
  /\ down' = [down EXCEPT ![c] = Append(@, "BYE")]
  /\ UNCHANGED <<server, backlog, handler, mapVars, triggerVars, sOpen, cOpen, up, workerVars,
                 owed>>

\* The write fails: the peer is gone, or the deadline Trigger left on the
\* connection is over.  Without a deadline a full buffer blocks it.
CloseByeFails(c) ==
  /\ CloseNext(c)
  /\ Reachable(c) => c \in timed
  /\ UNCHANGED <<server, backlog, handler, mapVars, triggerVars, connVars, workerVars, owed>>

\* c.Close(), whether or not BYE could be written.
CloseConn(c) ==
  /\ c \in farewell
  /\ farewell' = {}
  /\ sOpen' = sOpen \ {c}
  /\ UNCHANGED <<server, backlog, handler, mapVars, triggerVars, closeTodo, cOpen, up, down,
                 workerVars, owed>>

\* ln.Close(): acceptLoop returns, the kernel drops the connections not
\* accepted.
CloseListener ==
  /\ server = "closing" /\ closeTodo = {} /\ farewell = {}
  /\ server' = "closed"
  /\ sOpen' = sOpen \ backlog
  /\ backlog' = {}
  /\ UNCHANGED <<handler, mapVars, triggerVars, closeVars, cOpen, up, down, workerVars,
                 owed>>

\* The launcher's process ends: main returns, fatal is called, or it is killed.
Exit == Alive /\ Gone("exited")

-----------------------------------------------------------------------------
(* Connect, its reader goroutine and the reconcile coordinator *)

unaffected == <<server, handler, mapVars, triggerVars, closeVars, stalled>>

\* DialContext succeeds.
Dial(c) ==
  /\ worker[c] = "off"
  /\ server \in {"up", "closing"} /\ c \notin ctx
  /\ worker' = [worker EXCEPT ![c] = "dialled"]
  /\ backlog' = backlog \cup {c}
  /\ sOpen' = sOpen \cup {c} /\ cOpen' = cOpen \cup {c}
  /\ UNCHANGED <<unaffected, up, down, chan, coord, ctx, owed>>

\* DialContext fails; the coordinator falls back to its own ticker.
DialFails(c) ==
  /\ worker[c] = "off"
  /\ server \notin {"up", "closing"} \/ c \in ctx
  /\ worker' = [worker EXCEPT ![c] = "failed"]
  /\ UNCHANGED <<unaffected, backlog, connVars, chan, coord, ctx, owed>>

SendRegister(c) ==
  /\ worker[c] = "dialled" /\ c \in sOpen
  /\ up' = [up EXCEPT ![c] = Append(@, "REGISTER")]
  /\ worker' = [worker EXCEPT ![c] = "reading"]
  /\ UNCHANGED <<unaffected, backlog, sOpen, cOpen, down, chan, coord, ctx, owed>>

\* The server end is closed already: Connect closes its own and reports the
\* error.
SendRegisterFails(c) ==
  /\ worker[c] = "dialled" /\ c \notin sOpen
  /\ worker' = [worker EXCEPT ![c] = "failed"]
  /\ cOpen' = cOpen \ {c}
  /\ UNCHANGED <<unaffected, backlog, sOpen, up, down, chan, coord, ctx, owed>>

\* The deferred calls of the reader goroutine: the connection and the channel
\* are closed, what was not read is lost.
ReaderReturns(c) ==
  /\ worker' = [worker EXCEPT ![c] = "closed"]
  /\ cOpen' = cOpen \ {c}
  /\ down' = [down EXCEPT ![c] = << >>]

\* Mutant: the send on the channel is not limited by its capacity.
ReaderMsgUnbounded(c) ==
  /\ worker[c] = "reading" /\ down[c] # << >>
  /\ Head(down[c]) = "RECONCILE"
  /\ chan' = [chan EXCEPT ![c] = @ + 1]
  /\ down' = [down EXCEPT ![c] = Tail(@)]
  /\ UNCHANGED <<unaffected, backlog, sOpen, up, coord, ctx, cOpen, worker, owed>>

\* Mutant: the line is peeked at and stays in the buffer.
ReaderMsgPeeks(c) ==
  /\ worker[c] = "reading" /\ down[c] # << >>
  /\ Head(down[c]) = "RECONCILE"
  /\ chan[c] < ChanCap
  /\ chan' = [chan EXCEPT ![c] = @ + 1]
  /\ UNCHANGED <<unaffected, backlog, connVars, worker, coord, ctx, owed>>

\* A RECONCILE line is read: one token for the coordinator, dropped when the
\* channel is full.  Then the context is looked at.
ReaderMsg(c) ==
  /\ worker[c] = "reading" /\ down[c] # << >>
  /\ Head(down[c]) = "RECONCILE"
  /\ IF chan[c] < ChanCap
     THEN chan' = [chan EXCEPT ![c] = @ + 1] /\ UNCHANGED owed
     ELSE owed' = [owed EXCEPT ![c] = @ - 1] /\ UNCHANGED chan
  /\ IF c \in ctx
     THEN ReaderReturns(c)
     ELSE down' = [down EXCEPT ![c] = Tail(@)] /\ UNCHANGED <<worker, cOpen>>
  /\ UNCHANGED <<unaffected, backlog, sOpen, up, coord, ctx>>

InFlight(c) == Cardinality({i \in DOMAIN down[c] : down[c][i] = "RECONCILE"})

\* The reader returns on BYE and reads nothing behind it: a RECONCILE that
\* overtook Close there is never delivered, and no more owed.
ReaderBye(c) ==
  /\ worker[c] = "reading" /\ down[c] # << >>
  /\ Head(down[c]) = "BYE"
  /\ ReaderReturns(c)
  /\ owed' = [owed EXCEPT ![c] = @ - InFlight(c)]
  /\ UNCHANGED <<unaffected, backlog, sOpen, up, chan, coord, ctx>>

\* The server hung up.
ReaderEOF(c) ==
  /\ worker[c] = "reading" /\ down[c] = << >>
  /\ c \notin sOpen
  /\ ReaderReturns(c)
  /\ UNCHANGED <<unaffected, backlog, sOpen, up, chan, coord, ctx, owed>>

\* The worker's duration is over or it was sent SIGTERM.
CtxCancel(c) ==
  /\ worker[c] # "exited" /\ c \notin ctx /\ c \in Enders
  /\ ctx' = ctx \cup {c}
  /\ UNCHANGED <<unaffected, backlog, connVars, worker, chan, coord, owed>>

Receiving(c) == worker[c] \in {"reading", "closed"} /\ coord[c] = "idle"

\* The coordinator takes a token and runs a burst, also when its context is
\* cancelled as well: select picks any ready case.
CoordBurst(c) ==
  /\ Receiving(c) /\ chan[c] > 0
  /\ chan' = [chan EXCEPT ![c] = @ - 1]
  /\ owed' = [owed EXCEPT ![c] = @ - 1]
  /\ coord' = [coord EXCEPT ![c] = "burst"]
  /\ UNCHANGED <<unaffected, backlog, connVars, worker, ctx>>

BurstEnds(c) ==
  /\ worker[c] # "exited" /\ coord[c] = "burst"
  /\ coord' = [coord EXCEPT ![c] = "idle"]
  /\ UNCHANGED <<unaffected, backlog, connVars, worker, chan, ctx, owed>>

\* ctx.Done(), in sync mode or in the fallback.
CoordStops(c) ==
  /\ worker[c] \in {"reading", "closed", "failed"} /\ coord[c] = "idle"
  /\ c \in ctx
  /\ coord' = [coord EXCEPT ![c] = "returned"]
  /\ UNCHANGED <<unaffected, backlog, connVars, worker, chan, ctx, owed>>

\* Mutant: the coordinator leaves as soon as the channel is closed, with
\* tokens in it.
CoordChannelClosedEarly(c) ==
  /\ worker[c] = "closed" /\ coord[c] = "idle"
  /\ coord' = [coord EXCEPT ![c] = "returned"]
  /\ UNCHANGED <<unaffected, backlog, connVars, worker, chan, ctx, owed>>

\* The channel is closed and empty.
CoordChannelClosed(c) ==
  /\ worker[c] = "closed" /\ coord[c] = "idle"
  /\ chan[c] = 0
  /\ coord' = [coord EXCEPT ![c] = "returned"]
  /\ UNCHANGED <<unaffected, backlog, connVars, worker, chan, ctx, owed>>

\* The worker's process ends, with all it held: main returned, or it was killed.
WorkerExit(c) ==
  /\ worker[c] # "exited" /\ c \in Enders
  /\ worker' = [worker EXCEPT ![c] = "exited"]
  /\ cOpen' = cOpen \ {c}
  /\ down' = [down EXCEPT ![c] = << >>]
  /\ chan' = [chan EXCEPT ![c] = 0] /\ owed' = [owed EXCEPT ![c] = 0]
  /\ coord' = [coord EXCEPT ![c] = "returned"]
  /\ ctx' = ctx \ {c}
  /\ UNCHANGED <<unaffected, backlog, sOpen, up>>

-----------------------------------------------------------------------------
ServeStep(c) ==
  \/ Accept(c) \/ ReadRegister(c) \/ ReadRegisterFails(c)
  \/ Register(c) \/ RegisterPanics(c) \/ Drain(c)

TriggerStep == TriggerEnd \/ \E c \in Client : TriggerWrite(c) \/ TriggerWriteFails(c)

CloseStep ==
  CloseListener \/ \E c \in Client : CloseBye(c) \/ CloseByeFails(c) \/ CloseConn(c)

ConnectStep(c) == Dial(c) \/ DialFails(c) \/ SendRegister(c) \/ SendRegisterFails(c)

ReaderStep(c) == ReaderMsg(c) \/ ReaderBye(c) \/ ReaderEOF(c)

CoordStep(c) == CoordBurst(c) \/ BurstEnds(c) \/ CoordStops(c) \/ CoordChannelClosed(c)

Next ==
  \/ TriggerStart \/ TriggerStep
  \/ CloseStart \/ CloseStep \/ Exit
  \/ \E c \in Client :
       ServeStep(c) \/ ConnectStep(c) \/ ReaderStep(c) \/ CoordStep(c)
       \/ CtxCancel(c) \/ WorkerExit(c)

Spec == Init /\ [][Next]_vars

\* Go schedules runnable goroutines and write deadlines expire.  A stalled
\* worker's goroutines may never be scheduled again.  Nothing makes the
\* launcher trigger, close or exit, or a worker end.
Fairness ==
  /\ WF_vars(TriggerStep) /\ WF_vars(CloseStep)
  /\ \A c \in Client :
       /\ WF_vars(ServeStep(c))
       /\ WF_vars(c \notin stalled /\ ConnectStep(c))
       /\ WF_vars(c \notin stalled /\ ReaderStep(c))
       /\ WF_vars(c \notin stalled /\ CoordStep(c))

FairSpec == Spec /\ Fairness

-----------------------------------------------------------------------------
(* Properties *)

\* Every beat is accounted for: while a worker reads, each RECONCILE written to
\* it and not yet taken or dropped is on its way or waits in the channel; none
\* is invented or handled twice.
EveryBeatAccounted ==
  \A c \in Client :
    LET known == chan[c] + InFlight(c)
    IN  known <= owed[c] /\ (worker[c] = "reading" => known = owed[c])

\* A beat that was written to a worker becomes a burst, or is dropped for a full
\* channel, also when Close or the end of the launcher follows right after it;
\* only the worker's own end may lose it.  Not so a beat of a Trigger that
\* overlaps Close and writes behind its BYE (sync.go 124, 141): it is not owed.
EveryBeatHandled ==
  \A c \in Client :
    (c \notin stalled /\ owed[c] > 0)
      ~> (owed[c] = 0 \/ c \in ctx \/ worker[c] = "exited")

\* A connection whose worker is gone does not stay in the map (the drain
\* goroutine, sync.go 96-107).
GoneAreForgotten ==
  \A c \in Client : (c \in clients /\ c \notin cOpen) ~> (c \notin clients)

\* Trigger and Close return though a worker may have stopped reading: Trigger
\* sets a write deadline (sync.go 123), and Close, which sets none, can only
\* meet a full buffer on a connection that Trigger has left a deadline on.
CallsReturn ==
  /\ (trigger = "writing") ~> (trigger = "idle")
  /\ (server = "closing") ~> (server # "closing")

-----------------------------------------------------------------------------
(* A statement of the package's comments that the code does not keep *)

\* sync.go 131: "Close stops accepting new clients".  One that registers after
\* Close is not served, and does not bring the launcher down.
CloseStopsServing == server # "panicked"
=============================================================================
