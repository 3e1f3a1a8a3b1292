------------------------------ MODULE Workload ------------------------------
(***************************************************************************)
(* pkg/workload: the four primitives that load a worker, with the two      *)
(* places in chaos-worker that call them: the steady state, until the      *)
(* worker's context is cancelled, and the reconcile bursts, until their    *)
(* own, shorter context is.                                                *)
(*                                                                         *)
(* A call of RunScheduler, RunAlloc, RunSyscall or RunLock is a pair of    *)
(* its name and a generation: 0 for the steady state, b for the b-th       *)
(* burst.  A goroutine is a call and a number.  Rates, sizes and payloads  *)
(* are left out; a tick may come at any time.                              *)
(***************************************************************************)
EXTENDS Naturals, Sequences

CONSTANTS
  MaxN,        \* bound on the goroutines of a call
  MaxBursts,   \* bound on the bursts
  Loads        \* what a profile may ask for

Idx == 1..MaxN
Gen == 1..MaxBursts

Call == ({"scheduler", "alloc", "syscall", "lock"} \X {0}) \cup ({"alloc", "syscall"} \X Gen)

Goroutine == Call \X Idx

\* goroutines: per call, how many; target: SyscallTarget; paced: the scheduler
\* has a rate; bursts: bound on the bursts with this load.
IsLoad(l) ==
  /\ l.goroutines \in [Call -> 0..MaxN]
  /\ l.target \in {"none", "loopback_tcp", "tmpfs_fsync"}
  /\ l.paced \in BOOLEAN
  /\ l.bursts \in 0..MaxBursts

ASSUME BoundAssumption == MaxN \in Nat /\ MaxBursts \in Nat
ASSUME LoadAssumption == \A l \in Loads : IsLoad(l)

VARIABLES
  load,        \* what the profile asks for
  ctx,         \* the worker's context is cancelled
  coord,       \* the reconcile coordinator: "idle", "burst" or "returned"
  bursts,      \* bursts started
  over,        \* the bursts whose context is done
  exited,      \* the worker's process is gone
  call,        \* per call: "idle", "running", "closing" (loopback) or "returned"
  loc,         \* per goroutine: where it is
  token,       \* per scheduler pair: the tokens in its ping and pong channels
  mutex,       \* the goroutine in RunLock's critical section, 0 for none
  acceptor,    \* per call: the loopback server's listener and its accept goroutine: both up,
               \* only the listener, only the goroutine, or neither any more
  conn,        \* per loopback client: its connection
  handler,     \* per loopback client: the server's goroutine for its connection
  file         \* per number: the file chaos-fsync-<pid>-<number> exists

vars == <<load, ctx, coord, bursts, over, exited, call, loc, token, mutex, acceptor, conn,
          handler, file>>

NoConn == [client |-> "none", server |-> "none", up |-> 0, down |-> 0]

\* Type invariant.
TypeOK ==
  /\ load \in Loads /\ ctx \in BOOLEAN /\ exited \in BOOLEAN
  /\ coord \in {"idle", "burst", "returned"}
  /\ bursts \in 0..MaxBursts /\ over \subseteq 1..bursts
  /\ call \in [Call -> {"idle", "running", "closing", "returned"}]
  /\ loc \in [Goroutine -> {"none", "new", "select", "tick ping", "tick pong", "send ping",
                            "send pong", "work", "read", "lock", "done"}]
  /\ token \in [Idx -> [ping : 0..1, pong : 0..1]]
  /\ mutex \in Idx \cup {0}
  /\ acceptor \in [Call -> {"none", "listening", "deaf", "closed", "done"}]
  /\ conn \in [Goroutine -> [client : {"none", "open", "closed"},
                             server : {"none", "queued", "open", "closed"},
                             up : 0..1, down : 0..1]]
  /\ handler \in [Goroutine -> {"none", "serving", "done"}]
  /\ file \in [Idx -> BOOLEAN]

-----------------------------------------------------------------------------
(* The calls *)

Cancelled(k) == ctx \/ k[2] \in over

Of(k) == {k} \X Idx

Goroutines(k) == {g \in Of(k) : loc[g] # "none"}

AllDone(k) == \A g \in Goroutines(k) : loc[g] = "done"

Started(k) == load.goroutines[k] > 0 /\ (k[1] = "syscall" => load.target # "none")

Loopback(k) == k[1] = "syscall" /\ load.target = "loopback_tcp"
Fsync(k) == k[1] = "syscall" /\ load.target = "tmpfs_fsync"

\* The calls in K begin: one with nothing to do returns at once, the others
\* start their goroutines.
Begun(c, K) ==
  [k \in Call |-> IF k \notin K THEN c[k] ELSE IF Started(k) THEN "running" ELSE "returned"]
Spawned(l, K) ==
  [g \in Goroutine |-> IF g[1] \in K /\ Started(g[1]) /\ g[2] <= load.goroutines[g[1]]
                       THEN "new" ELSE l[g]]
Listening(a, K) ==
  [k \in Call |-> IF k \in K /\ Started(k) /\ Loopback(k) THEN "listening" ELSE a[k]]

\* startSteadyState has run.
Init ==
  /\ load \in Loads
  /\ ctx = FALSE /\ coord = "idle" /\ bursts = 0 /\ over = {} /\ exited = FALSE
  /\ LET K == {k \in Call : k[2] = 0} IN
     /\ call = Begun([k \in Call |-> "idle"], K)
     /\ loc = Spawned([g \in Goroutine |-> "none"], K)
     /\ acceptor = Listening([k \in Call |-> "none"], K)
  /\ token = [i \in Idx |-> [ping |-> 1, pong |-> 0]]
  /\ mutex = 0
  /\ conn = [g \in Goroutine |-> NoConn]
  /\ handler = [g \in Goroutine |-> "none"]
  /\ file = [i \in Idx |-> FALSE]

netVars == <<acceptor, conn, handler>>
ctxVars == <<ctx, coord, bursts, over, exited>>

Return(k) ==
  /\ call' = [call EXCEPT ![k] = "returned"]
  /\ UNCHANGED <<load, ctxVars, loc, token, mutex, netVars, file>>

\* RunAlloc returns as soon as the context is done, its goroutines may be busy.
AllocReturns(k) ==
  /\ k[1] = "alloc" /\ call[k] = "running"
  /\ Cancelled(k) \/ AllDone(k)
  /\ Return(k)

\* The other calls wait for their goroutines.
JoinReturns(k) ==
  /\ k[1] \in {"scheduler", "lock"} \/ Fsync(k)
  /\ call[k] = "running" /\ AllDone(k)
  /\ Return(k)

\* The loopback server cannot listen: the call fails before it starts anything.
ListenFails(k) ==
  /\ Loopback(k) /\ call[k] = "running" /\ acceptor[k] = "listening"
  /\ \A g \in Goroutines(k) : loc[g] = "new"
  /\ call' = [call EXCEPT ![k] = "returned"]
  /\ loc' = [g \in Goroutine |-> IF g[1] = k THEN "none" ELSE loc[g]]
  /\ acceptor' = [acceptor EXCEPT ![k] = "none"]
  /\ UNCHANGED <<load, ctxVars, token, mutex, conn, handler, file>>

\* Mutant: the listener stays open.
CloseListenerForgotten(k) ==
  /\ Loopback(k) /\ call[k] = "running" /\ Cancelled(k)
  /\ call' = [call EXCEPT ![k] = "closing"]
  /\ UNCHANGED <<load, ctxVars, loc, token, mutex, netVars, file>>

\* ln.Close() once the context is done: the kernel resets the connections that
\* were not accepted.
CloseListener(k) ==
  /\ Loopback(k) /\ call[k] = "running" /\ Cancelled(k)
  /\ call' = [call EXCEPT ![k] = "closing"]
  /\ acceptor' = [acceptor EXCEPT ![k] = IF @ = "listening" THEN "closed" ELSE "done"]
  /\ conn' = [g \in Goroutine |-> IF g[1] = k /\ conn[g].server = "queued"
                                  THEN [conn[g] EXCEPT !.server = "closed"] ELSE conn[g]]
  /\ UNCHANGED <<load, ctxVars, loc, token, mutex, handler, file>>

\* Mutant: only the accept goroutine is waited for.
LoopbackReturnsEarly(k) == call[k] = "closing" /\ acceptor[k] = "done" /\ Return(k)

\* clientWG.Wait() and serverWG.Wait(); the handlers are not waited for.
LoopbackReturns(k) == call[k] = "closing" /\ AllDone(k) /\ acceptor[k] = "done" /\ Return(k)

-----------------------------------------------------------------------------
(* The worker *)

workVars == <<token, mutex, conn, handler, file>>

\* The duration is over or SIGTERM came.
Cancel ==
  /\ ~ctx
  /\ ctx' = TRUE
  /\ UNCHANGED <<load, coord, bursts, over, exited, call, loc, acceptor, workVars>>

\* runReconcileBurst; select may pick a trigger though the context is done.
BurstStart ==
  /\ coord = "idle" /\ bursts < load.bursts
  /\ coord' = "burst" /\ bursts' = bursts + 1
  /\ LET K == {k \in Call : k[2] = bursts + 1} IN
     call' = Begun(call, K) /\ loc' = Spawned(loc, K) /\ acceptor' = Listening(acceptor, K)
  /\ UNCHANGED <<load, ctx, over, exited, workVars>>

\* The burst window closes: context.WithTimeout.
BurstOver ==
  /\ coord = "burst" /\ bursts \notin over
  /\ over' = over \cup {bursts}
  /\ UNCHANGED <<load, ctx, coord, bursts, exited, call, loc, acceptor, workVars>>

\* wg.Wait() returns: reconcile_end, and the deferred cancel.
BurstEnd ==
  /\ coord = "burst"
  /\ \A k \in Call : k[2] = bursts => call[k] = "returned"
  /\ coord' = "idle" /\ over' = over \cup {bursts}
  /\ UNCHANGED <<load, ctx, bursts, exited, call, loc, acceptor, workVars>>

\* The context is done, the channel of the sync client is closed, or there is
\* no period to tick with.
CoordReturns ==
  /\ coord = "idle"
  /\ coord' = "returned"
  /\ UNCHANGED <<load, ctx, bursts, over, exited, call, loc, acceptor, workVars>>

\* main returns when the steady state and the coordinator have, and the
\* observability goroutines, which wait for the context.
Exit ==
  /\ coord = "returned" /\ ctx
  /\ \A k \in Call : k[2] = 0 => call[k] = "returned"
  /\ exited' = TRUE
  /\ UNCHANGED <<load, ctx, coord, bursts, over, call, loc, acceptor, workVars>>

-----------------------------------------------------------------------------
(* The goroutines.  Each of their selects may see the context done. *)

Goto(g, to) == loc' = [loc EXCEPT ![g] = to]

At(g, kind, from) == g[1][1] = kind /\ loc[g] = from

elsewhere == <<load, ctxVars, call>>

\* RunScheduler.  One goroutine plays both ends of its pair.
PairStart(g) ==
  /\ At(g, "scheduler", "new") /\ Goto(g, "select")
  /\ UNCHANGED <<elsewhere, token, mutex, netVars, file>>

Other(ch) == IF ch = "ping" THEN "pong" ELSE "ping"

\* Waiting for the ticker, or for room, before the token goes into a channel.
Ticking == [ping |-> "tick ping", pong |-> "tick pong"]
Sending == [ping |-> "send ping", pong |-> "send pong"]

Receive(g, ch) ==
  /\ At(g, "scheduler", "select") /\ token[g[2]][ch] = 1
  /\ token' = [token EXCEPT ![g[2]][ch] = 0]
  /\ Goto(g, (IF load.paced THEN Ticking ELSE Sending)[Other(ch)])
  /\ UNCHANGED <<elsewhere, mutex, netVars, file>>

Tick(g, ch) ==
  /\ At(g, "scheduler", Ticking[ch]) /\ Goto(g, Sending[ch])
  /\ UNCHANGED <<elsewhere, token, mutex, netVars, file>>

Send(g, ch) ==
  /\ At(g, "scheduler", Sending[ch]) /\ token[g[2]][ch] = 0
  /\ token' = [token EXCEPT ![g[2]][ch] = 1]
  /\ Goto(g, "select")
  /\ UNCHANGED <<elsewhere, mutex, netVars, file>>

\* RunAlloc: a tick, then one batch of allocations.
AllocStart(g) ==
  /\ At(g, "alloc", "new") /\ Goto(g, "select")
  /\ UNCHANGED <<elsewhere, token, mutex, netVars, file>>

AllocBatch(g) ==
  /\ \/ At(g, "alloc", "select") /\ Goto(g, "work")
     \/ At(g, "alloc", "work") /\ Goto(g, "select")
  /\ UNCHANGED <<elsewhere, token, mutex, netVars, file>>

\* RunLock.
LockTick(g) ==
  /\ \/ At(g, "lock", "new") /\ Goto(g, "select")
     \/ At(g, "lock", "select") /\ Goto(g, "lock")
  /\ UNCHANGED <<elsewhere, token, mutex, netVars, file>>

Lock(g) ==
  /\ At(g, "lock", "lock") /\ mutex = 0
  /\ mutex' = g[2] /\ Goto(g, "work")
  /\ UNCHANGED <<elsewhere, token, netVars, file>>

Unlock(g) ==
  /\ At(g, "lock", "work")
  /\ mutex' = 0 /\ Goto(g, "select")
  /\ UNCHANGED <<elsewhere, token, netVars, file>>

\* ctx.Done() in a select of those three.
Stop(g) ==
  /\ g[1][1] \in {"scheduler", "alloc", "lock"} /\ Cancelled(g[1])
  /\ loc[g] \in {"select", "tick ping", "tick pong", "send ping", "send pong"}
  /\ Goto(g, "done")
  /\ UNCHANGED <<elsewhere, token, mutex, netVars, file>>

-----------------------------------------------------------------------------
(* runLoopbackTCP: the client goroutines *)

Client(g, from) == Loopback(g[1]) /\ loc[g] = from

Dial(g) ==
  /\ Client(g, "new")
  /\ \/ /\ acceptor[g[1]] \in {"listening", "deaf"}
        /\ conn' = [conn EXCEPT ![g] = [NoConn EXCEPT !.client = "open", !.server = "queued"]]
        /\ Goto(g, "select")
     \/ Goto(g, "done") /\ UNCHANGED conn
  /\ UNCHANGED <<elsewhere, token, mutex, acceptor, handler, file>>

\* Mutant: the connection is not closed.
HangUpNot(g) ==
  /\ Goto(g, "done")
  /\ UNCHANGED <<elsewhere, token, mutex, netVars, file>>

\* The goroutine returns, its deferred Close runs.
HangUp(g) ==
  /\ Goto(g, "done")
  /\ conn' = [conn EXCEPT ![g].client = "closed"]
  /\ UNCHANGED <<elsewhere, token, mutex, acceptor, handler, file>>

ClientStops(g) == Client(g, "select") /\ Cancelled(g[1]) /\ HangUp(g)

\* Mutant: the echo is not waited for.
WriteAhead(g) ==
  /\ Client(g, "select") /\ conn[g].server # "closed"
  /\ conn' = [conn EXCEPT ![g].up = @ + 1]
  /\ UNCHANGED <<elsewhere, loc, token, mutex, acceptor, handler, file>>

Write(g) ==
  /\ Client(g, "select") /\ conn[g].server # "closed"
  /\ conn' = [conn EXCEPT ![g].up = @ + 1]
  /\ Goto(g, "read")
  /\ UNCHANGED <<elsewhere, token, mutex, acceptor, handler, file>>

\* The echo is read.
Read(g) ==
  /\ Client(g, "read") /\ conn[g].down = 1
  /\ conn' = [conn EXCEPT ![g].down = 0]
  /\ Goto(g, "select")
  /\ UNCHANGED <<elsewhere, token, mutex, acceptor, handler, file>>

\* A write or a read on a connection that was reset.
ClientFails(g) ==
  /\ Client(g, "select") \/ (Client(g, "read") /\ conn[g].down = 0)
  /\ conn[g].server = "closed"
  /\ HangUp(g)

\* The server's goroutines.
Accept(g) ==
  /\ acceptor[g[1]] = "listening" /\ conn[g].server = "queued"
  /\ conn' = [conn EXCEPT ![g].server = "open"]
  /\ handler' = [handler EXCEPT ![g] = "serving"]
  /\ UNCHANGED <<elsewhere, loc, token, mutex, acceptor, file>>

\* Whatever error Accept returns ends the goroutine, also one while the listener
\* is open: connections are still made then, and nobody serves them.
AcceptFails(k) ==
  /\ acceptor[k] \in {"listening", "closed"}
  /\ acceptor' = [acceptor EXCEPT ![k] = IF @ = "listening" THEN "deaf" ELSE "done"]
  /\ UNCHANGED <<elsewhere, loc, token, mutex, conn, handler, file>>

\* io.ReadFull and Write; the client waits for the echo, so nothing can come
\* between the two.
Echo(g) ==
  /\ handler[g] = "serving" /\ conn[g].up = 1
  /\ conn' = [conn EXCEPT ![g].up = 0, ![g].down = 1]
  /\ UNCHANGED <<elsewhere, loc, token, mutex, acceptor, handler, file>>

\* The client has hung up.
HandlerReturns(g) ==
  /\ handler[g] = "serving" /\ conn[g].up = 0 /\ conn[g].client = "closed"
  /\ conn' = [conn EXCEPT ![g].server = "closed"]
  /\ handler' = [handler EXCEPT ![g] = "done"]
  /\ UNCHANGED <<elsewhere, loc, token, mutex, acceptor, file>>

-----------------------------------------------------------------------------
(* runTmpfsFsync.  The name of a file is made of the process id and the      *)
(* goroutine's number in its call.                                           *)

FsyncAt(g, from) == Fsync(g[1]) /\ loc[g] = from

\* O_CREATE|O_TRUNC: the file at the path is taken over when there is one.
Open(g) ==
  /\ FsyncAt(g, "new")
  /\ file' = [file EXCEPT ![g[2]] = TRUE]
  /\ Goto(g, "select")
  /\ UNCHANGED <<elsewhere, token, mutex, netVars>>

OpenFails(g) ==
  /\ FsyncAt(g, "new") /\ Goto(g, "done")
  /\ UNCHANGED <<elsewhere, token, mutex, netVars, file>>

WriteSync(g) ==
  /\ \/ FsyncAt(g, "select") /\ Goto(g, "work")
     \/ FsyncAt(g, "work") /\ Goto(g, "select")
  /\ UNCHANGED <<elsewhere, token, mutex, netVars, file>>

\* The deferred Close and Remove of the path, whosever file that is by now.
Remove(g) ==
  /\ file' = [file EXCEPT ![g[2]] = FALSE]
  /\ Goto(g, "done")
  /\ UNCHANGED <<elsewhere, token, mutex, netVars>>

FsyncStops(g) == FsyncAt(g, "select") /\ Cancelled(g[1]) /\ Remove(g)

\* Mutant: the file is removed at the end of the run only.
FsyncFailsKeeps(g) ==
  /\ FsyncAt(g, "work") /\ Goto(g, "done")
  /\ UNCHANGED <<elsewhere, token, mutex, netVars, file>>

\* WriteAt or Sync reports an error.
FsyncFails(g) == FsyncAt(g, "work") /\ Remove(g)

-----------------------------------------------------------------------------
(* The worker's program *)

Channel == {"ping", "pong"}

ReturnStep(k) ==
  AllocReturns(k) \/ JoinReturns(k) \/ CloseListener(k) \/ LoopbackReturns(k)

Work(g) ==
  \/ PairStart(g) \/ AllocStart(g) \/ AllocBatch(g) \/ LockTick(g) \/ Lock(g) \/ Unlock(g)
  \/ \E ch \in Channel : Receive(g, ch) \/ Tick(g, ch) \/ Send(g, ch)
  \/ Dial(g) \/ Write(g) \/ Read(g) \/ ClientFails(g)
  \/ Open(g) \/ OpenFails(g) \/ WriteSync(g) \/ FsyncFails(g)

StopStep(g) == Stop(g) \/ ClientStops(g) \/ FsyncStops(g)

ServeStep(g) == Accept(g) \/ Echo(g) \/ HandlerReturns(g)

Next ==
  /\ ~exited
  /\ \/ Cancel \/ BurstStart \/ BurstOver \/ BurstEnd \/ CoordReturns \/ Exit
     \/ \E k \in Call : ReturnStep(k) \/ ListenFails(k) \/ AcceptFails(k)
     \/ \E g \in Goroutine : Work(g) \/ StopStep(g) \/ ServeStep(g)

Spec == Init /\ [][Next]_vars

\* What happens once per call or burst and stays possible until it does.
EndStep ==
  \/ BurstOver \/ BurstEnd
  \/ \E k \in Call : ReturnStep(k) \/ (acceptor[k] = "closed" /\ AcceptFails(k))

\* Go schedules runnable goroutines and timers fire; one formula is enough for
\* the two ends of a connection, which wait for each other, and one for all
\* the steps that cannot go on for ever.  A select picks among its ready cases
\* at random, so it sees a done context some time: that is strong fairness.
\* Nothing makes the worker's context end or a burst start.
Fairness ==
  /\ WF_vars(~exited /\ EndStep)
  /\ \A g \in Goroutine : WF_vars(~exited /\ (Work(g) \/ ServeStep(g)))
  /\ SF_vars(~exited /\ \E g \in Goroutine : StopStep(g))

FairSpec == Spec /\ Fairness

-----------------------------------------------------------------------------
(* Properties *)

\* What the end of a call means.  Nothing of it runs any more, but for the
\* goroutines of RunAlloc, which are not waited for, and the handlers of the
\* loopback server, whose clients have all hung up; no connection can come.
ReturnedMeansQuiet ==
  \A k \in Call :
    call[k] = "returned" =>
      /\ k[1] # "alloc" => AllDone(k)
      /\ acceptor[k] \in {"none", "done"}
      /\ \A g \in Of(k) : handler[g] = "serving" => conn[g].client = "closed"

\* A file in /dev/shm has a goroutine that will remove it, though the steady
\* state and a burst share its name and remove each other's.  That is as long as
\* the worker is not killed: SIGKILL leaves the files where they are.
FilesRemoved ==
  \A i \in Idx :
    file[i] =>
      \E g \in Goroutine : g[2] = i /\ Fsync(g[1]) /\ loc[g] \in {"select", "work"}

\* Cancelled calls return: no client waits for ever on a server that stopped
\* accepting, on an echo or on the mutex, and no server on a connection.
RunsReturn ==
  \A b \in {0} \cup Gen :
    (ctx \/ b \in over) ~>
      (exited \/ \A k \in Call : k[2] = b => call[k] \in {"idle", "returned"})

\* A burst leaves nothing behind: after its window its goroutines end, also
\* those nobody waits for.
BurstLeavesNothing ==
  \A b \in Gen :
    (b \in over) ~>
      \/ exited
      \/ \A g \in Goroutine :
           g[1][2] = b => loc[g] \in {"none", "done"} /\ handler[g] \in {"none", "done"}
=============================================================================
