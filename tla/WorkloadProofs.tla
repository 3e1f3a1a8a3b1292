--------------------------- MODULE WorkloadProofs ---------------------------
(***************************************************************************)
(* Proofs about Workload, for every number of goroutines and bursts and    *)
(* every load: what the end of a call means, and that no file is left      *)
(* without somebody to remove it.                                          *)
(***************************************************************************)
EXTENDS Workload, TLAPS

-----------------------------------------------------------------------------
(* The inductive invariant *)

\* Nothing of a burst exists before it has started.
Fresh ==
  /\ coord = "burst" => bursts \in Gen
  /\ \A k \in Call :
       k[2] > bursts =>
         /\ call[k] = "idle" /\ acceptor[k] = "none"
         /\ \A g \in Of(k) : loc[g] = "none"

\* Only a loopback call has a listener.  One that has returned has no goroutine
\* any more, unless it is RunAlloc's.
Ended(k) ==
  /\ acceptor[k] # "none" => Loopback(k)
  /\ call[k] = "returned" =>
       /\ k[1] # "alloc" => \A g \in Of(k) : loc[g] \in {"none", "done"}
       /\ acceptor[k] \in {"none", "done"}

\* A client has an open connection as long as it is in its loop, and one message
\* at a time on it.
Connected(g) ==
  /\ conn[g].client = "open" => Loopback(g[1]) /\ loc[g] \in {"select", "read"}
  /\ (Loopback(g[1]) /\ loc[g] = "select") => conn[g].up = 0 /\ conn[g].down = 0
  /\ loc[g] = "read" => Loopback(g[1]) /\ (conn[g].down = 1 => conn[g].up = 0)
  /\ (handler[g] = "serving" \/ conn[g].server = "queued") => conn[g].client # "none"

Inv ==
  /\ TypeOK /\ Fresh
  /\ \A k \in Call : Ended(k)
  /\ \A g \in Goroutine : Connected(g)
  /\ FilesRemoved

-----------------------------------------------------------------------------
(* Calls and goroutines *)

\* Every goroutine belongs to one call.
LEMMA CallFacts ==
  /\ \A k \in Call : k[2] \in Nat
  /\ \A g \in Goroutine : g[1] \in Call /\ g[2] \in Idx
  /\ \A k \in Call : Of(k) = {g \in Goroutine : g[1] = k}
BY BoundAssumption DEF Call, Gen, Goroutine, Of

\* What a run's load is made of.
LEMMA LoadFacts ==
  ASSUME TypeOK
  PROVE  /\ load \in Loads /\ IsLoad(load) /\ load.bursts \in 0..MaxBursts
         /\ load.paced \in BOOLEAN
BY LoadAssumption DEF TypeOK, IsLoad

LocType == {"none", "new", "select", "tick ping", "tick pong", "send ping", "send pong", "work",
            "read", "lock", "done"}
ConnType == [client : {"none", "open", "closed"}, server : {"none", "queued", "open", "closed"},
             up : 0..1, down : 0..1]

\* What the actions make of a connection is a connection.
LEMMA ConnTypes ==
  /\ NoConn \in ConnType
  /\ [NoConn EXCEPT !.client = "open", !.server = "queued"] \in ConnType
  /\ \A c \in ConnType :
       /\ [c EXCEPT !.client = "closed"] \in ConnType
       /\ \A x \in {"open", "closed"} : [c EXCEPT !.server = x] \in ConnType
       /\ c.up = 0 => [c EXCEPT !.up = @ + 1] \in ConnType
       /\ [c EXCEPT !.down = 0] \in ConnType
       /\ [c EXCEPT !.up = 0, !.down = 1] \in ConnType
<1>0. 0 \in 0..1 /\ 1 \in 0..1
  OBVIOUS
<1>1. NoConn \in ConnType /\ [NoConn EXCEPT !.client = "open", !.server = "queued"] \in ConnType
  BY <1>0 DEF NoConn, ConnType
<1>2. ASSUME NEW c \in ConnType
      PROVE  /\ [c EXCEPT !.client = "closed"] \in ConnType
             /\ \A x \in {"open", "closed"} : [c EXCEPT !.server = x] \in ConnType
             /\ [c EXCEPT !.down = 0] \in ConnType
             /\ [c EXCEPT !.up = 0, !.down = 1] \in ConnType
  BY <1>0, <1>2 DEF ConnType
<1>3. ASSUME NEW c \in ConnType, c.up = 0
      PROVE  [c EXCEPT !.up = @ + 1] \in ConnType
  <2>1. c.up + 1 \in 0..1
    BY <1>3
  <2>2. QED
    BY <2>1 DEF ConnType
<1>4. QED
  BY <1>1, <1>2, <1>3

\* What a step of one goroutine leaves alone, for the types.
LEMMA GoroutineType ==
  ASSUME TypeOK, UNCHANGED elsewhere, acceptor' \in [Call -> {"none", "listening", "deaf", "closed", "done"}],
         loc' \in [Goroutine -> LocType], token' \in [Idx -> [ping : 0..1, pong : 0..1]],
         mutex' \in Idx \cup {0}, conn' \in [Goroutine -> ConnType],
         handler' \in [Goroutine -> {"none", "serving", "done"}], file' \in [Idx -> BOOLEAN]
  PROVE  TypeOK'
BY DEF TypeOK, LocType, ConnType, elsewhere, ctxVars

\* A step of a goroutine keeps the types.
LEMMA WorkType ==
  ASSUME Inv, NEW g \in Goroutine, Work(g) \/ StopStep(g) \/ ServeStep(g)
  PROVE  TypeOK'
<1>0. /\ loc \in [Goroutine -> LocType] /\ conn \in [Goroutine -> ConnType]
      /\ token \in [Idx -> [ping : 0..1, pong : 0..1]] /\ mutex \in Idx \cup {0}
      /\ acceptor \in [Call -> {"none", "listening", "deaf", "closed", "done"}]
      /\ handler \in [Goroutine -> {"none", "serving", "done"}] /\ file \in [Idx -> BOOLEAN]
      /\ TypeOK /\ Connected(g) /\ g[2] \in Idx /\ conn[g] \in ConnType
  BY CallFacts DEF Inv, TypeOK, LocType, ConnType
<1>a. \A x \in LocType : [loc EXCEPT ![g] = x] \in [Goroutine -> LocType]
  BY <1>0
<1>b. \A x \in ConnType : [conn EXCEPT ![g] = x] \in [Goroutine -> ConnType]
  BY <1>0
<1>c. \A ch \in Channel : Ticking[ch] \in LocType /\ Sending[ch] \in LocType /\ Other(ch) \in Channel
  <2>1. /\ Ticking["ping"] = "tick ping" /\ Ticking["pong"] = "tick pong"
        /\ Sending["ping"] = "send ping" /\ Sending["pong"] = "send pong"
    BY DEF Ticking, Sending
  <2>2. QED
    BY <2>1 DEF Channel, LocType, Other
<1>1. ASSUME UNCHANGED <<elsewhere, token, mutex, netVars, file>>, loc' \in [Goroutine -> LocType]
      PROVE  TypeOK'
  BY <1>0, <1>1, GoroutineType DEF netVars
<1>2. CASE PairStart(g) \/ AllocStart(g) \/ AllocBatch(g) \/ LockTick(g) \/ Stop(g)
            \/ OpenFails(g) \/ WriteSync(g)
  BY <1>a, <1>1, <1>2 DEF PairStart, AllocStart, AllocBatch, LockTick, Stop, OpenFails, WriteSync,
     Goto, LocType
<1>3. CASE Lock(g) \/ Unlock(g)
  BY <1>0, <1>a, <1>3, GoroutineType DEF Lock, Unlock, Goto, LocType, netVars
<1>4. ASSUME NEW ch \in Channel, Receive(g, ch) \/ Send(g, ch)
      PROVE  TypeOK'
  <2>1. token' \in [Idx -> [ping : 0..1, pong : 0..1]]
    BY <1>0, <1>4 DEF Receive, Send, Channel
  <2>2. loc' \in [Goroutine -> LocType]
    <3>1. CASE Receive(g, ch)
      <4>1. (IF load.paced THEN Ticking ELSE Sending)[Other(ch)] \in LocType
        BY <1>c
      <4>2. QED
        BY <1>a, <3>1, <4>1 DEF Receive, Goto
    <3>2. CASE Send(g, ch)
      BY <1>a, <3>2 DEF Send, Goto, LocType
    <3>3. QED
      BY <1>4, <3>1, <3>2
  <2>3. QED
    BY <1>0, <1>4, <2>1, <2>2, GoroutineType DEF Receive, Send, netVars
<1>5. ASSUME NEW ch \in Channel, Tick(g, ch)
      PROVE  TypeOK'
  BY <1>a, <1>c, <1>1, <1>5 DEF Tick, Goto
<1>6. ASSUME UNCHANGED <<elsewhere, token, mutex, acceptor, file>>,
             loc' \in [Goroutine -> LocType], conn' \in [Goroutine -> ConnType],
             handler' \in [Goroutine -> {"none", "serving", "done"}]
      PROVE  TypeOK'
  BY <1>0, <1>6, GoroutineType
<1>7. CASE Dial(g)
  <2>1. conn' \in [Goroutine -> ConnType]
    BY <1>0, <1>b, <1>7, ConnTypes DEF Dial
  <2>2. QED
    BY <1>0, <1>a, <1>6, <1>7, <2>1 DEF Dial, Goto, LocType
<1>8. CASE Write(g)
  <2>1. conn[g].up = 0
    BY <1>0, <1>8 DEF Write, Client, Connected
  <2>2. [conn[g] EXCEPT !.up = @ + 1] \in ConnType
    BY <1>0, <2>1, ConnTypes
  <2>3. conn' = [conn EXCEPT ![g] = [conn[g] EXCEPT !.up = @ + 1]]
    BY <1>0, <1>8 DEF Write
  <2>4. conn' \in [Goroutine -> ConnType]
    BY <1>b, <2>2, <2>3
  <2>5. loc' \in [Goroutine -> LocType]
    BY <1>a, <1>8 DEF Write, Goto, LocType
  <2>6. QED
    BY <1>0, <1>6, <1>8, <2>4, <2>5 DEF Write
<1>9. CASE Read(g)
  <2>1. conn' = [conn EXCEPT ![g] = [conn[g] EXCEPT !.down = 0]]
    BY <1>0, <1>9 DEF Read
  <2>2. conn' \in [Goroutine -> ConnType]
    BY <1>0, <1>b, <2>1, ConnTypes
  <2>3. loc' \in [Goroutine -> LocType]
    BY <1>a, <1>9 DEF Read, Goto, LocType
  <2>4. QED
    BY <1>0, <1>6, <1>9, <2>2, <2>3 DEF Read
<1>10. CASE ClientFails(g) \/ ClientStops(g)
  <2>1. conn' = [conn EXCEPT ![g] = [conn[g] EXCEPT !.client = "closed"]]
    BY <1>0, <1>10 DEF ClientFails, ClientStops, HangUp
  <2>2. QED
    BY <1>0, <1>a, <1>b, <1>6, <1>10, <2>1, ConnTypes
       DEF ClientFails, ClientStops, HangUp, Goto, LocType
<1>11. CASE Accept(g) \/ Echo(g) \/ HandlerReturns(g)
  <2>1. conn' \in [Goroutine -> ConnType]
    <3>1. PICK c \in ConnType : conn' = [conn EXCEPT ![g] = c]
      BY <1>0, <1>11, ConnTypes DEF Accept, Echo, HandlerReturns
    <3>2. QED
      BY <1>b, <3>1
  <2>2. handler' \in [Goroutine -> {"none", "serving", "done"}]
    BY <1>0, <1>11 DEF Accept, Echo, HandlerReturns
  <2>3. QED
    BY <1>0, <1>6, <1>11, <2>1, <2>2 DEF Accept, Echo, HandlerReturns
<1>12. CASE Open(g) \/ FsyncStops(g) \/ FsyncFails(g)
  <2>1. file' \in [Idx -> BOOLEAN] /\ loc' \in [Goroutine -> LocType]
    BY <1>0, <1>a, <1>12 DEF Open, FsyncStops, FsyncFails, Remove, Goto, LocType
  <2>2. QED
    BY <1>0, <1>12, <2>1, GoroutineType DEF Open, FsyncStops, FsyncFails, Remove, netVars
<1>13. QED
  BY <1>2, <1>3, <1>4, <1>5, <1>7, <1>8, <1>9, <1>10, <1>11, <1>12 DEF Work, StopStep, ServeStep

-----------------------------------------------------------------------------
(* The initial state and the worker's own steps *)

\* Starting the calls of a set: those that have nothing to do return.
LEMMA BegunFacts ==
  ASSUME NEW K \in SUBSET Call,
         NEW c \in [Call -> {"idle", "running", "closing", "returned"}]
  PROVE  /\ Begun(c, K) \in [Call -> {"idle", "running", "closing", "returned"}]
         /\ \A k \in Call \ K : Begun(c, K)[k] = c[k]
         /\ \A k \in K : Begun(c, K)[k] = "returned" <=> ~Started(k)
BY DEF Begun

\* Calls that start listen, and the other listeners stay as they are.
LEMMA ListeningFacts ==
  ASSUME NEW K \in SUBSET Call,
         NEW a \in [Call -> {"none", "listening", "deaf", "closed", "done"}]
  PROVE  /\ Listening(a, K) \in [Call -> {"none", "listening", "deaf", "closed", "done"}]
         /\ \A k \in Call \ K : Listening(a, K)[k] = a[k]
         /\ \A k \in K : Listening(a, K)[k] # a[k] => Started(k) /\ Loopback(k)
BY DEF Listening

\* Calls that start spawn their goroutines, and no others.
LEMMA SpawnedFacts ==
  ASSUME NEW K \in SUBSET Call, NEW l \in [Goroutine -> LocType]
  PROVE  /\ Spawned(l, K) \in [Goroutine -> LocType]
         /\ \A g \in Goroutine : ~(g[1] \in K /\ Started(g[1])) => Spawned(l, K)[g] = l[g]
         /\ \A g \in Goroutine : Spawned(l, K)[g] # l[g] => g[1] \in K /\ Spawned(l, K)[g] = "new"
<1>1. Spawned(l, K) \in [Goroutine -> LocType]
  BY DEF Spawned, LocType
<1>2. QED
  BY <1>1 DEF Spawned

\* The invariant holds before the first call.
LEMMA InitInv == Init => Inv
<1> SUFFICES ASSUME Init PROVE Inv
  OBVIOUS
<1>1. /\ bursts = 0 /\ load \in Loads /\ IsLoad(load)
  BY LoadAssumption DEF Init
<1>2. PICK K : K = {k \in Call : k[2] = 0}
  OBVIOUS
<1>3. /\ call = Begun([k \in Call |-> "idle"], K)
      /\ loc = Spawned([g \in Goroutine |-> "none"], K)
      /\ acceptor = Listening([k \in Call |-> "none"], K)
  BY <1>2 DEF Init
<1>4. TypeOK
  <2>1. call \in [Call -> {"idle", "running", "closing", "returned"}]
    BY <1>3 DEF Begun
  <2>2. loc \in [Goroutine -> LocType]
    BY <1>3 DEF Spawned, LocType
  <2>3. acceptor \in [Call -> {"none", "listening", "deaf", "closed", "done"}]
    BY <1>3 DEF Listening
  <2>4. 0 \in 0..MaxBursts /\ 0 \in 0..1 /\ 1 \in 0..1
    BY BoundAssumption
  <2>5. token \in [Idx -> [ping : 0..1, pong : 0..1]]
    BY <2>4 DEF Init
  <2>6. conn \in [Goroutine -> ConnType]
    BY ConnTypes DEF Init
  <2>7. QED
    BY <1>1, <2>1, <2>2, <2>3, <2>4, <2>5, <2>6 DEF Init, TypeOK, LocType, ConnType
<1>5. \A k \in Call : k[2] > bursts => k \notin K /\ k \in Call
  BY <1>1, <1>2, CallFacts
<1>6. Fresh
  <2>1. coord = "idle"
    BY DEF Init
  <2>2. ASSUME NEW k \in Call, k[2] > bursts
        PROVE  call[k] = "idle" /\ acceptor[k] = "none" /\ \A g \in Of(k) : loc[g] = "none"
    BY <1>3, <1>5, <2>2, CallFacts DEF Begun, Spawned, Listening
  <2>3. QED
    BY <2>1, <2>2 DEF Fresh
<1>7. ASSUME NEW k \in Call
      PROVE  Ended(k)
  <2>1. acceptor[k] # "none" => Loopback(k) /\ Started(k) /\ k \in K
    BY <1>3, <1>7 DEF Listening
  <2>2. call[k] = "returned" => ~Started(k)
    BY <1>3, <1>7 DEF Begun
  <2>3. ~Started(k) => \A g \in Of(k) : loc[g] = "none"
    BY <1>3, <1>7, CallFacts DEF Spawned
  <2>4. QED
    BY <2>1, <2>2, <2>3 DEF Ended
<1>8. ASSUME NEW g \in Goroutine
      PROVE  Connected(g)
  <2>1. loc[g] \in {"none", "new"}
    BY <1>3, <1>8 DEF Spawned
  <2>2. conn[g] = NoConn /\ handler[g] = "none"
    BY <1>8 DEF Init
  <2>3. QED
    BY <2>1, <2>2 DEF Connected, NoConn
<1>9. FilesRemoved
  BY DEF Init, FilesRemoved
<1>10. QED
  BY <1>4, <1>6, <1>7, <1>8, <1>9 DEF Inv

\* A burst that starts keeps the invariant.
LEMMA BurstStartInv ==
  ASSUME Inv, BurstStart
  PROVE  Inv'
<1>0. /\ TypeOK /\ Fresh /\ loc \in [Goroutine -> LocType]
      /\ call \in [Call -> {"idle", "running", "closing", "returned"}]
      /\ acceptor \in [Call -> {"none", "listening", "deaf", "closed", "done"}]
  BY DEF Inv, TypeOK, LocType
<1>1. /\ UNCHANGED <<load, ctx, over, exited, token, mutex, conn, handler, file>>
      /\ coord' = "burst" /\ bursts' = bursts + 1
  BY DEF BurstStart, workVars
<1>2. PICK K \in SUBSET Call : K = {k \in Call : k[2] = bursts + 1}
  OBVIOUS
<1>3. /\ call' = Begun(call, K) /\ loc' = Spawned(loc, K) /\ acceptor' = Listening(acceptor, K)
  BY <1>2 DEF BurstStart
<1>4. bursts \in Nat /\ bursts + 1 \in Gen /\ bursts + 1 \in 0..MaxBursts
  <2>1. bursts < load.bursts /\ bursts \in 0..MaxBursts /\ load.bursts \in 0..MaxBursts
    BY <1>0, LoadFacts DEF BurstStart, TypeOK
  <2>2. QED
    BY <2>1, BoundAssumption DEF Gen
<1>5. \A k \in K : /\ call[k] = "idle" /\ acceptor[k] = "none"
                   /\ \A g \in Of(k) : loc[g] = "none"
  BY <1>0, <1>2, <1>4, CallFacts DEF Fresh
<1>6. \A k \in Call \ K : /\ call'[k] = call[k] /\ acceptor'[k] = acceptor[k]
                          /\ \A g \in Of(k) : loc'[g] = loc[g]
  <2>1. \A k \in Call \ K : call'[k] = call[k]
    BY <1>0, <1>3, BegunFacts
  <2>2. \A k \in Call \ K : acceptor'[k] = acceptor[k]
    BY <1>0, <1>3, ListeningFacts
  <2>3. \A k \in Call \ K : \A g \in Of(k) : loc'[g] = loc[g]
    <3>1. \A g \in Goroutine : g[1] \notin K => loc'[g] = loc[g]
      BY <1>0, <1>3, SpawnedFacts
    <3>2. QED
      BY <3>1, CallFacts
  <2>4. QED
    BY <2>1, <2>2, <2>3
<1>7. \A g \in Goroutine : loc'[g] # loc[g] => loc[g] = "none" /\ loc'[g] = "new"
  <2>1. \A g \in Goroutine : loc'[g] # loc[g] => g[1] \in K /\ loc'[g] = "new"
    BY <1>0, <1>3, BegunFacts, ListeningFacts, SpawnedFacts
  <2>2. \A g \in Goroutine : g \in Of(g[1])
    BY CallFacts
  <2>3. QED
    BY <1>5, <2>1, <2>2
<1>8. TypeOK'
  <2>1. /\ call' \in [Call -> {"idle", "running", "closing", "returned"}]
        /\ loc' \in [Goroutine -> LocType]
        /\ acceptor' \in [Call -> {"none", "listening", "deaf", "closed", "done"}]
    BY <1>0, <1>3, BegunFacts, ListeningFacts, SpawnedFacts
  <2>2. over \subseteq 1..(bursts + 1)
    <3>1. over \subseteq 1..bursts
      BY <1>0 DEF TypeOK
    <3>2. 1..bursts \subseteq 1..(bursts + 1)
      BY <1>4
    <3>3. QED
      BY <3>1, <3>2
  <2>3. QED
    BY <1>0, <1>1, <1>4, <2>1, <2>2 DEF TypeOK, LocType
<1>9. Fresh'
  <2>1. ASSUME NEW k \in Call, k[2] > bursts + 1
        PROVE  k \notin K /\ k[2] > bursts
    BY <1>2, <1>4, <2>1, CallFacts
  <2>2. QED
    BY <1>0, <1>1, <1>4, <1>6, <2>1 DEF Fresh
<1>10. ASSUME NEW k \in Call
       PROVE  Ended(k)'
  <2>1. Loopback(k)' = Loopback(k) /\ Ended(k)
    BY <1>1 DEF Loopback, Inv
  <2>2. CASE k \notin K
    BY <1>6, <2>1, <2>2 DEF Ended
  <2>3. CASE k \in K
    <3>1. call'[k] = "returned" => ~Started(k)
      BY <1>0, <1>3, <2>3, BegunFacts
    <3>2. acceptor'[k] # acceptor[k] => Started(k) /\ Loopback(k)
      BY <1>0, <1>3, <2>3, ListeningFacts
    <3>3. ~Started(k) => \A g \in Of(k) : loc'[g] = loc[g]
      <4>1. \A g \in Goroutine : ~Started(g[1]) => loc'[g] = loc[g]
        BY <1>0, <1>3, SpawnedFacts
      <4>2. QED
        BY <4>1, CallFacts
    <3>4. QED
      BY <1>5, <2>1, <2>3, <3>1, <3>2, <3>3 DEF Ended
  <2>4. QED
    BY <2>2, <2>3
<1>11. ASSUME NEW g \in Goroutine
       PROVE  Connected(g)'
  <2>1. Connected(g) /\ Loopback(g[1])' = Loopback(g[1])
    BY <1>1 DEF Inv, Loopback
  <2>2. QED
    BY <1>1, <1>7, <2>1 DEF Connected
<1>12. FilesRemoved'
  <2>1. ASSUME NEW g \in Goroutine, Fsync(g[1]), loc[g] \in {"select", "work"}
        PROVE  Fsync(g[1])' /\ loc'[g] = loc[g]
    BY <1>1, <1>7, <2>1 DEF Fsync
  <2>2. QED
    BY <1>1, <2>1 DEF Inv, FilesRemoved
<1>13. QED
  BY <1>8, <1>9, <1>10, <1>11, <1>12 DEF Inv

\* Cancellations and the end of a burst keep the invariant.
LEMMA ContextInv ==
  ASSUME Inv, Cancel \/ BurstOver \/ BurstEnd \/ CoordReturns \/ Exit
  PROVE  Inv'
<1>1. UNCHANGED <<load, bursts, call, loc, acceptor, token, mutex, conn, handler, file>>
  BY DEF Cancel, BurstOver, BurstEnd, CoordReturns, Exit, workVars
<1>2. TypeOK'
  <2>1. coord = "burst" => bursts \in 1..bursts
    BY BoundAssumption DEF Inv, Fresh, Gen
  <2>2. over' \subseteq 1..bursts
    BY <2>1 DEF Inv, TypeOK, Cancel, BurstOver, BurstEnd, CoordReturns, Exit
  <2>3. ctx' \in BOOLEAN /\ exited' \in BOOLEAN /\ coord' \in {"idle", "burst", "returned"}
    BY DEF Inv, TypeOK, Cancel, BurstOver, BurstEnd, CoordReturns, Exit
  <2>4. QED
    BY <1>1, <2>2, <2>3 DEF Inv, TypeOK
<1>3. Fresh'
  BY <1>1 DEF Inv, Fresh, Cancel, BurstOver, BurstEnd, CoordReturns, Exit
<1>4. \A k \in Call : Ended(k)'
  BY <1>1 DEF Inv, Ended, Loopback
<1>5. \A g \in Goroutine : Connected(g)'
  BY <1>1 DEF Inv, Connected, Loopback
<1>6. FilesRemoved'
  BY <1>1 DEF Inv, FilesRemoved, Fsync
<1>7. QED
  BY <1>2, <1>3, <1>4, <1>5, <1>6 DEF Inv

-----------------------------------------------------------------------------
(* The ends of the calls *)

\* A call may return once its goroutines have, save those of alloc.
LEMMA ReturnInv ==
  ASSUME Inv, NEW k \in Call, Return(k), call[k] # "idle",
         k[1] # "alloc" => \A g \in Of(k) : loc[g] \in {"none", "done"},
         acceptor[k] \in {"none", "done"}
  PROVE  Inv'
<1>0. TypeOK /\ call \in [Call -> {"idle", "running", "closing", "returned"}]
  BY DEF Inv, TypeOK
<1>1. UNCHANGED <<load, coord, ctx, bursts, over, exited, loc, token, mutex, acceptor, conn,
                  handler, file>>
  BY DEF Return, ctxVars, netVars
<1>2. call' = [call EXCEPT ![k] = "returned"]
  BY DEF Return
<1>3. TypeOK'
  BY <1>0, <1>1, <1>2 DEF TypeOK
<1>4. Fresh'
  BY <1>0, <1>1, <1>2 DEF Inv, Fresh
<1>5. ASSUME NEW q \in Call
      PROVE  Ended(q)'
  BY <1>0, <1>1, <1>2 DEF Inv, Ended, Loopback
<1>6. \A g \in Goroutine : Connected(g)'
  BY <1>1 DEF Inv, Connected, Loopback
<1>7. FilesRemoved'
  BY <1>1 DEF Inv, FilesRemoved, Fsync
<1>8. QED
  BY <1>3, <1>4, <1>5, <1>6, <1>7 DEF Inv

\* The steps of a call and of its acceptor keep the invariant.
LEMMA CallInv ==
  ASSUME Inv, NEW k \in Call, ReturnStep(k) \/ ListenFails(k) \/ AcceptFails(k)
  PROVE  Inv'
<1>0. /\ TypeOK /\ Fresh /\ Ended(k) /\ \A g \in Of(k) : g \in Goroutine /\ g[1] = k
      /\ call \in [Call -> {"idle", "running", "closing", "returned"}]
      /\ acceptor \in [Call -> {"none", "listening", "deaf", "closed", "done"}]
      /\ loc \in [Goroutine -> LocType] /\ conn \in [Goroutine -> ConnType]
  BY CallFacts DEF Inv, TypeOK, LocType, ConnType
<1>a. AllDone(k) => \A g \in Of(k) : loc[g] \in {"none", "done"}
  BY DEF AllDone, Goroutines
<1>1. CASE AllocReturns(k)
  <2>1. acceptor[k] = "none"
    BY <1>0, <1>1 DEF AllocReturns, Ended, Loopback
  <2>2. QED
    BY <1>1, <2>1, ReturnInv DEF AllocReturns
<1>2. CASE JoinReturns(k)
  <2>1. acceptor[k] = "none"
    BY <1>0, <1>2 DEF JoinReturns, Ended, Loopback, Fsync
  <2>2. QED
    BY <1>a, <1>2, <2>1, ReturnInv DEF JoinReturns
<1>3. CASE LoopbackReturns(k)
  BY <1>a, <1>3, ReturnInv DEF LoopbackReturns
<1>4. CASE CloseListener(k)
  <2>1. /\ UNCHANGED <<load, coord, ctx, bursts, over, exited, loc, token, mutex, handler, file>>
        /\ call' = [call EXCEPT ![k] = "closing"] /\ call[k] = "running" /\ Loopback(k)
        /\ acceptor' = [acceptor EXCEPT ![k] = IF @ = "listening" THEN "closed" ELSE "done"]
    BY <1>4 DEF CloseListener, ctxVars
  <2>2. \A g \in Goroutine :
          conn'[g] = IF g[1] = k /\ conn[g].server = "queued"
                     THEN [conn[g] EXCEPT !.server = "closed"] ELSE conn[g]
    BY <1>4 DEF CloseListener
  <2>3. conn' \in [Goroutine -> ConnType]
    BY <1>0, <1>4, ConnTypes DEF CloseListener
  <2>4. TypeOK'
    BY <1>0, <2>1, <2>3 DEF TypeOK, ConnType
  <2>5. Fresh'
    BY <1>0, <2>1 DEF Fresh
  <2>6. ASSUME NEW q \in Call
        PROVE  Ended(q)'
    BY <1>0, <2>1 DEF Inv, Ended, Loopback
  <2>7. ASSUME NEW g \in Goroutine
        PROVE  Connected(g)'
    <3>1. /\ conn'[g].client = conn[g].client /\ conn'[g].up = conn[g].up
          /\ conn'[g].down = conn[g].down
          /\ conn'[g].server = "queued" => conn[g].server = "queued"
      BY <1>0, <2>2 DEF ConnType
    <3>2. QED
      BY <2>1, <3>1 DEF Inv, Connected, Loopback
  <2>8. FilesRemoved'
    BY <2>1 DEF Inv, FilesRemoved, Fsync
  <2>9. QED
    BY <2>4, <2>5, <2>6, <2>7, <2>8 DEF Inv
<1>5. CASE ListenFails(k)
  <2>1. /\ UNCHANGED <<load, coord, ctx, bursts, over, exited, token, mutex, conn, handler, file>>
        /\ call' = [call EXCEPT ![k] = "returned"] /\ call[k] = "running" /\ Loopback(k)
        /\ acceptor' = [acceptor EXCEPT ![k] = "none"]
        /\ \A g \in Goroutine : loc'[g] = IF g[1] = k THEN "none" ELSE loc[g]
    BY <1>5 DEF ListenFails, ctxVars
  <2>2. \A g \in Goroutine : g[1] = k => loc[g] \in {"none", "new"}
    BY <1>5, CallFacts DEF ListenFails, Goroutines
  <2>3. loc' \in [Goroutine -> LocType]
    BY <1>0, <1>5 DEF ListenFails, LocType
  <2>4. TypeOK'
    BY <1>0, <2>1, <2>3 DEF TypeOK, LocType
  <2>5. Fresh'
    BY <1>0, <2>1, CallFacts DEF Fresh
  <2>6. ASSUME NEW q \in Call
        PROVE  Ended(q)'
    <3>1. CASE q = k
      BY <1>0, <2>1, <3>1 DEF Ended
    <3>2. CASE q # k
      <4>1. \A g \in Of(q) : loc'[g] = loc[g]
        BY <2>1, <3>2, CallFacts
      <4>2. QED
        BY <1>0, <2>1, <3>2, <4>1 DEF Inv, Ended, Loopback
    <3>3. QED
      BY <3>1, <3>2
  <2>7. ASSUME NEW g \in Goroutine
        PROVE  Connected(g)'
    BY <2>1, <2>2 DEF Inv, Connected, Loopback
  <2>8. FilesRemoved'
    <3>1. \A g \in Goroutine : Fsync(g[1]) => Fsync(g[1])' /\ loc'[g] = loc[g]
      BY <2>1 DEF Fsync, Loopback
    <3>2. QED
      BY <2>1, <3>1 DEF Inv, FilesRemoved
  <2>9. QED
    BY <2>4, <2>5, <2>6, <2>7, <2>8 DEF Inv
<1>6. CASE AcceptFails(k)
  <2>1. /\ UNCHANGED <<load, coord, ctx, bursts, over, exited, call, loc, token, mutex, conn,
                       handler, file>>
        /\ acceptor[k] \in {"listening", "closed"}
        /\ acceptor' = [acceptor EXCEPT ![k] = IF @ = "listening" THEN "deaf" ELSE "done"]
    BY <1>6 DEF AcceptFails, elsewhere, ctxVars
  <2>2. TypeOK'
    BY <1>0, <2>1 DEF TypeOK
  <2>3. Fresh'
    BY <1>0, <2>1 DEF Fresh
  <2>4. ASSUME NEW q \in Call
        PROVE  Ended(q)'
    BY <1>0, <2>1 DEF Inv, Ended, Loopback
  <2>5. \A g \in Goroutine : Connected(g)'
    BY <2>1 DEF Inv, Connected, Loopback
  <2>6. FilesRemoved'
    BY <2>1 DEF Inv, FilesRemoved, Fsync
  <2>7. QED
    BY <2>2, <2>3, <2>4, <2>5, <2>6 DEF Inv
<1>7. QED
  BY <1>1, <1>2, <1>3, <1>4, <1>5, <1>6 DEF ReturnStep

-----------------------------------------------------------------------------
(* The goroutines *)

\* A step of one goroutine of a call that has not returned, or of the server's
\* goroutine for it.
LEMMA GoroutineInv ==
  ASSUME Inv, TypeOK', NEW g \in Goroutine,
         UNCHANGED <<load, ctxVars, call, acceptor>>,
         \A h \in Goroutine \ {g} :
           loc'[h] = loc[h] /\ conn'[h] = conn[h] /\ handler'[h] = handler[h],
         loc[g] \in {"none", "done"} => loc'[g] \in {loc[g], "done"},
         loc[g] = "none" => loc'[g] = "none",
         Connected(g)',
         \A i \in Idx :
           file'[i] => \/ i = g[2] /\ Fsync(g[1]) /\ loc'[g] \in {"select", "work"}
                       \/ file[i] /\ (i = g[2] /\ Fsync(g[1]) => loc[g] \notin {"select", "work"})
  PROVE  Inv'
<1>1. Loopback(g[1])' = Loopback(g[1]) /\ \A k : Loopback(k)' = Loopback(k) /\ Fsync(k)' = Fsync(k)
  BY DEF Loopback, Fsync
<1>2. UNCHANGED <<coord, bursts>>
  BY DEF ctxVars
<1>3. Fresh'
  <2>1. ASSUME NEW k \in Call, k[2] > bursts, NEW h \in Of(k)
        PROVE  loc'[h] = "none"
    <3>1. loc[h] = "none" /\ h \in Goroutine
      BY <2>1, CallFacts DEF Inv, Fresh
    <3>2. QED
      BY <3>1
  <2>2. QED
    BY <1>2, <2>1 DEF Inv, Fresh
<1>4. ASSUME NEW k \in Call
      PROVE  Ended(k)'
  <2>1. ASSUME call[k] = "returned", k[1] # "alloc", NEW h \in Of(k)
        PROVE  loc'[h] \in {"none", "done"}
    <3>1. loc[h] \in {"none", "done"} /\ h \in Goroutine
      BY <2>1, CallFacts DEF Inv, Ended
    <3>2. QED
      BY <3>1
  <2>2. QED
    BY <1>1, <2>1 DEF Inv, Ended
<1>5. ASSUME NEW h \in Goroutine
      PROVE  Connected(h)'
  BY <1>1 DEF Inv, Connected
<1>6. FilesRemoved'
  <2>1. ASSUME NEW i \in Idx, file'[i]
        PROVE  \E h \in Goroutine : h[2] = i /\ Fsync(h[1]) /\ loc'[h] \in {"select", "work"}
    <3>1. CASE i = g[2] /\ Fsync(g[1]) /\ loc'[g] \in {"select", "work"}
      BY <3>1
    <3>2. CASE file[i] /\ (i = g[2] /\ Fsync(g[1]) => loc[g] \notin {"select", "work"})
      <4>1. PICK h \in Goroutine : h[2] = i /\ Fsync(h[1]) /\ loc[h] \in {"select", "work"}
        BY <3>2 DEF Inv, FilesRemoved
      <4>2. h # g
        BY <3>2, <4>1
      <4>3. QED
        BY <4>1, <4>2
    <3>3. QED
      BY <2>1, <3>1, <3>2
  <2>2. QED
    BY <1>1, <2>1 DEF FilesRemoved
<1>7. QED
  BY <1>3, <1>4, <1>5, <1>6 DEF Inv

\* A step that only moves a goroutine that holds no file and no connection.
LEMMA MoveInv ==
  ASSUME Inv, TypeOK', NEW g \in Goroutine, NEW x, Goto(g, x), loc[g] \notin {"none", "done"},
         UNCHANGED <<elsewhere, netVars, file>>,
         ~Loopback(g[1]), x # "read",
         Fsync(g[1]) => loc[g] \notin {"select", "work"} \/ x \in {"select", "work"}
  PROVE  Inv'
<1>1. /\ loc'[g] = x /\ \A h \in Goroutine \ {g} : loc'[h] = loc[h]
      /\ UNCHANGED <<load, ctxVars, call, acceptor, conn, handler, file>>
  BY DEF Inv, TypeOK, Goto, elsewhere, netVars
<1>2. Connected(g)'
  BY <1>1 DEF Inv, Connected, Loopback
<1>3. QED
  BY <1>1, <1>2, GoroutineInv

\* A step of a goroutine keeps the invariant.
LEMMA WorkInv ==
  ASSUME Inv, NEW g \in Goroutine, Work(g) \/ StopStep(g) \/ ServeStep(g)
  PROVE  Inv'
<1>0. /\ TypeOK /\ TypeOK' /\ loc \in [Goroutine -> LocType] /\ conn \in [Goroutine -> ConnType]
      /\ handler \in [Goroutine -> {"none", "serving", "done"}] /\ file \in [Idx -> BOOLEAN]
      /\ Connected(g) /\ g[1] \in Call /\ g[2] \in Idx
  BY WorkType, CallFacts DEF Inv, TypeOK, LocType, ConnType
<1>1. CASE PairStart(g) \/ AllocStart(g) \/ AllocBatch(g) \/ LockTick(g)
  BY <1>0, <1>1, MoveInv DEF PairStart, AllocStart, AllocBatch, LockTick, At, Loopback, Fsync
<1>2. CASE Lock(g) \/ Unlock(g)
  BY <1>0, <1>2, MoveInv DEF Lock, Unlock, At, Loopback, Fsync
<1>3. CASE Stop(g)
  BY <1>0, <1>3, MoveInv DEF Stop, Loopback, Fsync
<1>4. ASSUME NEW ch \in Channel, Receive(g, ch) \/ Tick(g, ch) \/ Send(g, ch)
      PROVE  Inv'
  <2>1. /\ Ticking["ping"] = "tick ping" /\ Ticking["pong"] = "tick pong"
        /\ Sending["ping"] = "send ping" /\ Sending["pong"] = "send pong"
        /\ Other(ch) \in {"ping", "pong"} /\ ch \in {"ping", "pong"}
    BY DEF Ticking, Sending, Other, Channel
  <2>2. PICK x : Goto(g, x) /\ x # "read"
    <3>1. /\ Ticking[ch] # "read" /\ Sending[ch] # "read"
          /\ Ticking[Other(ch)] # "read" /\ Sending[Other(ch)] # "read"
      BY <2>1
    <3>2. CASE Receive(g, ch) /\ load.paced
      BY <3>1, <3>2 DEF Receive
    <3>3. CASE Receive(g, ch) /\ ~load.paced
      BY <3>1, <3>3 DEF Receive
    <3>4. CASE Tick(g, ch) \/ Send(g, ch)
      BY <3>1, <3>4 DEF Tick, Send
    <3>5. QED
      BY <1>4, <3>2, <3>3, <3>4
  <2>3. g[1][1] = "scheduler" /\ loc[g] \notin {"none", "done"}
    BY <1>4, <2>1 DEF Receive, Tick, Send, At
  <2>4. QED
    BY <1>0, <1>4, <2>2, <2>3, MoveInv DEF Receive, Tick, Send, Loopback, Fsync
<1>5. CASE OpenFails(g) \/ WriteSync(g)
  BY <1>0, <1>5, MoveInv DEF OpenFails, WriteSync, FsyncAt, Fsync, Loopback
<1>6. CASE Open(g) \/ FsyncStops(g) \/ FsyncFails(g)
  <2>1. /\ UNCHANGED <<load, ctxVars, call, acceptor, conn, handler>>
        /\ Fsync(g[1]) /\ loc[g] \notin {"none", "done"}
    BY <1>6 DEF Open, FsyncStops, FsyncFails, Remove, FsyncAt, elsewhere, netVars
  <2>2. loc'[g] \in {"select", "done"} /\ \A h \in Goroutine \ {g} : loc'[h] = loc[h]
    BY <1>0, <1>6 DEF Open, FsyncStops, FsyncFails, Remove, Goto
  <2>3. Connected(g)'
    BY <1>0, <2>1, <2>2 DEF Connected, Loopback, Fsync
  <2>4. \A i \in Idx : file'[i] => \/ i = g[2] /\ loc'[g] = "select"
                                   \/ file[i] /\ i # g[2]
    BY <1>0, <1>6 DEF Open, FsyncStops, FsyncFails, Remove, Goto
  <2>5. QED
    BY <1>0, <2>1, <2>2, <2>3, <2>4, GoroutineInv
<1>7. ASSUME UNCHANGED <<load, ctxVars, call, acceptor, handler, file>>, Loopback(g[1]),
             loc[g] \notin {"none", "done"},
             \A h \in Goroutine \ {g} : loc'[h] = loc[h] /\ conn'[h] = conn[h],
             Connected(g)'
      PROVE  Inv'
  <2>1. ~Fsync(g[1])
    BY <1>7 DEF Loopback, Fsync
  <2>2. QED
    BY <1>0, <1>7, <2>1, GoroutineInv
<1>8. CASE Dial(g)
  <2>1. /\ UNCHANGED <<load, ctxVars, call, acceptor, handler, file>> /\ Loopback(g[1])
        /\ loc[g] = "new" /\ \A h \in Goroutine \ {g} : loc'[h] = loc[h] /\ conn'[h] = conn[h]
    BY <1>0, <1>8 DEF Dial, Client, Goto, elsewhere
  <2>2. CASE loc'[g] = "done" /\ conn' = conn
    BY <1>0, <1>7, <2>1, <2>2 DEF Connected, Loopback
  <2>3. CASE loc'[g] = "select" /\ conn'[g] = [NoConn EXCEPT !.client = "open", !.server = "queued"]
    <3>1. conn'[g].client = "open" /\ conn'[g].up = 0 /\ conn'[g].down = 0
      BY <2>3 DEF NoConn
    <3>2. Connected(g)'
      BY <2>1, <2>3, <3>1 DEF Connected, Loopback
    <3>3. QED
      BY <1>7, <2>1, <3>2
  <2>4. QED
    BY <1>0, <1>8, <2>2, <2>3 DEF Dial, Goto
<1>9. CASE Write(g) \/ Read(g)
  <2>1. /\ UNCHANGED <<load, ctxVars, call, acceptor, handler, file>> /\ Loopback(g[1])
        /\ loc[g] \in {"select", "read"}
        /\ \A h \in Goroutine \ {g} : loc'[h] = loc[h] /\ conn'[h] = conn[h]
    BY <1>0, <1>9 DEF Write, Read, Client, Goto, elsewhere
  <2>2. conn'[g].client = conn[g].client /\ conn'[g].server = conn[g].server
    BY <1>0, <1>9 DEF Write, Read, ConnType
  <2>3. CASE Write(g)
    <3>1. loc'[g] = "read" /\ conn'[g].down = 0
      BY <1>0, <2>1, <2>3 DEF Write, Client, Goto, Connected, ConnType
    <3>2. Connected(g)'
      BY <1>0, <2>1, <2>2, <3>1 DEF Connected, Loopback
    <3>3. QED
      BY <1>7, <2>1, <3>2
  <2>4. CASE Read(g)
    <3>1. loc'[g] = "select" /\ conn'[g].down = 0 /\ conn'[g].up = 0
      BY <1>0, <2>1, <2>4 DEF Read, Client, Goto, Connected, ConnType
    <3>2. Connected(g)'
      BY <1>0, <2>1, <2>2, <3>1 DEF Connected, Loopback
    <3>3. QED
      BY <1>7, <2>1, <3>2
  <2>5. QED
    BY <1>9, <2>3, <2>4
<1>10. CASE ClientFails(g) \/ ClientStops(g)
  <2>1. /\ UNCHANGED <<load, ctxVars, call, acceptor, handler, file>> /\ Loopback(g[1])
        /\ loc[g] \in {"select", "read"} /\ loc'[g] = "done"
        /\ \A h \in Goroutine \ {g} : loc'[h] = loc[h] /\ conn'[h] = conn[h]
    BY <1>0, <1>10 DEF ClientFails, ClientStops, HangUp, Client, Goto, elsewhere
  <2>2. conn'[g].client = "closed"
    BY <1>0, <1>10 DEF ClientFails, ClientStops, HangUp, ConnType
  <2>3. Connected(g)'
    BY <2>1, <2>2 DEF Connected
  <2>4. QED
    BY <1>7, <2>1, <2>3
<1>11. CASE Accept(g) \/ Echo(g) \/ HandlerReturns(g)
  <2>1. /\ UNCHANGED <<load, ctxVars, call, acceptor, loc, file>>
        /\ \A h \in Goroutine \ {g} : conn'[h] = conn[h] /\ handler'[h] = handler[h]
    BY <1>0, <1>11 DEF Accept, Echo, HandlerReturns, elsewhere
  <2>2. /\ conn'[g].client = conn[g].client
        /\ (handler'[g] = "serving" \/ conn'[g].server = "queued") =>
             (handler[g] = "serving" \/ conn[g].server = "queued")
    BY <1>0, <1>11 DEF Accept, Echo, HandlerReturns, ConnType
  <2>3. \/ conn'[g].up = conn[g].up /\ conn'[g].down = conn[g].down
        \/ conn[g].up = 1 /\ conn'[g].up = 0
    BY <1>0, <1>11 DEF Accept, Echo, HandlerReturns, ConnType
  <2>4. Connected(g)'
    BY <1>0, <2>1, <2>2, <2>3 DEF Connected, Loopback
  <2>5. QED
    <3>1. \A i \in Idx : file'[i] =>
            \/ i = g[2] /\ Fsync(g[1]) /\ loc'[g] \in {"select", "work"}
            \/ file[i] /\ (i = g[2] /\ Fsync(g[1]) => loc[g] \notin {"select", "work"})
      BY <2>1
    <3>2. QED
      BY <1>0, <2>1, <2>4, <3>1, GoroutineInv
<1>12. QED
  BY <1>1, <1>2, <1>3, <1>4, <1>5, <1>6, <1>8, <1>9, <1>10, <1>11 DEF Work, StopStep, ServeStep

-----------------------------------------------------------------------------
(* The theorems *)

\* The invariant holds of every behaviour of the primitives.
LEMMA InvAlways == Spec => []Inv
<1>1. ASSUME Inv, [Next]_vars
      PROVE  Inv'
  <2>1. CASE UNCHANGED vars
    BY <1>1, <2>1 DEF vars, Inv, TypeOK, Fresh, Ended, Connected, FilesRemoved, Loopback, Fsync
  <2>2. CASE Next
    BY <1>1, <2>2, ContextInv, BurstStartInv, CallInv, WorkInv DEF Next
  <2>3. QED
    BY <1>1, <2>1, <2>2
<1>2. QED
  BY <1>1, InitInv, PTL DEF Spec

\* The variables have their types: in particular a connection never holds more
\* than one message in either direction.
THEOREM TypeCorrect == Spec => []TypeOK
BY InvAlways, PTL DEF Inv

\* A call that has returned has left nothing behind but goroutines of RunAlloc
\* and handlers of the loopback server whose clients have hung up
\* (syscall.go, lock.go, scheduler.go, alloc.go).
THEOREM ReturnedIsQuiet == Spec => []ReturnedMeansQuiet
<1>1. ASSUME Inv
      PROVE  ReturnedMeansQuiet
  <2>1. SUFFICES ASSUME NEW k \in Call, call[k] = "returned"
                 PROVE  /\ k[1] # "alloc" => AllDone(k)
                        /\ acceptor[k] \in {"none", "done"}
                        /\ \A g \in Of(k) : handler[g] = "serving" => conn[g].client = "closed"
    BY DEF ReturnedMeansQuiet
  <2>2. Ended(k)
    BY <1>1 DEF Inv
  <2>3. k[1] # "alloc" => AllDone(k)
    BY <2>1, <2>2 DEF Ended, AllDone, Goroutines
  <2>4. ASSUME NEW g \in Of(k), handler[g] = "serving"
        PROVE  conn[g].client = "closed"
    <3>1. g \in Goroutine /\ g[1] = k /\ Connected(g)
      BY <1>1, CallFacts DEF Inv
    <3>2. conn[g].client \in {"none", "open", "closed"} /\ conn[g].client # "none"
      BY <1>1, <2>4, <3>1 DEF Inv, TypeOK, Connected
    <3>3. conn[g].client # "open"
      BY <2>1, <2>2, <3>1 DEF Connected, Ended, Loopback
    <3>4. QED
      BY <3>2, <3>3
  <2>5. QED
    BY <2>1, <2>2, <2>3, <2>4 DEF Ended
<1>2. QED
  BY <1>1, InvAlways, PTL

\* A file that runTmpfsFsync has made is the business of a goroutine that is
\* still in its loop, whichever of those that share its name (syscall.go).
THEOREM FilesAreRemoved == Spec => []FilesRemoved
BY InvAlways, PTL DEF Inv
=============================================================================
