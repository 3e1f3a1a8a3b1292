---------------------------- MODULE WorkerProofs ----------------------------
(***************************************************************************)
(* Proofs about Worker and the Writer it uses, for every number of         *)
(* samplers and every capacity of the channel and of the buffer.           *)
(***************************************************************************)
EXTENDS Worker, SequenceTheorems, TLAPS

-----------------------------------------------------------------------------
(* Types *)

\* The events the code emits are events.
LEMMA EventTypes ==
  /\ "startup" \in Event /\ "sample" \in Event /\ "sync_error" \in Event
  /\ "start" \in Event /\ "end" \in Event /\ "shutdown" \in Event
BY EventAssumption

\* main and the loops are different threads.
LEMMA ThreadTypes ==
  /\ Main \in Thread /\ Coordinator \in Thread /\ Coordinator \in Loop
  /\ \A g \in Loop : g \in Thread /\ g # Main
BY ThreadAssumption DEF Loop

\* Emit keeps the writer's types.
LEMMA EmitType ==
  ASSUME WriterTypeOK, NEW t \in Thread, NEW e \in Event, Emit(t, e)
  PROVE  WriterTypeOK'
<1>1. ignored' \in Nat
  BY DEF WriterTypeOK, Emit
<1>2. pending' \in [Thread -> Event \cup {None}]
  BY DEF WriterTypeOK, Emit
<1>3. QED
  BY <1>1, <1>2 DEF WriterTypeOK, Emit

\* A send into the channel keeps the writer's types.
LEMMA SendType ==
  ASSUME WriterTypeOK, NEW t \in Thread, Send(t)
  PROVE  WriterTypeOK'
<1>1. pending[t] \in Event
  BY DEF WriterTypeOK, Send, Emitting
<1>2. pending' \in [Thread -> Event \cup {None}]
  BY DEF WriterTypeOK, Send
<1>a. queue \in Seq(Event) /\ accepted \in Seq(Event) /\ dropped \in Nat /\ Len(queue) <= ChanCap
  BY DEF WriterTypeOK
<1>b. /\ Append(queue, pending[t]) \in Seq(Event)
      /\ Len(Append(queue, pending[t])) = Len(queue) + 1
      /\ Append(accepted, pending[t]) \in Seq(Event)
  BY <1>1, <1>a, AppendProperties
<1>c. Len(queue) \in Nat
  BY <1>a
<1>d. \/ /\ Len(queue) < ChanCap
         /\ queue' = Append(queue, pending[t])
         /\ accepted' = Append(accepted, pending[t])
         /\ dropped' = dropped
      \/ dropped' = dropped + 1 /\ queue' = queue /\ accepted' = accepted
  BY DEF Send
<1>3. queue' \in Seq(Event) /\ Len(queue') <= ChanCap
  <2>1. CASE queue' = queue
    BY <2>1, <1>a
  <2>2. CASE Len(queue) < ChanCap /\ queue' = Append(queue, pending[t])
    BY <2>2, <1>b, <1>c, CapAssumption
  <2>3. QED
    BY <2>1, <2>2, <1>d
<1>4. accepted' \in Seq(Event) /\ dropped' \in Nat
  <2>1. dropped' \in Nat
    BY <1>a, <1>d
  <2>2. accepted' = accepted \/ accepted' = Append(accepted, pending[t])
    BY <1>d
  <2>3. QED
    BY <2>1, <2>2, <1>a, <1>b
<1>5. QED
  BY <1>2, <1>3, <1>4 DEF WriterTypeOK, Send

\* Encode keeps the writer's types.
LEMMA EncodeType ==
  ASSUME WriterTypeOK, Encode
  PROVE  WriterTypeOK'
<1>1. Head(queue) \in Event /\ Tail(queue) \in Seq(Event) /\ Len(Tail(queue)) <= ChanCap
  BY CapAssumption, HeadTailProperties DEF WriterTypeOK, Encode
<1>2. queue' \in Seq(Event) /\ Len(queue') <= ChanCap
  BY <1>1 DEF Encode
<1>3. file \o buf \in Seq(Event)
  BY ConcatProperties DEF WriterTypeOK
<1>4. file' \in Seq(Event)
  BY <1>3 DEF WriterTypeOK, Encode, FlushTo
<1>5. <<Head(queue)>> \in Seq(Event) /\ Len(<<Head(queue)>>) = 1
  BY <1>1
<1>6. buf' \in Seq(Event) /\ Len(buf') <= BufCap
  <2>1. buf \in Seq(Event) /\ Len(buf) <= BufCap /\ Len(buf) \in Nat
    BY DEF WriterTypeOK
  <2>2. CASE buf' = buf
    BY <2>1, <2>2
  <2>3. CASE Len(buf) < BufCap /\ buf' = Append(buf, Head(queue))
    <3>1. Append(buf, Head(queue)) \in Seq(Event) /\ Len(Append(buf, Head(queue))) = Len(buf) + 1
      BY <1>1, <2>1, AppendProperties
    <3>2. QED
      BY <2>1, <2>3, <3>1, CapAssumption
  <2>4. CASE buf' = <<Head(queue)>>
    BY <1>5, <2>4, CapAssumption
  <2>5. QED
    BY <2>2, <2>3, <2>4 DEF Encode
<1>7. failed' \in BOOLEAN
  BY DEF WriterTypeOK, Encode
<1>8. QED
  BY <1>2, <1>4, <1>6, <1>7 DEF WriterTypeOK, Encode

\* The last flush keeps the writer's types.
LEMMA CloseFlushType ==
  ASSUME WriterTypeOK, CloseFlush
  PROVE  WriterTypeOK'
<1>1. file \o buf \in Seq(Event)
  BY ConcatProperties DEF WriterTypeOK
<1>2. file' \in Seq(Event) /\ buf' \in Seq(Event) /\ Len(buf') <= BufCap
  <2>1. << >> \in Seq(Event) /\ Len(<< >>) = 0 /\ 0 <= BufCap
    BY EmptySeq, CapAssumption
  <2>2. CASE FlushOK
    BY <1>1, <2>1, <2>2 DEF CloseFlush
  <2>3. CASE ~FlushOK
    BY <2>3 DEF WriterTypeOK, CloseFlush
  <2>4. QED
    BY <2>2, <2>3
<1>3. failed' \in BOOLEAN
  BY DEF WriterTypeOK, CloseFlush
<1>4. QED
  BY <1>2, <1>3 DEF WriterTypeOK, CloseFlush

\* A step that leaves the writer alone keeps its types.
LEMMA WriterUnchanged ==
  ASSUME WriterTypeOK, UNCHANGED writerVars
  PROVE  WriterTypeOK'
BY DEF WriterTypeOK, writerVars

\* A step of the writer alone keeps the worker's types.
LEMMA WorkerUnchanged ==
  ASSUME TypeOK, UNCHANGED workerVars, WriterTypeOK'
  PROVE  TypeOK'
BY DEF TypeOK, workerVars

\* The types hold initially.
LEMMA InitType == Init => TypeOK
<1> SUFFICES ASSUME Init PROVE TypeOK
  OBVIOUS
<1>1. << >> \in Seq(Event) /\ Len(<< >>) = 0 /\ 0 <= ChanCap /\ 0 <= BufCap
  BY EmptySeq, CapAssumption
<1>2. WriterTypeOK
  BY <1>1 DEF Init, NewWriter, WriterTypeOK
<1>3. 0 \in 0..MaxEvents
  BY BoundAssumption
<1>4. QED
  BY <1>2, <1>3 DEF Init, TypeOK

\* A step of a loop keeps the types.
LEMMA LoopStepType ==
  ASSUME TypeOK, NEW g \in Loop, LoopStep(g)
  PROVE  TypeOK'
<1> USE EventTypes, ThreadTypes
<1>1. CASE g \in Sampler /\ Tick(g)
  <2>1. WriterTypeOK'
    BY <1>1, EmitType DEF TypeOK, Tick
  <2>2. work' \in 0..MaxEvents
    BY <1>1, BoundAssumption DEF TypeOK, Tick
  <2>3. QED
    BY <1>1, <2>1, <2>2 DEF TypeOK, Tick
<1>2. CASE g \in Sampler /\ SamplerReturns(g)
  <2>1. WriterTypeOK'
    BY <1>2, WriterUnchanged DEF TypeOK, SamplerReturns
  <2>2. QED
    BY <1>2, <2>1 DEF TypeOK, SamplerReturns
<1>3. CASE ConnectOK
  <2>1. WriterTypeOK'
    BY <1>3, WriterUnchanged DEF TypeOK, ConnectOK
  <2>2. QED
    BY <1>3, <2>1 DEF TypeOK, ConnectOK
<1>4. CASE ConnectFails
  <2>1. WriterTypeOK'
    BY <1>4, EmitType DEF TypeOK, ConnectFails
  <2>2. QED
    BY <1>4, <2>1 DEF TypeOK, ConnectFails
<1>5. CASE BurstStarts
  <2>1. WriterTypeOK'
    BY <1>5, EmitType DEF TypeOK, BurstStarts
  <2>2. work' \in 0..MaxEvents
    BY <1>5, BoundAssumption DEF TypeOK, BurstStarts
  <2>3. QED
    BY <1>5, <2>1, <2>2 DEF TypeOK, BurstStarts
<1>6. CASE BurstEnds
  <2>1. WriterTypeOK'
    BY <1>6, EmitType DEF TypeOK, BurstEnds
  <2>2. QED
    BY <1>6, <2>1 DEF TypeOK, BurstEnds
<1>7. CASE CoordinatorReturns
  <2>1. WriterTypeOK'
    BY <1>7, WriterUnchanged DEF TypeOK, CoordinatorReturns
  <2>2. QED
    BY <1>7, <2>1 DEF TypeOK, CoordinatorReturns
<1>8. QED
  BY <1>1, <1>2, <1>3, <1>4, <1>5, <1>6, <1>7 DEF LoopStep

\* A step of main keeps the types.
LEMMA MainStepType ==
  ASSUME TypeOK, MainStep
  PROVE  TypeOK'
<1> USE EventTypes, ThreadTypes
<1>1. CASE EmitStartup
  <2>1. WriterTypeOK'
    BY <1>1, EmitType DEF TypeOK, EmitStartup
  <2>2. QED
    BY <1>1, <2>1 DEF TypeOK, EmitStartup
<1>2. CASE Spawn
  <2>1. WriterTypeOK'
    BY <1>2, WriterUnchanged DEF TypeOK, Spawn
  <2>2. QED
    BY <1>2, <2>1 DEF TypeOK, Spawn
<1>3. CASE Join
  <2>1. WriterTypeOK'
    BY <1>3, EmitType DEF TypeOK, Join
  <2>2. QED
    BY <1>3, <2>1 DEF TypeOK, Join
<1>4. CASE Close
  <2>1. WriterTypeOK'
    BY <1>4 DEF TypeOK, WriterTypeOK, Close, CloseMark
  <2>2. QED
    BY <1>4, <2>1 DEF TypeOK, Close
<1>5. CASE Seal
  <2>1. WriterTypeOK'
    BY <1>5 DEF TypeOK, WriterTypeOK, Seal, CloseChannel
  <2>2. QED
    BY <1>5, <2>1 DEF TypeOK, Seal
<1>6. CASE Flush
  <2>1. WriterTypeOK'
    BY <1>6, CloseFlushType DEF TypeOK, Flush
  <2>2. QED
    BY <1>6, <2>1 DEF TypeOK, Flush
<1>7. CASE SyncFile
  <2>1. WriterTypeOK'
    BY <1>7, WriterUnchanged DEF TypeOK, SyncFile
  <2>2. QED
    BY <1>7, <2>1 DEF TypeOK, SyncFile
<1>8. QED
  BY <1>1, <1>2, <1>3, <1>4, <1>5, <1>6, <1>7 DEF MainStep

\* Every step keeps the types.
LEMMA TypeInductive ==
  ASSUME TypeOK, [Next]_vars
  PROVE  TypeOK'
<1>1. CASE MainStep
  BY <1>1, MainStepType
<1>2. CASE \E g \in Loop : LoopStep(g)
  BY <1>2, LoopStepType
<1>3. CASE \E t \in Thread : EmitSends(t)
  <2>1. WriterTypeOK' /\ UNCHANGED workerVars
    BY <1>3, SendType DEF TypeOK, EmitSends
  <2>2. QED
    BY <2>1, WorkerUnchanged
<1>4. CASE Flusher
  <2>1. ASSUME FlusherReturns PROVE WriterTypeOK'
    BY <2>1 DEF TypeOK, WriterTypeOK, FlusherReturns
  <2>2. WriterTypeOK' /\ UNCHANGED workerVars
    BY <1>4, <2>1, EncodeType DEF TypeOK, Flusher
  <2>3. QED
    BY <2>2, WorkerUnchanged
<1>5. CASE Cancel
  <2>1. WriterTypeOK'
    BY <1>5, WriterUnchanged DEF TypeOK, Cancel
  <2>2. QED
    BY <1>5, <2>1 DEF TypeOK, Cancel
<1>6. CASE Kill
  <2>1. WriterTypeOK'
    BY <1>6, WriterUnchanged DEF TypeOK, Kill
  <2>2. QED
    BY <1>6, <2>1 DEF TypeOK, Kill
<1>7. CASE Disk
  <2>1. WriterTypeOK' /\ UNCHANGED workerVars
    BY <1>7 DEF TypeOK, WriterTypeOK, Disk, DiskChanges
  <2>2. QED
    BY <2>1, WorkerUnchanged
<1>8. CASE UNCHANGED vars
  <2>1. WriterTypeOK' /\ UNCHANGED workerVars
    BY <1>8, WriterUnchanged DEF TypeOK, vars
  <2>2. QED
    BY <2>1, WorkerUnchanged
<1>9. QED
  BY <1>1, <1>2, <1>3, <1>4, <1>5, <1>6, <1>7, <1>8 DEF Next

\* The state of a worker has its type in every reachable state.
THEOREM TypeCorrect == Spec => []TypeOK
<1>1. Init => TypeOK
  BY InitType
<1>2. TypeOK /\ [Next]_vars => TypeOK'
  BY TypeInductive
<1>3. QED
  BY <1>1, <1>2, PTL DEF Spec

-----------------------------------------------------------------------------
(* main's discipline *)

Closing == {"seal", "drain", "sync", "returned"}

\* What makes Close safe: goroutines exist only between Spawn and Join, one that
\* has returned is not in Emit, and Close starts when main itself is not.
Discipline ==
  /\ ignored = 0
  /\ closed <=> main \in Closing
  /\ sealed <=> main \in Closing \ {"seal"}
  /\ main \in {"startup", "spawn"} => \A g \in Loop : loop[g] = "off"
  /\ main \in Closing \cup {"close"} => \A g \in Loop : loop[g] = "returned"
  /\ \A g \in Loop : loop[g] \in {"off", "connect", "returned"} => pending[g] = None
  /\ main \in Closing => pending[Main] = None

\* The order of the shutdown holds initially.
LEMMA InitDiscipline == Init => Discipline
<1> SUFFICES ASSUME Init PROVE Discipline
  OBVIOUS
<1>1. pending[Main] = None /\ \A g \in Loop : pending[g] = None
  BY ThreadTypes DEF Init, NewWriter
<1>2. main = "startup" /\ ~closed /\ ~sealed /\ ignored = 0 /\ \A g \in Loop : loop[g] = "off"
  BY DEF Init, NewWriter
<1>3. QED
  BY <1>1, <1>2 DEF Discipline, Closing

\* What a call of Emit by t leaves alone while the writer is not closed.
LEMMA EmitFrame ==
  ASSUME WriterTypeOK, NEW t \in Thread, NEW e \in Event, Emit(t, e), ~closed
  PROVE  /\ ignored' = ignored /\ closed' = closed /\ sealed' = sealed
         /\ \A u \in Thread : u # t => pending'[u] = pending[u]
BY DEF WriterTypeOK, Emit

\* A step of a loop keeps the order of the shutdown.
LEMMA LoopStepDiscipline ==
  ASSUME TypeOK, Discipline, NEW g \in Loop, LoopStep(g)
  PROVE  Discipline'
<1> USE EventTypes, ThreadTypes
<1>0. loop \in [Loop -> {"off", "connect", "run", "burst", "returned"}] /\ WriterTypeOK
  BY DEF TypeOK
<1>1. loop[g] \in {"connect", "run", "burst"}
  BY DEF LoopStep, Tick, SamplerReturns, ConnectOK, ConnectFails, BurstStarts, BurstEnds,
         CoordinatorReturns
<1>2. main \notin Closing \cup {"close", "startup", "spawn"} /\ main' = main
  BY <1>1 DEF Discipline, LoopStep, Tick, SamplerReturns, ConnectOK, ConnectFails,
         BurstStarts, BurstEnds, CoordinatorReturns
<1>3. ~closed /\ ~sealed
  BY <1>2 DEF Discipline
<1>4. CASE \E e \in Event : Emit(g, e) /\ loop'[g] \in {"run", "burst"}
                            /\ \A h \in Loop : h # g => loop'[h] = loop[h]
  <2>1. /\ ignored' = ignored /\ closed' = closed /\ sealed' = sealed
        /\ \A u \in Thread : u # g => pending'[u] = pending[u]
    BY <1>0, <1>3, <1>4, EmitFrame
  <2>2. \A h \in Loop : loop'[h] \in {"off", "connect", "returned"} => pending'[h] = None
    BY <1>4, <2>1 DEF Discipline
  <2>3. QED
    BY <1>2, <1>3, <2>1, <2>2 DEF Discipline
<1>5. CASE UNCHANGED writerVars /\ loop'[g] \in {"run", "returned"} /\ pending[g] = None
           /\ \A h \in Loop : h # g => loop'[h] = loop[h]
  <2>1. \A h \in Loop : loop'[h] \in {"off", "connect", "returned"} => pending'[h] = None
    BY <1>5 DEF Discipline, writerVars
  <2>2. QED
    BY <1>2, <1>3, <1>5, <2>1 DEF Discipline, writerVars
<1>6. CASE g \in Sampler /\ Tick(g)
  <2>1. Emit(g, "sample") /\ loop' = loop /\ loop[g] = "run"
    BY <1>6 DEF Tick
  <2>2. QED
    BY <1>4, <2>1
<1>7. CASE g \in Sampler /\ SamplerReturns(g)
  BY <1>0, <1>5, <1>7 DEF SamplerReturns, Emitting
<1>8. CASE g = Coordinator /\ ConnectOK
  BY <1>0, <1>5, <1>8 DEF ConnectOK, Discipline
<1>9. CASE g = Coordinator /\ ConnectFails
  <2>1. Emit(g, "sync_error") /\ loop' = [loop EXCEPT ![g] = "run"]
    BY <1>9 DEF ConnectFails
  <2>2. QED
    BY <1>0, <1>4, <2>1
<1>10. CASE g = Coordinator /\ BurstStarts
  <2>1. Emit(g, "start") /\ loop' = [loop EXCEPT ![g] = "burst"]
    BY <1>10 DEF BurstStarts
  <2>2. QED
    BY <1>0, <1>4, <2>1
<1>11. CASE g = Coordinator /\ BurstEnds
  <2>1. Emit(g, "end") /\ loop' = [loop EXCEPT ![g] = "run"]
    BY <1>11 DEF BurstEnds
  <2>2. QED
    BY <1>0, <1>4, <2>1
<1>12. CASE g = Coordinator /\ CoordinatorReturns
  BY <1>0, <1>5, <1>12 DEF CoordinatorReturns, Emitting
<1>13. QED
  BY <1>6, <1>7, <1>8, <1>9, <1>10, <1>11, <1>12 DEF LoopStep

\* A step of main keeps the order of the shutdown.
LEMMA MainStepDiscipline ==
  ASSUME TypeOK, Discipline, MainStep
  PROVE  Discipline'
<1> USE EventTypes, ThreadTypes
<1>0. WriterTypeOK
  BY DEF TypeOK
<1>1. CASE EmitStartup
  <2>1. ~closed /\ main = "startup" /\ main' = "spawn" /\ loop' = loop
    BY <1>1 DEF EmitStartup, Discipline, Closing
  <2>2. /\ ignored' = ignored /\ closed' = closed /\ sealed' = sealed
        /\ \A u \in Loop : pending'[u] = pending[u]
    BY <1>0, <1>1, <2>1, EmitFrame DEF EmitStartup
  <2>3. QED
    BY <2>1, <2>2 DEF Discipline, Closing
<1>2. CASE Spawn
  <2>1. \A g \in Loop : pending'[g] = None
    BY <1>2 DEF Spawn, writerVars, Discipline
  <2>2. QED
    BY <1>2, <2>1 DEF Spawn, writerVars, Discipline, Closing
<1>3. CASE Join
  <2>1. ~closed /\ main = "join" /\ main' = "close" /\ loop' = loop
    BY <1>3 DEF Join, Discipline, Closing
  <2>2. /\ ignored' = ignored /\ closed' = closed /\ sealed' = sealed
        /\ \A u \in Loop : pending'[u] = pending[u]
    BY <1>0, <1>3, <2>1, EmitFrame DEF Join
  <2>3. \A g \in Loop : loop[g] = "returned"
    BY <1>3 DEF Join
  <2>4. QED
    BY <2>1, <2>2, <2>3 DEF Discipline, Closing
<1>4. CASE Close
  <2>1. /\ main = "close" /\ main' = "seal" /\ loop' = loop /\ pending[Main] = None
        /\ closed' /\ sealed' = sealed /\ ignored' = ignored /\ pending' = pending
    BY <1>4 DEF Close, CloseMark, Emitting
  <2>2. QED
    BY <2>1 DEF Discipline, Closing
<1>5. CASE Seal
  BY <1>5 DEF Seal, CloseChannel, Discipline, Closing
<1>6. CASE Flush
  <2>1. main = "drain" /\ main' \in {"sync", "returned"}
    BY <1>6 DEF Flush
  <2>2. /\ ignored' = ignored /\ closed' = closed /\ sealed' = sealed /\ pending' = pending
        /\ loop' = loop
    BY <1>6 DEF Flush, CloseFlush
  <2>3. QED
    BY <2>1, <2>2 DEF Discipline, Closing
<1>7. CASE SyncFile
  BY <1>7 DEF SyncFile, writerVars, Discipline, Closing
<1>8. QED
  BY <1>1, <1>2, <1>3, <1>4, <1>5, <1>6, <1>7 DEF MainStep

\* Every step keeps the order of the shutdown.
LEMMA DisciplineInductive ==
  ASSUME TypeOK, Discipline, [Next]_vars
  PROVE  Discipline'
<1>1. CASE MainStep
  BY <1>1, MainStepDiscipline
<1>2. CASE \E g \in Loop : LoopStep(g)
  BY <1>2, LoopStepDiscipline
<1>3. CASE \E t \in Thread : EmitSends(t)
  <2>1. PICK t \in Thread : EmitSends(t)
    BY <1>3
  <2>2. pending' = [pending EXCEPT ![t] = None] /\ pending \in [Thread -> Event \cup {None}]
    BY <2>1 DEF EmitSends, Send, TypeOK, WriterTypeOK
  <2>3. \A u \in Thread : pending[u] = None => pending'[u] = None
    BY <2>2
  <2>4. /\ ignored' = ignored /\ closed' = closed /\ sealed' = sealed
        /\ main' = main /\ loop' = loop
    BY <2>1 DEF EmitSends, Send, workerVars
  <2>5. QED
    BY <2>3, <2>4, ThreadTypes DEF Discipline
<1>4. CASE Flusher
  <2>1. /\ ignored' = ignored /\ closed' = closed /\ sealed' = sealed /\ pending' = pending
        /\ main' = main /\ loop' = loop
    BY <1>4 DEF Flusher, Encode, FlusherReturns, workerVars
  <2>2. QED
    BY <2>1 DEF Discipline
<1>5. CASE Cancel \/ Kill \/ Disk \/ UNCHANGED vars
  <2>1. /\ ignored' = ignored /\ closed' = closed /\ sealed' = sealed /\ pending' = pending
        /\ main' = main /\ loop' = loop
    BY <1>5 DEF Cancel, Kill, Disk, DiskChanges, vars, writerVars, workerVars
  <2>2. QED
    BY <2>1 DEF Discipline
<1>6. QED
  BY <1>1, <1>2, <1>3, <1>4, <1>5 DEF Next

\* No event meets a closed writer (jsonl.go 51-79): main joins the goroutines
\* that emit before it closes the writer, so no send can panic and no event is
\* discarded uncounted.
THEOREM EmitsComeBeforeClose == Spec => []EmitsBeforeClose
<1>1. Init => TypeOK /\ Discipline
  BY InitType, InitDiscipline
<1>2. TypeOK /\ Discipline /\ [Next]_vars => (TypeOK /\ Discipline)'
  BY TypeInductive, DisciplineInductive
<1>3. Discipline => EmitsBeforeClose
  <2> SUFFICES ASSUME Discipline PROVE EmitsBeforeClose
    OBVIOUS
  <2>1. ASSUME closed, NEW t \in Thread PROVE pending[t] = None
    <3>1. main \in Closing
      BY <2>1 DEF Discipline
    <3>2. t = Main \/ t \in Loop
      BY ThreadAssumption
    <3>3. QED
      BY <3>1, <3>2 DEF Discipline
  <2>2. QED
    BY <2>1 DEF EmitsBeforeClose, Emitting, Discipline
<1>4. QED
  BY <1>1, <1>2, <1>3, PTL DEF Spec

-----------------------------------------------------------------------------
(* Nothing is lost silently *)

\* Appending to a concatenation appends to its second part.
LEMMA AppendToConcat ==
  ASSUME NEW s \in Seq(Event), NEW q \in Seq(Event), NEW e \in Event
  PROVE  Append(s \o q, e) = s \o Append(q, e)
<1>1. <<e>> \in Seq(Event) /\ s \o q \in Seq(Event)
  BY ConcatProperties
<1>2. Append(s \o q, e) = (s \o q) \o <<e>> /\ Append(q, e) = q \o <<e>>
  BY <1>1, AppendIsConcat
<1>3. (s \o q) \o <<e>> = s \o (q \o <<e>>)
  BY <1>1, ConcatAssociative
<1>4. QED
  BY <1>2, <1>3

\* Moving the head of the second part to the end of the first one.
LEMMA MoveHead ==
  ASSUME NEW s \in Seq(Event), NEW q \in Seq(Event), q # << >>
  PROVE  s \o q = (s \o <<Head(q)>>) \o Tail(q)
<1>1. Head(q) \in Event /\ Tail(q) \in Seq(Event) /\ <<Head(q)>> \in Seq(Event)
  BY HeadTailProperties
<1>2. q = <<Head(q)>> \o Tail(q)
  <2>1. /\ <<Head(q)>> \o Tail(q) \in Seq(Event)
        /\ Len(<<Head(q)>> \o Tail(q)) = 1 + Len(Tail(q))
        /\ \A i \in 1 .. 1 + Len(Tail(q)) : (<<Head(q)>> \o Tail(q))[i] =
              IF i <= 1 THEN <<Head(q)>>[i] ELSE Tail(q)[i - 1]
    BY <1>1, ConcatProperties
  <2>2. Len(Tail(q)) = Len(q) - 1 /\ \A i \in 1 .. Len(Tail(q)) : Tail(q)[i] = q[i + 1]
    BY HeadTailProperties
  <2>3. Len(q) \in Nat /\ Len(q) = Len(<<Head(q)>> \o Tail(q))
    BY <2>1, <2>2
  <2>4. ASSUME NEW i \in 1 .. Len(q) PROVE q[i] = (<<Head(q)>> \o Tail(q))[i]
    <3>1. CASE i = 1
      BY <2>1, <2>2, <2>3, <3>1
    <3>2. CASE i # 1
      <4>1. i - 1 \in 1 .. Len(Tail(q)) /\ i \in 1 .. 1 + Len(Tail(q)) /\ ~(i <= 1)
        BY <2>2, <2>3, <3>2
      <4>2. Tail(q)[i - 1] = q[(i - 1) + 1] /\ (i - 1) + 1 = i
        BY <2>2, <4>1
      <4>3. QED
        BY <2>1, <4>1, <4>2
    <3>3. QED
      BY <3>1, <3>2
  <2>5. QED
    BY <2>1, <2>3, <2>4, SeqEqual
<1>3. (s \o <<Head(q)>>) \o Tail(q) = s \o (<<Head(q)>> \o Tail(q))
  BY <1>1, ConcatAssociative
<1>4. QED
  BY <1>2, <1>3

dataVars == <<queue, buf, file, accepted, failed, flusher>>

\* The file is a prefix of what was accepted.
FilePrefix == \E rest \in Seq(Event) : accepted = file \o rest

\* Until a write fails the accepted events are all somewhere; the flusher is
\* done only when the channel is closed and empty, and main gets past the flush
\* only when none failed.
Lossless ==
  /\ ~failed => accepted = (file \o buf) \o queue
  /\ FilePrefix
  /\ flusher = "done" => sealed /\ queue = << >>
  /\ (main = "sync" \/ exit = "ok") => ~failed /\ buf = << >> /\ flusher = "done"

\* The account of the accepted events holds initially.
LEMMA InitLossless == Init => Lossless
<1> SUFFICES ASSUME Init PROVE Lossless
  OBVIOUS
<1>1. << >> \in Seq(Event)
  BY EmptySeq
<1>2. (<< >> \o << >>) \o << >> = << >> /\ << >> \o << >> = << >>
  BY <1>1, ConcatEmptySeq
<1>3. /\ file = << >> /\ buf = << >> /\ queue = << >> /\ accepted = << >>
      /\ flusher = "running" /\ main = "startup" /\ exit = "none"
  BY DEF Init, NewWriter
<1>4. FilePrefix
  BY <1>1, <1>2, <1>3 DEF FilePrefix
<1>5. QED
  BY <1>2, <1>3, <1>4 DEF Lossless

\* A step that leaves the data alone keeps Lossless, when it neither reopens the
\* channel nor gets main past the flush.
LEMMA LosslessFrame ==
  ASSUME Lossless, UNCHANGED dataVars, sealed => sealed',
         (main' = "sync" \/ exit' = "ok") => (main = "sync" \/ exit = "ok")
  PROVE  Lossless'
<1>1. FilePrefix'
  BY DEF Lossless, FilePrefix, dataVars
<1>2. QED
  BY <1>1 DEF Lossless, dataVars

\* A send moves an event from its sender into the channel.
LEMMA SendLossless ==
  ASSUME TypeOK, Lossless, NEW t \in Thread, Up, Send(t), UNCHANGED workerVars
  PROVE  Lossless'
<1>1. /\ queue \in Seq(Event) /\ file \in Seq(Event) /\ buf \in Seq(Event)
      /\ accepted \in Seq(Event) /\ pending[t] \in Event
  BY DEF TypeOK, WriterTypeOK, Send, Emitting
<1>2. /\ ~sealed /\ sealed' = sealed /\ file' = file /\ buf' = buf /\ failed' = failed
      /\ flusher' = flusher /\ main' = main /\ exit' = exit
  BY DEF Send, workerVars
<1>3. flusher # "done"
  BY <1>2 DEF Lossless
<1>4. CASE queue' = queue /\ accepted' = accepted
  BY <1>2, <1>4, LosslessFrame DEF dataVars
<1>5. CASE queue' = Append(queue, pending[t]) /\ accepted' = Append(accepted, pending[t])
  <2>1. ~failed' => accepted' = (file' \o buf') \o queue'
    <3>1. file \o buf \in Seq(Event)
      BY <1>1, ConcatProperties
    <3>2. Append((file \o buf) \o queue, pending[t]) = (file \o buf) \o Append(queue, pending[t])
      BY <1>1, <3>1, AppendToConcat
    <3>3. QED
      BY <1>2, <1>5, <3>2 DEF Lossless
  <2>2. FilePrefix'
    <3>1. PICK rest \in Seq(Event) : accepted = file \o rest
      BY DEF Lossless, FilePrefix
    <3>2. Append(rest, pending[t]) \in Seq(Event)
      BY <1>1, AppendProperties
    <3>3. accepted' = file' \o Append(rest, pending[t])
      BY <1>1, <1>2, <1>5, <3>1, AppendToConcat
    <3>4. QED
      BY <3>2, <3>3 DEF FilePrefix
  <2>3. QED
    BY <1>2, <1>3, <2>1, <2>2 DEF Lossless
<1>6. QED
  BY <1>4, <1>5 DEF Send

\* Encode moves an event from the channel into the buffer.
LEMMA EncodeLossless ==
  ASSUME TypeOK, Lossless, Up, Encode, UNCHANGED workerVars
  PROVE  Lossless'
<1>1. /\ queue \in Seq(Event) /\ file \in Seq(Event) /\ buf \in Seq(Event)
      /\ accepted \in Seq(Event) /\ queue # << >>
  BY DEF TypeOK, WriterTypeOK, Encode
<1>2. /\ Head(queue) \in Event /\ Tail(queue) \in Seq(Event)
      /\ <<Head(queue)>> \in Seq(Event) /\ file \o buf \in Seq(Event)
  BY <1>1, HeadTailProperties, ConcatProperties
<1>3. /\ sealed' = sealed /\ flusher = "running" /\ flusher' = "running"
      /\ main' = main /\ exit' = exit /\ accepted' = accepted /\ queue' = Tail(queue)
  BY DEF Encode, workerVars
<1>4. main # "sync" /\ exit # "ok"
  BY <1>3 DEF Lossless
<1>5. (file \o buf) \o queue = ((file \o buf) \o <<Head(queue)>>) \o Tail(queue)
  BY <1>1, <1>2, MoveHead
<1>6. ASSUME ~failed' => accepted' = (file' \o buf') \o queue', FilePrefix'
      PROVE  Lossless'
  BY <1>3, <1>4, <1>6 DEF Lossless
<1>7. CASE file' = file /\ failed' /\ failed
  BY <1>3, <1>6, <1>7 DEF Lossless, FilePrefix
<1>8. CASE ~failed /\ file' = file /\ buf' = Append(buf, Head(queue))
  <2>1. file \o Append(buf, Head(queue)) = (file \o buf) \o <<Head(queue)>>
    BY <1>1, <1>2, AppendToConcat, AppendIsConcat
  <2>2. accepted' = (file' \o buf') \o queue'
    BY <1>3, <1>5, <1>8, <2>1 DEF Lossless
  <2>3. FilePrefix'
    BY <1>3, <1>8 DEF Lossless, FilePrefix
  <2>4. QED
    BY <1>6, <2>2, <2>3
<1>9. CASE ~failed /\ file' = file \o buf /\ buf' = <<Head(queue)>>
  <2>1. accepted' = (file' \o buf') \o queue'
    BY <1>3, <1>5, <1>9 DEF Lossless
  <2>2. accepted' = file' \o queue
    BY <1>3, <1>9 DEF Lossless
  <2>3. FilePrefix'
    BY <1>1, <2>2 DEF FilePrefix
  <2>4. QED
    BY <1>6, <2>1, <2>3
<1>10. CASE ~failed /\ file' = file /\ failed'
  BY <1>3, <1>6, <1>10 DEF Lossless, FilePrefix
<1>11. QED
  <2>1. CASE failed
    BY <1>7, <2>1 DEF Encode
  <2>2. CASE ~failed /\ Len(buf) < BufCap /\ buf' = Append(buf, Head(queue)) /\ file' = file
    BY <1>8, <2>2
  <2>3. CASE ~failed /\ Len(buf) >= BufCap
    <3>0. Len(buf) \in Nat /\ ~(Len(buf) < BufCap)
      BY <2>3, <1>1, CapAssumption
    <3>1. /\ file' = FlushTo(file, buf)
          /\ buf' = IF disk = "ok" THEN <<Head(queue)>> ELSE buf
          /\ failed' = (disk = "bad")
      BY <2>3, <3>0 DEF Encode
    <3>2. CASE disk = "ok"
      BY <1>9, <2>3, <3>1, <3>2 DEF FlushTo
    <3>3. CASE disk = "bad"
      BY <1>10, <2>3, <3>1, <3>3 DEF FlushTo
    <3>4. QED
      BY <3>2, <3>3 DEF TypeOK, WriterTypeOK
  <2>4. QED
    BY <2>1, <2>2, <2>3 DEF Encode

\* A flush moves the buffer into the file.
LEMMA FlushLossless ==
  ASSUME TypeOK, Lossless, Flush
  PROVE  Lossless'
<1>1. /\ queue \in Seq(Event) /\ file \in Seq(Event) /\ buf \in Seq(Event)
      /\ accepted \in Seq(Event)
  BY DEF TypeOK, WriterTypeOK
<1>2. /\ flusher = "done" /\ flusher' = "done" /\ sealed' = sealed /\ queue' = queue
      /\ accepted' = accepted /\ exit = "none"
  BY DEF Flush, CloseFlush, Up
<1>3. sealed /\ queue = << >>
  BY <1>2 DEF Lossless
<1>4. file \o buf \in Seq(Event) /\ << >> \in Seq(Event)
  BY <1>1, ConcatProperties, EmptySeq
<1>5. CASE FlushOK
  <2>1. ~failed /\ file' = file \o buf /\ buf' = << >> /\ failed' = failed
    BY <1>5 DEF Flush, CloseFlush, FlushOK
  <2>2. (file \o buf) \o << >> = file \o buf
    BY <1>4, ConcatEmptySeq
  <2>3. accepted' = file' \o << >> /\ accepted' = (file' \o buf') \o queue'
    BY <1>2, <1>3, <2>1, <2>2 DEF Lossless
  <2>4. FilePrefix'
    BY <1>4, <2>3 DEF FilePrefix
  <2>5. QED
    BY <1>2, <1>3, <2>1, <2>3, <2>4 DEF Lossless
<1>6. CASE ~FlushOK
  <2>1. failed' /\ file' = file /\ main' = "returned" /\ exit' = "error"
    BY <1>6 DEF Flush, CloseFlush
  <2>2. FilePrefix'
    BY <1>2, <2>1 DEF Lossless, FilePrefix
  <2>3. QED
    BY <1>2, <1>3, <2>1, <2>2 DEF Lossless
<1>7. QED
  BY <1>5, <1>6

\* Every step keeps the account of the accepted events.
LEMMA LosslessInductive ==
  ASSUME TypeOK, Lossless, [Next]_vars
  PROVE  Lossless'
<1>1. CASE Flush
  BY <1>1, FlushLossless
<1>2. CASE EmitStartup \/ Spawn \/ Join \/ Close \/ Seal
  <2>1. /\ UNCHANGED dataVars /\ exit' = exit
        /\ main' \in {"spawn", "join", "close", "seal", "drain"}
    BY <1>2 DEF EmitStartup, Spawn, Join, Close, Seal, Emit, CloseMark, CloseChannel,
           dataVars, writerVars
  <2>2. sealed => sealed'
    BY <1>2 DEF EmitStartup, Spawn, Join, Close, Seal, Emit, CloseMark, CloseChannel,
           writerVars
  <2>3. QED
    BY <2>1, <2>2, LosslessFrame
<1>3. CASE SyncFile
  BY <1>3, LosslessFrame DEF SyncFile, dataVars, writerVars
<1>4. CASE \E g \in Loop : LoopStep(g)
  <2>1. UNCHANGED dataVars /\ sealed' = sealed /\ main' = main /\ exit' = exit
    BY <1>4 DEF LoopStep, Tick, SamplerReturns, ConnectOK, ConnectFails, BurstStarts,
           BurstEnds, CoordinatorReturns, Emit, dataVars, writerVars
  <2>2. QED
    BY <2>1, LosslessFrame
<1>5. CASE \E t \in Thread : EmitSends(t)
  BY <1>5, SendLossless DEF EmitSends
<1>6. CASE Flusher
  <2>1. CASE Encode
    BY <1>6, <2>1, EncodeLossless DEF Flusher
  <2>2. CASE FlusherReturns
    <3>1. /\ sealed /\ queue = << >> /\ sealed' = sealed /\ queue' = queue /\ buf' = buf
          /\ file' = file /\ accepted' = accepted /\ failed' = failed /\ flusher' = "done"
          /\ flusher = "running" /\ main' = main /\ exit' = exit
      BY <1>6, <2>2 DEF Flusher, FlusherReturns, workerVars
    <3>2. FilePrefix'
      BY <3>1 DEF Lossless, FilePrefix
    <3>3. QED
      BY <3>1, <3>2 DEF Lossless
  <2>3. QED
    BY <1>6, <2>1, <2>2 DEF Flusher
<1>7. CASE Cancel \/ Kill \/ Disk \/ UNCHANGED vars
  <2>1. /\ UNCHANGED dataVars /\ sealed' = sealed /\ main' = main
        /\ exit' = exit \/ exit' = "killed"
    BY <1>7 DEF Cancel, Kill, Disk, DiskChanges, vars, writerVars, workerVars, dataVars
  <2>2. QED
    BY <2>1, LosslessFrame
<1>8. QED
  BY <1>1, <1>2, <1>3, <1>4, <1>5, <1>6, <1>7 DEF Next, MainStep

\* No accepted event is ever out of the account.
LEMMA LosslessAlways == Spec => [](TypeOK /\ Lossless)
<1>1. Init => TypeOK /\ Lossless
  BY InitType, InitLossless
<1>2. TypeOK /\ Lossless /\ [Next]_vars => (TypeOK /\ Lossless)'
  BY TypeInductive, LosslessInductive
<1>3. QED
  BY <1>1, <1>2, PTL DEF Spec

\* A worker that exits with status 0 has every accepted event in its file
\* (jsonl.go 64-88): the flusher empties the channel before it returns, and a
\* write error of Encode, which ignores it, comes back from Flush.
THEOREM LossIsReported == Spec => []NoSilentLoss
<1>1. ASSUME TypeOK, Lossless PROVE NoSilentLoss
  <2> SUFFICES ASSUME exit = "ok" PROVE file = accepted
    BY DEF NoSilentLoss
  <2>1. accepted = (file \o << >>) \o << >> /\ file \in Seq(Event)
    BY <1>1 DEF Lossless, TypeOK, WriterTypeOK
  <2>2. QED
    BY <2>1, ConcatEmptySeq
<1>2. QED
  BY <1>1, LosslessAlways, PTL

\* The file holds the accepted events in the order in which Emit took them, and
\* a prefix of them after a write error or a kill.
THEOREM OrderIsKept == Spec => []NothingOutOfOrder
<1>1. ASSUME TypeOK, Lossless PROVE NothingOutOfOrder
  <2>1. file \in Seq(Event) /\ accepted \in Seq(Event)
    BY <1>1 DEF TypeOK, WriterTypeOK
  <2>2. PICK rest \in Seq(Event) : accepted = file \o rest
    BY <1>1 DEF Lossless, FilePrefix
  <2>3. /\ Len(accepted) = Len(file) + Len(rest)
        /\ Len(file) \in Nat /\ Len(rest) \in Nat
        /\ \A i \in 1 .. Len(file) + Len(rest) : accepted[i] =
              IF i <= Len(file) THEN file[i] ELSE rest[i - Len(file)]
    BY <2>1, <2>2, ConcatProperties
  <2>4. Len(file) \in 0 .. Len(accepted)
    BY <2>3
  <2>5. file = SubSeq(accepted, 1, Len(file))
    <3>1. \A i \in 1 .. Len(file) : accepted[i] = file[i]
      BY <2>3
    <3>2. SubSeq(accepted, 1, Len(file)) = [i \in 1 .. Len(file) |-> accepted[i]]
      BY <2>1, <2>3
    <3>3. file = [i \in 1 .. Len(file) |-> file[i]]
      BY <2>1
    <3>4. QED
      BY <3>1, <3>2, <3>3
  <2>6. QED
    BY <1>1, <2>4, <2>5 DEF NothingOutOfOrder, Lossless
<1>2. QED
  BY <1>1, LosslessAlways, PTL
-----------------------------------------------------------------------------
(* Bursts in the file *)

Marker == {"start", "end"}

\* No burst begins or ends in s after position i.
LastMarker(s, i) == \A k \in DOMAIN s : i < k => s[k] \notin Marker

\* A burst has begun in s and not ended yet.
Unfinished(s) == \E i \in DOMAIN s : s[i] = "start" /\ LastMarker(s, i)

\* Start and end events alternate in s, which may break off inside a burst.
Alternate(s) ==
  \A k \in DOMAIN s :
    /\ s[k] = "start" => LastMarker(s, k) \/ \E j \in DOMAIN s : Burst(s, k, j)
    /\ s[k] = "end" => \E i \in DOMAIN s : Burst(s, i, k)

\* Where the coordinator is tells whether the accepted events end inside a
\* burst, as soon as the event it is emitting is counted in.  This is lost for
\* good with the first event that is dropped.
Bursts ==
  /\ \A t \in Thread \ {Coordinator} : pending[t] \notin Marker
  /\ exit = "ok" => main = "returned"
  /\ dropped = 0 =>
       /\ Alternate(accepted)
       /\ pending[Coordinator] = "start" =>
            loop[Coordinator] = "burst" /\ ~Unfinished(accepted)
       /\ pending[Coordinator] = "end" =>
            loop[Coordinator] = "run" /\ Unfinished(accepted)
       /\ pending[Coordinator] \notin Marker =>
            (Unfinished(accepted) <=> loop[Coordinator] = "burst")

\* The places of a sequence that is appended to.
LEMMA AppendAt ==
  ASSUME NEW s \in Seq(Event), NEW e \in Event
  PROVE  /\ Len(s) \in Nat /\ DOMAIN s = 1..Len(s)
         /\ DOMAIN Append(s, e) = 1..(Len(s) + 1)
         /\ \A k \in DOMAIN s : k \in DOMAIN Append(s, e) /\ Append(s, e)[k] = s[k]
         /\ Append(s, e)[Len(s) + 1] = e
         /\ \A k \in DOMAIN Append(s, e) : k \in DOMAIN s \/ k = Len(s) + 1
BY AppendProperties

\* A burst of s is one of every longer sequence.
LEMMA BurstStays ==
  ASSUME NEW s \in Seq(Event), NEW e \in Event,
         NEW i \in DOMAIN s, NEW j \in DOMAIN s, Burst(s, i, j)
  PROVE  Burst(Append(s, e), i, j)
<1>1. ASSUME NEW k \in DOMAIN Append(s, e), i < k /\ k < j
      PROVE  Append(s, e)[k] \notin {"start", "end"}
  <2>1. k \in DOMAIN s
    BY <1>1, AppendAt
  <2>2. QED
    BY <1>1, <2>1, AppendAt DEF Burst, Quiet
<1>2. QED
  BY <1>1, AppendAt DEF Burst, Quiet

\* An event that is no burst's changes nothing.
LEMMA AppendOther ==
  ASSUME NEW s \in Seq(Event), NEW e \in Event \ Marker, Alternate(s)
  PROVE  Alternate(Append(s, e)) /\ (Unfinished(Append(s, e)) <=> Unfinished(s))
<1> DEFINE a == Append(s, e)
<1>1. \A i \in DOMAIN s : LastMarker(a, i) <=> LastMarker(s, i)
  BY AppendAt DEF LastMarker
<1>2. ASSUME NEW k \in DOMAIN a, a[k] \in Marker
      PROVE  k \in DOMAIN s /\ a[k] = s[k]
  BY <1>2, AppendAt
<1>3. Unfinished(a) <=> Unfinished(s)
  BY <1>1, <1>2, AppendAt DEF Unfinished, Marker
<1>4. ASSUME NEW k \in DOMAIN a
      PROVE  /\ a[k] = "start" => LastMarker(a, k) \/ \E j \in DOMAIN a : Burst(a, k, j)
             /\ a[k] = "end" => \E i \in DOMAIN a : Burst(a, i, k)
  <2>1. ASSUME a[k] = "start"
        PROVE  LastMarker(a, k) \/ \E j \in DOMAIN a : Burst(a, k, j)
    <3>1. k \in DOMAIN s /\ s[k] = "start"
      BY <2>1, <1>2 DEF Marker
    <3>2. CASE LastMarker(s, k)
      BY <3>1, <3>2, <1>1
    <3>3. ASSUME NEW j \in DOMAIN s, Burst(s, k, j)
          PROVE  j \in DOMAIN a /\ Burst(a, k, j)
      BY <3>1, <3>3, BurstStays, AppendAt
    <3>4. QED
      BY <3>1, <3>2, <3>3 DEF Alternate
  <2>2. ASSUME a[k] = "end"
        PROVE  \E i \in DOMAIN a : Burst(a, i, k)
    <3>1. k \in DOMAIN s /\ s[k] = "end"
      BY <2>2, <1>2 DEF Marker
    <3>2. PICK i \in DOMAIN s : Burst(s, i, k)
      BY <3>1 DEF Alternate
    <3>3. i \in DOMAIN a /\ Burst(a, i, k)
      BY <3>1, <3>2, BurstStays, AppendAt
    <3>4. QED
      BY <3>3
  <2>3. QED
    BY <2>1, <2>2
<1>5. QED
  BY <1>3, <1>4 DEF Alternate

\* A start event opens a burst when none is open.
LEMMA AppendStart ==
  ASSUME NEW s \in Seq(Event), "start" \in Event, Alternate(s), ~Unfinished(s)
  PROVE  Alternate(Append(s, "start")) /\ Unfinished(Append(s, "start"))
<1> DEFINE a == Append(s, "start")
<1>1. LastMarker(a, Len(s) + 1)
  BY AppendAt DEF LastMarker
<1>2. Unfinished(a)
  BY <1>1, AppendAt DEF Unfinished
<1>3. ASSUME NEW k \in DOMAIN s
      PROVE  /\ a[k] = "start" => \E j \in DOMAIN a : Burst(a, k, j)
             /\ a[k] = "end" => \E i \in DOMAIN a : Burst(a, i, k)
  <2>1. ASSUME a[k] = "start" PROVE \E j \in DOMAIN a : Burst(a, k, j)
    <3>1. s[k] = "start"
      BY <2>1, AppendAt
    <3>2. PICK j \in DOMAIN s : Burst(s, k, j)
      BY <3>1 DEF Alternate, Unfinished
    <3>3. j \in DOMAIN a /\ Burst(a, k, j)
      BY <3>2, BurstStays, AppendAt
    <3>4. QED
      BY <3>3
  <2>2. ASSUME a[k] = "end" PROVE \E i \in DOMAIN a : Burst(a, i, k)
    <3>1. s[k] = "end"
      BY <2>2, AppendAt
    <3>2. PICK i \in DOMAIN s : Burst(s, i, k)
      BY <3>1 DEF Alternate
    <3>3. i \in DOMAIN a /\ Burst(a, i, k)
      BY <3>2, BurstStays, AppendAt
    <3>4. QED
      BY <3>3
  <2>3. QED
    BY <2>1, <2>2
<1>4. Alternate(a)
  <2>1. ASSUME NEW k \in DOMAIN a
        PROVE  /\ a[k] = "start" => LastMarker(a, k) \/ \E j \in DOMAIN a : Burst(a, k, j)
               /\ a[k] = "end" => \E i \in DOMAIN a : Burst(a, i, k)
    <3>1. CASE k \in DOMAIN s
      BY <3>1, <1>3
    <3>2. CASE k = Len(s) + 1
      BY <3>2, <1>1, AppendAt
    <3>3. QED
      BY <3>1, <3>2, AppendAt
  <2>2. QED
    BY <2>1 DEF Alternate
<1>5. QED
  BY <1>2, <1>4

\* An end event ends the burst that is open.
LEMMA AppendEnd ==
  ASSUME NEW s \in Seq(Event), "end" \in Event, Alternate(s), Unfinished(s)
  PROVE  Alternate(Append(s, "end")) /\ ~Unfinished(Append(s, "end"))
<1> DEFINE a == Append(s, "end")
           n == Len(s) + 1
<1>0. /\ n \in DOMAIN a /\ a[n] = "end" /\ Len(s) \in Nat
      /\ \A k \in DOMAIN s : k \in DOMAIN a /\ a[k] = s[k] /\ k \in Nat /\ k < n
      /\ \A k \in DOMAIN a : k \in DOMAIN s \/ k = n
  BY AppendAt
<1>1. ASSUME NEW i \in DOMAIN s, s[i] = "start", LastMarker(s, i)
      PROVE  Burst(a, i, n)
  <2>1. \A k \in DOMAIN a : (i < k /\ k < n) => a[k] \notin {"start", "end"}
    BY <1>0, <1>1 DEF LastMarker, Marker
  <2>2. QED
    BY <1>0, <1>1, <2>1 DEF Burst, Quiet
<1>2. ~Unfinished(a)
  <2>1. \A i \in DOMAIN a : a[i] = "start" => i < n
    BY <1>0
  <2>2. QED
    BY <2>1, <1>0 DEF Unfinished, LastMarker, Marker
<1>3. ASSUME NEW k \in DOMAIN a
      PROVE  /\ a[k] = "start" => \E j \in DOMAIN a : Burst(a, k, j)
             /\ a[k] = "end" => \E i \in DOMAIN a : Burst(a, i, k)
  <2>1. ASSUME a[k] = "start" PROVE \E j \in DOMAIN a : Burst(a, k, j)
    <3>1. k \in DOMAIN s /\ s[k] = "start"
      BY <2>1, <1>0
    <3>2. CASE LastMarker(s, k)
      BY <3>1, <3>2, <1>0, <1>1
    <3>3. ASSUME NEW j \in DOMAIN s, Burst(s, k, j)
          PROVE  j \in DOMAIN a /\ Burst(a, k, j)
      BY <3>1, <3>3, <1>0, BurstStays
    <3>4. QED
      BY <3>1, <3>2, <3>3 DEF Alternate
  <2>2. ASSUME a[k] = "end" PROVE \E i \in DOMAIN a : Burst(a, i, k)
    <3>1. CASE k = n
      <4>1. PICK i \in DOMAIN s : s[i] = "start" /\ LastMarker(s, i)
        BY DEF Unfinished
      <4>2. QED
        BY <3>1, <4>1, <1>0, <1>1
    <3>2. CASE k \in DOMAIN s
      <4>1. s[k] = "end"
        BY <2>2, <3>2, <1>0
      <4>2. PICK i \in DOMAIN s : Burst(s, i, k)
        BY <3>2, <4>1 DEF Alternate
      <4>3. i \in DOMAIN a /\ Burst(a, i, k)
        BY <3>2, <4>2, <1>0, BurstStays
      <4>4. QED
        BY <4>3
    <3>3. QED
      BY <3>1, <3>2, <1>0
  <2>3. QED
    BY <2>1, <2>2
<1>4. QED
  BY <1>2, <1>3 DEF Alternate

\* The account of the bursts holds initially.
LEMMA InitBursts == Init => Bursts
<1> SUFFICES ASSUME Init PROVE Bursts
  OBVIOUS
<1>1. None \notin Marker
  BY EventTypes, NoneAssumption DEF Marker
<1>2. \A t \in Thread : pending[t] = None
  BY DEF Init, NewWriter
<1>3. Alternate(accepted) /\ ~Unfinished(accepted)
  <2>1. accepted = << >>
    BY DEF Init, NewWriter
  <2>2. DOMAIN accepted = {}
    BY <2>1
  <2>3. QED
    BY <2>2 DEF Alternate, Unfinished
<1>4. loop[Coordinator] = "off" /\ exit = "none"
  BY ThreadTypes DEF Init
<1>5. QED
  BY <1>1, <1>2, <1>3, <1>4, ThreadTypes DEF Bursts, Marker

\* A step that leaves the coordinator and the markers alone keeps the account of
\* the bursts.
LEMMA BurstsFrame ==
  ASSUME Bursts, UNCHANGED <<accepted, dropped>>, main' = main, exit' = exit,
         \A t \in Thread \ {Coordinator} : pending'[t] = pending[t] \/ pending'[t] \notin Marker,
         pending'[Coordinator] = pending[Coordinator],
         loop'[Coordinator] = loop[Coordinator]
  PROVE  Bursts'
BY DEF Bursts

\* A step of a loop keeps the account of the bursts.
LEMMA LoopStepBursts ==
  ASSUME TypeOK, Discipline, Bursts, NEW g \in Loop, LoopStep(g)
  PROVE  Bursts'
<1> USE EventTypes, ThreadTypes
<1>0. loop \in [Loop -> {"off", "connect", "run", "burst", "returned"}] /\ WriterTypeOK
  BY DEF TypeOK
<1>1. loop[g] # "returned" /\ ~closed
  BY DEF LoopStep, Tick, SamplerReturns, ConnectOK, ConnectFails, BurstStarts, BurstEnds,
         CoordinatorReturns, Discipline, Closing
<1>2. UNCHANGED <<accepted, dropped>> /\ main' = main /\ exit' = exit
  BY DEF LoopStep, Tick, SamplerReturns, ConnectOK, ConnectFails, BurstStarts, BurstEnds,
         CoordinatorReturns, Emit, writerVars
<1>3. None \notin Marker /\ "sample" \notin Marker /\ "sync_error" \notin Marker
  BY EventTypes, NoneAssumption DEF Marker
<1>4. CASE g \in Sampler
  <2>1. g # Coordinator
    BY <1>4, ThreadAssumption
  <2>2. Tick(g) \/ SamplerReturns(g)
    BY <2>1 DEF LoopStep
  <2>3. /\ \A t \in Thread : t # g => pending'[t] = pending[t]
        /\ pending'[g] = pending[g] \/ pending'[g] = "sample"
        /\ loop'[Coordinator] = loop[Coordinator]
    <3>1. CASE Tick(g)
      BY <3>1, <1>0, <1>1 DEF Tick, Emit, WriterTypeOK
    <3>2. CASE SamplerReturns(g)
      BY <3>2, <1>0, <2>1 DEF SamplerReturns, writerVars
    <3>3. QED
      BY <2>2, <3>1, <3>2
  <2>4. QED
    BY <1>2, <1>3, <2>1, <2>3, BurstsFrame
<1>5. CASE g = Coordinator
  <2>0. ConnectOK \/ ConnectFails \/ BurstStarts \/ BurstEnds \/ CoordinatorReturns
    BY <1>5, ThreadAssumption DEF LoopStep
  <2>1. \A t \in Thread \ {Coordinator} : pending'[t] = pending[t]
    BY <1>0, <1>1, <2>0 DEF ConnectOK, ConnectFails, BurstStarts, BurstEnds,
           CoordinatorReturns, Emit, writerVars, WriterTypeOK
  <2>2. /\ \A t \in Thread \ {Coordinator} : pending'[t] \notin Marker
        /\ exit' = "ok" => main' = "returned"
    BY <1>2, <2>1 DEF Bursts
  <2>3. CASE ConnectOK
    <3>1. /\ pending'[Coordinator] = pending[Coordinator]
          /\ loop[Coordinator] = "connect" /\ loop'[Coordinator] = "run"
      BY <2>3, <1>0 DEF ConnectOK, writerVars
    <3>2. pending[Coordinator] = None
      BY <3>1 DEF Discipline
    <3>3. QED
      BY <1>2, <1>3, <2>2, <3>1, <3>2 DEF Bursts, Marker
  <2>4. CASE ConnectFails
    <3>1. /\ pending[Coordinator] = None /\ pending'[Coordinator] = "sync_error"
          /\ loop[Coordinator] = "connect" /\ loop'[Coordinator] = "run"
      BY <2>4, <1>0, <1>1 DEF ConnectFails, Emit, Emitting, WriterTypeOK
    <3>2. QED
      BY <1>2, <1>3, <2>2, <3>1 DEF Bursts, Marker
  <2>5. CASE BurstStarts
    <3>1. /\ pending[Coordinator] = None /\ pending'[Coordinator] = "start"
          /\ loop[Coordinator] = "run" /\ loop'[Coordinator] = "burst"
      BY <2>5, <1>0, <1>1 DEF BurstStarts, Emit, Emitting, WriterTypeOK
    <3>2. QED
      BY <1>2, <1>3, <2>2, <3>1 DEF Bursts, Marker
  <2>6. CASE BurstEnds
    <3>1. /\ pending[Coordinator] = None /\ pending'[Coordinator] = "end"
          /\ loop[Coordinator] = "burst" /\ loop'[Coordinator] = "run"
      BY <2>6, <1>0, <1>1 DEF BurstEnds, Emit, Emitting, WriterTypeOK
    <3>2. QED
      BY <1>2, <1>3, <2>2, <3>1 DEF Bursts, Marker
  <2>7. CASE CoordinatorReturns
    <3>1. /\ pending[Coordinator] = None /\ pending'[Coordinator] = None
          /\ loop[Coordinator] = "run" /\ loop'[Coordinator] = "returned"
      BY <2>7, <1>0 DEF CoordinatorReturns, Emitting, writerVars
    <3>2. QED
      BY <1>2, <1>3, <2>2, <3>1 DEF Bursts, Marker
  <2>8. QED
    BY <2>0, <2>3, <2>4, <2>5, <2>6, <2>7
<1>6. QED
  BY <1>4, <1>5 DEF Loop

\* A step of main keeps the account of the bursts.
LEMMA MainStepBursts ==
  ASSUME TypeOK, Discipline, Bursts, MainStep
  PROVE  Bursts'
<1> USE EventTypes, ThreadTypes
<1>0. WriterTypeOK /\ loop \in [Loop -> {"off", "connect", "run", "burst", "returned"}]
  BY DEF TypeOK
<1>1. UNCHANGED <<accepted, dropped>>
  BY DEF MainStep, EmitStartup, Spawn, Join, Close, Seal, Flush, SyncFile, Emit, CloseMark,
         CloseChannel, CloseFlush, writerVars
<1>2. "startup" \notin Marker /\ "shutdown" \notin Marker
  BY DEF Marker
<1>3. /\ pending'[Main] = pending[Main] \/ pending'[Main] \notin Marker
      /\ \A t \in Thread : t # Main => pending'[t] = pending[t]
  <2>1. CASE EmitStartup \/ Join
    BY <2>1, <1>0, <1>2 DEF EmitStartup, Join, Emit, WriterTypeOK
  <2>2. CASE ~(EmitStartup \/ Join)
    BY <2>2 DEF MainStep, Spawn, Close, Seal, Flush, SyncFile, CloseMark, CloseChannel,
           CloseFlush, writerVars
  <2>3. QED
    BY <2>1, <2>2
<1>4. /\ \/ loop'[Coordinator] = loop[Coordinator]
         \/ loop[Coordinator] = "off" /\ loop'[Coordinator] = "connect"
      /\ exit' = "ok" => main' = "returned"
  <2>1. CASE Spawn
    BY <2>1 DEF Spawn, Discipline, Up
  <2>2. CASE ~Spawn
    <3>1. loop' = loop /\ exit = "none"
      BY <2>2 DEF MainStep, EmitStartup, Join, Close, Seal, Flush, SyncFile, Up
    <3>2. CASE EmitStartup \/ Join \/ Close \/ Seal
      BY <3>1, <3>2 DEF EmitStartup, Join, Close, Seal
    <3>3. CASE Flush
      BY <3>1, <3>3 DEF Flush
    <3>4. CASE SyncFile
      BY <3>1, <3>4 DEF SyncFile
    <3>5. QED
      BY <2>2, <3>1, <3>2, <3>3, <3>4 DEF MainStep
  <2>3. QED
    BY <2>1, <2>2
<1>5. QED
  BY <1>1, <1>3, <1>4 DEF Bursts

\* A send keeps the account of the bursts.
LEMMA SendBursts ==
  ASSUME TypeOK, Bursts, NEW t \in Thread, EmitSends(t)
  PROVE  Bursts'
<1> USE EventTypes, ThreadTypes
<1>1. /\ accepted \in Seq(Event) /\ dropped \in Nat
      /\ pending \in [Thread -> Event \cup {None}] /\ pending[t] \in Event
  BY DEF TypeOK, WriterTypeOK, EmitSends, Send, Emitting
<1>2. /\ pending' = [pending EXCEPT ![t] = None]
      /\ main' = main /\ exit' = exit /\ loop' = loop
      /\ \/ accepted' = Append(accepted, pending[t]) /\ dropped' = dropped
         \/ dropped' = dropped + 1
  BY DEF EmitSends, Send, workerVars
<1>3. None \notin Marker
  BY NoneAssumption DEF Marker
<1>4. /\ \A u \in Thread \ {Coordinator} : pending'[u] \notin Marker
      /\ exit' = "ok" => main' = "returned"
  BY <1>1, <1>2, <1>3 DEF Bursts
<1>5. CASE dropped' = 0
  <2>1. dropped = 0 /\ accepted' = Append(accepted, pending[t])
    BY <1>1, <1>2, <1>5
  <2>2. Alternate(accepted)
    BY <2>1 DEF Bursts
  <2>3. CASE pending[t] \notin Marker
    <3>1. Alternate(accepted') /\ (Unfinished(accepted') <=> Unfinished(accepted))
      BY <1>1, <2>1, <2>2, <2>3, AppendOther
    <3>2. \/ pending'[Coordinator] = pending[Coordinator]
          \/ pending[Coordinator] \notin Marker /\ pending'[Coordinator] \notin Marker
      BY <1>1, <1>2, <1>3, <2>3
    <3>3. QED
      BY <1>2, <1>4, <2>1, <3>1, <3>2 DEF Bursts, Marker
  <2>4. CASE pending[t] = "start"
    <3>1. t = Coordinator /\ loop[Coordinator] = "burst" /\ ~Unfinished(accepted)
      BY <2>1, <2>4 DEF Bursts, Marker
    <3>2. Alternate(accepted') /\ Unfinished(accepted')
      BY <1>1, <2>1, <2>2, <2>4, <3>1, AppendStart
    <3>3. pending'[Coordinator] = None
      BY <1>1, <1>2, <3>1
    <3>4. QED
      BY <1>2, <1>3, <1>4, <3>1, <3>2, <3>3 DEF Bursts, Marker
  <2>5. CASE pending[t] = "end"
    <3>1. t = Coordinator /\ loop[Coordinator] = "run" /\ Unfinished(accepted)
      BY <2>1, <2>5 DEF Bursts, Marker
    <3>2. Alternate(accepted') /\ ~Unfinished(accepted')
      BY <1>1, <2>1, <2>2, <2>5, <3>1, AppendEnd
    <3>3. pending'[Coordinator] = None
      BY <1>1, <1>2, <3>1
    <3>4. QED
      BY <1>2, <1>3, <1>4, <3>1, <3>2, <3>3 DEF Bursts, Marker
  <2>6. QED
    BY <2>3, <2>4, <2>5 DEF Marker
<1>6. CASE dropped' # 0
  BY <1>4, <1>6 DEF Bursts
<1>7. QED
  BY <1>5, <1>6

\* Every step keeps the account of the bursts.
LEMMA BurstsInductive ==
  ASSUME TypeOK, Discipline, Bursts, [Next]_vars
  PROVE  Bursts'
<1>1. CASE MainStep
  BY <1>1, MainStepBursts
<1>2. CASE \E g \in Loop : LoopStep(g)
  BY <1>2, LoopStepBursts
<1>3. CASE \E t \in Thread : EmitSends(t)
  BY <1>3, SendBursts
<1>4. CASE Flusher \/ Cancel \/ Kill \/ Disk \/ UNCHANGED vars
  <2>1. /\ UNCHANGED <<accepted, dropped>> /\ main' = main /\ loop' = loop
        /\ pending' = pending /\ (exit' = exit \/ exit' = "killed")
    BY <1>4 DEF Flusher, Encode, FlusherReturns, Cancel, Kill, Disk, DiskChanges, vars,
           writerVars, workerVars
  <2>2. QED
    BY <2>1 DEF Bursts
<1>5. QED
  BY <1>1, <1>2, <1>3, <1>4 DEF Next

\* In the file of a worker that dropped nothing and closed its writer, start and
\* end events alternate and the last burst is closed: a burst the context cuts
\* short emits its end event before the coordinator can return, and main waits
\* for the coordinator (main.go 141-156, 370-429).
THEOREM BurstsArePaired == Spec => []BurstsPaired
<1>1. ASSUME TypeOK, Discipline, Lossless, Bursts PROVE BurstsPaired
  <2> SUFFICES ASSUME exit = "ok", dropped = 0 PROVE BurstsPaired
    BY DEF BurstsPaired
  <2>1. file = accepted
    <3>1. accepted = (file \o << >>) \o << >> /\ file \in Seq(Event)
      BY <1>1 DEF Lossless, TypeOK, WriterTypeOK
    <3>2. QED
      BY <3>1, ConcatEmptySeq
  <2>2. loop[Coordinator] = "returned" /\ pending[Coordinator] = None
    BY <1>1, ThreadTypes DEF Bursts, Discipline, Closing
  <2>3. Alternate(file) /\ ~Unfinished(file)
    BY <1>1, <2>1, <2>2, EventTypes, NoneAssumption DEF Bursts, Marker
  <2>4. QED
    BY <2>3 DEF BurstsPaired, Alternate, Unfinished
<1>2. Init => TypeOK /\ Discipline /\ Bursts
  BY InitType, InitDiscipline, InitBursts
<1>3. TypeOK /\ Discipline /\ Bursts /\ [Next]_vars => (TypeOK /\ Discipline /\ Bursts)'
  BY TypeInductive, DisciplineInductive, BurstsInductive
<1>4. QED
  BY <1>1, <1>2, <1>3, LosslessAlways, PTL DEF Spec
=============================================================================
