--------------------------- MODULE LauncherProofs ---------------------------
(***************************************************************************)
(* Proofs about Launcher, for every number of children and every choice of *)
(* the ones that ignore SIGTERM: types, what success means, when a child   *)
(* is killed, and the safety part of the promise that Supervisor states.   *)
(***************************************************************************)
EXTENDS Launcher, SequenceTheorems, TLAPS

-----------------------------------------------------------------------------
(* The inductive invariant *)

\* A child has no process exactly as long as its turn has not come.
SpawnOrder ==
  /\ \A i \in DOMAIN Order : proc[Order[i]] = "none" <=> i >= next
  /\ (pc \notin {"setup", "spawn", "exited"} \/ exit = "ok") => next = Len(Order) + 1
  /\ pc = "setup" => next = 1

\* startProc's channel is closed only for a process that is gone.
DoneMeansGone == \A c \in done : proc[c] \in {"failed", "returned", "killed"}

\* terminate's goroutine returns only once done is closed, and main goes on
\* only once all of them have.
WaitersWait ==
  /\ \A c \in Child : waiter[c] = "finished" => c \in done
  /\ (pc = "aggregate" \/ exit = "ok") => \A c \in Child : waiter[c] = "finished"

\* os.Exit is the end of main, and a failed verification cancels.
ExitOnce ==
  /\ exit = "none" <=> pc # "exited"
  /\ aborting => cancelled /\ pc \in {"terminate", "reap", "exited"} /\ exit # "ok"

\* Nobody is killed before terminate unless the context is cancelled, and
\* terminate has sent SIGTERM to every child that it waits for and that started.
Grace ==
  /\ pc \in {"setup", "spawn", "verify", "wait", "terminate"} =>
       deadline = "unset" /\ \A c \in Child : waiter[c] = "none"
  /\ cancelled => interrupt = "taken" \/ aborting
  /\ ~cancelled /\ killed # {} => deadline = "taken" /\ killed \subseteq termed
  /\ \A c \in Child : waiter[c] # "none" => c \in termed \/ proc[c] = "failed"

Inv == TypeOK /\ SpawnOrder /\ DoneMeansGone /\ WaitersWait /\ ExitOnce /\ Grace

-----------------------------------------------------------------------------
(* The spawn order *)

\* The launcher's spawn order lists every child exactly once.
LEMMA OrderFacts ==
  /\ DOMAIN Order = 1..Len(Order)
  /\ Len(Order) \in Nat
  /\ \A i \in 1..Len(Order) : Order[i] \in Child
  /\ \A c \in Child : \E i \in 1..Len(Order) : c = Order[i]
  /\ \A i, j \in 1..Len(Order) : Order[i] = Order[j] => i = j
BY OrderAssumption DEF Child

\* The effect of a spawn keeps the types.
LEMMA TypeOfSpawn ==
  ASSUME TypeOK, Spawning,
         NEW state \in {"failed", "running"},
         SpawnEffect(state)
  PROVE  TypeOK'
<1>1. Order[next] \in Child /\ next + 1 \in 1..(Len(Order) + 1)
  BY OrderFacts DEF TypeOK, Spawning
<1>2. QED
  BY <1>1 DEF TypeOK, SpawnEffect, ctxVars, waitVars

\* Every step keeps the types.
LEMMA TypeInductive ==
  ASSUME TypeOK, [Next]_vars
  PROVE  TypeOK'
<1>1. CASE SetupFails \/ SetupDone \/ WrapFails \/ SpawnsDone \/ WaitEnds
  BY <1>1 DEF TypeOK, SetupFails, SetupDone, WrapFails, SpawnsDone, WaitEnds, Fatal,
              childVars, waitVars, ctxVars
<1>2. CASE Spawn
  BY <1>2, TypeOfSpawn DEF Spawn
<1>3. CASE StartFails
  BY <1>3, TypeOfSpawn DEF StartFails
<1>4. CASE Verify
  BY <1>4 DEF TypeOK, Verify, childVars, waitVars, ctxVars
<1>5. CASE Terminate
  BY <1>5 DEF TypeOK, Terminate, childVars, waitVars, ctxVars
<1>6. CASE Reaped \/ Aggregate
  BY <1>6 DEF TypeOK, Reaped, Aggregate, childVars, waitVars, ctxVars
<1>7. CASE Interrupt \/ SignalGoroutine \/ GraceOver
  BY <1>7 DEF TypeOK, Interrupt, SignalGoroutine, GraceOver, childVars, waitVars, ctxVars
<1>8. ASSUME NEW c \in Child, ChildStep(c)
      PROVE  TypeOK'
  BY <1>8 DEF TypeOK, ChildStep, Return, Die, CtxKill, CloseDone, childVars, waitVars, ctxVars
<1>9. ASSUME NEW c \in Child, WaiterStep(c)
      PROVE  TypeOK'
  BY <1>9 DEF TypeOK, WaiterStep, WaiterSeesDone, WaiterSeesDeadline, childVars, waitVars,
              ctxVars
<1>10. CASE UNCHANGED vars
  BY <1>10 DEF TypeOK, vars
<1>11. QED
  BY <1>1, <1>2, <1>3, <1>4, <1>5, <1>6, <1>7, <1>8, <1>9, <1>10 DEF Next, Main

-----------------------------------------------------------------------------
(* The initial state, and the steps that do not bear on the invariant *)

\* The invariant holds before the first spawn.
LEMMA InitInv == Init => Inv
<1> SUFFICES ASSUME Init PROVE Inv
  OBVIOUS
<1>0. 1 \in 1..(Len(Order) + 1)
  BY OrderFacts
<1>1. TypeOK
  BY <1>0 DEF Init, TypeOK
<1>2. SpawnOrder
  BY OrderFacts DEF Init, SpawnOrder
<1>3. QED
  BY <1>1, <1>2 DEF Init, Inv, DoneMeansGone, WaitersWait, ExitOnce, Grace

\* Children are spawned in order, and none behind the one spawned next.
LEMMA SpawnOrderInductive ==
  ASSUME Inv, [Next]_vars
  PROVE  SpawnOrder'
<1> USE DEF Inv, TypeOK
<1>1. CASE SetupFails \/ SetupDone \/ WrapFails \/ SpawnsDone \/ WaitEnds
  BY <1>1, OrderFacts DEF SpawnOrder, SetupFails, SetupDone, WrapFails, SpawnsDone, WaitEnds, Fatal,
              ExitOnce, childVars, Spawning
<1>2. ASSUME Spawning, NEW state \in {"failed", "running"},
             SpawnEffect(state)
      PROVE  SpawnOrder'
  <2>1. Order[next] \in Child /\ next \in 1..Len(Order)
    BY <1>2, OrderFacts DEF Spawning
  <2>2. \A i \in DOMAIN Order : proc'[Order[i]] = IF i = next THEN state ELSE proc[Order[i]]
    BY <1>2, <2>1, OrderFacts DEF SpawnEffect
  <2>3. next' = next + 1 /\ pc' = "spawn" /\ exit' = exit /\ exit = "none"
    BY <1>2 DEF SpawnEffect, Spawning, ExitOnce
  <2>4. QED
    BY <2>1, <2>2, <2>3, OrderFacts DEF SpawnOrder
<1>3. CASE Spawn \/ StartFails
  BY <1>2, <1>3 DEF Spawn, StartFails
<1>4. CASE Verify \/ Terminate \/ Reaped \/ Aggregate
  BY <1>4 DEF SpawnOrder, Verify, Terminate, Reaped, Aggregate, childVars
<1>5. CASE Interrupt \/ SignalGoroutine \/ GraceOver \/ UNCHANGED vars
  BY <1>5 DEF SpawnOrder, Interrupt, SignalGoroutine, GraceOver, childVars, vars
<1>6. ASSUME NEW c \in Child, ChildStep(c)
      PROVE  SpawnOrder'
  <2>1. /\ \A d \in Child : proc[d] = "none" <=> proc'[d] = "none"
        /\ UNCHANGED <<pc, next, exit>>
    BY <1>6 DEF ChildStep, Return, Die, CtxKill, CloseDone
  <2>2. QED
    BY <2>1, OrderFacts DEF SpawnOrder
<1>7. ASSUME NEW c \in Child, WaiterStep(c)
      PROVE  SpawnOrder'
  BY <1>7 DEF SpawnOrder, WaiterStep, WaiterSeesDone, WaiterSeesDeadline, childVars
<1>8. QED
  BY <1>1, <1>3, <1>4, <1>5, <1>6, <1>7 DEF Next, Main

\* What a waiter has reported or the launcher has reaped is gone.
LEMMA DoneMeansGoneInductive ==
  ASSUME Inv, [Next]_vars
  PROVE  DoneMeansGone'
<1> USE DEF Inv, TypeOK
<1>1. ASSUME Spawning, NEW state \in {"failed", "running"},
             SpawnEffect(state)
      PROVE  DoneMeansGone'
  <2>1. Order[next] \in Child /\ proc[Order[next]] = "none"
    BY <1>1, OrderFacts DEF Spawning, SpawnOrder
  <2>2. QED
    BY <1>1, <2>1 DEF SpawnEffect, DoneMeansGone
<1>2. CASE Spawn \/ StartFails
  BY <1>1, <1>2 DEF Spawn, StartFails
<1>3. ASSUME NEW c \in Child, ChildStep(c)
      PROVE  DoneMeansGone'
  BY <1>3 DEF ChildStep, Return, Die, CtxKill, CloseDone, DoneMeansGone
<1>4. ASSUME UNCHANGED <<proc, done>>
      PROVE  DoneMeansGone'
  BY <1>4 DEF DoneMeansGone
<1>5. CASE SetupFails \/ SetupDone \/ WrapFails \/ SpawnsDone \/ Verify \/ WaitEnds
            \/ Terminate \/ Reaped \/ Aggregate
  BY <1>4, <1>5 DEF SetupFails, SetupDone, WrapFails, SpawnsDone, WaitEnds, Fatal, Verify,
              Terminate, Reaped, Aggregate, childVars
<1>6. CASE Interrupt \/ SignalGoroutine \/ GraceOver \/ UNCHANGED vars
  BY <1>4, <1>6 DEF Interrupt, SignalGoroutine, GraceOver, childVars, vars
<1>7. ASSUME NEW c \in Child, WaiterStep(c)
      PROVE  DoneMeansGone'
  BY <1>4, <1>7 DEF WaiterStep, WaiterSeesDone, WaiterSeesDeadline, childVars
<1>8. QED
  BY <1>2, <1>3, <1>5, <1>6, <1>7 DEF Next, Main

\* Every step keeps the account of the waiters and what each waits for.
LEMMA WaitersWaitInductive ==
  ASSUME Inv, [Next]_vars
  PROVE  WaitersWait'
<1> USE DEF Inv, TypeOK
<1>1. CASE SetupFails \/ SetupDone \/ WrapFails \/ SpawnsDone \/ Verify \/ WaitEnds
  BY <1>1 DEF WaitersWait, ExitOnce, SetupFails, SetupDone, WrapFails, SpawnsDone, WaitEnds,
              Fatal, Verify, childVars, waitVars
<1>2. CASE Spawn \/ StartFails
  BY <1>2 DEF WaitersWait, ExitOnce, Spawn, StartFails, Spawning, SpawnEffect, waitVars
<1>3. CASE Terminate
  BY <1>3 DEF WaitersWait, ExitOnce, Terminate
<1>4. CASE Reaped \/ Aggregate
  BY <1>4 DEF WaitersWait, Reaped, Aggregate, childVars, waitVars
<1>5. CASE Interrupt \/ SignalGoroutine \/ GraceOver \/ UNCHANGED vars
  BY <1>5 DEF WaitersWait, Interrupt, SignalGoroutine, GraceOver, childVars, waitVars, vars
<1>6. ASSUME NEW c \in Child, ChildStep(c)
      PROVE  WaitersWait'
  BY <1>6 DEF WaitersWait, ChildStep, Return, Die, CtxKill, CloseDone, waitVars
<1>7. ASSUME NEW c \in Child, WaiterStep(c)
      PROVE  WaitersWait'
  BY <1>7 DEF WaitersWait, WaiterStep, WaiterSeesDone, WaiterSeesDeadline, childVars
<1>8. QED
  BY <1>1, <1>2, <1>3, <1>4, <1>5, <1>6, <1>7 DEF Next, Main

\* Every step keeps the account of the launcher's exit.
LEMMA ExitOnceInductive ==
  ASSUME Inv, [Next]_vars
  PROVE  ExitOnce'
<1> USE DEF Inv, TypeOK, ExitOnce
<1>1. CASE SetupFails \/ SetupDone \/ WrapFails \/ SpawnsDone \/ WaitEnds
  BY <1>1 DEF SetupFails, SetupDone, WrapFails, SpawnsDone, WaitEnds, Fatal, Spawning, ctxVars
<1>2. CASE Spawn \/ StartFails
  BY <1>2 DEF Spawn, StartFails, Spawning, SpawnEffect, ctxVars
<1>3. CASE Verify \/ Terminate \/ Reaped \/ Aggregate
  BY <1>3 DEF Verify, Terminate, Reaped, Aggregate, ctxVars
<1>4. CASE Interrupt \/ SignalGoroutine \/ GraceOver \/ UNCHANGED vars
  BY <1>4 DEF Interrupt, SignalGoroutine, GraceOver, ctxVars, vars
<1>5. ASSUME NEW c \in Child, ChildStep(c)
      PROVE  ExitOnce'
  BY <1>5 DEF ChildStep, Return, Die, CtxKill, CloseDone, ctxVars
<1>6. ASSUME NEW c \in Child, WaiterStep(c)
      PROVE  ExitOnce'
  BY <1>6 DEF WaiterStep, WaiterSeesDone, WaiterSeesDeadline, ctxVars
<1>7. QED
  BY <1>1, <1>2, <1>3, <1>4, <1>5, <1>6 DEF Next, Main

\* Every step keeps the account of who may be killed.
LEMMA GraceInductive ==
  ASSUME Inv, [Next]_vars
  PROVE  Grace'
<1> USE DEF Inv, TypeOK, Grace
<1>1. CASE SetupFails \/ SetupDone \/ WrapFails \/ SpawnsDone \/ WaitEnds
  BY <1>1 DEF SetupFails, SetupDone, WrapFails, SpawnsDone, WaitEnds, Fatal, Spawning, childVars,
              ctxVars, waitVars
<1>2. CASE Spawn \/ StartFails
  BY <1>2 DEF Spawn, StartFails, Spawning, SpawnEffect, ctxVars, waitVars
<1>3. CASE Verify
  BY <1>3 DEF Verify, childVars, waitVars
<1>4. CASE Terminate
  <2>1. /\ termed' = {c \in Child : proc[c] # "failed"} /\ pc' = "reap"
        /\ UNCHANGED <<proc, killed, ctxVars, aborting>>
    BY <1>4 DEF Terminate
  <2>2. ~cancelled => killed = {}
    BY <1>4 DEF Terminate
  <2>3. QED
    BY <2>1, <2>2 DEF ctxVars
<1>5. CASE Reaped \/ Aggregate
  BY <1>5 DEF Reaped, Aggregate, childVars, ctxVars, waitVars
<1>6. CASE Interrupt \/ SignalGoroutine \/ GraceOver \/ UNCHANGED vars
  BY <1>6 DEF Interrupt, SignalGoroutine, GraceOver, childVars, ctxVars, waitVars, vars
<1>7. ASSUME NEW c \in Child, ChildStep(c)
      PROVE  Grace'
  <2>1. CASE CtxKill(c)
    BY <2>1 DEF CtxKill, ctxVars, waitVars
  <2>2. CASE Return(c) \/ Die(c) \/ CloseDone(c)
    BY <2>2 DEF Return, Die, CloseDone, ctxVars, waitVars
  <2>3. QED
    BY <1>7, <2>1, <2>2 DEF ChildStep
<1>8. ASSUME NEW c \in Child, WaiterStep(c)
      PROVE  Grace'
  <2>1. CASE WaiterSeesDone(c)
    BY <2>1 DEF WaiterSeesDone, childVars, ctxVars
  <2>2. CASE WaiterSeesDeadline(c)
    <3>1. /\ waiter[c] = "select" /\ deadline = "ready" /\ deadline' = "taken"
          /\ \/ killed' = killed
             \/ killed' = killed \cup {c} /\ proc[c] # "failed"
          /\ waiter' = [waiter EXCEPT ![c] = "await"]
          /\ UNCHANGED <<pc, proc, termed, cancelled, interrupt, aborting>>
      BY <2>2 DEF WaiterSeesDeadline, ctxVars
    <3>2. ~cancelled => killed = {}
      BY <3>1
    <3>3. QED
      BY <3>1, <3>2
  <2>3. QED
    BY <1>8, <2>1, <2>2 DEF WaiterStep
<1>9. QED
  BY <1>1, <1>2, <1>3, <1>4, <1>5, <1>6, <1>7, <1>8 DEF Next, Main

\* The invariant holds of every behaviour of the launcher.
LEMMA InvAlways == Spec => []Inv
<1>1. Inv /\ [Next]_vars => Inv'
  <2> SUFFICES ASSUME Inv, [Next]_vars PROVE Inv'
    OBVIOUS
  <2>1. TypeOK'
    BY TypeInductive DEF Inv
  <2>2. QED
    BY <2>1, SpawnOrderInductive, DoneMeansGoneInductive, WaitersWaitInductive,
       ExitOnceInductive, GraceInductive DEF Inv
<1>2. QED
  BY <1>1, InitInv, PTL DEF Spec

-----------------------------------------------------------------------------
(* The invariants of the launcher *)

\* Every variable has its type, in main, its goroutines and the children.
THEOREM TypeCorrect == Spec => []TypeOK
<1>1. Inv => TypeOK
  BY DEF Inv
<1>2. QED
  BY <1>1, InvAlways, PTL

\* When the aggregator is invoked, or success is reported, every child is gone
\* and was waited for (main.go 239-251): terminate's goroutines return only
\* on done, which is closed only behind cmd.Wait or a failed start.
THEOREM ResultsAreComplete == Spec => []ResultsComplete
<1>1. ASSUME Inv PROVE ResultsComplete
  <2> SUFFICES ASSUME pc = "aggregate" \/ exit = "ok"
               PROVE  running = {} /\ {c \in Child : proc[c] # "none"} \subseteq done
    BY DEF ResultsComplete
  <2>1. \A c \in Child : c \in done
    BY <1>1 DEF Inv, WaitersWait
  <2>2. QED
    BY <1>1, <2>1 DEF Inv, DoneMeansGone, running
<1>2. QED
  BY <1>1, InvAlways, PTL

\* However many children there are, one that is killed in a run that neither a
\* signal nor a failed verification has ended was sent SIGTERM and has had its
\* grace (main.go 239-246, 412-434).
THEOREM GraceIsKept == Spec => []GraceIsGiven
<1>1. Inv => GraceIsGiven
  BY DEF Inv, Grace, GraceIsGiven
<1>2. QED
  BY <1>1, InvAlways, PTL

-----------------------------------------------------------------------------
(* Launcher implements the safety part of Supervisor *)

\* The children whose turn has not come.
Waiting == {Order[i] : i \in next..Len(Order)}

\* The launcher's initial states are the supervisor's.
LEMMA WaitingInit ==
  ASSUME Init
  PROVE  Promise!Init
<1>1. Waiting = Child
  BY OrderFacts DEF Init, Waiting
<1>2. running = {}
  BY DEF Init, running
<1>3. QED
  BY <1>1, <1>2 DEF Init, Promise!Init, Waiting

\* One child less is waiting, whether it was started or not.
LEMMA WaitingShrinks ==
  ASSUME TypeOK, Spawning, next' = next + 1
  PROVE  /\ Order[next] \in Waiting
         /\ Waiting' = Waiting \ {Order[next]}
<1>1. next \in 1..Len(Order)
  BY OrderFacts DEF TypeOK, Spawning
<1>2. Order[next] \in Waiting
  BY <1>1 DEF Waiting
<1>3. Waiting' = {Order[i] : i \in (next + 1)..Len(Order)}
  BY DEF Waiting
<1>4. ASSUME NEW i \in (next + 1)..Len(Order)
      PROVE  Order[i] \in Waiting \ {Order[next]}
  BY <1>1, <1>4, OrderFacts DEF Waiting
<1>5. ASSUME NEW c \in Waiting \ {Order[next]}
      PROVE  c \in {Order[i] : i \in (next + 1)..Len(Order)}
  <2>1. PICK i \in next..Len(Order) : c = Order[i]
    BY DEF Waiting
  <2>2. i # next
    BY <2>1
  <2>3. i \in (next + 1)..Len(Order)
    BY <1>1, <2>1, <2>2, OrderFacts
  <2>4. QED
    BY <2>1, <2>3
<1>6. QED
  BY <1>2, <1>3, <1>4, <1>5

\* A fatal exit: the launcher gives up, or there was nobody to spawn.
LEMMA FatalPromise ==
  ASSUME Inv, pc \in {"setup", "spawn"}, Fatal,
         pc = "spawn" => next <= Len(Order)
  PROVE  Promise!Next
<1>1. exit = "none" /\ exit' = "fatal" /\ UNCHANGED <<next, proc, cancelled>>
  BY DEF Inv, ExitOnce, Fatal, childVars, ctxVars
<1>2. Waiting' = Waiting /\ running' = running
  BY <1>1 DEF Waiting, running
<1>3. CASE Waiting # {}
  <2>1. Promise!GiveUp
    BY <1>1, <1>2, <1>3 DEF Promise!GiveUp, Promise!Up, Waiting
  <2>2. QED
    BY <2>1 DEF Promise!Next
<1>4. CASE Waiting = {}
  <2>1. next \in 1..(Len(Order) + 1) /\ Len(Order) \in Nat
    BY OrderFacts DEF Inv, TypeOK
  <2>2. next > Len(Order)
    <3>1. ASSUME next <= Len(Order) PROVE FALSE
      <4>1. next \in next..Len(Order)
        BY <2>1, <3>1
      <4>2. QED
        BY <1>4, <4>1 DEF Waiting
    <3>2. QED
      BY <2>1, <3>1
  <2>3. pc = "setup" /\ Len(Order) = 0
    BY <2>1, <2>2 DEF Inv, SpawnOrder
  <2>4. running = {}
    BY <2>3, OrderFacts DEF running
  <2>5. Promise!Finish
    BY <1>1, <1>2, <1>4, <2>4 DEF Promise!Finish, Promise!Up, Waiting
  <2>6. QED
    BY <2>5 DEF Promise!Next
<1>5. QED
  BY <1>3, <1>4

\* A spawn of the launcher is one of the supervisor.
LEMMA SpawnPromise ==
  ASSUME Inv, Spawn \/ StartFails
  PROVE  Promise!Next
<1>0. TypeOK
  BY DEF Inv
<1>1. /\ Spawning /\ next' = next + 1 /\ UNCHANGED <<cancelled, exit>>
      /\ \/ ~cancelled /\ proc' = [proc EXCEPT ![Order[next]] = "running"]
         \/ proc' = [proc EXCEPT ![Order[next]] = "failed"]
  BY DEF Spawn, StartFails, SpawnEffect, ctxVars
<1>2. Order[next] \in Waiting /\ Waiting' = Waiting \ {Order[next]}
  BY <1>0, <1>1, WaitingShrinks
<1>3. exit = "none"
  BY <1>1 DEF Inv, ExitOnce, Spawning
<1>4. PICK c \in Child : c = Order[next] /\ proc[c] = "none"
  BY <1>1, OrderFacts DEF Inv, TypeOK, SpawnOrder, Spawning
<1>5. CASE ~cancelled /\ proc' = [proc EXCEPT ![Order[next]] = "running"]
  <2>1. running' = running \cup {c}
    BY <1>4, <1>5 DEF Inv, TypeOK, running
  <2>2. Promise!Start(c)
    BY <1>1, <1>2, <1>3, <1>4, <1>5, <2>1 DEF Promise!Start, Promise!Up, Waiting
  <2>3. QED
    BY <2>2 DEF Promise!Next
<1>6. CASE proc' = [proc EXCEPT ![Order[next]] = "failed"]
  <2>1. running' = running
    BY <1>4, <1>6 DEF Inv, TypeOK, running
  <2>2. Promise!Skip(c)
    BY <1>1, <1>2, <1>3, <1>4, <2>1 DEF Promise!Skip, Promise!Up, Waiting
  <2>3. QED
    BY <2>2 DEF Promise!Next
<1>7. QED
  BY <1>1, <1>5, <1>6

\* Main ends only behind its waiters.
LEMMA EndPromise ==
  ASSUME Inv, Reaped \/ Aggregate, exit' # exit
  PROVE  Promise!Next
<1>1. \A c \in Child : waiter[c] = "finished"
  BY DEF Inv, WaitersWait, Reaped, Aggregate
<1>2. running = {}
  BY <1>1 DEF Inv, WaitersWait, DoneMeansGone, running
<1>3. next = Len(Order) + 1
  BY DEF Inv, SpawnOrder, Reaped, Aggregate
<1>4. Waiting = {}
  BY <1>3, OrderFacts DEF Waiting
<1>5. exit = "none" /\ exit' \in {"ok", "fatal"} /\ UNCHANGED <<next, proc, cancelled>>
  BY DEF Inv, ExitOnce, Reaped, Aggregate, childVars, ctxVars
<1>6. Waiting' = Waiting /\ running' = running
  BY <1>5 DEF Waiting, running
<1>7. Promise!Finish
  BY <1>2, <1>4, <1>5, <1>6 DEF Promise!Finish, Promise!Up, Waiting
<1>8. QED
  BY <1>7 DEF Promise!Next

\* A cancelled context is the order to stop; a second one changes nothing.
LEMMA CancelPromise ==
  ASSUME Inv, pc # "exited", cancelled' \in {cancelled, TRUE}, UNCHANGED <<next, proc, exit>>
  PROVE  [Promise!Next]_(Promise!vars)
<1>1. Waiting' = Waiting /\ running' = running /\ exit = "none"
  BY DEF Waiting, running, Inv, ExitOnce
<1>2. CASE cancelled' = cancelled
  BY <1>1, <1>2 DEF Promise!vars, Waiting
<1>3. CASE cancelled' # cancelled
  <2>1. ~cancelled /\ cancelled'
    BY <1>3 DEF Inv, TypeOK
  <2>2. Promise!Stop
    BY <1>1, <2>1 DEF Promise!Stop, Promise!Up, Waiting
  <2>3. QED
    BY <2>2 DEF Promise!Next
<1>4. QED
  BY <1>2, <1>3

\* A child that ends is one that leaves the supervisor.
LEMMA LeavePromise ==
  ASSUME Inv, NEW c \in Child, Return(c) \/ Die(c)
  PROVE  Promise!Next
<1>1. /\ proc[c] = "running" /\ UNCHANGED <<next, cancelled, exit>>
      /\ \E s \in {"returned", "killed"} : proc' = [proc EXCEPT ![c] = s]
  BY DEF Return, Die, ctxVars
<1>2. c \in running /\ running' = running \ {c}
  BY <1>1 DEF Inv, TypeOK, running
<1>3. Waiting' = Waiting
  BY <1>1 DEF Waiting
<1>4. Promise!Leave(c)
  BY <1>1, <1>2, <1>3 DEF Promise!Leave, Waiting
<1>5. QED
  BY <1>4 DEF Promise!Next

\* A step that leaves children, order and exit alone is a stutter of the supervisor.
LEMMA StutterPromise ==
  ASSUME UNCHANGED <<next, proc, cancelled, exit>>
  PROVE  UNCHANGED Promise!vars
BY DEF Promise!vars, running

\* The launcher keeps the supervisor's promise (Supervises without its fairness):
\* it starts no child after it was told to stop, and, once it has tried the last
\* child, it ends only when all of them are gone.
THEOREM LauncherSupervises == Spec => Promise!SafeSpec
<1>1. Init => Promise!Init
  BY WaitingInit
<1>2. ASSUME Inv, [Next]_vars
      PROVE  [Promise!Next]_(Promise!vars)
  <2>1. CASE SetupFails \/ WrapFails
    BY <1>2, <2>1, FatalPromise DEF SetupFails, WrapFails, Spawning
  <2>2. CASE Spawn \/ StartFails
    BY <1>2, <2>2, SpawnPromise
  <2>3. CASE SetupDone \/ SpawnsDone \/ WaitEnds \/ Terminate
    BY <2>3, StutterPromise
       DEF SetupDone, SpawnsDone, WaitEnds, Terminate, childVars, ctxVars
  <2>4. CASE Verify
    BY <1>2, <2>4, CancelPromise DEF Verify, childVars
  <2>5. CASE Reaped \/ Aggregate
    <3>1. CASE exit' # exit
      BY <1>2, <2>5, <3>1, EndPromise
    <3>2. CASE exit' = exit
      BY <2>5, <3>2, StutterPromise DEF Reaped, Aggregate, childVars, ctxVars
    <3>3. QED
      BY <3>1, <3>2
  <2>6. CASE SignalGoroutine
    BY <1>2, <2>6, CancelPromise DEF SignalGoroutine, childVars
  <2>7. CASE Interrupt \/ GraceOver \/ UNCHANGED vars
    BY <2>7, StutterPromise DEF Interrupt, GraceOver, childVars, ctxVars, vars
  <2>8. ASSUME NEW c \in Child, ChildStep(c)
        PROVE  [Promise!Next]_(Promise!vars)
    <3>1. CASE Return(c) \/ Die(c)
      BY <1>2, <3>1, LeavePromise
    <3>2. CASE CtxKill(c) \/ CloseDone(c)
      BY <3>2, StutterPromise DEF CtxKill, CloseDone, ctxVars
    <3>3. QED
      BY <2>8, <3>1, <3>2 DEF ChildStep
  <2>9. ASSUME NEW c \in Child, WaiterStep(c)
        PROVE  [Promise!Next]_(Promise!vars)
    BY <2>9, StutterPromise
       DEF WaiterStep, WaiterSeesDone, WaiterSeesDeadline, childVars, ctxVars
  <2>10. QED
    BY <1>2, <2>1, <2>2, <2>3, <2>4, <2>5, <2>6, <2>7, <2>8, <2>9 DEF Next, Main
<1>3. QED
  BY <1>1, <1>2, InvAlways, PTL DEF Spec, Promise!SafeSpec

=============================================================================
