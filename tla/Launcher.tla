------------------------------ MODULE Launcher ------------------------------
(***************************************************************************)
(* chaos-launcher: it spawns the observer, the victim and the workers,     *)
(* verifies where they run, waits, terminates them and invokes the         *)
(* aggregator.  The processes of the system are                            *)
(*   - main, from the end of flag parsing to its exit (variable pc);       *)
(*   - the signal goroutine, which cancels the root context;               *)
(*   - per child: the operating system's process, the goroutine of         *)
(*     startProc that waits for it and closes done, os/exec's goroutine    *)
(*     that SIGKILLs it when the root context is cancelled (the commands   *)
(*     are made with exec.CommandContext), and terminate's goroutine.      *)
(* What a child computes, its arguments and its output are left out, and   *)
(* so is where it runs: module Host has what the verification can see.     *)
(***************************************************************************)
EXTENDS Naturals, Sequences, FiniteSets

CONSTANTS
  Order,     \* the children in spawn order: observer, victim, workers
  Stubborn   \* the sets of children that may turn out to ignore SIGTERM

Child == {Order[i] : i \in DOMAIN Order}

ASSUME OrderAssumption ==
  /\ Order \in Seq(Child)
  /\ \A i, j \in DOMAIN Order : Order[i] = Order[j] => i = j
ASSUME StubbornAssumption == Stubborn \subseteq SUBSET Child

VARIABLES
  tuned,      \* the run config names a performance profile
  stubborn,   \* the children that do not exit on SIGTERM
  pc,         \* where main is
  next,       \* the index in Order of the next child to spawn
  proc,       \* per child: the operating system's process
  done,       \* the children whose done channel is closed
  cancelled,  \* rootCtx is cancelled
  interrupt,  \* "no", "pending" in sigCh, or "taken" by the signal goroutine
  termed,     \* the children that were sent SIGTERM
  killed,     \* the children that were sent SIGKILL
  deadline,   \* the channel of time.After(grace): "unset", "armed", "ready", "taken"
  waiter,     \* per child: terminate's goroutine
  aborting,   \* the post-spawn verification failed
  exit        \* the launcher's exit: "none", "ok", "fatal"

vars == <<tuned, stubborn, pc, next, proc, done, cancelled, interrupt,
          termed, killed, deadline, waiter, aborting, exit>>

running == {c \in Child : proc[c] = "running"}

\* Type invariant.
TypeOK ==
  /\ tuned \in BOOLEAN
  /\ stubborn \in Stubborn
  /\ pc \in {"setup", "spawn", "verify", "wait", "terminate", "reap", "aggregate", "exited"}
  /\ next \in 1..(Len(Order) + 1)
  /\ proc \in [Child -> {"none", "failed", "running", "returned", "killed"}]
  /\ done \subseteq Child
  /\ cancelled \in BOOLEAN
  /\ interrupt \in {"no", "pending", "taken"}
  /\ termed \subseteq Child
  /\ killed \subseteq Child
  /\ deadline \in {"unset", "armed", "ready", "taken"}
  /\ waiter \in [Child -> {"none", "select", "await", "finished"}]
  /\ aborting \in BOOLEAN
  /\ exit \in {"none", "ok", "fatal"}

Init ==
  /\ tuned \in BOOLEAN
  /\ stubborn \in Stubborn
  /\ pc = "setup"
  /\ next = 1
  /\ proc = [c \in Child |-> "none"]
  /\ done = {}
  /\ cancelled = FALSE
  /\ interrupt = "no"
  /\ termed = {}
  /\ killed = {}
  /\ deadline = "unset"
  /\ waiter = [c \in Child |-> "none"]
  /\ aborting = FALSE
  /\ exit = "none"

-----------------------------------------------------------------------------
(* main *)

childVars == <<proc, done, termed, killed>>
waitVars  == <<deadline, waiter>>
ctxVars   == <<cancelled, interrupt>>

\* fatal: os.Exit(1).  No deferred call runs and no child is signalled.
Fatal ==
  /\ pc' = "exited"
  /\ exit' = "fatal"
  /\ UNCHANGED <<tuned, stubborn, next, childVars, ctxVars, waitVars, aborting>>

\* Loading the configuration, the plan, the host preparation, the manifest
\* and the sync socket: an error in any of them is fatal.
SetupFails == pc = "setup" /\ Fatal

SetupDone ==
  /\ pc = "setup"
  /\ pc' = "spawn"
  /\ UNCHANGED <<tuned, stubborn, next, childVars, ctxVars, waitVars, aborting, exit>>

Spawning == pc = "spawn" /\ next <= Len(Order)

\* A tuned child's command is wrapped by the applier first; its error is fatal.
WrapFails == Spawning /\ tuned /\ Fatal

\* Mutant: done is left open when the command does not start.
SpawnEffectOpen(state) ==
  /\ proc' = [proc EXCEPT ![Order[next]] = state]
  /\ next' = next + 1
  /\ UNCHANGED <<tuned, stubborn, pc, done, ctxVars, termed, killed, waitVars, aborting, exit>>

SpawnEffect(state) ==
  /\ proc' = [proc EXCEPT ![Order[next]] = state]
  /\ done' = IF state = "failed" THEN done \cup {Order[next]} ELSE done
  /\ next' = next + 1
  /\ UNCHANGED <<tuned, stubborn, pc, ctxVars, termed, killed, waitVars, aborting, exit>>

\* cmd.Start succeeds.
Spawn == Spawning /\ ~cancelled /\ SpawnEffect("running")

\* cmd.Start fails (always, once the context is cancelled): startProc closes
\* done, logs and goes on.
StartFails == Spawning /\ SpawnEffect("failed")

SpawnsDone ==
  /\ pc = "spawn"
  /\ next = Len(Order) + 1
  /\ pc' = IF tuned THEN "verify" ELSE "wait"
  /\ UNCHANGED <<tuned, stubborn, next, childVars, ctxVars, waitVars, aborting, exit>>

\* The children VerifyPID can read the /proc entry of: one that has exited has
\* it until it is waited for.  The others are skipped, as is a child that did
\* not start.
Readable == running \cup ({c \in Child : proc[c] \in {"returned", "killed"}} \ done)

\* Mutant: a failed verification exits without terminating the children.
VerifyFatal ==
  /\ pc = "verify"
  /\ Readable # {}
  /\ Fatal

\* Mutant: a failed verification terminates without cancelling the context.
VerifyNoCancel ==
  /\ pc = "verify"
  /\ \E outside \in SUBSET Readable :
       /\ aborting' = (outside # {})
       /\ pc' = IF outside # {} THEN "terminate" ELSE "wait"
  /\ UNCHANGED <<tuned, stubborn, next, childVars, ctxVars, waitVars, exit>>

\* VerifyAll.  Of which children /proc shows CPUs outside the planned cpuset is
\* up to the host and to the children: an applier's confinement may not have
\* taken effect, and a child that pins itself may hide that.
Verify ==
  /\ pc = "verify"
  /\ \E outside \in SUBSET Readable :
       \/ /\ outside # {}
          /\ aborting' = TRUE
          /\ cancelled' = TRUE
          /\ pc' = "terminate"
       \/ /\ outside = {}
          /\ pc' = "wait"
          /\ UNCHANGED <<aborting, cancelled>>
  /\ UNCHANGED <<tuned, stubborn, next, childVars, interrupt, waitVars, exit>>

\* Mutant: the end of the duration comes by way of the root context.
WaitEndsCancels ==
  /\ pc = "wait"
  /\ pc' = "terminate"
  /\ cancelled' = TRUE
  /\ UNCHANGED <<tuned, stubborn, next, childVars, interrupt, waitVars, aborting, exit>>

\* select over rootCtx.Done() and time.After(Duration): the duration may be
\* over at any time.
WaitEnds ==
  /\ pc = "wait"
  /\ pc' = "terminate"
  /\ UNCHANGED <<tuned, stubborn, next, childVars, ctxVars, waitVars, aborting, exit>>

\* Mutant: terminate keeps waiters for the children that started only.
TerminateStarted ==
  /\ pc = "terminate"
  /\ termed' = {c \in Child : proc[c] # "failed"}
  /\ deadline' = "armed"
  /\ waiter' = [c \in termed' |-> "select"]
  /\ pc' = "reap"
  /\ UNCHANGED <<tuned, stubborn, next, proc, done, killed, ctxVars, aborting, exit>>

\* terminate: SIGTERM to every child that started, one timer, one goroutine
\* per child.
Terminate ==
  /\ pc = "terminate"
  /\ termed' = {c \in Child : proc[c] # "failed"}
  /\ deadline' = "armed"
  /\ waiter' = [c \in Child |-> "select"]
  /\ pc' = "reap"
  /\ UNCHANGED <<tuned, stubborn, next, proc, done, killed, ctxVars, aborting, exit>>

\* wg.Wait() returns.
Reaped ==
  /\ pc = "reap"
  /\ \A c \in Child : waiter[c] = "finished"
  /\ \/ ~aborting /\ pc' = "aggregate" /\ UNCHANGED exit
     \/ ~aborting /\ pc' = "exited" /\ exit' = "ok"          \* --skip-aggregate
     \/ aborting /\ pc' = "exited" /\ exit' = "fatal"
  /\ UNCHANGED <<tuned, stubborn, next, childVars, ctxVars, waitVars, aborting>>

\* The aggregator's own failure is only logged.
Aggregate ==
  /\ pc = "aggregate"
  /\ pc' = "exited"
  /\ exit' = "ok"
  /\ UNCHANGED <<tuned, stubborn, next, childVars, ctxVars, waitVars, aborting>>

-----------------------------------------------------------------------------
(* The signal goroutine *)

\* SIGINT or SIGTERM for the launcher, once it has called signal.Notify.  sigCh
\* holds one signal; further ones are dropped.
Interrupt ==
  /\ pc \notin {"setup", "exited"}
  /\ interrupt = "no"
  /\ interrupt' = "pending"
  /\ UNCHANGED <<tuned, stubborn, pc, next, childVars, cancelled, waitVars, aborting, exit>>

\* The goroutine takes the signal, unless it has returned because the context
\* was cancelled by main.
SignalGoroutine ==
  /\ pc # "exited"
  /\ interrupt = "pending"
  /\ ~cancelled
  /\ interrupt' = "taken"
  /\ cancelled' = TRUE
  /\ UNCHANGED <<tuned, stubborn, pc, next, childVars, waitVars, aborting, exit>>

-----------------------------------------------------------------------------
(* The children *)

\* The process exits by itself: on SIGTERM, at the end of its own duration, or
\* because it failed.
Return(c) ==
  /\ proc[c] = "running"
  /\ proc' = [proc EXCEPT ![c] = "returned"]
  /\ UNCHANGED <<tuned, stubborn, pc, next, done, termed, killed, ctxVars,
                 waitVars, aborting, exit>>

\* The kernel delivers SIGKILL.
Die(c) ==
  /\ proc[c] = "running"
  /\ c \in killed
  /\ proc' = [proc EXCEPT ![c] = "killed"]
  /\ UNCHANGED <<tuned, stubborn, pc, next, done, termed, killed, ctxVars,
                 waitVars, aborting, exit>>

\* os/exec kills the process of a command whose context is done.
CtxKill(c) ==
  /\ pc # "exited"
  /\ cancelled
  /\ proc[c] = "running"
  /\ c \notin killed
  /\ killed' = killed \cup {c}
  /\ UNCHANGED <<tuned, stubborn, pc, next, proc, done, termed, ctxVars,
                 waitVars, aborting, exit>>

\* startProc's goroutine: cmd.Wait() returns, done is closed.
CloseDone(c) ==
  /\ pc # "exited"
  /\ proc[c] \in {"returned", "killed"}
  /\ c \notin done
  /\ done' = done \cup {c}
  /\ UNCHANGED <<tuned, stubborn, pc, next, proc, termed, killed, ctxVars,
                 waitVars, aborting, exit>>

-----------------------------------------------------------------------------
(* terminate's goroutines *)

GraceOver ==
  /\ pc = "reap"
  /\ deadline = "armed"
  /\ deadline' = "ready"
  /\ UNCHANGED <<tuned, stubborn, pc, next, childVars, ctxVars, waiter, aborting, exit>>

WaiterSeesDone(c) ==
  /\ waiter[c] \in {"select", "await"}
  /\ c \in done
  /\ waiter' = [waiter EXCEPT ![c] = "finished"]
  /\ UNCHANGED <<tuned, stubborn, pc, next, childVars, ctxVars, deadline, aborting, exit>>

\* Mutant: the goroutine does not wait for done after it killed the child.
WaiterSeesDeadlineNoWait(c) ==
  /\ waiter[c] = "select"
  /\ deadline = "ready"
  /\ deadline' = "taken"
  /\ killed' = IF proc[c] = "failed" THEN killed ELSE killed \cup {c}
  /\ waiter' = [waiter EXCEPT ![c] = "finished"]
  /\ UNCHANGED <<tuned, stubborn, pc, next, proc, done, termed, ctxVars,
                 aborting, exit>>

\* The deadline channel holds a single value: the goroutine that receives it
\* kills its child, the others go on waiting.
WaiterSeesDeadline(c) ==
  /\ waiter[c] = "select"
  /\ deadline = "ready"
  /\ deadline' = "taken"
  /\ killed' = IF proc[c] = "failed" THEN killed ELSE killed \cup {c}
  /\ waiter' = [waiter EXCEPT ![c] = "await"]
  /\ UNCHANGED <<tuned, stubborn, pc, next, proc, done, termed, ctxVars,
                 aborting, exit>>

-----------------------------------------------------------------------------
Main ==
  \/ SetupFails \/ SetupDone
  \/ WrapFails \/ Spawn \/ StartFails \/ SpawnsDone
  \/ Verify \/ WaitEnds \/ Terminate \/ Reaped \/ Aggregate

ChildStep(c) == Return(c) \/ Die(c) \/ CtxKill(c) \/ CloseDone(c)

WaiterStep(c) == WaiterSeesDone(c) \/ WaiterSeesDeadline(c)

Next ==
  \/ Main
  \/ Interrupt \/ SignalGoroutine \/ GraceOver
  \/ \E c \in Child : ChildStep(c) \/ WaiterStep(c)

\* Go schedules runnable goroutines, timers fire, the kernel delivers SIGKILL,
\* and a child that is not stubborn exits after SIGTERM.  Nothing makes a child
\* exit before that, and nobody has to interrupt the launcher.
Fairness ==
  /\ WF_vars(Main)
  /\ WF_vars(SignalGoroutine)
  /\ WF_vars(GraceOver)
  /\ \A c \in Child :
       /\ WF_vars(c \in termed \ stubborn /\ Return(c))
       /\ WF_vars(Die(c))
       /\ WF_vars(CtxKill(c))
       /\ WF_vars(CloseDone(c))
       /\ WF_vars(WaiterStep(c))

Spec == Init /\ [][Next]_vars

FairSpec == Spec /\ Fairness

-----------------------------------------------------------------------------
(* Properties *)

\* The aggregator is invoked, and success is reported, only when every child
\* that was started is gone and has been waited for, so no result file is
\* still being written (main.go 239-251 with terminate 412-436).
ResultsComplete ==
  (pc = "aggregate" \/ exit = "ok") =>
    running = {} /\ {c \in Child : proc[c] # "none"} \subseteq done

\* The launcher implements the promise of Supervisor: past the last spawn it
\* never ends, with success or without, while a child it started is running;
\* and once the root context is cancelled, by a signal or a failed
\* verification, it ends whatever the children do, also when it hangs in
\* terminate at that moment (main.go 147-251, 399-436).
Promise == INSTANCE Supervisor WITH
  waiting <- {Order[i] : i \in next..Len(Order)},
  live    <- running,
  told    <- cancelled,
  outcome <- exit
Supervises == Promise!Spec

\* A child is killed without the grace that terminate gives it only in a run
\* that a signal or a failed verification has ended: os/exec kills the children
\* as soon as the root context is cancelled, so a run that ends by its duration
\* must not come by way of the context, or the results the children write on
\* SIGTERM are lost (main.go 239-246, 383, 412-434).
GraceIsGiven ==
  (interrupt # "taken" /\ ~aborting /\ killed # {}) =>
    deadline = "taken" /\ killed \subseteq termed

\* If every child obeys SIGTERM the launcher comes to an end.
ComesDown == (stubborn = {}) => <>(pc = "exited")

\* A run whose verification failed ends with the fatal exit, whatever the
\* children do.
AbortEnds == aborting ~> (exit = "fatal")

-----------------------------------------------------------------------------
(* Statements of the repository's documents that the code does not keep *)

\* README.md 68: "SIGTERM all (10 s grace, then SIGKILL)", so the launcher ends
\* also when children ignore SIGTERM.
TerminateReturns == <>(pc = "exited")
=============================================================================
