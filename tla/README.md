# chaos-harness: TLA+ specifications and proofs

chaos-harness loads a host with a fleet of Go processes that imitate an
OpenShift control plane and measures, on CPUs that a performance profile sets
apart, what a victim process notices of it. The result is worth something only
if the isolation that was planned is the one that was in force, if no process
outlives or misses the run, and if what the processes measured reaches their
files. Those three are the subject of this directory.

Each module is translated from the Go source; `PROJECT.json` ("map") gives the
lines behind every definition.

## 1. The system

| Part | State it keeps | Operations | Interacts with |
|---|---|---|---|
| Topology (`pkg/topology`) | process specs | `Validate`, `Flatten` | gives the planner its process list |
| Planner (`pkg/tuning/plan.go`, `profile.go`) | pools, free workload list, assignments | `BuildPlan`, `FindAssignment` | input: profile and flat processes; output: read by launcher, appliers, verification |
| CPU lists (`pkg/tuning/cpulist.go`) | none | parse, render, set operations, `Take` | planner, appliers, `/proc` readings; the victim has a parser of its own |
| Preflight (`pkg/tuning/preflight.go`) | none | `Preflight`, `RequiredFailures` | reads the kernel's arguments and `/sys`; its verdict stops the launcher |
| Appliers (`pkg/tuning/applier*.go`) | cgroups and units on the host | `AutoSelect`, `PrepareHost`, `Wrap`, `CleanupHost` | wrap the launcher's commands; the kernel and systemd act on the result |
| Verification (`pkg/tuning/verify.go`) | none | `VerifyAll`, `VerifyPID` | reads what the appliers brought about |
| Launcher (`cmd/chaos-launcher`) | children, root context, signal channel | spawn, verify, wait, terminate, aggregate | every other process |
| Sync protocol (`pkg/sync`) | client map, connections, deadlines | `NewServer`, `Trigger`, `Close`, `Connect` | launcher's trigger loop; each worker's reconcile coordinator |
| Worker (`cmd/chaos-worker`) | goroutines, context | samplers, coordinator, bursts, shutdown | `pkg/sync`, `pkg/output`, `pkg/workload` |
| Workload (`pkg/workload`) | tokens, a mutex, a listener and connections, files in `/dev/shm` | `RunScheduler`, `RunAlloc`, `RunSyscall`, `RunLock` | called by the worker's steady state and by its bursts |
| JSONL writer (`pkg/output`) | channel, buffer, file | `Emit`, `Close`, flusher | all goroutines of a worker |
| Victim (`cmd/chaos-victim`) | two histograms, target time | jitter loop, HTTP loop, per-second rows, snapshot, `pinSelf` | two goroutines share one histogram |
| Observer (`cmd/chaos-observer`) | previous reading | sample `/proc/stat`, write a row | the kernel's counters |
| chaos-tuned (`cmd/chaos-tuned`) | none | preflight, plan, apply, verify, explain | `apply` prepares the host like the launcher |
| Worker profiles, run configuration, runtime information, scripts | - | - | see section 7 |

What is hard here, and what makes each part correct:

* **Planner.** One free list is cut from both ends in topology order, explicit
  cpusets are reserved first, the victim last. Correct: no CPU handed out twice
  by carving, the victim and every exclusive process alone, a refusal exactly
  when something does not fit. The cases that go wrong need a particular mix of
  classes, widths and explicit cpusets.
* **Preflight, appliers, verification.** A plan becomes real through a backend
  chosen by what the host has, through wrappers that confine themselves after
  they were started, and over what earlier runs left behind; one look at
  `/proc`, 500 ms after the last spawn, decides whether the run counts. Correct:
  whatever failed on the way, a run that goes on is confined.
* **Launcher.** main, the signal goroutine, a waiting goroutine per child,
  os/exec's killers and `terminate`'s goroutines run concurrently, and children
  start, fail, exit and hang at any moment. Correct: results are complete when
  they are aggregated, nobody is left behind, and it ends.
* **Sync protocol.** Register, trigger, hang-up, close, worker exit and launcher
  exit overlap; buffers and channels are bounded. Correct: each beat is
  accounted for, nobody blocks for ever, nobody panics.
* **Workload.** Dozens of goroutines that block on channels, a mutex, accepts
  and reads have to notice one cancelled context, in the steady state and again
  in each burst. Correct: each call returns, and leaves nothing behind.
* **Worker and writer.** `Emit` and `Close` are safe only in the order main
  calls them; the disk can fail at any point. Correct: no send on a closed
  channel, nothing lost without a trace.
* **Victim and observer.** Two goroutines over one histogram; arithmetic on
  times and wrapping counters that is exercised only after a pause or an error.

`PROJECT.json` ("hazards") lists these one by one at the line where they bite.

## 2. Modules

| Module | Models | Notes |
|---|---|---|
| `Topology` | `Flatten`, `Validate` | operators |
| `Planner` | `BuildPlan` step by step, `FindAssignment` | one action per branch; CPU lists are sets |
| `MCPlanner` | instance: one reserved CPU, six isolated, two components and the victim | uses `Topology` for its process lists |
| `PlannerProofs` | theorems about `Planner`, `Topology` and `CPUList` | begins with induction and recursion on the naturals, as lemmas |
| `Preflight` | each check, when it is required and when it passes | operators |
| `Host`, `MCHost` | preflight, `AutoSelect`, `PrepareHost` and `Wrap` of three backends, the children's way into their cpusets, `VerifyAll`; several runs on one host | extends `Preflight`; takes its plans from `Planner`'s guarantees |
| `HostProofs` | theorems about `Host` | |
| `Supervisor` | what the launcher promises, abstractly | refined by `Launcher` |
| `Launcher`, `MCLauncher` | `main`, `startProc`, `terminate`, signal goroutine, the children | |
| `LauncherProofs` | theorems about `Launcher`, and its simulation of `Supervisor` | |
| `SyncProtocol`, `MCSyncProtocol` | `pkg/sync`, the trigger loop, the worker's coordinator | |
| `SyncProtocolProofs` | theorems about `SyncProtocol` | |
| `Workload`, `MCWorkload` | the goroutines of the four load primitives, in the steady state and in bursts | |
| `WorkloadProofs` | theorems about `Workload` | |
| `JsonlWriter` | `output.Writer` | actions without a `Next` of their own |
| `Worker`, `MCWorker` | the worker's goroutines composed with `JsonlWriter` | |
| `WorkerProofs` | theorems about `Worker` and its writer | |
| `VictimProbe` | both measuring loops and the row goroutine | |
| `VictimProbeProofs` | theorems about `VictimProbe` | |
| `Observer` | `readStat`, `delta` and the sampling loop | |
| `ObserverProofs` | theorems about `Observer` | |
| `CPUList` | list operations, `String`, `ParseCPUList`, `parseCPUSet` | justifies the sets of `Planner`; its names differ from those of `Planner`, as `PlannerProofs` extends both |

How they fit together: `Planner` yields plans whose exclusive cpusets are
disjoint and isolated (proved); `Host` assumes exactly that of its plans and
shows what a run that passed verification may rely on; `Launcher` takes the
outcome of the verification as a choice and supervises the children;
`Supervisor` is what is left of it for a reader who does not care how. Inside a
worker, `SyncProtocol` brings a beat to the coordinator, `Workload` does what a
burst does, `Worker` and `JsonlWriter` record it.

A definition whose comment begins with "Mutant:" is a plausible
bug in the definition that follows it; each property of a run is shown to fail
under one of them, so no property holds for want of content.

### State and code

* `Planner`: `pc` follows BuildPlan's numbered steps; `taken`, `workload`,
  `free`, `plan` and `victimCPUs` are its locals and the fields it fills. The
  names of the component map are visited in an arbitrary order, more than the
  code's sorted one, so the guarantees do not rest on it.
* `Host`: `pc` is the program (launcher or chaos-tuned), `group` what each unit's
  cgroup was last given, `proc` the processes of every run so far: a wrapper
  that has not yet entered its cpuset, the child itself, or gone, with its
  cgroup and its affinity. `Allowed` is where some thread of it may run, `Shown`
  what `Cpus_allowed_list` says, which differs once the victim has pinned its
  main thread. Systemd refuses a unit name that is in use and throws the unit's
  settings away with its last process; a cgroup made by hand stays. A host is a
  record of what is installed, which controllers the root delegates and what the
  kernel was booted with.
* `Preflight`: a kernel argument is absent, or a CPU set behind a number of tags
  such as `managed_irq,`; `stripManagedSuffix` removes one.
* `Launcher`: `pc` is main; `proc` is the kernel's view of a child, `done` the
  channel `startProc` closes, `waiter` one goroutine of `terminate`, `deadline`
  the single channel of `time.After` that they share. Which children the
  verification finds outside their cpusets is any set of those whose `/proc`
  entry can be read (`Readable`); what it can see is in `Host`. Setup before the spawn loop is one step
  that succeeds or is fatal; its steps are in `Host`.
* `Supervisor`: the children not tried yet, those that run, whether the launcher
  was told to stop, and its outcome. Launcher's next index, the kernel's
  processes, the root context and the exit status map to them.
* `SyncProtocol`: per connection two streams of whole lines; `down` has the
  capacity of a socket buffer. `handler` is `serveClient`, `worker`/`coord` are
  `Connect`'s reader and the coordinator. A write fails at once on a closed
  connection and after its deadline on a full one. `owed` is a history: the
  beats written to a worker that it has neither taken nor dropped. `Close` takes
  two steps per connection, the write of BYE (the connection is then `farewell`)
  and the close.
* `Workload`: a call is a pair of the primitive's name and a generation, 0 for
  the steady state and `b` for the b-th burst; a goroutine is a call and a
  number; `loc` is where it is. `acceptor` is a loopback call's listener and its
  accept goroutine, either of which may go before the other; a connection has
  both ends' states and the bytes on their way. `file` is by number only, as the
  name in `/dev/shm` has no generation in it.
* `JsonlWriter`: `Emit` is two actions, the check of `closed` (which puts the
  event in `pending`) and the `Send`. A write error of the buffer is sticky.
* `VictimProbe`: a histogram is its count and maximum. Recording a value takes
  two steps (the run's histogram, then the second's) because the row goroutine
  may come between them.
* `Observer`: the kernel's counters without a limit, and readings modulo
  `Limit`, which stands for 2^64. All eight counters of the `cpu` line are read
  and summed; `Moving` says which of them move in an instance.
* `CPUList`: a text is the sequence of its comma-separated parts, classified the
  way the parser does. The history variable `meant` is the set the list should
  stand for, `call` says whether the list is at rest, in `String` or in
  `ParseCPUList`.

## 3. Runs

| Run | Instance | Shows |
|---|---|---|
| `planner` | 6 isolated CPUs, every mix of class and explicit cpuset for two components and the victim, five topologies, invalid profiles | the planner's guarantees and, for profiles without explicit cpusets, that it refuses exactly what does not fit |
| `host` | victim and 2 workers, 4 CPUs online and one offline, 14 hosts, 4 plans, 2 runs | a verified run is confined, its memory limits are in force, and under RT its isolation is the kernel's |
| `launcher` | 3 children, any subset ignores SIGTERM | refinement of `Supervisor`, complete results, a grace for every child of an undisturbed run, and termination |
| `sync` | 2 workers, one may stall and one may end, channel 1, socket 2, 2 triggers | every beat accounted for and handled, `Trigger` and `Close` return, the gone are forgotten |
| `worker` | 1 sampler, coordinator, channel 2, buffer 1, 3 events | order, loss reporting, no emit after close, exit on cancel |
| `workload` | up to 2 goroutines per call, up to 2 bursts, eight profiles, one primitive each | a call that has returned is quiet, no file stays behind in a worker that is not killed, every call and burst ends |
| `victim_probe` | period 1, second 3, time 7 | no value lost between histograms, no stall hidden or repeated |
| `observer` | 3 of the 8 counters move, limit 4, time 6 | rows tile the run and are true through wrap-around and failed reads |
| `cpulist` | 6 CPUs, texts of 2 parts | lists are sets, String and both parsers agree |

Three more runs exhibit disagreements between the code and what its documents or
comments say; TLC finds the behaviour:

| Run | Statement | What the code does |
|---|---|---|
| `launcher_hangs` | README.md 68: grace, then SIGKILL | one `time.After` value for all goroutines: a second stubborn child is never killed and `terminate` never returns |
| `sync_panic` | sync.go 131: Close stops accepting clients | a registration after the map was set to nil panics |
| `host_stale_limit` | plan.go 34: MemoryMax 0 is unlimited | a cgroup left by an earlier run keeps its limit when the next profile sets none: a worker, alone in its unit, that had a limit in the first run and has none in the second |

### What the less obvious properties say

* `VerifiedMeansConfined`, `MemoryIsCapped`: `VerifyAll` reads one line of
  `/proc` per process, and never a memory limit. Both hold all the same, for
  every way the backend, the wrappers, the leftovers of an earlier run and the
  offline CPUs combine. The first has one exception (`Seen`): a victim whose
  shell could not join its cgroup. Its `pinSelf` sets the affinity of the main
  thread, which is the thread that is verified; its other threads are anywhere.
  Without the exception TLC shows that run. The second needs none, as BuildPlan
  never gives the victim a limit.
* `IsolationIsReal` composes preflight, plan and applier: on a realtime profile
  a verified exclusive victim is on CPUs that the kernel was booted to keep
  free, provided `isolcpus` could be parsed.
* `Supervises` is refinement: no child is started once the launcher was told to
  stop, and it ends only after all children of a completed spawn loop.
* `ReturnedMeansQuiet`, `BurstLeavesNothing`: `RunAlloc` and the loopback
  handlers are not waited for, so what is over when a call returns differs from
  call to call; what is left must end by itself.
* `EveryBeatHandled`: a beat that was written to a worker that runs becomes a
  burst or a counted miss, also when the launcher hangs up right behind it. The
  exception is a beat behind BYE: `Trigger` writes, without the lock, to the
  connections it listed earlier, so it may write between `Close`'s BYE and its
  close of the connection, and the worker's reader has returned on BYE. Such a
  beat is no longer owed once the reader returns; with it TLC finds the property
  violated.
* `GraceIsGiven`: cancelling the root context kills all children at once, as they
  are started with `exec.CommandContext`. In a run that no signal and no failed
  verification cuts short nobody is killed but by `terminate`, after SIGTERM and
  the grace.
* `StallIsRecorded` relates each value the jitter loop records to the time since
  its last wake-up, whatever the loop has recorded or skipped before: no less
  than that time but for one period, no more than it by more than the skip limit.

### Bounds

* Three children in the launcher, an observer, a victim and a worker: its
  properties relate one child to main, or two waiters that compete for the one
  deadline value, and the third is there to exit, fail or be waited for
  meanwhile. `launcher_hangs` needs two.
* Two workers in `sync`, because connections interact only through `Trigger`'s
  and `Close`'s loops; a channel of one and
  two triggers, with tokens and BYE in a socket of two, fill both. The socket is
  not smaller, so that a beat still fits behind BYE. `Enders` and `Stallers` say which workers
  may end or stall: one each, so that either is seen next to a healthy one.
* `host`: `MaxRuns` = 2, since a run reads of its past only what the last writer
  of a cgroup left and which processes are still there. Three children: two
  workers may have one unit name, and the victim is neither. The hosts include
  each backend alone and together, each partial delegation of controllers that
  changes `PrepareHost`, and each failing preflight check.
* `workload`: `MaxN` = 2 goroutines of a call, which is one pair on each channel,
  two contenders for the mutex, and two clients of a listener. `MaxBursts` = 2
  lets the second start while the first's goroutines are still going, for the
  alloc and fsync profiles; loopback servers, which share nothing across calls,
  get one burst beside the steady state (the profile's `bursts`). A profile
  loads one primitive, as calls of different primitives share nothing either.
* `host`'s plans include an explicit cpuset that holds every CPU online: a worker
  that has not joined its cgroup is then where it may be, so it passes the
  verification without its limit. `MemoryIsCapped` speaks only of cpusets that
  leave a CPU out, which a carved one does as the reserved pool is not empty.
* `MaxEvents`, `MaxTime`, `MaxTriggers`, `MaxParts` bound counters in the guards
  of the actions that count. With `Limit = 4` and six ticks the observer's
  counters wrap; six CPUs give lists with two gaps; a victim's time of seven is
  two rows and a pause beyond both the skip limit and the histogram's range.
* All runs say `CHECK_DEADLOCK FALSE`: programs end.

### Fairness

Weak fairness of each goroutine's steps (Go's scheduler), of timers, and of the
kernel's delivery of SIGKILL. `Launcher`: a child exits after SIGTERM only if it
is not in `stubborn`; nothing makes it exit earlier. `SyncProtocol`: a worker in
`stalled` need not take a step. `Worker`, `Workload`: strong fairness of a
goroutine's noticing that its context is done, because a Go `select` with
several ready cases chooses among them at random, and a tick or a token may be
ready each time. `Workload`: weak fairness of the end of a goroutine's blocking
call once its cause is there; nothing makes a context end or a burst start.
`Host` states no fairness and has no liveness property: its children may be as
slow as they like. Nobody has to interrupt, cancel, trigger or kill. A disk may
stay bad for ever.

## 4. Proofs

`tlapm` checks eight modules, for all values of the constants under the named
assumptions of the modules they extend. Those say what the code itself
guarantees or needs: CPU numbers are natural, capacities at least one, names
distinct, a list of children without repetition; one of them is discussed with
`Host`. Every inductive invariant was first checked by TLC as an invariant of
the run of its component.

**PlannerProofs.** The properties speak of plans that are returned, and
BuildPlan's last check compares CPU sets only; what a set means depends on how
it was assigned. The inductive invariant `IndInv` therefore has two layers:

* `BaseInv`: types, the profile is valid after step 0, and the overrides taken
  so far with what is left of the isolated pool partition it (`OverrideInv`).
* `PlanInv`: the plan is as long as the loop has come, every assignment is
  described by its class and source (`WorkerInv`, `SyntheticInv`), the carved
  slices and the free list partition the workload pool
  (`CarvesPartitionPool`), and an accepted plan passed the overlap check.

From it: `OverridesAreReserved`, `CarvesPartition`, `VictimIsIsolated`,
`ExclusiveIsAlone`, `PoolsAreRespected`, and `WholePoolExcludes`, a corollary
that no run checks separately.

`AcceptsWhatFits` (property `AcceptsExactlyWhatFits`) is the converse: BuildPlan
refuses nothing that fits, and a refusal is always for want of CPUs, or because a
best-effort process takes them all. Its invariant `FitInv` says that as long as
the processes planned so far fit, the isolated CPUs nobody uses are
`freeWorkload` and as many as the demands have left; that once they do not fit,
the victim's candidates are empty and stay so; and that the last check never
fails without explicit cpusets. It needs the exact length of a slice
(`FirstNSize`, `LastNSize`, both from one lemma over an arbitrary strict order,
`SliceSize`) and monotone partial sums of the demands.

`LookupIsOwn` (property `LookupFindsOwn`) needs more than the planner: a lookup
by component and replica id finds the assignment of the process that asks only
if the ids of the list are distinct, which is `Flatten`'s doing. Its hypothesis
`PlansTopologies` says that the lists are flattened valid topologies, as
chaos-launcher's are, and `FlattenNumbers` proves what follows for a topology of
any length: replica ids of a component that occurs in several specs go on
counting, with no id given twice. `FlattenNumbers` is an induction over the
specs (see Induction below); that one spec takes exactly the next ids is
`ExpandNumbered`, by counting the processes of a name before and after.

**HostProofs.** A run is `Verified` long after the wrappers, the joins, the
leftovers and the looks that made it so, and processes go on exiting and
pinning themselves between the look and the end of the verification. `Inv`:

* `Progress`: how far the program is, that required preflight checks passed, and
  that the backend is the one the host admits. A host has one backend in all
  runs (`OneCandidate`), so an earlier run's processes obey the same rules.
* `Processes`: where a wrapper is, where each backend has put a process that
  runs, and who may be pinned; `NotYet`: what is not spawned does not exist.
* `Written`: what the cgroup backend has written for the children spawned so
  far, except where two workers share a unit name.
* `Looked`: a process that was looked at and not found outside is gone, or
  confined, or the one victim the look cannot judge (`Passed`). That this stays
  so until the run is up is the heart of the proof (`PassedStable`): an affinity
  only shrinks, and a group is only written by a run that is being spawned.

From it `ConfinedOnceVerified`, `CappedOnceVerified` and `IsolatedOnceVerified`.
`PlanAssumption` asks of the plans that an exclusive cpuset is isolated, part of
what `VictimIsIsolated` and `PoolsAreRespected` prove of BuildPlan's, and that the
victim has no memory limit, which BuildPlan never sets (plan.go 255-261).
`ConfinedOnceVerified` and `IsolatedOnceVerified` have the exception `Seen`,
without which they are false (section 3).

**LauncherProofs.** `Inv` relates main's position to the children: who was
spawned (`SpawnOrder`), that a closed done channel means a process that is gone
(`DoneMeansGone`), that main passes `wg.Wait` only with every waiter finished
(`WaitersWait`), that `os.Exit` comes once (`ExitOnce`), and that nobody is killed
before SIGTERM and the grace unless the context is cancelled, which only a
signal or a failed verification does (`Grace`). It yields `ResultsAreComplete`
and `GraceIsKept`. `LauncherSupervises` is
refinement: initial states map to initial states, and each action, of main or of
any goroutine, to a step of `Supervisor` or to a stutter (lemmas
`SpawnPromise` to `StutterPromise`). It states `Supervisor!SafeSpec`; the
fairness of `Supervisor!Spec` is left to the run, which checks `Supervises`.

**SyncProtocolProofs.** `BeatsAccounted` follows from a balance: what is written
to a worker equals what is under way, waits in its channel, was taken or dropped, as
long as its reader reads, and exceeds it afterwards (`Accounted`). Counting lines
in a stream needs lemmas on `Append` and `Tail` (`BeatsAppend`, `BeatsTail`);
that nothing is counted twice needs that `Trigger` visits a connection once per
call (`OncePerCall`) and that a worker registers once (`NotRegistered`).

**WorkerProofs.** `EmitsComeBeforeClose` needs that no goroutine emits once main
is past the join: `Discipline` says where each goroutine may be for each
position of main. `LossIsReported` and `OrderIsKept` follow from `Lossless`:
until a write fails, file, buffer and channel concatenate to the accepted
events, the file is always a prefix of them, and a failed write leaves the
sticky error that `Close` returns. `BurstsArePaired` adds the invariant `Bursts`
over the accepted events: they alternate, and whether they end inside a burst is
told by where the coordinator is and what it is about to emit. It ends with the
first event dropped, as the property does.

**WorkloadProofs.** `Inv` says that a burst has nothing before it starts
(`Fresh`), what a returned call and its listener may have left (`Ended`), what
a client's place in its loop says of its connection (`Connected`), and
`FilesRemoved`. From it `ReturnedIsQuiet` and `FilesAreRemoved`, for
any number of goroutines, bursts and loads.

**VictimProbeProofs.** `EveryValueIsInOneRow` comes from a balance between
histogram, bucket, rows and what is on its way (`Conserved`), with the sum over
any number of rows (`ValuesAppend`). `StallsAreRecorded` is an action property:
the value of a wake-up covers the whole pause but for one period, and exceeds it
by the skip limit at the most. It needs to know that the next deadline is at most
a period after the last wake-up and no further before it than the skip limit
(`Deadline`) and that the final snapshot is the loop's last step
(`SnapshotIsLast`).

**CPU lists** (the last part of `PlannerProofs`). `Planner` works with sets where
the code has sorted slices of integers. `ListsImplementSets` says that it may:
on the lists of two sets, `Intersect`, `Difference`, `Union` and `Take` return
the lists of the sets that `Planner` computes, `FirstN` among them, and a slice
from the end of a list is that of `LastN`. `ListOf`
relates a list to its set by order and range, and a set has one list
(`ListIsInts`, by counting what lies before an element) and no finite set is
without one (`IntsIsList`); with that `sort.Ints` changes nothing on a list, and
keeping or cutting out some of its elements leaves a list.

`ListsAreSets` and `VictimReadsTheList` (properties `ListIsSet`,
`VictimReadsTheSame`) add the text, for hosts of any size and texts of any
length. `ListInv` says for `String` that the text so far, read by either parser,
and the range being built make up the list so far (`ListRender`), and for
`ParseCPUList` that `seen` is what the parts so far stand for, and that a text
made by `String` is still what the victim's parser makes the list of
(`ListParse`). That parser is a recursion over the parts; `ParseAppend` says what
it does with one part more.

**ObserverProofs.** The code subtracts, adds and compares 64-bit counters that
wrap around. The arithmetic solver knows remainders by literal divisors only, so
the module first derives, for any positive `Limit`, that a remainder is
determined by its range up to multiples (`RemainderUnique`), and from it that
differences and sums of readings are readings of the differences and sums
(`MinusOfReadings`, `PlusOfReadings`). `Inv` says that `prev` is the reading of
the counters as they were at its time (`PrevIsReading`), and that nothing is
counted before the first good reading (`NothingYet`). `RowsTile` (property
`IntervalsTile`) is part of the induction; `RowsAreTrue` (property `RowIsTrue`)
follows for each step: as long as no counter goes backwards and less than `Limit`
is counted between two readings, the difference of the readings is the time
counted (`GrownIsGrowth`), and the shares add up to the total.

**Induction.** The proofs about lists need it. It is stated with sets in the
place of predicates: a set of naturals with 0 and with the successor of each of
its elements is `Nat` (from the least element of a nonempty set), and a recursion
whose steps are given as functions has a solution (`RecursiveFunction`). With it,
`Flatten`, the planner's `PartialSums` and the victim's `parseCPUSet`, which are
recursive functions, are shown to satisfy their own equations. The number of
values in the rows of the victim's file is stated without recursion, as the
cardinality of the set of values (`Recorded`).

Only model-checked:

* Liveness: `Supervises` with its fairness, `AbortEnds`, `TerminateReturns`,
  `ComesDown`, `CallsReturn`, `EveryBeatHandled`, `GoneAreForgotten`,
  `CancelEnds`, `RunsReturn`, `BurstLeavesNothing`. The prover does not treat it.

Every safety invariant and every action property that a passing run checks is
stated by a theorem.

## 5. Differences found that have no run

Planning:

* docs/STRUCTURE.md 52-55 and main.go 351-352 have the workers on CPUs off the
  victim's; a victim whose class is not exclusive shares CPUs with them in an
  accepted plan (plan.go 266).
* When explicit exclusive cpusets use up the isolated pool, burstable and
  best-effort processes get the empty cpuset, which the appliers take for no
  pinning (plan.go 210, 226); the verification then fails.
* `WorkloadCPUs` (plan.go 51) still contains the CPUs of a victim that was
  placed by default, and is printed so; explicit `cpus` (profile.go 139) of a
  reserved or best-effort component are ignored.

Preflight, appliers, verification:

* docs/SETUP.md 240-242 and docs/TUNING.md 149-157 say that preflight rejects a
  running irqbalance; the check is not required and stops nothing.
* TUNING.md's refusal of an `isolcpus` mismatch holds for realtime profiles
  only, and not for a value with two tags, which cannot be parsed.
* applier.go 19-20 and applier_taskset.go 15 say that taskset ignores MemoryMax
  with a warning; `Wrap` returns an error, which ends the launcher.
* main.go 180 verifies "every Assignment": a child that did not start, whose
  `/proc` entry is gone, or whose unit name was taken passes (verify.go 41-45),
  and so does a victim outside its cgroup (section 3).
* The environment of victim and observer is reduced to GOMAXPROCS: `cmd.Env` is
  nil when `appendOrReplaceEnv` extends it.
* `CleanupHost` has no caller.

Launcher, sync, worker:

* `rootCancel` makes `exec.CommandContext` SIGKILL every child at once on a
  signal or a failed verification (chaos-launcher/main.go 155, 212), before
  SIGTERM and its grace.
* main.go 105-106 says "any failure aborts the run"; a `Wrap` error in the spawn
  loop (334) exits and leaves the children spawned before it running. The next
  run meets them in `Host`; `Supervisor` has the hole as `GiveUp`.
* "Slow or stalled clients are dropped" (sync.go 112-113): they are kept and
  tried again on each trigger. A cancelled context is noticed by `Connect`'s
  reader only at its next line.
* `Close` overlapping a `Trigger` may lose a beat to a worker that runs
  (sync.go 124, 141; section 3).
* chaos-worker/main.go 389-392 has the burst's goroutines exit when its window
  closes; `reconcile_end` may be written before the alloc goroutines and the
  loopback handlers have.
* The steady state and a burst may both run the fsync load; number `i` of either
  opens, truncates and removes the same `chaos-fsync-<pid>-<i>`.
* The shutdown event ("Once at exit", docs/OUTPUTS.md 48) is dropped like any
  other when the channel is full. The comment "append-create" (jsonl.go 30)
  stands over `O_TRUNC`.

Measuring:

* A jitter of more than 10 s is recorded in neither histogram, and the last,
  incomplete second is in `victim.hdr` but in no row.
* When the kernel takes iowait back, one row of the observer has shares outside
  0..100 (unsigned subtraction, chaos-observer/main.go 213-218).
* The branch for a negative first CPU of a range (cpulist.go 46-48) cannot be
  reached: the text before the first dash has no sign.

## 6. Running

    tlc -config MCHost.cfg MCHost
    tlc -config LauncherHangs.cfg MCLauncher
    tlapm PlannerProofs.tla

and likewise for the other configurations, whose modules `PROJECT.json` names.

## 7. Not modelled

* Worker profiles (`pkg/profile`): a table of constants; its shapes are
  `Workload`'s `Loads`.
* Run configuration and runtime information: decoding, and reads of `/proc` for
  one event's fields; a failure is the launcher's setup failing.
* chaos-tuned other than `apply`: it prints what `Preflight`, `Planner` and
  `Host` define and changes nothing.
* Of the appliers: environment, stdio, NUMA binding, and
  `cpuset.cpus.exclusive`, which concerns cpuset partitions that nobody makes.
* Of the profile: hugepages, NUMA policy, offlined and shared CPUs as they are
  decoded and checked one by one; preflight's use of them is in `Preflight`.
* Rates, sizes and payloads of the load primitives; the aggregator and the
  matrix script (offline statistics, and a loop).
* Quantiles, formatting, the YAML decoders, the observer's columns that are
  plain reads.
* Errors of writing a CSV row, which the observer and the victim ignore; an error
  of the scanner inside `readStat`, which the code does not ask for; a write
  of the JSONL buffer that fails half-way and leaves part of it, or half a line,
  in the file (`FlushTo`): the model writes the buffer whole or not at all.
* In `Host` a cgroup gets its cpuset and its memory limit in one step. The
  wrapper is started after both writes; a process that an earlier run left in the
  cgroup may have the one without the other for a moment, of which no property
  speaks.

## 8. Plan

Done: sections 2 to 4. What could follow:

1. `LookupIsOwn` and `FlattenNumbers` carried on to the launcher: the assignment
   a child is wrapped with is its own, as a property of one composed module.
2. The worker profiles as a constant of `Workload` with all their rates, once a
   property depends on them (section 7).
