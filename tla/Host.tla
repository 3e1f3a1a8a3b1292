-------------------------------- MODULE Host --------------------------------
(***************************************************************************)
(* What a tuned run does to its host: preflight, the choice of an applier, *)
(* its PrepareHost, Wrap for every child, the children's way into their    *)
(* cpusets, and VerifyAll.  Several runs follow one another on one host,   *)
(* and what a run leaves behind (cgroups, the children of a launcher that  *)
(* gave up while spawning) meets the next.  chaos-tuned apply is the same  *)
(* up to PrepareHost.                                                      *)
(*                                                                         *)
(* The plan of a run is one that BuildPlan has returned (Planner), and how *)
(* its children come down is Launcher's subject.  The kernel and systemd   *)
(* are modelled as far as the appliers rely on them.  cpuset.cpus.exclusive*)
(* is left out: it reserves CPUs for cpuset partitions, and nobody makes   *)
(* one.  So is the NUMA binding, which no plan asks for.                   *)
(***************************************************************************)
EXTENDS Preflight

CONSTANTS
  Order,     \* the children in spawn order
  PlanOrder, \* the children in the order of plan.Assignments
  Victim,    \* the child that is chaos-victim
  Online,    \* the CPUs that are online
  Plans,     \* the plans a run may have
  Hosts,     \* the hosts
  Units,     \* the ways the children's scopeUnitName may be chosen
  MaxRuns    \* bound on the number of runs

Child == {Order[i] : i \in DOMAIN Order}
Run == 1..MaxRuns

Backends == {"systemd-run", "cgroup-v2", "taskset"}

\* A process outside every unit's cgroup.
NoGroup == "none"

ASSUME ChildAssumption ==
  /\ Order \in Seq(Child) /\ PlanOrder \in Seq(Child)
  /\ \A i, j \in DOMAIN Order : Order[i] = Order[j] => i = j
  /\ \A c \in Child : \E i \in DOMAIN PlanOrder : PlanOrder[i] = c
  /\ Victim \in Child
ASSUME RunAssumption == MaxRuns \in Nat
ASSUME OnlineAssumption == Online # {}
ASSUME HostAssumption == \A h \in Hosts : h.available \subseteq Backends

\* A worker's unit name ends with its number: it is not the victim's.
ASSUME UnitAssumption ==
  \A u \in Units : \A c \in Child :
    u[c] # NoGroup /\ (c # Victim => u[c] # u[Victim])

\* An exclusive cpuset is isolated: BuildPlan's promise (PlannerProofs).  It sets
\* no MemoryMax for the victim (plan.go 255-261).
ASSUME PlanAssumption ==
  \A p \in Plans :
    /\ p.profile.rt \in BOOLEAN
    /\ p.want[Victim].mem = 0
    /\ \A c \in Child :
         /\ p.want[c].mem \in Nat
         /\ p.want[c].exclusive => p.want[c].cpus \subseteq p.profile.isolated

VARIABLES
  host,      \* the host
  unit,      \* per child: scopeUnitName, which may map two workers to one name
  run,       \* the number of the run
  plan,      \* per run so far: its plan
  tool,      \* the program of this run
  pc,        \* where it is
  backend,   \* the applier chosen, the same in every run on a host
  next,      \* the index in Order of the next child to spawn
  read,      \* how many children VerifyAll has looked at
  failed,    \* the children it found outside their cpuset
  slice,     \* chaos.slice: "none", "bare" or "delegating" its controllers
  group,     \* per unit name: what its cgroup was last given
  proc       \* per run and child: the operating system's process

vars == <<host, unit, run, plan, tool, pc, backend, next, read, failed, slice, group, proc>>

NewGroup == [cpus |-> {}, mem |-> 0]
NoProc == [state |-> "none", group |-> NoGroup, affinity |-> Online, pinned |-> FALSE]

UnitNames == {unit[c] : c \in Child}
Cpusets == {p.want[c].cpus : p \in Plans, c \in Child} \cup {{}}

\* Type invariant.
TypeOK ==
  /\ host \in Hosts /\ unit \in Units
  /\ run \in 0..MaxRuns /\ plan \in Seq(Plans) /\ Len(plan) = run
  /\ tool \in {"chaos-launcher", "chaos-tuned"}
  /\ pc \in {"idle", "preflight", "select", "prepare", "spawn", "verify", "up", "abort"}
  /\ backend \in Backends \cup {"none"}
  /\ next \in 1..(Len(Order) + 1)
  /\ read \in 0..Len(PlanOrder) /\ failed \subseteq Child
  /\ slice \in {"none", "bare", "delegating"}
  /\ group \in [UnitNames -> [cpus : Cpusets, mem : Nat]]
  /\ proc \in [Run -> [Child -> [state : {"none", "wrapper", "running", "gone"},
                                 group : UnitNames \cup {NoGroup},
                                 affinity : SUBSET Online, pinned : BOOLEAN]]]

Init ==
  /\ host \in Hosts /\ unit \in Units
  /\ run = 0 /\ plan = << >>
  /\ tool = "chaos-launcher" /\ pc = "idle" /\ backend = "none"
  /\ next = 1 /\ read = 0 /\ failed = {}
  /\ slice = "none"
  /\ group = [u \in UnitNames |-> NewGroup]
  /\ proc = [r \in Run |-> [c \in Child |-> NoProc]]

-----------------------------------------------------------------------------
(* The kernel *)

Live(r, c) == proc[r][c].state \in {"wrapper", "running"}

\* A cpuset without an online CPU has those of its parent, chaos.slice.
Effective(u) == IF u = NoGroup \/ group[u].cpus \cap Online = {} THEN Online
                                                                 ELSE group[u].cpus \cap Online

\* The CPUs that some thread of a process may run on.
Allowed(r, c) ==
  LET e == Effective(proc[r][c].group) IN
  IF proc[r][c].affinity \cap e = {} THEN e ELSE proc[r][c].affinity \cap e

\* Cpus_allowed_list in /proc/<pid>/status: that of the main thread.
Shown(r, c) == IF proc[r][c].pinned THEN Allowed(r, c) \cap plan[r].want[c].cpus
                                    ELSE Allowed(r, c)

\* The memory limit in force on a process, 0 for none.
Cap(r, c) == IF proc[r][c].group = NoGroup THEN 0 ELSE group[proc[r][c].group].mem

-----------------------------------------------------------------------------
(* A run, up to its children *)

hostVars == <<host, unit>>
runVars == <<run, plan, tool>>
verifyVars == <<read, failed>>

Begin ==
  /\ pc = "idle" /\ run < MaxRuns
  /\ run' = run + 1
  /\ \E p \in Plans : plan' = Append(plan, p)
  /\ tool' \in {"chaos-launcher", "chaos-tuned"}
  /\ pc' = "preflight" /\ next' = 1
  /\ read' = 0 /\ failed' = {}
  /\ proc' = [r \in Run |-> [c \in Child |-> IF Live(r, c) THEN proc[r][c] ELSE NoProc]]
  /\ UNCHANGED <<hostVars, backend, slice, group>>

\* The program exits; the children it has started, if any, go on.
Fatal ==
  /\ pc' = "idle"
  /\ UNCHANGED <<hostVars, runVars, backend, next, verifyVars, slice, group, proc>>

Failures == RequiredFailures(Report(plan[run].profile, host.kernel))

PreflightFails == pc = "preflight" /\ Failures # {} /\ Fatal

PreflightPasses ==
  /\ pc = "preflight" /\ Failures = {}
  /\ pc' = "select"
  /\ UNCHANGED <<hostVars, runVars, backend, next, verifyVars, slice, group, proc>>

\* AutoSelect: the one that was asked for, else the first available one in
\* the order systemd-run, cgroup-v2, taskset.
Candidates ==
  IF host.requested # "" THEN {host.requested} \cap host.available
  ELSE {b \in host.available :
          \/ b = "systemd-run"
          \/ b = "cgroup-v2" /\ "systemd-run" \notin host.available
          \/ b = "taskset" /\ host.available = {"taskset"}}

SelectFails == pc = "select" /\ Candidates = {} /\ Fatal

Select ==
  /\ pc = "select" /\ backend' \in Candidates
  /\ pc' = "prepare"
  /\ UNCHANGED <<hostVars, runVars, next, verifyVars, slice, group, proc>>

\* chaos-tuned stops here; the launcher goes on.
Prepared(s) ==
  /\ slice' = s
  /\ pc' = IF tool = "chaos-tuned" THEN "idle" ELSE "spawn"
  /\ UNCHANGED <<hostVars, runVars, backend, next, verifyVars, group, proc>>

PrepareNothing == pc = "prepare" /\ backend \in {"systemd-run", "taskset"} /\ Prepared(slice)

\* chaos.slice is made and told to delegate cpuset, cpu and memory, which the
\* kernel refuses altogether unless the root delegates all of them.
PrepareCgroup ==
  /\ pc = "prepare" /\ backend = "cgroup-v2"
  /\ {"cpuset", "cpu", "memory"} \subseteq host.root
  /\ Prepared("delegating")

\* It is refused, but the slice itself has a cpuset: taken for "already
\* configured".
PrepareTaken ==
  /\ pc = "prepare" /\ backend = "cgroup-v2"
  /\ ~ {"cpuset", "cpu", "memory"} \subseteq host.root
  /\ "cpuset" \in host.root
  /\ Prepared("bare")

PrepareFails ==
  /\ pc = "prepare" /\ backend = "cgroup-v2"
  /\ "cpuset" \notin host.root
  /\ slice' = "bare"
  /\ pc' = "idle"
  /\ UNCHANGED <<hostVars, runVars, backend, next, verifyVars, group, proc>>

-----------------------------------------------------------------------------
(* Wrap and Start, child by child *)

Want(r, c) == plan[r].want[c]

\* The child about to be spawned, and its assignment.
Cur == Order[next]
CurWant == Want(run, Cur)

Wrapping(b) == pc = "spawn" /\ next <= Len(Order) /\ backend = b

\* cmd.Start: the wrapper runs, with the launcher's CPUs.
Start(g) ==
  /\ group' = g
  /\ proc' = [proc EXCEPT ![run][Cur].state = "wrapper"]
  /\ next' = next + 1
  /\ UNCHANGED <<hostVars, runVars, pc, backend, verifyVars, slice>>

WrapSystemd == Wrapping("systemd-run") /\ Start(group)

\* Mutant: memory.max is written when the cgroup is new only.
WrapCgroupOnce ==
  /\ Wrapping("cgroup-v2")
  /\ slice = "delegating"
  /\ Start([group EXCEPT
              ![unit[Cur]].cpus = IF CurWant.cpus # {} THEN CurWant.cpus ELSE @,
              ![unit[Cur]].mem = IF CurWant.mem > 0 /\ @ = 0 THEN CurWant.mem ELSE @])

\* The unit's cgroup is made, or found: only what the assignment sets is
\* written, the rest stays.
WrapCgroup ==
  /\ Wrapping("cgroup-v2")
  /\ slice = "delegating" \/ (CurWant.cpus = {} /\ CurWant.mem = 0)
  /\ Start([group EXCEPT
              ![unit[Cur]].cpus = IF CurWant.cpus # {} THEN CurWant.cpus ELSE @,
              ![unit[Cur]].mem = IF CurWant.mem > 0 THEN CurWant.mem ELSE @])

\* Its cgroup has no such files: the writes fail.
WrapCgroupFails ==
  /\ Wrapping("cgroup-v2")
  /\ slice = "bare" /\ (CurWant.cpus # {} \/ CurWant.mem > 0)
  /\ Fatal

TasksetRefuses == CurWant.mem > 0 \/ (CurWant.rt /\ ~host.chrt)

WrapTaskset == Wrapping("taskset") /\ ~TasksetRefuses /\ Start(group)

WrapTasksetFails == Wrapping("taskset") /\ TasksetRefuses /\ Fatal

SpawnsDone ==
  /\ pc = "spawn" /\ next = Len(Order) + 1
  /\ pc' = "verify"
  /\ UNCHANGED <<hostVars, runVars, backend, next, verifyVars, slice, group, proc>>

-----------------------------------------------------------------------------
(* The children.  Each may be as slow as it likes, and outlive its run. *)

Become(r, c, p) ==
  /\ proc' = [proc EXCEPT ![r][c] = p]
  /\ UNCHANGED <<hostVars, runVars, pc, backend, next, verifyVars, slice>>

At(r, c, b) == proc[r][c].state = "wrapper" /\ backend = b

\* systemd-run: the scope is made for the process alone, with the properties
\* it was given and no others.
EnterScope(r, c) ==
  /\ At(r, c, "systemd-run")
  /\ \A q \in Run, d \in Child : ~(Live(q, d) /\ proc[q][d].group = unit[c])
  /\ group' = [group EXCEPT ![unit[c]] = [cpus |-> Want(r, c).cpus, mem |-> Want(r, c).mem]]
  /\ Become(r, c, [NoProc EXCEPT !.state = "running", !.group = unit[c]])

\* The unit exists: systemd-run gives up, the child never starts.
ScopeTaken(r, c) ==
  /\ At(r, c, "systemd-run")
  /\ \E q \in Run, d \in Child : Live(q, d) /\ proc[q][d].group = unit[c]
  /\ UNCHANGED group
  /\ Become(r, c, [proc[r][c] EXCEPT !.state = "gone"])

\* The shell writes its pid to cgroup.procs and execs the child, whether or
\* not the write succeeded.
EnterCgroup(r, c) ==
  /\ At(r, c, "cgroup-v2")
  /\ \E g \in {unit[c], NoGroup} :
       Become(r, c, [NoProc EXCEPT !.state = "running", !.group = g])
  /\ UNCHANGED group

\* Mutant: the kernel takes CPUs that are offline.
EnterTasksetOffline(r, c) ==
  /\ At(r, c, "taskset")
  /\ Become(r, c, [proc[r][c] EXCEPT !.state = "running",
                    !.affinity = IF Want(r, c).cpus = {} THEN @ ELSE Want(r, c).cpus])
  /\ UNCHANGED group

\* taskset sets the affinity and execs the child; it gives up when none of the
\* CPUs is online.  An assignment without CPUs is not wrapped.
EnterTaskset(r, c) ==
  /\ At(r, c, "taskset")
  /\ LET cpus == Want(r, c).cpus IN
     IF cpus # {} /\ cpus \cap Online = {}
     THEN Become(r, c, [proc[r][c] EXCEPT !.state = "gone"])
     ELSE Become(r, c, [proc[r][c] EXCEPT !.state = "running",
                          !.affinity = IF cpus = {} THEN @ ELSE cpus \cap Online])
  /\ UNCHANGED group

\* The victim sets its own affinity to the planned CPUs, of the thread it
\* happens to be on; an error is not fatal.
PinSelf(r) ==
  /\ proc[r][Victim].state = "running" /\ ~proc[r][Victim].pinned
  /\ Want(r, Victim).cpus \cap Allowed(r, Victim) # {}
  /\ Become(r, Victim, [proc[r][Victim] EXCEPT !.pinned = TRUE])
  /\ UNCHANGED group

\* The child ends, whatever the reason.  Nobody looks at one whose launcher is
\* gone any more.
Leave(r, c) ==
  /\ Live(r, c)
  /\ Become(r, c, IF r = run THEN [proc[r][c] EXCEPT !.state = "gone"] ELSE NoProc)
  /\ UNCHANGED group

-----------------------------------------------------------------------------
(* VerifyAll, and the end of the run *)

\* Mutant: it is enough that the process can run on a planned CPU.
OutsideDisjoint(c) == Shown(run, c) \cap Want(run, c).cpus = {}

\* VerifyPID: Cpus_allowed_list exceeds the planned cpuset.
Outside(c) == ~ Shown(run, c) \subseteq Want(run, c).cpus

\* A child without a process is skipped; one that has exited may still have its
\* /proc entry.
VerifyOne ==
  /\ pc = "verify" /\ read < Len(PlanOrder)
  /\ read' = read + 1
  /\ LET c == PlanOrder[read + 1] IN
     \/ ~(Live(run, c) /\ Outside(c)) /\ UNCHANGED failed
     \/ Outside(c) /\ failed' = failed \cup {c}
  /\ UNCHANGED <<hostVars, runVars, pc, backend, next, slice, group, proc>>

VerifyDone ==
  /\ pc = "verify" /\ read = Len(PlanOrder)
  /\ pc' = IF failed = {} THEN "up" ELSE "abort"
  /\ UNCHANGED <<hostVars, runVars, backend, next, verifyVars, slice, group, proc>>

\* terminate has returned (Launcher): the children of this run are gone.  The
\* cgroups stay, nobody calls CleanupHost.
End ==
  /\ pc \in {"up", "abort"}
  /\ \A c \in Child : ~Live(run, c)
  /\ Fatal

Next ==
  \/ Begin \/ PreflightFails \/ PreflightPasses \/ SelectFails \/ Select
  \/ PrepareNothing \/ PrepareCgroup \/ PrepareTaken \/ PrepareFails
  \/ WrapSystemd \/ WrapCgroup \/ WrapCgroupFails \/ WrapTaskset \/ WrapTasksetFails
  \/ SpawnsDone
  \/ VerifyOne \/ VerifyDone \/ End
  \/ \E r \in Run, c \in Child :
       EnterScope(r, c) \/ ScopeTaken(r, c) \/ EnterCgroup(r, c) \/ EnterTaskset(r, c)
       \/ PinSelf(r) \/ Leave(r, c)

Spec == Init /\ [][Next]_vars

-----------------------------------------------------------------------------
(* Properties *)

Verified == pc = "up"

\* What VerifyPID can see: not that a victim has failed to join its cgroup, as
\* it looks at the main thread only and the victim pins that one itself.
Seen(c) == ~(c = Victim /\ backend = "cgroup-v2" /\ proc[run][c].group = NoGroup)

\* A run that goes on after VerifyAll has no process, as far as it can be seen,
\* on a CPU outside its planned cpuset: however its wrappers, joins that fail,
\* cgroups left by earlier runs, unit names that two workers share, CPUs that
\* are offline and assignments without CPUs come together (launcher main.go
\* 180-216).
VerifiedMeansConfined ==
  Verified => \A c \in Child :
    (Live(run, c) /\ Seen(c)) => Allowed(run, c) \subseteq Want(run, c).cpus

Alone(c) == \A d \in Child \ {c} : unit[d] # unit[c]

\* VerifyAll reads cpusets only, and yet a verified process whose profile limits
\* its memory has that very limit, unless another worker has its unit name: a
\* wrapper that has not joined its cgroup is outside its cpuset as well, if the
\* cpuset leaves a CPU out, which every one that is carved does.  Only the victim
\* could hide that (Seen), and it never has a limit.
MemoryIsCapped ==
  Verified => \A c \in Child :
    (/\ Live(run, c) /\ Alone(c)
     /\ Want(run, c).mem > 0 /\ ~(Online \subseteq Want(run, c).cpus)) =>
      Cap(run, c) = Want(run, c).mem

\* Preflight, the planner and the applier together: on a realtime host a
\* verified victim of the exclusive class runs only on CPUs that the kernel
\* keeps other tasks off, provided preflight could read isolcpus at all: a
\* value it cannot parse is reported and does not abort (preflight.go 87-113).
IsolationIsReal ==
  LET p == plan[run].profile  isolcpus == host.kernel.args["isolcpus"] IN
  (Verified /\ p.rt /\ Live(run, Victim) /\ Want(run, Victim).exclusive) =>
    /\ host.kernel.rt
    /\ \A key \in Keys : host.kernel.args[key] # Absent
    /\ (Parses(StripTag(isolcpus)) /\ Seen(Victim)) =>
         Allowed(run, Victim) \subseteq isolcpus.cpus

-----------------------------------------------------------------------------
(* A statement of the source's comments that the code does not keep *)

\* plan.go 34: "cgroup memory.max in bytes; 0 = unlimited".
ZeroMeansUnlimited ==
  Verified => \A c \in Child :
    (Live(run, c) /\ Alone(c) /\ Want(run, c).mem = 0) => Cap(run, c) = 0
=============================================================================
