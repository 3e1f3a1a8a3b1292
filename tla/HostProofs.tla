----------------------------- MODULE HostProofs -----------------------------
(***************************************************************************)
(* Proofs about Host, for every number of children and runs, every plan    *)
(* and every host: a run that goes on after VerifyAll is confined, has its *)
(* memory limits, and on a realtime host has the isolation that the kernel *)
(* was booted with.                                                        *)
(***************************************************************************)
EXTENDS Host, SequenceTheorems, TLAPS

-----------------------------------------------------------------------------
(* The inductive invariant *)

\* How far the program is, what that leaves to do, and that preflight and the
\* choice of the backend lie behind it.
Progress ==
  /\ pc # "idle" => run \in Run
  /\ pc \in {"preflight", "select", "prepare"} => next = 1
  /\ pc \in {"preflight", "select", "prepare", "spawn"} => read = 0
  /\ pc \in {"verify", "up", "abort"} => next = Len(Order) + 1
  /\ pc \notin {"idle", "preflight"} => Failures = {}
  /\ pc \in {"prepare", "spawn", "verify", "up", "abort"} => backend # "none"
  /\ backend # "none" => backend \in Candidates

\* Where each backend has put a process that runs.
Placed(r, c) ==
  LET p == proc[r][c] IN
  /\ p.group \in {unit[c], NoGroup}
  /\ backend = "systemd-run" =>
       /\ p.group = unit[c] /\ p.affinity = Online
       /\ group[unit[c]] = [cpus |-> Want(r, c).cpus, mem |-> Want(r, c).mem]
  /\ backend = "cgroup-v2" => p.affinity = Online
  /\ backend = "taskset" =>
       /\ p.group = NoGroup
       /\ p.affinity = IF Want(r, c).cpus = {} THEN Online ELSE Want(r, c).cpus \cap Online
       /\ p.affinity # {}

\* A process exists in a run that has come to it, has the launcher's CPUs as
\* long as it is a wrapper, and its backend's when it runs.
Process(r, c) ==
  LET p == proc[r][c] IN
  /\ p.state # "none" => r <= run /\ backend # "none"
  /\ p.state = "none" => p = NoProc
  /\ p.state = "wrapper" => p.group = NoGroup /\ p.affinity = Online /\ ~p.pinned
  /\ p.state = "running" => Placed(r, c)
  /\ p.pinned => /\ c = Victim
                 /\ p.state = "running" => Want(r, c).cpus \cap Online # {}

Processes == \A r \in Run, c \in Child : Process(r, c)

\* A run has no process before it has spawned it.
NotYet ==
  pc # "idle" => \A i \in 1..Len(Order) : i >= next => proc[run][Order[i]] = NoProc

\* What the cgroup backend has written for the children spawned so far, and
\* what the taskset backend has accepted.
Written ==
  pc \in {"spawn", "verify", "up", "abort"} =>
    \A i \in 1..Len(Order) : i < next =>
      LET c == Order[i]  want == Want(run, c) IN
      /\ (backend = "cgroup-v2" /\ Alone(c)) =>
           /\ want.cpus # {} => group[unit[c]].cpus = want.cpus
           /\ want.mem > 0 => group[unit[c]].mem = want.mem
      /\ backend = "taskset" => ~(want.mem > 0)

\* What a look at a process that was not found outside is worth later on.
Passed(c) ==
  \/ ~Live(run, c)
  \/ Allowed(run, c) \subseteq Want(run, c).cpus
  \/ c = Victim /\ backend = "cgroup-v2" /\ proc[run][c].state = "running" /\ ~Seen(c)

Looked ==
  /\ pc \in {"verify", "up"} =>
       \A i \in 1..Len(PlanOrder) : (i <= read /\ PlanOrder[i] \notin failed) => Passed(PlanOrder[i])
  /\ pc = "up" => read = Len(PlanOrder) /\ failed = {}

Inv == TypeOK /\ Progress /\ Processes /\ NotYet /\ Written /\ Looked

-----------------------------------------------------------------------------
(* Constants, and the choice of the backend *)

\* The launcher's spawn order lists every child exactly once.
LEMMA OrderFacts ==
  /\ DOMAIN Order = 1..Len(Order) /\ Len(Order) \in Nat
  /\ \A i \in 1..Len(Order) : Order[i] \in Child
  /\ \A c \in Child : \E i \in 1..Len(Order) : c = Order[i]
  /\ \A i, j \in 1..Len(Order) : Order[i] = Order[j] => i = j
BY ChildAssumption DEF Child

\* The order of the verification has every child in it.
LEMMA PlanOrderFacts ==
  /\ Len(PlanOrder) \in Nat
  /\ \A i \in 1..Len(PlanOrder) : PlanOrder[i] \in Child
  /\ \A c \in Child : \E i \in 1..Len(PlanOrder) : c = PlanOrder[i]
BY ChildAssumption

\* AutoSelect has no choice: a host has one backend, in every run.
LEMMA OneCandidate ==
  ASSUME NEW a \in Candidates, NEW b \in Candidates
  PROVE  a = b
BY DEF Candidates

\* A backend that AutoSelect may choose is one of the three.
LEMMA CandidateType ==
  ASSUME TypeOK, NEW b \in Candidates
  PROVE  b \in Backends
BY HostAssumption DEF TypeOK, Candidates

\* What the current plan says of a child.
LEMMA PlanFacts ==
  ASSUME TypeOK, NEW r \in 1..run, NEW c \in Child
  PROVE  /\ plan[r] \in Plans
         /\ plan[r].profile.rt \in BOOLEAN
         /\ Want(r, c).mem \in Nat
         /\ Want(r, c).cpus \in Cpusets
         /\ Want(r, c).exclusive => Want(r, c).cpus \subseteq plan[r].profile.isolated
<1>1. plan[r] \in Plans
  BY DEF TypeOK
<1>2. QED
  BY <1>1, PlanAssumption DEF Want, Cpusets

\* The child spawned next has no process in the run in progress.
LEMMA CurFacts ==
  ASSUME Inv, pc = "spawn", next <= Len(Order)
  PROVE  /\ Cur \in Child /\ next \in 1..Len(Order) /\ run \in Run /\ run \in 1..run
         /\ proc[run][Cur] = NoProc
<1>1. Cur \in Child /\ next \in 1..Len(Order)
  BY OrderFacts DEF Inv, TypeOK, Cur
<1>2. run \in Run /\ run \in 1..run
  BY RunAssumption DEF Inv, Progress, Run
<1>3. next >= next
  BY <1>1
<1>4. proc[run][Order[next]] = NoProc
  BY <1>1, <1>3 DEF Inv, NotYet
<1>5. QED
  BY <1>1, <1>2, <1>4 DEF Cur

-----------------------------------------------------------------------------
(* Types *)

ProcType == [state : {"none", "wrapper", "running", "gone"}, group : UnitNames \cup {NoGroup},
             affinity : SUBSET Online, pinned : BOOLEAN]

GroupType == [cpus : Cpusets, mem : Nat]

\* What the actions make of a process is a process.
LEMMA ProcTypes ==
  /\ NoProc \in ProcType
  /\ \A p \in ProcType :
       /\ \A x \in {"none", "wrapper", "running", "gone"} : [p EXCEPT !.state = x] \in ProcType
       /\ [p EXCEPT !.pinned = TRUE] \in ProcType
       /\ \A e \in SUBSET Online :
            [p EXCEPT !.state = "running", !.affinity = e] \in ProcType
  /\ \A g \in UnitNames \cup {NoGroup} :
       [NoProc EXCEPT !.state = "running", !.group = g] \in ProcType
BY DEF NoProc, ProcType

\* A step of one process.
LEMMA BecomeType ==
  ASSUME TypeOK, NEW r \in Run, NEW c \in Child, NEW p \in ProcType, Become(r, c, p),
         group' \in [UnitNames -> GroupType]
  PROVE  TypeOK'
<1>1. proc \in [Run -> [Child -> ProcType]]
  BY DEF TypeOK, ProcType
<1>2. proc' \in [Run -> [Child -> ProcType]]
  BY <1>1 DEF Become
<1>3. UnitNames' = UnitNames
  BY DEF Become, hostVars, UnitNames
<1>4. QED
  BY <1>2, <1>3 DEF TypeOK, ProcType, GroupType, Become, hostVars, runVars, verifyVars

\* Starting a child keeps the types, whatever its cgroup is.
LEMMA StartType ==
  ASSUME Inv, pc = "spawn", next <= Len(Order), NEW g \in [UnitNames -> GroupType], Start(g)
  PROVE  TypeOK'
<1>1. Cur \in Child /\ next \in 1..Len(Order) /\ run \in Run
  BY CurFacts
<1>2. proc \in [Run -> [Child -> ProcType]]
  BY DEF Inv, TypeOK, ProcType
<1>3. [proc[run][Cur] EXCEPT !.state = "wrapper"] \in ProcType
  BY <1>1, <1>2, ProcTypes
<1>4. proc' \in [Run -> [Child -> ProcType]]
  BY <1>1, <1>2, <1>3 DEF Start
<1>5. UnitNames' = UnitNames
  BY DEF Start, hostVars, UnitNames
<1>6. next' \in 1..(Len(Order) + 1)
  BY <1>1, OrderFacts DEF Start
<1>7. QED
  BY <1>4, <1>5, <1>6 DEF Inv, TypeOK, ProcType, GroupType, Start, hostVars, runVars, verifyVars

\* A new run keeps the types.
LEMMA BeginType ==
  ASSUME TypeOK, Begin
  PROVE  TypeOK'
<1>1. proc \in [Run -> [Child -> ProcType]]
  BY DEF TypeOK, ProcType
<1>2. proc' \in [Run -> [Child -> ProcType]]
  BY <1>1, ProcTypes DEF Begin
<1>3. PICK p \in Plans : plan' = Append(plan, p)
  BY DEF Begin
<1>4. plan' \in Seq(Plans) /\ Len(plan') = Len(plan) + 1
  BY <1>3, AppendProperties DEF TypeOK
<1>5. run' \in 0..MaxRuns /\ run' = run + 1
  BY RunAssumption DEF TypeOK, Begin
<1>6. UnitNames' = UnitNames
  BY DEF Begin, hostVars, UnitNames
<1>7. 1 \in 1..(Len(Order) + 1) /\ 0 \in 0..Len(PlanOrder)
  BY OrderFacts, PlanOrderFacts
<1>8. QED
  BY <1>2, <1>4, <1>5, <1>6, <1>7 DEF TypeOK, ProcType, Begin, hostVars

\* Every step keeps the types.
LEMMA TypeInductive ==
  ASSUME Inv, [Next]_vars
  PROVE  TypeOK'
<1>0. TypeOK /\ proc \in [Run -> [Child -> ProcType]] /\ group \in [UnitNames -> GroupType]
  BY DEF Inv, TypeOK, ProcType, GroupType
<1>a. \A c \in Child : unit[c] \in UnitNames
  BY DEF UnitNames
<1>1. CASE Begin
  BY <1>0, <1>1, BeginType
<1>2. ASSUME UNCHANGED <<host, unit, run, plan, tool, next, failed, group, proc>>,
             pc' \in {"idle", "preflight", "select", "prepare", "spawn", "verify", "up", "abort"},
             backend' \in Backends \cup {"none"}, read' = read,
             slice' \in {"none", "bare", "delegating"}
      PROVE  TypeOK'
  BY <1>0, <1>2 DEF TypeOK, UnitNames
<1>3. CASE PreflightFails \/ PreflightPasses \/ SelectFails \/ PrepareNothing \/ PrepareCgroup
            \/ PrepareTaken \/ PrepareFails \/ WrapCgroupFails \/ WrapTasksetFails \/ SpawnsDone
            \/ VerifyDone \/ End
  BY <1>0, <1>2, <1>3
     DEF TypeOK, PreflightFails, PreflightPasses, SelectFails, PrepareNothing, PrepareCgroup,
         PrepareTaken, PrepareFails, WrapCgroupFails, WrapTasksetFails, SpawnsDone, VerifyDone,
         End, Prepared, Fatal, hostVars, runVars, verifyVars
<1>4. CASE Select
  BY <1>0, <1>2, <1>4, CandidateType DEF TypeOK, Select, hostVars, runVars, verifyVars
<1>5. CASE WrapSystemd \/ WrapTaskset
  BY <1>0, <1>5, StartType DEF WrapSystemd, WrapTaskset, Wrapping
<1>6. CASE WrapCgroup
  <2>1. Cur \in Child /\ run \in 1..run /\ pc = "spawn" /\ next <= Len(Order)
    BY <1>6, CurFacts DEF WrapCgroup, Wrapping
  <2>2. CurWant.cpus \in Cpusets /\ CurWant.mem \in Nat
    BY <1>0, <2>1, PlanFacts DEF CurWant
  <2>3. PICK g : /\ Start(g)
                 /\ g = [group EXCEPT
                          ![unit[Cur]].cpus = IF CurWant.cpus # {} THEN CurWant.cpus ELSE @,
                          ![unit[Cur]].mem = IF CurWant.mem > 0 THEN CurWant.mem ELSE @]
    BY <1>6 DEF WrapCgroup
  <2>4. g \in [UnitNames -> GroupType]
    BY <1>0, <1>a, <2>1, <2>2, <2>3 DEF GroupType
  <2>5. QED
    BY <2>1, <2>3, <2>4, StartType
<1>7. CASE VerifyOne
  <2>1. read' \in 0..Len(PlanOrder) /\ failed' \subseteq Child
    BY <1>0, <1>7, PlanOrderFacts DEF TypeOK, VerifyOne
  <2>2. QED
    BY <1>0, <1>7, <2>1 DEF TypeOK, VerifyOne, UnitNames, hostVars, runVars
<1>8. ASSUME NEW r \in Run, NEW c \in Child,
             EnterScope(r, c) \/ ScopeTaken(r, c) \/ EnterCgroup(r, c) \/ EnterTaskset(r, c)
               \/ PinSelf(r) \/ Leave(r, c)
      PROVE  TypeOK'
  <2>0. proc[r][c] \in ProcType /\ proc[r][Victim] \in ProcType /\ Victim \in Child
    BY <1>0, ChildAssumption
  <2>1. CASE EnterScope(r, c)
    <3>1. r \in 1..run
      BY <1>0, <2>1 DEF EnterScope, At, Inv, Processes, Process, Run
    <3>2. [cpus |-> Want(r, c).cpus, mem |-> Want(r, c).mem] \in GroupType
      BY <1>0, <3>1, PlanFacts DEF GroupType
    <3>3. group' \in [UnitNames -> GroupType]
      BY <1>0, <1>a, <2>1, <3>2 DEF EnterScope
    <3>4. [NoProc EXCEPT !.state = "running", !.group = unit[c]] \in ProcType
      BY <1>a, ProcTypes
    <3>5. QED
      BY <1>0, <2>1, <3>3, <3>4, BecomeType DEF EnterScope
  <2>2. CASE ScopeTaken(r, c)
    BY <1>0, <2>0, <2>2, ProcTypes, BecomeType DEF ScopeTaken
  <2>3. CASE EnterCgroup(r, c)
    <3>1. PICK g \in {unit[c], NoGroup} :
            Become(r, c, [NoProc EXCEPT !.state = "running", !.group = g])
      BY <2>3 DEF EnterCgroup
    <3>2. QED
      BY <1>0, <1>a, <2>3, <3>1, ProcTypes, BecomeType DEF EnterCgroup
  <2>4. CASE EnterTaskset(r, c)
    <3>1. PICK p \in ProcType : Become(r, c, p)
      <4>1. CASE Want(r, c).cpus # {} /\ Want(r, c).cpus \cap Online = {}
        BY <2>0, <2>4, <4>1, ProcTypes DEF EnterTaskset
      <4>2. CASE Want(r, c).cpus = {}
        <5>1. proc[r][c].affinity \in SUBSET Online
          BY <2>0 DEF ProcType
        <5>2. QED
          BY <2>0, <2>4, <4>2, <5>1, ProcTypes DEF EnterTaskset
      <4>3. CASE Want(r, c).cpus # {} /\ Want(r, c).cpus \cap Online # {}
        BY <2>0, <2>4, <4>3, ProcTypes DEF EnterTaskset
      <4>4. QED
        BY <4>1, <4>2, <4>3
    <3>2. QED
      BY <1>0, <2>4, <3>1, BecomeType DEF EnterTaskset
  <2>5. CASE PinSelf(r)
    BY <1>0, <2>0, <2>5, ProcTypes, BecomeType DEF PinSelf
  <2>6. CASE Leave(r, c)
    BY <1>0, <2>0, <2>6, ProcTypes, BecomeType DEF Leave
  <2>7. QED
    BY <1>8, <2>1, <2>2, <2>3, <2>4, <2>5, <2>6
<1>9. CASE UNCHANGED vars
  BY <1>0, <1>9 DEF TypeOK, vars, UnitNames
<1>10. QED
  BY <1>1, <1>3, <1>4, <1>5, <1>6, <1>7, <1>8, <1>9 DEF Next

-----------------------------------------------------------------------------
(* The initial state, and the progress of the program *)

\* The invariant holds of a host before its first run.
LEMMA InitInv == Init => Inv
<1> SUFFICES ASSUME Init PROVE Inv
  OBVIOUS
<1>1. TypeOK
  <2>1. 1 \in 1..(Len(Order) + 1) /\ 0 \in 0..Len(PlanOrder) /\ 0 \in 0..MaxRuns
    BY OrderFacts, PlanOrderFacts, RunAssumption
  <2>2. << >> \in Seq(Plans) /\ Len(<< >>) = 0
    OBVIOUS
  <2>3. NewGroup \in GroupType
    BY DEF NewGroup, GroupType, Cpusets
  <2>4. proc \in [Run -> [Child -> ProcType]] /\ group \in [UnitNames -> GroupType]
    BY <2>3, ProcTypes DEF Init
  <2>5. QED
    BY <2>1, <2>2, <2>4 DEF Init, TypeOK, ProcType, GroupType
<1>2. \A r \in Run, c \in Child : proc[r][c] = NoProc
  BY DEF Init
<1>3. Processes
  <2>1. ASSUME NEW r \in Run, NEW c \in Child
        PROVE  Process(r, c)
    <3>1. proc[r][c] = NoProc /\ NoProc.state = "none" /\ NoProc.pinned = FALSE
      BY <1>2, <2>1 DEF NoProc
    <3>2. proc[r][c].state = "none" /\ ~proc[r][c].pinned
      BY <3>1
    <3>3. QED
      BY <3>1, <3>2 DEF Process
  <2>2. QED
    BY <2>1 DEF Processes
<1>4. Progress /\ NotYet /\ Written /\ Looked
  BY DEF Init, Progress, NotYet, Written, Looked
<1>5. QED
  BY <1>1, <1>3, <1>4 DEF Inv

\* Every step keeps the account of how far the run is.
LEMMA ProgressInductive ==
  ASSUME Inv, [Next]_vars
  PROVE  Progress'
<1>0. TypeOK /\ Progress
  BY DEF Inv
<1>1. CASE Begin
  <2>1. run' \in Run /\ pc' = "preflight" /\ next' = 1 /\ read' = 0
    BY <1>0, <1>1, RunAssumption DEF TypeOK, Begin, Run
  <2>2. backend' = backend /\ Candidates' = Candidates
    BY <1>1 DEF Begin, hostVars, Candidates
  <2>3. QED
    BY <1>0, <2>1, <2>2 DEF Progress
<1>2. ASSUME UNCHANGED <<host, run, plan>>
      PROVE  Failures' = Failures /\ Candidates' = Candidates
  BY <1>2 DEF Failures, Candidates
<1>3. CASE PreflightFails \/ SelectFails \/ PrepareFails \/ WrapCgroupFails \/ WrapTasksetFails
            \/ End
  BY <1>0, <1>2, <1>3
     DEF Progress, PreflightFails, SelectFails, PrepareFails, WrapCgroupFails, WrapTasksetFails,
         End, Fatal, hostVars, runVars, verifyVars
<1>4. CASE PreflightPasses
  BY <1>0, <1>2, <1>4 DEF Progress, PreflightPasses, hostVars, runVars, verifyVars
<1>5. CASE Select
  <2>1. backend' \in Candidates /\ backend' # "none"
    BY <1>0, <1>5, CandidateType DEF Select, Backends
  <2>2. QED
    BY <1>0, <1>2, <1>5, <2>1 DEF Progress, Select, hostVars, runVars, verifyVars
<1>6. CASE PrepareNothing \/ PrepareCgroup \/ PrepareTaken
  BY <1>0, <1>2, <1>6
     DEF Progress, PrepareNothing, PrepareCgroup, PrepareTaken, Prepared, hostVars, runVars,
         verifyVars
<1>7. CASE WrapSystemd \/ WrapCgroup \/ WrapTaskset
  BY <1>0, <1>2, <1>7
     DEF Progress, WrapSystemd, WrapCgroup, WrapTaskset, Wrapping, Start, hostVars, runVars,
         verifyVars
<1>8. CASE SpawnsDone \/ VerifyDone
  BY <1>0, <1>2, <1>8 DEF Progress, SpawnsDone, VerifyDone, hostVars, runVars, verifyVars
<1>9. CASE VerifyOne
  BY <1>0, <1>2, <1>9 DEF Progress, VerifyOne, hostVars, runVars
<1>10. ASSUME NEW r \in Run, NEW c \in Child,
              EnterScope(r, c) \/ ScopeTaken(r, c) \/ EnterCgroup(r, c) \/ EnterTaskset(r, c)
                \/ PinSelf(r) \/ Leave(r, c)
       PROVE  Progress'
  <2>1. UNCHANGED <<host, run, plan, pc, next, read, backend>>
    BY <1>10 DEF EnterScope, ScopeTaken, EnterCgroup, EnterTaskset, PinSelf, Leave, Become,
                 hostVars, runVars, verifyVars
  <2>2. QED
    BY <1>0, <1>2, <2>1 DEF Progress
<1>11. CASE UNCHANGED vars
  BY <1>0, <1>2, <1>11 DEF Progress, vars
<1>12. QED
  BY <1>1, <1>3, <1>4, <1>5, <1>6, <1>7, <1>8, <1>9, <1>10, <1>11 DEF Next

-----------------------------------------------------------------------------
(* Processes *)

\* A process is as it was when nobody touches it or, under systemd, its unit.
LEMMA ProcessFrame ==
  ASSUME NEW r, NEW c, Process(r, c), UNCHANGED <<unit, run, plan>>,
         proc'[r][c] = proc[r][c],
         backend' = backend \/ backend = "none",
         (proc[r][c].state = "running" /\ backend = "systemd-run") =>
           group'[unit[c]] = group[unit[c]]
  PROVE  Process(r, c)'
<1>1. CASE proc[r][c].state = "none"
  BY <1>1 DEF Process, NoProc
<1>2. CASE proc[r][c].state # "none"
  <2>1. backend # "none" /\ backend' = backend
    BY <1>2 DEF Process
  <2>2. Want(r, c)' = Want(r, c)
    BY DEF Want
  <2>3. proc[r][c].state = "running" => Placed(r, c)'
    BY <2>1, <2>2 DEF Process, Placed
  <2>4. QED
    BY <2>1, <2>2, <2>3 DEF Process
<1>3. QED
  BY <1>1, <1>2

\* A new run starts without processes of its own.
LEMMA BeginProcesses ==
  ASSUME Inv, Begin
  PROVE  Processes'
<1>0. TypeOK /\ Processes
  BY DEF Inv
<1>1. SUFFICES ASSUME NEW r \in Run, NEW c \in Child
               PROVE  Process(r, c)'
  BY DEF Processes
<1>2. proc'[r][c] = IF Live(r, c) THEN proc[r][c] ELSE NoProc
  BY DEF Begin
<1>3. UNCHANGED <<unit, backend, group>> /\ run' = run + 1
  BY DEF Begin, hostVars
<1>4. CASE ~Live(r, c)
  BY <1>2, <1>4 DEF Process, NoProc
<1>5. CASE Live(r, c)
  <2>1. Process(r, c) /\ r <= run /\ r \in 1..run
    BY <1>0, <1>5 DEF Processes, Process, Live, Run, TypeOK
  <2>2. plan'[r] = plan[r]
    BY <1>0, <2>1, AppendProperties DEF Begin, TypeOK
  <2>3. Want(r, c)' = Want(r, c)
    BY <2>2 DEF Want
  <2>4. r <= run'
    BY <1>0, <1>3, <2>1 DEF TypeOK
  <2>5. proc[r][c].state = "running" => Placed(r, c)'
    BY <1>2, <1>3, <1>5, <2>1, <2>3 DEF Process, Placed
  <2>6. QED
    BY <1>2, <1>3, <1>5, <2>1, <2>3, <2>4, <2>5 DEF Process
<1>6. QED
  BY <1>4, <1>5

\* A child that is started is a wrapper that has joined nothing yet.
LEMMA StartProcesses ==
  ASSUME Inv, pc = "spawn", next <= Len(Order), NEW g, Start(g),
         backend = "systemd-run" => g = group
  PROVE  Processes'
<1>1. Cur \in Child /\ run \in Run /\ proc[run][Cur] = NoProc /\ run \in 1..run
  BY CurFacts
<1>2. SUFFICES ASSUME NEW r \in Run, NEW c \in Child
               PROVE  Process(r, c)'
  BY DEF Processes
<1>3. UNCHANGED <<unit, run, plan, backend>> /\ group' = g /\ Process(r, c)
  BY DEF Start, hostVars, runVars, Inv, Processes
<1>a. proc \in [Run -> [Child -> ProcType]]
  BY DEF Inv, TypeOK, ProcType
<1>4. CASE r = run /\ c = Cur
  <2>1. proc'[r][c] = [NoProc EXCEPT !.state = "wrapper"]
    BY <1>1, <1>4, <1>a DEF Start
  <2>2. backend # "none" /\ r <= run
    BY <1>1, <1>4 DEF Inv, Progress
  <2>3. QED
    BY <1>3, <2>1, <2>2 DEF Process, NoProc
<1>5. CASE ~(r = run /\ c = Cur)
  <2>1. proc'[r][c] = proc[r][c]
    BY <1>1, <1>5, <1>a DEF Start
  <2>2. QED
    BY <1>3, <2>1, ProcessFrame
<1>6. QED
  BY <1>4, <1>5

\* A step of one process leaves the others alone, whose units it does not use.
LEMMA BecomeProcesses ==
  ASSUME Inv, NEW r \in Run, NEW c \in Child, NEW p, Become(r, c, p),
         \A d \in Child, q \in Run :
           (proc[q][d].state = "running" /\ backend = "systemd-run" /\ ~(q = r /\ d = c)) =>
             group'[unit[d]] = group[unit[d]],
         proc'[r][c] = p => Process(r, c)'
  PROVE  Processes'
<1>1. SUFFICES ASSUME NEW q \in Run, NEW d \in Child
               PROVE  Process(q, d)'
  BY DEF Processes
<1>2. UNCHANGED <<unit, run, plan, backend>> /\ Process(q, d)
  BY DEF Become, hostVars, runVars, Inv, Processes
<1>a. proc \in [Run -> [Child -> ProcType]]
  BY DEF Inv, TypeOK, ProcType
<1>3. CASE q = r /\ d = c
  BY <1>3, <1>a DEF Become
<1>4. CASE ~(q = r /\ d = c)
  <2>1. proc'[q][d] = proc[q][d]
    BY <1>4, <1>a DEF Become
  <2>2. QED
    BY <1>2, <1>4, <2>1, ProcessFrame
<1>5. QED
  BY <1>3, <1>4

\* A wrapper that enters its scope, its cgroup or its affinity gets what its plan says.
LEMMA EnterProcesses ==
  ASSUME Inv, NEW r \in Run, NEW c \in Child,
         EnterScope(r, c) \/ ScopeTaken(r, c) \/ EnterCgroup(r, c) \/ EnterTaskset(r, c)
  PROVE  Processes'
<1>0. /\ Process(r, c) /\ proc[r][c].state = "wrapper" /\ r <= run
      /\ proc[r][c].group = NoGroup /\ proc[r][c].affinity = Online /\ ~proc[r][c].pinned
  BY DEF EnterScope, ScopeTaken, EnterCgroup, EnterTaskset, At, Inv, Processes, Process
<1>1. UNCHANGED <<unit, run, plan, backend>> /\ Want(r, c)' = Want(r, c) /\ backend # "none"
  BY DEF EnterScope, ScopeTaken, EnterCgroup, EnterTaskset, At, Become, hostVars, runVars, Want
<1>2. CASE EnterScope(r, c)
  <2>1. \A q \in Run, d \in Child : proc[q][d].state = "running" => unit[d] # unit[c]
    <3>1. SUFFICES ASSUME NEW q \in Run, NEW d \in Child, proc[q][d].state = "running",
                          unit[d] = unit[c]
                   PROVE  FALSE
      OBVIOUS
    <3>2. proc[q][d].group = unit[d]
      BY <1>2, <3>1 DEF EnterScope, At, Inv, Processes, Process, Placed
    <3>3. QED
      BY <1>2, <3>1, <3>2 DEF EnterScope, Live
  <2>2. \A d \in Child : unit[d] # unit[c] => group'[unit[d]] = group[unit[d]]
    BY <1>2 DEF EnterScope, Inv, TypeOK
  <2>3. group'[unit[c]] = [cpus |-> Want(r, c).cpus, mem |-> Want(r, c).mem]
    <3>1. unit[c] \in DOMAIN group
      BY DEF Inv, TypeOK, UnitNames
    <3>2. QED
      BY <1>2, <3>1 DEF EnterScope
  <2>4. ASSUME proc'[r][c] = [NoProc EXCEPT !.state = "running", !.group = unit[c]]
        PROVE  Process(r, c)'
    <3>1. Placed(r, c)'
      BY <1>1, <1>2, <2>3, <2>4 DEF Placed, NoProc, EnterScope, At
    <3>2. QED
      BY <1>0, <1>1, <2>4, <3>1 DEF Process, NoProc
  <2>5. QED
    BY <1>2, <2>1, <2>2, <2>4, BecomeProcesses DEF EnterScope
<1>3. CASE ScopeTaken(r, c)
  <2>1. ASSUME proc'[r][c] = [proc[r][c] EXCEPT !.state = "gone"]
        PROVE  Process(r, c)'
    <3>1. proc'[r][c].state = "gone" /\ ~proc'[r][c].pinned
      BY <1>0, <2>1 DEF Inv, TypeOK
    <3>2. QED
      BY <1>0, <1>1, <3>1 DEF Process
  <2>2. QED
    BY <1>3, <2>1, BecomeProcesses DEF ScopeTaken
<1>4. CASE EnterCgroup(r, c)
  <2>1. PICK g \in {unit[c], NoGroup} :
          Become(r, c, [NoProc EXCEPT !.state = "running", !.group = g])
    BY <1>4 DEF EnterCgroup
  <2>2. ASSUME proc'[r][c] = [NoProc EXCEPT !.state = "running", !.group = g]
        PROVE  Process(r, c)'
    <3>1. Placed(r, c)'
      BY <1>1, <1>4, <2>1, <2>2 DEF Placed, NoProc, EnterCgroup, At
    <3>2. QED
      BY <1>0, <1>1, <2>2, <3>1 DEF Process, NoProc
  <2>3. QED
    BY <1>4, <2>1, <2>2, BecomeProcesses DEF EnterCgroup, At
<1>5. CASE EnterTaskset(r, c)
  <2>1. CASE Want(r, c).cpus # {} /\ Want(r, c).cpus \cap Online = {}
    <3>1. Become(r, c, [proc[r][c] EXCEPT !.state = "gone"]) /\ group' = group
      BY <1>5, <2>1 DEF EnterTaskset
    <3>2. ASSUME proc'[r][c] = [proc[r][c] EXCEPT !.state = "gone"]
          PROVE  Process(r, c)'
      <4>1. proc'[r][c].state = "gone" /\ ~proc'[r][c].pinned
        BY <1>0, <3>2 DEF Inv, TypeOK
      <4>2. QED
        BY <1>0, <1>1, <4>1 DEF Process
    <3>3. QED
      BY <3>1, <3>2, BecomeProcesses
  <2>2. CASE Want(r, c).cpus = {} \/ Want(r, c).cpus \cap Online # {}
    <3>a. PICK e : e = IF Want(r, c).cpus = {} THEN Online ELSE Want(r, c).cpus \cap Online
      OBVIOUS
    <3>1. Become(r, c, [proc[r][c] EXCEPT !.state = "running", !.affinity = e]) /\ group' = group
      BY <1>0, <1>5, <2>2, <3>a DEF EnterTaskset
    <3>2. ASSUME proc'[r][c] = [proc[r][c] EXCEPT !.state = "running", !.affinity = e]
          PROVE  Process(r, c)'
      <4>1. /\ proc'[r][c].state = "running" /\ ~proc'[r][c].pinned
            /\ proc'[r][c].group = NoGroup /\ proc'[r][c].affinity = e
        BY <1>0, <3>2 DEF Inv, TypeOK
      <4>2. e # {}
        BY <2>2, <3>a, OnlineAssumption
      <4>3. Placed(r, c)'
        BY <1>1, <1>5, <3>a, <4>1, <4>2 DEF Placed, EnterTaskset, At
      <4>4. QED
        BY <1>0, <1>1, <4>1, <4>3 DEF Process
    <3>3. QED
      BY <3>1, <3>2, BecomeProcesses
  <2>3. QED
    BY <2>1, <2>2
<1>6. QED
  BY <1>2, <1>3, <1>4, <1>5

\* The victim that pins itself to --pinning-cpus stays within its plan.
LEMMA PinProcesses ==
  ASSUME Inv, NEW r \in Run, PinSelf(r)
  PROVE  Processes'
<1>1. /\ Victim \in Child /\ Process(r, Victim) /\ proc[r][Victim].state = "running"
      /\ r <= run /\ backend # "none"
  BY ChildAssumption DEF PinSelf, Inv, Processes, Process
<1>2. Want(r, Victim).cpus \cap Online # {}
  <2>1. Allowed(r, Victim) \subseteq Online
    BY <1>1 DEF Allowed, Effective, Inv, TypeOK
  <2>2. QED
    BY <2>1 DEF PinSelf
<1>3. UNCHANGED <<unit, run, plan, backend, group>> /\ Want(r, Victim)' = Want(r, Victim)
  BY DEF PinSelf, Become, hostVars, runVars, Want
<1>4. ASSUME proc'[r][Victim] = [proc[r][Victim] EXCEPT !.pinned = TRUE]
      PROVE  Process(r, Victim)'
  <2>1. /\ proc'[r][Victim].state = "running" /\ proc'[r][Victim].pinned
        /\ proc'[r][Victim].group = proc[r][Victim].group
        /\ proc'[r][Victim].affinity = proc[r][Victim].affinity
    BY <1>1, <1>4 DEF Inv, TypeOK
  <2>2. Placed(r, Victim)'
    BY <1>1, <1>3, <2>1 DEF Process, Placed
  <2>3. QED
    BY <1>1, <1>2, <1>3, <2>1, <2>2 DEF Process
<1>5. QED
  BY <1>1, <1>3, <1>4, BecomeProcesses DEF PinSelf

\* A process that ends is out of the account.
LEMMA LeaveProcesses ==
  ASSUME Inv, NEW r \in Run, NEW c \in Child, Leave(r, c)
  PROVE  Processes'
<1>1. Process(r, c) /\ r <= run /\ backend # "none" /\ group' = group /\ proc[r][c] \in ProcType
  BY DEF Leave, Live, Inv, Processes, Process, TypeOK, ProcType
<1>2. UNCHANGED <<unit, run, plan, backend>>
  BY DEF Leave, Become, hostVars, runVars
<1>3. CASE r = run
  <2>1. ASSUME proc'[r][c] = [proc[r][c] EXCEPT !.state = "gone"]
        PROVE  Process(r, c)'
    <3>1. proc'[r][c].state = "gone" /\ proc'[r][c].pinned = proc[r][c].pinned
      BY <1>1, <2>1 DEF ProcType
    <3>2. QED
      BY <1>1, <1>2, <3>1 DEF Process
  <2>2. QED
    BY <1>1, <1>3, <2>1, BecomeProcesses DEF Leave
<1>4. CASE r # run
  <2>1. ASSUME proc'[r][c] = NoProc
        PROVE  Process(r, c)'
    BY <2>1 DEF Process, NoProc
  <2>2. QED
    BY <1>1, <1>4, <2>1, BecomeProcesses DEF Leave
<1>5. QED
  BY <1>3, <1>4

\* Every step keeps the account of what each process has joined.
LEMMA ProcessesInductive ==
  ASSUME Inv, [Next]_vars
  PROVE  Processes'
<1>1. CASE Begin
  BY <1>1, BeginProcesses
<1>2. ASSUME UNCHANGED <<unit, run, plan, group, proc>>, backend' = backend \/ backend = "none"
      PROVE  Processes'
  <2>1. SUFFICES ASSUME NEW r \in Run, NEW c \in Child
                 PROVE  Process(r, c)'
    BY DEF Processes
  <2>2. Process(r, c)
    BY DEF Inv, Processes
  <2>3. QED
    BY <1>2, <2>2, ProcessFrame
<1>3. CASE PreflightFails \/ PreflightPasses \/ SelectFails \/ PrepareNothing \/ PrepareCgroup
            \/ PrepareTaken \/ PrepareFails \/ WrapCgroupFails \/ WrapTasksetFails \/ SpawnsDone
            \/ VerifyOne \/ VerifyDone \/ End \/ UNCHANGED vars
  BY <1>2, <1>3
     DEF PreflightFails, PreflightPasses, SelectFails, PrepareNothing, PrepareCgroup,
         PrepareTaken, PrepareFails, WrapCgroupFails, WrapTasksetFails, SpawnsDone, VerifyOne,
         VerifyDone, End, Prepared, Fatal, hostVars, runVars, vars
<1>4. CASE Select
  <2>1. backend' = backend \/ backend = "none"
    BY <1>4, OneCandidate DEF Select, Inv, Progress
  <2>2. QED
    BY <1>2, <1>4, <2>1 DEF Select, hostVars, runVars
<1>5. CASE WrapSystemd \/ WrapCgroup \/ WrapTaskset
  <2>1. PICK g : Start(g) /\ (backend = "systemd-run" => g = group)
    BY <1>5 DEF WrapSystemd, WrapCgroup, WrapTaskset, Wrapping
  <2>2. pc = "spawn" /\ next <= Len(Order)
    BY <1>5 DEF WrapSystemd, WrapCgroup, WrapTaskset, Wrapping
  <2>3. QED
    BY <2>1, <2>2, StartProcesses
<1>6. ASSUME NEW r \in Run, NEW c \in Child,
             EnterScope(r, c) \/ ScopeTaken(r, c) \/ EnterCgroup(r, c) \/ EnterTaskset(r, c)
               \/ PinSelf(r) \/ Leave(r, c)
      PROVE  Processes'
  BY <1>6, EnterProcesses, PinProcesses, LeaveProcesses
<1>7. QED
  BY <1>1, <1>3, <1>4, <1>5, <1>6 DEF Next

-----------------------------------------------------------------------------
(* What a run has not spawned yet, and what it has written *)

\* Every step keeps that a child that is not yet spawned has no process.
LEMMA NotYetInductive ==
  ASSUME Inv, [Next]_vars
  PROVE  NotYet'
<1>0. /\ TypeOK /\ Progress /\ Processes /\ NotYet
      /\ proc \in [Run -> [Child -> ProcType]] /\ NoProc.state = "none"
  BY DEF Inv, TypeOK, ProcType, NoProc
<1>1. CASE Begin
  <2>1. run' = run + 1 /\ run' \in Run
    BY <1>0, <1>1, RunAssumption DEF Begin, TypeOK, Run
  <2>2. ASSUME NEW c \in Child
        PROVE  proc'[run'][c] = NoProc
    <3>1. Process(run', c) /\ ~(run' <= run)
      BY <1>0, <2>1 DEF Processes, TypeOK
    <3>2. ~Live(run', c)
      BY <3>1 DEF Process, Live
    <3>3. QED
      BY <1>1, <2>1, <3>2 DEF Begin
  <2>3. QED
    BY <2>2, OrderFacts, <1>1 DEF NotYet, Begin
<1>2. CASE PreflightFails \/ SelectFails \/ PrepareFails \/ WrapCgroupFails \/ WrapTasksetFails
            \/ End
  BY <1>2 DEF NotYet, PreflightFails, SelectFails, PrepareFails, WrapCgroupFails,
              WrapTasksetFails, End, Fatal
<1>3. CASE PreflightPasses \/ Select \/ PrepareNothing \/ PrepareCgroup \/ PrepareTaken
            \/ SpawnsDone \/ VerifyOne \/ VerifyDone \/ UNCHANGED vars
  BY <1>0, <1>3
     DEF NotYet, PreflightPasses, Select, PrepareNothing, PrepareCgroup, PrepareTaken, SpawnsDone,
         VerifyOne, VerifyDone, Prepared, runVars, vars
<1>4. CASE WrapSystemd \/ WrapCgroup \/ WrapTaskset
  <2>1. PICK g : Start(g)
    BY <1>4 DEF WrapSystemd, WrapCgroup, WrapTaskset
  <2>2. pc = "spawn" /\ next <= Len(Order)
    BY <1>4 DEF WrapSystemd, WrapCgroup, WrapTaskset, Wrapping
  <2>3. next \in 1..Len(Order) /\ run \in Run
    BY <2>2, CurFacts
  <2>4. ASSUME NEW i \in 1..Len(Order), i >= next'
        PROVE  proc'[run'][Order[i]] = NoProc
    <3>1. i >= next /\ i # next
      BY <2>1, <2>3, <2>4 DEF Start
    <3>2. Order[i] # Cur /\ Order[i] \in Child
      BY <2>3, <3>1, OrderFacts DEF Cur
    <3>3. proc[run][Order[i]] = NoProc
      BY <1>0, <2>2, <3>1 DEF NotYet
    <3>4. proc'[run][Order[i]] = proc[run][Order[i]]
      BY <1>0, <2>1, <2>3, <3>2 DEF Start
    <3>5. QED
      BY <2>1, <3>3, <3>4 DEF Start, runVars
  <2>5. QED
    BY <2>4 DEF NotYet
<1>5. ASSUME NEW r \in Run, NEW c \in Child, NEW p, Become(r, c, p), proc[r][c].state # "none",
             pc # "idle"
      PROVE  NotYet'
  <2>1. UNCHANGED <<run, pc, next>> /\ run \in Run
    BY <1>0, <1>5 DEF Become, runVars, Progress
  <2>2. ASSUME NEW i \in 1..Len(Order), i >= next
        PROVE  proc'[run][Order[i]] = NoProc
    <3>1. proc[run][Order[i]] = NoProc /\ Order[i] \in Child
      BY <1>0, <1>5, <2>2, OrderFacts DEF NotYet
    <3>2. ~(r = run /\ c = Order[i])
      BY <1>0, <1>5, <3>1
    <3>3. QED
      BY <1>0, <1>5, <2>1, <3>1, <3>2 DEF Become
  <2>3. QED
    BY <2>1, <2>2 DEF NotYet
<1>6. ASSUME NEW r \in Run, NEW c \in Child,
             EnterScope(r, c) \/ ScopeTaken(r, c) \/ EnterCgroup(r, c) \/ EnterTaskset(r, c)
               \/ PinSelf(r) \/ Leave(r, c)
      PROVE  NotYet'
  <2>1. CASE pc = "idle"
    <3>1. pc' = "idle"
      BY <1>6, <2>1 DEF EnterScope, ScopeTaken, EnterCgroup, EnterTaskset, PinSelf, Leave, Become
    <3>2. QED
      BY <3>1 DEF NotYet
  <2>2. CASE pc # "idle"
    <3>1. CASE PinSelf(r)
      BY <1>5, <2>2, <3>1, ChildAssumption DEF PinSelf
    <3>2. CASE Leave(r, c)
      BY <1>5, <2>2, <3>2 DEF Leave, Live
    <3>3. CASE EnterScope(r, c) \/ ScopeTaken(r, c) \/ EnterCgroup(r, c) \/ EnterTaskset(r, c)
      BY <1>5, <2>2, <3>3 DEF EnterScope, ScopeTaken, EnterCgroup, EnterTaskset, At
    <3>4. QED
      BY <1>6, <3>1, <3>2, <3>3
  <2>3. QED
    BY <2>1, <2>2
<1>7. QED
  BY <1>1, <1>2, <1>3, <1>4, <1>6 DEF Next

\* WrapCgroup leaves the limits of the plan in the child's cgroup.
LEMMA WrapCgroupWritten ==
  ASSUME Inv, WrapCgroup
  PROVE  Written'
<1>1. /\ pc = "spawn" /\ backend = "cgroup-v2" /\ next <= Len(Order)
      /\ UNCHANGED <<unit, run, plan, pc, backend>> /\ next' = next + 1
  BY DEF WrapCgroup, Wrapping, Start, hostVars, runVars
<1>2. Cur \in Child /\ next \in 1..Len(Order) /\ unit[Cur] \in UnitNames
  BY <1>1, CurFacts DEF UnitNames
<1>3. group \in [UnitNames -> GroupType]
  BY DEF Inv, TypeOK, GroupType
<1>4. SUFFICES ASSUME NEW i \in 1..Len(Order), i < next', Alone(Order[i])'
               PROVE  LET c == Order[i]  want == Want(run, c) IN
                        /\ want.cpus # {} => group'[unit[c]].cpus = want.cpus
                        /\ want.mem > 0 => group'[unit[c]].mem = want.mem
  BY <1>1 DEF Written, Want
<1>5. group' = [group EXCEPT
                 ![unit[Cur]].cpus = IF CurWant.cpus # {} THEN CurWant.cpus ELSE @,
                 ![unit[Cur]].mem = IF CurWant.mem > 0 THEN CurWant.mem ELSE @]
  BY DEF WrapCgroup, Start
<1>6. CASE i = next
  <2>1. Order[i] = Cur /\ CurWant = Want(run, Cur)
    BY <1>6 DEF Cur, CurWant
  <2>2. CurWant.cpus # {} => group'[unit[Cur]].cpus = CurWant.cpus
    BY <1>2, <1>3, <1>5 DEF GroupType
  <2>3. CurWant.mem > 0 => group'[unit[Cur]].mem = CurWant.mem
    BY <1>2, <1>3, <1>5 DEF GroupType
  <2>4. QED
    BY <2>1, <2>2, <2>3
<1>7. CASE i # next
  <2>1. i < next /\ Order[i] # Cur /\ Order[i] \in Child
    BY <1>1, <1>2, <1>4, <1>7, OrderFacts DEF Cur
  <2>2. Alone(Order[i])
    BY <1>1, <1>4 DEF Alone
  <2>3. unit[Cur] # unit[Order[i]] /\ unit[Order[i]] \in UnitNames
    BY <1>2, <2>1, <2>2 DEF Alone, UnitNames
  <2>4. group'[unit[Order[i]]] = group[unit[Order[i]]]
    BY <1>3, <1>5, <2>3
  <2>5. QED
    BY <1>1, <2>1, <2>2, <2>4 DEF Inv, Written
<1>8. QED
  BY <1>6, <1>7

\* Every step keeps the limits written into the cgroups of spawned children.
LEMMA WrittenInductive ==
  ASSUME Inv, [Next]_vars
  PROVE  Written'
<1>0. TypeOK /\ Progress /\ Written
  BY DEF Inv
<1>1. CASE Begin \/ PreflightFails \/ PreflightPasses \/ SelectFails \/ Select \/ PrepareFails
            \/ WrapCgroupFails \/ WrapTasksetFails \/ End
  BY <1>1 DEF Written, Begin, PreflightFails, PreflightPasses, SelectFails, Select, PrepareFails,
              WrapCgroupFails, WrapTasksetFails, End, Fatal
<1>2. CASE PrepareNothing \/ PrepareCgroup \/ PrepareTaken
  <2>1. next' = 1
    BY <1>0, <1>2 DEF PrepareNothing, PrepareCgroup, PrepareTaken, Prepared, Progress
  <2>2. \A i \in 1..Len(Order) : ~(i < next')
    BY <2>1
  <2>3. QED
    BY <2>2 DEF Written
<1>3. ASSUME UNCHANGED <<unit, run, plan, backend, next>>,
             pc' \in {"spawn", "verify", "up", "abort"} => pc \in {"spawn", "verify", "up", "abort"},
             backend = "cgroup-v2" => group' = group
      PROVE  Written'
  BY <1>0, <1>3 DEF Written, Want, Alone
<1>4. CASE SpawnsDone \/ VerifyOne \/ VerifyDone \/ UNCHANGED vars
  BY <1>3, <1>4 DEF SpawnsDone, VerifyOne, VerifyDone, hostVars, runVars, vars
<1>5. CASE WrapSystemd
  BY <1>5 DEF Written, WrapSystemd, Wrapping, Start
<1>6. CASE WrapCgroup
  BY <1>6, WrapCgroupWritten
<1>7. CASE WrapTaskset
  <2>1. /\ pc = "spawn" /\ next <= Len(Order) /\ UNCHANGED <<run, plan, backend>>
        /\ next' = next + 1 /\ backend = "taskset" /\ ~(CurWant.mem > 0)
    BY <1>7 DEF WrapTaskset, TasksetRefuses, Wrapping, Start, runVars
  <2>2. ASSUME NEW i \in 1..Len(Order), i < next'
        PROVE  ~(Want(run, Order[i]).mem > 0)
    <3>1. next \in 1..Len(Order)
      BY <2>1, CurFacts
    <3>2. CASE i = next
      BY <2>1, <3>2 DEF CurWant, Cur
    <3>3. CASE i # next
      <4>1. i < next
        BY <2>1, <2>2, <3>1, <3>3
      <4>2. QED
        BY <1>0, <2>1, <4>1 DEF Written
    <3>4. QED
      BY <3>2, <3>3
  <2>3. QED
    BY <2>1, <2>2 DEF Written, Want
<1>8. ASSUME NEW r \in Run, NEW c \in Child,
             EnterScope(r, c) \/ ScopeTaken(r, c) \/ EnterCgroup(r, c) \/ EnterTaskset(r, c)
               \/ PinSelf(r) \/ Leave(r, c)
      PROVE  Written'
  BY <1>3, <1>8 DEF EnterScope, ScopeTaken, EnterCgroup, EnterTaskset, PinSelf, Leave, Become, At,
                    hostVars, runVars, verifyVars
<1>9. QED
  BY <1>1, <1>2, <1>4, <1>5, <1>6, <1>7, <1>8 DEF Next

-----------------------------------------------------------------------------
(* What VerifyAll sees, and for how long it is true *)

\* A process is only ever allowed CPUs that are online.
LEMMA AllowedOnline ==
  ASSUME TypeOK, NEW r \in Run, NEW c \in Child
  PROVE  Allowed(r, c) \subseteq Online
<1>1. proc[r][c].affinity \subseteq Online
  BY DEF TypeOK
<1>2. QED
  BY <1>1 DEF Allowed, Effective

\* A wrapper has every CPU.
LEMMA WrapperAllowed ==
  ASSUME Inv, NEW r \in Run, NEW c \in Child, proc[r][c].state = "wrapper"
  PROVE  Allowed(r, c) = Online
BY OnlineAssumption DEF Inv, Processes, Process, Allowed, Effective

\* A process whose cgroup has its cpuset, or which has its affinity.
LEMMA GroupConfines ==
  ASSUME NEW r, NEW c, proc[r][c].affinity = Online, proc[r][c].group # NoGroup,
         group[proc[r][c].group].cpus = Want(r, c).cpus, Want(r, c).cpus \cap Online # {}
  PROVE  Allowed(r, c) \subseteq Want(r, c).cpus
BY DEF Allowed, Effective

\* Outside any cgroup, the affinity alone confines a process to its plan.
LEMMA AffinityConfines ==
  ASSUME NEW r, NEW c, proc[r][c].affinity = Want(r, c).cpus \cap Online,
         proc[r][c].group = NoGroup, Want(r, c).cpus \cap Online # {}
  PROVE  Allowed(r, c) \subseteq Want(r, c).cpus
BY DEF Allowed, Effective

\* From PrepareHost on a backend has been selected.
LEMMA BackendTypes ==
  ASSUME Inv, pc \in {"prepare", "spawn", "verify", "up", "abort"}
  PROVE  backend \in {"systemd-run", "cgroup-v2", "taskset"}
BY DEF Inv, TypeOK, Progress, Backends

\* What has been written for a child, once all are spawned.
LEMMA AllWritten ==
  ASSUME Inv, pc \in {"verify", "up", "abort"}, NEW c \in Child
  PROVE  /\ (backend = "cgroup-v2" /\ Alone(c)) =>
              /\ Want(run, c).cpus # {} => group[unit[c]].cpus = Want(run, c).cpus
              /\ Want(run, c).mem > 0 => group[unit[c]].mem = Want(run, c).mem
         /\ backend = "taskset" => ~(Want(run, c).mem > 0)
<1>1. PICK i \in 1..Len(Order) : c = Order[i]
  BY OrderFacts
<1>2. i < next
  BY <1>1, OrderFacts DEF Inv, Progress
<1>3. QED
  BY <1>1, <1>2 DEF Inv, Written

\* Every child has a unit name, and the victim's is its own.
LEMMA UnitFacts ==
  ASSUME TypeOK, NEW c \in Child
  PROVE  unit[c] # NoGroup /\ unit[c] \in UnitNames /\ Victim \in Child /\ Alone(Victim)
BY UnitAssumption, ChildAssumption DEF TypeOK, UnitNames, Alone

\* The victim shows its main thread, which it has pinned itself: that says
\* nothing about its other threads, and yet they are confined, unless it has not
\* joined its cgroup.
LEMMA LookPasses ==
  ASSUME Inv, pc = "verify", NEW c \in Child, ~(Live(run, c) /\ Outside(c))
  PROVE  Passed(c)
<1>0. run \in Run /\ Process(run, c) /\ TypeOK
  BY DEF Inv, Progress, Processes
<1>1. CASE ~Live(run, c)
  BY <1>1 DEF Passed
<1>2. CASE Live(run, c) /\ ~proc[run][c].pinned
  BY <1>2 DEF Passed, Outside, Shown
<1>3. CASE Live(run, c) /\ proc[run][c].pinned
  <2>1. /\ c = Victim /\ proc[run][c].state = "running" /\ Placed(run, c)
        /\ Want(run, c).cpus \cap Online # {}
    BY <1>0, <1>3 DEF Process, Live
  <2>2. unit[c] # NoGroup /\ Alone(c)
    BY <1>0, <2>1, UnitFacts
  <2>3. CASE backend = "systemd-run"
    <3>1. proc[run][c].group = unit[c] /\ proc[run][c].affinity = Online
      BY <2>1, <2>3 DEF Placed
    <3>2. group[unit[c]].cpus = Want(run, c).cpus
      BY <2>1, <2>3 DEF Placed
    <3>3. QED
      BY <2>1, <2>2, <3>1, <3>2, GroupConfines DEF Passed
  <2>4. CASE backend = "taskset"
    <3>1. /\ proc[run][c].group = NoGroup
          /\ proc[run][c].affinity = Want(run, c).cpus \cap Online
      BY <2>1, <2>4 DEF Placed
    <3>2. QED
      BY <2>1, <3>1, AffinityConfines DEF Passed
  <2>5. CASE backend = "cgroup-v2" /\ proc[run][c].group = NoGroup
    BY <2>1, <2>5 DEF Passed, Seen
  <2>6. CASE backend = "cgroup-v2" /\ proc[run][c].group # NoGroup
    <3>1. proc[run][c].group = unit[c] /\ proc[run][c].affinity = Online
      BY <2>1, <2>6 DEF Placed
    <3>2. group[unit[c]].cpus = Want(run, c).cpus
      BY <2>1, <2>2, <2>6, AllWritten
    <3>3. QED
      BY <2>1, <2>2, <3>1, <3>2, GroupConfines DEF Passed
  <2>7. QED
    BY <2>3, <2>4, <2>5, <2>6, BackendTypes
<1>4. QED
  BY <1>1, <1>2, <1>3

\* What has been seen of a process remains true whatever processes do: one that
\* enters a scope does not touch that of another, and a wrapper was let pass only
\* with a cpuset that has every CPU.
LEMMA PassedFrame ==
  ASSUME NEW c, Passed(c), UNCHANGED <<run, plan, backend>>,
         proc'[run][c].state = proc[run][c].state, proc'[run][c].group = proc[run][c].group,
         proc'[run][c].affinity = proc[run][c].affinity,
         Live(run, c) => Effective(proc[run][c].group)' = Effective(proc[run][c].group)
  PROVE  Passed(c)'
<1>1. CASE ~Live(run, c)
  BY <1>1 DEF Passed, Live
<1>2. CASE Live(run, c)
  <2>1. Allowed(run, c)' = Allowed(run, c) /\ Want(run, c)' = Want(run, c)
    BY <1>2 DEF Allowed, Effective, Want
  <2>2. Live(run, c)' /\ Seen(c)' = Seen(c)
    BY <1>2 DEF Live, Seen
  <2>3. QED
    BY <1>2, <2>1, <2>2 DEF Passed
<1>3. QED
  BY <1>1, <1>2

\* What wrappers do, the victim's pinning and ends of processes leave a child that has
\* passed its verification within its plan.
LEMMA PassedStable ==
  ASSUME Inv, TypeOK', pc \in {"verify", "up"}, NEW r \in Run, NEW d \in Child,
         EnterScope(r, d) \/ ScopeTaken(r, d) \/ EnterCgroup(r, d) \/ EnterTaskset(r, d)
           \/ PinSelf(r) \/ Leave(r, d),
         NEW c \in Child, Passed(c)
  PROVE  Passed(c)'
<1>a. TypeOK /\ run \in Run /\ Process(run, c)
  BY DEF Inv, Progress, Processes
<1>b. proc \in [Run -> [Child -> ProcType]] /\ group \in [UnitNames -> GroupType]
  BY <1>a DEF TypeOK, ProcType, GroupType
<1>c. UnitNames' = UnitNames
  BY DEF UnitNames, EnterScope, ScopeTaken, EnterCgroup, EnterTaskset, PinSelf, Leave, Become,
         hostVars
<1>d. proc' \in [Run -> [Child -> ProcType]]
  BY <1>c DEF TypeOK, ProcType
<1>0. run \in Run /\ unit[d] \in UnitNames
  BY <1>a, UnitFacts
<1>1. UNCHANGED <<unit, run, plan, backend>> /\ Want(run, c)' = Want(run, c)
  BY DEF EnterScope, ScopeTaken, EnterCgroup, EnterTaskset, PinSelf, Leave, Become, hostVars,
         runVars, Want
<1>2. ASSUME proc'[run][c] = proc[run][c]
      PROVE  Passed(c)'
  <2>1. ASSUME Live(run, c)
        PROVE  Effective(proc[run][c].group)' = Effective(proc[run][c].group)
    <3>1. CASE group' = group
      BY <1>1, <1>2, <3>1 DEF Effective
    <3>2. CASE EnterScope(r, d)
      <4>1. proc[run][c].group # unit[d]
        BY <1>0, <1>a, <1>b, <1>d, <2>1, <3>2 DEF EnterScope
      <4>2. proc[run][c].group # NoGroup =>
              group'[proc[run][c].group] = group[proc[run][c].group]
        BY <1>0, <1>a, <1>b, <1>d, <3>2, <4>1 DEF EnterScope, ProcType
      <4>3. QED
        BY <1>1, <1>2, <4>2 DEF Effective
    <3>3. QED
      BY <3>1, <3>2 DEF ScopeTaken, EnterCgroup, EnterTaskset, PinSelf, Leave
  <2>2. QED
    BY <1>1, <1>2, <2>1, PassedFrame
<1>3. ASSUME proc[run][c].state = "wrapper"
      PROVE  Passed(c)'
  <2>1. Online \subseteq Want(run, c).cpus
    BY <1>0, <1>a, <1>b, <1>d, <1>3, WrapperAllowed DEF Passed, Live
  <2>2. Allowed(run, c)' \subseteq Online
    <3>1. proc'[run][c].affinity \subseteq Online
      BY <1>0, <1>d DEF ProcType
    <3>2. QED
      BY <1>1, <3>1 DEF Allowed, Effective
  <2>3. QED
    BY <1>1, <2>1, <2>2 DEF Passed
<1>4. CASE EnterScope(r, d) \/ ScopeTaken(r, d) \/ EnterCgroup(r, d) \/ EnterTaskset(r, d)
  <2>1. PICK p : Become(r, d, p) /\ proc[r][d].state = "wrapper"
    BY <1>4 DEF EnterScope, ScopeTaken, EnterCgroup, EnterTaskset, At
  <2>2. CASE r = run /\ d = c
    BY <1>3, <2>1, <2>2
  <2>3. CASE ~(r = run /\ d = c)
    BY <1>0, <1>a, <1>b, <1>d, <1>2, <2>1, <2>3 DEF Become
  <2>4. QED
    BY <2>2, <2>3
<1>5. CASE PinSelf(r)
  <2>1. proc' = [proc EXCEPT ![r][Victim] = [proc[r][Victim] EXCEPT !.pinned = TRUE]]
        /\ group' = group /\ Victim \in Child
    BY <1>5, ChildAssumption DEF PinSelf, Become
  <2>2. /\ proc'[run][c].state = proc[run][c].state /\ proc'[run][c].group = proc[run][c].group
        /\ proc'[run][c].affinity = proc[run][c].affinity
    BY <1>0, <1>a, <1>b, <1>d, <2>1 DEF ProcType
  <2>3. Effective(proc[run][c].group)' = Effective(proc[run][c].group)
    BY <1>1, <2>1, <2>2 DEF Effective
  <2>4. QED
    BY <1>1, <2>2, <2>3, PassedFrame
<1>6. CASE Leave(r, d)
  <2>1. CASE r = run /\ d = c
    <3>1. proc'[run][c] = [proc[run][c] EXCEPT !.state = "gone"]
      BY <1>0, <1>a, <1>b, <1>d, <1>6, <2>1 DEF Leave, Become
    <3>2. proc'[run][c].state = "gone"
      BY <1>0, <1>a, <1>b, <1>d, <3>1 DEF ProcType
    <3>3. QED
      BY <1>1, <3>2 DEF Passed, Live
  <2>2. CASE ~(r = run /\ d = c)
    BY <1>0, <1>a, <1>b, <1>d, <1>2, <1>6, <2>2 DEF Leave, Become
  <2>3. QED
    BY <2>1, <2>2
<1>7. QED
  BY <1>4, <1>5, <1>6

\* Every step keeps what the verification has found so far.
LEMMA LookedInductive ==
  ASSUME Inv, [Next]_vars
  PROVE  Looked'
<1>0. TypeOK /\ Progress /\ Looked /\ TypeOK'
  BY TypeInductive DEF Inv
<1>1. CASE Begin \/ PreflightFails \/ PreflightPasses \/ SelectFails \/ Select \/ PrepareNothing
            \/ PrepareCgroup \/ PrepareTaken \/ PrepareFails \/ WrapCgroupFails
            \/ WrapTasksetFails \/ End
  BY <1>1 DEF Looked, Begin, PreflightFails, PreflightPasses, SelectFails, Select, PrepareNothing,
              PrepareCgroup, PrepareTaken, PrepareFails, WrapCgroupFails, WrapTasksetFails, End,
              Prepared, Fatal
<1>2. CASE WrapSystemd \/ WrapCgroup \/ WrapTaskset
  BY <1>2 DEF Looked, WrapSystemd, WrapCgroup, WrapTaskset, Wrapping, Start
<1>3. CASE SpawnsDone
  <2>1. read' = 0 /\ pc' = "verify"
    BY <1>0, <1>3 DEF SpawnsDone, verifyVars, Progress
  <2>2. \A i \in 1..Len(PlanOrder) : ~(i <= read')
    BY <2>1
  <2>3. QED
    BY <2>1, <2>2 DEF Looked
<1>a. ASSUME UNCHANGED <<run, plan, backend, proc, group>>, NEW c \in Child, Passed(c)
      PROVE  Passed(c)'
  BY <1>a, PassedFrame DEF Effective
<1>4. CASE VerifyOne
  <2>1. /\ UNCHANGED <<run, plan, backend, proc, group, pc>> /\ pc = "verify"
        /\ read' = read + 1 /\ read' \in 1..Len(PlanOrder)
    BY <1>0, <1>4, PlanOrderFacts DEF VerifyOne, hostVars, runVars, TypeOK
  <2>2. failed \subseteq failed'
    BY <1>4 DEF VerifyOne
  <2>3. ASSUME NEW i \in 1..Len(PlanOrder), i <= read', PlanOrder[i] \notin failed'
        PROVE  Passed(PlanOrder[i])'
    <3>1. PlanOrder[i] \in Child
      BY PlanOrderFacts
    <3>2. CASE i = read'
      <4>1. ~(Live(run, PlanOrder[i]) /\ Outside(PlanOrder[i]))
        BY <1>4, <2>1, <2>3, <3>2 DEF VerifyOne
      <4>2. QED
        BY <1>a, <2>1, <3>1, <4>1, LookPasses
    <3>3. CASE i # read'
      <4>1. i <= read
        BY <1>0, <2>1, <2>3, <3>3 DEF TypeOK
      <4>2. QED
        BY <1>0, <1>a, <2>1, <2>2, <2>3, <3>1, <4>1 DEF Looked
    <3>4. QED
      BY <3>2, <3>3
  <2>4. QED
    BY <2>1, <2>3 DEF Looked
<1>5. CASE VerifyDone
  <2>1. /\ UNCHANGED <<run, plan, backend, proc, group, read, failed>> /\ pc = "verify"
        /\ pc' = "up" => failed = {} /\ read = Len(PlanOrder)
        /\ pc' # "verify"
    BY <1>5 DEF VerifyDone, verifyVars, runVars
  <2>2. ASSUME NEW i \in 1..Len(PlanOrder), i <= read, PlanOrder[i] \notin failed
        PROVE  Passed(PlanOrder[i])'
    BY <1>0, <1>a, <2>1, <2>2, PlanOrderFacts DEF Looked
  <2>3. QED
    BY <2>1, <2>2 DEF Looked
<1>6. ASSUME NEW r \in Run, NEW c \in Child,
             EnterScope(r, c) \/ ScopeTaken(r, c) \/ EnterCgroup(r, c) \/ EnterTaskset(r, c)
               \/ PinSelf(r) \/ Leave(r, c)
      PROVE  Looked'
  <2>1. UNCHANGED <<pc, read, failed>>
    BY <1>6 DEF EnterScope, ScopeTaken, EnterCgroup, EnterTaskset, PinSelf, Leave, Become,
                verifyVars
  <2>2. ASSUME pc \in {"verify", "up"}, NEW i \in 1..Len(PlanOrder), i <= read,
               PlanOrder[i] \notin failed
        PROVE  Passed(PlanOrder[i])'
    BY <1>0, <1>6, <2>2, PlanOrderFacts, PassedStable DEF Looked
  <2>3. QED
    BY <1>0, <2>1, <2>2 DEF Looked
<1>7. CASE UNCHANGED vars
  <2>1. UNCHANGED <<run, plan, backend, proc, group, pc, read, failed>>
    BY <1>7 DEF vars
  <2>2. ASSUME pc \in {"verify", "up"}, NEW i \in 1..Len(PlanOrder), i <= read,
               PlanOrder[i] \notin failed
        PROVE  Passed(PlanOrder[i])'
    BY <1>0, <1>a, <2>1, <2>2, PlanOrderFacts DEF Looked
  <2>3. QED
    BY <1>0, <2>1, <2>2 DEF Looked
<1>8. QED
  BY <1>1, <1>2, <1>3, <1>4, <1>5, <1>6, <1>7 DEF Next

-----------------------------------------------------------------------------
(* The theorems *)

\* The invariant holds of every behaviour of the host.
LEMMA InvAlways == Spec => []Inv
<1>1. Inv /\ [Next]_vars => Inv'
  BY TypeInductive, ProgressInductive, ProcessesInductive, NotYetInductive, WrittenInductive,
     LookedInductive DEF Inv
<1>2. QED
  BY <1>1, InitInv, PTL DEF Spec

\* The variables have their types: one process per child and run, with CPUs that
\* are online and a cgroup of the units, whatever is left behind by earlier runs.
THEOREM TypeCorrect == Spec => []TypeOK
BY InvAlways, PTL DEF Inv

\* What passed VerifyAll and is visible to it, stays true for as long as the
\* program is up.
LEMMA UpPassed ==
  ASSUME Inv, Verified, NEW c \in Child
  PROVE  Passed(c) /\ run \in Run /\ run \in 1..run
<1>1. PICK i \in 1..Len(PlanOrder) : c = PlanOrder[i]
  BY PlanOrderFacts
<1>2. i <= read /\ c \notin failed
  BY PlanOrderFacts, <1>1 DEF Inv, Looked, Verified
<1>3. run \in Run /\ run \in 1..run
  BY RunAssumption DEF Inv, Progress, Verified, Run
<1>4. QED
  BY <1>1, <1>2, <1>3 DEF Inv, Looked, Verified

\* A run that goes on after VerifyAll (launcher main.go 180-216) has no process,
\* as far as it can be seen, on a CPU outside its cpuset, on any host, with any
\* plan, and after any number of earlier runs.
THEOREM ConfinedOnceVerified == Spec => []VerifiedMeansConfined
<1>1. Inv => VerifiedMeansConfined
  BY UpPassed DEF VerifiedMeansConfined, Passed
<1>2. QED
  BY <1>1, InvAlways, PTL

\* A verified process has the memory limit of its assignment, although VerifyAll
\* reads cpusets only.
LEMMA UpCapped ==
  ASSUME Inv, Verified, NEW c \in Child, Live(run, c), Alone(c),
         Want(run, c).mem > 0, ~(Online \subseteq Want(run, c).cpus)
  PROVE  Cap(run, c) = Want(run, c).mem
<1>1. run \in Run /\ Allowed(run, c) \subseteq Want(run, c).cpus /\ TypeOK
  <2>1. c # Victim
    <3>1. plan[run] \in Plans
      BY UpPassed, PlanFacts DEF Inv
    <3>2. QED
      BY <3>1, PlanAssumption DEF Want
  <2>2. QED
    BY <2>1, UpPassed DEF Passed, Inv, Seen
<1>2. proc[run][c].state = "running"
  BY <1>1, WrapperAllowed DEF Live
<1>3. Placed(run, c)
  BY <1>1, <1>2 DEF Inv, Processes, Process
<1>4. unit[c] # NoGroup
  BY <1>1, UnitFacts
<1>5. CASE backend = "systemd-run"
  <2>1. proc[run][c].group = unit[c] /\ group[unit[c]].mem = Want(run, c).mem
    BY <1>3, <1>5 DEF Placed
  <2>2. QED
    BY <1>4, <2>1 DEF Cap
<1>6. CASE backend = "taskset"
  BY <1>6, AllWritten DEF Verified
<1>7. CASE backend = "cgroup-v2"
  <2>1. proc[run][c].affinity = Online /\ proc[run][c].group \in {unit[c], NoGroup}
    BY <1>3, <1>7 DEF Placed
  <2>2. proc[run][c].group # NoGroup
    BY <1>1, <2>1, OnlineAssumption DEF Allowed, Effective
  <2>3. group[unit[c]].mem = Want(run, c).mem
    BY <1>7, AllWritten DEF Verified
  <2>4. QED
    BY <2>1, <2>2, <2>3 DEF Cap
<1>8. QED
  BY <1>5, <1>6, <1>7, BackendTypes DEF Verified

\* A verified process that is alone in its unit name, has a positive limit and a
\* cpuset that leaves an online CPU out, runs under that limit (Wrap of the
\* backends, with verify.go).
THEOREM CappedOnceVerified == Spec => []MemoryIsCapped
<1>1. Inv => MemoryIsCapped
  BY UpCapped DEF MemoryIsCapped
<1>2. QED
  BY <1>1, InvAlways, PTL

\* What a report without a required failure says on a realtime profile: the
\* arguments are there, and one that can be read has the whole isolated pool.
LEMMA PreflightPassed ==
  ASSUME NEW p, NEW k, p.rt = TRUE, RequiredFailures(Report(p, k)) = {}
  PROVE  /\ k.rt
         /\ \A key \in Keys : k.args[key] # Absent
         /\ Parses(StripTag(k.args["isolcpus"])) => p.isolated \subseteq k.args["isolcpus"].cpus
<1>1. \A c \in Report(p, k) : c.required => c.pass
  BY DEF RequiredFailures
<1>2. k.rt
  <2>1. Check("realtime-kernel", TRUE, k.rt) \in Report(p, k)
    BY DEF Report
  <2>2. QED
    BY <1>1, <2>1 DEF Check
<1>3. \A key \in Keys : ArgCheck(p, k, key) \in Report(p, k)
  BY DEF Report
<1>4. ASSUME NEW key \in Keys
      PROVE  k.args[key] # Absent
  <2>1. SUFFICES ASSUME k.args[key] = Absent PROVE FALSE
    OBVIOUS
  <2>2. ArgCheck(p, k, key) = Check(key, p.rt, FALSE)
    BY <2>1 DEF ArgCheck
  <2>3. QED
    BY <1>1, <1>3, <2>2 DEF Check
<1>5. ASSUME Parses(StripTag(k.args["isolcpus"]))
      PROVE  p.isolated \subseteq k.args["isolcpus"].cpus
  <2>1. "isolcpus" \in Keys
    BY DEF Keys
  <2>2. ArgCheck(p, k, "isolcpus") = Check("isolcpus", TRUE, p.isolated \subseteq k.args["isolcpus"].cpus)
    BY <1>4, <1>5, <2>1 DEF ArgCheck
  <2>3. \A x : Check("isolcpus", TRUE, x).required /\ Check("isolcpus", TRUE, x).pass = x
    BY DEF Check
  <2>4. Check("isolcpus", TRUE, p.isolated \subseteq k.args["isolcpus"].cpus) \in Report(p, k)
    BY <1>3, <2>1, <2>2
  <2>5. QED
    BY <1>1, <2>3, <2>4
<1>6. QED
  BY <1>2, <1>4, <1>5

\* On a realtime host a verified victim of the exclusive class runs on CPUs that
\* the kernel was told to keep other tasks off (preflight.go 87-113, plan.go).
THEOREM IsolatedOnceVerified == Spec => []IsolationIsReal
<1>1. ASSUME Inv
      PROVE  IsolationIsReal
  <2>1. SUFFICES ASSUME Verified, plan[run].profile.rt, Live(run, Victim),
                        Want(run, Victim).exclusive
                 PROVE  LET isolcpus == host.kernel.args["isolcpus"] IN
                          /\ host.kernel.rt
                          /\ \A key \in Keys : host.kernel.args[key] # Absent
                          /\ (Parses(StripTag(isolcpus)) /\ Seen(Victim)) =>
                               Allowed(run, Victim) \subseteq isolcpus.cpus
    BY DEF IsolationIsReal
  <2>2. Victim \in Child /\ TypeOK
    BY <1>1, ChildAssumption DEF Inv
  <2>3. Passed(Victim) /\ run \in 1..run
    BY <1>1, <2>1, <2>2, UpPassed
  <2>4. plan[run].profile.rt = TRUE /\ Want(run, Victim).cpus \subseteq plan[run].profile.isolated
    BY <2>1, <2>2, <2>3, PlanFacts
  <2>5. RequiredFailures(Report(plan[run].profile, host.kernel)) = {}
    BY <1>1, <2>1 DEF Inv, Progress, Verified, Failures
  <2>6. Seen(Victim) => Allowed(run, Victim) \subseteq Want(run, Victim).cpus
    BY <2>1, <2>3 DEF Passed
  <2>7. QED
    BY <2>4, <2>5, <2>6, PreflightPassed
<1>2. QED
  BY <1>1, InvAlways, PTL
=============================================================================
