------------------------------ MODULE Planner -------------------------------
(***************************************************************************)
(* BuildPlan of pkg/tuning/plan.go: from a PerformanceProfile and the      *)
(* flattened process list it computes the cpuset of every process, or      *)
(* refuses.                                                                *)
(*                                                                         *)
(* A CPUList is a sorted list without duplicates, so it is a set of CPU    *)
(* numbers here; the two places where the order matters, a slice taken     *)
(* from the front or from the end of a list, are FirstN and LastN.  The    *)
(* profile fields the planner only copies (hugepages, IRQ banning, NUMA    *)
(* policy, memory limit, priority) are left out.  One action is one        *)
(* iteration of a loop of BuildPlan, or the straight code between loops.   *)
(***************************************************************************)
EXTENDS Integers, Sequences, FiniteSets

CONSTANTS
  CPU,          \* the CPU numbers a profile can mention
  Names,        \* the component names
  Victim,       \* SpecialChaosVictim
  Observer,     \* SpecialChaosObserver
  Unset,        \* an empty YAML field
  VictimWidth,  \* defaultVictimWidth (4 in the code)
  Profiles,     \* the profiles the planner is called with
  Workloads     \* the process lists it is called with (Topology!Flatten)

Classes == {"reserved", "isolated-exclusive", "isolated-shared",
            "burstable", "best-effort"}

\* A componentMap entry.  cpus is Unset for the empty string; a string that
\* is not empty but parses to no CPU (blanks, a lone comma) is the empty set.
ComponentTuning ==
  [class : Classes \cup {"unknown", Unset},
   cpus  : (SUBSET CPU) \cup {Unset},
   gomaxprocsOverride : Nat]

IsPerformanceProfile(p) ==
  /\ p.reserved \subseteq CPU /\ p.isolated \subseteq CPU
  /\ DOMAIN p.componentMap \subseteq Names
  /\ \A n \in DOMAIN p.componentMap : p.componentMap[n] \in ComponentTuning
  /\ p.defaultClass \in Classes \cup {"unknown", Unset}

FlatProcess == [comp : Names, replica : Nat, gomaxprocs : Nat, idealThreads : Int]

\* ReplicaID "" of the two synthetic processes.
NoReplica == -1

ASSUME CPUAssumption == CPU \subseteq Nat /\ IsFiniteSet(CPU)
ASSUME NameAssumption == Victim \in Names /\ Observer \in Names /\ Victim # Observer
ASSUME UnsetAssumption == /\ \A S \in SUBSET CPU : Unset # S
                          /\ Unset \notin Classes \cup {"unknown"}
ASSUME WidthAssumption == VictimWidth \in Nat \ {0}
ASSUME ProfileAssumption == \A p \in Profiles : IsPerformanceProfile(p)
ASSUME WorkloadAssumption == Workloads \subseteq Seq(FlatProcess)

VARIABLES
  profile,     \* the profile argument
  flat,        \* the process list argument
  pc,          \* the part of BuildPlan being executed, "ok" or "error" at the end
  todo,        \* mapNames not visited yet
  taken,       \* exclusiveTaken: component name -> CPUs
  workload,    \* the workload pool (plan.WorkloadCPUs)
  free,        \* freeWorkload
  plan,        \* plan.Assignments
  victimCPUs   \* plan.VictimCPUs

vars == <<profile, flat, pc, todo, taken, workload, free, plan, victimCPUs>>

\* Where an assignment's CPUs come from (the code says it in Source, a text;
\* the text does not tell "fallback" from "front").
Sources == {"reserved", "override", "back", "front", "fallback", "pool", "default"}

Assignment ==
  [comp : Names, replica : Int, class : Classes, cpus : SUBSET CPU,
   exclusive : BOOLEAN, gomaxprocs : Nat, source : Sources]

-----------------------------------------------------------------------------
(* CPU lists *)

\* The first n CPUs of S (CPUList.Take), and the last n (l[len(l)-n:]).
FirstN(S, n) == {c \in S : Cardinality({d \in S : d < c}) < n}
LastN(S, n)  == {c \in S : Cardinality({d \in S : d > c}) < n}

Disjoint(S, T) == S \cap T = {}

-----------------------------------------------------------------------------
(* The profile *)

\* Validate: the pools are given and do not overlap, every class is known,
\* every explicit cpuset lies in the two pools.
ValidProfile(p) ==
  /\ p.reserved # {} /\ p.isolated # {}
  /\ Disjoint(p.reserved, p.isolated)
  /\ \A n \in DOMAIN p.componentMap :
       /\ p.componentMap[n].class \in Classes
       /\ p.componentMap[n].cpus # Unset =>
            p.componentMap[n].cpus \subseteq p.reserved \cup p.isolated
  /\ p.defaultClass \in Classes \cup {Unset}

\* A missing componentMap entry reads as Go's zero value.
NoTuning == [class |-> Unset, cpus |-> Unset, gomaxprocsOverride |-> 0]

Tuning(name) == IF name \in DOMAIN profile.componentMap
                THEN profile.componentMap[name] ELSE NoTuning

EffectiveDefaultClass ==
  IF profile.defaultClass = Unset THEN "burstable" ELSE profile.defaultClass

ClassOf(name) == IF Tuning(name).class = Unset THEN EffectiveDefaultClass
                                               ELSE Tuning(name).class

Width(fp) == IF fp.idealThreads <= 0 THEN 1 ELSE fp.idealThreads

\* An exclusive component with an explicit cpuset: step 1 reserves it.
ExclusiveOverride(name) == /\ Tuning(name).class = "isolated-exclusive"
                           /\ Tuning(name).cpus # Unset

-----------------------------------------------------------------------------
Init ==
  /\ profile \in Profiles
  /\ flat \in Workloads
  /\ pc = "validate"
  /\ todo = {}
  /\ taken = << >>
  /\ workload = {}
  /\ free = {}
  /\ plan = << >>
  /\ victimCPUs = {}

\* return nil, err: the plan built so far is dropped.
Fail ==
  /\ pc' = "error"
  /\ UNCHANGED <<profile, flat, todo, taken, workload, free, plan, victimCPUs>>

RejectProfile == pc = "validate" /\ ~ValidProfile(profile) /\ Fail

AcceptProfile ==
  /\ pc = "validate"
  /\ ValidProfile(profile)
  /\ pc' = "overrides"
  /\ todo' = DOMAIN profile.componentMap
  /\ workload' = profile.isolated
  /\ UNCHANGED <<profile, flat, taken, free, plan, victimCPUs>>

(***************************************************************************)
(* Step 1: the explicit exclusive cpusets.  The code visits the names in   *)
(* sorted order; any order is allowed here, which the code's order is one  *)
(* of, so what holds does not depend on how the components are named.      *)
(***************************************************************************)
SkipOverride(n) ==
  /\ pc = "overrides"
  /\ n \in todo
  /\ ~ExclusiveOverride(n)
  /\ todo' = todo \ {n}
  /\ UNCHANGED <<profile, flat, pc, taken, workload, free, plan, victimCPUs>>

\* Mutant: overlaps with earlier exclusive cpusets are not looked for.
OverrideFitsAnyway(cpus) == cpus \subseteq profile.isolated

OverrideFits(cpus) ==
  /\ cpus \subseteq profile.isolated
  /\ \A prev \in DOMAIN taken : Disjoint(cpus, taken[prev])

TakeOverride(n) ==
  /\ pc = "overrides"
  /\ n \in todo
  /\ ExclusiveOverride(n)
  /\ OverrideFits(Tuning(n).cpus)
  /\ todo' = todo \ {n}
  /\ taken' = [m \in DOMAIN taken \cup {n} |->
                 IF m = n THEN Tuning(n).cpus ELSE taken[m]]
  /\ workload' = workload \ Tuning(n).cpus
  /\ UNCHANGED <<profile, flat, pc, free, plan, victimCPUs>>

RejectOverride(n) ==
  /\ pc = "overrides"
  /\ n \in todo
  /\ ExclusiveOverride(n)
  /\ ~OverrideFits(Tuning(n).cpus)
  /\ Fail

OverridesDone ==
  /\ pc = "overrides"
  /\ todo = {}
  /\ pc' = "workers"
  /\ free' = workload
  /\ victimCPUs' = IF Victim \in DOMAIN taken THEN taken[Victim] ELSE {}
  /\ UNCHANGED <<profile, flat, todo, taken, workload, plan>>

-----------------------------------------------------------------------------
(* Step 2: one assignment per process, in topology order. *)

Current == flat[Len(plan) + 1]

AtWorker(classes) ==
  /\ pc = "workers"
  /\ Len(plan) < Len(flat)
  /\ ClassOf(Current.comp) \in classes

\* Append the current process's assignment and leave rest as freeWorkload.
Assign(cpus, exclusive, source, rest) ==
  LET o == Tuning(Current.comp).gomaxprocsOverride IN
  /\ plan' = Append(plan,
       [comp |-> Current.comp, replica |-> Current.replica,
        class |-> ClassOf(Current.comp), cpus |-> cpus, exclusive |-> exclusive,
        gomaxprocs |-> IF o > 0 THEN o ELSE Cardinality(cpus),
        source |-> source])
  /\ free' = rest
  /\ UNCHANGED <<profile, flat, pc, todo, taken, workload, victimCPUs>>

AssignReserved ==
  /\ AtWorker({"reserved"})
  /\ Assign(profile.reserved, FALSE, "reserved", free)

AssignExclusiveOverride ==
  /\ AtWorker({"isolated-exclusive"})
  /\ Tuning(Current.comp).cpus # Unset
  /\ Assign(taken[Current.comp], TRUE, "override", free)

AssignExclusiveCarve ==
  /\ AtWorker({"isolated-exclusive"})
  /\ Tuning(Current.comp).cpus = Unset
  /\ Cardinality(free) >= Width(Current)
  /\ LET cpus == LastN(free, Width(Current))
     IN  Assign(cpus, TRUE, "back", free \ cpus)

RejectCarve ==
  /\ AtWorker({"isolated-exclusive"})
  /\ Tuning(Current.comp).cpus = Unset
  /\ Cardinality(free) < Width(Current)
  /\ Fail

AssignSharedOverride ==
  /\ AtWorker({"isolated-shared", "burstable"})
  /\ Tuning(Current.comp).cpus # Unset
  /\ Assign(Tuning(Current.comp).cpus, FALSE, "override", free)

\* Mutant: the slice is not removed from the free pool.
AssignSharedCarveKeep ==
  /\ AtWorker({"isolated-shared", "burstable"})
  /\ Tuning(Current.comp).cpus = Unset
  /\ free # {}
  /\ Assign(FirstN(free, Width(Current)), FALSE, "front", free)

\* take = min(width, len(freeWorkload)) CPUs from the front.
AssignSharedCarve ==
  /\ AtWorker({"isolated-shared", "burstable"})
  /\ Tuning(Current.comp).cpus = Unset
  /\ free # {}
  /\ LET cpus == FirstN(free, Width(Current))
     IN  Assign(cpus, FALSE, "front", free \ cpus)

\* Mutant: fall back to the reserved pool.
AssignSharedFallbackReserved ==
  /\ AtWorker({"isolated-shared", "burstable"})
  /\ Tuning(Current.comp).cpus = Unset
  /\ free = {}
  /\ Assign(profile.reserved, FALSE, "fallback", free)

\* Out of workload CPUs: fall back to the full workload pool.
AssignSharedFallback ==
  /\ AtWorker({"isolated-shared", "burstable"})
  /\ Tuning(Current.comp).cpus = Unset
  /\ free = {}
  /\ Assign(workload, FALSE, "fallback", free)

AssignBestEffort ==
  /\ AtWorker({"best-effort"})
  /\ Assign(workload, FALSE, "pool", free)

WorkersDone ==
  /\ pc = "workers"
  /\ Len(plan) = Len(flat)
  /\ pc' = "observer"
  /\ UNCHANGED <<profile, flat, todo, taken, workload, free, plan, victimCPUs>>

-----------------------------------------------------------------------------
(* Step 3: the observer on the reserved pool, then the victim. *)

AssignObserver ==
  /\ pc = "observer"
  /\ pc' = "victim"
  /\ plan' = Append(plan,
       [comp |-> Observer, replica |-> NoReplica, class |-> "reserved",
        cpus |-> profile.reserved, exclusive |-> FALSE,
        gomaxprocs |-> Cardinality(profile.reserved), source |-> "reserved"])
  /\ UNCHANGED <<profile, flat, todo, taken, workload, free, victimCPUs>>

\* Mutant: a missing class is not defaulted.
VictimClassRaw == Tuning(Victim).class

VictimClass == IF Tuning(Victim).class = Unset THEN "isolated-exclusive"
                                               ELSE Tuning(Victim).class

VictimOverride == IF Tuning(Victim).cpus = Unset THEN {} ELSE Tuning(Victim).cpus

\* Mutant: the default victim is placed on the isolated pool's last CPUs
\* without looking at what the workers were given.
CandidateAny == profile.isolated

\* The isolated CPUs that no assignment uses.
Candidate == profile.isolated \ UNION {plan[k].cpus : k \in DOMAIN plan}

PlaceVictim(cpus, source) ==
  /\ pc' = "check"
  /\ victimCPUs' = cpus
  /\ plan' = Append(plan,
       [comp |-> Victim, replica |-> NoReplica, class |-> VictimClass,
        cpus |-> cpus, exclusive |-> VictimClass = "isolated-exclusive",
        gomaxprocs |-> Cardinality(cpus), source |-> source])
  /\ UNCHANGED <<profile, flat, todo, taken, workload, free>>

AssignVictimOverride ==
  /\ pc = "victim"
  /\ VictimOverride # {}
  /\ PlaceVictim(VictimOverride, "override")

AssignVictimDefault ==
  /\ pc = "victim"
  /\ VictimOverride = {}
  /\ Cardinality(Candidate) >= VictimWidth
  /\ PlaceVictim(LastN(Candidate, VictimWidth), "default")

RejectVictim ==
  /\ pc = "victim"
  /\ VictimOverride = {}
  /\ Cardinality(Candidate) < VictimWidth
  /\ Fail

-----------------------------------------------------------------------------
(* Step 4: an exclusive cpuset overlaps no other assignment's. *)

\* Mutant: only pairs of exclusive assignments are compared.
NoOverlapAmongExclusive ==
  \A i, j \in DOMAIN plan :
    (i # j /\ plan[i].exclusive /\ plan[j].exclusive)
       => Disjoint(plan[i].cpus, plan[j].cpus)

\* Mutant: only the workers' exclusive cpusets are looked at.
NoOverlapOfWorkers ==
  \A i \in DOMAIN flat, j \in DOMAIN plan :
    (i # j /\ plan[i].exclusive) => Disjoint(plan[i].cpus, plan[j].cpus)

NoOverlap ==
  \A i, j \in DOMAIN plan :
    (i # j /\ plan[i].exclusive) => Disjoint(plan[i].cpus, plan[j].cpus)

AcceptPlan ==
  /\ pc = "check"
  /\ NoOverlap
  /\ pc' = "ok"
  /\ UNCHANGED <<profile, flat, todo, taken, workload, free, plan, victimCPUs>>

RejectPlan == pc = "check" /\ ~NoOverlap /\ Fail

-----------------------------------------------------------------------------
Next ==
  \/ RejectProfile \/ AcceptProfile
  \/ \E n \in Names : SkipOverride(n) \/ TakeOverride(n) \/ RejectOverride(n)
  \/ OverridesDone
  \/ AssignReserved
  \/ AssignExclusiveOverride \/ AssignExclusiveCarve \/ RejectCarve
  \/ AssignSharedOverride \/ AssignSharedCarve \/ AssignSharedFallback
  \/ AssignBestEffort
  \/ WorkersDone
  \/ AssignObserver
  \/ AssignVictimOverride \/ AssignVictimDefault \/ RejectVictim
  \/ AcceptPlan \/ RejectPlan

Spec == Init /\ [][Next]_vars

-----------------------------------------------------------------------------
(* FindAssignment: how the launcher gets a process's cpuset from the plan. *)

Match(a, comp, replica) ==
  a.comp = comp /\ (replica = NoReplica \/ a.replica = replica)

\* The position of the first match, 0 when there is none.
FindAssignment(comp, replica) ==
  LET hits == {k \in DOMAIN plan : Match(plan[k], comp, replica)}
  IN  IF hits = {} THEN 0 ELSE CHOOSE k \in hits : \A j \in hits : k <= j

-----------------------------------------------------------------------------
(* Properties *)

Accepted == pc = "ok"

\* The states in which freeWorkload has its meaning.
Carving == pc \in {"workers", "observer", "victim", "check", "ok"}

\* Type invariant.
TypeOK ==
  /\ profile \in Profiles
  /\ flat \in Workloads
  /\ pc \in {"validate", "overrides", "workers", "observer", "victim",
             "check", "ok", "error"}
  /\ todo \subseteq Names
  /\ DOMAIN taken \subseteq Names
  /\ \A n \in DOMAIN taken : taken[n] \subseteq CPU
  /\ workload \subseteq CPU
  /\ free \subseteq CPU
  /\ plan \in Seq(Assignment)
  /\ victimCPUs \subseteq CPU

\* Step 1 leaves a workload pool that no explicit exclusive cpuset reaches:
\* the reserved cpusets are pairwise disjoint, all isolated, and the pool is
\* exactly what is left, whatever the order the names were visited in
\* (plan.go 107-132; the comment there wants the plan deterministic).
OverridesReserved ==
  pc \notin {"validate", "error"} =>
    /\ \A m, n \in DOMAIN taken : m # n => Disjoint(taken[m], taken[n])
    /\ workload = profile.isolated \ UNION {taken[n] : n \in DOMAIN taken}
    /\ \A n \in DOMAIN taken : taken[n] \subseteq profile.isolated
    /\ pc # "overrides" =>
         DOMAIN taken = {n \in DOMAIN profile.componentMap : ExclusiveOverride(n)}

Carved == {k \in DOMAIN plan : plan[k].source \in {"front", "back"}}

\* The slices carved from the two ends of freeWorkload never meet: they are
\* nonempty, pairwise disjoint, and together with what is still free they are
\* the workload pool, so no CPU is lost or handed out twice by carving
\* (plan.go 177-222).
CarvesPartitionPool ==
  Carving =>
    /\ free = workload \ UNION {plan[k].cpus : k \in Carved}
    /\ \A k \in Carved : plan[k].cpus # {} /\ plan[k].cpus \subseteq workload
    /\ \A j, k \in Carved : j # k => Disjoint(plan[j].cpus, plan[k].cpus)

\* The invariant the planner exists for: in a plan it returns, the victim has
\* CPUs, all of them isolated when its class is the exclusive one, and then
\* no other process of the plan has one of them (plan.go 255-317).
VictimIsolated ==
  Accepted =>
    LET v == Len(plan) IN
    /\ plan[v].comp = Victim
    /\ plan[v].cpus = victimCPUs
    /\ victimCPUs # {}
    /\ VictimClass = "isolated-exclusive" =>
         /\ victimCPUs \subseteq profile.isolated
         /\ \A k \in DOMAIN plan \ {v} : Disjoint(plan[k].cpus, victimCPUs)

\* In a plan that is returned every process of the exclusive class is alone
\* on its CPUs, two replicas of one component included, and they are isolated
\* ones (profile.go 117-120 "No other component shares these CPUs").
ExclusiveMeansAlone ==
  Accepted =>
    \A k \in DOMAIN plan : plan[k].class = "isolated-exclusive" =>
      /\ plan[k].cpus \subseteq profile.isolated
      /\ \A j \in DOMAIN plan \ {k} : Disjoint(plan[j].cpus, plan[k].cpus)

\* Without an explicit cpuset a process never leaves its pool: reserved class
\* on the reserved pool only, every other class on isolated CPUs only, and
\* never on a CPU an explicit exclusive cpuset reserved (plan.go 171-228).
PoolsRespected ==
  Accepted =>
    \A k \in DOMAIN flat : plan[k].source # "override" =>
      IF plan[k].class = "reserved"
      THEN plan[k].cpus = profile.reserved
      ELSE /\ plan[k].cpus \subseteq profile.isolated
           /\ \A n \in DOMAIN taken : Disjoint(plan[k].cpus, taken[n])

\* A process that was given the whole workload pool (best-effort, or a shared
\* one that found freeWorkload empty) excludes every carved exclusive slice:
\* such a pair is never accepted, the plan is refused instead.
WholePoolExcludesExclusive ==
  Accepted =>
    ~ \E j, k \in DOMAIN flat :
        plan[j].source \in {"fallback", "pool"} /\ plan[k].source = "back"

\* Looking a process up in an accepted plan by its component and replica id,
\* as spawnWorker, spawnVictim and spawnObserver do, finds the assignment made
\* for that very process (plan.go 325-336 with topology.go 71-100), when no
\* topology component carries one of the two synthetic names.
LookupFindsOwn ==
  (Accepted /\ \A k \in DOMAIN flat : flat[k].comp \notin {Victim, Observer}) =>
    /\ \A k \in DOMAIN flat : FindAssignment(flat[k].comp, flat[k].replica) = k
    /\ FindAssignment(Observer, NoReplica) = Len(plan) - 1
    /\ FindAssignment(Victim, NoReplica) = Len(plan)

\* What each process claims of the isolated pool.
Demands ==
  [k \in DOMAIN flat |-> IF ClassOf(flat[k].comp) = "reserved" THEN 0 ELSE Width(flat[k])]

\* The sums of the first 0, 1, ... elements of a.
PartialSums(a) ==
  LET sum[k \in 0..Len(a)] == IF k = 0 THEN 0 ELSE sum[k - 1] + a[k]
  IN  sum

\* The planner refuses exactly what does not fit.  When no cpuset is given
\* explicitly, a plan is returned if and only if the widths of all processes
\* outside the reserved class and the victim's default width fit into the
\* isolated pool together, and no process is best-effort (it would take the
\* CPUs the victim is looking for) (plan.go 150-294).
AcceptsExactlyWhatFits ==
  (pc \in {"ok", "error"} /\ ValidProfile(profile)
     /\ \A n \in DOMAIN profile.componentMap : profile.componentMap[n].cpus = Unset) =>
  (Accepted <=>
     /\ \A k \in DOMAIN flat : ClassOf(flat[k].comp) # "best-effort"
     /\ PartialSums(Demands)[Len(flat)] + VictimWidth <= Cardinality(profile.isolated))
=============================================================================
