------------------------------- MODULE MCHost -------------------------------
(***************************************************************************)
(* Host with the victim and two workers, two runs, one host per backend    *)
(* and per way a backend or preflight may fail, and profiles that differ   *)
(* in what they limit.                                                     *)
(***************************************************************************)
EXTENDS Host

CONSTANTS victim, w1, w2

MCOrder == <<victim, w1, w2>>
MCPlanOrder == <<w1, w2, victim>>
MCOnline == 0..3                  \* CPU 4 is offline
Isolated == {1, 2, 3, 4}

Profile(rt) ==
  [isolated |-> Isolated, rt |-> rt, pages |-> {[size |-> "1G", count |-> 2]},
   highPower |-> rt, irqDisabled |-> rt]

Assignment(cpus, exclusive, mem) ==
  [cpus |-> cpus, exclusive |-> exclusive, mem |-> mem, rt |-> exclusive]

Plan(rt, v, a, b) ==
  [profile |-> Profile(rt),
   want |-> [c \in Child |-> CASE c = victim -> v [] c = w1 -> a [] c = w2 -> b]]

\* Slices for everybody and limits for the workers; the next profile's, without limits, where a
\* slice is partly offline; a pool that ran empty; explicit cpusets that overlap,
\* one of them with every CPU.
MCPlans ==
  {Plan(TRUE, Assignment({3}, TRUE, 0), Assignment({1}, FALSE, 1), Assignment({2}, FALSE, 2)),
   Plan(FALSE, Assignment({3}, TRUE, 0), Assignment({2, 4}, FALSE, 0), Assignment({1}, FALSE, 0)),
   Plan(FALSE, Assignment({1, 2, 3}, TRUE, 0), Assignment({}, FALSE, 0), Assignment({4}, FALSE, 0)),
   Plan(FALSE, Assignment({3, 4}, FALSE, 0), Assignment({1, 2}, FALSE, 2), Assignment(0..4, FALSE, 1))}

MCUnits ==
  {[c \in Child |-> CASE c = victim -> "v" [] c = w1 -> "a" [] c = w2 -> b] : b \in {"a", "b"}}

Arg(tags, cpus) == [tags |-> tags, cpus |-> cpus]

Kernel(isolcpus, rt) ==
  [args |-> [k \in Keys |-> IF k = "isolcpus" THEN isolcpus ELSE Arg(<< >>, {1, 2})],
   pages |-> [s \in {"1G"} |-> 2],
   governor |-> [c \in Isolated |-> IF c = 4 THEN Absent ELSE "performance"],
   rt |-> rt, irqbalance |-> TRUE]

Fit == Kernel(Arg(<<"managed_irq">>, Isolated), TRUE)

MCHost(available, requested, root, chrt, kernel) ==
  [available |-> available, requested |-> requested, root |-> root, chrt |-> chrt,
   kernel |-> kernel]

AllControllers == {"cpuset", "cpu", "memory"}

MCHosts ==
  {MCHost(Backends, "", AllControllers, TRUE, Fit),
   MCHost(Backends, "cgroup-v2", AllControllers, TRUE, Fit),
   MCHost({"cgroup-v2", "taskset"}, "", {"cpuset"}, TRUE, Fit),
   MCHost({"cgroup-v2"}, "", {}, TRUE, Fit),
   MCHost({"taskset"}, "", {}, TRUE, Fit),
   MCHost({"taskset"}, "", {}, FALSE, Fit),
   MCHost({"taskset"}, "cgroup-v2", {}, TRUE, Fit),
   MCHost({}, "", {}, TRUE, Fit)}
  \cup
  {MCHost({"systemd-run"}, "", AllControllers, TRUE, k) : k \in
    {Kernel(Arg(<< >>, {1, 2}), TRUE), Kernel(Arg(<<"managed_irq", "domain">>, {1, 2}), TRUE)}}
  \cup
  {MCHost({"taskset"}, "", {}, FALSE, k) : k \in
    {Kernel(Absent, TRUE), Kernel(Arg(<< >>, Isolated), FALSE),
     [Fit EXCEPT !.pages["1G"] = 1], [Fit EXCEPT !.governor[1] = "powersave"]}}
=============================================================================
