----------------------------- MODULE Preflight ------------------------------
(***************************************************************************)
(* pkg/tuning/preflight.go: the expectations a PerformanceProfile has of   *)
(* the host, as checks that pass or fail, and that are required or not.    *)
(*                                                                         *)
(* A kernel argument is Absent (also when its value is empty), or a list   *)
(* of leading tags such as managed_irq before a CPU list, which is         *)
(* Unreadable when ParseCPUList refuses it.  A count read from sysfs, and  *)
(* a governor, is Absent when the file is.                                 *)
(***************************************************************************)
EXTENDS Naturals, Sequences, FiniteSets

CONSTANTS Absent, Unreadable

Keys == {"isolcpus", "nohz_full", "rcu_nocbs"}

Check(name, required, pass) == [name |-> name, required |-> required, pass |-> pass]

\* stripManagedSuffix: one leading tag is dropped, if it is one of the two.
StripTag(v) ==
  IF v.tags # << >> /\ Head(v.tags) \in {"managed_irq", "domain"}
  THEN [v EXCEPT !.tags = Tail(@)] ELSE v

Parses(v) == v.tags = << >> /\ v.cpus # Unreadable

\* Mutant: a list that does not cover the isolated pool is only reported.
ArgCheckLenient(p, k, key) ==
  LET got == k.args[key] IN
  CASE got = Absent -> Check(key, p.rt, FALSE)
    [] got # Absent /\ ~Parses(StripTag(got)) -> Check(key, FALSE, FALSE)
    [] OTHER -> Check(key, FALSE, p.isolated \subseteq got.cpus)

ArgCheck(p, k, key) ==
  LET got == k.args[key] IN
  CASE got = Absent -> Check(key, p.rt, FALSE)
    [] got # Absent /\ ~Parses(StripTag(got)) -> Check(key, FALSE, FALSE)
    [] OTHER -> Check(key, p.rt /\ key = "isolcpus", p.isolated \subseteq got.cpus)

HugepagesCheck(page, k) ==
  Check("hugepages", TRUE, k.pages[page.size] # Absent /\ k.pages[page.size] >= page.count)

\* CPUs without a cpufreq directory are passed over.
GovernorCheck(p, k) ==
  Check("governor", TRUE, \A c \in p.isolated : k.governor[c] \in {Absent, "performance"})

\* Preflight: the report on profile p and kernel k.
Report(p, k) ==
  {ArgCheck(p, k, key) : key \in Keys}
    \cup {HugepagesCheck(page, k) : page \in p.pages}
    \cup (IF p.highPower THEN {GovernorCheck(p, k)} ELSE {})
    \cup (IF p.rt THEN {Check("realtime-kernel", TRUE, k.rt)} ELSE {})
    \cup (IF p.irqDisabled THEN {Check("irqbalance", FALSE, ~k.irqbalance)} ELSE {})

RequiredFailures(report) == {c \in report : c.required /\ ~c.pass}
=============================================================================
