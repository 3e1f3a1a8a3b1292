----------------------------- MODULE MCPlanner ------------------------------
(***************************************************************************)
(* Planner on one host with a reserved CPU and six isolated ones, two      *)
(* worker components, and every combination of the entries below.          *)
(***************************************************************************)
EXTENDS Planner, Topology

CONSTANTS a, b

MCNames == {a, b, Victim, Observer}
MCCPU == 0..7                    \* CPU 7 is in neither pool

Entry(classes, cpusets) ==
  [class : classes, cpus : cpusets, gomaxprocsOverride : {0}]

\* The ways to fill a componentMap from one set of entries per name, where a
\* name may also be missing.
Maps(E) ==
  UNION {{m \in [D -> UNION {E[n] : n \in D}] : \A n \in D : m[n] \in E[n]}
         : D \in SUBSET DOMAIN E}

ValidMaps ==
  Maps([n \in {a, b, Victim} |->
    CASE n = a -> Entry(Classes, {Unset, {2, 3}, {0, 1}})
      [] n = b -> Entry(Classes, {Unset, {3}})
      [] n = Victim -> Entry({"isolated-exclusive"}, {Unset, {}, {5, 6}, {3, 4}, {0, 6}})
                         \cup Entry({"burstable"}, {{5}})])

ProfilesWith(reserved, isolated, maps, defaults) ==
  [reserved : {reserved}, isolated : {isolated},
   componentMap : maps, defaultClass : defaults]

\* Profiles that Validate refuses, one for each of its conditions.
InvalidProfiles ==
  ProfilesWith({}, {1}, {<< >>}, {Unset})
    \cup ProfilesWith({0}, {}, {<< >>}, {Unset})
    \cup ProfilesWith({0, 1}, {1, 2}, {<< >>}, {Unset})
    \cup ProfilesWith({0}, 1..6, {<< >>}, {"unknown"})
    \cup ProfilesWith({0}, 1..6, Maps([n \in {a} |->
           Entry({"unknown", Unset}, {Unset}) \cup Entry({"burstable"}, {{7}})]), {Unset})

MCProfiles ==
  ProfilesWith({0}, 1..6, ValidMaps, {Unset, "isolated-exclusive", "best-effort"})
    \cup InvalidProfiles

Process(n, r, w) == [name |-> n, replicas |-> r, gomaxprocs |-> 0, idealThreads |-> w]

\* One process of each, a spec with replicas, one component in two specs, a
\* width of zero, and a fleet that does not fit.
Topologies ==
  {<<Process(a, 1, 2), Process(b, 1, 1)>>,
   <<Process(a, 2, 1)>>,
   <<Process(a, 1, 1), Process(b, 1, 2), Process(a, 1, 2)>>,
   <<Process(b, 0, 0), Process(a, 2, 2)>>,
   <<Process(a, 3, 2), Process(b, 1, 1)>>}

ASSUME TopologyAssumption == \A t \in Topologies : ValidTopology(t)

MCWorkloads == {Flatten(t, 0) : t \in Topologies}
=============================================================================
