------------------------------ MODULE Topology ------------------------------
(***************************************************************************)
(* pkg/topology: a topology document is a list of process groups, each     *)
(* filed under a component name, and Flatten expands it into the list of   *)
(* individual processes the launcher spawns.                               *)
(*                                                                         *)
(* The document's two nested lists (components, and the process specs of   *)
(* one component) are one sequence of process specs here, each carrying    *)
(* its component's name: Flatten walks both lists in order and treats a    *)
(* component name that occurs twice exactly like one that occurs once.     *)
(* A replica identifier "<component>-<i>" is the pair of the component     *)
(* name (field comp) and the number i (field replica).                     *)
(***************************************************************************)
EXTENDS Integers, Sequences, FiniteSets

\* One ProcessSpec of a component, with the fields the planner reads.
ProcessSpec(Names, Numbers) ==
  [name : Names, replicas : Numbers, gomaxprocs : Numbers, idealThreads : Numbers]

\* Topology.Validate: the document has a component, and no spec asks for a
\* negative number of replicas or a negative GOMAXPROCS (idealThreads is not
\* looked at).
ValidTopology(t) ==
  /\ t # << >>
  /\ \A k \in DOMAIN t : t[k].replicas >= 0 /\ t[k].gomaxprocs >= 0

\* indexes[name]: how many processes of the component are already in out.
NextIndex(out, name) == Cardinality({k \in DOMAIN out : out[k].comp = name})

Replicas(p) == IF p.replicas <= 0 THEN 1 ELSE p.replicas

\* Mutant: the replica counter restarts with every process spec.
ExpandSpecRestart(out, p, gomaxprocsOverride) ==
  out \o [i \in 1..Replicas(p) |->
            [comp |-> p.name, replica |-> i - 1,
             gomaxprocs |-> p.gomaxprocs, idealThreads |-> p.idealThreads]]

\* The processes of one spec, appended to those of the specs before it.
ExpandSpec(out, p, gomaxprocsOverride) ==
  out \o [i \in 1..Replicas(p) |->
            [comp         |-> p.name,
             replica      |-> NextIndex(out, p.name) + i - 1,
             gomaxprocs   |-> IF gomaxprocsOverride > 0 THEN gomaxprocsOverride
                                                        ELSE p.gomaxprocs,
             idealThreads |-> p.idealThreads]]

\* out[k] is what the first k specs have been expanded into.
Flatten(t, gomaxprocsOverride) ==
  LET out[k \in 0..Len(t)] ==
        IF k = 0 THEN << >> ELSE ExpandSpec(out[k - 1], t[k], gomaxprocsOverride)
  IN  out[Len(t)]
=============================================================================
