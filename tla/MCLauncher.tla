----------------------------- MODULE MCLauncher -----------------------------
(***************************************************************************)
(* Launcher with three children, the observer, the victim and a worker, of *)
(* which any may be stubborn, killed or gone while the others are not; and *)
(* with the two that it takes for terminate to hang.                       *)
(***************************************************************************)
EXTENDS Launcher

CONSTANTS observer, victim, worker

Two == <<observer, worker>>
Three == <<observer, victim, worker>>

\* Any child may ignore SIGTERM.
AnyStubborn == SUBSET Child

AllStubborn == {Child}
=============================================================================
