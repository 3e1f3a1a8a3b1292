----------------------------- MODULE Supervisor -----------------------------
(***************************************************************************)
(* What chaos-launcher promises about its children, with none of its       *)
(* machinery: no signals, channels, timers, verification or goroutines.    *)
(* Launcher implements it (Launcher!Supervises).                           *)
(*                                                                         *)
(* The promise has one hole, which is in the code (fatal calls os.Exit): a *)
(* launcher that gives up before every child was tried leaves those that   *)
(* it has started behind.  Once the last one was tried it ends only after  *)
(* all of them, with success or without; and once it has been told to stop *)
(* it does end, whatever the children do.                                  *)
(***************************************************************************)
CONSTANT Child

VARIABLES
  waiting,   \* the children not tried yet
  live,      \* the children that run
  told,      \* the launcher was told to stop
  outcome    \* "none" while the launcher runs, "ok" or "fatal"

vars == <<waiting, live, told, outcome>>

Init ==
  /\ waiting = Child
  /\ live = {}
  /\ told = FALSE
  /\ outcome = "none"

Up == outcome = "none"

Start(c) ==
  /\ Up /\ ~told
  /\ c \in waiting
  /\ waiting' = waiting \ {c}
  /\ live' = live \cup {c}
  /\ UNCHANGED <<told, outcome>>

\* A child that cannot be started is passed over.
Skip(c) ==
  /\ Up
  /\ c \in waiting
  /\ waiting' = waiting \ {c}
  /\ UNCHANGED <<live, told, outcome>>

\* A child ends, also after the launcher did.
Leave(c) ==
  /\ c \in live
  /\ live' = live \ {c}
  /\ UNCHANGED <<waiting, told, outcome>>

Stop ==
  /\ Up /\ ~told
  /\ told' = TRUE
  /\ UNCHANGED <<waiting, live, outcome>>

GiveUp ==
  /\ Up
  /\ waiting # {}
  /\ outcome' = "fatal"
  /\ UNCHANGED <<waiting, live, told>>

Finish ==
  /\ Up
  /\ waiting = {} /\ live = {}
  /\ outcome' \in {"ok", "fatal"}
  /\ UNCHANGED <<waiting, live, told>>

Next ==
  \/ \E c \in Child : Start(c) \/ Skip(c) \/ Leave(c)
  \/ Stop \/ GiveUp \/ Finish

SafeSpec == Init /\ [][Next]_vars

Spec ==
  /\ SafeSpec
  /\ \A c \in Child : WF_vars(told /\ Skip(c)) /\ WF_vars(Up /\ told /\ Leave(c))
  /\ WF_vars(told /\ Finish)
=============================================================================
