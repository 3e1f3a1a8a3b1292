----------------------------- MODULE MCWorkload -----------------------------
(***************************************************************************)
(* Workload with one or two goroutines per call and up to two bursts; a    *)
(* profile loads one primitive at a time, in the steady state and in its   *)
(* bursts, as the calls of different primitives share nothing.             *)
(***************************************************************************)
EXTENDS Workload

Load(name, steady, burst, times, target, paced) ==
  [goroutines |-> [k \in Call |-> IF k[1] # name THEN 0
                                  ELSE IF k[2] = 0 THEN steady ELSE burst],
   bursts |-> times, target |-> target, paced |-> paced]

MCLoads ==
  {Load("scheduler", 1, 0, 0, "none", paced) : paced \in BOOLEAN}
    \cup {Load("alloc", 1, 1, 2, "none", FALSE), Load("lock", 2, 0, 1, "none", FALSE),
          Load("syscall", 1, 1, 1, "loopback_tcp", FALSE),
          Load("syscall", 2, 0, 0, "loopback_tcp", FALSE),
          Load("syscall", 1, 1, 2, "tmpfs_fsync", FALSE),
          Load("syscall", 2, 1, 1, "none", FALSE)}
=============================================================================
