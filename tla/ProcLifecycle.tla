--------------------------- MODULE ProcLifecycle ---------------------------
(***************************************************************************)
(* What the scheduler promises about the life of a process, with no table, *)
(* scan or flag in sight.  A slot is free, ready, running or blocked on an *)
(* endpoint; exactly one process runs.  The CPU passes from the running    *)
(* process to a ready one, which leaves the old one ready (a switch) or   *)
(* blocked on an endpoint (a receive that waits); a blocked process        *)
(* becomes ready only when it is woken; a free slot only becomes ready    *)
(* (a spawn).  Nothing else changes a phase.                               *)
(***************************************************************************)
EXTENDS Naturals

CONSTANTS
  Pids,   \* the slots of the process table
  EpIds   \* the endpoints

VARIABLES
  phase,  \* phase[p]: "free", "ready", "running" or "blocked"
  on      \* on[p]: the endpoint a blocked p waits on, 0 for any other phase

vars == <<phase, on>>

Init ==
  /\ \E p0 \in Pids : phase = [p \in Pids |-> IF p = p0 THEN "running" ELSE "free"]
  /\ on = [p \in Pids |-> 0]

(* The running p gives the CPU to the ready q and stays ready.             *)
Switch(p, q) ==
  /\ phase[p] = "running"
  /\ phase[q] = "ready"
  /\ phase' = [phase EXCEPT ![p] = "ready", ![q] = "running"]
  /\ UNCHANGED on

(* The running p blocks on endpoint e and the ready q gets the CPU.        *)
Block(p, e, q) ==
  /\ phase[p] = "running"
  /\ phase[q] = "ready"
  /\ phase' = [phase EXCEPT ![p] = "blocked", ![q] = "running"]
  /\ on' = [on EXCEPT ![p] = e]

(* The blocked p is woken and becomes ready.                               *)
Wake(p) ==
  /\ phase[p] = "blocked"
  /\ phase' = [phase EXCEPT ![p] = "ready"]
  /\ on' = [on EXCEPT ![p] = 0]

(* A free slot receives a new process, ready to run.                       *)
Spawn(p) ==
  /\ phase[p] = "free"
  /\ phase' = [phase EXCEPT ![p] = "ready"]
  /\ on' = [on EXCEPT ![p] = 0]

Next ==
  \E p \in Pids :
    \/ Wake(p)
    \/ Spawn(p)
    \/ \E q \in Pids : Switch(p, q) \/ \E e \in EpIds : Block(p, e, q)

Spec == Init /\ [][Next]_vars
=============================================================================
