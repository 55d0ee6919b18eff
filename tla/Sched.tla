------------------------------- MODULE Sched -------------------------------
(***************************************************************************)
(* The process table and round-robin scheduler of the kernel              *)
(* (src/kernel/src/sched.rs).  A process is a slot of the fixed table      *)
(* PROCS; its saved TrapFrame pointer, kernel stack and page-table root    *)
(* are identified with the slot itself (tf_rsp, kstack_top and cr3 are     *)
(* distinct per process and never change), so that "TSS.rsp0 holds the     *)
(* kernel stack of p" is rsp0 = p and "next_cr3 holds the root of p" is    *)
(* nextCr3 = p.  This module declares the scheduler's state and the        *)
(* helpers of sched.rs; the actions that use them are the trap handlers    *)
(* of module Kernel.                                                       *)
(***************************************************************************)
EXTENDS Naturals, FiniteSets, FiniteSetsExt

CONSTANTS
  MaxProcs,      \* MAX_PROCS: slots of the process table (8 in the code)
  CapsPerProc,   \* length of Proc.caps (32 in the code)
  MaxEndpoints   \* MAX_ENDPOINTS of ipc.rs (32 in the code)

ASSUME SchedAssumption ==
  /\ MaxProcs \in Nat \ {0}
  /\ CapsPerProc \in Nat \ {0}
  /\ MaxEndpoints \in Nat \ {0}

Pids   == 0 .. MaxProcs - 1       \* process ids = slot indexes
CapIdx == 1 .. CapsPerProc        \* capability indexes (1-based, 0 = none)
EpIds  == 1 .. MaxEndpoints       \* endpoint ids (1-based, 0 = none)

VARIABLES
  current,    \* CURRENT: the pid whose user context is on the CPU
  alive,      \* PROCS[p].alive
  runnable,   \* PROCS[p].runnable
  blockedEp,  \* PROCS[p].blocked_ep (0 = not blocked)
  caps,       \* PROCS[p].caps: capability index -> endpoint id (0 = empty)
  nextCr3,    \* MANTRA_NEXT_CR3: the root the trampoline loads on a switch
  rsp0        \* TSS.rsp0, written by gdt::set_rsp0

schedVars == <<current, alive, runnable, blockedEp, caps, nextCr3, rsp0>>

(***************************************************************************)
(* pick_next_runnable(cur): scan the slots cur+1, cur+2, ... modulo        *)
(* MAX_PROCS and return the first alive and runnable one; cur when the     *)
(* scan of MAX_PROCS slots finds none.  rn is the runnable flags the scan  *)
(* reads (a blocking receive clears its own flag before it yields).        *)
(***************************************************************************)
(* Bug variant: a scan from slot 0 that prefers low pids.                  *)
PickFirstRunnable(rn, cur) ==
  LET others == {p \in Pids : p # cur /\ alive[p] /\ rn[p]}
  IN  IF others = {} THEN cur ELSE Min(others)

PickNextIn(rn, cur) ==
  LET offs == {k \in 1 .. MaxProcs : alive[(cur + k) % MaxProcs]
                                      /\ rn[(cur + k) % MaxProcs]}
  IN  IF offs = {} THEN cur ELSE (cur + Min(offs)) % MaxProcs

(* Bug variant: a test that forgets to exclude the caller.                  *)
HasAnyRunnable(cur) == \E p \in Pids : alive[p] /\ runnable[p]

(* has_other_runnable(): some alive, runnable slot other than cur.          *)
HasOtherRunnable(cur) ==
  \E p \in Pids : p # cur /\ alive[p] /\ runnable[p]

(***************************************************************************)
(* switch_from(cur_tf) with the runnable flags rn: pick the next task; if  *)
(* it is cur, return 0 ("stay") and change nothing; otherwise write        *)
(* TSS.rsp0 and MANTRA_NEXT_CR3 from the chosen slot and make it CURRENT.  *)
(* Saving cur_tf into PROCS[cur].tf_rsp is implicit: the saved frame of a  *)
(* process is its entry of Kernel's frame variable.                        *)
(***************************************************************************)
SwitchFrom(rn, cur) ==
  LET next == PickNextIn(rn, cur) IN
  IF next = cur
    THEN UNCHANGED <<current, nextCr3, rsp0>>
    ELSE /\ rsp0' = next
         /\ nextCr3' = next
         /\ current' = next

(* switch_from returns a non-zero TrapFrame pointer, i.e. it switched.      *)
Switches(rn, cur) == PickNextIn(rn, cur) # cur

(***************************************************************************)
(* cap_lookup_current(cap) for process p: the endpoint id named by cap,    *)
(* or 0 (None) for cap 0, an index past the table, or an empty slot.       *)
(***************************************************************************)
CapLookup(p, cap) ==
  IF cap \in CapIdx THEN caps[p][cap] ELSE 0

(***************************************************************************)
(* cap_alloc_for(pid, endpoint_id) on the table t: the index of the first  *)
(* empty slot (0 = None: endpoint 0 or a full table), and the table with   *)
(* endpoint_id stored there.                                               *)
(***************************************************************************)
CapAllocIdx(t, e) ==
  LET free == {i \in CapIdx : t[i] = 0}
  IN  IF e = 0 \/ free = {} THEN 0 ELSE Min(free)

CapAllocTable(t, e) ==
  LET i == CapAllocIdx(t, e)
  IN  IF i = 0 THEN t ELSE [t EXCEPT ![i] = e]

(* An empty capability table, as spawn_proc and install_first write it.    *)
NoCaps == [i \in CapIdx |-> 0]

(***************************************************************************)
(* wake(pid): an alive process becomes runnable and unblocked.             *)
(***************************************************************************)
Wake(p) ==
  IF alive[p]
    THEN /\ runnable' = [runnable EXCEPT ![p] = TRUE]
         /\ blockedEp' = [blockedEp EXCEPT ![p] = 0]
    ELSE UNCHANGED <<runnable, blockedEp>>

(***************************************************************************)
(* The table after install_first(tf, kstack, cr3) and gdt::set_rsp0 in     *)
(* enter_first_user: slot 0 alive and runnable, the rest empty, CURRENT 0, *)
(* next_cr3 and TSS.rsp0 those of slot 0.                                  *)
(***************************************************************************)
SchedInit ==
  /\ current = 0
  /\ alive = [p \in Pids |-> p = 0]
  /\ runnable = [p \in Pids |-> p = 0]
  /\ blockedEp = [p \in Pids |-> 0]
  /\ caps = [p \in Pids |-> NoCaps]
  /\ nextCr3 = 0
  /\ rsp0 = 0

SchedTypeOK ==
  /\ current \in Pids
  /\ alive \in [Pids -> BOOLEAN]
  /\ runnable \in [Pids -> BOOLEAN]
  /\ blockedEp \in [Pids -> 0 .. MaxEndpoints]
  /\ caps \in [Pids -> [CapIdx -> 0 .. MaxEndpoints]]
  /\ nextCr3 \in Pids
  /\ rsp0 \in Pids
=============================================================================
