------------------------ MODULE KernelLifecycleProofs ------------------------
(***************************************************************************)
(* The scheduler of module Kernel implements the process life cycle of     *)
(* ProcLifecycle under the mapping PhaseOf, which reads a slot's phase off *)
(* its alive and runnable flags and CURRENT, and blocked_ep as the         *)
(* endpoint it waits on.  Each handler is one step of the life cycle:      *)
(*   - the timer and YIELD switch with pick_next_runnable, which only      *)
(*     lands on an alive, runnable slot other than the caller (Switch), or *)
(*     stay (a stutter);                                                   *)
(*   - the blocking receive clears the caller's flag and switches to the   *)
(*     slot pick_next_runnable finds, which has_other_runnable guarantees  *)
(*     (Block);                                                            *)
(*   - a send that pops a waiter wakes a process the ring holds, and       *)
(*     WaiterRingSound says that process is blocked (Wake);                *)
(*   - PROC_SPAWN fills the first slot that is not alive (Spawn);          *)
(*   - every other step leaves CURRENT and the flags alone (a stutter).    *)
(* CurrentRunnable (KernelProofs) and WaiterRingSound (KernelIpcProofs)    *)
(* are the invariants the argument rests on.                               *)
(***************************************************************************)
EXTENDS KernelIpcProofs

USE SchedAssumption, IpcAssumption, KernelAssumption, WaiterRoom

(* The abstract state the mapping gives: phases and blocked endpoints.     *)
LifeVars == <<PhaseOf, blockedEp>>

(* A step that leaves CURRENT and the alive, runnable and blocked_ep       *)
(* fields alone is a stutter of the life cycle.                            *)
LEMMA LifeQuiet ==
  ASSUME UNCHANGED <<current, alive, runnable, blockedEp>>
  PROVE  UNCHANGED LifeVars
BY DEF LifeVars, PhaseOf

(* enter_first_user leaves process 0 running and every other slot free.    *)
LEMMA LifeInit ==
  Init => Lifecycle!Init
<1>. SUFFICES ASSUME Init PROVE Lifecycle!Init
  OBVIOUS
<1>1. 0 \in Pids
  BY DEF Pids
<1>2. PhaseOf = [p \in Pids |-> IF p = 0 THEN "running" ELSE "free"]
  BY DEF Init, SchedInit, PhaseOf
<1>3. blockedEp = [p \in Pids |-> 0]
  BY DEF Init, SchedInit
<1>. QED BY <1>1, <1>2, <1>3 DEF Lifecycle!Init

(* The timer and YIELD: switch_from over the runnable flags hands the CPU  *)
(* from the running process to a ready one, or changes nothing.            *)
LEMMA LifeResched ==
  ASSUME TypeOK, CurrentRunnable, Resched(runnable),
         UNCHANGED <<alive, runnable, blockedEp>>
  PROVE  [Lifecycle!Next]_LifeVars
<1>1. /\ current \in Pids
      /\ alive \in [Pids -> BOOLEAN]
      /\ runnable \in [Pids -> BOOLEAN]
  BY DEF TypeOK, SchedTypeOK
<1>2. CASE Switches(runnable, current)
  <2>1. PICK q \in Pids : q = PickNextIn(runnable, current)
    BY <1>1, PickNextType
  <2>2. q # current /\ alive[q] /\ runnable[q]
    BY <1>1, <1>2, <2>1, PickNextRunnable DEF Switches
  <2>3. current' = q
    BY <1>2, <2>1 DEF Resched, SwitchFrom, Switches
  <2>4. PhaseOf[current] = "running" /\ PhaseOf[q] = "ready"
    BY <1>1, <2>2 DEF CurrentRunnable, PhaseOf
  <2>5. PhaseOf' = [PhaseOf EXCEPT ![current] = "ready", ![q] = "running"]
    BY <1>1, <2>2, <2>3 DEF CurrentRunnable, PhaseOf
  <2>6. Lifecycle!Switch(current, q)
    BY <2>4, <2>5 DEF Lifecycle!Switch
  <2>. QED BY <1>1, <2>6 DEF Lifecycle!Next, LifeVars
<1>3. CASE ~Switches(runnable, current)
  <2>1. UNCHANGED current
    BY <1>3 DEF Resched, SwitchFrom, Switches
  <2>. QED BY <2>1, LifeQuiet
<1>. QED BY <1>2, <1>3

(* The blocking branch of IPC_RECV: the caller's flag is cleared, it is    *)
(* blocked on e, and the CPU goes to the slot pick_next_runnable finds,   *)
(* which exists because has_other_runnable held.                           *)
LEMMA LifeBlock ==
  ASSUME TypeOK, CurrentRunnable, NEW e \in EpIds, NEW ptr, NEW maxLen,
         NEW num, RecvBlock(current, e, ptr, maxLen, num),
         HasOtherRunnable(current)
  PROVE  [Lifecycle!Next]_LifeVars
<1>1. /\ current \in Pids
      /\ alive \in [Pids -> BOOLEAN]
      /\ runnable \in [Pids -> BOOLEAN]
  BY DEF TypeOK, SchedTypeOK
<1>2. /\ [runnable EXCEPT ![current] = FALSE] \in [Pids -> BOOLEAN]
      /\ \E p \in Pids : p # current /\ alive[p]
                         /\ [runnable EXCEPT ![current] = FALSE][p]
  BY <1>1 DEF HasOtherRunnable
<1>3. PICK q \in Pids : q = PickNextIn([runnable EXCEPT ![current] = FALSE],
                                       current)
  BY <1>1, <1>2, PickNextType
<1>4. /\ q # current
      /\ alive[q] /\ [runnable EXCEPT ![current] = FALSE][q]
  BY <1>1, <1>2, <1>3, PickNextRunnable
<1>5. q # current /\ alive[q] /\ runnable[q]
  BY <1>1, <1>4
<1>6. /\ current' = q
      /\ alive' = alive
      /\ runnable' = [runnable EXCEPT ![current] = FALSE]
      /\ blockedEp' = [blockedEp EXCEPT ![current] = e]
  BY <1>3, <1>4 DEF RecvBlock, Resched, SwitchFrom
<1>7. PhaseOf[current] = "running" /\ PhaseOf[q] = "ready"
  BY <1>1, <1>5 DEF CurrentRunnable, PhaseOf
<1>8. PhaseOf' = [PhaseOf EXCEPT ![current] = "blocked", ![q] = "running"]
  BY <1>1, <1>5, <1>6 DEF CurrentRunnable, PhaseOf
<1>9. Lifecycle!Block(current, e, q)
  BY <1>6, <1>7, <1>8 DEF Lifecycle!Block
<1>. QED BY <1>1, <1>9 DEF Lifecycle!Next, LifeVars

(* deliver_ipc to a blocked receiver: on a copy fault nothing changes for  *)
(* the scheduler; otherwise wake(pid) makes the receiver ready.           *)
LEMMA LifeDeliver ==
  ASSUME TypeOK, CurrentRunnable, NEW pid \in Pids, alive[pid],
         ~runnable[pid], NEW s, NEW n, NEW x, DeliverIpc(s, pid, n, x),
         UNCHANGED <<current, alive>>
  PROVE  [Lifecycle!Next]_LifeVars
<1>. DEFINE k == Min({Staged(frame[pid].rdx), n})
<1>1. CASE CopyFails(frame[pid].rsi, k)
  <2>1. UNCHANGED <<runnable, blockedEp>>
    BY <1>1 DEF DeliverIpc
  <2>. QED BY <2>1, LifeQuiet
<1>2. CASE ~CopyFails(frame[pid].rsi, k)
  <2>1. /\ runnable' = [runnable EXCEPT ![pid] = TRUE]
        /\ blockedEp' = [blockedEp EXCEPT ![pid] = 0]
    BY <1>2 DEF DeliverIpc, Wake
  <2>2. /\ current \in Pids
        /\ alive \in [Pids -> BOOLEAN]
        /\ runnable \in [Pids -> BOOLEAN]
        /\ pid # current
    BY DEF TypeOK, SchedTypeOK, CurrentRunnable
  <2>3. PhaseOf[pid] = "blocked"
    BY <2>2 DEF PhaseOf
  <2>4. PhaseOf' = [PhaseOf EXCEPT ![pid] = "ready"]
    BY <2>1, <2>2 DEF PhaseOf
  <2>5. Lifecycle!Wake(pid)
    BY <2>1, <2>3, <2>4 DEF Lifecycle!Wake
  <2>. QED BY <2>5 DEF Lifecycle!Next, LifeVars
<1>. QED BY <1>1, <1>2

(* The send path of IPC_SEND and IPC_SEND_CAP: only a send that pops a     *)
(* waiter touches a flag, and the waiter it pops is blocked.               *)
LEMMA LifeSend ==
  ASSUME TypeOK, CurrentRunnable, WaiterRingSound, NEW cap, NEW len,
         NEW ptr, NEW x, Send(current, cap, len, ptr, x)
  PROVE  [Lifecycle!Next]_LifeVars
<1>. DEFINE n == Staged(len)
            e == CapLookup(current, cap)
<1>1. UNCHANGED <<current, alive>>
  BY DEF Send
<1>2. CASE ~(CopyFails(ptr, n) \/ e = 0) /\ e \in EpIds /\ ~WaiterEmpty(e)
  <2>1. DeliverIpc(current, WaiterFront(e), n, x)
    BY <1>2 DEF Send
  <2>2. wHead[e] \in WaitSlots(e)
    BY <1>2 DEF WaitSlots, WaiterEmpty, WaiterRingSound, TypeOK, IpcTypeOK
  <2>3. WaiterFront(e) \in WaitingOn(e)
    BY <2>2 DEF WaitingOn, WaiterFront
  <2>4. /\ WaiterFront(e) \in Pids
        /\ alive[WaiterFront(e)]
        /\ ~runnable[WaiterFront(e)]
    BY <1>2, <2>3, WaitingOnPids DEF WaiterRingSound
  <2>. QED BY <1>1, <2>1, <2>4, LifeDeliver
<1>3. CASE ~(~(CopyFails(ptr, n) \/ e = 0) /\ e \in EpIds /\ ~WaiterEmpty(e))
  <2>1. UNCHANGED <<runnable, blockedEp>>
    BY <1>3 DEF Send
  <2>. QED BY <1>1, <2>1, LifeQuiet
<1>. QED BY <1>2, <1>3

(* IPC_RECV and IPC_RECV_CAP: the blocking branch is a Block of the        *)
(* caller on the endpoint its capability names; no other branch touches   *)
(* CURRENT or a flag.                                                      *)
LEMMA LifeRecv ==
  ASSUME TypeOK, CurrentRunnable, NEW cap, NEW maxLen \in Nat, NEW ptr,
         NEW withCap, NEW num, Recv(current, cap, maxLen, ptr, withCap, num)
  PROVE  [Lifecycle!Next]_LifeVars
<1>. DEFINE n   == Staged(maxLen)
            e   == CapLookup(current, cap)
            got == EpRecvRet(current, cap, n)
            blocks == /\ got[1] = ErrEmpty
                      /\ HasOtherRunnable(current)
                      /\ ~WaiterFull(e)
<1>1. current \in Pids
  BY DEF TypeOK, SchedTypeOK
<1>2. CASE blocks
  <2>1. got[1] # ErrInval => e \in EpIds
    BY <1>1, StagedType, EpRecvRetType
  <2>2. e \in EpIds
    BY <1>2, <2>1 DEF ErrInval, ErrEmpty
  <2>3. RecvBlock(current, e, ptr, maxLen, num)
    BY <1>2 DEF Recv, ErrEmpty
  <2>. QED BY <1>2, <2>2, <2>3, LifeBlock
<1>3. CASE ~blocks
  <2>1. \/ UNCHANGED <<schedVars, cr3>>
        \/ RecvInstall(current, withCap, got)
    BY <1>3 DEF Recv
  <2>2. UNCHANGED <<current, alive, runnable, blockedEp>>
    BY <2>1 DEF RecvInstall, schedVars
  <2>. QED BY <2>2, LifeQuiet
<1>. QED BY <1>2, <1>3

(* PROC_SPAWN fills the first slot that is not alive, which is free and   *)
(* becomes ready; a spawn that fails changes no flag.                      *)
LEMMA LifeSpawn ==
  ASSUME TypeOK, CurrentRunnable, NEW c \in Pids, NEW prog, NEW share,
         SysSpawn(c, prog, share)
  PROVE  [Lifecycle!Next]_LifeVars
<1>. DEFINE free == {p \in Pids : ~alive[p]}
            pid  == Min(free)
<1>1. UNCHANGED current
  BY DEF SysSpawn
<1>2. CASE prog # 1 \/ free = {}
  <2>1. UNCHANGED <<alive, runnable, blockedEp>>
    BY <1>2 DEF SysSpawn
  <2>. QED BY <1>1, <2>1, LifeQuiet
<1>3. CASE ~(prog # 1 \/ free = {})
  <2>1. pid \in free
    <3>1. free \in SUBSET Nat /\ free # {}
      BY <1>3 DEF Pids
    <3>. QED BY <3>1, MinNat
  <2>2. /\ alive' = [alive EXCEPT ![pid] = TRUE]
        /\ runnable' = [runnable EXCEPT ![pid] = TRUE]
        /\ blockedEp' = [blockedEp EXCEPT ![pid] = 0]
    BY <1>3 DEF SysSpawn
  <2>3. /\ current \in Pids
        /\ alive \in [Pids -> BOOLEAN]
        /\ runnable \in [Pids -> BOOLEAN]
        /\ pid \in Pids /\ pid # current
    BY <2>1 DEF TypeOK, SchedTypeOK, CurrentRunnable
  <2>4. PhaseOf[pid] = "free"
    BY <2>1, <2>3 DEF PhaseOf
  <2>5. PhaseOf' = [PhaseOf EXCEPT ![pid] = "ready"]
    BY <1>1, <2>2, <2>3 DEF PhaseOf
  <2>6. Lifecycle!Spawn(pid)
    BY <2>2, <2>4, <2>5 DEF Lifecycle!Spawn
  <2>. QED BY <2>3, <2>6 DEF Lifecycle!Next, LifeVars
<1>. QED BY <1>2, <1>3

(* Every step of the kernel is a step of the life cycle under the mapping, *)
(* or leaves the phases and blocked endpoints alone.                       *)
LEMMA LifeStep ==
  ASSUME TypeOK, CurrentRunnable, WaiterRingSound, [Next]_vars
  PROVE  [Lifecycle!Next]_LifeVars
<1>1. current \in Pids
  BY DEF TypeOK, SchedTypeOK
<1>2. CASE OnTimerIrq \/ SysYield(current)
  BY <1>2, LifeResched DEF OnTimerIrq, SysYield
<1>3. CASE \/ SysPutc(current)
           \/ \E len \in Lens : SysWrite(current, len)
           \/ SysEpCreate(current)
           \/ SysUnknown(current)
           \/ UNCHANGED vars
  <2>1. UNCHANGED <<current, alive, runnable, blockedEp>>
    BY <1>3 DEF SysPutc, SysWrite, SysEpCreate, SysUnknown, vars, schedVars
  <2>. QED BY <2>1, LifeQuiet
<1>4. CASE \E cap \in CapArgs, len \in Lens, ptr \in Ptrs :
             \/ SysSend(current, cap, len, ptr)
             \/ \E xcap \in CapArgs : SysSendCap(current, cap, len, ptr, xcap)
  <2>1. PICK cap \in CapArgs, len \in Lens, ptr \in Ptrs :
             \/ SysSend(current, cap, len, ptr)
             \/ \E xcap \in CapArgs : SysSendCap(current, cap, len, ptr, xcap)
    BY <1>4
  <2>2. CASE SysSend(current, cap, len, ptr)
    BY <2>2, LifeSend DEF SysSend
  <2>3. CASE \E xcap \in CapArgs : SysSendCap(current, cap, len, ptr, xcap)
    <3>1. PICK xcap \in CapArgs : SysSendCap(current, cap, len, ptr, xcap)
      BY <2>3
    <3>2. CASE xcap # 0 /\ CapLookup(current, xcap) = 0
      <4>1. UNCHANGED <<current, alive, runnable, blockedEp>>
        BY <3>1, <3>2 DEF SysSendCap, schedVars
      <4>. QED BY <4>1, LifeQuiet
    <3>3. CASE ~(xcap # 0 /\ CapLookup(current, xcap) = 0)
      BY <3>1, <3>3, LifeSend DEF SysSendCap
    <3>. QED BY <3>2, <3>3
  <2>. QED BY <2>1, <2>2, <2>3
<1>5. CASE \E cap \in CapArgs, len \in Lens, ptr \in Ptrs :
             \/ SysRecv(current, cap, len, ptr)
             \/ SysRecvCap(current, cap, len, ptr)
  BY <1>5, LifeRecv DEF SysRecv, SysRecvCap
<1>6. CASE \E prog \in {1, 2}, share \in CapArgs : SysSpawn(current, prog, share)
  BY <1>1, <1>6, LifeSpawn
<1>. QED BY <1>2, <1>3, <1>4, <1>5, <1>6 DEF Next, SysCall

(***************************************************************************)
(* The scheduler implements the process life cycle of ProcLifecycle, for   *)
(* every size of the process table, the capability tables and the          *)
(* endpoint pool: exactly one process runs; the timer and YIELD hand the   *)
(* CPU only to a ready slot; a receive blocks its caller only by handing  *)
(* the CPU to a ready slot; a process becomes ready only from the blocked *)
(* phase, its blocked_ep cleared; PROC_SPAWN fills only a free slot.       *)
(***************************************************************************)
THEOREM LifecycleRefinement == Spec => LifecycleRefined
<1>1. Init => Lifecycle!Init
  BY LifeInit
<1>2. TypeOK /\ CurrentRunnable /\ WaitInv /\ [Next]_vars
        => [Lifecycle!Next]_LifeVars
  BY LifeStep DEF WaitInv
<1>. QED BY <1>1, <1>2, TypeCorrect, CurrentRunnableInvariant, WaitInvariant,
            PTL DEF Spec, LifecycleRefined, Lifecycle!Spec, LifeVars,
                    Lifecycle!vars
=============================================================================
