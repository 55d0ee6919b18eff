------------------------------- MODULE Kernel -------------------------------
(***************************************************************************)
(* The kernel after enter_first_user: the timer interrupt and the int 0x80 *)
(* system calls of src/kernel/src/arch/x86_64/isr.rs, each handler one     *)
(* atomic step (the kernel runs with interrupts off from trap entry to     *)
(* iretq), composed from the scheduler (Sched) and the endpoints (Ipc).    *)
(* The user program is the environment: the process on the CPU may trap    *)
(* with any system call and any arguments from small sets.                 *)
(*                                                                         *)
(* frame[p] is the part of p's TrapFrame/SyscallFrame the kernel reads or  *)
(* writes: rax (number in, result out), rsi (the user buffer pointer, or   *)
(* the initial capability of a spawned child) and rdx (a length in, the    *)
(* received capability out).  Argument registers are recorded only where   *)
(* the kernel reads them after the trap returns: the rsi and rdx of a      *)
(* receiver that blocks, which deliver_ipc reads.  A user pointer is       *)
(* abstracted to GoodPtr (its pages are mapped with P and U at every       *)
(* level) or BadPtr (its first page is not): a copy of 0 bytes never       *)
(* faults, a copy of more from BadPtr does.  cr3 is the CR3 register,      *)
(* loaded by the assembly stubs.                                           *)
(***************************************************************************)
EXTENDS Ipc

CONSTANTS
  StageMax,  \* the 1024-byte cap on user lengths in the syscall handlers
  Lens,      \* lengths a user passes
  GoodPtr,   \* a user pointer whose pages are mapped
  BadPtr     \* a user pointer whose page is not mapped

ASSUME KernelAssumption ==
  /\ StageMax \in Nat
  /\ Lens \subseteq Nat
  /\ GoodPtr # BadPtr

(* MAX_PROCS = MAX_WAITERS = 8 in sched.rs and ipc.rs: a waiter ring has   *)
(* a slot for every process.  waiter_push's full test compares with the   *)
(* unreduced wait_head, so only this keeps the rings from overflowing.    *)
ASSUME WaiterRoom == MaxProcs <= MaxWaiters

Ptrs == {GoodPtr, BadPtr}

(* The system call numbers of libs/sys (mantra_sys::syscall).              *)
PUTC == 1
YIELD_ == 2
WRITE == 3
IPC_EP_CREATE == 16
IPC_SEND == 17
IPC_RECV == 18
IPC_SEND_CAP == 19
IPC_RECV_CAP == 20
PROC_SPAWN == 32

VARIABLES
  frame,  \* frame[p]: rax, rsi and rdx of p's saved (or live) trap frame
  cr3     \* the CR3 register: whose address space is loaded

vars == <<schedVars, ipcVars, frame, cr3>>

Frame == [rax : Int, rsi : Ptrs \cup (0 .. CapsPerProc), rdx : Nat]

(* Capability arguments a user passes: 0 and every index (an index past    *)
(* the table fails cap_lookup_current exactly as 0 does).                  *)
CapArgs == 0 .. CapsPerProc

(* The model bound: IPC calls are taken while every ring counter is below  *)
(* MaxSeq (the code's counters are unbounded).                             *)
RingsBounded == \A e \in EpIds : tail[e] < MaxSeq /\ wTail[e] < MaxSeq

(* Bug variant: a handler that forgets the 256-byte staging buffer.        *)
StagedNoMsgCap(len) == Min({len, StageMax})

(* The bytes a handler stages: min(min(len, 1024), 256).                   *)
Staged(len) == Min({Min({len, StageMax}), MaxMsg})

(* user_copy_in / user_copy_out of k bytes at ptr fail.                    *)
CopyFails(ptr, k) == ptr = BadPtr /\ k > 0

SetRax(p, v) == frame' = [frame EXCEPT ![p].rax = v]

(* Bug variant: a stub that switches stacks but does not reload CR3.      *)
ReschedKeepCr3(rn) ==
  /\ SwitchFrom(rn, current)
  /\ UNCHANGED cr3

(***************************************************************************)
(* The tail of every handler in the assembly stubs: when the handler       *)
(* returns a non-zero TrapFrame pointer (switch_from switched) the stub    *)
(* loads MANTRA_NEXT_CR3 into CR3 before iretq.  rn is the runnable flags  *)
(* switch_from reads.                                                      *)
(***************************************************************************)
Resched(rn) ==
  /\ SwitchFrom(rn, current)
  /\ cr3' = IF Switches(rn, current) THEN nextCr3' ELSE cr3

(***************************************************************************)
(* mantra_timer_irq_rust -> on_timer_irq: INITED is set, so save and       *)
(* switch; the GPRs are saved and restored unchanged.                      *)
(***************************************************************************)
OnTimerIrq ==
  /\ Resched(runnable)
  /\ UNCHANGED <<alive, runnable, blockedEp, caps, ipcVars, frame>>

(* PUTC: write a byte to serial, return 0.                                 *)
SysPutc(c) ==
  /\ SetRax(c, 0)
  /\ UNCHANGED <<schedVars, ipcVars, cr3>>

(* YIELD: return 0 and switch if another task is runnable.                 *)
SysYield(c) ==
  /\ SetRax(c, 0)
  /\ Resched(runnable)
  /\ UNCHANGED <<alive, runnable, blockedEp, caps, ipcVars>>

(* WRITE: copy up to min(len, 1024) bytes to serial, stopping at the first *)
(* unmapped byte; return the count written.                                *)
SysWrite(c, len) ==
  /\ \E w \in 0 .. Min({len, StageMax}) : SetRax(c, w)
  /\ UNCHANGED <<schedVars, ipcVars, cr3>>

(* An unknown number: log it, return u64::MAX.                             *)
SysUnknown(c) ==
  /\ SetRax(c, ErrInval)
  /\ UNCHANGED <<schedVars, ipcVars, cr3>>

(***************************************************************************)
(* IPC_EP_CREATE -> ep_create: endpoint_alloc takes NEXT_EP and advances   *)
(* it even when the pool is exhausted; then cap_alloc_current.  An         *)
(* endpoint whose capability finds no slot is lost.                        *)
(***************************************************************************)
SysEpCreate(c) ==
  LET i   == nextEp
      idx == CapAllocIdx(caps[c], i + 1)
  IN  /\ nextEp <= MaxEndpoints
      /\ nextEp' = i + 1
      /\ IF EndpointAllocFails(i) \/ idx = 0
           THEN /\ SetRax(c, ErrInval)
                /\ UNCHANGED caps
           ELSE /\ caps' = [caps EXCEPT ![c] = CapAllocTable(caps[c], i + 1)]
                /\ SetRax(c, idx)
      /\ UNCHANGED <<current, alive, runnable, blockedEp, nextCr3, rsp0,
                     head, tail, buf, wHead, wTail, waiters, cr3>>

(***************************************************************************)
(* deliver_ipc(pid, msg, xfer_ep) on behalf of sender s with n staged      *)
(* bytes: copy min(rdx, 1024, 256, n) bytes to the receiver's saved rsi    *)
(* under the receiver's page tables; on a fault return u64::MAX and leave  *)
(* the receiver as it is.  Else set the receiver's saved rax to the        *)
(* length and rdx to a fresh capability for xfer_ep (0 if none or if its   *)
(* table is full), wake it, and return the length to the sender.           *)
(***************************************************************************)
DeliverIpc(s, pid, n, x) ==
  LET k   == Min({Staged(frame[pid].rdx), n})
      idx == CapAllocIdx(caps[pid], x)
  IN  IF CopyFails(frame[pid].rsi, k)
        THEN /\ SetRax(s, ErrInval)
             /\ UNCHANGED <<runnable, blockedEp, caps>>
        ELSE /\ frame' = [frame EXCEPT ![pid].rax = k, ![pid].rdx = idx,
                                       ![s].rax = k]
             /\ caps' = [caps EXCEPT ![pid] = CapAllocTable(caps[pid], x)]
             /\ Wake(pid)

(* Bug variant: a send path without the direct delivery to a waiter.      *)
SendEnqueueOnly(c, cap, len, ptr, x) ==
  /\ RingsBounded
  /\ IF CopyFails(ptr, Staged(len)) \/ CapLookup(c, cap) = 0
       THEN /\ SetRax(c, ErrInval)
            /\ UNCHANGED <<runnable, blockedEp, caps, ipcVars>>
       ELSE /\ EpSendCap(c, cap, Staged(len), x)
            /\ SetRax(c, EpSendRet(c, cap, Staged(len)))
            /\ UNCHANGED <<runnable, blockedEp, caps, nextEp, head,
                           wHead, wTail, waiters>>
  /\ UNCHANGED <<current, alive, nextCr3, rsp0, cr3>>

(***************************************************************************)
(* The common body of IPC_SEND and IPC_SEND_CAP once xfer_ep is known:     *)
(* stage min(len, 1024, 256) bytes with user_copy_in; then, if cap names   *)
(* an endpoint with a waiter, pop it and deliver directly, else            *)
(* ep_send_cap.                                                            *)
(***************************************************************************)
Send(c, cap, len, ptr, x) ==
  LET n == Staged(len)
      e == CapLookup(c, cap)
  IN  /\ RingsBounded
      /\ IF CopyFails(ptr, n) \/ e = 0
           THEN /\ SetRax(c, ErrInval)
                /\ UNCHANGED <<runnable, blockedEp, caps, ipcVars>>
           ELSE IF e \in EpIds /\ ~WaiterEmpty(e)
             THEN /\ WaiterPop(e)
                  /\ DeliverIpc(c, WaiterFront(e), n, x)
                  /\ UNCHANGED <<nextEp, head, tail, buf>>
             ELSE /\ EpSendCap(c, cap, n, x)
                  /\ SetRax(c, EpSendRet(c, cap, n))
                  /\ UNCHANGED <<runnable, blockedEp, caps, nextEp, head,
                                 wHead, wTail, waiters>>
      /\ UNCHANGED <<current, alive, nextCr3, rsp0, cr3>>

(* IPC_SEND (cap, ptr, len).                                               *)
SysSend(c, cap, len, ptr) == Send(c, cap, len, ptr, 0)

(* Bug variant: IPC_SEND_CAP that ships the sender's raw capability index. *)
SysSendCapRawIndex(c, cap, len, ptr, xcap) ==
  IF xcap # 0 /\ CapLookup(c, xcap) = 0
    THEN /\ RingsBounded
         /\ SetRax(c, ErrInval)
         /\ UNCHANGED <<schedVars, ipcVars, cr3>>
    ELSE Send(c, cap, len, ptr, xcap)

(* IPC_SEND_CAP (cap, ptr, len, xfer_cap): xfer_cap 0 sends no capability; *)
(* a xfer_cap that names nothing returns u64::MAX before anything else.    *)
SysSendCap(c, cap, len, ptr, xcap) ==
  IF xcap # 0 /\ CapLookup(c, xcap) = 0
    THEN /\ RingsBounded
         /\ SetRax(c, ErrInval)
         /\ UNCHANGED <<schedVars, ipcVars, cr3>>
    ELSE Send(c, cap, len, ptr, CapLookup(c, xcap))

(* The result registers of a receive: rax = r and, for IPC_RECV_CAP only, *)
(* rdx = d (IPC_RECV leaves rdx alone).                                    *)
RecvReturn(c, withCap, r, d) ==
  frame' = [frame EXCEPT ![c].rax = r, ![c].rdx = IF withCap THEN d ELSE @]

(***************************************************************************)
(* The blocking branch of IPC_RECV and IPC_RECV_CAP: waiter_push,          *)
(* block_current_on_ep and yield_from_syscall.  rax is left holding the   *)
(* call number for the sender's delivery to overwrite, and rsi and rdx the *)
(* buffer and max_len that deliver_ipc reads.                              *)
(***************************************************************************)
RecvBlock(c, e, ptr, maxLen, num) ==
  /\ WaiterPush(e, c)
  /\ runnable' = [runnable EXCEPT ![c] = FALSE]
  /\ blockedEp' = [blockedEp EXCEPT ![c] = e]
  /\ frame' = [frame EXCEPT ![c] = [rax |-> num, rsi |-> ptr, rdx |-> maxLen]]
  /\ Resched([runnable EXCEPT ![c] = FALSE])
  /\ UNCHANGED <<alive, caps, wHead>>

(***************************************************************************)
(* A received message copied out: IPC_RECV_CAP installs the transferred    *)
(* endpoint with cap_alloc_current (0 in rdx when there is none or the     *)
(* table is full); IPC_RECV drops it.  got is ep_recv_cap's result.        *)
(***************************************************************************)
RecvInstall(c, withCap, got) ==
  LET x == IF withCap THEN got[2] ELSE 0 IN
  /\ caps' = [caps EXCEPT ![c] = CapAllocTable(caps[c], x)]
  /\ RecvReturn(c, withCap, got[1], CapAllocIdx(caps[c], x))
  /\ UNCHANGED <<current, alive, runnable, blockedEp, nextCr3, rsp0,
                 wHead, wTail, waiters, cr3>>

(***************************************************************************)
(* IPC_RECV (withCap = FALSE) and IPC_RECV_CAP (withCap = TRUE) with       *)
(* (cap, ptr, max_len).  ep_recv_cap first.  Inval: return it.  Empty:     *)
(* when another task is runnable and the waiter ring has room, block;      *)
(* otherwise return Empty.  A message: copy it out (on a fault the message *)
(* is already consumed and u64::MAX is returned), else RecvInstall.  The   *)
(* handler's inner cap_lookup_current after has_other_runnable repeats the *)
(* lookup that ep_recv_cap made, so its None branch is unreachable.        *)
(***************************************************************************)
Recv(c, cap, maxLen, ptr, withCap, num) ==
  LET n   == Staged(maxLen)
      e   == CapLookup(c, cap)
      got == EpRecvRet(c, cap, n)
      \* the receive blocks: no message, another task runnable, room to wait
      blocks == got[1] = ErrEmpty /\ HasOtherRunnable(c) /\ ~WaiterFull(e)
  IN  /\ RingsBounded
      /\ EpRecvCap(c, cap)
      /\ UNCHANGED <<nextEp, tail, buf>>
      /\ \/ /\ got[1] \in {ErrInval, ErrEmpty}
            /\ ~blocks
            /\ RecvReturn(c, withCap, got[1], 0)
            /\ UNCHANGED <<schedVars, wHead, wTail, waiters, cr3>>
         \/ /\ blocks
            /\ RecvBlock(c, e, ptr, maxLen, num)
         \/ /\ got[1] >= 0
            /\ CopyFails(ptr, got[1])
            /\ RecvReturn(c, withCap, ErrInval, 0)
            /\ UNCHANGED <<schedVars, wHead, wTail, waiters, cr3>>
         \/ /\ got[1] >= 0
            /\ ~CopyFails(ptr, got[1])
            /\ RecvInstall(c, withCap, got)

SysRecv(c, cap, maxLen, ptr)    == Recv(c, cap, maxLen, ptr, FALSE, IPC_RECV)
SysRecvCap(c, cap, maxLen, ptr) == Recv(c, cap, maxLen, ptr, TRUE, IPC_RECV_CAP)

(***************************************************************************)
(* PROC_SPAWN (prog_id, role, share_cap) -> spawn_init_from_syscall: only  *)
(* program 1 exists; resolve share_cap in the parent; build the address    *)
(* space and initial frame (build_proc_from_init, which needs the PMM and  *)
(* panics when it is exhausted: here it succeeds); spawn_proc takes the    *)
(* first slot that is not alive, or the call returns u64::MAX; the child   *)
(* gets a fresh capability to the shared endpoint, patched into its saved  *)
(* rsi; the parent gets the child's pid.                                   *)
(***************************************************************************)
SysSpawn(c, prog, share) ==
  LET ep   == CapLookup(c, share)
      free == {p \in Pids : ~alive[p]}
      pid  == Min(free)
      idx  == CapAllocIdx(NoCaps, ep)
  IN  /\ IF prog # 1 \/ free = {}
           THEN /\ SetRax(c, ErrInval)
                /\ UNCHANGED <<alive, runnable, blockedEp, caps>>
           ELSE /\ alive' = [alive EXCEPT ![pid] = TRUE]
                /\ runnable' = [runnable EXCEPT ![pid] = TRUE]
                /\ blockedEp' = [blockedEp EXCEPT ![pid] = 0]
                /\ caps' = [caps EXCEPT ![pid] = CapAllocTable(NoCaps, ep)]
                /\ frame' = [frame EXCEPT ![pid] = [rax |-> 0, rsi |-> idx,
                                                    rdx |-> 0],
                                          ![c].rax = pid]
      /\ UNCHANGED <<current, nextCr3, rsp0, ipcVars, cr3>>

(***************************************************************************)
(* The state enter_first_user leaves: process 0 built with role 0 and      *)
(* capability 0 in rsi, installed, its CR3 loaded; the endpoint pool       *)
(* untouched.                                                              *)
(***************************************************************************)
Init ==
  /\ SchedInit
  /\ IpcInit
  /\ frame = [p \in Pids |-> [rax |-> 0, rsi |-> 0, rdx |-> 0]]
  /\ cr3 = 0

(* The process on the CPU traps with a system call, or the timer fires.    *)
SysCall(c) ==
  \/ SysPutc(c)
  \/ SysYield(c)
  \/ \E len \in Lens : SysWrite(c, len)
  \/ SysEpCreate(c)
  \/ \E cap \in CapArgs, len \in Lens, ptr \in Ptrs :
       \/ SysSend(c, cap, len, ptr)
       \/ \E xcap \in CapArgs : SysSendCap(c, cap, len, ptr, xcap)
  \/ \E cap \in CapArgs, len \in Lens, ptr \in Ptrs :
       \/ SysRecv(c, cap, len, ptr)
       \/ SysRecvCap(c, cap, len, ptr)
  \/ \E prog \in {1, 2}, share \in CapArgs : SysSpawn(c, prog, share)
  \/ SysUnknown(c)

Next == OnTimerIrq \/ SysCall(current)

Spec == Init /\ [][Next]_vars

(* The PIT raises IRQ0 at 100 Hz and user code runs with IF = 1, so a      *)
(* timer interrupt that stays possible is eventually taken.                *)
FairSpec == Spec /\ WF_vars(OnTimerIrq)

-----------------------------------------------------------------------------
(***************************************************************************)
(* Properties.                                                             *)
(***************************************************************************)

TypeOK ==
  /\ SchedTypeOK
  /\ IpcTypeOK
  /\ frame \in [Pids -> Frame]
  /\ cr3 \in Pids

(* The pids queued in e's waiter ring, from wait_head to wait_tail.        *)
WaitSlots(e) == wHead[e] .. wTail[e] - 1
WaitingOn(e) == {waiters[e][i % MaxWaiters] : i \in WaitSlots(e)}

(***************************************************************************)
(* The CPU always runs an alive, runnable process: a receive may block the *)
(* caller only when has_other_runnable() holds, so the yield that follows  *)
(* in the IPC_RECV handler always finds another task, and the timer and    *)
(* yield only pick runnable tasks.                                         *)
(***************************************************************************)
CurrentRunnable == alive[current] /\ runnable[current]

(***************************************************************************)
(* The address space and kernel stack belong to the process on the CPU:   *)
(* CR3 (loaded by the stubs from MANTRA_NEXT_CR3 only when the handler     *)
(* returns a frame) and TSS.rsp0 (written by switch_from) both name        *)
(* CURRENT, after timer switches, yields and blocking receives alike.      *)
(***************************************************************************)
AddressSpaceOfCurrent == cr3 = current /\ rsp0 = current /\ nextCr3 = current

(***************************************************************************)
(* Each waiter ring is sound: it holds fewer entries than slots (no entry  *)
(* is overwritten by waiter_push), no pid twice, and every pid in it is an *)
(* alive, non-runnable process blocked on that endpoint, so the pid        *)
(* waiter_pop hands to deliver_ipc is a receiver whose saved frame holds   *)
(* the rsi and rdx of its IPC_RECV.                                        *)
(***************************************************************************)
WaiterRingSound ==
  \A e \in EpIds :
    /\ wHead[e] <= wTail[e]
    /\ wTail[e] - wHead[e] < MaxWaiters
    /\ \A i, j \in WaitSlots(e) :
         i # j => waiters[e][i % MaxWaiters] # waiters[e][j % MaxWaiters]
    /\ \A p \in WaitingOn(e) : alive[p] /\ ~runnable[p] /\ blockedEp[p] = e

(***************************************************************************)
(* A message never sits in the ring of an endpoint that has a waiter: a    *)
(* receiver blocks only on an empty ring, and a send to an endpoint with a *)
(* waiter delivers directly instead of enqueueing.                         *)
(***************************************************************************)
NoMessageWhileWaiting ==
  \A e \in EpIds : ~WaiterEmpty(e) => QueueEmpty(e)

(* The endpoints that endpoint_alloc has handed out.                       *)
Allocated == 1 .. Min({nextEp, MaxEndpoints})

(* Endpoints carried by messages that are queued and not yet received.     *)
InFlight ==
  (UNION {{buf[e][i % QLen].xfer : i \in head[e] .. tail[e] - 1} : e \in EpIds})
    \ {0}

Held(p) == {caps[p][i] : i \in CapIdx} \ {0}

(***************************************************************************)
(* Every endpoint id that a capability slot or a queued transfer names has *)
(* been allocated, and a process that is not alive holds nothing: cap      *)
(* transfer ships endpoint ids that the sender's table resolved, never raw *)
(* indexes.                                                                *)
(***************************************************************************)
CapsNameEndpoints ==
  /\ \A p \in Pids : Held(p) \subseteq Allocated
  /\ \A p \in Pids : ~alive[p] => Held(p) = {}
  /\ InFlight \subseteq Allocated

(***************************************************************************)
(* Capabilities cannot be forged: a step gives a process a capability to   *)
(* an endpoint only if the endpoint was already held by some process or    *)
(* carried by a queued message (spawn, direct delivery, IPC_RECV_CAP), or  *)
(* if the step is the IPC_EP_CREATE whose endpoint_alloc just handed that  *)
(* endpoint out (NEXT_EP advanced by one, to it).                          *)
(***************************************************************************)
NoForgedCaps ==
  [][\A p \in Pids : \A e \in Held(p)' \ Held(p) :
        \/ e \in UNION {Held(q) : q \in Pids}
        \/ e \in InFlight
        \/ nextEp' = nextEp + 1 /\ e = nextEp']_vars

(* The pids of e's waiter ring in the order waiter_pop returns them: slot  *)
(* wait_head % MAX_WAITERS first, up to the slot before wait_tail.         *)
WaitQueue(e) ==
  [k \in 1 .. wTail[e] - wHead[e] |-> waiters[e][(wHead[e] + k - 1) % MaxWaiters]]

Waiters == INSTANCE EpWaiters WITH queue <- [e \in EpIds |-> WaitQueue(e)]

(***************************************************************************)
(* The waiter rings implement FIFO queues of blocked receivers (EpWaiters):*)
(* the blocking branch of IPC_RECV appends the caller, which waits on no   *)
(* ring yet; a send that finds a waiter removes exactly the oldest one;    *)
(* no other step touches a ring.  This fails if waiter_push overwrites a   *)
(* live slot, if the modular indexes of push and pop disagree after a      *)
(* wrap, or if a process is queued twice.                                  *)
(***************************************************************************)
WaitersFifo == Waiters!Spec

(* The phase of each slot that PROCS and CURRENT encode.                   *)
PhaseOf ==
  [p \in Pids |-> IF ~alive[p] THEN "free"
                  ELSE IF p = current THEN "running"
                  ELSE IF runnable[p] THEN "ready"
                  ELSE "blocked"]

Lifecycle == INSTANCE ProcLifecycle WITH phase <- PhaseOf, on <- blockedEp

(***************************************************************************)
(* The scheduler implements the process life cycle of ProcLifecycle: the   *)
(* timer and YIELD move the CPU only to an alive, runnable slot; a receive *)
(* blocks its caller only while another slot is runnable and hands it the *)
(* CPU; a process becomes ready again only from the blocked phase, and     *)
(* with its blocked_ep cleared; spawn fills only a slot that is not alive. *)
(* It fails if a switch picks a blocked or dead slot, if a block leaves    *)
(* the CPU to nobody runnable, or if spawn reuses a live slot.  Which      *)
(* event wakes a process is not part of the abstraction.                   *)
(***************************************************************************)
LifecycleRefined == Lifecycle!Spec

(***************************************************************************)
(* Round-robin: under the timer's fairness, a runnable process eventually  *)
(* gets the CPU (it stays runnable until it runs, and every switch moves   *)
(* CURRENT forward towards it).                                            *)
(***************************************************************************)
RunnableEventuallyRuns ==
  \A p \in Pids : (alive[p] /\ runnable[p]) ~> (current = p)

(***************************************************************************)
(* The message ring is a FIFO of at most Q_LEN - 1 messages: the slots     *)
(* from head to tail hold the messages enqueued at those tail values, in   *)
(* order, none overwritten.  ep_send_cap's full test compares              *)
(* (tail + 1) % Q_LEN with the unreduced head, so once Q_LEN messages have *)
(* been received it never reports full.                                    *)
(***************************************************************************)
RingFifo ==
  \A e \in EpIds :
    /\ tail[e] - head[e] < QLen
    /\ \A i \in head[e] .. tail[e] - 1 : buf[e][i % QLen].seq = i

(***************************************************************************)
(* A blocked receiver can be woken: every process blocked on an endpoint   *)
(* is in that endpoint's waiter ring.  deliver_ipc pops the waiter before  *)
(* copying, and when the copy to the receiver's buffer faults it returns   *)
(* u64::MAX without waking or re-queueing the receiver.                    *)
(***************************************************************************)
BlockedIsWaiting ==
  \A p \in Pids : alive[p] /\ blockedEp[p] # 0 => p \in WaitingOn(blockedEp[p])
=============================================================================
