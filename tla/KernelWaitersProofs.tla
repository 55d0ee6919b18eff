------------------------- MODULE KernelWaitersProofs -------------------------
(***************************************************************************)
(* The waiter rings of module Kernel implement the FIFO queues of          *)
(* EpWaiters under the mapping WaitQueue, which reads a ring from          *)
(* wait_head to wait_tail.  The argument has three parts:                   *)
(*   - reading a ring as a sequence: a waiter_push within the ring's room  *)
(*     appends to it, and a waiter_pop drops its first element            *)
(*     (RingPushSeq, RingPopSeq);                                          *)
(*   - every step of the kernel leaves the rings alone, pops a non-empty   *)
(*     ring, or pushes the running process (WaiterMoves);                   *)
(*   - WaitInv, proved in KernelIpcProofs, supplies the room (a ring holds *)
(*     fewer pids than slots) and the fact that a running process waits   *)
(*     on no ring.                                                         *)
(***************************************************************************)
EXTENDS KernelIpcProofs, SequenceTheorems

USE SchedAssumption, IpcAssumption, KernelAssumption, WaiterRoom

(* A ring's slots w read as a sequence from counter h up to counter t.     *)
RingSeq(w, h, t) == [k \in 1 .. t - h |-> w[(h + k - 1) % MaxWaiters]]

(* The window of a ring read as a sequence is a sequence of pids as long   *)
(* as the window.                                                          *)
LEMMA RingSeqType ==
  ASSUME NEW w, \A i \in 0 .. MaxWaiters - 1 : w[i] \in Pids,
         NEW h \in Nat, NEW t \in Nat, h <= t
  PROVE  /\ RingSeq(w, h, t) \in Seq(Pids)
         /\ Len(RingSeq(w, h, t)) = t - h
<1>1. RingSeq(w, h, t) \in [1 .. t - h -> Pids]
  <2>1. \A k \in 1 .. t - h : (h + k - 1) % MaxWaiters \in 0 .. MaxWaiters - 1
    BY DEF IpcAssumption
  <2>. QED BY <2>1 DEF RingSeq
<1>2. RingSeq(w, h, t) \in Seq(Pids)
  <2>1. t - h \in Nat
    OBVIOUS
  <2>. QED BY <1>1, <2>1, SeqDef
<1>3. Len(RingSeq(w, h, t)) = t - h
  <2>1. DOMAIN RingSeq(w, h, t) = 1 .. Len(RingSeq(w, h, t))
        /\ Len(RingSeq(w, h, t)) \in Nat
    BY <1>2, LenProperties
  <2>2. DOMAIN RingSeq(w, h, t) = 1 .. t - h
    BY DEF RingSeq
  <2>. QED BY <2>1, <2>2
<1>. QED BY <1>2, <1>3

(* waiter_push with room: w2 is w with p stored at slot t % MAX_WAITERS; *)
(* advancing the tail to t + 1 appends p to the window and overwrites none *)
(* of it.                                                                  *)
LEMMA RingPushSeq ==
  ASSUME NEW w, \A i \in 0 .. MaxWaiters - 1 : w[i] \in Pids,
         NEW h \in Nat, NEW t \in Nat, h <= t, t - h < MaxWaiters,
         NEW p \in Pids, NEW w2,
         w2[t % MaxWaiters] = p,
         \A i \in 0 .. MaxWaiters - 1 : i # t % MaxWaiters => w2[i] = w[i]
  PROVE  RingSeq(w2, h, t + 1) = Append(RingSeq(w, h, t), p)
<1>. DEFINE s  == RingSeq(w, h, t)
            s2 == RingSeq(w2, h, t + 1)
<1>1. t % MaxWaiters \in 0 .. MaxWaiters - 1
  BY DEF IpcAssumption
<1>2. \A i \in 0 .. MaxWaiters - 1 : w2[i] \in Pids
  BY <1>1
<1>3. s \in Seq(Pids) /\ Len(s) = t - h
  BY RingSeqType
<1>4. s2 \in Seq(Pids) /\ Len(s2) = t + 1 - h
  <2>1. t + 1 \in Nat /\ h <= t + 1
    OBVIOUS
  <2>. QED BY <1>2, <2>1, RingSeqType
<1>5. Append(s, p) \in Seq(Pids) /\ Len(Append(s, p)) = t - h + 1
      /\ \A k \in 1 .. t - h : Append(s, p)[k] = s[k]
      /\ Append(s, p)[t - h + 1] = p
  BY <1>3, AppendProperties
<1>6. ASSUME NEW k \in 1 .. t - h
      PROVE  s2[k] = Append(s, p)[k]
  <2>1. (h + k - 1) % MaxWaiters # t % MaxWaiters
    <3>1. h + k - 1 \in Nat /\ h + k - 1 < t /\ t - (h + k - 1) < MaxWaiters
      OBVIOUS
    <3>. QED BY <3>1, ModDistinct DEF IpcAssumption
  <2>2. s2[k] = w2[(h + k - 1) % MaxWaiters] /\ s[k] = w[(h + k - 1) % MaxWaiters]
    BY DEF RingSeq
  <2>3. (h + k - 1) % MaxWaiters \in 0 .. MaxWaiters - 1
    BY DEF IpcAssumption
  <2>. QED BY <1>5, <2>1, <2>2, <2>3
<1>7. s2[t - h + 1] = p
  <2>1. t - h + 1 \in 1 .. t + 1 - h /\ h + (t - h + 1) - 1 = t
    OBVIOUS
  <2>2. s2[t - h + 1] = w2[t % MaxWaiters]
    BY <2>1 DEF RingSeq
  <2>. QED BY <2>2
<1>8. Len(s2) = Len(Append(s, p))
  BY <1>4, <1>5
<1>9. \A k \in 1 .. Len(s2) : s2[k] = Append(s, p)[k]
  <2>. SUFFICES ASSUME NEW k \in 1 .. Len(s2) PROVE s2[k] = Append(s, p)[k]
    OBVIOUS
  <2>1. CASE k \in 1 .. t - h
    BY <2>1, <1>6
  <2>2. CASE k = t - h + 1
    BY <2>2, <1>5, <1>7
  <2>3. k \in 1 .. t - h \/ k = t - h + 1
    <3>1. k \in 1 .. t + 1 - h
      BY <1>4
    <3>. QED BY <3>1
  <2>. QED BY <2>1, <2>2, <2>3
<1>. QED BY <1>4, <1>5, <1>8, <1>9, SeqEqual

(* waiter_pop: advancing head drops the first pid of a non-empty window.  *)
LEMMA RingPopSeq ==
  ASSUME NEW w, \A i \in 0 .. MaxWaiters - 1 : w[i] \in Pids,
         NEW h \in Nat, NEW t \in Nat, h < t
  PROVE  /\ RingSeq(w, h, t) # << >>
         /\ RingSeq(w, h + 1, t) = Tail(RingSeq(w, h, t))
<1>. DEFINE s  == RingSeq(w, h, t)
            s2 == RingSeq(w, h + 1, t)
<1>1. s \in Seq(Pids) /\ Len(s) = t - h
  <2>1. h <= t
    OBVIOUS
  <2>. QED BY <2>1, RingSeqType
<1>2. s2 \in Seq(Pids) /\ Len(s2) = t - (h + 1)
  <2>1. h + 1 \in Nat /\ h + 1 <= t
    OBVIOUS
  <2>. QED BY <2>1, RingSeqType
<1>3. s # << >>
  BY <1>1, EmptySeq
<1>4. Tail(s) \in Seq(Pids) /\ Len(Tail(s)) = Len(s) - 1
      /\ \A i \in 1 .. Len(Tail(s)) : Tail(s)[i] = s[i + 1]
  BY <1>1, <1>3, HeadTailProperties
<1>5. ASSUME NEW k \in 1 .. t - (h + 1)
      PROVE  s2[k] = Tail(s)[k]
  <2>1. k + 1 \in 1 .. t - h /\ (h + 1) + k - 1 = h + (k + 1) - 1
    OBVIOUS
  <2>2. s2[k] = w[((h + 1) + k - 1) % MaxWaiters]
        /\ s[k + 1] = w[(h + (k + 1) - 1) % MaxWaiters]
    BY <2>1 DEF RingSeq
  <2>. QED BY <1>1, <1>4, <2>1, <2>2
<1>. QED BY <1>1, <1>2, <1>3, <1>4, <1>5, SeqEqual

-----------------------------------------------------------------------------
(***************************************************************************)
(* What a step does to the waiter rings.                                   *)
(***************************************************************************)

(* The waiter-ring moves a step can make: none, waiter_pop on a ring that  *)
(* has a waiter, or waiter_push of process c.                              *)
RingMove(c) ==
  \/ UNCHANGED <<wHead, wTail, waiters>>
  \/ \E e \in EpIds : ~WaiterEmpty(e) /\ WaiterPop(e)
  \/ \E e \in EpIds : WaiterPush(e, c) /\ UNCHANGED wHead

(* IPC_SEND and IPC_SEND_CAP pop a waiter only when there is one, and      *)
(* push none.                                                              *)
LEMMA SendMoves ==
  ASSUME NEW c, NEW cap, NEW len, NEW ptr, NEW x, Send(c, cap, len, ptr, x)
  PROVE  RingMove(c)
<1>. DEFINE n == Staged(len)
            e == CapLookup(c, cap)
<1>1. CASE CopyFails(ptr, n) \/ e = 0
  BY <1>1 DEF Send, ipcVars, RingMove
<1>2. CASE ~(CopyFails(ptr, n) \/ e = 0) /\ e \in EpIds /\ ~WaiterEmpty(e)
  BY <1>2 DEF Send, RingMove
<1>3. CASE ~(CopyFails(ptr, n) \/ e = 0) /\ ~(e \in EpIds /\ ~WaiterEmpty(e))
  BY <1>3 DEF Send, RingMove
<1>. QED BY <1>1, <1>2, <1>3

(* IPC_RECV and IPC_RECV_CAP push the caller when they block and touch no  *)
(* ring otherwise.                                                         *)
LEMMA RecvMoves ==
  ASSUME TypeOK, NEW c \in Pids, NEW cap, NEW maxLen \in Nat, NEW ptr,
         NEW withCap, NEW num, Recv(c, cap, maxLen, ptr, withCap, num)
  PROVE  RingMove(c)
<1>. DEFINE n   == Staged(maxLen)
            e   == CapLookup(c, cap)
            got == EpRecvRet(c, cap, n)
            blocks == got[1] = ErrEmpty /\ HasOtherRunnable(c) /\ ~WaiterFull(e)
<1>1. n \in Nat
  BY StagedType
<1>2. got[1] # ErrInval => e \in EpIds
  BY <1>1, EpRecvRetType
<1>3. CASE blocks
  <2>1. e \in EpIds
    BY <1>2, <1>3 DEF ErrInval, ErrEmpty
  <2>2. RecvBlock(c, e, ptr, maxLen, num)
    BY <1>3 DEF Recv, ErrEmpty
  <2>. QED BY <2>1, <2>2 DEF RecvBlock, RingMove
<1>4. CASE ~blocks
  BY <1>4 DEF Recv, RecvInstall, RingMove
<1>. QED BY <1>3, <1>4

(* Every step of the kernel makes one of the moves, with the running       *)
(* process as the one pushed.                                              *)
LEMMA WaiterMoves ==
  ASSUME TypeOK, [Next]_vars
  PROVE  RingMove(current)
<1>. DEFINE c == current
<1>1. c \in Pids
  BY DEF TypeOK, SchedTypeOK
<1>2. CASE \/ OnTimerIrq \/ SysYield(c) \/ SysPutc(c) \/ SysEpCreate(c)
           \/ \E len \in Lens : SysWrite(c, len)
           \/ SysUnknown(c)
           \/ UNCHANGED vars
  BY <1>2 DEF OnTimerIrq, SysYield, SysPutc, SysEpCreate, SysWrite,
              SysUnknown, vars, ipcVars, RingMove
<1>3. CASE \E cap \in CapArgs, len \in Lens, ptr \in Ptrs :
             \/ SysSend(c, cap, len, ptr)
             \/ \E xcap \in CapArgs : SysSendCap(c, cap, len, ptr, xcap)
  <2>1. PICK cap \in CapArgs, len \in Lens, ptr \in Ptrs :
             \/ SysSend(c, cap, len, ptr)
             \/ \E xcap \in CapArgs : SysSendCap(c, cap, len, ptr, xcap)
    BY <1>3
  <2>2. CASE SysSend(c, cap, len, ptr)
    BY <2>2, SendMoves DEF SysSend
  <2>3. CASE \E xcap \in CapArgs : SysSendCap(c, cap, len, ptr, xcap)
    <3>1. PICK xcap \in CapArgs : SysSendCap(c, cap, len, ptr, xcap)
      BY <2>3
    <3>2. CASE xcap # 0 /\ CapLookup(c, xcap) = 0
      BY <3>1, <3>2 DEF SysSendCap, ipcVars, RingMove
    <3>3. CASE ~(xcap # 0 /\ CapLookup(c, xcap) = 0)
      BY <3>1, <3>3, SendMoves DEF SysSendCap
    <3>. QED BY <3>2, <3>3
  <2>. QED BY <2>1, <2>2, <2>3
<1>4. CASE \E cap \in CapArgs, len \in Lens, ptr \in Ptrs :
             \/ SysRecv(c, cap, len, ptr)
             \/ SysRecvCap(c, cap, len, ptr)
  <2>1. PICK cap \in CapArgs, len \in Lens, ptr \in Ptrs :
             \/ SysRecv(c, cap, len, ptr)
             \/ SysRecvCap(c, cap, len, ptr)
    BY <1>4
  <2>2. len \in Nat
    OBVIOUS
  <2>. QED BY <1>1, <2>1, <2>2, RecvMoves DEF SysRecv, SysRecvCap
<1>5. CASE \E prog \in {1, 2}, share \in CapArgs : SysSpawn(c, prog, share)
  BY <1>5 DEF SysSpawn, ipcVars, RingMove
<1>. QED BY <1>2, <1>3, <1>4, <1>5 DEF Next, SysCall

-----------------------------------------------------------------------------
(***************************************************************************)
(* The refinement.                                                         *)
(***************************************************************************)

(* The abstract queues the refinement mapping gives every endpoint.        *)
WaitQueues == [e \in EpIds |-> WaitQueue(e)]

(* A sound ring of e is a window of at most MAX_WAITERS - 1 pids, and the *)
(* queue of e is that window read as a sequence.                           *)
LEMMA WaitQueueRing ==
  ASSUME TypeOK, WaiterRingSound, NEW e \in EpIds
  PROVE  /\ WaitQueue(e) = RingSeq(waiters[e], wHead[e], wTail[e])
         /\ \A i \in 0 .. MaxWaiters - 1 : waiters[e][i] \in Pids
         /\ wHead[e] \in Nat /\ wTail[e] \in Nat
         /\ wHead[e] <= wTail[e] /\ wTail[e] - wHead[e] < MaxWaiters
BY DEF WaitQueue, RingSeq, TypeOK, IpcTypeOK, WaiterRingSound

(* A process in the abstract queues is blocked: it is not runnable.       *)
LEMMA QueuedBlocked ==
  ASSUME TypeOK, WaiterRingSound, NEW q \in Waiters!Queued
  PROVE  ~runnable[q]
<1>1. PICK d \in EpIds : \E k \in 1 .. Len(WaitQueue(d)) : q = WaitQueue(d)[k]
  BY DEF Waiters!Queued
<1>2. PICK k \in 1 .. Len(WaitQueue(d)) : q = WaitQueue(d)[k]
  BY <1>1
<1>3. /\ WaitQueue(d) = RingSeq(waiters[d], wHead[d], wTail[d])
      /\ \A i \in 0 .. MaxWaiters - 1 : waiters[d][i] \in Pids
      /\ wHead[d] \in Nat /\ wTail[d] \in Nat /\ wHead[d] <= wTail[d]
  BY WaitQueueRing
<1>4. Len(WaitQueue(d)) = wTail[d] - wHead[d]
  BY <1>3, RingSeqType
<1>5. wHead[d] + k - 1 \in WaitSlots(d)
  BY <1>2, <1>3, <1>4 DEF WaitSlots
<1>6. q = waiters[d][(wHead[d] + k - 1) % MaxWaiters]
  BY <1>2, <1>3, <1>4 DEF RingSeq
<1>7. q \in WaitingOn(d)
  BY <1>5, <1>6 DEF WaitingOn
<1>. QED BY <1>7 DEF WaiterRingSound

(* Every step of the kernel is a step of EpWaiters under the mapping, or  *)
(* leaves the queues alone.                                                *)
LEMMA WaitersStep ==
  ASSUME TypeOK, CurrentRunnable, WaiterRingSound, [Next]_vars
  PROVE  [Waiters!Next]_WaitQueues
<1>1. RingMove(current)
  BY WaiterMoves
<1>2. CASE UNCHANGED <<wHead, wTail, waiters>>
  <2>1. WaitQueues' = WaitQueues
    BY <1>2 DEF WaitQueues, WaitQueue
  <2>. QED BY <2>1
<1>3. CASE \E e \in EpIds : ~WaiterEmpty(e) /\ WaiterPop(e)
  <2>1. PICK e \in EpIds : ~WaiterEmpty(e) /\ WaiterPop(e)
    BY <1>3
  <2>2. /\ WaitQueue(e) = RingSeq(waiters[e], wHead[e], wTail[e])
        /\ \A i \in 0 .. MaxWaiters - 1 : waiters[e][i] \in Pids
        /\ wHead[e] \in Nat /\ wTail[e] \in Nat /\ wHead[e] < wTail[e]
    BY <2>1, WaitQueueRing DEF WaiterEmpty
  <2>3. WaitQueue(e)' = RingSeq(waiters[e], wHead[e] + 1, wTail[e])
    BY <2>1 DEF WaiterPop, WaitQueue, RingSeq, TypeOK, IpcTypeOK
  <2>4. WaitQueue(e) # << >> /\ WaitQueue(e)' = Tail(WaitQueue(e))
    <3>1. /\ RingSeq(waiters[e], wHead[e], wTail[e]) # << >>
          /\ RingSeq(waiters[e], wHead[e] + 1, wTail[e])
               = Tail(RingSeq(waiters[e], wHead[e], wTail[e]))
      BY <2>2, RingPopSeq
    <3>. QED BY <2>2, <2>3, <3>1
  <2>5. \A d \in EpIds \ {e} : WaitQueue(d)' = WaitQueue(d)
    BY <2>1 DEF WaiterPop, WaitQueue, TypeOK, IpcTypeOK
  <2>6. WaitQueues' = [WaitQueues EXCEPT ![e] = Tail(WaitQueues[e])]
    BY <2>4, <2>5 DEF WaitQueues
  <2>. QED BY <2>4, <2>6 DEF Waiters!Next, Waiters!Wake, WaitQueues
<1>4. CASE \E e \in EpIds : WaiterPush(e, current) /\ UNCHANGED wHead
  <2>1. PICK e \in EpIds : WaiterPush(e, current) /\ UNCHANGED wHead
    BY <1>4
  <2>2. /\ WaitQueue(e) = RingSeq(waiters[e], wHead[e], wTail[e])
        /\ \A i \in 0 .. MaxWaiters - 1 : waiters[e][i] \in Pids
        /\ wHead[e] \in Nat /\ wTail[e] \in Nat
        /\ wHead[e] <= wTail[e] /\ wTail[e] - wHead[e] < MaxWaiters
    BY WaitQueueRing
  <2>3. current \in Pids
    BY DEF TypeOK, SchedTypeOK
  <2>4. /\ waiters'[e][wTail[e] % MaxWaiters] = current
        /\ \A i \in 0 .. MaxWaiters - 1 :
             i # wTail[e] % MaxWaiters => waiters'[e][i] = waiters[e][i]
    <3>1. wTail[e] % MaxWaiters \in 0 .. MaxWaiters - 1
      BY <2>2 DEF IpcAssumption
    <3>. QED BY <2>1, <3>1 DEF WaiterPush, TypeOK, IpcTypeOK
  <2>5. WaitQueue(e)' = RingSeq(waiters'[e], wHead[e], wTail[e] + 1)
    BY <2>1 DEF WaiterPush, WaitQueue, RingSeq, TypeOK, IpcTypeOK
  <2>6. WaitQueue(e)' = Append(WaitQueue(e), current)
    <3>1. ASSUME NEW w, NEW w2, NEW h \in Nat, NEW t \in Nat,
                 w = waiters[e], w2 = waiters'[e], h = wHead[e], t = wTail[e]
          PROVE  RingSeq(w2, h, t + 1) = Append(RingSeq(w, h, t), current)
      <4>1. \A i \in 0 .. MaxWaiters - 1 : w[i] \in Pids
        BY <2>2, <3>1
      <4>2. h <= t /\ t - h < MaxWaiters
        BY <2>2, <3>1
      <4>3. /\ w2[t % MaxWaiters] = current
            /\ \A i \in 0 .. MaxWaiters - 1 : i # t % MaxWaiters => w2[i] = w[i]
        BY <2>4, <3>1
      <4>. QED BY <2>3, <4>1, <4>2, <4>3, RingPushSeq
    <3>2. RingSeq(waiters'[e], wHead[e], wTail[e] + 1)
            = Append(RingSeq(waiters[e], wHead[e], wTail[e]), current)
      BY <2>2, <3>1
    <3>. QED BY <2>2, <2>5, <3>2
  <2>7. \A d \in EpIds \ {e} : WaitQueue(d)' = WaitQueue(d)
    BY <2>1 DEF WaiterPush, WaitQueue, TypeOK, IpcTypeOK
  <2>8. WaitQueues' = [WaitQueues EXCEPT ![e] = Append(WaitQueues[e], current)]
    BY <2>6, <2>7 DEF WaitQueues
  <2>9. current \notin Waiters!Queued
    BY QueuedBlocked DEF CurrentRunnable
  <2>. QED BY <2>3, <2>8, <2>9 DEF Waiters!Next, Waiters!Wait, WaitQueues
<1>. QED BY <1>1, <1>2, <1>3, <1>4 DEF RingMove

(* Before the first trap every waiter ring is empty.                       *)
LEMMA WaitersInit ==
  Init => Waiters!Init
<1>. SUFFICES ASSUME Init PROVE \A e \in EpIds : WaitQueue(e) = << >>
  BY DEF Waiters!Init
<1>. QED BY DEF Init, IpcInit, WaitQueue

(***************************************************************************)
(* The waiter rings implement EpWaiters: receivers blocked on an endpoint  *)
(* are woken by sends in the order in which IPC_RECV queued them, none is  *)
(* overwritten or queued twice.  This holds for every size of the process *)
(* table and of the rings that keeps MAX_PROCS <= MAX_WAITERS.            *)
(***************************************************************************)
THEOREM WaitersRefinement == Spec => WaitersFifo
<1>1. Init => Waiters!Init
  BY WaitersInit
<1>2. TypeOK /\ CurrentRunnable /\ WaitInv /\ [Next]_vars
        => [Waiters!Next]_WaitQueues
  BY WaitersStep DEF WaitInv
<1>. QED BY <1>1, <1>2, TypeCorrect, CurrentRunnableInvariant, WaitInvariant,
            PTL DEF Spec, WaitersFifo, Waiters!Spec, WaitQueues
=============================================================================
