---------------------------- MODULE KernelProofs ----------------------------
(***************************************************************************)
(* Proofs about the kernel model of module Kernel, for every value of the  *)
(* constants that satisfies the assumptions of Sched, Ipc and Kernel.      *)
(*                                                                         *)
(* The helpers of sched.rs and the handlers pick "the first free slot"     *)
(* (cap_alloc_for, spawn_proc) and "the first runnable slot after cur"     *)
(* (pick_next_runnable); the model writes these as Min of a set of        *)
(* naturals, so the lemmas start with the least-number principle, taken   *)
(* from the well-foundedness of < on Nat.                                  *)
(***************************************************************************)
EXTENDS Kernel, WellFoundedInduction, TLAPS

USE SchedAssumption, IpcAssumption, KernelAssumption

(* Adding the modulus once does not change a residue.                     *)
LEMMA ModShift ==
  ASSUME NEW N \in Nat \ {0}, NEW x \in 0 .. N - 1
  PROVE  (x + N) % N = x
BY Z3

(* A non-empty set of naturals has a least element, and Min names it.      *)
LEMMA MinNat ==
  ASSUME NEW S \in SUBSET Nat, S # {}
  PROVE  Min(S) \in S /\ \A y \in S : Min(S) <= y
<1>1. \E x \in S : \A y \in S : ~(<<y, x>> \in OpToRel(<, Nat))
  BY NatLessThanWellFounded, WFMin
<1>2. PICK x \in S : \A y \in S : ~(<<y, x>> \in OpToRel(<, Nat))
  BY <1>1
<1>3. \A y \in S : x <= y
  <2>. TAKE y \in S
  <2>1. <<y, x>> \in Nat \X Nat
    OBVIOUS
  <2>2. ~(y < x)
    BY <1>2, <2>1 DEF OpToRel
  <2>. QED BY <2>2
<1>4. \E z \in S : \A y \in S : z <= y
  BY <1>3
<1>. QED BY <1>4 DEF Min

(* The smaller of two naturals.                                            *)
LEMMA MinPair ==
  ASSUME NEW a \in Nat, NEW b \in Nat
  PROVE  /\ Min({a, b}) \in {a, b}
         /\ Min({a, b}) <= a
         /\ Min({a, b}) <= b
<1>1. {a, b} \in SUBSET Nat /\ {a, b} # {}
  OBVIOUS
<1>. QED BY <1>1, MinNat

(* The handlers stage at most MAX_MSG bytes.                               *)
LEMMA StagedType ==
  ASSUME NEW len \in Nat
  PROVE  Staged(len) \in 0 .. MaxMsg
<1>1. Min({len, StageMax}) \in Nat
  BY MinPair
<1>. QED BY <1>1, MinPair DEF Staged

(* pick_next_runnable returns a slot of the table.                         *)
LEMMA PickNextType ==
  ASSUME NEW rn \in [Pids -> BOOLEAN], NEW cur \in Pids,
         alive \in [Pids -> BOOLEAN]
  PROVE  PickNextIn(rn, cur) \in Pids
<1>. DEFINE offs == {k \in 1 .. MaxProcs : alive[(cur + k) % MaxProcs]
                                           /\ rn[(cur + k) % MaxProcs]}
<1>1. CASE offs = {}
  BY <1>1 DEF PickNextIn
<1>2. CASE offs # {}
  <2>1. offs \in SUBSET Nat
    OBVIOUS
  <2>2. Min(offs) \in Nat
    BY <1>2, <2>1, MinNat
  <2>3. PickNextIn(rn, cur) = (cur + Min(offs)) % MaxProcs
    BY <1>2 DEF PickNextIn
  <2>4. cur + Min(offs) \in Nat
    BY <2>2 DEF Pids
  <2>5. \A x \in Nat : x % MaxProcs \in 0 .. MaxProcs - 1
    OBVIOUS
  <2>. QED BY <2>3, <2>4, <2>5 DEF Pids
<1>. QED BY <1>1, <1>2

(* cap_alloc_for finds an index of the table, or none, and stores a valid  *)
(* endpoint id there.                                                      *)
LEMMA CapAllocType ==
  ASSUME NEW t \in [CapIdx -> 0 .. MaxEndpoints], NEW e \in 0 .. MaxEndpoints
  PROVE  /\ CapAllocIdx(t, e) \in 0 .. CapsPerProc
         /\ CapAllocTable(t, e) \in [CapIdx -> 0 .. MaxEndpoints]
<1>. DEFINE free == {i \in CapIdx : t[i] = 0}
<1>1. CASE e = 0 \/ free = {}
  BY <1>1 DEF CapAllocIdx, CapAllocTable
<1>2. CASE e # 0 /\ free # {}
  <2>0. free \in SUBSET Nat
    BY DEF CapIdx
  <2>1. Min(free) \in free
    BY <1>2, <2>0, MinNat
  <2>2. CapAllocIdx(t, e) \in CapIdx
    BY <1>2, <2>1 DEF CapAllocIdx
  <2>. QED BY <2>2 DEF CapAllocTable, CapIdx
<1>. QED BY <1>1, <1>2

(* cap_lookup_current yields an endpoint id or 0.                          *)
LEMMA CapLookupType ==
  ASSUME caps \in [Pids -> [CapIdx -> 0 .. MaxEndpoints]],
         NEW p \in Pids, NEW cap
  PROVE  CapLookup(p, cap) \in 0 .. MaxEndpoints
BY DEF CapLookup
(* The CPU state a switch leaves (switch_from and the stub's CR3 load)     *)
(* names slots of the table.                                               *)
LEMMA ReschedType ==
  ASSUME TypeOK, NEW rn \in [Pids -> BOOLEAN], Resched(rn)
  PROVE  /\ current' \in Pids
         /\ nextCr3' \in Pids
         /\ rsp0' \in Pids
         /\ cr3' \in Pids
<1>1. PickNextIn(rn, current) \in Pids
  BY PickNextType DEF TypeOK, SchedTypeOK
<1>. QED BY <1>1 DEF Resched, SwitchFrom, Switches, TypeOK, SchedTypeOK

(* wake keeps the flags and blocked_ep fields well typed.                  *)
LEMMA WakeType ==
  ASSUME TypeOK, NEW p \in Pids, Wake(p)
  PROVE  /\ runnable' \in [Pids -> BOOLEAN]
         /\ blockedEp' \in [Pids -> 0 .. MaxEndpoints]
<1>1. CASE alive[p]
  <2>1. runnable' = [runnable EXCEPT ![p] = TRUE]
    BY <1>1 DEF Wake
  <2>2. blockedEp' = [blockedEp EXCEPT ![p] = 0]
    BY <1>1 DEF Wake
  <2>. QED BY <2>1, <2>2 DEF TypeOK, SchedTypeOK
<1>2. CASE ~alive[p]
  BY <1>2 DEF Wake, TypeOK, SchedTypeOK
<1>. QED BY <1>1, <1>2

(* Writing an integer result into a frame's rax keeps the frames typed.    *)
LEMMA SetRaxType ==
  ASSUME frame \in [Pids -> Frame], NEW c \in Pids, NEW v \in Int,
         SetRax(c, v)
  PROVE  frame' \in [Pids -> Frame]
BY DEF SetRax, Frame

(* The timer interrupt preserves the type invariant.                       *)
LEMMA TimerType ==
  ASSUME TypeOK, OnTimerIrq
  PROVE  TypeOK'
<1>1. runnable \in [Pids -> BOOLEAN]
  BY DEF TypeOK, SchedTypeOK
<1>2. /\ current' \in Pids /\ nextCr3' \in Pids /\ rsp0' \in Pids
      /\ cr3' \in Pids
  BY <1>1, ReschedType DEF OnTimerIrq
<1>. QED BY <1>2 DEF OnTimerIrq, TypeOK, SchedTypeOK, IpcTypeOK, ipcVars

(* Handlers that only write rax: PUTC, WRITE and an unknown number.        *)
LEMMA RaxOnlyType ==
  ASSUME TypeOK, NEW c \in Pids, NEW v \in Int, SetRax(c, v),
         UNCHANGED <<schedVars, ipcVars, cr3>>
  PROVE  TypeOK'
<1>1. frame' \in [Pids -> Frame]
  BY SetRaxType DEF TypeOK
<1>. QED BY <1>1 DEF TypeOK, SchedTypeOK, IpcTypeOK, schedVars, ipcVars

(* YIELD preserves the type invariant.                                     *)
LEMMA YieldType ==
  ASSUME TypeOK, NEW c \in Pids, SysYield(c)
  PROVE  TypeOK'
<1>1. frame' \in [Pids -> Frame]
  BY SetRaxType DEF SysYield, TypeOK
<1>2. /\ current' \in Pids /\ nextCr3' \in Pids /\ rsp0' \in Pids
      /\ cr3' \in Pids
  BY ReschedType DEF SysYield, TypeOK, SchedTypeOK
<1>. QED BY <1>1, <1>2 DEF SysYield, TypeOK, SchedTypeOK, IpcTypeOK, ipcVars

(* IPC_EP_CREATE preserves the type invariant.                             *)
LEMMA EpCreateType ==
  ASSUME TypeOK, NEW c \in Pids, SysEpCreate(c)
  PROVE  TypeOK'
<1>. DEFINE i == nextEp
            idx == CapAllocIdx(caps[c], i + 1)
<1>1. nextEp' \in Nat
  BY DEF SysEpCreate, TypeOK, IpcTypeOK
<1>2. CASE EndpointAllocFails(i) \/ idx = 0
  <2>0. SetRax(c, ErrInval)
    BY <1>2 DEF SysEpCreate
  <2>1. frame' \in [Pids -> Frame]
    BY <2>0, SetRaxType DEF ErrInval, TypeOK
  <2>. QED BY <1>1, <1>2, <2>1
           DEF SysEpCreate, TypeOK, SchedTypeOK, IpcTypeOK
<1>3. CASE ~(EndpointAllocFails(i) \/ idx = 0)
  <2>1. i + 1 \in 0 .. MaxEndpoints
    BY <1>3 DEF EndpointAllocFails, TypeOK, IpcTypeOK
  <2>2. caps[c] \in [CapIdx -> 0 .. MaxEndpoints]
    BY DEF TypeOK, SchedTypeOK
  <2>3. idx \in 0 .. CapsPerProc /\ CapAllocTable(caps[c], i + 1) \in
          [CapIdx -> 0 .. MaxEndpoints]
    BY <2>1, <2>2, CapAllocType
  <2>0. SetRax(c, idx)
    BY <1>3 DEF SysEpCreate
  <2>4. frame' \in [Pids -> Frame]
    BY <2>0, <2>3, SetRaxType DEF TypeOK
  <2>5. caps' \in [Pids -> [CapIdx -> 0 .. MaxEndpoints]]
    BY <1>3, <2>3 DEF SysEpCreate, TypeOK, SchedTypeOK
  <2>. QED BY <1>1, <2>4, <2>5 DEF SysEpCreate, TypeOK, SchedTypeOK, IpcTypeOK
<1>. QED BY <1>2, <1>3
(* deliver_ipc keeps the receiver's frame, table and flags typed, whether  *)
(* the copy to its buffer faults or not.                                   *)
LEMMA DeliverType ==
  ASSUME TypeOK, NEW s \in Pids, NEW pid \in Pids, NEW n \in Nat,
         NEW x \in 0 .. MaxEndpoints, DeliverIpc(s, pid, n, x)
  PROVE  /\ frame' \in [Pids -> Frame]
         /\ caps' \in [Pids -> [CapIdx -> 0 .. MaxEndpoints]]
         /\ runnable' \in [Pids -> BOOLEAN]
         /\ blockedEp' \in [Pids -> 0 .. MaxEndpoints]
<1>. DEFINE k   == Min({Staged(frame[pid].rdx), n})
            idx == CapAllocIdx(caps[pid], x)
<1>1. k \in Nat
  <2>1. Staged(frame[pid].rdx) \in 0 .. MaxMsg
    BY StagedType DEF TypeOK, Frame
  <2>. QED BY <2>1, MinPair
<1>2. idx \in 0 .. CapsPerProc
      /\ CapAllocTable(caps[pid], x) \in [CapIdx -> 0 .. MaxEndpoints]
  BY CapAllocType DEF TypeOK, SchedTypeOK
<1>3. CASE CopyFails(frame[pid].rsi, k)
  <2>1. SetRax(s, ErrInval) /\ UNCHANGED <<runnable, blockedEp, caps>>
    BY <1>3 DEF DeliverIpc
  <2>2. frame' \in [Pids -> Frame]
    BY <2>1, SetRaxType DEF TypeOK, ErrInval
  <2>. QED BY <2>1, <2>2 DEF TypeOK, SchedTypeOK
<1>4. CASE ~CopyFails(frame[pid].rsi, k)
  <2>1. /\ frame' = [frame EXCEPT ![pid].rax = k, ![pid].rdx = idx,
                                   ![s].rax = k]
        /\ caps' = [caps EXCEPT ![pid] = CapAllocTable(caps[pid], x)]
        /\ Wake(pid)
    BY <1>4 DEF DeliverIpc
  <2>2. frame' \in [Pids -> Frame]
    BY <1>1, <1>2, <2>1 DEF TypeOK, Frame
  <2>3. caps' \in [Pids -> [CapIdx -> 0 .. MaxEndpoints]]
    BY <1>2, <2>1 DEF TypeOK, SchedTypeOK
  <2>. QED BY <2>1, <2>2, <2>3, WakeType
<1>. QED BY <1>3, <1>4

(* ep_send_cap writes a well-formed message into a slot of the ring.       *)
LEMMA EpSendCapType ==
  ASSUME TypeOK, NEW p \in Pids, NEW cap, NEW n \in 0 .. MaxMsg,
         NEW x \in 0 .. MaxEndpoints, EpSendCap(p, cap, n, x)
  PROVE  /\ buf' \in [EpIds -> [0 .. QLen - 1 -> Msg]]
         /\ tail' \in [EpIds -> Nat]
<1>. DEFINE e == CapLookup(p, cap)
<1>1. e \in 0 .. MaxEndpoints
  BY CapLookupType DEF TypeOK, SchedTypeOK
<1>2. CASE EpSendRet(p, cap, n) = n
  <2>1. e \in EpIds
    BY <1>1, <1>2 DEF EpSendRet, ErrInval, EpIds
  <2>2. tail[e] % QLen \in 0 .. QLen - 1 /\ tail[e] \in Nat
    BY <2>1 DEF TypeOK, IpcTypeOK
  <2>3. [len |-> n, xfer |-> x, seq |-> tail[e]] \in Msg
    BY <2>2 DEF Msg
  <2>4. /\ buf' = [buf EXCEPT ![e][tail[e] % QLen] =
                                [len |-> n, xfer |-> x, seq |-> tail[e]]]
        /\ tail' = [tail EXCEPT ![e] = tail[e] + 1]
    BY <1>2 DEF EpSendCap
  <2>. QED BY <2>1, <2>2, <2>3, <2>4 DEF TypeOK, IpcTypeOK
<1>3. CASE EpSendRet(p, cap, n) # n
  BY <1>3 DEF EpSendCap, TypeOK, IpcTypeOK
<1>. QED BY <1>2, <1>3

(* ep_send_cap's return value is an integer.                               *)
LEMMA EpSendRetType ==
  ASSUME NEW p, NEW cap, NEW n \in Int
  PROVE  EpSendRet(p, cap, n) \in Int
BY DEF EpSendRet, ErrInval, ErrFull
(* The send path of IPC_SEND and IPC_SEND_CAP preserves the type invariant *)
(* on each of its three branches: fault or bad cap, direct delivery to a   *)
(* popped waiter, and enqueue.                                             *)
LEMMA SendType ==
  ASSUME TypeOK, NEW c \in Pids, NEW cap \in CapArgs, NEW len \in Lens,
         NEW ptr \in Ptrs, NEW x \in 0 .. MaxEndpoints,
         Send(c, cap, len, ptr, x)
  PROVE  TypeOK'
<1>. DEFINE n == Staged(len)
            e == CapLookup(c, cap)
<1>1. n \in 0 .. MaxMsg
  BY StagedType
<1>2. e \in 0 .. MaxEndpoints
  BY CapLookupType DEF TypeOK, SchedTypeOK
<1>3. UNCHANGED <<current, alive, nextCr3, rsp0, cr3>>
  BY DEF Send
<1>4. CASE CopyFails(ptr, n) \/ e = 0
  <2>1. SetRax(c, ErrInval) /\ UNCHANGED <<runnable, blockedEp, caps, ipcVars>>
    BY <1>4 DEF Send
  <2>2. frame' \in [Pids -> Frame]
    BY <2>1, SetRaxType DEF TypeOK, ErrInval
  <2>. QED BY <1>3, <2>1, <2>2 DEF TypeOK, SchedTypeOK, IpcTypeOK, ipcVars
<1>5. CASE ~(CopyFails(ptr, n) \/ e = 0) /\ e \in EpIds /\ ~WaiterEmpty(e)
  <2>1. /\ WaiterPop(e)
        /\ DeliverIpc(c, WaiterFront(e), n, x)
        /\ UNCHANGED <<nextEp, head, tail, buf>>
    BY <1>5 DEF Send
  <2>2. WaiterFront(e) \in Pids
    BY <1>5 DEF WaiterFront, TypeOK, IpcTypeOK
  <2>3. /\ frame' \in [Pids -> Frame]
        /\ caps' \in [Pids -> [CapIdx -> 0 .. MaxEndpoints]]
        /\ runnable' \in [Pids -> BOOLEAN]
        /\ blockedEp' \in [Pids -> 0 .. MaxEndpoints]
    BY <1>1, <2>1, <2>2, DeliverType
  <2>4. wHead' \in [EpIds -> Nat] /\ UNCHANGED <<waiters, wTail>>
    BY <1>5, <2>1 DEF WaiterPop, TypeOK, IpcTypeOK
  <2>. QED BY <1>3, <2>1, <2>3, <2>4 DEF TypeOK, SchedTypeOK, IpcTypeOK
<1>6. CASE ~(CopyFails(ptr, n) \/ e = 0) /\ ~(e \in EpIds /\ ~WaiterEmpty(e))
  <2>1. /\ EpSendCap(c, cap, n, x)
        /\ SetRax(c, EpSendRet(c, cap, n))
        /\ UNCHANGED <<runnable, blockedEp, caps, nextEp, head,
                       wHead, wTail, waiters>>
    BY <1>6 DEF Send
  <2>2. buf' \in [EpIds -> [0 .. QLen - 1 -> Msg]] /\ tail' \in [EpIds -> Nat]
    BY <1>1, <2>1, EpSendCapType
  <2>3. frame' \in [Pids -> Frame]
    BY <1>1, <2>1, SetRaxType, EpSendRetType DEF TypeOK
  <2>. QED BY <1>3, <2>1, <2>2, <2>3 DEF TypeOK, SchedTypeOK, IpcTypeOK
<1>. QED BY <1>4, <1>5, <1>6

(* IPC_SEND_CAP preserves the type invariant: the transferred endpoint is  *)
(* what the sender's table resolves, an endpoint id or 0.                  *)
LEMMA SendCapType ==
  ASSUME TypeOK, NEW c \in Pids, NEW cap \in CapArgs, NEW len \in Lens,
         NEW ptr \in Ptrs, NEW xcap \in CapArgs,
         SysSendCap(c, cap, len, ptr, xcap)
  PROVE  TypeOK'
<1>1. CASE xcap # 0 /\ CapLookup(c, xcap) = 0
  <2>1. SetRax(c, ErrInval) /\ UNCHANGED <<schedVars, ipcVars, cr3>>
    BY <1>1 DEF SysSendCap
  <2>. QED BY <2>1, RaxOnlyType DEF ErrInval
<1>2. CASE ~(xcap # 0 /\ CapLookup(c, xcap) = 0)
  <2>1. Send(c, cap, len, ptr, CapLookup(c, xcap))
    BY <1>2 DEF SysSendCap
  <2>2. CapLookup(c, xcap) \in 0 .. MaxEndpoints
    BY CapLookupType DEF TypeOK, SchedTypeOK
  <2>. QED BY <2>1, <2>2, SendType
<1>. QED BY <1>1, <1>2
(* ep_recv_cap returns an error sentinel, or a length with an endpoint id  *)
(* or 0 taken from a message of a valid endpoint.                          *)
LEMMA EpRecvRetType ==
  ASSUME TypeOK, NEW p \in Pids, NEW cap, NEW outLen \in Nat
  PROVE  LET r == EpRecvRet(p, cap, outLen) IN
         /\ r[1] \in {ErrInval, ErrEmpty} \cup Nat
         /\ r[2] \in 0 .. MaxEndpoints
         /\ r[1] # ErrInval => CapLookup(p, cap) \in EpIds
<1>. DEFINE e == CapLookup(p, cap)
<1>1. CASE e \notin EpIds \/ QueueEmpty(e)
  BY <1>1 DEF EpRecvRet, ErrInval, ErrEmpty
<1>2. CASE e \in EpIds /\ ~QueueEmpty(e)
  <2>1. Front(e) \in Msg
    BY <1>2 DEF Front, TypeOK, IpcTypeOK
  <2>2. Min({Front(e).len, outLen}) \in Nat
    BY <2>1, MinPair DEF Msg
  <2>. QED BY <1>2, <2>1, <2>2 DEF EpRecvRet, Msg, ErrInval
<1>. QED BY <1>1, <1>2

(* The result registers a receive writes keep the frames typed.           *)
LEMMA RecvReturnType ==
  ASSUME frame \in [Pids -> Frame], NEW c \in Pids, NEW withCap \in BOOLEAN,
         NEW r \in Int, NEW d \in Nat, RecvReturn(c, withCap, r, d)
  PROVE  frame' \in [Pids -> Frame]
BY DEF RecvReturn, Frame

(* A receiver that blocks leaves the state typed.                          *)
LEMMA RecvBlockType ==
  ASSUME TypeOK, NEW c \in Pids, NEW e \in EpIds, NEW ptr \in Ptrs,
         NEW maxLen \in Nat, NEW num \in Int, RecvBlock(c, e, ptr, maxLen, num)
  PROVE  /\ current' \in Pids /\ nextCr3' \in Pids /\ rsp0' \in Pids
         /\ cr3' \in Pids
         /\ alive' \in [Pids -> BOOLEAN]
         /\ runnable' \in [Pids -> BOOLEAN]
         /\ blockedEp' \in [Pids -> 0 .. MaxEndpoints]
         /\ caps' \in [Pids -> [CapIdx -> 0 .. MaxEndpoints]]
         /\ waiters' \in [EpIds -> [0 .. MaxWaiters - 1 -> Pids]]
         /\ wHead' \in [EpIds -> Nat]
         /\ wTail' \in [EpIds -> Nat]
         /\ frame' \in [Pids -> Frame]
<1>1. [runnable EXCEPT ![c] = FALSE] \in [Pids -> BOOLEAN]
  BY DEF TypeOK, SchedTypeOK
<1>2. /\ current' \in Pids /\ nextCr3' \in Pids /\ rsp0' \in Pids
      /\ cr3' \in Pids
  BY <1>1, ReschedType DEF RecvBlock
<1>3. blockedEp' \in [Pids -> 0 .. MaxEndpoints]
  BY DEF RecvBlock, TypeOK, SchedTypeOK, EpIds
<1>4. waiters' \in [EpIds -> [0 .. MaxWaiters - 1 -> Pids]]
      /\ wTail' \in [EpIds -> Nat]
  BY DEF RecvBlock, WaiterPush, TypeOK, IpcTypeOK
<1>5. frame' \in [Pids -> Frame]
  BY DEF RecvBlock, TypeOK, Frame
<1>. QED BY <1>1, <1>2, <1>3, <1>4, <1>5 DEF RecvBlock, TypeOK, SchedTypeOK,
                                           IpcTypeOK

(* Installing a received capability leaves the state typed.                *)
LEMMA RecvInstallType ==
  ASSUME TypeOK, NEW c \in Pids, NEW withCap \in BOOLEAN,
         NEW got \in Nat \X (0 .. MaxEndpoints), RecvInstall(c, withCap, got)
  PROVE  /\ caps' \in [Pids -> [CapIdx -> 0 .. MaxEndpoints]]
         /\ frame' \in [Pids -> Frame]
<1>. DEFINE x == IF withCap THEN got[2] ELSE 0
<1>1. x \in 0 .. MaxEndpoints
  OBVIOUS
<1>2. CapAllocIdx(caps[c], x) \in 0 .. CapsPerProc
      /\ CapAllocTable(caps[c], x) \in [CapIdx -> 0 .. MaxEndpoints]
  BY <1>1, CapAllocType DEF TypeOK, SchedTypeOK
<1>3. RecvReturn(c, withCap, got[1], CapAllocIdx(caps[c], x))
  BY DEF RecvInstall
<1>4. frame' \in [Pids -> Frame]
  BY <1>2, <1>3, RecvReturnType DEF TypeOK
<1>. QED BY <1>2, <1>4 DEF RecvInstall, TypeOK, SchedTypeOK

(* IPC_RECV and IPC_RECV_CAP preserve the type invariant on each branch:   *)
(* an error returned, a blocking wait, a copy-out fault, a delivery.       *)
LEMMA RecvType ==
  ASSUME TypeOK, NEW c \in Pids, NEW cap \in CapArgs, NEW maxLen \in Lens,
         NEW ptr \in Ptrs, NEW withCap \in BOOLEAN, NEW num \in Int,
         Recv(c, cap, maxLen, ptr, withCap, num)
  PROVE  TypeOK'
<1>. DEFINE n   == Staged(maxLen)
            e   == CapLookup(c, cap)
            got == EpRecvRet(c, cap, n)
            blocks == got[1] = ErrEmpty /\ HasOtherRunnable(c) /\ ~WaiterFull(e)
<1>1. n \in 0 .. MaxMsg
  BY StagedType
<1>2. /\ got[1] \in {ErrInval, ErrEmpty} \cup Nat
      /\ got[2] \in 0 .. MaxEndpoints
      /\ got[1] # ErrInval => e \in EpIds
  BY <1>1, EpRecvRetType
<1>3. /\ EpRecvCap(c, cap)
      /\ UNCHANGED <<nextEp, tail, buf>>
      /\ \/ /\ got[1] \in {ErrInval, ErrEmpty}
            /\ ~blocks
            /\ RecvReturn(c, withCap, got[1], 0)
            /\ UNCHANGED <<schedVars, wHead, wTail, waiters, cr3>>
         \/ blocks /\ RecvBlock(c, e, ptr, maxLen, num)
         \/ /\ got[1] >= 0
            /\ CopyFails(ptr, got[1])
            /\ RecvReturn(c, withCap, ErrInval, 0)
            /\ UNCHANGED <<schedVars, wHead, wTail, waiters, cr3>>
         \/ /\ got[1] >= 0
            /\ ~CopyFails(ptr, got[1])
            /\ RecvInstall(c, withCap, got)
  BY DEF Recv
<1>4. head' \in [EpIds -> Nat]
  <2>1. CASE e \in EpIds /\ ~QueueEmpty(e)
    <3>1. head' = [head EXCEPT ![e] = head[e] + 1]
      BY <1>3, <2>1 DEF EpRecvCap
    <3>. QED BY <2>1, <3>1 DEF TypeOK, IpcTypeOK
  <2>2. CASE ~(e \in EpIds /\ ~QueueEmpty(e))
    BY <1>3, <2>2 DEF EpRecvCap, TypeOK, IpcTypeOK
  <2>. QED BY <2>1, <2>2
<1>5. CASE got[1] \in {ErrInval, ErrEmpty} /\ ~blocks
  <2>1. RecvReturn(c, withCap, got[1], 0)
        /\ UNCHANGED <<schedVars, wHead, wTail, waiters, cr3>>
    BY <1>3, <1>5 DEF ErrInval, ErrEmpty
  <2>2. frame' \in [Pids -> Frame]
    BY <1>5, <2>1, RecvReturnType DEF TypeOK, ErrInval, ErrEmpty
  <2>. QED BY <1>3, <1>4, <2>1, <2>2
           DEF TypeOK, SchedTypeOK, IpcTypeOK, schedVars
<1>6. CASE blocks
  <2>1. e \in EpIds
    BY <1>2, <1>6 DEF ErrInval, ErrEmpty
  <2>2. RecvBlock(c, e, ptr, maxLen, num)
    BY <1>3, <1>6 DEF ErrEmpty
  <2>. QED BY <1>3, <1>4, <2>1, <2>2, RecvBlockType DEF TypeOK, SchedTypeOK,
                                                       IpcTypeOK
<1>7. CASE got[1] \in Nat /\ CopyFails(ptr, got[1])
  <2>1. RecvReturn(c, withCap, ErrInval, 0)
        /\ UNCHANGED <<schedVars, wHead, wTail, waiters, cr3>>
    BY <1>3, <1>7 DEF ErrEmpty
  <2>2. frame' \in [Pids -> Frame]
    BY <2>1, RecvReturnType DEF TypeOK, ErrInval
  <2>. QED BY <1>3, <1>4, <2>1, <2>2
           DEF TypeOK, SchedTypeOK, IpcTypeOK, schedVars
<1>8. CASE got[1] \in Nat /\ ~CopyFails(ptr, got[1])
  <2>0. ~(got[1] \in {ErrInval, ErrEmpty}) /\ ~blocks
    BY <1>8 DEF ErrInval, ErrEmpty
  <2>1. RecvInstall(c, withCap, got)
    BY <1>3, <1>8, <2>0
  <2>2. got \in Nat \X (0 .. MaxEndpoints)
    BY <1>2, <1>8 DEF EpRecvRet
  <2>3. /\ caps' \in [Pids -> [CapIdx -> 0 .. MaxEndpoints]]
        /\ frame' \in [Pids -> Frame]
    BY <2>1, <2>2, RecvInstallType
  <2>. QED BY <1>3, <1>4, <2>1, <2>3 DEF RecvInstall, TypeOK, SchedTypeOK,
                                         IpcTypeOK
<1>. QED BY <1>2, <1>5, <1>6, <1>7, <1>8 DEF ErrInval, ErrEmpty
(* PROC_SPAWN preserves the type invariant: spawn_proc picks a slot of the *)
(* table and the child's table holds at most the shared endpoint.          *)
LEMMA SpawnType ==
  ASSUME TypeOK, NEW c \in Pids, NEW prog, NEW share \in CapArgs,
         SysSpawn(c, prog, share)
  PROVE  TypeOK'
<1>. DEFINE ep   == CapLookup(c, share)
            free == {p \in Pids : ~alive[p]}
            pid  == Min(free)
            idx  == CapAllocIdx(NoCaps, ep)
<1>1. UNCHANGED <<current, nextCr3, rsp0, ipcVars, cr3>>
  BY DEF SysSpawn
<1>2. CASE prog # 1 \/ free = {}
  <2>1. SetRax(c, ErrInval) /\ UNCHANGED <<alive, runnable, blockedEp, caps>>
    BY <1>2 DEF SysSpawn
  <2>2. frame' \in [Pids -> Frame]
    BY <2>1, SetRaxType DEF TypeOK, ErrInval
  <2>. QED BY <1>1, <2>1, <2>2 DEF TypeOK, SchedTypeOK, IpcTypeOK, ipcVars
<1>3. CASE ~(prog # 1 \/ free = {})
  <2>1. /\ alive' = [alive EXCEPT ![pid] = TRUE]
        /\ runnable' = [runnable EXCEPT ![pid] = TRUE]
        /\ blockedEp' = [blockedEp EXCEPT ![pid] = 0]
        /\ caps' = [caps EXCEPT ![pid] = CapAllocTable(NoCaps, ep)]
        /\ frame' = [frame EXCEPT ![pid] = [rax |-> 0, rsi |-> idx, rdx |-> 0],
                                  ![c].rax = pid]
    BY <1>3 DEF SysSpawn
  <2>2. pid \in Pids
    <3>1. free \in SUBSET Nat /\ free # {}
      BY <1>3 DEF Pids
    <3>. QED BY <3>1, MinNat
  <2>3. /\ NoCaps \in [CapIdx -> 0 .. MaxEndpoints]
        /\ ep \in 0 .. MaxEndpoints
    BY CapLookupType DEF NoCaps, TypeOK, SchedTypeOK
  <2>4. /\ idx \in 0 .. CapsPerProc
        /\ CapAllocTable(NoCaps, ep) \in [CapIdx -> 0 .. MaxEndpoints]
    BY <2>3, CapAllocType
  <2>5. frame' \in [Pids -> Frame]
    <3>1. [rax |-> 0, rsi |-> idx, rdx |-> 0] \in Frame
      BY <2>4 DEF Frame
    <3>2. [frame EXCEPT ![pid] = [rax |-> 0, rsi |-> idx, rdx |-> 0]]
            \in [Pids -> Frame]
      BY <2>2, <3>1 DEF TypeOK
    <3>3. pid \in Int
      BY <2>2 DEF Pids
    <3>. QED BY <2>1, <3>2, <3>3 DEF Frame
  <2>6. /\ alive' \in [Pids -> BOOLEAN]
        /\ runnable' \in [Pids -> BOOLEAN]
        /\ blockedEp' \in [Pids -> 0 .. MaxEndpoints]
        /\ caps' \in [Pids -> [CapIdx -> 0 .. MaxEndpoints]]
    BY <2>1, <2>2, <2>4 DEF TypeOK, SchedTypeOK
  <2>. QED BY <1>1, <2>5, <2>6 DEF TypeOK, SchedTypeOK, IpcTypeOK, ipcVars
<1>. QED BY <1>2, <1>3

(* The state enter_first_user leaves is typed.                             *)
LEMMA InitType ==
  Init => TypeOK
BY DEF Init, SchedInit, IpcInit, TypeOK, SchedTypeOK, IpcTypeOK, Frame,
       NoCaps, Msg, EmptyMsg, Pids, EpIds

(* Every trap handler and the timer preserve the type invariant.           *)
LEMMA NextType ==
  TypeOK /\ [Next]_vars => TypeOK'
<1> SUFFICES ASSUME TypeOK, [Next]_vars PROVE TypeOK'
  OBVIOUS
<1>. DEFINE c == current
<1>1. c \in Pids
  BY DEF TypeOK, SchedTypeOK
<1>2. CASE OnTimerIrq
  BY <1>2, TimerType
<1>3. CASE SysPutc(c)
  BY <1>1, <1>3, RaxOnlyType DEF SysPutc
<1>4. CASE SysYield(c)
  BY <1>1, <1>4, YieldType
<1>5. CASE \E len \in Lens : SysWrite(c, len)
  <2>1. PICK len \in Lens : SysWrite(c, len)
    BY <1>5
  <2>2. PICK w \in 0 .. Min({len, StageMax}) : SetRax(c, w)
    BY <2>1 DEF SysWrite
  <2>3. w \in Int
    BY MinPair
  <2>. QED BY <1>1, <2>1, <2>2, <2>3, RaxOnlyType DEF SysWrite
<1>6. CASE SysEpCreate(c)
  BY <1>1, <1>6, EpCreateType
<1>7. CASE \E cap \in CapArgs, len \in Lens, ptr \in Ptrs :
             \/ SysSend(c, cap, len, ptr)
             \/ \E xcap \in CapArgs : SysSendCap(c, cap, len, ptr, xcap)
  <2>1. PICK cap \in CapArgs, len \in Lens, ptr \in Ptrs :
             \/ SysSend(c, cap, len, ptr)
             \/ \E xcap \in CapArgs : SysSendCap(c, cap, len, ptr, xcap)
    BY <1>7
  <2>2. CASE SysSend(c, cap, len, ptr)
    BY <1>1, <2>2, SendType DEF SysSend
  <2>3. CASE \E xcap \in CapArgs : SysSendCap(c, cap, len, ptr, xcap)
    BY <1>1, <2>3, SendCapType
  <2>. QED BY <2>1, <2>2, <2>3
<1>8. CASE \E cap \in CapArgs, len \in Lens, ptr \in Ptrs :
             \/ SysRecv(c, cap, len, ptr)
             \/ SysRecvCap(c, cap, len, ptr)
  <2>1. PICK cap \in CapArgs, len \in Lens, ptr \in Ptrs :
             \/ SysRecv(c, cap, len, ptr)
             \/ SysRecvCap(c, cap, len, ptr)
    BY <1>8
  <2>2. IPC_RECV \in Int /\ IPC_RECV_CAP \in Int
    BY DEF IPC_RECV, IPC_RECV_CAP
  <2>3. CASE SysRecv(c, cap, len, ptr)
    <3>1. Recv(c, cap, len, ptr, FALSE, IPC_RECV)
      BY <2>3 DEF SysRecv
    <3>. QED BY <1>1, <2>2, <3>1, RecvType
  <2>4. CASE SysRecvCap(c, cap, len, ptr)
    <3>1. Recv(c, cap, len, ptr, TRUE, IPC_RECV_CAP)
      BY <2>4 DEF SysRecvCap
    <3>. QED BY <1>1, <2>2, <3>1, RecvType
  <2>. QED BY <2>1, <2>3, <2>4
<1>9. CASE \E prog \in {1, 2}, share \in CapArgs : SysSpawn(c, prog, share)
  BY <1>1, <1>9, SpawnType
<1>10. CASE SysUnknown(c)
  BY <1>1, <1>10, RaxOnlyType DEF SysUnknown, ErrInval
<1>11. CASE UNCHANGED vars
  BY <1>11 DEF vars, schedVars, ipcVars, TypeOK, SchedTypeOK, IpcTypeOK
<1>. QED BY <1>2, <1>3, <1>4, <1>5, <1>6, <1>7, <1>8, <1>9, <1>10, <1>11
         DEF Next, SysCall

(***************************************************************************)
(* Type correctness: in every reachable state the scheduler table, the     *)
(* endpoint pool and the saved frames hold values of their types (pids in *)
(* range, endpoint ids in 0..MAX_ENDPOINTS in every capability slot and    *)
(* every queued message, message lengths at most MAX_MSG), for every size *)
(* of the tables.                                                          *)
(***************************************************************************)
THEOREM TypeCorrect ==
  Spec => []TypeOK
<1>1. Init => TypeOK
  BY InitType
<1>2. TypeOK /\ [Next]_vars => TypeOK'
  BY NextType
<1>. QED BY <1>1, <1>2, PTL DEF Spec
-----------------------------------------------------------------------------
(***************************************************************************)
(* The CPU runs a runnable process in its own address space.              *)
(***************************************************************************)

(* pick_next_runnable returns cur or an alive slot runnable in rn, and it  *)
(* returns another slot whenever one other slot is alive and runnable.    *)
LEMMA PickNextRunnable ==
  ASSUME NEW rn \in [Pids -> BOOLEAN], NEW cur \in Pids,
         alive \in [Pids -> BOOLEAN]
  PROVE  /\ PickNextIn(rn, cur) # cur =>
              alive[PickNextIn(rn, cur)] /\ rn[PickNextIn(rn, cur)]
         /\ (\E p \in Pids : p # cur /\ alive[p] /\ rn[p]) =>
              PickNextIn(rn, cur) # cur
<1>. DEFINE offs == {k \in 1 .. MaxProcs : alive[(cur + k) % MaxProcs]
                                           /\ rn[(cur + k) % MaxProcs]}
<1>1. CASE offs = {}
  <2>1. PickNextIn(rn, cur) = cur
    BY <1>1 DEF PickNextIn
  <2>2. ~\E p \in Pids : p # cur /\ alive[p] /\ rn[p]
    <3>. SUFFICES ASSUME NEW p \in Pids, p # cur, alive[p], rn[p]
                  PROVE  FALSE
      OBVIOUS
    <3>. DEFINE k == IF p > cur THEN p - cur ELSE p + MaxProcs - cur
    <3>1. k \in 1 .. MaxProcs /\ (cur + k) % MaxProcs = p
      BY DEF Pids
    <3>. QED BY <1>1, <3>1
  <2>. QED BY <2>1, <2>2
<1>2. CASE offs # {}
  <2>1. Min(offs) \in offs /\ \A y \in offs : Min(offs) <= y
    BY <1>2, MinNat
  <2>2. PickNextIn(rn, cur) = (cur + Min(offs)) % MaxProcs
    BY <1>2 DEF PickNextIn
  <2>3. alive[PickNextIn(rn, cur)] /\ rn[PickNextIn(rn, cur)]
    BY <2>1, <2>2
  <2>4. ASSUME NEW p \in Pids, p # cur, alive[p], rn[p]
        PROVE  PickNextIn(rn, cur) # cur
    <3>. DEFINE k == IF p > cur THEN p - cur ELSE p + MaxProcs - cur
    <3>1. k \in 1 .. MaxProcs - 1 /\ (cur + k) % MaxProcs = p
      BY <2>4 DEF Pids
    <3>2. k \in offs
      BY <2>4, <3>1
    <3>3. Min(offs) \in 1 .. MaxProcs - 1
      BY <2>1, <3>1, <3>2
    <3>4. \A m \in 1 .. MaxProcs - 1 : (cur + m) % MaxProcs # cur
      <4>. TAKE m \in 1 .. MaxProcs - 1
      <4>1. CASE cur + m < MaxProcs
        BY <4>1 DEF Pids
      <4>2. CASE cur + m >= MaxProcs
        <5>1. cur + m - MaxProcs \in 0 .. MaxProcs - 1
          BY <4>2 DEF Pids
        <5>2. ((cur + m - MaxProcs) + MaxProcs) % MaxProcs = cur + m - MaxProcs
          BY <5>1, ModShift
        <5>3. (cur + m - MaxProcs) + MaxProcs = cur + m
          BY DEF Pids
        <5>. QED BY <5>2, <5>3 DEF Pids
      <4>. QED BY <4>1, <4>2 DEF Pids
    <3>. QED BY <2>2, <3>3, <3>4
  <2>. QED BY <2>3, <2>4
<1>. QED BY <1>1, <1>2

(* A switch (timer, yield, blocking receive) lands on an alive process     *)
(* runnable in the flags it scanned, provided the current one was runnable *)
(* there or another one was; and CR3, TSS.rsp0 and MANTRA_NEXT_CR3 all    *)
(* follow CURRENT.                                                         *)
LEMMA ReschedSound ==
  ASSUME TypeOK, NEW rn \in [Pids -> BOOLEAN], Resched(rn),
         \/ alive[current] /\ rn[current]
         \/ \E p \in Pids : p # current /\ alive[p] /\ rn[p],
         AddressSpaceOfCurrent
  PROVE  /\ alive[current'] /\ rn[current']
         /\ AddressSpaceOfCurrent'
<1>1. alive \in [Pids -> BOOLEAN] /\ current \in Pids
  BY DEF TypeOK, SchedTypeOK
<1>2. CASE Switches(rn, current)
  <2>1. /\ current' = PickNextIn(rn, current)
        /\ rsp0' = current' /\ nextCr3' = current' /\ cr3' = current'
    BY <1>2 DEF Resched, SwitchFrom, Switches
  <2>. QED BY <1>1, <1>2, <2>1, PickNextRunnable DEF Switches,
                                                 AddressSpaceOfCurrent
<1>3. CASE ~Switches(rn, current)
  <2>1. UNCHANGED <<current, nextCr3, rsp0, cr3>>
    BY <1>3 DEF Resched, SwitchFrom, Switches
  <2>2. alive[current] /\ rn[current]
    BY <1>1, <1>3, PickNextRunnable DEF Switches
  <2>. QED BY <2>1, <2>2 DEF AddressSpaceOfCurrent
<1>. QED BY <1>2, <1>3
(* A step that does not switch: CURRENT, CR3, TSS.rsp0 and MANTRA_NEXT_CR3 *)
(* stay, and the current process stays alive and runnable if it was.      *)
NoSwitch ==
  /\ UNCHANGED <<current, nextCr3, rsp0, cr3>>
  /\ alive[current] => alive'[current]
  /\ runnable[current] => runnable'[current]

(* A switch by Resched over the flags rn that can find a runnable task.    *)
SwitchOver(rn) ==
  /\ Resched(rn)
  /\ alive' = alive
  /\ runnable' = rn
  /\ \/ alive[current] /\ rn[current]
     \/ \E p \in Pids : p # current /\ alive[p] /\ rn[p]

(* deliver_ipc may only wake a process.                                    *)
LEMMA DeliverNoSwitch ==
  ASSUME TypeOK, NEW s \in Pids, NEW pid \in Pids, NEW n, NEW x,
         DeliverIpc(s, pid, n, x)
  PROVE  runnable[current] => runnable'[current]
BY DEF DeliverIpc, Wake, TypeOK, SchedTypeOK

(* The send path never switches.                                           *)
LEMMA SendNoSwitch ==
  ASSUME TypeOK, NEW c \in Pids, NEW cap, NEW len, NEW ptr, NEW x,
         Send(c, cap, len, ptr, x)
  PROVE  NoSwitch
<1>. DEFINE n == Staged(len)
            e == CapLookup(c, cap)
<1>1. UNCHANGED <<current, alive, nextCr3, rsp0, cr3>>
  BY DEF Send
<1>2. CASE ~(CopyFails(ptr, n) \/ e = 0) /\ e \in EpIds /\ ~WaiterEmpty(e)
  <2>1. DeliverIpc(c, WaiterFront(e), n, x)
    BY <1>2 DEF Send
  <2>2. WaiterFront(e) \in Pids
    BY <1>2 DEF WaiterFront, TypeOK, IpcTypeOK
  <2>. QED BY <1>1, <2>1, <2>2, DeliverNoSwitch DEF NoSwitch
<1>3. CASE ~(~(CopyFails(ptr, n) \/ e = 0) /\ e \in EpIds /\ ~WaiterEmpty(e))
  <2>1. UNCHANGED runnable
    BY <1>3 DEF Send
  <2>. QED BY <1>1, <2>1 DEF NoSwitch
<1>. QED BY <1>2, <1>3

(* A receive either does not switch or blocks the caller and switches to   *)
(* another runnable task, which has_other_runnable guarantees exists.      *)
LEMMA RecvSched ==
  ASSUME TypeOK, NEW c \in Pids, NEW cap, NEW maxLen, NEW ptr,
         NEW withCap, NEW num, Recv(c, cap, maxLen, ptr, withCap, num),
         c = current
  PROVE  NoSwitch \/ \E rn \in [Pids -> BOOLEAN] : SwitchOver(rn)
<1>. DEFINE n   == Staged(maxLen)
            e   == CapLookup(c, cap)
            got == EpRecvRet(c, cap, n)
            blocks == got[1] = ErrEmpty /\ HasOtherRunnable(c) /\ ~WaiterFull(e)
<1>1. CASE blocks
  <2>. DEFINE rn == [runnable EXCEPT ![c] = FALSE]
  <2>1. RecvBlock(c, e, ptr, maxLen, num)
    BY <1>1 DEF Recv, ErrEmpty
  <2>2. rn \in [Pids -> BOOLEAN]
    BY DEF TypeOK, SchedTypeOK
  <2>3. \E p \in Pids : p # current /\ alive[p] /\ rn[p]
    BY <1>1 DEF HasOtherRunnable
  <2>4. SwitchOver(rn)
    BY <2>1, <2>3 DEF RecvBlock, SwitchOver
  <2>. QED BY <2>2, <2>4
<1>2. CASE ~blocks
  <2>1. \/ UNCHANGED <<schedVars, cr3>>
        \/ RecvInstall(c, withCap, got)
    BY <1>2 DEF Recv
  <2>2. UNCHANGED <<current, alive, runnable, nextCr3, rsp0, cr3>>
    BY <2>1 DEF RecvInstall, schedVars
  <2>. QED BY <2>2 DEF NoSwitch
<1>. QED BY <1>1, <1>2
(* enter_first_user starts process 0 on the CPU in its own address space.  *)
LEMMA SchedInitSound ==
  Init => CurrentRunnable /\ AddressSpaceOfCurrent
<1>. SUFFICES ASSUME Init PROVE CurrentRunnable /\ AddressSpaceOfCurrent
  OBVIOUS
<1>1. 0 \in Pids
  BY DEF Pids
<1>2. current = 0 /\ alive[0] /\ runnable[0]
  BY <1>1, Zenon DEF Init, SchedInit
<1>. QED BY <1>2 DEF Init, SchedInit, CurrentRunnable, AddressSpaceOfCurrent

(* Every step of the kernel either does not switch or is a switch that can *)
(* find a runnable task.                                                   *)
LEMMA NextSched ==
  ASSUME TypeOK, CurrentRunnable, [Next]_vars
  PROVE  NoSwitch \/ \E rn \in [Pids -> BOOLEAN] : SwitchOver(rn)
<1>. DEFINE c == current
<1>1. c \in Pids /\ runnable \in [Pids -> BOOLEAN]
  BY DEF TypeOK, SchedTypeOK
<1>2. CASE OnTimerIrq \/ SysYield(c)
  <2>1. SwitchOver(runnable)
    BY <1>2 DEF OnTimerIrq, SysYield, SwitchOver, CurrentRunnable
  <2>. QED BY <1>1, <2>1
<1>3. CASE \/ SysPutc(c)
           \/ \E len \in Lens : SysWrite(c, len)
           \/ SysEpCreate(c)
           \/ SysUnknown(c)
           \/ UNCHANGED vars
  BY <1>3 DEF SysPutc, SysWrite, SysEpCreate, SysUnknown, NoSwitch, vars,
              schedVars
<1>4. CASE \E cap \in CapArgs, len \in Lens, ptr \in Ptrs :
             \/ SysSend(c, cap, len, ptr)
             \/ \E xcap \in CapArgs : SysSendCap(c, cap, len, ptr, xcap)
  <2>1. PICK cap \in CapArgs, len \in Lens, ptr \in Ptrs :
             \/ SysSend(c, cap, len, ptr)
             \/ \E xcap \in CapArgs : SysSendCap(c, cap, len, ptr, xcap)
    BY <1>4
  <2>2. CASE SysSend(c, cap, len, ptr)
    BY <1>1, <2>2, SendNoSwitch DEF SysSend
  <2>3. CASE \E xcap \in CapArgs : SysSendCap(c, cap, len, ptr, xcap)
    <3>1. PICK xcap \in CapArgs : SysSendCap(c, cap, len, ptr, xcap)
      BY <2>3
    <3>2. CASE xcap # 0 /\ CapLookup(c, xcap) = 0
      BY <3>1, <3>2 DEF SysSendCap, NoSwitch, schedVars
    <3>3. CASE ~(xcap # 0 /\ CapLookup(c, xcap) = 0)
      BY <1>1, <3>1, <3>3, SendNoSwitch DEF SysSendCap
    <3>. QED BY <3>2, <3>3
  <2>. QED BY <2>1, <2>2, <2>3
<1>5. CASE \E cap \in CapArgs, len \in Lens, ptr \in Ptrs :
             \/ SysRecv(c, cap, len, ptr)
             \/ SysRecvCap(c, cap, len, ptr)
  BY <1>1, <1>5, RecvSched DEF SysRecv, SysRecvCap
<1>6. CASE \E prog \in {1, 2}, share \in CapArgs : SysSpawn(c, prog, share)
  <2>1. PICK prog \in {1, 2}, share \in CapArgs : SysSpawn(c, prog, share)
    BY <1>6
  <2>. QED BY <2>1 DEF SysSpawn, NoSwitch, TypeOK, SchedTypeOK
<1>. QED BY <1>2, <1>3, <1>4, <1>5, <1>6 DEF Next, SysCall

(* The scheduler state stays sound across every step.                      *)
LEMMA SchedStep ==
  ASSUME TypeOK, CurrentRunnable, AddressSpaceOfCurrent, [Next]_vars
  PROVE  CurrentRunnable' /\ AddressSpaceOfCurrent'
<1>1. CASE NoSwitch
  BY <1>1 DEF NoSwitch, CurrentRunnable, AddressSpaceOfCurrent
<1>2. CASE \E rn \in [Pids -> BOOLEAN] : SwitchOver(rn)
  <2>1. PICK rn \in [Pids -> BOOLEAN] : SwitchOver(rn)
    BY <1>2
  <2>2. alive[current'] /\ rn[current'] /\ AddressSpaceOfCurrent'
    BY <2>1, ReschedSound DEF SwitchOver
  <2>. QED BY <2>1, <2>2 DEF SwitchOver, CurrentRunnable
<1>. QED BY <1>1, <1>2, NextSched

(***************************************************************************)
(* The CPU always runs an alive, runnable process, for any number of       *)
(* process slots: a receive blocks its caller only when                    *)
(* has_other_runnable() holds, and then the yield that follows finds that *)
(* other task; the timer and YIELD switch only to a runnable task; no step *)
(* clears the flags of the process on the CPU otherwise.                   *)
(***************************************************************************)
THEOREM CurrentRunnableInvariant ==
  Spec => []CurrentRunnable
<1>1. Init => CurrentRunnable /\ AddressSpaceOfCurrent
  BY SchedInitSound
<1>2. TypeOK /\ CurrentRunnable /\ AddressSpaceOfCurrent /\ [Next]_vars
        => CurrentRunnable' /\ AddressSpaceOfCurrent'
  BY SchedStep
<1>. QED BY <1>1, <1>2, TypeCorrect, PTL DEF Spec

(***************************************************************************)
(* The address space and kernel stack belong to the process on the CPU:   *)
(* the assembly stubs load CR3 from MANTRA_NEXT_CR3 exactly when the       *)
(* handler returns a frame, and switch_from writes TSS.rsp0 and            *)
(* MANTRA_NEXT_CR3 exactly when it changes CURRENT.                        *)
(***************************************************************************)
THEOREM AddressSpaceInvariant ==
  Spec => []AddressSpaceOfCurrent
<1>1. Init => CurrentRunnable /\ AddressSpaceOfCurrent
  BY SchedInitSound
<1>2. TypeOK /\ CurrentRunnable /\ AddressSpaceOfCurrent /\ [Next]_vars
        => CurrentRunnable' /\ AddressSpaceOfCurrent'
  BY SchedStep
<1>. QED BY <1>1, <1>2, TypeCorrect, PTL DEF Spec
=============================================================================
