--------------------------- MODULE KernelIpcProofs ---------------------------
(***************************************************************************)
(* Proofs about the endpoints of module Kernel: the waiter rings stay      *)
(* sound (WaiterRingSound), a message never waits beside a waiter          *)
(* (NoMessageWhileWaiting), and capabilities name allocated endpoints and *)
(* are never forged (CapsNameEndpoints, NoForgedCaps).                     *)
(*                                                                         *)
(* waiter_push's full test compares with the unreduced wait_head, so it    *)
(* does not keep a ring from overflowing once wait_head has passed         *)
(* MAX_WAITERS.  What does is counting: every pid in a ring is a distinct  *)
(* blocked process, a receiver blocks only while it and another process    *)
(* are runnable, so a ring never holds more than MAX_PROCS - 1 pids, and   *)
(* MAX_PROCS <= MAX_WAITERS (WaiterRoom).                                  *)
(***************************************************************************)
EXTENDS KernelProofs, FiniteSetTheorems

USE SchedAssumption, IpcAssumption, KernelAssumption, WaiterRoom

(* Two counters less than N apart fall in different slots of a ring of N. *)
LEMMA ModDistinct ==
  ASSUME NEW N \in Nat \ {0}, NEW i \in Nat, NEW j \in Nat, i < j, j - i < N
  PROVE  i % N # j % N
<1>1. i = N * (i \div N) + (i % N) /\ j = N * (j \div N) + (j % N)
  BY Z3
<1>2. i \div N \in Nat /\ j \div N \in Nat
  BY Z3
<1>. SUFFICES ASSUME i % N = j % N PROVE FALSE
  OBVIOUS
<1>3. j - i = N * (j \div N - i \div N)
  BY <1>1, Z3
<1>4. CASE j \div N - i \div N >= 1
  BY <1>3, <1>4, Z3
<1>5. CASE j \div N - i \div N <= 0
  BY <1>3, <1>5, Z3
<1>. QED BY <1>2, <1>4, <1>5

(* The slots of a waiter ring are a finite interval of its counters.       *)
LEMMA WaitSlotsCard ==
  ASSUME NEW e \in EpIds, wHead \in [EpIds -> Nat], wTail \in [EpIds -> Nat],
         wHead[e] <= wTail[e]
  PROVE  /\ IsFiniteSet(WaitSlots(e))
         /\ Cardinality(WaitSlots(e)) = wTail[e] - wHead[e]
<1>1. wHead[e] \in Int /\ wTail[e] - 1 \in Int
  OBVIOUS
<1>2. /\ IsFiniteSet(wHead[e] .. wTail[e] - 1)
      /\ Cardinality(wHead[e] .. wTail[e] - 1) =
           IF wHead[e] > wTail[e] - 1 THEN 0 ELSE wTail[e] - 1 - wHead[e] + 1
  BY <1>1, FS_Interval
<1>. QED BY <1>2 DEF WaitSlots

(* A ring whose slots hold distinct pids, all drawn from T, holds at most  *)
(* |T| of them (pigeonhole).                                               *)
LEMMA RingBound ==
  ASSUME TypeOK, NEW e \in EpIds, wHead[e] <= wTail[e],
         \A i, j \in WaitSlots(e) :
            i # j => waiters[e][i % MaxWaiters] # waiters[e][j % MaxWaiters],
         NEW T \in SUBSET Pids,
         \A i \in WaitSlots(e) : waiters[e][i % MaxWaiters] \in T
  PROVE  wTail[e] - wHead[e] <= Cardinality(T)
<1>1. IsFiniteSet(Pids) /\ Cardinality(Pids) = MaxProcs
  BY FS_Interval DEF Pids
<1>2. IsFiniteSet(T)
  BY <1>1, FS_Subset
<1>3. IsFiniteSet(WaitSlots(e)) /\ Cardinality(WaitSlots(e)) = wTail[e] - wHead[e]
  BY WaitSlotsCard DEF TypeOK, IpcTypeOK
<1>4. Cardinality(T) \in Nat
  BY <1>2, FS_CardinalityType
<1>. SUFFICES ASSUME Cardinality(T) < wTail[e] - wHead[e] PROVE FALSE
  BY <1>4 DEF TypeOK, IpcTypeOK
<1>. DEFINE f == [i \in WaitSlots(e) |-> waiters[e][i % MaxWaiters]]
<1>5. f \in [WaitSlots(e) -> T]
  OBVIOUS
<1>6. Cardinality(T) < Cardinality(WaitSlots(e))
  BY <1>3
<1>7. \E x, y \in WaitSlots(e) : x # y /\ f[x] = f[y]
  <2>1. IsFiniteSet(WaitSlots(e)) /\ IsFiniteSet(T)
    BY <1>2, <1>3
  <2>. HIDE DEF f
  <2>. QED BY <2>1, <1>5, <1>6, FS_PigeonHole
<1>. QED BY <1>7

(* Pids without two given distinct slots has MAX_PROCS - 2 members.       *)
LEMMA PidsLessTwo ==
  ASSUME NEW a \in Pids, NEW b \in Pids, a # b
  PROVE  Cardinality(Pids \ {a, b}) = MaxProcs - 2
<1>1. IsFiniteSet(Pids) /\ Cardinality(Pids) = MaxProcs
  BY FS_Interval DEF Pids
<1>2. IsFiniteSet(Pids \ {a}) /\ Cardinality(Pids \ {a}) = MaxProcs - 1
  BY <1>1, FS_RemoveElement
<1>3. Cardinality((Pids \ {a}) \ {b}) = MaxProcs - 2
  BY <1>2, FS_RemoveElement
<1>. QED BY <1>3
-----------------------------------------------------------------------------
(***************************************************************************)
(* The inductive invariant of the endpoints.  NoMessageWhileWaiting alone  *)
(* is not inductive: a receive consumes with head + 1, which is only sound *)
(* if head never passes tail.                                              *)
(***************************************************************************)
HeadLeTail == \A e \in EpIds : head[e] <= tail[e]

WaitInv == WaiterRingSound /\ NoMessageWhileWaiting /\ HeadLeTail

(* Every pid in a waiter ring is a slot of the process table.              *)
LEMMA WaitingOnPids ==
  ASSUME TypeOK, NEW e \in EpIds
  PROVE  WaitingOn(e) \subseteq Pids
<1>1. \A i \in WaitSlots(e) : i % MaxWaiters \in 0 .. MaxWaiters - 1
  BY DEF WaitSlots, TypeOK, IpcTypeOK
<1>. QED BY <1>1 DEF WaitingOn, TypeOK, IpcTypeOK

(* A step that leaves both rings of every endpoint alone and changes the   *)
(* flags of no alive process (the timer, YIELD, PUTC, WRITE, EP_CREATE,    *)
(* a failed call, and PROC_SPAWN, which revives a dead slot).             *)
LEMMA WaitQuiet ==
  ASSUME TypeOK, WaitInv,
         UNCHANGED <<head, tail, wHead, wTail, waiters>>,
         \A p \in Pids : alive[p] =>
            /\ alive'[p]
            /\ runnable'[p] = runnable[p]
            /\ blockedEp'[p] = blockedEp[p]
  PROVE  WaitInv'
<1>1. \A e \in EpIds : WaitSlots(e)' = WaitSlots(e) /\ WaitingOn(e)' = WaitingOn(e)
  BY DEF WaitSlots, WaitingOn
<1>2. \A e \in EpIds : \A p \in WaitingOn(e) :
         alive'[p] /\ ~runnable'[p] /\ blockedEp'[p] = e
  BY WaitingOnPids DEF WaitInv, WaiterRingSound
<1>3. WaiterRingSound'
  BY <1>1, <1>2 DEF WaitInv, WaiterRingSound
<1>. QED BY <1>3 DEF WaitInv, NoMessageWhileWaiting, HeadLeTail, WaiterEmpty,
                     QueueEmpty

(* ep_recv_cap takes a message: head + 1 on an endpoint whose message ring *)
(* is not empty, and so whose waiter ring is.                              *)
LEMMA WaitConsume ==
  ASSUME TypeOK, WaitInv, NEW e \in EpIds, ~QueueEmpty(e),
         head' = [head EXCEPT ![e] = head[e] + 1],
         UNCHANGED <<alive, runnable, blockedEp, tail, wHead, wTail, waiters>>
  PROVE  WaitInv'
<1>0. \A d \in EpIds : WaitSlots(d)' = WaitSlots(d) /\ WaitingOn(d)' = WaitingOn(d)
  BY DEF WaitSlots, WaitingOn
<1>1. WaiterRingSound'
  BY <1>0 DEF WaitInv, WaiterRingSound
<1>2. HeadLeTail'
  BY DEF WaitInv, HeadLeTail, QueueEmpty, TypeOK, IpcTypeOK
<1>3. WaiterEmpty(e)
  BY DEF WaitInv, NoMessageWhileWaiting
<1>4. NoMessageWhileWaiting'
  BY <1>3 DEF WaitInv, NoMessageWhileWaiting, WaiterEmpty, QueueEmpty
<1>. QED BY <1>1, <1>2, <1>4 DEF WaitInv

(* ep_send_cap enqueues: tail + 1 on an endpoint with no waiter (a send to *)
(* an endpoint with a waiter delivers directly).                           *)
LEMMA WaitEnqueue ==
  ASSUME TypeOK, WaitInv, NEW e \in EpIds, WaiterEmpty(e),
         tail' = [tail EXCEPT ![e] = tail[e] + 1],
         UNCHANGED <<alive, runnable, blockedEp, head, wHead, wTail, waiters>>
  PROVE  WaitInv'
<1>0. \A d \in EpIds : WaitSlots(d)' = WaitSlots(d) /\ WaitingOn(d)' = WaitingOn(d)
  BY DEF WaitSlots, WaitingOn
<1>1. WaiterRingSound'
  BY <1>0 DEF WaitInv, WaiterRingSound
<1>2. HeadLeTail'
  BY DEF WaitInv, HeadLeTail, TypeOK, IpcTypeOK
<1>3. NoMessageWhileWaiting'
  <2>. SUFFICES ASSUME NEW d \in EpIds, ~WaiterEmpty(d)' PROVE QueueEmpty(d)'
    BY DEF NoMessageWhileWaiting
  <2>1. d # e /\ ~WaiterEmpty(d)
    BY DEF WaiterEmpty
  <2>2. QueueEmpty(d)
    BY <2>1 DEF WaitInv, NoMessageWhileWaiting
  <2>. QED BY <2>1, <2>2 DEF QueueEmpty
<1>. QED BY <1>1, <1>2, <1>3 DEF WaitInv

(* waiter_pop then deliver_ipc: wait_head + 1 on a non-empty waiter ring;  *)
(* only the popped pid may be woken (and is not, when the copy faults).    *)
LEMMA WaitPop ==
  ASSUME TypeOK, WaitInv, NEW e \in EpIds, ~WaiterEmpty(e),
         wHead' = [wHead EXCEPT ![e] = wHead[e] + 1],
         UNCHANGED <<alive, head, tail, wTail, waiters>>,
         \A p \in Pids : p # WaiterFront(e) =>
            runnable'[p] = runnable[p] /\ blockedEp'[p] = blockedEp[p]
  PROVE  WaitInv'
<1>. DEFINE w == WaiterFront(e)
<1>1. wHead[e] < wTail[e] /\ wHead[e] \in Nat /\ wTail[e] \in Nat
  BY DEF WaitInv, WaiterRingSound, WaiterEmpty, TypeOK, IpcTypeOK
<1>2. wHead[e] \in WaitSlots(e)
  BY <1>1 DEF WaitSlots
<1>3. w \in WaitingOn(e) /\ blockedEp[w] = e
  BY <1>2 DEF WaitingOn, WaiterFront, WaitInv, WaiterRingSound
<1>4. \A d \in EpIds : WaitSlots(d)' \subseteq WaitSlots(d)
  BY <1>1 DEF WaitSlots, TypeOK, IpcTypeOK
<1>5. ASSUME NEW d \in EpIds, NEW p \in WaitingOn(d)'
      PROVE  p \in WaitingOn(d) /\ p # w
  <2>1. PICK i \in WaitSlots(d)' : p = waiters[d][i % MaxWaiters]
    BY DEF WaitingOn
  <2>2. i \in WaitSlots(d)
    BY <1>4, <2>1
  <2>3. p \in WaitingOn(d)
    BY <2>1, <2>2 DEF WaitingOn
  <2>4. CASE d = e
    <3>1. i # wHead[e]
      BY <1>1, <2>1, <2>4 DEF WaitSlots, TypeOK, IpcTypeOK
    <3>. QED BY <1>2, <2>1, <2>2, <2>3, <2>4, <3>1
             DEF WaitInv, WaiterRingSound, WaiterFront
  <2>5. CASE d # e
    BY <1>3, <2>3, <2>5 DEF WaitInv, WaiterRingSound
  <2>. QED BY <2>3, <2>4, <2>5
<1>6. WaiterRingSound'
  <2>. SUFFICES ASSUME NEW d \in EpIds
                PROVE  /\ wHead'[d] <= wTail'[d]
                       /\ wTail'[d] - wHead'[d] < MaxWaiters
                       /\ \A i, j \in WaitSlots(d)' :
                            i # j => waiters'[d][i % MaxWaiters]
                                       # waiters'[d][j % MaxWaiters]
                       /\ \A p \in WaitingOn(d)' :
                            alive'[p] /\ ~runnable'[p] /\ blockedEp'[p] = d
    BY DEF WaiterRingSound
  <2>1. wHead'[d] <= wTail'[d] /\ wTail'[d] - wHead'[d] < MaxWaiters
    BY <1>1 DEF WaitInv, WaiterRingSound, TypeOK, IpcTypeOK
  <2>2. \A i, j \in WaitSlots(d)' :
          i # j => waiters'[d][i % MaxWaiters] # waiters'[d][j % MaxWaiters]
    BY <1>4 DEF WaitInv, WaiterRingSound
  <2>3. \A p \in WaitingOn(d)' : alive'[p] /\ ~runnable'[p] /\ blockedEp'[p] = d
    BY <1>5, WaitingOnPids DEF WaitInv, WaiterRingSound
  <2>. QED BY <2>1, <2>2, <2>3
<1>7. NoMessageWhileWaiting'
  <2>. SUFFICES ASSUME NEW d \in EpIds, ~WaiterEmpty(d)' PROVE QueueEmpty(d)'
    BY DEF NoMessageWhileWaiting
  <2>1. ~WaiterEmpty(d)
    BY <1>1 DEF WaiterEmpty, TypeOK, IpcTypeOK
  <2>. QED BY <2>1 DEF WaitInv, NoMessageWhileWaiting, QueueEmpty
<1>8. HeadLeTail'
  BY DEF WaitInv, HeadLeTail
<1>. QED BY <1>6, <1>7, <1>8 DEF WaitInv

(***************************************************************************)
(* waiter_push, block_current_on_ep: the caller c, runnable, joins the     *)
(* waiter ring of e, whose message ring is empty, while another process q  *)
(* is runnable.  Neither c nor q is in a ring, so the ring held at most    *)
(* MAX_PROCS - 2 pids and now holds at most MAX_PROCS - 1 < MAX_WAITERS:   *)
(* the slot written is not one of the ring's.                             *)
(***************************************************************************)
LEMMA WaitPush ==
  ASSUME TypeOK, WaitInv, NEW e \in EpIds, NEW c \in Pids, NEW q \in Pids,
         alive[c], runnable[c], q # c, alive[q], runnable[q], QueueEmpty(e),
         WaiterPush(e, c),
         runnable' = [runnable EXCEPT ![c] = FALSE],
         blockedEp' = [blockedEp EXCEPT ![c] = e],
         UNCHANGED <<alive, head, tail, wHead>>
  PROVE  WaitInv'
<1>. DEFINE t == wTail[e]
            s == t % MaxWaiters
<1>1. \A d \in EpIds : \A p \in WaitingOn(d) : p # c /\ p # q
  BY DEF WaitInv, WaiterRingSound
<1>2. wHead[e] \in Nat /\ t \in Nat /\ wHead[e] <= t
  BY DEF WaitInv, WaiterRingSound, TypeOK, IpcTypeOK
<1>3. t - wHead[e] <= MaxProcs - 2
  <2>1. \A i \in WaitSlots(e) : waiters[e][i % MaxWaiters] \in Pids \ {c, q}
    BY <1>1, WaitingOnPids DEF WaitingOn
  <2>2. t - wHead[e] <= Cardinality(Pids \ {c, q})
    BY <1>2, <2>1, RingBound DEF WaitInv, WaiterRingSound
  <2>. QED BY <2>2, PidsLessTwo
<1>4. \A i \in WaitSlots(e) : i % MaxWaiters # s
  <2>. TAKE i \in WaitSlots(e)
  <2>1. i \in Nat /\ i < t /\ t - i < MaxWaiters
    BY <1>2, <1>3 DEF WaitSlots
  <2>2. MaxWaiters \in Nat \ {0} /\ t \in Nat
    BY <1>2
  <2>. QED BY <2>1, <2>2, ModDistinct
<1>5. /\ s \in 0 .. MaxWaiters - 1
      /\ waiters'[e] = [waiters[e] EXCEPT ![s] = c]
      /\ waiters[e] \in [0 .. MaxWaiters - 1 -> Pids]
      /\ \A d \in EpIds \ {e} : waiters'[d] = waiters[d] /\ wTail'[d] = wTail[d]
      /\ wTail'[e] = t + 1
  BY <1>2 DEF WaiterPush, TypeOK, IpcTypeOK
<1>6. \A i \in WaitSlots(e) : waiters'[e][i % MaxWaiters] = waiters[e][i % MaxWaiters]
  BY <1>4, <1>5
<1>7. waiters'[e][s] = c
  BY <1>5
<1>8. /\ WaitSlots(e)' = WaitSlots(e) \cup {t}
      /\ t \notin WaitSlots(e)
      /\ \A d \in EpIds \ {e} : WaitSlots(d)' = WaitSlots(d)
  BY <1>2, <1>5 DEF WaitSlots
<1>9. /\ WaitingOn(e)' = WaitingOn(e) \cup {c}
      /\ \A d \in EpIds \ {e} : WaitingOn(d)' = WaitingOn(d)
  BY <1>5, <1>6, <1>7, <1>8 DEF WaitingOn
<1>10. \A d \in EpIds : \A p \in WaitingOn(d) :
          alive'[p] /\ ~runnable'[p] /\ blockedEp'[p] = d
  BY <1>1, WaitingOnPids DEF WaitInv, WaiterRingSound
<1>11. ASSUME NEW d \in EpIds
       PROVE  /\ wHead'[d] <= wTail'[d]
              /\ wTail'[d] - wHead'[d] < MaxWaiters
              /\ \A i, j \in WaitSlots(d)' :
                   i # j => waiters'[d][i % MaxWaiters]
                              # waiters'[d][j % MaxWaiters]
              /\ \A p \in WaitingOn(d)' :
                   alive'[p] /\ ~runnable'[p] /\ blockedEp'[p] = d
  <2>1. CASE d # e
    BY <1>5, <1>8, <1>9, <1>10, <2>1 DEF WaitInv, WaiterRingSound
  <2>2. CASE d = e
    <3>1. wHead'[e] <= wTail'[e] /\ wTail'[e] - wHead'[e] < MaxWaiters
      BY <1>2, <1>3, <1>5
    <3>2. ASSUME NEW i \in WaitSlots(e)', NEW j \in WaitSlots(e)', i # j
          PROVE  waiters'[e][i % MaxWaiters] # waiters'[e][j % MaxWaiters]
      <4>1. CASE i \in WaitSlots(e) /\ j \in WaitSlots(e)
        BY <1>6, <3>2, <4>1 DEF WaitInv, WaiterRingSound
      <4>2. CASE i = t
        <5>1. j \in WaitSlots(e)
          BY <1>8, <3>2, <4>2
        <5>2. waiters[e][j % MaxWaiters] \in WaitingOn(e)
          BY <5>1 DEF WaitingOn
        <5>. QED BY <1>1, <1>6, <1>7, <4>2, <5>1, <5>2
      <4>3. CASE j = t
        <5>1. i \in WaitSlots(e)
          BY <1>8, <3>2, <4>3
        <5>2. waiters[e][i % MaxWaiters] \in WaitingOn(e)
          BY <5>1 DEF WaitingOn
        <5>. QED BY <1>1, <1>6, <1>7, <4>3, <5>1, <5>2
      <4>. QED BY <1>8, <4>1, <4>2, <4>3
    <3>3. \A p \in WaitingOn(e)' : alive'[p] /\ ~runnable'[p] /\ blockedEp'[p] = e
      BY <1>9, <1>10 DEF TypeOK, SchedTypeOK
    <3>. QED BY <2>2, <3>1, <3>2, <3>3
  <2>. QED BY <2>1, <2>2
<1>12. WaiterRingSound'
  BY <1>11 DEF WaiterRingSound
<1>13. NoMessageWhileWaiting'
  <2>. SUFFICES ASSUME NEW d \in EpIds, ~WaiterEmpty(d)' PROVE QueueEmpty(d)'
    BY DEF NoMessageWhileWaiting
  <2>1. CASE d = e
    BY <2>1 DEF QueueEmpty
  <2>2. CASE d # e
    BY <1>5, <2>2 DEF WaitInv, NoMessageWhileWaiting, WaiterEmpty, QueueEmpty
  <2>. QED BY <2>1, <2>2
<1>14. HeadLeTail'
  BY DEF WaitInv, HeadLeTail
<1>. QED BY <1>12, <1>13, <1>14 DEF WaitInv

(* The send path of IPC_SEND and IPC_SEND_CAP: a failure changes nothing,  *)
(* a direct delivery pops a waiter, an enqueue goes to a ring that has no  *)
(* waiter.                                                                 *)
LEMMA SendWait ==
  ASSUME TypeOK, WaitInv, NEW c \in Pids, NEW cap, NEW len \in Nat, NEW ptr,
         NEW x, Send(c, cap, len, ptr, x)
  PROVE  WaitInv'
<1>. DEFINE n == Staged(len)
            e == CapLookup(c, cap)
<1>1. UNCHANGED alive
  BY DEF Send
<1>2. CASE CopyFails(ptr, n) \/ e = 0
  <2>1. UNCHANGED <<runnable, blockedEp, head, tail, wHead, wTail, waiters>>
    BY <1>2 DEF Send, ipcVars
  <2>. QED BY <1>1, <2>1, WaitQuiet
<1>3. CASE ~(CopyFails(ptr, n) \/ e = 0) /\ e \in EpIds /\ ~WaiterEmpty(e)
  <2>. DEFINE w == WaiterFront(e)
  <2>1. /\ WaiterPop(e)
        /\ DeliverIpc(c, w, n, x)
        /\ UNCHANGED <<head, tail>>
    BY <1>3 DEF Send
  <2>2. \A p \in Pids : p # w =>
          runnable'[p] = runnable[p] /\ blockedEp'[p] = blockedEp[p]
    BY <2>1 DEF DeliverIpc, Wake, TypeOK, SchedTypeOK
  <2>. QED BY <1>1, <1>3, <2>1, <2>2, WaitPop DEF WaiterPop
<1>4. CASE ~(CopyFails(ptr, n) \/ e = 0) /\ ~(e \in EpIds /\ ~WaiterEmpty(e))
  <2>1. /\ EpSendCap(c, cap, n, x)
        /\ UNCHANGED <<runnable, blockedEp, head, wHead, wTail, waiters>>
    BY <1>4 DEF Send
  <2>2. n \in Nat
    BY StagedType
  <2>3. CASE EpSendRet(c, cap, n) = n
    <3>1. e \in EpIds
      BY <2>2, <2>3 DEF EpSendRet, ErrInval
    <3>2. tail' = [tail EXCEPT ![e] = tail[e] + 1]
      BY <2>1, <2>3 DEF EpSendCap
    <3>. QED BY <1>1, <1>4, <2>1, <3>1, <3>2, WaitEnqueue
  <2>4. CASE EpSendRet(c, cap, n) # n
    BY <1>1, <2>1, <2>4, WaitQuiet DEF EpSendCap
  <2>. QED BY <2>3, <2>4
<1>. QED BY <1>2, <1>3, <1>4

(* IPC_RECV and IPC_RECV_CAP: ep_recv_cap may consume a message; the       *)
(* caller, alive and runnable, blocks only on an empty ring while another *)
(* process is runnable; no other branch touches a waiter ring or a flag.   *)
LEMMA RecvWait ==
  ASSUME TypeOK, WaitInv, NEW c \in Pids, alive[c], runnable[c],
         NEW cap, NEW maxLen \in Nat, NEW ptr, NEW withCap, NEW num,
         Recv(c, cap, maxLen, ptr, withCap, num)
  PROVE  WaitInv'
<1>. DEFINE n   == Staged(maxLen)
            e   == CapLookup(c, cap)
            got == EpRecvRet(c, cap, n)
            blocks == got[1] = ErrEmpty /\ HasOtherRunnable(c) /\ ~WaiterFull(e)
<1>1. n \in Nat
  BY StagedType
<1>2. /\ got[1] \in {ErrInval, ErrEmpty} \cup Nat
      /\ got[1] # ErrInval => e \in EpIds
  BY <1>1, EpRecvRetType
<1>3. EpRecvCap(c, cap) /\ UNCHANGED tail
  BY DEF Recv
<1>4. CASE blocks
  <2>1. e \in EpIds /\ QueueEmpty(e)
    <3>1. e \in EpIds
      BY <1>2, <1>4 DEF ErrInval, ErrEmpty
    <3>2. ~QueueEmpty(e) => got[1] \in Nat
      <4>0. head[e] % QLen \in 0 .. QLen - 1
        BY <3>1 DEF TypeOK, IpcTypeOK
      <4>1. Front(e) \in Msg
        BY <3>1, <4>0 DEF Front, TypeOK, IpcTypeOK
      <4>. QED BY <1>1, <3>1, <4>1, MinPair DEF EpRecvRet, Msg
    <3>. QED BY <1>4, <3>1, <3>2 DEF ErrEmpty
  <2>2. RecvBlock(c, e, ptr, maxLen, num)
    BY <1>4 DEF Recv, ErrEmpty
  <2>3. UNCHANGED head
    BY <1>3, <2>1 DEF EpRecvCap
  <2>4. PICK q \in Pids : q # c /\ alive[q] /\ runnable[q]
    BY <1>4 DEF HasOtherRunnable
  <2>. QED BY <1>3, <2>1, <2>2, <2>3, <2>4, WaitPush DEF RecvBlock
<1>5. CASE ~blocks
  <2>1. UNCHANGED <<alive, runnable, blockedEp, wHead, wTail, waiters>>
    BY <1>5 DEF Recv, RecvInstall, schedVars
  <2>2. CASE e \in EpIds /\ ~QueueEmpty(e)
    BY <1>3, <2>1, <2>2, WaitConsume DEF EpRecvCap
  <2>3. CASE ~(e \in EpIds /\ ~QueueEmpty(e))
    BY <1>3, <2>1, <2>3, WaitQuiet DEF EpRecvCap
  <2>. QED BY <2>2, <2>3
<1>. QED BY <1>4, <1>5

(* PROC_SPAWN revives a slot that is not alive, so it is in no ring.       *)
LEMMA SpawnWait ==
  ASSUME TypeOK, WaitInv, NEW c \in Pids, NEW prog, NEW share,
         SysSpawn(c, prog, share)
  PROVE  WaitInv'
<1>. DEFINE free == {p \in Pids : ~alive[p]}
            pid  == Min(free)
<1>1. UNCHANGED <<head, tail, wHead, wTail, waiters>>
  BY DEF SysSpawn, ipcVars
<1>2. CASE prog # 1 \/ free = {}
  BY <1>1, <1>2, WaitQuiet DEF SysSpawn
<1>3. CASE ~(prog # 1 \/ free = {})
  <2>1. pid \in free
    <3>1. free \in SUBSET Nat /\ free # {}
      BY <1>3 DEF Pids
    <3>. QED BY <3>1, MinNat
  <2>2. /\ alive' = [alive EXCEPT ![pid] = TRUE]
        /\ runnable' = [runnable EXCEPT ![pid] = TRUE]
        /\ blockedEp' = [blockedEp EXCEPT ![pid] = 0]
    BY <1>3 DEF SysSpawn
  <2>3. \A p \in Pids : alive[p] =>
           /\ alive'[p]
           /\ runnable'[p] = runnable[p]
           /\ blockedEp'[p] = blockedEp[p]
    BY <2>1, <2>2 DEF TypeOK, SchedTypeOK
  <2>. QED BY <1>1, <2>3, WaitQuiet
<1>. QED BY <1>2, <1>3

(* Every step of the kernel keeps the endpoints sound.                     *)
LEMMA WaitStep ==
  ASSUME TypeOK, CurrentRunnable, WaitInv, [Next]_vars
  PROVE  WaitInv'
<1>. DEFINE c == current
<1>1. c \in Pids /\ alive[c] /\ runnable[c]
  BY DEF TypeOK, SchedTypeOK, CurrentRunnable
<1>2. CASE \/ OnTimerIrq \/ SysYield(c) \/ SysPutc(c) \/ SysEpCreate(c)
           \/ \E len \in Lens : SysWrite(c, len)
           \/ SysUnknown(c)
           \/ UNCHANGED vars
  <2>1. UNCHANGED <<alive, runnable, blockedEp, head, tail, wHead, wTail,
                    waiters>>
    BY <1>2 DEF OnTimerIrq, SysYield, SysPutc, SysEpCreate, SysWrite,
                SysUnknown, vars, schedVars, ipcVars
  <2>. QED BY <2>1, WaitQuiet
<1>3. CASE \E cap \in CapArgs, len \in Lens, ptr \in Ptrs :
             \/ SysSend(c, cap, len, ptr)
             \/ \E xcap \in CapArgs : SysSendCap(c, cap, len, ptr, xcap)
  <2>1. PICK cap \in CapArgs, len \in Lens, ptr \in Ptrs :
             \/ SysSend(c, cap, len, ptr)
             \/ \E xcap \in CapArgs : SysSendCap(c, cap, len, ptr, xcap)
    BY <1>3
  <2>2. len \in Nat
    OBVIOUS
  <2>3. CASE SysSend(c, cap, len, ptr)
    BY <1>1, <2>2, <2>3, SendWait DEF SysSend
  <2>4. CASE \E xcap \in CapArgs : SysSendCap(c, cap, len, ptr, xcap)
    <3>1. PICK xcap \in CapArgs : SysSendCap(c, cap, len, ptr, xcap)
      BY <2>4
    <3>2. CASE xcap # 0 /\ CapLookup(c, xcap) = 0
      <4>1. UNCHANGED <<alive, runnable, blockedEp, head, tail, wHead, wTail,
                        waiters>>
        BY <3>1, <3>2 DEF SysSendCap, schedVars, ipcVars
      <4>. QED BY <4>1, WaitQuiet
    <3>3. CASE ~(xcap # 0 /\ CapLookup(c, xcap) = 0)
      BY <1>1, <2>2, <3>1, <3>3, SendWait DEF SysSendCap
    <3>. QED BY <3>2, <3>3
  <2>. QED BY <2>1, <2>3, <2>4
<1>4. CASE \E cap \in CapArgs, len \in Lens, ptr \in Ptrs :
             \/ SysRecv(c, cap, len, ptr)
             \/ SysRecvCap(c, cap, len, ptr)
  <2>1. PICK cap \in CapArgs, len \in Lens, ptr \in Ptrs :
             \/ SysRecv(c, cap, len, ptr)
             \/ SysRecvCap(c, cap, len, ptr)
    BY <1>4
  <2>2. len \in Nat
    OBVIOUS
  <2>. QED BY <1>1, <2>1, <2>2, RecvWait DEF SysRecv, SysRecvCap
<1>5. CASE \E prog \in {1, 2}, share \in CapArgs : SysSpawn(c, prog, share)
  BY <1>1, <1>5, SpawnWait
<1>. QED BY <1>2, <1>3, <1>4, <1>5 DEF Next, SysCall

(* enter_first_user leaves every ring empty.                               *)
LEMMA InitWait ==
  Init => WaitInv
<1>. SUFFICES ASSUME Init PROVE WaitInv
  OBVIOUS
<1>1. \A e \in EpIds : WaitSlots(e) = {} /\ WaitingOn(e) = {}
  BY DEF Init, IpcInit, WaitSlots, WaitingOn
<1>. QED BY <1>1 DEF Init, IpcInit, WaitInv, WaiterRingSound,
                     NoMessageWhileWaiting, HeadLeTail, WaiterEmpty, QueueEmpty

(* The endpoints stay sound in every reachable state.                      *)
LEMMA WaitInvariant ==
  Spec => []WaitInv
<1>1. Init => WaitInv
  BY InitWait
<1>2. TypeOK /\ CurrentRunnable /\ WaitInv /\ [Next]_vars => WaitInv'
  BY WaitStep
<1>. QED BY <1>1, <1>2, TypeCorrect, CurrentRunnableInvariant, PTL DEF Spec

(***************************************************************************)
(* The waiter rings are sound for every size of the tables with            *)
(* MAX_PROCS <= MAX_WAITERS: waiter_push never overwrites a waiting pid,   *)
(* no pid waits twice, and waiter_pop hands deliver_ipc an alive receiver  *)
(* blocked on that endpoint.  Without WaiterRoom the ring can overflow,    *)
(* since waiter_push's full test compares with the unreduced wait_head.    *)
(***************************************************************************)
THEOREM WaiterRingSoundInvariant ==
  Spec => []WaiterRingSound
BY WaitInvariant, PTL DEF WaitInv

(***************************************************************************)
(* A message is never queued on an endpoint that has a waiter: IPC_RECV    *)
(* blocks only when ep_recv_cap found the ring empty, and IPC_SEND         *)
(* delivers directly to a waiter instead of calling ep_send_cap.           *)
(***************************************************************************)
THEOREM NoMessageWhileWaitingInvariant ==
  Spec => []NoMessageWhileWaiting
BY WaitInvariant, PTL DEF WaitInv
=============================================================================
