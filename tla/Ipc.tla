-------------------------------- MODULE Ipc ---------------------------------
(***************************************************************************)
(* The endpoint pool of src/kernel/src/ipc.rs.  An endpoint holds a ring   *)
(* of Q_LEN messages indexed by the counters head and tail, and a ring of  *)
(* MAX_WAITERS waiting pids indexed by wait_head and wait_tail.  The       *)
(* counters are the code's: they are advanced with wrapping_add(1) and are *)
(* reduced modulo the ring length only to pick a slot, never stored        *)
(* reduced.  (usize wrapping at 2^64 is out of reach; the counters are     *)
(* naturals bounded by MaxSeq in the guards of Kernel.)                    *)
(*                                                                         *)
(* A message's payload is abstracted to its length, its transferred        *)
(* endpoint and seq, the value of tail when it was enqueued: the payload's *)
(* identity, which is all the ordering properties tell apart.              *)
(***************************************************************************)
EXTENDS Sched

CONSTANTS
  QLen,        \* Q_LEN: slots of a message ring (32 in the code)
  MaxWaiters,  \* MAX_WAITERS: slots of a waiter ring (8 in the code)
  MaxMsg,      \* MAX_MSG: bytes per message (256 in the code)
  MaxSeq       \* bound on the ring counters, a model bound

ASSUME IpcAssumption ==
  /\ QLen \in Nat \ {0}
  /\ MaxWaiters \in Nat \ {0}
  /\ MaxMsg \in Nat
  /\ MaxSeq \in Nat

VARIABLES
  nextEp,   \* NEXT_EP: the endpoint allocator's counter
  head,     \* ENDPOINTS[e-1].head
  tail,     \* ENDPOINTS[e-1].tail
  buf,      \* ENDPOINTS[e-1].buf: slot -> message
  wHead,    \* ENDPOINTS[e-1].wait_head
  wTail,    \* ENDPOINTS[e-1].wait_tail
  waiters   \* ENDPOINTS[e-1].waiters: slot -> pid

ipcVars == <<nextEp, head, tail, buf, wHead, wTail, waiters>>

Msg == [len : 0 .. MaxMsg, xfer : 0 .. MaxEndpoints, seq : Nat]

(* EMPTY_MSG, the initial content of every slot.                           *)
EmptyMsg == [len |-> 0, xfer |-> 0, seq |-> 0]

(* The error sentinels u64::MAX, u64::MAX - 1 and u64::MAX - 2, kept below *)
(* 0 so that no length can equal one of them.                              *)
ErrInval == -1
ErrFull  == -2
ErrEmpty == -3

(* Bug variant: endpoint_alloc with the bound test off by one.             *)
EndpointAllocFailsLate(i) == i > MaxEndpoints

(* endpoint_alloc: the counter value i taken by fetch_add names no slot.  *)
EndpointAllocFails(i) == i >= MaxEndpoints

(***************************************************************************)
(* Message ring tests of ep_send_cap and ep_recv_cap.                      *)
(***************************************************************************)
QueueFull(e)  == (tail[e] + 1) % QLen = head[e]
QueueEmpty(e) == head[e] = tail[e]
Front(e)      == buf[e][head[e] % QLen]

(***************************************************************************)
(* ep_send_cap(cap, msg, xfer_ep) by process p with n bytes: Inval when    *)
(* cap names no endpoint, Full when the ring test says full, else the      *)
(* message goes in slot tail % Q_LEN and tail advances.                    *)
(***************************************************************************)
EpSendRet(p, cap, n) ==
  LET e == CapLookup(p, cap) IN
  IF e \notin EpIds THEN ErrInval       \* cap None, or epi >= MAX_ENDPOINTS
  ELSE IF QueueFull(e) THEN ErrFull
  ELSE n

EpSendCap(p, cap, n, x) ==
  LET e == CapLookup(p, cap) IN
  IF EpSendRet(p, cap, n) = n
    THEN /\ buf' = [buf EXCEPT ![e][tail[e] % QLen] =
                                 [len |-> n, xfer |-> x, seq |-> tail[e]]]
         /\ tail' = [tail EXCEPT ![e] = tail[e] + 1]
    ELSE UNCHANGED <<buf, tail>>

(***************************************************************************)
(* ep_recv_cap(cap, out) by process p with an out buffer of outLen bytes:  *)
(* <<ret, xfer_ep>>; Inval for a bad cap, Empty when head = tail, else the *)
(* front message truncated to outLen, and head advances.                   *)
(***************************************************************************)
EpRecvRet(p, cap, outLen) ==
  LET e == CapLookup(p, cap) IN
  IF e \notin EpIds THEN <<ErrInval, 0>>
  ELSE IF QueueEmpty(e) THEN <<ErrEmpty, 0>>
  ELSE <<Min({Front(e).len, outLen}), Front(e).xfer>>

EpRecvCap(p, cap) ==
  LET e == CapLookup(p, cap) IN
  IF e \in EpIds /\ ~QueueEmpty(e)
    THEN head' = [head EXCEPT ![e] = head[e] + 1]
    ELSE UNCHANGED head

(***************************************************************************)
(* waiter_push(endpoint_id, pid) and waiter_pop(endpoint_id).              *)
(***************************************************************************)
WaiterFull(e)  == (wTail[e] + 1) % MaxWaiters = wHead[e]
WaiterEmpty(e) == wHead[e] = wTail[e]
WaiterFront(e) == waiters[e][wHead[e] % MaxWaiters]

(* Bug variant: waiter_push storing the pid one slot past wait_tail.     *)
WaiterPushAhead(e, p) ==
  /\ waiters' = [waiters EXCEPT ![e][(wTail[e] + 1) % MaxWaiters] = p]
  /\ wTail' = [wTail EXCEPT ![e] = wTail[e] + 1]

WaiterPush(e, p) ==
  /\ waiters' = [waiters EXCEPT ![e][wTail[e] % MaxWaiters] = p]
  /\ wTail' = [wTail EXCEPT ![e] = wTail[e] + 1]

(* Bug variant: a pop that reads the front but does not advance wait_head. *)
WaiterPopStuck(e) == UNCHANGED <<wHead, waiters, wTail>>

WaiterPop(e) ==
  /\ wHead' = [wHead EXCEPT ![e] = wHead[e] + 1]
  /\ UNCHANGED <<waiters, wTail>>

(* The pool before any call: every counter 0, every slot empty.            *)
IpcInit ==
  /\ nextEp = 0
  /\ head = [e \in EpIds |-> 0]
  /\ tail = [e \in EpIds |-> 0]
  /\ buf = [e \in EpIds |-> [s \in 0 .. QLen - 1 |-> EmptyMsg]]
  /\ wHead = [e \in EpIds |-> 0]
  /\ wTail = [e \in EpIds |-> 0]
  /\ waiters = [e \in EpIds |-> [s \in 0 .. MaxWaiters - 1 |-> 0]]

IpcTypeOK ==
  /\ nextEp \in Nat
  /\ head \in [EpIds -> Nat]
  /\ tail \in [EpIds -> Nat]
  /\ buf \in [EpIds -> [0 .. QLen - 1 -> Msg]]
  /\ wHead \in [EpIds -> Nat]
  /\ wTail \in [EpIds -> Nat]
  /\ waiters \in [EpIds -> [0 .. MaxWaiters - 1 -> Pids]]
=============================================================================
