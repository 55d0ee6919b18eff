-------------------------- MODULE KernelCapsProofs --------------------------
(***************************************************************************)
(* Proofs about capabilities in module Kernel: every capability and every  *)
(* queued transfer names an allocated endpoint, a process that is not      *)
(* alive holds none (CapsNameEndpoints), and no step forges one            *)
(* (NoForgedCaps).  Both rest on one fact about a step, CapsStep: what a   *)
(* process newly holds comes from a capability some process held, from a   *)
(* queued transfer or from the endpoint just allocated; what is newly      *)
(* queued comes from a held capability; NEXT_EP only grows; and a process  *)
(* that is not alive is left alone.  Delivery and IPC_RECV_CAP need the    *)
(* endpoint invariant of KernelIpcProofs: the popped receiver is alive,    *)
(* and the front message is one of the queued ones.                        *)
(***************************************************************************)
EXTENDS KernelIpcProofs

USE SchedAssumption, IpcAssumption, KernelAssumption, WaiterRoom

(* The endpoints a capability table names.                                 *)
Named(t) == {t[i] : i \in CapIdx} \ {0}

(* What a step may hand out: a capability some process holds, or one       *)
(* carried by a queued message.                                            *)
Sources == (UNION {Held(q) : q \in Pids}) \cup InFlight

(* The endpoint a step's endpoint_alloc hands out, if the step advanced    *)
(* NEXT_EP by one to an endpoint of the pool; no endpoint otherwise.       *)
Created == {e \in {nextEp'} \cap Allocated' : nextEp' = nextEp + 1}

CapsStep ==
  /\ \A p \in Pids :
       Held(p)' \subseteq Held(p) \cup Sources \cup Created
  /\ InFlight' \subseteq InFlight \cup UNION {Held(q) : q \in Pids}
  /\ Allocated \subseteq Allocated'
  /\ \A p \in Pids : ~alive'[p] => ~alive[p] /\ caps'[p] = caps[p]

(* cap_alloc_current adds at most the endpoint it is given.                *)
LEMMA CapAllocNamed ==
  ASSUME NEW t \in [CapIdx -> 0 .. MaxEndpoints], NEW e
  PROVE  Named(CapAllocTable(t, e)) \subseteq Named(t) \cup ({e} \ {0})
BY DEF Named, CapAllocTable

(* cap_lookup_current yields an endpoint the caller holds, or 0.           *)
LEMMA CapLookupHeld ==
  ASSUME TypeOK, NEW p \in Pids, NEW cap
  PROVE  CapLookup(p, cap) \in Held(p) \cup {0}
BY DEF CapLookup, Held

(* ep_recv_cap advances head past the front message only.                  *)
LEMMA InFlightConsume ==
  ASSUME TypeOK, NEW e \in EpIds,
         head' = [head EXCEPT ![e] = head[e] + 1], UNCHANGED <<buf, tail>>
  PROVE  InFlight' \subseteq InFlight
<1>. SUFFICES ASSUME NEW v \in InFlight' PROVE v \in InFlight
  OBVIOUS
<1>0. v \in UNION {{buf'[d][i % QLen].xfer : i \in head'[d] .. tail'[d] - 1} :
                    d \in EpIds} /\ v # 0
  BY DEF InFlight
<1>1. PICK d \in EpIds : \E i \in head'[d] .. tail'[d] - 1 :
         v = buf'[d][i % QLen].xfer /\ v # 0
  BY <1>0
<1>2. PICK i \in head'[d] .. tail'[d] - 1 : v = buf'[d][i % QLen].xfer /\ v # 0
  BY <1>1
<1>3. i \in head[d] .. tail[d] - 1
  BY DEF TypeOK, IpcTypeOK
<1>. QED BY <1>2, <1>3 DEF InFlight

(* ep_send_cap writes one message, carrying x, at slot tail % Q_LEN.       *)
LEMMA InFlightEnqueue ==
  ASSUME TypeOK, NEW e \in EpIds, NEW m,
         tail' = [tail EXCEPT ![e] = tail[e] + 1],
         buf' = [buf EXCEPT ![e][tail[e] % QLen] = m],
         UNCHANGED head
  PROVE  InFlight' \subseteq InFlight \cup ({m.xfer} \ {0})
<1>. SUFFICES ASSUME NEW v \in InFlight', v # m.xfer PROVE v \in InFlight
  BY DEF InFlight
<1>1. PICK d \in EpIds : \E i \in head'[d] .. tail'[d] - 1 :
         v = buf'[d][i % QLen].xfer /\ v # 0
  BY DEF InFlight
<1>2. PICK i \in head'[d] .. tail'[d] - 1 : v = buf'[d][i % QLen].xfer /\ v # 0
  BY <1>1
<1>3. i % QLen \in 0 .. QLen - 1 /\ tail[e] % QLen \in 0 .. QLen - 1
  BY DEF TypeOK, IpcTypeOK
<1>4. ~(d = e /\ i % QLen = tail[e] % QLen)
  BY <1>2, <1>3 DEF TypeOK, IpcTypeOK
<1>5. buf'[d][i % QLen] = buf[d][i % QLen]
  BY <1>3, <1>4 DEF TypeOK, IpcTypeOK
<1>6. i \in head[d] .. tail[d] - 1
  BY <1>4 DEF TypeOK, IpcTypeOK
<1>. QED BY <1>2, <1>5, <1>6 DEF InFlight

(* A step that changes no capability table, no message ring, no flag of a  *)
(* process and not NEXT_EP, except that ep_recv_cap may consume.           *)
LEMMA CapsQuiet ==
  ASSUME TypeOK, UNCHANGED <<caps, alive, nextEp, buf, tail>>,
         InFlight' \subseteq InFlight
  PROVE  CapsStep
BY DEF CapsStep, Held, Allocated

(* A step that gives process r the capability table CapAllocTable(caps[r], *)
(* x), x held by some process or queued or 0, and changes no other table.  *)
LEMMA CapsGrant ==
  ASSUME TypeOK, NEW r \in Pids, alive[r], NEW x \in Sources \cup {0},
         caps' = [caps EXCEPT ![r] = CapAllocTable(caps[r], x)],
         UNCHANGED <<alive, nextEp>>,
         InFlight' \subseteq InFlight
  PROVE  CapsStep
<1>1. \A p \in Pids : Held(p)' \subseteq Held(p) \cup Sources
  <2>. TAKE p \in Pids
  <2>1. CASE p = r
    <3>0. caps'[r] = CapAllocTable(caps[r], x) /\ caps[r] \in [CapIdx -> 0 .. MaxEndpoints]
      BY DEF TypeOK, SchedTypeOK
    <3>1. Held(r)' = Named(CapAllocTable(caps[r], x))
      BY <3>0 DEF Held, Named
    <3>2. Held(r) = Named(caps[r])
      BY DEF Held, Named
    <3>3. Named(CapAllocTable(caps[r], x)) \subseteq Named(caps[r]) \cup ({x} \ {0})
      BY <3>0, CapAllocNamed
    <3>. QED BY <2>1, <3>1, <3>2, <3>3
  <2>2. CASE p # r
    BY <2>2 DEF Held, TypeOK, SchedTypeOK
  <2>. QED BY <2>1, <2>2
<1>2. \A p \in Pids : ~alive'[p] => ~alive[p] /\ caps'[p] = caps[p]
  BY DEF TypeOK, SchedTypeOK
<1>. QED BY <1>1, <1>2 DEF CapsStep, Allocated

(* IPC_EP_CREATE: endpoint_alloc advances NEXT_EP and, when it succeeds    *)
(* and cap_alloc_current finds a slot, the caller gets the new endpoint.   *)
LEMMA EpCreateCaps ==
  ASSUME TypeOK, NEW c \in Pids, alive[c], SysEpCreate(c)
  PROVE  CapsStep
<1>. DEFINE i == nextEp
<1>1. i \in Nat
  BY DEF TypeOK, IpcTypeOK
<1>2. /\ i <= MaxEndpoints /\ nextEp' = i + 1
      /\ UNCHANGED <<alive, buf, head, tail>>
  BY DEF SysEpCreate
<1>3. Allocated \subseteq Allocated'
  <2>1. Min({i, MaxEndpoints}) <= Min({i + 1, MaxEndpoints})
    <3>1. Min({i, MaxEndpoints}) \in {i, MaxEndpoints}
          /\ Min({i + 1, MaxEndpoints}) \in {i + 1, MaxEndpoints}
          /\ Min({i, MaxEndpoints}) <= i /\ Min({i, MaxEndpoints}) <= MaxEndpoints
          /\ Min({i + 1, MaxEndpoints}) <= i + 1
          /\ Min({i + 1, MaxEndpoints}) <= MaxEndpoints
      BY <1>1, MinPair
    <3>. QED BY <1>1, <1>2, <3>1
  <2>2. Allocated' = 1 .. Min({i + 1, MaxEndpoints})
    BY <1>2 DEF Allocated
  <2>3. Min({i, MaxEndpoints}) \in Nat /\ Min({i + 1, MaxEndpoints}) \in Nat
    BY <1>1, MinPair
  <2>4. 1 .. Min({i, MaxEndpoints}) \subseteq 1 .. Min({i + 1, MaxEndpoints})
    BY <2>1, <2>3
  <2>. QED BY <2>2, <2>4 DEF Allocated
<1>4. InFlight' = InFlight
  BY <1>2 DEF InFlight
<1>5. CASE EndpointAllocFails(i) \/ CapAllocIdx(caps[c], i + 1) = 0
  <2>1. UNCHANGED caps
    BY <1>5 DEF SysEpCreate
  <2>. QED BY <1>2, <1>3, <1>4, <2>1 DEF CapsStep, Held
<1>6. CASE ~(EndpointAllocFails(i) \/ CapAllocIdx(caps[c], i + 1) = 0)
  <2>1. caps' = [caps EXCEPT ![c] = CapAllocTable(caps[c], i + 1)]
    BY <1>6 DEF SysEpCreate
  <2>2. i + 1 \in Allocated'
    <3>1. i + 1 <= MaxEndpoints
      BY <1>1, <1>6 DEF EndpointAllocFails
    <3>2. Min({i + 1, MaxEndpoints}) = i + 1
      BY <1>1, <3>1, MinPair
    <3>3. Allocated' = 1 .. Min({i + 1, MaxEndpoints})
      BY <1>2 DEF Allocated
    <3>. QED BY <1>1, <3>2, <3>3
  <2>3. \A p \in Pids : Held(p)' \subseteq Held(p) \cup Created
    <3>. TAKE p \in Pids
    <3>1. CASE p = c
      <4>0. caps'[c] = CapAllocTable(caps[c], i + 1)
            /\ caps[c] \in [CapIdx -> 0 .. MaxEndpoints]
        BY <1>1, <2>1 DEF TypeOK, SchedTypeOK
      <4>1. Held(c)' = Named(CapAllocTable(caps[c], i + 1))
        BY <4>0 DEF Held, Named
      <4>2. Held(c) = Named(caps[c])
        BY DEF Held, Named
      <4>3. Named(CapAllocTable(caps[c], i + 1)) \subseteq Named(caps[c]) \cup {i + 1}
        BY <4>0, CapAllocNamed
      <4>4. i + 1 \in Created
        BY <1>1, <1>2, <2>2 DEF Created
      <4>. QED BY <3>1, <4>1, <4>2, <4>3, <4>4
    <3>2. CASE p # c
      BY <2>1, <3>2 DEF Held, TypeOK, SchedTypeOK
    <3>. QED BY <3>1, <3>2
  <2>4. \A p \in Pids : ~alive'[p] => ~alive[p] /\ caps'[p] = caps[p]
    BY <1>2, <2>1 DEF TypeOK, SchedTypeOK
  <2>. QED BY <1>3, <1>4, <2>3, <2>4 DEF CapsStep
<1>. QED BY <1>5, <1>6

(* The receiver waiter_pop hands to deliver_ipc is alive.                  *)
LEMMA FrontAlive ==
  ASSUME TypeOK, WaitInv, NEW e \in EpIds, ~WaiterEmpty(e)
  PROVE  WaiterFront(e) \in Pids /\ alive[WaiterFront(e)]
<1>1. wHead[e] \in WaitSlots(e)
  BY DEF WaitInv, WaiterRingSound, WaiterEmpty, WaitSlots, TypeOK, IpcTypeOK
<1>2. WaiterFront(e) \in WaitingOn(e)
  BY <1>1 DEF WaitingOn, WaiterFront
<1>. QED BY <1>2, WaitingOnPids DEF WaitInv, WaiterRingSound

(* The send path: a direct delivery grants the receiver what the sender    *)
(* holds, an enqueue queues what the sender holds.                         *)
LEMMA SendCaps ==
  ASSUME TypeOK, WaitInv, NEW c \in Pids, NEW cap, NEW len \in Nat, NEW ptr,
         NEW x \in Held(c) \cup {0}, Send(c, cap, len, ptr, x)
  PROVE  CapsStep
<1>. DEFINE n == Staged(len)
            e == CapLookup(c, cap)
<1>1. UNCHANGED <<alive, nextEp>>
  BY DEF Send, ipcVars
<1>2. x \in Sources \cup {0}
  BY DEF Sources
<1>3. CASE CopyFails(ptr, n) \/ e = 0
  <2>1. UNCHANGED <<caps, buf, head, tail>>
    BY <1>3 DEF Send, ipcVars
  <2>. QED BY <1>1, <2>1, CapsQuiet DEF InFlight
<1>4. CASE ~(CopyFails(ptr, n) \/ e = 0) /\ e \in EpIds /\ ~WaiterEmpty(e)
  <2>. DEFINE w == WaiterFront(e)
  <2>1. DeliverIpc(c, w, n, x) /\ UNCHANGED <<buf, head, tail>>
    BY <1>4 DEF Send
  <2>2. w \in Pids /\ alive[w]
    BY <1>4, FrontAlive
  <2>3. InFlight' \subseteq InFlight
    BY <2>1 DEF InFlight
  <2>4. CASE CopyFails(frame[w].rsi, Min({Staged(frame[w].rdx), n}))
    BY <1>1, <2>1, <2>3, <2>4, CapsQuiet DEF DeliverIpc
  <2>5. CASE ~CopyFails(frame[w].rsi, Min({Staged(frame[w].rdx), n}))
    <3>1. caps' = [caps EXCEPT ![w] = CapAllocTable(caps[w], x)]
      BY <2>1, <2>5 DEF DeliverIpc
    <3>. QED BY <1>1, <1>2, <2>2, <2>3, <3>1, CapsGrant
  <2>. QED BY <2>4, <2>5
<1>5. CASE ~(CopyFails(ptr, n) \/ e = 0) /\ ~(e \in EpIds /\ ~WaiterEmpty(e))
  <2>1. EpSendCap(c, cap, n, x) /\ UNCHANGED <<caps, head>>
    BY <1>5 DEF Send
  <2>2. InFlight' \subseteq InFlight \cup UNION {Held(q) : q \in Pids}
    <3>1. CASE EpSendRet(c, cap, n) = n
      <4>1. n \in Nat
        BY StagedType
      <4>2. e \in EpIds
        BY <3>1, <4>1 DEF EpSendRet, ErrInval
      <4>3. /\ buf' = [buf EXCEPT ![e][tail[e] % QLen] =
                                  [len |-> n, xfer |-> x, seq |-> tail[e]]]
            /\ tail' = [tail EXCEPT ![e] = tail[e] + 1]
        BY <2>1, <3>1 DEF EpSendCap
      <4>4. InFlight' \subseteq InFlight \cup ({x} \ {0})
        BY <2>1, <4>2, <4>3, InFlightEnqueue
      <4>. QED BY <4>4
    <3>2. CASE EpSendRet(c, cap, n) # n
      BY <2>1, <3>2 DEF EpSendCap, InFlight
    <3>. QED BY <3>1, <3>2
  <2>. QED BY <1>1, <2>1, <2>2 DEF CapsStep, Held, Allocated
<1>. QED BY <1>3, <1>4, <1>5

(* ep_recv_cap only consumes.                                              *)
LEMMA RecvInFlight ==
  ASSUME TypeOK, NEW c \in Pids, NEW cap, EpRecvCap(c, cap),
         UNCHANGED <<buf, tail>>
  PROVE  InFlight' \subseteq InFlight
<1>. DEFINE e == CapLookup(c, cap)
<1>1. CASE e \in EpIds /\ ~QueueEmpty(e)
  BY <1>1, InFlightConsume DEF EpRecvCap
<1>2. CASE ~(e \in EpIds /\ ~QueueEmpty(e))
  BY <1>2 DEF EpRecvCap, InFlight
<1>. QED BY <1>1, <1>2

(* IPC_RECV and IPC_RECV_CAP: only a copied-out message grants anything,   *)
(* and IPC_RECV_CAP grants the endpoint its front message carried.         *)
LEMMA RecvCaps ==
  ASSUME TypeOK, WaitInv, NEW c \in Pids, alive[c],
         NEW cap, NEW maxLen \in Nat, NEW ptr, NEW withCap, NEW num,
         Recv(c, cap, maxLen, ptr, withCap, num)
  PROVE  CapsStep
<1>. DEFINE n   == Staged(maxLen)
            e   == CapLookup(c, cap)
            got == EpRecvRet(c, cap, n)
            blocks == got[1] = ErrEmpty /\ HasOtherRunnable(c) /\ ~WaiterFull(e)
            xx  == IF withCap THEN got[2] ELSE 0
<1>1. EpRecvCap(c, cap) /\ UNCHANGED <<nextEp, buf, tail>>
  BY DEF Recv
<1>2. InFlight' \subseteq InFlight
  BY <1>1, RecvInFlight
<1>3. CASE ~(got[1] >= 0 /\ ~CopyFails(ptr, got[1]))
  <2>1. UNCHANGED <<caps, alive>>
    BY <1>3 DEF Recv, RecvBlock, schedVars, ErrInval, ErrEmpty
  <2>. QED BY <1>1, <1>2, <2>1, CapsQuiet
<1>4. CASE got[1] >= 0 /\ ~CopyFails(ptr, got[1])
  <2>1. n \in Nat
    BY StagedType
  <2>2. e \in EpIds /\ ~QueueEmpty(e)
    BY <1>4 DEF EpRecvRet, ErrInval, ErrEmpty
  <2>3. got[2] = Front(e).xfer
    BY <2>2 DEF EpRecvRet
  <2>4. head[e] \in head[e] .. tail[e] - 1
    BY <2>2 DEF WaitInv, HeadLeTail, QueueEmpty, TypeOK, IpcTypeOK
  <2>5. got[2] \in InFlight \cup {0}
    BY <2>2, <2>3, <2>4 DEF InFlight, Front
  <2>6. xx \in Sources \cup {0}
    BY <2>5 DEF Sources
  <2>7. RecvInstall(c, withCap, got)
    BY <1>4 DEF Recv, ErrInval, ErrEmpty
  <2>8. caps' = [caps EXCEPT ![c] = CapAllocTable(caps[c], xx)]
        /\ UNCHANGED alive
    BY <2>7 DEF RecvInstall
  <2>. QED BY <1>1, <1>2, <2>6, <2>8, CapsGrant
<1>. QED BY <1>3, <1>4

(* PROC_SPAWN: the child, a slot that was not alive, gets the endpoint the *)
(* parent's share_cap names, or nothing.                                   *)
LEMMA SpawnCaps ==
  ASSUME TypeOK, NEW c \in Pids, NEW prog, NEW share, SysSpawn(c, prog, share)
  PROVE  CapsStep
<1>. DEFINE ep   == CapLookup(c, share)
            free == {p \in Pids : ~alive[p]}
            pid  == Min(free)
<1>1. UNCHANGED <<nextEp, buf, head, tail>>
  BY DEF SysSpawn, ipcVars
<1>2. InFlight' = InFlight
  BY <1>1 DEF InFlight
<1>3. CASE prog # 1 \/ free = {}
  BY <1>1, <1>2, <1>3, CapsQuiet DEF SysSpawn
<1>4. CASE ~(prog # 1 \/ free = {})
  <2>1. pid \in free
    <3>1. free \in SUBSET Nat /\ free # {}
      BY <1>4 DEF Pids
    <3>. QED BY <3>1, MinNat
  <2>. PICK k \in Pids : k = pid /\ ~alive[k]
    BY <2>1
  <2>2. /\ alive' = [alive EXCEPT ![k] = TRUE]
        /\ caps' = [caps EXCEPT ![k] = CapAllocTable(NoCaps, ep)]
    BY <1>4 DEF SysSpawn
  <2>3. ep \in Held(c) \cup {0}
    BY CapLookupHeld
  <2>4. NoCaps \in [CapIdx -> 0 .. MaxEndpoints] /\ Named(NoCaps) = {}
    BY DEF NoCaps, Named
  <2>5. Held(k)' \subseteq Sources
    <3>1. Held(k)' = Named(CapAllocTable(NoCaps, ep))
      BY <2>2 DEF Held, Named, TypeOK, SchedTypeOK
    <3>2. Named(CapAllocTable(NoCaps, ep)) \subseteq {ep} \ {0}
      BY <2>4, CapAllocNamed
    <3>. QED BY <2>3, <3>1, <3>2 DEF Sources
  <2>6. \A p \in Pids : p # k => Held(p)' = Held(p)
    BY <2>2 DEF Held, TypeOK, SchedTypeOK
  <2>7. \A p \in Pids : ~alive'[p] => ~alive[p] /\ caps'[p] = caps[p]
    BY <2>2 DEF TypeOK, SchedTypeOK
  <2>. QED BY <1>1, <1>2, <2>5, <2>6, <2>7 DEF CapsStep, Allocated
<1>. QED BY <1>3, <1>4

(* Every step of the kernel hands out capabilities only from what is held, *)
(* queued or just allocated.                                               *)
LEMMA CapsStepNext ==
  ASSUME TypeOK, CurrentRunnable, WaitInv, [Next]_vars
  PROVE  CapsStep
<1>1. current \in Pids /\ alive[current]
  BY DEF TypeOK, SchedTypeOK, CurrentRunnable
<1>2. CASE \/ OnTimerIrq \/ SysYield(current) \/ SysPutc(current)
           \/ \E len \in Lens : SysWrite(current, len)
           \/ SysUnknown(current)
           \/ UNCHANGED vars
  <2>1. UNCHANGED <<caps, alive, nextEp, buf, head, tail>>
    BY <1>2 DEF OnTimerIrq, SysYield, SysPutc, SysWrite, SysUnknown, vars,
                schedVars, ipcVars
  <2>. QED BY <2>1, CapsQuiet DEF InFlight
<1>3. CASE SysEpCreate(current)
  BY <1>1, <1>3, EpCreateCaps
<1>4. CASE \E cap \in CapArgs, len \in Lens, ptr \in Ptrs :
             \/ SysSend(current, cap, len, ptr)
             \/ \E xcap \in CapArgs : SysSendCap(current, cap, len, ptr, xcap)
  <2>1. PICK cap \in CapArgs, len \in Lens, ptr \in Ptrs :
             \/ SysSend(current, cap, len, ptr)
             \/ \E xcap \in CapArgs : SysSendCap(current, cap, len, ptr, xcap)
    BY <1>4
  <2>2. len \in Nat
    OBVIOUS
  <2>3. CASE SysSend(current, cap, len, ptr)
    BY <1>1, <2>2, <2>3, SendCaps DEF SysSend
  <2>4. CASE \E xcap \in CapArgs : SysSendCap(current, cap, len, ptr, xcap)
    <3>1. PICK xcap \in CapArgs : SysSendCap(current, cap, len, ptr, xcap)
      BY <2>4
    <3>2. CASE xcap # 0 /\ CapLookup(current, xcap) = 0
      <4>1. UNCHANGED <<caps, alive, nextEp, buf, head, tail>>
        BY <3>1, <3>2 DEF SysSendCap, schedVars, ipcVars
      <4>. QED BY <4>1, CapsQuiet DEF InFlight
    <3>3. CASE ~(xcap # 0 /\ CapLookup(current, xcap) = 0)
      <4>1. CapLookup(current, xcap) \in Held(current) \cup {0}
        BY <1>1, CapLookupHeld
      <4>. QED BY <1>1, <2>2, <3>1, <3>3, <4>1, SendCaps DEF SysSendCap
    <3>. QED BY <3>2, <3>3
  <2>. QED BY <2>1, <2>3, <2>4
<1>5. CASE \E cap \in CapArgs, len \in Lens, ptr \in Ptrs :
             \/ SysRecv(current, cap, len, ptr)
             \/ SysRecvCap(current, cap, len, ptr)
  <2>1. PICK cap \in CapArgs, len \in Lens, ptr \in Ptrs :
             \/ SysRecv(current, cap, len, ptr)
             \/ SysRecvCap(current, cap, len, ptr)
    BY <1>5
  <2>2. len \in Nat
    OBVIOUS
  <2>. QED BY <1>1, <2>1, <2>2, RecvCaps DEF SysRecv, SysRecvCap
<1>6. CASE \E prog \in {1, 2}, share \in CapArgs : SysSpawn(current, prog, share)
  BY <1>1, <1>6, SpawnCaps
<1>. QED BY <1>2, <1>3, <1>4, <1>5, <1>6 DEF Next, SysCall

(* A step that hands out capabilities this way keeps them naming           *)
(* allocated endpoints.                                                    *)
LEMMA CapsPreserved ==
  ASSUME CapsNameEndpoints, CapsStep
  PROVE  CapsNameEndpoints'
<1>1. Sources \subseteq Allocated
  BY DEF CapsNameEndpoints, Sources
<1>2. \A p \in Pids : Held(p)' \subseteq Allocated'
  BY <1>1 DEF CapsNameEndpoints, CapsStep, Created
<1>3. \A p \in Pids : ~alive'[p] => Held(p)' = {}
  BY DEF CapsNameEndpoints, CapsStep, Held
<1>4. InFlight' \subseteq Allocated'
  BY DEF CapsNameEndpoints, CapsStep
<1>. QED BY <1>2, <1>3, <1>4 DEF CapsNameEndpoints

(* enter_first_user: every table empty, every ring empty.                  *)
LEMMA InitCaps ==
  Init => CapsNameEndpoints
<1>. SUFFICES ASSUME Init PROVE CapsNameEndpoints
  OBVIOUS
<1>1. \A p \in Pids : Held(p) = {}
  BY DEF Init, SchedInit, Held, NoCaps
<1>2. InFlight = {}
  BY DEF Init, IpcInit, InFlight
<1>. QED BY <1>1, <1>2 DEF CapsNameEndpoints

(***************************************************************************)
(* Every capability slot and every queued transfer names an endpoint that  *)
(* endpoint_alloc handed out, and a slot that is not alive holds nothing,  *)
(* for every size of the tables: IPC_SEND_CAP ships the endpoint id the    *)
(* sender's table resolves, IPC_RECV_CAP installs the one its front        *)
(* message carried, PROC_SPAWN the one the parent's share_cap names.       *)
(***************************************************************************)
THEOREM CapsNameEndpointsInvariant ==
  Spec => []CapsNameEndpoints
<1>1. Init => CapsNameEndpoints
  BY InitCaps
<1>2. TypeOK /\ CurrentRunnable /\ WaitInv /\ CapsNameEndpoints /\ [Next]_vars
        => CapsNameEndpoints'
  BY CapsStepNext, CapsPreserved
<1>. QED BY <1>1, <1>2, TypeCorrect, CurrentRunnableInvariant, WaitInvariant,
            PTL DEF Spec

(***************************************************************************)
(* Capabilities cannot be forged: no step gives a process a capability     *)
(* that no process held and no queued message carried, other than the      *)
(* endpoint IPC_EP_CREATE just allocated.                                  *)
(***************************************************************************)
THEOREM NoForgedCapsTheorem ==
  Spec => NoForgedCaps
<1>1. TypeOK /\ CurrentRunnable /\ WaitInv /\ [Next]_vars
        => [\A p \in Pids : \A e \in Held(p)' \ Held(p) :
              \/ e \in UNION {Held(q) : q \in Pids}
              \/ e \in InFlight
              \/ nextEp' = nextEp + 1 /\ e = nextEp']_vars
  <2>. SUFFICES ASSUME TypeOK, CurrentRunnable, WaitInv, [Next]_vars
                PROVE  \A p \in Pids : \A e \in Held(p)' \ Held(p) :
                          \/ e \in UNION {Held(q) : q \in Pids}
                          \/ e \in InFlight
                          \/ nextEp' = nextEp + 1 /\ e = nextEp'
    OBVIOUS
  <2>1. CapsStep
    BY CapsStepNext
  <2>. QED BY <2>1 DEF CapsStep, Sources, Created
<1>. QED BY <1>1, TypeCorrect, CurrentRunnableInvariant, WaitInvariant,
            PTL DEF Spec, NoForgedCaps
=============================================================================
