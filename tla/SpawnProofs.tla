---------------------------- MODULE SpawnProofs -----------------------------
(***************************************************************************)
(* Proofs about process creation over the frame allocator (module Spawn), *)
(* for every number of slots, frames per build, heap size and PMM table    *)
(* that satisfy SpawnAssumption.                                           *)
(*                                                                         *)
(* FramesAccounted is not inductive by itself.  A new frame is foreign to  *)
(* every process only because the allocator hands out free bytes and no   *)
(* handed byte is free (AllocInv, proved in PmmProofs).  install_first     *)
(* may give slot 0 the build's frames and kill every other slot only      *)
(* because no slot owns a frame before the first process exists.          *)
(***************************************************************************)
EXTENDS Spawn, PmmProofs

USE SpawnAssumption, PmmAllocAssumption

SpawnInv ==
  /\ SpawnTypeOK
  /\ AllocInv
  /\ FramesAccounted
  /\ stage = "first" => \A p \in Pids : owned[p] = {}

(* The state enter_first_user starts from satisfies the invariant: the    *)
(* table is one pmm::init may store, nothing is handed out or owned.      *)
LEMMA SpawnInitInv == Init => SpawnInv
<1>. SUFFICES ASSUME Init PROVE SpawnInv
  OBVIOUS
<1>1. InitRanges(ranges) /\ ranges \in Seq(PmmRange)
  BY DEF Init, InitRanges
<1>2. FreeBytes \subseteq Nat
  <2>1. \A k \in 1 .. Len(ranges) : Bytes(ranges[k]) \subseteq Nat
    BY <1>1, BytesBounds
  <2>. QED BY <2>1 DEF FreeBytes
<1>3. AllocTypeOK
  BY <1>1, <1>2 DEF Init, AllocTypeOK, NoCall
<1>4. AllocSafe
  <2>1. \A i \in 1 .. Len(ranges) :
          /\ ranges[i].base <= ranges[i].end
          /\ ranges[i].base % PageSize = 0
          /\ ranges[i].end % PageSize = 0
          /\ LowReserve <= ranges[i].base
    <3>. TAKE i \in 1 .. Len(ranges)
    <3>1. ranges[i] \in PmmRange /\ ranges[i].base < ranges[i].end
      BY <1>1 DEF InitRanges
    <3>. QED BY <1>1, <3>1 DEF InitRanges, PmmRange
  <2>2. \A i, j \in 1 .. Len(ranges) : i < j => ranges[i].end <= ranges[j].base
    BY <1>1 DEF InitRanges
  <2>. QED BY <2>1, <2>2 DEF Init, AllocSafe, NoCall
<1>5. SpawnTypeOK
  BY <1>3 DEF Init, SpawnTypeOK, Pids
<1>6. FramesAccounted
  BY DEF Init, FramesAccounted
<1>. QED BY <1>3, <1>4, <1>5, <1>6 DEF Init, SpawnInv, AllocInv

(* A step that leaves the PMM alone keeps AllocInv.                       *)
LEMMA AllocInvUnchanged ==
  ASSUME AllocInv, UNCHANGED allocVars
  PROVE  AllocInv'
BY DEF AllocInv, AllocTypeOK, AllocSafe, FreeBytes, allocVars

(* The steps of PROC_SPAWN that take no frame and give none away keep the *)
(* invariant: a wrong prog_id, entering the build, a full heap.           *)
LEMMA QuietStepsInv ==
  ASSUME SpawnInv, SpawnBadProg \/ SpawnStart \/ KstackOom
  PROVE  SpawnInv'
<1>1. UNCHANGED <<allocVars, alive, got, owned, leaked, kstacks>>
  BY DEF SpawnBadProg, SpawnStart, KstackOom
<1>2. AllocInv'
  BY <1>1, AllocInvUnchanged DEF SpawnInv
<1>3. stage' \in {"idle", "build", "panic"}
  BY DEF SpawnBadProg, SpawnStart, SpawnInv, SpawnTypeOK, KstackOom
<1>4. need' \in 0 .. BuildFrames /\ answer' \in Pids \cup {SpawnErr, NoAnswer}
  BY DEF SpawnBadProg, SpawnStart, KstackOom, SpawnInv, SpawnTypeOK
<1>5. SpawnTypeOK'
  BY <1>1, <1>2, <1>3, <1>4 DEF SpawnInv, SpawnTypeOK, AllocInv
<1>6. FramesAccounted'
  BY <1>1 DEF SpawnInv, FramesAccounted, allocVars
<1>7. stage' # "first"
  BY <1>3
<1>. QED BY <1>2, <1>5, <1>6, <1>7 DEF SpawnInv

(* One alloc_frame of build_proc_from_init keeps the invariant: on None   *)
(* nothing was handed out and the kernel panics; otherwise the frame was  *)
(* free, so it is in no process's address space, no refused build and    *)
(* not yet in this one.                                                    *)
LEMMA BuildFrameInv ==
  ASSUME SpawnInv, BuildFrame
  PROVE  SpawnInv'
<1>1. 1 \in 0 .. MaxRequest /\ AllocPages(1)
  BY DEF BuildFrame
<1>2. AllocInv'
  BY <1>1, AllocPagesInv DEF SpawnInv
<1>3. FA!Refuse(1) \/ \E p \in FreeBytes : FA!Grant(1, p)
  BY <1>1, AllocPagesRefines DEF SpawnInv
<1>4. UNCHANGED <<alive, owned, leaked, kstacks, answer>>
  BY DEF BuildFrame
<1>5. stage \in {"first", "build"} /\ need \in 1 .. BuildFrames
  BY DEF BuildFrame, SpawnInv, SpawnTypeOK
<1>6. CASE FA!Refuse(1)
  <2>1. last'.ret = NoFrame /\ handed' = handed
    BY <1>6 DEF FA!Refuse, FA!NoFrame, NoFrame
  <2>2. stage' = "panic" /\ need' = need /\ got' = got
    BY <2>1 DEF BuildFrame
  <2>3. SpawnTypeOK'
    BY <1>2, <1>4, <1>5, <2>2 DEF SpawnInv, SpawnTypeOK, AllocInv
  <2>4. FramesAccounted'
    BY <1>4, <2>1, <2>2 DEF SpawnInv, FramesAccounted
  <2>. QED BY <1>2, <2>2, <2>3, <2>4 DEF SpawnInv
<1>7. CASE \E p \in FreeBytes : FA!Grant(1, p)
  <2>1. PICK p \in FreeBytes : FA!Grant(1, p)
    BY <1>7
  <2>. DEFINE blk == p .. p + PageSize - 1
  <2>2. /\ blk \subseteq FreeBytes
        /\ handed' = handed \cup blk
        /\ last'.ret = p
    BY <2>1 DEF FA!Grant, FA!Block
  <2>3. FreeBytes \subseteq Nat /\ handed \cap FreeBytes = {}
    BY DEF SpawnInv, AllocInv, AllocTypeOK, AllocSafe
  <2>4. last'.ret # NoFrame
    BY <2>2, <2>3 DEF NoFrame
  <2>5. need' = need - 1 /\ got' = got \cup blk /\ stage' = stage
    BY <2>2, <2>4 DEF BuildFrame
  <2>6. blk \cap handed = {}
    BY <2>2, <2>3
  <2>7. SpawnTypeOK'
    <3>1. got' \subseteq Nat /\ need' \in 0 .. BuildFrames
      BY <1>5, <2>2, <2>3, <2>5 DEF SpawnInv, SpawnTypeOK
    <3>. QED BY <1>2, <1>4, <1>5, <2>5, <3>1 DEF SpawnInv, SpawnTypeOK, AllocInv
  <2>8. FramesAccounted'
    <3>1. /\ handed = (UNION {owned[q] : q \in Pids}) \cup got \cup leaked
          /\ \A q, r \in Pids : q # r => owned[q] \cap owned[r] = {}
          /\ \A q \in Pids : /\ owned[q] \cap (got \cup leaked) = {}
                             /\ owned[q] # {} => alive[q]
          /\ got \cap leaked = {}
      BY DEF SpawnInv, FramesAccounted
    <3>2. handed' = (UNION {owned'[q] : q \in Pids}) \cup got' \cup leaked'
      BY <1>4, <2>2, <2>5, <3>1
    <3>3. \A q \in Pids : owned'[q] \cap (got' \cup leaked') = {}
      BY <1>4, <2>5, <2>6, <3>1
    <3>4. got' \cap leaked' = {}
      BY <1>4, <2>5, <2>6, <3>1
    <3>. QED BY <1>4, <3>1, <3>2, <3>3, <3>4 DEF FramesAccounted
  <2>. QED BY <1>2, <1>4, <2>5, <2>7, <2>8 DEF SpawnInv
<1>. QED BY <1>3, <1>6, <1>7

(* install_first keeps the invariant: no slot owned a frame before, so    *)
(* slot 0 now owns exactly the build's frames and every other slot, dead, *)
(* owns none.                                                              *)
LEMMA InstallFirstInv ==
  ASSUME SpawnInv, InstallFirst
  PROVE  SpawnInv'
<1>1. /\ \A q \in Pids : owned[q] = {}
      /\ owned \in [Pids -> SUBSET Nat]
      /\ got \subseteq Nat
      /\ kstacks \in 0 .. HeapKstacks
      /\ 0 \in Pids
    BY DEF InstallFirst, SpawnInv, SpawnTypeOK, Pids
<1>2. UNCHANGED <<allocVars, need, leaked, answer>>
  BY DEF InstallFirst
<1>3. AllocInv'
  BY <1>2, AllocInvUnchanged DEF SpawnInv
<1>4. /\ owned'[0] = got
      /\ \A q \in Pids \ {0} : owned'[q] = {}
      /\ owned' \in [Pids -> SUBSET Nat]
  BY <1>1 DEF InstallFirst
<1>5. UNION {owned'[q] : q \in Pids} = got
  BY <1>1, <1>4
<1>6. alive' = [q \in Pids |-> q = 0] /\ got' = {} /\ stage' = "idle"
  BY DEF InstallFirst
<1>7. SpawnTypeOK'
  <2>1. kstacks' \in 0 .. HeapKstacks
    BY <1>1 DEF InstallFirst
  <2>. QED BY <1>2, <1>3, <1>4, <1>6, <2>1 DEF SpawnInv, SpawnTypeOK, AllocInv
<1>8. FramesAccounted'
  <2>1. handed = got \cup leaked /\ got \cap leaked = {}
    BY <1>1 DEF SpawnInv, FramesAccounted
  <2>2. handed' = (UNION {owned'[q] : q \in Pids}) \cup got' \cup leaked'
    BY <1>2, <1>5, <1>6, <2>1 DEF allocVars
  <2>3. \A q, r \in Pids : q # r => owned'[q] \cap owned'[r] = {}
    BY <1>4
  <2>4. \A q \in Pids : /\ owned'[q] \cap (got' \cup leaked') = {}
                        /\ owned'[q] # {} => alive'[q]
    BY <1>2, <1>4, <1>6, <2>1
  <2>. QED BY <1>2, <1>6, <2>2, <2>3, <2>4 DEF FramesAccounted
<1>. QED BY <1>3, <1>6, <1>7, <1>8 DEF SpawnInv

(* spawn_proc keeps the invariant.  With no dead slot the build's frames  *)
(* move to the refused set.  Otherwise the slot it takes is dead, so it   *)
(* owned no frame, and now owns exactly the build's.                      *)
LEMMA SpawnProcInv ==
  ASSUME SpawnInv, SpawnProc
  PROVE  SpawnInv'
<1>. DEFINE free == {p \in Pids : ~alive[p]}
            pid  == CHOOSE p \in free : \A q \in free : p <= q
<1>1. /\ owned \in [Pids -> SUBSET Nat]
      /\ alive \in [Pids -> BOOLEAN]
      /\ got \subseteq Nat
      /\ leaked \subseteq Nat
      /\ kstacks' \in 0 .. HeapKstacks
  BY DEF SpawnProc, SpawnInv, SpawnTypeOK
<1>2. UNCHANGED <<allocVars, need>> /\ got' = {} /\ stage' = "idle"
  BY DEF SpawnProc
<1>3. AllocInv'
  BY <1>2, AllocInvUnchanged DEF SpawnInv
<1>4. /\ handed = (UNION {owned[q] : q \in Pids}) \cup got \cup leaked
      /\ \A q, r \in Pids : q # r => owned[q] \cap owned[r] = {}
      /\ \A q \in Pids : /\ owned[q] \cap (got \cup leaked) = {}
                         /\ owned[q] # {} => alive[q]
      /\ got \cap leaked = {}
  BY DEF SpawnInv, FramesAccounted
<1>5. handed' = handed
  BY <1>2 DEF allocVars
<1>6. CASE free = {}
  <2>1. /\ answer' = SpawnErr
        /\ leaked' = leaked \cup got
        /\ UNCHANGED <<alive, owned>>
    BY <1>6 DEF SpawnProc
  <2>2. SpawnTypeOK'
    BY <1>1, <1>2, <1>3, <2>1 DEF SpawnInv, SpawnTypeOK, AllocInv
  <2>3. FramesAccounted'
    BY <1>2, <1>4, <1>5, <2>1 DEF FramesAccounted
  <2>. QED BY <1>2, <1>3, <2>2, <2>3 DEF SpawnInv
<1>7. CASE free # {}
  <2>0. free \subseteq Nat
    BY DEF Pids
  <2>1. pid \in free
    BY <1>7, <2>0, FirstFit
  <2>2. pid \in Pids /\ ~alive[pid] /\ owned[pid] = {}
    BY <1>1, <1>4, <2>1
  <2>3. /\ answer' = pid
        /\ alive' = [alive EXCEPT ![pid] = TRUE]
        /\ owned' = [owned EXCEPT ![pid] = got]
        /\ UNCHANGED leaked
    BY <1>7 DEF SpawnProc
  <2>4. /\ owned'[pid] = got
        /\ \A q \in Pids \ {pid} : owned'[q] = owned[q]
        /\ owned' \in [Pids -> SUBSET Nat]
    BY <1>1, <2>2, <2>3
  <2>5. UNION {owned'[q] : q \in Pids} = (UNION {owned[q] : q \in Pids}) \cup got
    BY <2>2, <2>4
  <2>6. SpawnTypeOK'
    <3>1. alive' \in [Pids -> BOOLEAN]
      BY <1>1, <2>2, <2>3
    <3>. QED BY <1>1, <1>2, <1>3, <2>2, <2>3, <2>4, <3>1 DEF SpawnInv, SpawnTypeOK, AllocInv
  <2>7. FramesAccounted'
    <3>1. handed' = (UNION {owned'[q] : q \in Pids}) \cup got' \cup leaked'
      BY <1>2, <1>4, <1>5, <2>3, <2>5
    <3>2. \A q, r \in Pids : q # r => owned'[q] \cap owned'[r] = {}
      BY <1>4, <2>2, <2>4
    <3>3. \A q \in Pids : owned'[q] \cap (got' \cup leaked') = {}
      BY <1>2, <1>4, <2>3, <2>4
    <3>4. \A q \in Pids : owned'[q] # {} => alive'[q]
      BY <1>1, <1>4, <2>2, <2>3, <2>4
    <3>. QED BY <1>2, <3>1, <3>2, <3>3, <3>4 DEF FramesAccounted
  <2>. QED BY <1>2, <1>3, <2>6, <2>7 DEF SpawnInv
<1>. QED BY <1>6, <1>7

(* Every step of process creation, or a stutter, keeps the invariant.     *)
LEMMA SpawnStep ==
  ASSUME SpawnInv, [Next]_vars
  PROVE  SpawnInv'
<1>1. CASE SpawnBadProg \/ SpawnStart \/ KstackOom
  BY <1>1, QuietStepsInv
<1>2. CASE BuildFrame
  BY <1>2, BuildFrameInv
<1>3. CASE InstallFirst
  BY <1>3, InstallFirstInv
<1>4. CASE SpawnProc
  BY <1>4, SpawnProcInv
<1>5. CASE UNCHANGED vars
  <2>1. AllocInv'
    BY <1>5, AllocInvUnchanged DEF vars, SpawnInv
  <2>. QED BY <1>5, <2>1 DEF vars, spawnVars, SpawnInv, SpawnTypeOK, AllocInv,
                            FramesAccounted, allocVars
<1>. QED BY <1>1, <1>2, <1>3, <1>4, <1>5 DEF Next

(* For every number of slots, frames per build, heap size and PMM table,  *)
(* every frame the PMM hands out from enter_first_user on is in exactly   *)
(* one place: one live process's address space, the PROC_SPAWN build in   *)
(* progress, or a build spawn_proc refused.  No two processes share a      *)
(* frame, and spawn_proc never installs over a live process.              *)
THEOREM SpawnFramesAccounted == Spec => []FramesAccounted
<1>1. SpawnInv => FramesAccounted
  BY DEF SpawnInv
<1>. QED BY <1>1, SpawnInitInv, SpawnStep, PTL DEF Spec

(* The spawn state keeps its types for every number of slots, frames per  *)
(* build, heap size and PMM table: a build never needs more than          *)
(* BuildFrames frames, kstack_alloc_top never counts past the heap's room  *)
(* for kernel stacks, and the allocator's state stays typed.              *)
THEOREM SpawnTypeCorrect == Spec => []SpawnTypeOK
<1>1. SpawnInv => SpawnTypeOK
  BY DEF SpawnInv
<1>. QED BY <1>1, SpawnInitInv, SpawnStep, PTL DEF Spec
=============================================================================
