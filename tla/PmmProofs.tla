----------------------------- MODULE PmmProofs -----------------------------
(***************************************************************************)
(* Proofs about the frame allocator of module PmmAlloc, for every page     *)
(* size, array capacity, low reserve and request bound that satisfy        *)
(* PmmAllocAssumption, and for every table pmm::init may store.            *)
(*                                                                         *)
(* AllocSafe is not inductive by itself: InitDone sets pool to the bytes   *)
(* of the new table and keeps handed, so it needs that nothing has been    *)
(* handed out while the PMM is None.  AllocInv adds that, and the type    *)
(* invariant.                                                              *)
(***************************************************************************)
EXTENDS PmmAlloc, SequenceTheorems, WellFoundedInduction, TLAPS

USE PmmAllocAssumption

AllocInv ==
  /\ AllocTypeOK
  /\ AllocSafe
  /\ ~up => handed = {}

(* A non-empty set of naturals has a least element.                        *)
LEMMA LeastExists ==
  ASSUME NEW S \in SUBSET Nat, S # {}
  PROVE  \E x \in S : \A y \in S : x <= y
<1>1. \E x \in S : \A y \in S : ~(<<y, x>> \in OpToRel(<, Nat))
  BY NatLessThanWellFounded, WFMin
<1>2. PICK x \in S : \A y \in S : ~(<<y, x>> \in OpToRel(<, Nat))
  BY <1>1
<1>3. \A y \in S : x <= y
  <2>. TAKE y \in S
  <2>1. <<y, x>> \in Nat \X Nat
    OBVIOUS
  <2>2. ~(y < x)
    BY <1>2, <2>1 DEF OpToRel
  <2>. QED BY <2>2
<1>. QED BY <1>3

(* The slot alloc_pages stops at, the first one that fits, is one of them. *)
LEMMA FirstFit ==
  ASSUME NEW S \in SUBSET Nat, S # {}
  PROVE  (CHOOSE i \in S : \A j \in S : i <= j) \in S
BY LeastExists

(* Advancing a page-aligned address by whole pages keeps it aligned.       *)
LEMMA PageAligned ==
  ASSUME NEW p \in Nat, NEW k \in Nat, p % PageSize = 0
  PROVE  (p + k * PageSize) % PageSize = 0
<1>1. PageSize \in Nat \ {0}
  OBVIOUS
<1>2. p = (p \div PageSize) * PageSize
  BY <1>1, Z3
<1>3. p + k * PageSize = ((p \div PageSize) + k) * PageSize
  BY <1>1, <1>2, Z3
<1>4. (p \div PageSize) + k \in Nat
  BY <1>1
<1>5. \A m \in Nat : (m * PageSize) % PageSize = 0
  BY <1>1, Z3
<1>. QED BY <1>3, <1>4, <1>5

(* A byte of a range lies below its end and at or above its base.          *)
LEMMA BytesBounds ==
  ASSUME NEW r \in PmmRange, NEW x \in Bytes(r)
  PROVE  x \in Nat /\ r.base <= x /\ x < r.end
BY DEF Bytes, PmmRange

(* The ranges of a sorted, disjoint table share no byte.                   *)
LEMMA DisjointRanges ==
  ASSUME NEW s \in Seq(PmmRange),
         \A i, j \in 1 .. Len(s) : i < j => s[i].end <= s[j].base,
         NEW i \in 1 .. Len(s), NEW k \in 1 .. Len(s), i # k
  PROVE  Bytes(s[i]) \cap Bytes(s[k]) = {}
<1>1. s[i] \in PmmRange /\ s[k] \in PmmRange
  OBVIOUS
<1>2. SUFFICES ASSUME NEW x \in Bytes(s[i]), x \in Bytes(s[k]) PROVE FALSE
  OBVIOUS
<1>3. x \in Nat /\ s[i].base <= x /\ x < s[i].end
  BY <1>1, BytesBounds
<1>4. x \in Nat /\ s[k].base <= x /\ x < s[k].end
  BY <1>1, <1>2, BytesBounds
<1>5. i < k => s[i].end <= s[k].base
  OBVIOUS
<1>6. k < i => s[k].end <= s[i].base
  OBVIOUS
<1>7. i < k \/ k < i
  OBVIOUS
<1>8. s[i].base \in Nat /\ s[i].end \in Nat /\ s[k].base \in Nat /\ s[k].end \in Nat
  BY <1>1 DEF PmmRange
<1>9. CASE i < k
  <2>1. s[i].end <= s[k].base
    BY <1>5, <1>9
  <2>. QED BY <1>3, <1>4, <1>8, <2>1
<1>10. CASE k < i
  <2>1. s[k].end <= s[i].base
    BY <1>6, <1>10
  <2>. QED BY <1>3, <1>4, <1>8, <2>1
<1>. QED BY <1>7, <1>9, <1>10

(* Before init the PMM is None: nothing handed out, no table.             *)
LEMMA InitSound == AllocInit => AllocInv
<1>. SUFFICES ASSUME AllocInit PROVE AllocInv
  OBVIOUS
<1>1. Len(ranges) = 0
  BY DEF AllocInit
<1>2. ranges \in Seq(PmmRange)
  BY DEF AllocInit
<1>3. FreeBytes = {}
  BY <1>1 DEF FreeBytes
<1>4. last \in [pages : 0 .. MaxRequest, ret : Nat \cup {NoFrame}]
  BY DEF AllocInit, NoCall
<1>5. up \in BOOLEAN
  BY DEF AllocInit
<1>6. cursor \in 0 .. Len(ranges)
  BY <1>1 DEF AllocInit
<1>7. handed = {} /\ pool = {}
  BY DEF AllocInit
<1>8. AllocTypeOK
  BY <1>2, <1>4, <1>5, <1>6, <1>7 DEF AllocTypeOK
<1>9. last.ret = NoFrame
  BY DEF AllocInit, NoCall
<1>10. AllocSafe
  BY <1>1, <1>3, <1>7, <1>9 DEF AllocSafe
<1>. QED BY <1>7, <1>8, <1>10 DEF AllocInv

(* pmm::init storing its table keeps the invariant: the table satisfies   *)
(* InitRanges, nothing was handed out before, and pool is its bytes.      *)
LEMMA InitDoneInv ==
  ASSUME AllocInv, InitDone
  PROVE  AllocInv'
<1>1. handed' = {}
  BY DEF AllocInv, InitDone
<1>2. ranges' \in Seq(PmmRange)
  BY DEF InitDone, InitRanges
<1>3. pool' = FreeBytes'
  BY DEF InitDone, FreeBytes
<1>4. pool' \subseteq Nat
  <2>1. \A i \in 1 .. Len(ranges') : Bytes(ranges'[i]) \subseteq Nat
    <3>. TAKE i \in 1 .. Len(ranges')
    <3>1. ranges'[i] \in PmmRange
      BY <1>2
    <3>. QED BY <3>1, BytesBounds
  <2>. QED BY <2>1 DEF InitDone
<1>5. last' = last /\ up' = TRUE /\ cursor' = 0
  BY DEF InitDone
<1>6. AllocTypeOK'
  <2>1. last \in [pages : 0 .. MaxRequest, ret : Nat \cup {NoFrame}]
    BY DEF AllocInv, AllocTypeOK
  <2>. QED BY <1>1, <1>2, <1>4, <1>5, <2>1 DEF AllocTypeOK
<1>7. AllocSafe'
  <2>1. InitRanges(ranges')
    BY DEF InitDone
  <2>2. \A i \in 1 .. Len(ranges') :
          /\ ranges'[i].base <= ranges'[i].end
          /\ ranges'[i].base % PageSize = 0
          /\ ranges'[i].end % PageSize = 0
          /\ LowReserve <= ranges'[i].base
    <3>. TAKE i \in 1 .. Len(ranges')
    <3>1. ranges'[i] \in PmmRange
      BY <1>2
    <3>2. ranges'[i].base < ranges'[i].end
      BY <2>1 DEF InitRanges
    <3>3. ranges'[i].base <= ranges'[i].end
      BY <3>1, <3>2 DEF PmmRange
    <3>. QED BY <2>1, <3>3 DEF InitRanges
  <2>3. \A i, j \in 1 .. Len(ranges') :
          i < j => ranges'[i].end <= ranges'[j].base
    BY <2>1 DEF InitRanges
  <2>4. handed' \cap FreeBytes' = {} /\ handed' \cup FreeBytes' \subseteq pool'
    BY <1>1, <1>3
  <2>5. last.ret # NoFrame => last.ret % PageSize = 0
    BY DEF AllocInv, AllocSafe
  <2>. QED BY <1>5, <2>2, <2>3, <2>4, <2>5 DEF AllocSafe
<1>. QED BY <1>5, <1>6, <1>7 DEF AllocInv
(* A call that returns None (0 pages, no PMM, or no slot from the cursor   *)
(* fits) changes at most the cursor, moved to len, and the result.        *)
LEMMA AllocNoneInv ==
  ASSUME AllocInv, NEW n \in 0 .. MaxRequest,
         last' = [pages |-> n, ret |-> NoFrame],
         cursor' \in 0 .. Len(ranges),
         UNCHANGED <<up, ranges, handed, pool>>
  PROVE  AllocInv'
<1>1. FreeBytes' = FreeBytes
  BY DEF FreeBytes
<1>2. last' \in [pages : 0 .. MaxRequest, ret : Nat \cup {NoFrame}]
  OBVIOUS
<1>3. AllocTypeOK'
  BY <1>2 DEF AllocInv, AllocTypeOK
<1>4. AllocSafe'
  BY <1>1 DEF AllocInv, AllocSafe
<1>. QED BY <1>3, <1>4 DEF AllocInv

(* A call that carves its block from slot i keeps the invariant: the slot  *)
(* shrinks from below by whole pages, the block came from the slot, and    *)
(* the slot shares no byte with any other, so the block is in no range.    *)
LEMMA AllocCarveInv ==
  ASSUME AllocInv, up, NEW n \in 1 .. MaxRequest,
         NEW i \in 1 .. Len(ranges), cursor < i,
         Avail(ranges[i]) >= n * PageSize,
         ranges' = [ranges EXCEPT ![i].base = ranges[i].base + n * PageSize],
         cursor' = IF ranges[i].base + n * PageSize >= ranges[i].end THEN i ELSE i - 1,
         handed' = handed \cup (ranges[i].base .. ranges[i].base + n * PageSize - 1),
         last' = [pages |-> n, ret |-> ranges[i].base],
         UNCHANGED <<up, pool>>
  PROVE  /\ AllocInv'
         /\ (ranges[i].base .. ranges[i].base + n * PageSize - 1) \subseteq FreeBytes
         /\ FreeBytes' = FreeBytes \ (ranges[i].base .. ranges[i].base + n * PageSize - 1)
<1>. DEFINE need == n * PageSize
            p    == ranges[i].base
            blk  == p .. p + need - 1
<1>1. AllocTypeOK /\ AllocSafe
  BY DEF AllocInv
<1>2. ranges[i] \in PmmRange
  BY <1>1 DEF AllocTypeOK
<1>3. need \in Nat /\ need >= 1
  OBVIOUS
<1>4. p \in Nat /\ p + need <= ranges[i].end
  BY <1>2, <1>3 DEF Avail, PmmRange
<1>5. Len(ranges') = Len(ranges) /\ ranges' \in Seq(PmmRange)
  <2>1. ranges \in [1 .. Len(ranges) -> PmmRange]
    BY <1>1 DEF AllocTypeOK
  <2>2. [ranges[i] EXCEPT !.base = p + need] \in PmmRange
    <3>1. ranges[i] = [base |-> ranges[i].base, end |-> ranges[i].end]
      BY <1>2 DEF PmmRange
    <3>2. [ranges[i] EXCEPT !.base = p + need] = [base |-> p + need, end |-> ranges[i].end]
      BY <3>1
    <3>3. p + need \in Nat /\ ranges[i].end \in Nat
      BY <1>2, <1>3, <1>4 DEF PmmRange
    <3>. QED BY <3>2, <3>3 DEF PmmRange
  <2>3. ranges' \in [1 .. Len(ranges) -> PmmRange]
    BY <2>1, <2>2
  <2>4. Len(ranges) \in Nat
    BY <1>1 DEF AllocTypeOK
  <2>5. ranges' = [ranges EXCEPT ![i] = [ranges[i] EXCEPT !.base = p + need]]
    OBVIOUS
  <2>. QED BY <1>1, <2>2, <2>5, ExceptSeq DEF AllocTypeOK
<1>6. \A k \in 1 .. Len(ranges) :
        /\ ranges'[k].end = ranges[k].end
        /\ ranges[k].base <= ranges'[k].base
        /\ k # i => ranges'[k] = ranges[k]
  <2>. TAKE k \in 1 .. Len(ranges)
  <2>1. ranges \in [1 .. Len(ranges) -> PmmRange]
    BY <1>1 DEF AllocTypeOK
  <2>2. CASE k = i
    <3>1. ranges'[k] = [ranges[i] EXCEPT !.base = p + need]
      BY <2>1, <2>2
    <3>. QED BY <1>2, <1>3, <1>4, <2>2, <3>1 DEF PmmRange
  <2>3. CASE k # i
    <3>1. ranges'[k] = ranges[k]
      BY <2>1, <2>3
    <3>2. ranges[k] \in PmmRange
      BY <2>1
    <3>. QED BY <3>1, <3>2 DEF PmmRange
  <2>. QED BY <2>2, <2>3
<1>7. ranges'[i].base = p + need
  BY <1>1 DEF AllocTypeOK
<1>8. AllocTypeOK'
  <2>1. cursor' \in 0 .. Len(ranges')
    BY <1>5
  <2>2. handed' \subseteq Nat
    BY <1>1, <1>4 DEF AllocTypeOK
  <2>. QED BY <1>1, <1>4, <1>5, <2>1, <2>2 DEF AllocTypeOK
<1>9. \A k \in 1 .. Len(ranges') :
        /\ ranges'[k].base <= ranges'[k].end
        /\ ranges'[k].base % PageSize = 0
        /\ ranges'[k].end % PageSize = 0
        /\ LowReserve <= ranges'[k].base
  <2>. TAKE k \in 1 .. Len(ranges')
  <2>1. CASE k = i
    <3>1. (p + need) % PageSize = 0
      BY <1>1, <1>4, PageAligned DEF AllocSafe
    <3>2. LowReserve <= p
      BY <1>1 DEF AllocSafe
    <3>. QED BY <1>1, <1>4, <1>5, <1>6, <1>7, <2>1, <3>1, <3>2 DEF AllocSafe
  <2>2. CASE k # i
    BY <1>1, <1>5, <1>6, <2>2 DEF AllocSafe
  <2>. QED BY <2>1, <2>2
<1>10. \A k, l \in 1 .. Len(ranges') : k < l => ranges'[k].end <= ranges'[l].base
  <2>. TAKE k, l \in 1 .. Len(ranges')
  <2>. HAVE k < l
  <2>1. k \in 1 .. Len(ranges) /\ l \in 1 .. Len(ranges)
    BY <1>5
  <2>2. /\ ranges[k] \in PmmRange /\ ranges[l] \in PmmRange
        /\ ranges'[k] \in PmmRange /\ ranges'[l] \in PmmRange
    BY <1>1, <1>5, <2>1 DEF AllocTypeOK
  <2>3. ranges[k].end <= ranges[l].base
    BY <1>1, <2>1 DEF AllocSafe
  <2>4. ranges'[k].end = ranges[k].end /\ ranges[l].base <= ranges'[l].base
    BY <1>6, <2>1
  <2>. QED BY <2>2, <2>3, <2>4 DEF PmmRange
<1>11. \A k \in 1 .. Len(ranges) : Bytes(ranges'[k]) \subseteq Bytes(ranges[k])
  <2>. TAKE k \in 1 .. Len(ranges)
  <2>1. ranges[k] \in PmmRange /\ ranges'[k] \in PmmRange
    BY <1>1, <1>5 DEF AllocTypeOK
  <2>2. ranges'[k].end = ranges[k].end /\ ranges[k].base <= ranges'[k].base
    BY <1>6
  <2>. QED BY <2>1, <2>2 DEF Bytes, PmmRange
<1>12. FreeBytes' \subseteq FreeBytes
  BY <1>5, <1>11 DEF FreeBytes
<1>13. blk \subseteq FreeBytes
  <2>1. blk \subseteq Bytes(ranges[i])
    BY <1>2, <1>4 DEF Bytes, PmmRange
  <2>. QED BY <2>1 DEF FreeBytes
<1>14. \A k \in 1 .. Len(ranges) : blk \cap Bytes(ranges'[k]) = {}
  <2>. TAKE k \in 1 .. Len(ranges)
  <2>1. CASE k = i
    BY <1>4, <1>6, <1>7, <2>1 DEF Bytes
  <2>2. CASE k # i
    <3>1. Bytes(ranges[i]) \cap Bytes(ranges[k]) = {}
      BY <1>1, <2>2, DisjointRanges DEF AllocTypeOK, AllocSafe
    <3>2. blk \subseteq Bytes(ranges[i])
      BY <1>2, <1>4 DEF Bytes, PmmRange
    <3>. QED BY <1>6, <2>2, <3>1, <3>2
  <2>. QED BY <2>1, <2>2
<1>15. blk \cap FreeBytes' = {}
  BY <1>5, <1>14 DEF FreeBytes
<1>16. AllocSafe'
  <2>1. handed' \cap FreeBytes' = {}
    BY <1>1, <1>12, <1>15 DEF AllocSafe
  <2>2. handed' \cup FreeBytes' \subseteq pool'
    BY <1>1, <1>12, <1>13 DEF AllocSafe
  <2>3. last'.ret # NoFrame => last'.ret % PageSize = 0
    BY <1>1 DEF AllocSafe
  <2>. QED BY <1>9, <1>10, <2>1, <2>2, <2>3 DEF AllocSafe
<1>17. FreeBytes \ blk \subseteq FreeBytes'
  <2>. SUFFICES ASSUME NEW x \in FreeBytes \ blk PROVE x \in FreeBytes'
    OBVIOUS
  <2>1. PICK k \in 1 .. Len(ranges) : x \in Bytes(ranges[k])
    BY DEF FreeBytes
  <2>2. x \in Bytes(ranges'[k])
    <3>1. CASE k = i
      <4>1. x \in Nat /\ p <= x /\ x < ranges[i].end
        BY <1>2, <2>1, <3>1 DEF Bytes, PmmRange
      <4>2. x >= p + need
        BY <1>3, <1>4, <4>1 DEF Bytes
      <4>. QED BY <1>2, <1>6, <1>7, <3>1, <4>1, <4>2 DEF Bytes, PmmRange
    <3>4. CASE k # i
      BY <1>6, <2>1, <3>4
    <3>. QED BY <3>1, <3>4
  <2>. QED BY <1>5, <2>2 DEF FreeBytes
<1>. QED BY <1>8, <1>12, <1>13, <1>15, <1>16, <1>17 DEF AllocInv
(* alloc_pages(n) keeps the invariant, on each of its three outcomes.      *)
LEMMA AllocPagesInv ==
  ASSUME AllocInv, NEW n \in 0 .. MaxRequest, AllocPages(n)
  PROVE  AllocInv'
<1>. DEFINE need == n * PageSize
            fits == {j \in cursor + 1 .. Len(ranges) : Avail(ranges[j]) >= need}
            i    == CHOOSE j \in fits : \A k \in fits : j <= k
<1>1. cursor \in 0 .. Len(ranges)
  BY DEF AllocInv, AllocTypeOK
<1>2. CASE n = 0 \/ ~up
  <2>1. /\ last' = [pages |-> n, ret |-> NoFrame]
        /\ UNCHANGED <<up, ranges, cursor, handed, pool>>
    BY <1>2 DEF AllocPages
  <2>. QED BY <1>1, <2>1, AllocNoneInv
<1>3. CASE ~(n = 0 \/ ~up) /\ fits = {}
  <2>1. /\ cursor' = Len(ranges)
        /\ last' = [pages |-> n, ret |-> NoFrame]
        /\ UNCHANGED <<up, ranges, handed, pool>>
    BY <1>3 DEF AllocPages
  <2>2. cursor' \in 0 .. Len(ranges)
    BY <1>1, <2>1
  <2>. QED BY <2>1, <2>2, AllocNoneInv
<1>4. CASE ~(n = 0 \/ ~up) /\ fits # {}
  <2>1. fits \subseteq Nat
    BY DEF AllocInv, AllocTypeOK
  <2>2. i \in fits
    BY <1>4, <2>1, FirstFit
  <2>3. /\ i \in 1 .. Len(ranges)
        /\ cursor < i
        /\ Avail(ranges[i]) >= need
        /\ n \in 1 .. MaxRequest
        /\ up
    BY <1>1, <1>4, <2>2
  <2>4. /\ ranges' = [ranges EXCEPT ![i].base = ranges[i].base + need]
        /\ cursor' = IF ranges[i].base + need >= ranges[i].end THEN i ELSE i - 1
        /\ handed' = handed \cup (ranges[i].base .. ranges[i].base + need - 1)
        /\ last' = [pages |-> n, ret |-> ranges[i].base]
        /\ UNCHANGED <<up, pool>>
    BY <1>4 DEF AllocPages
  <2>. QED BY <2>3, <2>4, AllocCarveInv
<1>. QED BY <1>2, <1>3, <1>4

(* Every step of the allocator, or a stutter, keeps the invariant.          *)
LEMMA AllocStep ==
  ASSUME AllocInv, [AllocNext]_allocVars
  PROVE  AllocInv'
<1>1. CASE InitDone
  BY <1>1, InitDoneInv
<1>2. CASE \E n \in 0 .. MaxRequest : AllocPages(n)
  BY <1>2, AllocPagesInv
<1>3. CASE UNCHANGED allocVars
  BY <1>3 DEF AllocInv, AllocTypeOK, AllocSafe, FreeBytes, allocVars
<1>. QED BY <1>1, <1>2, <1>3 DEF AllocNext

(* The allocator's state keeps its types under any sequence of            *)
(* pmm::init and alloc_pages calls.                                        *)
THEOREM AllocTypeCorrect == AllocSpec => []AllocTypeOK
<1>1. AllocInv => AllocTypeOK
  BY DEF AllocInv
<1>. QED BY <1>1, InitSound, AllocStep, PTL DEF AllocSpec

(* pmm.rs hands out frames safely for every page size, array capacity and *)
(* request bound: the ranges stay sorted, disjoint, page aligned and above *)
(* the low reserve; alloc_pages never returns a byte twice, never one      *)
(* outside what init stored, and always a page-aligned block.              *)
THEOREM AllocSafeInvariant == AllocSpec => []AllocSafe
<1>1. AllocInv => AllocSafe
  BY DEF AllocInv
<1>. QED BY <1>1, InitSound, AllocStep, PTL DEF AllocSpec

(***************************************************************************)
(* Refinement: the ranges implement the abstract free set of FrameAlloc.  *)
(***************************************************************************)

(* The page that holds a byte of a page-aligned range lies in the range.  *)
LEMMA PageOfByte ==
  ASSUME NEW b \in Nat, NEW e \in Nat, NEW x \in Nat,
         b % PageSize = 0, e % PageSize = 0, b <= x, x < e
  PROVE  /\ b <= x - (x % PageSize)
         /\ x - (x % PageSize) + 1 * PageSize - 1 <= e - 1
<1>1. PageSize \in Nat \ {0}
  OBVIOUS
<1>2. /\ b = (b \div PageSize) * PageSize
      /\ e = (e \div PageSize) * PageSize
      /\ x = (x \div PageSize) * PageSize + (x % PageSize)
      /\ x % PageSize \in 0 .. PageSize - 1
  BY <1>1, Z3
<1>3. b \div PageSize <= x \div PageSize
  BY <1>1, <1>2, Z3
<1>4. x \div PageSize < e \div PageSize
  BY <1>1, <1>2, Z3
<1>. QED BY <1>1, <1>2, <1>3, <1>4, Z3

(* Before init both the ranges and the abstract free set are empty.       *)
LEMMA InitRefines == AllocInit => FA!Init
BY DEF AllocInit, FA!Init, FreeBytes, NoCall, FA!NoFrame, NoFrame

(* pmm::init stocks the free set with whole pages above low memory: every *)
(* range of the table it stores is page aligned and above the reserve.    *)
LEMMA InitDoneRefines ==
  ASSUME AllocInv, InitDone
  PROVE  FA!Stock
<1>1. ranges' \in Seq(PmmRange) /\ InitRanges(ranges')
  BY DEF InitDone, InitRanges
<1>2. FreeBytes' \subseteq Nat
  <2>1. \A k \in 1 .. Len(ranges') : Bytes(ranges'[k]) \subseteq Nat
    BY <1>1, BytesBounds
  <2>. QED BY <2>1 DEF FreeBytes
<1>3. ASSUME NEW x \in FreeBytes'
      PROVE  /\ LowReserve <= x
             /\ FA!Block(x - (x % PageSize), 1) \subseteq FreeBytes'
  <2>1. PICK k \in 1 .. Len(ranges') : x \in Bytes(ranges'[k])
    BY DEF FreeBytes
  <2>2. ranges'[k] \in PmmRange
    BY <1>1
  <2>3. /\ ranges'[k].base % PageSize = 0
        /\ ranges'[k].end % PageSize = 0
        /\ LowReserve <= ranges'[k].base
    BY <1>1 DEF InitRanges
  <2>4. x \in Nat /\ ranges'[k].base <= x /\ x < ranges'[k].end
    BY <2>1, <2>2 DEF Bytes, PmmRange
  <2>5. FA!Block(x - (x % PageSize), 1) \subseteq Bytes(ranges'[k])
    <3>1. ranges'[k].base \in Nat /\ ranges'[k].end \in Nat
      BY <2>2 DEF PmmRange
    <3>2. /\ ranges'[k].base <= x - (x % PageSize)
          /\ x - (x % PageSize) + 1 * PageSize - 1 <= ranges'[k].end - 1
      BY <2>3, <2>4, <3>1, PageOfByte
    <3>3. x - (x % PageSize) \in Int
      BY <2>4
    <3>. QED BY <3>1, <3>2, <3>3 DEF FA!Block, Bytes
  <2>6. LowReserve <= x
    BY <2>2, <2>3, <2>4 DEF PmmRange
  <2>. QED BY <2>5, <2>6 DEF FreeBytes
<1>. QED BY <1>2, <1>3 DEF InitDone, FA!Stock, FA!WholePages

(* alloc_pages(n) is a Refuse(n) when it returns None, since the cursor   *)
(* is not part of the free set, and a Grant(n, p) when it carves at p.     *)
LEMMA AllocPagesRefines ==
  ASSUME AllocInv, NEW n \in 0 .. MaxRequest, AllocPages(n)
  PROVE  \/ FA!Refuse(n)
         \/ \E p \in FreeBytes : FA!Grant(n, p)
<1>. DEFINE need == n * PageSize
            fits == {j \in cursor + 1 .. Len(ranges) : Avail(ranges[j]) >= need}
            i    == CHOOSE j \in fits : \A k \in fits : j <= k
<1>1. CASE n = 0 \/ ~up \/ fits = {}
  <2>1. /\ last' = [pages |-> n, ret |-> NoFrame]
        /\ UNCHANGED <<up, ranges, handed>>
    BY <1>1 DEF AllocPages
  <2>. QED BY <2>1 DEF FA!Refuse, FA!NoFrame, NoFrame, FreeBytes
<1>2. CASE ~(n = 0 \/ ~up \/ fits = {})
  <2>1. fits \subseteq Nat
    BY DEF AllocInv, AllocTypeOK
  <2>2. i \in fits
    BY <1>2, <2>1, FirstFit
  <2>9. cursor \in 0 .. Len(ranges)
    BY DEF AllocInv, AllocTypeOK
  <2>3. /\ i \in 1 .. Len(ranges)
        /\ cursor < i
        /\ Avail(ranges[i]) >= need
        /\ n \in 1 .. MaxRequest
        /\ up
    BY <1>2, <2>2, <2>9
  <2>4. /\ ranges' = [ranges EXCEPT ![i].base = ranges[i].base + need]
        /\ cursor' = IF ranges[i].base + need >= ranges[i].end THEN i ELSE i - 1
        /\ handed' = handed \cup (ranges[i].base .. ranges[i].base + need - 1)
        /\ last' = [pages |-> n, ret |-> ranges[i].base]
        /\ UNCHANGED <<up, pool>>
    BY <1>2 DEF AllocPages
  <2>. DEFINE p == ranges[i].base
  <2>5. /\ FA!Block(p, n) \subseteq FreeBytes
        /\ FreeBytes' = FreeBytes \ FA!Block(p, n)
    BY <2>3, <2>4, AllocCarveInv DEF FA!Block
  <2>6. p \in Nat /\ p % PageSize = 0
    <3>1. ranges[i] \in PmmRange
      BY <2>3 DEF AllocInv, AllocTypeOK
    <3>2. p % PageSize = 0
      BY <2>3 DEF AllocInv, AllocSafe
    <3>. QED BY <3>1, <3>2 DEF PmmRange
  <2>7. p \in FA!Block(p, n)
    BY <2>3, <2>6 DEF FA!Block
  <2>10. handed' = handed \cup FA!Block(p, n)
    BY <2>4 DEF FA!Block
  <2>11. n > 0 /\ up /\ up' = up /\ last' = [pages |-> n, ret |-> p]
    BY <2>3, <2>4
  <2>8. FA!Grant(n, p)
    BY <2>5, <2>6, <2>10, <2>11, Zenon DEF FA!Grant
  <2>. QED BY <2>5, <2>7, <2>8
<1>. QED BY <1>1, <1>2

(* pmm.rs implements the abstract frame allocator for every page size,     *)
(* array capacity, low reserve and request bound: viewed through its free *)
(* bytes, pmm::init only stocks whole pages above low memory and each      *)
(* alloc_pages call either refuses or removes exactly the aligned block it *)
(* returns, so no free byte is lost, kept after being handed out, or       *)
(* handed out from outside the free set.                                  *)
THEOREM AllocRefinesFrameAlloc == AllocSpec => AllocImplementsFrameAlloc
<1>1. AllocInv /\ [AllocNext]_allocVars => [FA!Next]_FA!faVars
  <2>. SUFFICES ASSUME AllocInv, [AllocNext]_allocVars
                PROVE  [FA!Next]_FA!faVars
    OBVIOUS
  <2>1. CASE InitDone
    BY <2>1, InitDoneRefines DEF FA!Next
  <2>2. CASE \E n \in 0 .. MaxRequest : AllocPages(n)
    BY <2>2, AllocPagesRefines DEF FA!Next
  <2>3. CASE UNCHANGED allocVars
    BY <2>3 DEF allocVars, FA!faVars, FreeBytes
  <2>. QED BY <2>1, <2>2, <2>3 DEF AllocNext
<1>. QED BY <1>1, InitRefines, InitSound, AllocStep, PTL
       DEF AllocSpec, AllocImplementsFrameAlloc, FA!Spec
====
