------------------------------ MODULE PmmAlloc ------------------------------
(***************************************************************************)
(* The frame allocator of src/kernel/src/pmm.rs once init has run: the     *)
(* PMM is None, or an array of [base, end) byte ranges (slots 0 .. len-1)  *)
(* and a cursor.  alloc_pages(n) scans from the cursor for the first range *)
(* with n free pages, carves them from its low end, and moves the cursor   *)
(* past every range it skipped or exhausted.  Nothing is ever freed.       *)
(*                                                                         *)
(* The array prefix ranges[0 .. len-1] is the sequence ranges (slot i is   *)
(* ranges[i+1]); slots past len are never read.  Addresses are naturals:   *)
(* the saturating u64 arithmetic of the code never saturates at the sizes  *)
(* modelled.  Two history variables record what the properties talk       *)
(* about: handed, the bytes of every block returned, and pool, the bytes   *)
(* the ranges covered when init returned.                                  *)
(***************************************************************************)
EXTENDS Integers, Sequences, FiniteSets

CONSTANTS
  PageSize,    \* PAGE_SIZE (4096 in the code)
  MaxRanges,   \* MAX_RANGES: capacity of the range array (128)
  LowReserve,  \* the hard-reserved low memory [0, 0x10_0000)
  MaxRequest   \* the largest page count a caller asks for (4096, heap)

ASSUME PmmAllocAssumption ==
  /\ PageSize \in Nat \ {0}
  /\ MaxRanges \in Nat \ {0}
  /\ LowReserve \in Nat
  /\ MaxRequest \in Nat \ {0}

(* Option::None of alloc_pages, kept apart from every address.            *)
NoFrame == -1

(* struct Range { base, end }.                                            *)
PmmRange == [base : Nat, end : Nat]

VARIABLES
  up,      \* PMM is Some(..): pmm::init returned Ok
  ranges,  \* Pmm.ranges[0 .. len - 1]
  cursor,  \* Pmm.cursor
  handed,  \* history: the bytes of every block alloc_pages returned
  pool,    \* history: the bytes the ranges covered when init returned
  last     \* the latest alloc_pages call: its page count and its result

allocVars == <<up, ranges, cursor, handed, pool, last>>

(* The bytes of a range; empty once base >= end.                          *)
Bytes(r) == r.base .. r.end - 1

FreeBytes == UNION {Bytes(ranges[i]) : i \in 1 .. Len(ranges)}

(* r.end.saturating_sub(r.base).                                          *)
Avail(r) == IF r.end > r.base THEN r.end - r.base ELSE 0

(* Bug variant: a carve that returns the block but leaves base in place.  *)
AllocPagesNoCarve(pages) ==
  LET need == pages * PageSize
      fits == {i \in cursor + 1 .. Len(ranges) : Avail(ranges[i]) >= need}
      i    == CHOOSE i \in fits : \A j \in fits : i <= j
  IN  IF pages = 0 \/ ~up \/ fits = {}
        THEN /\ last' = [pages |-> pages, ret |-> NoFrame]
             /\ UNCHANGED <<up, ranges, cursor, handed, pool>>
        ELSE /\ handed' = handed \cup (ranges[i].base .. ranges[i].base + need - 1)
             /\ last' = [pages |-> pages, ret |-> ranges[i].base]
             /\ UNCHANGED <<up, ranges, cursor, pool>>

(* Bug variant: a carve that also drops the rest of the slot when it is  *)
(* too small for another request of the same size.                        *)
AllocPagesWasteTail(pages) ==
  LET need == pages * PageSize
      fits == {i \in cursor + 1 .. Len(ranges) : Avail(ranges[i]) >= need}
      i    == CHOOSE i \in fits : \A j \in fits : i <= j
      p    == ranges[i].base
      nb   == IF ranges[i].end - (p + need) < need THEN ranges[i].end ELSE p + need
  IN  IF pages = 0 \/ ~up \/ fits = {}
        THEN /\ last' = [pages |-> pages, ret |-> NoFrame]
             /\ cursor' = IF pages = 0 \/ ~up THEN cursor ELSE Len(ranges)
             /\ UNCHANGED <<up, ranges, handed, pool>>
        ELSE /\ ranges' = [ranges EXCEPT ![i].base = nb]
             /\ cursor' = IF nb >= ranges[i].end THEN i ELSE i - 1
             /\ handed' = handed \cup (p .. p + need - 1)
             /\ last' = [pages |-> pages, ret |-> p]
             /\ UNCHANGED <<up, pool>>

(***************************************************************************)
(* alloc_pages(pages).  0 pages, or no PMM: None.  Otherwise the loop      *)
(* passes over every slot from the cursor whose range is empty (base >=    *)
(* end) or holds fewer than need bytes, advancing the cursor past each;    *)
(* at the first one that fits it returns base, advances base by need, and  *)
(* moves the cursor past the slot only if that exhausted it.  When no slot *)
(* fits, the loop has run the cursor to len.  An empty slot never fits     *)
(* (need >= PAGE_SIZE > 0), so "first slot that fits" is the loop's stop.  *)
(***************************************************************************)
AllocPages(pages) ==
  LET need == pages * PageSize
      fits == {i \in cursor + 1 .. Len(ranges) : Avail(ranges[i]) >= need}
      i    == CHOOSE i \in fits : \A j \in fits : i <= j
      p    == ranges[i].base
  IN  IF pages = 0 \/ ~up
        THEN /\ last' = [pages |-> pages, ret |-> NoFrame]
             /\ UNCHANGED <<up, ranges, cursor, handed, pool>>
      ELSE IF fits = {}
        THEN /\ cursor' = Len(ranges)
             /\ last' = [pages |-> pages, ret |-> NoFrame]
             /\ UNCHANGED <<up, ranges, handed, pool>>
      ELSE /\ ranges' = [ranges EXCEPT ![i].base = p + need]
             \* slot i - 1 of the array; past it when exhausted
           /\ cursor' = IF p + need >= ranges[i].end THEN i ELSE i - 1
           /\ handed' = handed \cup (p .. p + need - 1)
           /\ last' = [pages |-> pages, ret |-> p]
           /\ UNCHANGED <<up, pool>>

(***************************************************************************)
(* What pmm::init guarantees of the array it stores (PMM state invariant  *)
(* of the design): at most MAX_RANGES ranges, each non-empty and page      *)
(* aligned at both ends, above the reserved low memory, sorted by base and *)
(* pairwise disjoint.                                                      *)
(***************************************************************************)
InitRanges(s) ==
  /\ s \in Seq(PmmRange)
  /\ Len(s) <= MaxRanges
  /\ \A i \in 1 .. Len(s) :
       /\ s[i].base < s[i].end
       /\ s[i].base % PageSize = 0
       /\ s[i].end % PageSize = 0
       /\ LowReserve <= s[i].base
  /\ \A i, j \in 1 .. Len(s) : i < j => s[i].end <= s[j].base

(* No call has been made yet.                                              *)
NoCall == [pages |-> 0, ret |-> NoFrame]

(***************************************************************************)
(* The allocator as a component: PMM None until init stores a table that   *)
(* satisfies InitRanges with the cursor at 0; then any sequence of         *)
(* alloc_pages calls of at most MaxRequest pages.                          *)
(***************************************************************************)
AllocInit ==
  /\ up = FALSE
  /\ ranges = << >>
  /\ cursor = 0
  /\ handed = {}
  /\ pool = {}
  /\ last = NoCall

InitDone ==
  /\ ~up
  /\ up' = TRUE
  /\ InitRanges(ranges')
  /\ cursor' = 0
  /\ pool' = UNION {Bytes(ranges'[i]) : i \in 1 .. Len(ranges')}
  /\ UNCHANGED <<handed, last>>

AllocNext ==
  \/ InitDone
  \/ \E n \in 0 .. MaxRequest : AllocPages(n)

AllocSpec == AllocInit /\ [][AllocNext]_allocVars

AllocTypeOK ==
  /\ up \in BOOLEAN
  /\ ranges \in Seq(PmmRange)
  /\ cursor \in 0 .. Len(ranges)
  /\ handed \subseteq Nat
  /\ pool \subseteq Nat
  /\ last \in [pages : 0 .. MaxRequest, ret : Nat \cup {NoFrame}]

(***************************************************************************)
(* Frames are handed out safely, whatever the sequence of calls: the range *)
(* array stays sorted, disjoint and page aligned above low memory (bases   *)
(* only advance, by whole pages, never past end); no byte is both handed   *)
(* out and still in a range, so no block is returned twice or overlaps     *)
(* another; every handed byte comes from the pool init computed; and the   *)
(* latest block returned is page aligned.                                  *)
(***************************************************************************)
AllocSafe ==
  /\ \A i \in 1 .. Len(ranges) :
       /\ ranges[i].base <= ranges[i].end
       /\ ranges[i].base % PageSize = 0
       /\ ranges[i].end % PageSize = 0
       /\ LowReserve <= ranges[i].base
  /\ \A i, j \in 1 .. Len(ranges) : i < j => ranges[i].end <= ranges[j].base
  /\ handed \cap FreeBytes = {}
  /\ handed \cup FreeBytes \subseteq pool
  /\ last.ret # NoFrame => last.ret % PageSize = 0

(***************************************************************************)
(* The allocator implements the abstract frame allocator of FrameAlloc,    *)
(* with the free set the bytes of the ranges: init stocks it with whole   *)
(* pages above low memory, and each alloc_pages call either returns None  *)
(* and loses no free byte, or returns an aligned block of free pages and   *)
(* removes exactly that block from the free set.  A carve that skipped or *)
(* dropped bytes, or returned bytes still in a range, would break it.     *)
(***************************************************************************)
FA == INSTANCE FrameAlloc WITH ready <- up, free <- FreeBytes

AllocImplementsFrameAlloc == FA!Spec

(***************************************************************************)
(* The design's failure rule for alloc_pages: it returns None only when no *)
(* range can satisfy the request.  The code's cursor never moves back, so  *)
(* a range passed over because it was too small for an earlier, larger    *)
(* request is never offered again, and a range the failing scan ran past   *)
(* is lost for good.                                                       *)
(***************************************************************************)
AllocFailsOnlyWhenExhausted ==
  (up /\ last.pages > 0 /\ last.ret = NoFrame) =>
    \A i \in 1 .. Len(ranges) : Avail(ranges[i]) < last.pages * PageSize
=============================================================================
