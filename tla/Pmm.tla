-------------------------------- MODULE Pmm ---------------------------------
(***************************************************************************)
(* pmm::init (src/kernel/src/pmm.rs) and the boot sequence of kernel_main  *)
(* (src/kernel/src/main.rs) that uses the allocator: init from the         *)
(* firmware's memory map, the three alloc_frame smoke tests, the page      *)
(* tables of init_paging, heap::init's backing-off request, the kmap smoke *)
(* test, and the frames of user address spaces from then on.  Every       *)
(* allocation is an AllocPages step of PmmAlloc.                           *)
(*                                                                         *)
(* A memory region's kind matters to init only as Usable or not (every    *)
(* other RegionKind is subtracted alike).  The loops of init are written   *)
(* as recursive operators that follow the code's loops, branch for branch. *)
(***************************************************************************)
EXTENDS PmmAlloc, SequencesExt

CONSTANTS
  Usable,        \* RegionKind::Usable
  Reserved,      \* any other RegionKind (Reserved, Kernel, Boot, Mmio, ...)
  RegionLists,   \* the memory maps the firmware may hand over
  SmokeFrames,   \* alloc_frame calls of kernel_main's smoke test (3)
  MaxTables,     \* most page tables init_paging allocates
  HeapMaxPages,  \* heap::init's first request (4096 pages)
  HeapMinPages   \* heap::init gives up below this (128 pages)

ASSUME PmmAssumption ==
  /\ Usable # Reserved
  /\ SmokeFrames \in Nat \ {0}
  /\ MaxTables \in Nat \ {0}
  /\ HeapMinPages \in Nat \ {0}
  /\ HeapMaxPages \in HeapMinPages .. MaxRequest

VARIABLES
  regions,    \* BootInfo's MemoryRegion slice (read-only)
  phase,      \* where kernel_main is
  left,       \* allocations left in the smoke-test, paging and kmap phases
  heapPages,  \* heap::init's current request
  heapUp      \* HEAP.ready

vars == <<allocVars, regions, phase, left, heapPages, heapUp>>

Region == [base : Nat, len : Nat, kind : {Usable, Reserved}]

(* align_up / align_down for a power-of-two PAGE_SIZE.                     *)
AlignUp(x)   == ((x + PageSize - 1) \div PageSize) * PageSize
AlignDown(x) == (x \div PageSize) * PageSize

(* overlaps(a0, a1, b0, b1) of [a0, a1) and [b0, b1).                      *)
Overlaps(a0, a1, b0, b1) == a0 < b1 /\ b0 < a1

(***************************************************************************)
(* sort_by_base: insertion sort; the key s[i] moves down past every        *)
(* element of the sorted prefix with a larger base.                        *)
(***************************************************************************)
InsertByBase(acc, key) ==
  LET RECURSIVE Stop(_)
      Stop(j) == IF j > 0 /\ acc[j].base > key.base THEN Stop(j - 1) ELSE j
  IN  InsertAt(acc, Stop(Len(acc)) + 1, key)

(* Bug variant: init without the sort.                                    *)
NoSort(s) == s

SortByBase(s) == FoldLeft(InsertByBase, << >>, s)

(***************************************************************************)
(* merge_adjacent: each range either extends the range built so far (its   *)
(* base is at most that range's end) or starts a new one.                  *)
(***************************************************************************)
MergeInto(out, r) ==
  IF out # << >> /\ r.base <= Last(out).end
    THEN [out EXCEPT ![Len(out)].end = IF r.end > @ THEN r.end ELSE @]
    ELSE Append(out, r)

MergeAdjacent(s) == FoldLeft(MergeInto, << >>, s)

(***************************************************************************)
(* subtract_reserved(ranges, len, rb, re): <<ok, ranges>>.  The loop at    *)
(* index i: skip a range that does not overlap; remove a covered one (i    *)
(* stays); cut the start or the end; or split a range around the reserved *)
(* block, failing when the array is full, and step over both halves.       *)
(***************************************************************************)
RECURSIVE SubtractFrom(_, _, _, _)
SubtractFrom(s, i, rb, re) ==
  IF i > Len(s) THEN <<TRUE, s>>
  ELSE LET r == s[i] IN
    IF ~Overlaps(r.base, r.end, rb, re) THEN SubtractFrom(s, i + 1, rb, re)
    ELSE IF rb <= r.base /\ re >= r.end THEN SubtractFrom(RemoveAt(s, i), i, rb, re)
    ELSE IF rb <= r.base /\ re < r.end
      THEN SubtractFrom([s EXCEPT ![i].base = re], i + 1, rb, re)
    ELSE IF rb > r.base /\ re >= r.end
      THEN SubtractFrom([s EXCEPT ![i].end = rb], i + 1, rb, re)
    ELSE IF Len(s) >= MaxRanges THEN <<FALSE, s>>
    ELSE SubtractFrom(InsertAt([s EXCEPT ![i] = [base |-> r.base, end |-> rb]],
                               i + 1, [base |-> re, end |-> r.end]),
                      i + 2, rb, re)

SubtractReserved(s, rb, re) == SubtractFrom(s, 1, rb, re)

(***************************************************************************)
(* The first loop of init: the page-aligned interior of every Usable       *)
(* region that has one, in map order; Err once the array is full.          *)
(***************************************************************************)
CollectUsable(rs) ==
  LET step(acc, r) ==
        LET b == AlignUp(r.base)
            e == AlignDown(r.base + r.len)
        IN  IF ~acc[1] \/ r.kind # Usable \/ e <= b THEN acc
            ELSE IF Len(acc[2]) >= MaxRanges THEN <<FALSE, acc[2]>>
            ELSE <<TRUE, Append(acc[2], [base |-> b, end |-> e])>>
  IN  FoldLeft(step, <<TRUE, << >>>>, rs)

(* The second loop: subtract every non-empty non-Usable region, widened   *)
(* to whole pages, stopping at the first failure.                          *)
SubtractAll(s, rs) ==
  LET step(acc, r) ==
        LET rb == AlignDown(r.base)
            re == AlignUp(r.base + r.len)
        IN  IF ~acc[1] \/ r.kind = Usable \/ r.len = 0 \/ re <= rb THEN acc
            ELSE SubtractReserved(acc[2], rb, re)
  IN  FoldLeft(step, <<TRUE, s>>, rs)

(* Bug variant: init without the hard reservation of low memory.          *)
PmmInitResultNoLow(rs) ==
  LET c  == CollectUsable(rs)
      m  == MergeAdjacent(SortByBase(c[2]))
      sr == SubtractAll(m, rs)
      d  == SelectSeq(sr[2], LAMBDA r : r.end > r.base)
  IN  IF ~c[1] \/ c[2] = << >> \/ ~sr[1] \/ d = << >>
        THEN <<FALSE, << >>>>
        ELSE <<TRUE, d>>

(***************************************************************************)
(* pmm::init(regions): <<ok, ranges>> of the table it stores.  Collect,    *)
(* fail on none, sort, merge, subtract the reserved regions and then       *)
(* [0, 1 MiB), drop empty ranges, fail on none.                            *)
(***************************************************************************)
PmmInitResult(rs) ==
  LET c  == CollectUsable(rs)
      m  == MergeAdjacent(SortByBase(c[2]))
      sr == SubtractAll(m, rs)
      lr == SubtractReserved(sr[2], 0, LowReserve)
      d  == SelectSeq(lr[2], LAMBDA r : r.end > r.base)
  IN  IF ~c[1] \/ c[2] = << >> \/ ~sr[1] \/ ~lr[1] \/ d = << >>
        THEN <<FALSE, << >>>>
        ELSE <<TRUE, d>>

(***************************************************************************)
(* The reference: the bytes init should leave free, from the design's      *)
(* description alone: the page-aligned interiors of Usable regions, less   *)
(* every page a non-empty non-Usable region touches, less low memory.     *)
(***************************************************************************)
RefFree(rs) ==
  LET R     == {rs[k] : k \in 1 .. Len(rs)}
      use   == UNION {AlignUp(r.base) .. AlignDown(r.base + r.len) - 1 :
                        r \in {x \in R : x.kind = Usable}}
      taken == UNION {AlignDown(r.base) .. AlignUp(r.base + r.len) - 1 :
                        r \in {x \in R : x.kind # Usable /\ x.len > 0}}
  IN  (use \ taken) \ (0 .. LowReserve - 1)

(* "kmaptables": inside kmap_map_4k; "halted": the hlt loop after "PMM    *)
(* init failed"; "panic": the panic handler's hlt loop; "oom":             *)
(* alloc_error_handler's cli; hlt loop.                                    *)
Phases ==
  {"pmm", "smoke", "paging", "heap", "kmap", "kmaptables", "user",
   "halted", "panic", "oom"}

(* The tables kmap_map_4k allocates on its first call: the PDPT under      *)
(* PML4[510], a PD and a PT, none of them present yet.                     *)
KmapTables == 3

Init ==
  /\ AllocInit
  /\ regions \in RegionLists
  /\ phase = "pmm"
  /\ left = 0
  /\ heapPages = HeapMaxPages
  /\ heapUp = FALSE

(***************************************************************************)
(* kernel_main: match pmm::init(regions).  Ok: the PMM holds the table,    *)
(* cursor 0, and the smoke test's three alloc_frame calls come next.  Err: *)
(* "PMM init failed"; paging, heap and user are skipped and the kernel     *)
(* ends in its hlt loop.                                                   *)
(***************************************************************************)
PmmInit ==
  LET res == PmmInitResult(regions) IN
  /\ phase = "pmm"
  /\ IF res[1]
       THEN /\ up' = TRUE
            /\ ranges' = res[2]
            /\ cursor' = 0
            /\ pool' = UNION {Bytes(res[2][i]) : i \in 1 .. Len(res[2])}
            /\ phase' = "smoke"
            /\ left' = SmokeFrames
       ELSE /\ phase' = "halted"
            /\ UNCHANGED <<up, ranges, cursor, pool, left>>
  /\ UNCHANGED <<handed, last, regions, heapPages, heapUp>>

(* main.rs: for n in 0..3, alloc_frame(), a failure only logged; then      *)
(* init_paging allocates its tables.                                       *)
SmokeAlloc ==
  /\ phase = "smoke"
  /\ AllocPages(1)
  /\ IF left = 1
       THEN /\ phase' = "paging"
            /\ left' \in 1 .. MaxTables
       ELSE /\ left' = left - 1
            /\ UNCHANGED phase
  /\ UNCHANGED <<regions, heapPages, heapUp>>

(* paging::alloc_table: alloc_pages(1).expect(..): None panics.            *)
TableAlloc ==
  /\ phase = "paging"
  /\ AllocPages(1)
  /\ phase' = IF last'.ret = NoFrame THEN "panic"
              ELSE IF left = 1 THEN "heap" ELSE phase
  /\ left' = left - 1
  /\ UNCHANGED <<regions, heapPages, heapUp>>

(* Bug variant: a back-off loop without its lower bound.                   *)
HeapTryNoFloor ==
  /\ phase = "heap"
  /\ AllocPages(heapPages)
  /\ IF last'.ret # NoFrame
       THEN /\ heapUp' = TRUE
            /\ phase' = "kmap"
            /\ UNCHANGED heapPages
       ELSE /\ heapPages' = heapPages \div 2
            /\ UNCHANGED <<phase, heapUp>>
  /\ UNCHANGED <<regions, left>>

(***************************************************************************)
(* heap::init: while pages >= 128, try alloc_pages(pages), else halve it.  *)
(* Success readies the heap; running out of sizes leaves it disabled.     *)
(* Then kmap_smoke_test.                                                   *)
(***************************************************************************)
HeapTry ==
  /\ phase = "heap"
  /\ AllocPages(heapPages)
  /\ IF last'.ret # NoFrame
       THEN /\ heapUp' = TRUE
            /\ phase' = "kmap"
            /\ UNCHANGED heapPages
       ELSE IF heapPages \div 2 >= HeapMinPages
         THEN /\ heapPages' = heapPages \div 2
              /\ UNCHANGED <<phase, heapUp>>
         ELSE /\ phase' = "kmap"
              /\ UNCHANGED <<heapPages, heapUp>>
  /\ UNCHANGED <<regions, left>>

(* After kmap_smoke_test, the heap smoke test of kernel_main pushes to a  *)
(* Vec: with the heap disabled KernelAlloc::alloc returns null and        *)
(* alloc_error_handler halts ("OOM"); otherwise enter_first_user.          *)
AfterKmap == IF heapUp THEN "user" ELSE "oom"

(***************************************************************************)
(* kmap_smoke_test: alloc_frame(); a failure is only logged and the test   *)
(* returns.  A frame is mapped by kmap_map_4k, whose get_or_alloc_table    *)
(* calls allocate the KmapTables tables the KMAP region still lacks.       *)
(***************************************************************************)
KmapSmoke ==
  /\ phase = "kmap"
  /\ AllocPages(1)
  /\ IF last'.ret = NoFrame
       THEN /\ phase' = AfterKmap
            /\ UNCHANGED left
       ELSE /\ phase' = "kmaptables"
            /\ left' = KmapTables
  /\ UNCHANGED <<regions, heapPages, heapUp>>

(* kmap_map_4k's get_or_alloc_table -> paging::alloc_table:               *)
(* alloc_pages(1).expect(..): None panics.                                 *)
KmapTable ==
  /\ phase = "kmaptables"
  /\ AllocPages(1)
  /\ phase' = IF last'.ret = NoFrame THEN "panic"
              ELSE IF left = 1 THEN AfterKmap ELSE phase
  /\ left' = left - 1
  /\ UNCHANGED <<regions, heapPages, heapUp>>

(***************************************************************************)
(* From enter_first_user on, build_proc_from_init (first process and every *)
(* PROC_SPAWN) takes frames with alloc_frame().expect(..) / alloc_table:  *)
(* None panics.                                                            *)
(***************************************************************************)
UserAlloc ==
  /\ phase = "user"
  /\ AllocPages(1)
  /\ phase' = IF last'.ret = NoFrame THEN "panic" ELSE phase
  /\ UNCHANGED <<regions, left, heapPages, heapUp>>

Next ==
  \/ PmmInit
  \/ SmokeAlloc
  \/ TableAlloc
  \/ HeapTry
  \/ KmapSmoke
  \/ KmapTable
  \/ UserAlloc

Spec == Init /\ [][Next]_vars

-----------------------------------------------------------------------------
PmmTypeOK ==
  /\ AllocTypeOK
  /\ regions \in Seq(Region)
  /\ phase \in Phases
  /\ left \in 0 .. SmokeFrames + MaxTables + KmapTables
  /\ heapPages \in HeapMinPages .. HeapMaxPages
  /\ heapUp \in BOOLEAN

(***************************************************************************)
(* pmm::init is exact: when it succeeds, the bytes of the table it stores  *)
(* are exactly the page-aligned Usable memory less every page a reserved   *)
(* region touches and less low memory.                                     *)
(* This relies on sort_by_base running before merge_adjacent (merging an  *)
(* unsorted array drops ranges), on each branch of subtract_reserved, and  *)
(* on the rounding of both kinds of region.                                *)
(***************************************************************************)
InitExact == up => pool = RefFree(regions)

(***************************************************************************)
(* The boot sequence implements the allocator component AllocSpec: init   *)
(* stores a table satisfying the PMM state invariant (sorted, disjoint,    *)
(* page-aligned, non-empty ranges above low memory, at most MAX_RANGES)    *)
(* with the cursor at 0, and every later step is an alloc_pages call or    *)
(* leaves the allocator alone.  So what is proved of AllocSpec holds of    *)
(* the kernel's allocator.                                                 *)
(***************************************************************************)
AllocRefined == AllocSpec
=============================================================================
