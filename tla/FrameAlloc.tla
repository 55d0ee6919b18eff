----------------------------- MODULE FrameAlloc -----------------------------
(***************************************************************************)
(* What the physical memory manager promises its callers (pmm.rs, spec    *)
(* section 4.1), with no ranges and no cursor: a set of free bytes that    *)
(* init stocks once with whole pages above low memory, and alloc_pages(n)  *)
(* that either returns None or hands out n contiguous free pages starting  *)
(* at a page boundary and removes exactly them from the free set.  Nothing *)
(* is ever freed.                                                          *)
(*                                                                         *)
(* When a call may fail is left open: the design's rule for it is the     *)
(* subject of AllocFailsOnlyWhenExhausted, which the code does not meet.  *)
(***************************************************************************)
EXTENDS Integers

CONSTANTS PageSize, LowReserve, MaxRequest

VARIABLES
  ready,   \* PMM is Some(..)
  free,    \* the bytes still free
  handed,  \* the bytes handed out so far
  last     \* the latest call: its page count and its result

faVars == <<ready, free, handed, last>>

NoFrame == -1

(* The pages starting at p, n of them, as bytes.                           *)
Block(p, n) == p .. p + n * PageSize - 1

(* A set of bytes made of whole pages, all above low memory.               *)
WholePages(F) ==
  /\ F \subseteq Nat
  /\ \A x \in F : /\ LowReserve <= x
                  /\ Block(x - (x % PageSize), 1) \subseteq F

Init ==
  /\ ready = FALSE
  /\ free = {}
  /\ handed = {}
  /\ last = [pages |-> 0, ret |-> NoFrame]

(* init succeeds once and stocks the free set.                             *)
Stock ==
  /\ ~ready
  /\ ready' = TRUE
  /\ WholePages(free')
  /\ UNCHANGED <<handed, last>>

(* A call that hands out n pages at p.                                     *)
Grant(n, p) ==
  /\ ready
  /\ n > 0
  /\ p % PageSize = 0
  /\ Block(p, n) \subseteq free
  /\ free' = free \ Block(p, n)
  /\ handed' = handed \cup Block(p, n)
  /\ last' = [pages |-> n, ret |-> p]
  /\ UNCHANGED ready

(* A call that returns None and changes nothing else.                      *)
Refuse(n) ==
  /\ last' = [pages |-> n, ret |-> NoFrame]
  /\ UNCHANGED <<ready, free, handed>>

Next ==
  \/ Stock
  \/ \E n \in 0 .. MaxRequest :
       \/ Refuse(n)
       \/ \E p \in free : Grant(n, p)

Spec == Init /\ [][Next]_faVars
=============================================================================
