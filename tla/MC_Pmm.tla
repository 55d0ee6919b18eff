------------------------------- MODULE MC_Pmm -------------------------------
(* A small instance of Pmm for TLC: pages of 2 bytes, low memory one page, *)
(* memory maps of up to three regions over addresses below 17.            *)
EXTENDS Pmm

(* Every memory map of one to three regions with a base in 0 .. 5 or 8    *)
(* and a length in {0, 1, 3, 8}: odd bases and lengths exercise the       *)
(* rounding, overlapping and nested regions every branch of               *)
(* subtract_reserved; base 8 puts a reserved page inside the 3-page range *)
(* [6, 12) while the array is full, the split's capacity failure.          *)
MCRegionLists ==
  LET R == [base : (0 .. 5) \cup {8}, len : {0, 1, 3, 8},
            kind : {Usable, Reserved}]
  IN  UNION {[1 .. n -> R] : n \in 1 .. 3}

(* A fragmented map: ranges [2, 4), [6, 8) and [10, 16).  The smoke frames *)
(* and a page table leave one page, [14, 16); the heap's two-page request  *)
(* fails there and runs the cursor past it, so the one-page retry fails    *)
(* with that page free.                                                    *)
MCFragmented ==
  {<< [base |-> 2, len |-> 2, kind |-> Usable],
      [base |-> 6, len |-> 2, kind |-> Usable],
      [base |-> 10, len |-> 6, kind |-> Usable] >>}
=============================================================================
