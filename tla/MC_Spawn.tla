------------------------------ MODULE MC_Spawn ------------------------------
(***************************************************************************)
(* Spawn on one-byte pages, from every table of one or two ranges within   *)
(* bytes 0 .. 9 (1 to 10 frames, in one piece or two).  With three slots and two frames per     *)
(* build, the first process and two children take six: smaller tables run *)
(* dry while a slot is still free, larger ones only after refused spawns, *)
(* and with room for four kernel stacks the heap may fill first.          *)
(***************************************************************************)
EXTENDS Spawn

MCRange == {r \in [base : 0 .. 10, end : 0 .. 10] : r.base < r.end}

MCInitTables ==
  {<< r >> : r \in MCRange} \cup
  {t \in {<< r, s >> : r, s \in MCRange} : t[1].end <= t[2].base}
=============================================================================
