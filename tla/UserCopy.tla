------------------------------ MODULE UserCopy ------------------------------
(***************************************************************************)
(* How the kernel touches user memory (src/kernel/src/arch/x86_64/isr.rs): *)
(* virt_to_phys_in / user_virt_to_phys walk the user's page tables for one *)
(* virtual address; user_copy_out, user_copy_out_in and user_copy_in loop  *)
(* over a buffer one byte at a time, translating every byte and stopping   *)
(* with None at the first that does not translate; the WRITE system call  *)
(* echoes bytes to the serial port until its first untranslatable byte.   *)
(*                                                                         *)
(* The four-level walk is abstracted to its result per virtual page: the   *)
(* frame of a leaf reached with P and U set at every level, or NoMap.      *)
(* Those tables are built by build_proc_from_init, which maps every user   *)
(* page to a frame of its own, so the translation is injective; frames    *)
(* outside its range are the kernel's (the HHDM is mapped without U).     *)
(* The walk reads bits 12..47 of an address only, and wrapping_add wraps   *)
(* at 2^64, a multiple of 2^48: so addresses are taken modulo VSize, which *)
(* stands for 2^48.                                                         *)
(***************************************************************************)
EXTENDS Integers, Sequences

CONSTANTS
  PageBytes,  \* bytes per page (4096)
  VPages,     \* virtual pages the walk tells apart (2^36)
  Frames,     \* physical frames
  Bytes,      \* values of a byte
  MaxLen,     \* longest buffer length a call passes
  WriteMax    \* WRITE's cap on its length (1024)

ASSUME UserCopyAssumption ==
  /\ PageBytes \in Nat \ {0}
  /\ VPages \in Nat \ {0}
  /\ Frames \in Nat \ {0}
  /\ Bytes # {}
  /\ MaxLen \in Nat
  /\ WriteMax \in Nat

VARIABLES
  trans,   \* the user page tables: virtual page -> frame, or NoMap
  mem,     \* physical memory: byte address -> byte
  serial,  \* the bytes the latest WRITE sent to the serial port
  rax,     \* the result of the latest call
  op       \* the latest call: its routine, user_ptr and length

vars == <<trans, mem, serial, rax, op>>

NoMap == -1
ErrMax == -1   \* None, returned to the user as u64::MAX

VSize == VPages * PageBytes
VAddrs == 0 .. VSize - 1
PAddrs == 0 .. Frames * PageBytes - 1

(* user_ptr.wrapping_add(i).                                               *)
VAddr(ptr, i) == (ptr + i) % VSize

(* virt_to_phys_in: the leaf's frame plus the offset, when every level has *)
(* P and U; None otherwise.                                                *)
Translates(v) == trans[v \div PageBytes] # NoMap
Phys(v) == trans[v \div PageBytes] * PageBytes + (v % PageBytes)

Init ==
  /\ trans \in {t \in [0 .. VPages - 1 -> (0 .. Frames - 1) \cup {NoMap}] :
                  \A p, q \in 0 .. VPages - 1 :
                     p # q /\ t[p] # NoMap => t[p] # t[q]}
  /\ mem \in [PAddrs -> Bytes]
  /\ serial = << >>
  /\ rax = 0
  /\ op = [kind |-> "none", ptr |-> 0, len |-> 0]

(* Bug variant: a loop that also requires the next byte's page to map     *)
(* before it takes a byte, so it stops one byte short of a hole.           *)
FirstFaultLookAhead(ptr, len) ==
  LET stop[i \in 0 .. len] ==
        IF \/ i = len
           \/ ~Translates(VAddr(ptr, i))
           \/ ~Translates(VAddr(ptr, i + 1))
        THEN i ELSE stop[i + 1]
  IN  stop[0]

(* The index of the first byte of [ptr, ptr + len) that does not          *)
(* translate, or len: the loops' exit.                                     *)
FirstFault(ptr, len) ==
  LET stop[i \in 0 .. len] ==
        IF i = len \/ ~Translates(VAddr(ptr, i)) THEN i ELSE stop[i + 1]
  IN  stop[0]

(* Bug variant: translate user_ptr once and copy the buffer to the        *)
(* physical bytes that follow it, as a memcpy from one translation would. *)
CopyOutFirstPage(ptr, src) ==
  LET ok == \A i \in 0 .. Len(src) - 1 : Translates(VAddr(ptr, i))
      dst(i) == Phys(ptr) + i
  IN  /\ mem' = IF ok /\ \A i \in 0 .. Len(src) - 1 : dst(i) \in PAddrs
                 THEN [a \in PAddrs |->
                         IF \E i \in 0 .. Len(src) - 1 : dst(i) = a
                           THEN src[a - Phys(ptr) + 1] ELSE mem[a]]
                 ELSE mem
      /\ rax' = IF ok THEN Len(src) ELSE ErrMax
      /\ op' = [kind |-> "copy_out", ptr |-> ptr, len |-> Len(src)]
      /\ UNCHANGED <<trans, serial>>

(***************************************************************************)
(* user_copy_out / user_copy_out_in (IPC_RECV, IPC_RECV_CAP, deliver_ipc): *)
(* for each byte in order, translate and write it; at the first byte that *)
(* does not translate return None, with the bytes before it written.      *)
(***************************************************************************)
CopyOut(ptr, src) ==
  LET k == FirstFault(ptr, Len(src))
      run[i \in 0 .. k] ==
        IF i = 0 THEN mem
        ELSE [run[i - 1] EXCEPT ![Phys(VAddr(ptr, i - 1))] = src[i]]
  IN  /\ mem' = run[k]
      /\ rax' = IF k = Len(src) THEN Len(src) ELSE ErrMax
      /\ op' = [kind |-> "copy_out", ptr |-> ptr, len |-> Len(src)]
      /\ UNCHANGED <<trans, serial>>

(* user_copy_in (IPC_SEND, IPC_SEND_CAP): reads only; None on any fault.  *)
CopyIn(ptr, len) ==
  /\ rax' = IF FirstFault(ptr, len) = len THEN len ELSE ErrMax
  /\ op' = [kind |-> "copy_in", ptr |-> ptr, len |-> len]
  /\ UNCHANGED <<trans, mem, serial>>

(* Bug variant: WRITE without its min(len, 1024).                          *)
SysWriteUncapped(ptr, len) ==
  LET w == FirstFault(ptr, len)
  IN  /\ serial' = [i \in 1 .. w |-> mem[Phys(VAddr(ptr, i - 1))]]
      /\ rax' = w
      /\ op' = [kind |-> "write", ptr |-> ptr, len |-> len]
      /\ UNCHANGED <<trans, mem>>

(***************************************************************************)
(* WRITE (ptr, len): n = min(len, 1024); while written < n, translate the *)
(* next byte, send it and count it, or break.  rax = bytes written.       *)
(***************************************************************************)
SysWrite(ptr, len) ==
  LET n == IF len < WriteMax THEN len ELSE WriteMax
      w == FirstFault(ptr, n)
  IN  /\ serial' = [i \in 1 .. w |-> mem[Phys(VAddr(ptr, i - 1))]]
      /\ rax' = w
      /\ op' = [kind |-> "write", ptr |-> ptr, len |-> len]
      /\ UNCHANGED <<trans, mem>>

Next ==
  \E ptr \in VAddrs, len \in 0 .. MaxLen :
    \/ \E src \in [1 .. len -> Bytes] : CopyOut(ptr, src)
    \/ CopyIn(ptr, len)
    \/ SysWrite(ptr, len)

Spec == Init /\ [][Next]_vars
-----------------------------------------------------------------------------
UserCopyTypeOK ==
  /\ mem \in [PAddrs -> Bytes]
  /\ serial \in Seq(Bytes)
  /\ Len(serial) <= WriteMax
  /\ rax \in {ErrMax} \cup 0 .. MaxLen
  /\ op.kind \in {"none", "copy_out", "copy_in", "write"}

(* The user bytes at [ptr, ptr + k), read through the page tables.         *)
UserBytes(ptr, k) == [i \in 1 .. k |-> mem[Phys(VAddr(ptr, i - 1))]]

(***************************************************************************)
(* A copy-out never writes a physical byte that is not the translation of *)
(* a byte of the user's buffer [user_ptr, user_ptr + len), taken with the *)
(* wrap-around: the kernel writes no kernel frame, no page table and no   *)
(* byte past a page boundary that the buffer's next page does not map     *)
(* there (user_copy_out, user_copy_out_in).                                *)
(***************************************************************************)
WritesOnlyUserBuffer ==
  [][op'.kind = "copy_out" =>
       \A a \in PAddrs :
          mem'[a] # mem[a] =>
             \E i \in 0 .. op'.len - 1 :
                /\ Translates(VAddr(op'.ptr, i))
                /\ Phys(VAddr(op'.ptr, i)) = a]_vars

(***************************************************************************)
(* WRITE sends, in order, the user's bytes from user_ptr up to the first  *)
(* byte that does not translate or min(len, 1024) bytes, and returns how  *)
(* many it sent: across a page boundary the bytes come from each page's   *)
(* own frame, and with the second page unmapped it returns the count      *)
(* before the fault (spec, testable scenario 3).                           *)
(***************************************************************************)
WriteEchoesPrefix ==
  [][op'.kind = "write" =>
       LET n == IF op'.len < WriteMax THEN op'.len ELSE WriteMax
       IN  /\ rax' \in 0 .. n
           /\ \A i \in 0 .. rax' - 1 : Translates(VAddr(op'.ptr, i))
           /\ rax' < n => ~Translates(VAddr(op'.ptr, rax'))
           /\ serial' = UserBytes(op'.ptr, rax')]_vars

(***************************************************************************)
(* The design says a system call that fails on a user buffer returns MAX  *)
(* and leaves the receiver's memory as it was: messages are staged and    *)
(* then transferred atomically (spec, section 7).  So a copy-out that     *)
(* returns None has written nothing.                                       *)
(***************************************************************************)
NoPartialCopyOut ==
  [][op'.kind = "copy_out" /\ rax' = ErrMax => mem' = mem]_vars
=============================================================================
