----------------------------- MODULE MC_Kernel -----------------------------
(* A small instance of Kernel for TLC.                                     *)
EXTENDS Kernel

(* Lengths a user passes: one more than MaxMsg, so a message is truncated. *)
MCLens == {2}

(***************************************************************************)
(* The state TLC tells apart.  The kernel reads a saved frame only in      *)
(* deliver_ipc, and only that of a blocked receiver; a runnable process    *)
(* overwrites rax, rsi and rdx with its next trap before the kernel reads  *)
(* them.  So the frame of a runnable process is kept only as far as the    *)
(* properties read it (whether rax still holds a receive's number).  Ring  *)
(* slots outside [head, tail) and [wait_head, wait_tail) are never read    *)
(* before they are written again, so only the live slots are kept.         *)
(***************************************************************************)
KernelView ==
  <<schedVars, nextEp, head, tail, wHead, wTail, cr3,
    [e \in EpIds |-> [i \in head[e] .. tail[e] - 1 |-> buf[e][i % QLen]]],
    [e \in EpIds |-> [i \in WaitSlots(e) |-> waiters[e][i % MaxWaiters]]],
    [p \in Pids |-> IF runnable[p]
                      THEN frame[p].rax \in {IPC_RECV, IPC_RECV_CAP}
                      ELSE frame[p]]>>
=============================================================================
