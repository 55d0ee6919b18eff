# A TLA+ model of the MantraOS kernel

This directory holds TLA+ specifications of the MantraOS x86-64 microkernel
(`src/kernel`). It has TLC configurations that model-check them on small
instances, and TLAPS proofs for every size of the tables of the main safety
invariants and of three refinements: the allocator, the waiter rings and the
process life cycle. Every definition is translated from the Rust source. `PROJECT.json`
maps each definition to the lines it models.

## The system

MantraOS boots through a UEFI loader (`src/boot`). The loader hands a
`BootInfo` (`src/libs/bootinfo`) to `kernel_main` (`src/kernel/src/main.rs`).
The kernel then does the following, in order:

1. It sets up the GDT/TSS, IDT, PIC and PIT, the serial and framebuffer
   consoles, the physical memory manager (`pmm.rs`), paging and the heap.
2. It builds the first user process from the embedded `init` ELF and enters
   it with `user::enter_first_user`.

From then on the kernel runs only in trap handlers (`arch/x86_64/isr.rs`):

* **Timer interrupt.** IRQ0 from the PIT at 100 Hz goes to
  `mantra_timer_irq_stub`, then `mantra_timer_irq_rust`, then
  `sched::on_timer_irq`. This is preemptive round robin.
* **System calls.** `int 0x80` goes to `mantra_syscall80_stub`, then
  `mantra_syscall80_rust`, which dispatches on `rax`. The calls are PUTC,
  YIELD, WRITE, IPC_EP_CREATE, IPC_SEND, IPC_RECV, IPC_SEND_CAP, IPC_RECV_CAP
  and PROC_SPAWN.

Three parts interact in these handlers:

* **The scheduler** (`sched.rs`): the process table `PROCS`, `CURRENT`,
  `MANTRA_NEXT_CR3`, per-process capability tables, `pick_next_runnable`,
  `switch_from`, `wake`, `block_current_on_ep` and the capability helpers.
* **The IPC endpoints** (`ipc.rs`): a fixed pool of endpoints. Each one has
  a ring of `Q_LEN` messages and a ring of `MAX_WAITERS` blocked receivers,
  indexed by free-running counters.
* **The dispatcher** (`isr.rs`). A send first tries a waiting receiver: it
  pops the receiver and copies straight into its buffer with `deliver_ipc`,
  then wakes it. Otherwise the send enqueues the message. A receive on an
  empty endpoint blocks the caller when another task is runnable. The asm
  stub loads `MANTRA_NEXT_CR3` into CR3 whenever the handler returns the
  frame of a different task.

The machine has one CPU. Interrupts are off from trap entry to `iretq`, so
each handler is one atomic step. The interleavings that matter are those of
handlers run on behalf of different processes.

## Modules

| module | models | state |
|---|---|---|
| `Sched` | `sched.rs`: process table, round robin, capability tables | `current, alive, runnable, blockedEp, caps, nextCr3, rsp0` |
| `Ipc` (extends Sched) | `ipc.rs`: endpoint pool, message ring, waiter ring | `nextEp, head, tail, buf, wHead, wTail, waiters` |
| `Kernel` (extends Ipc) | `isr.rs` handlers and stubs, `user.rs` spawn and first entry | `frame` (rax/rsi/rdx of each saved frame), `cr3` |
| `MC_Kernel` | TLC instance: `MCLens` and the state view `KernelView` | |
| `KernelProofs` | TLAPS proofs about Kernel: types and the scheduler | |
| `KernelIpcProofs` | TLAPS proofs about Kernel's endpoints: the waiter rings and NoMessageWhileWaiting | |
| `KernelCapsProofs` | TLAPS proofs about Kernel's capabilities: CapsNameEndpoints and NoForgedCaps | |
| `EpWaiters` | what the waiter rings promise: a FIFO queue of blocked receivers per endpoint | `queue` |
| `ProcLifecycle` | what the scheduler promises: each slot free, ready, running or blocked on an endpoint, one running | `phase, on` |
| `KernelWaitersProofs` | TLAPS proof that Kernel's waiter rings implement EpWaiters | |
| `KernelLifecycleProofs` | TLAPS proof that Kernel's scheduler implements ProcLifecycle | |
| `PmmAlloc` | `pmm.rs` once `init` has stored its table: `alloc_pages`, `alloc_frame` | `up, ranges, cursor`; history `handed, pool, last` |
| `Pmm` (extends PmmAlloc) | `pmm::init` and the memory part of `kernel_main`: smoke allocations, `paging::alloc_table`, `heap::init`, `kmap_smoke_test`, user allocations | `regions, phase, left, heapPages, heapUp` |
| `MC_Pmm` | TLC instance: every memory map of up to 3 regions, and a fragmented map | |
| `FrameAlloc` | what the PMM promises its callers: a free set stocked once with whole pages, and calls that refuse or hand out an aligned block of it | `ready, free, handed, last` |
| `PmmProofs` | TLAPS proofs about PmmAlloc, and its refinement of FrameAlloc | |
| `Spawn` (extends PmmAlloc) | `user.rs` `enter_first_user`, `spawn_init_from_syscall`, `build_proc_from_init`, `kstack_alloc_top`; `sched.rs` `install_first`, `spawn_proc` | `alive, stage, need, got, kstacks, answer`; history `owned, leaked` |
| `MC_Spawn` | TLC instance: every PMM table of one or two ranges over 10 one-byte frames | |
| `SpawnProofs` | TLAPS proof of `FramesAccounted` | |
| `UserCopy` | `isr.rs` `virt_to_phys_in` / `user_virt_to_phys`, `user_copy_in`, `user_copy_out`, `user_copy_out_in`, the WRITE loop | `trans` (user page tables, per page), `mem` (physical bytes), `serial`, `rax`, `op` (the latest call) |

How the model corresponds to the code:

* **Processes and their kernel data.** A process is its slot in `PROCS`. Its
  kernel stack, page-table root and saved-frame pointer never change after
  spawn, so they are identified with the pid. `rsp0 = p` means "TSS.rsp0 is
  p's kernel stack top".
* **Counters.** The ring counters are kept unreduced, exactly as the code
  stores them. Overflow of `usize` is out of reach. The model bound `MaxSeq`
  caps the counters in the guard `RingsBounded`.
* **Payloads.** A payload is abstracted to its length, its transferred
  endpoint, and `seq` (the tail value at which it was enqueued), which gives
  it an identity.
* **User pointers.** A user pointer is `GoodPtr` or `BadPtr`. The page walk
  of `user_virt_to_phys` either succeeds for every page or fails on the
  first one. A copy of 0 bytes never faults.
* **Handler actions.** Each system call is an action named after its
  handler arm (`SysSend`, `SysRecvCap`, ...). The action includes every call
  the arm makes: the staging copy, `cap_lookup_current`, `waiter_pop`,
  `deliver_ipc`, `wake`, `ep_send_cap`, `waiter_push`, the blocking and the
  yield. `Resched` is the tail of every handler together with the asm stub:
  `switch_from`, plus the CR3 load when it switched.
* **Error results.** The results `u64::MAX`, `u64::MAX-1` and `u64::MAX-2`
  are `ErrInval`, `ErrFull` and `ErrEmpty`. They are negative integers, so
  they cannot be confused with a length.
* **The user program.** It is the environment. The process on the CPU may
  make any system call with arguments from small sets.
* **Spawn.** `build_proc_from_init` is assumed to succeed. Its PMM panic is
  not modelled.
* **Abstract waiter queues.** `EpWaiters` has one sequence per endpoint and
  two actions: `Wait(e, p)` appends a process that is in no queue, and
  `Wake(e)` drops the front of a non-empty queue. `Kernel` instantiates it
  with `queue[e] <- WaitQueue(e)`, the ring's slots from `wait_head` to
  `wait_tail - 1` read modulo `MAX_WAITERS`. `WaitersFifo` is the
  refinement.
* **Abstract life cycle.** `ProcLifecycle` has a phase per slot and the
  endpoint a blocked slot waits on, with four actions: `Switch` (running to
  ready, a ready slot to running), `Block` (running to blocked on `e`, a
  ready slot to running), `Wake` (blocked to ready) and `Spawn` (free to
  ready). `Kernel` instantiates it with `phase <- PhaseOf` and
  `on <- blockedEp`. `PhaseOf` gives "free" for a slot that is not alive,
  "running" for `CURRENT`, "ready" for another runnable slot and "blocked"
  for the rest. `LifecycleRefined` is the refinement. The abstraction does
  not say which event wakes a process. So a model in which PROC_SPAWN
  reused a blocked slot would still refine it, the reuse looking like a
  `Wake`. The two abstractions are not composed into one: a composed spec
  would require a woken process to leave its queue, and that fails at the
  lost-waiter finding, where a popped receiver stays blocked.

How the memory model corresponds to the code:

* **The range array.** `ranges` is `Pmm.ranges[0 .. len-1]` as a sequence:
  slot `i` of the array is `ranges[i+1]`. `up` says `PMM` is `Some`.
* **`alloc_pages`** (`AllocPages`) is one action: the scan from the cursor,
  the skips of empty and too-small slots, the carve from the low end and
  the cursor update. The first slot that fits is the least index of the set
  of slots that fit, which is where the loop stops.
* **`pmm::init`** (`PmmInitResult`) is computed whole, as the code runs it:
  collect, `sort_by_base` (an insertion fold), `merge_adjacent`,
  `subtract_reserved` per non-usable region with all four of its branches
  and the capacity failure, the low 1 MiB, and dropping empty ranges. Every
  region kind other than Usable is `Reserved`.
* **The boot sequence.** `phase` follows `kernel_main`: `pmm`, then
  `smoke` (three `alloc_frame` calls, failures logged), `paging` (each
  `alloc_table` panics on `None`), `heap` (`heap::init` halving from 4096
  pages while at least 128), `kmap` (`kmap_smoke_test`'s `alloc_frame`,
  a failure logged), `kmaptables` (when it got a frame, the three
  `alloc_table` calls of `kmap_map_4k` for the PDPT, PD and PT of the KMAP
  region, each panicking on `None`), then `user` (the frames of
  `build_proc_from_init`, each an `expect`). `halted`, `panic` and `oom`
  are the three hlt loops: "PMM init failed", the panic handler, and
  `alloc_error_handler`. The heap smoke test of `kernel_main` reaches the
  last one when the heap is disabled.
* **Scale.** A page is 2 bytes and memory 16 bytes, so the constants
  `PageSize`, `LowReserve` (1 MiB in the code), `MaxRanges` (128),
  `HeapMaxPages` (4096) and `HeapMinPages` (128) shrink together.
* **History variables.** `handed` is every byte handed out and `pool` the
  bytes of the table `init` stored. They exist for the properties.
* **Refinement.** `Pmm` extends `PmmAlloc`, and its `Spec` is checked to
  implement `AllocSpec` (`AllocRefined`). This links the proofs about
  `PmmAlloc` to the allocator the boot sequence actually drives.
* **Abstract allocator.** `FrameAlloc` states what `pmm.rs` promises with
  no ranges and no cursor. There is one set `free` of bytes, stocked once
  (`Stock`) with whole pages above low memory. A call either returns
  `None` and changes nothing but the result (`Refuse`), or returns an
  aligned block of `n` free pages and removes exactly that block
  (`Grant`). `PmmAlloc` instantiates it with `free <- FreeBytes`, the bytes
  of the ranges, and `ready <- up`. `AllocImplementsFrameAlloc` is the
  refinement. When a call may fail is left open. The design's rule for that
  is `AllocFailsOnlyWhenExhausted`, which the code breaks (finding 3).

### Process creation and the PMM (`Spawn`)

`Spawn` composes the process table with `PmmAlloc`. Its `Init` is the state
`enter_first_user` starts from: the PMM holds a table (`InitTables`) and no
slot is alive. The parts of the code map to the model as follows:

* **`build_proc_from_init`** takes its frames one `alloc_frame` /
  `alloc_table` at a time: the PML4, the tables `map_4k` and
  `map_hhdm_huge` create, four stack pages and the code pages. For the one
  program there is, that count is fixed (`BuildFrames`). Each frame is a
  `BuildFrame` step, an `AllocPages(1)`, and `None` is the `expect` panic.
* **The kernel stack.** Each build then boxes a kernel stack from the bump
  heap, which never frees, with room for `HeapKstacks` stacks. A full heap
  is `KstackOom`, the `alloc_error_handler` halt.
* **The slot.** `InstallFirst` (`install_first`) puts the first process in
  slot 0. `SpawnProc` (`spawn_proc`) takes the lowest dead slot. If there
  is none, PROC_SPAWN returns `u64::MAX`, and what was built stays
  allocated (`leaked`).
* **`SpawnBadProg`** is a `prog_id` other than 1.

A system call runs to completion with interrupts off. So the steps of one
build are separate TLA+ steps only to follow its allocations, and no other
action is enabled until the call returns. Capabilities and the contents of
the trap frame are left to `Kernel`.

### User buffers (`UserCopy`)

The kernel reaches user memory one byte at a time. For each byte,
`user_ptr.wrapping_add(i)` is translated by a four-level walk that needs
P and U at every level. The byte is then read or written through the HHDM,
and the loop stops with `None` at the first byte that does not translate.
`UserCopy` keeps that control and abstracts the data:

* **The walk.** `trans` maps each virtual page to a frame, or to
  `NoMap` when some level lacks P or U. Its `Init` ranges over every
  injective partial map. `map_4k` in `build_proc_from_init` gives each
  user page a fresh frame, and the HHDM is mapped without U, so the
  frames not in the range are the kernel's.
* **Addresses.** The walk reads only bits 12..47, and `wrapping_add`
  wraps at 2^64, a multiple of 2^48. So an address is taken modulo
  `VSize`, which stands for 2^48.
* **The loops.** `FirstFault` is the loops' exit, written as a recursive
  function over the index. `CopyOut` writes the bytes before it in order.
  `CopyIn` only reads. `SysWrite` caps the length at `WriteMax` (1024) and
  sends the translated prefix.

`Kernel` still treats a buffer as a good or bad pointer. `UserCopy` is
what lies under that abstraction.

## Runs

| run | cfg | expect | what it shows |
|---|---|---|---|
| kernel_safety | `MC_Kernel.cfg` | pass | 3 processes, 2 endpoints, 2 capability slots, message ring of 2, waiter ring of 3. Every interleaving keeps `TypeOK`, `CurrentRunnable`, `AddressSpaceOfCurrent`, `WaiterRingSound`, `NoMessageWhileWaiting`, `CapsNameEndpoints` and the action property `NoForgedCaps`. About 590k distinct states (view), 75 s. |
| waiter_wrap | `MC_KernelWrap.cfg` | pass | One endpoint with counters up to 5, so the waiter ring's counters pass `MAX_WAITERS` and slots are reused. `WaiterRingSound` still holds, and the ring implements the FIFO queue of `EpWaiters` across the wrap (`WaitersFifo`). About 31k states, 8 s. |
| process_lifecycle | `MC_KernelLifecycle.cfg` | pass | 3 processes, 2 endpoints, one capability slot, message ring of 2, waiter ring of 3. Every step is a step of `ProcLifecycle` or leaves the phases alone (`LifecycleRefined`). About 100k states (view), 31 s. |
| round_robin_liveness | `MC_KernelLive.cfg` | pass | Under weak fairness of the timer, every runnable process eventually runs (`RunnableEventuallyRuns`). No VIEW is used. |
| ring_fifo | `MC_KernelRingFifo.cfg` | violation | `RingFifo`: the message ring overwrites an unread message (see Findings). |
| lost_waiter | `MC_KernelLostWaiter.cfg` | violation | `BlockedIsWaiting`: a receiver is stranded (see Findings). |
| pmm_boot | `MC_Pmm.cfg` | pass | Every list of 1 to 3 regions with base 0..5 or 8, length 0, 1, 3 or 8 and either kind, with page 2 and 2 slots. `PmmTypeOK`; `InitExact` (the stored table is exactly the aligned usable memory less every touched reserved page and low memory); `AllocSafe` (no byte handed out twice, all from the pool, aligned); `AllocRefined` (the boot sequence implements `AllocSpec`); `AllocImplementsFrameAlloc` (the allocator implements `FrameAlloc`). About 640k states, 10 s. |
| spawn_frames | `MC_Spawn.cfg` | pass | Every PMM table of 1 or 2 ranges over bytes 0..9 (one-byte pages), 3 slots, 2 frames per build, room for 4 kernel stacks. `SpawnTypeOK`; `FramesAccounted`: every frame handed out belongs to exactly one of a live process, the build in progress or a refused build, so no two address spaces share a frame and no live process is overwritten. About 11k states, 1 s. |
| spawn_table_full | `MC_SpawnTableFull.cfg` | violation | `NoPanicWhenTableFull`: with every slot alive, PROC_SPAWN still drains the PMM until the kernel panics (see Findings). |
| user_copy | `MC_UserCopy.cfg` | pass | Every injective mapping of 2 two-byte virtual pages into 3 frames, every memory of bits, every buffer of up to 3 bytes at every address. This includes buffers that cross a page and buffers that wrap past the top. `UserCopyTypeOK`; `WritesOnlyUserBuffer` (a copy-out changes only the translations of its buffer's bytes); `WriteEchoesPrefix` (WRITE sends exactly the translated prefix up to the first hole, or `min(len, WriteMax)` bytes, and returns that count). About 190k states, 70 s. |
| user_copy_atomic | `MC_UserCopyAtomic.cfg` | violation | `NoPartialCopyOut`: a failing copy-out has written part of the buffer (see Findings). |
| pmm_cursor_skip | `MC_PmmFragmented.cfg` | violation | `AllocFailsOnlyWhenExhausted`: the heap's failed request strands free memory (see Findings). |

### Bounds and the view

* **Why three processes.** Three is the least number that gives one
  receiver blocked while two others race. With two processes, a receiver
  blocks only when the other one is runnable, and the other one must then
  send.
* **Ring sizes.** `QLen = 2` and `MaxWaiters = 3` are small enough that the
  rings fill and wrap within the counter bounds.
* **Lengths.** `MaxMsg = 1` and `Lens = {2}` make every message truncated
  by the staging buffer. `StageMax` is the 1024 cap.
* **What the view drops.** The safety runs use `KernelView`, which drops
  data the kernel never reads again:
  * ring slots outside the live window;
  * the argument registers of a runnable process. The kernel reads a saved
    frame only in `deliver_ipc`, and only that of a blocked receiver. A
    runnable process overwrites its registers with its next trap.

  This data does not influence any later step or any property, so the view
  loses no behaviour.

### PMM bounds

The region lists cover all the branches of `init`: unaligned ends, empty
regions, overlapping usable regions (merged), reserved regions at the start,
end and middle of a range (the split), a split with the array full
(`MaxRanges = 2`, the capacity error), regions entirely in low memory, and
maps with nothing left (the `Err` paths). Requests of 1 and 2 pages make
`alloc_pages` skip ranges that are too small. The run stops when the boot
sequence halts, so deadlock is not checked there: the kernel really does
stop, in `hlt` loops.

### Spawn bounds

Each table holds 1 to 10 one-byte frames, in one piece or two (the cursor
then skips a range). The first process and two children take six frames.
So the bounds produce all of the following:

* tables that run dry while a slot is still free, a panic the design
  accepts;
* tables with room for refused spawns after the table is full;
* a heap that fills before the PMM does (`KstackOom`).

Deadlock is not checked because a panic halts the kernel.

### UserCopy bounds

With two virtual pages and three frames, one frame is always the kernel's.
A three-byte buffer at an odd address crosses into the next page, and one
at the last address wraps to page 0. Every buffer length from 0 to 3 meets
every pattern of mapped and unmapped pages. A page of two bytes is enough
because the loops look at the page of each byte, never at its offset.

## Fairness

`FairSpec` adds only `WF_vars(OnTimerIrq)`. `arch::init` (`main.rs:30`)
sets up the PIC and programs the PIT for IRQ0 at 100 Hz. The kernel keeps
IF clear until the first `iretq` into user mode. From then on user code
runs with IF=1, because `build_initial_tf` sets RFLAGS to 0x202
(`user.rs:193`), and the timer handler acknowledges each tick with an EOI
(`isr.rs:47`). So a timer tick is always eventually taken. The `sti` of
`main.rs:193` is not on this path: it runs only when `pmm::init` fails,
since `enter_first_user` does not return. No fairness is assumed
for system calls: a process may spin forever.

## Findings

1. **`ep_send_cap` overwrites unread messages** (`ipc.rs:127`, run
   ring_fifo). The full test is `(tail+1) % Q_LEN == head`, but `head` is a
   free-running counter that is never reduced. Once `Q_LEN` messages have
   been received, `head >= Q_LEN` and the test never fires. A send into a
   full ring then overwrites the oldest unread message and advances `tail`
   past `head + Q_LEN`.
   * `waiter_push` (`ipc.rs:77`) has the same test. It is latent there:
     at most `MAX_PROCS - 1 = 7 < MAX_WAITERS = 8` processes can wait.
     waiter_wrap checks that with the ring wrapping.
     `WaiterRingSoundInvariant` proves it for every table size with
     `MAX_PROCS <= MAX_WAITERS` (see Proofs).
2. **A faulting delivery strands the receiver** (`isr.rs:336`, run
   lost_waiter). The sequence is:
   1. `deliver_ipc` is called for a receiver that `waiter_pop` has already
      popped.
   2. The copy to the receiver's buffer faults (an unmapped buffer).
   3. `deliver_ipc` returns `u64::MAX` to the sender. The receiver stays
      `runnable = false` and `blocked_ep != 0` but is on no waiter ring, so
      no send can wake it.

3. **A failed large request strands free memory** (`pmm.rs:269`, run
   pmm_cursor_skip). This diverges from the design of section 4.1 of the
   spec, which says `alloc_pages` fails only when no interval satisfies
   the request. The code's cursor moves past every slot too small for the
   current request and never moves back. The sequence is:
   1. `heap::init` asks for 4096 pages.
   2. On a map with no free range that large, the scan runs the cursor to
      `len`, and so does every halved retry.
   3. From then on every `alloc_frame` returns `None`, though the ranges
      still hold free pages. The heap is disabled and the kernel halts in
      the OOM handler, or a later `expect` panics.

   TLC's trace runs from ranges `[2,4), [6,8), [10,16)` with 2-byte pages.
   After the smoke and table frames, a 2-page heap request fails and moves
   the cursor past `[14,16)`, and the 1-page retry then fails with that
   page free.

4. **PROC_SPAWN on a full table panics the kernel** (`user.rs:391`, run
   spawn_table_full). The spec's system call table says PROC_SPAWN returns
   a pid or `MAX`. Its open question (c) admits only a leaked trap frame and
   kernel stack. The sequence is:
   1. `spawn_init_from_syscall` calls `build_proc_from_init` before
      `spawn_proc` looks for a dead slot. That call takes the PML4, page
      tables, stack and code frames from the PMM, and a kernel stack from
      the heap.
   2. With every slot alive, the call returns `u64::MAX` and frees none of
      it.
   3. A user program that keeps calling PROC_SPAWN drains the PMM until
      `alloc_frame().expect` panics (`user.rs:289`, `352`, `364`).

   TLC's trace uses a 6-frame table: the first process and two children
   take six frames, and the next spawn panics with every slot alive.

5. **A failing copy-out writes part of the message** (`isr.rs:319`, run
   user_copy_atomic). The spec (section 7) says the user's memory is not
   partially written for messages: the kernel stages the message and then
   transfers it atomically into the receiver's memory. The send side does
   stage, since `user_copy_in` fills a kernel `tmp` first. On the receive
   side, `user_copy_out` and `user_copy_out_in` write byte by byte and
   return `None` at the first byte that does not translate. IPC_RECV,
   IPC_RECV_CAP and `deliver_ipc` then return `u64::MAX` with a prefix of
   the message already in the buffer. In TLC's trace a two-byte buffer
   starts at the last byte of the address space: byte 0 is written, the
   address wraps to an unmapped page 0, and the call fails.

## Proofs

`KernelProofs` proves, with TLAPS, for all values of the constants allowed
by `SchedAssumption`, `IpcAssumption` and `KernelAssumption`:

* **`TypeCorrect`:** `Spec => []TypeOK`. It has one lemma per action
  (`TimerType`, `SendType`, `RecvType`, `SpawnType`, ...). These rest on
  lemmas about the helpers:
  * `PickNextType` and `CapAllocType`;
  * `MinNat`: `Min` of a non-empty set of naturals is in it and is least,
    derived from `WFMin` of WellFoundedInduction.
* **`CurrentRunnableInvariant`:** `Spec => []CurrentRunnable`.
* **`AddressSpaceInvariant`:** `Spec => []AddressSpaceOfCurrent`.

The two scheduler invariants are proved together, with `TypeOK` as the
strengthening: `TypeOK /\ CurrentRunnable /\ AddressSpaceOfCurrent` is
inductive. The argument runs as follows:

* **`PickNextRunnable`.** `pick_next_runnable` returns either `cur` or an
  alive slot whose flag in the scanned table is set. When another slot is
  runnable, it returns a slot other than `cur`. The proof shows that the
  offset `k` of such a slot lies in the scanned range, using `ModShift`.
* **`SchedStep`.** Every step of `Next` is of one of two kinds:
  * it leaves `current`, `cr3`, `rsp0` and `nextCr3` alone, and keeps
    `current` alive and runnable;
  * it is a `switch_from` over a runnable table that moves all four to the
    same pid.

  Blocking receives are the delicate case. The caller's flag is cleared
  before the scan, and the handler blocks only when `has_other_runnable()`
  holds, so the scan finds another task.
* The invariants follow by `PTL` from `SchedInitSound` and `SchedStep`.

`PmmProofs` proves, for all values of the constants allowed by
`PmmAllocAssumption` and for every table `init` may store:

* **`AllocTypeCorrect`:** `AllocSpec => []AllocTypeOK`.
* **`AllocSafeInvariant`:** `AllocSpec => []AllocSafe`.

`AllocSafe` alone is not inductive. `InitDone` sets `pool` to the bytes of
the new table but keeps `handed`, so the induction needs that nothing was
handed out while `PMM` was `None`. The inductive invariant `AllocInv` adds
that fact and the type invariant. The step proof has one lemma per outcome
of `alloc_pages`:

* **`AllocNoneInv`:** the call returns `None` and changes only the cursor.
* **`AllocCarveInv`:** the call carves a block from slot `i`.
  * The slot's base advances by whole pages (`PageAligned`) and stays
    at or below its end, so the table stays sorted and aligned.
  * The block lies in slot `i`, which shares no byte with any other slot
    (`DisjointRanges`), and the rest of slot `i` starts after the block.
    So the block is in no range afterwards.
* **`FirstFit`:** the slot the loop stops at is one that fits. This rests
  on the least-number principle, `LeastExists`.

* **`AllocRefinesFrameAlloc`:** `AllocSpec => AllocImplementsFrameAlloc`,
  the refinement of `FrameAlloc` under `free <- FreeBytes`. The proof
  follows the usual three parts:
  * the initial states map to initial states (`InitRefines`: no ranges, no
    free bytes);
  * `InitDone` is a `Stock` (`InitDoneRefines`). Every byte of a stored
    range lies in a whole page of that range (`PageOfByte`, about aligned
    bounds), above the low reserve;
  * each `alloc_pages` call is a `Refuse(n)` or a `Grant(n, p)`
    (`AllocPagesRefines`). For the carve, `AllocCarveInv` also shows
    `FreeBytes' = FreeBytes \ block`. The shrunken slot keeps every byte
    above the block.

  With `AllocInv` as the invariant, the theorem follows by `PTL`.

Because `AllocRefined` holds in pmm_boot, these theorems apply to the
allocator driven by the boot sequence of `Pmm`, on that instance.

`SpawnProofs` proves, for all values allowed by `SpawnAssumption` and
`PmmAllocAssumption`:

* **`SpawnFramesAccounted`:** `Spec => []FramesAccounted`.
* **`SpawnTypeCorrect`:** `Spec => []SpawnTypeOK`, a corollary of the
  same inductive invariant.

`FramesAccounted` is not inductive by itself, for two reasons:

* A new frame is foreign to every process only because the allocator hands
  out free bytes and no handed byte is free. That is `AllocInv`, reused from
  `PmmProofs`, with `AllocPagesRefines` saying which block a call handed
  out.
* `install_first` kills every slot but 0, so no slot may own a frame before
  it runs.

The inductive invariant `SpawnInv` adds both facts and the type invariant.
There is one lemma per action:

* `QuietStepsInv`;
* `BuildFrameInv`;
* `InstallFirstInv`;
* `SpawnProcInv`, where the slot taken is dead and so owns nothing.

`NoPanicWhenTableFull` is violated, so it has no proof.

`KernelIpcProofs` proves, for all values allowed by the assumptions of
`Kernel` and by `WaiterRoom` (`MaxProcs <= MaxWaiters`, which holds in the
code: both are 8):

* **`WaiterRingSoundInvariant`:** `Spec => []WaiterRingSound`.
* **`NoMessageWhileWaitingInvariant`:** `Spec => []NoMessageWhileWaiting`.

Neither invariant is inductive alone:

* A receive consumes with `head + 1`. That keeps `NoMessageWhileWaiting`
  only if `head` never passes `tail`. So the inductive invariant `WaitInv`
  adds `HeadLeTail`, and it uses `TypeOK` and `CurrentRunnable`, proved
  before. TLC checked `HeadLeTail` on kernel_safety first.
* `waiter_push`'s full test compares with the unreduced `wait_head`, so
  the test does not stop a ring from overflowing. What stops it is a count.
  * Every pid in a ring is distinct, blocked and not runnable.
  * A receiver blocks only while it and another process are runnable, and
    neither of them is in any ring.
  * So before the push the ring held at most `MAX_PROCS - 2` pids (the
    pigeonhole lemma `RingBound`, with `PidsLessTwo`). After it, the ring
    holds at most `MAX_PROCS - 1 < MAX_WAITERS`.
  * Then `ModDistinct` shows the slot written is none of the ring's.

  `WaiterRoom` is needed: with `MaxWaiters < MaxProcs - 1` a ring can fill
  and `waiter_push` overwrites a waiting pid.

The step proof has one lemma per way a step touches the rings:

* `WaitQuiet`: no ring changes, and no flag of an alive process.
* `WaitConsume`: `ep_recv_cap`.
* `WaitEnqueue`: `ep_send_cap`.
* `WaitPop`: `waiter_pop` with `deliver_ipc`.
* `WaitPush`: a blocking receive.

Handler lemmas `SendWait`, `RecvWait` and `SpawnWait` map each handler onto
these lemmas.

`KernelCapsProofs` proves, under the same assumptions:

* **`CapsNameEndpointsInvariant`:** `Spec => []CapsNameEndpoints`.
* **`NoForgedCapsTheorem`:** `Spec => NoForgedCaps`, an action property.

Both rest on one fact about every step, `CapsStep` (lemma `CapsStepNext`):

* A process newly holds only endpoints that some process held, or that a
  queued message carried. The one other case is the endpoint allocated in
  this very step (`Created`): the step advanced `NEXT_EP` by one, to that
  endpoint, and only `IPC_EP_CREATE` does that. An endpoint created earlier
  and not held by anyone cannot reappear.
* A newly queued transfer is one the sender held.
* `NEXT_EP` only grows.
* A process that is not alive is left alone.

The proof of this step fact uses `WaitInv`:

* The pid `waiter_pop` hands to `deliver_ipc` is alive (`FrontAlive`).
* The front message `IPC_RECV_CAP` installs is one of the queued ones,
  since `head <= tail`.

Lemmas about the helpers:

* `CapAllocNamed`: `cap_alloc_current` adds at most the endpoint it is
  given.
* `CapLookupHeld`.
* `InFlightConsume` and `InFlightEnqueue`: what a ring step does to the set
  of queued transfers.

`KernelWaitersProofs` proves, under the same assumptions:

* **`WaitersRefinement`:** `Spec => WaitersFifo`. The waiter rings
  implement `EpWaiters` under `queue[e] <- WaitQueue(e)`.

The proof reads a ring as a sequence, `RingSeq(w, h, t)`, and rests on
three lemmas about that reading:

* `RingSeqType`: with `h <= t` the window is a sequence of pids of length
  `t - h`.
* `RingPushSeq`: writing `p` at slot `t % MAX_WAITERS` and counting `t + 1`
  appends `p`, provided `t - h < MAX_WAITERS`. Without the room the write
  would land on the front.
* `RingPopSeq`: counting `h + 1` on a non-empty window drops its head.

`WaiterMoves` says every kernel step leaves all rings alone, pops one
non-empty ring, or pushes `CURRENT` onto one. `WaitersStep` maps these
three onto a stutter, `Wake(e)` and `Wait(e, CURRENT)`. The room for the
push and the freshness of `CURRENT` come from `WaitInv`:

* `WaiterRingSound` bounds the window by `MAX_WAITERS - 1`;
* every queued pid is not runnable, while `CURRENT` is (`QueuedBlocked`).

`KernelLifecycleProofs` proves, under the same assumptions:

* **`LifecycleRefinement`:** `Spec => LifecycleRefined`. The scheduler
  implements `ProcLifecycle` under `phase <- PhaseOf`, `on <- blockedEp`.

There is one lemma per kind of step:

* `LifeResched`: the timer and YIELD are a `Switch` to the slot
  `pick_next_runnable` returns, or a stutter. This reuses
  `PickNextRunnable`.
* `LifeBlock`: a blocking receive is a `Block` of the caller on its
  endpoint. The ready slot is the one the scan over the cleared flags
  finds, and `has_other_runnable` guarantees there is one.
* `LifeSend` and `LifeDeliver`: a send that pops a waiter is a `Wake` of
  it, or a stutter when the copy faults. `WaiterRingSound` says the popped
  pid is alive and not runnable, and `CurrentRunnable` that it is not
  `CURRENT`, so its phase is "blocked".
* `LifeSpawn`: PROC_SPAWN is a `Spawn` of `Min` of the dead slots, which
  `CurrentRunnable` keeps apart from `CURRENT`.
* `LifeQuiet`: every other step leaves `CURRENT`, `alive`, `runnable` and
  `blocked_ep` alone.

`LifeStep` combines these lemmas. The theorem then follows by `PTL` from
`TypeCorrect`, `CurrentRunnableInvariant` and `WaitInvariant`. No new
invariant was needed.

## Model-checked only

These stay with TLC:

* `RunnableEventuallyRuns`, which is liveness under fairness. Its proof
  would need `WF_vars(OnTimerIrq)` and `ENABLED OnTimerIrq`, which the
  installed provers cannot handle.
* `InitExact`. It is about what the recursive `subtract_reserved` loop and
  the sort computes for every map, which is induction over data, out of the
  provers' reach. `Pmm` declares RECURSIVE operators, so it is TLC-only.
* `AllocRefined`. The step mapping is immediate, but the initial table's
  `InitRanges` is again a statement about `init`'s output.
* `WritesOnlyUserBuffer` and `WriteEchoesPrefix`. Both are about what the
  byte loops, recursive functions over the index, compute for every
  buffer. That is induction over data.
* `UserCopyTypeOK`. Its bound `Len(serial) <= WriteMax` is about the
  length of a sequence built by the recursive loop function, the same
  induction over data.
* `PmmTypeOK`. It is stated in `Pmm`, which declares RECURSIVE operators.

## Not modelled

* **Spawn's capabilities and the PMM in one model.** `Kernel`'s spawn
  assumes frames are available, and `Spawn` leaves capabilities out. The
  two share only the slot search, which both model, and no property
  relates capabilities to frames.
* **u64 wrap-around at the top of memory** in `align_up` (`pmm.rs:50`).
  Addresses are naturals in `Pmm`. The sum `x + 4095` overflows only for a
  region that ends within a page of 2^64, and a physical memory map has no
  such region.
* **The heap's bump allocator's arithmetic** (`KernelAlloc::alloc`).
  `Pmm` models only "ready or not". `Spawn` counts 16 KiB kernel stacks
  against a fixed capacity; alignment and other heap users are left out.
* **The contents of page tables and the ELF loader's copies** (`user.rs`
  `build_proc_from_init`, `map_4k`, `load_elf_into_user`; `Spawn` keeps
  only how many frames a build takes) and kernel paging
  (`paging.rs`). `Kernel` sees a buffer as a good or bad pointer, and
  `UserCopy` takes the user tables as a map from page to frame, without
  their four levels.
* **Consoles, descriptor tables, PIC, boot loader, `init` program.**
  These are sequential setup or output-only code.
* **Partial copies inside `Kernel`.** There a copy is all or nothing per
  pointer. `UserCopy` models the byte loops separately, and the two are
  not composed.
* **Message loss on a faulting copy-out** in IPC_RECV (`isr.rs:167`) happens
  in the model, but no property states message conservation yet.

## Plan for later work

1. A corrected spawn (slot check before the build) as a model variant,
   with `NoPanicWhenTableFull` proved for it.
2. An abstract FIFO of messages per endpoint, and the message ring shown
   to refine it, as the waiter rings now refine `EpWaiters`. It holds only
   with a corrected full test, given finding 1.
3. A composition with the `init` program's protocol
   (`src/userland/init/src/main.rs`) instead of an arbitrary user.
