------------------------------- MODULE Spawn --------------------------------
(***************************************************************************)
(* Process creation over the frame allocator: enter_first_user and         *)
(* PROC_SPAWN (spawn_init_from_syscall, src/kernel/src/user.rs) with the   *)
(* process table of sched.rs, composed with PmmAlloc.                      *)
(*                                                                         *)
(* build_proc_from_init takes its frames from the PMM one alloc_frame /    *)
(* alloc_table call at a time: the PML4, the tables map_4k and             *)
(* map_hhdm_huge create, four user stack pages and the code pages.  For    *)
(* the one program there is, that is a fixed number, BuildFrames; each is  *)
(* an AllocPages(1) step, and a None is a panic (expect).  It then takes a *)
(* 16 KiB kernel stack from the bump heap (a Box that is never freed; a    *)
(* full heap is alloc_error_handler's panic).  Only after all of that does *)
(* spawn_proc look for a slot that is not alive; with none the call        *)
(* returns u64::MAX and what was built is never freed.                     *)
(*                                                                         *)
(* The kernel is single-threaded and a system call runs to completion, so *)
(* the steps of one call are separate steps here only to follow its        *)
(* allocations one by one: no other action is enabled until it returns.   *)
(* Capabilities and the trap frame's contents are Kernel's business.      *)
(***************************************************************************)
EXTENDS PmmAlloc

CONSTANTS
  MaxProcs,     \* MAX_PROCS
  BuildFrames,  \* frames build_proc_from_init takes for the init program
  HeapKstacks,  \* 16 KiB kernel stacks the heap has room for
  InitTables    \* PMM tables pmm::init may have stored

ASSUME SpawnAssumption ==
  /\ MaxProcs \in Nat \ {0}
  /\ BuildFrames \in Nat \ {0}
  /\ HeapKstacks \in Nat
  /\ \A t \in InitTables : InitRanges(t)

VARIABLES
  alive,    \* PROCS[pid].alive
  stage,    \* "first": enter_first_user; "idle": user code runs;
            \* "build": inside PROC_SPAWN; "panic": the kernel halted
  need,     \* frames the build in progress still takes
  got,      \* bytes of the frames it took so far
  owned,    \* history: the frames of each process's address space
  leaked,   \* history: the frames of builds spawn_proc refused
  kstacks,  \* kernel stacks boxed so far
  answer    \* RAX of the latest PROC_SPAWN

spawnVars == <<alive, stage, need, got, owned, leaked, kstacks, answer>>
vars == <<allocVars, spawnVars>>

Pids == 0 .. MaxProcs - 1

SpawnErr == -1   \* u64::MAX
NoAnswer == -2   \* no PROC_SPAWN returned yet

(* The state enter_first_user starts from: the PMM holds its table (boot's *)
(* own allocations done) and the process table is empty.                  *)
Init ==
  /\ up = TRUE
  /\ ranges \in InitTables
  /\ cursor = 0
  /\ handed = {}
  /\ pool = FreeBytes
  /\ last = NoCall
  /\ alive = [p \in Pids |-> FALSE]
  /\ stage = "first"
  /\ need = BuildFrames
  /\ got = {}
  /\ owned = [p \in Pids |-> {}]
  /\ leaked = {}
  /\ kstacks = 0
  /\ answer = NoAnswer

(* PROC_SPAWN with a prog_id other than 1 returns u64::MAX at once.        *)
SpawnBadProg ==
  /\ stage = "idle"
  /\ answer' = SpawnErr
  /\ UNCHANGED <<allocVars, alive, stage, need, got, owned, leaked, kstacks>>

(* PROC_SPAWN(1, ..) enters build_proc_from_init.                          *)
SpawnStart ==
  /\ stage = "idle"
  /\ stage' = "build"
  /\ need' = BuildFrames
  /\ UNCHANGED <<allocVars, alive, got, owned, leaked, kstacks, answer>>

(* One alloc_frame / alloc_table of build_proc_from_init; None panics.     *)
BuildFrame ==
  /\ stage \in {"first", "build"}
  /\ need > 0
  /\ AllocPages(1)
  /\ IF last'.ret = NoFrame
       THEN /\ stage' = "panic"
            /\ UNCHANGED <<need, got>>
       ELSE /\ need' = need - 1
            /\ got' = got \cup (last'.ret .. last'.ret + PageSize - 1)
            /\ UNCHANGED stage
  /\ UNCHANGED <<alive, owned, leaked, kstacks, answer>>

(* kstack_alloc_top: the bump heap has no room for the Box: panic.         *)
KstackOom ==
  /\ stage \in {"first", "build"}
  /\ need = 0
  /\ kstacks >= HeapKstacks
  /\ stage' = "panic"
  /\ UNCHANGED <<allocVars, alive, need, got, owned, leaked, kstacks, answer>>

(* enter_first_user: the kernel stack, then install_first puts the process *)
(* in slot 0 and marks every other slot dead.                              *)
InstallFirst ==
  /\ stage = "first"
  /\ need = 0
  /\ kstacks < HeapKstacks
  /\ kstacks' = kstacks + 1
  /\ alive' = [p \in Pids |-> p = 0]
  /\ owned' = [owned EXCEPT ![0] = got]
  /\ got' = {}
  /\ stage' = "idle"
  /\ UNCHANGED <<allocVars, need, leaked, answer>>

(* Bug variant: spawn_proc that takes the first slot, alive or not.       *)
SpawnProcAnySlot ==
  /\ stage = "build"
  /\ need = 0
  /\ kstacks < HeapKstacks
  /\ kstacks' = kstacks + 1
  /\ got' = {}
  /\ stage' = "idle"
  /\ answer' = 0
  /\ alive' = [alive EXCEPT ![0] = TRUE]
  /\ owned' = [owned EXCEPT ![0] = got]
  /\ UNCHANGED <<allocVars, need, leaked>>

(* Bug variant: a kernel-stack allocator that never reports a full heap.  *)
SpawnProcNoHeapCheck ==
  LET free == {p \in Pids : ~alive[p]}
      pid  == CHOOSE p \in free : \A q \in free : p <= q
  IN  /\ stage = "build"
      /\ need = 0
      /\ kstacks' = kstacks + 1
      /\ got' = {}
      /\ stage' = "idle"
      /\ IF free = {}
           THEN /\ answer' = SpawnErr
                /\ leaked' = leaked \cup got
                /\ UNCHANGED <<alive, owned>>
           ELSE /\ answer' = pid
                /\ alive' = [alive EXCEPT ![pid] = TRUE]
                /\ owned' = [owned EXCEPT ![pid] = got]
                /\ UNCHANGED leaked
      /\ UNCHANGED <<allocVars, need>>

(* The kernel stack, then spawn_proc: the first slot that is not alive, or *)
(* None and PROC_SPAWN returns u64::MAX with the address space and the     *)
(* kernel stack it built left allocated.                                   *)
SpawnProc ==
  LET free == {p \in Pids : ~alive[p]}
      pid  == CHOOSE p \in free : \A q \in free : p <= q
  IN  /\ stage = "build"
      /\ need = 0
      /\ kstacks < HeapKstacks
      /\ kstacks' = kstacks + 1
      /\ got' = {}
      /\ stage' = "idle"
      /\ IF free = {}
           THEN /\ answer' = SpawnErr
                /\ leaked' = leaked \cup got
                /\ UNCHANGED <<alive, owned>>
           ELSE /\ answer' = pid
                /\ alive' = [alive EXCEPT ![pid] = TRUE]
                /\ owned' = [owned EXCEPT ![pid] = got]
                /\ UNCHANGED leaked
      /\ UNCHANGED <<allocVars, need>>

Next ==
  \/ SpawnBadProg
  \/ SpawnStart
  \/ BuildFrame
  \/ KstackOom
  \/ InstallFirst
  \/ SpawnProc

Spec == Init /\ [][Next]_vars
-----------------------------------------------------------------------------
SpawnTypeOK ==
  /\ AllocTypeOK
  /\ alive \in [Pids -> BOOLEAN]
  /\ stage \in {"first", "idle", "build", "panic"}
  /\ need \in 0 .. BuildFrames
  /\ got \subseteq Nat
  /\ owned \in [Pids -> SUBSET Nat]
  /\ leaked \subseteq Nat
  /\ kstacks \in 0 .. HeapKstacks
  /\ answer \in Pids \cup {SpawnErr, NoAnswer}

(***************************************************************************)
(* Every frame the PMM has handed out since boot belongs to exactly one    *)
(* place: the address space of one live process, the build in progress,   *)
(* or a build spawn_proc refused.  So a process's page tables and pages    *)
(* are never shared with another's, spawn_proc never installs a process    *)
(* over a live slot (the old address space would vanish from the table),  *)
(* and a dead slot holds no frames.                                       *)
(***************************************************************************)
FramesAccounted ==
  /\ handed = (UNION {owned[p] : p \in Pids}) \cup got \cup leaked
  /\ \A p, q \in Pids : p # q => owned[p] \cap owned[q] = {}
  /\ \A p \in Pids : /\ owned[p] \cap (got \cup leaked) = {}
                     /\ owned[p] # {} => alive[p]
  /\ got \cap leaked = {}

(***************************************************************************)
(* PROC_SPAWN returns a pid or u64::MAX (spec, system call table), and    *)
(* open question (c) admits only that a failed spawn leaks its trap frame *)
(* and kernel stack.  So once every slot is alive, when no spawn can       *)
(* succeed, a call should only return u64::MAX and the kernel should never *)
(* panic.                                                                  *)
(***************************************************************************)
NoPanicWhenTableFull ==
  stage = "panic" => \E p \in Pids : ~alive[p]
=============================================================================
