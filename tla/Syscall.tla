------------------------------ MODULE Syscall ------------------------------
(***************************************************************************)
(* The scheduler of Sched composed with the system calls of                *)
(* src/kernel/syscall.c that a task makes on it: sys_sleep, which blocks   *)
(* the caller and calls schedule() until system_ticks passes a deadline,   *)
(* sys_sbrk, which moves the caller's user heap end, and sys_execve, which *)
(* goes through the ELF loader (src/kernel/loader/elf.c) and the VFS       *)
(* (src/kernel/fs/vfs.c).  sys_fork now also copies the parent's heap      *)
(* bounds into the child, and the timer interrupt counts system_ticks.     *)
(*                                                                         *)
(* A task inside sys_sleep's loop is marked by its deadline in sleep_end;  *)
(* when schedule() switches to another task the loop is suspended, and it  *)
(* goes on when the task is current again (switch_to has no body in the    *)
(* tree; it is taken to resume the task where it stopped).  A task in the  *)
(* loop makes no other system call.  32-bit arithmetic is scaled: ticks    *)
(* wrap at 2^TickBits and addresses at 2^AddrBits.  memory_usage_kb, which *)
(* sys_sbrk and sys_fork also write, is read by nothing and left out.      *)
(***************************************************************************)
EXTENDS Sched, Integers

CONSTANTS
    TickBits,       \* width of system_ticks (uint32_t), scaled
    HZ,             \* ticks per second (100 in sys_sleep), scaled
    Seconds,        \* arguments of sys_sleep
    AddrBits,       \* width of heap_end (uint32_t), scaled
    UserHeapBase,   \* 0x08048000 + 0x1000, scaled
    KernelBase,     \* 0xC0000000, scaled
    Incs            \* increments passed to sys_sbrk (intptr_t)

ASSUME UserHeapBase \in 1 .. (KernelBase - 1) /\ KernelBase < 2 ^ AddrBits

TickMod == 2 ^ TickBits
AddrMod == 2 ^ AddrBits

\* sleep_end of a task that is not inside sys_sleep.
NONE == -1

VARIABLES
    system_ticks,   \* system_ticks of sched.c
    sleep_end,      \* end_ticks of a task inside sys_sleep's loop, or NONE
    heap_start,     \* task->heap_start
    heap_end        \* task->heap_end

sysVars == << system_ticks, sleep_end, heap_start, heap_end >>

svars == << vars, sysVars >>

(***************************************************************************)
(* The ELF loader and the VFS under it.                                    *)
(***************************************************************************)

\* sizeof(elf32_ehdr_t).
EhdrSize == 52

\* vfs_read: a stub that reports no data.
VfsRead(inode, count) == 0

\* read_file: the loader's read goes to vfs_read.
ReadFile(inode, count) == VfsRead(inode, count)

\* vfs_path_resolve: the global root_inode, which nothing sets (vfs_init is
\* never called, and vfs_mount's "root_inode = root_inode" assigns its own
\* parameter).
VfsPathResolve == NULL

\* vfs_open: the resolve never fails, so vfs_open returns 0 with the
\* resolved inode.
VfsOpen == 0

\* elf_load: open, then read the header, which returns 0 bytes instead of
\* sizeof(ehdr), so the load fails before the header is looked at.  The
\* header checks and the segment loop after it are not reached.
ElfLoad ==
    IF VfsOpen < 0 THEN -1
    ELSE IF ReadFile(VfsPathResolve, EhdrSize) # EhdrSize THEN -1
    ELSE 0

(***************************************************************************)
(* The composed system.                                                    *)
(***************************************************************************)

SInit ==
    /\ Init
    /\ system_ticks = 0
    /\ sleep_end = [t \in Slots |-> NONE]
    /\ heap_start = [t \in Slots |-> 0]
    /\ heap_end = [t \in Slots |-> 0]

\* The current task may make a system call: it is not an idle task (which
\* only halts) and is not inside sys_sleep's loop.
CanCall == pid[current_task] # 0 /\ sleep_end[current_task] = NONE

\* timer_interrupt_handler: system_ticks++ (wrapping), then as Tick.
STick ==
    /\ Tick
    /\ system_ticks' = (system_ticks + 1) % TickMod
    /\ UNCHANGED << sleep_end, heap_start, heap_end >>

\* sys_fork_handler: as Fork, and the child (the PCB the step published)
\* gets the parent's heap_start and heap_end.
SFork ==
    LET child(t) == t \in tasks' \ tasks
    IN  /\ CanCall
        /\ Fork
        /\ heap_start' = [t \in Slots |-> IF child(t) THEN heap_start[current_task] ELSE heap_start[t]]
        /\ heap_end' = [t \in Slots |-> IF child(t) THEN heap_end[current_task] ELSE heap_end[t]]
        /\ UNCHANGED << system_ticks, sleep_end >>

SSysExit ==
    /\ CanCall
    /\ SysExit
    /\ UNCHANGED sysVars

\* sys_sleep_handler, entry: end_ticks = start + seconds * 100 in 32 bits,
\* and the caller is marked BLOCKED.
SysSleep(sec) ==
    LET c == current_task
    IN  /\ CanCall
        /\ sleep_end' = [sleep_end EXCEPT ![c] = (system_ticks + sec * HZ) % TickMod]
        /\ state' = [state EXCEPT ![c] = "BLOCKED"]
        /\ UNCHANGED << tasks, pid, priority, time_slice, sibling_next, page_dir,
                        pdLive, ready_queue, current_task, next_pid,
                        system_ticks, heap_start, heap_end >>

\* One turn of the loop while get_system_ticks() < end_ticks: schedule(),
\* with the caller's state as it now is.
SleepWait ==
    LET c == current_task
    IN  /\ sleep_end[c] # NONE
        /\ system_ticks < sleep_end[c]
        /\ Schedule(state)
        /\ UNCHANGED << pdLive, system_ticks, sleep_end, heap_start, heap_end >>

\* The loop ends: the caller is marked READY and sys_sleep returns 0.
SleepWake ==
    LET c == current_task
    IN  /\ sleep_end[c] # NONE
        /\ system_ticks >= sleep_end[c]
        /\ state' = [state EXCEPT ![c] = "READY"]
        /\ sleep_end' = [sleep_end EXCEPT ![c] = NONE]
        /\ UNCHANGED << tasks, pid, priority, time_slice, sibling_next, page_dir,
                        pdLive, ready_queue, current_task, next_pid,
                        system_ticks, heap_start, heap_end >>

\* The check new_heap_end > 0xC0000000, on the wrapped 32-bit sum.
SbrkRefused(new) == new > KernelBase

\* sys_sbrk_handler(increment): on the first call (heap_start = 0) the heap
\* is placed at its base, and heap_end with it, before the check.  The new
\* end old + increment is computed in 32 bits and refused when it is above
\* 0xC0000000; else it becomes heap_end.
SysSbrk(inc) ==
    LET c     == current_task
        first == heap_start[c] = 0
        old   == IF first THEN UserHeapBase ELSE heap_end[c]
        new   == (old + inc) % AddrMod
    IN  /\ CanCall
        /\ heap_start' = IF first THEN [heap_start EXCEPT ![c] = UserHeapBase] ELSE heap_start
        /\ heap_end' = [heap_end EXCEPT ![c] = IF SbrkRefused(new) THEN old ELSE new]
        /\ UNCHANGED << vars, system_ticks, sleep_end >>

\* sys_execve_handler: elf_load fails, so -1 is returned and the caller's
\* name and entry point are left as they were.
SysExecve ==
    /\ CanCall
    /\ ElfLoad < 0
    /\ UNCHANGED svars

SNext ==
    \/ STick
    \/ SFork
    \/ SSysExit
    \/ \E sec \in Seconds : SysSleep(sec)
    \/ SleepWait
    \/ SleepWake
    \/ \E inc \in Incs : SysSbrk(inc)
    \/ SysExecve
    \/ /\ \E x \in Pids : Kill(x) \/ Pause(x) \/ Resume(x)
       /\ UNCHANGED sysVars

SSpec == SInit /\ [][SNext]_svars

(***************************************************************************)
(* Properties.                                                             *)
(***************************************************************************)

SysTypeOK ==
    /\ TypeOK
    /\ system_ticks \in 0 .. (TickMod - 1)
    /\ sleep_end \in [Slots -> {NONE} \cup 0 .. (TickMod - 1)]
    /\ heap_start \in [Slots -> {0, UserHeapBase}]
    /\ heap_end \in [Slots -> 0 .. (AddrMod - 1)]

=============================================================================
