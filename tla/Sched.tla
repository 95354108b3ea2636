------------------------------- MODULE Sched -------------------------------
(***************************************************************************)
(* The priority scheduler of src/kernel/proc/sched.c with the callers that *)
(* change its state: the timer interrupt, task_exit (sys_exit), sys_fork   *)
(* (src/kernel/syscall.c) and the kill/pause/resume actions of the AI      *)
(* executor (src/kernel/executor.c).                                       *)
(*                                                                         *)
(* A task is a PCB slot of the kernel heap.  The ready queues are the      *)
(* intrusive singly linked lists of the code: ready_queue[p] is the head   *)
(* and sibling_next the link, so that pushing a task that is already       *)
(* linked behaves as it does in C.  kmalloc is the environment here: it   *)
(* may fail at any call (the heap is shared with the file systems and the  *)
(* loader), and a PCB can only be handed out while a slot is free.  PCBs   *)
(* are never freed by this code, so slots are never reused.                *)
(*                                                                         *)
(* Left out as data: register contexts (switch_to has no body in the       *)
(* tree), names, total_runtime, last_scheduled, parent links,              *)
(* system_ticks (read only by sys_sleep, not modelled yet).                *)
(***************************************************************************)
EXTENDS Naturals, Sequences, FiniteSets, Functions, TLC

CONSTANTS
    Slots,          \* PCB addresses kmalloc can return
    IdleSlot,       \* the PCB sched_init allocates for the idle task
    InitSlot,       \* the PCB sched_init allocates for init
    MAX_PRIORITY,   \* 16 in proc/task.h
    TIME_SLICE,     \* 10 in sched.c
    MaxPid,         \* bound on next_pid
    KernelPD,       \* get_kernel_page_dir()
    NULL

ASSUME IdleSlot \in Slots /\ InitSlot \in Slots /\ IdleSlot # InitSlot
ASSUME 5 < MAX_PRIORITY
ASSUME TIME_SLICE \in Nat \ {0}

States == {"RUNNING", "READY", "BLOCKED", "ZOMBIE"}

VARIABLES
    tasks,          \* PCB slots handed out and published
    pid,            \* task->pid
    state,          \* task->state
    priority,       \* task->priority
    time_slice,     \* task->time_slice
    sibling_next,   \* task->sibling_next
    page_dir,       \* task->page_dir: KernelPD or the slot whose create_task
                    \* kmalloc'ed the directory
    pdLive,         \* page directories kmalloc'ed and not yet kfree'd
    ready_queue,    \* ready_queue[MAX_PRIORITY]
    current_task,   \* current_task
    next_pid        \* next_pid

vars == << tasks, pid, state, priority, time_slice, sibling_next, page_dir,
           pdLive, ready_queue, current_task, next_pid >>

Prio == 0 .. (MAX_PRIORITY - 1)

(***************************************************************************)
(* The ready lists.                                                        *)
(***************************************************************************)

\* The tasks reached from h by following sibling_next, at most n of them.
RECURSIVE Walk(_, _, _)
Walk(nx, h, n) ==
    IF h = NULL \/ n = 0 THEN << >> ELSE << h >> \o Walk(nx, nx[h], n - 1)

\* The list of bucket p, cut after one more element than there are slots so
\* that a cycle shows as a repeated element.
Queue(p) == Walk(sibling_next, ready_queue[p], Cardinality(Slots) + 1)

\* The tasks linked in some ready list.
Linked == UNION { Range(Queue(p)) : p \in {q \in Prio : ready_queue[q] # NULL} }

Queued(t) == t \in Linked

\* All queued tasks in the order the executor searches them: buckets from
\* 0 upwards, each list from its head.
RECURSIVE SearchOrder(_)
SearchOrder(p) == IF p = MAX_PRIORITY THEN << >> ELSE Queue(p) \o SearchOrder(p + 1)

\* The first queued task with pid x, NULL if none.
FindQueued(x) ==
    LET s == SearchOrder(0)
    IN  IF \E i \in 1 .. Len(s) : pid[s[i]] = x
        THEN s[CHOOSE i \in 1 .. Len(s) :
                  pid[s[i]] = x /\ \A j \in 1 .. (i - 1) : pid[s[j]] # x]
        ELSE NULL

\* The highest non-empty bucket of rq at or below p, -1 if all are empty
\* (the loop for i = MAX_PRIORITY - 1 down to 0).
RECURSIVE ScanDown(_, _)
ScanDown(rq, p) == IF p < 0 \/ rq[p] # NULL THEN p ELSE ScanDown(rq, p - 1)

TopBucket(rq) == ScanDown(rq, MAX_PRIORITY - 1)

FreeSlots == Slots \ tasks

(***************************************************************************)
(* sched_init, run at boot (kernel_main calls tasking_init, which the     *)
(* tree does not define; sched_init is this scheduler's initialiser): the  *)
(* idle task (pid 0) in bucket 0, init (pid 1, priority 5) created by      *)
(* create_task and put in bucket 5, current_task set to the idle task,     *)
(* which stays READY and stays in bucket 0.  Nothing calls                 *)
(* init_test_tasks, so after boot sys_fork is the only caller of           *)
(* create_task.                                                            *)
(***************************************************************************)
Init ==
    /\ tasks = {IdleSlot, InitSlot}
    /\ pid = [t \in Slots |-> IF t = InitSlot THEN 1 ELSE 0]
    /\ state = [t \in Slots |-> "READY"]
    /\ priority = [t \in Slots |-> IF t = InitSlot THEN 5 ELSE 0]
    /\ time_slice = [t \in Slots |-> TIME_SLICE]
    /\ sibling_next = [t \in Slots |-> NULL]
    /\ page_dir = [t \in Slots |-> IF t = InitSlot THEN InitSlot ELSE KernelPD]
    /\ pdLive = {InitSlot}
    /\ ready_queue = [p \in Prio |-> CASE p = 0 -> IdleSlot
                                       [] p = 5 -> InitSlot
                                       [] OTHER -> NULL]
    /\ current_task = IdleSlot
    /\ next_pid = 2

(***************************************************************************)
(* schedule(), entered with the task states st (task_exit marks the       *)
(* caller ZOMBIE first).  Charge the tick to current_task; on an exhausted *)
(* slice make it READY, refill the slice and push it on the head of its    *)
(* bucket.  Then pop the head of the highest non-empty bucket, or create a *)
(* new idle task if there is none, mark it RUNNING and make it current.    *)
(* A current task with slice left is neither pushed back nor remembered.  *)
(***************************************************************************)

\* Removing the head of bucket p (ready_queue[i] = next_task->sibling_next).
Pop(rq, nx, p) == [rq EXCEPT ![p] = nx[rq[p]]]

\* Mutation: the exhausted task is not pushed back on its bucket.
Mut_Requeue(rq, c) == rq

\* Pushing the exhausted task c on the head of its bucket.
Requeue(rq, c) == [rq EXCEPT ![priority[c]] = c]

\* Mutation: the signed test of a slice that is unsigned in task_t.
Mut_Exhausted(ts) == ts < 0

\* Mutation: the slice is compared with its refill value, so every tick
\* uses it up.
Mut_ExhaustedEveryTick(ts) == ts < TIME_SLICE

\* The time_slice <= 0 test on the uint32_t slice after time_slice--.
Exhausted(ts) == ts = 0

\* create_idle_task: a fresh PCB s (and a kernel stack) with pid 0,
\* priority 0 and the kernel page directory, in no bucket.  Its slice is
\* TIME_SLICE, which a never-used slot already holds.
CreateIdleTask(s) ==
    /\ tasks' = tasks \cup {s}
    /\ pid' = [pid EXCEPT ![s] = 0]
    /\ priority' = [priority EXCEPT ![s] = 0]
    /\ page_dir' = [page_dir EXCEPT ![s] = KernelPD]

Schedule(st) ==
    LET c     == current_task
        out   == Exhausted(time_slice[c] - 1)
        cur1  == IF out THEN NULL ELSE c
        st1   == IF out THEN [st EXCEPT ![c] = "READY"] ELSE st
        ts1   == [time_slice EXCEPT ![c] = IF out THEN TIME_SLICE ELSE @ - 1]
        nx1   == IF out THEN [sibling_next EXCEPT ![c] = ready_queue[priority[c]]]
                 ELSE sibling_next
        rq1   == IF out THEN Requeue(ready_queue, c) ELSE ready_queue
        top   == TopBucket(rq1)
        h     == rq1[top]
    IN
    /\ c # NULL
    /\ time_slice' = ts1
    /\ \/ /\ top # -1
          /\ ready_queue' = Pop(rq1, nx1, top)
          /\ sibling_next' = [nx1 EXCEPT ![h] = NULL]
          /\ state' = [st1 EXCEPT ![h] = "RUNNING"]
          /\ current_task' = h
          /\ UNCHANGED << tasks, pid, priority, page_dir, next_pid >>
       \* create_idle_task succeeds: a fresh pid-0 PCB, in no bucket.
       \/ /\ top = -1
          /\ \E s \in FreeSlots :
                /\ CreateIdleTask(s)
                /\ state' = [st1 EXCEPT ![s] = "RUNNING"]
                /\ current_task' = s
                /\ UNCHANGED << ready_queue, sibling_next, next_pid >>
       \* create_idle_task fails (PCB or stack kmalloc): return.
       \/ /\ top = -1
          /\ state' = st1
          /\ current_task' = cur1
          /\ UNCHANGED << tasks, pid, priority, page_dir, ready_queue,
                          sibling_next, next_pid >>

\* timer_interrupt_handler: save registers (data), schedule().
Tick ==
    /\ Schedule(state)
    /\ UNCHANGED pdLive

(***************************************************************************)
(* create_task(entry, name, prio): kmalloc the PCB, take a pid, kmalloc a  *)
(* page directory (a copy of the kernel's), kmalloc a kernel stack, push   *)
(* the task on the head of its bucket.  A failed kmalloc unwinds the ones  *)
(* before it; a pid taken before the failure is not given back.            *)
(***************************************************************************)

\* The create_task steps on success, for PCB s with page directory dir.
Created(s, prio, dir) ==
    /\ next_pid < MaxPid
    /\ tasks' = tasks \cup {s}
    /\ pid' = [pid EXCEPT ![s] = next_pid]
    /\ next_pid' = next_pid + 1
    /\ state' = [state EXCEPT ![s] = "READY"]
    /\ priority' = [priority EXCEPT ![s] = prio]
    /\ time_slice' = [time_slice EXCEPT ![s] = TIME_SLICE]
    /\ page_dir' = [page_dir EXCEPT ![s] = dir]
    /\ pdLive' = pdLive \cup {s}
    /\ sibling_next' = [sibling_next EXCEPT ![s] = ready_queue[prio]]
    /\ ready_queue' = [ready_queue EXCEPT ![prio] = s]
    /\ UNCHANGED current_task

\* A later kmalloc of create_task failed after the pid was taken.
CreateFailedLate ==
    /\ next_pid < MaxPid
    /\ FreeSlots # {}
    /\ next_pid' = next_pid + 1
    /\ UNCHANGED << tasks, pid, state, priority, time_slice, sibling_next,
                    page_dir, pdLive, ready_queue, current_task >>

\* Mutation: the child keeps the page directory create_task gave it.
Mut_ForkPageDir(s) == s

\* sys_fork_handler's page directory for the child: the parent's.
ForkPageDir(s) == page_dir[current_task]

\* sys_fork_handler: create_task at the caller's priority, then copy the
\* caller's page_dir pointer into the child (the child's own directory is
\* left allocated and unreferenced).  The idle tasks only halt and never
\* make the call.
Fork ==
    /\ pid[current_task] # 0
    /\ \/ \E s \in FreeSlots : Created(s, priority[current_task], ForkPageDir(s))
       \/ CreateFailedLate

(***************************************************************************)
(* task_exit(status) of the current task (sys_exit, or the executor's kill *)
(* of the current pid): mark it ZOMBIE, kfree its page directory unless it *)
(* is the kernel's, then schedule().  The PCB, its stack and its links are *)
(* left as they are.                                                       *)
(***************************************************************************)
TaskExit ==
    LET c == current_task
    IN  /\ pdLive' = IF page_dir[c] # KernelPD THEN pdLive \ {page_dir[c]} ELSE pdLive
        /\ Schedule([state EXCEPT ![c] = "ZOMBIE"])

(***************************************************************************)
(* execute_ai_action: kill, pause or resume pid x after the user's 'y'.   *)
(* Kill of the current pid is task_exit; otherwise the first queued task   *)
(* with pid x gets the new state and stays linked in its bucket.           *)
(***************************************************************************)
SetQueuedState(x, s) ==
    LET t == FindQueued(x)
    IN  /\ t # NULL
        /\ state' = [state EXCEPT ![t] = s]
        /\ UNCHANGED << tasks, pid, priority, time_slice, sibling_next,
                        page_dir, pdLive, ready_queue, current_task, next_pid >>

\* sys_exit_handler: task_exit of the caller.  The idle tasks only halt and
\* never make the call.
SysExit ==
    /\ pid[current_task] # 0
    /\ TaskExit

Kill(x) ==
    \/ pid[current_task] = x /\ TaskExit
    \/ pid[current_task] # x /\ SetQueuedState(x, "ZOMBIE")

Pause(x) == SetQueuedState(x, "BLOCKED")

Resume(x) == SetQueuedState(x, "READY")

\* The pids an executor action can name that select something.
Pids == {pid[t] : t \in tasks}

Next ==
    \/ Tick
    \/ Fork
    \/ SysExit
    \/ \E x \in Pids : Kill(x)
    \/ \E x \in Pids : Pause(x)
    \/ \E x \in Pids : Resume(x)

Spec == Init /\ [][Next]_vars

(***************************************************************************)
(* Properties.                                                             *)
(***************************************************************************)

TypeOK ==
    /\ tasks \subseteq Slots
    /\ pid \in [Slots -> Nat]
    /\ state \in [Slots -> States]
    /\ priority \in [Slots -> Prio]
    /\ time_slice \in [Slots -> 1 .. TIME_SLICE]
    /\ sibling_next \in [Slots -> Slots \cup {NULL}]
    /\ page_dir \in [Slots -> Slots \cup {KernelPD}]
    /\ pdLive \subseteq Slots
    /\ ready_queue \in [Prio -> Slots \cup {NULL}]
    /\ current_task \in tasks \cup {NULL}
    /\ next_pid \in 0 .. MaxPid

\* current_task always names a task: schedule() sets it to NULL only when
\* it has just pushed the exhausted task on a bucket, so the scan that
\* follows finds a task before the idle-creation path (which returns with
\* current_task as it is) can be taken.
CurrentNeverNull == current_task # NULL

\* The intrusive ready lists stay well formed although schedule() pushes
\* the exhausted task without checking whether it is already linked, and
\* sched_init leaves the idle task current and linked in bucket 0 at once:
\* every list ends in NULL, no task is linked twice (in one list or in
\* two), and a task sits in the bucket of its own priority.
ReadyListsWellFormed ==
    LET all == SearchOrder(0)
    IN  /\ IsInjective(all)
        /\ \A p \in Prio :
             /\ Queue(p) # << >> => sibling_next[Queue(p)[Len(Queue(p))]] = NULL
             /\ \A i \in 1 .. Len(Queue(p)) : priority[Queue(p)[i]] = p

\* Every task that has not exited can still be scheduled: it is the
\* current task or linked in a ready list.  schedule() switches away from
\* a current task whose slice is not used up without pushing it back.
NoLostTask ==
    \A t \in tasks : state[t] # "ZOMBIE" => t = current_task \/ Queued(t)

\* Spec section 4.5: ZOMBIE is terminal.  A task that exits or is killed
\* stays linked (kill) or is pushed back when its slice runs out inside
\* task_exit's schedule(), and is later popped and made RUNNING.
ZombieIsTerminal ==
    [][\A t \in tasks : state[t] = "ZOMBIE" => state'[t] = "ZOMBIE"]_vars

\* A task that has not exited never uses a page directory that has been
\* kfree'd.  sys_fork gives the child the parent's directory pointer, and
\* task_exit of either kfrees it under the other.
PageDirNotFreedInUse ==
    \A t \in tasks : state[t] # "ZOMBIE" => page_dir[t] \in pdLive \cup {KernelPD}

=============================================================================
