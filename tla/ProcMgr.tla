------------------------------ MODULE ProcMgr ------------------------------
(***************************************************************************)
(* The process manager of src/kernel/proc/process.c: PCBs kmalloc'ed and  *)
(* kept on one circular doubly linked list (process_list, links           *)
(* next/prev), current_process, and the three selection rules of its      *)
(* schedule(), switched by set_scheduler_type.                             *)
(*                                                                         *)
(* Nothing in the tree calls these functions (kernel_main uses the         *)
(* scheduler of sched.c, whose schedule() has the same name).  The model  *)
(* starts after init_process_management has made the kernel process       *)
(* (pid 0, RUNNING, the kernel page directory) current and the list's only *)
(* member, and lets a client call create_process, schedule,                *)
(* terminate_process and set_scheduler_type in any order.  A freed PCB     *)
(* keeps its last contents until kmalloc hands its block out again.        *)
(* Names, entry points, stacks' contents and the register save of          *)
(* switch_process are left out: nothing reads them.                        *)
(***************************************************************************)
EXTENDS Naturals, Sequences, FiniteSets, FiniteSetsExt

CONSTANTS
    Slots,      \* heap blocks that can hold a pcb_t
    KSlot,      \* the kernel process's PCB
    Prios,      \* priorities a client passes to create_process
    MaxPid,     \* bound on next_pid
    NULL

ASSUME KSlot \in Slots /\ NULL \notin Slots

RR   == "SCHEDULER_ROUND_ROBIN"
PRIO == "SCHEDULER_PRIORITY"
FCFS == "SCHEDULER_FCFS"

VARIABLES
    live,       \* PCB blocks allocated and not freed
    pid,        \* process->pid
    pstate,     \* process->state
    priority,   \* process->priority
    next,       \* process->next
    prev,       \* process->prev
    pdLive,     \* PCBs whose own page directory is allocated
    process_list,
    current_process,
    next_pid,
    current_scheduler

vars == << live, pid, pstate, priority, next, prev, pdLive, process_list,
           current_process, next_pid, current_scheduler >>

(***************************************************************************)
(* The list.                                                               *)
(***************************************************************************)

\* The PCBs met walking next from e until head comes round again, with
\* fuel bounding the walk on a list that does not return to head.
RECURSIVE Ring(_, _, _)
Ring(head, e, fuel) ==
    IF fuel = 0 THEN << >>
    ELSE << e >> \o (IF next[e] = head THEN << >> ELSE Ring(head, next[e], fuel - 1))

ListOrder ==
    IF process_list = NULL THEN << >>
    ELSE Ring(process_list, process_list, Cardinality(Slots) + 1)

\* add_process_to_list(s): s alone on an empty list, else in front of the
\* head, that is at the tail.
LinkNext(s) ==
    IF process_list = NULL THEN [next EXCEPT ![s] = s]
    ELSE [next EXCEPT ![s] = process_list, ![prev[process_list]] = s]

LinkPrev(s) ==
    IF process_list = NULL THEN [prev EXCEPT ![s] = s]
    ELSE [prev EXCEPT ![s] = prev[process_list], ![process_list] = s]

LinkHead(s) == IF process_list = NULL THEN s ELSE process_list

\* remove_process_from_list(s): the neighbours are joined and the head
\* moves on when it was s; a lone s empties the list.
UnlinkNext(s) == IF next[s] = s THEN next ELSE [next EXCEPT ![prev[s]] = next[s]]

UnlinkPrev(s) == IF next[s] = s THEN prev ELSE [prev EXCEPT ![next[s]] = prev[s]]

UnlinkHead(s) ==
    IF next[s] = s THEN NULL
    ELSE IF process_list = s THEN next[s] ELSE process_list

(***************************************************************************)
(* Selection.                                                              *)
(***************************************************************************)

\* The round-robin and FCFS loop: from current_process->next along next
\* while the PCB is not READY and is not current_process.  The fuel stands
\* for a walk that never meets either (current_process freed and off the
\* list): the loop does not end, and NULL is returned for it here.
RECURSIVE Follow(_, _)
Follow(e, fuel) ==
    IF fuel = 0 THEN NULL
    ELSE IF pstate[e] = "READY" \/ e = current_process THEN e
    ELSE Follow(next[e], fuel - 1)

\* The priority loop: over the list from its head, the first READY PCB of
\* least priority value.
PriorityPick ==
    LET s     == ListOrder
        ready == {k \in 1 .. Len(s) : pstate[s[k]] = "READY"}
        best  == {k \in ready : \A j \in ready : priority[s[k]] <= priority[s[j]]}
    IN  IF best = {} THEN NULL ELSE s[Min(best)]

Pick ==
    IF current_scheduler = PRIO THEN PriorityPick
    ELSE Follow(next[current_process], Cardinality(Slots) + 1)

(***************************************************************************)
(* Operations.                                                             *)
(***************************************************************************)

\* After init_process_management.
Init ==
    /\ live = {KSlot}
    /\ pid = [s \in Slots |-> 0]
    /\ pstate = [s \in Slots |-> IF s = KSlot THEN "RUNNING" ELSE "READY"]
    /\ priority = [s \in Slots |-> 10]
    /\ next = [s \in Slots |-> IF s = KSlot THEN KSlot ELSE NULL]
    /\ prev = [s \in Slots |-> IF s = KSlot THEN KSlot ELSE NULL]
    /\ pdLive = {}
    /\ process_list = KSlot
    /\ current_process = KSlot
    /\ next_pid = 1
    /\ current_scheduler = RR

\* create_process(name, entry, prio): kmalloc the PCB (a failure changes
\* nothing), take a pid, kmalloc a page directory and a stack; a failure
\* of either frees what was taken before it but not the pid.  On success
\* the READY process joins the list.
CreateProcess(prio) ==
    /\ next_pid < MaxPid
    /\ \E s \in Slots \ live :
          \/ /\ next_pid' = next_pid + 1
             /\ UNCHANGED << live, pid, pstate, priority, next, prev, pdLive,
                             process_list, current_process, current_scheduler >>
          \/ /\ next_pid' = next_pid + 1
             /\ live' = live \cup {s}
             /\ pid' = [pid EXCEPT ![s] = next_pid]
             /\ pstate' = [pstate EXCEPT ![s] = "READY"]
             /\ priority' = [priority EXCEPT ![s] = prio]
             /\ pdLive' = pdLive \cup {s}
             /\ next' = LinkNext(s)
             /\ prev' = LinkPrev(s)
             /\ process_list' = LinkHead(s)
             /\ UNCHANGED << current_process, current_scheduler >>

\* schedule(): on a non-empty list, the PCB the current rule picks; when
\* it is READY and not current_process, switch_process makes it current.
\* No state field is changed by either.
Schedule ==
    /\ process_list # NULL
    /\ LET n == Pick
       IN  current_process' =
              IF n # NULL /\ pstate[n] = "READY" /\ n # current_process
              THEN n ELSE current_process
    /\ UNCHANGED << live, pid, pstate, priority, next, prev, pdLive,
                    process_list, next_pid, current_scheduler >>

\* terminate_process(x): refused for pid 0; else the first PCB on the list
\* with pid x is marked TERMINATED, its page directory kfree'd, taken off
\* the list and kfree'd, whether or not it is current_process.
TerminateProcess(x) ==
    LET s  == ListOrder
        ks == {k \in 1 .. Len(s) : pid[s[k]] = x}
        t  == s[Min(ks)]
    IN  /\ x # 0
        /\ ks # {}
        /\ pstate' = [pstate EXCEPT ![t] = "TERMINATED"]
        /\ pdLive' = pdLive \ {t}
        /\ next' = UnlinkNext(t)
        /\ prev' = UnlinkPrev(t)
        /\ process_list' = UnlinkHead(t)
        /\ live' = live \ {t}
        /\ UNCHANGED << pid, priority, current_process, next_pid, current_scheduler >>

SetSchedulerType(ty) ==
    /\ current_scheduler' = ty
    /\ UNCHANGED << live, pid, pstate, priority, next, prev, pdLive,
                    process_list, current_process, next_pid >>

Next ==
    \/ \E p \in Prios : CreateProcess(p)
    \/ Schedule
    \/ \E x \in 1 .. MaxPid : TerminateProcess(x)
    \/ \E ty \in {RR, PRIO, FCFS} : SetSchedulerType(ty)

Spec == Init /\ [][Next]_vars

(***************************************************************************)
(* Properties.                                                             *)
(***************************************************************************)

TypeOK ==
    /\ live \subseteq Slots /\ pdLive \subseteq Slots
    /\ pid \in [Slots -> 0 .. MaxPid]
    /\ pstate \in [Slots -> {"RUNNING", "READY", "BLOCKED", "ZOMBIE", "TERMINATED"}]
    /\ next \in [Slots -> Slots \cup {NULL}] /\ prev \in [Slots -> Slots \cup {NULL}]
    /\ process_list \in Slots \cup {NULL}
    /\ current_process \in Slots
    /\ current_scheduler \in {RR, PRIO, FCFS}

\* Spec section 2 (terminate): a task record is not freed by terminating
\* it, and never while the task itself is still executing.  terminate_process
\* kfrees the PCB at once, also when it is current_process, which schedule()
\* then dereferences.
CurrentLive == current_process \in live

=============================================================================
