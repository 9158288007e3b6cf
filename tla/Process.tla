------------------------------ MODULE Process ------------------------------
(***************************************************************************)
(* The process table, the scheduler, signals, waiting and wait queues:     *)
(* kernel/process/process.c, signals.c, scheduler.c and pcb/.              *)
(*                                                                         *)
(* A kernel routine is an operator from a kernel state to the next one, so *)
(* that an action is a whole handler with everything it calls.  Kernel     *)
(* code is never preempted (scheduler_tick switches only when the tick     *)
(* interrupted ring 3), hence a routine runs to its return or to the       *)
(* process_yield that switches away; what a switched-out process does next *)
(* is in its `pc'.  Only CPU 0 schedules: the application processors count *)
(* themselves online and halt (kernel/arch/x86/cpu/apic.c:274).            *)
(***************************************************************************)
EXTENDS Integers, FiniteSets, Sequences

CONSTANTS
    N,              \* MAX_PROCESSES; slot 0 is the boot process, slot 1 is PID 1
    Prios,          \* the priorities in use, a subset of 0 .. 7
    CreatePrios,    \* the priorities processes are created with
    NServices,      \* kernel services created at boot, in slots 2 and up
    NCpus,          \* apic_online_cpu_count()
    Queues,         \* the process_wait_queue_t objects
    Signals,        \* the signals sent by kill, of "INT", "SEGV", "KILL"
    Calls,          \* the kernel entry points the environment uses
    CreateOutcomes, \* how process_create's allocations may end
    PidMod,         \* PIDs are u32: 2^32
    MaxPid,         \* bound: no process is created once next_pid is above it
    TickMod,        \* tick counts are u32: 2^32
    Deadlines       \* the waits, in ticks, sleepers ask for; 0 for none

Slots == 0 .. N - 1
Cpus == 0 .. NCpus - 1
BootPid == PidMod - 1
NULL == -1

ASSUME ProcessAssumption ==
    /\ N \in Nat /\ N > 2 /\ NCpus \in Nat \ {0}
    /\ Prios \subseteq 0 .. 7 /\ {0, 4} \subseteq Prios /\ CreatePrios \subseteq Prios
    /\ NServices \in Nat /\ NServices + 2 <= N
    /\ Signals \subseteq {"INT", "SEGV", "KILL"}
    /\ CreateOutcomes \subseteq {"ok", "no directory", "no user stack", "no kernel stack", "oom"}
    /\ PidMod \in Nat /\ PidMod > N + 1 /\ MaxPid \in Nat /\ MaxPid < PidMod
    /\ TickMod \in Nat /\ TickMod > 1 /\ Deadlines \subseteq 0 .. TickMod - 1
    /\ NULL \notin Queues

L == INSTANCE LinkedQueue WITH Element <- Slots

VARIABLES
    procs,              \* processes[]: the fields of each process_t
    current_process,
    ready,              \* ready_heads and ready_tails of each <<cpu, priority>>
    ready_next,
    waitq,              \* head and tail of each wait queue
    wait_next,
    process_count,
    next_pid,
    process_table_lock,
    ticks               \* pit_get_ticks()

vars == <<procs, current_process, ready, ready_next, waitq, wait_next,
          process_count, next_pid, process_table_lock, ticks>>

States == {"READY", "RUNNING", "WAITING", "ZOMBIE"}

(***************************************************************************)
(* Where a process continues when it is given the CPU: "run" is ordinary   *)
(* code, free to make any call; "waitpid" is inside process_waitpid's      *)
(* loop; "halt" is the endless loop at the end of process_exit; "spin" is  *)
(* spin_lock on a lock that is held, or a walk of a circular queue.  Of    *)
(* the exit code only whether it is SIGKILL is kept, in `killed'; `user'   *)
(* says that the saved code segment is ring 3's.                           *)
(***************************************************************************)
Places == {"run", "waitpid", "halt", "spin"}

Process == [pid : 0 .. PidMod - 1, parent_pid : 0 .. PidMod - 1, state : States,
            priority : Prios, cpu : Cpus, ready_queued : BOOLEAN,
            wait_queue : Queues \cup {NULL}, deadline : 0 .. TickMod - 1, timed : BOOLEAN,
            waiting_for : -1 .. PidMod - 1, pending : SUBSET Signals,
            killed : BOOLEAN, user : BOOLEAN, pc : Places]

\* pcb_initialize: the PCB zeroed, a zombie that waits for nobody.
FreshPcb == [pid |-> 0, parent_pid |-> 0, state |-> "ZOMBIE", priority |-> 0, cpu |-> 0,
             ready_queued |-> FALSE, wait_queue |-> NULL, deadline |-> 0, timed |-> FALSE,
             waiting_for |-> -1, pending |-> {}, killed |-> FALSE, user |-> FALSE, pc |-> "run"]

Here == [p |-> procs, cur |-> current_process, ready |-> ready, rnext |-> ready_next,
         wq |-> waitq, wnext |-> wait_next, count |-> process_count, next |-> next_pid,
         lock |-> process_table_lock, now |-> ticks]

Become(kernel) ==
    \E k \in {kernel} :
        /\ procs' = k.p /\ current_process' = k.cur
        /\ ready' = k.ready /\ ready_next' = k.rnext
        /\ waitq' = k.wq /\ wait_next' = k.wnext
        /\ process_count' = k.count /\ next_pid' = k.next
        /\ process_table_lock' = k.lock /\ ticks' = k.now

Empty == [head |-> NULL, tail |-> NULL]

Services == 2 .. 1 + NServices
ServiceQueue == <<0, 4>>

(***************************************************************************)
(* process_init, then register_kernel_services on one CPU: the boot slot,  *)
(* PID 1 running in slot 1, the services ready in order, all else free.    *)
(***************************************************************************)
Init ==
    /\ procs = [i \in Slots |->
          CASE i = 0 -> [FreshPcb EXCEPT !.pid = BootPid]
            [] i = 1 -> [FreshPcb EXCEPT !.pid = 1, !.state = "RUNNING"]
            [] i \in Services -> [FreshPcb EXCEPT !.pid = i, !.parent_pid = 1, !.state = "READY",
                                                  !.priority = 4, !.ready_queued = TRUE]
            [] OTHER -> FreshPcb]
    /\ current_process = 1
    /\ ready = [c \in Cpus \X Prios |->
          IF c = ServiceQueue /\ NServices > 0 THEN [head |-> 2, tail |-> 1 + NServices] ELSE Empty]
    /\ ready_next = [i \in Slots |-> IF i \in Services /\ i + 1 \in Services THEN i + 1 ELSE NULL]
    /\ waitq = [q \in Queues |-> Empty]
    /\ wait_next = [i \in Slots |-> NULL]
    /\ process_count = 1 + NServices
    /\ next_pid = 2 + NServices
    /\ process_table_lock = FALSE
    /\ ticks = 0
-----------------------------------------------------------------------------
(***************************************************************************)
(* Looking up the table: the first slot that matches, NULL when none does. *)
(***************************************************************************)
First(S) == IF S = {} THEN NULL ELSE CHOOSE i \in S : \A j \in S : i <= j

process_get(k, pid) ==
    First({i \in Slots : k.p[i].pid = pid /\ k.p[i].state # "ZOMBIE"})

process_get_any(k, pid) == First({i \in Slots : k.p[i].pid = pid})

process_find_child(k, parent, pid) ==
    First({i \in Slots : /\ k.p[i].pid # 0 /\ k.p[i].parent_pid = parent
                         /\ pid = -1 \/ k.p[i].pid = pid})
-----------------------------------------------------------------------------
(***************************************************************************)
(* The run queues.                                                         *)
(***************************************************************************)
RunQueue(k, c) == [head |-> k.ready[c].head, tail |-> k.ready[c].tail, next |-> k.rnext]

SetRunQueue(k, c, l) ==
    [k EXCEPT !.ready[c] = [head |-> l.head, tail |-> l.tail], !.rnext = l.next]

QueueOf(k, i) == <<k.p[i].cpu, k.p[i].priority>>

process_queue_length(k, cpu) ==
    LET length[n \in Nat] ==
            IF n = 0 THEN 0
            ELSE length[n - 1] + IF n - 1 \in Prios
                                 THEN L!Length(RunQueue(k, <<cpu, n - 1>>)) ELSE 0
    IN  length[8]

\* Mutant: the tail pointer is left at the removed process.
BugRemoveKeepsTail(k, i) ==
    IF ~ k.p[i].ready_queued THEN k
    ELSE LET c == QueueOf(k, i)
             l == L!Unlink(RunQueue(k, c), i)
         IN  [SetRunQueue(k, c, [l EXCEPT !.tail = k.ready[c].tail]) EXCEPT !.p[i].ready_queued = FALSE]

process_ready_remove(k, i) ==
    IF ~ k.p[i].ready_queued THEN k
    ELSE [SetRunQueue(k, QueueOf(k, i), L!Unlink(RunQueue(k, QueueOf(k, i)), i))
             EXCEPT !.p[i].ready_queued = FALSE]

\* Mutant: the process is put at the front of its queue.
BugEnqueueFront(k, i) ==
    IF k.p[i].state # "READY" \/ k.p[i].ready_queued THEN k
    ELSE LET c == QueueOf(k, i)
             l == RunQueue(k, c)
         IN  [SetRunQueue(k, c, [head |-> i, tail |-> IF l.tail = NULL THEN i ELSE l.tail,
                                 next |-> [l.next EXCEPT ![i] = l.head]])
                 EXCEPT !.p[i].ready_queued = TRUE]

process_ready_enqueue(k, i) ==
    IF k.p[i].state # "READY" \/ k.p[i].ready_queued THEN k
    ELSE [SetRunQueue(k, QueueOf(k, i), L!Append1(RunQueue(k, QueueOf(k, i)), i))
             EXCEPT !.p[i].ready_queued = TRUE]

\* The head of CPU 0's best non-empty queue.
process_ready_peek(k) ==
    LET busy == {pr \in Prios : k.ready[<<0, pr>>].head # NULL} IN
    IF busy = {} THEN NULL ELSE k.ready[<<0, First(busy)>>].head

MakeReady(k, i) == process_ready_enqueue([k EXCEPT !.p[i].state = "READY"], i)
-----------------------------------------------------------------------------
(***************************************************************************)
(* Switching.  SwitchTo is the common tail of process_yield and            *)
(* process_preempt: the head of the run queue is dequeued, which is `next' *)
(* unless next is the idle fallback.                                       *)
(***************************************************************************)

SwitchTo(k, next) ==
    LET head     == process_ready_peek(k)
        dequeued == IF head = NULL THEN k ELSE process_ready_remove(k, head)
        old      == k.cur
        moved    == [dequeued EXCEPT !.cur = next, !.p[next].state = "RUNNING"]
    IN  IF moved.p[old].pid = BootPid \/ moved.p[old].state \in {"ZOMBIE", "WAITING"}
        THEN moved ELSE MakeReady(moved, old)

\* process_yield after the pending signals are dealt with.
Reschedule(k) ==
    LET head == process_ready_peek(k)
        idle == process_get(k, 1)
        next == IF head # NULL THEN head
                ELSE IF k.p[k.cur].state \in {"WAITING", "ZOMBIE"} /\ idle # NULL
                     THEN idle ELSE k.cur
    IN  IF next = k.cur THEN k ELSE SwitchTo(k, next)

\* Mutant: a target that has ended is made ready as well.
BugChldAnyState(k, pid) ==
    LET t == process_get_any(k, pid) IN
    IF /\ t # NULL
       /\ k.p[t].state \in {"WAITING", "ZOMBIE"}
       /\ k.p[t].waiting_for \in {-1, k.p[k.cur].pid}
    THEN MakeReady(k, t) ELSE k

\* process_send_signal(pid, SIGCHLD).  SIGCHLD stays in pending_signals and
\* nothing reads it there, so the bit is left out.
SendChld(k, pid) ==
    LET t == process_get_any(k, pid) IN
    IF /\ t # NULL
       /\ k.p[t].state = "WAITING"
       /\ k.p[t].waiting_for \in {-1, k.p[k.cur].pid}
    THEN MakeReady(k, t) ELSE k

\* Mutant: the parent is not told.
BugTerminateSilently(k, i, sig) ==
    IF k.p[i].state = "ZOMBIE" \/ (k.p[i].pid = 1 /\ sig = "KILL") THEN k
    ELSE [process_ready_remove([k EXCEPT !.p[i].pending = {}], i) EXCEPT !.p[i].state = "ZOMBIE"]

process_terminate(k, i, sig) ==
    IF k.p[i].state = "ZOMBIE" \/ (k.p[i].pid = 1 /\ sig = "KILL") THEN k
    ELSE LET cleared == [k EXCEPT !.p[i].pending = {}, !.p[i].killed = sig = "KILL"]
             dead    == [process_ready_remove(cleared, i) EXCEPT !.p[i].state = "ZOMBIE"]
         IN  IF k.p[i].parent_pid \in {0, k.p[i].pid} THEN dead
             ELSE SendChld(dead, k.p[i].parent_pid)

\* process_handle_pending_signals(current): the first of INT and SEGV kills it
\* and yields (SIGKILL never stays pending).
process_handle_pending_signals(k) ==
    IF k.p[k.cur].pending = {} THEN k
    ELSE LET sig  == IF "INT" \in k.p[k.cur].pending THEN "INT" ELSE "SEGV"
             dead == process_terminate([k EXCEPT !.p[k.cur].pending = @ \ {sig}], k.cur, sig)
         IN  Reschedule(dead)

process_yield(k) ==
    LET handled == process_handle_pending_signals(k) IN
    IF handled.cur # k.cur THEN handled ELSE Reschedule(handled)

\* process_send_signal(pid, sig) for the signals kill sends.
process_send_signal(k, pid, sig) ==
    LET t == process_get_any(k, pid) IN
    IF t = NULL THEN k
    ELSE IF sig = "KILL" THEN process_terminate(k, t, sig)
    ELSE LET pended == [k EXCEPT !.p[t].pending = @ \cup {sig}] IN
         IF t = k.cur THEN process_handle_pending_signals(pended) ELSE pended
-----------------------------------------------------------------------------
(***************************************************************************)
(* Creation and destruction.                                               *)
(***************************************************************************)

\* Mutant: the search starts from 1 every time.
BugAllocateLowest(k) == First({pid \in 1 .. PidMod - 1 : process_get(k, pid) = NULL})

\* The first PID from next_pid on, skipping 0, that no live process has.
process_allocate_pid(k) ==
    LET from(d) == 1 + ((k.next - 1 + d) % (PidMod - 1))
        free    == {d \in 0 .. PidMod - 2 : process_get(k, from(d)) = NULL}
    IN  from(First(free))

\* The least loaded CPU, the first of them when several are.
SelectedCpu(k) ==
    LET load == [c \in Cpus |-> process_queue_length(k, c)] IN
    First({c \in Cpus : \A d \in Cpus : load[c] <= load[d]})

\* The walks of process_queue_length come to an end.
WalkEnds(k) == \A c \in Cpus \X Prios : L!Terminates(RunQueue(k, c))

\* spin_lock on a lock that is held never returns on the only scheduling CPU.
Spin(k) == [k EXCEPT !.p[k.cur].pc = "spin"]

process_cleanup(k, i) ==
    IF k.p[i].pid = 0 THEN k
    ELSE IF k.lock THEN Spin(k)
    ELSE [k EXCEPT !.p[i].pid = 0, !.p[i].state = "ZOMBIE",
                   !.count = IF @ > 0 THEN @ - 1 ELSE @]

process_reap(k, i) == IF k.p[i].state = "ZOMBIE" THEN process_cleanup(k, i) ELSE k

process_oom_kill(k) ==
    LET victim == First({i \in Slots : /\ i # k.cur /\ k.p[i].pid # 0
                                       /\ k.p[i].state # "ZOMBIE"})
    IN  IF victim = NULL THEN k ELSE process_cleanup(k, victim)

(***************************************************************************)
(* process_create(prio), its allocations ending as `outcome'.  The result  *)
(* says which slot was filled, NULL when creation failed.  "oom" is an     *)
(* allocation that calls process_oom_kill with the table lock held.        *)
(***************************************************************************)
process_create(k, prio, outcome) ==
    LET i    == First({j \in Slots : k.p[j].pid = 0})
        pid  == process_allocate_pid(k)
        made == [k EXCEPT !.next = 1 + (pid % (PidMod - 1)),
                          !.rnext[i] = NULL, !.wnext[i] = NULL,
                          !.p[i] = [FreshPcb EXCEPT !.pid = pid, !.state = "READY",
                                       !.parent_pid = k.p[k.cur].pid, !.priority = prio]]
        undone == [made EXCEPT !.p[i].pid = 0, !.p[i].state = "ZOMBIE"]
    IN  IF k.lock THEN [k |-> Spin(k), slot |-> NULL]
        ELSE IF k.count >= N \/ i = NULL THEN [k |-> k, slot |-> NULL]
        ELSE CASE outcome \in {"no directory", "no kernel stack"} ->
                    [k |-> undone, slot |-> NULL]
               [] outcome = "no user stack" ->
                    [k |-> [undone EXCEPT !.lock = TRUE], slot |-> NULL]
               [] outcome = "oom" ->
                    [k |-> process_oom_kill([made EXCEPT !.lock = TRUE]), slot |-> NULL]
               [] outcome = "ok" /\ ~ WalkEnds(made) ->
                    [k |-> Spin([made EXCEPT !.lock = TRUE]), slot |-> NULL]
               [] outcome = "ok" /\ WalkEnds(made) ->
                    LET placed == [made EXCEPT !.p[i].cpu = SelectedCpu(made)] IN
                    [k |-> [process_ready_enqueue(placed, i) EXCEPT !.count = @ + 1],
                     slot |-> i]

\* syscall_fork: the child takes the parent's registers; when the address space
\* cannot be cloned it is made a zombie and reaped.
syscall_fork(k, cloned, outcome) ==
    LET made == process_create(k, k.p[k.cur].priority, outcome) IN
    IF made.slot = NULL THEN made.k
    ELSE IF cloned THEN [made.k EXCEPT !.p[made.slot].user = k.p[k.cur].user]
    ELSE process_reap([made.k EXCEPT !.p[made.slot].state = "ZOMBIE"], made.slot)

\* process_exit: the parent is made ready; a process whose saved code segment is
\* ring 3 hands the CPU straight to it, any other yields.
process_exit(k) ==
    LET me     == k.cur
        dead   == [k EXCEPT !.p[me].state = "ZOMBIE", !.p[me].pending = {},
                            !.p[me].waiting_for = -1, !.p[me].pc = "halt"]
        parent == process_get_any(dead, k.p[me].parent_pid)
        alive  == parent # NULL /\ parent # me /\ dead.p[parent].state # "ZOMBIE"
        woken  == IF alive THEN MakeReady(dead, parent) ELSE dead
        told   == SendChld(woken, k.p[me].parent_pid)
    IN  IF k.p[me].user /\ alive
        THEN [told EXCEPT !.cur = parent, !.p[parent].state = "RUNNING"]
        ELSE process_yield(told)

process_exception_handle(k) ==
    LET me   == k.cur
        dead == [k EXCEPT !.p[me].state = "ZOMBIE", !.p[me].pending = {},
                          !.p[me].waiting_for = -1]
        told == IF k.p[me].parent_pid \in {0, k.p[me].pid} THEN dead
                ELSE SendChld(dead, k.p[me].parent_pid)
        reaped == process_reap(told, me)
    IN  IF reaped.p[me].pc = "spin" THEN reaped ELSE process_yield(reaped)

\* One round of process_waitpid's loop.
WaitRound(k) ==
    LET me    == k.cur
        child == process_find_child(k, k.p[me].pid, k.p[me].waiting_for)
        over  == [k EXCEPT !.p[me].waiting_for = -1, !.p[me].pc = "run"]
    IN  IF child = NULL THEN over
        ELSE IF k.p[child].state = "ZOMBIE" THEN process_reap(over, child)
        ELSE process_yield([k EXCEPT !.p[me].state = "WAITING", !.p[me].pc = "waitpid"])

process_waitpid(k, pid) == WaitRound([k EXCEPT !.p[k.cur].waiting_for = pid])

process_detach(k, pid) ==
    LET i == process_get_any(k, pid) IN
    IF i = NULL \/ k.p[i].state = "ZOMBIE" THEN k ELSE [k EXCEPT !.p[i].parent_pid = 1]
-----------------------------------------------------------------------------
(***************************************************************************)
(* Wait queues.                                                            *)
(***************************************************************************)
WaitQueue(k, q) == [head |-> k.wq[q].head, tail |-> k.wq[q].tail, next |-> k.wnext]

SetWaitQueue(k, q, l) ==
    [k EXCEPT !.wq[q] = [head |-> l.head, tail |-> l.tail], !.wnext = l.next]

NotWaiting(k, i) ==
    [k EXCEPT !.p[i].wait_queue = NULL, !.p[i].deadline = 0, !.p[i].timed = FALSE]

process_wait_queue_sleep_until(k, q, deadline) ==
    LET me == k.cur IN
    IF k.p[me].state = "ZOMBIE" THEN k
    ELSE process_yield(
            SetWaitQueue([k EXCEPT !.p[me].state = "WAITING", !.p[me].wait_queue = q,
                                   !.p[me].deadline = deadline, !.p[me].timed = deadline # 0],
                         q, L!Append1(WaitQueue(k, q), me)))

process_wait_queue_wake_one(k, q) ==
    LET head == k.wq[q].head IN
    IF head = NULL THEN k
    ELSE MakeReady(NotWaiting(SetWaitQueue(k, q, L!RemoveHead(WaitQueue(k, q))), head), head)

\* Wakes until the queue is empty; on a damaged queue an element may come twice.
process_wait_queue_wake_all(k, q) ==
    LET woken[n \in Nat] ==
            IF n = 0 THEN k ELSE process_wait_queue_wake_one(woken[n - 1], q)
    IN  woken[2 * N]

\* The u32 test of a deadline: now is at most 2^31 - 1 ticks past it.
Expired(now, deadline) == (now - deadline) % TickMod < TickMod \div 2

\* Mutant: a process that times out stays linked in its wait queue.
BugPollStaysLinked(k, i) ==
    IF \/ k.p[i].state # "WAITING" \/ k.p[i].wait_queue = NULL
       \/ ~ k.p[i].timed \/ ~ Expired(k.now, k.p[i].deadline)
    THEN k ELSE MakeReady(NotWaiting(k, i), i)

\* process_wait_queue_poll_timeouts' treatment of one slot.
PollSlot(k, i) ==
    LET q == k.p[i].wait_queue
        l == L!Unlink(WaitQueue(k, q), i)
    IN  IF \/ k.p[i].state # "WAITING" \/ q = NULL
           \/ ~ k.p[i].timed \/ ~ Expired(k.now, k.p[i].deadline)
        THEN k
        ELSE MakeReady(NotWaiting(
                SetWaitQueue(k, q, [l EXCEPT !.tail = IF l.head = NULL THEN NULL ELSE @]), i), i)

\* Mutant: the last slot is not looked at.
BugPollShort(k) ==
    LET polled[n \in 0 .. N - 1] == IF n = 0 THEN k ELSE PollSlot(polled[n - 1], n - 1)
    IN  polled[N - 1]

process_wait_queue_poll_timeouts(k) ==
    LET polled[n \in Nat] == IF n = 0 THEN k ELSE PollSlot(polled[n - 1], n - 1)
    IN  polled[N]
-----------------------------------------------------------------------------
(***************************************************************************)
(* The timer tick.                                                         *)
(***************************************************************************)

\* CPU 0, when its queues are empty, takes the head of the best queue of the
\* first other CPU that has two processes or more.
process_balance_runqueues(k) ==
    LET source == First({c \in Cpus \ {0} : process_queue_length(k, c) >= 2})
        best   == First({pr \in Prios : k.ready[<<source, pr>>].head # NULL})
        i      == k.ready[<<source, best>>].head
    IN  IF process_queue_length(k, 0) > 0 \/ source = NULL THEN k
        ELSE process_ready_enqueue([process_ready_remove(k, i) EXCEPT !.p[i].cpu = 0], i)

\* process_preempt of a process interrupted in ring 3.
process_preempt(k) ==
    LET handled == process_handle_pending_signals(k)
        next    == process_ready_peek(handled)
        stays   == \/ next = NULL \/ next = handled.cur
                   \/ /\ handled.p[handled.cur].state \notin {"ZOMBIE", "WAITING"}
                      /\ ~ handled.p[next].user
    IN  IF handled.cur # k.cur \/ stays THEN handled ELSE SwitchTo(handled, next)

\* scheduler_tick; `preempts' when the tick came from ring 3 and ended a slice.
scheduler_tick(k, preempts) ==
    LET polled   == process_wait_queue_poll_timeouts([k EXCEPT !.now = (@ + 1) % TickMod])
        balanced == process_balance_runqueues(polled)
    IN  IF preempts /\ balanced.p[k.cur].state # "READY"
        THEN process_preempt(balanced) ELSE balanced
-----------------------------------------------------------------------------
Me == procs[current_process]

process_exception_precheck(p) == p.state # "ZOMBIE" /\ p.pid \notin {0, BootPid}

\* The running code may make the call: it is not stuck in a loop of its own, and
\* syscall_handler turns away a user process that is a zombie.  A kernel service
\* does nothing but yield (kernel_service_main).  What code on a freed stack does
\* is not followed.
MayCall(call) ==
    /\ call \in Calls
    /\ Me.pc = "run" /\ Me.pid # 0
    /\ Me.user => process_exception_precheck(Me)
    /\ current_process \in Services => call = "yield"

Create ==
    /\ MayCall("create") /\ next_pid <= MaxPid
    /\ \E prio \in CreatePrios, outcome \in CreateOutcomes :
          Become(process_create(Here, prio, outcome).k)

Fork ==
    /\ MayCall("fork") /\ Me.user /\ next_pid <= MaxPid
    /\ \E cloned \in {TRUE} \cup {"forkfail" \notin Calls}, outcome \in CreateOutcomes :
          Become(syscall_fork(Here, cloned, outcome))

\* process_user_elf_entry, or exec: the process continues in ring 3.
EnterUser ==
    /\ MayCall("user") /\ ~ Me.user /\ current_process # 1
    /\ Become([Here EXCEPT !.p[current_process].user = TRUE])

Yield == MayCall("yield") /\ Become(process_yield(Here))

\* PID 1 is the kernel's own main loop and never exits.
Exit ==
    /\ MayCall(IF Me.user THEN "user exit" ELSE "exit") /\ current_process # 1
    /\ Become(process_exit(Here))

\* waitpid and kill are system calls of user processes.
WaitPid ==
    /\ MayCall("waitpid") /\ Me.user
    /\ \E pid \in {-1} \cup {procs[i].pid : i \in Slots \ {0}} :
          Become(process_waitpid(Here, pid))

\* A process given the CPU inside process_waitpid goes round its loop again.
WaitPidResume == Me.pc = "waitpid" /\ Me.pid # 0 /\ Become(WaitRound(Here))

\* syscall_kill: the target must be live and, for security_may_signal, not PID 1.
Kill ==
    /\ MayCall("kill") /\ Me.user
    /\ \E i \in Slots \ {0}, sig \in Signals :
          /\ procs[i].pid \notin {0, 1} /\ procs[i].state # "ZOMBIE"
          /\ Become(process_send_signal(Here, procs[i].pid, sig))

\* An exception in the code of a process started later than the kernel's own.
Exception ==
    /\ "exception" \in Calls
    /\ Me.pc = "run" /\ current_process \notin {1} \cup Services
    /\ process_exception_precheck(Me)
    /\ Become(process_exception_handle(Here))

\* The shell detaches the process it has just created.
Detach ==
    /\ MayCall("detach")
    /\ \E i \in Slots \ {0} : /\ procs[i].pid # 0 /\ procs[i].parent_pid = Me.pid
                             /\ Become(process_detach(Here, procs[i].pid))

Sleep ==
    /\ MayCall("sleep")
    /\ \E q \in Queues, d \in Deadlines :
          Become(process_wait_queue_sleep_until(Here, q, IF d = 0 THEN 0 ELSE (ticks + d) % TickMod))

\* Wakes come from processes and from interrupt handlers (a packet in net_tick).
WakeOne ==
    /\ "wake" \in Calls
    /\ \E q \in Queues : Become(process_wait_queue_wake_one(Here, q))

WakeAll ==
    /\ "wake" \in Calls
    /\ \E q \in Queues : Become(process_wait_queue_wake_all(Here, q))

\* A tick in kernel code, or one that does not end a time slice.
Tick == "tick" \in Calls /\ Become(scheduler_tick(Here, FALSE))

\* A tick that ends the slice of a process it interrupted in ring 3.
InRing3 == "tick" \in Calls /\ Me.user /\ Me.pc = "run"
SliceEnd == InRing3 /\ Become(scheduler_tick(Here, TRUE))

Next ==
    \/ Create \/ Fork \/ EnterUser \/ Yield \/ Exit \/ WaitPid \/ WaitPidResume
    \/ Kill \/ Exception \/ Detach \/ Sleep \/ WakeOne \/ WakeAll
    \/ Tick \/ SliceEnd

Spec == Init /\ [][Next]_vars

(***************************************************************************)
(* Fairness.  Code that may yield does so again and again (the main loop   *)
(* and the services do nothing else; other kernel code is finite between   *)
(* yields; of user processes it is an assumption, for a tick preempts one  *)
(* only in favour of another); a process inside process_waitpid goes on;   *)
(* the timer keeps ticking, and a slice of PROCESS_TIME_SLICE ticks ends   *)
(* when the process stays in ring 3.  The conjuncts are weak fairness with *)
(* the enabling condition written out: an action that is a function of the *)
(* state can take a step when that function changes it.                    *)
(***************************************************************************)
CanYield == MayCall("yield") /\ process_yield(Here) # Here
CanResume == Me.pc = "waitpid" /\ Me.pid # 0 /\ WaitRound(Here) # Here

Fairness ==
    /\ []<>~CanYield \/ []<><<Yield>>_vars
    /\ []<>~CanResume \/ []<><<WaitPidResume>>_vars
    /\ []<>("tick" \notin Calls) \/ []<><<Tick>>_vars
    /\ []<>~InRing3 \/ []<><<SliceEnd>>_vars

FairSpec == Spec /\ Fairness
-----------------------------------------------------------------------------
Live(i) == procs[i].pid # 0 /\ procs[i].state # "ZOMBIE"

\* Every field has its type.
TypeOK ==
    /\ procs \in [Slots -> Process]
    /\ current_process \in Slots
    /\ ready \in [Cpus \X Prios -> [head : Slots \cup {NULL}, tail : Slots \cup {NULL}]]
    /\ ready_next \in [Slots -> Slots \cup {NULL}]
    /\ waitq \in [Queues -> [head : Slots \cup {NULL}, tail : Slots \cup {NULL}]]
    /\ wait_next \in [Slots -> Slots \cup {NULL}]
    /\ process_count \in 0 .. N
    /\ next_pid \in 1 .. PidMod - 1
    /\ process_table_lock \in BOOLEAN
    /\ ticks \in 0 .. TickMod - 1

\* Every run queue is a well-formed list of exactly the READY processes assigned
\* to it: no process is lost, linked twice or queued while it cannot run, however
\* creations, exits, kills, reaps and wakeups interleave (process.c:87-137).
RunQueuesSound ==
    \A c \in Cpus \X Prios :
        /\ L!WellFormed(RunQueue(Here, c))
        /\ L!Members(RunQueue(Here, c)) =
              {i \in Slots : procs[i].state = "READY" /\ QueueOf(Here, i) = c}
        /\ \A i \in L!Members(RunQueue(Here, c)) : procs[i].ready_queued /\ procs[i].pid # 0

\* The process that has the CPU, and no other, is RUNNING; in particular a process
\* that went to sleep or exited gave the CPU away (process.c:716-756).  One that
\* killed itself is a zombie until it next yields.
OneRuns ==
    /\ Me.state = "RUNNING" \/ (Me.state = "ZOMBIE" /\ Me.pc = "run")
    /\ \A i \in Slots : procs[i].state = "RUNNING" => i = current_process

\* The scheduler's view of the processes is right: the run queues hold the READY
\* ones, the CPU the RUNNING one (process.c:87-137, 716-756).
SchedulerSound == RunQueuesSound /\ OneRuns

\* A wait queue is a well-formed list of exactly the processes that sleep on it,
\* after any mixture of sleeps, single and collective wakes and timeouts
\* (process.c:139-222).
WaitQueuesSound ==
    \A q \in Queues :
        /\ L!WellFormed(WaitQueue(Here, q))
        /\ L!Members(WaitQueue(Here, q)) = {i \in Slots : procs[i].wait_queue = q}
        /\ \A i \in L!Members(WaitQueue(Here, q)) : procs[i].state = "WAITING"

\* While the table lock is free process_count, which process_create compares with
\* MAX_PROCESSES, is the number of slots in use
\* besides the boot slot (process.c:357, 536, 662).
CountExact ==
    ~ process_table_lock => process_count = Cardinality({i \in Slots \ {0} : procs[i].pid # 0})

\* No two slots in use have the same PID: a comment at process.c:224 promises a
\* PID allocator that avoids collisions on wrap-around.
PidsUnique ==
    \A i, j \in Slots : procs[i].pid # 0 /\ procs[i].pid = procs[j].pid => i = j

\* The process table lock is free whenever control returns from a kernel routine,
\* so that none of them can wait for it for ever (process.c:353-541, 629-664).
LockReleased == ~ process_table_lock /\ \A i \in Slots : procs[i].pc # "spin"

\* The process table is in order between kernel routines: counted right, without
\* two slots of one PID, and unlocked (process.c:224-244, 353-541, 629-664).
TableExact == TypeOK /\ CountExact /\ PidsUnique /\ LockReleased

\* Nobody waits in process_waitpid for a child that is gone or has ended otherwise
\* than by a SIGKILL: every other end wakes the waiter (signals.c:59-81, 130-160,
\* process.c:693-714, 869-905).
NoMissedExit ==
    \A i \in Slots :
        (procs[i].pc = "waitpid" /\ procs[i].state = "WAITING") =>
            LET c == process_find_child(Here, procs[i].pid, procs[i].waiting_for) IN
            c # NULL /\ (procs[c].state = "ZOMBIE" => procs[c].killed)

\* A killed or exited process stays a zombie until its slot is freed: it never
\* gets the CPU again (signals.c:83-88).
DeadStaysDead ==
    [][\A i \in Slots : procs[i].state = "ZOMBIE" => procs'[i].state = "ZOMBIE" \/ procs[i].pid = 0]_vars

\* Round robin: every READY process is eventually given the CPU (or killed).
ReadyRuns == \A i \in Slots : procs[i].state = "READY" ~> procs[i].state # "READY"

\* A sleeper with a deadline does not sleep for ever (process.c:190-222).
TimedSleepEnds ==
    \A i \in Slots : (procs[i].state = "WAITING" /\ procs[i].timed) ~> procs[i].state # "WAITING"
=============================================================================
