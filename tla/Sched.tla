------------------------------- MODULE Sched -------------------------------
(***************************************************************************)
(* The scheduler of kernel/k_sched.c: one queue of ready lists per         *)
(* processor, the 10 ms tick, rescheduling, blocking and waking, and the   *)
(* context switch of kernel/k_proc.c.  A running process stays in its      *)
(* ready list; it leaves the list only to block or to exit.                *)
(*                                                                         *)
(* One step is one section under a queue's spinlock (which also disables   *)
(* interrupts), together with the switch that follows it: no other         *)
(* processor takes a process out of this processor's lists.  All processes *)
(* are of class NORMAL, as the kernel creates them.  Where the code would  *)
(* go on with a corrupted list or a context that was never saved, the      *)
(* model stops: panic names the reason, as it does for a failed assertion  *)
(* (the build is the one with _KDEBUG, which checks them).                 *)
(***************************************************************************)
EXTENDS Integers, Sequences, FiniteSets

CONSTANTS Proc,               \* processes other than the idle ones
          NCpu,               \* smp_cpu_count()
          NORMAL_LEVEL_MAX,   \* 15 in the code
          UNIT_QUANTUM,       \* 20 in the code
          TICK,               \* 10 in the code: what a tick takes off a quantum
          QMod,               \* a quantum is an unsigned integer modulo QMod
          None                \* no process

NORMAL_LEVEL_MIN == 1

ASSUME SchedAssumption == /\ NCpu \in Nat \ {0}
                          /\ NORMAL_LEVEL_MAX \in Nat \ {0}
                          /\ TICK \in Nat \ {0} /\ TICK % 2 = 0
                          /\ UNIT_QUANTUM \in Nat /\ UNIT_QUANTUM % TICK = 0
                          /\ NORMAL_LEVEL_MAX * UNIT_QUANTUM < QMod
                          /\ QMod \in Nat /\ QMod % 2 = 0 /\ TICK < QMod

VARIABLES current,        \* current[c]: the process c runs
          ready,          \* ready[c][l]: the ready list of level l, from its head
          process_count,  \* process_count[c]: processes in c's lists but the idle one
          state,          \* state[p]: process_t.state
          priority,       \* priority[p]: its level
          cpu,            \* cpu[p]: the queue it was put into last
          quantum,        \* quantum[c]: what is left to the process c runs
          pc,             \* pc[p]: where p is
          out,            \* out[p]: what switched p out, if it is not running
          target,         \* target[p]: the process p wakes or starts, and its queue
          next,           \* next[p]: what p picked in sched_resched, checked or not
          isr,            \* isr[c]: c's timer interrupt was not acknowledged yet
          panic           \* why the system stopped

vars == <<current, ready, process_count, state, priority, cpu, quantum, pc, out,
          target, next, isr, panic>>

Cpu == 0 .. NCpu - 1
Level == 0 .. NORMAL_LEVEL_MAX
Idle(c) == <<c>>                       \* the idle process of c
IdleProc == {Idle(c) : c \in Cpu}
Process == Proc \cup IdleProc

ASSUME ProcAssumption == /\ IsFiniteSet(Proc)
                         /\ Proc \cap IdleProc = {}
                         /\ None \notin Process

NoTarget == [proc |-> None, cpu |-> 0]
NoNext == [proc |-> None, checked |-> FALSE]

-----------------------------------------------------------------------------
(* Helpers of k_sched.c *)

get_quantum(p) == IF p \in IdleProc THEN QMod - 1
                  ELSE (NORMAL_LEVEL_MAX - priority[p] + 1) * UNIT_QUANTUM

Clamp(l) == IF l > NORMAL_LEVEL_MAX THEN NORMAL_LEVEL_MAX
            ELSE IF l < NORMAL_LEVEL_MIN THEN NORMAL_LEVEL_MIN ELSE l

\* The case of the idle class falls through to that of NORMAL.
clampped_priority_change(p, delta) ==
    Clamp(IF p \in IdleProc THEN 0 ELSE priority[p] + delta)

\* The first processor with the fewest processes.
sched_pick_cpu == CHOOSE c \in Cpu : \A d \in Cpu :
                      \/ process_count[c] < process_count[d]
                      \/ process_count[c] = process_count[d] /\ c <= d

\* The level of the first list that is not empty, from the top; 0 if there is none.
TopLevel(lists) == CHOOSE l \in Level :
                      /\ l = 0 \/ lists[l] # <<>>
                      /\ \A m \in Level : m > l => lists[m] = <<>>

\* None if all the lists are empty.
sched_pick_next(lists) == LET l == TopLevel(lists)
                          IN  IF lists[l] = <<>> THEN None ELSE Head(lists[l])

sched_should_preempt(c) == TopLevel(ready[c]) > priority[current[c]]

InList(list, p) == \E i \in 1 .. Len(list) : list[i] = p

Listed(p) == \E c \in Cpu, l \in Level : InList(ready[c][l], p)

\* No effect on a node that is not in the list.
list_remove(list, p) ==
    LET I == {i \in 1 .. Len(list) : list[i] = p}
        k == CHOOSE i \in I : \A j \in I : i <= j
    IN  IF I = {} THEN list ELSE SubSeq(list, 1, k - 1) \o SubSeq(list, k + 1, Len(list))

Unlinked(lists, p) == [l \in Level |-> list_remove(lists[l], p)]

\* __do_sched_update_position: to the end of the list of level l.
Repositioned(lists, p, l) == [Unlinked(lists, p) EXCEPT ![l] = Append(@, p)]

\* Mutant: the count is not decremented.
__do_sched_remove_ready_NoCount(p) ==
    /\ ready' = [ready EXCEPT ![cpu[p]] = Unlinked(@, p)]
    /\ UNCHANGED process_count

__do_sched_remove_ready(p) ==
    /\ ready' = [ready EXCEPT ![cpu[p]] = Unlinked(@, p)]
    /\ process_count' = [process_count EXCEPT ![cpu[p]] = @ - 1]

-----------------------------------------------------------------------------
(* Boot: the idle processes run, and init has been entered on processor 0. *)

Init == \E init \in Proc :
    /\ current = [c \in Cpu |-> Idle(c)]
    /\ ready = [c \in Cpu |-> [l \in Level |->
                   IF l = 0 THEN <<Idle(c)>>
                   ELSE IF c = 0 /\ l = NORMAL_LEVEL_MAX THEN <<init>> ELSE <<>>]]
    /\ process_count = [c \in Cpu |-> IF c = 0 THEN 1 ELSE 0]
    /\ state = [p \in Process |-> "READY"]
    /\ priority = [p \in Process |-> IF p \in IdleProc THEN 0 ELSE NORMAL_LEVEL_MAX]
    /\ cpu = [p \in Proc |-> 0]
    /\ quantum = [c \in Cpu |-> QMod - 1]
    /\ pc = [p \in Process |-> IF p \in IdleProc \cup {init} THEN "run" ELSE "new"]
    /\ out = [p \in Process |-> "start"]
    /\ target = [p \in Proc |-> NoTarget]
    /\ next = [p \in Process |-> NoNext]
    /\ isr = [c \in Cpu |-> FALSE]
    /\ panic = "none"

-----------------------------------------------------------------------------
(* Steps *)

\* A process with this set becomes EXITED when it is switched out.
terminate_flag(p) == pc[p] \in {"terminating", "leaving", "doomed", "doomed_window"}

\* The processes asleep on a futex: BLOCKED and listed in a bucket.
Sleeper == {p \in Proc : pc[p] = "window" /\ state[p] = "BLOCKED"}

\* p runs, and is not between two steps of one operation.
At(p, where) == /\ \E c \in Cpu : current[c] = p
                /\ pc[p] \in where
                /\ target[p] = NoTarget /\ next[p] = NoNext
                /\ panic = "none"

Panic(why) == /\ panic' = why
              /\ UNCHANGED <<current, ready, process_count, state, priority, cpu, quantum,
                             pc, out, target, next, isr>>

\* Mutant: at the front of the list.
InsertedLists_Front(lists, q, c) == [lists EXCEPT ![c][priority[q]] = <<q>> \o @]

\* The list_insert of __do_sched_set_ready(q), into the queue of c.
InsertedLists(lists, q, c) == [lists EXCEPT ![c][priority[q]] = Append(@, q)]

\* Mutant: the interrupt is acknowledged before its handler is called.
InService_Early(c, n, from) == FALSE

\* Whether c's timer interrupt is still in service after a switch to n: irq_handler
\* acknowledges it only when the handler returns, which is after the process that
\* was interrupted is switched back in.
InService(c, n, from) == out[n] # "tick" /\ (from = "tick" \/ isr[c])

\* process_switch_context(n) on c with the lists and counts the caller leaves,
\* from the tick or from sched_resched.  The process that leaves becomes EXITED
\* if its terminate_flag is set, wherever it is switched out, and then one
\* sleeper (its parent, in process_wait) may be woken.  The one that comes back
\* goes on where it was: in the interrupt handler or after sched_resched.
process_switch_context(c, n, from, lists, counts) ==
    LET prev == current[c] IN
    \E q \in {None} \cup (IF terminate_flag(prev) THEN Sleeper \ {prev} ELSE {}) :
    LET d == sched_pick_cpu IN
    /\ current' = [current EXCEPT ![c] = n]
    /\ quantum' = [quantum EXCEPT ![c] = get_quantum(n)]
    /\ out' = [out EXCEPT ![prev] = from, ![n] = "start"]
    /\ pc' = [pc EXCEPT ![n] = IF out[n] = "resched" /\ @ = "window" THEN "run" ELSE @,
                        ![prev] = IF @ = "leaving" THEN "gone" ELSE @]
    /\ state' = [p \in Process |-> IF p = prev /\ terminate_flag(prev) THEN "EXITED"
                                   ELSE IF p = q THEN "READY" ELSE state[p]]
    /\ isr' = [isr EXCEPT ![c] = InService(c, n, from)]
    /\ next' = [next EXCEPT ![prev] = IF from = "resched" THEN NoNext ELSE @]
    /\ ready' = IF q = None THEN lists ELSE InsertedLists(lists, q, d)
    /\ process_count' = IF q = None THEN counts ELSE [counts EXCEPT ![d] = @ + 1]
    /\ cpu' = IF q = None THEN cpu ELSE [cpu EXCEPT ![q] = d]
    /\ panic' = CASE \E e \in Cpu \ {c} : current[e] = n -> "context_not_saved"
                  [] out[n] = "resched" /\ pc[n] = "gone" -> "PROCESS_ON_TERMINATE_reached_end"
                  [] out[n] = "resched" /\ state[n] = "BLOCKED" /\ n # q -> "futex_kwait_BLOCKED"
                  [] ~ \E l \in Level : InList(lists[c][l], n) -> "not_in_this_queue"
                  [] q # None /\ Listed(q) -> "node_inserted_twice"
                  [] OTHER -> "none"
    /\ UNCHANGED target

\* Interrupts are off in __process_on_terminate and while a futex bucket is
\* locked; a timer interrupt waits until the last one is acknowledged.
Interruptible(c) ==
    LET p == current[c] IN
    /\ ~isr[c]
    /\ p \in Proc => /\ pc[p] # "leaving"
                     /\ target[p].proc \notin {q \in Proc : pc[q] # "new"}

\* sched_tick, preempting: the current process goes to the end of its list.
TickPreempt(c) ==
    LET cur == current[c]
        n   == sched_pick_next(ready[c])
    IN  /\ panic = "none" /\ Interruptible(c) /\ sched_should_preempt(c)
        /\ IF n = cur THEN Panic("sched_tick_next_is_CURRENT_PROCESS")
           ELSE /\ process_switch_context(c, n, "tick",
                       [ready EXCEPT ![c] = Repositioned(@, cur, priority[cur])], process_count)
                /\ UNCHANGED priority

\* sched_tick otherwise: the quantum, of unsigned integers, shrinks; when it is
\* used up the process goes one level down, to the end of that list, and the next
\* one runs if that is another one.
TickCount(c) ==
    LET cur   == current[c]
        left  == (quantum[c] - TICK) % QMod
        l     == clampped_priority_change(cur, -1)
        lists == [ready EXCEPT ![c] = Repositioned(@, cur, l)]
        n     == sched_pick_next(lists[c])
    IN  /\ panic = "none" /\ Interruptible(c) /\ ~sched_should_preempt(c)
        /\ priority' = IF left = 0 THEN [priority EXCEPT ![cur] = l] ELSE priority
        /\ IF left = 0 /\ n # cur
           THEN process_switch_context(c, n, "tick", lists, process_count)
           ELSE /\ quantum' = [quantum EXCEPT ![c] = left]
                /\ ready' = IF left = 0 THEN lists ELSE ready
                /\ UNCHANGED <<current, process_count, state, cpu, pc, out,
                               target, next, isr, panic>>

Tick(c) == TickPreempt(c) \/ TickCount(c)

\* sched_enter of a new process (process_spawn), and sched_set_ready of a sleeper
\* (__do_futex_wake, which makes it READY first): a processor is picked without
\* a lock...
PickCpu(p) ==
    /\ At(p, {"run", "leaving"})
    /\ \E q \in Sleeper \cup {r \in Proc : pc[p] = "run" /\ pc[r] = "new"} :
          /\ ~ \E r \in Proc : target[r].proc = q
          /\ target' = [target EXCEPT ![p] = [proc |-> q, cpu |-> sched_pick_cpu]]
          /\ state' = [state EXCEPT ![q] = "READY"]
    /\ UNCHANGED <<current, ready, process_count, priority, cpu, quantum, pc, out,
                   next, isr, panic>>

\* ... and the process is appended to its list there.
__do_sched_set_ready(p) ==
    LET q == target[p].proc
        d == target[p].cpu
    IN  /\ target[p] # NoTarget /\ panic = "none"
        /\ \E c \in Cpu : current[c] = p
        /\ IF Listed(q) THEN Panic("node_inserted_twice")
           ELSE /\ ready' = InsertedLists(ready, q, d)
                /\ process_count' = [process_count EXCEPT ![d] = @ + 1]
                /\ cpu' = [cpu EXCEPT ![q] = d]
                /\ pc' = [pc EXCEPT ![q] = IF @ = "new" THEN "run" ELSE @]
                /\ target' = [target EXCEPT ![p] = NoTarget]
                /\ UNCHANGED <<current, state, priority, quantum, out, next, isr, panic>>

\* futex_kwait under the bucket's lock: BLOCKED, out of the ready list and one
\* level up.  The lock is released before sched_resched.
sched_set_blocking(p) ==
    /\ At(p, {"run", "doomed"})
    /\ __do_sched_remove_ready(p)
    /\ priority' = [priority EXCEPT ![p] = clampped_priority_change(p, 1)]
    /\ state' = [state EXCEPT ![p] = "BLOCKED"]
    /\ pc' = [pc EXCEPT ![p] = IF @ = "run" THEN "window" ELSE "doomed_window"]
    /\ UNCHANGED <<current, cpu, quantum, out, target, next, isr, panic>>

\* sched_resched under the queue's lock, of a process that blocks, yields (a
\* mutex that is held) or has raised an access violation in futex_wait.
ReschedPick(p) ==
    /\ At(p, {"run", "window", "terminating", "doomed", "doomed_window"})
    /\ \E c \in Cpu : /\ current[c] = p
                      /\ next' = [next EXCEPT ![p] =
                                     [proc |-> sched_pick_next(ready[c]), checked |-> FALSE]]
    /\ UNCHANGED <<current, ready, process_count, state, priority, cpu, quantum, pc, out,
                   target, isr, panic>>

\* Its assertion, after the lock is released.
ReschedCheck(p) ==
    /\ next[p] # NoNext /\ ~next[p].checked /\ panic = "none"
    /\ \E c \in Cpu : current[c] = p
    /\ IF next[p].proc = None THEN Panic("sched_pick_next_none")
       ELSE IF state[next[p].proc] # "READY" THEN Panic("sched_resched_next_is_not_READY")
       ELSE /\ next' = [next EXCEPT ![p] = [proc |-> @.proc, checked |-> TRUE]]
            /\ UNCHANGED <<current, ready, process_count, state, priority, cpu, quantum, pc,
                           out, target, isr, panic>>

\* The switch, or the return to the caller when the process picked is itself.
ReschedSwitch(p) == \E c \in Cpu :
    /\ current[c] = p /\ next[p].checked /\ panic = "none"
    /\ IF next[p].proc # p
       THEN /\ process_switch_context(c, next[p].proc, "resched", ready, process_count)
            /\ UNCHANGED priority
       ELSE /\ quantum' = [quantum EXCEPT ![c] = get_quantum(p)]
            /\ next' = [next EXCEPT ![p] = NoNext]
            /\ pc' = [pc EXCEPT ![p] = IF @ = "window" THEN "run" ELSE @]
            /\ panic' = IF state[p] = "BLOCKED" THEN "futex_kwait_BLOCKED" ELSE "none"
            /\ UNCHANGED <<current, ready, process_count, state, priority, cpu, out, target, isr>>

\* process_terminate of the process itself (process_exit, an exception).
process_terminate(p) ==
    /\ At(p, {"run"})
    /\ pc' = [pc EXCEPT ![p] = "terminating"]
    /\ UNCHANGED <<current, ready, process_count, state, priority, cpu, quantum, out,
                   target, next, isr, panic>>

\* process_raise_exception of another process, when the server of a port cannot
\* copy the request of q or the answer to it: q, which waits for the answer or is
\* about to, is never woken again.
process_raise_exception(p) ==
    /\ At(p, {"run"})
    /\ \E q \in Proc \ {p} :
          \/ pc[q] = "run" /\ pc' = [pc EXCEPT ![q] = "doomed"]
          \/ q \in Sleeper /\ pc' = [pc EXCEPT ![q] = "doomed_window"]
    /\ UNCHANGED <<current, ready, process_count, state, priority, cpu, quantum, out,
                   target, next, isr, panic>>

\* __process_on_terminate starts, on the way back to user mode.
__process_on_terminate(p) ==
    /\ At(p, {"terminating"})
    /\ pc' = [pc EXCEPT ![p] = "leaving"]
    /\ UNCHANGED <<current, ready, process_count, state, priority, cpu, quantum, out,
                   target, next, isr, panic>>

\* Its end: sched_leave and sched_resched, with interrupts off.
sched_leave(p) == \E c \in Cpu :
    LET lists  == [ready EXCEPT ![cpu[p]] = Unlinked(@, p)]
        counts == [process_count EXCEPT ![cpu[p]] = @ - 1]
        n      == sched_pick_next(lists[c])
    IN  /\ current[c] = p /\ At(p, {"leaving"})
        /\ IF n = None THEN Panic("sched_pick_next_none")
           ELSE IF state[n] # "READY" THEN Panic("sched_resched_next_is_not_READY")
           ELSE /\ process_switch_context(c, n, "resched", lists, counts)
                /\ UNCHANGED priority

Next == \/ \E c \in Cpu : Tick(c)
        \/ \E p \in Proc : \/ PickCpu(p) \/ __do_sched_set_ready(p) \/ sched_set_blocking(p)
                           \/ ReschedPick(p) \/ ReschedCheck(p) \/ ReschedSwitch(p)
                           \/ process_terminate(p) \/ process_raise_exception(p)
                           \/ __process_on_terminate(p) \/ sched_leave(p)

Spec == Init /\ [][Next]_vars

-----------------------------------------------------------------------------
(* Properties *)

\* The types of the variables.  In particular a priority stays between the
\* levels of its class (clampped_priority_change) and indexes ready_list, and a
\* process_count does not wrap below zero.
TypeOK ==
    /\ current \in [Cpu -> Process]
    /\ ready \in [Cpu -> [Level -> Seq(Process)]]
    /\ process_count \in [Cpu -> 0 .. Cardinality(Proc)]
    /\ state \in [Process -> {"READY", "BLOCKED", "EXITED"}]
    /\ priority \in [Process -> Level]
    /\ \A p \in Proc : priority[p] >= NORMAL_LEVEL_MIN
    /\ cpu \in [Proc -> Cpu]
    /\ quantum \in [Cpu -> 0 .. QMod - 1]
    /\ pc \in [Process -> {"new", "run", "window", "terminating", "leaving", "gone",
                        "doomed", "doomed_window"}]
    /\ out \in [Process -> {"start", "tick", "resched"}]
    /\ target \in [Proc -> [proc : Proc \cup {None}, cpu : Cpu]]
    /\ next \in [Process -> [proc : Process \cup {None}, checked : BOOLEAN]]
    /\ isr \in [Cpu -> BOOLEAN]

Occurrences(p) == {x \in Cpu \X Level \X (1 .. Cardinality(Process)) :
                      x[3] <= Len(ready[x[1]][x[2]]) /\ ready[x[1]][x[2]][x[3]] = p}

\* p was entered or woken, and neither blocked nor left since.
Runnable(p) == /\ pc[p] \notin {"new", "gone", "doomed_window"}
               /\ state[p] # "BLOCKED"
               /\ ~ \E r \in Proc : target[r].proc = p

\* A process that may run is in exactly one ready list, that of its priority on
\* the processor it was last put on; one that was not entered or has left is in
\* none; and every process_count, from which sched_pick_cpu balances the load, is
\* the number of processes that may run there.
RunQueueExact == panic = "none" =>
    /\ \A p \in Proc :
          /\ Runnable(p) => \E i \in 1 .. Cardinality(Process) :
                               Occurrences(p) = {<<cpu[p], priority[p], i>>}
          /\ ~Runnable(p) => Occurrences(p) = {}
    /\ \A c \in Cpu : process_count[c] = Cardinality({p \in Proc : Runnable(p) /\ cpu[p] = c})

\* The list of level 0 is that of the idle process alone, which is in no other:
\* sched_pick_next always finds a process (its ASSERT(ret)), and the idle process
\* runs only when no other can, although the clamp of its class would raise it
\* to level 1 if its quantum ever reached 0.
IdleAlwaysReady == \A c \in Cpu : /\ ready[c][0] = <<Idle(c)>>
                                  /\ priority[Idle(c)] = 0
                                  /\ Occurrences(Idle(c)) = {<<c, 0, 1>>}

\* No assertion of the scheduler fails and no list node is inserted twice: a tick
\* never picks the current process, sched_resched always picks a READY one, no
\* process comes back from it BLOCKED or after it has left, and none that was
\* picked leaves the queue before the switch.  What is left is the one race the
\* code has: a process that was woken between its futex bucket's unlock and its
\* sched_resched can be picked by another processor before its context is saved.
AssertionsHold == panic \in {"none", "context_not_saved"}

\* A process that runs and does not block is at the front of the highest list of
\* its processor, so that a sched_resched that is not preceded by sched_set_blocking
\* (the yield of mutex_acquire) always picks the caller again.
CurrentIsFirst == \A c \in Cpu :
    (panic = "none" /\ current[c] \in Proc /\ pc[current[c]] \notin {"window", "doomed_window"})
        => sched_pick_next(ready[c]) = current[c]

\* The timer interrupt only ever interrupts the idle process: from the tick that
\* switches to another process until the idle process is back, the interrupt is
\* not acknowledged, and no quantum of another process is ever counted down.
TickInterruptsIdleOnly == \A c \in Cpu : Tick(c) => current[c] = Idle(c)

\* __process_load_context makes a process EXITED, for its parent to destroy, whenever
\* it is switched out with its terminate_flag set: even so, an EXITED process has
\* left its ready list, runs nowhere and will not be picked.
ExitedIsGone == \A p \in Proc : (state[p] = "EXITED" /\ panic = "none") =>
                    /\ ~Listed(p)
                    /\ \A c \in Cpu : current[c] # p
                    /\ \A q \in Proc : next[q].proc # p

\* After a tick the processor runs a process of a level at least that of every
\* process ready there.
TickRunsHighest == \A c \in Cpu : Tick(c) /\ panic' = "none" =>
                       priority'[current'[c]] >= TopLevel(ready'[c])

\* The ready lists are those of the processes that may run and the idle processes, with
\* exact counts, and hold no EXITED process, which runs nowhere and will not be picked.
QueuesAreExact == TypeOK /\ RunQueueExact /\ IdleAlwaysReady /\ ExitedIsGone

\* A process runs until it blocks: it stays first in its processor's lists, so that a yield
\* picks it again, and the tick, which interrupts only the idle process, runs the highest
\* level.
RunsUntilItBlocks == [][CurrentIsFirst' /\ TickInterruptsIdleOnly /\ TickRunsHighest]_vars
=============================================================================
