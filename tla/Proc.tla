-------------------------------- MODULE Proc --------------------------------
(***************************************************************************)
(* The family of processes: spawn, exit with reparenting, wait for one and  *)
(* for any child, and destruction (k_proc.c, k_syscall.c), with the mutexes *)
(* of k_mutex.c.  An action is what a process does between two accesses     *)
(* that others can see.  Waits are as FutexAbstract describes them; the     *)
(* processors are those of the scheduler's model: each process gets on with *)
(* its call unless it waits.                                                *)
(***************************************************************************)
EXTENDS Integers, Sequences

CONSTANTS Procs,   \* all processes there may be
          Root,    \* the one that exists at first and has no parent
          None

ASSUME RootAssumption == Root \in Procs
ASSUME NoneAssumption == None \notin Procs

VARIABLES pc,       \* place of each process; "unborn" and "destroyed" if it has none
          owner,    \* owner of its mutex
          parent,
          children, \* child_list_head, first to last
          terminate_flag,
          exited,   \* state is EXITED
          exited_child_count,
          asleep,   \* the word it sleeps on: "count", "state" of the child it found, or "no"
          proc,     \* the child its wait has found
          val,      \* exited_child_count as its wait has read it
          panic

family == <<parent, children>>
words  == <<terminate_flag, exited, exited_child_count>>
locals == <<proc, val>>
vars   == <<pc, owner, asleep, panic, family, words, locals>>

Init == /\ pc = [p \in Procs |-> IF p = Root THEN "user" ELSE "unborn"]
        /\ owner = [p \in Procs |-> None] /\ parent = [p \in Procs |-> None]
        /\ children = [p \in Procs |-> <<>>]
        /\ terminate_flag = [p \in Procs |-> FALSE] /\ exited = [p \in Procs |-> FALSE]
        /\ exited_child_count = [p \in Procs |-> 0] /\ asleep = [p \in Procs |-> "no"]
        /\ proc = [p \in Procs |-> None] /\ val = [p \in Procs |-> 0] /\ panic = "none"

At(p, place) == panic = "none" /\ pc[p] = place /\ asleep[p] = "no"

Goes(p, from, to) == At(p, from) /\ pc' = [pc EXCEPT ![p] = to]

\* mutex_acquire of m's mutex by p; ASSERT(expected != get_current_proc()).
mutex_acquire(p, m) ==
    \/ owner[m] = None /\ owner' = [owner EXCEPT ![m] = p] /\ UNCHANGED panic
    \/ owner[m] = p /\ panic' = "mutex_acquired_twice" /\ UNCHANGED owner

\* mutex_release of m's mutex by p; VERIFY(owner == get_current_proc()).
mutex_release(p, m) ==
    /\ owner' = [owner EXCEPT ![m] = None]
    /\ panic' = IF owner[m] # p THEN "invalid_release" ELSE panic

\* A call takes its process's own mutex first.
Call(p, name) == Goes(p, "user", name) /\ mutex_acquire(p, p) /\ UNCHANGED <<family, words, locals, asleep>>

-----------------------------------------------------------------------------
(* syscall_process_spawn *)

SpawnLock(p) == Call(p, "spawn")

process_create(p, c) == /\ parent' = [parent EXCEPT ![c] = p]
                        /\ children' = [children EXCEPT ![p] = <<c>> \o @]

\* Memory may run out; or there is no address space for the handle, and the new process
\* is destroyed again, and the call returns with the mutex held.
Spawn(p, c, result) ==
    /\ pc[c] = "unborn" /\ At(p, "spawn")
    /\ pc' = [pc EXCEPT ![p] = "user", ![c] = IF result = "OK" THEN "user" ELSE @]
    /\ IF result = "OK" THEN process_create(p, c) ELSE UNCHANGED family
    /\ IF result = "INVAL" THEN UNCHANGED <<owner, panic>> ELSE mutex_release(p, p)
    /\ UNCHANGED <<words, locals, asleep>>

-----------------------------------------------------------------------------
(* syscall_process_exit, __process_on_terminate *)

ExitLock(p) == Call(p, "exit")

process_terminate(p) == terminate_flag' = [terminate_flag EXCEPT ![p] = TRUE]

Exit(p) == /\ Goes(p, "exit", "terminate") /\ process_terminate(p) /\ mutex_release(p, p)
           /\ UNCHANGED <<family, exited, exited_child_count, locals, asleep>>

\* An exception in user mode.
process_raise_exception(p) ==
    /\ Goes(p, "user", "terminate") /\ process_terminate(p)
    /\ UNCHANGED <<owner, panic, family, exited, exited_child_count, locals, asleep>>

TerminateLock(p) ==
    /\ Goes(p, "terminate", "own")
    /\ IF parent[p] = None THEN panic' = "NULL_parent_terminated" /\ UNCHANGED owner
       ELSE mutex_acquire(p, p)
    /\ UNCHANGED <<family, words, locals, asleep>>

TerminateLockParent(p) == /\ Goes(p, "own", "both") /\ mutex_acquire(p, parent[p])
                          /\ UNCHANGED <<family, words, locals, asleep>>

\* Some process takes a child out of p's list without p's mutex.
Unlinking(p) == pc[p] = "destroy"

\* The node of c is taken out of the list it is on.
list_remove(s, c) ==
    LET k == CHOOSE i \in 1 .. Len(s) : s[i] = c
    IN  [j \in 1 .. Len(s) - 1 |-> IF j < k THEN s[j] ELSE s[j + 1]]

\* Mutant: the child keeps its parent.
Reparent_Stays(p) ==
    LET c == Head(children[p]) IN
    /\ At(p, "both") /\ children[p] # <<>>
    /\ children' = [children EXCEPT ![p] = Tail(@), ![parent[p]] = <<c>> \o @]
    /\ panic' = IF owner[c] \notin {None, p} THEN "invalid_release" ELSE panic
    /\ owner' = [owner EXCEPT ![c] = None]
    /\ UNCHANGED <<pc, parent, words, locals, asleep>>

\* One child goes to the parent.  Its mutex is tried, the result ignored, and released.
\* If the parent is changing its list itself, the list may end up broken.
Reparent(p) ==
    LET c == Head(children[p]) IN
    /\ At(p, "both") /\ children[p] # <<>>
    /\ parent' = [parent EXCEPT ![c] = parent[p]]
    /\ children' = [children EXCEPT ![p] = Tail(@), ![parent[p]] = <<c>> \o @]
    /\ \/ panic' = IF owner[c] # None THEN "invalid_release" ELSE panic
       \/ Unlinking(parent[p]) /\ panic' = "list_broken"
    /\ owner' = [owner EXCEPT ![c] = None]
    /\ UNCHANGED <<pc, words, locals, asleep>>

\* Mutant: the parent is not woken.
Wake_Not(q, word) == UNCHANGED asleep

Wake(q, word) == asleep' = [asleep EXCEPT ![q] = IF @ = word THEN "no" ELSE @]

CountExit(p) ==
    /\ children[p] = <<>> /\ Goes(p, "both", "counted")
    /\ exited_child_count' = [exited_child_count EXCEPT ![parent[p]] = @ + 1]
    /\ Wake(parent[p], "count") /\ mutex_release(p, parent[p])
    /\ UNCHANGED <<family, terminate_flag, exited, locals>>

TerminateUnlock(p) == /\ Goes(p, "counted", "leave") /\ mutex_release(p, p)
                      /\ UNCHANGED <<family, words, locals, asleep>>

\* sched_leave, and the switch to another process, which makes this one EXITED.
Leave(p) == LET q == parent[p] IN
    /\ Goes(p, "leave", "zombie")
    /\ exited' = [exited EXCEPT ![p] = TRUE]
    /\ IF proc[q] = p THEN Wake(q, "state") ELSE UNCHANGED asleep
    /\ UNCHANGED <<owner, panic, family, terminate_flag, exited_child_count, locals>>

-----------------------------------------------------------------------------
(* syscall_process_wait *)

\* One turn of the loop for any child starts with the count.
WaitAny(p, from) == /\ Goes(p, from, "any")
                    /\ val' = [val EXCEPT ![p] = exited_child_count[p]]
                    /\ UNCHANGED <<owner, panic, asleep, family, words, proc>>

WaitAnyLock(p) == /\ Goes(p, "any", "any_scan") /\ mutex_acquire(p, p)
                  /\ UNCHANGED <<family, words, locals, asleep>>

\* The last child on the list that terminates.
WaitAnyScan(p) ==
    LET found == {i \in 1 .. Len(children[p]) : terminate_flag[children[p][i]]} IN
    /\ Goes(p, "any_scan", "any_sleep") /\ mutex_release(p, p)
    /\ \/ found = {} /\ proc' = [proc EXCEPT ![p] = None]
       \/ \E i \in found : /\ \A j \in found : j <= i
                           /\ proc' = [proc EXCEPT ![p] = children[p][i]]
    /\ UNCHANGED <<family, words, val, asleep>>

\* futex_kwait, whatever was found.
WaitAnySleep(p) ==
    /\ Goes(p, "any_sleep", "any_loop")
    /\ asleep' = [asleep EXCEPT ![p] = IF exited_child_count[p] = val[p] THEN "count" ELSE "no"]
    /\ val' = [val EXCEPT ![p] = 0]
    /\ UNCHANGED <<owner, panic, family, words, proc>>

WaitOneLock(p) == Call(p, "one")

\* The child with the identifier asked for, or -ERROR(INVAL).
WaitOne(p) ==
    /\ mutex_release(p, p)
    /\ \/ \E i \in 1 .. Len(children[p]) : /\ Goes(p, "one", "state")
                                           /\ proc' = [proc EXCEPT ![p] = children[p][i]]
       \/ Goes(p, "one", "user") /\ UNCHANGED proc
    /\ UNCHANGED <<family, words, val, asleep>>

\* The loop on the child's state.
WaitState(p) ==
    /\ At(p, "state") \/ (At(p, "any_loop") /\ proc[p] # None)
    /\ pc' = [pc EXCEPT ![p] = IF exited[proc[p]] THEN "destroy" ELSE "state"]
    /\ asleep' = [asleep EXCEPT ![p] = IF exited[proc[p]] THEN "no" ELSE "state"]
    /\ UNCHANGED <<owner, panic, family, words, locals>>

\* ASSERT(list_is_empty(&process->child_list_head)), list_remove.
process_destroy(c) ==
    /\ panic' = IF children[c] # <<>> THEN "destroyed_process_has_children" ELSE panic
    /\ children' = [children EXCEPT ![parent[c]] = list_remove(@, c)]

\* The child is destroyed, and the answer may hit memory that is not the caller's.
WaitDone(p) ==
    /\ At(p, "destroy") /\ process_destroy(proc[p])
    /\ proc' = [proc EXCEPT ![p] = None]
    /\ \/ pc' = [pc EXCEPT ![p] = "user", ![proc[p]] = "destroyed"] /\ UNCHANGED terminate_flag
       \/ pc' = [pc EXCEPT ![p] = "terminate", ![proc[p]] = "destroyed"] /\ process_terminate(p)
    /\ UNCHANGED <<owner, parent, exited, exited_child_count, val, asleep>>

-----------------------------------------------------------------------------

Calls(p) == SpawnLock(p) \/ ExitLock(p) \/ process_raise_exception(p) \/ WaitOneLock(p)
            \/ WaitAny(p, "user")

Steps(p) == \/ \E c \in Procs, r \in {"OK", "NOMEM", "INVAL"} : Spawn(p, c, r)
            \/ Exit(p) \/ TerminateLock(p) \/ TerminateLockParent(p) \/ Reparent(p)
            \/ CountExit(p) \/ TerminateUnlock(p) \/ Leave(p)
            \/ (proc[p] = None /\ WaitAny(p, "any_loop")) \/ WaitAnyLock(p) \/ WaitAnyScan(p)
            \/ WaitAnySleep(p) \/ WaitOne(p) \/ WaitState(p) \/ WaitDone(p)

Next == \E p \in Procs : Calls(p) \/ Steps(p)

Spec == Init /\ [][Next]_vars

\* A process in a call goes on with it.
LiveSpec == Spec /\ \A p \in Procs : WF_vars(Steps(p))

-----------------------------------------------------------------------------
(* Properties *)

Place == {"unborn", "user", "spawn", "exit", "terminate", "own", "both", "counted", "leave",
          "zombie", "any", "any_scan", "any_sleep", "any_loop", "one", "state", "destroy", "destroyed"}

There(p) == pc[p] \notin {"unborn", "destroyed"}

Lists(p, c) == \E i \in 1 .. Len(children[p]) : children[p][i] = c

TypeOK == /\ pc \in [Procs -> Place] /\ owner \in [Procs -> Procs \cup {None}]
          /\ parent \in [Procs -> Procs \cup {None}] /\ children \in [Procs -> Seq(Procs)]
          /\ terminate_flag \in [Procs -> BOOLEAN] /\ exited \in [Procs -> BOOLEAN]
          /\ exited_child_count \in [Procs -> Nat] /\ val \in [Procs -> Nat]
          /\ proc \in [Procs -> Procs \cup {None}] /\ asleep \in [Procs -> {"no", "count", "state"}]

\* Every process that is there, but the root, is once on the list of its parent and on
\* no other, and its parent is there and has not exited: nobody is orphaned however
\* exits of parents and children interleave.
ParentsAgree ==
    /\ \A c \in Procs \ {Root} : There(c) => /\ parent[c] \in Procs /\ There(parent[c])
                                             /\ ~exited[parent[c]]
    /\ \A p, c \in Procs : Lists(p, c) <=> There(c) /\ parent[c] = p
    /\ \A p \in Procs : \A i, j \in 1 .. Len(children[p]) : children[p][i] = children[p][j] => i = j

\* From every process the parents lead to the root: no processes are each other's
\* ancestors, however often they are reparented.
DescendFromRoot ==
    \A S \in (SUBSET {c \in Procs \ {Root} : There(c)}) \ {{}} : \E c \in S : parent[c] \notin S

\* The child a wait has found stays the caller's child until the caller destroys it.
FoundStaysMine == \A p \in Procs : proc[p] # None => There(proc[p]) /\ parent[proc[p]] = p

\* A process is destroyed only when it runs nowhere and holds no mutex.
DestroyedIsDone == \A c \in Procs : pc[c] = "destroyed" => exited[c] /\ \A m \in Procs : owner[m] # c

\* Through spawn, exit and wait in any order, as long as the kernel has not panicked,
\* parents and lists of children agree and form a tree, no living process has an exited
\* parent, the child a wait has found stays the waiting process's until it is destroyed,
\* and a destroyed process has exited and holds no mutex; nor is a process ever destroyed
\* that has children (ASSERT(list_is_empty(&process->child_list_head))).
FamilyIsTree ==
    /\ TypeOK
    /\ panic # "destroyed_process_has_children"
    /\ panic = "none" => ParentsAgree /\ DescendFromRoot /\ FoundStaysMine /\ DestroyedIsDone

\* "invalid release: ...": a mutex is released by its owner.
\* Not so in the code: see README, "Disagreements".
ReleasedByOwner == panic # "invalid_release"

\* ASSERT(expected != get_current_proc()): a mutex is not acquired by its owner.
\* Not so in the code: see README, "Disagreements".
AcquiredOnce == panic # "mutex_acquired_twice"

\* "assume holding parent's lock": process_destroy runs under the parent's mutex.
\* Not so in the code: see README, "Disagreements".
DestroyHoldsLock == \A p \in Procs : At(p, "destroy") => owner[parent[proc[p]]] = p

\* A wait for one child comes back once that child terminates.
WaitOneReturns ==
    \A p \in Procs : (pc[p] = "state" /\ terminate_flag[proc[p]]) ~> (pc[p] # "state" \/ panic # "none")

\* "wait until there's child exit": a wait for any child comes back when a child has
\* exited.
\* Not so in the code: see README, "Disagreements".
WaitAnyReturns ==
    \A p, c \in Procs :
        LET Waits == pc[p] \in {"any", "any_scan", "any_sleep", "any_loop"} IN
        (Waits /\ parent[c] = p /\ pc[c] = "zombie") ~> (~Waits \/ panic # "none")
=============================================================================
