------------------------------ MODULE Handles ------------------------------
(***************************************************************************)
(* Kernel objects and what they refer to: each process's table of objects   *)
(* (k_kobj.c), and address spaces counted by the objects that refer to them *)
(* and by the processes that run in them (k_syscall.c, process_destroy).    *)
(* A count is changed with the address space's mutex held, by a load and a  *)
(* store; process_destroy changes it by one locked instruction, without     *)
(* the mutex.  A process works on its own table only.                       *)
(***************************************************************************)
EXTENDS Integers, Sequences, FiniteSetsExt

CONSTANTS Procs, Root, Spaces, Boot,
          KOBJ_INIT_SIZE,
          MaxSize,   \* bound on a table's size: beyond it memory runs out
          MaxPorts,  \* bound on port references
          Discipline \* programs destroy only address spaces nobody else uses

VARIABLES state,      \* of a process: "unborn", "live", "exiting", "exited", "destroyed"
          current,    \* its address space
          kobjects,   \* its objects; a handle is an index
          update,     \* the change of counts it is about to store
          space,      \* of an address space: "unborn", "there", "destroyed"
          ref_count,
          ports,      \* number of port references that are open
          panic

vars == <<state, current, kobjects, update, space, ref_count, ports, panic>>

Unalloced == [type |-> "UNALLOCED"]
Port      == [type |-> "PORT"]
Space(a)  == [type |-> "ADDRESS_SPACE", ptr |-> a]
Idle      == [then |-> "none"]

\* Boot counts no reference for the first process.
Init == /\ state = [p \in Procs |-> IF p = Root THEN "live" ELSE "unborn"]
        /\ current = [p \in Procs |-> Boot]
        /\ kobjects = [p \in Procs |-> [i \in 1 .. KOBJ_INIT_SIZE |-> Unalloced]]
        /\ update = [p \in Procs |-> Idle]
        /\ space = [a \in Spaces |-> IF a = Boot THEN "there" ELSE "unborn"]
        /\ ref_count = [a \in Spaces |-> 0] /\ ports = 0 /\ panic = "none"

Runs(p) == panic = "none" /\ state[p] = "live" /\ update[p] = Idle

-----------------------------------------------------------------------------
(* k_kobj.c *)

Free(p) == {i \in DOMAIN kobjects[p] : kobjects[p][i] = Unalloced}

\* Half as large again.
expand_kobjects(t) == [i \in 1 .. (Len(t) * 3) \div 2 |-> IF i \in DOMAIN t THEN t[i] ELSE Unalloced]

\* kobject_alloc_lock, the object filled in with obj and released: an object in a table
\* that had to grow was not locked.
New(p, obj) ==
    IF Free(p) # {}
    THEN kobjects' = [kobjects EXCEPT ![p][Min(Free(p))] = obj] /\ UNCHANGED panic
    ELSE LET t == expand_kobjects(kobjects[p]) IN
         /\ Len(t) <= MaxSize
         /\ kobjects' = [kobjects EXCEPT ![p] = [t EXCEPT ![Len(kobjects[p]) + 1] = obj]]
         /\ panic' = "invalid_release_of_an_object"

kobject_free(p, h) == kobjects' = [kobjects EXCEPT ![p][h] = Unalloced]

SpaceAt(p, h) == h \in DOMAIN kobjects[p] /\ kobjects[p][h].type = "ADDRESS_SPACE"

-----------------------------------------------------------------------------
(* Counts *)

\* With the mutexes of the address spaces in DOMAIN delta, p has loaded their counts.
Begin(p, delta, then, arg) ==
    /\ \A q \in Procs : update[q] # Idle => DOMAIN update[q].delta \cap DOMAIN delta = {}
    /\ update' = [update EXCEPT ![p] = [then |-> then, arg |-> arg, delta |-> delta,
                                        load |-> [a \in DOMAIN delta |-> ref_count[a]]]]

Stored(p) == [a \in Spaces |-> IF a \in DOMAIN update[p].delta
                               THEN update[p].load[a] + update[p].delta[a] ELSE ref_count[a]]

\* Address spaces that p's store leaves without a reference.
Ended(p) == {a \in DOMAIN update[p].delta : Stored(p)[a] = 0}

Finish(p, then) == /\ panic = "none" /\ update[p].then = then
                   /\ update' = [update EXCEPT ![p] = Idle]
                   /\ ref_count' = Stored(p)
                   /\ space' = [a \in Spaces |-> IF a \in Ended(p) THEN "destroyed" ELSE space[a]]

One(a, d) == [x \in {a} |-> d]

-----------------------------------------------------------------------------
(* System calls on address spaces *)

\* vm_address_space_create, the reference of the object counted.
Create(p) == \E a \in Spaces : /\ space[a] = "unborn" /\ space' = [space EXCEPT ![a] = "there"]
                               /\ ref_count' = [ref_count EXCEPT ![a] = 1]
                               /\ New(p, Space(a))

syscall_as_create(p) == Runs(p) /\ Create(p) /\ UNCHANGED <<state, current, update, ports>>

syscall_as_clone(p) == /\ Runs(p) /\ \E h \in DOMAIN kobjects[p] : SpaceAt(p, h)
                       /\ Create(p) /\ UNCHANGED <<state, current, update, ports>>

syscall_as_destroy(p, h) ==
    /\ Runs(p) /\ SpaceAt(p, h)
    /\ Discipline => ref_count[kobjects[p][h].ptr] = 1
    /\ Begin(p, One(kobjects[p][h].ptr, -1), "destroy", h)
    /\ UNCHANGED <<state, current, kobjects, space, ref_count, ports, panic>>

\* The object is freed only if the address space is destroyed.
AsDestroyed(p) == /\ Finish(p, "destroy")
                  /\ IF Ended(p) # {} THEN kobject_free(p, update[p].arg) ELSE UNCHANGED kobjects
                  /\ UNCHANGED <<state, current, ports, panic>>

syscall_process_spawn(p, h) ==
    /\ Runs(p) /\ SpaceAt(p, h)
    /\ Begin(p, One(kobjects[p][h].ptr, 1), "spawn", kobjects[p][h].ptr)
    /\ UNCHANGED <<state, current, kobjects, space, ref_count, ports, panic>>

Spawned(p, c) == /\ state[c] = "unborn" /\ Finish(p, "spawn")
                 /\ state' = [state EXCEPT ![c] = "live"]
                 /\ current' = [current EXCEPT ![c] = update[p].arg]
                 /\ UNCHANGED <<kobjects, ports, panic>>

\* Mutant: the new address space is not counted.
Moved_Old(new, old) == [x \in {new, old} |-> IF x = new THEN 0 ELSE -1]

Moved(new, old) == [x \in {new, old} |-> IF x = new THEN 1 ELSE -1]

\* mutex_acquire_dual takes the same mutex twice if the address space is the current one.
syscall_reincarnate(p, a) ==
    /\ Runs(p) /\ (a = current[p] \/ \E h \in DOMAIN kobjects[p] : kobjects[p][h] = Space(a))
    /\ current' = [current EXCEPT ![p] = a]
    /\ IF a = current[p] THEN panic' = "mutex_acquired_twice" /\ UNCHANGED update
       ELSE Begin(p, Moved(a, current[p]), "reincarnate", a) /\ UNCHANGED panic
    /\ UNCHANGED <<state, kobjects, space, ref_count, ports>>

Reincarnated(p) == Finish(p, "reincarnate") /\ UNCHANGED <<state, current, kobjects, ports, panic>>

-----------------------------------------------------------------------------
(* System calls on ports, which here are a number of references *)

syscall_port_open(p) == /\ Runs(p) /\ ports < MaxPorts /\ New(p, Port) /\ ports' = ports + 1
                        /\ UNCHANGED <<state, current, update, space, ref_count>>

syscall_port_close(p, h) ==
    /\ Runs(p) /\ h \in DOMAIN kobjects[p] /\ kobjects[p][h] = Port
    /\ ports' = ports - 1 /\ kobject_free(p, h)
    /\ UNCHANGED <<state, current, update, space, ref_count, panic>>

-----------------------------------------------------------------------------
(* Exit *)

Exit(p) == /\ Runs(p) /\ p # Root /\ state' = [state EXCEPT ![p] = "exiting"]
           /\ UNCHANGED <<current, kobjects, update, space, ref_count, ports, panic>>

\* One turn of kobject_cleanup; what it has passed is dropped from the table here.
kobject_cleanup(p) ==
    LET h == Min(DOMAIN kobjects[p] \ Free(p)) IN
    /\ panic = "none" /\ state[p] = "exiting" /\ update[p] = Idle
    /\ Free(p) # DOMAIN kobjects[p] /\ kobject_free(p, h)
    /\ IF kobjects[p][h] = Port THEN ports' = ports - 1 /\ UNCHANGED update
       ELSE Begin(p, One(kobjects[p][h].ptr, -1), "cleanup", h) /\ UNCHANGED ports
    /\ UNCHANGED <<state, current, space, ref_count, panic>>

\* The mutex of an address space without references is released twice.
CleanedUp(p) == /\ Finish(p, "cleanup")
                /\ panic' = IF Ended(p) # {} THEN "invalid_release_of_an_address_space" ELSE "none"
                /\ UNCHANGED <<state, current, kobjects, ports>>

Exited(p) == /\ panic = "none" /\ state[p] = "exiting" /\ update[p] = Idle
             /\ Free(p) = DOMAIN kobjects[p] /\ state' = [state EXCEPT ![p] = "exited"]
             /\ UNCHANGED <<current, kobjects, update, space, ref_count, ports, panic>>

\* By a parent that waits; no mutex.
process_destroy(p) ==
    /\ state[p] = "exited" /\ \E q \in Procs : Runs(q)
    /\ state' = [state EXCEPT ![p] = "destroyed"]
    /\ ref_count' = [ref_count EXCEPT ![current[p]] = @ - 1]
    /\ space' = [space EXCEPT ![current[p]] = IF ref_count'[current[p]] = 0 THEN "destroyed" ELSE @]
    /\ UNCHANGED <<current, kobjects, update, ports, panic>>

Next == \E p \in Procs :
           \/ syscall_as_create(p) \/ syscall_as_clone(p) \/ AsDestroyed(p) \/ Reincarnated(p)
           \/ syscall_port_open(p) \/ Exit(p) \/ kobject_cleanup(p) \/ CleanedUp(p)
           \/ Exited(p) \/ process_destroy(p)
           \/ \E h \in 1 .. MaxSize : \/ syscall_as_destroy(p, h) \/ syscall_process_spawn(p, h)
                                      \/ syscall_port_close(p, h)
           \/ \E c \in Procs : Spawned(p, c)
           \/ \E a \in Spaces : syscall_reincarnate(p, a)

Spec == Init /\ [][Next]_vars

-----------------------------------------------------------------------------
(* Properties *)

TypeOK == /\ state \in [Procs -> {"unborn", "live", "exiting", "exited", "destroyed"}]
          /\ current \in [Procs -> Spaces] /\ ref_count \in [Spaces -> Int] /\ ports \in 0 .. MaxPorts
          /\ space \in [Spaces -> {"unborn", "there", "destroyed"}]
          /\ \A p \in Procs : Len(kobjects[p]) <= MaxSize

Here == {p \in Procs : state[p] \in {"live", "exiting", "exited"}}

References(a) == Cardinality({p \in Here : current[p] = a /\ update[p].then # "reincarnate"})
                 + Cardinality({<<p, h>> \in Here \X (1 .. MaxSize) : SpaceAt(p, h) /\ kobjects[p][h].ptr = a})

\* An address space other than that of boot has at least as many references counted as
\* there are objects and processes that refer to it, although process_destroy does not
\* take its mutex: an update that is lost leaves the count too high, never too low.
CountCovers == panic = "none" => \A a \in Spaces \ {Boot} : space[a] = "there" => ref_count[a] >= References(a)

\* "can not destroy current address space": no process runs in, and no object refers
\* to, an address space that is destroyed.
\* Not so in the code, without Discipline: see README, "Disagreements".
CurrentIsThere ==
    panic = "none" => /\ \A p \in Here : space[current[p]] = "there"
                      /\ \A p \in Here, h \in 1 .. MaxSize : SpaceAt(p, h) => space[kobjects[p][h].ptr] = "there"

\* The port references that are open are those some process has an object for: exit
\* closes all of them, and nothing is closed twice.
PortsAreHandled ==
    ports = Cardinality({<<p, h>> \in Procs \X (1 .. MaxSize) :
                            h \in DOMAIN kobjects[p] /\ kobjects[p][h] = Port})

\* VERIFY(owner == get_current_proc()): a call that makes an object holds its mutex
\* when it releases it.
\* Not so in the code: see README, "Disagreements".
ObjectReleasedByOwner == panic # "invalid_release_of_an_object"

\* VERIFY(owner == get_current_proc()): so does exit, for an address space's mutex.
\* Not so in the code: see README, "Disagreements".
SpaceReleasedByOwner == panic # "invalid_release_of_an_address_space"

\* "unlock and relock to prevent deadlock": reincarnate does not wait for itself.
\* Not so in the code: see README, "Disagreements".
NoSelfDeadlock == panic # "mutex_acquired_twice"
=============================================================================
