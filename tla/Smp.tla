-------------------------------- MODULE Smp --------------------------------
(***************************************************************************)
(* How the first processor starts the others (ig_smp.c, ig_smp.s) and what  *)
(* they do at once (ig_entry_ap, process_init, sched_start), while the      *)
(* first goes on to create init (ig_entry_bsp).  The stack and the data of  *)
(* a processor reach it through two global pointers.  Before it has a       *)
(* process, a processor is STUB_THREAD to a mutex, as all the others are.   *)
(* What is allocated for a processor is named after it.                     *)
(***************************************************************************)
EXTENDS Integers

CONSTANTS N,        \* processors to start, in the order of the MADT
          Dead,     \* those that never answer
          Prompt    \* one that answers does so within the second wait

ASSUME SmpAssumption == N \in Nat

VARIABLES bpc, target,                       \* the first processor
          ig_ap_started, ig_ap_stack, ig_ap_percpu_data, next_cpuid,
          freed,                             \* stacks that were freed
          sipi,                              \* processors that were sent a start-up interrupt
          apc, stack, percpu,                \* the others: place, stack, data (0 none)
          cpuid,                             \* cpuid field of the data, 0 before it is set
          pid_lock,                          \* pid_bitmap_lock is owned, by STUB_THREAD
          kernel_proc, spaces,               \* __kernel_proc, processes with an address space
          panic

bvars == <<bpc, target, ig_ap_started, ig_ap_stack, ig_ap_percpu_data, freed, sipi>>
avars == <<stack, percpu, cpuid, next_cpuid>>
pvars == <<pid_lock, kernel_proc, spaces>>
vars  == <<bvars, avars, pvars, apc, panic>>

APs == 1..N

Init == /\ bpc = "start" /\ target = 0 /\ ig_ap_started = FALSE /\ ig_ap_stack = 0
        /\ ig_ap_percpu_data = 0 /\ next_cpuid = 1 /\ freed = {} /\ sipi = {}
        /\ apc = [a \in APs |-> "off"] /\ stack = [a \in APs |-> 0] /\ percpu = [a \in APs |-> 0]
        /\ cpuid = [a \in APs |-> 0]
        /\ pid_lock = FALSE /\ kernel_proc = 0 /\ spaces = {0} /\ panic = "none"

(* The first processor *)

\* Mutant: the flag is not reset.
StartAp_Unreset == /\ bpc = "start" /\ target < N /\ bpc' = "prepare" /\ target' = target + 1
                   /\ UNCHANGED <<ig_ap_started, ig_ap_stack, ig_ap_percpu_data, freed, sipi,
                                  avars, pvars, apc, panic>>

\* ig_smp_start_ap up to the end of the first wait.
StartAp == /\ bpc = "start" /\ target < N /\ bpc' = "prepare" /\ target' = target + 1
           /\ ig_ap_started' = FALSE
           /\ UNCHANGED <<ig_ap_stack, ig_ap_percpu_data, freed, sipi, avars, pvars, apc, panic>>

SendSipi == /\ bpc = "prepare" /\ bpc' = "wait_1ms"
            /\ ig_ap_stack' = target /\ ig_ap_percpu_data' = target /\ sipi' = sipi \cup {target}
            /\ UNCHANGED <<target, ig_ap_started, freed, avars, pvars, apc, panic>>

Retry == /\ bpc = "wait_1ms" /\ bpc' = IF ig_ap_started THEN "start" ELSE "wait_1s"
         /\ UNCHANGED <<target, ig_ap_started, ig_ap_stack, ig_ap_percpu_data, freed, sipi,
                        avars, pvars, apc, panic>>

GiveUp == /\ bpc = "wait_1s" /\ (Prompt => ig_ap_started \/ target \in Dead)
          /\ bpc' = "start"
          /\ freed' = IF ig_ap_started THEN freed ELSE freed \cup {ig_ap_stack}
          /\ UNCHANGED <<target, ig_ap_started, ig_ap_stack, ig_ap_percpu_data, sipi,
                         avars, pvars, apc, panic>>

\* All were started: alloc_pid for init.
CreateInit == /\ bpc = "start" /\ target = N /\ bpc' = "alloc"
              /\ UNCHANGED <<target, ig_ap_started, ig_ap_stack, ig_ap_percpu_data, freed, sipi,
                             avars, pvars, apc, panic>>

(* mutex_acquire and mutex_release of pid_bitmap_lock, by a processor without a process *)

Acquire == /\ pid_lock' = TRUE /\ panic' = IF pid_lock THEN "assert" ELSE panic
           /\ UNCHANGED <<kernel_proc, spaces>>

Release == /\ pid_lock' = FALSE /\ panic' = IF pid_lock THEN panic ELSE "invalid_release"
           /\ UNCHANGED <<kernel_proc, spaces>>

InitAlloc == /\ \/ bpc = "alloc" /\ Acquire /\ bpc' = "allocated"
                \/ bpc = "allocated" /\ Release /\ bpc' = "done"
             /\ UNCHANGED <<target, ig_ap_started, ig_ap_stack, ig_ap_percpu_data, freed, sipi,
                            avars, apc>>

(* The others *)

Goto(a, from, to) == apc[a] = from /\ apc' = [apc EXCEPT ![a] = to]

\* ig_ap_trampoline; a start-up interrupt is ignored by a processor that is running.
Trampoline(a) == /\ a \in sipi \ Dead /\ Goto(a, "off", "trampoline")
                 /\ UNCHANGED <<bvars, avars, pvars, panic>>

\* ig_ap_lm_entry loads the stack pointer.
LoadStack(a) == /\ Goto(a, "trampoline", "entry") /\ stack' = [stack EXCEPT ![a] = ig_ap_stack]
                /\ UNCHANGED <<bvars, percpu, cpuid, next_cpuid, pvars, panic>>

PercpuInit(a) == /\ Goto(a, "entry", "started")
                 /\ percpu' = [percpu EXCEPT ![a] = ig_ap_percpu_data]
                 /\ cpuid' = [cpuid EXCEPT ![ig_ap_percpu_data] = next_cpuid]
                 /\ next_cpuid' = next_cpuid + 1
                 /\ UNCHANGED <<bvars, stack, pvars, panic>>

\* The rest of ig_smp_ap_entry.
SetStarted(a) == /\ Goto(a, "started", "process_init") /\ ig_ap_started' = TRUE
                 /\ UNCHANGED <<bpc, target, ig_ap_stack, ig_ap_percpu_data, freed, sipi,
                                avars, pvars, panic>>

\* process_init: the mutex, then alloc_pid, __kernel_proc, its address space and its test.
ResetPids(a) == /\ Goto(a, "process_init", "alloc_kernel") /\ pid_lock' = FALSE
                /\ UNCHANGED <<bvars, avars, kernel_proc, spaces, panic>>

ApAlloc(a) == /\ \/ Goto(a, "alloc_kernel", "allocated_kernel") /\ Acquire
                 \/ Goto(a, "allocated_kernel", "kernel_proc") /\ Release
                 \/ Goto(a, "alloc_idle", "allocated_idle") /\ Acquire
                 \/ Goto(a, "allocated_idle", "idle") /\ Release
              /\ UNCHANGED <<bvars, avars>>

KernelProc(a) == /\ \/ /\ Goto(a, "kernel_proc", "space") /\ kernel_proc' = a
                       /\ UNCHANGED <<spaces, panic>>
                    \/ /\ Goto(a, "space", "verify") /\ spaces' = spaces \cup {kernel_proc}
                       /\ UNCHANGED <<kernel_proc, panic>>
                    \/ /\ Goto(a, "verify", "alloc_idle")
                       /\ panic' = IF kernel_proc \in spaces THEN panic ELSE "no_address_space"
                       /\ UNCHANGED <<kernel_proc, spaces>>
                 /\ UNCHANGED <<bvars, avars, pid_lock>>

\* sched_start loads the address space of __kernel_proc.
SchedStart(a) == /\ Goto(a, "idle", "up")
                 /\ panic' = IF kernel_proc \in spaces THEN panic ELSE "null_address_space"
                 /\ UNCHANGED <<bvars, avars, pvars>>

Next == /\ panic = "none"
        /\ \/ StartAp \/ SendSipi \/ Retry \/ GiveUp \/ CreateInit \/ InitAlloc
           \/ \E a \in APs : \/ Trampoline(a) \/ LoadStack(a) \/ PercpuInit(a) \/ SetStarted(a)
                             \/ ResetPids(a) \/ ApAlloc(a) \/ KernelProc(a) \/ SchedStart(a)

Spec == Init /\ [][Next]_vars

(* Properties *)

\* Identifiers are indices of __cpus, which has an element for each processor.
TypeOK == /\ \A a \in APs : cpuid[a] \in 0..N /\ stack[a] \in 0..N /\ percpu[a] \in 0..N
          /\ target \in 0..N /\ next_cpuid \in 1..N + 1 /\ freed \subseteq APs

\* Each processor that runs has a stack of its own that has not been freed, as the
\* comment "setup stack for AP" of ig_smp_start_ap promises.
\* Not so in the code, unless Prompt: see README, "Disagreements".
StacksApart ==
    \A a \in APs : stack[a] # 0 => /\ stack[a] \notin freed
                                   /\ \A b \in APs \ {a} : stack[b] # stack[a]

\* Processors that run have data and identifiers of their own.
IdsApart ==
    \A a, b \in APs : a # b /\ percpu[a] # 0 /\ percpu[b] # 0 =>
        percpu[a] # percpu[b] /\ cpuid[percpu[a]] # cpuid[percpu[b]]

\* ig_smp_start_ap goes on without freeing the stack only when the processor it started
\* has set the flag, not because another one has.
FlagIsOfTarget ==
    [][bpc' = "start" /\ bpc # "start" /\ freed' = freed =>
           apc[target] \notin {"off", "trampoline", "entry", "started"}]_vars

\* Processors that run have stacks, identifiers and data of their own, none of them freed,
\* if they answer in time (Prompt), and the flag that ends the wait for a processor
\* (ig_smp_start_ap) was set by that processor.
StartsAreApart == [](TypeOK /\ StacksApart /\ IdsApart) /\ FlagIsOfTarget

\* The assertion of mutex_acquire, "expected != get_current_proc()", holds during boot.
\* Not so in the code: see README, "Disagreements".
NotMine == panic # "assert"

\* mutex_release finds its caller the owner; else it says "invalid release".
\* Not so in the code: see README, "Disagreements".
ReleasedByOwner == panic # "invalid_release"

\* process_init panics with "failed to allocate address space for kernel proc" only when
\* the allocation failed, which it does not here.
\* Not so in the code: see README, "Disagreements".
SpaceVerified == panic # "no_address_space"
=============================================================================
