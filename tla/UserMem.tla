------------------------------ MODULE UserMem ------------------------------
(***************************************************************************)
(* Access of the kernel to user memory, kernel/k_user_mem.c, for system     *)
(* calls, ports (user_memory_copy), interfaces and user futexes, while       *)
(* other processes map and unmap pages of the same address spaces.  Each     *)
(* space has its mutex; a step is an acquisition or what is done under it.   *)
(* Data is left out: what counts is which frames are accessed, and when.     *)
(***************************************************************************)
EXTENDS Integers

CONSTANTS User, Space,
          space,       \* space[p]: CURRENT_ADDRESS_SPACE of p; two may share one
          Below,       \* Below[a]: spaces whose mutex is at a lower address than a's
          Pages,       \* pages are 0 .. Pages - 1
          PAGE,        \* KMEM_PAGE_SIZE, in words
          Bare,        \* pages for which no table has been made
          Starts, Sizes, \* addresses and sizes of ranges
          Ops,         \* calls that are made
          Low,         \* what physical page 0 gives when it is read as a page table
          MaxFrame     \* frames 1 .. MaxFrame are for pages

Page == 0 .. Pages - 1
Absent == [frame |-> 0, rw |-> FALSE]

\* Of two mutexes one is at the lower address; ranges begin in the pages.
ASSUME SpaceAssumption == /\ Space # {} /\ space \in [User -> Space]
                          /\ \A a, b \in Space : a # b => (a \in Below[b] <=> b \notin Below[a])
ASSUME PageAssumption  == /\ Pages \in Nat \ {0} /\ PAGE \in Nat \ {0}
                          /\ Starts \subseteq 0 .. Pages * PAGE - 1 /\ Sizes \subseteq Nat
ASSUME FrameAssumption == MaxFrame \in Nat /\ Low \in [Page -> 0 .. MaxFrame]

VARIABLES owner,  \* owner[a]: {p} when p holds the mutex of a
          map,    \* map[a][v]: entry of page v
          user_pc, call, got,   \* place, arguments, and frames found by p
          asleep, \* asleep[p]: physical address p sleeps on in futex_wait, or -1
          panic

userVars == <<owner, map, user_pc, call, got, asleep, panic>>

-----------------------------------------------------------------------------
\* Pages tested for a range: one every page size from its first address.
Tested(va, n) == {(va + k * PAGE) \div PAGE : k \in {j \in 0 .. Pages : j * PAGE < n}}

\* There is no table for the page: vm_check_attr reads through a null pointer.
NoTable(a, v) == v \in Bare /\ map[a][v] = Absent

user_memory_check_read(a, va, n) == \A v \in Tested(va, n) : map[a][v] # Absent
user_memory_check_write(a, va, n) == \A v \in Tested(va, n) : map[a][v].rw

vm_get_pma_by_vma(a, va) == map[a][va \div PAGE].frame

\* futex_wait and futex_wake pass the address_space_t in place of its first table: its
\* first word is ref_count, and an odd one is an entry that leads to physical page 0.
futex_paddr(va, odd) == IF odd THEN Low[va \div PAGE] ELSE 0

-----------------------------------------------------------------------------
None == [op |-> "none", src |-> CHOOSE a \in Space : TRUE, sa |-> 0, dst |-> CHOOSE a \in Space : TRUE, da |-> 0, n |-> 0]

NoFrames == [src |-> 0, dst |-> 0]

UserInit == /\ owner = [a \in Space |-> {}]
            /\ map = [a \in Space |-> [v \in Page |-> Absent]]
            /\ user_pc = [p \in User |-> "user"] /\ call = [p \in User |-> None]
            /\ got = [p \in User |-> NoFrames]
            /\ asleep = [p \in User |-> -1] /\ panic = "none"

\* p goes on; what it knew is forgotten when its call returns.
UserGoes(p, from, to) ==
    /\ panic = "none" /\ user_pc[p] = from /\ user_pc' = [user_pc EXCEPT ![p] = to]
    /\ to \in {"user", "asleep"} => call' = [call EXCEPT ![p] = None] /\ got' = [got EXCEPT ![p] = NoFrames]
Free(a) == owner[a] = {}
mutex_acquire(p, a) == Free(a) /\ owner' = [owner EXCEPT ![a] = {p}]

\* Which spaces a call reads and writes, and whether they are two.
Reads(c) == c.op # "write"
Writes(c) == c.op \in {"write", "receive", "response", "ifce"}
Dual(c) == c.op \in {"receive", "response"}

\* Mutant: the source's mutex first, wherever it is.
First_Source(c) == c.src

\* The mutex taken first by mutex_acquire_dual(&src_as->lock, &dst_as->lock).
First(c) == IF c.src \in Below[c.dst] THEN c.src ELSE c.dst
Second(c) == IF First(c) = c.dst THEN c.src ELSE c.dst

\* A server copies a request from the space of another process, a response to it
\* (port_receive, port_response); other calls are about the caller's own space.
Call(p, op, q, sa, da, n) ==
    /\ Dual([op |-> op]) <=> q # p
    /\ UserGoes(p, "user", "first")
    /\ call' = [call EXCEPT ![p] = [op |-> op, src |-> space[IF op = "receive" THEN q ELSE p], sa |-> sa,
                                   dst |-> space[IF op = "response" THEN q ELSE p], da |-> da, n |-> n]]
    /\ IF Reads([op |-> op]) THEN sa \in Starts ELSE sa = 0
    /\ IF Writes([op |-> op]) THEN da \in Starts ELSE da = 0
    /\ UNCHANGED <<owner, map, got, asleep, panic>>

AcquireFirst(p) ==
    /\ UserGoes(p, "first", IF Dual(call[p]) THEN "second" ELSE "check")
    /\ mutex_acquire(p, First(call[p])) /\ UNCHANGED <<map, call, got, asleep, panic>>

AcquireSecond(p) ==
    /\ UserGoes(p, "second", "check") /\ mutex_acquire(p, Second(call[p]))
    /\ UNCHANGED <<map, call, got, asleep, panic>>

Held(c) == {c.src, c.dst}
Release(p, S) == owner' = [a \in Space |-> IF a \in S THEN {} ELSE owner[a]]

Checked(c) == /\ Reads(c) => user_memory_check_read(c.src, c.sa, c.n)
              /\ Writes(c) => user_memory_check_write(c.dst, c.da, c.n)

Faults(c) == \/ Reads(c) /\ \E v \in Tested(c.sa, c.n) : NoTable(c.src, v)
             \/ Writes(c) /\ \E v \in Tested(c.da, c.n) : NoTable(c.dst, v)

\* Mutant: locks are released between the check and the copy.
KeptFor_None(c) == {}

\* Mutexes that are held until the copy is done.  An interface's request is made after
\* the release, a wake with the physical address only.
KeptFor(c) == IF c.op \in {"ifce", "wake"} THEN {} ELSE Held(c)

Translated(c, odd) == [src |-> IF ~Reads(c) THEN 0
                              ELSE IF c.op \in {"wait", "wake"} THEN futex_paddr(c.sa, odd)
                              ELSE vm_get_pma_by_vma(c.src, c.sa),
                       dst |-> IF Writes(c) THEN vm_get_pma_by_vma(c.dst, c.da) ELSE 0]

\* A range that fails the check ends the call: with an error, or with the process
\* terminated.
Check(p, odd) ==
    LET c == call[p] IN
    /\ panic = "none" /\ user_pc[p] = "check"
    /\ IF Faults(c) THEN panic' = "null_entry" /\ UNCHANGED <<owner, user_pc, call, got>>
       ELSE IF ~Checked(c) THEN UserGoes(p, "check", "user") /\ Release(p, Held(c)) /\ UNCHANGED panic
       ELSE /\ UserGoes(p, "check", "access") /\ Release(p, Held(c) \ KeptFor(c))
            /\ got' = [got EXCEPT ![p] = Translated(c, odd)] /\ UNCHANGED <<call, panic>>
    /\ UNCHANGED <<map, asleep>>

\* kmemcpy or kmemmov, and the release.
Copy(p) ==
    LET c == call[p] IN
    /\ c.op \in {"read", "write", "receive", "response"} /\ UserGoes(p, "access", "user") /\ Release(p, Held(c))
    /\ UNCHANGED <<map, asleep, panic>>

\* ifce->req_func, which uses the caller's addresses.
Interface(p) ==
    /\ call[p].op = "ifce" /\ UserGoes(p, "access", "user") /\ UNCHANGED <<owner, map, asleep, panic>>

SleepReleases(c) == Held(c)

\* futex_wait: the word has the value and p sleeps, or it has not; Futex models the bucket.
FutexWait(p, equal) ==
    /\ call[p].op = "wait"
    /\ UserGoes(p, "access", IF equal THEN "asleep" ELSE "user")
    /\ asleep' = [asleep EXCEPT ![p] = IF equal THEN got[p].src ELSE -1]
    /\ Release(p, IF equal THEN SleepReleases(call[p]) ELSE Held(call[p]))
    /\ UNCHANGED <<map, panic>>

\* __do_futex_wake with a count for all.
FutexWake(p) ==
    LET woken == {q \in User : asleep[q] = got[p].src} IN
    /\ call[p].op = "wake" /\ panic = "none" /\ user_pc[p] = "access"
    /\ user_pc' = [q \in User |-> IF q = p \/ q \in woken THEN "user" ELSE user_pc[q]]
    /\ asleep' = [q \in User |-> IF q \in woken THEN -1 ELSE asleep[q]]
    /\ call' = [call EXCEPT ![p] = None] /\ got' = [got EXCEPT ![p] = NoFrames]
    /\ UNCHANGED <<owner, map, panic>>

\* syscall_mmap and syscall_munmap of one page (module AddressSpace), by any process
\* with a handle to the space, under its mutex.
Map(a, v, f, rw) ==
    /\ panic = "none" /\ Free(a) /\ map[a][v] = Absent
    /\ \A b \in Space, w \in Page : map[b][w].frame # f
    /\ map' = [map EXCEPT ![a][v] = [frame |-> f, rw |-> rw]]
    /\ UNCHANGED <<owner, user_pc, call, got, asleep, panic>>

Unmap(a, v) ==
    /\ panic = "none" /\ Free(a) /\ map[a][v] # Absent
    /\ map' = [map EXCEPT ![a][v] = Absent] /\ UNCHANGED <<owner, user_pc, call, got, asleep, panic>>

UserNext == \/ \E p, q \in User, op \in Ops, sa, da \in Starts \cup {0}, n \in Sizes : Call(p, op, q, sa, da, n)
            \/ \E p \in User : \/ AcquireFirst(p) \/ AcquireSecond(p) \/ Copy(p) \/ Interface(p)
                               \/ FutexWake(p) \/ \E b \in BOOLEAN : Check(p, b) \/ FutexWait(p, b)
            \/ \E a \in Space, v \in Page : \/ Unmap(a, v)
                                            \/ \E f \in 1 .. MaxFrame, rw \in BOOLEAN : Map(a, v, f, rw)

UserSpec == UserInit /\ [][UserNext]_userVars

-----------------------------------------------------------------------------
\* Variables have their types, mutexes at most one holder, and translations are frames.
UserTypeOK ==
    /\ owner \in [Space -> SUBSET User] /\ \A a \in Space : \A p, q \in owner[a] : p = q
    /\ got \in [User -> [src : 0 .. MaxFrame, dst : 0 .. MaxFrame]]
    /\ map \in [Space -> [Page -> [frame : 0 .. MaxFrame, rw : BOOLEAN]]]
    /\ \A p \in User : asleep[p] # -1 <=> user_pc[p] = "asleep"

\* When data is copied (k_user_mem.c:75, :94, :125), the first frames of both ranges are
\* those mapped there, and the destination may be written to, though others map and unmap
\* pages between the check and the copy.
CopiesWhatIsMapped ==
    /\ UserTypeOK
    /\ \A p \in User : LET c == call[p] IN
        user_pc[p] = "access" /\ c.op \in {"read", "write", "receive", "response"} /\ c.n > 0 =>
            /\ Reads(c) => got[p].src # 0 /\ map[c.src][c.sa \div PAGE].frame = got[p].src
            /\ Writes(c) => map[c.dst][c.da \div PAGE] = [frame |-> got[p].dst, rw |-> TRUE]

\* The space whose mutex p is waiting for.
WaitsFor(p) == CASE user_pc[p] = "first" -> {First(call[p])} [] user_pc[p] = "second" -> {Second(call[p])} [] OTHER -> {}

\* Copies between two spaces in both directions do not wait for each other
\* (k_mutex.c:69-79); and a process asleep in futex_wait holds no mutex (k_futex.c:91):
\* others can map, copy and wake.
NoDeadlock ==
    /\ \A p, q \in User : p # q =>
          ~(\E a \in WaitsFor(p), b \in WaitsFor(q) : q \in owner[a] /\ p \in owner[b])
    /\ \A p \in User, a \in Space : user_pc[p] = "asleep" => p \notin owner[a]

\* "ASSERT(expected != get_current_proc())" (k_mutex.c:51), for user_memory_copy.
\* Not so in the code, when two processes share a space: see README, "Disagreements".
NotMine == \A p \in User : \A a \in WaitsFor(p) : p \notin owner[a]

\* "Access violation" (k_futex.c:64): an address that cannot be read makes the check fail.
\* Not so in the code, for an address without tables: see README, "Disagreements".
CheckReturns == panic # "null_entry"

\* The word that futex_wait sleeps on is that of the address: vm_get_pma_by_vma's first
\* parameter is "void *pml4_vaddr" (k_memory.h:69).
\* Not so in the code: see README, "Disagreements".
SleepsOnItsWord ==
    \A p \in User : user_pc[p] = "access" /\ call[p].op = "wait" =>
        got[p].src = vm_get_pma_by_vma(call[p].src, call[p].sa)
=============================================================================
