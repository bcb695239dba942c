------------------------------- MODULE Futex -------------------------------
(***************************************************************************)
(* The kernel-space futex of kernel/k_futex.c: futex_kwait and futex_kwake *)
(* over the hash of buckets, each with a spinlock, a list of entries and a *)
(* count of waiters that the waker reads without the lock.                 *)
(*                                                                         *)
(* One step is one access to shared memory that another processor can see. *)
(* What runs under a bucket's spinlock is still split at the accesses the  *)
(* unlocked fast path of __do_futex_wake races with.  Stores to words in   *)
(* Plain are ordinary x86 stores: they wait in the processor's store       *)
(* buffer and a later load may overtake them.  All other stores are locked *)
(* instructions.                                                           *)
(***************************************************************************)
EXTENDS Integers, Sequences

CONSTANTS Proc,         \* processes running kernel code
          Addr,         \* addresses of kernel futex words
          Val,          \* values of a word
          Count,        \* counts passed to futex_kwake
          CountMod,     \* uint arithmetic of the count is modulo CountMod
          Plain,        \* the words callers change with an ordinary store
          futex_size,   \* half the number of buckets
          NoProc        \* owner of a free spinlock

ASSUME FutexAssumption == /\ futex_size \in Nat \ {0}
                          /\ Addr \subseteq Nat
                          /\ Plain \subseteq Addr
                          /\ CountMod \in Nat \ {0}
                          /\ Count \subseteq 0 .. CountMod - 1
                          /\ NoProc \notin Proc
                          /\ Addr # {} /\ Val # {}

VARIABLES mem,      \* mem[a]: the word as all processors see it
          sbuf,     \* sbuf[p]: p's store not yet visible, {} or {<<a, v>>}
          lock,     \* lock[b]: holder of the bucket's spinlock
          waiters,  \* waiters[b]: the bucket's count
          queue,    \* queue[b]: entries from the head of the bucket's list
          state,    \* state[p]: p's state, changed together with its place in
                    \* the scheduler's ready list
          pc,       \* pc[p]: the next access of p's call
          op        \* op[p]: arguments of p's call: addr, val, count

vars == <<mem, sbuf, lock, waiters, queue, state, pc, op>>

Bucket == 0 .. 2 * futex_size - 1
Entry == [addr : Addr, proc : Proc]
Call == [addr : Addr, val : Val, count : 0 .. CountMod - 1]
NoCall == CHOOSE c \in Call : TRUE   \* the dead arguments of a process in no call

futex_calc_hash(addr) == addr % futex_size

\* The kernel's words use the upper half of the buckets.
Key(addr) == futex_calc_hash(addr) + futex_size
KeyOf(p) == Key(op[p].addr)

\* A locked instruction drains the store buffer of its processor.
Drained(p) == sbuf[p] = {}

futex_init == /\ lock = [b \in Bucket |-> NoProc]
              /\ queue = [b \in Bucket |-> <<>>]
              /\ waiters = [b \in Bucket |-> 0]

Init == /\ futex_init
        /\ mem \in [Addr -> Val]
        /\ sbuf = [p \in Proc |-> {}]
        /\ state = [p \in Proc |-> "READY"]
        /\ pc = [p \in Proc |-> "idle"]
        /\ op = [p \in Proc |-> NoCall]

At(p, from, to) == /\ pc[p] = from
                   /\ pc' = [pc EXCEPT ![p] = to]

Goto(p, from, to) == At(p, from, to) /\ UNCHANGED op
Return(p, from) == At(p, from, "idle") /\ op' = [op EXCEPT ![p] = NoCall]

SpinLock(p) == /\ Drained(p)
               /\ lock[KeyOf(p)] = NoProc
               /\ lock' = [lock EXCEPT ![KeyOf(p)] = p]
               /\ UNCHANGED <<mem, sbuf, waiters, queue, state>>

SpinUnlock(p) == /\ Drained(p)
                 /\ lock' = [lock EXCEPT ![KeyOf(p)] = NoProc]
                 /\ UNCHANGED <<mem, sbuf, waiters, queue, state>>

-----------------------------------------------------------------------------
(* futex_kwait(addr, val) *)

CallKWait(p, a, v) ==
    /\ At(p, "idle", "wait_lock")
    /\ op' = [op EXCEPT ![p] = [addr |-> a, val |-> v, count |-> 0]]
    /\ UNCHANGED <<mem, sbuf, lock, waiters, queue, state>>

WaitLock(p) == Goto(p, "wait_lock", "wait_inc") /\ SpinLock(p)

\* Mutant: the increment is forgotten.
WaitInc_NoIncrement(p) == /\ Goto(p, "wait_inc", "wait_check")
                          /\ UNCHANGED <<mem, sbuf, lock, waiters, queue, state>>

WaitInc(p) == /\ Goto(p, "wait_inc", "wait_check")
              /\ waiters' = [waiters EXCEPT ![KeyOf(p)] = @ + 1]
              /\ UNCHANGED <<mem, sbuf, lock, queue, state>>

\* Mutant: the word is not compared again under the lock.
WaitCheck_NoCompare(p) == /\ Goto(p, "wait_check", "wait_enqueue")
                          /\ UNCHANGED <<mem, sbuf, lock, waiters, queue, state>>

WaitCheck(p) == /\ \/ mem[op[p].addr] = op[p].val /\ Goto(p, "wait_check", "wait_enqueue")
                   \/ mem[op[p].addr] # op[p].val /\ Goto(p, "wait_check", "wait_back")
                /\ UNCHANGED <<mem, sbuf, lock, waiters, queue, state>>

\* list_insert at the head, state = BLOCKED and sched_set_blocking.
WaitEnqueue(p) ==
    /\ Goto(p, "wait_enqueue", "wait_unlock")
    /\ queue' = [queue EXCEPT ![KeyOf(p)] = <<[addr |-> op[p].addr, proc |-> p]>> \o @]
    /\ state' = [state EXCEPT ![p] = "BLOCKED"]
    /\ UNCHANGED <<mem, sbuf, lock, waiters>>

WaitUnlock(p) == Goto(p, "wait_unlock", "resched") /\ SpinUnlock(p)

\* sched_resched comes back only once a waker has made p ready again.
WaitResume(p) == /\ state[p] = "READY"
                 /\ Return(p, "resched")
                 /\ UNCHANGED <<mem, sbuf, lock, waiters, queue, state>>

\* Mutant: a wait that does not sleep leaves its increment behind.
WaitBack_NoDecrement(p) == /\ Goto(p, "wait_back", "back_unlock")
                           /\ UNCHANGED <<mem, sbuf, lock, waiters, queue, state>>

\* The word changed before p could sleep.
WaitBack(p) == /\ Goto(p, "wait_back", "back_unlock")
               /\ waiters' = [waiters EXCEPT ![KeyOf(p)] = @ - 1]
               /\ UNCHANGED <<mem, sbuf, lock, queue, state>>

BackUnlock(p) == Return(p, "back_unlock") /\ SpinUnlock(p)

-----------------------------------------------------------------------------
(* A caller changes the word and calls futex_kwake(addr, count). *)

\* The caller's store: visible at once, or later if it is a plain one.
Store(p, a, v) == \/ /\ a \notin Plain
                     /\ mem' = [mem EXCEPT ![a] = v]
                     /\ UNCHANGED sbuf
                  \/ /\ a \in Plain
                     /\ sbuf' = [sbuf EXCEPT ![p] = {<<a, v>>}]
                     /\ UNCHANGED mem

CallKWake(p, a, v, n) ==
    /\ At(p, "idle", "wake_load")
    /\ Drained(p)
    /\ Store(p, a, v)
    /\ op' = [op EXCEPT ![p] = [addr |-> a, val |-> v, count |-> n]]
    /\ UNCHANGED <<lock, waiters, queue, state>>

\* The store buffer of p's processor empties.
Flush(p) == /\ \E s \in sbuf[p] : mem' = [mem EXCEPT ![s[1]] = s[2]]
            /\ sbuf' = [sbuf EXCEPT ![p] = {}]
            /\ UNCHANGED <<lock, waiters, queue, state, pc, op>>

\* Mutant: the test is off by one.
WakeLoad_OffByOne(p) == /\ \/ waiters[KeyOf(p)] <= 1 /\ Return(p, "wake_load")
                           \/ waiters[KeyOf(p)] > 1 /\ Goto(p, "wake_load", "wake_lock")
                        /\ UNCHANGED <<mem, sbuf, lock, waiters, queue, state>>

\* The load of waiters that decides, without the lock, that nobody waits.
WakeLoad(p) == /\ \/ waiters[KeyOf(p)] = 0 /\ Return(p, "wake_load")
                  \/ waiters[KeyOf(p)] # 0 /\ Goto(p, "wake_load", "wake_lock")
               /\ UNCHANGED <<mem, sbuf, lock, waiters, queue, state>>

WakeLock(p) == Goto(p, "wake_lock", "wake_walk") /\ SpinLock(p)

\* Mutant: entry->addr is not compared with addr.
Matches_AnyAddr(b, a) == 1 .. Len(queue[b])

\* The walk removes only matching entries and never meets a new one, so it is
\* at the first entry of the list that matches.
Matches(b, a) == {i \in 1 .. Len(queue[b]) : queue[b][i].addr = a}
FirstMatch(b, a, i) == i \in Matches(b, a) /\ \A j \in Matches(b, a) : i <= j

Without(s, i) == [j \in 1 .. Len(s) - 1 |-> IF j < i THEN s[j] ELSE s[j + 1]]

\* Mutant: the entry is not removed from the list.
WakeEntry_NoRemove(p) ==
    LET b == KeyOf(p) IN
    /\ \E i \in 1 .. Len(queue[b]) :
          /\ FirstMatch(b, op[p].addr, i)
          /\ state' = [state EXCEPT ![queue[b][i].proc] = "READY"]
    /\ op' = [op EXCEPT ![p].count = (@ - 1) % CountMod]
    /\ waiters' = [waiters EXCEPT ![b] = @ - 1]
    /\ At(p, "wake_walk", "wake_unlock")
    /\ UNCHANGED <<mem, sbuf, lock, queue>>

\* list_remove, state = READY and sched_set_ready, then the loop's exit test.
WakeEntry(p) ==
    LET b == KeyOf(p) IN
    /\ \E i \in 1 .. Len(queue[b]) :
          /\ FirstMatch(b, op[p].addr, i)
          /\ queue' = [queue EXCEPT ![b] = Without(@, i)]
          /\ state' = [state EXCEPT ![queue[b][i].proc] = "READY"]
    /\ op' = [op EXCEPT ![p].count = (@ - 1) % CountMod]
    /\ waiters' = [waiters EXCEPT ![b] = @ - 1]
    /\ \/ (waiters'[b] = 0 \/ op'[p].count = 0) /\ At(p, "wake_walk", "wake_unlock")
       \/ ~(waiters'[b] = 0 \/ op'[p].count = 0) /\ At(p, "wake_walk", "wake_walk")
    /\ UNCHANGED <<mem, sbuf, lock>>

\* The walk has reached the end of the list.
WakeEndOfList(p) == /\ Matches(KeyOf(p), op[p].addr) = {}
                    /\ Goto(p, "wake_walk", "wake_unlock")
                    /\ UNCHANGED <<mem, sbuf, lock, waiters, queue, state>>

WakeUnlock(p) == Return(p, "wake_unlock") /\ SpinUnlock(p)

-----------------------------------------------------------------------------
Begin(p) == \/ \E a \in Addr, v \in Val : CallKWait(p, a, v)
            \/ \E a \in Addr, v \in Val, n \in Count : CallKWake(p, a, v, n)

Step(p) == \/ WaitLock(p) \/ WaitInc(p) \/ WaitCheck(p) \/ WaitEnqueue(p)
           \/ WaitUnlock(p) \/ WaitResume(p) \/ WaitBack(p) \/ BackUnlock(p)
           \/ WakeLoad(p) \/ WakeLock(p) \/ WakeEntry(p) \/ WakeEndOfList(p)
           \/ WakeUnlock(p)

Next == \E p \in Proc : Begin(p) \/ Step(p) \/ Flush(p)

Spec == Init /\ [][Next]_vars

-----------------------------------------------------------------------------
(* Properties *)

PC == {"idle", "wait_lock", "wait_inc", "wait_check", "wait_enqueue", "wait_unlock",
       "resched", "wait_back", "back_unlock", "wake_load", "wake_lock", "wake_walk",
       "wake_unlock"}

\* The type of every variable; a count of waiters is never negative (waiters is
\* an unsigned field of futex_bucket_s that futex_kwait and __do_futex_wake
\* increment and decrement).
TypeOK == /\ mem \in [Addr -> Val]
          /\ sbuf \in [Proc -> SUBSET (Plain \X Val)]
          /\ lock \in [Bucket -> Proc \cup {NoProc}]
          /\ waiters \in [Bucket -> Nat]
          /\ queue \in [Bucket -> Seq(Entry)]
          /\ state \in [Proc -> {"READY", "BLOCKED"}]
          /\ pc \in [Proc -> PC]
          /\ op \in [Proc -> Call]

\* Between the increment and the entry (or the decrement) of its futex_kwait.
InFlight(p) == pc[p] \in {"wait_check", "wait_enqueue", "wait_back"}
BeingAdded(b) == \E p \in Proc : KeyOf(p) = b /\ InFlight(p)

\* The count that the unlocked test of __do_futex_wake reads is exactly the
\* number of entries of the bucket plus the one waiter that is between its
\* increment and its entry: it is never zero while somebody sleeps, and it
\* returns to zero when nobody does.
WaitersAccounting ==
    \A b \in Bucket : waiters[b] = Len(queue[b]) + IF BeingAdded(b) THEN 1 ELSE 0

\* Entries and sleepers correspond one to one: every entry of a bucket names a
\* blocked process that waits for that very word, no process has two entries,
\* and every blocked process has one.  So a waker never hands a process that is
\* already in a ready list to sched_set_ready, and no sleeper is unreachable.
EntriesAreSleepers ==
    /\ \A b \in Bucket : \A i \in 1 .. Len(queue[b]) :
          LET e == queue[b][i] IN
          /\ state[e.proc] = "BLOCKED"
          /\ op[e.proc].addr = e.addr
          /\ Key(e.addr) = b
          /\ \A j \in 1 .. Len(queue[b]) : queue[b][j].proc = e.proc => i = j
    /\ \A p \in Proc : state[p] = "BLOCKED" =>
          \E i \in 1 .. Len(queue[KeyOf(p)]) : queue[KeyOf(p)][i].proc = p

\* p sleeps, from the load that found the expected value until it is woken.
Asleep(p) == pc[p] = "wait_enqueue" \/ state[p] = "BLOCKED"
Waking(p) == pc[p] \in {"wake_load", "wake_lock", "wake_walk", "wake_unlock"}
Sleeping == [p \in Proc |-> IF Asleep(p) THEN {op[p].addr} ELSE {}]
Wakes == [p \in Proc |-> IF Waking(p) THEN {<<op[p].addr, op[p].count>>} ELSE {}]

\* The detailed futex implements the abstract one: the compare-and-sleep of
\* futex_kwait is atomic, and __do_futex_wake, its unlocked early return
\* included, never returns while a process it should have woken sleeps on.
Abs == INSTANCE FutexAbstract WITH sleeping <- Sleeping, waking <- Wakes
ImplementsAbstract == Abs!ASpec

\* A process asleep on a word that no longer holds the value it waits for is
\* about to be woken: some caller that changed the word is still inside its
\* futex_kwake.  (For callers that wake all the sleepers of the word, as those
\* of words with one sleeper do.)
\* Not so in the code, for words in Plain: see README, "Disagreements".
NoLostWakeup ==
    \A q \in Proc : Asleep(q) /\ mem[op[q].addr] # op[q].val =>
        \E p \in Proc : Waking(p) /\ op[p].addr = op[q].addr
=============================================================================
