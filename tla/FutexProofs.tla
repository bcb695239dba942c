---------------------------- MODULE FutexProofs ----------------------------
(***************************************************************************)
(* Proofs about Futex, for any set of processes, words, values and any     *)
(* number of buckets.                                                      *)
(***************************************************************************)
EXTENDS Futex, FiniteSetTheorems, TLAPS

\* The program points at which a process holds its bucket's spinlock.
Holding == {"wait_inc", "wait_check", "wait_enqueue", "wait_unlock", "wait_back",
            "back_unlock", "wake_walk", "wake_unlock"}

\* A bucket's lock is held by exactly the process inside its critical section.
LockInv == \A p \in Proc, b \in Bucket :
             lock[b] = p <=> (pc[p] \in Holding /\ KeyOf(p) = b)

\* Only a process on its way through sched_resched is blocked.
BlockedInv == \A p \in Proc : state[p] = "BLOCKED" => pc[p] \in {"wait_unlock", "resched"}

\* A walk that stopped has used up its count or left no entry for its word.
WalkInv == \A p \in Proc : pc[p] = "wake_unlock" =>
             op[p].count = 0 \/ Matches(KeyOf(p), op[p].addr) = {}

IInv == TypeOK /\ LockInv /\ WaitersAccounting /\ EntriesAreSleepers
        /\ BlockedInv /\ WalkInv

-----------------------------------------------------------------------------
\* The bucket of a kernel word is in the table.
LEMMA KeyInBucket == ASSUME NEW a \in Addr PROVE Key(a) \in Bucket
<1>1. a \in Nat /\ futex_size \in Nat \ {0}
  BY Zenon, FutexAssumption
<1>2. a % futex_size \in 0 .. futex_size - 1
  BY <1>1
<1> QED BY <1>1, <1>2 DEF Key, futex_calc_hash, Bucket

\* Removing the i-th entry keeps the others in order.
LEMMA WithoutProps ==
  ASSUME NEW S, NEW s \in Seq(S), NEW i \in 1 .. Len(s)
  PROVE  /\ Without(s, i) \in Seq(S)
         /\ Len(Without(s, i)) = Len(s) - 1
         /\ \A j \in 1 .. Len(s) - 1 :
              Without(s, i)[j] = IF j < i THEN s[j] ELSE s[j + 1]
<1>1. Len(s) - 1 \in Nat
  OBVIOUS
<1>2. \A j \in 1 .. Len(s) - 1 : (IF j < i THEN s[j] ELSE s[j + 1]) \in S
  OBVIOUS
<1>3. Without(s, i) \in [1 .. Len(s) - 1 -> S]
  BY Zenon, <1>2 DEF Without
<1>4. Without(s, i) \in Seq(S)
  BY <1>1, <1>3
<1>5. DOMAIN Without(s, i) = 1 .. Len(s) - 1
  BY Zenon DEF Without
<1>6. Len(Without(s, i)) = Len(s) - 1
  BY <1>1, <1>4, <1>5
<1>7. \A j \in 1 .. Len(s) - 1 :
              Without(s, i)[j] = IF j < i THEN s[j] ELSE s[j + 1]
  BY Zenon DEF Without
<1> QED BY Zenon, <1>4, <1>6, <1>7

\* Inserting at the head shifts the entries by one.
LEMMA ConsProps ==
  ASSUME NEW S, NEW s \in Seq(S), NEW e \in S
  PROVE  /\ <<e>> \o s \in Seq(S)
         /\ Len(<<e>> \o s) = Len(s) + 1
         /\ (<<e>> \o s)[1] = e
         /\ \A j \in 2 .. Len(s) + 1 : (<<e>> \o s)[j] = s[j - 1]
OBVIOUS

\* The arguments of a process in no call are arguments.
LEMMA NoCallType == NoCall \in Call
<1>1. \E c : c \in Call
  <2> PICK a \in Addr, v \in Val : TRUE
    BY Zenon, FutexAssumption
  <2> 0 \in 0 .. CountMod - 1
    BY FutexAssumption
  <2> [addr |-> a, val |-> v, count |-> 0] \in Call
    BY Zenon DEF Call
  <2> QED BY Zenon
<1> QED BY Zenon, <1>1 DEF NoCall

\* The two cases of WaitersAccounting.
LEMMA AccountingCases ==
  ASSUME TypeOK, WaitersAccounting, NEW b \in Bucket
  PROVE  /\ BeingAdded(b) => waiters[b] = Len(queue[b]) + 1
         /\ ~BeingAdded(b) => waiters[b] = Len(queue[b])
<1>1. Len(queue[b]) \in Nat
  BY DEF TypeOK
<1>2. CASE BeingAdded(b)
  BY Zenon, <1>1, <1>2 DEF WaitersAccounting
<1>3. CASE ~BeingAdded(b)
  <2>1. waiters[b] = Len(queue[b]) + 0
    BY Zenon, <1>3 DEF WaitersAccounting
  <2> QED BY <1>1, <1>3, <2>1
<1> QED BY Zenon, <1>2, <1>3

\* The elements of a bucket's list are entries.
LEMMA EntryType ==
  ASSUME TypeOK, NEW b \in Bucket, NEW i \in 1 .. Len(queue[b])
  PROVE  queue[b][i] \in Entry
BY DEF TypeOK

-----------------------------------------------------------------------------
\* futex_init establishes the invariant: empty buckets and free locks.
LEMMA InitInv == Init => IInv
<1> SUFFICES ASSUME Init PROVE IInv
  BY Zenon
<1> USE DEF Init, futex_init
<1>1. TypeOK
  BY NoCallType, FutexAssumption DEF TypeOK, PC, Bucket
<1>2. LockInv
  BY Zenon, FutexAssumption DEF LockInv, Holding
<1>3. WaitersAccounting
  BY DEF WaitersAccounting, BeingAdded, InFlight
<1>4. EntriesAreSleepers
  BY DEF EntriesAreSleepers
<1>5. BlockedInv /\ WalkInv
  BY Zenon DEF BlockedInv, WalkInv
<1> QED BY Zenon, <1>1, <1>2, <1>3, <1>4, <1>5 DEF IInv

-----------------------------------------------------------------------------
\* The calls and the steps that only move a process along: the table of
\* buckets does not change, nor does any process's state.
LEMMA TableUnchanged ==
  ASSUME IInv, NEW p \in Proc,
         UNCHANGED <<lock, waiters, queue, state>>,
         pc' \in [Proc -> PC], op' \in [Proc -> Call],
         mem' \in [Addr -> Val], sbuf' \in [Proc -> SUBSET (Plain \X Val)],
         \A q \in Proc \ {p} : pc'[q] = pc[q] /\ op'[q] = op[q],
         state[p] = "READY",
         (pc[p] \notin Holding /\ pc'[p] \notin Holding)
           \/ (pc[p] \in Holding /\ pc'[p] \in Holding /\ op'[p] = op[p]
               /\ (InFlight(p) <=> InFlight(p)')),
         pc'[p] = "wake_unlock" => Matches(KeyOf(p), op[p].addr) = {} /\ op'[p] = op[p]
  PROVE  IInv'
<1> USE DEF IInv
<1>1. TypeOK'
  BY Zenon DEF TypeOK
<1>2. LockInv'
  BY DEF LockInv, KeyOf
<1>3. WaitersAccounting'
  <2> SUFFICES ASSUME NEW b \in Bucket
               PROVE BeingAdded(b)' <=> BeingAdded(b)
    BY Zenon DEF WaitersAccounting
  <2>1. \A q \in Proc \ {p} : (KeyOf(q)' = b /\ InFlight(q)') <=> (KeyOf(q) = b /\ InFlight(q))
    BY Zenon DEF KeyOf, InFlight
  <2>2. (KeyOf(p)' = b /\ InFlight(p)') <=> (KeyOf(p) = b /\ InFlight(p))
    BY Zenon DEF KeyOf, InFlight, Holding
  <2> QED BY Zenon, <2>1, <2>2 DEF BeingAdded
<1>4. EntriesAreSleepers'
  <2>1. \A b \in Bucket : \A i \in 1 .. Len(queue[b]) : queue[b][i].proc \in Proc \ {p}
    BY EntryType DEF EntriesAreSleepers, Entry
  <2> QED BY SMTT(30), <2>1 DEF EntriesAreSleepers, KeyOf
<1>5. BlockedInv'
  BY Zenon DEF BlockedInv
<1>6. WalkInv'
  BY SMTT(30) DEF WalkInv, Matches, KeyOf
<1> QED BY Zenon, <1>1, <1>2, <1>3, <1>4, <1>5, <1>6

\* The steps that touch neither the buckets nor a process's state: the calls,
\* the two tests, the return from sched_resched and the end of the walk.
LEMMA CallsInv ==
  ASSUME IInv, NEW p \in Proc, Begin(p) \/ WakeLoad(p) \/ WaitCheck(p)
                               \/ WaitResume(p) \/ WakeEndOfList(p)
  PROVE  IInv'
<1>1. state[p] = "READY"
  <2>1. pc[p] \notin {"wait_unlock", "resched"} \/ state[p] = "READY"
    BY Zenon DEF Begin, CallKWait, CallKWake, WakeLoad, WaitCheck, WaitResume, WakeEndOfList,
           Goto, Return, At
  <2> QED BY Zenon, <2>1 DEF IInv, BlockedInv, TypeOK
<1> USE NoCallType, TableUnchanged, <1>1
    DEF IInv, TypeOK, PC, Goto, Return, At, Holding, InFlight
<1>2. CASE \E a \in Addr, v \in Val : CallKWait(p, a, v)
  <2> PICK a \in Addr, v \in Val : CallKWait(p, a, v)
    BY Zenon, <1>2
  <2>1. [addr |-> a, val |-> v, count |-> 0] \in Call
    BY FutexAssumption DEF Call
  <2> QED BY Zenon, <2>1 DEF CallKWait
<1>3. CASE \E a \in Addr, v \in Val, n \in Count : CallKWake(p, a, v, n)
  <2> PICK a \in Addr, v \in Val, n \in Count : CallKWake(p, a, v, n)
    BY Zenon, <1>3
  <2>1. [addr |-> a, val |-> v, count |-> n] \in Call
    BY Zenon, FutexAssumption DEF Call
  <2>2. mem' \in [Addr -> Val] /\ sbuf' \in [Proc -> SUBSET (Plain \X Val)]
    <3>1. CASE a \notin Plain
      BY Zenon, <3>1 DEF CallKWake, Store
    <3>2. CASE a \in Plain
      <4>1. {<<a, v>>} \in SUBSET (Plain \X Val)
        BY <3>2
      <4> QED BY ZenonT(40), <3>2, <4>1 DEF CallKWake, Store
    <3> QED BY Zenon, <3>1, <3>2
  <2> QED BY Zenon, <2>1, <2>2 DEF CallKWake
<1>4. CASE WakeLoad(p)
  <2>1. CASE pc' = [pc EXCEPT ![p] = "idle"] /\ op' = [op EXCEPT ![p] = NoCall]
    BY Zenon, <1>4, <2>1 DEF WakeLoad
  <2>2. CASE pc' = [pc EXCEPT ![p] = "wake_lock"] /\ op' = op
    BY Zenon, <1>4, <2>2 DEF WakeLoad
  <2> QED BY Zenon, <1>4, <2>1, <2>2 DEF WakeLoad
<1>5. CASE WaitCheck(p)
  <2>1. CASE pc' = [pc EXCEPT ![p] = "wait_enqueue"]
    BY Zenon, <1>5, <2>1 DEF WaitCheck
  <2>2. CASE pc' = [pc EXCEPT ![p] = "wait_back"]
    BY Zenon, <1>5, <2>2 DEF WaitCheck
  <2> QED BY Zenon, <1>5, <2>1, <2>2 DEF WaitCheck
<1>6. CASE WaitResume(p)
  BY Zenon, <1>6 DEF WaitResume
<1>7. CASE WakeEndOfList(p)
  BY Zenon, <1>7 DEF WakeEndOfList
<1> QED BY Zenon, <1>2, <1>3, <1>4, <1>5, <1>6, <1>7 DEF Begin

\* A plain store becoming visible disturbs nothing but the word.
LEMMA FlushInv ==
  ASSUME IInv, NEW p \in Proc, Flush(p)
  PROVE  IInv'
<1> USE DEF IInv, Flush
<1>1. TypeOK'
  <2> PICK s \in sbuf[p] : mem' = [mem EXCEPT ![s[1]] = s[2]]
    BY Zenon
  <2>1. s \in Plain \X Val
    BY Zenon DEF TypeOK
  <2>2. s[1] \in Addr /\ s[2] \in Val
    BY Zenon, <2>1, FutexAssumption
  <2> QED BY Zenon, <2>2 DEF TypeOK
<1>2. LockInv' /\ BlockedInv' /\ WalkInv'
  BY DEF LockInv, BlockedInv, WalkInv, Matches, KeyOf
<1>3. WaitersAccounting'
  <2>1. \A q \in Proc : KeyOf(q)' = KeyOf(q) /\ (InFlight(q)' <=> InFlight(q))
    BY Zenon DEF KeyOf, InFlight
  <2>2. \A b \in Bucket : BeingAdded(b)' <=> BeingAdded(b)
    BY Zenon, <2>1 DEF BeingAdded
  <2> QED BY Zenon, <2>2 DEF WaitersAccounting
<1>4. EntriesAreSleepers'
  BY DEF EntriesAreSleepers, KeyOf
<1> QED BY Zenon, <1>1, <1>2, <1>3, <1>4

\* spinlock_lock: the caller enters the bucket's critical section.
LEMMA LockStepInv ==
  ASSUME IInv, NEW p \in Proc, WaitLock(p) \/ WakeLock(p)
  PROVE  IInv'
<1> USE DEF IInv, WaitLock, WakeLock, SpinLock, Goto, At
<1>1. TypeOK'
  <2>1. pc' \in {[pc EXCEPT ![p] = "wait_inc"], [pc EXCEPT ![p] = "wake_walk"]}
    BY Zenon
  <2>2. pc' \in [Proc -> PC]
    BY Zenon, <2>1 DEF TypeOK, PC
  <2>3. lock' \in [Bucket -> Proc \cup {NoProc}]
    BY Zenon DEF TypeOK
  <2> QED BY Zenon, <2>2, <2>3 DEF TypeOK
<1>2. KeyOf(p) \in Bucket
  BY Zenon, KeyInBucket DEF KeyOf, TypeOK, Call
<1>3. LockInv'
  <2> SUFFICES ASSUME NEW q \in Proc, NEW b \in Bucket
               PROVE  (lock[b] = q)' <=> (pc'[q] \in Holding /\ KeyOf(q)' = b)
    BY Zenon DEF LockInv
  <2>1. KeyOf(q)' = KeyOf(q)
    BY Zenon DEF KeyOf
  <2>2. CASE q = p
    BY <1>2, <2>1, <2>2 DEF LockInv, TypeOK, Holding
  <2>3. CASE q # p
    BY <1>2, <2>1, <2>3, FutexAssumption DEF LockInv, TypeOK, Holding
  <2> QED BY Zenon, <2>2, <2>3
<1>4. WaitersAccounting'
  <2>1. \A q \in Proc : KeyOf(q)' = KeyOf(q) /\ (InFlight(q)' <=> InFlight(q))
    BY DEF KeyOf, InFlight, TypeOK
  <2>2. \A b \in Bucket : BeingAdded(b)' <=> BeingAdded(b)
    BY Zenon, <2>1 DEF BeingAdded
  <2> QED BY Zenon, <2>2 DEF WaitersAccounting
<1>5. EntriesAreSleepers'
  BY DEF EntriesAreSleepers, KeyOf
<1>6. BlockedInv'
  BY DEF BlockedInv, TypeOK
<1>7. WalkInv'
  <2>1. \A q \in Proc : pc'[q] = "wake_unlock" => pc[q] = "wake_unlock"
    BY Zenon DEF TypeOK
  <2>2. \A b, a : Matches(b, a)' = Matches(b, a)
    BY Zenon DEF Matches
  <2> QED BY Zenon, <2>1, <2>2 DEF WalkInv, KeyOf
<1> QED BY Zenon, <1>1, <1>3, <1>4, <1>5, <1>6, <1>7

\* spinlock_unlock: the caller leaves the critical section.
LEMMA UnlockStepInv ==
  ASSUME IInv, NEW p \in Proc, WaitUnlock(p) \/ BackUnlock(p) \/ WakeUnlock(p)
  PROVE  IInv'
<1> USE DEF IInv, WaitUnlock, BackUnlock, WakeUnlock, SpinUnlock, Goto, Return, At
<1>1. TypeOK'
  BY ZenonT(40), NoCallType DEF TypeOK, PC
<1>2. KeyOf(p) \in Bucket
  BY Zenon, KeyInBucket DEF KeyOf, TypeOK, Call
<1>3. pc[p] \in Holding /\ pc'[p] \notin Holding /\ ~InFlight(p) /\ ~InFlight(p)'
  BY DEF Holding, InFlight, TypeOK
<1>4. \A q \in Proc \ {p} : pc'[q] = pc[q] /\ op'[q] = op[q]
  BY DEF TypeOK
<1>5. LockInv'
  <2> SUFFICES ASSUME NEW q \in Proc, NEW b \in Bucket
               PROVE  (lock[b] = q)' <=> (pc'[q] \in Holding /\ KeyOf(q)' = b)
    BY Zenon DEF LockInv
  <2>1. CASE q = p
    <3>1. lock' = [lock EXCEPT ![KeyOf(p)] = NoProc]
      BY Zenon
    <3>2. CASE b = KeyOf(p)
      BY Zenon, <1>2, <1>3, <2>1, <3>1, <3>2, FutexAssumption DEF TypeOK
    <3>3. CASE b # KeyOf(p)
      <4>1. lock'[b] = lock[b]
        BY Zenon, <3>1, <3>3 DEF TypeOK
      <4>2. lock[b] # p
        BY Zenon, <3>3 DEF LockInv
      <4> QED BY Zenon, <1>3, <2>1, <4>1, <4>2
    <3> QED BY Zenon, <3>2, <3>3
  <2>2. CASE q # p
    <3>1. KeyOf(q)' = KeyOf(q)
      BY Zenon, <1>4, <2>2 DEF KeyOf
    <3>2. lock[KeyOf(p)] = p
      BY Zenon, <1>2, <1>3 DEF LockInv
    <3> QED BY <1>2, <1>4, <2>2, <3>1, <3>2, FutexAssumption DEF LockInv, TypeOK
  <2> QED BY Zenon, <2>1, <2>2
<1>6. WaitersAccounting'
  <2>1. \A q \in Proc : \A b \in Bucket :
          (KeyOf(q)' = b /\ InFlight(q)') <=> (KeyOf(q) = b /\ InFlight(q))
    BY Zenon, <1>3, <1>4 DEF KeyOf, InFlight
  <2>2. \A b \in Bucket : BeingAdded(b)' <=> BeingAdded(b)
    BY Zenon, <2>1 DEF BeingAdded
  <2> QED BY Zenon, <2>2 DEF WaitersAccounting
<1>7. EntriesAreSleepers'
  <2>1. CASE WaitUnlock(p)
    BY SMTT(30), <2>1 DEF EntriesAreSleepers, KeyOf
  <2>2. CASE ~WaitUnlock(p)
    <3>1. state[p] # "BLOCKED"
      BY Zenon, <2>2 DEF BlockedInv
    <3>2. \A b \in Bucket : \A i \in 1 .. Len(queue[b]) : queue[b][i].proc \in Proc \ {p}
      BY <3>1, EntryType DEF EntriesAreSleepers, Entry
    <3> QED BY SMTT(30), <1>4, <3>1, <3>2 DEF EntriesAreSleepers, KeyOf
  <2> QED BY Zenon, <2>1, <2>2
<1>8. BlockedInv'
  BY DEF BlockedInv, TypeOK
<1>9. WalkInv'
  <2>1. \A q \in Proc : pc'[q] = "wake_unlock" => q # p /\ pc[q] = "wake_unlock"
    BY Zenon, <1>4, <1>3 DEF Holding
  <2>2. \A b, a : Matches(b, a)' = Matches(b, a)
    BY Zenon DEF Matches
  <2> QED BY Zenon, <1>4, <2>1, <2>2 DEF WalkInv, KeyOf
<1> QED BY Zenon, <1>1, <1>5, <1>6, <1>7, <1>8, <1>9

\* The increment of futex_kwait, and the decrement that undoes it.
LEMMA CountStepInv ==
  ASSUME IInv, NEW p \in Proc, WaitInc(p) \/ WaitBack(p)
  PROVE  IInv'
<1> USE DEF IInv, WaitInc, WaitBack, Goto, At
<1>1. KeyOf(p) \in Bucket
  BY Zenon, KeyInBucket DEF KeyOf, TypeOK, Call
<1>2. \A q \in Proc \ {p} : pc'[q] = pc[q]
  BY Zenon DEF TypeOK
<1>3. \A q \in Proc : KeyOf(q)' = KeyOf(q)
  BY Zenon DEF KeyOf
<1>4. pc[p] \in Holding /\ pc'[p] \in Holding /\ (InFlight(p)' <=> ~InFlight(p))
  BY DEF Holding, InFlight, TypeOK
<1>5. \A q \in Proc : q # p /\ KeyOf(q) = KeyOf(p) => ~InFlight(q)
  <2>1. lock[KeyOf(p)] = p
    BY Zenon, <1>1, <1>4 DEF LockInv
  <2> QED BY Zenon, <1>1, <2>1 DEF LockInv, InFlight, Holding
<1>6. TypeOK'
  <2>1. WaitBack(p) => waiters[KeyOf(p)] = Len(queue[KeyOf(p)]) + 1
    BY Zenon, <1>1 DEF WaitersAccounting, BeingAdded, InFlight
  <2>2. queue[KeyOf(p)] \in Seq(Entry) /\ waiters[KeyOf(p)] \in Nat
    BY Zenon, <1>1 DEF TypeOK
  <2>3. waiters'[KeyOf(p)] \in Nat
    BY <1>1, <2>1, <2>2 DEF TypeOK
  <2> QED BY Zenon, <1>1, <2>3 DEF TypeOK, PC
<1>7. LockInv'
  BY <1>2, <1>3, <1>4 DEF LockInv
<1>8. WaitersAccounting'
  <2> SUFFICES ASSUME NEW b \in Bucket
               PROVE  waiters'[b] = Len(queue[b]) + IF BeingAdded(b)' THEN 1 ELSE 0
    BY Zenon DEF WaitersAccounting
  <2>1. CASE b # KeyOf(p)
    <3>1. waiters'[b] = waiters[b]
      BY Zenon, <2>1 DEF TypeOK
    <3>2. \A q \in Proc : KeyOf(q) = b => (InFlight(q)' <=> InFlight(q))
      BY Zenon, <1>2, <2>1 DEF InFlight
    <3>3. BeingAdded(b)' <=> BeingAdded(b)
      BY Zenon, <1>3, <3>2 DEF BeingAdded
    <3> QED BY Zenon, <3>1, <3>3 DEF WaitersAccounting
  <2>2. CASE b = KeyOf(p) /\ WaitInc(p)
    <3>1. waiters[b] \in Nat /\ queue[b] \in Seq(Entry)
      BY Zenon DEF TypeOK
    <3>2. waiters'[b] = waiters[b] + 1
      BY Zenon, <2>2 DEF TypeOK
    <3>3. ~BeingAdded(b)
      BY Zenon, <1>5, <2>2 DEF BeingAdded, InFlight
    <3>4. waiters[b] = Len(queue[b])
      BY Zenon, <3>3, AccountingCases
    <3>5. BeingAdded(b)'
      BY Zenon, <1>3, <1>4, <2>2 DEF BeingAdded, InFlight
    <3> HIDE DEF IInv, WaitInc, WaitBack
    <3> QED BY Zenon, <3>1, <3>2, <3>4, <3>5
  <2>3. CASE b = KeyOf(p) /\ WaitBack(p)
    <3>1. waiters[b] \in Nat /\ queue[b] \in Seq(Entry)
      BY Zenon DEF TypeOK
    <3>2. waiters'[b] = waiters[b] - 1
      BY Zenon, <2>3 DEF TypeOK
    <3>3. BeingAdded(b)
      BY Zenon, <2>3 DEF BeingAdded, InFlight
    <3>4. waiters[b] = Len(queue[b]) + 1
      BY Zenon, <3>3, AccountingCases
    <3>5. ~BeingAdded(b)'
      BY Zenon, <1>2, <1>3, <1>4, <1>5, <2>3 DEF BeingAdded, InFlight
    <3> HIDE DEF IInv, WaitInc, WaitBack
    <3> QED BY <3>1, <3>2, <3>4, <3>5
  <2> QED BY Zenon, <2>1, <2>2, <2>3
<1>9. EntriesAreSleepers'
  BY DEF EntriesAreSleepers, KeyOf
<1>10. BlockedInv'
  BY Zenon DEF BlockedInv, TypeOK
<1>11. WalkInv'
  <2>1. \A q \in Proc : pc'[q] = "wake_unlock" => pc[q] = "wake_unlock"
    BY DEF TypeOK
  <2>2. \A b, a : Matches(b, a)' = Matches(b, a)
    BY Zenon DEF Matches
  <2> QED BY Zenon, <2>1, <2>2 DEF WalkInv, KeyOf
<1> QED BY Zenon, <1>6, <1>7, <1>8, <1>9, <1>10, <1>11

\* The entry of futex_kwait: the sleeper was in no list before.
LEMMA EnqueueInv ==
  ASSUME IInv, NEW p \in Proc, WaitEnqueue(p)
  PROVE  IInv'
<1> DEFINE k == KeyOf(p)
           e == [addr |-> op[p].addr, proc |-> p]
<1> USE DEF IInv
<1>1. /\ pc[p] = "wait_enqueue" /\ pc' = [pc EXCEPT ![p] = "wait_unlock"] /\ op' = op
      /\ queue' = [queue EXCEPT ![k] = <<e>> \o queue[k]]
      /\ state' = [state EXCEPT ![p] = "BLOCKED"]
      /\ UNCHANGED <<mem, sbuf, lock, waiters>>
  BY Zenon DEF WaitEnqueue, Goto, At
<1>2. k \in Bucket /\ Key(op[p].addr) = k /\ op[p].addr \in Addr
  BY Zenon, KeyInBucket DEF KeyOf, TypeOK, Call
<1>3. e \in Entry /\ e.addr = op[p].addr /\ e.proc = p
  BY Zenon, <1>2 DEF Entry
<1>4. /\ queue'[k] \in Seq(Entry)
      /\ Len(queue'[k]) = Len(queue[k]) + 1 /\ Len(queue[k]) \in Nat
      /\ queue'[k][1] = e
      /\ \A j \in 2 .. Len(queue[k]) + 1 : queue'[k][j] = queue[k][j - 1]
  <2>1. queue[k] \in Seq(Entry)
    BY Zenon, <1>2 DEF TypeOK
  <2>2. queue'[k] = <<e>> \o queue[k]
    BY Zenon, <1>1, <1>2 DEF TypeOK
  <2> HIDE DEF e
  <2> QED BY <1>3, <2>1, <2>2, ConsProps
<1>5. \A b \in Bucket : b # k => queue'[b] = queue[b]
  BY Zenon, <1>1 DEF TypeOK
<1>6. \A q \in Proc : q # p => pc'[q] = pc[q] /\ state'[q] = state[q]
  BY Zenon, <1>1 DEF TypeOK
<1>7. \A q \in Proc : KeyOf(q)' = KeyOf(q)
  BY Zenon, <1>1 DEF KeyOf
<1>8. pc'[p] = "wait_unlock" /\ state'[p] = "BLOCKED" /\ state[p] # "BLOCKED"
  BY Zenon, <1>1 DEF TypeOK, BlockedInv
<1>9. \A q \in Proc : q # p /\ pc[q] \in Holding => KeyOf(q) # k
  BY <1>1, <1>2 DEF LockInv, Holding
<1> HIDE DEF k, e
<1>10. TypeOK'
  <2>1. queue' \in [Bucket -> Seq(Entry)]
    BY Zenon, <1>1, <1>2, <1>4, <1>5 DEF TypeOK
  <2> QED BY Zenon, <1>1, <2>1 DEF TypeOK, PC
<1>11. LockInv'
  BY <1>1, <1>6, <1>7, <1>8 DEF LockInv, Holding
<1>12. WaitersAccounting'
  <2> SUFFICES ASSUME NEW b \in Bucket
               PROVE  waiters[b] = Len(queue'[b]) + IF BeingAdded(b)' THEN 1 ELSE 0
    BY Zenon, <1>1 DEF WaitersAccounting
  <2>1. CASE b = k
    <3>1. waiters[b] = Len(queue[b]) + 1
      BY Zenon, <1>1, <2>1, AccountingCases DEF BeingAdded, InFlight, k
    <3>2. ~BeingAdded(b)'
      BY Zenon, <1>6, <1>7, <1>8, <1>9, <2>1 DEF BeingAdded, InFlight, Holding
    <3>3. waiters[b] \in Nat
      BY Zenon DEF TypeOK
    <3> HIDE DEF IInv
    <3> QED BY <1>4, <2>1, <3>1, <3>2, <3>3
  <2>2. CASE b # k
    <3>1. BeingAdded(b)' <=> BeingAdded(b)
      BY Zenon, <1>6, <1>7, <1>8, <2>2 DEF BeingAdded, InFlight, k
    <3> QED BY Zenon, <1>5, <2>2, <3>1 DEF WaitersAccounting
  <2> QED BY Zenon, <2>1, <2>2
<1>13. EntriesAreSleepers'
  <2>1. ASSUME NEW b \in Bucket, NEW i \in 1 .. Len(queue[b])
        PROVE  /\ queue[b][i].proc \in Proc \ {p}
               /\ state'[queue[b][i].proc] = "BLOCKED"
               /\ op'[queue[b][i].proc].addr = queue[b][i].addr
               /\ Key(queue[b][i].addr) = b
               /\ \A j \in 1 .. Len(queue[b]) : queue[b][j].proc = queue[b][i].proc => i = j
    <3>1. queue[b][i].proc \in Proc
      BY Zenon, EntryType DEF Entry
    <3> QED BY <1>1, <1>6, <1>8, <3>1 DEF EntriesAreSleepers
  <2>2. ASSUME NEW b \in Bucket, NEW i \in 1 .. Len(queue'[b])
        PROVE  /\ state'[queue'[b][i].proc] = "BLOCKED"
               /\ op'[queue'[b][i].proc].addr = queue'[b][i].addr
               /\ Key(queue'[b][i].addr) = b
               /\ \A j \in 1 .. Len(queue'[b]) : queue'[b][j].proc = queue'[b][i].proc => i = j
    <3>1. CASE b # k
      BY <1>5, <2>1, <2>2, <3>1
    <3>2. CASE b = k /\ i = 1
      <4>1. ASSUME NEW j \in 2 .. Len(queue'[b]) PROVE queue'[b][j].proc # p
        <5>1. j - 1 \in 1 .. Len(queue[b]) /\ queue'[b][j] = queue[b][j - 1]
          BY <1>4, <3>2
        <5> QED BY <2>1, <5>1
      <4> QED BY SMTT(30), <1>1, <1>2, <1>3, <1>4, <1>8, <3>2, <4>1
    <3>3. CASE b = k /\ i # 1
      <4>1. i - 1 \in 1 .. Len(queue[b]) /\ queue'[b][i] = queue[b][i - 1]
        BY <1>4, <2>2, <3>3
      <4>2. \A j \in 1 .. Len(queue'[b]) : queue'[b][j].proc = queue'[b][i].proc => i = j
        <5> SUFFICES ASSUME NEW j \in 1 .. Len(queue'[b]),
                            queue'[b][j].proc = queue'[b][i].proc
                     PROVE  i = j
          BY Zenon
        <5>1. CASE j = 1
          BY SMTT(30), <1>3, <1>4, <2>1, <3>3, <4>1, <5>1
        <5>2. CASE j # 1
          <6>1. j - 1 \in 1 .. Len(queue[b]) /\ queue'[b][j] = queue[b][j - 1]
            BY <1>4, <3>3, <5>2
          <6>2. i - 1 = j - 1
            BY <2>1, <4>1, <6>1
          <6> QED BY <6>2, <2>2
        <5> QED BY Zenon, <5>1, <5>2
      <4> QED BY <2>1, <4>1, <4>2
    <3> QED BY Zenon, <3>1, <3>2, <3>3
  <2>3. ASSUME NEW q \in Proc, state'[q] = "BLOCKED"
        PROVE  \E i \in 1 .. Len(queue'[KeyOf(q)']) : queue'[KeyOf(q)'][i].proc = q
    <3>1. CASE q = p
      BY <1>3, <1>4, <1>7, <3>1 DEF k
    <3>2. CASE q # p
      <4>1. PICK i \in 1 .. Len(queue[KeyOf(q)]) : queue[KeyOf(q)][i].proc = q
        BY Zenon, <1>6, <2>3, <3>2 DEF EntriesAreSleepers
      <4>2. CASE KeyOf(q) = k
        <5>1. i + 1 \in 2 .. Len(queue[k]) + 1 /\ queue'[k][i + 1] = queue[k][(i + 1) - 1]
          BY <1>4, <4>1, <4>2
        <5>2. i + 1 \in 1 .. Len(queue'[k]) /\ queue'[k][i + 1] = queue[k][i]
          BY <1>4, <4>1, <4>2, <5>1
        <5> QED BY Zenon, <1>7, <4>1, <4>2, <5>2
      <4>3. CASE KeyOf(q) # k
        <5>1. KeyOf(q) \in Bucket
          BY Zenon, KeyInBucket DEF KeyOf, TypeOK, Call
        <5> QED BY Zenon, <1>5, <1>7, <4>1, <4>3, <5>1
      <4> QED BY Zenon, <4>2, <4>3
    <3> QED BY Zenon, <3>1, <3>2
  <2> QED BY Zenon, <2>2, <2>3 DEF EntriesAreSleepers
<1>14. BlockedInv'
  BY Zenon, <1>6, <1>8 DEF BlockedInv
<1>15. WalkInv'
  <2> SUFFICES ASSUME NEW q \in Proc, pc'[q] = "wake_unlock"
               PROVE  op'[q].count = 0 \/ Matches(KeyOf(q), op[q].addr)' = {}
    BY Zenon DEF WalkInv
  <2>1. q # p /\ pc[q] = "wake_unlock" /\ KeyOf(q) # k
    BY Zenon, <1>6, <1>8, <1>9 DEF Holding
  <2>2. KeyOf(q) \in Bucket
    BY Zenon, KeyInBucket DEF KeyOf, TypeOK, Call
  <2>3. Matches(KeyOf(q), op[q].addr)' = Matches(KeyOf(q), op[q].addr)
    BY <1>1, <1>5, <1>7, <2>1, <2>2 DEF Matches
  <2> QED BY Zenon, <1>1, <2>1, <2>3 DEF WalkInv
<1> QED BY Zenon, <1>10, <1>11, <1>12, <1>13, <1>14, <1>15

\* One entry of the walk of __do_futex_wake: the entry leaves the list, its
\* process becomes ready, and the walk stops or goes on.
LEMMA WakeEntryInv ==
  ASSUME IInv, NEW p \in Proc, WakeEntry(p)
  PROVE  IInv'
<1> DEFINE k == KeyOf(p)
<1> USE DEF IInv
<1>1. PICK i \in 1 .. Len(queue[k]) :
        /\ FirstMatch(k, op[p].addr, i)
        /\ queue' = [queue EXCEPT ![k] = Without(queue[k], i)]
        /\ state' = [state EXCEPT ![queue[k][i].proc] = "READY"]
  BY Zenon DEF WakeEntry
<1> DEFINE w == queue[k][i].proc
<1>2. /\ pc[p] = "wake_walk"
      /\ op' = [op EXCEPT ![p].count = (op[p].count - 1) % CountMod]
      /\ waiters' = [waiters EXCEPT ![k] = waiters[k] - 1]
      /\ UNCHANGED <<mem, sbuf, lock>>
  BY Zenon DEF WakeEntry, At
<1>3. \/ pc' = [pc EXCEPT ![p] = "wake_unlock"] /\ (waiters'[k] = 0 \/ op'[p].count = 0)
      \/ pc' = [pc EXCEPT ![p] = "wake_walk"]
  BY Zenon DEF WakeEntry, At
<1>4. k \in Bucket
  BY Zenon, KeyInBucket DEF KeyOf, TypeOK, Call
<1>5. queue[k] \in Seq(Entry) /\ Len(queue[k]) \in Nat /\ waiters[k] \in Nat
  BY <1>4 DEF TypeOK
<1>6. /\ queue'[k] \in Seq(Entry)
      /\ Len(queue'[k]) = Len(queue[k]) - 1
      /\ \A j \in 1 .. Len(queue[k]) - 1 :
           queue'[k][j] = IF j < i THEN queue[k][j] ELSE queue[k][j + 1]
  <2>1. queue'[k] = Without(queue[k], i)
    BY Zenon, <1>1, <1>4 DEF TypeOK
  <2> HIDE DEF k
  <2> QED BY ZenonT(40), <1>1, <1>5, <2>1, WithoutProps
<1>7. \A b \in Bucket : b # k => queue'[b] = queue[b] /\ waiters'[b] = waiters[b]
  BY Zenon, <1>1, <1>2 DEF TypeOK
<1>8. w \in Proc /\ state[w] = "BLOCKED" /\ w # p
  BY <1>1, <1>2, <1>4, EntryType DEF EntriesAreSleepers, Entry, BlockedInv
<1>9. \A q \in Proc : q # w => state'[q] = state[q]
  BY Zenon, <1>1 DEF TypeOK
<1>10. state'[w] = "READY"
  BY Zenon, <1>1, <1>8 DEF TypeOK
<1>11. \A q \in Proc : q # p => pc'[q] = pc[q] /\ op'[q] = op[q]
  BY <1>2, <1>3 DEF TypeOK
<1>12. op'[p] \in Call /\ op'[p].addr = op[p].addr /\ pc'[p] \in {"wake_walk", "wake_unlock"}
  <2>1. op[p] \in Call /\ op[p].count \in Int
    BY FutexAssumption DEF TypeOK, Call
  <2>2. (op[p].count - 1) % CountMod \in 0 .. CountMod - 1
    BY <2>1, FutexAssumption
  <2>3. op'[p] = [op[p] EXCEPT !.count = (op[p].count - 1) % CountMod]
    BY Zenon, <1>2 DEF TypeOK
  <2>4. op'[p] \in Call /\ op'[p].addr = op[p].addr
    BY Zenon, <2>1, <2>2, <2>3 DEF Call
  <2> QED BY Zenon, <1>3, <2>4 DEF TypeOK
<1>13. \A q \in Proc : op'[q].addr = op[q].addr /\ KeyOf(q)' = KeyOf(q)
  BY Zenon, <1>11, <1>12 DEF KeyOf
<1>14. \A q \in Proc : q # p /\ pc[q] \in Holding => KeyOf(q) # k
  BY <1>2, <1>4 DEF LockInv, Holding
<1>15. waiters[k] = Len(queue[k]) /\ waiters'[k] = waiters[k] - 1
  <2>1. ~BeingAdded(k)
    BY Zenon, <1>2, <1>14 DEF BeingAdded, InFlight, Holding
  <2>2. waiters'[k] = waiters[k] - 1
    BY Zenon, <1>2, <1>4 DEF TypeOK
  <2> QED BY Zenon, <1>4, <2>1, <2>2, AccountingCases
<1> HIDE DEF k, w
<1>16. TypeOK'
  <2>1. queue' \in [Bucket -> Seq(Entry)]
    BY Zenon, <1>1, <1>4, <1>6, <1>7 DEF TypeOK
  <2>2. waiters'[k] \in Nat
    BY <1>1, <1>5, <1>15
  <2>3. waiters' \in [Bucket -> Nat]
    BY Zenon, <1>2, <1>4, <1>7, <2>2 DEF TypeOK
  <2>4. pc' \in [Proc -> PC]
    BY <1>3 DEF TypeOK, PC
  <2>5. op' \in [Proc -> Call]
    BY Zenon, <1>2, <1>11, <1>12 DEF TypeOK
  <2>6. state' \in [Proc -> {"READY", "BLOCKED"}]
    BY Zenon, <1>1 DEF TypeOK
  <2> QED BY Zenon, <1>2, <2>1, <2>3, <2>4, <2>5, <2>6 DEF TypeOK
<1>17. LockInv'
  BY <1>2, <1>11, <1>12, <1>13 DEF LockInv, Holding
<1>18. WaitersAccounting'
  <2> SUFFICES ASSUME NEW b \in Bucket
               PROVE  waiters'[b] = Len(queue'[b]) + IF BeingAdded(b)' THEN 1 ELSE 0
    BY Zenon DEF WaitersAccounting
  <2>1. BeingAdded(b)' <=> BeingAdded(b)
    BY <1>2, <1>11, <1>12, <1>13 DEF BeingAdded, InFlight
  <2>2. CASE b = k
    <3>1. ~BeingAdded(b)
      BY Zenon, <1>2, <1>14, <2>2 DEF BeingAdded, InFlight, Holding
    <3>2. ~BeingAdded(b)'
      BY Zenon, <2>1, <3>1
    <3> HIDE DEF IInv
    <3>3. waiters'[b] = Len(queue'[b]) + 0
      BY SMTT(30), <1>5, <1>6, <1>15, <2>2
    <3> QED BY Zenon, <3>2, <3>3
  <2>3. CASE b # k
    BY Zenon, <1>7, <2>1, <2>3 DEF WaitersAccounting
  <2> QED BY Zenon, <2>2, <2>3
<1>19. EntriesAreSleepers'
  <2>1. ASSUME NEW b \in Bucket, NEW j \in 1 .. Len(queue[b])
        PROVE  /\ queue[b][j].proc \in Proc
               /\ state[queue[b][j].proc] = "BLOCKED"
               /\ op'[queue[b][j].proc].addr = queue[b][j].addr
               /\ Key(queue[b][j].addr) = b
               /\ \A l \in 1 .. Len(queue[b]) : queue[b][l].proc = queue[b][j].proc => j = l
               /\ queue[b][j].proc = w => b = k /\ j = i
    <3>1. queue[b][j].proc \in Proc
      BY Zenon, EntryType DEF Entry
    <3>2. queue[b][j].proc = w => b = k
      <4>1. Key(queue[b][j].addr) = b /\ op[queue[b][j].proc].addr = queue[b][j].addr
        BY DEF EntriesAreSleepers
      <4>2. Key(queue[k][i].addr) = k /\ op[w].addr = queue[k][i].addr
        BY <1>1, <1>4 DEF EntriesAreSleepers, w
      <4> QED BY Zenon, <4>1, <4>2
    <3>3. queue[b][j].proc = w /\ b = k => j = i
      BY <1>1, <1>4 DEF EntriesAreSleepers, w
    <3> QED BY <1>13, <3>1, <3>2, <3>3 DEF EntriesAreSleepers
  <2>2. ASSUME NEW b \in Bucket, NEW j \in 1 .. Len(queue'[b])
        PROVE  \E l \in 1 .. Len(queue[b]) :
                 /\ queue'[b][j] = queue[b][l]
                 /\ b = k => l = (IF j < i THEN j ELSE j + 1)
                 /\ b # k => l = j
    <3>1. CASE b # k
      BY Zenon, <1>7, <3>1
    <3>2. CASE b = k /\ j < i
      <4>1. j \in 1 .. Len(queue[b]) /\ queue'[b][j] = queue[b][j]
        BY <1>1, <1>5, <1>6, <3>2
      <4> QED BY Zenon, <3>2, <4>1
    <3>3. CASE b = k /\ ~(j < i)
      <4>1. j + 1 \in 1 .. Len(queue[b]) /\ queue'[b][j] = queue[b][j + 1]
        BY SMTT(30), <1>1, <1>5, <1>6, <3>3
      <4> QED BY Zenon, <3>3, <4>1
    <3> QED BY Zenon, <3>1, <3>2, <3>3
  <2>3. ASSUME NEW b \in Bucket, NEW j \in 1 .. Len(queue'[b])
        PROVE  /\ state'[queue'[b][j].proc] = "BLOCKED"
               /\ op'[queue'[b][j].proc].addr = queue'[b][j].addr
               /\ Key(queue'[b][j].addr) = b
               /\ \A l \in 1 .. Len(queue'[b]) : queue'[b][l].proc = queue'[b][j].proc => j = l
    <3>1. PICK m \in 1 .. Len(queue[b]) :
                 /\ queue'[b][j] = queue[b][m]
                 /\ b = k => m = (IF j < i THEN j ELSE j + 1)
                 /\ b # k => m = j
      BY Zenon, <2>2
    <3>2. queue[b][m].proc # w
      <4>1. b = k => m # i
        BY SMTT(30), <1>1, <3>1
      <4> QED BY <2>1, <4>1
    <3>3. state'[queue'[b][j].proc] = "BLOCKED"
      BY <1>9, <2>1, <3>1, <3>2
    <3>4. ASSUME NEW l \in 1 .. Len(queue'[b]), queue'[b][l].proc = queue'[b][j].proc
          PROVE  j = l
      <4>1. PICK n \in 1 .. Len(queue[b]) :
                 /\ queue'[b][l] = queue[b][n]
                 /\ b = k => n = (IF l < i THEN l ELSE l + 1)
                 /\ b # k => n = l
        BY Zenon, <2>2
      <4>2. m = n
        BY <2>1, <3>1, <3>4, <4>1
      <4> QED BY <1>1, <3>1, <4>1, <4>2
    <3> QED BY <2>1, <3>1, <3>3, <3>4
  <2>4. ASSUME NEW q \in Proc, state'[q] = "BLOCKED"
        PROVE  \E j \in 1 .. Len(queue'[KeyOf(q)']) : queue'[KeyOf(q)'][j].proc = q
    <3>1. q # w /\ state[q] = "BLOCKED"
      BY Zenon, <1>9, <1>10, <2>4
    <3>2. PICK j \in 1 .. Len(queue[KeyOf(q)]) : queue[KeyOf(q)][j].proc = q
      BY Zenon, <3>1 DEF EntriesAreSleepers
    <3>3. KeyOf(q) \in Bucket /\ KeyOf(q)' = KeyOf(q)
      BY Zenon, <1>13, KeyInBucket DEF KeyOf, TypeOK, Call
    <3>4. CASE KeyOf(q) # k
      BY <1>7, <3>2, <3>3, <3>4
    <3>5. CASE KeyOf(q) = k
      <4>1. j # i
        BY Zenon, <3>1, <3>2, <3>5 DEF w
      <4>2. CASE j < i
        <5>1. j \in 1 .. Len(queue'[k]) /\ queue'[k][j] = queue[k][j]
          BY <1>1, <1>5, <1>6, <3>2, <3>5, <4>2
        <5> QED BY Zenon, <3>2, <3>3, <3>5, <5>1
      <4>3. CASE j > i
        <5>1. /\ j - 1 \in 1 .. Len(queue[k]) - 1 /\ ~(j - 1 < i)
              /\ queue'[k][j - 1] = queue[k][(j - 1) + 1]
          BY <1>1, <1>5, <1>6, <3>2, <3>5, <4>3
        <5>2. j - 1 \in 1 .. Len(queue'[k]) /\ queue'[k][j - 1] = queue[k][j]
          BY <1>1, <1>6, <3>2, <5>1
        <5> QED BY Zenon, <3>2, <3>3, <3>5, <5>2
      <4> QED BY <1>1, <3>2, <4>1, <4>2, <4>3
    <3> QED BY Zenon, <3>4, <3>5
  <2> QED BY Zenon, <2>3, <2>4 DEF EntriesAreSleepers
<1>20. BlockedInv'
  <2>1. \A q \in Proc : state'[q] = "BLOCKED" => q # p /\ state[q] = "BLOCKED"
    BY Zenon, <1>2, <1>9, <1>10 DEF BlockedInv
  <2> QED BY Zenon, <1>11, <2>1 DEF BlockedInv
<1>21. WalkInv'
  <2> SUFFICES ASSUME NEW q \in Proc, pc'[q] = "wake_unlock"
               PROVE  op'[q].count = 0 \/ Matches(KeyOf(q), op[q].addr)' = {}
    BY Zenon DEF WalkInv
  <2>1. CASE q # p
    <3>1. KeyOf(q) # k /\ KeyOf(q) \in Bucket /\ pc[q] = "wake_unlock"
      BY Zenon, <1>11, <1>14, <2>1, KeyInBucket DEF Holding, KeyOf, TypeOK, Call
    <3>2. Matches(KeyOf(q), op[q].addr)' = Matches(KeyOf(q), op[q].addr)
      BY <1>7, <1>13, <3>1 DEF Matches
    <3> QED BY Zenon, <1>11, <2>1, <3>1, <3>2 DEF WalkInv
  <2>2. CASE q = p
    <3>1. waiters'[k] = 0 \/ op'[p].count = 0
      BY Zenon, <1>3, <2>2 DEF TypeOK
    <3>2. waiters'[k] = 0 => Len(queue'[k]) = 0
      BY Zenon, <1>5, <1>6, <1>15
    <3>3. Len(queue'[k]) = 0 => Matches(KeyOf(p), op[p].addr)' = {}
      BY <1>13 DEF Matches, k
    <3> QED BY Zenon, <2>2, <3>1, <3>2, <3>3
  <2> QED BY Zenon, <2>1, <2>2
<1> QED BY Zenon, <1>16, <1>17, <1>18, <1>19, <1>20, <1>21

-----------------------------------------------------------------------------
\* Every step of every process preserves the invariant.
LEMMA NextInv == IInv /\ [Next]_vars => IInv'
<1> SUFFICES ASSUME IInv, [Next]_vars PROVE IInv'
  BY Zenon
<1>1. CASE UNCHANGED vars
  <2> USE <1>1 DEF vars, IInv
  <2>1. TypeOK' /\ BlockedInv'
    BY Zenon DEF TypeOK, BlockedInv
  <2>2. LockInv' /\ WalkInv'
    BY DEF LockInv, WalkInv, Matches, KeyOf
  <2>3. \A b \in Bucket : BeingAdded(b)' <=> BeingAdded(b)
    BY Zenon DEF BeingAdded, InFlight, KeyOf
  <2>4. WaitersAccounting'
    BY Zenon, <2>3 DEF WaitersAccounting
  <2>5. EntriesAreSleepers'
    BY DEF EntriesAreSleepers, KeyOf
  <2> QED BY Zenon, <2>1, <2>2, <2>4, <2>5
<1>2. ASSUME NEW p \in Proc, Begin(p) \/ Step(p) \/ Flush(p) PROVE IInv'
  BY Zenon, <1>2, CallsInv, FlushInv, LockStepInv, UnlockStepInv, CountStepInv, EnqueueInv,
     WakeEntryInv DEF Step
<1> QED BY Zenon, <1>1, <1>2 DEF Next

\* The inductive invariant holds in every reachable state.
THEOREM Invariance == Spec => []IInv
<1>1. Init => IInv
  BY Zenon, InitInv
<1>2. IInv /\ [Next]_vars => IInv'
  BY Zenon, NextInv
<1> QED BY <1>1, <1>2, PTL DEF Spec

\* futex_kwait and futex_kwake keep every variable in its type; in particular
\* the unsigned count of waiters never goes below zero.
THEOREM TypeCorrect == Spec => []TypeOK
<1>1. IInv => TypeOK
  BY Zenon DEF IInv
<1> QED BY <1>1, Invariance, PTL

\* The count the unlocked test of __do_futex_wake reads is exact, for any number
\* of processes, words and buckets.
THEOREM CountIsExact == Spec => []WaitersAccounting
<1>1. IInv => WaitersAccounting
  BY Zenon DEF IInv
<1> QED BY <1>1, Invariance, PTL

\* Entries of the buckets and blocked processes correspond one to one.
THEOREM SleepersAreListed == Spec => []EntriesAreSleepers
<1>1. IInv => EntriesAreSleepers
  BY Zenon DEF IInv
<1> QED BY <1>1, Invariance, PTL

-----------------------------------------------------------------------------
(***************************************************************************)
(* Futex implements FutexAbstract: every step of the buckets, their locks  *)
(* and their counts is a step of the abstract futex or changes nothing it  *)
(* can see.                                                                *)
(***************************************************************************)

\* A process in a state where it neither sleeps nor wakes is invisible.
Quiet(p) == ~Asleep(p) /\ ~Waking(p)

\* The two components of the mapping at one process.
LEMMA MapAt ==
  ASSUME NEW p \in Proc
  PROVE  /\ Sleeping[p] = IF Asleep(p) THEN {op[p].addr} ELSE {}
         /\ Wakes[p] = IF Waking(p) THEN {<<op[p].addr, op[p].count>>} ELSE {}
         /\ Sleeping'[p] = IF Asleep(p)' THEN {op'[p].addr} ELSE {}
         /\ Wakes'[p] = IF Waking(p)' THEN {<<op'[p].addr, op'[p].count>>} ELSE {}
BY Zenon DEF Sleeping, Wakes

\* A step that changes how no process looks is a stuttering step.
LEMMA Stutter ==
  ASSUME mem' = mem,
         \A q \in Proc : (Asleep(q)' <=> Asleep(q)) /\ (Waking(q)' <=> Waking(q)),
         \A q \in Proc : ~Quiet(q) => op'[q] = op[q]
  PROVE  UNCHANGED Abs!avars
<1>1. \A q \in Proc : Sleeping'[q] = Sleeping[q] /\ Wakes'[q] = Wakes[q]
  BY Zenon, MapAt DEF Quiet
<1>2. Sleeping' = Sleeping
  BY Zenon, <1>1 DEF Sleeping
<1>3. Wakes' = Wakes
  BY Zenon, <1>1 DEF Wakes
<1> QED BY Zenon, <1>2, <1>3 DEF Abs!avars

\* What the invariant says of a process that sleeps or wakes.
LEMMA Roles ==
  ASSUME IInv, NEW q \in Proc
  PROVE  /\ Asleep(q) => ~Waking(q) /\ pc[q] \in {"wait_enqueue", "wait_unlock", "resched"}
         /\ Waking(q) => state[q] = "READY"
         /\ op[q].addr \in Addr /\ op[q].val \in Val /\ op[q].count \in 0 .. CountMod - 1
<1>1. state[q] \in {"READY", "BLOCKED"} /\ op[q] \in Call
  BY Zenon DEF IInv, TypeOK
<1> QED BY Zenon, <1>1 DEF IInv, BlockedInv, Asleep, Waking, Call

-----------------------------------------------------------------------------
\* The calls: a wait begins invisibly, a wake together with its store.
LEMMA BeginStep ==
  ASSUME IInv, NEW p \in Proc, Begin(p)
  PROVE  [Abs!ANext]_Abs!avars
<1>1. pc \in [Proc -> PC] /\ op \in [Proc -> Call] /\ state \in [Proc -> {"READY", "BLOCKED"}]
  BY Zenon DEF IInv, TypeOK
<1>2. CASE \E a \in Addr, v \in Val : CallKWait(p, a, v)
  <2> PICK a \in Addr, v \in Val : CallKWait(p, a, v)
    BY Zenon, <1>2
  <2>1. \A q \in Proc : q # p => pc'[q] = pc[q] /\ op'[q] = op[q]
    BY Zenon, <1>1 DEF CallKWait, At
  <2>2. pc[p] = "idle" /\ pc'[p] = "wait_lock" /\ state' = state /\ mem' = mem
    BY Zenon, <1>1 DEF CallKWait, At
  <2>3. state[p] # "BLOCKED"
    BY Zenon, <2>2 DEF IInv, BlockedInv
  <2>4. \A q \in Proc : (Asleep(q)' <=> Asleep(q)) /\ (Waking(q)' <=> Waking(q))
    BY Zenon, <2>1, <2>2, <2>3 DEF Asleep, Waking
  <2>5. Quiet(p)
    BY Zenon, <2>2, <2>3 DEF Quiet, Asleep, Waking
  <2> QED BY Zenon, <2>1, <2>2, <2>4, <2>5, Stutter
<1>3. CASE \E a \in Addr, v \in Val, n \in Count : CallKWake(p, a, v, n)
  <2> PICK a \in Addr, v \in Val, n \in Count : CallKWake(p, a, v, n)
    BY Zenon, <1>3
  <2>1. \A q \in Proc : q # p => pc'[q] = pc[q] /\ op'[q] = op[q]
    BY Zenon, <1>1 DEF CallKWake, At
  <2>2. /\ pc[p] = "idle" /\ pc'[p] = "wake_load" /\ state' = state
        /\ op'[p] = [addr |-> a, val |-> v, count |-> n]
    BY Zenon, <1>1 DEF CallKWake, At
  <2>3. state[p] # "BLOCKED"
    BY Zenon, <2>2 DEF IInv, BlockedInv
  <2>4. Sleeping[p] = {} /\ Wakes[p] = {}
    BY Zenon, <2>2, <2>3, MapAt DEF Asleep, Waking
  <2>5. Sleeping' = Sleeping
    <3>1. \A q \in Proc : Sleeping'[q] = Sleeping[q]
      BY Zenon, <2>1, <2>2, <2>3, MapAt DEF Asleep
    <3> QED BY Zenon, <3>1 DEF Sleeping
  <2>6. Wakes' = [Wakes EXCEPT ![p] = {<<a, n>>}]
    <3>1. \A q \in Proc : q # p => Wakes'[q] = Wakes[q]
      BY Zenon, <2>1, MapAt DEF Waking
    <3>2. Wakes'[p] = {<<a, n>>}
      <4>1. Waking(p)' /\ op'[p].addr = a /\ op'[p].count = n
        BY <2>2 DEF Waking
      <4>2. Wakes'[p] = {<<op'[p].addr, op'[p].count>>}
        BY Zenon, <4>1, MapAt
      <4> QED BY Zenon, <4>1, <4>2
    <3> QED BY Zenon, <3>1, <3>2 DEF Wakes
  <2>7. mem' \in {mem, [mem EXCEPT ![a] = v]}
    BY Zenon DEF CallKWake, Store
  <2>8. Abs!WakeBegin(p, a, n)
    BY Zenon, <2>4, <2>5, <2>6, <2>7 DEF Abs!WakeBegin
  <2> QED BY Zenon, <2>8 DEF Abs!ANext
<1> QED BY Zenon, <1>2, <1>3 DEF Begin

\* A plain store becoming visible is a write.
LEMMA FlushStep ==
  ASSUME IInv, NEW p \in Proc, Flush(p)
  PROVE  [Abs!ANext]_Abs!avars
<1> PICK s \in sbuf[p] : mem' = [mem EXCEPT ![s[1]] = s[2]]
  BY Zenon DEF Flush
<1>1. s \in Plain \X Val
  BY Zenon DEF IInv, TypeOK
<1>2. s[1] \in Addr /\ s[2] \in Val
  BY Zenon, <1>1, FutexAssumption
<1>3. Sleeping' = Sleeping /\ Wakes' = Wakes
  BY Zenon DEF Flush, Sleeping, Wakes, Asleep, Waking
<1>4. Abs!Write(s[1], s[2])
  BY Zenon, <1>3 DEF Abs!Write
<1> QED BY Zenon, <1>2, <1>4 DEF Abs!ANext

\* The load of the word that finds the expected value is the atomic
\* compare-and-sleep.
LEMMA CheckStep ==
  ASSUME IInv, NEW p \in Proc, WaitCheck(p)
  PROVE  [Abs!ANext]_Abs!avars
<1>1. /\ pc \in [Proc -> PC] /\ pc[p] = "wait_check"
      /\ op' = op /\ state' = state /\ mem' = mem
  BY Zenon DEF IInv, TypeOK, WaitCheck, Goto, At
<1>2. state[p] # "BLOCKED"
  BY Zenon, <1>1 DEF IInv, BlockedInv
<1>3. Sleeping[p] = {} /\ Wakes[p] = {}
  BY Zenon, <1>1, <1>2, MapAt DEF Asleep, Waking
<1>4. CASE mem[op[p].addr] = op[p].val /\ pc' = [pc EXCEPT ![p] = "wait_enqueue"]
  <2>1. Sleeping' = [Sleeping EXCEPT ![p] = {op[p].addr}]
    <3>1. \A q \in Proc : q # p => Sleeping'[q] = Sleeping[q]
      BY Zenon, <1>1, <1>4, MapAt DEF Asleep
    <3>2. Sleeping'[p] = {op[p].addr}
      BY Zenon, <1>1, <1>4, MapAt DEF Asleep
    <3> QED BY Zenon, <3>1, <3>2 DEF Sleeping
  <2>2. Wakes' = Wakes
    <3>1. \A q \in Proc : Wakes'[q] = Wakes[q]
      BY Zenon, <1>1, <1>4, MapAt DEF Waking
    <3> QED BY Zenon, <3>1 DEF Wakes
  <2>3. Abs!Sleep(p, op[p].addr, op[p].val)
    BY Zenon, <1>1, <1>3, <1>4, <2>1, <2>2 DEF Abs!Sleep
  <2> QED BY Zenon, <2>3, Roles DEF Abs!ANext
<1>5. CASE pc' = [pc EXCEPT ![p] = "wait_back"]
  <2>1. \A q \in Proc : (Asleep(q)' <=> Asleep(q)) /\ (Waking(q)' <=> Waking(q))
    BY Zenon, <1>1, <1>2, <1>5 DEF Asleep, Waking
  <2> QED BY Zenon, <1>1, <2>1, Stutter
<1> QED BY Zenon, <1>4, <1>5 DEF WaitCheck, Goto, At

\* Nobody sleeps on p's word when no process is between its test and its entry
\* in p's bucket and no entry of the bucket is for the word.
LEMMA NobodySleeps ==
  ASSUME IInv, NEW p \in Proc,
         \A q \in Proc : KeyOf(q) = KeyOf(p) => pc[q] # "wait_enqueue",
         Matches(KeyOf(p), op[p].addr) = {}
  PROVE  \A q \in Proc : Sleeping[q] # {op[p].addr}
<1> SUFFICES ASSUME NEW q \in Proc, Asleep(q), op[q].addr = op[p].addr PROVE FALSE
  BY Zenon, MapAt
<1>1. KeyOf(q) = KeyOf(p) /\ KeyOf(q) \in Bucket
  BY Zenon, KeyInBucket, Roles DEF KeyOf
<1>2. state[q] = "BLOCKED"
  BY Zenon, <1>1 DEF Asleep
<1>3. PICK i \in 1 .. Len(queue[KeyOf(q)]) : queue[KeyOf(q)][i].proc = q
  BY Zenon, <1>2 DEF IInv, EntriesAreSleepers
<1>4. queue[KeyOf(q)][i].addr = op[q].addr
  BY <1>1, <1>3 DEF IInv, EntriesAreSleepers
<1> QED BY Zenon, <1>1, <1>3, <1>4 DEF Matches

\* A wake that returns with its count used up or nobody asleep on its word is
\* the abstract return.
LEMMA ReturnStep ==
  ASSUME IInv, NEW p \in Proc, Waking(p),
         At(p, pc[p], "idle"), op' = [op EXCEPT ![p] = NoCall],
         UNCHANGED <<mem, state>>,
         op[p].count = 0 \/ \A q \in Proc : Sleeping[q] # {op[p].addr}
  PROVE  [Abs!ANext]_Abs!avars
<1>1. \A q \in Proc : q # p => pc'[q] = pc[q] /\ op'[q] = op[q]
  BY Zenon DEF At, IInv, TypeOK
<1>2. pc'[p] = "idle"
  BY Zenon DEF At, IInv, TypeOK
<1>3. state[p] # "BLOCKED" /\ ~Asleep(p)
  BY Zenon, Roles
<1>4. Sleeping' = Sleeping
  <2>1. \A q \in Proc : Sleeping'[q] = Sleeping[q]
    BY ZenonT(40), <1>1, <1>2, <1>3, MapAt DEF Asleep
  <2> QED BY Zenon, <2>1 DEF Sleeping
<1>5. Wakes' = [Wakes EXCEPT ![p] = {}]
  <2>1. \A q \in Proc : q # p => Wakes'[q] = Wakes[q]
    BY ZenonT(40), <1>1, MapAt DEF Waking
  <2>2. Wakes'[p] = {}
    BY Zenon, <1>2, MapAt DEF Waking
  <2> QED BY Zenon, <2>1, <2>2 DEF Wakes
<1>6. Wakes[p] = {<<op[p].addr, op[p].count>>}
  BY Zenon, MapAt
<1>7. Abs!WakeEnd(p, op[p].addr, op[p].count)
  BY Zenon, <1>4, <1>5, <1>6 DEF Abs!WakeEnd
<1> QED BY Zenon, <1>7, Roles DEF Abs!ANext

\* The unlocked early return of __do_futex_wake: a count of zero means that
\* nobody sleeps on any word of the bucket.
LEMMA EarlyReturn ==
  ASSUME IInv, NEW p \in Proc, waiters[KeyOf(p)] = 0
  PROVE  \A q \in Proc : Sleeping[q] # {op[p].addr}
<1>1. KeyOf(p) \in Bucket
  BY Zenon, KeyInBucket, Roles DEF KeyOf
<1>2. Len(queue[KeyOf(p)]) \in Nat
  BY <1>1 DEF IInv, TypeOK
<1>3. ~BeingAdded(KeyOf(p)) /\ Len(queue[KeyOf(p)]) = 0
  BY <1>1, <1>2, AccountingCases DEF IInv
<1>4. \A q \in Proc : KeyOf(q) = KeyOf(p) => pc[q] # "wait_enqueue"
  BY Zenon, <1>3 DEF BeingAdded, InFlight
<1>5. Matches(KeyOf(p), op[p].addr) = {}
  BY <1>3 DEF Matches
<1> QED BY Zenon, <1>4, <1>5, NobodySleeps

\* The load of the count: the early return, or the way to the lock.
LEMMA LoadStep ==
  ASSUME IInv, NEW p \in Proc, WakeLoad(p)
  PROVE  [Abs!ANext]_Abs!avars
<1>1. pc \in [Proc -> PC] /\ pc[p] = "wake_load" /\ UNCHANGED <<mem, state>> /\ Waking(p)
  BY Zenon DEF IInv, TypeOK, WakeLoad, Goto, Return, At, Waking
<1>2. CASE waiters[KeyOf(p)] = 0 /\ Return(p, "wake_load")
  <2>1. \A q \in Proc : Sleeping[q] # {op[p].addr}
    BY Zenon, <1>2, EarlyReturn
  <2> QED BY Zenon, <1>1, <1>2, <2>1, ReturnStep DEF Return
<1>3. CASE Goto(p, "wake_load", "wake_lock")
  <2>1. \A q \in Proc : (Asleep(q)' <=> Asleep(q)) /\ (Waking(q)' <=> Waking(q))
    BY <1>1, <1>3 DEF Asleep, Waking, Goto, At
  <2> QED BY Zenon, <1>1, <1>3, <2>1, Stutter DEF Goto
<1> QED BY Zenon, <1>2, <1>3 DEF WakeLoad

\* After the walk the lock still keeps new sleepers out of the bucket.
LEMMA WalkReturn ==
  ASSUME IInv, NEW p \in Proc, pc[p] = "wake_unlock"
  PROVE  op[p].count = 0 \/ \A q \in Proc : Sleeping[q] # {op[p].addr}
<1>1. KeyOf(p) \in Bucket
  BY Zenon, KeyInBucket, Roles DEF KeyOf
<1>2. lock[KeyOf(p)] = p
  BY Zenon, <1>1 DEF IInv, LockInv, Holding
<1>3. \A q \in Proc : KeyOf(q) = KeyOf(p) => pc[q] # "wait_enqueue"
  BY Zenon, <1>1, <1>2 DEF IInv, LockInv, Holding
<1> QED BY Zenon, <1>3, NobodySleeps DEF IInv, WalkInv

\* The return after the walk is the abstract return.
LEMMA WakeUnlockStep ==
  ASSUME IInv, NEW p \in Proc, WakeUnlock(p)
  PROVE  [Abs!ANext]_Abs!avars
<1>1. pc[p] = "wake_unlock" /\ UNCHANGED <<mem, state>> /\ Waking(p)
  BY Zenon DEF WakeUnlock, SpinUnlock, Return, At, Waking
<1>2. op[p].count = 0 \/ \A q \in Proc : Sleeping[q] # {op[p].addr}
  BY Zenon, <1>1, WalkReturn
<1> QED BY Zenon, <1>1, <1>2, ReturnStep DEF WakeUnlock, Return

\* One entry of the walk makes one sleeper of the word ready.
LEMMA OneWoken ==
  ASSUME IInv, NEW p \in Proc, WakeEntry(p)
  PROVE  /\ pc[p] = "wake_walk" /\ mem' = mem
         /\ \A q \in Proc : q # p => pc'[q] = pc[q] /\ op'[q] = op[q]
         /\ op'[p].addr = op[p].addr
         /\ op'[p].count = (op[p].count - 1) % CountMod
         /\ pc'[p] \in {"wake_walk", "wake_unlock"}
         /\ \E w \in Proc : /\ w # p /\ state[w] = "BLOCKED" /\ op[w].addr = op[p].addr
                            /\ state'[w] = "READY"
                            /\ \A q \in Proc : q # w => state'[q] = state[q]
<1> DEFINE k == KeyOf(p)
<1>1. PICK i \in 1 .. Len(queue[k]) :
        /\ FirstMatch(k, op[p].addr, i)
        /\ state' = [state EXCEPT ![queue[k][i].proc] = "READY"]
  BY Zenon DEF WakeEntry
<1>2. /\ pc[p] = "wake_walk" /\ mem' = mem
      /\ op' = [op EXCEPT ![p].count = (op[p].count - 1) % CountMod]
      /\ pc' \in {[pc EXCEPT ![p] = "wake_walk"], [pc EXCEPT ![p] = "wake_unlock"]}
  BY Zenon DEF WakeEntry, At
<1>3. k \in Bucket
  BY Zenon, KeyInBucket, Roles DEF KeyOf
<1>4. PICK w \in Proc : /\ w = queue[k][i].proc /\ w # p
                       /\ state[w] = "BLOCKED" /\ op[w].addr = op[p].addr
  <2>1. queue[k][i].addr = op[p].addr
    BY Zenon, <1>1 DEF FirstMatch, Matches
  <2> QED BY <1>1, <1>2, <1>3, <2>1, EntryType DEF IInv, EntriesAreSleepers, Entry, BlockedInv
<1>5. /\ \A q \in Proc : q # p => pc'[q] = pc[q] /\ op'[q] = op[q]
      /\ \A q \in Proc : q # w => state'[q] = state[q]
      /\ state'[w] = "READY"
  BY <1>1, <1>2, <1>4 DEF IInv, TypeOK
<1>6. /\ op'[p].addr = op[p].addr
      /\ op'[p].count = (op[p].count - 1) % CountMod
      /\ pc'[p] \in {"wake_walk", "wake_unlock"}
  BY <1>2 DEF IInv, TypeOK, Call
<1> QED BY Zenon, <1>2, <1>4, <1>5, <1>6

\* It is the abstract wake of one sleeper.
LEMMA WakeEntryStep ==
  ASSUME IInv, NEW p \in Proc, WakeEntry(p)
  PROVE  [Abs!ANext]_Abs!avars
<1>1. pc[p] = "wake_walk" /\ mem' = mem
  BY Zenon, OneWoken
<1>2. PICK w \in Proc : /\ w # p /\ state[w] = "BLOCKED" /\ op[w].addr = op[p].addr
                       /\ state'[w] = "READY"
                       /\ \A q \in Proc : q # w => state'[q] = state[q]
  BY OneWoken
<1>3. \A q \in Proc : q # p => pc'[q] = pc[q] /\ op'[q] = op[q]
  BY OneWoken
<1>4. /\ op'[p].addr = op[p].addr
      /\ op'[p].count = (op[p].count - 1) % CountMod
      /\ pc'[p] \in {"wake_walk", "wake_unlock"}
  BY OneWoken
<1>5. Sleeping[w] = {op[p].addr}
  BY Zenon, <1>2, MapAt DEF Asleep
<1>6. Sleeping' = [Sleeping EXCEPT ![w] = {}]
  <2>1. ASSUME NEW q \in Proc, q # w PROVE Sleeping'[q] = Sleeping[q]
    <3>1. CASE q = p
      <4>1. ~Asleep(p) /\ ~Asleep(p)'
        BY Zenon, <1>1, <1>2, <1>3, <1>4, Roles DEF Asleep, Waking
      <4> QED BY Zenon, <3>1, <4>1, MapAt
    <3>2. CASE q # p
      BY ZenonT(40), <1>2, <1>3, <2>1, <3>2, MapAt DEF Asleep
    <3> QED BY Zenon, <3>1, <3>2
  <2>2. Sleeping'[w] = {}
    <3>1. pc[w] # "wait_enqueue"
      BY Zenon, <1>2 DEF IInv, BlockedInv
    <3>2. ~Asleep(w)'
      BY Zenon, <1>2, <1>3, <3>1 DEF Asleep
    <3> QED BY Zenon, <1>2, <3>2, MapAt
  <2> QED BY Zenon, <1>2, <2>1, <2>2 DEF Sleeping
<1>7. Wakes[p] = {<<op[p].addr, op[p].count>>}
  BY Zenon, <1>1, MapAt DEF Waking
<1>8. Wakes' = [Wakes EXCEPT ![p] = {<<op[p].addr, (op[p].count - 1) % CountMod>>}]
  <2>1. \A q \in Proc : q # p => Wakes'[q] = Wakes[q]
    BY ZenonT(40), <1>3, MapAt DEF Waking
  <2>2. Wakes'[p] = {<<op'[p].addr, op'[p].count>>}
    BY Zenon, <1>4, MapAt DEF Waking
  <2>3. Wakes'[p] = {<<op[p].addr, (op[p].count - 1) % CountMod>>}
    BY Zenon, <1>4, <2>2
  <2> QED BY Zenon, <2>1, <2>3 DEF Wakes
<1>9. Abs!WakeOne(p, w, op[p].addr, op[p].count)
  BY Zenon, <1>1, <1>5, <1>6, <1>7, <1>8 DEF Abs!WakeOne
<1> QED BY Zenon, <1>2, <1>9, Roles DEF Abs!ANext

\* The remaining steps, inside the bucket or on the way to it, are invisible.
LEMMA HiddenStep ==
  ASSUME IInv, NEW p \in Proc,
         \/ WaitLock(p) \/ WaitInc(p) \/ WaitEnqueue(p) \/ WaitUnlock(p) \/ WaitResume(p)
         \/ WaitBack(p) \/ BackUnlock(p) \/ WakeLock(p) \/ WakeEndOfList(p)
  PROVE  UNCHANGED Abs!avars
<1> USE DEF WaitLock, WaitInc, WaitUnlock, WaitResume, WaitBack, BackUnlock, WakeLock,
            WakeEndOfList, WaitEnqueue, SpinLock, SpinUnlock, Goto, Return, At
<1>1. /\ mem' = mem
      /\ \A q \in Proc : q # p => pc'[q] = pc[q] /\ op'[q] = op[q] /\ state'[q] = state[q]
  BY DEF IInv, TypeOK
<1>2. (Asleep(p)' <=> Asleep(p)) /\ (Waking(p)' <=> Waking(p))
  <2>1. CASE WaitEnqueue(p)
    BY <2>1 DEF IInv, TypeOK, Asleep, Waking
  <2>2. CASE state' = state
    BY <2>2 DEF IInv, TypeOK, BlockedInv, Asleep, Waking
  <2> QED BY Zenon, <2>1, <2>2
<1>3. ~Quiet(p) => op'[p] = op[p]
  <2>1. CASE op' = op
    BY <2>1
  <2>2. CASE op' # op
    BY <2>2 DEF IInv, TypeOK, BlockedInv, Quiet, Asleep, Waking
  <2> QED BY <2>1, <2>2
<1>4. \A q \in Proc : (Asleep(q)' <=> Asleep(q)) /\ (Waking(q)' <=> Waking(q))
  BY <1>1, <1>2 DEF Asleep, Waking
<1>5. \A q \in Proc : ~Quiet(q) => op'[q] = op[q]
  BY Zenon, <1>1, <1>3
<1> QED BY Zenon, <1>1, <1>4, <1>5, Stutter

\* Every step of Futex is a step of FutexAbstract or invisible to it.
LEMMA StepSimulation == IInv /\ [Next]_vars => [Abs!ANext]_Abs!avars
<1> SUFFICES ASSUME IInv, [Next]_vars PROVE [Abs!ANext]_Abs!avars
  BY Zenon
<1>1. CASE UNCHANGED vars
  BY Zenon, <1>1 DEF vars, Abs!avars, Sleeping, Wakes, Asleep, Waking
<1>2. ASSUME NEW p \in Proc, Begin(p) \/ Step(p) \/ Flush(p)
      PROVE  [Abs!ANext]_Abs!avars
  BY Zenon, <1>2, BeginStep, FlushStep, CheckStep, LoadStep, WakeUnlockStep, WakeEntryStep,
     HiddenStep DEF Step
<1> QED BY Zenon, <1>1, <1>2 DEF Next

\* Initially nobody sleeps or wakes.
LEMMA InitSimulation == Init => Abs!AInit
BY Zenon DEF Init, Abs!AInit, Sleeping, Wakes, Asleep, Waking

\* futex_kwait and futex_kwake over their buckets, spinlocks and counts
\* implement the atomic compare-and-sleep and the wake that leaves no sleeper it
\* owed behind, for any number of processes, words, values and buckets.
THEOREM Refinement == Spec => ImplementsAbstract
<1>1. Init => Abs!AInit
  BY Zenon, InitSimulation
<1>2. IInv /\ [Next]_vars => [Abs!ANext]_Abs!avars
  BY Zenon, StepSimulation
<1>3. Spec => []IInv
  BY Zenon, Invariance
<1>4. Spec => Abs!AInit /\ [][Abs!ANext]_Abs!avars
  BY <1>1, <1>2, <1>3, PTL DEF Spec
<1> QED BY Zenon, <1>4 DEF ImplementsAbstract, Abs!ASpec

-----------------------------------------------------------------------------
(* No wakeup is lost *)

\* Callers that change the word with a locked instruction and wake as many processes
\* as there are, as FUTEX_WAKE_ALL does.
WakeAll == /\ Plain = {}
           /\ IsFiniteSet(Proc)
           /\ \A n \in Count : n >= Cardinality(Proc)

Sleepers(a) == {q \in Proc : state[q] = "BLOCKED" /\ op[q].addr = a}

\* The count of such a wake outlasts the sleepers of its word.
SpareInv ==
    \A p \in Proc :
        /\ pc[p] \in {"wake_load", "wake_lock"} => op[p].count >= Cardinality(Proc)
        /\ pc[p] \in {"wake_walk", "wake_unlock"} =>
              op[p].count > Cardinality(Sleepers(op[p].addr))

NInv == IInv /\ SpareInv /\ NoLostWakeup

\* The sizes of sets of processes.
LEMMA ProcSizes ==
  ASSUME WakeAll, NEW S \in SUBSET Proc
  PROVE  /\ Cardinality(S) \in Nat /\ Cardinality(Proc) \in Nat
         /\ \A x \in Proc \ S : Cardinality(S) < Cardinality(Proc)
         /\ \A x \in S : Cardinality(S \ {x}) = Cardinality(S) - 1
<1>1. IsFiniteSet(Proc) /\ IsFiniteSet(S)
  BY Zenon, FS_Subset DEF WakeAll
<1>2. Cardinality(S) \in Nat /\ Cardinality(Proc) \in Nat
  BY Zenon, <1>1, FS_CardinalityType
<1>3. \A x \in S : Cardinality(S \ {x}) = Cardinality(S) - 1
  BY Zenon, <1>1, FS_RemoveElement
<1>4. ASSUME NEW x \in Proc \ S PROVE Cardinality(S) < Cardinality(Proc)
  <2>1. Cardinality(S) <= Cardinality(Proc \ {x})
    BY <1>1, FS_Subset
  <2>2. Cardinality(Proc \ {x}) = Cardinality(Proc) - 1
    BY <1>1, FS_RemoveElement
  <2> QED BY <1>2, <2>1, <2>2
<1> QED BY Zenon, <1>2, <1>3, <1>4

\* A step that changes no word, and after which every sleeper was one before and
\* every wake goes on, loses no wakeup.
LEMMA SameWakes ==
  ASSUME NoLostWakeup, mem' = mem,
         \A q \in Proc : Asleep(q)' => Asleep(q) /\ op'[q].addr = op[q].addr
                                                 /\ op'[q].val = op[q].val,
         \A q \in Proc : Waking(q) => Waking(q)' /\ op'[q].addr = op[q].addr
  PROVE  NoLostWakeup'
<1> SUFFICES ASSUME NEW q \in Proc, Asleep(q)', mem'[op'[q].addr] # op'[q].val
             PROVE  \E p \in Proc : Waking(p)' /\ op'[p].addr = op'[q].addr
  BY DEF NoLostWakeup
<1>1. Asleep(q) /\ mem[op[q].addr] # op[q].val /\ op'[q].addr = op[q].addr
  OBVIOUS
<1>2. PICK p \in Proc : Waking(p) /\ op[p].addr = op[q].addr
  BY <1>1 DEF NoLostWakeup
<1> QED BY <1>1, <1>2

\* A step after which no process sleeps that did not, and which leaves the counts and
\* the words of the wakes alone, keeps their counts large enough.
LEMMA SameSpare ==
  ASSUME WakeAll, SpareInv, NEW p \in Proc,
         \A a \in Addr : Sleepers(a)' \subseteq Sleepers(a),
         \A q \in Proc : op[q].addr \in Addr /\ op[q].count \in Nat,
         \A q \in Proc \ {p} : pc'[q] = pc[q] /\ op'[q] = op[q],
         pc'[p] \in {"wake_load", "wake_lock"} => op'[p].count >= Cardinality(Proc),
         pc'[p] \in {"wake_walk", "wake_unlock"} =>
              op'[p].count > Cardinality(Sleepers(op[p].addr)')
  PROVE  SpareInv'
<1> SUFFICES ASSUME NEW q \in Proc \ {p}, pc[q] \in {"wake_walk", "wake_unlock"}
             PROVE  op[q].count > Cardinality(Sleepers(op[q].addr)')
  BY Zenon DEF SpareInv
<1>1. op[q].count > Cardinality(Sleepers(op[q].addr))
  BY Zenon DEF SpareInv
<1>2. /\ Sleepers(op[q].addr) \in SUBSET Proc
      /\ Sleepers(op[q].addr)' \in SUBSET Sleepers(op[q].addr)
  BY DEF Sleepers
<1>3. Cardinality(Sleepers(op[q].addr)') <= Cardinality(Sleepers(op[q].addr))
  BY Zenon, <1>2, FS_Subset DEF WakeAll
<1>4. /\ Cardinality(Sleepers(op[q].addr)) \in Nat
      /\ Cardinality(Sleepers(op[q].addr)') \in Nat
  BY Zenon, <1>2, ProcSizes
<1> QED BY <1>1, <1>3, <1>4

\* What the steps of p that wake and enqueue nobody leave as it was.
LEMMA LocalStep ==
  ASSUME IInv, NEW p \in Proc, Begin(p) \/ Step(p), ~WaitEnqueue(p), ~WakeEntry(p)
  PROVE  /\ state' = state
         /\ \A q \in Proc \ {p} : pc'[q] = pc[q] /\ op'[q] = op[q]
         /\ state[p] = "READY" \/ op'[p] = op[p]
<1>1. pc \in [Proc -> PC] /\ op \in [Proc -> Call] /\ state \in [Proc -> {"READY", "BLOCKED"}]
  BY DEF IInv, TypeOK
<1>2. CASE Begin(p)
  <2>1. state' = state /\ \A q \in Proc \ {p} : pc'[q] = pc[q] /\ op'[q] = op[q]
    BY Zenon, <1>1, <1>2 DEF Begin, CallKWait, CallKWake, At
  <2>2. pc[p] = "idle"
    BY ZenonT(60), <1>2 DEF Begin, CallKWait, CallKWake, At
  <2> QED BY <1>1, <2>1, <2>2 DEF IInv, BlockedInv
<1>3. CASE Step(p)
  <2> USE DEF Step, WaitLock, WaitInc, WaitCheck, WaitUnlock, WaitResume, WaitBack, BackUnlock,
              WakeLoad, WakeLock, WakeEndOfList, WakeUnlock, SpinLock, SpinUnlock, Goto,
              Return, At
  <2>1. state' = state /\ \A q \in Proc \ {p} : pc'[q] = pc[q] /\ op'[q] = op[q]
    BY Zenon, <1>1, <1>3
  <2>2. op' = op \/ pc[p] \in {"back_unlock", "wake_load", "wake_unlock"} \/ state[p] = "READY"
    BY ZenonT(30), <1>3
  <2> QED BY <1>1, <2>1, <2>2 DEF IInv, BlockedInv
<1> QED BY <1>2, <1>3

\* Such a step makes no sleeper.
LEMMA LocalSleepers ==
  ASSUME IInv, NEW p \in Proc, Begin(p) \/ Step(p), ~WaitEnqueue(p), ~WakeEntry(p),
         NEW a \in Addr
  PROVE  Sleepers(a)' \subseteq Sleepers(a)
<1>1. \A q \in Proc : state'[q] = "BLOCKED" => state[q] = "BLOCKED" /\ op'[q] = op[q]
  BY LocalStep
<1> QED BY ZenonT(60), <1>1 DEF Sleepers

\* The steps that wake and enqueue nobody keep the counts large enough: a wake
\* begins with a count for every process, and its caller is not asleep.
LEMMA LocalSpare ==
  ASSUME WakeAll, IInv, SpareInv, NEW p \in Proc, Begin(p) \/ Step(p),
         ~WaitEnqueue(p), ~WakeEntry(p)
  PROVE  SpareInv'
<1>1. pc \in [Proc -> PC] /\ op \in [Proc -> Call]
  BY DEF IInv, TypeOK
<1>2. /\ \A a \in Addr : Sleepers(a)' \subseteq Sleepers(a)
      /\ \A q \in Proc : op[q].addr \in Addr /\ op[q].count \in Nat
      /\ \A q \in Proc \ {p} : pc'[q] = pc[q] /\ op'[q] = op[q]
  BY LocalSleepers, LocalStep, Roles
<1>3. CASE \E a \in Addr, v \in Val : CallKWait(p, a, v)
  <2>1. pc'[p] = "wait_lock"
    BY Zenon, <1>1, <1>3 DEF CallKWait, At
  <2> QED BY <1>2, <2>1, SameSpare
<1>4. CASE \E a \in Addr, v \in Val, n \in Count : CallKWake(p, a, v, n)
  <2> PICK a \in Addr, v \in Val, n \in Count : CallKWake(p, a, v, n)
    BY Zenon, <1>4
  <2>1. pc'[p] = "wake_load" /\ op'[p].count = n
    BY <1>1 DEF CallKWake, At
  <2>2. n >= Cardinality(Proc)
    BY Zenon DEF WakeAll
  <2> QED BY Zenon, <1>2, <2>1, <2>2, SameSpare
<1>5. CASE WakeLoad(p)
  <2>1. \/ pc'[p] = "idle"
        \/ pc[p] = "wake_load" /\ pc'[p] = "wake_lock" /\ op'[p] = op[p]
    BY <1>1, <1>5 DEF WakeLoad, Goto, Return, At
  <2>2. pc[p] = "wake_load" => op[p].count >= Cardinality(Proc)
    BY DEF SpareInv
  <2> QED BY <1>2, <2>1, <2>2, SameSpare
<1>6. CASE WakeLock(p)
  <2>1. pc[p] = "wake_lock" /\ pc'[p] = "wake_walk" /\ op' = op /\ state' = state
    BY <1>1, <1>6 DEF WakeLock, SpinLock, Goto, At
  <2>2. op[p].count >= Cardinality(Proc) /\ op[p].count \in Nat
    BY <1>2, <2>1 DEF SpareInv
  <2>3. Sleepers(op[p].addr) \in SUBSET Proc /\ p \in Proc \ Sleepers(op[p].addr)
    BY <2>1 DEF IInv, BlockedInv, Sleepers
  <2>4. op[p].count > Cardinality(Sleepers(op[p].addr))
    BY <2>2, <2>3, ProcSizes
  <2>5. Sleepers(op[p].addr)' = Sleepers(op[p].addr)
    BY <2>1 DEF Sleepers
  <2> QED BY <1>2, <2>1, <2>4, <2>5, SameSpare
<1>7. CASE WakeEndOfList(p)
  <2>1. pc[p] = "wake_walk" /\ pc'[p] = "wake_unlock" /\ op' = op /\ state' = state
    BY <1>1, <1>7 DEF WakeEndOfList, Goto, At
  <2>2. op[p].count > Cardinality(Sleepers(op[p].addr))
    BY <2>1 DEF SpareInv
  <2>3. Sleepers(op[p].addr)' = Sleepers(op[p].addr)
    BY <2>1 DEF Sleepers
  <2> QED BY <1>2, <2>1, <2>2, <2>3, SameSpare
<1>8. CASE \/ WaitLock(p) \/ WaitInc(p) \/ WaitCheck(p) \/ WaitUnlock(p) \/ WaitResume(p)
           \/ WaitBack(p) \/ BackUnlock(p) \/ WakeUnlock(p)
  <2>1. pc'[p] \notin {"wake_load", "wake_lock", "wake_walk", "wake_unlock"}
    BY <1>1, <1>8 DEF WaitLock, WaitInc, WaitCheck, WaitUnlock, WaitResume, WaitBack,
       BackUnlock, WakeUnlock, Goto, Return, At
  <2> QED BY Zenon, <1>2, <2>1, SameSpare
<1> QED BY <1>3, <1>4, <1>5, <1>6, <1>7, <1>8 DEF Begin, Step

\* A process falls asleep under its bucket's lock: no walk for its word is under way.
LEMMA EnqueueSpare ==
  ASSUME WakeAll, IInv, SpareInv, NEW p \in Proc, WaitEnqueue(p)
  PROVE  SpareInv'
<1>1. /\ op' = op /\ pc[p] = "wait_enqueue" /\ pc' = [pc EXCEPT ![p] = "wait_unlock"]
      /\ state' = [state EXCEPT ![p] = "BLOCKED"]
      /\ pc \in [Proc -> PC] /\ state \in [Proc -> {"READY", "BLOCKED"}]
  BY DEF WaitEnqueue, Goto, At, IInv, TypeOK
<1> SUFFICES ASSUME NEW q \in Proc, pc'[q] \in {"wake_walk", "wake_unlock"}
             PROVE  op[q].count > Cardinality(Sleepers(op[q].addr)')
  BY <1>1 DEF SpareInv
<1>2. q # p /\ pc[q] \in {"wake_walk", "wake_unlock"}
  BY <1>1
<1>3. op[q].addr # op[p].addr
  <2>1. KeyOf(q) \in Bucket
    BY Zenon, KeyInBucket, Roles DEF KeyOf
  <2>2. KeyOf(p) # KeyOf(q)
    BY <1>1, <1>2, <2>1 DEF IInv, LockInv, Holding
  <2> QED BY <2>2 DEF KeyOf
<1>4. Sleepers(op[q].addr)' = Sleepers(op[q].addr)
  BY <1>1, <1>3 DEF Sleepers
<1> QED BY <1>2, <1>4 DEF SpareInv

\* An entry of the walk lowers the count by one and the number of sleepers of the
\* word by one; the other words lose no sleeper.
LEMMA EntrySpare ==
  ASSUME WakeAll, IInv, SpareInv, NEW p \in Proc, WakeEntry(p)
  PROVE  SpareInv'
<1>1. /\ pc[p] = "wake_walk" /\ op'[p].addr = op[p].addr
      /\ op'[p].count = (op[p].count - 1) % CountMod
      /\ pc'[p] \in {"wake_walk", "wake_unlock"}
      /\ \A q \in Proc : q # p => pc'[q] = pc[q] /\ op'[q] = op[q]
  BY OneWoken
<1>2. PICK w \in Proc : /\ state[w] = "BLOCKED" /\ op[w].addr = op[p].addr
                       /\ state'[w] = "READY"
                       /\ \A q \in Proc : q # w => state'[q] = state[q]
  BY OneWoken
<1>3. \A q \in Proc : op'[q].addr = op[q].addr
  BY <1>1
<1>4. \A a \in Addr : Sleepers(a)' \subseteq Sleepers(a)
  BY <1>2, <1>3 DEF Sleepers
<1>5. Sleepers(op[p].addr)' = Sleepers(op[p].addr) \ {w} /\ w \in Sleepers(op[p].addr)
  BY <1>1, <1>2, <1>3 DEF Sleepers
<1>6. /\ Cardinality(Sleepers(op[p].addr)) \in Nat
      /\ Cardinality(Sleepers(op[p].addr) \ {w}) = Cardinality(Sleepers(op[p].addr)) - 1
  <2>1. Sleepers(op[p].addr) \in SUBSET Proc
    BY DEF Sleepers
  <2> QED BY <1>5, <2>1, ProcSizes
<1>7. Cardinality(Sleepers(op[p].addr) \ {w}) \in Nat
  <2>1. Sleepers(op[p].addr) \ {w} \in SUBSET Proc
    BY DEF Sleepers
  <2> QED BY <2>1, ProcSizes
<1>8. op[p].count > Cardinality(Sleepers(op[p].addr))
  BY <1>1 DEF SpareInv
<1>9. op'[p].count = op[p].count - 1
  <2>1. op[p].count \in 0 .. CountMod - 1 /\ CountMod \in Nat
    BY Roles, FutexAssumption
  <2>2. op[p].count - 1 \in 0 .. CountMod - 1
    BY <1>6, <1>8, <2>1
  <2> QED BY <1>1, <2>1, <2>2
<1>10. op'[p].count > Cardinality(Sleepers(op[p].addr)')
  <2>1. op[p].count \in Nat
    BY Roles
  <2> QED BY <1>5, <1>6, <1>8, <1>9, <2>1
<1>11. ASSUME NEW q \in Proc PROVE op[q].addr \in Addr /\ op[q].count \in Nat
  BY Roles
<1>12. \A q \in Proc \ {p} : pc'[q] = pc[q] /\ op'[q] = op[q]
  BY <1>1
<1> QED BY <1>1, <1>4, <1>10, <1>11, <1>12, SameSpare

-----------------------------------------------------------------------------
\* A wake that returns while nobody sleeps on its word loses nothing.
LEMMA ReturnKeeps ==
  ASSUME IInv, NoLostWakeup, NEW p \in Proc, Waking(p), mem' = mem, state' = state,
         pc' = [pc EXCEPT ![p] = "idle"], op' = [op EXCEPT ![p] = NoCall],
         \A q \in Proc : Sleeping[q] # {op[p].addr}
  PROVE  NoLostWakeup'
<1>1. \A q \in Proc : q # p => pc'[q] = pc[q] /\ op'[q] = op[q]
  BY Zenon DEF IInv, TypeOK
<1>2. pc'[p] = "idle" /\ state[p] = "READY"
  BY Zenon, Roles DEF IInv, TypeOK
<1> SUFFICES ASSUME NEW q \in Proc, Asleep(q)', mem'[op'[q].addr] # op'[q].val
             PROVE  \E r \in Proc : Waking(r)' /\ op'[r].addr = op'[q].addr
  BY DEF NoLostWakeup
<1>3. q # p
  BY <1>2 DEF Asleep
<1>4. Asleep(q) /\ op'[q] = op[q] /\ mem[op[q].addr] # op[q].val
  BY <1>1, <1>3 DEF Asleep
<1>5. op[q].addr # op[p].addr
  BY Zenon, <1>4, MapAt
<1>6. PICK r \in Proc : Waking(r) /\ op[r].addr = op[q].addr
  BY <1>4 DEF NoLostWakeup
<1>7. r # p
  BY <1>5, <1>6
<1> QED BY <1>1, <1>4, <1>6, <1>7 DEF Waking

\* The calls: a wait changes nothing yet, and a caller that changes the word is
\* inside its futex_kwake from then on.
LEMMA BeginKeeps ==
  ASSUME WakeAll, IInv, NoLostWakeup, NEW p \in Proc, Begin(p)
  PROVE  NoLostWakeup'
<1>1. pc \in [Proc -> PC] /\ op \in [Proc -> Call]
  BY DEF IInv, TypeOK
<1>2. pc[p] = "idle" /\ state' = state /\ pc'[p] \in {"wait_lock", "wake_load"}
  BY <1>1 DEF Begin, CallKWait, CallKWake, At
<1>3. \A q \in Proc : q # p => pc'[q] = pc[q] /\ op'[q] = op[q]
  BY <1>1 DEF Begin, CallKWait, CallKWake, At
<1>4. ~Asleep(p) /\ ~Asleep(p)' /\ ~Waking(p)
  BY <1>2 DEF IInv, BlockedInv, Asleep, Waking
<1>5. \A q \in Proc : /\ Asleep(q)' => Asleep(q) /\ op'[q] = op[q]
                      /\ Waking(q) => Waking(q)' /\ op'[q] = op[q]
  BY <1>2, <1>3, <1>4 DEF Asleep, Waking
<1>6. CASE \E a \in Addr, v \in Val : CallKWait(p, a, v)
  <2>1. mem' = mem
    BY <1>6 DEF CallKWait
  <2> QED BY <1>5, <2>1, SameWakes
<1>7. CASE \E a \in Addr, v \in Val, n \in Count : CallKWake(p, a, v, n)
  <2> PICK a \in Addr, v \in Val, n \in Count : CallKWake(p, a, v, n)
    BY <1>7
  <2>1. Waking(p)' /\ op'[p].addr = a
    BY <1>1 DEF CallKWake, At, Waking
  <2>2. mem' = [mem EXCEPT ![a] = v] /\ mem \in [Addr -> Val]
    BY ZenonT(60) DEF CallKWake, Store, WakeAll, IInv, TypeOK
  <2> SUFFICES ASSUME NEW q \in Proc, Asleep(q)', mem'[op'[q].addr] # op'[q].val
               PROVE  \E r \in Proc : Waking(r)' /\ op'[r].addr = op'[q].addr
    BY DEF NoLostWakeup
  <2>3. Asleep(q) /\ op'[q] = op[q]
    BY <1>5
  <2>4. CASE op[q].addr = a
    BY Zenon, <2>1, <2>3, <2>4
  <2>5. CASE op[q].addr # a
    <3>1. mem[op[q].addr] # op[q].val
      BY <2>2, <2>3, <2>5, Roles
    <3>2. PICK r \in Proc : Waking(r) /\ op[r].addr = op[q].addr
      BY <2>3, <3>1 DEF NoLostWakeup
    <3> QED BY <1>5, <2>3, <3>2
  <2> QED BY <2>4, <2>5
<1> QED BY <1>6, <1>7 DEF Begin

\* The load that finds the expected value: the new sleeper's word holds it.
LEMMA CheckKeeps ==
  ASSUME IInv, NoLostWakeup, NEW p \in Proc, WaitCheck(p)
  PROVE  NoLostWakeup'
<1>1. /\ pc \in [Proc -> PC] /\ pc[p] = "wait_check"
      /\ op' = op /\ state' = state /\ mem' = mem
      /\ \A q \in Proc : q # p => pc'[q] = pc[q]
  BY Zenon DEF IInv, TypeOK, WaitCheck, Goto, At
<1>2. pc'[p] = "wait_enqueue" => mem[op[p].addr] = op[p].val
  BY Zenon, <1>1 DEF WaitCheck, Goto, At
<1>3. state[p] # "BLOCKED"
  BY Zenon, <1>1 DEF IInv, BlockedInv
<1> SUFFICES ASSUME NEW q \in Proc, Asleep(q)', mem'[op'[q].addr] # op'[q].val
             PROVE  \E r \in Proc : Waking(r)' /\ op'[r].addr = op'[q].addr
  BY Zenon DEF NoLostWakeup
<1>4. q # p
  BY Zenon, <1>1, <1>2, <1>3 DEF Asleep
<1>5. Asleep(q) /\ mem[op[q].addr] # op[q].val
  BY Zenon, <1>1, <1>4 DEF Asleep
<1>6. PICK r \in Proc : Waking(r) /\ op[r].addr = op[q].addr
  BY Zenon, <1>5 DEF NoLostWakeup
<1>7. r # p
  BY Zenon, <1>1, <1>6 DEF Waking
<1> QED BY Zenon, <1>1, <1>6, <1>7 DEF Waking

\* The two returns of __do_futex_wake, and its way to the lock.
LEMMA WakeReturnsKeep ==
  ASSUME WakeAll, IInv, SpareInv, NoLostWakeup, NEW p \in Proc, WakeLoad(p) \/ WakeUnlock(p)
  PROVE  NoLostWakeup'
<1>1. pc \in [Proc -> PC] /\ mem' = mem /\ state' = state /\ Waking(p)
  BY Zenon DEF IInv, TypeOK, WakeLoad, WakeUnlock, SpinUnlock, Goto, Return, At, Waking
<1>2. CASE waiters[KeyOf(p)] = 0 /\ Return(p, "wake_load")
  <2>1. \A q \in Proc : Sleeping[q] # {op[p].addr}
    BY ZenonT(30), <1>2, EarlyReturn
  <2> QED BY Zenon, <1>1, <1>2, <2>1, ReturnKeeps DEF Return, At
<1>3. CASE Goto(p, "wake_load", "wake_lock")
  <2>1. /\ op' = op /\ pc[p] = "wake_load" /\ pc'[p] = "wake_lock"
        /\ \A q \in Proc : q # p => pc'[q] = pc[q]
    BY Zenon, <1>1, <1>3 DEF Goto, At
  <2>2. \A q \in Proc : (Asleep(q)' <=> Asleep(q)) /\ (Waking(q)' <=> Waking(q))
    BY Zenon, <1>1, <2>1 DEF Asleep, Waking
  <2> QED BY Zenon, <1>1, <2>1, <2>2, SameWakes
<1>4. CASE WakeUnlock(p)
  <2>1. pc[p] = "wake_unlock"
    BY Zenon, <1>4 DEF WakeUnlock, Return, At
  <2>2. op[p].count # 0
    <3>1. op[p].count > Cardinality(Sleepers(op[p].addr))
      BY Zenon, <2>1 DEF SpareInv
    <3>2. Cardinality(Sleepers(op[p].addr)) \in Nat
      <4>1. Sleepers(op[p].addr) \in SUBSET Proc
        BY Zenon DEF Sleepers
      <4> QED BY Zenon, <4>1, ProcSizes
    <3> QED BY <3>1, <3>2
  <2>3. \A q \in Proc : Sleeping[q] # {op[p].addr}
    BY Zenon, <2>1, <2>2, WalkReturn
  <2> QED BY Zenon, <1>1, <1>4, <2>3, ReturnKeeps DEF WakeUnlock, Return, At
<1> QED BY Zenon, <1>2, <1>3, <1>4 DEF WakeLoad

\* An entry of the walk ends a sleep, and its wake goes on.
LEMMA EntryKeeps ==
  ASSUME IInv, NoLostWakeup, NEW p \in Proc, WakeEntry(p)
  PROVE  NoLostWakeup'
<1>1. /\ pc[p] = "wake_walk" /\ mem' = mem
      /\ \A q \in Proc : q # p => pc'[q] = pc[q] /\ op'[q] = op[q]
      /\ op'[p].addr = op[p].addr
      /\ pc'[p] \in {"wake_walk", "wake_unlock"}
  BY Zenon, OneWoken
<1>2. PICK w \in Proc : /\ w # p /\ state[w] = "BLOCKED" /\ state'[w] = "READY"
                       /\ \A q \in Proc : q # w => state'[q] = state[q]
  BY OneWoken
<1>3. ~Asleep(p)'
  <2>1. state[p] # "BLOCKED"
    BY Zenon, <1>1 DEF IInv, BlockedInv
  <2> QED BY Zenon, <1>1, <1>2, <2>1 DEF Asleep
<1>4. \A q \in Proc : /\ Asleep(q)' => Asleep(q) /\ op'[q] = op[q]
                      /\ Waking(q) => Waking(q)' /\ op'[q].addr = op[q].addr
  BY Zenon, <1>1, <1>2, <1>3 DEF Asleep, Waking
<1> QED BY Zenon, <1>1, <1>4, SameWakes

\* The steps that are invisible to the abstract futex.
LEMMA HiddenKeeps ==
  ASSUME IInv, NoLostWakeup, NEW p \in Proc,
         \/ WaitLock(p) \/ WaitInc(p) \/ WaitEnqueue(p) \/ WaitUnlock(p) \/ WaitResume(p)
         \/ WaitBack(p) \/ BackUnlock(p) \/ WakeLock(p) \/ WakeEndOfList(p)
  PROVE  NoLostWakeup'
<1> USE DEF WaitLock, WaitInc, WaitUnlock, WaitResume, WaitBack, BackUnlock, WakeLock,
            WakeEndOfList, WaitEnqueue, SpinLock, SpinUnlock, Goto, Return, At
<1>1. /\ mem' = mem
      /\ \A q \in Proc : q # p => pc'[q] = pc[q] /\ op'[q] = op[q] /\ state'[q] = state[q]
  BY Zenon DEF IInv, TypeOK
<1>2. /\ Asleep(p)' => Asleep(p) /\ op'[p] = op[p]
      /\ Waking(p) => Waking(p)' /\ op'[p] = op[p]
  <2>1. CASE WaitEnqueue(p)
    BY Zenon, <2>1 DEF IInv, TypeOK, Asleep, Waking
  <2>2. CASE state' = state /\ op' = op
    BY Zenon, <2>2 DEF IInv, TypeOK, BlockedInv, Asleep, Waking
  <2>3. CASE WaitResume(p) \/ BackUnlock(p)
    BY Zenon, <2>3 DEF IInv, TypeOK, BlockedInv, Asleep, Waking
  <2> QED BY Zenon, <2>1, <2>2, <2>3
<1>3. \A q \in Proc : /\ Asleep(q)' => Asleep(q) /\ op'[q] = op[q]
                      /\ Waking(q) => Waking(q)' /\ op'[q] = op[q]
  BY <1>1, <1>2 DEF Asleep, Waking
<1> QED BY Zenon, <1>1, <1>3, SameWakes

\* NInv is inductive for callers that wake every sleeper.
LEMMA NextKeeps ==
  ASSUME WakeAll, NInv, [Next]_vars
  PROVE  NInv'
<1> USE DEF NInv
<1>1. IInv'
  BY Zenon, NextInv
<1>2. CASE UNCHANGED vars
  BY <1>1, <1>2 DEF vars, SpareInv, Sleepers, NoLostWakeup, Asleep, Waking
<1>3. ASSUME NEW p \in Proc, Begin(p) \/ Step(p)
      PROVE  SpareInv' /\ NoLostWakeup'
  <2>1. SpareInv'
    BY Zenon, <1>3, LocalSpare, EnqueueSpare, EntrySpare
  <2>2. NoLostWakeup'
    BY Zenon, <1>3, BeginKeeps, CheckKeeps, WakeReturnsKeep, EntryKeeps, HiddenKeeps DEF Step
  <2> QED BY Zenon, <2>1, <2>2
<1>4. ASSUME NEW p \in Proc, Flush(p)
      PROVE  FALSE
  <2>1. sbuf[p] = {}
    BY DEF WakeAll, IInv, TypeOK
  <2> QED BY Zenon, <1>4, <2>1 DEF Flush
<1> QED BY Zenon, <1>1, <1>2, <1>3, <1>4 DEF Next

\* futex_kwait and futex_kwake lose no wakeup, for any number of processes, words
\* and buckets: while a process sleeps on a word that no longer holds the value it
\* waits for, a caller that wakes that word is still inside its futex_kwake.  The
\* callers change the word with a locked instruction (for a plain store the code
\* does not keep it: see README, "Disagreements") and wake all its sleepers.
THEOREM NoWakeupIsLost ==
  ASSUME WakeAll
  PROVE  Spec => []NoLostWakeup
<1>1. Init => NInv
  <2> SUFFICES ASSUME Init PROVE NInv
    BY Zenon
  <2>1. IInv
    BY Zenon, InitInv
  <2>2. SpareInv /\ NoLostWakeup
    BY DEF Init, SpareInv, NoLostWakeup, Asleep
  <2> QED BY Zenon, <2>1, <2>2 DEF NInv
<1>2. NInv /\ [Next]_vars => NInv'
  BY Zenon, NextKeeps
<1>3. NInv => NoLostWakeup
  BY Zenon DEF NInv
<1> QED BY <1>1, <1>2, <1>3, PTL DEF Spec
=============================================================================
