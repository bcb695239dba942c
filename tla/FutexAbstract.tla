---------------------------- MODULE FutexAbstract ----------------------------
(***************************************************************************)
(* What the kernel futex promises its callers: a wait sleeps only if, at   *)
(* one instant, the word holds the expected value, and a wake returns only *)
(* when it has woken as many sleepers as it was asked to or nobody sleeps  *)
(* on its word.  There are no buckets, no locks and no counters here; the  *)
(* detailed module Futex is shown to implement this one.                   *)
(***************************************************************************)
EXTENDS Integers

CONSTANTS Proc,       \* kernel threads of control (process_t)
          Addr,       \* addresses of futex words
          Val,        \* values of a futex word
          Count,      \* counts a caller passes to a wake
          CountMod    \* the count is an unsigned integer modulo CountMod

VARIABLES mem,        \* mem[a]: the value of the word at a
          sleeping,   \* sleeping[p]: the set of words p sleeps on (at most one)
          waking      \* waking[p]: the wake in progress, <<address, count left>>

avars == <<mem, sleeping, waking>>

AInit == /\ mem \in [Addr -> Val]
         /\ sleeping = [p \in Proc |-> {}]
         /\ waking = [p \in Proc |-> {}]

\* The word at a changes.
Write(a, v) == /\ mem' = [mem EXCEPT ![a] = v]
               /\ UNCHANGED <<sleeping, waking>>

\* Compare and sleep, atomically.
Sleep(p, a, v) == /\ sleeping[p] = {} /\ waking[p] = {}
                  /\ mem[a] = v
                  /\ sleeping' = [sleeping EXCEPT ![p] = {a}]
                  /\ UNCHANGED <<mem, waking>>

\* A wake begins, together with the store it announces if there is one.
WakeBegin(p, a, n) == /\ sleeping[p] = {} /\ waking[p] = {}
                      /\ waking' = [waking EXCEPT ![p] = {<<a, n>>}]
                      /\ \E v \in Val : mem' \in {mem, [mem EXCEPT ![a] = v]}
                      /\ UNCHANGED sleeping

\* One sleeper of the word is woken.
WakeOne(p, q, a, n) == /\ waking[p] = {<<a, n>>}
                       /\ sleeping[q] = {a}
                       /\ sleeping' = [sleeping EXCEPT ![q] = {}]
                       /\ waking' = [waking EXCEPT ![p] = {<<a, (n - 1) % CountMod>>}]
                       /\ UNCHANGED mem

\* The wake returns: its count is used up or the word has no sleeper.
WakeEnd(p, a, n) == /\ waking[p] = {<<a, n>>}
                    /\ n = 0 \/ \A q \in Proc : sleeping[q] # {a}
                    /\ waking' = [waking EXCEPT ![p] = {}]
                    /\ UNCHANGED <<mem, sleeping>>

ANext == \/ \E a \in Addr, v \in Val : Write(a, v)
         \/ \E p \in Proc, a \in Addr, v \in Val : Sleep(p, a, v)
         \/ \E p \in Proc, a \in Addr, n \in Count : WakeBegin(p, a, n)
         \/ \E p, q \in Proc, a \in Addr, n \in 0 .. CountMod - 1 : WakeOne(p, q, a, n)
         \/ \E p \in Proc, a \in Addr, n \in 0 .. CountMod - 1 : WakeEnd(p, a, n)

ASpec == AInit /\ [][ANext]_avars
=============================================================================
