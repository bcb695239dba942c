---------------------------- MODULE MCFutexLive ----------------------------
(***************************************************************************)
(* Futex with a bound on the number of calls each process makes, for       *)
(* liveness.  The spinlock of k_spinlock.c is unfair: a process that keeps *)
(* calling can keep a bucket's lock from another one for ever.  With at    *)
(* most MaxCalls calls per process the lock becomes free for good, so weak *)
(* fairness of each processor's next step is enough.  All words are        *)
(* changed with locked instructions (Plain = {}), so no store is buffered. *)
(***************************************************************************)
EXTENDS Futex

CONSTANT MaxCalls     \* futex calls each process makes

VARIABLE calls        \* calls[p]: calls p has begun

lvars == <<vars, calls>>

LInit == Init /\ calls = [p \in Proc |-> 0]

LBegin(p) == /\ calls[p] < MaxCalls
             /\ Begin(p)
             /\ calls' = [calls EXCEPT ![p] = @ + 1]
LStep(p) == Step(p) /\ UNCHANGED calls

LNext == \E p \in Proc : LBegin(p) \/ LStep(p)

\* A processor in the kernel takes its next step.
LSpec == LInit /\ [][LNext]_lvars /\ \A p \in Proc : WF_lvars(LStep(p))

\* A process that futex_kwait put to sleep on a word that then changes comes
\* back from futex_kwait: the wake that follows the change reaches it through
\* every race with the insertion of its entry.
ChangedWordWakes ==
    \A q \in Proc :
        (Asleep(q) /\ mem[op[q].addr] # op[q].val) ~> pc[q] = "idle"
=============================================================================
