------------------------------- MODULE Timer -------------------------------
(***************************************************************************)
(* The timers of one processor (k_timer.c): a heap of deadlines, in an      *)
(* array whose element 0 is below every deadline, filled by                 *)
(* timer_set_timeout and emptied by the handler of the timer interrupt.     *)
(* The time stamp counts in steps of GRAIN.  An interrupt can come between  *)
(* the two halves of an insertion, unless it is made by a callback.         *)
(***************************************************************************)
EXTENDS Integers, Sequences, FiniteSets

CONSTANTS Timers,         \* identities of callbacks with their data
          Timeouts,       \* timeouts asked for
          GRAIN,          \* 10
          MaxTime,        \* bound on the time
          HEAP_INIT_SIZE,
          Waits           \* durations of timer_spin_wait

VARIABLES now,
          timer_heap,       \* elements 1 and up
          timer_heap_size,  \* elements allocated, the first included
          entering,         \* the timer whose element is allocated and not filled, or {}
          irq,              \* timer_exec_callbacks is running
          armed,            \* history: timers set and not run, with their deadlines
          wait,             \* begin and length of a timer_spin_wait, or <<>>
          panic

vars == <<now, timer_heap, timer_heap_size, entering, irq, armed, wait, panic>>

Init == /\ now = 0 /\ timer_heap = <<>> /\ timer_heap_size = HEAP_INIT_SIZE /\ entering = {}
        /\ irq = FALSE /\ armed = {} /\ wait = <<>> /\ panic = "none"

timer_get_timestamp == (now \div GRAIN) * GRAIN

Element(t, d) == [timer |-> t, deadline |-> d]

Deadline(h, i) == IF i = 0 THEN 0 ELSE h[i].deadline

Swap(h, i, j) == [h EXCEPT ![i] = h[j], ![j] = h[i]]

RECURSIVE SiftUp(_, _), SiftDown(_, _, _)

\* The loop of timer_heap_insert.
SiftUp(h, i) == IF Deadline(h, i \div 2) > h[i].deadline
                THEN SiftUp(Swap(h, i, i \div 2), i \div 2) ELSE h

\* The loop of timer_heap_extract.  Where it follows the pointer to a right child that
\* there is not, low says whether what it reads there lets it go on; <<>> if not.
SiftDown(h, i, low) ==
    LET left   == 2 * i
        right  == 2 * i + 1
        above(j) == j > Len(h) \/ h[i].deadline < h[j].deadline
    IN  IF above(left) /\ above(right) THEN h
        ELSE IF right > Len(h) /\ ~low THEN <<>>
        ELSE IF right > Len(h) \/ h[left].deadline < h[right].deadline
             THEN SiftDown(Swap(h, i, left), left, low)
        ELSE SiftDown(Swap(h, i, right), right, low)

\* Mutant: the last element stays at the top.
timer_heap_extract_Unsifted(h, low) == SubSeq(<<h[Len(h)]>> \o Tail(h), 1, Len(h) - 1)

timer_heap_extract(h, low) ==
    IF Len(h) = 1 THEN <<>> ELSE SiftDown(SubSeq(<<h[Len(h)]>> \o Tail(h), 1, Len(h) - 1), 1, low)

\* timer_heap_expand, when there is no room for another element.
Expanded(h) == IF Len(h) + 1 >= timer_heap_size THEN timer_heap_size * 2 ELSE timer_heap_size

Tick == /\ panic = "none" /\ now < MaxTime /\ now' = now + 1
        /\ UNCHANGED <<timer_heap, timer_heap_size, entering, irq, armed, wait, panic>>

\* timer_set_timeout up to the new end of the heap; what the element holds is left over.
SetBegin(t, d) ==
    /\ panic = "none" /\ ~irq /\ entering = {} /\ t \notin {x.timer : x \in armed}
    /\ timer_heap_size' = Expanded(timer_heap)
    /\ \E old \in {0, MaxTime} : timer_heap' = Append(timer_heap, Element("none", old))
    /\ entering' = {Element(t, timer_get_timestamp + d)}
    /\ UNCHANGED <<now, irq, armed, wait, panic>>

\* The rest of it.
SetEnd ==
    /\ panic = "none" /\ ~irq /\ entering # {} /\ entering' = {} /\ armed' = armed \cup entering
    /\ timer_heap' = SiftUp([timer_heap EXCEPT ![Len(timer_heap)] = CHOOSE x \in entering : TRUE],
                            Len(timer_heap))
    /\ UNCHANGED <<now, timer_heap_size, irq, wait, panic>>

timer_irq_handler == /\ panic = "none" /\ ~irq /\ timer_heap # <<>> /\ irq' = TRUE
                     /\ UNCHANGED <<now, timer_heap, timer_heap_size, entering, armed, wait, panic>>

Due == timer_heap # <<>> /\ timer_heap[1].deadline <= timer_get_timestamp

ExecReturn == /\ panic = "none" /\ irq /\ ~Due /\ irq' = FALSE
              /\ UNCHANGED <<now, timer_heap, timer_heap_size, entering, armed, wait, panic>>

\* A turn of the loop of timer_exec_callbacks; the callback may set its timer again.
ExecTurn(low, again) ==
    LET h == timer_heap_extract(timer_heap, low)
        x == timer_heap[1]
        y == {Element(x.timer, timer_get_timestamp + d) : d \in again}
    IN  /\ panic = "none" /\ irq /\ Due
        /\ panic' = IF entering # {} THEN "torn"
                    ELSE IF h = <<>> /\ Len(timer_heap) > 1 THEN "null" ELSE "none"
        /\ IF panic' # "none" THEN UNCHANGED <<timer_heap, timer_heap_size, armed>>
           ELSE IF again = {}
           THEN timer_heap' = h /\ armed' = armed \ {x} /\ UNCHANGED timer_heap_size
           ELSE /\ timer_heap' = SiftUp(Append(h, CHOOSE e \in y : TRUE), Len(h) + 1)
                /\ armed' = (armed \ {x}) \cup y /\ timer_heap_size' = Expanded(h)
        /\ UNCHANGED <<now, entering, irq, wait>>

\* timer_spin_wait.
SpinBegin(w) == /\ panic = "none" /\ wait = <<>>
                /\ wait' = <<now, w, timer_get_timestamp + w>>
                /\ UNCHANGED <<now, timer_heap, timer_heap_size, entering, irq, armed, panic>>

SpinEnd == /\ panic = "none" /\ wait # <<>> /\ timer_get_timestamp >= wait[3]
           /\ wait' = <<>>
           /\ UNCHANGED <<now, timer_heap, timer_heap_size, entering, irq, armed, panic>>

Next == \/ Tick \/ SetEnd \/ timer_irq_handler \/ ExecReturn \/ SpinEnd
        \/ \E t \in Timers, d \in Timeouts : SetBegin(t, d)
        \/ \E low \in BOOLEAN, again \in {{}} \cup {{d} : d \in Timeouts} : ExecTurn(low, again)
        \/ \E w \in Waits : SpinBegin(w)

Spec == Init /\ [][Next]_vars

(* Properties *)

\* Elements are inside the allocated array, and each but a half made one has its timer.
TypeOK == /\ Len(timer_heap) < timer_heap_size
          /\ \A i \in 1..Len(timer_heap) :
                 timer_heap[i].timer \in Timers \/ (entering # {} /\ i = Len(timer_heap))
          /\ now \in 0..MaxTime /\ irq \in BOOLEAN /\ panic \in {"none", "torn", "null"}

\* When no insertion is half done, the array is a heap (the parent of an element is not
\* later) and holds exactly the timers that were set and have not run.
HeapIsQueue ==
    entering = {} =>
        /\ \A i \in 2..Len(timer_heap) : timer_heap[i \div 2].deadline <= timer_heap[i].deadline
        /\ {timer_heap[i] : i \in 1..Len(timer_heap)} = armed
        /\ Len(timer_heap) = Cardinality(armed)

\* timer_exec_callbacks runs the timer with the earliest deadline, and never one before
\* its deadline.
RunsInOrder ==
    [][\A x \in armed \ armed' : /\ x.deadline <= now
                                 /\ \A y \in armed : x.deadline <= y.deadline]_vars

\* The loop of timer_heap_extract can only follow a null pointer when three timers are
\* set; the kernel sets one per processor.
NullNeedsThree == panic = "null" => Cardinality(armed) >= 3

\* timer_spin_wait waits for its time up to one grain of the time stamp.
WaitsToGrain == [][wait # <<>> /\ wait' = <<>> => now - wait[1] > wait[2] - GRAIN]_vars

\* timer_spin_wait waits at least for its time, as "wait 10ms" before
\* timer_spin_wait(10) says (ig_smp.c).
\* Not so in the code: see README, "Disagreements".
WaitsItsTime == [][wait # <<>> /\ wait' = <<>> => now - wait[1] >= wait[2]]_vars
=============================================================================
