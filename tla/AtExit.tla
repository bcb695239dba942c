------------------------------- MODULE AtExit -------------------------------
(***************************************************************************)
(* The end of a program: atexit, at_quick_exit, exit, quick_exit, abort       *)
(* (osrt/c/stdlib.c), raise (signal.c), return from main (rt/_crt.c).  Tables  *)
(* of functions start in static memory and move to the heap when they are      *)
(* full.  A function may register others while it is called at the end.        *)
(***************************************************************************)
EXTENDS Integers, Sequences

CONSTANTS INIT_ATEXIT_SIZE,
          MaxReg,   \* bound: registrations with either function
          Ways      \* how the program ends: of "exit", "quick", "abort", "return"

Kind == {"exit", "quick"}
GARBAGE == 0      \* functions are 1, 2, ... in the order in which they were registered

VARIABLES table, size, count, heap,  \* of each kind
          reg,      \* reg[k]: number of functions registered, successfully
          phase,    \* "run", the kind whose functions are called, "done" or "wild"
          i,        \* functions still to be called
          ran,      \* history: functions called
          way, overrun
vars == <<table, size, count, heap, reg, phase, i, ran, way, overrun>>

Init == /\ table = [k \in Kind |-> [j \in 1 .. INIT_ATEXIT_SIZE |-> GARBAGE]]
        /\ size = [k \in Kind |-> INIT_ATEXIT_SIZE] /\ count = [k \in Kind |-> 0]
        /\ heap = [k \in Kind |-> FALSE] /\ reg = [k \in Kind |-> 0]
        /\ phase = "run" /\ i = 0 /\ ran = <<>> /\ way = "none" /\ overrun = FALSE

-----------------------------------------------------------------------------
\* Both kinds go by the size of atexit's table.
new_size(k) == (size["exit"] * 3) \div 2

\* Mutant: the table is replaced on the heap, too.
Grown_Fresh(k, n) == [j \in 1 .. n |-> GARBAGE]

\* malloc leaves the new table as it is, realloc keeps what fits.
Grown(k, n) == [j \in 1 .. n |-> IF heap[k] /\ j <= size[k] THEN table[k][j] ELSE GARBAGE]

Put(k, t, n) ==
    /\ table' = [table EXCEPT ![k] = [j \in 1 .. n |-> IF j = count[k] + 1 THEN reg[k] + 1 ELSE t[j]]]
    /\ overrun' = (overrun \/ count[k] + 1 > n)
    /\ phase' = IF count[k] + 1 > n THEN "wild" ELSE phase
    /\ count' = [count EXCEPT ![k] = @ + 1] /\ reg' = [reg EXCEPT ![k] = @ + 1]

\* atexit and at_quick_exit; without memory they fail and change nothing.
Register(k) ==
    /\ phase \notin {"done", "wild"} /\ reg[k] < MaxReg
    /\ IF count[k] = size[k]
       THEN /\ size' = [size EXCEPT ![k] = new_size(k)] /\ heap' = [heap EXCEPT ![k] = TRUE]
            /\ Put(k, Grown(k, new_size(k)), new_size(k))
       ELSE Put(k, table[k], size[k]) /\ UNCHANGED <<size, heap>>
    /\ UNCHANGED <<i, ran, way>>

\* exit and quick_exit; abort raises SIGABRT, whose default is exit; main's return calls
\* __exit.
End(w) ==
    /\ phase = "run" /\ way' = w
    /\ LET k == CASE w = "quick" -> "quick" [] w = "return" -> "done" [] OTHER -> "exit" IN
       phase' = k /\ i' = IF k = "done" THEN 0 ELSE count[k]
    /\ UNCHANGED <<table, size, count, heap, reg, ran, overrun>>

Index(j) == j

\* The next function is called, or the program ends.
Step ==
    /\ phase \in Kind
    /\ IF i = 0 THEN phase' = "done" /\ UNCHANGED <<i, ran>>
       ELSE IF Index(i) > size[phase] \/ table[phase][Index(i)] = GARBAGE THEN phase' = "wild" /\ UNCHANGED <<i, ran>>
       ELSE i' = i - 1 /\ ran' = Append(ran, table[phase][Index(i)]) /\ UNCHANGED phase
    /\ UNCHANGED <<table, size, count, heap, reg, way, overrun>>

Next == (\E k \in Kind : Register(k)) \/ (\E w \in Ways : End(w)) \/ Step

Spec == Init /\ [][Next]_vars

-----------------------------------------------------------------------------
Ended(k) == phase = "done" /\ way = k

\* Tables have their sizes, and atexit never counts more functions than its table has
\* room for (stdlib.c:67-90).
TypeOK == /\ \A k \in Kind : DOMAIN table[k] = 1 .. size[k]
          /\ count["exit"] <= size["exit"]

\* What was registered since the last move from static memory is what will be called, in
\* whatever size the table has come to since (stdlib.c:90).
LaterOnesAreKept ==
    \A j \in 1 .. count["exit"] : j > INIT_ATEXIT_SIZE \/ ~heap["exit"] => table["exit"][j] = j

\* The functions are called in the reverse of the order in which they were registered,
\* each once, also those of exit when others are registered meanwhile (stdlib.c:135-137).
ReverseOrder == \A j \in 1 .. Len(ran) - 1 : ran[j + 1] = ran[j] - 1

\* "realloc atexit table" (stdlib.c:68): a table that has moved holds what was registered.
\* Not so in the code: see README, "Disagreements".
HandlersAreKept == phase = "wild" => overrun

\* "realloc at_quick_exit func table" (stdlib.c:103): there is room for one more after it.
\* Not so in the code: see README, "Disagreements".
QuickFits == ~overrun

\* The functions are called at the end of the program: "[x] atexit"
\* (osrt/c/README.md:141).
\* Not so in the code: see README, "Disagreements".
HandlersRun == Ended("return") /\ reg["exit"] > 0 => ran # <<>>
=============================================================================
