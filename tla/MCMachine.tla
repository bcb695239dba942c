----------------------------- MODULE MCMachine -----------------------------
(***************************************************************************)
(* The machine for TLC: starting of processors (Smp), timers (Timer), the   *)
(* text screen (Vga), formats and symbols of the console (Console).  The    *)
(* modules share no state; as in MCMemory, one of them moves and the others *)
(* stay as they begin.                                                      *)
(***************************************************************************)
EXTENDS Smp

CONSTANTS c1, NULL

VARIABLES moves,
          now, timer_heap, timer_heap_size, entering, irq, armed, wait, timer_panic,    \* Timer
          pos_x, pos_y, vmem, text,                                                     \* Vga
          pc, fmt, p, rs, args, stage, calls, faulted, lock, out, table, sym            \* Console

\* Four timers need two levels below the top.
Timers   == {"a", "b", "c", "d"}
Timeouts == {1, 3}
Waits    == {3}
Timer == INSTANCE Timer WITH GRAIN <- 2, MaxTime <- 5, HEAP_INIT_SIZE <- 2, panic <- timer_panic

\* Text of up to eight characters on a screen of eight, so that it scrolls by lines and tabs.
Chars == {"a", "b"}
Vga == INSTANCE Vga WITH DIMX <- 4, DIMY <- 2, TAB_WIDTH <- 2, TabLimit <- 2, MaxText <- 8

\* One processor prints formats of up to two conversions, and looks addresses up in
\* symbol tables of all lengths up to five.
Cpu == {c1}
Tables == {<<>>, <<2>>, <<1, 3>>, <<1, 2, 4>>, <<1, 2, 4, 5>>, <<1, 2, 3, 4, 6>>}
Addresses == 0 .. 6
NoFormats == {}
Console == INSTANCE Console WITH Formats <- NoFormats, Calls <- 1, BadString <- FALSE

MCInit == /\ moves \in {"Smp", "Timer", "Vga", "Console"}
          /\ (moves # "Console" => table = <<>>)
          /\ Init /\ Timer!Init /\ Vga!Init /\ Console!Init

timerVars   == <<now, timer_heap, timer_heap_size, entering, irq, armed, wait, timer_panic>>
vgaVars     == <<pos_x, pos_y, vmem, text>>
consoleVars == <<pc, fmt, p, rs, args, stage, calls, faulted, lock, out, table, sym>>
mcVars      == <<moves, vars, timerVars, vgaVars, consoleVars>>

MCNext ==
    \/ moves = "Smp" /\ Next /\ UNCHANGED <<moves, timerVars, vgaVars, consoleVars>>
    \/ moves = "Timer" /\ Timer!Next /\ UNCHANGED <<moves, vars, vgaVars, consoleVars>>
    \/ moves = "Vga" /\ Vga!Next /\ UNCHANGED <<moves, vars, timerVars, consoleVars>>
    \/ moves = "Console" /\ Console!Next /\ UNCHANGED <<moves, vars, timerVars, vgaVars>>

MCSpec == MCInit /\ [][MCNext]_mcVars

-----------------------------------------------------------------------------
\* The heap holds the armed timers with the nearest deadline first; callbacks run at or
\* after their deadlines, in order; a null element is read with three elements or more
\* only; and timer_spin_wait waits its time, to less than a grain.
TimersRunInOrder ==
    /\ [](moves = "Timer" => Timer!TypeOK /\ Timer!HeapIsQueue /\ Timer!NullNeedsThree)
    /\ Timer!RunsInOrder /\ Timer!WaitsToGrain

\* kvprintf writes what its conversions stand for and a panic the last symbol at or below
\* an address; the screen shows the end of what was written, in lines as they were written,
\* and nothing is written beyond its memory.
OutputIsShown ==
    /\ moves = "Console" => Console!TypeOK /\ Console!FormatIsDocumented /\ Console!SymbolIsNearest
    /\ moves = "Vga" => Vga!TypeOK /\ Vga!ScreenIsTail /\ Vga!OnScreen
=============================================================================
