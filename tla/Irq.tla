-------------------------------- MODULE Irq --------------------------------
(***************************************************************************)
(* Interrupts while processors start: the tables of handlers (k_int.c), the *)
(* calibration of the timers with the PIT and the start of the APIC timers  *)
(* (k_timer.c).  The first processor is 0; the others start after it.  The  *)
(* PIT, the timers and the APIC's spurious interrupt are external.          *)
(***************************************************************************)
EXTENDS Integers

CONSTANTS N,          \* processors besides the first
          Fresh,      \* what memory from kmem_alloc may hold: NULL, Garbage
          Spurious,   \* there are spurious interrupts
          NULL, Garbage

Cpu == 0 .. N
PIT == 32
TIMER == 48
Vector == {PIT, TIMER, 255}

VARIABLES pc, iflag,       \* of each processor: its place, and whether it takes interrupts
          irq_handlers,    \* its table
          apic, timer,     \* its APIC is enabled, its timer runs
          pit, pit_flag,   \* the PIT: "off", "on", "fired"; the flag calibration waits for
          pending,         \* interrupts that wait at each processor
          last             \* what the last interrupt did: <<processor, vector, handler>>

vars == <<pc, iflag, irq_handlers, apic, timer, pit, pit_flag, pending, last>>

Init == /\ pc = [c \in Cpu |-> "off"] /\ iflag = [c \in Cpu |-> FALSE]
        /\ irq_handlers = [c \in Cpu |-> [v \in Vector |-> NULL]]
        /\ apic = [c \in Cpu |-> FALSE] /\ timer = [c \in Cpu |-> FALSE]
        /\ pit = "off" /\ pit_flag = TRUE /\ pending = [c \in Cpu |-> {}] /\ last = <<>>

Goes(c, from, to) == pc[c] = from /\ pc' = [pc EXCEPT ![c] = to]
Sets(c, v, h) == irq_handlers' = [irq_handlers EXCEPT ![c][v] = h]
Flag(c, b) == iflag' = [iflag EXCEPT ![c] = b]

\* interrupt_init_bsp and interrupt_init_ap up to sti: the table is not cleared.
interrupt_init(c) ==
    /\ c # 0 => pc[0] = "done"
    /\ Goes(c, "off", "init") /\ Flag(c, TRUE) /\ apic' = [apic EXCEPT ![c] = TRUE]
    /\ \E t \in [Vector -> Fresh] : irq_handlers' = [irq_handlers EXCEPT ![c] = t]
    /\ UNCHANGED <<timer, pit, pit_flag, pending, last>>

\* timer_calibrate: up to sti, with interrupts off; and after the wait.
\* Mutant: the handler is set when the PIT runs and interrupts are on.
Calibrate_Late ==
    \/ /\ Goes(0, "init", "late") /\ pit' = "on" /\ Flag(0, TRUE)
       /\ UNCHANGED <<irq_handlers, apic, timer, pit_flag, pending, last>>
    \/ /\ Goes(0, "late", "calibrate") /\ Sets(0, PIT, "pit_handler")
       /\ UNCHANGED <<iflag, apic, timer, pit, pit_flag, pending, last>>

Calibrate ==
    /\ Goes(0, "init", "calibrate") /\ pit' = "on" /\ Sets(0, PIT, "pit_handler") /\ Flag(0, TRUE)
    /\ UNCHANGED <<apic, timer, pit_flag, pending, last>>

Calibrated ==
    /\ ~pit_flag /\ Goes(0, "calibrate", "calibrated") /\ Sets(0, PIT, NULL) /\ pit' = "off"
    /\ UNCHANGED <<iflag, apic, timer, pit_flag, pending, last>>

SetTimer(c, from, to) == /\ Goes(c, from, to) /\ Sets(c, TIMER, "timer_irq_handler")
                         /\ UNCHANGED <<iflag, apic, timer, pit, pit_flag, pending, last>>

\* init_apic_timer.
StartTimer(c, from, to) == /\ Goes(c, from, to) /\ timer' = [timer EXCEPT ![c] = TRUE]
                           /\ UNCHANGED <<iflag, irq_handlers, apic, pit, pit_flag, pending, last>>

timer_init_bsp == SetTimer(0, "calibrated", "armed") \/ StartTimer(0, "armed", "done")
timer_init_ap(c) == c # 0 /\ (StartTimer(c, "init", "armed") \/ SetTimer(c, "armed", "done"))

-----------------------------------------------------------------------------
Fires(c, v) == v \notin pending[c] /\ pending' = [pending EXCEPT ![c] = @ \cup {v}]

PitFires == /\ pit = "on" /\ Fires(0, PIT) /\ pit' = "fired"
            /\ UNCHANGED <<pc, iflag, irq_handlers, apic, timer, pit_flag, last>>

TimerFires(c) == /\ timer[c] /\ Fires(c, TIMER)
                 /\ UNCHANGED <<pc, iflag, irq_handlers, apic, timer, pit, pit_flag, last>>

SpuriousFires(c) == /\ Spurious /\ apic[c] /\ Fires(c, 255)
                    /\ UNCHANGED <<pc, iflag, irq_handlers, apic, timer, pit, pit_flag, last>>

\* irq_handler, with interrupts off: what the table holds is called, unless it is NULL.
\* A call of Garbage does not come back.
Handler(c, v) == irq_handlers[c][v]

irq_handler(c, v) ==
    /\ iflag[c] /\ v \in pending[c] /\ pending' = [pending EXCEPT ![c] = @ \ {v}]
    /\ last' = <<c, v, Handler(c, v)>>
    /\ pit_flag' = IF Handler(c, v) = "pit_handler" THEN FALSE ELSE pit_flag
    /\ pc' = IF Handler(c, v) = Garbage THEN [pc EXCEPT ![c] = "wild"] ELSE pc
    /\ Flag(c, Handler(c, v) # Garbage)
    /\ UNCHANGED <<irq_handlers, apic, timer, pit>>

Cpus(c) == interrupt_init(c) \/ timer_init_ap(c)
Bsp == Calibrate \/ Calibrated \/ timer_init_bsp

Next == \/ Bsp \/ PitFires
        \/ \E c \in Cpu : \/ Cpus(c) \/ TimerFires(c) \/ SpuriousFires(c)
                          \/ \E v \in Vector : irq_handler(c, v)

\* Processors run, the PIT fires once it is started, and interrupts that wait are taken.
Spec == /\ Init /\ [][Next]_vars /\ WF_vars(Bsp) /\ WF_vars(PitFires)
        /\ \A c \in Cpu : /\ WF_vars(Cpus(c))
                          /\ \A v \in Vector : WF_vars(irq_handler(c, v))

-----------------------------------------------------------------------------
\* The variables' types; calibration ends only after the PIT has fired.
TypeOK == /\ irq_handlers \in [Cpu -> [Vector -> {NULL, Garbage, "pit_handler", "timer_irq_handler"}]]
          /\ pit \in {"off", "on", "fired"} /\ \A c \in Cpu : pending[c] \subseteq Vector
          /\ pit = "on" => pit_flag

\* A handler is called for the vector it was set for, and the PIT's on the processor that
\* calibrates only (k_timer.c:239-259).
HandlersMatch ==
    last # <<>> => /\ last[3] = "pit_handler" => last[1] = 0 /\ last[2] = PIT
                   /\ last[3] = "timer_irq_handler" => last[2] = TIMER

\* The first processor takes no tick before it has a handler for it (k_timer.c:294-295).
FirstTickIsHandled ==
    last # <<>> => (last[1] = 0 /\ last[2] = TIMER => last[3] = "timer_irq_handler")

\* Calibration does not miss the PIT, and all processors come up (k_timer.c:253), unless
\* one takes an interrupt for which its table, which is not cleared, holds Garbage.
AllComeUp == <>(\/ \A c \in Cpu : pc[c] = "done"
                \/ \E c \in Cpu : pc[c] = "wild")

\* An interrupt without a handler is reported and does nothing else (k_int.c:588-592).
\* Not so in the code, if Garbage is in Fresh: see README, "Disagreements".
UnhandledIsReported == last # <<>> => last[3] # Garbage
=============================================================================
