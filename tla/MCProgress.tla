---------------------------- MODULE MCProgress -----------------------------
(***************************************************************************)
(* What must eventually happen, for TLC: init and its child (InitStub,      *)
(* which this one extends), a wait for a child (Proc), interrupts of        *)
(* starting processors (Irq), the walks over the firmware's tables (Acpi)   *)
(* and panics (Console).  The modules share no state; as in MCMemory, one   *)
(* of them moves and the others stay as they begin.  Fairness is that of    *)
(* the module which moves.                                                  *)
(***************************************************************************)
EXTENDS InitStub, SequencesExt

CONSTANTS Root, p1, p2, c1, c2, None, Garbage

VARIABLES moves,
          proc_pc, owner, parent, children, terminate_flag, exited, exited_child_count,
          asleep, proc, proc_val, proc_panic,                                           \* Proc
          irq_pc, iflag, irq_handlers, apic, timer, pit, pit_flag, pending, last,       \* Irq
          fw, checksum, acpi_pc, i, madt, r, base, cpu_count, sent,                     \* Acpi
          con_pc, fmt, p, rs, args, stage, calls, faulted, lock, con_out, table, sym    \* Console

Procs == {Root, p1, p2}
Processes == INSTANCE Proc WITH pc <- proc_pc, val <- proc_val, panic <- proc_panic

Fresh == {NULL, Garbage}
Irq == INSTANCE Irq WITH N <- 1, Spurious <- TRUE, pc <- irq_pc

\* No table, or one or two with a MADT among them; processors with ids 0 to 2, and overrides.
Rest == {[type |-> 5, len |-> 3, id |-> "a"], [type |-> 5, len |-> 3, id |-> "b"], [type |-> 1, len |-> 2, id |-> "io"]}
CpuRecord(k) == [type |-> 0, len |-> 2, id |-> k]
Cpus == {<<CpuRecord(0), CpuRecord(1)>>, <<CpuRecord(0), CpuRecord(2)>>, <<CpuRecord(1), CpuRecord(0), CpuRecord(2)>>}
Madt == {<<CpuRecord(0)>> \o s : s \in SeqOf(Rest, 2)} \cup {<<x>> \o s \o <<y>> : x, y \in Rest, s \in Cpus}
Facp == [sign |-> "FACP", records |-> <<>>]
Apic(t) == [sign |-> "APIC", records |-> t]
Firmware == {<<>>} \cup UNION {{<<Apic(t)>>, <<Facp, Apic(t)>>, <<Apic(t), Apic(<<CpuRecord(0)>>)>>} : t \in Madt}
Acpi == INSTANCE Acpi WITH Head0 <- 3, Mask <- 4, Self <- 0, pc <- acpi_pc

\* Two processors print and panic.
Cpu     == {c1, c2}
Formats == {<<"%", "s", "a">>}
Tables  == {<<1, 3>>}
Console == INSTANCE Console WITH Calls <- 1, BadString <- TRUE, Addresses <- {2},
                                 pc <- con_pc, out <- con_out

MCInit == /\ moves \in {"InitStub", "Proc", "Irq", "Acpi", "Console"}
          /\ (moves # "Acpi" => fw = <<>> /\ checksum = TRUE)
          /\ Boot /\ Processes!Init /\ Irq!Init /\ Acpi!Init /\ Console!Init

procVars    == <<proc_pc, owner, parent, children, terminate_flag, exited, exited_child_count,
                 asleep, proc, proc_val, proc_panic>>
irqVars     == <<irq_pc, iflag, irq_handlers, apic, timer, pit, pit_flag, pending, last>>
acpiVars    == <<fw, checksum, acpi_pc, i, madt, r, base, cpu_count, sent>>
consoleVars == <<con_pc, fmt, p, rs, args, stage, calls, faulted, lock, con_out, table, sym>>
mcVars      == <<moves, all, procVars, irqVars, acpiVars, consoleVars>>

MCNext ==
    \/ moves = "InitStub" /\ System /\ UNCHANGED <<moves, procVars, irqVars, acpiVars, consoleVars>>
    \/ moves = "Proc" /\ Processes!Next /\ UNCHANGED <<moves, all, irqVars, acpiVars, consoleVars>>
    \/ moves = "Irq" /\ Irq!Next /\ UNCHANGED <<moves, all, procVars, acpiVars, consoleVars>>
    \/ moves = "Acpi" /\ Acpi!Next /\ UNCHANGED <<moves, all, procVars, irqVars, consoleVars>>
    \/ moves = "Console" /\ Console!Next /\ UNCHANGED <<moves, all, procVars, irqVars, acpiVars>>

\* Both processes run, and keys go on being pressed.
SystemFairness == /\ WF_all(moves = "InitStub" /\ InitStep)
                  /\ WF_all(moves = "InitStub" /\ StubStep)
                  /\ WF_all(moves = "InitStub" /\ Deliver)
                  /\ WF_all(moves = "InitStub" /\ \E k \in Keys : Key(k))

\* A process in a call goes on with it.
ProcFairness == \A q \in Procs : WF_procVars(moves = "Proc" /\ Processes!Steps(q))

\* Processors run, the PIT fires and interrupts that wait are taken.
IrqFairness ==
    /\ WF_irqVars(moves = "Irq" /\ Irq!Bsp) /\ WF_irqVars(moves = "Irq" /\ Irq!PitFires)
    /\ \A c \in 0 .. 1 : /\ WF_irqVars(moves = "Irq" /\ Irq!Cpus(c))
                         /\ \A v \in {32, 48, 255} : WF_irqVars(moves = "Irq" /\ Irq!irq_handler(c, v))

MCSpec == /\ MCInit /\ [][MCNext]_mcVars
          /\ SystemFairness /\ ProcFairness /\ IrqFairness
          /\ WF_acpiVars(moves = "Acpi" /\ Acpi!Next)
          /\ \A c \in Cpu : WF_consoleVars(moves = "Console" /\ Console!Step(c))

-----------------------------------------------------------------------------
\* The controller's self test gives what the stub process expects, whatever keys are
\* pressed, and init exits, unless the stub ends otherwise or the freed reference is used.
InitExits == ControllerPasses /\ (moves = "InitStub" => InitEnds)

\* A wait for one child that is asked to end returns, or the kernel has stopped.
WaitOneReturns == Processes!WaitOneReturns

\* A handler that runs is that of its vector, a tick of the first processor finds its
\* handler, and every processor gets through the initialisation of interrupts and timers,
\* unless an interrupt without a handler calls what its table happened to hold.
AllComeUp == /\ [](moves = "Irq" => Irq!TypeOK /\ Irq!HandlersMatch /\ Irq!FirstTickIsHandled)
             /\ (moves = "Irq" => Irq!AllComeUp)

\* Walks over the firmware's tables end; they are at the beginning of a record inside the
\* table; the address of the APIC is that of an override, if there is one; and every
\* processor but the first is sent its start, once.
WalksAreExact ==
    /\ [](moves = "Acpi" => Acpi!WalkIsInside /\ Acpi!BaseIsOverride /\ Acpi!AllAreStarted)
    /\ (moves = "Acpi" => Acpi!WalksEnd)

\* What one call of kprintf prints is not mixed with what another processor prints.
OutputIsWhole == moves = "Console" => Console!TypeOK /\ Console!OutputIsWhole

\* A processor that panics halts, unless one has faulted while it printed.
PanicHalts == Console!PanicHalts
=============================================================================
