-------------------------------- MODULE Acpi --------------------------------
(***************************************************************************)
(* The firmware's tables at boot: k_acpi.c, the search for the APIC's       *)
(* address (k_int.c) and for processors (ig_smp.c).  A MADT is a sequence   *)
(* of records [type, len, id], at least one; addresses count from its start. *)
(***************************************************************************)
EXTENDS Integers, Sequences, SequencesExt, FiniteSetsExt

CONSTANTS Firmware,   \* sequences of tables: [sign, records], sign "APIC" or another
          Head0,      \* size of a MADT before its first record
          Mask,       \* bits of an id that reach the register: 0xF in the code, plus one
          Self        \* the first processor's id

VARIABLES fw, checksum,   \* the tables, and whether the root table's checksum is right
          pc, i,
          madt,           \* records of the MADT that was loaded, or <<>>
          r,              \* address of the record the walk is at, 0 when it has ended
          base,           \* the APIC's address: "default", or an override's id
          cpu_count,      \* __smp_cpu_count
          sent            \* ids written to the ICR, in order

vars == <<fw, checksum, pc, i, madt, r, base, cpu_count, sent>>

Init == /\ fw \in Firmware /\ checksum \in BOOLEAN
        /\ pc = "load" /\ i = 1 /\ madt = <<>> /\ r = 0
        /\ base = "none" /\ cpu_count = 0 /\ sent = <<>>

\* acpi_load_xsdt and acpi_load_rsdt, one table; memory for the copy may be missing.
Load ==
    /\ pc = "load" /\ checksum /\ i <= Len(fw) /\ i' = i + 1
    /\ IF fw[i].sign = "APIC" THEN madt' \in {fw[i].records, <<>>} ELSE UNCHANGED madt
    /\ UNCHANGED <<fw, checksum, pc, r, base, cpu_count, sent>>

Begins(k) == Head0 + FoldSeq(LAMBDA rec, n : rec.len + n, 0, SubSeq(madt, 1, k - 1))
End == Begins(Len(madt) + 1)
Record == madt[CHOOSE k \in DOMAIN madt : Begins(k) = r]
acpi_madt_first_record == IF madt = <<>> THEN 0 ELSE Head0

\* Mutant: all records have the same length.
acpi_madt_next_record_Fixed == IF r + 2 < End THEN r + 2 ELSE 0

acpi_madt_next_record == IF r + Record.len < End THEN r + Record.len ELSE 0

\* find_lapic_base reads the table without asking whether there is one.
Loaded ==
    /\ pc = "load" /\ (~checksum \/ i > Len(fw))
    /\ pc' = IF madt = <<>> THEN "fault" ELSE "base"
    /\ base' = IF madt = <<>> THEN base ELSE "default"
    /\ r' = acpi_madt_first_record
    /\ UNCHANGED <<fw, checksum, i, madt, cpu_count, sent>>

\* The end of one walk and the start of the next.
Again(from, to) == /\ pc = from /\ r = 0 /\ pc' = to /\ r' = acpi_madt_first_record
                   /\ UNCHANGED <<fw, checksum, i, madt, base, cpu_count, sent>>

Walk(place) == pc = place /\ r # 0 /\ r' = acpi_madt_next_record /\ UNCHANGED <<fw, checksum, pc, i, madt>>

find_lapic_base == /\ Walk("base") /\ base' = IF Record.type = 5 THEN Record.id ELSE base
                   /\ UNCHANGED <<cpu_count, sent>>

IsCpu == Record.type = 0

ig_smp_init == /\ Walk("count") /\ cpu_count' = IF IsCpu THEN cpu_count + 1 ELSE cpu_count
               /\ UNCHANGED <<base, sent>>

\* ig_smp_start_all_aps; Smp is about what a processor then does.
Target == IsCpu /\ Record.id # Self

ig_smp_start_ap(id) == sent' = Append(sent, id % Mask)

StartAll == /\ Walk("start") /\ UNCHANGED <<base, cpu_count>>
            /\ IF Target THEN ig_smp_start_ap(Record.id) ELSE UNCHANGED sent

Next == \/ Load \/ Loaded \/ find_lapic_base \/ Again("base", "count") \/ ig_smp_init
        \/ Again("count", "start") \/ StartAll

Spec == Init /\ [][Next]_vars /\ WF_vars(Next)

-----------------------------------------------------------------------------
Ids(t) == {madt[k].id : k \in {j \in DOMAIN madt : madt[j].type = t}}
Done == pc = "start" /\ r = 0

\* The walk is always at a record's first byte, within the table (k_acpi.c:156-164).
WalkIsInside == r # 0 => r < End /\ \E k \in DOMAIN madt : Begins(k) = r

\* The APIC's address is the one of the last record that overrides it (k_int.c:446-461).
BaseIsOverride ==
    pc = "count" => LET o == SelectSeq(madt, LAMBDA rec : rec.type = 5) IN
                    base = IF o = <<>> THEN "default" ELSE o[Len(o)].id

\* Each processor but the first is started, once, and there is room in __cpus for all
\* (ig_smp.c:135-143, :153-164), when the ids fit.
AllAreStarted ==
    Done => /\ ToSet(sent) = Ids(0) \ {Self} /\ IsInjective(sent)
            /\ cpu_count = Len(sent) + 1

\* All tables that have a MADT that could be copied, and a right checksum, are walked to
\* the end; without one the search for the APIC's address faults.
WalksEnd == <>(Done \/ pc = "fault")

\* The interrupts that start a processor go to the processor meant (ig_smp.c:54,
\* "set target lapic").
\* Not so in the code: see README, "Disagreements".
TargetIsMeant == ToSet(sent) \subseteq Ids(0)
=============================================================================
