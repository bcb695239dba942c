------------------------------ MODULE Console ------------------------------
(***************************************************************************)
(* Kernel output and panics: kvprintf (k_console.c) under the console's     *)
(* spinlock, __panic with its stack trace and the search for symbols        *)
(* (k_panic.c), and exceptions (isr_handler, k_int.c).  A format is a       *)
(* sequence of symbols; what is written is a sequence of <<processor, call, *)
(* item>>, an item being a symbol of the format or an argument with its     *)
(* conversion.                                                              *)
(***************************************************************************)
EXTENDS Integers, Sequences, SequencesExt, FiniteSetsExt

CONSTANTS Cpu,
          Formats,    \* that a processor may print before it panics; {} for Sample and what breaks off
          Calls,      \* bound on these calls for a processor
          BadString,  \* a string argument may be one that faults
          Tables,     \* sorted symbol tables: sequences of addresses, empty if none was loaded
          Addresses,  \* return addresses on a stack
          NULL

VARIABLES pc,                   \* "idle", "locking", "printing", "halted"
          fmt, p, rs, args,     \* kvprintf's: format, both pointers, arguments taken
          stage,                \* of a panic: what it prints next, "none" without one
          calls, faulted,       \* calls made; processors that faulted while they print
          lock, out,
          table, sym            \* the symbol table; the last lookup: <<address, symbol>>

kv == <<fmt, p, rs, args>>
vars == <<pc, kv, stage, calls, faulted, lock, out, table, sym>>

\* The documented conversions (k_console.c:126-133), as symbols, item and arguments.
Directive == {[f |-> <<"a">>, item |-> "a", n |-> 0], [f |-> <<"%", "%">>, item |-> "%", n |-> 0],
              [f |-> <<"%", "s">>, item |-> "str", n |-> 1], [f |-> <<"%", "s", "n">>, item |-> "str", n |-> 2]}
             \cup {[f |-> <<"%">> \o i \o l, item |-> IF Contains(i, "x") THEN "hex" ELSE "dec", n |-> 1] :
                      i \in {<<"x">>, <<"d">>, <<"S", "x">>, <<"S", "d">>}, l \in {<<>>, <<"b">>, <<"q">>}}
Sample == LET a == CHOOSE d \in Directive : d.item = "a" IN SeqOf(Directive, 2) \cup {<<a, d, a>> : d \in Directive}
Flat(ds) == FoldLeft(LAMBDA f, d : f \o d.f, <<>>, ds)
Printed == IF Formats = {} THEN {Flat(ds) : ds \in Sample} \cup {<<"a", "%">>, <<"%", "a">>, <<"%", "S">>}
           ELSE Formats

Init == /\ pc = [c \in Cpu |-> "idle"] /\ fmt = [c \in Cpu |-> <<>>]
        /\ p = [c \in Cpu |-> 1] /\ rs = [c \in Cpu |-> 1] /\ args = [c \in Cpu |-> 0]
        /\ stage = [c \in Cpu |-> "none"] /\ calls = [c \in Cpu |-> 0] /\ faulted = {}
        /\ lock = NULL /\ out = <<>> /\ table \in Tables /\ sym = <<>>

Goes(c, from, to) == pc[c] = from /\ pc' = [pc EXCEPT ![c] = to]

\* kvprintf is called.
Begins(c, f) == /\ fmt' = [fmt EXCEPT ![c] = f] /\ p' = [p EXCEPT ![c] = 1] /\ rs' = [rs EXCEPT ![c] = 1]
                /\ args' = [args EXCEPT ![c] = 0] /\ calls' = [calls EXCEPT ![c] = @ + 1]

kprintf(c) == /\ calls[c] < Calls /\ stage[c] = "none" /\ Goes(c, "idle", "locking")
              /\ \E f \in Printed : Begins(c, f)
              /\ UNCHANGED <<stage, faulted, lock, out, table, sym>>

\* spinlock_lock of the console.
\* Mutant: the lock is taken whoever holds it.
Locked_Never == FALSE

Locked == lock # NULL

Lock(c) == /\ ~Locked /\ Goes(c, "locking", "printing") /\ lock' = c
           /\ UNCHANGED <<kv, stage, calls, faulted, out, table, sym>>

-----------------------------------------------------------------------------
\* The symbol at place k of c's format, "end" behind it.
Sym(c, k) == IF k > Len(fmt[c]) THEN "end" ELSE fmt[c][k]
Tag(c, items) == [k \in DOMAIN items |-> <<c, calls[c], items[k]>>]
Text(c, k) == [j \in 1 .. k - rs[c] + 1 |-> <<fmt[c][rs[c] + j - 1], 0>>]
Skip(c, k, set) == IF Sym(c, k) \in set THEN k + 1 ELSE k

\* The conversion at place k: where it ends, its item, and the arguments it takes.
Conversion(c, k) ==
    LET s == Skip(c, k, {"S"})
        b == Skip(c, s, {"x", "d"})
    IN  IF Sym(c, k) = "s"
        THEN [end |-> Skip(c, k + 1, {"n"}), n |-> IF Sym(c, k + 1) = "n" THEN 2 ELSE 1, item |-> "str"]
        ELSE [end  |-> IF b = s THEN b ELSE Skip(c, b, {"b", "s", "l", "q"}), n |-> 1,
              item |-> IF Sym(c, s) = "x" THEN "hex" ELSE "dec"]

\* One turn of kvprintf's loop: a character is passed over, or a conversion is made after
\* what is before it has been written.
AfterPercent(k) == k

Turn(c) ==
    LET k == p[c]
        before == Text(c, k - 1)
        v == Conversion(c, k + 1)
    IN  CASE Sym(c, k) # "%" -> [p |-> k + 1, rs |-> rs[c], n |-> 0, out |-> <<>>]
          [] Sym(c, k) = "%" /\ Sym(c, k + 1) = "end" ->
                [p |-> k + 1, rs |-> rs[c], n |-> 0, out |-> before]
          [] Sym(c, k) = "%" /\ Sym(c, k + 1) = "%" ->
                [p |-> k + 2, rs |-> AfterPercent(k + 1), n |-> 0, out |-> before]
          [] Sym(c, k) = "%" /\ Sym(c, k + 1) \in {"s", "x", "d", "S"} ->
                [p |-> v.end, rs |-> v.end, n |-> v.n, out |-> Append(before, <<v.item, args[c] + 1>>)]
          [] OTHER -> [p |-> k + 2, rs |-> k + 2, n |-> 0, out |-> before]

TurnTo(c, t) == /\ p' = [p EXCEPT ![c] = t.p] /\ rs' = [rs EXCEPT ![c] = t.rs]
                /\ args' = [args EXCEPT ![c] = @ + t.n] /\ out' = out \o Tag(c, t.out)

kvprintf(c) ==
    /\ pc[c] = "printing" /\ p[c] <= Len(fmt[c]) /\ TurnTo(c, Turn(c))
    /\ UNCHANGED <<pc, fmt, stage, calls, faulted, lock, table, sym>>

\* The rest is written and the lock released.
\* Mutant: the lock is kept by whoever panics.
Released_Not == lock' = IF stage[lock] = "none" THEN NULL ELSE lock

Released == lock' = NULL

Unlock(c) ==
    /\ p[c] > Len(fmt[c]) /\ out' = out \o Tag(c, Text(c, p[c] - 1))
    /\ Goes(c, "printing", "idle") /\ Released
    /\ UNCHANGED <<kv, stage, calls, faulted, table, sym>>

-----------------------------------------------------------------------------
(* __panic *)

Enters(c, first) == stage' = [stage EXCEPT ![c] = first]

__panic(c) == /\ pc[c] = "idle" /\ stage[c] = "none" /\ Enters(c, "prefix")
              /\ UNCHANGED <<pc, kv, calls, faulted, lock, out, table, sym>>

\* isr_handler, which prints and panics: a string argument cannot be read, and the lock is held.
Fault(c) == /\ BadString /\ Sym(c, p[c]) = "%" /\ Sym(c, p[c] + 1) = "s"
            /\ Goes(c, "printing", "idle") /\ Enters(c, "isr") /\ faulted' = faulted \cup {c}
            /\ UNCHANGED <<kv, calls, lock, out, table, sym>>

\* sym_table_lookup: the entries from begin on, before end.
RECURSIVE Search(_, _, _)

\* Mutant: an address that is a symbol's own is taken for one of the symbol before.
Mid_Upper(a, mid) == table[mid] >= a

Mid(a, mid) == table[mid] > a

Search(a, begin, end) ==
    IF end - begin = 1 THEN begin
    ELSE LET mid == (end - begin) \div 2 + begin IN
         IF Mid(a, mid) THEN Search(a, begin, mid) ELSE Search(a, mid, end)

sym_table_lookup(a) == IF table = <<>> \/ a < table[1] THEN NULL ELSE Search(a, 1, Len(table) + 1)

\* The next line of a panic; the stack has one frame.
After == [isr |-> "prefix", prefix |-> "message", message |-> "trace", trace |-> "frame", frame |-> "end"]

PanicLine(c) == /\ stage[c] \notin {"none", "end"} /\ Goes(c, "idle", "locking") /\ Begins(c, <<"P">>)
                /\ Enters(c, After[stage[c]])
                /\ IF stage[c] = "frame" THEN \E a \in Addresses : sym' = <<a, sym_table_lookup(a)>>
                   ELSE UNCHANGED sym
                /\ UNCHANGED <<faulted, lock, out, table>>

Halt(c) == /\ stage[c] = "end" /\ Goes(c, "idle", "halted")
           /\ UNCHANGED <<kv, stage, calls, faulted, lock, out, table, sym>>

Step(c) == Lock(c) \/ kvprintf(c) \/ Unlock(c) \/ PanicLine(c) \/ Halt(c)
Next == \E c \in Cpu : Step(c) \/ kprintf(c) \/ __panic(c) \/ Fault(c)

\* A processor goes on with what it does; the spinlock comes to it since calls are bounded.
Spec == Init /\ [][Next]_vars /\ \A c \in Cpu : WF_vars(Step(c))

-----------------------------------------------------------------------------
\* What a sequence of conversions should write.
Taken(ds, k) == FoldLeft(LAMBDA n, d : n + d.n, 0, SubSeq(ds, 1, k - 1))
Expected(ds) == [k \in DOMAIN ds |-> <<ds[k].item, IF ds[k].n = 0 THEN 0 ELSE Taken(ds, k) + 1>>]
Written(c, n) == LET mine == SelectSeq(out, LAMBDA x : x[1] = c /\ x[2] = n) IN [k \in DOMAIN mine |-> mine[k][3]]

\* The lock is held by a processor that prints, or that faulted while it did.
TypeOK == /\ lock # NULL => pc[lock] = "printing" \/ lock \in faulted
          /\ \A c \in Cpu : pc[c] = "printing" => lock = c

\* A format of documented conversions prints each of them once, in order and with its own
\* argument, and the text between them (k_console.c:145-278).
FormatIsDocumented ==
    \A c \in Cpu : pc[c] = "idle" /\ fmt[c] # <<>> /\ stage[c] = "none" =>
        \A ds \in Sample : Flat(ds) = fmt[c] => Written(c, calls[c]) = Expected(ds)

\* What one call prints stays together, whatever the other processors print
\* (k_console.c:154, :277).
OutputIsWhole ==
    \A i, j, k \in DOMAIN out : i < j /\ j < k /\ SubSeq(out[i], 1, 2) = SubSeq(out[k], 1, 2)
                               => SubSeq(out[j], 1, 2) = SubSeq(out[i], 1, 2)

\* A stack trace names the last symbol that is not behind the address, if there is one
\* (k_panic.c:51-81).
SymbolIsNearest ==
    sym # <<>> => LET below == {k \in DOMAIN table : table[k] <= sym[1]} IN
                  sym[2] = IF below = {} THEN NULL ELSE Max(below)

\* A processor that panics has its say and halts, also when several do, unless one faulted
\* in kvprintf: it waits for its own lock then, and all others with it (k_panic.c:113-129).
PanicHalts == \A c \in Cpu : stage[c] # "none" ~> (pc[c] = "halted" \/ faulted # {})
=============================================================================
