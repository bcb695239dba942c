------------------------------- MODULE Loader -------------------------------
(***************************************************************************)
(* Loading a program: process_spawn_from_memory (osrt/rt/process.c), one      *)
(* system call after another, each of which may fail; and init_load_elf        *)
(* (kernel/ig_init_loader.c).  A segment is [vaddr, memsz] in words.           *)
(***************************************************************************)
EXTENDS Integers, Sequences

CONSTANTS Programs,   \* sequences of PT_LOAD segments
          PAGE,       \* words in a page
          Top,        \* pages of user space; the first one is below USERLAND_VADDR_BEGIN
          StackPages, InitPages,
          Who         \* "spawn" and "init"

VARIABLES prog, who, pc, i,
          as,      \* the handle of the new space: "none", "open" or "destroyed"
          mine,    \* pages in the caller's space that were mapped for this call
          child,   \* pages mapped in the new space, with what is there
          failed   \* the call that failed

vars == <<prog, who, pc, i, as, mine, child, failed>>

Init == /\ prog \in Programs /\ who \in Who
        /\ pc = IF who = "init" THEN "load" ELSE "as_create"
        /\ i = 1 /\ as = "none" /\ mine = 0 /\ child = {} /\ failed = "none"

Goes(from, to) == pc = from /\ pc' = to
Pages(n) == (n + PAGE - 1) \div PAGE
Put(pages, what) == child' = child \cup {<<v, what>> : v \in pages}

\* The pages that a loop over memsz from vaddr on reaches, page size by page size.
Stepped(s) == {(s.vaddr + k * PAGE) \div PAGE : k \in 0 .. Pages(s.memsz) - 1}

\* The pages the segment's words are in.
Covers(s) == {x \div PAGE : x \in s.vaddr .. s.vaddr + s.memsz - 1}

-----------------------------------------------------------------------------
(* init_load_elf, in the address space of init *)

\* The pages of one segment, but those that are mapped already.
LoadInit == /\ i <= Len(prog) /\ Goes("load", "clear") /\ Put(Stepped(prog[i]), "segment")
            /\ UNCHANGED <<prog, who, i, as, mine, failed>>

\* kmemset and kmemcpy to the segment: a page that is not mapped is a fault in the kernel.
ClearInit == /\ pc = "clear"
             /\ Goes("clear", IF \A v \in Covers(prog[i]) : <<v, "segment">> \in child
                              THEN "load" ELSE "fault")
             /\ i' = i + 1 /\ UNCHANGED <<prog, who, as, mine, child, failed>>

\* init_start: without an entry (a bad header, no memory) the kernel panics.
InitStart == /\ \/ i > Len(prog) /\ Goes("load", "started")
                \/ Goes("load", "panic")
             /\ UNCHANGED <<prog, who, i, as, mine, child, failed>>

-----------------------------------------------------------------------------
(* process_spawn_from_memory *)

Fails(from, call) ==
    /\ Goes(from, "destroy") /\ failed' = call /\ UNCHANGED <<prog, who, i, as, mine, child>>

AsCreate ==
    /\ \/ Goes("as_create", "segment") /\ as' = "open" /\ UNCHANGED failed
       \/ Goes("as_create", "failed") /\ failed' = "as_create" /\ UNCHANGED as
    /\ UNCHANGED <<prog, who, i, mine, child>>

\* load_segment: memory in the own space, filled from the file; a bad header or a
\* zero entry fails as well.
SegmentMap ==
    \/ /\ i <= Len(prog) /\ Goes("segment", "transfer") /\ mine' = Pages(prog[i].memsz)
       /\ UNCHANGED <<prog, who, i, as, child, failed>>
    \/ Fails("segment", "segment")

SegmentsDone == /\ i > Len(prog) /\ Goes("segment", "init_data")
                /\ UNCHANGED <<prog, who, i, as, mine, child, failed>>

\* syscall_mtransfer and syscall_mmap want pages of user space that are not mapped.
Refused(pages) == \E v \in pages : v \notin 1 .. Top - 1 \/ \E x \in child : x[1] = v

\* What is left in the own space after syscall_munmap.
\* Mutant: it is forgotten.
Unmapped_Not == mine

Unmapped == mine - Pages(prog[i].memsz)

SegmentTransfer ==
    /\ pc = "transfer"
    /\ \/ /\ prog[i].vaddr % PAGE = 0 /\ ~Refused(Stepped(prog[i]))
          /\ Goes("transfer", "segment") /\ i' = i + 1
          /\ Put(Stepped(prog[i]), "segment") /\ mine' = 0 /\ UNCHANGED failed
       \/ /\ Goes("transfer", "destroy") /\ failed' = "transfer" /\ mine' = Unmapped
          /\ UNCHANGED <<i, child>>
    /\ UNCHANGED <<prog, who, as>>

InitDataMap ==
    \/ Goes("init_data", "init_transfer") /\ mine' = InitPages /\ UNCHANGED <<prog, who, i, as, child, failed>>
    \/ Fails("init_data", "mmap")

\* Init data are at the top of user space, and the stack is below.
InitData == Top - InitPages .. Top - 1
Stack == Top - InitPages - StackPages .. Top - InitPages - 1

InitDataTransfer ==
    \/ /\ ~Refused(InitData) /\ Goes("init_transfer", "stack") /\ mine' = 0
       /\ Put(InitData, "init_data") /\ UNCHANGED <<prog, who, i, as, failed>>
    \/ Fails("init_transfer", "init_data")

StackMap ==
    \/ /\ ~Refused(Stack) /\ Goes("stack", "spawn") /\ Put(Stack, "stack")
       /\ UNCHANGED <<prog, who, i, as, mine, failed>>
    \/ Fails("stack", "mmap")

\* The new process has a reference to the space of its own; the handle stays open.
Spawn ==
    \/ Goes("spawn", "started") /\ UNCHANGED <<prog, who, i, as, mine, child, failed>>
    \/ Fails("spawn", "spawn")

Destroy == /\ Goes("destroy", "failed") /\ as' = "destroyed" /\ child' = {}
           /\ UNCHANGED <<prog, who, i, mine, failed>>

Next == LoadInit \/ ClearInit \/ InitStart \/ AsCreate \/ SegmentMap \/ SegmentsDone \/ SegmentTransfer
        \/ InitDataMap \/ InitDataTransfer \/ StackMap \/ Spawn \/ Destroy

Spec == Init /\ [][Next]_vars

-----------------------------------------------------------------------------
\* A page of the new space is one of user space and holds one thing: segments, init data
\* and stack never share one.
TypeOK == /\ \A x, y \in child : x[1] \in 0 .. Top - 1 /\ (x[1] = y[1] => x = y)
          /\ mine \in Nat /\ as \in {"none", "open", "destroyed"}

\* A process that is started has all words of all its segments (ig_init_loader.c:85-114,
\* process.c:192-196), and one that was spawned its stack and init data as well, whichever
\* segments overlap or share a page.
StartedIsComplete ==
    pc = "started" =>
        /\ \A k \in DOMAIN prog : \A v \in Covers(prog[k]) : <<v, "segment">> \in child
        /\ who = "spawn" => /\ \A v \in Stack : <<v, "stack">> \in child
                            /\ \A v \in InitData : <<v, "init_data">> \in child

\* The kernel clears and fills mapped pages only, if init's segments start at pages: the
\* loop over a segment that does not may miss its last page (ig_init_loader.c:93-113).
AlignedInitLoads == pc = "fault" => \E k \in DOMAIN prog : prog[k].vaddr % PAGE # 0

\* A spawn that has ended leaves no page in the caller's space, whatever failed, but for
\* the init data, which stay when their transfer fails (process.c:257-262); one that has
\* failed leaves no address space.
NothingIsLeft ==
    pc \in {"started", "failed"} => /\ mine = 0 \/ failed = "init_data"
                                    /\ pc = "failed" => as # "open"
=============================================================================
