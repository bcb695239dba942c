------------------------------ MODULE BootMap ------------------------------
(***************************************************************************)
(* What boot makes of the memory it is told of: the tags of the boot loader *)
(* (arch/amd64/ig_mboot2.c) mark frames usable or reserved in pm_map;       *)
(* vm_init (k_memory.c) maps all physical memory into the kernel's window,  *)
(* with frames from pm_map as tables.  Addresses are in units, PAGE to a    *)
(* frame.                                                                   *)
(***************************************************************************)
EXTENDS Integers, Sequences, SequencesExt, FiniteSetsExt

CONSTANTS PAGE,           \* KMEM_PAGE_SIZE
          Frames,         \* PM_MAP_ELEMENTS
          PREMAPPED_END,  \* end of what the stub of the kernel has mapped
          Maps,           \* memory maps a firmware may report: sets of usable <<base, length>>
          Modules,        \* <<base, length>> of the modules the loader may have loaded
          Fan             \* entries of a table

VARIABLES tags,      \* tags still to parse
          memmap,    \* the set of usable regions, or {} while no memory map is found
          module,    \* modules found
          next,      \* number of modules loaded, -1 before the memory map is
          pm_map,    \* TRUE for a free frame
          pm_upper_limit,
          window,    \* number of frames mapped by vm_init
          tables,    \* frames taken for tables
          panic

vars == <<tags, memmap, module, next, pm_map, pm_upper_limit, window, tables, panic>>

Tag == [type : {"MODULES"}, data : Modules] \cup [type : {"MEMORY_MAP"}, data : Maps]
       \cup [type : {"other"}, data : {{}}]

\* The kernel's data before ig_mb2_c_entry.
Cleared == /\ memmap = {} /\ module = <<>> /\ next = -1
           /\ pm_map = [f \in 0 .. Frames - 1 |-> FALSE]
           /\ pm_upper_limit = 0 /\ window = 0 /\ tables = {} /\ panic = "none"

Init == /\ tags \in SeqOf(Tag, 3)
        /\ \A i, j \in DOMAIN tags :
              /\ tags[i].type = "MEMORY_MAP" /\ tags[j].type = "MEMORY_MAP" => i = j
              /\ tags[i].type = "MODULES" /\ tags[i] = tags[j] => i = j
        /\ Cleared

\* One turn of ig_mb2_c_entry's loop.
ig_mb2_c_entry ==
    /\ tags # <<>> /\ tags' = Tail(tags)
    /\ memmap' = IF Head(tags).type = "MEMORY_MAP" THEN Head(tags).data ELSE memmap
    /\ module' = IF Head(tags).type = "MODULES" THEN Append(module, Head(tags).data) ELSE module
    /\ UNCHANGED <<next, pm_map, pm_upper_limit, window, tables, panic>>

Marked(map, base, count, free) ==
    [f \in DOMAIN map |-> IF f \in base .. base + count - 1 THEN free ELSE map[f]]

DIV_CEIL(a, b) == (a - 1) \div b + 1

_pma_mark_usable(map, r) == Marked(map, r[1] \div PAGE, r[2] \div PAGE, TRUE)

\* Mutant: the length of a reserved region is rounded down.
_pma_mark_reserved_Floor(map, r) == Marked(map, r[1] \div PAGE, r[2] \div PAGE, FALSE)

_pma_mark_reserved(map, r) == Marked(map, r[1] \div PAGE, DIV_CEIL(r[2], PAGE), FALSE)

Limit(limit, r) == Max({limit, r[1] + r[2]})

\* VERIFY(memmap) and ig_mb2_load_mem_map.
ig_mb2_load_mem_map ==
    /\ tags = <<>> /\ next = -1 /\ panic = "none"
    /\ IF memmap = {}
       THEN panic' = "no_memory_map_found" /\ UNCHANGED <<pm_map, pm_upper_limit, next>>
       ELSE LET all == <<0, PREMAPPED_END>> IN
            /\ next' = 0 /\ UNCHANGED panic
            /\ pm_map' = _pma_mark_reserved(FoldSet(LAMBDA r, map : _pma_mark_usable(map, r),
                                                    pm_map, memmap), all)
            /\ pm_upper_limit' = Limit(FoldSet(LAMBDA r, n : Limit(n, r), 0, memmap), all)
    /\ UNCHANGED <<tags, memmap, module, window, tables>>

ig_mb2_load_module ==
    /\ next \in 0 .. Len(module) - 1 /\ next' = next + 1
    /\ pm_map' = _pma_mark_reserved(pm_map, module[next + 1])
    /\ pm_upper_limit' = Limit(pm_upper_limit, module[next + 1])
    /\ UNCHANGED <<tags, memmap, module, window, tables, panic>>

InWindow(f) == f * PAGE < pm_upper_limit

\* One turn of vm_init's loop.  alloc_pt takes the lowest free frames for the tables
\* above a frame that are not there yet; ASSERT(pt) when there is none.
vm_init ==
    LET free == {f \in DOMAIN pm_map : pm_map[f]}
        need == Cardinality({k \in {1, 2} : window % Fan^k = 0})
        new  == ToSet(SubSeq(SetToSortSeq(free, <), 1, need))
    IN  /\ next = Len(module) /\ panic = "none" /\ InWindow(window)
        /\ IF Cardinality(free) < need
           THEN panic' = "ASSERT(pt)" /\ UNCHANGED <<pm_map, tables, window>>
           ELSE /\ pm_map' = [f \in DOMAIN pm_map |-> pm_map[f] /\ f \notin new]
                /\ tables' = tables \cup new /\ window' = window + 1 /\ UNCHANGED panic
        /\ UNCHANGED <<tags, memmap, module, next, pm_upper_limit>>

Next == ig_mb2_c_entry \/ ig_mb2_load_mem_map \/ ig_mb2_load_module \/ vm_init

Spec == Init /\ [][Next]_vars

-----------------------------------------------------------------------------
(* Properties *)

TypeOK == /\ pm_map \in [0 .. Frames - 1 -> BOOLEAN] /\ tables \subseteq DOMAIN pm_map
          /\ pm_upper_limit \in Nat /\ window \in 0 .. Frames /\ next \in -1 .. Len(module)

Units(r) == r[1] .. r[1] + r[2] - 1

UnitsOf(f) == Units(<<f * PAGE, PAGE>>)

\* Frames that boot gave to a table or leaves for pma_alloc once modules are loaded.
Given == {f \in DOMAIN pm_map : next = Len(module) /\ (pm_map[f] \/ f \in tables)}

\* A frame that is given out is all usable memory and above what the stub of the
\* kernel runs in, wherever the regions end.
GivenIsUsable ==
    \A f \in Given : /\ \A u \in UnitsOf(f) : \E r \in memmap : u \in Units(r)
                     /\ f * PAGE >= PREMAPPED_END

\* "Mark a region reserved": no part of a module that was loaded is in a frame that is
\* given out, wherever its tag comes.
\* Not so in the code, for modules that start within a frame: see README, "Disagreements".
ModulesAreKept == \A f \in Given, k \in DOMAIN module : UnitsOf(f) \cap Units(module[k]) = {}

\* When vm_init is done every frame pma_alloc can give out is in the window through
\* which the kernel reaches it (vm_get_vma_for_pma tests nothing).
GivenIsInWindow ==
    (next = Len(module) /\ panic = "none" /\ window * PAGE >= pm_upper_limit)
        => \A f \in Given : f < window
=============================================================================
