----------------------------- MODULE MCMemory ------------------------------
(***************************************************************************)
(* Memory of the kernel for TLC: allocation of frames (Pma) and access to  *)
(* user memory (UserMem), which this one extends, address spaces           *)
(* (AddressSpace), the kernel's heap (KHeap) and the marking of memory at  *)
(* boot (BootMap).  The modules share no state, so a behaviour of one is   *)
(* not changed by steps of the others: TLC lets one of them move and keeps *)
(* the others as they begin.                                               *)
(***************************************************************************)
EXTENDS Pma, UserMem, TLC

CONSTANTS sp1, sp2, sp3

VARIABLES moves,
          conf, vm_map, tab, pml4, vm_panic, failed, calls,                         \* AddressSpace
          chunks, frames, live, copied, stop,                                       \* KHeap
          tags, memmap, module, next, boot_map, pm_upper_limit, window, tables, boot_panic  \* BootMap

\* Two spaces and memory enough, or one space and frames for one or two pages with their tables.
Plenty == [space |-> {sp1, sp2}, frames |-> 40, sizes |-> {2}, calls |-> 5]
Scarce == [space |-> {sp3}, frames |-> 7, sizes |-> {1, 2, 3}, calls |-> 6]
Configs == {Plenty, Scarce}
Spaces == INSTANCE AddressSpace WITH Fan <- 2, Width <- 256, pm_map <- vm_map, panic <- vm_panic

HeapSizes  == {1, 3}
HeapAligns == {4}
KHeap == INSTANCE KHeap WITH PAGE <- 14, Sizes <- HeapSizes, Aligns <- HeapAligns

\* Memory maps as PC firmware reports them, a low part with a hole and one or two parts
\* above it that begin at a frame, and end anywhere.
Maps == {{<<1, n>>} : n \in 4 .. 15} \cup {{<<1, n>>, <<16, k>>} : n \in {5, 8, 11}, k \in 1 .. 7}
Modules == {<<2, 1>>} \cup {<<at, n>> : at \in {6, 10, 16}, n \in {1, 2, 3}}
BootMap == INSTANCE BootMap WITH PAGE <- 2, Frames <- 12, PREMAPPED_END <- 4, Fan <- 4,
                                 pm_map <- boot_map, panic <- boot_panic

\* The mutex of space 1 is at the lower address; physical page 0 is empty.
UserSpace  == <<1, 2>>
UserBelow  == <<{}, {1}>>
EmptyTable == [v \in Page |-> 0]

MCInit ==
    /\ moves \in {"Pma", "AddressSpace", "KHeap", "BootMap", "UserMem"}
    /\ (moves # "AddressSpace" => conf = Scarce)
    /\ (moves # "KHeap" => frames = FALSE)
    /\ Init /\ Spaces!Init /\ KHeap!Init /\ UserInit
    /\ IF moves = "BootMap" THEN BootMap!Init ELSE tags = <<>> /\ BootMap!Cleared

vmVars   == <<conf, vm_map, tab, pml4, vm_panic, failed, calls>>
heapVars == <<chunks, frames, live, copied, stop>>
bootVars == <<tags, memmap, module, next, boot_map, pm_upper_limit, window, tables, boot_panic>>
mcVars   == <<moves, vars, vmVars, heapVars, bootVars, userVars>>

MCNext ==
    \/ moves = "Pma" /\ Next /\ UNCHANGED <<moves, vmVars, heapVars, bootVars, userVars>>
    \/ moves = "AddressSpace" /\ Spaces!Next /\ UNCHANGED <<moves, vars, heapVars, bootVars, userVars>>
    \/ moves = "KHeap" /\ KHeap!Next /\ UNCHANGED <<moves, vars, vmVars, bootVars, userVars>>
    \/ moves = "BootMap" /\ BootMap!Next /\ UNCHANGED <<moves, vars, vmVars, heapVars, userVars>>
    \/ moves = "UserMem" /\ UserNext /\ UNCHANGED <<moves, vars, vmVars, heapVars, bootVars>>

MCSpec == MCInit /\ [][MCNext]_mcVars

Symmetry == Permutations(Proc) \cup Permutations({sp1, sp2})

-----------------------------------------------------------------------------
\* Whatever was mapped, transferred, cloned and destroyed, a table or page in use is never
\* free, and none is shared between address spaces or reached twice in one.
TablesAreCounted ==
    moves = "AddressSpace" => Spaces!TypeOK /\ Spaces!MappedIsCounted /\ Spaces!TablesAreTrees

\* A system call that returns an error has changed no mapping, also when memory ran out
\* between two pages (the rollbacks of syscall_mmap and syscall_mtransfer); a clone has the
\* pages of its source, in frames of its own (vm_address_space_clone).
CallsAreWhole == Spaces!FailureChangesNoMapping /\ Spaces!CloneIsCopy

\* After every split and merge the chunks of the kernel's heap tile its page and no two
\* free ones are neighbours; blocks of kmem_alloc and kmem_alloc_aligned are in chunks of
\* their own, kmem_free finds the chunk of each, and kmem_realloc's copy fits.
KernelHeapIsSound ==
    moves = "KHeap" => /\ KHeap!TypeOK /\ KHeap!ChunksTile /\ KHeap!FreeIsMerged
                       /\ KHeap!BlocksAreApart /\ KHeap!FreeFindsChunk /\ KHeap!CopyFits

\* Frames that boot gives out are whole frames of usable memory above the kernel's image
\* (_pma_mark_usable), hold no part of a module that begins at a frame (_pma_mark_reserved),
\* and after vm_init the kernel reaches them through its window.
BootGivesUsable ==
    moves = "BootMap" => /\ BootMap!TypeOK /\ BootMap!GivenIsUsable
                         /\ BootMap!ModulesAreKept /\ BootMap!GivenIsInWindow
=============================================================================
