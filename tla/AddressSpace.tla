---------------------------- MODULE AddressSpace ----------------------------
(***************************************************************************)
(* Address spaces and their page tables, kernel/k_memory.c, with the system *)
(* calls that change them.  A table is a frame like any other; tab[f] are  *)
(* the entries of the table in f, 0 for one that is not present (frame 0 is *)
(* reserved at boot).  A call holds the lock of the address space it works *)
(* on, so it is one step; Pma is about allocations that race.  Attributes  *)
(* of pages and the half of the tables that all spaces share are left out. *)
(***************************************************************************)
EXTENDS Integers, Sequences, SequencesExt, FiniteSetsExt

CONSTANTS Fan,       \* entries of a table: 512 in the code
          Width,     \* frame counts are modulo Width: 2^8 in the code
          Configs    \* what a behaviour is given, one of these:
                     \*   space: address_space_t objects; frames: number of frames;
                     \*   sizes: sizes in calls, in pages; calls: bound on calls

VARIABLES conf, pm_map, tab,
          pml4,    \* pml4[a]: pml4_paddr of a live address space, else 0
          panic,   \* a VERIFY or PANIC that stopped the kernel
          failed,  \* the last call returned an error
          calls

vars == <<conf, pm_map, tab, pml4, panic, failed, calls>>

AddrSpace == conf.space
Frames == conf.frames
PageCounts == conf.sizes
MaxCalls == conf.calls

Frame == 0 .. Frames - 1
Idx == 0 .. Fan - 1

\* Pages of the userland half; the first one is below USERLAND_VADDR_BEGIN.
PageEnd == Fan * Fan * Fan
Page == 1 .. PageEnd - 1

Empty == [x \in Idx |-> 0]

Init == /\ conf \in Configs
        /\ pm_map = [f \in Frame |-> IF f = 0 THEN Width - 1 ELSE 0]
        /\ tab = [f \in Frame |-> Empty]
        /\ pml4 = [a \in AddrSpace |-> 0]
        /\ panic = "none" /\ failed = FALSE /\ calls = 0

\* What a call works on: the frame counts, the tables, whether all went well, the
\* frame allocated last and the reason of a panic.
Now == [pm |-> pm_map, tab |-> tab, ok |-> TRUE, new |-> 0, panic |-> "none"]

PML4IDX(v) == v \div (Fan * Fan)
PDPIDX(v) == (v \div Fan) % Fan
PDIDX(v) == v % Fan

pma_alloc(s) ==
    LET free == {f \in Frame : s.pm[f] = 0} IN
    IF free = {} THEN [s EXCEPT !.new = 0, !.ok = FALSE]
    ELSE [s EXCEPT !.new = Min(free), !.pm[Min(free)] = 1]

pma_free(s, f) == [s EXCEPT !.pm[f] = (@ - 1) % Width]

\* A table that is all zero.
alloc_pt(s) == LET t == pma_alloc(s) IN
               IF t.ok THEN [t EXCEPT !.tab[t.new] = Empty] ELSE t

\* The table that the entry x of the table f refers to, made if there is none.
TableBelow(s, f, x) == IF s.tab[f][x] # 0 THEN s
                       ELSE LET t == alloc_pt(s) IN
                            IF t.ok THEN [t EXCEPT !.tab[f][x] = t.new] ELSE t

\* The tables on the way to page v; 0 where there is none.
PdpOf(s, root, v) == s.tab[root][PML4IDX(v)]
PdOf(s, root, v) == LET p == PdpOf(s, root, v) IN IF p = 0 THEN 0 ELSE s.tab[p][PDPIDX(v)]

\* vm_get_pma_by_vma: the frame page v is mapped to, or 0.
FrameOf(s, root, v) == LET p == PdOf(s, root, v) IN IF p = 0 THEN 0 ELSE s.tab[p][PDIDX(v)]

vm_is_mapped(s, root, v) == FrameOf(s, root, v) # 0

vm_map_page(s, root, v, f) ==
    LET s1 == TableBelow(s, root, PML4IDX(v))
        s2 == IF s1.ok THEN TableBelow(s1, PdpOf(s1, root, v), PDPIDX(v)) ELSE s1
    IN  IF ~s2.ok THEN s2
        ELSE IF FrameOf(s2, root, v) \notin {0, f}
             THEN [s2 EXCEPT !.panic = "remapping_a_mapped_page"]
             ELSE [s2 EXCEPT !.tab[PdOf(s2, root, v)][PDIDX(v)] = f]

vm_unmap_page(s, root, v) ==
    IF vm_is_mapped(s, root, v)
    THEN [s EXCEPT !.tab[PdOf(s, root, v)][PDIDX(v)] = 0]
    ELSE [s EXCEPT !.panic = "unmapping_an_non-existing_page"]

PageRange(v, n) == [k \in 1 .. n |-> v + k - 1]

\* Mutant: the last page stays.
vm_unmap_n_OffByOne(s, root, v, n) ==
    FoldLeft(LAMBDA t, w : vm_unmap_page(t, root, w), s, PageRange(v, n - 1))

vm_unmap_n(s, root, v, n) ==
    FoldLeft(LAMBDA t, w : IF t.panic = "none" THEN vm_unmap_page(t, root, w) ELSE t,
             s, PageRange(v, n))

\* The first place for n pages, or 0; the loop stops one page early.
vm_alloc_vaddr(s, root, n) ==
    LET fits == {v \in 1 .. PageEnd - n - 1 :
                    \A w \in v .. v + n - 1 : ~vm_is_mapped(s, root, w)}
    IN  IF fits = {} THEN 0 ELSE Min(fits)

-----------------------------------------------------------------------------
(* Emptying, and cloning *)

Indices == [x \in 1 .. Fan |-> x - 1]

\* For each entry of table f that is present: do(s, the frame it refers to), clear it.
ForEntries(s, f, do(_, _)) ==
    FoldLeft(LAMBDA t, x : IF t.tab[f][x] = 0 THEN t
                           ELSE [do(t, t.tab[f][x]) EXCEPT !.tab[f][x] = 0], s, Indices)

vm_empty_pd(s, f) == ForEntries(s, f, pma_free)
vm_empty_pdp(s, f) == ForEntries(s, f, LAMBDA t, p : pma_free(vm_empty_pd(t, p), p))
vm_empty_userland(s, f) == ForEntries(s, f, LAMBDA t, p : pma_free(vm_empty_pdp(t, p), p))

\* A copy of the table f whose present entries are replaced by clones; on failure the
\* remaining entries still refer to what f's refer to.
CloneTable(s, f, clone(_, _)) ==
    LET s1 == alloc_pt(s)
        d  == s1.new
        s2 == [s1 EXCEPT !.tab[d] = s.tab[f]]
        s3 == FoldLeft(LAMBDA t, x :
                  IF ~t.ok \/ s.tab[f][x] = 0 THEN t
                  ELSE LET u == clone(t, s.tab[f][x]) IN
                       IF u.ok THEN [u EXCEPT !.tab[d][x] = u.new] ELSE u, s2, Indices)
    IN  IF ~s1.ok THEN s1 ELSE [s3 EXCEPT !.new = IF s3.ok THEN d ELSE 0]

vm_clone_pd(s, f) == CloneTable(s, f, LAMBDA t, p : pma_alloc(t))
vm_clone_pdp(s, f) == CloneTable(s, f, vm_clone_pd)

\* The rollback empties the failing entry once for each entry before it and frees
\* those; the failing one still refers to the source's table.
CloneRollback(s, dst, x) ==
    FoldLeft(LAMBDA t, y : pma_free(vm_empty_pdp(t, t.tab[dst][x]), t.tab[dst][y]),
             s, SubSeq(Indices, 1, x))

vm_clone_pml4(s, src, dst) ==
    FoldLeft(LAMBDA t, x :
        IF ~t.ok \/ s.tab[src][x] = 0 THEN t
        ELSE LET u == vm_clone_pdp(t, s.tab[src][x]) IN
             IF u.ok THEN [u EXCEPT !.tab[dst][x] = u.new] ELSE CloneRollback(u, dst, x),
        [s EXCEPT !.tab[dst] = s.tab[src]], Indices)

-----------------------------------------------------------------------------
(* System calls *)

\* The call ends with state s and the live address spaces p.
Ends(s, p) == /\ panic = "none" /\ calls < MaxCalls /\ calls' = calls + 1
              /\ pm_map' = s.pm /\ tab' = s.tab /\ panic' = s.panic
              /\ failed' = ~s.ok /\ pml4' = p

Fail(s) == [s EXCEPT !.ok = FALSE]
Live == {a \in AddrSpace : pml4[a] # 0}

syscall_as_create(a) ==
    LET s == alloc_pt(Now) IN
    /\ a \notin Live
    /\ Ends(s, [pml4 EXCEPT ![a] = s.new])

\* vm_address_space_destroy does not free the top table itself.
syscall_as_destroy(a) ==
    /\ a \in Live
    /\ Ends(vm_empty_userland(Now, pml4[a]), [pml4 EXCEPT ![a] = 0])

syscall_as_clone(a, src) ==
    LET s == alloc_pt(Now)
        c == vm_clone_pml4(s, pml4[src], s.new)
    IN  /\ a \notin Live /\ src \in Live
        /\ IF ~s.ok THEN Ends(s, pml4)
           ELSE IF c.ok THEN Ends(c, [pml4 EXCEPT ![a] = s.new])
           ELSE Ends(Fail(vm_empty_userland(c, s.new)), pml4)

\* One turn of syscall_mmap's loop; rollbacks give no frame back, and the last one
\* starts at the page that could not be mapped.
MmapPage(s, root, v, w) ==
    LET s1 == pma_alloc(s)
        s2 == vm_map_page(s1, root, w, s1.new)
    IN  IF ~s.ok \/ s.panic # "none" THEN s
        ELSE IF ~s1.ok THEN vm_unmap_n(s1, root, v, w - v)
        ELSE IF vm_is_mapped(s1, root, w) THEN Fail(vm_unmap_n(s1, root, v, w - v))
        ELSE IF ~s2.ok THEN vm_unmap_n(s2, root, w, w - v)
        ELSE s2

\* v is 0 when the kernel shall find a place.
syscall_mmap(a, v, n) ==
    LET at == IF v = 0 THEN vm_alloc_vaddr(Now, pml4[a], n) ELSE v IN
    /\ a \in Live /\ v + n < PageEnd
    /\ IF at = 0 THEN Ends(Fail(Now), pml4)
       ELSE Ends(FoldLeft(LAMBDA s, w : MmapPage(s, pml4[a], at, w), Now, PageRange(at, n)), pml4)

\* One turn of syscall_mtransfer's loop.
MtransferPage(s, dst, src, vd, vs, k) ==
    LET f  == FrameOf(s, src, vs + k)
        s1 == vm_map_page([s EXCEPT !.pm[f] = (@ + 1) % Width], dst, vd + k, f)
    IN  IF ~s.ok \/ s.panic # "none" THEN s
        ELSE IF f = 0 \/ vm_is_mapped(s, dst, vd + k) THEN Fail(vm_unmap_n(s, dst, vd, k))
        ELSE IF ~s1.ok THEN vm_unmap_n(s1, dst, vd, k)
        ELSE s1

\* Mutant: the pages stay in the source.
syscall_mtransfer_Keeps(d, a, vd, vs, n) ==
    /\ d \in Live /\ a \in Live \ {d} /\ vd + n <= PageEnd /\ vs + n <= PageEnd
    /\ Ends(FoldLeft(LAMBDA s, k : MtransferPage(s, pml4[d], pml4[a], vd, vs, k - 1),
                     Now, [k \in 1 .. n |-> k]), pml4)

\* Source and destination differ: with one space the second lock is never got.
syscall_mtransfer(d, a, vd, vs, n) ==
    LET s == FoldLeft(LAMBDA s, k : MtransferPage(s, pml4[d], pml4[a], vd, vs, k - 1),
                      Now, [k \in 1 .. n |-> k])
    IN  /\ d \in Live /\ a \in Live \ {d} /\ vd + n <= PageEnd /\ vs + n <= PageEnd
        /\ Ends(IF s.ok THEN vm_unmap_n(s, pml4[a], vs, n) ELSE s, pml4)

syscall_munmap(a, v, n) ==
    /\ a \in Live /\ v + n < PageEnd
    /\ IF \A w \in v .. v + n - 1 : vm_is_mapped(Now, pml4[a], w)
       THEN Ends(vm_unmap_n(Now, pml4[a], v, n), pml4)
       ELSE Ends(Fail(Now), pml4)

Next == /\ conf' = conf
        /\ \/ \E a \in AddrSpace : syscall_as_create(a) \/ syscall_as_destroy(a)
           \/ \E a, b \in AddrSpace : syscall_as_clone(a, b)
           \/ \E a \in AddrSpace, v \in Page \cup {0}, n \in PageCounts : syscall_mmap(a, v, n)
           \/ \E a \in AddrSpace, v \in Page, n \in PageCounts : syscall_munmap(a, v, n)
           \/ \E d, a \in AddrSpace, vd, vs \in Page, n \in PageCounts : syscall_mtransfer(d, a, vd, vs, n)

Spec == Init /\ [][Next]_vars

-----------------------------------------------------------------------------
(* Properties *)

TypeOK == /\ pm_map \in [Frame -> 0 .. Width - 1]
          /\ tab \in [Frame -> [Idx -> Frame]]
          /\ pml4 \in [AddrSpace -> Frame] /\ failed \in BOOLEAN /\ calls \in 0 .. MaxCalls

\* The mapping of a live space, and the tables on the way to its pages.
Mapping(a) == [v \in Page |-> FrameOf(Now, pml4[a], v)]
Entries(fs) == {<<f, x>> \in fs \X Idx : tab[f][x] # 0}
Targets(fs) == {tab[e[1]][e[2]] : e \in Entries(fs)}
Roots == {pml4[a] : a \in Live}
Tables == Roots \cup Targets(Roots) \cup Targets(Targets(Roots))

\* A frame that is a table of a live address space or that a page is mapped to is
\* not free: no allocation hands it out again, whatever was mapped, transferred,
\* cloned, unmapped and destroyed before.
\* Not so in the code, when a clone runs out of memory or after 255 transfers of one
\* page: see README, "Disagreements".
MappedIsCounted == panic = "none" => \A f \in Tables \cup Targets(Tables) : pm_map[f] # 0

\* Each table and each page is reached in one way only: no two address spaces, and no
\* two parts of one, share a table or a frame.  syscall_mtransfer moves pages and
\* syscall_as_clone copies them, so nothing the user asks for makes memory shared.
TablesAreTrees ==
    panic = "none" =>
        LET es == Entries(Tables) IN
        /\ \A d, e \in es : tab[d[1]][d[2]] = tab[e[1]][e[2]] => d = e
        /\ Roots \cap Targets(Tables) = {}
        /\ \A a, b \in Live : pml4[a] = pml4[b] => a = b

\* A call that returns an error has changed no mapping: rollbacks of syscall_mmap
\* and syscall_mtransfer remove what the call mapped and nothing else.
FailureChangesNoMapping ==
    [][(failed' /\ panic' = "none") =>
          \A a \in Live : pml4'[a] = pml4[a] /\ Mapping(a)' = Mapping(a)]_vars

\* A clone has the pages of its source, in frames of its own.
CloneIsCopy ==
    [][\A a, b \in AddrSpace :
          (syscall_as_clone(a, b) /\ ~failed') =>
             \A v \in Page : /\ Mapping(a)'[v] = 0 <=> Mapping(b)[v] = 0
                             /\ Mapping(b)'[v] = Mapping(b)[v]
                             /\ Mapping(a)'[v] # 0 => pm_map[Mapping(a)'[v]] = 0]_vars

\* vm_unmap_page only gets pages that are mapped: it has VERIFY "unmapping an
\* non-existing page".
\* Not so in the code: see README, "Disagreements".
UnmapsMappedPages == panic # "unmapping_an_non-existing_page"
=============================================================================
