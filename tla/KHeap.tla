------------------------------- MODULE KHeap -------------------------------
(***************************************************************************)
(* The kernel's heap, kernel/k_memory.c: a list of chunks, each a header    *)
(* and a body, that tile one page; first fit, split, and merge with free    *)
(* neighbours.  The unit is 32 bytes: the size of a header, of which sizes  *)
(* and addresses are multiples.  Every operation holds kheap_lock.          *)
(***************************************************************************)
EXTENDS Integers, Sequences, FiniteSetsExt

CONSTANTS PAGE,    \* KMEM_PAGE_SIZE
          Sizes,   \* sizes asked for
          Aligns,  \* alignments asked of kmem_alloc_aligned; powers of 2 from 32 bytes on
          NULL

VARIABLES chunks,   \* chunk_list in order: address of the header, size of the body, free
          frames,   \* whether pma_alloc would find a frame
          live,     \* blocks handed out, see Block
          copied,   \* of a kmem_realloc just made: size of the old chunk and of the new one
          stop      \* a failed VERIFY, or a mutex that is acquired by its owner

vars == <<chunks, frames, live, copied, stop>>

Chunk(a, n, f) == [addr |-> a, size |-> n, free |-> f]

\* A pointer, its size, the free_ptr in front of it, and whether it is from kmem_alloc.
Block(p, n, f, plain) == [ptr |-> p, size |-> n, free_ptr |-> f, plain |-> plain]

Init == /\ chunks = <<Chunk(0, PAGE - 1, TRUE)>>
        /\ frames \in BOOLEAN
        /\ live = {} /\ copied = <<0, 0>> /\ stop = "none"

\* Chunk k, allocated for n units: KHEAP_CHUNK_MIN_SIZE and a header are 2 units.
Split(cs, k, n) ==
    LET c == cs[k] IN
    IF c.size - n >= 2
    THEN SubSeq(cs, 1, k - 1)
         \o <<Chunk(c.addr, n, FALSE), Chunk(c.addr + 1 + n, c.size - n - 1, TRUE)>>
         \o SubSeq(cs, k + 1, Len(cs))
    ELSE [cs EXCEPT ![k].free = FALSE]

Fits(cs, n) == {k \in DOMAIN cs : cs[k].free /\ cs[k].size >= n}

\* kmem_alloc when a chunk fits: the list, and the pointer.
Allocated(cs, n) == Split(cs, Min(Fits(cs, n)), n)
AllocPtr(cs, n) == cs[Min(Fits(cs, n))].addr + 1

\* The outcome of the loop, all under vm_kern_table_lock: without a frame it rolls
\* back and returns NULL; with one it calls vm_kern_map_page, which takes the same
\* lock again.
vm_kern_alloc_anywhere == IF frames THEN "vm_kern_table_lock_acquired_by_its_owner" ELSE "none"

\* When no chunk fits; if it comes back, it has failed and kmem_alloc returns NULL.
kheap_expand ==
    /\ stop' = vm_kern_alloc_anywhere
    /\ copied' = <<0, 0>> /\ UNCHANGED <<chunks, frames, live>>

\* kmem_alloc and kmem_alloc_zeroed.
kmem_alloc(n) ==
    /\ stop = "none"
    /\ IF Fits(chunks, n) = {} THEN kheap_expand
       ELSE /\ chunks' = Allocated(chunks, n)
            /\ live' = live \cup {Block(AllocPtr(chunks, n), n, NULL, TRUE)}
            /\ copied' = <<0, 0>> /\ UNCHANGED <<frames, stop>>

AlignUp(p, align) == ((p + align - 1) \div align) * align

\* Mutant: room for the size alone.
kmem_alloc_aligned_NoRoom(n, align) ==
    /\ stop = "none" /\ Fits(chunks, n) # {}
    /\ LET p == AllocPtr(chunks, n)
           r == AlignUp(p, align)
       IN  live' = live \cup {Block(r, n, IF r = p THEN NULL ELSE p, FALSE)}
    /\ chunks' = Allocated(chunks, n)
    /\ copied' = <<0, 0>> /\ UNCHANGED <<frames, stop>>

\* The pointer to free is kept in front of a block that had to be moved.
kmem_alloc_aligned(n, align) ==
    /\ stop = "none"
    /\ IF Fits(chunks, n + align) = {} THEN kheap_expand
       ELSE LET p == AllocPtr(chunks, n + align)
                r == AlignUp(p, align)
            IN  /\ live' = live \cup {Block(r, n, IF r = p THEN NULL ELSE p, FALSE)}
                /\ chunks' = Allocated(chunks, n + align)
                /\ copied' = <<0, 0>> /\ UNCHANGED <<frames, stop>>

\* Chunk k becomes part of the chunk before it.
kheap_merge_chunk_into_prev(cs, k) ==
    SubSeq(cs, 1, k - 2) \o <<[cs[k - 1] EXCEPT !.size = @ + cs[k].size + 1]>>
        \o SubSeq(cs, k + 1, Len(cs))

\* Chunk k is freed and merged with its neighbours.
Merged(cs, k) ==
    LET marked == [cs EXCEPT ![k].free = TRUE]
        next   == IF k < Len(cs) /\ cs[k + 1].free
                  THEN kheap_merge_chunk_into_prev(marked, k + 1) ELSE marked
    IN  IF k > 1 /\ cs[k - 1].free THEN kheap_merge_chunk_into_prev(next, k) ELSE next

\* The chunk in front of a block's memory.
ChunkOf(cs, b) == {k \in DOMAIN cs :
                      cs[k].addr + 1 = IF b.free_ptr = NULL THEN b.ptr ELSE b.free_ptr}

\* Frees b in the list cs, with l the blocks that are live after.
Free(cs, b, l) ==
    IF \E k \in ChunkOf(cs, b) : ~cs[k].free
    THEN /\ \E k \in ChunkOf(cs, b) : chunks' = Merged(cs, k)
         /\ live' = l /\ UNCHANGED stop
    ELSE stop' = "invalid_free" /\ UNCHANGED <<chunks, live>>

kmem_free == /\ stop = "none"
             /\ \E b \in live : Free(chunks, b, live \ {b})
             /\ copied' = <<0, 0>> /\ UNCHANGED frames

\* kmem_try_realloc never succeeds, so the block is moved: its whole chunk is copied
\* to the new one.  The kernel's two callers double a table or grow it by a half.
kmem_realloc ==
    /\ stop = "none"
    /\ \E b \in {x \in live : x.plain} : \E n \in {b.size * 2, (b.size * 3) \div 2} :
         /\ n > b.size
         /\ IF Fits(chunks, n) = {} THEN kheap_expand
            ELSE LET cs  == Allocated(chunks, n)
                     new == Block(AllocPtr(chunks, n), n, NULL, TRUE)
                     Size(x) == cs[CHOOSE k \in ChunkOf(cs, x) : TRUE].size
                 IN  /\ copied' = <<Size(b), Size(new)>>
                     /\ Free(cs, b, (live \ {b}) \cup {new})
                     /\ UNCHANGED frames

\* Frames come and go.
OtherFrames == /\ stop = "none" /\ frames' = ~frames /\ copied' = <<0, 0>>
               /\ UNCHANGED <<chunks, live, stop>>

Next == \/ \E n \in Sizes : kmem_alloc(n) \/ \E align \in Aligns : kmem_alloc_aligned(n, align)
        \/ kmem_free \/ kmem_realloc \/ OtherFrames

Spec == Init /\ [][Next]_vars

-----------------------------------------------------------------------------
(* Properties *)

TypeOK == /\ \A k \in DOMAIN chunks : chunks[k] \in [addr : 0 .. PAGE, size : 0 .. PAGE, free : BOOLEAN]
          /\ \A b \in live : b.ptr \in 1 .. PAGE /\ b.size \in Nat
          /\ copied \in Nat \X Nat /\ stop \in STRING

\* The chunks tile the page in the order of the list, headers included, after every
\* split and merge; so merging neighbours in the list merges neighbours in memory.
ChunksTile == /\ chunks[1].addr = 0
              /\ \A k \in 1 .. Len(chunks) - 1 :
                     chunks[k + 1].addr = chunks[k].addr + 1 + chunks[k].size
              /\ chunks[Len(chunks)].addr + 1 + chunks[Len(chunks)].size = PAGE

\* No two neighbours are free, so what was freed can be used again as a whole.
FreeIsMerged == \A k \in 1 .. Len(chunks) - 1 : ~(chunks[k].free /\ chunks[k + 1].free)

\* Every block handed out is in the body of an allocated chunk, aligned blocks too;
\* different blocks are in different chunks, and an allocated chunk has a block.
BlocksAreApart ==
    LET InChunk(b, c) == ~c.free /\ c.addr + 1 <= b.ptr /\ b.ptr + b.size <= c.addr + 1 + c.size
        Allocs == {k \in DOMAIN chunks : ~chunks[k].free}
    IN  stop = "none" =>
            /\ \A b \in live : \E k \in ChunkOf(chunks, b) : InChunk(b, chunks[k])
            /\ \A a, b \in live : ChunkOf(chunks, a) = ChunkOf(chunks, b) => a = b
            /\ \A k \in Allocs : \E b \in live : ChunkOf(chunks, b) = {k}

\* kmem_free of a block that was handed out never stops with "invalid free".
FreeFindsChunk == stop # "invalid_free"

\* kmem_realloc, which copies as much as the old chunk holds, never writes past the
\* new one, for the growth its callers ask for.
CopyFits == copied[1] <= copied[2]

\* When "no chunk avaliable for request, expand head": kmem_alloc gets a chunk or
\* returns NULL, and does not stop in mutex_acquire.
\* Not so in the code: see README, "Disagreements".
ExpandComesBack == stop # "vm_kern_table_lock_acquired_by_its_owner"
=============================================================================
