------------------------------ MODULE Dlmalloc ------------------------------
(***************************************************************************)
(* The C library's allocator, osrt/c/dlmalloc.c, as dlmalloc_renzan.inc.h    *)
(* configures it: no locks, no MORECORE, no mremap, mspaces, errors abort.   *)
(* The unit is the word (SIZE_T_SIZE, 8 bytes): MALLOC_ALIGNMENT is 2,       *)
(* MIN_CHUNK_SIZE 4, CHUNK_OVERHEAD 1, chunk2mem adds 2.  Functions of the    *)
(* source are operators from an allocator's state m to the next; the field   *)
(* mem of the result is what they return (0: NULL).                          *)
(* A header is kept as long as it is that of a chunk, a prev_foot as long as *)
(* the chunk before is free: to read any other word stops TLC.               *)
(***************************************************************************)
EXTENDS Integers, Sequences, FiniteSets, FiniteSetsExt, SequencesExt

CONSTANTS PAGE,            \* page size
          GRANULARITY,     \* mparams.granularity
          MIN_LARGE,       \* MIN_LARGE_SIZE: chunks from here on are in trees
          TRIM_THRESHOLD, MAX_RELEASE_CHECK_RATE,
          MSTATE,          \* size of the chunk that holds an mspace's malloc_state
          MapReturns,      \* what map_page returns: "address", or "argument" as it does
          Configs          \* programs, as records of:
                           \*   NPAGES: pages 1 .. NPAGES can be mapped, all below MAX
                           \*   Taken: sets of pages that the program has mapped itself
                           \*   MMAP_THRESHOLD: what mparams.mmap_threshold is
                           \*   Kind: "global", "mspace", or "base" (create_mspace_with_base)
                           \*   Ops, Requests, Aligns, Limits: operations, and their arguments
                           \*   Fails: whether the system may refuse memory
                           \*   MaxLive: blocks in use at a time

VARIABLES conf,  \* the program
          m,     \* the malloc_state, its chunks, and the pages mapped
          live   \* blocks in use: address, size asked for, alignment asked for

vars == <<conf, m, live>>

NPAGES == conf.NPAGES
MMAP_THRESHOLD == conf.MMAP_THRESHOLD
Kind == conf.Kind
Requests == conf.Requests
Fails == conf.Fails

MAX == 255          \* MAX_SIZE_T: size_t has 8 bits here, and addresses are below it
MAX_REQUEST == MAX - 15
MFAIL == -1
SSIZE == 6          \* pad_request(sizeof(struct malloc_segment))
TOP_FOOT_SIZE == 10 \* SSIZE and four words
SYS_ALLOC_PADDING == 12

AlignUp(n, u) == ((n + u - 1) \div u) * u
granularity_align(n) == AlignUp(n, GRANULARITY)
request2size(r) == IF r < 3 THEN 4 ELSE AlignUp(r + 1, 2)
is_small(s) == s < MIN_LARGE

Pages(a, s) == a \div PAGE .. (a + s - 1) \div PAGE
Restrict1(f, S) == [x \in DOMAIN f \cap S |-> f[x]]

Segment(base, size, flag, at) == [base |-> base, size |-> size, flag |-> flag, at |-> at]
Holds(s, a) == s.base <= a /\ a < s.base + s.size
SegOf(s, a) == CHOOSE i \in DOMAIN s.segs : Holds(s.segs[i], a)

-----------------------------------------------------------------------------
(* The system.  MMAP takes the lowest free range; CALL_MUNMAP always counts  *)
(* as a success, and the kernel unmaps every page touched if all are mapped. *)

Room(s, n) == {b \in {PAGE * i : i \in 1 .. NPAGES} : Pages(b, n) \subseteq (1 .. NPAGES) \ s.sys}
Got(s, n) == ~s.oom /\ Room(s, n) # {}
Mapped(s, n) == IF Got(s, n) THEN [s EXCEPT !.sys = @ \cup Pages(Min(Room(s, n)), n)] ELSE s

\* What MMAP evaluates to.  map_page returns NULL if it fails, and its argument, NULL,
\* if it does not; dlmalloc asks for the address, and MFAIL for a failure.
MMAP(s, n) == IF MapReturns = "argument" THEN 0 ELSE IF Got(s, n) THEN Min(Room(s, n)) ELSE MFAIL

MUNMAP(s, a, n) == IF Pages(a, n) \subseteq s.sys THEN [s EXCEPT !.sys = @ \ Pages(a, n)] ELSE s

\* Headers and feet of a range that is given back.
Forget(s, a, n) == LET out == {x \in DOMAIN s.head \cup DOMAIN s.foot : x < a \/ x >= a + n} IN
                   [s EXCEPT !.head = Restrict1(@, out), !.foot = Restrict1(@, out)]

-----------------------------------------------------------------------------
(* Headers and bins.                                                         *)

\* Chunk p of n words; what was between its header and its end is no header any more.
Put(s, p, n, pin, cin) ==
    LET out == {x \in DOMAIN s.head \cup DOMAIN s.foot : x <= p \/ x >= p + n} \cup {p} IN
    [s EXCEPT !.head = [x \in (DOMAIN @ \cap out) \cup {p} |->
                           IF x = p THEN [size |-> n, p |-> pin, c |-> cin] ELSE @[x]],
              !.foot = Restrict1(@, out)]

pinuse(s, p) == p \in DOMAIN s.head /\ s.head[p].p
cinuse(s, p) == s.head[p].c
is_mmapped(s, p) == ~s.head[p].p /\ ~s.head[p].c
ok_inuse(s, p) == s.head[p].c \/ ~s.head[p].p

\* The bit of chunk n; n need not be a chunk yet when it is set.
SetPinuse(s, n, b) ==
    IF n \in DOMAIN s.head
    THEN [s EXCEPT !.head[n].p = b, !.foot = IF b THEN Restrict1(@, DOMAIN @ \ {n}) ELSE @]
    ELSE [s EXCEPT !.head = @ @@ (n :> [size |-> 0, p |-> b, c |-> FALSE])]

set_size_and_pinuse_of_inuse_chunk(s, p, n) == Put(s, p, n, TRUE, TRUE)
set_inuse_and_pinuse(s, p, n) == SetPinuse(Put(s, p, n, TRUE, TRUE), p + n, TRUE)
set_inuse(s, p, n) == SetPinuse(Put(s, p, n, pinuse(s, p), TRUE), p + n, TRUE)
set_size_and_pinuse_of_free_chunk(s, p, n) == [Put(s, p, n, TRUE, FALSE) EXCEPT !.foot = (p + n :> n) @@ @]
set_free_with_pinuse(s, p, n, next) ==
    set_size_and_pinuse_of_free_chunk(SetPinuse(s, next, FALSE), p, n)

\* Small chunks are taken last in first out, large ones of a size first in first out
\* (module DlTree).  Bits of smallmap and treemap say which bins are not empty.
Bin(s, n) == IF n \in DOMAIN s.bins THEN s.bins[n] ELSE <<>>
WithBin(s, n, q) == [s EXCEPT !.bins = IF q = <<>> THEN Restrict1(@, DOMAIN @ \ {n}) ELSE (n :> q) @@ @]
insert_small_chunk(s, p, n) == WithBin(s, n, <<p>> \o Bin(s, n))
insert_chunk(s, p, n) ==
    IF is_small(n) THEN insert_small_chunk(s, p, n) ELSE WithBin(s, n, Append(Bin(s, n), p))
unlink_chunk(s, p, n) == WithBin(s, n, SelectSeq(s.bins[n], LAMBDA x : x # p))

replace_dv(s, p, n) ==
    [(IF s.dvs # 0 THEN insert_chunk(s, s.dv, s.dvs) ELSE s) EXCEPT !.dv = p, !.dvs = n]

Ret(s, p) == [s EXCEPT !.mem = p + 2]
Null(s) == [s EXCEPT !.mem = 0]
ABORT(s) == [s EXCEPT !.bad = TRUE]

-----------------------------------------------------------------------------
(* Memory from the system.                                                   *)

\* max_footprint, which is only reported, is left out.
Grow(s, n) == [s EXCEPT !.fp = @ + n]
OverLimit(s, n) == s.limit # 0 /\ s.fp + n > s.limit
Least(s, a) == [s EXCEPT !.least = IF @ = 0 \/ a < @ THEN a ELSE @]

mmap_size(nb) == AlignUp(nb + 7, PAGE)  \* SIX_SIZE_T_SIZES and less than 2 words

\* The chunk at a, at the start of its region of n words: its foot is its offset there,
\* and a fencepost follows it.
DirectChunk(s, a, n) ==
    [Put(Put(s, a, n - 4, FALSE, FALSE), a + n - 4, 1, TRUE, TRUE) EXCEPT !.foot = (a :> 0) @@ @]

mmap_alloc(s, nb) ==
    LET n == mmap_size(nb)
        a == MMAP(s, n) IN
    IF OverLimit(s, n) \/ a = MFAIL THEN Null(s)
    ELSE Ret(DirectChunk(Least(Grow(Mapped(s, n), n), a), a, n), a)

\* There is no mremap: a block that cannot be kept is moved by the caller.
mmap_resize(s, p, nb) ==
    LET old == s.head[p].size IN
    IF ~is_small(nb) /\ old >= nb + 1 /\ old - nb <= 2 * GRANULARITY THEN Ret(s, p) ELSE Null(s)

init_top(s, p, n) ==
    [Put(Put(s, p, n, TRUE, FALSE), p + n, TOP_FOOT_SIZE, FALSE, FALSE)
        EXCEPT !.top = p, !.tops = n, !.trim = TRIM_THRESHOLD]

\* Top begins at p and has n words; it has no foot.
MoveTop(s, p, n) == [Put(s, p, n, TRUE, FALSE) EXCEPT !.top = p, !.tops = n]

\* q, in front of the first chunk that a segment had before, joins it if it is free.
Prepended(s, q, n, first) ==
    LET k == s.head[first].size IN
    IF first = s.top THEN MoveTop(s, q, s.tops + n)
    ELSE IF first = s.dv
    THEN [set_size_and_pinuse_of_free_chunk(s, q, s.dvs + n) EXCEPT !.dv = q, !.dvs = @ + n]
    ELSE IF cinuse(s, first) THEN insert_chunk(set_free_with_pinuse(s, q, n, first), q, n)
    ELSE insert_chunk(set_free_with_pinuse(unlink_chunk(s, first, k), q, n + k, first + k), q, n + k)

prepend_alloc(s, newbase, oldbase, nb) ==
    Ret(Prepended(set_size_and_pinuse_of_inuse_chunk(s, newbase, nb), newbase + nb, oldbase - newbase - nb, oldbase),
        newbase)

\* Mutant: too little of the old top becomes a free chunk all the same.
RecordAt_Always(s, end) == end - TOP_FOOT_SIZE

\* Where the record of the old segment goes: in front of its end, or in place of the
\* old top if that is too small to be a chunk.
RecordAt(s, end) == IF end - TOP_FOOT_SIZE < s.top + 4 THEN s.top ELSE end - TOP_FOOT_SIZE

Fences(s, first, end) ==
    [s EXCEPT !.head = [x \in DOMAIN @ \cup first .. end - 2 |->
                           IF x \in first .. end - 2 THEN [size |-> 1, p |-> TRUE, c |-> TRUE] ELSE @[x]]]

\* The record goes to sp, the old top up to sp into a bin.
PushRecord(s, top, sp, end) ==
    IF sp = top THEN Fences(set_size_and_pinuse_of_inuse_chunk(s, sp, SSIZE), sp + SSIZE, end)
    ELSE insert_chunk(set_free_with_pinuse(
                          Fences(set_size_and_pinuse_of_inuse_chunk(s, sp, SSIZE), sp + SSIZE, end),
                          top, sp - top, sp), top, sp - top)

add_segment(s, tbase, tsize) ==
    LET old == s.segs[SegOf(s, s.top)]
        end == old.base + old.size
        sp == RecordAt(s, end) IN
    [PushRecord(init_top(Forget(s, sp, end - sp), tbase, tsize - TOP_FOOT_SIZE), s.top, sp, end)
        EXCEPT !.segs = <<Segment(tbase, tsize, "mmap", 0)>> \o [@ EXCEPT ![1].at = sp + 2]]

SplitTop(s, nb) == Ret(set_size_and_pinuse_of_inuse_chunk(MoveTop(s, s.top + nb, s.tops - nb), s.top, nb), s.top)

\* Mutant: too little is asked for.
AskFor_NoPadding(nb) == granularity_align(nb)

AskFor(nb) == granularity_align(nb + SYS_ALLOC_PADDING)

Mergeable(g) == g.flag = "mmap"

\* After MMAP gave tbase: first use, append to top's segment, prepend, or a new segment.
NewSpace(s, tbase, tsize, nb) ==
    LET app == {i \in DOMAIN s.segs : s.segs[i].base + s.segs[i].size = tbase}
        pre == {i \in DOMAIN s.segs : s.segs[i].base = tbase + tsize} IN
    IF s.top = 0
    THEN init_top([Least(s, tbase) EXCEPT !.segs = <<Segment(tbase, tsize, "mmap", 0)>>,
                                          !.rel = MAX_RELEASE_CHECK_RATE],
                  tbase, tsize - TOP_FOOT_SIZE)
    ELSE IF app # {} /\ Mergeable(s.segs[Min(app)]) /\ Holds(s.segs[Min(app)], s.top)
    THEN init_top([s EXCEPT !.segs[Min(app)].size = @ + tsize], s.top, s.tops + tsize)
    ELSE IF pre # {} /\ Mergeable(s.segs[Min(pre)])
    THEN prepend_alloc([Least(s, tbase) EXCEPT !.segs[Min(pre)].base = tbase, !.segs[Min(pre)].size = @ + tsize],
                       tbase, s.segs[Min(pre)].base, nb)
    ELSE add_segment(Least(s, tbase), tbase, tsize)

\* s, the space being there; prepend_alloc has made the block already.
FromNew(s, nb) == IF s.mem # 0 THEN s ELSE IF nb < s.tops THEN SplitTop(s, nb) ELSE s

FromSystem(s, nb) ==
    LET asize == AskFor(nb)
        tbase == MMAP(s, asize) IN
    IF OverLimit(s, asize) \/ tbase = MFAIL THEN Null(s)
    ELSE FromNew(NewSpace(Null(Grow(Mapped(s, asize), asize)), tbase, asize, nb), nb)

OrElse(t, u) == IF t.mem # 0 \/ t.bad THEN t ELSE u

sys_alloc(s, nb) ==
    IF nb = MAX THEN Null(s)
    ELSE OrElse(IF s.mm /\ nb >= MMAP_THRESHOLD /\ s.tops # 0 THEN mmap_alloc(s, nb) ELSE Null(s),
                FromSystem(s, nb))

-----------------------------------------------------------------------------
(* Memory back to the system.                                                *)

\* Segment i, not the first, has no chunk in use but its record.
Unused(s, i) ==
    LET g == s.segs[i] IN
    /\ g.flag = "mmap" /\ ~cinuse(s, g.base)
    /\ g.base + s.head[g.base].size >= g.base + g.size - TOP_FOOT_SIZE

ReleaseSegment(s, i) ==
    LET g == s.segs[i]
        t == IF g.base = s.dv THEN [s EXCEPT !.dv = 0, !.dvs = 0]
             ELSE unlink_chunk(s, g.base, s.head[g.base].size) IN
    [Forget(MUNMAP(t, g.base, g.size), g.base, g.size) EXCEPT !.fp = @ - g.size, !.segs = RemoveAt(@, i)]

RECURSIVE ReleaseFrom(_, _)
ReleaseFrom(s, i) ==
    IF i > Len(s.segs) THEN s
    ELSE IF Unused(s, i) THEN ReleaseFrom(ReleaseSegment(s, i), i) ELSE ReleaseFrom(s, i + 1)

release_unused_segments(s) ==
    [ReleaseFrom(s, 2) EXCEPT !.rel = Max({Len(s.segs) - 1, MAX_RELEASE_CHECK_RATE})]

has_segment_link(s, g) == \E i \in DOMAIN s.segs : Holds(g, s.segs[i].at)

Extra(s, pad) == ((s.tops - pad + GRANULARITY - 1) \div GRANULARITY - 1) * GRANULARITY

Shortened(g, extra) == [g EXCEPT !.size = @ - extra]

\* The first half of sys_trim: top and its segment shrink by whole units.
ShrinkTop(s, pad) ==
    LET i == SegOf(s, s.top)
        g == s.segs[i]
        extra == Extra(s, pad)
        cut == g.base + g.size - extra IN
    IF s.tops > pad /\ g.flag = "mmap" /\ g.size >= extra /\ ~has_segment_link(s, g) /\ extra # 0
    THEN init_top([Forget(MUNMAP(s, cut, extra), cut, extra)
                       EXCEPT !.segs[i] = Shortened(@, extra), !.fp = @ - extra], s.top, s.tops - extra)
    ELSE s

\* t is s after trimming; if that did nothing it is not tried again.
Trimmed(s, t) == [t EXCEPT !.trim = IF t.fp = s.fp /\ t.tops > @ THEN MAX ELSE @]

sys_trim(s, pad) ==
    IF s.top = 0 THEN s ELSE Trimmed(s, release_unused_segments(ShrinkTop(s, pad + TOP_FOOT_SIZE)))

should_trim(s) == s.tops > s.trim

-----------------------------------------------------------------------------
(* malloc and free.                                                          *)

\* p with n words given out for nb: the rest becomes dv, or goes into a bin, or is
\* too small to be a chunk.
Take(s, p, n, nb, rest) ==
    LET Keep(t, r, k) == IF rest = "dv" THEN replace_dv(t, r, k) ELSE insert_chunk(t, r, k) IN
    Ret(IF n - nb < 4 THEN set_inuse_and_pinuse(s, p, n)
        ELSE Keep(set_size_and_pinuse_of_free_chunk(set_size_and_pinuse_of_inuse_chunk(s, p, nb), p + nb, n - nb),
                  p + nb, n - nb), p)

TakeFrom(s, n, nb, rest) == LET p == Head(s.bins[n]) IN Take(unlink_chunk(s, p, n), p, n, nb, rest)

Fitting(s, nb) == {n \in DOMAIN s.bins : n >= nb}

\* module DlTree: the best fit.  dv is used if it fits no worse.
tmalloc_large(s, nb) ==
    LET n == Min(Fitting(s, nb)) IN
    IF Fitting(s, nb) # {} /\ (s.dvs < nb \/ n < s.dvs) THEN TakeFrom(s, n, nb, "bin") ELSE Null(s)

SplitsDv(s, nb) == s.dvs - nb >= 4

FromDv(s, nb) ==
    IF SplitsDv(s, nb)
    THEN Ret([set_size_and_pinuse_of_free_chunk(set_size_and_pinuse_of_inuse_chunk(s, s.dv, nb),
                                                s.dv + nb, s.dvs - nb)
                EXCEPT !.dv = @ + nb, !.dvs = @ - nb], s.dv)
    ELSE Ret([set_inuse_and_pinuse(s, s.dv, s.dvs) EXCEPT !.dv = 0, !.dvs = 0], s.dv)

\* A small request: an exact fit (sizes are even, so the next of the two bins that are
\* tried is always empty), else the next small bin, else the least large chunk, the
\* last two only if dv does not do.
dlmalloc(s, bytes) ==
    LET nb == IF bytes >= MAX_REQUEST THEN MAX ELSE request2size(bytes)
        small == bytes <= MIN_LARGE - 3 IN
    IF small /\ (Bin(s, nb) # <<>> \/ (nb > s.dvs /\ Fitting(s, nb) # {}))
    THEN TakeFrom(s, Min(Fitting(s, nb)), nb, "dv")
    ELSE OrElse(IF ~small /\ nb # MAX THEN tmalloc_large(s, nb) ELSE Null(s),
                IF nb <= s.dvs THEN FromDv(s, nb)
                ELSE IF nb < s.tops THEN SplitTop(s, nb)
                ELSE sys_alloc(s, nb))

UnmapChunk(s, p, n) ==
    LET a == p - s.foot[p]
        k == n + s.foot[p] + 4 IN
    [Forget(MUNMAP(s, a, k), a, k) EXCEPT !.fp = @ - k, !.how = "mmap"]

IsDv(s, p) == p = s.dv

\* p of n words was made free: it stays dv, or goes into a bin.  how: what became of it; at: its size.
Settle(s, p, n) == IF IsDv(s, p) THEN [s EXCEPT !.dvs = n]
                   ELSE [insert_chunk(s, p, n) EXCEPT !.how = "bin", !.at = n]

\* p of n words, in no bin, joins what follows it.
MergeForward(s, p, n, next) ==
    LET k == s.head[next].size IN
    IF cinuse(s, next) THEN Settle(set_free_with_pinuse(s, p, n, next), p, n)
    ELSE IF next = s.top
    THEN [MoveTop(IF p = s.dv THEN [s EXCEPT !.dv = 0, !.dvs = 0] ELSE s, p, s.tops + n) EXCEPT !.how = "top"]
    ELSE IF next = s.dv
    THEN [set_size_and_pinuse_of_free_chunk(s, p, s.dvs + n) EXCEPT !.dv = p, !.dvs = @ + n]
    ELSE Settle(set_size_and_pinuse_of_free_chunk(unlink_chunk(s, next, k), p, n + k), p, n + k)

OutOfBin(s, p, n) == IF p = s.dv THEN s ELSE unlink_chunk(s, p, n)

\* p of n words, free: what is before it and what follows it are joined to it.
dispose_chunk(s, p, n) ==
    LET k == IF pinuse(s, p) THEN 0 ELSE s.foot[p] IN
    IF is_mmapped(s, p) THEN UnmapChunk(s, p, n)
    ELSE IF p - k < s.least THEN ABORT(s)
    ELSE MergeForward([(IF k = 0 THEN s ELSE OutOfBin(s, p - k, k)) EXCEPT !.how = "dv"], p - k, n + k, p + n)

\* After a chunk was freed.
Tidy(s) ==
    IF s.how = "top" /\ should_trim(s) THEN sys_trim(s, 0)
    ELSE IF s.how = "bin" /\ ~is_small(s.at)
    THEN IF s.rel = 1 THEN release_unused_segments(s) ELSE [s EXCEPT !.rel = @ - 1]
    ELSE s

\* The same as dispose_chunk, with checks before and trimming after it.
dlfree(s, mem) ==
    LET p == mem - 2 IN
    IF mem = 0 THEN s
    ELSE IF p < s.least \/ ~ok_inuse(s, p) \/ (~is_mmapped(s, p) /\ ~pinuse(s, p + s.head[p].size)) THEN ABORT(s)
    ELSE Tidy(dispose_chunk(s, p, s.head[p].size))

-----------------------------------------------------------------------------
(* realloc, memalign, arrays of blocks.                                      *)

SplitsOff(n, nb) == n - nb >= 4

\* p in use with n words, of which nb are kept.
SplitOff(s, p, n, nb) ==
    IF SplitsOff(n, nb) THEN dispose_chunk(set_inuse(set_inuse(s, p, nb), p + nb, n - nb), p + nb, n - nb)
    ELSE set_inuse(s, p, n)

try_realloc_chunk(s, p, nb) ==
    LET n == s.head[p].size
        next == p + n
        k == s.head[next].size
        rest == n + s.dvs - nb IN
    IF p < s.least \/ ~ok_inuse(s, p) \/ ~pinuse(s, next) THEN Null(ABORT(s))
    ELSE IF is_mmapped(s, p) THEN mmap_resize(s, p, nb)
    ELSE IF n < nb /\ next = s.top
    THEN IF n + s.tops > nb THEN Ret(MoveTop(set_inuse(s, p, nb), p + nb, n + s.tops - nb), p) ELSE Null(s)
    ELSE IF n < nb /\ next = s.dv
    THEN IF rest >= 4
         THEN Ret([SetPinuse(set_size_and_pinuse_of_free_chunk(set_inuse(s, p, nb), p + nb, rest),
                             p + nb + rest, FALSE) EXCEPT !.dv = p + nb, !.dvs = rest], p)
         ELSE IF rest >= 0 THEN Ret([set_inuse(s, p, n + s.dvs) EXCEPT !.dv = 0, !.dvs = 0], p)
         ELSE Null(s)
    ELSE IF n >= nb \/ (~cinuse(s, next) /\ n + k >= nb)
    THEN Ret(SplitOff(IF n >= nb THEN s ELSE unlink_chunk(s, next, k), p, IF n >= nb THEN n ELSE n + k, nb), p)
    ELSE Null(s)

\* The operations of an mspace are those of the global space, on its own malloc_state.
mspace_malloc(s, bytes) == dlmalloc(s, bytes)
mspace_free(s, mem) == dlfree(s, mem)
internal_malloc(s, bytes) == mspace_malloc(s, bytes)
internal_free(s, mem) == mspace_free(s, mem)

\* The old block is freed when it has been copied.
dlrealloc(s, mem, bytes) ==
    LET Move(u) == IF u.mem = 0 THEN u ELSE [internal_free(u, mem) EXCEPT !.mem = u.mem] IN
    IF bytes >= MAX_REQUEST THEN Null(s)
    ELSE OrElse(try_realloc_chunk(s, mem - 2, request2size(bytes)), Move(internal_malloc(s, bytes)))

dlrealloc_in_place(s, mem, bytes) ==
    IF bytes >= MAX_REQUEST THEN Null(s) ELSE try_realloc_chunk(s, mem - 2, request2size(bytes))

mspace_realloc(s, mem, bytes) == dlrealloc(s, mem, bytes)
mspace_realloc_in_place(s, mem, bytes) == dlrealloc_in_place(s, mem, bytes)

\* A place for an aligned chunk after p, with room for a chunk before it.
AlignedSpot(p, al) ==
    LET br == AlignUp(p + 2, al) - 2 IN IF br - p >= 4 THEN br ELSE br + al

\* p given up to q, where the aligned block is.
GiveLeader(s, p, q) ==
    LET n == s.head[p].size - (q - p) IN
    IF p = q THEN s
    ELSE IF is_mmapped(s, p)
    THEN [Put(Forget(s, p, q - p), q, n, FALSE, FALSE) EXCEPT !.foot = (q :> s.foot[p] + q - p) @@ @]
    ELSE dispose_chunk(set_inuse(set_inuse(s, q, n), p, q - p), p, q - p)

\* What is too much at the end of q is given back.
GiveRest(s, q, nb) ==
    LET n == s.head[q].size IN
    Ret(IF ~is_mmapped(s, q) /\ n > nb + 4 THEN SplitOff(s, q, n, nb) ELSE s, q)

\* s holds a block large enough for an aligned one.
AlignBlock(s, al, nb) ==
    LET p == s.mem - 2
        q == IF s.mem % al = 0 THEN p ELSE AlignedSpot(p, al) IN
    IF s.mem = 0 THEN s ELSE GiveRest(GiveLeader(s, p, q), q, nb)

\* alignment is a power of two.
internal_memalign(s, alignment, bytes) ==
    LET al == Max({alignment, 4})
        nb == request2size(bytes) IN
    IF bytes >= MAX_REQUEST - al THEN Null(s) ELSE AlignBlock(internal_malloc(s, nb + al + 4 - 1), al, nb)

dlmemalign(s, alignment, bytes) ==
    IF alignment <= 2 THEN internal_malloc(s, bytes) ELSE internal_memalign(s, alignment, bytes)
dlpvalloc(s, bytes) == dlmemalign(s, PAGE, AlignUp(bytes, PAGE))
mspace_memalign(s, alignment, bytes) == dlmemalign(s, alignment, bytes)

\* p, with n words left, cut into chunks of the sizes; the last one takes what is left.
RECURSIVE CutUp(_, _, _, _)
CutUp(s, p, n, sizes) ==
    LET k == request2size(Head(sizes)) IN
    IF Len(sizes) = 1 THEN [set_size_and_pinuse_of_inuse_chunk(s, p, n) EXCEPT !.arr = Append(@, p + 2)]
    ELSE CutUp([set_size_and_pinuse_of_inuse_chunk(s, p, k) EXCEPT !.arr = Append(@, p + 2)],
               p + k, n - k, Tail(sizes))

NoMmap(s) == [s EXCEPT !.mm = FALSE]

\* s holds a block for the elements and, unless it was given, the array of pointers,
\* which comes last.
CutBlock(s, sizes, contents, given) ==
    LET p == s.mem - 2
        n == s.head[p].size IN
    IF s.mem = 0 THEN s
    ELSE IF is_mmapped(s, p) THEN ABORT(s)
    ELSE IF given THEN CutUp(s, p, n, sizes)
    ELSE [CutUp(set_size_and_pinuse_of_inuse_chunk(s, p + contents, n - contents), p, contents, sizes)
            EXCEPT !.arr = Append(@, p + contents + 2)]

\* The blocks are in arr.
ialloc(s, sizes, given) ==
    LET contents == FoldLeft(LAMBDA a, r : a + request2size(r), 0, sizes)
        array == IF given THEN 0 ELSE request2size(Len(sizes)) IN
    CutBlock([internal_malloc(NoMmap(s), contents + array - 1) EXCEPT !.mm = s.mm], sizes, contents, given)

\* A block that is followed by the next of the array is joined to it first.
RECURSIVE FreeEach(_, _)
FreeEach(s, array) ==
    LET mem == Head(array)
        p == mem - 2
        n == s.head[p].size
        next == p + n IN
    IF array = <<>> THEN s
    ELSE IF p < s.least \/ ~ok_inuse(s, p) THEN ABORT(s)
    ELSE IF Len(array) > 1 /\ array[2] = next + 2
    THEN FreeEach(set_inuse(s, p, n + s.head[next].size), <<mem>> \o Tail(Tail(array)))
    ELSE FreeEach(dispose_chunk(s, p, n), Tail(array))

internal_bulk_free(s, array) ==
    LET Trimmed1(t) == IF should_trim(t) THEN sys_trim(t, 0) ELSE t IN Trimmed1(FreeEach(s, array))

\* bytes = 0 is to give one unit, but the second test sets result again: 0, no limit.
dlmalloc_set_footprint_limit(s, bytes) ==
    [s EXCEPT !.limit = IF bytes = MAX THEN 0 ELSE granularity_align(bytes)]

-----------------------------------------------------------------------------
(* mspaces.                                                                  *)

Zero(sys) == [head |-> <<>>, foot |-> <<>>, bins |-> <<>>, dv |-> 0, dvs |-> 0, top |-> 0, tops |-> 0,
              segs |-> <<>>, fp |-> 0, limit |-> 0, trim |-> 0, rel |-> 0, mm |-> TRUE,
              least |-> 0, sys |-> sys, oom |-> FALSE, mem |-> 0, arr |-> <<>>, how |-> "", at |-> 0,
              bad |-> FALSE]

\* The malloc_state is in a chunk of its own that is never freed.
init_user_mstate(s, tbase, tsize, flag) ==
    init_top([set_size_and_pinuse_of_inuse_chunk(Zero(s.sys), tbase, MSTATE)
                EXCEPT !.segs = <<Segment(tbase, tsize, flag, 0)>>, !.least = tbase, !.fp = tsize,
                       !.rel = MAX_RELEASE_CHECK_RATE],
             tbase + MSTATE, tsize - MSTATE - TOP_FOOT_SIZE)

create_mspace(s, capacity) ==
    LET n == granularity_align(IF capacity = 0 THEN GRANULARITY ELSE capacity + TOP_FOOT_SIZE + MSTATE)
        a == MMAP(s, n) IN
    IF a = MFAIL THEN s ELSE init_user_mstate(Mapped(s, n), a, n, "mmap")

create_mspace_with_base(s, base, capacity) ==
    IF capacity > MSTATE + TOP_FOOT_SIZE THEN init_user_mstate(s, base, capacity, "extern") ELSE s

mspace_track_large_chunks(s, enable) == [s EXCEPT !.mm = ~enable]

\* Every record is read before the segment it is in is unmapped.
destroy_mspace(s) ==
    Zero(s.sys \ UNION {Pages(s.segs[i].base, s.segs[i].size) : i \in {k \in DOMAIN s.segs : s.segs[k].flag = "mmap"}})

\* The size dlcalloc asks for; 16 stands for 0xffff + 1, the square of which wraps.
calloc_request(n, e) ==
    LET req == (n * e) % (MAX + 1) IN
    IF n = 0 THEN 0 ELSE IF (n >= 16 \/ e >= 16) /\ req \div n # e THEN MAX ELSE req

dlcalloc(s, n, e) == internal_malloc(s, calloc_request(n, e))

-----------------------------------------------------------------------------
Ready == Kind = "global" \/ m.top # 0
Try(op) == /\ op \in conf.Ops /\ Ready /\ ~m.bad
With(fail) == [m EXCEPT !.oom = fail]
Done(t) == m' = [t EXCEPT !.oom = FALSE, !.mem = 0, !.arr = <<>>, !.how = "", !.at = 0]
Block(mem, r, al) == IF mem = 0 THEN {} ELSE {[mem |-> mem, size |-> r, al |-> al]}

Init == conf \in Configs /\ \E t \in conf.Taken : m = Zero(t) /\ live = {}

\* t is the state after an allocation of r words.
Allocate(t, r, al) == Done(t) /\ live' = live \cup Block(t.mem, r, al)

Malloc(r, fail) ==
    Try("malloc") /\ Cardinality(live) < conf.MaxLive /\ Allocate(internal_malloc(With(fail), r), r, 2)

Calloc(n, e, fail) ==
    Try("calloc") /\ Cardinality(live) < conf.MaxLive /\ Allocate(dlcalloc(With(fail), n, e), n * e, 2)

Free(b) == Try("free") /\ Done(internal_free(m, b.mem)) /\ live' = live \ {b}

\* t is the state after block b was to be given r words.
Resize(t, b, new) == Done(t) /\ live' = IF t.mem = 0 THEN live ELSE (live \ {b}) \cup Block(t.mem, new.size, new.al)

Realloc(b, r, fail) ==
    Try("realloc") /\ Resize(mspace_realloc(With(fail), b.mem, r), b, [size |-> r, al |-> 2])

ReallocInPlace(b, r) ==
    Try("realloc_in_place") /\ Resize(mspace_realloc_in_place(m, b.mem, r), b, [size |-> r, al |-> b.al])

Memalign(al, r, fail) ==
    Try("memalign") /\ Cardinality(live) < conf.MaxLive /\ Allocate(mspace_memalign(With(fail), al, r), r, al)

Pvalloc(r, fail) ==
    Try("pvalloc") /\ Cardinality(live) < conf.MaxLive /\ Allocate(dlpvalloc(With(fail), r), AlignUp(r, PAGE), PAGE)

\* t is the state after blocks of the sizes were asked for together.
AllocateAll(t, sizes) ==
    Done(t) /\ live' = live \cup UNION {Block(t.arr[i], sizes[i], 2) : i \in DOMAIN t.arr}

\* independent_calloc if the sizes are equal, independent_comalloc.
Independent(sizes, given, fail) ==
    /\ Try("independent") /\ Cardinality(live) < conf.MaxLive
    /\ AllocateAll(ialloc(With(fail), sizes, given), IF given THEN sizes ELSE Append(sizes, Len(sizes)))

BulkFree(x, y) ==
    /\ Try("bulk_free") /\ Done(internal_bulk_free(m, <<x.mem, y.mem>>)) /\ live' = live \ {x, y}

Trim(pad) == Try("trim") /\ Done(sys_trim(m, pad)) /\ UNCHANGED live

SetLimit(bytes) == Try("limit") /\ Done(dlmalloc_set_footprint_limit(m, bytes)) /\ UNCHANGED live

Create(capacity, fail) ==
    /\ Kind = "mspace" /\ m.top = 0 /\ Done(create_mspace(With(fail), capacity)) /\ UNCHANGED live

CreateWithBase(base, capacity) ==
    /\ Kind = "base" /\ m.top = 0 /\ Pages(base, capacity) \subseteq m.sys
    /\ Done(create_mspace_with_base(m, base, capacity)) /\ UNCHANGED live

TrackLarge(enable) == Try("track") /\ Done(mspace_track_large_chunks(m, enable)) /\ UNCHANGED live

Destroy == Kind # "global" /\ Try("destroy") /\ Done(destroy_mspace(m)) /\ live' = {}

Next == /\ conf' = conf
        /\ \/ \E r \in Requests, fail \in Fails : Malloc(r, fail)
           \/ \E r \in Requests, fail \in Fails : Calloc(2, r, fail)
           \/ \E b \in live : Free(b)
           \/ \E b \in live, r \in Requests, fail \in Fails : Realloc(b, r, fail)
           \/ \E b \in live, r \in Requests : ReallocInPlace(b, r)
           \/ \E al \in conf.Aligns, r \in Requests, fail \in Fails : Memalign(al, r, fail)
           \/ \E r \in Requests, fail \in Fails : Pvalloc(r, fail)
           \/ \E x, y \in Requests, given \in BOOLEAN, fail \in Fails : Independent(<<x, y>>, given, fail)
           \/ \E x, y \in live : x # y /\ BulkFree(x, y)
           \/ Trim(0)
           \/ \E bytes \in conf.Limits : SetLimit(bytes)
           \/ \E capacity \in {0} \cup Requests, fail \in Fails : Create(capacity, fail)
           \/ \E page \in m.sys, capacity \in Requests : CreateWithBase(page * PAGE, capacity)
           \/ \E enable \in BOOLEAN : TrackLarge(enable)
           \/ Destroy

Spec == Init /\ [][Next]_vars

-----------------------------------------------------------------------------
Fence(h) == h.size = 1
ChunksOf(g) == {a \in DOMAIN m.head : Holds(g, a)}
Binned == UNION {ToSet(m.bins[n]) : n \in DOMAIN m.bins}
FreeChunks == {a \in DOMAIN m.head : m.head[a].p /\ ~m.head[a].c /\ a # m.top}
Direct == {a \in DOMAIN m.head : is_mmapped(m, a) /\ m.head[a].size # TOP_FOOT_SIZE}

\* The chunk before next, and its bits and foot.
do_check_chunk(a) ==
    LET h == m.head[a]
        next == a + h.size IN
    /\ next \in DOMAIN m.head /\ h.size >= (IF a = m.top THEN 2 ELSE 4)
    /\ m.head[next].p = h.c
    /\ \A x \in DOMAIN m.head : ~(a < x /\ x < next)

do_check_free_chunk(a) ==
    LET next == a + m.head[a].size IN
    /\ m.foot[next] = m.head[a].size
    /\ next = m.top \/ cinuse(m, next)
    /\ IF a = m.dv THEN m.dvs = m.head[a].size ELSE m.head[a].size \in DOMAIN m.bins /\ a \in ToSet(Bin(m, m.head[a].size))

do_check_top_chunk ==
    LET g == m.segs[SegOf(m, m.top)] IN
    /\ m.head[m.top].size = m.tops /\ pinuse(m, m.top)
    /\ m.top + m.tops = g.base + g.size - TOP_FOOT_SIZE

traverse_and_check(g) ==
    /\ g.base \in DOMAIN m.head
    /\ \A a \in ChunksOf(g) : LET h == m.head[a] IN
          (~Fence(h) /\ ~is_mmapped(m, a)) => do_check_chunk(a)

\* What do_check_malloc_state asserts (dlmalloc.c:3218-3455): chunks tile each segment
\* up to top's end or the fenceposts, PINUSE_BIT tells the state of the chunk before,
\* no two free chunks are adjacent, and bins and dv hold exactly the free chunks.
HeapIsChecked ==
    m.top # 0 =>
        /\ do_check_top_chunk
        /\ \A i \in DOMAIN m.segs : traverse_and_check(m.segs[i])
        /\ \A a \in FreeChunks : do_check_free_chunk(a)
        /\ Binned \cup ({m.dv} \ {0}) = FreeChunks

\* Fields have their types: sizes and addresses are in the 8 bits.
TypeOK ==
    /\ m.fp \in 0 .. MAX /\ m.tops \in 0 .. MAX /\ m.dvs \in 0 .. MAX
    /\ m.sys \subseteq 1 .. NPAGES /\ m.rel \in 0 .. MAX /\ m.trim \in {0, TRIM_THRESHOLD, MAX}
    /\ \A b \in live : b.mem \in 2 .. MAX /\ b.size \in 0 .. MAX

\* Every block in use is in a chunk in use of its own that has room for it and is
\* aligned as asked (dlmalloc.c:4953-4954), whatever was done since it was handed out.
BlocksAreMine ==
    \A b \in live :
        LET p == b.mem - 2 IN
        /\ p \in DOMAIN m.head /\ b.mem % b.al = 0
        /\ IF is_mmapped(m, p) THEN m.head[p].size - 2 >= b.size
           ELSE /\ cinuse(m, p) /\ m.head[p].size - 1 >= b.size
                /\ \E i \in DOMAIN m.segs : Holds(m.segs[i], p) /\ m.segs[i].at # b.mem

\* All memory of the heap is mapped, and by the heap: no two of its regions share a page.
\* Not so in the code, if MapReturns is "argument" or if GRANULARITY is below PAGE: see
\* README, "Disagreements".
HeapIsMapped ==
    LET regions == {Pages(m.segs[i].base, m.segs[i].size) : i \in DOMAIN m.segs}
                   \cup {Pages(a - m.foot[a], m.foot[a] + m.head[a].size + 4) : a \in Direct} IN
    /\ \A r \in regions : r \subseteq m.sys
    /\ \A r, q \in regions : r # q => r \cap q = {}
    /\ Cardinality(regions) = Len(m.segs) + Cardinality(Direct)

\* footprint is the memory obtained from the system and not returned
\* (dlmalloc.c:967-979), over segments that grow, shrink and are released, and
\* directly mapped chunks that were moved to an aligned place.
FootprintIsExact ==
    m.fp = FoldSet(LAMBDA i, t : t + m.segs[i].size, 0, DOMAIN m.segs)
           + FoldSet(LAMBDA a, t : t + m.foot[a] + m.head[a].size + 4, 0, Direct)

\* Programs that only free what they were given, once, never meet ABORT.
NoAbort == ~m.bad

\* When the system gives memory, the request that asked for it succeeds: what
\* sys_alloc adds to it is enough (dlmalloc.c:4076-4079).
PaddingSuffices == [][m'.sys \subseteq m.sys \/ live' # live \/ ~Ready]_vars

\* The heap never grows beyond the limit in force, by a segment or a direct mapping
\* (dlmalloc.c:1006-1010).
LimitIsKept == [][m'.fp > m.fp /\ Ready => m.limit = 0 \/ m'.fp <= m.limit]_vars

\* destroy_mspace returns all that spaces at a base have obtained, and only that, unless
\* chunks are mapped directly (dlmalloc.c:1290-1293).
DestroyReturnsAll == [][Destroy /\ Kind = "base" /\ Direct = {} => m'.sys \in conf.Taken]_vars

\* When nothing is in use and the heap has been trimmed, it keeps no segment but that
\* of top: "Unmap and unlink any mmapped segments that don't contain used chunks"
\* (dlmalloc.c:4246).
\* Not so in the code: see README, "Disagreements".
UnusedAreReleased == [][Trim(0) /\ live = {} /\ m.top # 0 => Len(m'.segs) = 1]_vars

\* "Use minimal size" (dlmalloc.c:5359): a limit of 0 bytes allows one unit at most.
\* Not so in the code: see README, "Disagreements".
ZeroIsALimit == [][SetLimit(0) => m'.limit # 0]_vars

\* "space in mmapped regions" (dlmalloc.c:772): what internal_mallinfo leaves over from
\* footprint after the chunks of all segments.
internal_mallinfo_hblkhd ==
    LET in(g) == FoldSet(LAMBDA a, t : t + m.head[a].size, 0, {a \in ChunksOf(g) : ~Fence(m.head[a])}) IN
    m.fp - FoldSet(LAMBDA i, t : t + in(m.segs[i]), 0, DOMAIN m.segs)

\* hblkhd is the sum of the regions mapped directly.
\* Not so in the code: see README, "Disagreements".
HblkhdIsMapped ==
    m.top # 0 => internal_mallinfo_hblkhd
                 = FoldSet(LAMBDA a, t : t + m.foot[a] + m.head[a].size + 4, 0, Direct)
=============================================================================
