------------------------------- MODULE MCLibc ------------------------------
(***************************************************************************)
(* The C library for TLC: the trees of the allocator (DlTree), the          *)
(* allocator (Dlmalloc), functions on strings (Strings), printf (Format)    *)
(* and the functions called at exit (AtExit).  The modules share no state;  *)
(* as in MCMemory, one of them moves and the others stay as they begin.     *)
(***************************************************************************)
EXTENDS Integers, Sequences

CONSTANTS Moving,   \* the modules of which one moves
          MapReturns,  \* what map_page returns
          NULL, BIN, None, Star

VARIABLES moves,
          root, node, age,                                                      \* DlTree
          conf, m, live,                                                        \* Dlmalloc
          mem, str_ret, saved, call, before, last, calls,                       \* Strings
          fmt, args, n, pass, fmt_i, cnt, ap, used, sent, buf, fmt_ret,         \* Format
          table, size, count, heap, reg, phase, i, ran, way, overrun            \* AtExit

\* Sizes that share bins, tree nodes and paths; bins of both halves.
Chunks == 1 .. 5
Sizes  == {16, 18, 19, 22, 24, 33}
DlTree == INSTANCE DlTree WITH WIDTH <- 6, TREEBIN_SHIFT <- 2, NTREEBINS <- 6

\* Programs: small and large blocks with a page of the program's between them; blocks
\* that are resized and aligned; arrays; an mspace with a limit; an mspace at a base.
Program == [NPAGES |-> 4, Taken |-> {{2}}, MMAP_THRESHOLD |-> 48, Kind |-> "global",
            Ops |-> {"malloc", "free"}, Requests |-> {3}, Aligns |-> {}, Limits |-> {},
            Fails |-> {FALSE}, MaxLive |-> 2]
Heap   == [Program EXCEPT !.Taken = {{}, {2}}, !.Ops = @ \cup {"trim"}, !.Requests = {3, 19}, !.MaxLive = 3]
Resize == [Program EXCEPT !.NPAGES = 3, !.Taken = {{}}, !.MMAP_THRESHOLD = 24, !.Requests = {3, 14},
                          !.Ops = @ \cup {"realloc", "memalign", "pvalloc"}, !.Aligns = {2, 8}]
Arrays == [Program EXCEPT !.Taken = {{}}, !.MMAP_THRESHOLD = 24, !.Requests = {3, 20},
                          !.Ops = {"free", "independent", "bulk_free"}]
Mspace == [Program EXCEPT !.Kind = "mspace", !.Requests = {3, 24, 129}, !.Limits = {40, 255},
                          !.Ops = @ \cup {"calloc", "track", "limit", "destroy"}, !.Fails = BOOLEAN]
Base   == [Program EXCEPT !.Kind = "base", !.Requests = {3, 32},
                          !.Ops = @ \cup {"realloc_in_place", "trim", "destroy"}]
Configs == {Heap, Resize, Arrays, Mspace, Base}
Dlmalloc == INSTANCE Dlmalloc WITH PAGE <- 32, GRANULARITY <- 32, MIN_LARGE <- 8, TRIM_THRESHOLD <- 32,
                                   MAX_RELEASE_CHECK_RATE <- 3, MSTATE <- 6

\* Strings of up to four characters anywhere in five cells, with overlaps.
Byte == {0, 1, 2}
Ops  == {"memcpy", "memmove", "memset", "strcpy", "strncpy", "strcat", "memcmp", "strcmp", "memchr",
         "strchr", "strcspn", "strspn", "strpbrk", "strrchr", "strstr", "strtok",
         "kstrlen", "kstrequ", "kstrcpy", "kmemmov"}
Strings == INSTANCE Strings WITH N <- 5, Calls <- 2, ret <- str_ret

\* Formats of up to two directives, or three of which two have positions.
Dir(k, t, fl, w, p, pos) == [k |-> k, t |-> t, fl |-> fl, w |-> w, p |-> p, pos |-> pos, n |-> 0]
TextOf(k) == [Dir("text", 10, {}, 0, None, 0) EXCEPT !.n = k]
Number == {Dir("num", 10, fl, w, p, 0) : fl \in SUBSET {"-", "0", "+"}, w \in {0, 3, -1}, p \in {None, -1, 0, 2}}
          \cup {Dir("num", t, {"#"}, 2, None, 0) : t \in {8, 16}}
          \cup {Dir("num", 10, {" ", "0"}, Star, None, 0)}
Others == {TextOf(1), TextOf(4), Dir("chr", 10, {"0"}, 2, None, 0), Dir("str", 10, {}, 0, None, 0),
           Dir("str", 10, {"-"}, 3, None, 0), Dir("str", 10, {}, 0, 2, 0), Dir("n", 10, {}, 0, None, 0),
           Dir("fp", 10, {}, 0, None, 0), Dir("bad", 10, {}, 0, None, 0)}
At(q) == Dir("num", 10, {}, 0, None, q)
Formats == {<<d>> : d \in Number \cup Others} \cup {<<d, e>> : d \in Others, e \in Number \cup Others}
           \cup {<<e, d>> : d \in Others, e \in Number}
           \cup {<<At(q), TextOf(1), At(r)>> : q, r \in 1 .. 3}
Args  == {<<0, 12, -3, 1>>, <<-5, 0, 2, 0>>, <<11, 2, 0, 1>>}
Rooms == {0, 2, 9}
Format == INSTANCE Format WITH INT_MAX <- 6, i <- fmt_i, ret <- fmt_ret

Ways == {"exit", "quick", "abort", "return"}
AtExit == INSTANCE AtExit WITH INIT_ATEXIT_SIZE <- 2, MaxReg <- 7

Init == /\ moves \in Moving
        /\ (moves # "Dlmalloc" => conf = Base)
        /\ (moves # "Strings" => mem = [k \in 0 .. 4 |-> 0])
        /\ (moves # "Format" => fmt = <<TextOf(1)>> /\ args = <<0, 12, -3, 1>> /\ n = 0)
        /\ DlTree!Init /\ Dlmalloc!Init /\ Strings!Init /\ Format!Init /\ AtExit!Init

treeVars   == <<root, node, age>>
dlVars     == <<conf, m, live>>
stringVars == <<mem, str_ret, saved, call, before, last, calls>>
formatVars == <<fmt, args, n, pass, fmt_i, cnt, ap, used, sent, buf, fmt_ret>>
exitVars   == <<table, size, count, heap, reg, phase, i, ran, way, overrun>>
vars       == <<moves, treeVars, dlVars, stringVars, formatVars, exitVars>>

Next ==
    \/ moves = "DlTree" /\ DlTree!Next /\ UNCHANGED <<moves, dlVars, stringVars, formatVars, exitVars>>
    \/ moves = "Dlmalloc" /\ Dlmalloc!Next /\ UNCHANGED <<moves, treeVars, stringVars, formatVars, exitVars>>
    \/ moves = "Strings" /\ Strings!Next /\ UNCHANGED <<moves, treeVars, dlVars, formatVars, exitVars>>
    \/ moves = "Format" /\ Format!Next /\ UNCHANGED <<moves, treeVars, dlVars, stringVars, exitVars>>
    \/ moves = "AtExit" /\ AtExit!Next /\ UNCHANGED <<moves, treeVars, dlVars, stringVars, formatVars>>

Spec == Init /\ [][Next]_vars

-----------------------------------------------------------------------------
\* Trees of free chunks are as do_check_tree and do_check_treebin say; tmalloc_large and
\* tmalloc_small find a chunk of the least size that fits, the oldest of its size.
TreesAreBestFit ==
    moves = "DlTree" => /\ DlTree!TypeOK /\ DlTree!TreesAreChecked
                        /\ DlTree!BestFit /\ DlTree!LeastFit /\ DlTree!OldestFirst

\* Segments and direct maps are in mapped pages, and apart.
HeapIsMapped == moves = "Dlmalloc" => Dlmalloc!HeapIsMapped

\* After any calls a program may make, chunks, bins and segments are as
\* do_check_malloc_state says and in mapped memory; blocks in use are aligned, large enough
\* and apart; the footprint is exact; and no check of the allocator aborts.
HeapIsSound ==
    moves = "Dlmalloc" => /\ Dlmalloc!TypeOK /\ Dlmalloc!HeapIsChecked /\ Dlmalloc!BlocksAreMine
                          /\ Dlmalloc!HeapIsMapped /\ Dlmalloc!FootprintIsExact /\ Dlmalloc!NoAbort

\* The footprint grows only up to its limit, memory that sys_alloc got for a request
\* suffices for it, and destroy_mspace returns all that an mspace at a base has got.
FootprintIsKept == Dlmalloc!LimitIsKept /\ Dlmalloc!PaddingSuffices /\ Dlmalloc!DestroyReturnsAll

\* Copies write what they should and nothing else, strcspn counts up to the first
\* character of the set, kstrlen and kstrequ look at no more than n characters.
StringsAreExact ==
    moves = "Strings" => /\ Strings!TypeOK /\ Strings!CopyIsExact
                         /\ Strings!SpanIsExact /\ Strings!KernelStringsAreExact

\* vsnprintf returns the length of what it would write, of which the buffer gets the first
\* part; arguments are used in order or by position; integers are written as C says.
FormatIsStandard ==
    moves = "Format" => /\ Format!TypeOK /\ Format!CountIsOutput /\ Format!BufferIsPrefix
                        /\ Format!ArgumentsInOrder /\ Format!IntegersAreStandard

\* Functions registered after the table of atexit has grown are kept, also when one that
\* is called registers another, and functions are called in reverse order.
HandlersInOrder ==
    moves = "AtExit" => AtExit!TypeOK /\ AtExit!LaterOnesAreKept /\ AtExit!ReverseOrder
=============================================================================
