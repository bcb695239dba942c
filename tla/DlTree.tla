------------------------------- MODULE DlTree -------------------------------
(***************************************************************************)
(* The bins of large free chunks of the C library's allocator,              *)
(* osrt/c/dlmalloc.c: one digital tree of sizes per bin, chunks of equal    *)
(* size in a ring of which one is in the tree.  Sizes are numbers of WIDTH   *)
(* bits (size_t) and arithmetic on them wraps.                               *)
(***************************************************************************)
EXTENDS Integers, Sequences, FiniteSets, FiniteSetsExt, SequencesExt

CONSTANTS Chunks,        \* chunks that may be free: numbers
          Sizes,         \* their sizes; multiples of the unit, from MIN_LARGE_SIZE on
          WIDTH,         \* SIZE_T_BITSIZE
          TREEBIN_SHIFT, \* MIN_LARGE_SIZE is 2^TREEBIN_SHIFT
          NTREEBINS,     \* even
          NULL, BIN      \* no chunk; parent of a root: the bin itself

VARIABLES root,  \* treebins; the bit of a bin in treemap is set iff it is not NULL
          node,  \* free chunks: size, index, child, parent, fd, bk
          age    \* history: the free chunks, oldest first

vars == <<root, node, age>>

Bit(s, k) == IF k < 0 THEN 0 ELSE (s \div 2^k) % 2
Wrap(n) == n % 2^WIDTH
Log2(n) == CHOOSE k \in 0 .. WIDTH : 2^k <= n /\ n < 2^(k + 1)

\* 0xFFFF is the largest X that has a bin of its own.
compute_tree_index(s) ==
    LET x == s \div 2^TREEBIN_SHIFT
        k == Log2(x) IN
    IF x = 0 THEN 0
    ELSE IF x > 2^(NTREEBINS \div 2) - 1 THEN NTREEBINS - 1
    ELSE 2 * k + Bit(s, k + TREEBIN_SHIFT - 1)

bit_for_tree_index(i) == IF i = NTREEBINS - 1 THEN WIDTH - 1 ELSE (i \div 2) + TREEBIN_SHIFT - 2

minsize_for_tree_index(i) ==
    2^((i \div 2) + TREEBIN_SHIFT) + (i % 2) * 2^((i \div 2) + TREEBIN_SHIFT - 1)

leftmost_child(x) == IF node[x].child[0] # NULL THEN node[x].child[0] ELSE node[x].child[1]

Init == root = [i \in 0 .. NTREEBINS - 1 |-> NULL] /\ node = <<>> /\ age = <<>>

\* Where the loop of insert_large_chunk ends: a chunk, and NULL or the child to set.
RECURSIVE Place(_, _, _)
Place(t, s, k) ==
    LET c == Bit(s, k) IN
    IF node[t].size = s THEN <<t, NULL>>
    ELSE IF node[t].child[c] = NULL THEN <<t, c>> ELSE Place(node[t].child[c], s, k - 1)

Fresh(x, s, p) == x :> [size |-> s, index |-> compute_tree_index(s), child |-> [c \in 0 .. 1 |-> NULL],
                        parent |-> p, fd |-> x, bk |-> x]

\* A chunk of a size that is in the tree goes between that node and its fd.
insert_large_chunk(x, s) ==
    LET i == compute_tree_index(s)
        at == Place(root[i], s, bit_for_tree_index(i))
        t == at[1]
        f == node[t].fd IN
    /\ x \notin DOMAIN node
    /\ age' = Append(age, x)
    /\ IF root[i] = NULL THEN root' = [root EXCEPT ![i] = x] /\ node' = node @@ Fresh(x, s, BIN)
       ELSE /\ UNCHANGED root
            /\ IF at[2] # NULL
               THEN node' = [node EXCEPT ![t].child[at[2]] = x] @@ Fresh(x, s, t)
               ELSE node' = [[node EXCEPT ![t].fd = x] EXCEPT ![f].bk = x]
                            @@ (x :> [Fresh(x, s, NULL)[x] EXCEPT !.fd = f, !.bk = t])

RightFirst(x) == IF node[x].child[1] # NULL THEN node[x].child[1] ELSE node[x].child[0]

\* The leaf reached from x by right children, left ones where there is no right one.
RECURSIVE LastLeaf(_)
LastLeaf(x) == IF RightFirst(x) = NULL THEN x ELSE LastLeaf(RightFirst(x))

\* Mutant: the child itself takes x's place, not a leaf below it.
Replacement_Child(x) == IF node[x].bk # x THEN node[x].bk ELSE RightFirst(x)

\* What takes x's place: the next of its ring, else a leaf below it, else nothing.
Replacement(x) ==
    IF node[x].bk # x THEN node[x].bk ELSE IF RightFirst(x) = NULL THEN NULL ELSE LastLeaf(x)

\* n without the links that lead to x in its ring, or to the leaf r in the tree.
Unhook(n, x, r) ==
    IF n[x].bk # x THEN [[n EXCEPT ![n[x].fd].bk = r] EXCEPT ![r].fd = n[x].fd]
    ELSE IF r = NULL THEN n
    ELSE [n EXCEPT ![n[r].parent].child = [c \in 0 .. 1 |-> IF @[c] = r THEN NULL ELSE @[c]]]

unlink_large_chunk(x) ==
    LET r == Replacement(x)
        n == Unhook(node, x, r)
        xp == n[x].parent
        top == xp # NULL /\ root[n[x].index] = x
        \* XP's child and R's place; X's children as they are after the unhooking
        n1 == IF xp \in {NULL, BIN} THEN n
              ELSE [n EXCEPT ![xp].child[IF n[xp].child[0] = x THEN 0 ELSE 1] = r]
        n2 == IF xp = NULL \/ r = NULL THEN n1
              ELSE [n1 EXCEPT ![r].parent = xp,
                              ![r].child = [c \in 0 .. 1 |-> IF n[x].child[c] # NULL THEN n[x].child[c] ELSE @[c]]]
        n3 == [y \in DOMAIN n2 |-> IF xp # NULL /\ r # NULL /\ y \in {n[x].child[0], n[x].child[1]}
                                   THEN [n2[y] EXCEPT !.parent = r] ELSE n2[y]] IN
    /\ root' = IF top THEN [root EXCEPT ![n[x].index] = r] ELSE root
    /\ node' = [y \in DOMAIN node \ {x} |-> n3[y]]
    /\ age' = SelectSeq(age, LAMBDA y : y # x)

\* The best of the search so far: a chunk, and its size less nb.
Better(best, t, nb) ==
    LET trem == Wrap(node[t].size - nb) IN IF trem < best[2] THEN <<t, trem>> ELSE best

\* The last loop: along the leftmost path below t.
RECURSIVE Leftmost(_, _, _)
Leftmost(t, best, nb) == IF t = NULL THEN best ELSE Leftmost(leftmost_child(t), Better(best, t, nb), nb)

\* The first loop: down the bits of nb; the subtree to look in next, and the best.
RECURSIVE Walk(_, _, _, _, _)
Walk(t, rst, best, nb, k) ==
    LET b == Better(best, t, nb)
        rt == node[t].child[1]
        u == node[t].child[Bit(nb, k)]
        r == IF rt # NULL /\ rt # u THEN rt ELSE rst IN
    IF b[2] = 0 /\ b # best THEN <<NULL, b>>
    ELSE IF u = NULL THEN <<r, b>> ELSE Walk(u, r, b, nb, k - 1)

\* The chunk tmalloc_large takes, before it is compared with dv.  An exact fit ends
\* the search: nothing below it is better.
tmalloc_large(nb) ==
    LET i == compute_tree_index(nb)
        none == <<NULL, Wrap(-nb)>>
        w == IF root[i] = NULL THEN <<NULL, none>> ELSE Walk(root[i], NULL, none, nb, bit_for_tree_index(i))
        left == {j \in i + 1 .. NTREEBINS - 1 : root[j] # NULL}
        t == IF w[1] = NULL /\ w[2][1] = NULL /\ left # {} THEN root[Min(left)] ELSE w[1] IN
    Leftmost(t, w[2], nb)[1]

\* The chunk tmalloc_small takes; called when some tree is not empty.
tmalloc_small(nb) ==
    LET t == root[Min({i \in DOMAIN root : root[i] # NULL})] IN
    Leftmost(leftmost_child(t), <<t, Wrap(node[t].size - nb)>>, nb)[1]

\* Bound: chunks are numbered by age.  Numbers say nothing else in this module.
Youngest(x) == \A y \in DOMAIN node : y < x

Next == \/ \E x \in Chunks, s \in Sizes : Youngest(x) /\ insert_large_chunk(x, s)
        \/ \E x \in DOMAIN node : unlink_large_chunk(x)

Spec == Init /\ [][Next]_vars

-----------------------------------------------------------------------------
InTree(x) == node[x].parent # NULL

\* The assertions of do_check_tree about chunk x.
do_check_tree(x) ==
    LET n == node[x] IN
    /\ n.size >= minsize_for_tree_index(n.index)
    /\ n.index = NTREEBINS - 1 \/ n.size < minsize_for_tree_index(n.index + 1)
    /\ node[n.fd].bk = x /\ node[n.bk].fd = x /\ node[n.fd].size = n.size
    /\ IF InTree(x)
       THEN /\ IF n.parent = BIN THEN root[n.index] = x ELSE \E c \in 0 .. 1 : node[n.parent].child[c] = x
            /\ \A c \in 0 .. 1 : n.child[c] # NULL => node[n.child[c]].parent = x
            /\ (n.child[0] # NULL /\ n.child[1] # NULL) => node[n.child[0]].size < node[n.child[1]].size
       ELSE n.child[0] = NULL /\ n.child[1] = NULL

\* Fields have their types, and a bin's root is in it.
TypeOK ==
    /\ DOMAIN node \subseteq Chunks /\ ToSet(age) = DOMAIN node /\ Len(age) = Cardinality(DOMAIN node)
    /\ \A x \in DOMAIN node :
          /\ node[x].size \in Sizes /\ node[x].fd \in DOMAIN node /\ node[x].bk \in DOMAIN node
          /\ node[x].parent \in DOMAIN node \cup {NULL, BIN}
          /\ \A c \in 0 .. 1 : node[x].child[c] \in DOMAIN node \cup {NULL}
    /\ \A i \in DOMAIN root : root[i] # NULL => root[i] \in DOMAIN node /\ node[root[i]].index = i

\* What do_check_tree asserts (dlmalloc.c:3300-3346) holds of every free chunk after
\* any sequence of insertions and removals.
TreesAreChecked == \A x \in DOMAIN node : do_check_tree(x)

\* The search of tmalloc_large (dlmalloc.c:4434-4478) finds a chunk iff one is large
\* enough, and one of the smallest size that is.
BestFit ==
    \A nb \in {s + d : s \in Sizes, d \in 0 .. 1} :
        LET fit == {node[x].size : x \in {y \in DOMAIN node : node[y].size >= nb}}
            v == tmalloc_large(nb) IN
        IF fit = {} THEN v = NULL ELSE v # NULL /\ node[v].size = Min(fit)

\* tmalloc_small (dlmalloc.c:4504-4520) finds a chunk of the smallest size there is:
\* all large chunks are larger than a small request.
LeastFit ==
    DOMAIN node # {} => node[tmalloc_small(2)].size = Min({node[x].size : x \in DOMAIN node})

\* Of the chunks of a size the oldest one is in the tree and is the next to be used
\* (dlmalloc.c:2356-2359); the others follow it in the order in which they were freed.
OldestFirst ==
    \A i, j \in DOMAIN age :
        LET x == age[i]  y == age[j] IN
        (i < j /\ node[x].size = node[y].size) =>
            /\ ~InTree(y)
            /\ (\A k \in i + 1 .. j - 1 : node[age[k]].size # node[x].size) => node[x].bk = y
=============================================================================
