------------------------------ MODULE Strings ------------------------------
(***************************************************************************)
(* Strings and blocks of memory: the functions of osrt/c/string.c and of     *)
(* kernel/k_string.c over a small memory, with the string instructions they  *)
(* are made of.  Pointers are cells of the memory.  Each step is one call;    *)
(* strtok keeps a pointer from one call to the next.                          *)
(***************************************************************************)
EXTENDS Integers, FiniteSetsExt, SequencesExt

CONSTANTS N,      \* cells of memory; the last one holds 0
          Byte,   \* 0 and others
          Ops,    \* functions that are called
          Calls   \* bound: calls of strtok in sequence

Null == -1
Cell == 0 .. N - 1
SIZE_MAX == N

VARIABLES mem, ret,
          saved,        \* __strtok_saved_ptr
          call, before, \* history: the last call, and the memory before it
          last,         \* history: terminator of the string strtok was given
          calls
vars == <<mem, ret, saved, call, before, last, calls>>

-----------------------------------------------------------------------------
(* String instructions.  They go upwards, one byte at a time. *)

\* rep movsb: a byte that was already overwritten is copied again.
Movs(m, d, s, n) ==
    [x \in Cell |-> IF x \notin d .. d + n - 1 THEN m[x]
                    ELSE m[s + IF s < d THEN (x - d) % (d - s) ELSE x - d]]

\* rep stosb.
Stos(m, d, c, n) == [x \in Cell |-> IF x \in d .. d + n - 1 THEN c ELSE m[x]]

\* repne scasb: bytes scanned, the one that is found included.
Scan(m, s, c, n) ==
    LET found == {i \in 0 .. n - 1 : s + i \in Cell /\ m[s + i] = c} IN IF found = {} THEN n ELSE Min(found) + 1

strlen(m, s) == Scan(m, s, 0, SIZE_MAX)

\* The bytes of s2 in s2_map, and the first cell from s on, of n, in or out of it.
Map(m, s2) == {m[s2 + i] : i \in 0 .. strlen(m, s2) - 1}
FirstIn(m, s, n, S) ==
    LET found == {i \in 0 .. n - 1 : m[s + i] \in S} IN IF found = {} THEN n ELSE Min(found)

-----------------------------------------------------------------------------
(* osrt/c/string.c: each gives the value returned and the memory after. *)

Gives(v, m) == [ret |-> v, mem |-> m, saved |-> saved]

\* Chunk k of memmove, upwards if s1 is in front, else downwards.
Chunk(m, a, b, n, o, k) ==
    LET size == Min({n - k * o, o}) IN
    IF a < b THEN Movs(m, a + k * o, b + k * o, size)
    ELSE Movs(m, a + n - k * o - size, b + n - k * o - size, size)

memmove(m, a, b, n) ==
    LET o == IF a < b THEN a + n - b ELSE b + n - a IN
    IF a = b \/ n = 0 THEN m ELSE IF o <= 0 THEN Movs(m, a, b, n)
    ELSE FoldLeft(LAMBDA x, k : Chunk(x, a, b, n, o, k), m, [k \in 1 .. (n + o - 1) \div o |-> k - 1])

fill_len(n, len) == n - len

strncpy(m, a, b, n) ==
    LET len == Scan(m, b, 0, n) IN Stos(Movs(m, a, b, len), a + len, 0, fill_len(n, len))

strncat(m, a, b, n) ==
    LET la == strlen(m, a) lb == Scan(m, b, 0, n) IN Stos(Movs(m, a + la, b, lb), a + la + lb, 0, 1)

\* __memcmp_repne_cmpsb is a "repne movsb", which processors take for "rep movsb": it
\* copies, and always scans all.
memcmp(m, a, b, n) == Gives(0, Movs(m, a, b, n))

strncmp(m, a, b, n) == memcmp(m, a, b, Min({Scan(m, a, 0, n), Scan(m, b, 0, n)}) + 1)

memchr(m, a, c, n) == IF Scan(m, a, c, n) = n THEN Null ELSE a + Scan(m, a, c, n)

strcspn(m, a, b) == FirstIn(m, a, strlen(m, a), Map(m, b))

strspn(m, a, b) == FirstIn(m, a, strlen(m, a), Byte \ Map(m, b))

strpbrk(m, a, b) == IF strcspn(m, a, b) = strlen(m, a) THEN Null ELSE a + strcspn(m, a, b)

strrchr(m, a, c) ==
    LET found == {i \in 0 .. strlen(m, a) : a + i \in Cell /\ m[a + i] = c} IN
    IF found = {} THEN Null ELSE a + Max(found)

\* strncmp finds everything equal: the first place is taken, and overwritten.
strstr(m, a, b) ==
    IF strlen(m, b) > strlen(m, a) THEN Gives(Null, m) ELSE Gives(a, strncmp(m, a, b, strlen(m, b)).mem)

\* The next search starts after the delimiter.
After(t, end) == t + end + 1

\* From the token that starts at t: it ends at a delimiter, or with the string.
TokenFrom(m, t, n, D) ==
    LET end == FirstIn(m, t, n, D) IN
    IF end = n THEN [ret |-> t, mem |-> m, saved |-> Null]
    ELSE [ret |-> t, mem |-> Stos(m, t + end, 0, 1), saved |-> After(t, end)]

strtok(m, s, b) ==
    LET n == strlen(m, s)  i == FirstIn(m, s, n, Byte \ Map(m, b)) IN
    IF i = n THEN Gives(Null, m) ELSE TokenFrom(m, s + i, n - i, Map(m, b))

-----------------------------------------------------------------------------
(* kernel/k_string.c. *)

kstrlen(m, max, s) == FirstIn(m, s, max, {0})

\* Mutant: a prefix is equal.
SameLength_Not(m, max, a, b) == TRUE

SameLength(m, max, a, b) == kstrlen(m, max, a) = kstrlen(m, max, b)

kstrequ(m, max, a, b) ==
    /\ SameLength(m, max, a, b)
    /\ \A i \in 0 .. kstrlen(m, max, a) - 1 : m[a + i] = m[b + i]

kstrcpy(m, max, a, b) ==
    LET len == kstrlen(m, max, b) IN
    IF len = max THEN Gives(-1, m) ELSE Gives(len, Stos(Movs(m, a, b, len), a + len + 1, 0, 1))

kmemmov(m, a, b, n) ==
    IF a >= b /\ a <= b + n THEN Movs(Movs(m, a + (a - b), a, b + n - a), a, b, a - b)
    ELSE Movs(m, a, b, n)

-----------------------------------------------------------------------------
\* What a call needs: its ranges are in memory, and where pointers are "restrict" or
\* overlap is excluded they are apart.  Room is as the code uses it.
Fits(x, n) == x + n <= N
Apart(a, na, b, nb) == a + na <= b \/ b + nb <= a

Allowed(op, a, b, n) ==
    LET la == strlen(mem, a) lb == strlen(mem, b) IN
    CASE op \in {"memcpy", "memcmp", "strncpy"} -> Fits(a, n) /\ Fits(b, n) /\ Apart(a, n, b, n)
      [] op = "memmove" \/ op = "kmemmov" -> Fits(a, n) /\ Fits(b, n)
      [] op \in {"memset", "memchr"} -> Fits(a, n)
      [] op = "strcpy" -> n = 0 /\ Fits(a, lb) /\ Apart(a, lb, b, lb)
      [] op = "strcat" -> n = 0 /\ Fits(a, la + lb + 1) /\ Apart(a, la + lb + 1, b, lb)
      [] op \in {"strcmp", "strstr"} -> n = 0 /\ Fits(a, lb + 1) /\ Fits(b, lb + 1) /\ Apart(a, la, b, lb) /\ a + la < N
      [] op = "strtok" -> n = 0 /\ Apart(a, la, b, lb)
      [] op \in {"kstrlen", "kstrequ"} -> Fits(a, n) /\ Fits(b, n)
      [] op = "kstrcpy" -> Fits(b, n) /\ Fits(a, n + 1) /\ Apart(a, n + 1, b, n)
      [] OTHER -> n = 0

\* b is a byte for the functions that take one.
Char == CHOOSE c \in Byte : c # 0

Result(op, a, b, n) ==
    CASE op = "memcpy" -> Gives(a, Movs(mem, a, b, n))
      [] op = "memmove" -> Gives(a, memmove(mem, a, b, n))
      [] op = "memset" -> Gives(a, Stos(mem, a, Char, n))
      [] op = "strcpy" -> Gives(a, strncpy(mem, a, b, strlen(mem, b)))
      [] op = "strncpy" -> Gives(a, strncpy(mem, a, b, n))
      [] op = "strcat" -> Gives(a, strncat(mem, a, b, SIZE_MAX))
      [] op = "memcmp" -> memcmp(mem, a, b, n)
      [] op = "strcmp" -> strncmp(mem, a, b, SIZE_MAX)
      [] op = "memchr" -> Gives(memchr(mem, a, Char, n), mem)
      [] op = "strchr" -> Gives(memchr(mem, a, Char, strlen(mem, a) + 1), mem)
      [] op = "strcspn" -> Gives(strcspn(mem, a, b), mem)
      [] op = "strspn" -> Gives(strspn(mem, a, b), mem)
      [] op = "strpbrk" -> Gives(strpbrk(mem, a, b), mem)
      [] op = "strrchr" -> Gives(strrchr(mem, a, Char), mem)
      [] op = "strstr" -> strstr(mem, a, b)
      [] op = "strtok" -> strtok(mem, a, b)
      [] op = "kstrlen" -> Gives(kstrlen(mem, n, a), mem)
      [] op = "kstrequ" -> Gives(IF kstrequ(mem, n, a, b) THEN 1 ELSE 0, mem)
      [] op = "kstrcpy" -> kstrcpy(mem, n, a, b)
      [] op = "kmemmov" -> Gives(a, kmemmov(mem, a, b, n))

Init == /\ mem \in {m \in [Cell -> Byte] : m[N - 1] = 0} /\ before = mem
        /\ ret = 0 /\ saved = Null /\ last = 0 /\ calls = 0
        /\ call = [op |-> "none", a |-> 0, b |-> 0, n |-> 0]

Yields(r) == mem' = r.mem /\ ret' = r.ret /\ saved' = r.saved

Call(op, a, b, n) ==
    /\ calls = 0 /\ calls' = 1
    /\ Allowed(op, a, b, n) /\ Yields(Result(op, a, b, n))
    /\ call' = [op |-> op, a |-> a, b |-> b, n |-> n] /\ before' = mem
    /\ last' = IF op = "strtok" THEN a + strlen(mem, a) - 1 ELSE last

\* strtok(NULL, b) goes on after the last token.
Again(b) ==
    /\ calls < Calls /\ calls' = calls + 1
    /\ call.op = "strtok" /\ saved \in Cell /\ Yields(strtok(mem, saved, b))
    /\ call' = [call EXCEPT !.b = b] /\ before' = mem /\ UNCHANGED last

Next == \/ \E op \in Ops, a, b \in Cell, n \in 0 .. N : Call(op, a, b, n)
        \/ \E b \in Cell : Again(b)

Spec == Init /\ [][Next]_vars

-----------------------------------------------------------------------------
\* Reference: length of the string at s; block of n cells; what a call may have written.
Len0(m, s) == Min({i \in 0 .. N - 1 : s + i \in Cell /\ m[s + i] = 0})
Block(m, s, n) == [i \in 0 .. n - 1 |-> m[s + i]]
OnlyWrites(d, n) == \A x \in Cell : x \notin d .. d + n - 1 => mem[x] = before[x]

\* Values are bytes, and results are places, counts or NULL.
TypeOK == mem \in [Cell -> Byte] /\ ret \in -1 .. N + 1 /\ saved \in -1 .. N

\* memcpy, memset, strcpy, strncpy, and memmove unless the source is in front by less
\* than half of the size, do what the standard says and write nothing else.
CopyIsExact ==
    LET a == call.a  b == call.b  n == call.n  lb == Len0(before, b) IN
    CASE call.op = "memcpy" -> OnlyWrites(a, n) /\ Block(mem, a, n) = Block(before, b, n)
      [] call.op = "memset" -> OnlyWrites(a, n) /\ \A i \in 0 .. n - 1 : mem[a + i] = Char
      [] call.op = "memmove" /\ ~(b < a /\ 2 * (a - b) < n) -> OnlyWrites(a, n) /\ Block(mem, a, n) = Block(before, b, n)
      [] call.op = "strcpy" -> OnlyWrites(a, lb + 1) /\ Block(mem, a, lb + 1) = Block(before, b, lb + 1)
      [] call.op = "strncpy" -> OnlyWrites(a, n) /\ \A i \in 0 .. n - 1 : mem[a + i] = IF i < lb THEN before[b + i] ELSE 0
      [] OTHER -> TRUE

\* strcspn is the length of the part without bytes of the other string: the terminator
\* that is counted in both lengths makes no difference.
SpanIsExact ==
    LET a == call.a  B == {before[call.b + i] : i \in 0 .. Len0(before, call.b) - 1} IN
    call.op = "strcspn" => ret = Min({i \in 0 .. Len0(before, a) : before[a + i] \in B \/ i = Len0(before, a)})

\* kstrlen stops at the terminator or the limit, kstrequ tells whether two strings up to
\* the limit are the same (k_string.c:31-36, :46-50).
KernelStringsAreExact ==
    LET n == call.n
        Str(s) == Block(before, s, Min({Len0(before, s), n})) IN
    /\ call.op = "kstrlen" => ret = Min({Len0(before, call.a), n})
    /\ call.op = "kstrequ" => (ret = 1 <=> Str(call.a) = Str(call.b))

\* A block may be moved to any other: "[x] memmove" (osrt/c/README.md:163).
\* Not so in the code: see README, "Disagreements".
MoveIsExact == call.op = "memmove" => Block(mem, call.a, call.n) = Block(before, call.b, call.n)

\* "compare n bytes from dst with src, return index of first different byte"
\* (osrt/c/string.c:22): different blocks are told apart.
\* Not so in the code: see README, "Disagreements".
CompareIsExact ==
    call.op = "memcmp" => (ret = 0 <=> Block(before, call.a, call.n) = Block(before, call.b, call.n))

\* "find byte 'c' in first n bytes of s" (osrt/c/string.c:33): memchr leads to the byte.
\* Not so in the code: see README, "Disagreements".
FindIsExact ==
    call.op = "memchr" => IF \E i \in 0 .. call.n - 1 : mem[call.a + i] = Char
                          THEN ret \in Cell /\ mem[ret] = Char ELSE ret = Null

\* The tokens that strtok gives are in the string it was given: "[x] strtok"
\* (osrt/c/README.md:180).
\* Not so in the code: see README, "Disagreements".
TokensAreInString == call.op = "strtok" /\ ret # Null => ret <= last

\* "This routine will correctly handle the case in which two memory region overlaps"
\* (k_string.c:123-124).
\* Not so in the code: see README, "Disagreements".
KernelMoveIsExact == call.op = "kmemmov" => Block(mem, call.a, call.n) = Block(before, call.b, call.n)

\* "Copy a NULL-terminated string from src to dst" (k_string.c:67).
\* Not so in the code: see README, "Disagreements".
KernelCopyIsString ==
    call.op = "kstrcpy" /\ ret # -1 => Block(mem, call.a, ret + 1) = Block(before, call.b, ret + 1)
=============================================================================
