------------------------------- MODULE Format -------------------------------
(***************************************************************************)
(* vfprintf and vsnprintf (osrt/c/vfprintf.c, stdio.c): two passes over the   *)
(* format, the first without output, and for each directive the pieces that  *)
(* are written.  A format is a sequence of directives, already told apart:    *)
(*   [k, t, fl, w, p, pos, n]: kind, base, flags, width (-1: too large for an *)
(* int), precision (None, or -1: too large), position of its argument or 0,  *)
(* and the length of a text.  Output is a sequence of symbols.                *)
(***************************************************************************)
EXTENDS Integers, FiniteSetsExt, SequencesExt

CONSTANTS Formats,   \* formats
          Args,      \* lists of arguments: integers, or lengths of strings
          Rooms,     \* sizes of buffers
          INT_MAX,
          None, Star  \* no precision; a width that is an argument

VARIABLES fmt, args, n,       \* arguments of vsnprintf
          pass, i, cnt,       \* of printf_core
          ap, used,           \* next argument; history: index and directive of each one used
          sent, buf, ret
vars == <<fmt, args, n, pass, i, cnt, ap, used, sent, buf, ret>>

-----------------------------------------------------------------------------
xdigits == <<"0", "1", "2", "3", "4", "5", "6", "7", "8", "9", "a", "b", "c", "d", "e", "f">>

\* fmt_x, fmt_o and fmt_u: digits of v, most significant first; none for 0.
RECURSIVE fmt_u(_, _)
fmt_u(v, base) == IF v = 0 THEN <<>> ELSE Append(fmt_u(v \div base, base), xdigits[(v % base) + 1])

Piece(c, k) == [j \in 1 .. Max({k, 0}) |-> c]

\* pad: nothing when a flag forbids it.
pad(c, w, l, fl) == IF fl \cap {"-", "0"} # {} THEN <<>> ELSE Piece(c, w - l)
Flip(fl, f) == IF f \in fl THEN fl \ {f} ELSE fl \cup {f}

\* What is written for a directive of width w and precision p, in order.
Pieces(w, p, prefix, a, fl) ==
    LET pl == Len(prefix) IN
    <<pad(" ", w, pl + p, fl), prefix, pad("0", w, pl + p, Flip(fl, "0")),
      pad("0", p, Len(a), {}), a, pad(" ", w, pl + p, Flip(fl, "-"))>>

Prefix(d, v) ==
    CASE d.t = 16 -> IF v # 0 /\ "#" \in d.fl THEN <<"0", "x">> ELSE <<>>
      [] d.t = 8 -> <<>>
      [] OTHER -> IF v < 0 THEN <<"-">> ELSE IF "+" \in d.fl THEN <<"+">>
                  ELSE IF " " \in d.fl THEN <<" ">> ELSE <<>>

\* Precision of an integer with the digits a: at least the digits, and one for 0 unless
\* precision 0 was asked for.
Prec(p, a) == IF a = <<>> /\ p = 0 THEN 0 ELSE Max({p, Len(a) + IF a = <<>> THEN 1 ELSE 0})
OctalPrec(d, p, a) == IF d.t = 8 /\ "#" \in d.fl /\ p < Len(a) + 1 THEN Len(a) + 1 ELSE p

\* - and 0 are exclusive; a precision, a character and a string exclude 0.
Flags(d, fl) == fl \ (IF "-" \in fl \/ d.p # None \/ d.k # "num" THEN {"0"} ELSE {})

\* A negative width from the arguments is a flag.
Starred(d, w) == [d EXCEPT !.w = IF w < 0 THEN -w ELSE w, !.fl = IF w < 0 THEN @ \cup {"-"} ELSE @]

Abs(v) == IF v < 0 THEN -v ELSE v
P(d) == IF d.p = None THEN -1 ELSE d.p

\* Precision, prefix and characters of a directive with its value, for strings their
\* length.  memchr gives the place after the terminator.
Parts(d, v) ==
    CASE d.k = "num" -> [p |-> Prec(OctalPrec(d, P(d), fmt_u(Abs(v), d.t)), fmt_u(Abs(v), d.t)),
                         prefix |-> Prefix(d, v), a |-> fmt_u(Abs(v), d.t)]
      [] d.k = "chr" -> [p |-> 1, prefix |-> <<>>, a |-> <<"c">>]
      [] d.k = "str" -> [p |-> Abs(v) + 1, prefix |-> <<>>, a |-> Append(Piece("c", Abs(v)), "NUL")]

-----------------------------------------------------------------------------
\* _sn_write_impl: as much as there is room for.
_sn_write_impl(b, s) == b \o SubSeq(s, 1, Min({Len(s), n - Len(b)}))

Out(s) == sent' = sent \o FlattenSeq(s) /\ buf' = FoldLeft(_sn_write_impl, buf, s)

Init == /\ fmt \in Formats /\ args \in Args /\ n \in Rooms
        /\ pass = 0 /\ i = 1 /\ cnt = 0 /\ ap = 1 /\ used = <<>>
        /\ sent = <<>> /\ buf = <<>> /\ ret = "none"

Call == <<fmt, args, n>>
Returns(r) == ret' = r /\ UNCHANGED <<Call, pass, i, cnt, ap, used, sent, buf>>

D == fmt[i]
Running == ret = "none" /\ i <= Len(fmt)
Positional == \E j \in DOMAIN fmt : fmt[j].pos # 0

\* Text, in both passes.
Text ==
    /\ Running /\ D.k = "text"
    /\ IF D.n > INT_MAX - cnt THEN Returns("EOVERFLOW")
       ELSE /\ cnt' = cnt + D.n /\ i' = i + 1
            /\ IF pass = 1 THEN Out(<<Piece("t", D.n)>>) ELSE UNCHANGED <<sent, buf>>
            /\ UNCHANGED <<Call, pass, ap, used, ret>>

\* The directive is refused: no such conversion, or a number that is too large.
Refused ==
    /\ Running /\ D.k # "text" /\ (D.w = -1 \/ D.k = "bad")
    /\ Returns(IF D.w = -1 THEN "EOVERFLOW" ELSE "EINVAL")

Second == pass' = 1 /\ i' = 1 /\ cnt' = 0

\* Mutant: the first pass takes the argument.
AfterFirst_Popped == ap + 1

AfterFirst == ap

\* The first pass ends at the first argument without a position.
First ==
    /\ Running /\ pass = 0 /\ D.k \notin {"text", "bad"} /\ D.w # -1
    /\ IF D.pos = 0 THEN Second /\ ap' = AfterFirst ELSE i' = i + 1 /\ UNCHANGED <<pass, cnt, ap>>
    /\ UNCHANGED <<Call, used, sent, buf, ret>>

\* End of the first pass: positions must leave no gap.
FirstEnds ==
    LET pos == {fmt[j].pos : j \in {k \in DOMAIN fmt : fmt[k].k # "text"}} IN
    /\ ret = "none" /\ pass = 0 /\ i > Len(fmt)
    /\ IF pos # {} /\ pos # 1 .. Max(pos) THEN Returns("EINVAL")
       ELSE Second /\ UNCHANGED <<Call, ap, used, sent, buf, ret>>

\* memchr gives NULL when the terminator is not found before the end of the precision: the
\* difference of the two pointers is then taken for the length.
Wild(d, v) == d.k = "str" /\ P(d) >= 0 /\ Abs(v) + 1 >= P(d)

TooLong(d, x, w) == (d.k = "num" /\ d.p = -1) \/ x.p > INT_MAX - Len(x.prefix) \/ w > INT_MAX - cnt

\* Lengths are tested before anything of a directive is written.
Written(d, x, w) ==
    IF TooLong(d, x, w) THEN Returns("EOVERFLOW")
    ELSE /\ cnt' = cnt + w /\ i' = i + 1 /\ Out(Pieces(w, x.p, x.prefix, x.a, Flags(d, d.fl)))
         /\ UNCHANGED <<Call, pass, ret>>

\* The value of a directive d is argument number k.
Convert(d, k) ==
    /\ IF d.k \in {"n", "fp"} THEN i' = i + 1 /\ UNCHANGED <<Call, pass, cnt, sent, buf, ret>>
       ELSE IF Wild(d, args[k]) THEN Returns("wild")
       ELSE LET x == Parts(d, args[k]) IN Written(d, x, Max({d.w, Len(x.prefix) + Max({x.p, Len(x.a)})}))
    /\ IF ret' = "none"
       THEN used' = Append(used, [k |-> k, d |-> i]) /\ ap' = IF d.pos = 0 THEN k + 1 ELSE ap
       ELSE TRUE

Directive ==
    /\ Running /\ pass = 1 /\ D.k \notin {"text", "bad"} /\ D.w # -1
    /\ IF D.w = Star THEN Convert(Starred(D, args[ap]), ap + 1)
       ELSE Convert(D, IF D.pos = 0 THEN ap ELSE D.pos)

SecondEnds == ret = "none" /\ pass = 1 /\ i > Len(fmt) /\ Returns("OK")

Next == Text \/ Refused \/ First \/ FirstEnds \/ Directive \/ SecondEnds

Spec == Init /\ [][Next]_vars

-----------------------------------------------------------------------------
\* Counts are ints, and the output is never longer than the largest of them.
TypeOK == cnt \in 0 .. INT_MAX /\ pass \in {0, 1} /\ Len(sent) <= INT_MAX

\* The value returned is the number of characters that were sent (vfprintf.c:610,
\* :830), wherever the two passes stopped in between.
CountIsOutput == ret \in {"none", "OK"} /\ pass = 1 => cnt = Len(sent)

\* The buffer holds the beginning of the output, and never more than its room, for any
\* partition of the output in pieces (stdio.c:87-101).
BufferIsPrefix == buf = SubSeq(sent, 1, Min({n, Len(sent)}))

\* Directives take the arguments in order, those with a position the one they name: the
\* first pass has taken none of them (vfprintf.c:857-864).
ArgumentsInOrder ==
    \A j \in DOMAIN used : LET d == fmt[used[j].d]
                               before == {x \in 1 .. used[j].d : fmt[x].k # "text"}
                               stars == {x \in before : fmt[x].w = Star} IN
        used[j].k = IF d.pos # 0 THEN d.pos ELSE Cardinality(before) + Cardinality(stars)

\* An integer is printed as the standard says: sign, zeros and digits are adjacent, with
\* blanks on one side only, the digits are those of the value, and the width is met.
IntegersAreStandard ==
    ret = "OK" /\ Len(fmt) = 1 /\ fmt[1].k = "num" /\ fmt[1].t = 10 /\ fmt[1].w # Star =>
        LET d == fmt[1]
            v == args[IF d.pos = 0 THEN 1 ELSE d.pos]
            sign == Prefix(d, v)
            digits == IF P(d) = 0 /\ v = 0 THEN <<>> ELSE
                      LET u == fmt_u(Abs(v), 10) IN
                      Piece("0", Max({P(d), 1}) - Len(u)) \o u
            body == sign \o digits
            fill == Max({d.w - Len(body), 0}) IN
        sent = IF "-" \in d.fl THEN body \o Piece(" ", fill)
               ELSE IF "0" \in d.fl /\ d.p = None THEN sign \o Piece("0", fill) \o digits
               ELSE Piece(" ", fill) \o body

\* A string is written without its terminator, up to the precision: "[x] vfprintf"
\* (osrt/c/README.md:87).
\* Not so in the code: see README, "Disagreements".
StringsAreStandard ==
    ret \in {"OK", "wild"} /\ Len(fmt) = 1 /\ fmt[1].k = "str" /\ fmt[1].w = 0 =>
        sent = Piece("c", IF P(fmt[1]) >= 0 THEN Min({P(fmt[1]), args[1]}) ELSE args[1])

\* vsnprintf leaves a string in the buffer: "[x] vsnprintf" (osrt/c/README.md:89).
\* Not so in the code: see README, "Disagreements".
BufferIsTerminated == ret = "OK" /\ n > 0 => \E j \in DOMAIN buf : buf[j] = "NUL"
=============================================================================
