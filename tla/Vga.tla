-------------------------------- MODULE Vga --------------------------------
(***************************************************************************)
(* The text console's driver, arch/amd64/ig_vga_text.c.  vmem is the screen *)
(* and the words behind it, row after row.                                  *)
(***************************************************************************)
EXTENDS Integers, Sequences

CONSTANTS DIMX, DIMY, TAB_WIDTH,
          Chars,      \* characters that are printed as they are
          TabLimit,   \* the last column in which a tab is written
          MaxText     \* bound on what is written between two clears

Blank == "blank"

VARIABLES pos_x, pos_y, vmem, text
vars == <<pos_x, pos_y, vmem, text>>

Screen == 0 .. DIMX * DIMY - 1
Beyond == DIMX * DIMY

Init == /\ pos_x = 0 /\ pos_y = 0 /\ text = <<>>
        /\ vmem = [a \in Screen \cup {Beyond} |-> Blank]

\* What the driver works on.
Now == [x |-> pos_x, y |-> pos_y, v |-> vmem]

vga_text_scroll(s, lc) ==
    [s EXCEPT !.y = @ - lc,
              !.v = [a \in DOMAIN @ |-> IF a = Beyond THEN @[a]
                                        ELSE IF a + lc * DIMX \in Screen THEN @[a + lc * DIMX] ELSE Blank]]

newline(s) == LET t == [s EXCEPT !.y = @ + 1, !.x = 0] IN
              IF t.y >= DIMY THEN vga_text_scroll(t, 1) ELSE t

Tab(x) == IF x = 0 THEN TAB_WIDTH ELSE ((x - 1) \div TAB_WIDTH + 1) * TAB_WIDTH

Full(x) == x >= DIMX

Put(s, c) == LET t == [s EXCEPT !.v[s.y * DIMX + s.x] = c, !.x = @ + 1] IN
             IF Full(t.x) THEN newline(t) ELSE t

\* One turn of vga_text_write's loop.
vga_text_write(c) ==
    LET s == CASE c = "newline" -> newline(Now)
               [] c = "tab"     -> [Now EXCEPT !.x = Tab(pos_x)]
               [] OTHER         -> Put(Now, c)
    IN  /\ Len(text) < MaxText /\ (c = "tab" => pos_x <= TabLimit)
        /\ text' = Append(text, c) /\ pos_x' = s.x /\ pos_y' = s.y /\ vmem' = s.v

vga_text_clear == /\ text # <<>> /\ text' = <<>> /\ pos_x' = 0 /\ pos_y' = 0
                  /\ vmem' = [a \in DOMAIN vmem |-> IF a \in Screen THEN Blank ELSE vmem[a]]

Next == vga_text_clear \/ \E c \in Chars \cup {"newline", "tab"} : vga_text_write(c)

Spec == Init /\ [][Next]_vars

-----------------------------------------------------------------------------
\* The position is on the screen or at the end of a row.
TypeOK == pos_x \in 0 .. DIMX /\ pos_y \in 0 .. DIMY - 1

\* The row and column on an endless sheet at which the k-th character is: a row ends with
\* a newline or when it is full; a tab goes to the next stop, which may be the end of the
\* row, and a character that is written there begins the next.
Wrapped(p, c) == IF p[2] = DIMX /\ c \in Chars THEN <<p[1] + 1, 0>> ELSE p

At[k \in 1 .. MaxText + 1] ==
    IF k = 1 THEN <<0, 0>>
    ELSE LET c == text[k - 1]
             p == Wrapped(At[k - 1], c)
         IN  CASE c = "tab"                            -> <<p[1], Tab(p[2])>>
               [] c = "newline" \/ p[2] + 1 = DIMX     -> <<p[1] + 1, 0>>
               [] OTHER                                -> <<p[1], p[2] + 1>>

\* The screen shows the last rows of what was written, and nothing else: rows that wrap,
\* newlines and scrolling lose and move no character (ig_vga_text.c:37-52, :79-100).
ScreenIsTail ==
    LET top == At[Len(text) + 1][1] - pos_y IN
    \A a \in Screen :
        LET here == {k \in 1 .. Len(text) : /\ text[k] \in Chars
                                            /\ Wrapped(At[k], text[k]) = <<top + a \div DIMX, a % DIMX>>}
        IN  IF here = {} THEN vmem[a] = Blank ELSE \E k \in here : vmem[a] = text[k]

\* Nothing is written behind the screen (ig_vga_text.c:96).
OnScreen == vmem[Beyond] = Blank

\* A tab goes to the next tab stop, which is behind the column it is written in
\* (ig_vga_text.c:88, "round X to next tabstop").
\* Not so in the code: see README, "Disagreements".
NextTabstop == [][text' # <<>> /\ text'[Len(text')] = "tab" => pos_x' > pos_x]_vars
=============================================================================
