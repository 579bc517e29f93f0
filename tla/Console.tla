------------------------------ MODULE Console ------------------------------
(***************************************************************************)
(* The screen: kernel() prints through putchar, one character after        *)
(* another, while the Escape key makes the keyboard's handler print the    *)
(* tick count and a line feed through the same putchar, at any moment.     *)
(*                                                                         *)
(* A step is an access to what the two share, the cursor and the frame     *)
(* buffer, in the order of the kernel the Makefile builds (-O2, listed in  *)
(* kernel/assemble.txt): a glyph's position is read in two loads, its rows *)
(* are drawn one by one, and cursor_x grows by one addw; a line feed loads *)
(* cursor_y before it clears cursor_x, a tab stores what it computed from  *)
(* one load, and console_scroll loads and stores pixel by pixel.           *)
(*                                                                         *)
(* Of a pixel only this counts: which glyph drew it last.                  *)
(***************************************************************************)
EXTENDS Integers, Sequences, FiniteSets

CONSTANTS
  FontWidth, FontHeight,        \* PSF1_FONT_WIDTH (8), PSF1_FONT_HEIGHT (16)
  Width, Height,                \* fb_info.width and height, in pixels
  Pitch,                        \* fb_info.pitch / (fb_info.bpp / 8)
  Texts,                        \* what kernel() may print: sequences of characters
  Messages,                     \* what Escape may print
  MaxEscapes                    \* bound on the Escape keys

LF == "ASCII_LF"
CR == "ASCII_CR"
HT == "ASCII_HT"
GLYPH == "glyph"

UINT16_MAX == 65535

U16(n) == n % (UINT16_MAX + 1)

(* A line of the screen has its pixels within the pitch, and the cursor's  *)
(* 16 bits hold every position on the screen, two tabs and a glyph beyond. *)
ASSUME ConsoleAssumption ==
  /\ {FontWidth, FontHeight, Width, Pitch} \subseteq Nat \ {0}
  /\ Height \in Nat /\ Height >= 4 * FontHeight
  /\ Pitch >= Width /\ Width + 9 * FontWidth <= UINT16_MAX + 1 /\ Height <= UINT16_MAX
  /\ \A text \in Texts \cup Messages : text \in Seq({LF, CR, HT, GLYPH})
  /\ MaxEscapes \in Nat

VARIABLES
  fb,                   \* pixel index -> the glyph drawn there, BLANK or RULE
  cursor_x, cursor_y,   \* of console_info, uint16_t
  ctx,                  \* the two callers of putchar: [todo, at, x, y, row, id]
  scroll,               \* and of console_scroll: [i, pixel], the pixel in hand
  glyphs,               \* ghost: where each glyph was drawn, in order
  stray,                \* ghost: a pixel outside the frame buffer was written
  scrolled,             \* ghost: console_scroll has run
  escapes,              \* ghost: Escape keys so far
  atRisk,               \* ghost: glyphs that Escapes amid a putchar may cost
  before                \* ghost: who scrolls undisturbed, and from which screen

cursor == <<cursor_x, cursor_y>>
ghosts == <<glyphs, stray, scrolled, escapes, atRisk>>
scrolling == <<scroll, before>>
vars == <<fb, cursor, ctx, scrolling, ghosts>>

BLANK == 0
RULE  == -1

(* The frame buffer: rows of Pitch pixels. *)
Pixels == 0 .. (Pitch * Height - 1)

Unscrolled == [i |-> 0, pixel |-> BLANK]

Nobody == [by |-> "nobody", screen |-> << >>]

Caller(todo) == [todo |-> todo, at |-> "next", x |-> 0, y |-> 0, row |-> 0, id |-> 0]

(* console_init's two lines, in rows of Width pixels. *)
HLine(y) == {y * Width + i : i \in 0 .. (Width - 1)}

start_pos == (Height \div 4) * 3

(* After fb_init and console_init. *)
Init ==
  /\ fb = [i \in Pixels |-> IF i \in HLine(start_pos) \cup HLine(start_pos + 1)
                            THEN RULE ELSE BLANK]
  /\ cursor_x = 0 /\ cursor_y = 0
  /\ \E text \in Texts : ctx = [kernel |-> Caller(text), handler |-> Caller(<< >>)]
  /\ scroll = [kernel |-> Unscrolled, handler |-> Unscrolled] /\ before = Nobody
  /\ glyphs = << >> /\ stray = FALSE /\ scrolled = FALSE /\ escapes = 0 /\ atRisk = 0

-----------------------------------------------------------------------------
(***************************************************************************)
(* putchar.  The handler, while it prints, keeps kernel() from running.    *)
(***************************************************************************)
Running == IF ctx.handler.todo # << >> THEN "handler" ELSE "kernel"

At(p, here) == p = Running /\ ctx[p].todo # << >> /\ ctx[p].at = here

Char(p) == Head(ctx[p].todo)

Goto(p, there) == ctx' = [ctx EXCEPT ![p].at = there]

Return(p) == ctx' = [ctx EXCEPT ![p] = Caller(Tail(@.todo))]

putchar(p) ==
  /\ At(p, "next")
  /\ \/ Char(p) = GLYPH /\ ctx' = [ctx EXCEPT ![p].at = "read_x", ![p].y = cursor_y]
     \/ Char(p) \in {LF, CR} /\ Goto(p, "load_y")
     \/ /\ Char(p) = HT /\ U16(cursor_x + 4 * FontWidth) < Width
        /\ ctx' = [ctx EXCEPT ![p].at = "tab", ![p].x = cursor_x]
     \/ Char(p) = HT /\ U16(cursor_x + 4 * FontWidth) >= Width /\ Goto(p, "load_y")
  /\ UNCHANGED <<fb, cursor, scrolling, ghosts>>

ReadX(p) ==
  /\ At(p, "read_x")
  /\ glyphs' = Append(glyphs, [x |-> cursor_x, y |-> ctx[p].y])
  /\ ctx' = [ctx EXCEPT ![p].at = "draw", ![p].x = cursor_x, ![p].id = Len(glyphs) + 1]
  /\ UNCHANGED <<fb, cursor, scrolling, stray, scrolled, escapes, atRisk>>

(* fb_putpixel's index; the test against max_pixels is commented out. *)
Index(x, y) == y * Pitch + x

Row(x, y) == {Index(x + j, y) : j \in 0 .. (FontWidth - 1)}

LastRow_late(row) == row = FontHeight

LastRow_early(row) == row + 2 >= FontHeight

LastRow(row) == row + 1 = FontHeight

console_drawchar(p) ==
  LET c == ctx[p]
      row == Row(c.x, c.y + c.row)
  IN  /\ At(p, "draw")
      /\ fb' = [i \in Pixels |-> IF i \in row THEN c.id ELSE fb[i]]
      /\ stray' = (stray \/ ~ (row \subseteq Pixels))
      /\ IF LastRow(c.row) THEN Goto(p, "advance")
                           ELSE ctx' = [ctx EXCEPT ![p].row = @ + 1]
      /\ UNCHANGED <<cursor, scrolling, glyphs, scrolled, escapes, atRisk>>

Advance(p) ==
  /\ At(p, "advance")
  /\ cursor_x' = U16(cursor_x + FontWidth) /\ UNCHANGED cursor_y
  /\ Return(p)
  /\ UNCHANGED <<fb, scrolling, ghosts>>

(* A tab that fits advances cursor_x twice; the other goes to a new line.  *)
Tab(p) ==
  /\ \/ At(p, "tab") /\ cursor_x' = U16(ctx[p].x + 8 * FontWidth)
     \/ At(p, "tab_end") /\ cursor_x' = 4 * FontWidth
  /\ Return(p)
  /\ UNCHANGED <<fb, cursor_y, scrolling, ghosts>>

AfterLine(p) == IF Char(p) = HT THEN Goto(p, "tab_end") ELSE Return(p)

PastBottom_late(y) == y > Height

PastBottom(y) == y > Height - FontHeight

Below_same(y) == y

Below(y) == U16(y + FontHeight)

console_next(p) ==
  LET below == Below(ctx[p].y)
  IN  /\ \/ /\ At(p, "load_y") /\ ctx' = [ctx EXCEPT ![p].at = "clear_x", ![p].y = cursor_y]
            /\ UNCHANGED cursor
         \/ At(p, "clear_x") /\ cursor_x' = 0 /\ Goto(p, "store_y") /\ UNCHANGED cursor_y
         \/ /\ At(p, "store_y") /\ cursor_y' = below /\ UNCHANGED cursor_x
            /\ IF PastBottom(below) THEN Goto(p, "scroll") ELSE AfterLine(p)
      /\ UNCHANGED <<fb, scrolling, ghosts>>

start_index == Width * FontHeight * 4

finish_index_short == Height * Width - start_index - Width

finish_index == Height * Width - start_index

end_index == Height * Width - 1

(* Four lines up, in place: finish_index pixels are each loaded and        *)
(* stored, then those behind finish_index are blanked, but for the last.   *)
(* The cursor stays below the screen (and of the two stores of 0 to        *)
(* cursor_x, console_next's and this one's, the compiler keeps the first). *)
console_scroll(p) ==
  LET i == scroll[p].i
      Stores(k, value) == fb' = [fb EXCEPT ![k] = value] /\ scroll' = [scroll EXCEPT ![p].i = i + 1]
      Begins == before' = IF i = 0 THEN [by |-> p, screen |-> fb] ELSE before
  IN  /\ \/ /\ At(p, "scroll") /\ i < finish_index
            /\ scroll' = [scroll EXCEPT ![p].pixel = fb[start_index + i]]
            /\ Goto(p, "scroll_store") /\ Begins /\ UNCHANGED <<fb, glyphs, scrolled>>
         \/ /\ At(p, "scroll_store") /\ Stores(i, scroll[p].pixel)
            /\ Goto(p, "scroll") /\ UNCHANGED <<before, glyphs, scrolled>>
         \/ /\ At(p, "scroll") /\ i >= finish_index /\ i + 1 < end_index
            /\ Stores(i + 1, BLANK) /\ Begins /\ UNCHANGED <<ctx, glyphs, scrolled>>
         \/ /\ At(p, "scroll") /\ i >= finish_index /\ i + 1 >= end_index
            /\ scroll' = [scroll EXCEPT ![p] = Unscrolled] /\ before' = Nobody /\ scrolled' = TRUE
            /\ glyphs' = [n \in DOMAIN glyphs |-> [glyphs[n] EXCEPT !.y = @ - 4 * FontHeight]]
            /\ AfterLine(p) /\ UNCHANGED fb
      /\ UNCHANGED <<cursor, stray, escapes, atRisk>>

(* kbd_handle's printf("%d\n", pit_ticks). *)
Escape(message) ==
  /\ escapes < MaxEscapes /\ ctx.handler.todo = << >>
  /\ ctx' = [ctx EXCEPT !.handler = Caller(message)]
  /\ escapes' = escapes + 1
  /\ atRisk' = IF ctx.kernel.at = "next" THEN atRisk
               ELSE atRisk + 1 + Cardinality({i \in DOMAIN message : message[i] = GLYPH})
  /\ before' = Nobody
  /\ UNCHANGED <<fb, cursor, scroll, glyphs, stray, scrolled>>

(* while(true) *)
Loop == ctx.kernel.todo = << >> /\ ctx.handler.todo = << >> /\ UNCHANGED vars

Next ==
  \/ \E p \in {"kernel", "handler"} :
       \/ putchar(p) \/ ReadX(p) \/ console_drawchar(p) \/ Advance(p)
       \/ Tab(p) \/ console_next(p) \/ console_scroll(p)
  \/ \E message \in Messages : Escape(message)
  \/ Loop

Spec == Init /\ [][Next]_vars

-----------------------------------------------------------------------------
(* The pixels of a glyph, and whether a screen shows all of it. *)
PixelsOf(g) == UNION {Row(g.x, g.y + i) : i \in 0 .. (FontHeight - 1)}

Shows(screen, g, n) == PixelsOf(g) \subseteq Pixels /\ \A i \in PixelsOf(g) : screen[i] = n

(* The glyphs drawn to the end, and those of them that have been damaged. *)
Drawn == DOMAIN glyphs \ {ctx[p].id : p \in {q \in DOMAIN ctx : ctx[q].at = "draw"}}

Lost == {n \in Drawn : ~ Shows(fb, glyphs[n], n)}

(* Every glyph began within its line: putchar does not wrap. *)
LinesFit == \A n \in DOMAIN glyphs : glyphs[n].x + FontWidth <= Width

Filled == scrolled \/ \E p \in DOMAIN ctx : ctx[p].at \in {"scroll", "scroll_store"}

(* Types; cursor and pixels stay in range, console_scroll's among them. *)
TypeOK ==
  /\ cursor_x \in 0 .. UINT16_MAX /\ cursor_y \in 0 .. UINT16_MAX
  /\ DOMAIN fb = Pixels /\ \A i \in Pixels : fb[i] \in {BLANK, RULE} \cup DOMAIN glyphs
  /\ \A p \in DOMAIN ctx : /\ ctx[p].row \in 0 .. (FontHeight - 1)
                           /\ ctx[p].id \in 0 .. Len(glyphs)
                           /\ ctx[p].todo = << >> => ctx[p].at = "next"
                           /\ scroll[p].i \in 0 .. end_index
                           /\ scroll[p].pixel \in {BLANK, RULE} \cup DOMAIN glyphs
                           /\ ctx[p].at = "scroll_store" => scroll[p].i < finish_index

(* As long as every line fits on the screen and the text has not reached   *)
(* its bottom, nothing is drawn outside the frame buffer, although         *)
(* fb_putpixel does not check: no interleaving of the two callers gets the *)
(* cursor there unnoticed.  Nothing is said of what follows: console_next  *)
(* leaves the cursor below the screen.                                     *)
InsideUntilFilled == LinesFit /\ stray => Filled

(* printf is not reentrant on this console (see Reentrant), but as long as *)
(* every line fits and the screen is not full the damage is bounded: an    *)
(* Escape amid a putchar costs at most the glyphs it prints itself and     *)
(* one more, and one between two putchars costs none.                      *)
DamageBounded == LinesFit /\ ~ Filled => Cardinality(Lost) <= atRisk

(* "These routines are thread safe and reentrant!" (printf.c, kprintf.h):  *)
(* no glyph is lost because the interrupt handler's printf came amid       *)
(* another one, on a screen with room for all of them.                     *)
Reentrant == LinesFit /\ ~ Filled => Lost = {}

(* As long as every line fits, the screen is not full and no Escape came   *)
(* amid a putchar, the screen reads in the order of printing, from left to *)
(* right and line by line.                                                 *)
ReadsInOrder ==
  LinesFit /\ ~ Filled /\ atRisk = 0 =>
    \A n, k \in DOMAIN glyphs : n < k =>
      \/ glyphs[n].y + FontHeight <= glyphs[k].y
      \/ glyphs[n].y = glyphs[k].y /\ glyphs[n].x + FontWidth <= glyphs[k].x

(* Scrolling in place keeps the text below the first four lines: a glyph   *)
(* that is whole before console_scroll is whole after it, four lines       *)
(* further up, if no Escape came in between.  One that does may print, and *)
(* scroll, itself; what is left of the text then is not said.              *)
ScrollKeepsText ==
  [][before.by # "nobody" /\ glyphs' # glyphs =>
       \A n \in DOMAIN glyphs :
         Shows(before.screen, glyphs[n], n) /\ glyphs[n].y >= 4 * FontHeight =>
           Shows(fb', glyphs'[n], n)]_vars
=============================================================================
