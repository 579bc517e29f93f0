--------------------------- MODULE ConsoleProofs ---------------------------
(***************************************************************************)
(* Proofs about the screen, for every size of screen and font, everything  *)
(* that kernel() and the Escape key may print, and any number of Escapes.  *)
(***************************************************************************)
EXTENDS Console, FiniteSetTheorems, TLAPS

-----------------------------------------------------------------------------
(***************************************************************************)
(* Types.                                                                  *)
(***************************************************************************)
Chars  == {LF, CR, HT, GLYPH}
Places == {"next", "read_x", "draw", "advance", "tab", "tab_end", "load_y", "clear_x", "store_y",
           "scroll", "scroll_store"}
Word   == 0 .. UINT16_MAX

Callers == {"kernel", "handler"}

CallerType == [todo : Seq(Chars), at : Places, x : Word, y : Word, row : 0 .. (FontHeight - 1), id : Nat]

CtxType == [Callers -> CallerType]

GlyphType == [x : Nat, y : Int]

(* What a pixel may hold. *)
Marks(gs) == {BLANK, RULE} \cup (1 .. Len(gs))

(* How far console_scroll is. *)
ScrollType(gs) == [i : 0 .. end_index, pixel : Marks(gs)]

SafeStore(c, s) == c.at = "scroll_store" => s.i < finish_index

(* What a caller knows of the glyph it draws. *)
Drawing(c, gs) ==
  /\ c.id \in 0 .. Len(gs)
  /\ c.at = "draw" => c.id \in 1 .. Len(gs) /\ gs[c.id].x = c.x
  /\ c.todo = << >> => c.at = "next"

Typed ==
  /\ cursor_x \in Word /\ cursor_y \in Word /\ ctx \in CtxType /\ glyphs \in Seq(GlyphType)
  /\ fb \in [Pixels -> Marks(glyphs)] /\ scroll \in [Callers -> ScrollType(glyphs)]
  /\ stray \in BOOLEAN /\ scrolled \in BOOLEAN /\ escapes \in Nat /\ atRisk \in Nat
  /\ \A p \in Callers : Drawing(ctx[p], glyphs) /\ SafeStore(ctx[p], scroll[p])

(* The bottom of the screen. *)
Lowest == Height - FontHeight

(* Above it, the cursor and what callers have read of it are on the screen.*)
OnScreen(y, cs) ==
  /\ y <= Lowest
  /\ \A p \in Callers : cs[p].at \in {"read_x", "draw"} => cs[p].y <= Lowest

Inside == ~ Filled => OnScreen(cursor_y, ctx)

-----------------------------------------------------------------------------
(* Numbers of 16 bits. *)
LEMMA U16Is ==
  ASSUME NEW n \in Nat
  PROVE  U16(n) \in Word /\ (n \in Word => U16(n) = n)
  <1>1. UINT16_MAX \in Nat
    BY DEF UINT16_MAX
  <1> QED
    BY <1>1 DEF U16, Word

(* The constants. *)
LEMMA Bounds ==
  /\ FontWidth \in Nat \ {0} /\ FontHeight \in Nat \ {0} /\ Width \in Nat \ {0} /\ Pitch \in Nat \ {0}
  /\ Height \in Nat /\ Lowest \in Nat /\ Lowest = Height - FontHeight /\ Lowest + FontHeight \in Word
  /\ Pitch >= Width /\ Width + 9 * FontWidth <= UINT16_MAX + 1 /\ UINT16_MAX \in Nat
  <1>1. /\ FontWidth \in Nat \ {0} /\ FontHeight \in Nat \ {0} /\ Width \in Nat \ {0} /\ Pitch \in Nat \ {0}
        /\ Height \in Nat /\ Height >= 4 * FontHeight
        /\ Pitch >= Width /\ Width + 9 * FontWidth <= UINT16_MAX + 1 /\ Height <= UINT16_MAX
    BY ConsoleAssumption
  <1>2. UINT16_MAX \in Nat
    BY DEF UINT16_MAX
  <1> QED
    BY <1>1, <1>2 DEF Lowest, Word

(* The pixels console_scroll counts are in the frame buffer. *)
LEMMA Indices ==
  /\ start_index \in Nat \ {0} /\ finish_index \in Nat /\ end_index \in Nat
  /\ finish_index + start_index = end_index + 1 /\ finish_index < end_index
  /\ 0 .. end_index \subseteq Pixels
  <1>1. Width * FontHeight \in Nat /\ Width * FontHeight >= 1
    BY Bounds
  <1>2. start_index \in Nat /\ start_index >= 4
    BY <1>1 DEF start_index
  <1>3. Height * Width \in Nat /\ Height * Width >= (4 * FontHeight) * Width /\ (4 * FontHeight) * Width = start_index
    BY Bounds, ConsoleAssumption DEF start_index
  <1>4. Height * Width <= Height * Pitch /\ Height * Pitch = Pitch * Height /\ Pitch * Height \in Nat
    BY Bounds
  <1> DEFINE screen == Height * Width
             all == Pitch * Height
  <1>5. /\ screen \in Nat /\ all \in Nat /\ screen >= start_index /\ screen <= all /\ Pixels = 0 .. (all - 1)
        /\ finish_index = screen - start_index /\ end_index = screen - 1
    BY <1>3, <1>4 DEF Pixels, finish_index, end_index
  <1> HIDE DEF screen, all
  <1> QED
    BY <1>2, <1>5

(* Pixels on the screen are in the frame buffer. *)
LEMMA OnScreenPixels ==
  ASSUME NEW x \in Nat, NEW y \in 0 .. (Height - 1), x + FontWidth <= Width
  PROVE  Row(x, y) \subseteq Pixels
  <1> SUFFICES ASSUME NEW j \in 0 .. (FontWidth - 1)
               PROVE  Index(x + j, y) \in Pixels
    BY DEF Row
  <1>1. x + j \in 0 .. (Pitch - 1)
    BY Bounds
  <1>2. y * Pitch \in Nat /\ y * Pitch <= (Height - 1) * Pitch /\ (Height - 1) * Pitch = Pitch * Height - Pitch
    BY Bounds
  <1>3. Pitch * Height \in Nat
    BY Bounds
  <1> QED
    BY <1>1, <1>2, <1>3, Bounds DEF Index, Pixels

(* A caller about to print. *)
LEMMA NewCaller ==
  ASSUME NEW todo \in Seq(Chars), NEW gs \in Seq(GlyphType)
  PROVE  /\ Caller(todo) \in CallerType /\ Drawing(Caller(todo), gs)
         /\ Caller(todo).todo = todo /\ Caller(todo).at = "next"
  <1>1. 0 \in 0 .. (FontHeight - 1) /\ 0 \in Word /\ 0 \in 0 .. Len(gs)
    BY Bounds DEF Word
  <1>2. Caller(todo) \in CallerType
    BY <1>1 DEF Caller, CallerType, Places
  <1>3. Caller(todo).id = 0 /\ Caller(todo).at = "next" /\ Caller(todo).todo = todo
    BY DEF Caller
  <1>4. Drawing(Caller(todo), gs)
    BY <1>1, <1>3 DEF Drawing
  <1> QED
    BY <1>2, <1>3, <1>4

(* Behind console_init. *)
LEMMA InitTyped == Init => Typed /\ Inside /\ ~ stray
  <1> SUFFICES ASSUME Init
               PROVE  Typed /\ Inside /\ ~ stray
    OBVIOUS
  <1>1. PICK text \in Texts : ctx = [kernel |-> Caller(text), handler |-> Caller(<< >>)]
    BY DEF Init
  <1>2. text \in Seq(Chars) /\ << >> \in Seq(Chars) /\ << >> \in Seq(GlyphType)
    BY ConsoleAssumption DEF Chars
  <1>3. /\ ctx \in CtxType
        /\ ctx["kernel"] = Caller(text) /\ ctx["handler"] = Caller(<< >>)
    <2>1. Caller(text) \in CallerType /\ Caller(<< >>) \in CallerType
      BY <1>2, NewCaller
    <2> QED
      BY <1>1, <2>1 DEF CtxType, Callers
  <1>4. \A p \in Callers : Drawing(ctx[p], glyphs) /\ ctx[p].at = "next"
    <2>1. glyphs = << >>
      BY DEF Init
    <2>2. Drawing(ctx["kernel"], glyphs) /\ ctx["kernel"].at = "next"
      BY <1>2, <1>3, <2>1, NewCaller
    <2>3. Drawing(ctx["handler"], glyphs) /\ ctx["handler"].at = "next"
      BY <1>2, <1>3, <2>1, NewCaller
    <2> QED
      BY <2>2, <2>3 DEF Callers
  <1>5. fb \in [Pixels -> Marks(glyphs)]
    BY DEF Init, Marks
  <1>6. 0 \in Word /\ 0 <= Lowest
    BY Bounds DEF Word
  <1>s. scroll \in [Callers -> ScrollType(glyphs)]
    <2>1. Unscrolled \in ScrollType(glyphs)
      BY Indices DEF Unscrolled, ScrollType, Marks
    <2> QED
      BY <2>1 DEF Init, Callers
  <1>t. \A p \in Callers : SafeStore(ctx[p], scroll[p])
    BY <1>4 DEF SafeStore
  <1>7. Typed
    BY <1>2, <1>3, <1>4, <1>5, <1>6, <1>s, <1>t DEF Init, Typed
  <1>8. Inside
    BY <1>4, <1>6 DEF Init, Inside, OnScreen
  <1> QED
    BY <1>7, <1>8 DEF Init

-----------------------------------------------------------------------------
(***************************************************************************)
(* What the steps do to the callers.                                       *)
(***************************************************************************)
(* A caller goes on within putchar, or returns from it. *)
Becomes(p, at, x, y, row, id) ==
  /\ ctx' \in CtxType /\ \A q \in Callers \ {p} : ctx'[q] = ctx[q]
  /\ ctx'[p].todo = ctx[p].todo /\ ctx'[p].at = at
  /\ ctx'[p].x = x /\ ctx'[p].y = y /\ ctx'[p].row = row /\ ctx'[p].id = id

Returns(p) ==
  /\ ctx' \in CtxType /\ \A q \in Callers \ {p} : ctx'[q] = ctx[q]
  /\ Tail(ctx[p].todo) \in Seq(Chars) /\ ctx'[p] = Caller(Tail(ctx[p].todo))

(* The types of a caller's fields. *)
LEMMA Fields ==
  ASSUME Typed, NEW p \in Callers
  PROVE  /\ ctx[p].todo \in Seq(Chars) /\ ctx[p].at \in Places /\ ctx[p].x \in Word /\ ctx[p].y \in Word
         /\ ctx[p].row \in 0 .. (FontHeight - 1) /\ ctx[p].id \in Nat
         /\ Drawing(ctx[p], glyphs) /\ Len(glyphs) \in Nat /\ DOMAIN ctx = Callers
         /\ scroll[p] \in ScrollType(glyphs) /\ scroll[p].i \in 0 .. end_index /\ scroll[p].pixel \in Marks(glyphs)
  BY DEF Typed, CtxType, CallerType, ScrollType

(* Replacing a caller's record. *)
LEMMA Replaces ==
  ASSUME Typed, NEW p \in Callers, NEW c \in CallerType, ctx' = [ctx EXCEPT ![p] = c]
  PROVE  /\ ctx' \in CtxType /\ \A q \in Callers \ {p} : ctx'[q] = ctx[q]
         /\ ctx'[p] = c
  BY DEF Typed, CtxType

(* A caller goes on. *)
LEMMA GotoIs ==
  ASSUME Typed, NEW p \in Callers, NEW there \in Places, Goto(p, there)
  PROVE  Becomes(p, there, ctx[p].x, ctx[p].y, ctx[p].row, ctx[p].id)
  <1> DEFINE c == [ctx[p] EXCEPT !.at = there]
  <1>1. ctx' = [ctx EXCEPT ![p] = c]
    BY DEF Goto, Typed, CtxType
  <1>2. ctx[p] \in CallerType
    BY DEF Typed, CtxType
  <1>3. /\ c \in CallerType
        /\ c.todo = ctx[p].todo /\ c.at = there /\ c.x = ctx[p].x /\ c.y = ctx[p].y
        /\ c.row = ctx[p].row /\ c.id = ctx[p].id
    BY <1>2 DEF CallerType
  <1> HIDE DEF c
  <1> QED
    BY <1>1, <1>3, Replaces DEF Becomes

(* A caller returns from putchar. *)
LEMMA ReturnIs ==
  ASSUME Typed, NEW p \in Callers, ctx[p].todo # << >>, Return(p)
  PROVE  Returns(p)
  <1>1. Tail(ctx[p].todo) \in Seq(Chars)
    BY Fields
  <1>2. ctx' = [ctx EXCEPT ![p] = Caller(Tail(ctx[p].todo))]
    BY DEF Return, Typed, CtxType
  <1>3. Caller(Tail(ctx[p].todo)) \in CallerType
    <2>1. << >> \in Seq(GlyphType)
      OBVIOUS
    <2> QED
      BY <1>1, <2>1, NewCaller
  <1> QED
    BY <1>1, <1>2, <1>3, Replaces DEF Returns

(* A caller that returned is between two characters. *)
LEMMA ReturnsNext ==
  ASSUME NEW p \in Callers, Returns(p)
  PROVE  ctx'[p].at = "next"
  <1>1. Tail(ctx[p].todo) \in Seq(Chars) /\ ctx'[p] = Caller(Tail(ctx[p].todo)) /\ << >> \in Seq(GlyphType)
    BY DEF Returns
  <1> QED
    BY <1>1, NewCaller

(* putchar dispatches on the character. *)
LEMMA PutcharIs ==
  ASSUME Typed, NEW p \in Callers, putchar(p)
  PROVE  \/ /\ Head(ctx[p].todo) = GLYPH
            /\ Becomes(p, "read_x", ctx[p].x, cursor_y, ctx[p].row, ctx[p].id)
         \/ Becomes(p, "load_y", ctx[p].x, ctx[p].y, ctx[p].row, ctx[p].id)
         \/ /\ U16(cursor_x + 4 * FontWidth) < Width
            /\ Becomes(p, "tab", cursor_x, ctx[p].y, ctx[p].row, ctx[p].id)
  <1>0. cursor_x \in Word /\ cursor_y \in Word /\ ctx[p] \in CallerType
    BY DEF Typed, CtxType
  <1>1. CASE ctx' = [ctx EXCEPT ![p].at = "read_x", ![p].y = cursor_y] /\ Head(ctx[p].todo) = GLYPH
    <2> DEFINE c == [ctx[p] EXCEPT !.at = "read_x", !.y = cursor_y]
    <2>1. ctx' = [ctx EXCEPT ![p] = c]
      BY <1>1 DEF Typed, CtxType
    <2>2. /\ c \in CallerType
          /\ c.todo = ctx[p].todo /\ c.at = "read_x" /\ c.x = ctx[p].x /\ c.y = cursor_y
          /\ c.row = ctx[p].row /\ c.id = ctx[p].id
      BY <1>0 DEF CallerType, Places
    <2> HIDE DEF c
    <2>3. Becomes(p, "read_x", ctx[p].x, cursor_y, ctx[p].row, ctx[p].id)
      BY <2>1, <2>2, Replaces DEF Becomes
    <2> QED
      BY <1>1, <2>3
  <1>2. CASE ctx' = [ctx EXCEPT ![p].at = "tab", ![p].x = cursor_x] /\ U16(cursor_x + 4 * FontWidth) < Width
    <2> DEFINE c == [ctx[p] EXCEPT !.at = "tab", !.x = cursor_x]
    <2>1. ctx' = [ctx EXCEPT ![p] = c]
      BY <1>2 DEF Typed, CtxType
    <2>2. /\ c \in CallerType
          /\ c.todo = ctx[p].todo /\ c.at = "tab" /\ c.x = cursor_x /\ c.y = ctx[p].y
          /\ c.row = ctx[p].row /\ c.id = ctx[p].id
      BY <1>0 DEF CallerType, Places
    <2> HIDE DEF c
    <2>3. Becomes(p, "tab", cursor_x, ctx[p].y, ctx[p].row, ctx[p].id)
      BY <2>1, <2>2, Replaces DEF Becomes
    <2> QED
      BY <1>2, <2>3
  <1>3. CASE Goto(p, "load_y")
    BY <1>3, GotoIs DEF Places
  <1> QED
    BY <1>1, <1>2, <1>3 DEF putchar, Char

(* A glyph's position is complete. *)
LEMMA ReadXIs ==
  ASSUME Typed, NEW p \in Callers, ReadX(p)
  PROVE  /\ Becomes(p, "draw", cursor_x, ctx[p].y, ctx[p].row, Len(glyphs) + 1)
         /\ glyphs' = Append(glyphs, [x |-> cursor_x, y |-> ctx[p].y])
         /\ [x |-> cursor_x, y |-> ctx[p].y] \in GlyphType
  <1>0. cursor_x \in Word /\ ctx[p] \in CallerType /\ Len(glyphs) + 1 \in Nat
    BY DEF Typed, CtxType
  <1> DEFINE c == [ctx[p] EXCEPT !.at = "draw", !.x = cursor_x, !.id = Len(glyphs) + 1]
  <1>1. ctx' = [ctx EXCEPT ![p] = c]
    BY DEF ReadX, Typed, CtxType
  <1>2. /\ c \in CallerType
        /\ c.todo = ctx[p].todo /\ c.at = "draw" /\ c.x = cursor_x /\ c.y = ctx[p].y
        /\ c.row = ctx[p].row /\ c.id = Len(glyphs) + 1
    BY <1>0 DEF CallerType, Places
  <1> HIDE DEF c
  <1>3. Becomes(p, "draw", cursor_x, ctx[p].y, ctx[p].row, Len(glyphs) + 1)
    BY <1>1, <1>2, Replaces DEF Becomes
  <1>4. [x |-> cursor_x, y |-> ctx[p].y] \in GlyphType
    BY <1>0, Fields, Bounds DEF GlyphType, Word
  <1> QED
    BY <1>3, <1>4 DEF ReadX

(* A row is drawn. *)
LEMMA DrawcharIs ==
  ASSUME Typed, NEW p \in Callers, console_drawchar(p)
  PROVE  \/ Becomes(p, "advance", ctx[p].x, ctx[p].y, ctx[p].row, ctx[p].id)
         \/ Becomes(p, "draw", ctx[p].x, ctx[p].y, ctx[p].row + 1, ctx[p].id)
  <1>0. ctx[p] \in CallerType /\ ctx[p].at = "draw"
    BY DEF Typed, CtxType, console_drawchar, At
  <1>1. CASE LastRow(ctx[p].row)
    <2>1. Goto(p, "advance") /\ "advance" \in Places
      BY <1>1 DEF console_drawchar, Places
    <2> QED
      BY <2>1, GotoIs
  <1>2. CASE ~ LastRow(ctx[p].row)
    <2> DEFINE c == [ctx[p] EXCEPT !.row = @ + 1]
    <2>1. ctx' = [ctx EXCEPT ![p] = c]
      BY <1>2 DEF console_drawchar, Typed, CtxType
    <2>2. ctx[p].row + 1 \in 0 .. (FontHeight - 1)
      BY <1>2, Fields, Bounds DEF LastRow
    <2>3. /\ c \in CallerType
          /\ c.todo = ctx[p].todo /\ c.at = "draw" /\ c.x = ctx[p].x /\ c.y = ctx[p].y
          /\ c.row = ctx[p].row + 1 /\ c.id = ctx[p].id
      BY <1>0, <2>2 DEF CallerType
    <2> HIDE DEF c
    <2>4. Becomes(p, "draw", ctx[p].x, ctx[p].y, ctx[p].row + 1, ctx[p].id)
      BY <2>1, <2>3, Replaces DEF Becomes
    <2> QED
      BY <2>4
  <1> QED
    BY <1>1, <1>2

(* A line feed ends, or a tab goes on. *)
LEMMA AfterLineIs ==
  ASSUME Typed, NEW p \in Callers, ctx[p].todo # << >>, AfterLine(p)
  PROVE  \/ Becomes(p, "tab_end", ctx[p].x, ctx[p].y, ctx[p].row, ctx[p].id)
         \/ Returns(p)
  <1>1. CASE Goto(p, "tab_end")
    BY <1>1, GotoIs DEF Places
  <1>2. CASE Return(p)
    BY <1>2, ReturnIs
  <1> QED
    BY <1>1, <1>2 DEF AfterLine

(* A line feed's three steps; the last moves the cursor down a line, and  *)
(* goes on to console_scroll below the bottom.                            *)
LEMMA NextIs ==
  ASSUME Typed, NEW p \in Callers, console_next(p)
  PROVE  \/ /\ ctx[p].at = "load_y" /\ UNCHANGED cursor
            /\ Becomes(p, "clear_x", ctx[p].x, cursor_y, ctx[p].row, ctx[p].id)
         \/ /\ ctx[p].at = "clear_x" /\ cursor_x' = 0 /\ cursor_y' = cursor_y
            /\ Becomes(p, "store_y", ctx[p].x, ctx[p].y, ctx[p].row, ctx[p].id)
         \/ /\ ctx[p].at = "store_y" /\ cursor_y' = Below(ctx[p].y) /\ cursor_x' = cursor_x
            /\ Becomes(p, "scroll", ctx[p].x, ctx[p].y, ctx[p].row, ctx[p].id)
         \/ /\ ctx[p].at = "store_y" /\ cursor_y' = Below(ctx[p].y) /\ cursor_x' = cursor_x
            /\ cursor_y' <= Lowest
            /\ \/ Becomes(p, "tab_end", ctx[p].x, ctx[p].y, ctx[p].row, ctx[p].id)
               \/ Returns(p)
  <1>0. ctx[p] \in CallerType /\ cursor_y \in Word
    BY DEF Typed, CtxType
  <1>1. CASE /\ At(p, "load_y") /\ ctx' = [ctx EXCEPT ![p].at = "clear_x", ![p].y = cursor_y]
             /\ UNCHANGED cursor
    <2> DEFINE c == [ctx[p] EXCEPT !.at = "clear_x", !.y = cursor_y]
    <2>1. ctx' = [ctx EXCEPT ![p] = c]
      BY <1>1 DEF Typed, CtxType
    <2>2. /\ c \in CallerType
          /\ c.todo = ctx[p].todo /\ c.at = "clear_x" /\ c.x = ctx[p].x /\ c.y = cursor_y
          /\ c.row = ctx[p].row /\ c.id = ctx[p].id
      BY <1>0 DEF CallerType, Places
    <2> HIDE DEF c
    <2>3. Becomes(p, "clear_x", ctx[p].x, cursor_y, ctx[p].row, ctx[p].id)
      BY <2>1, <2>2, Replaces DEF Becomes
    <2> QED
      BY <1>1, <2>3 DEF At
  <1>2. CASE At(p, "clear_x") /\ cursor_x' = 0 /\ Goto(p, "store_y") /\ UNCHANGED cursor_y
    <2>1. Becomes(p, "store_y", ctx[p].x, ctx[p].y, ctx[p].row, ctx[p].id)
      BY <1>2, GotoIs DEF Places
    <2> QED
      BY <1>2, <2>1 DEF At
  <1>3. CASE /\ At(p, "store_y") /\ cursor_y' = Below(ctx[p].y) /\ UNCHANGED cursor_x
             /\ IF PastBottom(Below(ctx[p].y)) THEN Goto(p, "scroll") ELSE AfterLine(p)
    <2>1. ctx[p].todo # << >> /\ ctx[p].at = "store_y" /\ cursor_y' = Below(ctx[p].y) /\ cursor_x' = cursor_x
      BY <1>3 DEF At
    <2>2. CASE PastBottom(Below(ctx[p].y))
      <3>1. Becomes(p, "scroll", ctx[p].x, ctx[p].y, ctx[p].row, ctx[p].id)
        BY <1>3, <2>2, GotoIs DEF Places
      <3> QED
        BY <2>1, <3>1
    <2>3. CASE ~ PastBottom(Below(ctx[p].y))
      <3>1. \/ Becomes(p, "tab_end", ctx[p].x, ctx[p].y, ctx[p].row, ctx[p].id)
            \/ Returns(p)
        BY <1>3, <2>1, <2>3, AfterLineIs
      <3>2. ctx[p].y + FontHeight \in Nat
        BY Fields, Bounds DEF Word
      <3>3. Below(ctx[p].y) \in Int
        BY <3>2, U16Is, Bounds DEF Below, Word
      <3>4. Below(ctx[p].y) <= Lowest
        BY <2>3, <3>3, Bounds DEF PastBottom
      <3> QED
        BY <2>1, <3>1, <3>4
    <2> QED
      BY <2>2, <2>3
  <1> QED
    BY <1>1, <1>2, <1>3 DEF console_next

-----------------------------------------------------------------------------
(***************************************************************************)
(* Steps keep the glyphs' columns, and what callers know.                  *)
(***************************************************************************)
KeepsGlyphs ==
  /\ glyphs' \in Seq(GlyphType) /\ Len(glyphs) <= Len(glyphs')
  /\ \A n \in 1 .. Len(glyphs) : glyphs'[n].x = glyphs[n].x

(* No glyph is added or moved. *)
LEMMA SameGlyphs ==
  ASSUME Typed, glyphs' = glyphs
  PROVE  KeepsGlyphs
  <1>1. glyphs \in Seq(GlyphType) /\ Len(glyphs) \in Nat
    BY DEF Typed
  <1> QED
    BY <1>1 DEF KeepsGlyphs

(* What one caller knows stays true while the other runs. *)
LEMMA StillDrawing ==
  ASSUME Typed, KeepsGlyphs, NEW q \in Callers
  PROVE  Drawing(ctx[q], glyphs')
  <1>1. /\ Drawing(ctx[q], glyphs) /\ Len(glyphs) \in Nat /\ Len(glyphs') \in Nat /\ Len(glyphs) <= Len(glyphs')
        /\ \A n \in 1 .. Len(glyphs) : glyphs'[n].x = glyphs[n].x
    BY Fields DEF KeepsGlyphs
  <1>2. ctx[q].id \in 0 .. Len(glyphs')
    BY <1>1 DEF Drawing
  <1>3. ctx[q].at = "draw" => ctx[q].id \in 1 .. Len(glyphs') /\ glyphs'[ctx[q].id].x = ctx[q].x
    BY <1>1 DEF Drawing
  <1> QED
    BY <1>1, <1>2, <1>3 DEF Drawing

(* A caller that goes on knows what it draws. *)
LEMMA GoesOn ==
  ASSUME Typed, KeepsGlyphs, NEW p \in Callers, ctx[p].todo # << >>,
         NEW at, NEW x, NEW y, NEW row, NEW id \in 0 .. Len(glyphs'), Becomes(p, at, x, y, row, id),
         at = "draw" => id \in 1 .. Len(glyphs') /\ glyphs'[id].x = x
  PROVE  \A q \in Callers : Drawing(ctx'[q], glyphs')
  <1> SUFFICES ASSUME NEW q \in Callers
               PROVE  Drawing(ctx'[q], glyphs')
    OBVIOUS
  <1>1. CASE q # p
    <2>1. ctx'[q] = ctx[q]
      BY <1>1 DEF Becomes
    <2> QED
      BY <2>1, StillDrawing
  <1>2. CASE q = p
    <2>1. ctx'[p].todo = ctx[p].todo /\ ctx'[p].at = at /\ ctx'[p].x = x /\ ctx'[p].id = id
      BY DEF Becomes
    <2> QED
      BY <1>2, <2>1 DEF Drawing
  <1> QED
    BY <1>1, <1>2

(* A caller that returned draws nothing. *)
LEMMA HasReturned ==
  ASSUME Typed, KeepsGlyphs, NEW p \in Callers, Returns(p)
  PROVE  \A q \in Callers : Drawing(ctx'[q], glyphs')
  <1> SUFFICES ASSUME NEW q \in Callers
               PROVE  Drawing(ctx'[q], glyphs')
    OBVIOUS
  <1>1. CASE q # p
    <2>1. ctx'[q] = ctx[q]
      BY <1>1 DEF Returns
    <2> QED
      BY <2>1, StillDrawing
  <1>2. CASE q = p
    <2>1. ctx'[p] = Caller(Tail(ctx[p].todo)) /\ Tail(ctx[p].todo) \in Seq(Chars) /\ glyphs' \in Seq(GlyphType)
      BY DEF Returns, KeepsGlyphs
    <2> QED
      BY <1>2, <2>1, NewCaller
  <1> QED
    BY <1>1, <1>2

(* Steps within a glyph, a tab or a line feed know what they knew. *)
LEMMA GoesOnSame ==
  ASSUME Typed, glyphs' = glyphs, NEW p \in Callers, ctx[p].todo # << >>,
         NEW at, at # "draw" \/ ctx[p].at = "draw",
         NEW x, at = "draw" => x = ctx[p].x, NEW y, NEW row, Becomes(p, at, x, y, row, ctx[p].id)
  PROVE  \A q \in Callers : Drawing(ctx'[q], glyphs')
  <1>1. Drawing(ctx[p], glyphs) /\ KeepsGlyphs
    BY Fields, SameGlyphs
  <1>2. ctx[p].id \in 0 .. Len(glyphs')
    BY <1>1 DEF Drawing
  <1>3. at = "draw" => ctx[p].id \in 1 .. Len(glyphs') /\ glyphs'[ctx[p].id].x = x
    BY <1>1 DEF Drawing
  <1> QED
    BY <1>1, <1>2, <1>3, GoesOn

(* The steps of a caller, and of the keyboard. *)
Step(p) ==
  \/ putchar(p) \/ ReadX(p) \/ console_drawchar(p) \/ Advance(p)
  \/ Tab(p) \/ console_next(p) \/ console_scroll(p)

(* Only the running caller steps. *)
LEMMA StepRuns ==
  ASSUME NEW p \in Callers, Step(p)
  PROVE  p = Running /\ ctx[p].todo # << >>
  BY DEF Step, putchar, ReadX, console_drawchar, Advance, Tab, console_next, console_scroll, At

(* console_scroll's steps. *)
Moves(p, i, pixel) ==
  /\ scroll' \in [Callers -> ScrollType(glyphs)] /\ \A q \in Callers \ {p} : scroll'[q] = scroll[q]
  /\ scroll'[p].i = i /\ scroll'[p].pixel = pixel

Begins(p) == before' = IF scroll[p].i = 0 THEN [by |-> p, screen |-> fb] ELSE before

Loads(p) ==
  /\ ctx[p].at = "scroll" /\ scroll[p].i < finish_index /\ start_index + scroll[p].i \in Pixels
  /\ Becomes(p, "scroll_store", ctx[p].x, ctx[p].y, ctx[p].row, ctx[p].id)
  /\ Moves(p, scroll[p].i, fb[start_index + scroll[p].i])
  /\ Begins(p) /\ fb' = fb /\ glyphs' = glyphs /\ scrolled' = scrolled

Stores(p) ==
  /\ ctx[p].at = "scroll_store" /\ scroll[p].i < finish_index
  /\ Becomes(p, "scroll", ctx[p].x, ctx[p].y, ctx[p].row, ctx[p].id)
  /\ Moves(p, scroll[p].i + 1, scroll[p].pixel)
  /\ fb' = [fb EXCEPT ![scroll[p].i] = scroll[p].pixel]
  /\ before' = before /\ glyphs' = glyphs /\ scrolled' = scrolled

Blanks(p) ==
  /\ ctx[p].at = "scroll" /\ scroll[p].i >= finish_index /\ scroll[p].i + 1 < end_index
  /\ ctx' = ctx /\ Moves(p, scroll[p].i + 1, scroll[p].pixel)
  /\ fb' = [fb EXCEPT ![scroll[p].i + 1] = BLANK]
  /\ Begins(p) /\ glyphs' = glyphs /\ scrolled' = scrolled

Ends(p) ==
  /\ ctx[p].at = "scroll" /\ scroll[p].i >= finish_index
  /\ \/ Becomes(p, "tab_end", ctx[p].x, ctx[p].y, ctx[p].row, ctx[p].id)
     \/ Returns(p)
  /\ Moves(p, 0, BLANK) /\ before' = Nobody /\ scrolled' = TRUE /\ fb' = fb
  /\ glyphs' = [n \in DOMAIN glyphs |-> [glyphs[n] EXCEPT !.y = @ - 4 * FontHeight]]

(* One pixel in hand, or one further. *)
LEMMA Moving ==
  ASSUME Typed, NEW p \in Callers, NEW s \in ScrollType(glyphs), scroll' = [scroll EXCEPT ![p] = s]
  PROVE  Moves(p, s.i, s.pixel)
  BY DEF Typed, Moves

(* The next pixel. *)
LEMMA MovesOn ==
  ASSUME Typed, NEW p \in Callers, scroll[p].i + 1 \in 0 .. end_index,
         scroll' = [scroll EXCEPT ![p].i = scroll[p].i + 1]
  PROVE  Moves(p, scroll[p].i + 1, scroll[p].pixel)
  <1> DEFINE s == [scroll[p] EXCEPT !.i = scroll[p].i + 1]
  <1>1. scroll' = [scroll EXCEPT ![p] = s]
    BY DEF Typed
  <1>2. s \in ScrollType(glyphs) /\ s.i = scroll[p].i + 1 /\ s.pixel = scroll[p].pixel
    BY Fields DEF ScrollType
  <1> HIDE DEF s
  <1> QED
    BY <1>1, <1>2, Moving

(* There are no others. *)
LEMMA ScrollIs ==
  ASSUME Typed, NEW p \in Callers, console_scroll(p)
  PROVE  Loads(p) \/ Stores(p) \/ Blanks(p) \/ Ends(p)
  <1>0. scroll[p] \in ScrollType(glyphs) /\ scroll[p].i \in 0 .. end_index /\ scroll[p].pixel \in Marks(glyphs)
    BY Fields
  <1>1. CASE /\ At(p, "scroll") /\ scroll[p].i < finish_index
             /\ scroll' = [scroll EXCEPT ![p].pixel = fb[start_index + scroll[p].i]]
             /\ Goto(p, "scroll_store") /\ Begins(p) /\ UNCHANGED <<fb, glyphs, scrolled>>
    <2>1. Becomes(p, "scroll_store", ctx[p].x, ctx[p].y, ctx[p].row, ctx[p].id)
      BY <1>1, GotoIs DEF Places
    <2>2. start_index + scroll[p].i \in Pixels
      BY <1>0, <1>1, Indices
    <2>3. fb[start_index + scroll[p].i] \in Marks(glyphs)
      BY <2>2 DEF Typed
    <2> DEFINE s == [scroll[p] EXCEPT !.pixel = fb[start_index + scroll[p].i]]
    <2>4. scroll' = [scroll EXCEPT ![p] = s]
      BY <1>1 DEF Typed
    <2>5. s \in ScrollType(glyphs) /\ s.i = scroll[p].i /\ s.pixel = fb[start_index + scroll[p].i]
      BY <1>0, <2>3 DEF ScrollType
    <2> HIDE DEF s
    <2>6. Moves(p, scroll[p].i, fb[start_index + scroll[p].i])
      BY <2>4, <2>5, Moving
    <2> QED
      BY <1>1, <2>1, <2>2, <2>6 DEF Loads, At
  <1>2. CASE /\ At(p, "scroll_store") /\ fb' = [fb EXCEPT ![scroll[p].i] = scroll[p].pixel]
             /\ scroll' = [scroll EXCEPT ![p].i = scroll[p].i + 1]
             /\ Goto(p, "scroll") /\ UNCHANGED <<before, glyphs, scrolled>>
    <2>1. Becomes(p, "scroll", ctx[p].x, ctx[p].y, ctx[p].row, ctx[p].id)
      BY <1>2, GotoIs DEF Places
    <2>2. scroll[p].i < finish_index
      BY <1>2 DEF Typed, SafeStore, At
    <2>3. scroll[p].i + 1 \in 0 .. end_index
      BY <1>0, <2>2, Indices
    <2>4. Moves(p, scroll[p].i + 1, scroll[p].pixel)
      BY <1>2, <2>3, MovesOn
    <2> QED
      BY <1>2, <2>1, <2>2, <2>4 DEF Stores, At
  <1>3. CASE /\ At(p, "scroll") /\ scroll[p].i >= finish_index /\ scroll[p].i + 1 < end_index
             /\ fb' = [fb EXCEPT ![scroll[p].i + 1] = BLANK]
             /\ scroll' = [scroll EXCEPT ![p].i = scroll[p].i + 1]
             /\ Begins(p) /\ UNCHANGED <<ctx, glyphs, scrolled>>
    <2>1. scroll[p].i + 1 \in 0 .. end_index
      BY <1>0, <1>3, Indices
    <2>2. Moves(p, scroll[p].i + 1, scroll[p].pixel)
      BY <1>3, <2>1, MovesOn
    <2> QED
      BY <1>3, <2>2 DEF Blanks, At
  <1>4. CASE /\ At(p, "scroll") /\ scroll[p].i >= finish_index
             /\ scroll' = [scroll EXCEPT ![p] = Unscrolled] /\ before' = Nobody /\ scrolled' = TRUE
             /\ glyphs' = [n \in DOMAIN glyphs |-> [glyphs[n] EXCEPT !.y = @ - 4 * FontHeight]]
             /\ AfterLine(p) /\ UNCHANGED fb
    <2>1. \/ Becomes(p, "tab_end", ctx[p].x, ctx[p].y, ctx[p].row, ctx[p].id)
          \/ Returns(p)
      BY <1>4, AfterLineIs DEF At
    <2>2. Unscrolled \in ScrollType(glyphs) /\ Unscrolled.i = 0 /\ Unscrolled.pixel = BLANK
      BY Indices DEF Unscrolled, ScrollType, Marks
    <2>3. Moves(p, 0, BLANK)
      BY <1>4, <2>2, Moving
    <2> QED
      BY <1>4, <2>1, <2>3 DEF Ends, At
  <1> QED
    BY <1>1, <1>2, <1>3, <1>4 DEF console_scroll, Begins

(* The last of them moves the glyphs up. *)
LEMMA ScrolledIs ==
  ASSUME Typed, NEW p \in Callers, Ends(p)
  PROVE  /\ KeepsGlyphs /\ Len(glyphs') = Len(glyphs) /\ DOMAIN glyphs' = DOMAIN glyphs
         /\ \A n \in DOMAIN glyphs : glyphs'[n] = [glyphs[n] EXCEPT !.y = @ - 4 * FontHeight]
  <1>1. glyphs' = [n \in DOMAIN glyphs |-> [glyphs[n] EXCEPT !.y = @ - 4 * FontHeight]]
    BY DEF Ends
  <1>2. DOMAIN glyphs = 1 .. Len(glyphs) /\ Len(glyphs) \in Nat /\ \A n \in DOMAIN glyphs : glyphs[n] \in GlyphType
    BY DEF Typed
  <1>3. \A n \in DOMAIN glyphs : /\ glyphs'[n] = [glyphs[n] EXCEPT !.y = @ - 4 * FontHeight]
                                 /\ glyphs'[n] \in GlyphType /\ glyphs'[n].x = glyphs[n].x
    <2> SUFFICES ASSUME NEW g \in GlyphType
                 PROVE  LET up == [g EXCEPT !.y = @ - 4 * FontHeight]
                        IN  up \in GlyphType /\ up.x = g.x
      BY <1>1, <1>2
    <2>1. g.y - 4 * FontHeight \in Int
      BY Bounds DEF GlyphType
    <2> QED
      BY <2>1 DEF GlyphType
  <1>4. glyphs' \in Seq(GlyphType) /\ Len(glyphs') = Len(glyphs) /\ DOMAIN glyphs' = DOMAIN glyphs
    BY <1>1, <1>2, <1>3
  <1> QED
    BY <1>2, <1>3, <1>4 DEF KeepsGlyphs

-----------------------------------------------------------------------------
(***************************************************************************)
(* Type correctness.                                                       *)
(***************************************************************************)
(* Pixels hold glyphs that exist. *)
LEMMA FbTyped ==
  ASSUME Typed, NEW p \in Callers, Step(p)
  PROVE  fb' \in [Pixels -> Marks(glyphs')]
  <1>0. fb \in [Pixels -> Marks(glyphs)]
    BY DEF Typed, Marks
  <1>1. CASE fb' = fb /\ glyphs' = glyphs
    BY <1>0, <1>1
  <1>2. CASE ReadX(p)
    <2>1. glyphs' = Append(glyphs, [x |-> cursor_x, y |-> ctx[p].y]) /\ fb' = fb
      BY <1>2 DEF ReadX
    <2>2. Len(glyphs') = Len(glyphs) + 1 /\ Len(glyphs) \in Nat
      BY <2>1 DEF Typed
    <2>3. Marks(glyphs) \subseteq Marks(glyphs')
      BY <2>2 DEF Marks
    <2> QED
      BY <1>0, <2>1, <2>3
  <1>3. CASE console_drawchar(p)
    <2>1. /\ fb' = [i \in Pixels |-> IF i \in Row(ctx[p].x, ctx[p].y + ctx[p].row) THEN ctx[p].id ELSE fb[i]]
          /\ glyphs' = glyphs /\ ctx[p].at = "draw"
      BY <1>3 DEF console_drawchar, At
    <2>2. ctx[p].id \in Marks(glyphs)
      BY <2>1, Fields DEF Drawing, Marks
    <2> QED
      BY <1>0, <2>1, <2>2
  <1>4. CASE console_scroll(p)
    <2>1. BLANK \in Marks(glyphs) /\ scroll[p].pixel \in Marks(glyphs)
      BY Fields DEF Marks
    <2>2. fb' \in [Pixels -> Marks(glyphs)]
      BY <1>0, <1>4, <2>1, ScrollIs DEF Loads, Stores, Blanks, Ends
    <2>3. Len(glyphs') = Len(glyphs)
      BY <1>4, ScrollIs, ScrolledIs DEF Loads, Stores, Blanks
    <2> QED
      BY <2>2, <2>3 DEF Marks
  <1> QED
    BY <1>1, <1>2, <1>3, <1>4 DEF Step, putchar, Advance, Tab, console_next, ghosts

(* The cursor stays within 16 bits. *)
LEMMA CursorTyped ==
  ASSUME Typed, NEW p \in Callers, Step(p)
  PROVE  cursor_x' \in Word /\ cursor_y' \in Word
  <1>0. cursor_x \in Word /\ cursor_y \in Word
    BY DEF Typed
  <1>1. CASE UNCHANGED cursor
    BY <1>0, <1>1 DEF cursor
  <1>2. CASE Advance(p)
    <2>1. cursor_x + FontWidth \in Nat
      BY <1>0, Bounds DEF Word
    <2> QED
      BY <1>0, <1>2, <2>1, U16Is DEF Advance
  <1>3. CASE Tab(p)
    <2>1. ctx[p].x + 8 * FontWidth \in Nat
      BY Fields, Bounds DEF Word
    <2>2. U16(ctx[p].x + 8 * FontWidth) \in Word
      BY <2>1, U16Is
    <2>3. 4 * FontWidth \in Word
      BY Bounds DEF Word
    <2> QED
      BY <1>0, <1>3, <2>2, <2>3 DEF Tab
  <1>4. CASE console_next(p)
    <2>0. ctx[p].y \in Word
      BY Fields
    <2>1. ctx[p].y + FontHeight \in Nat /\ 0 \in Word
      BY <2>0, Bounds DEF Word
    <2>2. Below(ctx[p].y) \in Word
      BY <2>1, U16Is DEF Below
    <2> QED
      BY <1>0, <1>4, <2>1, <2>2, NextIs DEF cursor
  <1> QED
    BY <1>1, <1>2, <1>3, <1>4 DEF Step, putchar, ReadX, console_drawchar, console_scroll

(* Glyphs stay in their columns. *)
LEMMA GlyphsTyped ==
  ASSUME Typed, NEW p \in Callers, Step(p)
  PROVE  KeepsGlyphs
  <1>1. CASE glyphs' = glyphs
    BY <1>1, SameGlyphs
  <1>2. CASE ReadX(p)
    <2> DEFINE g == [x |-> cursor_x, y |-> ctx[p].y]
    <2>1. glyphs' = Append(glyphs, g) /\ g \in GlyphType
      BY <1>2, ReadXIs
    <2> HIDE DEF g
    <2>2. glyphs \in Seq(GlyphType) /\ Len(glyphs) \in Nat
      BY DEF Typed
    <2>3. glyphs' \in Seq(GlyphType) /\ Len(glyphs') = Len(glyphs) + 1 /\ \A n \in 1 .. Len(glyphs) : glyphs'[n] = glyphs[n]
      BY <2>1, <2>2
    <2> QED
      BY <2>2, <2>3 DEF KeepsGlyphs
  <1>3. CASE console_scroll(p)
    BY <1>1, <1>3, ScrollIs, ScrolledIs DEF Loads, Stores, Blanks
  <1> QED
    BY <1>1, <1>2, <1>3 DEF Step, putchar, console_drawchar, Advance, Tab, console_next, ghosts

(* A caller's step leaves the other alone. *)
Leaves(p) ==
  /\ ctx' \in CtxType /\ \A q \in Callers : Drawing(ctx'[q], glyphs')
  /\ \A q \in Callers \ {p} : ctx'[q] = ctx[q]

(* The callers' records stay well formed. *)
LEMMA CallersTyped ==
  ASSUME Typed, NEW p \in Callers, Step(p)
  PROVE  Leaves(p)
  <1>0. KeepsGlyphs /\ ctx[p].todo # << >>
    BY GlyphsTyped, StepRuns
  <1>r. ASSUME Returns(p) PROVE Leaves(p)
    BY <1>0, <1>r, HasReturned DEF Leaves, Returns
  <1>t. ASSUME Becomes(p, "tab_end", ctx[p].x, ctx[p].y, ctx[p].row, ctx[p].id) PROVE Leaves(p)
    <2>1. ctx[p].id \in 0 .. Len(glyphs')
      BY <1>0, StillDrawing DEF Drawing
    <2>2. \A q \in Callers : Drawing(ctx'[q], glyphs')
      BY <1>0, <1>t, <2>1, GoesOn
    <2> QED
      BY <1>t, <2>2 DEF Leaves, Becomes
  <1>1. CASE putchar(p)
    <2>1. glyphs' = glyphs
      BY <1>1 DEF putchar, ghosts
    <2>2. \A q \in Callers : Drawing(ctx'[q], glyphs')
      <3>1. CASE Becomes(p, "read_x", ctx[p].x, cursor_y, ctx[p].row, ctx[p].id)
        BY <1>0, <2>1, <3>1, GoesOnSame
      <3>2. CASE Becomes(p, "load_y", ctx[p].x, ctx[p].y, ctx[p].row, ctx[p].id)
        BY <1>0, <2>1, <3>2, GoesOnSame
      <3>3. CASE Becomes(p, "tab", cursor_x, ctx[p].y, ctx[p].row, ctx[p].id)
        BY <1>0, <2>1, <3>3, GoesOnSame
      <3> QED
        BY <1>1, <3>1, <3>2, <3>3, PutcharIs
    <2> QED
      BY <1>1, <2>2, PutcharIs DEF Leaves, Becomes
  <1>2. CASE ReadX(p)
    <2> DEFINE g == [x |-> cursor_x, y |-> ctx[p].y]
    <2>1. /\ Becomes(p, "draw", cursor_x, ctx[p].y, ctx[p].row, Len(glyphs) + 1)
          /\ glyphs' = Append(glyphs, g) /\ g.x = cursor_x
      BY <1>2, ReadXIs
    <2> HIDE DEF g
    <2>2. glyphs \in Seq(GlyphType) /\ Len(glyphs) \in Nat
      BY DEF Typed
    <2>3. Len(glyphs') = Len(glyphs) + 1 /\ glyphs'[Len(glyphs) + 1] = g
      BY <2>1, <2>2
    <2>4. Len(glyphs) + 1 \in 0 .. Len(glyphs') /\ Len(glyphs) + 1 \in 1 .. Len(glyphs') /\ glyphs'[Len(glyphs) + 1].x = cursor_x
      BY <2>1, <2>2, <2>3
    <2>5. \A q \in Callers : Drawing(ctx'[q], glyphs')
      BY <1>0, <2>1, <2>4, GoesOn
    <2> QED
      BY <2>1, <2>5 DEF Leaves, Becomes
  <1>3. CASE console_drawchar(p)
    <2>1. glyphs' = glyphs /\ ctx[p].at = "draw"
      BY <1>3 DEF console_drawchar, At
    <2>2. \A q \in Callers : Drawing(ctx'[q], glyphs')
      <3>1. CASE Becomes(p, "advance", ctx[p].x, ctx[p].y, ctx[p].row, ctx[p].id)
        BY <1>0, <2>1, <3>1, GoesOnSame
      <3>2. CASE Becomes(p, "draw", ctx[p].x, ctx[p].y, ctx[p].row + 1, ctx[p].id)
        BY <1>0, <2>1, <3>2, GoesOnSame
      <3> QED
        BY <1>3, <3>1, <3>2, DrawcharIs
    <2> QED
      BY <1>3, <2>2, DrawcharIs DEF Leaves, Becomes
  <1>4. CASE Advance(p) \/ Tab(p)
    <2>1. Return(p)
      BY <1>4 DEF Advance, Tab
    <2> QED
      BY <1>0, <1>r, <2>1, ReturnIs
  <1>5. CASE console_next(p)
    <2>1. glyphs' = glyphs
      BY <1>5 DEF console_next, ghosts
    <2>2. CASE Becomes(p, "clear_x", ctx[p].x, cursor_y, ctx[p].row, ctx[p].id)
      <3>1. \A q \in Callers : Drawing(ctx'[q], glyphs')
        BY <1>0, <2>1, <2>2, GoesOnSame
      <3> QED
        BY <2>2, <3>1 DEF Leaves, Becomes
    <2>3. CASE Becomes(p, "store_y", ctx[p].x, ctx[p].y, ctx[p].row, ctx[p].id)
      <3>1. \A q \in Callers : Drawing(ctx'[q], glyphs')
        BY <1>0, <2>1, <2>3, GoesOnSame
      <3> QED
        BY <2>3, <3>1 DEF Leaves, Becomes
    <2>4. CASE Becomes(p, "scroll", ctx[p].x, ctx[p].y, ctx[p].row, ctx[p].id)
      <3>1. \A q \in Callers : Drawing(ctx'[q], glyphs')
        BY <1>0, <2>1, <2>4, GoesOnSame
      <3> QED
        BY <2>4, <3>1 DEF Leaves, Becomes
    <2> QED
      BY <1>5, <1>r, <1>t, <2>2, <2>3, <2>4, NextIs
  <1>6. CASE console_scroll(p)
    <2>1. CASE Loads(p)
      <3>1. \A q \in Callers : Drawing(ctx'[q], glyphs')
        BY <1>0, <2>1, GoesOnSame DEF Loads
      <3> QED
        BY <2>1, <3>1 DEF Loads, Leaves, Becomes
    <2>2. CASE Stores(p)
      <3>1. \A q \in Callers : Drawing(ctx'[q], glyphs')
        BY <1>0, <2>2, GoesOnSame DEF Stores
      <3> QED
        BY <2>2, <3>1 DEF Stores, Leaves, Becomes
    <2>3. CASE Blanks(p)
      BY <2>3, Fields DEF Blanks, Leaves, Typed
    <2>4. CASE Ends(p)
      BY <1>r, <1>t, <2>4 DEF Ends
    <2> QED
      BY <1>6, <2>1, <2>2, <2>3, <2>4, ScrollIs
  <1> QED
    BY <1>1, <1>2, <1>3, <1>4, <1>5, <1>6 DEF Step

(* console_scroll stays on the screen. *)
LEMMA ScrollTyped ==
  ASSUME Typed, NEW p \in Callers, Step(p)
  PROVE  scroll' \in [Callers -> ScrollType(glyphs')] /\ \A q \in Callers : SafeStore(ctx'[q], scroll'[q])
  <1>0. KeepsGlyphs /\ Leaves(p) /\ Len(glyphs) \in Nat
    BY GlyphsTyped, CallersTyped, Fields
  <1>1. ScrollType(glyphs) \subseteq ScrollType(glyphs')
    <2>1. Marks(glyphs) \subseteq Marks(glyphs')
      BY <1>0 DEF KeepsGlyphs, Marks
    <2> QED
      BY <2>1 DEF ScrollType
  <1>2. scroll \in [Callers -> ScrollType(glyphs)] /\ \A q \in Callers : SafeStore(ctx[q], scroll[q])
    BY DEF Typed
  <1>3. CASE console_scroll(p)
    <2>1. /\ scroll' \in [Callers -> ScrollType(glyphs)]
          /\ \A q \in Callers \ {p} : scroll'[q] = scroll[q]
      BY <1>3, ScrollIs DEF Loads, Stores, Blanks, Ends, Moves
    <2>2. SafeStore(ctx'[p], scroll'[p])
      BY <1>3, ScrollIs, ReturnsNext DEF Loads, Stores, Blanks, Ends, Moves, Becomes, SafeStore
    <2> QED
      BY <1>0, <1>1, <1>2, <2>1, <2>2 DEF Leaves
  <1>4. CASE scroll' = scroll /\ ctx'[p].at # "scroll_store"
    BY <1>0, <1>1, <1>2, <1>4 DEF Leaves, SafeStore
  <1>5. CASE ~ console_scroll(p)
    <2>1. scroll' = scroll
      BY <1>5 DEF Step, putchar, ReadX, console_drawchar, Advance, Tab, console_next, scrolling
    <2>2. ctx'[p].at # "scroll_store"
      <3>1. CASE putchar(p)
        BY <3>1, PutcharIs DEF Becomes
      <3>2. CASE ReadX(p)
        BY <3>2, ReadXIs DEF Becomes
      <3>3. CASE console_drawchar(p)
        BY <3>3, DrawcharIs DEF Becomes
      <3>4. CASE Advance(p) \/ Tab(p)
        BY <3>4, StepRuns, ReturnIs, ReturnsNext DEF Advance, Tab
      <3>5. CASE console_next(p)
        BY <3>5, NextIs, ReturnsNext DEF Becomes
      <3> QED
        BY <1>5, <3>1, <3>2, <3>3, <3>4, <3>5 DEF Step
    <2> QED
      BY <1>4, <2>1, <2>2
  <1> QED
    BY <1>3, <1>5

(* The types, step by step. *)
LEMMA StepTyped ==
  ASSUME Typed, NEW p \in Callers, Step(p)
  PROVE  Typed'
  <1>1. stray \in BOOLEAN /\ scrolled \in BOOLEAN /\ escapes \in Nat /\ atRisk \in Nat
    BY DEF Typed
  <1>2. stray' \in BOOLEAN /\ scrolled' \in BOOLEAN /\ escapes' = escapes /\ atRisk' = atRisk
    BY <1>1, Zenon DEF Step, putchar, ReadX, console_drawchar, Advance, Tab, console_next, console_scroll, ghosts
  <1>3. fb' \in [Pixels -> Marks(glyphs')] /\ cursor_x' \in Word /\ cursor_y' \in Word /\ KeepsGlyphs /\ Leaves(p)
    BY FbTyped, CursorTyped, GlyphsTyped, CallersTyped
  <1>4. scroll' \in [Callers -> ScrollType(glyphs')] /\ \A q \in Callers : SafeStore(ctx'[q], scroll'[q])
    BY ScrollTyped
  <1> QED
    BY <1>1, <1>2, <1>3, <1>4 DEF Typed, KeepsGlyphs, Leaves

(* An Escape key starts the handler's caller. *)
Enters(message) ==
  /\ ctx' \in CtxType /\ ctx'["kernel"] = ctx["kernel"] /\ ctx'["handler"] = Caller(message)
  /\ Caller(message).at = "next" /\ Caller(message).todo = message

(* Escape; amid a putchar it puts glyphs at risk. *)
LEMMA EscapeIs ==
  ASSUME Typed, NEW message \in Messages, Escape(message)
  PROVE  /\ Typed' /\ Enters(message)
         /\ atRisk' >= atRisk /\ (ctx["kernel"].at # "next" => atRisk' > atRisk)
  <1>1. message \in Seq(Chars) /\ glyphs \in Seq(GlyphType)
    BY ConsoleAssumption DEF Chars, Typed
  <1>2. /\ Caller(message) \in CallerType /\ Drawing(Caller(message), glyphs)
        /\ Caller(message).todo = message /\ Caller(message).at = "next"
    BY <1>1, NewCaller
  <1>3. ctx' \in CtxType /\ ctx'["kernel"] = ctx["kernel"] /\ ctx'["handler"] = Caller(message)
    <2>1. ctx' = [ctx EXCEPT !["handler"] = Caller(message)] /\ ctx \in CtxType
      BY DEF Escape, Typed
    <2> QED
      BY <1>2, <2>1 DEF CtxType, Callers
  <1> DEFINE hit == {i \in DOMAIN message : message[i] = GLYPH}
  <1>4. Cardinality(hit) \in Nat
    <2>1. DOMAIN message = 1 .. Len(message) /\ Len(message) \in Nat
      BY <1>1
    <2>2. IsFiniteSet(1 .. Len(message))
      BY <2>1, FS_Interval
    <2>3. hit \subseteq 1 .. Len(message)
      BY <2>1
    <2> QED
      BY <2>2, <2>3, FS_Subset, FS_CardinalityType
  <1>5. atRisk' = (IF ctx.kernel.at = "next" THEN atRisk ELSE atRisk + 1 + Cardinality(hit)) /\ escapes' = escapes + 1
    BY DEF Escape
  <1> HIDE DEF hit
  <1>6. atRisk \in Nat /\ escapes \in Nat
    BY DEF Typed
  <1>7. /\ atRisk' \in Nat /\ escapes' \in Nat
        /\ atRisk' >= atRisk /\ (ctx["kernel"].at # "next" => atRisk' > atRisk)
    BY <1>4, <1>5, <1>6
  <1>8. UNCHANGED <<fb, cursor_x, cursor_y, scroll, glyphs, stray, scrolled>>
    BY DEF Escape, cursor
  <1>9. \A q \in Callers : Drawing(ctx'[q], glyphs') /\ SafeStore(ctx'[q], scroll'[q])
    BY <1>2, <1>3, <1>8, Fields DEF Callers, SafeStore, Typed
  <1> QED
    BY <1>2, <1>3, <1>7, <1>8, <1>9 DEF Typed, Enters

-----------------------------------------------------------------------------
(***************************************************************************)
(* Nothing outside the frame buffer until the screen is full.              *)
(***************************************************************************)
LEMMA FilledIs ==
  ASSUME Typed
  PROVE  Filled <=> scrolled \/ ctx["kernel"].at \in {"scroll", "scroll_store"}
                             \/ ctx["handler"].at \in {"scroll", "scroll_store"}
  <1>1. DOMAIN ctx = {"kernel", "handler"}
    BY DEF Typed, CtxType, Callers
  <1> QED
    BY <1>1, Zenon DEF Filled

(* The same of the next state. *)
LEMMA FilledAfter ==
  ASSUME Typed'
  PROVE  Filled' <=> scrolled' \/ ctx'["kernel"].at \in {"scroll", "scroll_store"}
                               \/ ctx'["handler"].at \in {"scroll", "scroll_store"}
  <1>1. DOMAIN ctx' = {"kernel", "handler"}
    BY DEF Typed, CtxType, Callers
  <1> QED
    BY <1>1, Zenon DEF Filled

(* A full screen stays full. *)
LEMMA StaysFilled ==
  ASSUME Typed, NEW p \in Callers, Step(p)
  PROVE  Filled => Filled'
  <1>1. Typed' /\ Leaves(p)
    BY StepTyped, CallersTyped
  <1>2. scrolled => scrolled'
    BY Zenon DEF Step, putchar, ReadX, console_drawchar, Advance, Tab, console_next, console_scroll, ghosts
  <1>3. ASSUME console_scroll(p) PROVE Filled'
    <2>1. scrolled' \/ ctx'[p].at \in {"scroll", "scroll_store"}
      BY <1>3, ScrollIs DEF Loads, Stores, Blanks, Ends, Becomes
    <2> QED
      BY <1>1, <2>1, FilledAfter DEF Callers
  <1>4. ctx[p].at \in {"scroll", "scroll_store"} => console_scroll(p)
    BY DEF Step, putchar, ReadX, console_drawchar, Advance, Tab, console_next, At
  <1> QED
    BY <1>1, <1>2, <1>3, <1>4, FilledIs, FilledAfter DEF Leaves, Callers

(* While it scrolls it is full. *)
LEMMA ScrollFilled ==
  ASSUME Typed, NEW p \in Callers, console_scroll(p)
  PROVE  Filled
  <1>1. ctx[p].at \in {"scroll", "scroll_store"}
    BY DEF console_scroll, At
  <1> QED
    BY <1>1, FilledIs DEF Callers

(* The cursor, and what the running caller has read of it. *)
LEMMA StepOnScreen ==
  ASSUME Typed, NEW p \in Callers, Step(p), OnScreen(cursor_y, ctx), ~ Filled'
  PROVE  OnScreen(cursor_y', ctx')
  <1>1. Typed' /\ Leaves(p) /\ cursor_y <= Lowest /\ (ctx[p].at \in {"read_x", "draw"} => ctx[p].y <= Lowest)
    BY StepTyped, CallersTyped DEF OnScreen
  <1>2. ctx'[p].at # "scroll"
    BY <1>1, FilledAfter DEF Callers
  <1>3. cursor_y' <= Lowest /\ (ctx'[p].at \in {"read_x", "draw"} => ctx'[p].y <= Lowest)
    <2>r. ASSUME Returns(p) PROVE ctx'[p].at = "next"
      <3>1. Tail(ctx[p].todo) \in Seq(Chars) /\ ctx'[p] = Caller(Tail(ctx[p].todo)) /\ << >> \in Seq(GlyphType)
        BY <2>r DEF Returns
      <3> QED
        BY <3>1, NewCaller
    <2>1. CASE putchar(p)
      <3>1. cursor_y' = cursor_y
        BY <2>1 DEF putchar, cursor
      <3> QED
        BY <1>1, <2>1, <3>1, PutcharIs DEF Becomes
    <2>2. CASE ReadX(p)
      <3>1. cursor_y' = cursor_y /\ ctx[p].at = "read_x"
        BY <2>2 DEF ReadX, cursor, At
      <3> QED
        BY <1>1, <2>2, <3>1, ReadXIs DEF Becomes
    <2>3. CASE console_drawchar(p)
      <3>1. cursor_y' = cursor_y /\ ctx[p].at = "draw"
        BY <2>3 DEF console_drawchar, cursor, At
      <3> QED
        BY <1>1, <2>3, <3>1, DrawcharIs DEF Becomes
    <2>4. CASE Advance(p) \/ Tab(p)
      <3>1. cursor_y' = cursor_y /\ Return(p)
        BY <2>4 DEF Advance, Tab
      <3> QED
        BY <1>1, <2>r, <3>1, StepRuns, ReturnIs
    <2>5. CASE console_next(p)
      BY <1>1, <1>2, <2>5, <2>r, NextIs DEF Becomes, cursor
    <2>6. CASE console_scroll(p)
      BY <2>6, ScrollFilled, StaysFilled
    <2> QED
      BY <2>1, <2>2, <2>3, <2>4, <2>5, <2>6 DEF Step
  <1> QED
    BY <1>1, <1>3 DEF OnScreen, Leaves

(* The glyphs of a line that fits have always fitted. *)
LEMMA FitBefore ==
  ASSUME Typed, KeepsGlyphs, LinesFit'
  PROVE  LinesFit
  <1>1. DOMAIN glyphs = 1 .. Len(glyphs) /\ Len(glyphs) \in Nat /\ DOMAIN glyphs' = 1 .. Len(glyphs') /\ Len(glyphs') \in Nat
    BY DEF Typed, KeepsGlyphs
  <1>2. \A n \in DOMAIN glyphs : n \in DOMAIN glyphs' /\ glyphs'[n].x = glyphs[n].x
    BY <1>1 DEF KeepsGlyphs
  <1> QED
    BY <1>2 DEF LinesFit

(* A row of a glyph on the screen is drawn on the screen. *)
LEMMA DrawsInside ==
  ASSUME Typed, Inside, ~ Filled, LinesFit, NEW p \in Callers, ctx[p].at = "draw"
  PROVE  Row(ctx[p].x, ctx[p].y + ctx[p].row) \subseteq Pixels
  <1>1. ctx[p].y <= Lowest
    BY DEF Inside, OnScreen
  <1>2. ctx[p].x \in Nat /\ ctx[p].y \in Nat /\ ctx[p].row \in 0 .. (FontHeight - 1)
    BY Fields, Bounds DEF Word
  <1>3. ctx[p].y + ctx[p].row \in 0 .. (Height - 1)
    BY <1>1, <1>2, Bounds
  <1>4. ctx[p].id \in DOMAIN glyphs /\ glyphs[ctx[p].id].x = ctx[p].x
    BY Fields DEF Drawing, Typed
  <1>5. ctx[p].x + FontWidth <= Width
    BY <1>4 DEF LinesFit
  <1> QED
    BY <1>2, <1>3, <1>5, OnScreenPixels

(* The inductive invariant. *)
Sound == Typed /\ Inside /\ InsideUntilFilled

(* The invariant, step by step. *)
LEMMA StepSound ==
  ASSUME Sound, NEW p \in Callers, Step(p)
  PROVE  Sound'
  <1>1. Typed /\ Typed' /\ KeepsGlyphs /\ (Filled => Filled')
    BY StepTyped, GlyphsTyped, StaysFilled DEF Sound
  <1>2. Inside'
    <2> SUFFICES ASSUME ~ Filled'
                 PROVE  OnScreen(cursor_y', ctx')
      BY DEF Inside
    <2>1. OnScreen(cursor_y, ctx)
      BY <1>1 DEF Sound, Inside
    <2> QED
      BY <1>1, <2>1, StepOnScreen
  <1>3. InsideUntilFilled'
    <2> SUFFICES ASSUME LinesFit', stray', ~ Filled'
                 PROVE  FALSE
      BY DEF InsideUntilFilled
    <2>1. LinesFit /\ ~ Filled
      BY <1>1, FitBefore
    <2>2. ~ stray
      BY <2>1 DEF Sound, InsideUntilFilled
    <2>3. CASE console_drawchar(p)
      <3>1. Row(ctx[p].x, ctx[p].y + ctx[p].row) \subseteq Pixels
        BY <1>1, <2>1, <2>3, DrawsInside DEF Sound, console_drawchar, At
      <3> QED
        BY <2>2, <2>3, <3>1 DEF console_drawchar
    <2>4. CASE stray' = stray
      BY <2>2, <2>4
    <2> QED
      BY <2>3, <2>4 DEF Step, putchar, ReadX, Advance, Tab, console_next, console_scroll, ghosts
  <1> QED
    BY <1>1, <1>2, <1>3 DEF Sound

(* Escape keeps it. *)
LEMMA EscapeSound ==
  ASSUME Sound, NEW message \in Messages, Escape(message)
  PROVE  Sound' /\ (Filled => Filled')
  <1>1. Typed /\ Typed' /\ Enters(message)
    BY EscapeIs DEF Sound
  <1>2. UNCHANGED <<cursor_x, cursor_y, scroll, glyphs, stray, scrolled>> /\ ctx["handler"].todo = << >>
    BY DEF Escape, cursor
  <1>3. ctx["handler"].at = "next"
    BY <1>1, <1>2, Fields DEF Drawing, Callers
  <1>4. Filled' <=> Filled
    BY <1>1, <1>2, <1>3, FilledIs, FilledAfter DEF Enters
  <1>5. LinesFit' <=> LinesFit
    BY <1>2 DEF LinesFit
  <1>6. Inside'
    BY <1>1, <1>2, <1>4 DEF Sound, Inside, OnScreen, Enters, Callers
  <1>7. InsideUntilFilled'
    BY <1>2, <1>4, <1>5 DEF Sound, InsideUntilFilled
  <1> QED
    BY <1>1, <1>4, <1>6, <1>7 DEF Sound

(* And so does a stuttering step. *)
LEMMA Stutters ==
  ASSUME Sound, UNCHANGED vars
  PROVE  Sound'
  BY DEF Sound, vars, cursor, scrolling, ghosts, Typed, Inside, InsideUntilFilled, LinesFit, Filled

(* The steps there are. *)
LEMMA Steps ==
  ASSUME [Next]_vars
  PROVE  \/ \E p \in Callers : Step(p)
         \/ \E message \in Messages : Escape(message)
         \/ UNCHANGED vars
  BY DEF Next, Step, Callers, Loop

(* The callers know of the cursor what they must. *)
THEOREM Invariance == Spec => []Sound
  <1>1. Init => Sound
    BY InitTyped DEF Sound, InsideUntilFilled
  <1>2. Sound /\ [Next]_vars => Sound'
    BY Steps, StepSound, EscapeSound, Stutters
  <1> QED
    BY <1>1, <1>2, PTL DEF Spec

(* The console's variables stay within their types. *)
THEOREM TypeCorrect == Spec => []TypeOK
  <1>1. Sound => TypeOK
    <2> SUFFICES ASSUME Typed
                 PROVE  TypeOK
      BY DEF Sound
    <2>1. DOMAIN glyphs = 1 .. Len(glyphs) /\ DOMAIN ctx = Callers /\ fb \in [Pixels -> Marks(glyphs)]
      BY DEF Typed, CtxType
    <2>2. \A p \in DOMAIN ctx : /\ ctx[p].row \in 0 .. (FontHeight - 1)
                                /\ ctx[p].id \in 0 .. Len(glyphs)
                                /\ ctx[p].todo = << >> => ctx[p].at = "next"
                                /\ scroll[p].i \in 0 .. end_index
                                /\ scroll[p].pixel \in {BLANK, RULE} \cup DOMAIN glyphs
                                /\ ctx[p].at = "scroll_store" => scroll[p].i < finish_index
      BY <2>1, Fields DEF Drawing, Typed, SafeStore, Marks
    <2>3. DOMAIN fb = Pixels /\ \A i \in Pixels : fb[i] \in {BLANK, RULE} \cup DOMAIN glyphs
      BY <2>1 DEF Marks
    <2> QED
      BY <2>2, <2>3 DEF TypeOK, Typed, Word
  <1> QED
    BY <1>1, Invariance, PTL

(* As long as every line fits and until the text reaches the bottom,       *)
(* fb_putpixel, which does not check, is given positions on the screen,    *)
(* however the two callers interleave.                                     *)
THEOREM StaysInside == Spec => []InsideUntilFilled
  <1>1. Sound => InsideUntilFilled
    BY DEF Sound
  <1> QED
    BY <1>1, Invariance, PTL

-----------------------------------------------------------------------------
(***************************************************************************)
(* The order of reading.  As long as no Escape comes amid a putchar, the   *)
(* cursor is where the last glyph ends, or further, or the caller that     *)
(* runs knows where it is.                                                 *)
(***************************************************************************)
Before(g, x, y) == g.y + FontHeight <= y \/ (g.y = y /\ g.x + FontWidth <= x)

AllBefore(gs, x, y) == \A n \in DOMAIN gs : Before(gs[n], x, y)

Sorted(gs) == \A n, k \in DOMAIN gs : n < k => Before(gs[n], gs[k].x, gs[k].y)

(* The glyph being drawn is at the cursor, the others before it. *)
LastAt(gs, x, y) ==
  /\ Len(gs) > 0 /\ gs[Len(gs)].x = x /\ gs[Len(gs)].y = y
  /\ \A n \in DOMAIN gs : n < Len(gs) => Before(gs[n], x, y)

(* A caller amid putchar, and the cursor. *)
Placed(c, gs, x, y) ==
  /\ c.at \in {"next", "load_y", "read_x", "clear_x", "tab", "tab_end"} => AllBefore(gs, x, y)
  /\ c.at \in {"read_x", "draw", "clear_x", "store_y"} => c.y = y
  /\ c.at = "tab" => c.x = x /\ U16(x + 4 * FontWidth) < Width
  /\ c.at \in {"tab_end", "store_y"} => x = 0
  /\ c.at = "store_y" => \A n \in DOMAIN gs : gs[n].y <= y
  /\ c.at \in {"draw", "advance"} => c.id = Len(gs) /\ LastAt(gs, x, y)

Free == LinesFit /\ ~ Filled /\ atRisk = 0

InOrder ==
  /\ Sorted(glyphs) /\ cursor_x < Width + 4 * FontWidth
  /\ ctx["handler"].todo # << >> => ctx["kernel"].at = "next"
  /\ Placed(ctx[Running], glyphs, cursor_x, cursor_y)

Orderly == Free => InOrder

(* The types of the glyphs' fields. *)
LEMMA GlyphsAre ==
  ASSUME Typed
  PROVE  /\ glyphs \in Seq(GlyphType) /\ Len(glyphs) \in Nat /\ DOMAIN glyphs = 1 .. Len(glyphs)
         /\ \A n \in DOMAIN glyphs : n \in Nat /\ glyphs[n] \in GlyphType /\ glyphs[n].x \in Nat /\ glyphs[n].y \in Int
         /\ cursor_x \in Nat /\ cursor_y \in Nat
  <1>1. glyphs \in Seq(GlyphType) /\ cursor_x \in Word /\ cursor_y \in Word
    BY DEF Typed
  <1>2. cursor_x \in Nat /\ cursor_y \in Nat
    BY <1>1, Bounds DEF Word
  <1>3. Len(glyphs) \in Nat /\ DOMAIN glyphs = 1 .. Len(glyphs) /\ \A n \in DOMAIN glyphs : glyphs[n] \in GlyphType
    BY <1>1
  <1> QED
    BY <1>1, <1>2, <1>3 DEF GlyphType

(* Further right on the line. *)
LEMMA FurtherRight ==
  ASSUME Typed, NEW a \in Nat, NEW b \in Nat, a <= b, NEW y \in Nat, AllBefore(glyphs, a, y)
  PROVE  AllBefore(glyphs, b, y)
  BY GlyphsAre, Bounds DEF AllBefore, Before

(* What the running caller's step does. *)
Goes(p) ==
  /\ Sorted(glyphs') /\ cursor_x' < Width + 4 * FontWidth
  /\ Placed(ctx'[p], glyphs', cursor_x', cursor_y')

(* putchar reads the cursor. *)
LEMMA PutcharGoes ==
  ASSUME Typed, InOrder, NEW p \in Callers, p = Running, putchar(p)
  PROVE  Goes(p)
  <1>1. Sorted(glyphs) /\ cursor_x < Width + 4 * FontWidth /\ Placed(ctx[p], glyphs, cursor_x, cursor_y)
    BY DEF InOrder
  <1>2. glyphs' = glyphs /\ cursor_x' = cursor_x /\ cursor_y' = cursor_y /\ ctx[p].at = "next"
    BY DEF putchar, cursor, ghosts, At
  <1>3. AllBefore(glyphs, cursor_x, cursor_y)
    BY <1>1, <1>2 DEF Placed
  <1>4. Placed(ctx'[p], glyphs, cursor_x, cursor_y)
    BY <1>3, PutcharIs DEF Becomes, Placed
  <1> QED
    BY <1>1, <1>2, <1>4 DEF Goes

(* The new glyph is at the cursor, behind all others. *)
LEMMA ReadXGoes ==
  ASSUME Typed, InOrder, NEW p \in Callers, p = Running, ReadX(p)
  PROVE  Goes(p)
  <1>1. Sorted(glyphs) /\ cursor_x < Width + 4 * FontWidth /\ Placed(ctx[p], glyphs, cursor_x, cursor_y)
    BY DEF InOrder
  <1>2. cursor_x' = cursor_x /\ cursor_y' = cursor_y /\ ctx[p].at = "read_x"
    BY DEF ReadX, cursor, At
  <1>3. AllBefore(glyphs, cursor_x, cursor_y) /\ ctx[p].y = cursor_y
    BY <1>1, <1>2 DEF Placed
  <1> DEFINE g == [x |-> cursor_x, y |-> ctx[p].y]
  <1>4. glyphs' = Append(glyphs, g) /\ g.x = cursor_x /\ g.y = cursor_y
    BY <1>3, ReadXIs
  <1> HIDE DEF g
  <1>5. /\ Len(glyphs') = Len(glyphs) + 1 /\ DOMAIN glyphs' = 1 .. (Len(glyphs) + 1)
        /\ glyphs'[Len(glyphs) + 1] = g /\ \A n \in 1 .. Len(glyphs) : glyphs'[n] = glyphs[n]
    BY <1>4, GlyphsAre
  <1>6. LastAt(glyphs', cursor_x, cursor_y)
    <2>1. \A n \in DOMAIN glyphs' : n < Len(glyphs') => n \in DOMAIN glyphs /\ glyphs'[n] = glyphs[n]
      BY <1>5, GlyphsAre
    <2> QED
      BY <1>3, <1>4, <1>5, <2>1, GlyphsAre DEF LastAt, AllBefore
  <1>7. Sorted(glyphs')
    <2> SUFFICES ASSUME NEW n \in DOMAIN glyphs', NEW k \in DOMAIN glyphs', n < k
                 PROVE  Before(glyphs'[n], glyphs'[k].x, glyphs'[k].y)
      BY DEF Sorted
    <2>1. n \in DOMAIN glyphs /\ glyphs'[n] = glyphs[n] /\ n < Len(glyphs')
      BY <1>5, GlyphsAre
    <2>2. CASE k = Len(glyphs')
      BY <1>6, <2>1, <2>2 DEF LastAt
    <2>3. CASE k # Len(glyphs')
      <3>1. k \in DOMAIN glyphs /\ glyphs'[k] = glyphs[k]
        BY <1>5, <2>3, GlyphsAre
      <3> QED
        BY <1>1, <2>1, <3>1 DEF Sorted
    <2> QED
      BY <2>2, <2>3
  <1>8. Placed(ctx'[p], glyphs', cursor_x, cursor_y)
    BY <1>3, <1>5, <1>6, ReadXIs DEF Becomes, Placed
  <1> QED
    BY <1>1, <1>2, <1>7, <1>8 DEF Goes

(* Drawing moves nothing. *)
LEMMA DrawcharGoes ==
  ASSUME Typed, InOrder, NEW p \in Callers, p = Running, console_drawchar(p)
  PROVE  Goes(p)
  <1>1. Sorted(glyphs) /\ cursor_x < Width + 4 * FontWidth /\ Placed(ctx[p], glyphs, cursor_x, cursor_y)
    BY DEF InOrder
  <1>2. glyphs' = glyphs /\ cursor_x' = cursor_x /\ cursor_y' = cursor_y /\ ctx[p].at = "draw"
    BY DEF console_drawchar, cursor, At
  <1>3. ctx[p].y = cursor_y /\ ctx[p].id = Len(glyphs) /\ LastAt(glyphs, cursor_x, cursor_y)
    BY <1>1, <1>2 DEF Placed
  <1>4. Placed(ctx'[p], glyphs, cursor_x, cursor_y)
    BY <1>3, DrawcharIs DEF Becomes, Placed
  <1> QED
    BY <1>1, <1>2, <1>4 DEF Goes

(* The cursor goes past the glyph drawn. *)
LEMMA AdvanceGoes ==
  ASSUME Typed, InOrder, LinesFit, NEW p \in Callers, p = Running, Advance(p)
  PROVE  Goes(p)
  <1>1. Sorted(glyphs) /\ Placed(ctx[p], glyphs, cursor_x, cursor_y)
    BY DEF InOrder
  <1>2. /\ glyphs' = glyphs /\ cursor_x' = U16(cursor_x + FontWidth) /\ cursor_y' = cursor_y /\ ctx[p].at = "advance"
        /\ ctx[p].todo # << >> /\ Return(p)
    BY DEF Advance, At, ghosts
  <1>3. LastAt(glyphs, cursor_x, cursor_y)
    BY <1>1, <1>2 DEF Placed
  <1>4. cursor_x + FontWidth <= Width
    <2>1. Len(glyphs) \in DOMAIN glyphs /\ glyphs[Len(glyphs)].x = cursor_x
      BY <1>3, GlyphsAre DEF LastAt
    <2> QED
      BY <2>1 DEF LinesFit
  <1>5. cursor_x' = cursor_x + FontWidth
    <2>1. cursor_x + FontWidth \in Nat /\ cursor_x + FontWidth \in Word
      BY <1>4, GlyphsAre, Bounds DEF Word
    <2> QED
      BY <1>2, <2>1, U16Is
  <1>6. AllBefore(glyphs, cursor_x + FontWidth, cursor_y)
    <2> SUFFICES ASSUME NEW n \in DOMAIN glyphs
                 PROVE  Before(glyphs[n], cursor_x + FontWidth, cursor_y)
      BY DEF AllBefore
    <2>1. CASE n = Len(glyphs)
      BY <1>3, <2>1, GlyphsAre, Bounds DEF LastAt, Before
    <2>2. CASE n # Len(glyphs)
      <3>1. Before(glyphs[n], cursor_x, cursor_y)
        BY <1>3, <2>2, GlyphsAre DEF LastAt
      <3> QED
        BY <3>1, GlyphsAre, Bounds DEF Before
    <2> QED
      BY <2>1, <2>2
  <1>7. ctx'[p].at = "next"
    BY <1>2, ReturnIs, ReturnsNext
  <1>8. cursor_x' < Width + 4 * FontWidth
    BY <1>4, <1>5, GlyphsAre, Bounds
  <1> QED
    BY <1>1, <1>2, <1>5, <1>6, <1>7, <1>8 DEF Goes, Placed

(* A tab goes right. *)
LEMMA TabGoes ==
  ASSUME Typed, InOrder, NEW p \in Callers, p = Running, Tab(p)
  PROVE  Goes(p)
  <1>1. Sorted(glyphs) /\ cursor_x < Width + 4 * FontWidth /\ Placed(ctx[p], glyphs, cursor_x, cursor_y)
    BY DEF InOrder
  <1>2. glyphs' = glyphs /\ cursor_y' = cursor_y /\ ctx[p].todo # << >> /\ Return(p)
    BY DEF Tab, At, ghosts
  <1>3. ctx'[p].at = "next"
    BY <1>2, ReturnIs, ReturnsNext
  <1>4. \/ ctx[p].at = "tab" /\ cursor_x' = U16(ctx[p].x + 8 * FontWidth)
        \/ ctx[p].at = "tab_end" /\ cursor_x' = 4 * FontWidth
    BY DEF Tab, At
  <1>5. AllBefore(glyphs, cursor_x, cursor_y)
    BY <1>1, <1>4 DEF Placed
  <1>6. cursor_x' \in Nat /\ cursor_x <= cursor_x' /\ cursor_x' < Width + 4 * FontWidth
    <2>1. CASE ctx[p].at = "tab" /\ cursor_x' = U16(ctx[p].x + 8 * FontWidth)
      <3>1. ctx[p].x = cursor_x /\ U16(cursor_x + 4 * FontWidth) < Width
        BY <1>1, <2>1 DEF Placed
      <3>2. cursor_x + 4 * FontWidth \in Nat /\ cursor_x + 4 * FontWidth \in Word
        BY <1>1, GlyphsAre, Bounds DEF Word
      <3>3. cursor_x + 4 * FontWidth < Width
        BY <3>1, <3>2, U16Is
      <3>0. cursor_x \in Nat
        BY GlyphsAre
      <3>4. cursor_x + 8 * FontWidth \in Nat /\ cursor_x + 8 * FontWidth \in Word
        BY <3>0, <3>3, Bounds DEF Word
      <3>5. cursor_x' = cursor_x + 8 * FontWidth
        BY <2>1, <3>1, <3>4, U16Is
      <3>6. cursor_x <= cursor_x + 8 * FontWidth /\ cursor_x + 8 * FontWidth < Width + 4 * FontWidth
        BY <3>3, GlyphsAre, Bounds
      <3> QED
        BY <3>4, <3>5, <3>6
    <2>2. CASE ctx[p].at = "tab_end" /\ cursor_x' = 4 * FontWidth
      <3>1. cursor_x = 0
        BY <1>1, <2>2 DEF Placed
      <3> QED
        BY <2>2, <3>1, Bounds
    <2> QED
      BY <1>4, <2>1, <2>2
  <1>7. AllBefore(glyphs, cursor_x', cursor_y)
    BY <1>5, <1>6, GlyphsAre, FurtherRight
  <1> QED
    BY <1>1, <1>2, <1>3, <1>6, <1>7 DEF Goes, Placed

(* A line feed goes below all glyphs. *)
LEMMA NextGoes ==
  ASSUME Typed, InOrder, OnScreen(cursor_y, ctx), Typed', ~ Filled', NEW p \in Callers, p = Running, console_next(p)
  PROVE  Goes(p)
  <1>1. Sorted(glyphs) /\ cursor_x < Width + 4 * FontWidth /\ Placed(ctx[p], glyphs, cursor_x, cursor_y)
    BY DEF InOrder
  <1>2. glyphs' = glyphs
    BY DEF console_next, ghosts
  <1>3. CASE /\ ctx[p].at = "load_y" /\ UNCHANGED cursor
             /\ Becomes(p, "clear_x", ctx[p].x, cursor_y, ctx[p].row, ctx[p].id)
    <2>1. AllBefore(glyphs, cursor_x, cursor_y) /\ cursor_x' = cursor_x /\ cursor_y' = cursor_y
      BY <1>1, <1>3 DEF Placed, cursor
    <2>2. Placed(ctx'[p], glyphs, cursor_x, cursor_y)
      BY <1>3, <2>1 DEF Becomes, Placed
    <2> QED
      BY <1>1, <1>2, <2>1, <2>2 DEF Goes
  <1>4. CASE /\ ctx[p].at = "clear_x" /\ cursor_x' = 0 /\ cursor_y' = cursor_y
             /\ Becomes(p, "store_y", ctx[p].x, ctx[p].y, ctx[p].row, ctx[p].id)
    <2>1. AllBefore(glyphs, cursor_x, cursor_y) /\ ctx[p].y = cursor_y
      BY <1>1, <1>4 DEF Placed
    <2>2. \A n \in DOMAIN glyphs : glyphs[n].y <= cursor_y
      BY <2>1, GlyphsAre, Bounds DEF AllBefore, Before
    <2>3. Placed(ctx'[p], glyphs, 0, cursor_y)
      BY <1>4, <2>1, <2>2 DEF Becomes, Placed
    <2>4. 0 < Width + 4 * FontWidth
      BY Bounds
    <2> QED
      BY <1>1, <1>2, <1>4, <2>3, <2>4 DEF Goes
  <1>5. CASE Becomes(p, "scroll", ctx[p].x, ctx[p].y, ctx[p].row, ctx[p].id)
    BY <1>5, FilledAfter DEF Becomes, Callers
  <1>6. CASE /\ ctx[p].at = "store_y" /\ cursor_y' = Below(ctx[p].y) /\ cursor_x' = cursor_x
             /\ \/ Becomes(p, "tab_end", ctx[p].x, ctx[p].y, ctx[p].row, ctx[p].id)
                \/ Returns(p)
    <2>1. ctx[p].y = cursor_y /\ cursor_x = 0 /\ \A n \in DOMAIN glyphs : glyphs[n].y <= cursor_y
      BY <1>1, <1>6 DEF Placed
    <2>2. cursor_y' = cursor_y + FontHeight
      <3>1. cursor_y <= Lowest
        BY DEF OnScreen
      <3>2. cursor_y + FontHeight \in Nat /\ cursor_y + FontHeight \in Word
        BY <3>1, GlyphsAre, Bounds DEF Word
      <3> QED
        BY <1>6, <2>1, <3>2, U16Is DEF Below
    <2>3. AllBefore(glyphs, 0, cursor_y + FontHeight)
      BY <2>1, GlyphsAre, Bounds DEF AllBefore, Before
    <2>4. ctx'[p].at \in {"tab_end", "next"}
      BY <1>6, ReturnsNext DEF Becomes
    <2>5. Placed(ctx'[p], glyphs, 0, cursor_y + FontHeight)
      BY <2>3, <2>4 DEF Placed
    <2> QED
      BY <1>1, <1>2, <1>6, <2>1, <2>2, <2>5 DEF Goes
  <1> QED
    BY <1>3, <1>4, <1>5, <1>6, NextIs

(* Order, step by step. *)
LEMMA StepOrderly ==
  ASSUME Sound, Orderly, NEW p \in Callers, Step(p)
  PROVE  Orderly'
  <1> SUFFICES ASSUME LinesFit', ~ Filled', atRisk' = 0
               PROVE  InOrder'
    BY DEF Orderly, Free
  <1>1. Typed /\ Typed' /\ KeepsGlyphs /\ Leaves(p) /\ p = Running
    BY StepTyped, GlyphsTyped, CallersTyped, StepRuns DEF Sound
  <1>2. ~ Filled /\ LinesFit /\ atRisk = 0
    <2>1. atRisk' = atRisk
      BY DEF Step, putchar, ReadX, console_drawchar, Advance, Tab, console_next, console_scroll, ghosts
    <2> QED
      BY <1>1, <2>1, FitBefore, StaysFilled
  <1>3. InOrder /\ OnScreen(cursor_y, ctx)
    BY <1>2 DEF Orderly, Free, Sound, Inside
  <1>4. Goes(p)
    <2>1. CASE putchar(p)
      BY <1>1, <1>3, <2>1, PutcharGoes
    <2>2. CASE ReadX(p)
      BY <1>1, <1>3, <2>2, ReadXGoes
    <2>3. CASE console_drawchar(p)
      BY <1>1, <1>3, <2>3, DrawcharGoes
    <2>4. CASE Advance(p)
      BY <1>1, <1>2, <1>3, <2>4, AdvanceGoes
    <2>5. CASE Tab(p)
      BY <1>1, <1>3, <2>5, TabGoes
    <2>6. CASE console_next(p)
      BY <1>1, <1>3, <2>6, NextGoes
    <2>7. CASE console_scroll(p)
      BY <1>1, <1>2, <2>7, ScrollFilled
    <2> QED
      BY <2>1, <2>2, <2>3, <2>4, <2>5, <2>6, <2>7 DEF Step
  <1>5. ctx'["handler"].todo # << >> => ctx'["kernel"].at = "next"
    BY <1>1, <1>3 DEF InOrder, Leaves, Callers, Running
  <1>6. Placed(ctx'[Running'], glyphs', cursor_x', cursor_y')
    <2>1. CASE Running' = p
      BY <1>4, <2>1 DEF Goes
    <2>2. CASE Running' # p
      <3>1. /\ p = "handler" /\ Running' = "kernel" /\ ctx'["handler"].todo = << >>
            /\ ctx'["kernel"] = ctx["kernel"] /\ ctx["kernel"].at = "next"
        BY <1>1, <1>3, <2>2 DEF Running, Leaves, Callers, InOrder
      <3>2. ctx'["handler"].at = "next"
        BY <1>1, <3>1 DEF Leaves, Drawing, Callers
      <3>3. AllBefore(glyphs', cursor_x', cursor_y')
        BY <1>4, <3>1, <3>2 DEF Goes, Placed
      <3> QED
        BY <3>1, <3>3 DEF Placed
    <2> QED
      BY <2>1, <2>2
  <1> QED
    BY <1>4, <1>5, <1>6 DEF InOrder, Goes

(* An Escape between two putchars keeps it. *)
LEMMA EscapeOrderly ==
  ASSUME Sound, Orderly, NEW message \in Messages, Escape(message)
  PROVE  Orderly'
  <1> SUFFICES ASSUME LinesFit', ~ Filled', atRisk' = 0
               PROVE  InOrder'
    BY DEF Orderly, Free
  <1>1. Typed /\ Enters(message) /\ atRisk' >= atRisk /\ (Filled => Filled')
    BY EscapeIs, EscapeSound DEF Sound
  <1>2. UNCHANGED <<cursor_x, cursor_y, glyphs>> /\ ctx["handler"].todo = << >>
    BY DEF Escape, cursor
  <1>3. atRisk = 0 /\ ctx["kernel"].at = "next"
    BY <1>1, EscapeIs DEF Typed
  <1>4. LinesFit
    BY <1>2 DEF LinesFit
  <1>5. InOrder
    BY <1>1, <1>3, <1>4 DEF Orderly, Free
  <1>6. Running = "kernel"
    BY <1>2 DEF Running
  <1>7. AllBefore(glyphs, cursor_x, cursor_y)
    BY <1>3, <1>5, <1>6 DEF InOrder, Placed
  <1>8. ctx'[Running'].at = "next"
    BY <1>1, <1>3 DEF Enters, Running
  <1>9. Placed(ctx'[Running'], glyphs, cursor_x, cursor_y)
    BY <1>7, <1>8 DEF Placed
  <1> QED
    BY <1>1, <1>2, <1>3, <1>5, <1>9 DEF InOrder, Enters

(* No glyphs are in order. *)
LEMMA InitOrderly == Init => Orderly
  <1> SUFFICES ASSUME Init
               PROVE  InOrder
    BY DEF Orderly
  <1>1. glyphs = << >> /\ cursor_x = 0 /\ cursor_y = 0 /\ DOMAIN glyphs = {}
    BY DEF Init
  <1>2. PICK text \in Texts : ctx = [kernel |-> Caller(text), handler |-> Caller(<< >>)]
    BY DEF Init
  <1>3. ctx["kernel"].at = "next" /\ ctx["handler"].at = "next"
    BY <1>2 DEF Caller
  <1>4. ctx[Running].at = "next"
    BY <1>3 DEF Running
  <1>5. 0 < Width + 4 * FontWidth
    BY Bounds
  <1> QED
    BY <1>1, <1>3, <1>4, <1>5 DEF InOrder, Sorted, Placed, AllBefore

(* Every step keeps it. *)
LEMMA NextOrderly == Sound /\ Orderly /\ [Next]_vars => Orderly'
  <1>1. ASSUME Orderly, UNCHANGED vars PROVE Orderly'
    BY <1>1 DEF vars, cursor, ghosts, Orderly, Free, InOrder, LinesFit, Filled, Running
  <1> QED
    BY <1>1, Steps, StepOrderly, EscapeOrderly

(* Until an Escape comes amid a putchar, and as long as every line fits    *)
(* and the screen is not full, it reads in the order of printing, whatever *)
(* kernel() and the Escapes print.                                         *)
THEOREM ReadingOrder == Spec => []ReadsInOrder
  <1>1. Orderly => ReadsInOrder
    BY DEF Orderly, Free, InOrder, Sorted, Before, ReadsInOrder
  <1> QED
    BY <1>1, Invariance, InitOrderly, NextOrderly, PTL DEF Spec

-----------------------------------------------------------------------------
(***************************************************************************)
(* Scrolling.                                                              *)
(***************************************************************************)
(* A screen of which console_scroll has moved i pixels. *)
Moved(screen, i) ==
  [j \in Pixels |-> IF j < i /\ j < finish_index THEN screen[start_index + j]
                    ELSE IF j > finish_index /\ j <= i THEN BLANK ELSE screen[j]]

(* As long as no Escape comes, a scroll is as far as its caller knows. *)
Undisturbed ==
  before.by # "nobody" =>
    LET p == before.by
    IN  /\ p \in Callers /\ p = Running /\ ctx[p].todo # << >> /\ ctx[p].at \in {"scroll", "scroll_store"}
        /\ before.screen \in [Pixels -> Marks(glyphs)] /\ fb = Moved(before.screen, scroll[p].i)
        /\ ctx[p].at = "scroll_store" => scroll[p].pixel = before.screen[start_index + scroll[p].i]

(* A scroll begins. *)
LEMMA NothingMoved ==
  ASSUME NEW S, NEW screen \in [Pixels -> S]
  PROVE  Moved(screen, 0) = screen
  <1>1. \A j \in Pixels : j \in Nat
    BY Bounds DEF Pixels
  <1>2. \A j \in Pixels : ~ (j < 0) /\ ~ (j > finish_index /\ j <= 0)
    BY <1>1, Indices
  <1> QED
    BY <1>2 DEF Moved

(* What is still to be moved is where it was. *)
LEMMA StillThere ==
  ASSUME NEW screen, NEW i \in Nat, start_index + i \in Pixels
  PROVE  Moved(screen, i)[start_index + i] = screen[start_index + i]
  BY Indices DEF Moved

(* A pixel is moved up. *)
LEMMA OneMoved ==
  ASSUME NEW screen, NEW i \in Nat, i < finish_index
  PROVE  [Moved(screen, i) EXCEPT ![i] = screen[start_index + i]] = Moved(screen, i + 1)
  <1> DEFINE old == Moved(screen, i)
             new == Moved(screen, i + 1)
  <1>1. \A j \in Pixels : j \in Int
    BY DEF Pixels
  <1>2. i \in Pixels
    BY Indices
  <1>3. new[i] = screen[start_index + i]
    BY <1>2 DEF Moved
  <1>4. \A j \in Pixels : j # i => new[j] = old[j]
    <2> SUFFICES ASSUME NEW j \in Pixels, j # i
                 PROVE  new[j] = old[j]
      OBVIOUS
    <2>1. /\ j < i + 1 /\ j < finish_index <=> j < i /\ j < finish_index
          /\ ~ (j > finish_index /\ j <= i) /\ ~ (j > finish_index /\ j <= i + 1)
      BY <1>1, Indices
    <2> QED
      BY <2>1 DEF Moved
  <1>5. new = [j \in Pixels |-> new[j]] /\ old = [j \in Pixels |-> old[j]]
    BY DEF Moved
  <1> HIDE DEF old, new
  <1>6. [old EXCEPT ![i] = screen[start_index + i]] = new
    BY <1>2, <1>3, <1>4, <1>5
  <1> QED
    BY <1>6 DEF old, new

(* A pixel behind the last moved one is blanked. *)
LEMMA OneBlanked ==
  ASSUME NEW screen, NEW i \in Nat, i >= finish_index, i + 1 < end_index
  PROVE  [Moved(screen, i) EXCEPT ![i + 1] = BLANK] = Moved(screen, i + 1)
  <1> DEFINE old == Moved(screen, i)
             new == Moved(screen, i + 1)
  <1>1. \A j \in Pixels : j \in Int
    BY DEF Pixels
  <1>2. i + 1 \in Pixels
    BY Indices
  <1>3. new[i + 1] = BLANK
    <2>1. ~ (i + 1 < i + 1) /\ i + 1 > finish_index /\ i + 1 <= i + 1
      BY Indices
    <2> QED
      BY <1>2, <2>1 DEF Moved
  <1>4. \A j \in Pixels : j # i + 1 => new[j] = old[j]
    <2> SUFFICES ASSUME NEW j \in Pixels, j # i + 1
                 PROVE  new[j] = old[j]
      OBVIOUS
    <2>1. /\ j < i + 1 /\ j < finish_index <=> j < i /\ j < finish_index
          /\ j > finish_index /\ j <= i + 1 <=> j > finish_index /\ j <= i
      BY <1>1, Indices
    <2> QED
      BY <2>1 DEF Moved
  <1>5. new = [j \in Pixels |-> new[j]] /\ old = [j \in Pixels |-> old[j]]
    BY DEF Moved
  <1> HIDE DEF old, new
  <1>6. [old EXCEPT ![i + 1] = BLANK] = new
    BY <1>2, <1>3, <1>4, <1>5
  <1> QED
    BY <1>6 DEF old, new

(* A caller that scrolls goes on running. *)
LEMMA StillRunning ==
  ASSUME NEW p \in Callers, p = Running, ctx'[p].todo = ctx[p].todo, \A q \in Callers \ {p} : ctx'[q] = ctx[q]
  PROVE  p = Running'
  BY DEF Running, Callers

(* A step of console_scroll. *)
LEMMA ScrollUndisturbed ==
  ASSUME Typed, Undisturbed, NEW p \in Callers, console_scroll(p)
  PROVE  Undisturbed'
  <1>0. /\ p = Running /\ ctx[p].todo # << >> /\ scroll[p].i \in 0 .. end_index /\ scroll[p].i \in Nat
        /\ fb \in [Pixels -> Marks(glyphs)]
    BY StepRuns, Fields, Indices DEF Step, Typed
  <1>1. CASE before'.by = "nobody"
    BY <1>1 DEF Undisturbed
  <1> SUFFICES ASSUME before'.by # "nobody"
               PROVE  Undisturbed'
    BY <1>1
  <1>2. CASE Ends(p)
    BY <1>2 DEF Ends, Nobody
  <1> DEFINE i == scroll[p].i
  <1>3. ASSUME Begins(p)
        PROVE  before'.by = p /\ before'.screen \in [Pixels -> Marks(glyphs)] /\ fb = Moved(before'.screen, i)
    <2>1. CASE i = 0
      BY <1>0, <1>3, <2>1, NothingMoved DEF Begins
    <2>2. CASE i # 0
      <3>1. before' = before
        BY <1>3, <2>2 DEF Begins
      <3> QED
        BY <1>0, <3>1 DEF Undisturbed
    <2> QED
      BY <2>1, <2>2
  <1>4. CASE Loads(p)
    <2>1. before'.by = p /\ before'.screen \in [Pixels -> Marks(glyphs)] /\ fb = Moved(before'.screen, i)
      BY <1>3, <1>4 DEF Loads
    <2>2. /\ fb' = fb /\ glyphs' = glyphs /\ scroll'[p].i = i /\ scroll'[p].pixel = fb[start_index + i]
          /\ ctx'[p].todo = ctx[p].todo /\ ctx'[p].at = "scroll_store" /\ \A q \in Callers \ {p} : ctx'[q] = ctx[q]
          /\ start_index + i \in Pixels
      BY <1>4 DEF Loads, Moves, Becomes
    <2>3. scroll'[p].pixel = before'.screen[start_index + i]
      BY <1>0, <2>1, <2>2, StillThere
    <2>4. p = Running'
      BY <1>0, <2>2, StillRunning
    <2> HIDE DEF i
    <2> QED
      BY <1>0, <2>1, <2>2, <2>3, <2>4 DEF Undisturbed
  <1>5. CASE Stores(p)
    <2>1. before' = before /\ ctx[p].at = "scroll_store" /\ i < finish_index
      BY <1>5 DEF Stores
    <2>2. /\ before.by = p /\ before.screen \in [Pixels -> Marks(glyphs)] /\ fb = Moved(before.screen, i)
          /\ scroll[p].pixel = before.screen[start_index + i]
      BY <1>0, <2>1 DEF Undisturbed
    <2>3. fb' = Moved(before.screen, i + 1)
      <3>1. fb' = [fb EXCEPT ![i] = scroll[p].pixel]
        BY <1>5 DEF Stores
      <3>2. fb' = [Moved(before.screen, i) EXCEPT ![i] = before.screen[start_index + i]]
        BY <2>2, <3>1
      <3> QED
        BY <1>0, <2>1, <3>2, OneMoved
    <2>4. /\ glyphs' = glyphs /\ scroll'[p].i = i + 1
          /\ ctx'[p].todo = ctx[p].todo /\ ctx'[p].at = "scroll" /\ \A q \in Callers \ {p} : ctx'[q] = ctx[q]
      BY <1>5 DEF Stores, Moves, Becomes
    <2>5. p = Running'
      BY <1>0, <2>4, StillRunning
    <2> HIDE DEF i
    <2> QED
      BY <1>0, <2>1, <2>2, <2>3, <2>4, <2>5 DEF Undisturbed
  <1>6. CASE Blanks(p)
    <2>1. before'.by = p /\ before'.screen \in [Pixels -> Marks(glyphs)] /\ fb = Moved(before'.screen, i)
      BY <1>3, <1>6 DEF Blanks
    <2>2. fb' = Moved(before'.screen, i + 1)
      <3>1. fb' = [fb EXCEPT ![i + 1] = BLANK] /\ i >= finish_index /\ i + 1 < end_index
        BY <1>6 DEF Blanks
      <3>2. fb' = [Moved(before'.screen, i) EXCEPT ![i + 1] = BLANK]
        BY <2>1, <3>1
      <3> QED
        BY <1>0, <3>1, <3>2, OneBlanked
    <2>3. glyphs' = glyphs /\ scroll'[p].i = i + 1 /\ ctx' = ctx /\ ctx[p].at = "scroll"
      BY <1>6 DEF Blanks, Moves
    <2>4. p = Running'
      BY <1>0, <2>3, StillRunning
    <2> HIDE DEF i
    <2> QED
      BY <1>0, <2>1, <2>2, <2>3, <2>4 DEF Undisturbed
  <1> QED
    BY <1>2, <1>4, <1>5, <1>6, ScrollIs

(* Every step keeps it: while one scrolls, nobody else runs. *)
LEMMA StaysUndisturbed == Sound /\ Undisturbed /\ [Next]_vars => Undisturbed'
  <1> SUFFICES ASSUME Typed, Undisturbed, [Next]_vars
               PROVE  Undisturbed'
    BY DEF Sound
  <1>1. CASE UNCHANGED vars
    BY <1>1 DEF vars, cursor, scrolling, ghosts, Undisturbed, Running
  <1>2. CASE \E message \in Messages : Escape(message)
    BY <1>2 DEF Escape, Undisturbed, Nobody
  <1>3. ASSUME NEW p \in Callers, Step(p), ~ console_scroll(p)
        PROVE  Undisturbed'
    <2>1. before' = before
      BY <1>3 DEF Step, putchar, ReadX, console_drawchar, Advance, Tab, console_next, scrolling
    <2>2. before.by = "nobody"
      <3>1. ctx[p].at \notin {"scroll", "scroll_store"} /\ p = Running
        BY <1>3 DEF Step, putchar, ReadX, console_drawchar, Advance, Tab, console_next, At
      <3> QED
        BY <3>1 DEF Undisturbed
    <2> QED
      BY <2>1, <2>2 DEF Undisturbed
  <1> QED
    BY <1>1, <1>2, <1>3, Steps, ScrollUndisturbed

(* A pixel of a glyph, after console_scroll, was one of its pixels four    *)
(* lines further down.                                                     *)
LEMMA FourLinesUp ==
  ASSUME Pitch = Width, NEW x \in Nat, NEW y \in Int, y >= 4 * FontHeight,
         NEW k \in 0 .. (FontHeight - 1), NEW j \in 0 .. (FontWidth - 1),
         Index(x + j, y + k) \in Pixels
  PROVE  LET i == Index(x + j, y - 4 * FontHeight + k)
         IN  i \in Pixels /\ i < finish_index /\ start_index + i = Index(x + j, y + k)
  <1> DEFINE up == y - 4 * FontHeight + k
  <1>1. /\ up \in Nat /\ y + k = up + 4 * FontHeight /\ x + j \in Nat /\ start_index \in Nat
        /\ up * Pitch \in Nat /\ Pitch * Height \in Int /\ Pitch * Height = Height * Width
    BY Bounds, Indices
  <1>2. (up + 4 * FontHeight) * Pitch = up * Pitch + start_index
    BY <1>1, Bounds DEF start_index
  <1>3. Index(x + j, y + k) = up * Pitch + start_index + (x + j)
    BY <1>1, <1>2 DEF Index
  <1>4. Index(x + j, up) = up * Pitch + (x + j)
    BY DEF Index
  <1> DEFINE a == up * Pitch
             all == Pitch * Height
  <1>5. /\ a \in Nat /\ x + j \in Nat /\ start_index \in Nat /\ all \in Int
        /\ a + start_index + (x + j) \in 0 .. (all - 1)
        /\ Pixels = 0 .. (all - 1) /\ finish_index = all - start_index
    BY <1>1, <1>3 DEF Pixels, finish_index
  <1> HIDE DEF a, all
  <1>6. /\ a + (x + j) \in 0 .. (all - 1) /\ a + (x + j) < all - start_index
        /\ start_index + (a + (x + j)) = a + start_index + (x + j)
    BY <1>5
  <1> QED
    BY <1>3, <1>4, <1>5, <1>6 DEF a

(* An undisturbed console_scroll, pixel by pixel, keeps the text below the *)
(* first four lines, on a screen whose rows have no padding: it counts in  *)
(* rows of Width pixels, and fb_putpixel in rows of Pitch.                 *)
THEOREM ScrollKeeps ==
  ASSUME Pitch = Width
  PROVE  Spec => ScrollKeepsText
  <1> DEFINE A == before.by # "nobody" /\ glyphs' # glyphs =>
                    \A n \in DOMAIN glyphs :
                      Shows(before.screen, glyphs[n], n) /\ glyphs[n].y >= 4 * FontHeight =>
                        Shows(fb', glyphs'[n], n)
  <1>1. ASSUME Sound, Undisturbed, [Next]_vars
        PROVE  [A]_vars
    <2> SUFFICES ASSUME before.by # "nobody", glyphs' # glyphs, NEW n \in DOMAIN glyphs,
                        Shows(before.screen, glyphs[n], n), glyphs[n].y >= 4 * FontHeight
                 PROVE  Shows(fb', glyphs'[n], n)
      OBVIOUS
    <2>0. Typed
      BY <1>1 DEF Sound
    <2>1. PICK p \in Callers : Step(p)
      BY <1>1, Steps DEF Escape, vars, ghosts
    <2>2. p = Running /\ before.by = p /\ ctx[p].at \in {"scroll", "scroll_store"}
      BY <1>1, <2>1, StepRuns DEF Undisturbed
    <2>3. console_scroll(p)
      BY <2>1, <2>2 DEF Step, putchar, ReadX, console_drawchar, Advance, Tab, console_next, At
    <2>4. Ends(p)
      BY <2>0, <2>3, ScrollIs DEF Loads, Stores, Blanks
    <2>5. fb' = fb /\ scroll[p].i >= finish_index /\ glyphs'[n] = [glyphs[n] EXCEPT !.y = @ - 4 * FontHeight]
      BY <2>0, <2>4, ScrolledIs DEF Ends
    <2>6. fb = Moved(before.screen, scroll[p].i)
      BY <1>1, <2>2 DEF Undisturbed
    <2>7. /\ glyphs[n].x \in Nat /\ glyphs[n].y \in Int
          /\ glyphs'[n].x = glyphs[n].x /\ glyphs'[n].y = glyphs[n].y - 4 * FontHeight
      BY <2>0, <2>5, GlyphsAre DEF GlyphType
    <2>8. ASSUME NEW i \in PixelsOf(glyphs'[n])
          PROVE  i \in Pixels /\ fb'[i] = n
      <3>1. PICK k \in 0 .. (FontHeight - 1) : i \in Row(glyphs[n].x, glyphs[n].y - 4 * FontHeight + k)
        BY <2>7, <2>8 DEF PixelsOf
      <3>2. PICK j \in 0 .. (FontWidth - 1) : i = Index(glyphs[n].x + j, glyphs[n].y - 4 * FontHeight + k)
        BY <3>1 DEF Row
      <3>3. Index(glyphs[n].x + j, glyphs[n].y + k) \in PixelsOf(glyphs[n])
        BY DEF PixelsOf, Row
      <3>4. /\ Index(glyphs[n].x + j, glyphs[n].y + k) \in Pixels
            /\ before.screen[Index(glyphs[n].x + j, glyphs[n].y + k)] = n
        BY <3>3 DEF Shows
      <3>5. i \in Pixels /\ i < finish_index /\ before.screen[start_index + i] = n
        BY <2>7, <3>2, <3>4, FourLinesUp
      <3>6. i < scroll[p].i
        <4>1. i \in Int /\ scroll[p].i \in Int
          BY <2>0, <3>5, Fields DEF Pixels
        <4> QED
          BY <2>5, <3>5, <4>1, Indices
      <3> QED
        BY <2>5, <2>6, <3>5, <3>6 DEF Moved
    <2> QED
      BY <2>8 DEF Shows
  <1>2. Sound /\ Undisturbed /\ [Next]_vars => [A]_vars
    BY <1>1
  <1>3. ScrollKeepsText <=> [][A]_vars
    BY DEF ScrollKeepsText
  <1>4. Init => Undisturbed
    BY DEF Init, Undisturbed, Nobody
  <1> HIDE DEF A
  <1> QED
    BY <1>2, <1>3, <1>4, StaysUndisturbed, Invariance, PTL DEF Spec

-----------------------------------------------------------------------------
(***************************************************************************)
(* The rows of a glyph.                                                    *)
(***************************************************************************)
RowShown(screen, g, n, k) ==
  /\ Row(g.x, g.y + k) \subseteq Pixels
  /\ \A i \in Row(g.x, g.y + k) : screen[i] = n

(* Row k of glyph n is not still to be drawn. *)
RowDrawn(cs, n, k) == \A q \in Callers : cs[q].at = "draw" /\ cs[q].id = n => k < cs[q].row

FromTop == \A q \in Callers : ctx[q].at \notin {"draw", "advance"} => ctx[q].row = 0

(* Rows of pixels that do not meet. *)
LEMMA RowsApart ==
  ASSUME NEW x1 \in Nat, NEW x2 \in Nat, NEW y1 \in Int, NEW y2 \in Int,
         x1 + FontWidth <= Width, x2 + FontWidth <= Width,
         y1 # y2 \/ x1 + FontWidth <= x2,
         NEW i \in Row(x1, y1)
  PROVE  i \notin Row(x2, y2)
  <1> SUFFICES ASSUME i \in Row(x2, y2)
               PROVE  FALSE
    OBVIOUS
  <1>1. PICK j1 \in 0 .. (FontWidth - 1) : i = y1 * Pitch + (x1 + j1)
    BY DEF Row, Index
  <1>2. PICK j2 \in 0 .. (FontWidth - 1) : i = y2 * Pitch + (x2 + j2)
    BY DEF Row, Index
  <1>3. x1 + j1 \in 0 .. (Pitch - 1) /\ x2 + j2 \in 0 .. (Pitch - 1)
    BY Bounds
  <1>4. ASSUME NEW u \in Int, NEW v \in Int, NEW a \in 0 .. (Pitch - 1), NEW b \in 0 .. (Pitch - 1), u < v
        PROVE  u * Pitch + a # v * Pitch + b
    <2>1. u * Pitch + Pitch <= v * Pitch
      <3>1. u + 1 <= v /\ Pitch \in Nat
        BY <1>4, Bounds
      <3>2. (u + 1) * Pitch <= v * Pitch /\ (u + 1) * Pitch = u * Pitch + Pitch
        BY <3>1
      <3> QED
        BY <3>2
    <2>2. u * Pitch \in Int /\ v * Pitch \in Int
      BY Bounds
    <2> QED
      BY <2>1, <2>2, Bounds
  <1>5. y1 = y2
    BY <1>1, <1>2, <1>3, <1>4
  <1>6. x1 + j1 = x2 + j2
    <2>1. y1 * Pitch \in Int
      BY Bounds
    <2> QED
      BY <1>1, <1>2, <1>5, <2>1
  <1> QED
    BY <1>5, <1>6, Bounds

(* Glyphs are drawn from the top row on. *)
LEMMA StepFromTop ==
  ASSUME Typed, FromTop, NEW p \in Callers, Step(p)
  PROVE  FromTop'
  <1>1. Leaves(p) /\ ctx[p].todo # << >>
    BY CallersTyped, StepRuns
  <1>2. ctx'[p].at \notin {"draw", "advance"} => ctx'[p].row = 0
    <2>r. ASSUME Returns(p) PROVE ctx'[p].row = 0
      BY <2>r DEF Returns, Caller
    <2>1. CASE putchar(p)
      <3>1. ctx[p].row = 0
        BY <2>1 DEF putchar, At, FromTop
      <3> QED
        BY <2>1, <3>1, PutcharIs DEF Becomes
    <2>2. CASE ReadX(p)
      BY <2>2, ReadXIs DEF Becomes
    <2>3. CASE console_drawchar(p)
      BY <2>3, DrawcharIs DEF Becomes
    <2>4. CASE Advance(p) \/ Tab(p)
      <3>1. Return(p)
        BY <2>4 DEF Advance, Tab
      <3> QED
        BY <1>1, <2>r, <3>1, ReturnIs
    <2>5. CASE console_next(p)
      <3>1. ctx[p].row = 0
        BY <2>5 DEF console_next, At, FromTop
      <3> QED
        BY <2>5, <2>r, <3>1, NextIs DEF Becomes
    <2>6. CASE console_scroll(p)
      <3>1. ctx[p].row = 0
        BY <2>6 DEF console_scroll, At, FromTop
      <3> QED
        BY <2>6, <2>r, <3>1, ScrollIs DEF Loads, Stores, Blanks, Ends, Becomes
    <2> QED
      BY <2>1, <2>2, <2>3, <2>4, <2>5, <2>6 DEF Step
  <1> QED
    BY <1>1, <1>2 DEF FromTop, Leaves

-----------------------------------------------------------------------------
(***************************************************************************)
(* The damage that Escapes amid a putchar can do.  The glyphs lie in the   *)
(* cells of a grid.  There is a set R of glyphs that may get lost, no      *)
(* larger than what is at risk; every other glyph has a cell of its own,   *)
(* is shown as far as it is drawn, and stands where neither caller will    *)
(* draw again, whatever stale position kernel() resumes with.              *)
(***************************************************************************)
Col(x)  == \E i \in Nat : x = i * FontWidth
Line(y) == \E i \in Nat : y = i * FontHeight

SameCell(g, f) == g.x = f.x /\ g.y = f.y

Hits(t)   == {i \in DOMAIN t : t[i] = GLYPH}
Glyphs(t) == Cardinality(Hits(t))

(* The glyphs that a caller has still to begin. *)
Owed(c) == Glyphs(c.todo) - (IF c.at \in {"draw", "advance"} THEN 1 ELSE 0)

(* Columns and lines; kernel() may have read its line before an Escape.    *)
OnGrid(k, gs, x, y) ==
  /\ Col(x) /\ Line(y) /\ \A n \in DOMAIN gs : Col(gs[n].x) /\ Line(gs[n].y)
  /\ k.at = "tab" => Col(k.x) /\ k.x + 4 * FontWidth < Width
  /\ k.at \in {"read_x", "clear_x", "store_y"} => Line(k.y) /\ k.y <= y
  /\ x < Width + 5 * FontWidth
  /\ k.at \in {"draw", "advance"} => x < Width + 4 * FontWidth

(* What the handler has read of the cursor is never stale. *)
Current(h, gs, x, y) ==
  /\ h.at \in {"read_x", "clear_x", "store_y"} => h.y = y
  /\ h.at \in {"store_y", "tab_end"} => x = 0
  /\ h.at = "tab" => h.x = x /\ x + 4 * FontWidth < Width
  /\ h.at \in {"read_x", "draw", "advance"} => Head(h.todo) = GLYPH
  /\ h.at \in {"draw", "advance"} =>
       /\ h.id = Len(gs) /\ Len(gs) > 0
       /\ gs[Len(gs)].x = x /\ gs[Len(gs)].y = y /\ x + FontWidth <= Width

(* Before the cursor, or, amid the handler's line feed, where it was. *)
Behind(h, g, x, y) == IF h.at = "store_y" THEN g.y <= y ELSE Before(g, x, y)

(* Where a glyph n, not in R, may stand. *)
Safe(k, h, n, g, x, y) ==
  /\ k.at = "next" => Behind(h, g, x, y) \/ (h.at \in {"draw", "advance"} /\ n = h.id)
  /\ k.at \in {"load_y", "read_x", "tab", "clear_x"} => Behind(h, g, x, y)
  /\ k.at = "tab" => Before(g, k.x, y)
  /\ k.at = "tab_end" => g.y + FontHeight <= y
  /\ k.at \in {"clear_x", "store_y"} => g.y <= k.y
  /\ k.at \in {"draw", "advance"} /\ n # k.id => Behind(h, g, x, y)
  /\ k.at \in {"draw", "advance"} /\ n = k.id =>
       h.todo = << >> /\ (g.y + FontHeight <= y \/ (g.y = y /\ g.x <= x))

AllSafe(R, k, h, gs, x, y) == \A n \in DOMAIN gs \ R : Safe(k, h, n, gs[n], x, y)

Apart(R, gs) == \A n, m \in DOMAIN gs \ R : n # m => ~ SameCell(gs[n], gs[m])

(* The glyph being drawn is where its caller draws, and in no other's cell.*)
Spared(R, cs, gs) ==
  \A q \in Callers : cs[q].at = "draw" =>
    /\ gs[cs[q].id].y = cs[q].y
    /\ \A n \in DOMAIN gs \ R : n # cs[q].id => ~ SameCell(gs[n], gs[cs[q].id])

Intact(R, cs, gs, screen) ==
  \A n \in DOMAIN gs \ R : \A k \in 0 .. (FontHeight - 1) :
    RowDrawn(cs, n, k) => RowShown(screen, gs[n], n, k)

(* s is 1 while kernel() may have a stale line and draw over a glyph. *)
Paid(R, s, k, h, y, risk) ==
  /\ s \in {0, 1}
  /\ k.at = "next" => Cardinality(R) <= risk
  /\ k.at # "next" => Cardinality(R) + s + Owed(h) <= risk
  /\ k.at = "read_x" /\ s = 0 => k.y = y /\ h.todo = << >>

Bounded(R, s) ==
  /\ R \in SUBSET DOMAIN glyphs
  /\ Paid(R, s, ctx["kernel"], ctx["handler"], cursor_y, atRisk)
  /\ AllSafe(R, ctx["kernel"], ctx["handler"], glyphs, cursor_x, cursor_y)
  /\ Apart(R, glyphs) /\ Spared(R, ctx, glyphs) /\ Intact(R, ctx, glyphs, fb)

Damage ==
  LinesFit /\ ~ Filled =>
    /\ OnGrid(ctx["kernel"], glyphs, cursor_x, cursor_y)
    /\ Current(ctx["handler"], glyphs, cursor_x, cursor_y)
    /\ \E R, s : Bounded(R, s)

(* Multiples of d. *)
LEMMA NextMultiple ==
  ASSUME NEW d \in Nat \ {0}, NEW i \in Nat, NEW j \in Nat, i * d < j * d
  PROVE  i * d + d <= j * d
  <1>1. i < j
    <2> SUFFICES ASSUME j <= i PROVE FALSE
      OBVIOUS
    <2>1. j * d <= i * d
      OBVIOUS
    <2> QED BY <2>1
  <1>2. i + 1 <= j
    BY <1>1
  <1>3. (i + 1) * d <= j * d /\ (i + 1) * d = i * d + d
    BY <1>2
  <1> QED BY <1>3

(* Columns and lines, and the next ones. *)
LEMMA GridIs ==
  /\ \A x : Col(x) => x \in Nat /\ Col(x + FontWidth) /\ Col(x + 8 * FontWidth)
  /\ \A y : Line(y) => y \in Nat /\ Line(y + FontHeight)
  /\ Col(0) /\ Line(0) /\ Col(4 * FontWidth)
  <1>0. FontWidth \in Nat /\ FontHeight \in Nat
    BY Bounds
  <1>1. ASSUME NEW x, Col(x) PROVE x \in Nat /\ Col(x + FontWidth) /\ Col(x + 8 * FontWidth)
    <2>1. PICK i \in Nat : x = i * FontWidth
      BY <1>1 DEF Col
    <2>2. /\ i + 1 \in Nat /\ x + FontWidth = (i + 1) * FontWidth
          /\ i + 8 \in Nat /\ x + 8 * FontWidth = (i + 8) * FontWidth /\ x \in Nat
      BY <1>0, <2>1
    <2> QED BY <2>2 DEF Col
  <1>2. ASSUME NEW y, Line(y) PROVE y \in Nat /\ Line(y + FontHeight)
    <2>1. PICK i \in Nat : y = i * FontHeight
      BY <1>2 DEF Line
    <2>2. i + 1 \in Nat /\ y + FontHeight = (i + 1) * FontHeight /\ y \in Nat
      BY <1>0, <2>1
    <2> QED BY <2>2 DEF Line
  <1>3. Col(0) /\ Line(0) /\ Col(4 * FontWidth)
    <2>1. 0 = 0 * FontWidth /\ 0 = 0 * FontHeight
      BY <1>0
    <2> QED BY <2>1 DEF Col, Line
  <1> QED BY <1>1, <1>2, <1>3

(* Two of them are equal, or a glyph's width or height apart. *)
LEMMA GridStep ==
  /\ \A a, b : Col(a) /\ Col(b) /\ a < b => a + FontWidth <= b
  /\ \A a, b : Line(a) /\ Line(b) /\ a < b => a + FontHeight <= b
  <1>1. ASSUME NEW a, NEW b, Col(a), Col(b), a < b PROVE a + FontWidth <= b
    <2>1. PICK i \in Nat, j \in Nat : a = i * FontWidth /\ b = j * FontWidth
      BY <1>1 DEF Col
    <2> QED BY <1>1, <2>1, NextMultiple, Bounds
  <1>2. ASSUME NEW a, NEW b, Line(a), Line(b), a < b PROVE a + FontHeight <= b
    <2>1. PICK i \in Nat, j \in Nat : a = i * FontHeight /\ b = j * FontHeight
      BY <1>2 DEF Line
    <2> QED BY <1>2, <2>1, NextMultiple, Bounds
  <1> QED BY <1>1, <1>2

(* Glyphs in different cells share no pixels. *)
LEMMA CellsApart ==
  ASSUME NEW g, NEW f, Col(g.x), Line(g.y), Col(f.x), Line(f.y), ~ SameCell(g, f),
         g.x + FontWidth <= Width, f.x + FontWidth <= Width,
         NEW k \in 0 .. (FontHeight - 1), NEW l \in 0 .. (FontHeight - 1),
         NEW i \in Row(g.x, g.y + k)
  PROVE  i \notin Row(f.x, f.y + l)
  <1>0. g.x \in Nat /\ g.y \in Nat /\ f.x \in Nat /\ f.y \in Nat
    BY GridIs
  <1>1. /\ g.x \in Nat /\ g.y \in Nat /\ f.x \in Nat /\ f.y \in Nat
        /\ g.y + k \in Int /\ f.y + l \in Int /\ FontHeight \in Nat /\ FontWidth \in Nat
        /\ k \in 0 .. (FontHeight - 1) /\ l \in 0 .. (FontHeight - 1)
    BY <1>0, Bounds
  <1>2. g.y + k # f.y + l \/ g.x + FontWidth <= f.x \/ f.x + FontWidth <= g.x
    <2>1. CASE g.y < f.y
      <3>1. g.y + FontHeight <= f.y
        BY <2>1, GridStep
      <3> QED BY <1>1, <3>1
    <2>2. CASE f.y < g.y
      <3>1. f.y + FontHeight <= g.y
        BY <2>2, GridStep
      <3> QED BY <1>1, <3>1
    <2>3. CASE g.y = f.y
      <3>1. g.x # f.x
        BY <2>3 DEF SameCell
      <3>2. g.x + FontWidth <= f.x \/ f.x + FontWidth <= g.x
        BY <1>1, <3>1, GridStep
      <3> QED BY <3>2
    <2> QED BY <1>1, <2>1, <2>2, <2>3
  <1>3. CASE f.x + FontWidth <= g.x
    <2> SUFFICES ASSUME i \in Row(f.x, f.y + l) PROVE FALSE
      OBVIOUS
    <2> QED BY <1>1, <1>3, RowsApart
  <1>4. CASE g.y + k # f.y + l \/ g.x + FontWidth <= f.x
    BY <1>1, <1>4, RowsApart
  <1> QED BY <1>2, <1>3, <1>4

(* The glyphs of a text can be counted. *)
LEMMA GlyphsIs ==
  ASSUME NEW t \in Seq(Chars)
  PROVE  Glyphs(t) \in Nat /\ IsFiniteSet(Hits(t))
  <1>1. DOMAIN t = 1 .. Len(t) /\ Len(t) \in Nat
    OBVIOUS
  <1>2. IsFiniteSet(1 .. Len(t)) /\ Hits(t) \subseteq 1 .. Len(t)
    BY <1>1, FS_Interval DEF Hits
  <1> QED
    BY <1>2, FS_Subset, FS_CardinalityType DEF Glyphs

(* A glyph less to print. *)
LEMMA GlyphsTail ==
  ASSUME NEW t \in Seq(Chars), t # << >>
  PROVE  /\ Glyphs(Tail(t)) <= Glyphs(t)
         /\ Head(t) = GLYPH => Glyphs(Tail(t)) + 1 <= Glyphs(t)
  <1> DEFINE S == Hits(Tail(t))
             T == {i + 1 : i \in S}
             f == [i \in S |-> i + 1]
  <1>1. /\ Tail(t) \in Seq(Chars) /\ Len(t) \in Nat /\ Len(t) > 0 /\ DOMAIN t = 1 .. Len(t)
        /\ Len(Tail(t)) = Len(t) - 1 /\ DOMAIN Tail(t) = 1 .. (Len(t) - 1)
        /\ \A i \in 1 .. (Len(t) - 1) : Tail(t)[i] = t[i + 1]
        /\ Head(t) = t[1]
    <2>1. Len(t) \in Nat /\ Len(t) > 0 /\ DOMAIN t = 1 .. Len(t) /\ Head(t) = t[1]
      OBVIOUS
    <2>2. Tail(t) \in Seq(Chars) /\ Len(Tail(t)) = Len(t) - 1
      BY <2>1
    <2>3. ASSUME NEW i \in 1 .. (Len(t) - 1) PROVE Tail(t)[i] = t[i + 1]
      BY <2>1, <2>2
    <2>4. DOMAIN Tail(t) = 1 .. (Len(t) - 1)
      BY <2>2
    <2> QED BY <2>1, <2>2, <2>3, <2>4
  <1>2. S \subseteq Nat /\ IsFiniteSet(S) /\ IsFiniteSet(Hits(t))
    <2>1. IsFiniteSet(S) /\ IsFiniteSet(Hits(t))
      BY <1>1, GlyphsIs
    <2>2. S \subseteq Nat
      BY <1>1 DEF Hits
    <2> QED BY <2>1, <2>2
  <1>3. f \in Bijection(S, T)
    <2>1. f \in [S -> T]
      OBVIOUS
    <2>2. \A a, b \in S : f[a] = f[b] => a = b
      BY <1>2
    <2>3. \A v \in T : \E a \in S : f[a] = v
      OBVIOUS
    <2> QED BY <2>1, <2>2, <2>3 DEF Bijection, Injection, Surjection, IsInjective
  <1>4. IsFiniteSet(T) /\ Cardinality(T) = Cardinality(S)
    BY <1>2, <1>3, FS_Bijection DEF ExistsBijection
  <1>5. T \subseteq Hits(t) /\ 1 \notin T
    <2> SUFFICES ASSUME NEW i \in S PROVE i + 1 \in Hits(t) /\ i + 1 # 1
      OBVIOUS
    <2>1. i \in 1 .. (Len(t) - 1) /\ Tail(t)[i] = GLYPH
      BY <1>1 DEF Hits
    <2> QED BY <1>1, <2>1 DEF Hits
  <1>6. Cardinality(T) <= Cardinality(Hits(t))
    BY <1>2, <1>5, FS_Subset
  <1>7. ASSUME Head(t) = GLYPH PROVE Cardinality(T) + 1 <= Cardinality(Hits(t))
    <2>1. T \cup {1} \subseteq Hits(t)
      BY <1>1, <1>5, <1>7 DEF Hits
    <2>2. Cardinality(T \cup {1}) = Cardinality(T) + 1
      BY <1>4, <1>5, FS_AddElement
    <2> QED BY <1>2, <2>1, <2>2, FS_Subset
  <1> QED
    BY <1>4, <1>6, <1>7 DEF Glyphs

(* Steps that draw nothing: the cursor and the caller's own fields. *)
Quiet(c, d, x, y, u, v) ==
  \/ /\ c.at = "next" /\ u = x /\ v = y /\ d.todo = c.todo
     /\ \/ d.at = "read_x" /\ d.y = y /\ Head(c.todo) = GLYPH
        \/ d.at = "load_y"
        \/ d.at = "tab" /\ d.x = x /\ x + 4 * FontWidth < Width
  \/ c.at = "advance" /\ u = x + FontWidth /\ v = y /\ d.at = "next" /\ d.todo = Tail(c.todo)
  \/ c.at = "tab" /\ u = c.x + 8 * FontWidth /\ v = y /\ d.at = "next" /\ d.todo = Tail(c.todo)
  \/ c.at = "tab_end" /\ u = 4 * FontWidth /\ v = y /\ d.at = "next" /\ d.todo = Tail(c.todo)
  \/ c.at = "load_y" /\ d.at = "clear_x" /\ d.y = y /\ u = x /\ v = y /\ d.todo = c.todo
  \/ c.at = "clear_x" /\ d.at = "store_y" /\ d.y = c.y /\ u = 0 /\ v = y /\ d.todo = c.todo
  \/ /\ c.at = "store_y" /\ u = x /\ v = c.y + FontHeight
     /\ (d.at = "tab_end" /\ d.todo = c.todo) \/ (d.at = "next" /\ d.todo = Tail(c.todo))

(* 16 bits hold the cursor. *)
LEMMA NoWrap ==
  /\ \A x \in Nat : x < Width + 5 * FontWidth => U16(x + 4 * FontWidth) = x + 4 * FontWidth
  /\ \A x \in Nat : x < Width + 4 * FontWidth => U16(x + FontWidth) = x + FontWidth
  /\ \A x \in Nat : x + 4 * FontWidth < Width => U16(x + 8 * FontWidth) = x + 8 * FontWidth
  /\ \A y \in Nat : y <= Lowest => Below(y) = y + FontHeight
  <1>1. ASSUME NEW n \in Nat, n <= UINT16_MAX PROVE U16(n) = n
    BY <1>1, U16Is, Bounds DEF Word
  <1>2. /\ \A x \in Nat : x < Width + 5 * FontWidth => x + 4 * FontWidth \in Nat /\ x + 4 * FontWidth <= UINT16_MAX
        /\ \A x \in Nat : x < Width + 4 * FontWidth => x + FontWidth \in Nat /\ x + FontWidth <= UINT16_MAX
        /\ \A x \in Nat : x + 4 * FontWidth < Width => x + 8 * FontWidth \in Nat /\ x + 8 * FontWidth <= UINT16_MAX
    BY Bounds
  <1>3. \A y \in Nat : y <= Lowest => y + FontHeight \in Nat /\ y + FontHeight <= UINT16_MAX
    BY Bounds DEF Word
  <1> QED
    BY <1>1, <1>2, <1>3 DEF Below

(* What a caller has read keeps the cursor in 16 bits. *)
LEMMA InRange ==
  ASSUME Sound, ~ Filled, NEW p \in Callers,
         OnGrid(ctx["kernel"], glyphs, cursor_x, cursor_y), Current(ctx["handler"], glyphs, cursor_x, cursor_y)
  PROVE  /\ cursor_x \in Nat /\ cursor_y \in Nat /\ ctx[p].x \in Nat /\ ctx[p].y \in Nat
         /\ cursor_x < Width + 5 * FontWidth
         /\ ctx[p].at = "tab" => ctx[p].x + 4 * FontWidth < Width
         /\ ctx[p].at = "store_y" => ctx[p].y <= Lowest
         /\ ctx[p].at = "advance" => cursor_x < Width + 4 * FontWidth
  <1>1. Typed /\ cursor_y <= Lowest
    BY DEF Sound, Inside, OnScreen
  <1>2. cursor_x \in Nat /\ cursor_y \in Nat /\ ctx[p].x \in Nat /\ ctx[p].y \in Nat
    BY <1>1, GlyphsAre, Fields, Bounds DEF Word
  <1>3. CASE p = "kernel"
    <2>1. /\ cursor_x < Width + 5 * FontWidth
          /\ ctx[p].at = "tab" => ctx[p].x + 4 * FontWidth < Width
          /\ ctx[p].at = "store_y" => ctx[p].y <= cursor_y
          /\ ctx[p].at = "advance" => cursor_x < Width + 4 * FontWidth
      BY <1>3 DEF OnGrid
    <2> QED BY <1>1, <1>2, <2>1, Bounds
  <1>4. CASE p = "handler"
    <2>1. /\ cursor_x < Width + 5 * FontWidth
          /\ ctx[p].at = "tab" => ctx[p].x = cursor_x /\ cursor_x + 4 * FontWidth < Width
          /\ ctx[p].at = "store_y" => ctx[p].y = cursor_y
          /\ ctx[p].at = "advance" => cursor_x + FontWidth <= Width
      BY <1>4 DEF OnGrid, Current
    <2> QED BY <1>1, <1>2, <2>1, Bounds
  <1> QED BY <1>3, <1>4 DEF Callers

(* The steps that draw nothing. *)
LEMMA QuietSteps ==
  ASSUME Sound, ~ Filled, ~ Filled', NEW p \in Callers,
         OnGrid(ctx["kernel"], glyphs, cursor_x, cursor_y), Current(ctx["handler"], glyphs, cursor_x, cursor_y),
         putchar(p) \/ Advance(p) \/ Tab(p) \/ console_next(p)
  PROVE  Quiet(ctx[p], ctx'[p], cursor_x, cursor_y, cursor_x', cursor_y')
  <1>1. Typed /\ Typed' /\ ctx[p].todo # << >> /\ ctx'[p].at # "scroll"
    <2>1. Typed /\ Typed' /\ ctx[p].todo # << >>
      BY StepTyped, StepRuns DEF Sound, Step
    <2> QED BY <2>1, FilledAfter DEF Callers
  <1>2. /\ cursor_x \in Nat /\ cursor_y \in Nat /\ ctx[p].x \in Nat /\ ctx[p].y \in Nat
        /\ cursor_x < Width + 5 * FontWidth
        /\ ctx[p].at = "tab" => ctx[p].x + 4 * FontWidth < Width
        /\ ctx[p].at = "store_y" => ctx[p].y <= Lowest
        /\ ctx[p].at = "advance" => cursor_x < Width + 4 * FontWidth
    BY InRange
  <1>r. ASSUME Returns(p) PROVE ctx'[p].at = "next" /\ ctx'[p].todo = Tail(ctx[p].todo)
    BY <1>r DEF Returns, Caller
  <1>3. CASE putchar(p)
    <2>1. ctx[p].at = "next" /\ cursor_x' = cursor_x /\ cursor_y' = cursor_y
      BY <1>3 DEF putchar, At, cursor
    <2>2. U16(cursor_x + 4 * FontWidth) = cursor_x + 4 * FontWidth
      BY <1>2, NoWrap
    <2> QED BY <1>1, <1>3, <2>1, <2>2, PutcharIs DEF Becomes, Quiet
  <1>4. CASE Advance(p)
    <2>1. ctx[p].at = "advance" /\ cursor_x' = U16(cursor_x + FontWidth) /\ cursor_y' = cursor_y /\ Returns(p)
      BY <1>1, <1>4, ReturnIs DEF Advance, At
    <2>2. U16(cursor_x + FontWidth) = cursor_x + FontWidth
      BY <1>2, <2>1, NoWrap
    <2> QED BY <1>r, <2>1, <2>2 DEF Quiet
  <1>5. CASE Tab(p)
    <2>1. /\ cursor_y' = cursor_y /\ Returns(p)
          /\ \/ ctx[p].at = "tab" /\ cursor_x' = U16(ctx[p].x + 8 * FontWidth)
             \/ ctx[p].at = "tab_end" /\ cursor_x' = 4 * FontWidth
      BY <1>1, <1>5, ReturnIs DEF Tab, At
    <2>2. ctx[p].at = "tab" => U16(ctx[p].x + 8 * FontWidth) = ctx[p].x + 8 * FontWidth
      BY <1>2, NoWrap
    <2> QED BY <1>r, <2>1, <2>2 DEF Quiet
  <1>6. CASE console_next(p)
    <2>1. ctx[p].at = "store_y" => Below(ctx[p].y) = ctx[p].y + FontHeight
      BY <1>2, NoWrap
    <2> QED BY <1>1, <1>6, <1>r, <2>1, NextIs DEF Becomes, Quiet, cursor
  <1> QED BY <1>3, <1>4, <1>5, <1>6

(* kernel()'s step stays on the grid. *)
LEMMA KernelGrid ==
  ASSUME NEW k, NEW l, NEW gs, NEW x, NEW y, NEW u, NEW v,
         OnGrid(k, gs, x, y), Quiet(k, l, x, y, u, v)
  PROVE  OnGrid(l, gs, u, v)
  <1>1. Col(x) /\ Line(y) /\ \A n \in DOMAIN gs : Col(gs[n].x) /\ Line(gs[n].y)
    BY DEF OnGrid
  <1>2. x \in Nat /\ y \in Nat
    BY <1>1, GridIs
  <1>3. FontWidth \in Nat \ {0} /\ FontHeight \in Nat \ {0} /\ Width \in Nat \ {0}
    BY Bounds
  <1>4. k.at = "tab" => Col(k.x) /\ k.x \in Nat /\ k.x + 4 * FontWidth < Width
    BY GridIs DEF OnGrid
  <1>5. k.at \in {"clear_x", "store_y"} => Line(k.y) /\ k.y \in Nat /\ k.y <= y
    BY GridIs DEF OnGrid
  <1>6. x < Width + 5 * FontWidth /\ (k.at = "advance" => x < Width + 4 * FontWidth)
    BY DEF OnGrid
  <1>7. Col(u) /\ Line(v)
    BY <1>1, <1>4, <1>5, GridIs DEF Quiet
  <1>8. l.at = "tab" => Col(l.x) /\ l.x + 4 * FontWidth < Width
    BY <1>1 DEF Quiet
  <1>9. l.at \in {"read_x", "clear_x", "store_y"} => Line(l.y) /\ l.y <= v
    BY <1>1, <1>2, <1>5 DEF Quiet
  <1>10. u < Width + 5 * FontWidth
    BY <1>2, <1>3, <1>4, <1>6 DEF Quiet
  <1>11. l.at \notin {"draw", "advance"}
    BY DEF Quiet
  <1> QED
    BY <1>1, <1>7, <1>8, <1>9, <1>10, <1>11 DEF OnGrid

(* The handler's step stays on the grid, and what it has read current. *)
LEMMA HandlerGrid ==
  ASSUME NEW k, NEW h, NEW l, NEW gs, NEW x, NEW y, NEW u, NEW v,
         OnGrid(k, gs, x, y), Current(h, gs, x, y), Quiet(h, l, x, y, u, v)
  PROVE  OnGrid(k, gs, u, v) /\ Current(l, gs, u, v) /\ y <= v
  <1>1. Col(x) /\ Line(y) /\ \A n \in DOMAIN gs : Col(gs[n].x) /\ Line(gs[n].y)
    BY DEF OnGrid
  <1>2. x \in Nat /\ y \in Nat
    BY <1>1, GridIs
  <1>3. FontWidth \in Nat \ {0} /\ FontHeight \in Nat \ {0} /\ Width \in Nat \ {0}
    BY Bounds
  <1>4. /\ h.at = "tab" => h.x = x /\ x + 4 * FontWidth < Width
        /\ h.at \in {"clear_x", "store_y"} => h.y = y
        /\ h.at = "advance" => x + FontWidth <= Width
        /\ h.at \in {"store_y", "tab_end"} => x = 0
    BY DEF Current
  <1>5. Col(u) /\ Line(v)
    BY <1>1, <1>4, GridIs DEF Quiet
  <1>6. y <= v
    BY <1>2, <1>3, <1>4 DEF Quiet
  <1>7. u < Width + 5 * FontWidth /\ (x < Width + 4 * FontWidth => u < Width + 4 * FontWidth)
    <2>1. x < Width + 5 * FontWidth
      BY DEF OnGrid
    <2> QED BY <1>2, <1>3, <1>4, <2>1 DEF Quiet
  <1>8. OnGrid(k, gs, u, v)
    <2>1. k.at \in {"read_x", "clear_x", "store_y"} => Line(k.y) /\ k.y \in Nat /\ k.y <= y
      BY GridIs DEF OnGrid
    <2>2. v \in Nat
      BY <1>5, GridIs
    <2>3. k.at \in {"read_x", "clear_x", "store_y"} => Line(k.y) /\ k.y <= v
      BY <1>2, <1>6, <2>1, <2>2
    <2> QED BY <1>1, <1>5, <1>7, <2>3 DEF OnGrid
  <1>9. Current(l, gs, u, v)
    BY <1>4 DEF Quiet, Current
  <1> QED BY <1>6, <1>8, <1>9

(* A glyph before a position is before later ones, and not at it. *)
LEMMA BeforeIs ==
  ASSUME NEW g, g.x \in Nat, g.y \in Int, NEW x \in Nat, NEW y \in Nat, Before(g, x, y)
  PROVE  /\ \A u \in Nat : x <= u => Before(g, u, y)
         /\ \A u : Before(g, u, y + FontHeight)
         /\ g.y <= y /\ ~ (g.x = x /\ g.y = y)
  BY Bounds DEF Before

(* kernel() leaves safe glyphs safe. *)
LEMMA KernelSafe ==
  ASSUME NEW k, NEW l, NEW h, NEW n, NEW g, g.x \in Nat, g.y \in Int,
         NEW x \in Nat, NEW y \in Nat, NEW u, NEW v,
         h.at = "next", Safe(k, h, n, g, x, y), Quiet(k, l, x, y, u, v),
         k.at = "tab" => k.x \in Nat, k.at \in {"clear_x", "store_y"} => k.y \in Nat
  PROVE  Safe(l, h, n, g, u, v)
  <1>0. FontWidth \in Nat \ {0} /\ FontHeight \in Nat \ {0}
    BY Bounds
  <1>b. \A a, b : Behind(h, g, a, b) <=> Before(g, a, b)
    BY DEF Behind
  <1>1. CASE k.at = "next"
    <2>1. Before(g, x, y) /\ u = x /\ v = y /\ l.at \in {"read_x", "load_y", "tab"} /\ (l.at = "tab" => l.x = x)
      BY <1>1, <1>b DEF Safe, Quiet
    <2> QED BY <1>b, <2>1 DEF Safe
  <1>2. CASE k.at = "advance"
    <2>1. l.at = "next" /\ u = x + FontWidth /\ v = y
      BY <1>2 DEF Quiet
    <2>2. Before(g, x, y) \/ g.y + FontHeight <= y \/ (g.y = y /\ g.x <= x)
      BY <1>2, <1>b DEF Safe
    <2>3. Before(g, u, v)
      BY <1>0, <2>1, <2>2 DEF Before
    <2> QED BY <1>b, <2>1, <2>3 DEF Safe
  <1>3. CASE k.at = "tab"
    <2>1. l.at = "next" /\ u = k.x + 8 * FontWidth /\ v = y /\ Before(g, k.x, y) /\ k.x \in Nat
      BY <1>3 DEF Quiet, Safe
    <2>2. Before(g, u, v)
      BY <1>0, <2>1 DEF Before
    <2> QED BY <1>b, <2>1, <2>2 DEF Safe
  <1>4. CASE k.at = "tab_end"
    <2>1. l.at = "next" /\ v = y /\ g.y + FontHeight <= y
      BY <1>4 DEF Quiet, Safe
    <2>2. Before(g, u, v)
      BY <2>1 DEF Before
    <2> QED BY <1>b, <2>1, <2>2 DEF Safe
  <1>5. CASE k.at = "load_y"
    <2>1. l.at = "clear_x" /\ l.y = y /\ u = x /\ v = y /\ Before(g, x, y)
      BY <1>5, <1>b DEF Quiet, Safe
    <2>2. g.y <= y
      BY <2>1, BeforeIs
    <2> QED BY <1>b, <2>1, <2>2 DEF Safe
  <1>6. CASE k.at = "clear_x"
    <2>1. l.at = "store_y" /\ l.y = k.y /\ g.y <= k.y
      BY <1>6 DEF Quiet, Safe
    <2> QED BY <2>1 DEF Safe
  <1>7. CASE k.at = "store_y"
    <2>1. l.at \in {"tab_end", "next"} /\ v = k.y + FontHeight /\ g.y <= k.y /\ k.y \in Nat
      BY <1>7 DEF Quiet, Safe
    <2>2. g.y + FontHeight <= v
      BY <1>0, <2>1
    <2>3. Before(g, u, v)
      BY <2>2 DEF Before
    <2> QED BY <1>b, <2>1, <2>2, <2>3 DEF Safe
  <1> QED BY <1>1, <1>2, <1>3, <1>4, <1>5, <1>6, <1>7 DEF Quiet

(* The handler's steps take a glyph behind the cursor no further ahead. *)
LEMMA HandlerBehind ==
  ASSUME NEW h, NEW l, NEW g, g.x \in Nat, g.y \in Int, NEW x \in Nat, NEW y \in Nat, NEW u, NEW v,
         NEW gs, Current(h, gs, x, y), Quiet(h, l, x, y, u, v)
  PROVE  /\ Behind(h, g, x, y) => Behind(l, g, u, v)
         /\ h.at = "advance" /\ g = gs[h.id] => Behind(l, g, u, v)
         /\ \A a \in Nat : Before(g, a, y) => Before(g, a, v)
         /\ y <= v /\ v \in Nat
  <1>0. FontWidth \in Nat \ {0} /\ FontHeight \in Nat \ {0}
    BY Bounds
  <1>1. /\ h.at = "tab" => h.x = x
        /\ h.at \in {"clear_x", "store_y"} => h.y = y
        /\ h.at \in {"store_y", "tab_end"} => x = 0
        /\ h.at = "advance" => gs[h.id].x = x /\ gs[h.id].y = y
    BY DEF Current
  <1>2. y <= v /\ v \in Nat /\ (v = y \/ v = y + FontHeight)
    BY <1>0, <1>1 DEF Quiet
  <1>3. \A a \in Nat : Before(g, a, y) => Before(g, a, v)
    BY <1>0, <1>2 DEF Before
  <1>4. ASSUME Behind(h, g, x, y) PROVE Behind(l, g, u, v)
    <2>1. CASE h.at = "store_y"
      <3>1. g.y <= y /\ v = y + FontHeight /\ l.at # "store_y"
        BY <1>1, <1>4, <2>1 DEF Behind, Quiet
      <3>2. Before(g, u, v)
        BY <1>0, <3>1 DEF Before
      <3> QED BY <3>1, <3>2 DEF Behind
    <2>2. CASE h.at = "clear_x"
      <3>1. Before(g, x, y) /\ v = y /\ l.at = "store_y"
        BY <1>4, <2>2 DEF Behind, Quiet
      <3> QED BY <3>1, BeforeIs DEF Behind
    <2>3. CASE h.at \notin {"store_y", "clear_x"}
      <3>1. Before(g, x, y) /\ v = y /\ l.at # "store_y"
        BY <1>4, <2>3 DEF Behind, Quiet
      <3>2. x <= u /\ u \in Nat
        BY <1>0, <1>1, <2>3 DEF Quiet
      <3> QED BY <3>1, <3>2, BeforeIs DEF Behind
    <2> QED BY <2>1, <2>2, <2>3
  <1>5. ASSUME h.at = "advance", g = gs[h.id] PROVE Behind(l, g, u, v)
    <2>1. g.x = x /\ g.y = y /\ u = x + FontWidth /\ v = y /\ l.at = "next"
      BY <1>1, <1>5 DEF Quiet
    <2>2. Before(g, u, v)
      BY <1>0, <2>1 DEF Before
    <2> QED BY <2>1, <2>2 DEF Behind
  <1> QED BY <1>2, <1>3, <1>4, <1>5

(* The handler leaves safe glyphs safe. *)
LEMMA HandlerSafe ==
  ASSUME NEW k, NEW h, NEW l, NEW n, NEW g, g.x \in Nat, g.y \in Int,
         NEW x \in Nat, NEW y \in Nat, NEW u, NEW v, NEW gs, g = gs[n],
         h.todo # << >>, Safe(k, h, n, g, x, y), Current(h, gs, x, y), Quiet(h, l, x, y, u, v),
         k.at = "tab" => k.x \in Nat
  PROVE  Safe(k, l, n, g, u, v)
  <1>1. /\ Behind(h, g, x, y) => Behind(l, g, u, v)
        /\ h.at = "advance" /\ n = h.id => Behind(l, g, u, v)
        /\ \A a \in Nat : Before(g, a, y) => Before(g, a, v)
        /\ y <= v /\ v \in Nat
    BY HandlerBehind
  <1>2. h.at # "draw"
    BY DEF Quiet
  <1>3. g.y + FontHeight <= y => g.y + FontHeight <= v
    BY <1>1, Bounds
  <1> QED
    BY <1>1, <1>2, <1>3 DEF Safe

(* What a caller still owes. *)
LEMMA OwedIs ==
  ASSUME NEW c, c.todo \in Seq(Chars), c.todo = << >> => c.at = "next",
         c.at \in {"draw", "advance"} => Head(c.todo) = GLYPH
  PROVE  Owed(c) \in Nat /\ (c.todo = << >> => Owed(c) = 0)
  <1>1. Glyphs(c.todo) \in Nat
    BY GlyphsIs
  <1>2. CASE c.at \in {"draw", "advance"}
    <2>1. c.todo # << >> /\ Tail(c.todo) \in Seq(Chars)
      BY <1>2
    <2>2. Glyphs(Tail(c.todo)) \in Nat
      BY <2>1, GlyphsIs
    <2>3. Glyphs(Tail(c.todo)) + 1 <= Glyphs(c.todo)
      BY <1>2, <2>1, GlyphsTail
    <2> QED BY <1>1, <1>2, <2>1, <2>2, <2>3 DEF Owed
  <1>3. CASE c.at \notin {"draw", "advance"}
    <2>1. ASSUME c.todo = << >> PROVE Glyphs(c.todo) = 0
      <3>1. Hits(c.todo) = {}
        BY <2>1 DEF Hits
      <3> QED BY <3>1, FS_EmptySet DEF Glyphs
    <2>2. Owed(c) = Glyphs(c.todo)
      BY <1>1, <1>3 DEF Owed
    <2> QED BY <1>1, <2>1, <2>2
  <1> QED BY <1>2, <1>3

(* They never owe more. *)
LEMMA QuietOwed ==
  ASSUME NEW h, NEW l, NEW x, NEW y, NEW u, NEW v, h.todo \in Seq(Chars), h.todo # << >>,
         h.at \in {"draw", "advance"} => Head(h.todo) = GLYPH, Quiet(h, l, x, y, u, v)
  PROVE  Owed(l) \in Int /\ Owed(h) \in Int /\ Owed(l) <= Owed(h)
  <1>1. Glyphs(h.todo) \in Nat /\ Glyphs(Tail(h.todo)) \in Nat
    <2>1. Tail(h.todo) \in Seq(Chars)
      OBVIOUS
    <2> QED BY <2>1, GlyphsIs
  <1>2. l.at \notin {"draw", "advance"} /\ h.at # "draw"
    BY DEF Quiet
  <1>3. CASE h.at = "advance"
    <2>1. Glyphs(Tail(h.todo)) + 1 <= Glyphs(h.todo)
      BY <1>3, GlyphsTail
    <2>2. l.todo = Tail(h.todo)
      BY <1>3 DEF Quiet
    <2> QED BY <1>1, <1>2, <1>3, <2>1, <2>2 DEF Owed
  <1>4. CASE h.at # "advance"
    <2>1. Glyphs(Tail(h.todo)) <= Glyphs(h.todo)
      BY GlyphsTail
    <2>2. l.todo = Tail(h.todo) \/ l.todo = h.todo
      BY <1>4 DEF Quiet
    <2> QED BY <1>1, <1>2, <1>4, <2>1, <2>2 DEF Owed
  <1> QED BY <1>3, <1>4

(* kernel()'s steps that draw nothing cost nothing. *)
LEMMA KernelPaid ==
  ASSUME NEW R, NEW s, NEW k, NEW l, NEW h, NEW x, NEW y, NEW u, NEW v, NEW risk \in Nat,
         Cardinality(R) \in Nat, Paid(R, s, k, h, y, risk), Quiet(k, l, x, y, u, v),
         h.todo = << >>, Owed(h) = 0
  PROVE  \E t : Paid(R, t, l, h, v, risk)
  <1>1. CASE k.at = "next" \/ l.at = "next"
    <2>1. Cardinality(R) <= risk
      <3>1. s \in {0, 1}
        BY DEF Paid
      <3> QED BY <3>1 DEF Paid
    <2>2. l.at = "read_x" => l.y = v
      BY DEF Quiet
    <2>3. Cardinality(R) + 0 + Owed(h) <= risk
      BY <2>1
    <2>4. Paid(R, 0, l, h, v, risk)
      BY <2>1, <2>2, <2>3 DEF Paid
    <2> QED BY <2>4
  <1>2. CASE k.at # "next" /\ l.at # "next"
    <2>1. l.at # "read_x"
      BY <1>2 DEF Quiet
    <2>2. Paid(R, s, l, h, v, risk)
      BY <1>2, <2>1 DEF Paid
    <2> QED BY <2>2
  <1> QED BY <1>1, <1>2

(* Nor do the handler's. *)
LEMMA HandlerPaid ==
  ASSUME NEW R, NEW s, NEW k, NEW h, NEW l, NEW y, NEW v, NEW risk \in Nat,
         Cardinality(R) \in Nat, Paid(R, s, k, h, y, risk), h.todo # << >>,
         Owed(l) \in Int, Owed(h) \in Int, Owed(l) <= Owed(h)
  PROVE  Paid(R, s, k, l, v, risk)
  <1>1. s \in {0, 1} /\ (k.at = "next" => Cardinality(R) <= risk) /\ ~ (k.at = "read_x" /\ s = 0)
    BY DEF Paid
  <1>2. k.at # "next" => Cardinality(R) + s + Owed(l) <= risk
    <2>1. k.at # "next" => Cardinality(R) + s + Owed(h) <= risk
      BY DEF Paid
    <2> QED BY <1>1, <2>1
  <1> QED BY <1>1, <1>2 DEF Paid

(* The bound after a step. *)
After(R, s) ==
  /\ R \in SUBSET DOMAIN glyphs'
  /\ Paid(R, s, ctx'["kernel"], ctx'["handler"], cursor_y', atRisk')
  /\ AllSafe(R, ctx'["kernel"], ctx'["handler"], glyphs', cursor_x', cursor_y')
  /\ Apart(R, glyphs') /\ Spared(R, ctx', glyphs') /\ Intact(R, ctx', glyphs', fb')

(* The glyphs at risk can be counted. *)
LEMMA Counted ==
  ASSUME Typed, NEW R \in SUBSET DOMAIN glyphs
  PROVE  IsFiniteSet(R) /\ Cardinality(R) \in Nat
  <1>1. IsFiniteSet(DOMAIN glyphs)
    BY GlyphsAre, FS_Interval
  <1> QED BY <1>1, FS_Subset, FS_CardinalityType

(* The handler, and what it owes. *)
LEMMA HandlerOwes ==
  ASSUME Typed, Current(ctx["handler"], glyphs, cursor_x, cursor_y)
  PROVE  /\ ctx["handler"].todo \in Seq(Chars) /\ (ctx["handler"].todo = << >> => ctx["handler"].at = "next")
         /\ ctx["handler"].at \in {"draw", "advance"} => Head(ctx["handler"].todo) = GLYPH
         /\ Owed(ctx["handler"]) \in Nat /\ (ctx["handler"].todo = << >> => Owed(ctx["handler"]) = 0)
  <1>1. /\ ctx["handler"].todo \in Seq(Chars) /\ (ctx["handler"].todo = << >> => ctx["handler"].at = "next")
        /\ ctx["handler"].at \in {"draw", "advance"} => Head(ctx["handler"].todo) = GLYPH
    BY Fields DEF Callers, Drawing, Current
  <1> QED BY <1>1, OwedIs

(* Steps that draw nothing keep the bound. *)
LEMMA QuietBounded ==
  ASSUME Sound, NEW R, NEW s, Bounded(R, s), NEW p \in Callers, p = Running, Leaves(p),
         fb' = fb, glyphs' = glyphs, atRisk' = atRisk,
         OnGrid(ctx["kernel"], glyphs, cursor_x, cursor_y), Current(ctx["handler"], glyphs, cursor_x, cursor_y),
         ctx[p].todo # << >>, Quiet(ctx[p], ctx'[p], cursor_x, cursor_y, cursor_x', cursor_y')
  PROVE  \E t : After(R, t)
  <1> DEFINE k == ctx["kernel"]
             h == ctx["handler"]
  <1>1. Typed /\ atRisk \in Nat
    BY DEF Sound, Typed
  <1>2. R \in SUBSET DOMAIN glyphs /\ Cardinality(R) \in Nat
    BY <1>1, Counted DEF Bounded
  <1>3. ctx[p].at # "draw" /\ ctx'[p].at # "draw" /\ \A q \in Callers \ {p} : ctx'[q] = ctx[q]
    BY DEF Quiet, Leaves
  <1>4. Apart(R, glyphs') /\ Spared(R, ctx', glyphs') /\ Intact(R, ctx', glyphs', fb')
    <2>1. Apart(R, glyphs) /\ Spared(R, ctx, glyphs) /\ Intact(R, ctx, glyphs, fb)
      BY DEF Bounded
    <2>2. \A q \in Callers : ctx'[q].at = "draw" => ctx'[q] = ctx[q]
      BY <1>3
    <2>3. \A n, j : RowDrawn(ctx', n, j) => RowDrawn(ctx, n, j)
      BY <1>3 DEF RowDrawn
    <2>4. Spared(R, ctx', glyphs)
      BY <2>1, <2>2 DEF Spared
    <2>5. Intact(R, ctx', glyphs, fb)
      BY <2>1, <2>3 DEF Intact
    <2> QED BY <2>1, <2>4, <2>5
  <1>5. /\ cursor_x \in Nat /\ cursor_y \in Nat /\ k.x \in Nat /\ k.y \in Nat
        /\ \A n \in DOMAIN glyphs : glyphs[n].x \in Nat /\ glyphs[n].y \in Int
    BY <1>1, GlyphsAre, Fields, Bounds DEF Callers, Word
  <1>6. /\ Paid(R, s, k, h, cursor_y, atRisk)
        /\ \A n \in DOMAIN glyphs \ R : Safe(k, h, n, glyphs[n], cursor_x, cursor_y)
    BY DEF Bounded, AllSafe
  <1>7. CASE p = "kernel"
    <2>1. /\ h.todo = << >> /\ h.at = "next" /\ Owed(h) = 0 /\ ctx'["handler"] = h
          /\ Quiet(k, ctx'["kernel"], cursor_x, cursor_y, cursor_x', cursor_y')
      BY <1>1, <1>3, <1>7, HandlerOwes DEF Running, Callers
    <2>2. PICK t : Paid(R, t, ctx'["kernel"], h, cursor_y', atRisk)
      <3> HIDE DEF k, h
      <3> QED BY <1>1, <1>2, <1>6, <2>1, KernelPaid
    <2>3. ASSUME NEW n \in DOMAIN glyphs \ R PROVE Safe(ctx'["kernel"], h, n, glyphs[n], cursor_x', cursor_y')
      <3> HIDE DEF k, h
      <3>1. glyphs[n].x \in Nat /\ glyphs[n].y \in Int /\ Safe(k, h, n, glyphs[n], cursor_x, cursor_y)
        BY <1>5, <1>6, <2>3
      <3> QED BY <1>5, <2>1, <3>1, KernelSafe
    <2>4. AllSafe(R, ctx'["kernel"], ctx'["handler"], glyphs', cursor_x', cursor_y')
      BY <2>1, <2>3 DEF AllSafe
    <2> QED BY <1>2, <1>4, <2>1, <2>2, <2>4 DEF After
  <1>8. CASE p = "handler"
    <2>1. /\ h.todo # << >> /\ ctx'["kernel"] = k
          /\ Quiet(h, ctx'["handler"], cursor_x, cursor_y, cursor_x', cursor_y')
      BY <1>3, <1>8 DEF Callers
    <2>2. /\ Owed(ctx'["handler"]) \in Int /\ Owed(h) \in Int /\ Owed(ctx'["handler"]) <= Owed(h)
      <3>1. h.todo \in Seq(Chars) /\ (h.at \in {"draw", "advance"} => Head(h.todo) = GLYPH)
        BY <1>1, HandlerOwes
      <3> HIDE DEF k, h
      <3> QED BY <2>1, <3>1, QuietOwed
    <2>3. Paid(R, s, k, ctx'["handler"], cursor_y', atRisk)
      <3> HIDE DEF k, h
      <3> QED BY <1>1, <1>2, <1>6, <2>1, <2>2, HandlerPaid
    <2>4. ASSUME NEW n \in DOMAIN glyphs \ R PROVE Safe(k, ctx'["handler"], n, glyphs[n], cursor_x', cursor_y')
      <3>0. Current(h, glyphs, cursor_x, cursor_y)
        OBVIOUS
      <3> HIDE DEF k, h
      <3>1. glyphs[n].x \in Nat /\ glyphs[n].y \in Int /\ Safe(k, h, n, glyphs[n], cursor_x, cursor_y)
        BY <1>5, <1>6, <2>4
      <3> QED BY <1>5, <2>1, <3>0, <3>1, HandlerSafe
    <2>5. AllSafe(R, ctx'["kernel"], ctx'["handler"], glyphs', cursor_x', cursor_y')
      BY <2>1, <2>4 DEF AllSafe
    <2> QED BY <1>2, <1>4, <2>1, <2>3, <2>5 DEF After
  <1> QED BY <1>7, <1>8 DEF Callers

(* A row is drawn over no glyph but those that may get lost. *)
LEMMA DrawcharIntact ==
  ASSUME Sound, LinesFit, ~ Filled, NEW R, Spared(R, ctx, glyphs), Intact(R, ctx, glyphs, fb),
         OnGrid(ctx["kernel"], glyphs, cursor_x, cursor_y), NEW p \in Callers, console_drawchar(p)
  PROVE  Intact(R, ctx', glyphs', fb')
  <1> SUFFICES ASSUME NEW n \in DOMAIN glyphs' \ R, NEW k \in 0 .. (FontHeight - 1), RowDrawn(ctx', n, k)
               PROVE  RowShown(fb', glyphs'[n], n, k)
    BY DEF Intact
  <1> DEFINE row == ctx[p].row
             m   == ctx[p].id
             g   == glyphs[n]
             f   == glyphs[m]
             new == Row(f.x, f.y + row)
  <1>1. Typed /\ Inside
    BY DEF Sound
  <1>2. glyphs' = glyphs /\ ctx[p].at = "draw"
    BY DEF console_drawchar, At
  <1>3. m \in DOMAIN glyphs /\ f.x = ctx[p].x /\ f.y = ctx[p].y
    <2>1. m \in 1 .. Len(glyphs) /\ f.x = ctx[p].x
      BY <1>1, <1>2, Fields DEF Drawing
    <2> QED BY <1>1, <1>2, <2>1, GlyphsAre DEF Spared
  <1>4. new \subseteq Pixels /\ fb' = [i \in Pixels |-> IF i \in new THEN m ELSE fb[i]]
    BY <1>1, <1>2, <1>3, DrawsInside DEF console_drawchar
  <1>5. row \in 0 .. (FontHeight - 1) /\ row \in Nat /\ k \in Nat
    BY <1>1, Fields, Bounds
  <1>6. n \in DOMAIN glyphs /\ n \notin R
    BY <1>2
  <1>7. /\ Col(g.x) /\ Line(g.y) /\ g.x + FontWidth <= Width /\ g.x \in Nat /\ g.y \in Nat
        /\ Col(f.x) /\ Line(f.y) /\ f.x + FontWidth <= Width
    <2>1. /\ Col(g.x) /\ Line(g.y) /\ g.x + FontWidth <= Width
          /\ Col(f.x) /\ Line(f.y) /\ f.x + FontWidth <= Width
      BY <1>3, <1>6 DEF OnGrid, LinesFit
    <2> QED BY <2>1, GridIs
  <1>8. \A q \in Callers \ {p} : ctx'[q] = ctx[q]
    BY <1>1, DrawcharIs DEF Becomes
  <1>9. n # m => ~ SameCell(g, f)
    BY <1>2, <1>6 DEF Spared
  <1> HIDE DEF new
  <1>b. ASSUME RowDrawn(ctx, n, k), \A i \in Row(g.x, g.y + k) : i \notin new
        PROVE  RowShown(fb', g, n, k)
    <2>1. RowShown(fb, g, n, k)
      BY <1>6, <1>b DEF Intact
    <2> QED
      BY <1>4, <1>b, <2>1 DEF RowShown
  <1>a. CASE n = m /\ k = row
    <2>1. Row(g.x, g.y + k) = new
      BY <1>a DEF new
    <2> QED
      BY <1>2, <1>4, <1>a, <2>1 DEF RowShown
  <1>c. CASE n = m /\ k # row
    <2>1. k < row
      <3>1. CASE ~ LastRow(row)
        <4>1. Becomes(p, "draw", ctx[p].x, ctx[p].y, ctx[p].row + 1, ctx[p].id)
          <5>1. ctx' = [ctx EXCEPT ![p].row = @ + 1]
            BY <3>1 DEF console_drawchar
          <5>2. ctx'[p].at = ctx[p].at
            BY <1>1, <5>1 DEF Typed, CtxType, CallerType
          <5> QED BY <1>1, <1>2, <5>2, DrawcharIs DEF Becomes
        <4>2. k < row + 1
          BY <1>c, <4>1 DEF Becomes, RowDrawn
        <4> QED BY <1>5, <1>c, <4>2
      <3>2. CASE LastRow(row)
        <4> HIDE DEF row
        <4>1. row + 1 = FontHeight /\ FontHeight \in Nat
          BY <3>2, Bounds DEF LastRow
        <4> QED BY <1>5, <1>c, <4>1
      <3> QED BY <3>1, <3>2
    <2>2. RowDrawn(ctx, n, k)
      BY <1>8, <2>1 DEF RowDrawn
    <2>3. g.y + k \in Int /\ f.y + row \in Int /\ g.y + k # f.y + row /\ f.x \in Nat
      BY <1>5, <1>7, <1>c
    <2>4. \A i \in Row(g.x, g.y + k) : i \notin new
      BY <1>7, <2>3, RowsApart DEF new
    <2> QED BY <1>2, <1>b, <2>2, <2>4
  <1>d. CASE n # m
    <2>1. RowDrawn(ctx, n, k)
      BY <1>8, <1>d DEF RowDrawn, console_drawchar, At
    <2>2. \A i \in Row(g.x, g.y + k) : i \notin new
      <3>1. ~ SameCell(g, f)
        BY <1>9, <1>d
      <3> HIDE DEF g, f, row
      <3> QED BY <1>5, <1>7, <3>1, CellsApart DEF new
    <2> QED BY <1>2, <1>b, <2>1, <2>2
  <1> QED BY <1>a, <1>c, <1>d

(* And it changes nothing else. *)
LEMMA DrawcharBounded ==
  ASSUME Sound, LinesFit, ~ Filled, NEW R, NEW s, Bounded(R, s), NEW p \in Callers, console_drawchar(p),
         OnGrid(ctx["kernel"], glyphs, cursor_x, cursor_y), Current(ctx["handler"], glyphs, cursor_x, cursor_y)
  PROVE  /\ After(R, s)
         /\ OnGrid(ctx'["kernel"], glyphs', cursor_x', cursor_y')
         /\ Current(ctx'["handler"], glyphs', cursor_x', cursor_y')
  <1> DEFINE k == ctx["kernel"]
             h == ctx["handler"]
             l == ctx'["kernel"]
             j == ctx'["handler"]
  <1>1. Typed
    BY DEF Sound
  <1>2. glyphs' = glyphs /\ cursor_x' = cursor_x /\ cursor_y' = cursor_y /\ atRisk' = atRisk /\ ctx[p].at = "draw"
    BY DEF console_drawchar, cursor, At
  <1>3. \A q \in Callers : /\ ctx'[q].todo = ctx[q].todo /\ ctx'[q].x = ctx[q].x
                           /\ ctx'[q].y = ctx[q].y /\ ctx'[q].id = ctx[q].id
                           /\ ctx'[q].at = ctx[q].at \/ (ctx[q].at = "draw" /\ ctx'[q].at = "advance")
    BY <1>1, <1>2, DrawcharIs DEF Becomes
  <1>4. /\ l.todo = k.todo /\ l.x = k.x /\ l.y = k.y /\ l.id = k.id /\ (l.at = k.at \/ (k.at = "draw" /\ l.at = "advance"))
        /\ j.todo = h.todo /\ j.x = h.x /\ j.y = h.y /\ j.id = h.id /\ (j.at = h.at \/ (h.at = "draw" /\ j.at = "advance"))
    BY <1>3 DEF Callers
  <1>5. Intact(R, ctx', glyphs', fb')
    BY DrawcharIntact DEF Bounded
  <1>6. Spared(R, ctx', glyphs)
    <2>1. Spared(R, ctx, glyphs)
      BY DEF Bounded
    <2>2. \A q \in Callers : ctx'[q].at = "draw" => ctx[q].at = "draw" /\ ctx'[q].y = ctx[q].y /\ ctx'[q].id = ctx[q].id
      BY <1>3
    <2> QED BY <2>1, <2>2 DEF Spared
  <1>7. R \in SUBSET DOMAIN glyphs /\ Apart(R, glyphs)
    BY DEF Bounded
  <1>8. /\ Paid(R, s, k, h, cursor_y, atRisk) /\ AllSafe(R, k, h, glyphs, cursor_x, cursor_y)
        /\ OnGrid(k, glyphs, cursor_x, cursor_y) /\ Current(h, glyphs, cursor_x, cursor_y)
    BY DEF Bounded
  <1> HIDE DEF k, h, l, j
  <1>9. Owed(j) = Owed(h)
    BY <1>4 DEF Owed
  <1>10. Paid(R, s, l, j, cursor_y, atRisk)
    BY <1>4, <1>8, <1>9 DEF Paid
  <1>11. ASSUME NEW n, NEW g, Safe(k, h, n, g, cursor_x, cursor_y) PROVE Safe(l, j, n, g, cursor_x, cursor_y)
    <2>1. Behind(h, g, cursor_x, cursor_y) => Behind(j, g, cursor_x, cursor_y)
      BY <1>4 DEF Behind
    <2> QED BY <1>4, <1>11, <2>1 DEF Safe
  <1>12. AllSafe(R, l, j, glyphs, cursor_x, cursor_y)
    BY <1>8, <1>11 DEF AllSafe
  <1>13. OnGrid(l, glyphs, cursor_x, cursor_y) /\ Current(j, glyphs, cursor_x, cursor_y)
    BY <1>4, <1>8 DEF OnGrid, Current
  <1> QED
    BY <1>2, <1>5, <1>6, <1>7, <1>10, <1>12, <1>13 DEF After, l, j

(* A new glyph. *)
LEMMA NewGlyph ==
  ASSUME Typed, NEW p \in Callers, ReadX(p)
  PROVE  /\ Len(glyphs) \in Nat /\ DOMAIN glyphs = 1 .. Len(glyphs)
         /\ Len(glyphs') = Len(glyphs) + 1 /\ DOMAIN glyphs' = 1 .. (Len(glyphs) + 1)
         /\ \A n \in DOMAIN glyphs : n \in DOMAIN glyphs' /\ n # Len(glyphs) + 1 /\ glyphs'[n] = glyphs[n]
         /\ \A n \in DOMAIN glyphs' : n # Len(glyphs) + 1 => n \in DOMAIN glyphs
         /\ Len(glyphs) + 1 \in DOMAIN glyphs'
         /\ glyphs'[Len(glyphs) + 1].x = cursor_x /\ glyphs'[Len(glyphs) + 1].y = ctx[p].y
         /\ ctx[p].at = "read_x" /\ ctx'[p].at = "draw" /\ ctx'[p].id = Len(glyphs) + 1
         /\ ctx'[p].y = ctx[p].y /\ ctx'[p].todo = ctx[p].todo
         /\ \A q \in Callers \ {p} : ctx'[q] = ctx[q]
         /\ cursor_x' = cursor_x /\ cursor_y' = cursor_y /\ fb' = fb /\ atRisk' = atRisk
  <1> DEFINE g == [x |-> cursor_x, y |-> ctx[p].y]
  <1>1. glyphs' = Append(glyphs, g) /\ g.x = cursor_x /\ g.y = ctx[p].y
    BY ReadXIs
  <1> HIDE DEF g
  <1>2. glyphs \in Seq(GlyphType) /\ Len(glyphs) \in Nat /\ DOMAIN glyphs = 1 .. Len(glyphs)
    BY GlyphsAre
  <1>3. /\ Len(glyphs') = Len(glyphs) + 1 /\ DOMAIN glyphs' = 1 .. (Len(glyphs) + 1)
        /\ glyphs'[Len(glyphs) + 1] = g /\ \A n \in 1 .. Len(glyphs) : glyphs'[n] = glyphs[n]
    BY <1>1, <1>2
  <1>4. /\ \A n \in DOMAIN glyphs : n \in DOMAIN glyphs' /\ n # Len(glyphs) + 1 /\ glyphs'[n] = glyphs[n]
        /\ \A n \in DOMAIN glyphs' : n # Len(glyphs) + 1 => n \in DOMAIN glyphs
        /\ Len(glyphs) + 1 \in DOMAIN glyphs'
    BY <1>2, <1>3
  <1>5. /\ ctx[p].at = "read_x" /\ cursor_x' = cursor_x /\ cursor_y' = cursor_y /\ fb' = fb /\ atRisk' = atRisk
    BY DEF ReadX, At, cursor
  <1>6. /\ ctx'[p].at = "draw" /\ ctx'[p].id = Len(glyphs) + 1 /\ ctx'[p].y = ctx[p].y
        /\ ctx'[p].todo = ctx[p].todo /\ \A q \in Callers \ {p} : ctx'[q] = ctx[q]
    BY ReadXIs DEF Becomes
  <1> QED BY <1>1, <1>2, <1>3, <1>4, <1>5, <1>6

(* A glyph in a cell of its own, or among those that may get lost. *)
LEMMA NewGlyphApart ==
  ASSUME Typed, FromTop, NEW p \in Callers, ReadX(p),
         NEW R, Apart(R, glyphs), Spared(R, ctx, glyphs), Intact(R, ctx, glyphs, fb),
         NEW Q, R \subseteq Q,
         \A n \in DOMAIN glyphs \ Q : ~ (glyphs[n].x = cursor_x /\ glyphs[n].y = ctx[p].y),
         Len(glyphs) + 1 \in Q \/ \A q \in Callers \ {p} : ctx[q].at # "draw"
  PROVE  Apart(Q, glyphs') /\ Spared(Q, ctx', glyphs') /\ Intact(Q, ctx', glyphs', fb')
  <1> DEFINE new == Len(glyphs) + 1
  <1>1. /\ \A n \in DOMAIN glyphs' : n # new => n \in DOMAIN glyphs
        /\ \A n \in DOMAIN glyphs : n # new /\ glyphs'[n] = glyphs[n]
        /\ glyphs'[new].x = cursor_x /\ glyphs'[new].y = ctx[p].y
    BY NewGlyph
  <1>2. /\ ctx[p].at = "read_x" /\ ctx'[p].at = "draw" /\ ctx'[p].id = new /\ ctx'[p].y = ctx[p].y
        /\ (\A q \in Callers \ {p} : ctx'[q] = ctx[q]) /\ fb' = fb
    BY NewGlyph
  <1>3. ctx'[p].row = 0
    BY <1>2, ReadXIs DEF Becomes, FromTop
  <1>4. \A q \in Callers : ctx[q].at = "draw" => ctx[q].id \in DOMAIN glyphs
    BY Fields, GlyphsAre DEF Drawing
  <1>5. new \in Q \/ \A q \in Callers \ {p} : ctx[q].at # "draw"
    OBVIOUS
  <1> HIDE DEF new
  <1>6. \A n \in DOMAIN glyphs \ Q : ~ SameCell(glyphs'[n], glyphs'[new]) /\ ~ SameCell(glyphs'[new], glyphs'[n])
    BY <1>1 DEF SameCell
  <1>7. Apart(Q, glyphs')
    <2> SUFFICES ASSUME NEW n \in DOMAIN glyphs' \ Q, NEW m \in DOMAIN glyphs' \ Q, n # m
                 PROVE  ~ SameCell(glyphs'[n], glyphs'[m])
      BY DEF Apart
    <2>1. CASE n = new \/ m = new
      BY <1>1, <1>6, <2>1
    <2>2. CASE n # new /\ m # new
      BY <1>1, <2>2 DEF Apart
    <2> QED BY <2>1, <2>2
  <1>8. Spared(Q, ctx', glyphs')
    <2> SUFFICES ASSUME NEW q \in Callers, ctx'[q].at = "draw"
                 PROVE  /\ glyphs'[ctx'[q].id].y = ctx'[q].y
                        /\ \A n \in DOMAIN glyphs' \ Q : n # ctx'[q].id => ~ SameCell(glyphs'[n], glyphs'[ctx'[q].id])
      BY DEF Spared
    <2>1. CASE q = p
      BY <1>1, <1>2, <1>6, <2>1
    <2>2. CASE q # p
      <3>1. ctx'[q] = ctx[q] /\ ctx[q].at = "draw" /\ new \in Q
        BY <1>2, <1>5, <2>2
      <3>2. glyphs'[ctx[q].id] = glyphs[ctx[q].id] /\ glyphs[ctx[q].id].y = ctx[q].y
        BY <1>1, <1>4, <3>1 DEF Spared
      <3>3. ASSUME NEW n \in DOMAIN glyphs' \ Q, n # ctx[q].id PROVE ~ SameCell(glyphs'[n], glyphs'[ctx[q].id])
        <4>1. n \in DOMAIN glyphs \ R /\ glyphs'[n] = glyphs[n]
          BY <1>1, <3>1, <3>3
        <4> QED BY <3>1, <3>2, <3>3, <4>1 DEF Spared
      <3> QED BY <3>1, <3>2, <3>3
    <2> QED BY <2>1, <2>2
  <1>9. Intact(Q, ctx', glyphs', fb')
    <2> SUFFICES ASSUME NEW n \in DOMAIN glyphs' \ Q, NEW k \in 0 .. (FontHeight - 1), RowDrawn(ctx', n, k)
                 PROVE  RowShown(fb', glyphs'[n], n, k)
      BY DEF Intact
    <2>1. n # new
      <3>1. ~ (k < 0)
        BY Bounds
      <3> QED BY <1>2, <1>3, <3>1 DEF RowDrawn
    <2>2. n \in DOMAIN glyphs \ R /\ glyphs'[n] = glyphs[n]
      BY <1>1, <2>1
    <2>3. RowDrawn(ctx, n, k)
      BY <1>2 DEF RowDrawn
    <2>4. RowShown(fb, glyphs[n], n, k)
      BY <2>2, <2>3 DEF Intact
    <2> QED BY <1>2, <2>2, <2>4
  <1> QED BY <1>7, <1>8, <1>9

(* A new glyph is on the grid, the handler's at the cursor. *)
LEMMA ReadXGrid ==
  ASSUME Sound, LinesFit', NEW p \in Callers, ReadX(p),
         OnGrid(ctx["kernel"], glyphs, cursor_x, cursor_y), Current(ctx["handler"], glyphs, cursor_x, cursor_y),
         p = "kernel" => ctx["handler"].at = "next"
  PROVE  /\ OnGrid(ctx'["kernel"], glyphs', cursor_x', cursor_y')
         /\ Current(ctx'["handler"], glyphs', cursor_x', cursor_y')
  <1> DEFINE new == Len(glyphs) + 1
  <1>0. Typed
    BY DEF Sound
  <1>1. /\ Len(glyphs) \in Nat /\ Len(glyphs') = new /\ new \in DOMAIN glyphs' /\ new > 0
        /\ \A n \in DOMAIN glyphs' : n # new => n \in DOMAIN glyphs
        /\ \A n \in DOMAIN glyphs : glyphs'[n] = glyphs[n]
        /\ glyphs'[new].x = cursor_x /\ glyphs'[new].y = ctx[p].y
        /\ ctx[p].at = "read_x" /\ ctx'[p].at = "draw" /\ ctx'[p].id = new /\ ctx'[p].todo = ctx[p].todo
        /\ (\A q \in Callers \ {p} : ctx'[q] = ctx[q]) /\ cursor_x' = cursor_x /\ cursor_y' = cursor_y
    BY <1>0, NewGlyph
  <1>2. cursor_x + FontWidth <= Width /\ cursor_x \in Nat
    BY <1>0, <1>1, GlyphsAre DEF LinesFit
  <1>3. cursor_x < Width + 4 * FontWidth
    <2>1. Width \in Nat /\ FontWidth \in Nat /\ FontWidth > 0
      BY Bounds
    <2> QED BY <1>2, <2>1
  <1>4. Col(cursor_x) /\ Line(cursor_y) /\ \A n \in DOMAIN glyphs : Col(glyphs[n].x) /\ Line(glyphs[n].y)
    BY DEF OnGrid
  <1>5. Line(ctx[p].y) /\ (p = "handler" => ctx[p].y = cursor_y)
    BY <1>1, <1>4 DEF OnGrid, Current, Callers
  <1> HIDE DEF new
  <1>6. \A n \in DOMAIN glyphs' : Col(glyphs'[n].x) /\ Line(glyphs'[n].y)
    BY <1>1, <1>4, <1>5
  <1>7. OnGrid(ctx'["kernel"], glyphs', cursor_x', cursor_y')
    <2>1. cursor_x < Width + 5 * FontWidth
      BY DEF OnGrid
    <2>2. CASE p = "kernel"
      BY <1>1, <1>3, <1>4, <1>6, <2>1, <2>2 DEF OnGrid
    <2>3. CASE p = "handler"
      <3>1. ctx'["kernel"] = ctx["kernel"]
        BY <1>1, <2>3 DEF Callers
      <3> QED BY <1>1, <1>3, <1>4, <1>6, <2>1, <3>1 DEF OnGrid
    <2> QED BY <2>2, <2>3 DEF Callers
  <1>8. Current(ctx'["handler"], glyphs', cursor_x', cursor_y')
    <2>1. CASE p = "kernel"
      <3>1. ctx'["handler"] = ctx["handler"] /\ ctx["handler"].at = "next"
        BY <1>1, <2>1 DEF Callers
      <3> QED BY <3>1 DEF Current
    <2>2. CASE p = "handler"
      <3>1. Head(ctx["handler"].todo) = GLYPH
        BY <1>1, <2>2 DEF Current
      <3> QED BY <1>1, <1>2, <1>5, <2>2, <3>1 DEF Current
    <2> QED BY <2>1, <2>2 DEF Callers
  <1> QED BY <1>7, <1>8

(* At most one glyph of those that are safe is in a cell. *)
LEMMA OneInCell ==
  ASSUME Typed, NEW R \in SUBSET DOMAIN glyphs, Apart(R, glyphs), NEW x, NEW y,
         NEW m \in DOMAIN glyphs \ R, glyphs[m].x = x, glyphs[m].y = y
  PROVE  /\ \A n \in DOMAIN glyphs \ (R \cup {m}) : ~ (glyphs[n].x = x /\ glyphs[n].y = y)
         /\ Cardinality(R \cup {m}) = Cardinality(R) + 1
  <1>1. \A n \in DOMAIN glyphs \ (R \cup {m}) : ~ SameCell(glyphs[n], glyphs[m])
    BY DEF Apart
  <1>2. IsFiniteSet(R) /\ m \notin R
    BY Counted
  <1> QED BY <1>1, <1>2, FS_AddElement DEF SameCell

(* kernel() draws at its line and the cursor's column; where the line is   *)
(* stale, a glyph may be there, and that is the one the Escape costs.      *)
LEMMA KernelReads ==
  ASSUME Sound, FromTop, NEW R, NEW s, Bounded(R, s), ReadX("kernel"), ctx["handler"].todo = << >>,
         OnGrid(ctx["kernel"], glyphs, cursor_x, cursor_y), Current(ctx["handler"], glyphs, cursor_x, cursor_y)
  PROVE  \E Q, t : After(Q, t)
  <1> DEFINE k   == ctx["kernel"]
             h   == ctx["handler"]
             l   == ctx'["kernel"]
             new == Len(glyphs) + 1
  <1>1. /\ Typed /\ atRisk \in Nat /\ "kernel" \in Callers /\ R \in SUBSET DOMAIN glyphs
        /\ Apart(R, glyphs) /\ Spared(R, ctx, glyphs) /\ Intact(R, ctx, glyphs, fb)
    BY DEF Sound, Typed, Callers, Bounded
  <1>2. /\ \A n \in DOMAIN glyphs' : n # new => n \in DOMAIN glyphs
        /\ \A n \in DOMAIN glyphs : n \in DOMAIN glyphs' /\ n # new /\ glyphs'[n] = glyphs[n]
        /\ glyphs'[new].x = cursor_x /\ glyphs'[new].y = k.y
        /\ k.at = "read_x" /\ l.at = "draw" /\ l.id = new
        /\ ctx'["handler"] = h
        /\ cursor_x' = cursor_x /\ cursor_y' = cursor_y /\ atRisk' = atRisk
    BY <1>1, NewGlyph DEF Callers
  <1>3. h.todo = << >> /\ h.at = "next" /\ Owed(h) = 0
    BY <1>1, HandlerOwes
  <1>4. /\ s \in {0, 1} /\ Cardinality(R) + s <= atRisk /\ (s = 0 => k.y = cursor_y) /\ Cardinality(R) \in Nat
    <2>1. s \in {0, 1} /\ Cardinality(R) + s + Owed(h) <= atRisk /\ (s = 0 => k.y = cursor_y)
      BY <1>2 DEF Bounded, Paid
    <2>2. Cardinality(R) \in Nat
      BY <1>1, Counted
    <2> QED BY <1>3, <2>1, <2>2
  <1>5. \A n \in DOMAIN glyphs \ R : Before(glyphs[n], cursor_x, cursor_y)
    BY <1>2, <1>3 DEF Bounded, AllSafe, Safe, Behind
  <1>6. /\ cursor_x \in Nat /\ cursor_y \in Nat /\ k.y \in Nat /\ k.y <= cursor_y
        /\ Line(k.y) /\ Line(cursor_y)
        /\ \A n \in DOMAIN glyphs : glyphs[n].x \in Nat /\ glyphs[n].y \in Int
    BY <1>1, <1>2, GlyphsAre, GridIs DEF OnGrid
  <1>7. k.y = cursor_y \/ k.y + FontHeight <= cursor_y
    BY <1>6, GridStep
  <1>8. PICK Q : /\ R \subseteq Q /\ Q \in SUBSET DOMAIN glyphs /\ Cardinality(Q) <= atRisk
                 /\ \A n \in DOMAIN glyphs \ Q : ~ (glyphs[n].x = cursor_x /\ glyphs[n].y = k.y)
    <2>1. CASE \A n \in DOMAIN glyphs \ R : ~ (glyphs[n].x = cursor_x /\ glyphs[n].y = k.y)
      <3>1. Cardinality(R) <= atRisk
        BY <1>1, <1>4
      <3> QED BY <1>1, <2>1, <3>1
    <2>2. ASSUME NEW m \in DOMAIN glyphs \ R, glyphs[m].x = cursor_x, glyphs[m].y = k.y
          PROVE  \E Q : /\ R \subseteq Q /\ Q \in SUBSET DOMAIN glyphs /\ Cardinality(Q) <= atRisk
                        /\ \A n \in DOMAIN glyphs \ Q : ~ (glyphs[n].x = cursor_x /\ glyphs[n].y = k.y)
      <3>1. s = 1
        <4>1. k.y # cursor_y
          BY <1>5, <1>6, <2>2, BeforeIs
        <4> QED BY <1>4, <4>1
      <3>2. /\ \A n \in DOMAIN glyphs \ (R \cup {m}) : ~ (glyphs[n].x = cursor_x /\ glyphs[n].y = k.y)
            /\ Cardinality(R \cup {m}) = Cardinality(R) + 1
        BY <1>1, <2>2, OneInCell
      <3>3. Cardinality(R \cup {m}) <= atRisk
        BY <1>4, <3>1, <3>2
      <3> QED BY <1>1, <3>2, <3>3
    <2> QED BY <2>1, <2>2
  <1>9. Apart(Q, glyphs') /\ Spared(Q, ctx', glyphs') /\ Intact(Q, ctx', glyphs', fb')
    <2>1. \A q \in Callers \ {"kernel"} : ctx[q].at # "draw"
      BY <1>3 DEF Callers
    <2> QED BY <1>1, <1>8, <2>1, NewGlyphApart
  <1>10. Q \in SUBSET DOMAIN glyphs'
    BY <1>2, <1>8
  <1>11. Paid(Q, 0, l, h, cursor_y, atRisk)
    <2>1. Cardinality(Q) + 0 + Owed(h) <= atRisk
      <3>1. Cardinality(Q) \in Nat
        BY <1>1, <1>8, Counted
      <3> QED BY <1>3, <1>8, <3>1
    <2> QED BY <1>2, <2>1 DEF Paid
  <1>12. ASSUME NEW n \in DOMAIN glyphs' \ Q PROVE Safe(l, h, n, glyphs'[n], cursor_x, cursor_y)
    <2>1. CASE n = new
      <3>1. glyphs'[n].x <= cursor_x /\ (glyphs'[n].y + FontHeight <= cursor_y \/ glyphs'[n].y = cursor_y)
        BY <1>2, <1>6, <1>7, <2>1
      <3> QED BY <1>2, <1>3, <2>1, <3>1 DEF Safe
    <2>2. CASE n # new
      <3>1. n \in DOMAIN glyphs \ R /\ glyphs'[n] = glyphs[n]
        BY <1>2, <1>8, <1>12, <2>2
      <3>2. Behind(h, glyphs'[n], cursor_x, cursor_y)
        BY <1>3, <1>5, <3>1 DEF Behind
      <3> QED BY <1>2, <2>2, <3>2 DEF Safe
    <2> QED BY <2>1, <2>2
  <1>13. AllSafe(Q, l, h, glyphs', cursor_x, cursor_y)
    BY <1>12 DEF AllSafe
  <1>14. After(Q, 0)
    BY <1>2, <1>9, <1>10, <1>11, <1>13 DEF After
  <1> QED BY <1>14

(* The handler draws at the cursor.  Amid a putchar it may lose its glyph, *)
(* or, where kernel() is about to store its line, the one that is there.   *)
LEMMA HandlerReads ==
  ASSUME Sound, FromTop, ~ Filled, NEW R, NEW s, Bounded(R, s), ReadX("handler"), ctx["handler"].todo # << >>,
         OnGrid(ctx["kernel"], glyphs, cursor_x, cursor_y), Current(ctx["handler"], glyphs, cursor_x, cursor_y)
  PROVE  \E Q, t : After(Q, t)
  <1> DEFINE k   == ctx["kernel"]
             h   == ctx["handler"]
             l   == ctx'["handler"]
             new == Len(glyphs) + 1
             Vacant(n) == ~ (glyphs[n].x = cursor_x /\ glyphs[n].y = cursor_y)
  <1>1. /\ Typed /\ atRisk \in Nat /\ "handler" \in Callers /\ "kernel" \in Callers /\ R \in SUBSET DOMAIN glyphs
        /\ Apart(R, glyphs) /\ Spared(R, ctx, glyphs) /\ Intact(R, ctx, glyphs, fb)
        /\ Paid(R, s, k, h, cursor_y, atRisk)
    BY DEF Sound, Typed, Callers, Bounded
  <1>2. /\ \A n \in DOMAIN glyphs' : n # new => n \in DOMAIN glyphs
        /\ \A n \in DOMAIN glyphs : n \in DOMAIN glyphs' /\ n # new /\ glyphs'[n] = glyphs[n]
        /\ new \in DOMAIN glyphs'
        /\ glyphs'[new].x = cursor_x /\ glyphs'[new].y = h.y
        /\ h.at = "read_x" /\ l.at = "draw" /\ l.id = new /\ l.todo = h.todo
        /\ ctx'["kernel"] = k
        /\ cursor_x' = cursor_x /\ cursor_y' = cursor_y /\ atRisk' = atRisk
    BY <1>1, NewGlyph DEF Callers
  <1>3. h.y = cursor_y /\ h.todo # << >>
    BY <1>2 DEF Current
  <1>4. Owed(h) \in Int /\ Owed(l) = Owed(h) - 1
    <2>1. Glyphs(h.todo) \in Nat
      BY <1>1, HandlerOwes, GlyphsIs
    <2> HIDE DEF h, l
    <2>2. Owed(h) = Glyphs(h.todo) - 0 /\ Owed(l) = Glyphs(h.todo) - 1
      BY <1>2 DEF Owed
    <2> QED BY <2>1, <2>2
  <1>5. s \in {0, 1} /\ Cardinality(R) \in Nat /\ IsFiniteSet(R)
    BY <1>1, Counted DEF Paid
  <1>6. \A n \in DOMAIN glyphs \ R : Safe(k, h, n, glyphs[n], cursor_x, cursor_y)
    BY DEF Bounded, AllSafe
  <1>7. /\ cursor_x \in Nat /\ cursor_y \in Nat
        /\ k.at = "store_y" => k.y \in Nat /\ k.y <= cursor_y
        /\ \A n \in DOMAIN glyphs : glyphs[n].x \in Nat /\ glyphs[n].y \in Int
    BY <1>1, GlyphsAre, GridIs DEF OnGrid
  <1>8. \A g : Behind(h, g, cursor_x, cursor_y) => Before(g, cursor_x, cursor_y) /\ Behind(l, g, cursor_x, cursor_y)
    BY <1>2 DEF Behind
  <1>9. ASSUME NEW m \in DOMAIN glyphs \ R, ~ Vacant(m) PROVE k.at = "store_y" /\ k.y = cursor_y
    <2>1. ~ Behind(h, glyphs[m], cursor_x, cursor_y)
      BY <1>7, <1>8, <1>9, BeforeIs
    <2>2. ~ (glyphs[m].y + FontHeight <= cursor_y)
      BY <1>7, <1>9, Bounds
    <2>3. k.at \in Places /\ k.at \notin {"scroll", "scroll_store"}
      BY <1>1, Fields, FilledIs
    <2>4. Safe(k, h, m, glyphs[m], cursor_x, cursor_y)
      BY <1>6
    <2>5. k.at = "store_y"
      BY <1>2, <1>3, <2>1, <2>2, <2>3, <2>4 DEF Safe, Places
    <2>6. cursor_y <= k.y
      BY <1>9, <2>4, <2>5 DEF Safe
    <2> QED BY <1>7, <2>5, <2>6
  <1>10. ASSUME NEW Q, R \subseteq Q, Q \in SUBSET DOMAIN glyphs',
                \A n \in DOMAIN glyphs \ Q : Vacant(n),
                new \in Q \/ k.at \in {"next", "store_y"},
                k.at = "store_y" /\ new \notin Q => k.y = cursor_y,
                Paid(Q, s, k, l, cursor_y, atRisk)
         PROVE  After(Q, s)
    <2>1. Apart(Q, glyphs') /\ Spared(Q, ctx', glyphs') /\ Intact(Q, ctx', glyphs', fb')
      <3>1. new \in Q \/ \A q \in Callers \ {"handler"} : ctx[q].at # "draw"
        BY <1>10 DEF Callers
      <3>2. \A n \in DOMAIN glyphs \ Q : ~ (glyphs[n].x = cursor_x /\ glyphs[n].y = ctx["handler"].y)
        BY <1>3, <1>10
      <3> QED BY <1>1, <1>10, <3>1, <3>2, NewGlyphApart
    <2>2. ASSUME NEW n \in DOMAIN glyphs' \ Q PROVE Safe(k, l, n, glyphs'[n], cursor_x, cursor_y)
      <3>1. CASE n = new
        <4>1. k.at = "store_y" => glyphs'[n].y <= k.y
          BY <1>2, <1>3, <1>7, <1>10, <2>2, <3>1
        <4>2. k.at \in {"next", "store_y"}
          BY <1>10, <2>2, <3>1
        <4> QED BY <1>2, <3>1, <4>1, <4>2 DEF Safe
      <3>2. CASE n # new
        <4>1. n \in DOMAIN glyphs \ R /\ glyphs'[n] = glyphs[n]
          BY <1>2, <1>10, <2>2, <3>2
        <4>2. Safe(k, h, n, glyphs'[n], cursor_x, cursor_y)
          BY <1>6, <4>1
        <4> QED BY <1>2, <1>3, <1>8, <4>2 DEF Safe
      <3> QED BY <3>1, <3>2
    <2>3. AllSafe(Q, k, l, glyphs', cursor_x, cursor_y)
      BY <2>2 DEF AllSafe
    <2> QED BY <1>2, <1>10, <2>1, <2>3 DEF After
  <1>11. ~ (k.at = "read_x" /\ s = 0)
    BY <1>1, <1>3 DEF Paid
  <1>12. k.at # "next" => Cardinality(R) + s + Owed(h) <= atRisk
    BY <1>1 DEF Paid
  <1>13. CASE k.at = "next"
    <2>1. Paid(R, s, k, l, cursor_y, atRisk)
      BY <1>1, <1>13 DEF Paid
    <2>2. \A n \in DOMAIN glyphs \ R : Vacant(n)
      BY <1>9, <1>13
    <2>3. R \in SUBSET DOMAIN glyphs'
      BY <1>1, <1>2
    <2>4. After(R, s)
      BY <1>10, <1>13, <2>1, <2>2, <2>3
    <2> QED BY <2>4
  <1>14. CASE k.at # "next" /\ \A n \in DOMAIN glyphs \ R : Vacant(n)
    <2> DEFINE Q == R \cup {new}
    <2>1. Cardinality(Q) = Cardinality(R) + 1
      BY <1>1, <1>2, <1>5, FS_AddElement
    <2>2. Cardinality(Q) + s + Owed(l) <= atRisk
      BY <1>4, <1>5, <1>12, <1>14, <2>1
    <2>3. Paid(Q, s, k, l, cursor_y, atRisk)
      BY <1>5, <1>11, <1>14, <2>2 DEF Paid
    <2>4. R \subseteq Q /\ Q \in SUBSET DOMAIN glyphs' /\ new \in Q
      BY <1>1, <1>2
    <2>5. \A n \in DOMAIN glyphs \ Q : Vacant(n)
      BY <1>14, <2>4
    <2> HIDE DEF Q
    <2>6. After(Q, s)
      BY <1>10, <2>3, <2>4, <2>5
    <2> QED BY <2>6
  <1>15. ASSUME NEW m \in DOMAIN glyphs \ R, ~ Vacant(m) PROVE \E Q, t : After(Q, t)
    <2> DEFINE Q == R \cup {m}
    <2>0. k.at = "store_y" /\ k.y = cursor_y
      BY <1>9, <1>15
    <2>1. Cardinality(Q) = Cardinality(R) + 1 /\ \A n \in DOMAIN glyphs \ Q : Vacant(n)
      BY <1>1, <1>15, OneInCell
    <2>2. Cardinality(Q) + s + Owed(l) <= atRisk
      BY <1>4, <1>5, <1>12, <2>0, <2>1
    <2>3. Paid(Q, s, k, l, cursor_y, atRisk)
      BY <1>5, <2>0, <2>2 DEF Paid
    <2>4. R \subseteq Q /\ Q \in SUBSET DOMAIN glyphs'
      BY <1>1, <1>2, <1>15
    <2> HIDE DEF Q
    <2>5. After(Q, s)
      BY <1>10, <2>0, <2>1, <2>3, <2>4
    <2> QED BY <2>5
  <1> QED BY <1>13, <1>14, <1>15

(* An Escape amid a putchar pays for a glyph and for its message: the      *)
(* glyph kernel() draws, or the one it may draw over with a stale line.    *)
LEMMA EscapeBounded ==
  ASSUME Sound, ~ Filled, NEW R, NEW s, Bounded(R, s), NEW message \in Messages, Escape(message),
         OnGrid(ctx["kernel"], glyphs, cursor_x, cursor_y), Current(ctx["handler"], glyphs, cursor_x, cursor_y)
  PROVE  \E Q, t : After(Q, t)
  <1> DEFINE k == ctx["kernel"]
             h == ctx["handler"]
             l == ctx'["handler"]
  <1>1. /\ Typed /\ atRisk \in Nat /\ R \in SUBSET DOMAIN glyphs
        /\ Apart(R, glyphs) /\ Spared(R, ctx, glyphs) /\ Intact(R, ctx, glyphs, fb)
        /\ Paid(R, s, k, h, cursor_y, atRisk)
    BY DEF Sound, Typed, Bounded
  <1>2. /\ ctx'["kernel"] = k /\ l.at = "next" /\ l.todo = message /\ h.todo = << >>
        /\ glyphs' = glyphs /\ fb' = fb /\ cursor_x' = cursor_x /\ cursor_y' = cursor_y
    BY <1>1, EscapeIs DEF Enters, Escape, cursor
  <1>3. h.at = "next" /\ Owed(h) = 0
    BY <1>1, <1>2, HandlerOwes
  <1>4. Owed(l) = Glyphs(message) /\ Glyphs(message) \in Nat
    <2>1. message \in Seq(Chars)
      BY ConsoleAssumption DEF Chars
    <2>2. Glyphs(message) \in Nat
      BY <2>1, GlyphsIs
    <2> HIDE DEF l
    <2>3. Owed(l) = Glyphs(message) - 0
      BY <1>2 DEF Owed
    <2> QED BY <2>2, <2>3
  <1>5. atRisk' = IF k.at = "next" THEN atRisk ELSE atRisk + 1 + Glyphs(message)
    BY DEF Escape, Glyphs, Hits
  <1>6. s \in {0, 1} /\ Cardinality(R) \in Nat /\ IsFiniteSet(R)
    BY <1>1, Counted DEF Paid
  <1>7. ASSUME NEW n, NEW g, Safe(k, h, n, g, cursor_x, cursor_y), k.at \notin {"draw", "advance"} \/ n # k.id
        PROVE  Safe(k, l, n, g, cursor_x, cursor_y)
    <2>1. Behind(h, g, cursor_x, cursor_y) => Behind(l, g, cursor_x, cursor_y)
      BY <1>2, <1>3 DEF Behind
    <2> HIDE DEF k, h, l
    <2> QED BY <1>3, <1>7, <2>1 DEF Safe
  <1>8. \A n \in DOMAIN glyphs \ R : Safe(k, h, n, glyphs[n], cursor_x, cursor_y)
    BY DEF Bounded, AllSafe
  <1>9. ASSUME NEW Q, R \subseteq Q, Q \in SUBSET DOMAIN glyphs,
               k.at \in {"draw", "advance"} => \A n \in DOMAIN glyphs \ Q : n # k.id,
               NEW t, Paid(Q, t, k, l, cursor_y, atRisk')
        PROVE  After(Q, t)
    <2>1. AllSafe(Q, k, l, glyphs, cursor_x, cursor_y)
      BY <1>7, <1>8, <1>9 DEF AllSafe
    <2>2. Apart(Q, glyphs)
      BY <1>1, <1>9 DEF Apart
    <2>3. \A q \in Callers : ctx'[q].at = "draw" => ctx'[q] = ctx[q]
      BY <1>2 DEF Callers
    <2>4. Spared(Q, ctx', glyphs)
      BY <1>1, <1>9, <2>3 DEF Spared
    <2>5. \A n, j : RowDrawn(ctx', n, j) => RowDrawn(ctx, n, j)
      BY <1>2, <1>3 DEF RowDrawn, Callers
    <2>6. Intact(Q, ctx', glyphs, fb)
      BY <1>1, <1>9, <2>5 DEF Intact
    <2> QED BY <1>2, <1>9, <2>1, <2>2, <2>4, <2>6 DEF After
  <1>10. CASE k.at = "next"
    <2>1. Paid(R, 0, k, l, cursor_y, atRisk')
      BY <1>1, <1>5, <1>10 DEF Paid
    <2>2. After(R, 0)
      BY <1>1, <1>9, <1>10, <2>1
    <2> QED BY <2>2
  <1>11. CASE k.at # "next"
    <2>1. Cardinality(R) <= atRisk
      <3>1. Cardinality(R) + s + Owed(h) <= atRisk
        BY <1>1, <1>11 DEF Paid
      <3> QED BY <1>1, <1>3, <1>6, <3>1
    <2>2. CASE k.at \in {"draw", "advance"}
      <3>1. PICK Q : /\ R \subseteq Q /\ Q \in SUBSET DOMAIN glyphs /\ Cardinality(Q) \in Nat
                     /\ Cardinality(Q) <= Cardinality(R) + 1 /\ \A n \in DOMAIN glyphs \ Q : n # k.id
        <4>1. CASE k.id \in DOMAIN glyphs \ R
          <5>1. Cardinality(R \cup {k.id}) = Cardinality(R) + 1
            BY <1>6, <4>1, FS_AddElement
          <5> QED BY <1>1, <1>6, <4>1, <5>1
        <4>2. CASE k.id \notin DOMAIN glyphs \ R
          BY <1>1, <1>6, <4>2
        <4> QED BY <4>1, <4>2
      <3>2. Cardinality(Q) + 0 + Owed(l) <= atRisk'
        BY <1>1, <1>4, <1>5, <1>6, <1>11, <2>1, <3>1
      <3>3. Paid(Q, 0, k, l, cursor_y, atRisk')
        BY <1>11, <2>2, <3>2 DEF Paid
      <3>4. After(Q, 0)
        BY <1>9, <3>1, <3>3
      <3> QED BY <3>4
    <2>3. CASE k.at \notin {"draw", "advance"}
      <3>1. Cardinality(R) + 1 + Owed(l) <= atRisk'
        BY <1>1, <1>4, <1>5, <1>6, <1>11, <2>1
      <3>2. Paid(R, 1, k, l, cursor_y, atRisk')
        BY <1>11, <3>1 DEF Paid
      <3>3. After(R, 1)
        BY <1>1, <1>9, <2>3, <3>2
      <3> QED BY <3>3
    <2> QED BY <2>2, <2>3
  <1> QED BY <1>10, <1>11

(* The bound, step by step. *)
LEMMA StepDamage ==
  ASSUME Sound, FromTop, Damage, NEW p \in Callers, Step(p)
  PROVE  Damage'
  <1> SUFFICES ASSUME LinesFit', ~ Filled'
               PROVE  /\ OnGrid(ctx'["kernel"], glyphs', cursor_x', cursor_y')
                      /\ Current(ctx'["handler"], glyphs', cursor_x', cursor_y')
                      /\ \E Q, t : After(Q, t)
    BY DEF Damage, After, Bounded
  <1>1. Typed /\ Typed' /\ KeepsGlyphs /\ Leaves(p) /\ p = Running /\ ctx[p].todo # << >>
    BY StepTyped, GlyphsTyped, CallersTyped, StepRuns DEF Sound
  <1>2. LinesFit /\ ~ Filled
    BY <1>1, FitBefore, StaysFilled
  <1>3. /\ OnGrid(ctx["kernel"], glyphs, cursor_x, cursor_y)
        /\ Current(ctx["handler"], glyphs, cursor_x, cursor_y)
        /\ \E R, s : Bounded(R, s)
    BY <1>2 DEF Damage
  <1>4. PICK R, s : Bounded(R, s)
    BY <1>3
  <1>5. p = "kernel" => ctx["handler"].todo = << >> /\ ctx["handler"].at = "next"
    BY <1>1, <1>3, HandlerOwes DEF Running
  <1>6. CASE putchar(p) \/ Advance(p) \/ Tab(p) \/ console_next(p)
    <2>1. fb' = fb /\ glyphs' = glyphs /\ atRisk' = atRisk
      BY <1>6 DEF putchar, Advance, Tab, console_next, ghosts
    <2>2. Quiet(ctx[p], ctx'[p], cursor_x, cursor_y, cursor_x', cursor_y')
      BY <1>2, <1>3, <1>6, QuietSteps
    <2>3. \E t : After(R, t)
      BY <1>1, <1>3, <1>4, <2>1, <2>2, QuietBounded
    <2>4. /\ OnGrid(ctx'["kernel"], glyphs', cursor_x', cursor_y')
          /\ Current(ctx'["handler"], glyphs', cursor_x', cursor_y')
      <3>1. CASE p = "kernel"
        <4>1. ctx'["handler"] = ctx["handler"]
          BY <1>1, <3>1 DEF Leaves, Callers
        <4>2. OnGrid(ctx'["kernel"], glyphs, cursor_x', cursor_y')
          BY <1>3, <2>2, <3>1, KernelGrid
        <4>3. Current(ctx'["handler"], glyphs, cursor_x', cursor_y')
          BY <1>5, <3>1, <4>1 DEF Current
        <4> QED BY <2>1, <4>2, <4>3
      <3>2. CASE p = "handler"
        <4>1. ctx'["kernel"] = ctx["kernel"]
          BY <1>1, <3>2 DEF Leaves, Callers
        <4> QED BY <1>3, <2>1, <2>2, <3>2, <4>1, HandlerGrid
      <3> QED BY <3>1, <3>2 DEF Callers
    <2> QED BY <2>3, <2>4
  <1>7. CASE ReadX(p)
    <2>1. /\ OnGrid(ctx'["kernel"], glyphs', cursor_x', cursor_y')
          /\ Current(ctx'["handler"], glyphs', cursor_x', cursor_y')
      BY <1>3, <1>5, <1>7, ReadXGrid
    <2>2. CASE p = "kernel"
      BY <1>3, <1>4, <1>5, <1>7, <2>1, <2>2, KernelReads
    <2>3. CASE p = "handler"
      BY <1>1, <1>2, <1>3, <1>4, <1>7, <2>1, <2>3, HandlerReads
    <2> QED BY <2>2, <2>3 DEF Callers
  <1>8. CASE console_drawchar(p)
    BY <1>2, <1>3, <1>4, <1>8, DrawcharBounded
  <1>9. CASE console_scroll(p)
    BY <1>1, <1>2, <1>9, ScrollFilled
  <1> QED
    BY <1>6, <1>7, <1>8, <1>9 DEF Step

(* And after an Escape. *)
LEMMA EscapeDamage ==
  ASSUME Sound, Damage, NEW message \in Messages, Escape(message)
  PROVE  Damage'
  <1> SUFFICES ASSUME LinesFit', ~ Filled'
               PROVE  /\ OnGrid(ctx'["kernel"], glyphs', cursor_x', cursor_y')
                      /\ Current(ctx'["handler"], glyphs', cursor_x', cursor_y')
                      /\ \E Q, t : After(Q, t)
    BY DEF Damage, After, Bounded
  <1>1. UNCHANGED <<cursor_x, cursor_y, glyphs>>
    BY DEF Escape, cursor
  <1>2. LinesFit /\ ~ Filled
    BY <1>1, EscapeSound DEF LinesFit
  <1>3. /\ OnGrid(ctx["kernel"], glyphs, cursor_x, cursor_y)
        /\ Current(ctx["handler"], glyphs, cursor_x, cursor_y)
        /\ \E R, s : Bounded(R, s)
    BY <1>2 DEF Damage
  <1>4. \E Q, t : After(Q, t)
    BY <1>2, <1>3, EscapeBounded
  <1>5. ctx'["kernel"] = ctx["kernel"] /\ ctx'["handler"].at = "next"
    BY EscapeIs DEF Sound, Enters
  <1>6. Current(ctx'["handler"], glyphs', cursor_x', cursor_y')
    BY <1>5 DEF Current
  <1> QED BY <1>1, <1>3, <1>4, <1>5, <1>6

(* No glyphs, no damage. *)
LEMMA InitDamage == Init => Damage
  <1> SUFFICES ASSUME Init
               PROVE  /\ OnGrid(ctx["kernel"], glyphs, cursor_x, cursor_y)
                      /\ Current(ctx["handler"], glyphs, cursor_x, cursor_y)
                      /\ Bounded({}, 0)
    BY DEF Damage
  <1>1. glyphs = << >> /\ cursor_x = 0 /\ cursor_y = 0 /\ DOMAIN glyphs = {} /\ atRisk = 0
    BY DEF Init
  <1>2. PICK text \in Texts : ctx = [kernel |-> Caller(text), handler |-> Caller(<< >>)]
    BY DEF Init
  <1>3. ctx["kernel"].at = "next" /\ ctx["handler"].at = "next"
    BY <1>2 DEF Caller
  <1>4. 0 < Width + 5 * FontWidth
    BY Bounds
  <1>5. Cardinality({}) = 0
    BY FS_EmptySet
  <1>6. OnGrid(ctx["kernel"], glyphs, cursor_x, cursor_y)
    BY <1>1, <1>3, <1>4, GridIs DEF OnGrid
  <1>7. Current(ctx["handler"], glyphs, cursor_x, cursor_y)
    BY <1>3 DEF Current
  <1>8. Bounded({}, 0)
    BY <1>1, <1>3, <1>5 DEF Bounded, Paid, AllSafe, Apart, Spared, Intact, Callers
  <1> QED BY <1>6, <1>7, <1>8

(* Where the bound holds, no more glyphs are lost than were at risk. *)
LEMMA BoundHolds ==
  ASSUME Sound, Damage
  PROVE  DamageBounded
  <1> SUFFICES ASSUME LinesFit, ~ Filled
               PROVE  Cardinality(Lost) <= atRisk
    BY DEF DamageBounded
  <1>1. Typed /\ atRisk \in Nat
    BY DEF Sound, Typed
  <1>2. Current(ctx["handler"], glyphs, cursor_x, cursor_y) /\ \E R, s : Bounded(R, s)
    BY DEF Damage
  <1>3. PICK R, s : Bounded(R, s)
    BY <1>2
  <1>4. R \in SUBSET DOMAIN glyphs /\ IsFiniteSet(R) /\ Cardinality(R) \in Nat
    BY <1>1, <1>3, Counted DEF Bounded
  <1>5. Cardinality(R) <= atRisk
    <2>1. Owed(ctx["handler"]) \in Nat
      BY <1>1, <1>2, HandlerOwes
    <2>2. s \in {0, 1}
      BY <1>3 DEF Bounded, Paid
    <2>3. Cardinality(R) <= atRisk \/ Cardinality(R) + s + Owed(ctx["handler"]) <= atRisk
      BY <1>3 DEF Bounded, Paid
    <2> QED BY <1>1, <1>4, <2>1, <2>2, <2>3
  <1>6. Lost \subseteq R
    <2> SUFFICES ASSUME NEW n \in DOMAIN glyphs \ R, n \in Drawn
                 PROVE  Shows(fb, glyphs[n], n)
      BY DEF Lost, Drawn
    <2>1. DOMAIN ctx = Callers /\ Intact(R, ctx, glyphs, fb)
      BY <1>1, <1>3 DEF Typed, CtxType, Bounded
    <2>2. \A q \in Callers : ctx[q].at = "draw" => ctx[q].id # n
      BY <2>1 DEF Drawn
    <2>3. \A k \in 0 .. (FontHeight - 1) : RowShown(fb, glyphs[n], n, k)
      BY <2>1, <2>2 DEF Intact, RowDrawn
    <2> QED
      BY <2>3 DEF Shows, PixelsOf, RowShown
  <1>7. Cardinality(Lost) \in Nat /\ Cardinality(Lost) <= Cardinality(R)
    BY <1>4, <1>6, FS_Subset, FS_CardinalityType
  <1> QED BY <1>1, <1>4, <1>5, <1>7

(* However many Escapes come amid kernel()'s putchars, and whatever they   *)
(* print, each costs at most the glyphs it prints and one more, as long as *)
(* every line fits and the screen is not full.                             *)
THEOREM DamageIsBounded == Spec => []DamageBounded
  <1>1. Init => FromTop /\ Damage
    BY InitDamage DEF Init, FromTop, Caller, Callers
  <1>2. Sound /\ FromTop /\ Damage /\ [Next]_vars => FromTop' /\ Damage'
    <2> SUFFICES ASSUME Sound, FromTop, Damage, [Next]_vars
                 PROVE  FromTop' /\ Damage'
      OBVIOUS
    <2>1. CASE UNCHANGED vars
      <3>1. UNCHANGED <<fb, cursor_x, cursor_y, ctx, glyphs, scrolled, atRisk>>
        BY <2>1 DEF vars, cursor, ghosts
      <3>2. FromTop' /\ (LinesFit' <=> LinesFit) /\ (Filled' <=> Filled)
        BY <3>1 DEF FromTop, LinesFit, Filled
      <3>3. \A R, s : Bounded(R, s) => After(R, s)
        BY <3>1 DEF Bounded, After
      <3> QED BY <3>1, <3>2, <3>3 DEF Damage, Bounded, After
    <2>2. ASSUME NEW p \in Callers, Step(p) PROVE FromTop' /\ Damage'
      BY <2>2, StepFromTop, StepDamage DEF Sound
    <2>3. ASSUME NEW message \in Messages, Escape(message) PROVE FromTop' /\ Damage'
      <3>1. FromTop'
        <4>1. Enters(message)
          BY <2>3, EscapeIs DEF Sound
        <4> QED BY <4>1 DEF FromTop, Enters, Caller, Callers
      <3> QED BY <2>3, <3>1, EscapeDamage
    <2> QED BY <2>1, <2>2, <2>3, Steps
  <1>3. Sound /\ Damage => DamageBounded
    BY BoundHolds
  <1> QED
    BY <1>1, <1>2, <1>3, Invariance, PTL DEF Spec

(* An Escape between two putchars costs no glyph: while nothing is at risk *)
(* every glyph drawn to the end is on the screen.                          *)
COROLLARY NothingDamaged == Spec => [](LinesFit /\ ~ Filled /\ atRisk = 0 => Lost = {})
  <1>1. Sound /\ DamageBounded => (LinesFit /\ ~ Filled /\ atRisk = 0 => Lost = {})
    <2> SUFFICES ASSUME Typed, LinesFit, ~ Filled, atRisk = 0, DamageBounded
                 PROVE  Lost = {}
      BY DEF Sound
    <2>1. Lost \in SUBSET DOMAIN glyphs
      BY DEF Lost, Drawn
    <2>2. IsFiniteSet(Lost) /\ Cardinality(Lost) \in Nat
      BY <2>1, Counted
    <2>3. Cardinality(Lost) = 0
      BY <2>2 DEF DamageBounded
    <2> QED
      BY <2>2, <2>3, FS_EmptySet
  <1> QED
    BY <1>1, DamageIsBounded, Invariance, PTL

=============================================================================
