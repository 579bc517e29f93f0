----------------------------- MODULE Interrupts -----------------------------
(***************************************************************************)
(* From the first key to the command buffer: kernel() brings up the        *)
(* interrupt table, the two PICs and the console while keys are typed and  *)
(* the timer runs; interrupt_handler serves both; kbd_handle reads the     *)
(* keyboard and console_input stores what it read.                         *)
(*                                                                         *)
(* The 8259 PICs and the keyboard controller are modelled from how the     *)
(* code drives them: a request is latched at the rising edge of its line,  *)
(* ICW1 forgets the latched ones, a masked line is not delivered, and the  *)
(* controller raises line 1 when a scancode enters its output buffer,      *)
(* which is free again only once port 0x60 has been read.  A handler runs  *)
(* behind an interrupt gate (0x8E), so with interrupts off.                *)
(***************************************************************************)
EXTENDS Integers, Sequences, FiniteSets

CONSTANTS
  Lines,          \* interrupt lines that devices raise, 0 .. 7 on the master
  Scancodes,      \* what the keyboard sends
  PastTable,      \* the byte the linker placed behind kbd_table
  CmdSize,        \* bytes of cmd_buffer (256)
  ConSize,        \* bytes of console_buffer (4096)
  MaxKeys,        \* bound on the scancodes sent
  MaxTicks        \* bound on the requests of the other lines

ASSUME InterruptsAssumption ==
  /\ {0, 1} \subseteq Lines /\ Lines \subseteq 0 .. 15
  /\ Scancodes \subseteq 0 .. 255 /\ PastTable \in 0 .. 255
  /\ MaxKeys \in Nat /\ CmdSize \in Nat \ {0} /\ ConSize \in Nat /\ MaxTicks \in Nat
  /\ CmdSize <= ConSize

VARIABLES
  main,           \* where kernel() is
  IF_flag,        \* RFLAGS.IF
  idt,            \* the vectors that have a descriptor
  irr, isr, imr,  \* lines latched, in service, masked (both PICs)
  pic_base,       \* <<vector of line 0, vector of line 8>>
  handler,        \* [at, int_no, line]: the interrupt being served
  kbc,            \* scancodes not yet read; the first is in the output buffer
  kbd,            \* [active, handler, lshift, rshift]
  con_input_buffer, con_output_buffer,    \* [buffer, index]
  typed,          \* ghost: every scancode ever sent
  early,          \* ghost: one was sent before kbd_active was set
  ticks           \* ghost: requests of the other lines so far

picVars == <<irr, isr, imr, pic_base>>
conVars == <<con_input_buffer, con_output_buffer>>
keyVars == <<kbc, typed, early>>
vars == <<main, IF_flag, idt, picVars, handler, keyVars, kbd, conVars, ticks>>

LSHIFT == 42
RSHIFT == 54
ESCAPE == 1
Break(code) == code + 128

(* kbd_table, as the ASCII codes of its characters. *)
kbd_table == <<
    0,   0,  49,  50,  51,  52,  53,  54,  55,  56,  57,  48,  45,  61,   0,   0,
  113, 119, 101, 114, 116, 121, 117, 105, 111, 112,  91,  93,   0,   0,  97, 115,
  100, 102, 103, 104, 106, 107, 108,  59,  39,  96,   0,  92, 122, 120,  99, 118,
   98, 110, 109,  44,  46,  47,   0,  42,   0,  32 >>

kbd_translate(scancode, uppercase) ==
  LET byte == IF scancode = 58 THEN PastTable ELSE kbd_table[scancode + 1]
  IN  IF scancode > 58 THEN 0
      ELSE IF uppercase THEN (byte - 32) % 256 ELSE byte

NoHandler == [at |-> "none", int_no |-> 0, line |-> 0]

Blank(size) == [buffer |-> [i \in 0 .. (size - 1) |-> 0], index |-> 0]

AllLines == 0 .. 15

(* The boot loader enters the kernel with interrupts off and the PICs at   *)
(* the BIOS's vectors, their masks (of lines that matter) in any state.    *)
Init ==
  /\ main = "descriptors" /\ IF_flag = FALSE /\ idt = {}
  /\ irr = {} /\ isr = {} /\ pic_base = <<8, 112>>
  /\ imr \in {AllLines \ open : open \in SUBSET (Lines \cup {2})}
  /\ handler = NoHandler
  /\ kbd = [active |-> FALSE, handler |-> "NULL", lshift |-> 0, rshift |-> 0]
  /\ con_input_buffer = Blank(CmdSize) /\ con_output_buffer = Blank(ConSize)
  /\ kbc = << >> /\ typed = << >> /\ early = FALSE /\ ticks = 0

-----------------------------------------------------------------------------
(***************************************************************************)
(* kernel(), where it touches what is modelled here.  It runs while no     *)
(* handler does.                                                           *)
(***************************************************************************)
At(here, there) == handler.at = "none" /\ main = here /\ main' = there

Vectors == 0 .. 46 \cup {127, 128}

create_descriptors ==
  /\ At("descriptors", "remap")
  /\ idt' = Vectors
  /\ UNCHANGED <<IF_flag, picVars, handler, keyVars, kbd, conVars, ticks>>

(* Both PICs are told to start at vector 0x20; the masks are kept. *)
pic_remap ==
  /\ At("remap", "disable")
  /\ pic_base' = <<32, 32>> /\ irr' = {} /\ isr' = {}
  /\ UNCHANGED <<IF_flag, idt, imr, handler, keyVars, kbd, conVars, ticks>>

pic_disable_nop ==
  /\ At("disable", "load")
  /\ UNCHANGED <<IF_flag, idt, picVars, handler, keyVars, kbd, conVars, ticks>>

pic_disable ==
  /\ At("disable", "load")
  /\ imr' = AllLines
  /\ UNCHANGED <<IF_flag, idt, irr, isr, pic_base, handler, keyVars, kbd, conVars, ticks>>

(* lidt; sti *)
idt_load ==
  /\ At("load", "unmask1")
  /\ IF_flag' = TRUE
  /\ UNCHANGED <<idt, picVars, handler, keyVars, kbd, conVars, ticks>>

pic_clear_mask(line) ==
  /\ imr' = imr \ {line}
  /\ UNCHANGED <<IF_flag, idt, irr, isr, pic_base, handler, keyVars, kbd, conVars, ticks>>

idt_init_unmask_timer ==
  \/ At("unmask1", "unmask0") /\ pic_clear_mask(0)
  \/ At("unmask0", "console") /\ pic_clear_mask(0)

idt_init_unmask == \/ At("unmask1", "unmask0") /\ pic_clear_mask(1)
                   \/ At("unmask0", "console") /\ pic_clear_mask(0)

(* console_init: the buffers, then kbd_set_target(console_input). *)
console_init ==
  /\ At("console", "target")
  /\ con_output_buffer' = [con_output_buffer EXCEPT !.index = 0]
  /\ UNCHANGED <<IF_flag, idt, picVars, handler, keyVars, kbd, con_input_buffer, ticks>>

kbd_set_target_swapped ==
  /\ \/ At("target", "active") /\ kbd' = [kbd EXCEPT !.active = TRUE]
     \/ At("active", "run") /\ kbd' = [kbd EXCEPT !.handler = "console_input"]
  /\ UNCHANGED <<IF_flag, idt, picVars, handler, keyVars, conVars, ticks>>

kbd_set_target ==
  /\ \/ At("target", "active") /\ kbd' = [kbd EXCEPT !.handler = "console_input"]
     \/ At("active", "run") /\ kbd' = [kbd EXCEPT !.active = TRUE]
  /\ UNCHANGED <<IF_flag, idt, picVars, handler, keyVars, conVars, ticks>>

(* while(true) *)
Loop == main = "run" /\ UNCHANGED vars

Main == \/ create_descriptors \/ pic_remap \/ pic_disable \/ idt_load
        \/ idt_init_unmask \/ console_init \/ kbd_set_target

-----------------------------------------------------------------------------
(***************************************************************************)
(* The hardware.                                                           *)
(***************************************************************************)
Key(code) ==
  /\ Len(typed) < MaxKeys
  /\ typed' = Append(typed, code) /\ kbc' = Append(kbc, code)
  /\ early' = (early \/ ~ kbd.active)
  /\ irr' = IF kbc = << >> THEN irr \cup {1} ELSE irr
  /\ UNCHANGED <<main, IF_flag, idt, isr, imr, pic_base, handler, kbd, conVars, ticks>>

Tick(line) ==
  /\ line # 1 /\ ticks < MaxTicks
  /\ irr' = irr \cup {line} /\ ticks' = ticks + 1
  /\ UNCHANGED <<main, IF_flag, idt, isr, imr, pic_base, handler, keyVars, kbd, conVars>>

VectorOf(line) == IF line < 8 THEN pic_base[1] + line ELSE pic_base[2] + line - 8

(* The slave's lines come through line 2 of the master. *)
Deliverable(line) ==
  /\ line \in irr \ imr
  /\ line >= 8 => 2 \notin imr
  /\ \A other \in isr : line < other

Deliver ==
  /\ IF_flag /\ handler.at = "none"
  /\ \E line \in Lines :
       /\ Deliverable(line) /\ \A other \in Lines : Deliverable(other) => line <= other
       /\ irr' = irr \ {line} /\ isr' = isr \cup {line}
       /\ handler' = [at |-> IF VectorOf(line) \in idt \ (0 .. 31) THEN "body" ELSE "panic",
                      int_no |-> VectorOf(line), line |-> line]
  /\ IF_flag' = FALSE
  /\ UNCHANGED <<main, idt, imr, pic_base, keyVars, kbd, conVars, ticks>>

-----------------------------------------------------------------------------
(***************************************************************************)
(* interrupt_handler: what the line is for, pic_EOI, iretq.                *)
(***************************************************************************)
irq == handler.int_no - 32

(* inb(0x60) frees the output buffer for the next scancode. *)
ReadPort ==
  /\ kbc' = Tail(kbc)
  /\ irr' = IF Len(kbc) > 1 THEN irr \cup {1} ELSE irr

Fits_one_more(i, o) == i <= CmdSize /\ o + 1 < ConSize

(* The bytes console_input stores are in the buffers. *)
Fits(i, o) == i < CmdSize /\ o + 1 < ConSize

(* It compares no index with a size.  Behind cmd_buffer is the record      *)
(* con_output_buffer (kernel/assemble.txt), so that a byte stored there    *)
(* changes the pointer the next one is stored through; what follows is not *)
(* modelled.                                                               *)
console_input(ascii) ==
  LET i == con_input_buffer.index + 1
      o == con_output_buffer.index
  IN  \/ /\ Fits(i, o)
         /\ con_input_buffer' = [con_input_buffer EXCEPT !.index = i, !.buffer[i] = ascii]
         /\ con_output_buffer' = [con_output_buffer EXCEPT !.index = o + 1, !.buffer[o] = ascii,
                                                           !.buffer[o + 1] = 0]
      \/ /\ ~ Fits(i, o) /\ con_input_buffer' = [con_input_buffer EXCEPT !.index = i]
         /\ UNCHANGED con_output_buffer

Shifts(data) == data \in {LSHIFT, RSHIFT, Break(LSHIFT), Break(RSHIFT)}

Pressed_forever(data, make, before) == IF data = make THEN 1 ELSE before

Pressed_counted(data, make, before) ==
  IF data = make THEN before + 1 ELSE IF data = Break(make) THEN 0 ELSE before

Pressed(data, make, before) ==
  IF data = make THEN 1 ELSE IF data = Break(make) THEN 0 ELSE before

(* Nothing is read before a target is set.  The call of a NULL target is a *)
(* page fault, which ends in the handler's endless loop.                   *)
kbd_handle ==
  LET data == Head(kbc)
      shift == kbd.lshift = 1 \/ kbd.rshift = 1
  IN  \/ ~ kbd.active /\ UNCHANGED <<irr, kbc, kbd, conVars>>
      \/ /\ kbd.active /\ ReadPort /\ Shifts(data)
         /\ kbd' = [kbd EXCEPT !.lshift = Pressed(data, LSHIFT, @),
                               !.rshift = Pressed(data, RSHIFT, @)]
         /\ UNCHANGED conVars
      \/ kbd.active /\ ReadPort /\ data = ESCAPE /\ UNCHANGED <<kbd, conVars>>
      \/ /\ kbd.active /\ ReadPort /\ ~ Shifts(data) /\ data # ESCAPE
         /\ console_input(kbd_translate(data, shift))
         /\ UNCHANGED kbd

Calls == irq = 1 /\ kbd.active /\ ~ Shifts(Head(kbc)) /\ Head(kbc) # ESCAPE

CallsNull == Calls /\ kbd.handler = "NULL"

Overruns == Calls /\ ~ Fits(con_input_buffer.index + 1, con_output_buffer.index)

interrupt_handler ==
  /\ handler.at = "body"
  /\ handler' = [handler EXCEPT !.at = IF CallsNull THEN "panic"
                                         ELSE IF Overruns THEN "overrun" ELSE "eoi"]
  /\ \/ irq = 1 /\ kbd_handle
     \/ irq # 1 /\ UNCHANGED <<irr, kbc, kbd, conVars>>
  /\ UNCHANGED <<main, IF_flag, idt, isr, imr, pic_base, typed, early, ticks>>

(* A non-specific EOI ends the service of the highest priority line. *)
Ended(lines) == {l \in lines \cap isr : \A k \in lines \cap isr : l <= k}

EndOfService == Ended(0 .. 7) \cup (IF irq >= 8 THEN Ended(8 .. 15) ELSE {})

pic_EOI ==
  /\ handler.at = "eoi" /\ handler' = [handler EXCEPT !.at = "iret"]
  /\ isr' = isr \ EndOfService
  /\ UNCHANGED <<main, IF_flag, idt, irr, imr, pic_base, keyVars, kbd, conVars, ticks>>

iretq ==
  /\ handler.at = "iret" /\ handler' = NoHandler /\ IF_flag' = TRUE
  /\ UNCHANGED <<main, idt, picVars, keyVars, kbd, conVars, ticks>>

Handler == interrupt_handler \/ pic_EOI \/ iretq

Next ==
  \/ Main \/ Loop \/ Deliver \/ Handler
  \/ \E code \in Scancodes : Key(code)
  \/ \E line \in Lines : Tick(line)

(* The CPU goes on, and takes a deliverable interrupt between two          *)
(* instructions; nobody has to type.                                       *)
Fairness == WF_vars(Main) /\ WF_vars(Deliver) /\ WF_vars(Handler)

Spec == Init /\ [][Next]_vars /\ Fairness

-----------------------------------------------------------------------------
(* Types.  con_input_buffer.index may reach CmdSize, outside cmd_buffer. *)
TypeOK ==
  /\ main \in {"descriptors", "remap", "disable", "load", "unmask1", "unmask0",
               "console", "target", "active", "run"}
  /\ IF_flag \in BOOLEAN /\ idt \subseteq 0 .. 255
  /\ irr \subseteq Lines /\ isr \subseteq Lines /\ imr \subseteq AllLines
  /\ handler.at \in {"none", "body", "eoi", "iret", "panic", "overrun"}
  /\ kbd.lshift \in {0, 1} /\ kbd.rshift \in {0, 1}
  /\ con_input_buffer.index \in 0 .. CmdSize
  /\ con_output_buffer.index \in 0 .. (ConSize - 1)

(* interrupt_handler takes every interrupt for the line that raised it,    *)
(* although pic_remap starts both PICs at the same vector: of the lines    *)
(* that share one, only the master's are ever let through.                 *)
RightHandler == handler.at # "none" => irq = handler.line

(* No interrupt brings the kernel down, whenever during kernel() it comes: *)
(* its vector has a descriptor by the time interrupts are on, and the      *)
(* keyboard's target is set by the time it is called.                      *)
NoPanic == handler.at # "panic"

(* Each interrupt is acknowledged before its handler returns, on every     *)
(* path through it: none is left in service, to hold back the lines below, *)
(* and interrupts are on again afterwards.                                 *)
Acknowledged ==
  /\ handler.at \in {"none", "iret"} => isr = {}
  /\ handler.at = "none" => IF_flag \/ main \in {"descriptors", "remap", "disable", "load"}

(* After the first n scancodes the shift key is down. *)
Down(make, n) ==
  \E j \in 1 .. n : typed[j] = make /\ \A k \in (j + 1) .. n : typed[k] # Break(make)

(* The ones of the first n scancodes that are stored, and what is stored   *)
(* for the scancode at i.                                                  *)
Kept(n) == {i \in 1 .. n : ~ Shifts(typed[i]) /\ typed[i] # ESCAPE}

Char(i) == kbd_translate(typed[i], Down(LSHIFT, i - 1) \/ Down(RSHIFT, i - 1))

(* The number of scancodes kbd_handle has read. *)
Read == Len(typed) - Len(kbc)

(* Until a buffer overruns, no key is lost, repeated or reordered on its   *)
(* way to the buffers, and the shift keys count for what was typed while   *)
(* they were down: the k-th scancode kept is the k-th character of         *)
(* console_buffer, and at index k of cmd_buffer, whose index 0             *)
(* console_input leaves unused.                                            *)
KeysInOrder ==
  LET length == Cardinality(Kept(Read))
  IN  handler.at # "overrun" =>
        /\ con_input_buffer.index = length /\ con_output_buffer.index = length
        /\ con_output_buffer.buffer[length] = 0
        /\ \A i \in Kept(Read) :
             /\ con_input_buffer.buffer[Cardinality(Kept(i))] = Char(i)
             /\ con_output_buffer.buffer[Cardinality(Kept(i)) - 1] = Char(i)

(* console_input stays inside the buffers for CmdSize - 1 keys, shifts and *)
(* Escapes not counted, and not for one more: it checks nothing, and index *)
(* 0 of cmd_buffer is lost.                                                *)
RoomForKeys == handler.at = "overrun" <=> Cardinality(Kept(Read)) >= CmdSize

(* Every key typed is read in the end, unless one was typed before the     *)
(* console was ready, which stays in the controller and keeps it from      *)
(* raising an interrupt for any other, or a buffer overran.                *)
KeysRead == <>[](early \/ handler.at = "overrun" \/ kbc = << >>)
=============================================================================
