-------------------------- MODULE InterruptsProofs --------------------------
(***************************************************************************)
(* Proofs about interrupts and the keyboard, for every set of lines and    *)
(* scancodes, every buffer size and every number of keys, up to the one    *)
(* that leaves the buffers.                                                *)
(***************************************************************************)
EXTENDS Interrupts, FiniteSetTheorems, SequenceTheorems, TLAPS

-----------------------------------------------------------------------------
(***************************************************************************)
(* The inductive invariant.                                                *)
(***************************************************************************)
Early == {"descriptors", "remap", "disable", "load"}

(* The sets that the variables range over. *)
Places == {"descriptors", "remap", "disable", "load", "unmask1", "unmask0",
           "console", "target", "active", "run"}

HandlerType == [at : {"none", "body", "eoi", "iret", "panic", "overrun"}, int_no : Int, line : Int]

KbdType == [active : BOOLEAN, handler : {"NULL", "console_input"}, lshift : {0, 1}, rshift : {0, 1}]

BufferType(size, last) == [buffer : [0 .. (size - 1) -> 0 .. 255], index : 0 .. last]

InputType == BufferType(CmdSize, CmdSize)

OutputType == BufferType(ConSize, ConSize - 1)

Types ==
  /\ main \in Places /\ IF_flag \in BOOLEAN /\ idt \subseteq 0 .. 255
  /\ irr \subseteq Lines /\ isr \subseteq Lines /\ imr \subseteq AllLines
  /\ handler \in HandlerType /\ kbd \in KbdType
  /\ con_input_buffer \in InputType /\ con_output_buffer \in OutputType
  /\ kbc \in Seq(Scancodes) /\ typed \in Seq(Scancodes)

(* What kernel() has set up by the time it is where it is. *)
SetUp ==
  /\ main # "descriptors" => idt = Vectors
  /\ main \notin {"descriptors", "remap"} => pic_base = <<32, 32>>
  /\ main \notin {"descriptors", "remap", "disable"} => AllLines \ {0, 1} \subseteq imr
  /\ main \in Early => ~ IF_flag /\ handler.at = "none"
  /\ main \in {"active", "run"} => kbd.handler = "console_input"
  /\ main # "run" => ~ kbd.active /\ Read = 0

(* One interrupt is served at a time, with interrupts off, and only ever   *)
(* the timer's or the keyboard's.                                          *)
Service ==
  /\ NoPanic /\ Acknowledged
  /\ handler.at \in {"body", "eoi"} => isr = {handler.line}
  /\ handler.at # "none" => /\ handler.line \in {0, 1} /\ handler.int_no = 32 + handler.line
                            /\ ~ IF_flag

(* A request of the keyboard's line stands for the scancode in the output  *)
(* buffer, and there is one of them at most.                               *)
Requests ==
  /\ 1 \in irr => kbc # << >>
  /\ handler.at = "body" /\ handler.line = 1 => kbc # << >> /\ 1 \notin irr

(* The controller holds the end of what was typed; the shift keys are as   *)
(* the part before it left them.                                           *)
Queue ==
  /\ Len(kbc) <= Len(typed) /\ Len(typed) <= MaxKeys
  /\ \A j \in 1 .. Len(kbc) : kbc[j] = typed[Read + j]
  /\ kbd.lshift = 1 <=> Down(LSHIFT, Read)
  /\ kbd.rshift = 1 <=> Down(RSHIFT, Read)

(* What has been read is in the buffers, as long as it fits. *)
Text ==
  LET length == Cardinality(Kept(Read))
  IN  /\ con_input_buffer.index = length /\ con_output_buffer.index = length
      /\ con_output_buffer.buffer[length] = 0
      /\ \A i \in Kept(Read) :
           /\ con_input_buffer.buffer[Cardinality(Kept(i))] = Char(i)
           /\ con_output_buffer.buffer[Cardinality(Kept(i)) - 1] = Char(i)

Keys == (handler.at # "overrun" => Text) /\ RoomForKeys

IInv == Types /\ SetUp /\ Service /\ Requests /\ Queue /\ Keys

-----------------------------------------------------------------------------
(***************************************************************************)
(* The operators.                                                          *)
(***************************************************************************)
(* kbd_translate answers with a byte. *)
LEMMA TranslateByte ==
  ASSUME NEW code \in 0 .. 255, NEW upper \in BOOLEAN
  PROVE  kbd_translate(code, upper) \in 0 .. 255
  <1>1. kbd_table \in Seq(0 .. 255) /\ Len(kbd_table) = 58
    BY DEF kbd_table
  <1>2. ASSUME code < 58
        PROVE  kbd_table[code + 1] \in 0 .. 255
    <2>1. code + 1 \in 1 .. Len(kbd_table)
      BY <1>1, <1>2
    <2>2. \A n \in 1 .. Len(kbd_table) : kbd_table[n] \in 0 .. 255
      BY <1>1, ElementOfSeq
    <2> QED
      BY <2>1, <2>2, Zenon
  <1> QED
    BY <1>2, InterruptsAssumption DEF kbd_translate

(* One more scancode puts its shift key down, or up, or leaves it. *)
LEMMA DownNext ==
  ASSUME NEW make \in {LSHIFT, RSHIFT}, NEW n \in Nat
  PROVE  Down(make, n + 1) <=> \/ typed[n + 1] = make
                               \/ Down(make, n) /\ typed[n + 1] # Break(make)
  <1>1. make # Break(make)
    BY DEF LSHIFT, RSHIFT, Break
  <1>2. ASSUME Down(make, n + 1), typed[n + 1] # make
        PROVE  Down(make, n) /\ typed[n + 1] # Break(make)
    BY <1>2 DEF Down
  <1>3. ASSUME typed[n + 1] = make
        PROVE  Down(make, n + 1)
    BY <1>3 DEF Down
  <1>4. ASSUME Down(make, n), typed[n + 1] # Break(make)
        PROVE  Down(make, n + 1)
    BY <1>4 DEF Down
  <1> QED
    BY <1>1, <1>2, <1>3, <1>4

(* One more scancode adds itself, if it is one to store. *)
LEMMA KeptNext ==
  ASSUME NEW n \in Nat
  PROVE  Kept(n + 1) = IF ~ Shifts(typed[n + 1]) /\ typed[n + 1] # ESCAPE
                       THEN Kept(n) \cup {n + 1} ELSE Kept(n)
  BY DEF Kept

(* How many are kept. *)
LEMMA KeptSize ==
  ASSUME NEW n \in Nat
  PROVE  /\ IsFiniteSet(Kept(n)) /\ Cardinality(Kept(n)) \in 0 .. n
         /\ \A i \in Kept(n) : Cardinality(Kept(i)) \in 1 .. Cardinality(Kept(n))
  <1>1. ASSUME NEW m \in Nat
        PROVE  IsFiniteSet(Kept(m)) /\ Cardinality(Kept(m)) \in 0 .. m
    <2>1. IsFiniteSet(1 .. m) /\ Cardinality(1 .. m) = m
      BY FS_Interval
    <2>2. Kept(m) \subseteq 1 .. m
      BY DEF Kept
    <2> QED
      BY <2>1, <2>2, FS_Subset, FS_CardinalityType
  <1>2. ASSUME NEW i \in Kept(n)
        PROVE  Cardinality(Kept(i)) \in 1 .. Cardinality(Kept(n))
    <2>1. i \in 1 .. n /\ i \in Kept(i) /\ Kept(i) \subseteq Kept(n)
      BY <1>2 DEF Kept
    <2>2. IsFiniteSet(Kept(i)) /\ Cardinality(Kept(i)) \in Nat
      BY <2>1, <1>1
    <2>3. Cardinality(Kept(i)) # 0
      BY <2>1, <2>2, FS_EmptySet
    <2>4. Cardinality(Kept(i)) <= Cardinality(Kept(n))
      BY <2>1, <1>1, FS_Subset
    <2> QED
      BY <2>2, <2>3, <2>4, <1>1
  <1> QED
    BY <1>1, <1>2

(* What is typed later changes nothing about the scancodes before. *)
LEMMA PrefixStable ==
  ASSUME NEW code \in Scancodes, typed \in Seq(Scancodes), typed' = Append(typed, code)
  PROVE  /\ \A make \in {LSHIFT, RSHIFT}, n \in 0 .. Len(typed) :
               Down(make, n)' <=> Down(make, n)
         /\ \A n \in 0 .. Len(typed) : Kept(n)' = Kept(n)
         /\ \A i \in 1 .. Len(typed) : Char(i)' = Char(i)
  <1>1. \A i \in 1 .. Len(typed) : typed'[i] = typed[i]
    OBVIOUS
  <1>2. ASSUME NEW make \in {LSHIFT, RSHIFT}, NEW n \in 0 .. Len(typed)
        PROVE  Down(make, n)' <=> Down(make, n)
    BY <1>1 DEF Down
  <1>3. ASSUME NEW n \in 0 .. Len(typed)
        PROVE  Kept(n)' = Kept(n)
    BY <1>1 DEF Kept, Shifts
  <1>4. ASSUME NEW i \in 1 .. Len(typed)
        PROVE  Char(i)' = Char(i)
    <2>1. i - 1 \in 0 .. Len(typed)
      OBVIOUS
    <2>2. (Down(LSHIFT, i - 1) \/ Down(RSHIFT, i - 1))' = (Down(LSHIFT, i - 1) \/ Down(RSHIFT, i - 1))
      BY <1>2, <2>1
    <2> QED
      BY <1>1, <2>2 DEF Char
  <1> QED
    BY <1>2, <1>3, <1>4
-----------------------------------------------------------------------------
(***************************************************************************)
(* The initial states and the steps.                                       *)
(***************************************************************************)
(* kernel() is entered with nothing set up and nothing typed. *)
LEMMA InitIInv == Init => IInv
  <1> SUFFICES ASSUME Init
               PROVE  IInv
    OBVIOUS
  <1>1. Types
    <2>1. imr \subseteq AllLines
      BY DEF Init
    <2>2. ASSUME NEW size \in Nat, NEW last \in Nat
          PROVE  Blank(size) \in BufferType(size, last)
      <3>1. 0 \in 0 .. last /\ 0 \in 0 .. 255
        OBVIOUS
      <3> QED
        BY <3>1, Zenon DEF Blank, BufferType
    <2>3. con_input_buffer \in InputType /\ con_output_buffer \in OutputType
      <3>1. CmdSize \in Nat /\ ConSize \in Nat /\ ConSize - 1 \in Nat
        BY InterruptsAssumption
      <3> QED
        BY <2>2, <3>1 DEF Init, InputType, OutputType
    <2>4. kbc \in Seq(Scancodes) /\ typed \in Seq(Scancodes)
      BY DEF Init
    <2>5. handler \in HandlerType /\ kbd \in KbdType
      BY DEF Init, NoHandler, HandlerType, KbdType
    <2>6. main \in Places /\ IF_flag \in BOOLEAN /\ idt = {} /\ irr = {} /\ isr = {}
      BY DEF Init, Places
    <2> QED
      BY <2>1, <2>3, <2>4, <2>5, <2>6 DEF Types
  <1>3. Read = 0 /\ Kept(0) = {}
    BY DEF Init, Read, Kept
  <1>2. SetUp /\ Service /\ Requests
    BY <1>3 DEF Init, SetUp, Service, NoPanic, Acknowledged, Requests, Early, NoHandler
  <1>4. Queue
    BY <1>3, InterruptsAssumption DEF Init, Queue, Down
  <1>5. Keys
    <2>1. Cardinality(Kept(Read)) = 0 /\ Kept(Read) = {}
      BY <1>3, FS_EmptySet
    <2>2. /\ con_input_buffer.index = 0 /\ con_output_buffer.index = 0
          /\ con_output_buffer.buffer[0] = 0 /\ handler.at = "none"
      BY InterruptsAssumption DEF Init, Blank, NoHandler
    <2>3. ~ (0 >= CmdSize)
      BY InterruptsAssumption
    <2> QED
      BY <2>1, <2>2, <2>3 DEF Keys, Text, RoomForKeys
  <1> QED
    BY <1>1, <1>2, <1>4, <1>5 DEF IInv

(* What the keyboard's part of the invariant says stays true while nothing *)
(* it speaks of changes.                                                   *)
LEMMA KeysFrame ==
  ASSUME Queue, Keys, UNCHANGED <<kbc, typed, conVars>>, handler'.at = "overrun" <=> handler.at = "overrun",
         kbd'.lshift = kbd.lshift, kbd'.rshift = kbd.rshift
  PROVE  Queue' /\ Keys'
  <1>1. Read' = Read
    BY DEF Read
  <1>2. Queue'
    BY <1>1 DEF Queue, Down
  <1>3. Keys'
    BY <1>1 DEF Keys, Text, RoomForKeys, Kept, Char, Down, conVars
  <1> QED
    BY <1>2, <1>3

(* Every step of kernel() sets up what the next one relies on. *)
LEMMA MainStep == IInv /\ Main => IInv'
  <1> SUFFICES ASSUME IInv, Main
               PROVE  IInv'
    OBVIOUS
  <1> USE DEF IInv
  <1>1. /\ UNCHANGED <<kbc, typed, con_input_buffer, handler>> /\ handler.at = "none"
        /\ kbd'.lshift = kbd.lshift /\ kbd'.rshift = kbd.rshift
    BY DEF Types, KbdType, Main, create_descriptors, pic_remap, pic_disable, idt_load, idt_init_unmask,
           pic_clear_mask, console_init, kbd_set_target, keyVars, conVars, At
  <1>2. Read' = Read
    BY <1>1 DEF Read
  <1>3. UNCHANGED con_output_buffer
    <2>1. CASE console_init
      <3>1. Read = 0
        BY <2>1 DEF console_init, At, SetUp
      <3>2. Kept(0) = {}
        BY DEF Kept
      <3>3. con_output_buffer.index = 0
        BY <1>1, <3>1, <3>2, FS_EmptySet DEF Keys, Text
      <3> QED
        BY <2>1, <3>3 DEF console_init, Types, OutputType, BufferType
    <2> QED
      BY <2>1 DEF Main, create_descriptors, pic_remap, pic_disable, idt_load, idt_init_unmask,
                  pic_clear_mask, kbd_set_target, conVars
  <1>4. Queue' /\ Keys'
    BY <1>1, <1>3, KeysFrame DEF conVars
  <1>5. Types' /\ SetUp' /\ Service' /\ Requests'
    <2>1. CASE create_descriptors
      <3>1. /\ main = "descriptors" /\ main' = "remap" /\ idt' = Vectors
            /\ UNCHANGED <<IF_flag, irr, isr, imr, pic_base, kbd>>
        BY <2>1 DEF create_descriptors, At, picVars
      <3>2. Types'
        BY <1>1, <1>3, <3>1 DEF Types, Places, Vectors
      <3>3. SetUp'
        BY <1>1, <1>2, <3>1 DEF SetUp, Early
      <3>4. Service' /\ Requests'
        BY <1>1, <3>1 DEF SetUp, Service, NoPanic, Acknowledged, Requests, Early
      <3> QED
        BY <3>2, <3>3, <3>4
    <2>2. CASE pic_remap
      <3>1. /\ main = "remap" /\ main' = "disable" /\ pic_base' = <<32, 32>> /\ irr' = {} /\ isr' = {}
            /\ UNCHANGED <<IF_flag, idt, imr, kbd>>
        BY <2>2 DEF pic_remap, At, picVars
      <3>2. Types'
        BY <1>1, <1>3, <3>1 DEF Types, Places
      <3>3. SetUp'
        BY <1>1, <1>2, <3>1 DEF SetUp, Early
      <3>4. Service' /\ Requests'
        BY <1>1, <3>1 DEF SetUp, Service, NoPanic, Acknowledged, Requests, Early
      <3> QED
        BY <3>2, <3>3, <3>4
    <2>3. CASE pic_disable
      <3>1. /\ main = "disable" /\ main' = "load" /\ imr' = AllLines
            /\ UNCHANGED <<IF_flag, idt, irr, isr, pic_base, kbd>>
        BY <2>3 DEF pic_disable, At, picVars
      <3>2. Types'
        BY <1>1, <1>3, <3>1 DEF Types, Places
      <3>3. SetUp'
        BY <1>1, <1>2, <3>1 DEF SetUp, Early, AllLines
      <3>4. Service' /\ Requests'
        BY <1>1, <3>1 DEF SetUp, Service, NoPanic, Acknowledged, Requests, Early
      <3> QED
        BY <3>2, <3>3, <3>4
    <2>4. CASE idt_load
      <3>1. /\ main = "load" /\ main' = "unmask1" /\ IF_flag' = TRUE
            /\ UNCHANGED <<idt, irr, isr, imr, pic_base, kbd>>
        BY <2>4 DEF idt_load, At, picVars
      <3>2. Types'
        BY <1>1, <1>3, <3>1 DEF Types, Places
      <3>3. SetUp'
        BY <1>1, <1>2, <3>1 DEF SetUp, Early
      <3>4. Service' /\ Requests'
        BY <1>1, <3>1 DEF SetUp, Service, NoPanic, Acknowledged, Requests, Early
      <3> QED
        BY <3>2, <3>3, <3>4
    <2>5. CASE idt_init_unmask
      <3>1. /\ <<main, main'>> \in {<<"unmask1", "unmask0">>, <<"unmask0", "console">>}
            /\ imr' \subseteq imr /\ imr \ {0, 1} \subseteq imr'
            /\ UNCHANGED <<IF_flag, idt, irr, isr, pic_base, kbd>>
        BY <2>5 DEF idt_init_unmask, pic_clear_mask, At, picVars
      <3>2. Types'
        BY <1>1, <1>3, <3>1 DEF Types, Places
      <3>3. SetUp'
        BY <1>1, <1>2, <3>1 DEF SetUp, Early, AllLines
      <3>4. Service' /\ Requests'
        BY <1>1, <3>1 DEF SetUp, Service, NoPanic, Acknowledged, Requests, Early
      <3> QED
        BY <3>2, <3>3, <3>4
    <2>6. CASE console_init
      <3>1. /\ main = "console" /\ main' = "target"
            /\ UNCHANGED <<IF_flag, idt, irr, isr, imr, pic_base, kbd>>
        BY <2>6 DEF console_init, At, picVars
      <3>2. Types'
        BY <1>1, <1>3, <3>1 DEF Types, Places
      <3>3. SetUp'
        BY <1>1, <1>2, <3>1 DEF SetUp, Early
      <3>4. Service' /\ Requests'
        BY <1>1, <3>1 DEF SetUp, Service, NoPanic, Acknowledged, Requests, Early
      <3> QED
        BY <3>2, <3>3, <3>4
    <2>7. CASE kbd_set_target
      <3>1. /\ \/ main = "target" /\ main' = "active" /\ kbd' = [kbd EXCEPT !.handler = "console_input"]
               \/ main = "active" /\ main' = "run" /\ kbd' = [kbd EXCEPT !.active = TRUE]
            /\ UNCHANGED <<IF_flag, idt, irr, isr, imr, pic_base>>
        BY <2>7 DEF kbd_set_target, At, picVars
      <3>2. Types'
        BY <1>1, <1>3, <3>1 DEF Types, Places, KbdType
      <3>3. SetUp'
        BY <1>1, <1>2, <3>1 DEF SetUp, Early, KbdType, Types
      <3>4. Service' /\ Requests'
        BY <1>1, <3>1 DEF SetUp, Service, NoPanic, Acknowledged, Requests, Early
      <3> QED
        BY <3>2, <3>3, <3>4
    <2> QED
      BY <2>1, <2>2, <2>3, <2>4, <2>5, <2>6, <2>7 DEF Main
  <1> QED
    BY <1>4, <1>5

(* A key pressed joins the end of the queue. *)
LEMMA KeyStep == ASSUME IInv, NEW code \in Scancodes, Key(code)
                 PROVE  IInv'
  <1> USE DEF IInv
  <1>1. /\ typed' = Append(typed, code) /\ kbc' = Append(kbc, code) /\ Len(typed) < MaxKeys
        /\ UNCHANGED <<main, IF_flag, idt, isr, imr, pic_base, handler, kbd,
                       con_input_buffer, con_output_buffer>>
    BY DEF Key, conVars
  <1>2. typed \in Seq(Scancodes) /\ kbc \in Seq(Scancodes) /\ Len(kbc) <= Len(typed)
    BY DEF Types, Queue
  <1>3. /\ typed' \in Seq(Scancodes) /\ kbc' \in Seq(Scancodes)
        /\ Len(typed') = Len(typed) + 1 /\ Len(kbc') = Len(kbc) + 1
    BY <1>1, <1>2
  <1>4. Read' = Read /\ Read \in 0 .. Len(typed)
    BY <1>2, <1>3 DEF Read
  <1>5. irr' \subseteq irr \cup {1} /\ (1 \in irr' => 1 \in irr \/ kbc = << >>)
    BY DEF Key
  <1>6. kbc' # << >>
    BY <1>2, <1>3
  <1>7. Types'
    <2>1. irr' \subseteq Lines
      BY <1>5, InterruptsAssumption DEF Types
    <2> QED
      BY <1>1, <1>3, <2>1 DEF Types
  <1>8. SetUp' /\ Service'
    BY <1>1, <1>4 DEF SetUp, Service, NoPanic, Acknowledged
  <1>9. Requests'
    BY <1>1, <1>5, <1>6 DEF Requests
  <1>10. Queue'
    <2>1. ASSUME NEW j \in 1 .. Len(kbc')
          PROVE  kbc'[j] = typed'[Read' + j]
      <3>1. CASE j = Len(kbc')
        BY <1>1, <1>2, <1>3, <1>4, <3>1 DEF Read
      <3>2. CASE j \in 1 .. Len(kbc)
        <4>1. kbc'[j] = kbc[j] /\ Read + j \in 1 .. Len(typed)
          BY <1>1, <1>2, <3>2 DEF Read
        <4>2. typed'[Read + j] = typed[Read + j]
          BY <1>1, <1>2, <4>1
        <4> QED
          BY <1>4, <3>2, <4>1, <4>2 DEF Queue
      <3> QED
        BY <1>2, <1>3, <3>1, <3>2
    <2>2. \A make \in {LSHIFT, RSHIFT} : Down(make, Read)' <=> Down(make, Read)
      <3>1. \A make \in {LSHIFT, RSHIFT}, n \in 0 .. Len(typed) : Down(make, n)' <=> Down(make, n)
        BY <1>1, <1>2, PrefixStable
      <3> QED
        BY <1>4, <3>1
    <2>3. Len(kbc') <= Len(typed') /\ Len(typed') <= MaxKeys
      BY <1>1, <1>2, <1>3, InterruptsAssumption
    <2>4. (kbd'.lshift = 1 <=> Down(LSHIFT, Read)') /\ (kbd'.rshift = 1 <=> Down(RSHIFT, Read)')
      BY <1>1, <2>2 DEF Queue
    <2> QED
      BY <2>1, <2>3, <2>4 DEF Queue
  <1>11. Keys'
    <2>1. Kept(Read)' = Kept(Read)
      BY <1>1, <1>2, <1>4, PrefixStable
    <2>2. ASSUME NEW i \in Kept(Read)
          PROVE  Kept(i)' = Kept(i) /\ Char(i)' = Char(i)
      <3>1. i \in 1 .. Len(typed)
        BY <1>4, <2>2 DEF Kept
      <3> QED
        BY <1>1, <1>2, <3>1, PrefixStable
    <2> QED
      BY <1>1, <2>1, <2>2 DEF Keys, Text, RoomForKeys
  <1> QED
    BY <1>7, <1>8, <1>9, <1>10, <1>11
(* A request of another line. *)
LEMMA TickStep == ASSUME IInv, NEW line \in Lines, Tick(line)
                  PROVE  IInv'
  <1> USE DEF IInv
  <1>1. /\ line # 1 /\ irr' = irr \cup {line}
        /\ UNCHANGED <<main, IF_flag, idt, isr, imr, pic_base, handler, kbc, typed, kbd,
                       con_input_buffer, con_output_buffer>>
    BY DEF Tick, keyVars, conVars
  <1>2. Queue' /\ Keys' /\ Read' = Read
    BY <1>1, KeysFrame DEF conVars, Read
  <1>3. irr' \subseteq Lines /\ (1 \in irr' => 1 \in irr)
    BY <1>1 DEF Types
  <1>4. Types'
    BY <1>1, <1>3 DEF Types
  <1>5. SetUp' /\ Service' /\ Requests'
    BY <1>1, <1>2, <1>3 DEF SetUp, Service, NoPanic, Acknowledged, Requests
  <1> QED
    BY <1>2, <1>4, <1>5

(* An interrupt is taken only from the two lines that were opened, and     *)
(* finds its descriptor.                                                   *)
LEMMA DeliverStep == IInv /\ Deliver => IInv'
  <1> SUFFICES ASSUME IInv, Deliver
               PROVE  IInv'
    OBVIOUS
  <1> USE DEF IInv
  <1>1. PICK line \in Lines :
          /\ Deliverable(line)
          /\ irr' = irr \ {line} /\ isr' = isr \cup {line}
          /\ handler' = [at |-> IF VectorOf(line) \in idt \ (0 .. 31) THEN "body" ELSE "panic",
                         int_no |-> VectorOf(line), line |-> line]
    BY DEF Deliver
  <1>2. /\ IF_flag = TRUE /\ handler.at = "none" /\ IF_flag' = FALSE
        /\ UNCHANGED <<main, idt, imr, pic_base, kbc, typed, kbd, con_input_buffer, con_output_buffer>>
    BY DEF Deliver, keyVars, conVars, Types
  <1>3. main \notin Early /\ idt = Vectors /\ pic_base = <<32, 32>> /\ AllLines \ {0, 1} \subseteq imr
    BY <1>2 DEF SetUp, Early
  <1>4. line \in {0, 1}
    BY <1>1, <1>3, InterruptsAssumption DEF Deliverable, AllLines
  <1>5. VectorOf(line) = 32 + line /\ VectorOf(line) \in idt \ (0 .. 31)
    BY <1>3, <1>4 DEF VectorOf, Vectors
  <1>6. handler' = [at |-> "body", int_no |-> 32 + line, line |-> line]
    BY <1>1, <1>5
  <1>7. isr' = {line} /\ line \in irr
    BY <1>1, <1>2 DEF Service, Acknowledged, Deliverable
  <1>8. Queue' /\ Keys' /\ Read' = Read
    BY <1>2, <1>6, KeysFrame DEF conVars, Read
  <1>9. Types'
    <2>1. irr' \subseteq Lines /\ isr' \subseteq Lines
      BY <1>1, <1>7 DEF Types
    <2>2. handler' \in HandlerType
      BY <1>4, <1>6 DEF HandlerType
    <2> QED
      BY <1>2, <2>1, <2>2 DEF Types
  <1>10. SetUp'
    BY <1>2, <1>3, <1>8 DEF SetUp
  <1>11. Service'
    BY <1>2, <1>4, <1>6, <1>7 DEF Service, NoPanic, Acknowledged
  <1>12. Requests'
    <2>1. handler'.line = line /\ (line = 1 => kbc # << >>)
      BY <1>6, <1>7 DEF Requests
    <2> QED
      BY <1>1, <1>2, <2>1 DEF Requests
  <1> QED
    BY <1>8, <1>9, <1>10, <1>11, <1>12

(* The handler's end. *)
LEMMA ReturnStep == IInv /\ (pic_EOI \/ iretq) => IInv'
  <1> SUFFICES ASSUME IInv, pic_EOI \/ iretq
               PROVE  IInv'
    OBVIOUS
  <1> USE DEF IInv
  <1>1. UNCHANGED <<main, idt, irr, imr, pic_base, kbc, typed, kbd, con_input_buffer, con_output_buffer>>
    BY DEF pic_EOI, iretq, picVars, keyVars, conVars
  <1>2. Queue' /\ Keys' /\ Read' = Read
    <2>1. handler.at # "overrun" /\ handler'.at # "overrun"
      BY DEF pic_EOI, iretq, NoHandler, Types, HandlerType
    <2> QED
      BY <1>1, <2>1, KeysFrame DEF conVars, Read
  <1>3. main \notin Early
    BY DEF pic_EOI, iretq, SetUp
  <1>4. CASE pic_EOI
    <2>1. handler.at = "eoi" /\ handler' = [handler EXCEPT !.at = "iret"] /\ UNCHANGED IF_flag
      BY <1>4 DEF pic_EOI
    <2>2. isr = {handler.line} /\ handler.line \in {0, 1}
      BY <2>1 DEF Service
    <2>3. Ended(0 .. 7) = isr
      <3>1. PICK line \in {0, 1} : isr = {line}
        BY <2>2
      <3>2. Ended(0 .. 7) \subseteq isr
        BY DEF Ended
      <3>3. line \in 0 .. 7 /\ line \in isr /\ \A k \in isr : line <= k
        BY <3>1
      <3>4. line \in Ended(0 .. 7)
        BY <3>3 DEF Ended
      <3> QED
        BY <3>1, <3>2, <3>4
    <2>4. isr' = {}
      BY <1>4, <2>3 DEF pic_EOI, EndOfService
    <2>5. /\ handler' \in HandlerType /\ handler'.at = "iret"
          /\ handler'.line = handler.line /\ handler'.int_no = handler.int_no
      BY <2>1 DEF Types, HandlerType
    <2>6. Types'
      BY <1>1, <2>1, <2>4, <2>5 DEF Types
    <2>7. SetUp'
      BY <1>1, <1>2, <1>3, <2>1 DEF SetUp
    <2>8. Service' /\ Requests'
      BY <1>1, <2>1, <2>4, <2>5 DEF Service, NoPanic, Acknowledged, Requests
    <2> QED
      BY <1>2, <2>6, <2>7, <2>8
  <1>5. CASE iretq
    <2>1. handler.at = "iret" /\ handler' = NoHandler /\ IF_flag' = TRUE /\ UNCHANGED isr
      BY <1>5 DEF iretq, picVars
    <2>2. handler' \in HandlerType /\ handler'.at = "none"
      BY <2>1 DEF HandlerType, NoHandler
    <2>3. Types'
      BY <1>1, <2>1, <2>2 DEF Types
    <2>4. SetUp'
      BY <1>1, <1>2, <1>3 DEF SetUp
    <2>5. Service' /\ Requests'
      BY <1>1, <2>1, <2>2 DEF Service, NoPanic, Acknowledged, Requests
    <2> QED
      BY <1>2, <2>3, <2>4, <2>5
  <1> QED
    BY <1>4, <1>5
(* The scancode in the output buffer is the first one not read yet;        *)
(* reading it makes the next one the first.                                *)
LEMMA ReadScancode ==
  ASSUME Types, Queue, kbc # << >>, kbc' = Tail(kbc), UNCHANGED typed
  PROVE  /\ Read \in Nat /\ Read + 1 <= MaxKeys /\ Read' = Read + 1
         /\ Head(kbc) = typed[Read + 1] /\ Head(kbc) \in 0 .. 255
         /\ kbc' \in Seq(Scancodes) /\ Len(kbc') = Len(kbc) - 1
         /\ \A j \in 1 .. Len(kbc') : kbc'[j] = typed[Read' + j]
  <1>1. kbc \in Seq(Scancodes) /\ typed \in Seq(Scancodes) /\ Len(kbc) \in Nat \ {0} /\ Len(typed) \in Nat
    BY DEF Types
  <1>2. kbc' \in Seq(Scancodes) /\ Len(kbc') = Len(kbc) - 1 /\ Head(kbc) = kbc[1]
    BY <1>1
  <1>3. Read \in Nat /\ Read + 1 <= MaxKeys /\ Read' = Read + 1
    BY <1>1, <1>2, InterruptsAssumption DEF Read, Queue
  <1>4. Head(kbc) = typed[Read + 1] /\ Head(kbc) \in 0 .. 255
    <2>1. 1 \in 1 .. Len(kbc) /\ kbc[1] \in Scancodes
      BY <1>1, ElementOfSeq
    <2>2. kbc[1] = typed[Read + 1]
      BY <2>1 DEF Queue
    <2>3. Scancodes \subseteq 0 .. 255
      BY InterruptsAssumption
    <2>4. kbc[1] \in 0 .. 255
      BY <2>1, <2>3, Zenon
    <2> QED
      BY <1>2, <2>2, <2>4
  <1>5. ASSUME NEW j \in 1 .. Len(kbc')
        PROVE  kbc'[j] = typed[Read' + j]
    <2>1. kbc'[j] = kbc[j + 1] /\ j + 1 \in 1 .. Len(kbc)
      BY <1>1, <1>2
    <2>2. kbc[j + 1] = typed[Read + (j + 1)]
      BY <2>1 DEF Queue
    <2> QED
      BY <1>3, <2>1, <2>2
  <1> QED
    BY <1>2, <1>3, <1>4, <1>5

(* A shift key's state follows what has been read. *)
LEMMA ShiftNext ==
  ASSUME Types, Queue, kbc # << >>, kbc' = Tail(kbc), UNCHANGED typed,
         NEW make \in {LSHIFT, RSHIFT}, NEW before \in {0, 1}, before = 1 <=> Down(make, Read)
  PROVE  Pressed(Head(kbc), make, before) = 1 <=> Down(make, Read)'
  <1>1. Read \in Nat /\ Read' = Read + 1 /\ Head(kbc) = typed[Read + 1]
    BY ReadScancode
  <1>2. Down(make, Read)' <=> Down(make, Read + 1)
    BY <1>1 DEF Down
  <1>3. make # Break(make)
    BY DEF LSHIFT, RSHIFT, Break
  <1> QED
    <2>1. Down(make, Read + 1) <=> \/ typed[Read + 1] = make
                                   \/ Down(make, Read) /\ typed[Read + 1] # Break(make)
      BY <1>1, DownNext
    <2> QED
      BY <1>1, <1>2, <1>3, <2>1 DEF Pressed

(* A scancode that is not stored leaves the text as it is. *)
LEMMA TextSame ==
  ASSUME Types, Queue, Text, kbc # << >>, kbc' = Tail(kbc), UNCHANGED typed,
         Shifts(Head(kbc)) \/ Head(kbc) = ESCAPE, UNCHANGED conVars
  PROVE  Text' /\ Kept(Read)' = Kept(Read)
  <1>1. Read \in Nat /\ Read' = Read + 1 /\ Head(kbc) = typed[Read + 1]
    BY ReadScancode
  <1>2. Kept(Read)' = Kept(Read + 1)
    BY <1>1 DEF Kept
  <1>3. Kept(Read + 1) = Kept(Read)
    BY <1>1, KeptNext
  <1>4. \A i : Kept(i)' = Kept(i) /\ Char(i)' = Char(i)
    BY DEF Kept, Char, Down
  <1> QED
    BY <1>2, <1>3, <1>4 DEF Text, conVars

(* A scancode that is stored becomes the last character of both buffers,   *)
(* if they have room for it.                                               *)
LEMMA TextGrows ==
  ASSUME Types, Queue, Text, ~ (Cardinality(Kept(Read)) >= CmdSize), kbc # << >>, kbc' = Tail(kbc), UNCHANGED typed,
         ~ Shifts(Head(kbc)), Head(kbc) # ESCAPE,
         console_input(kbd_translate(Head(kbc), kbd.lshift = 1 \/ kbd.rshift = 1))
  PROVE  /\ Fits(con_input_buffer.index + 1, con_output_buffer.index) => Text'
         /\ con_input_buffer' \in InputType /\ con_output_buffer' \in OutputType
         /\ Fits(con_input_buffer.index + 1, con_output_buffer.index) <=> ~ (Cardinality(Kept(Read)') >= CmdSize)
  <1> DEFINE length == Cardinality(Kept(Read))
             new == Char(Read + 1)
  <1>1. /\ Read \in Nat /\ Read + 1 <= MaxKeys /\ Read' = Read + 1
        /\ Head(kbc) = typed[Read + 1] /\ Head(kbc) \in 0 .. 255
    BY ReadScancode
  <1>2. Kept(Read + 1) = Kept(Read) \cup {Read + 1} /\ Read + 1 \notin Kept(Read)
    <2>1. Read + 1 \notin Kept(Read)
      BY <1>1 DEF Kept
    <2> QED
      BY <1>1, <2>1, KeptNext
  <1>3. length \in 0 .. Read /\ Cardinality(Kept(Read + 1)) = length + 1
    BY <1>1, <1>2, KeptSize, FS_AddElement
  <1>4. kbd_translate(Head(kbc), kbd.lshift = 1 \/ kbd.rshift = 1) = new
    <2>1. Read + 1 - 1 = Read
      BY <1>1
    <2>2. (kbd.lshift = 1 \/ kbd.rshift = 1) = (Down(LSHIFT, Read + 1 - 1) \/ Down(RSHIFT, Read + 1 - 1))
      BY <2>1 DEF Queue
    <2> QED
      BY <1>1, <2>2 DEF Char
  <1>5. new \in 0 .. 255
    <2>1. kbd_translate(Head(kbc), kbd.lshift = 1 \/ kbd.rshift = 1) \in 0 .. 255
      BY <1>1, TranslateByte
    <2> QED
      BY <1>4, <2>1
  <1> HIDE DEF length, new
  <1>6. con_input_buffer.index = length /\ con_output_buffer.index = length
    BY DEF Text, length
  <1>r. Kept(Read)' = Kept(Read + 1)
    BY <1>1 DEF Kept
  <1>s. length \in Nat /\ CmdSize \in Nat /\ ConSize \in Nat /\ CmdSize <= ConSize /\ length < CmdSize
    BY <1>1, <1>3, InterruptsAssumption DEF length
  <1>f. Fits(con_input_buffer.index + 1, con_output_buffer.index) <=> ~ (Cardinality(Kept(Read)') >= CmdSize)
    BY <1>3, <1>6, <1>r, <1>s DEF Fits
  <1>n. ASSUME ~ Fits(con_input_buffer.index + 1, con_output_buffer.index)
        PROVE  con_input_buffer' \in InputType /\ con_output_buffer' \in OutputType
    <2>1. con_input_buffer' = [con_input_buffer EXCEPT !.index = length + 1] /\ con_output_buffer' = con_output_buffer
      BY <1>6, <1>n DEF console_input
    <2>2. length + 1 \in 0 .. CmdSize
      BY <1>s
    <2> QED
      BY <2>1, <2>2 DEF Types, InputType, BufferType
  <1> SUFFICES ASSUME Fits(con_input_buffer.index + 1, con_output_buffer.index)
               PROVE  Text' /\ con_input_buffer' \in InputType /\ con_output_buffer' \in OutputType
    BY <1>f, <1>n
  <1>7. length + 1 \in 1 .. (CmdSize - 1) /\ length \in 0 .. (ConSize - 1) /\ length + 1 \in 0 .. (ConSize - 1)
    BY <1>6, <1>s DEF Fits
  <1>8. /\ con_input_buffer' = [con_input_buffer EXCEPT !.index = length + 1, !.buffer[length + 1] = new]
        /\ con_output_buffer' = [con_output_buffer EXCEPT !.index = length + 1, !.buffer[length] = new,
                                                         !.buffer[length + 1] = 0]
    BY <1>4, <1>6 DEF console_input
  <1>9. /\ con_input_buffer'.index = length + 1 /\ con_output_buffer'.index = length + 1
        /\ con_input_buffer'.buffer = [con_input_buffer.buffer EXCEPT ![length + 1] = new]
        /\ con_output_buffer'.buffer = [con_output_buffer.buffer EXCEPT ![length] = new, ![length + 1] = 0]
    BY <1>8 DEF Types, InputType, OutputType, BufferType
  <1>10. /\ con_input_buffer.buffer \in [0 .. (CmdSize - 1) -> 0 .. 255]
         /\ con_output_buffer.buffer \in [0 .. (ConSize - 1) -> 0 .. 255]
         /\ length \in Int /\ CmdSize \in Int /\ ConSize \in Int
    <2>1. length \in Int /\ CmdSize \in Int /\ ConSize \in Int
      BY <1>1, <1>3, InterruptsAssumption
    <2> QED
      BY <2>1 DEF Types, InputType, OutputType, BufferType
  <1>11. con_input_buffer' \in InputType /\ con_output_buffer' \in OutputType
    <2>1. length + 1 \in 0 .. (CmdSize - 1)
      BY <1>7, <1>10
    <2>2. [con_input_buffer.buffer EXCEPT ![length + 1] = new] \in [0 .. (CmdSize - 1) -> 0 .. 255]
      BY <1>5, <1>10
    <2>3. [con_output_buffer.buffer EXCEPT ![length] = new, ![length + 1] = 0]
            \in [0 .. (ConSize - 1) -> 0 .. 255]
      <3>1. ASSUME NEW f \in [0 .. (ConSize - 1) -> 0 .. 255]
            PROVE  [f EXCEPT ![length] = new, ![length + 1] = 0] \in [0 .. (ConSize - 1) -> 0 .. 255]
        <4>1. 0 \in 0 .. 255
          OBVIOUS
        <4> QED
          BY <1>5, <4>1, Zenon
      <3> QED
        BY <1>10, <3>1
    <2>4. /\ con_input_buffer' = [buffer |-> con_input_buffer'.buffer, index |-> con_input_buffer'.index]
          /\ con_output_buffer' = [buffer |-> con_output_buffer'.buffer, index |-> con_output_buffer'.index]
      BY <1>8 DEF Types, InputType, OutputType, BufferType
    <2>5. /\ con_input_buffer'.buffer \in [0 .. (CmdSize - 1) -> 0 .. 255]
          /\ con_output_buffer'.buffer \in [0 .. (ConSize - 1) -> 0 .. 255]
      BY <1>9, <2>2, <2>3
    <2>6. con_input_buffer'.index \in 0 .. CmdSize /\ con_output_buffer'.index \in 0 .. (ConSize - 1)
      BY <1>7, <1>9, <1>s, <2>1
    <2>7. con_input_buffer' \in InputType
      BY <2>4, <2>5, <2>6 DEF InputType, BufferType
    <2> QED
      BY <2>4, <2>5, <2>6, <2>7 DEF OutputType, BufferType
  <1>12. Text'
    <2>1. Kept(Read)' = Kept(Read + 1)
      BY <1>r
    <2>2. \A i : Kept(i)' = Kept(i) /\ Char(i)' = Char(i)
      BY DEF Kept, Char, Down
    <2>3. con_output_buffer'.buffer[length + 1] = 0
      BY <1>7, <1>9, <1>10
    <2>4. ASSUME NEW i \in Kept(Read + 1)
          PROVE  /\ con_input_buffer'.buffer[Cardinality(Kept(i))] = Char(i)
                 /\ con_output_buffer'.buffer[Cardinality(Kept(i)) - 1] = Char(i)
      <3>1. CASE i = Read + 1
        <4>1. Cardinality(Kept(i)) = length + 1 /\ Char(i) = new /\ Cardinality(Kept(i)) - 1 = length
          BY <1>3, <1>10, <3>1 DEF new
        <4>2. con_input_buffer'.buffer[length + 1] = new /\ con_output_buffer'.buffer[length] = new
          <5>1. con_input_buffer'.buffer[length + 1] = new
            BY <1>7, <1>9, <1>10
          <5>2. length # length + 1
            BY <1>10
          <5> QED
            BY <1>7, <1>9, <1>10, <5>1, <5>2
        <4> QED
          BY <4>1, <4>2
      <3>2. CASE i \in Kept(Read)
        <4>1. Cardinality(Kept(i)) \in 1 .. length
          BY <1>1, <3>2, KeptSize DEF length
        <4>2. /\ con_input_buffer.buffer[Cardinality(Kept(i))] = Char(i)
              /\ con_output_buffer.buffer[Cardinality(Kept(i)) - 1] = Char(i)
          BY <3>2 DEF Text
        <4>3. /\ Cardinality(Kept(i)) \in 0 .. (CmdSize - 1) /\ Cardinality(Kept(i)) # length + 1
              /\ Cardinality(Kept(i)) - 1 \in 0 .. (ConSize - 1)
              /\ Cardinality(Kept(i)) - 1 # length /\ Cardinality(Kept(i)) - 1 # length + 1
          BY <1>7, <1>10, <4>1
        <4> QED
          BY <1>9, <1>10, <4>2, <4>3
      <3> QED
        BY <1>2, <3>1, <3>2
    <2> QED
      BY <1>3, <1>9, <2>1, <2>2, <2>3, <2>4 DEF Text
  <1> QED
    BY <1>11, <1>12

(* interrupt_handler serves the timer by doing nothing and the keyboard by *)
(* reading one scancode, once kbd_set_target has run.                      *)
LEMMA HandleStep == IInv /\ interrupt_handler => IInv'
  <1> SUFFICES ASSUME IInv, interrupt_handler
               PROVE  IInv'
    OBVIOUS
  <1> USE DEF IInv
  <1>1. /\ handler.at = "body" /\ isr = {handler.line} /\ handler.line \in {0, 1}
        /\ irq = handler.line /\ ~ IF_flag /\ main \notin Early
    BY DEF interrupt_handler, Service, SetUp, irq
  <1>2. kbd.active => kbd.handler = "console_input" /\ main = "run"
    BY DEF SetUp
  <1>3. handler' = [handler EXCEPT !.at = IF Overruns THEN "overrun" ELSE "eoi"]
    BY <1>2 DEF interrupt_handler, CallsNull, Calls
  <1>4. UNCHANGED <<main, IF_flag, idt, isr, imr, pic_base, typed>>
    BY DEF interrupt_handler
  <1>5. /\ handler' \in HandlerType
        /\ handler'.at = (IF Overruns THEN "overrun" ELSE "eoi")
        /\ handler'.line = handler.line /\ handler'.int_no = handler.int_no
    BY <1>3 DEF Types, HandlerType
  <1>t. Text /\ ~ (Cardinality(Kept(Read)) >= CmdSize)
    BY <1>1 DEF Keys, RoomForKeys
  <1>6. Service'
    BY <1>1, <1>4, <1>5 DEF Service, NoPanic, Acknowledged
  <1>7. CASE ~ Overruns /\ UNCHANGED <<irr, kbc, kbd, conVars>>
    <2>1. Queue' /\ Keys' /\ Read' = Read
      BY <1>1, <1>4, <1>5, <1>7, KeysFrame DEF Read, conVars
    <2>2. Types'
      BY <1>4, <1>5, <1>7 DEF Types, conVars
    <2>3. SetUp' /\ Requests'
      BY <1>1, <1>4, <1>5, <1>7, <2>1 DEF SetUp, Requests
    <2> QED
      BY <1>6, <2>1, <2>2, <2>3
  <1>8. CASE handler.line = 1 /\ kbd.active /\ ReadPort /\ kbd_handle
    <2>1. kbc # << >> /\ kbc' = Tail(kbc) /\ irr' = (IF Len(kbc) > 1 THEN irr \cup {1} ELSE irr) /\ 1 \notin irr
      BY <1>1, <1>8 DEF Requests, ReadPort
    <2>2. /\ kbc' \in Seq(Scancodes) /\ Len(kbc') = Len(kbc) - 1 /\ Read' = Read + 1
          /\ \A j \in 1 .. Len(kbc') : kbc'[j] = typed[Read' + j]
      BY <1>4, <2>1, ReadScancode
    <2>3. Len(kbc) \in Nat /\ Len(kbc') \in Nat /\ Len(typed) \in Nat
      BY <2>2 DEF Types
    <2>4. irr' \subseteq Lines /\ (1 \in irr' => kbc' # << >>)
      <3>1. irr' \subseteq Lines
        BY <2>1, InterruptsAssumption DEF Types
      <3>2. 1 \in irr' => Len(kbc') > 0
        BY <2>1, <2>2, <2>3
      <3> QED
        BY <2>2, <3>1, <3>2
    <2>5. main = "run" /\ main' = "run" /\ main # "descriptors"
      BY <1>2, <1>4, <1>8
    <2>6. Requests'
      BY <1>5, <2>4 DEF Requests
    <2>7. ASSUME Down(LSHIFT, Read)' <=> kbd'.lshift = 1, Down(RSHIFT, Read)' <=> kbd'.rshift = 1
          PROVE  Queue'
      <3>1. Len(kbc') <= Len(typed') /\ Len(typed') <= MaxKeys
        BY <1>4, <2>2, <2>3 DEF Queue
      <3> QED
        BY <1>4, <2>2, <2>7, <3>1 DEF Queue
    <2>8. /\ Pressed(Head(kbc), LSHIFT, kbd.lshift) = 1 <=> Down(LSHIFT, Read)'
          /\ Pressed(Head(kbc), RSHIFT, kbd.rshift) = 1 <=> Down(RSHIFT, Read)'
      <3>1. kbd.lshift \in {0, 1} /\ kbd.rshift \in {0, 1}
        BY DEF Types, KbdType
      <3>2. (kbd.lshift = 1 <=> Down(LSHIFT, Read)) /\ (kbd.rshift = 1 <=> Down(RSHIFT, Read))
        BY DEF Queue
      <3> QED
        BY <1>4, <2>1, <3>1, <3>2, ShiftNext
    <2>9. CASE Shifts(Head(kbc)) /\ UNCHANGED conVars
               /\ kbd' = [kbd EXCEPT !.lshift = Pressed(Head(kbc), LSHIFT, @),
                                     !.rshift = Pressed(Head(kbc), RSHIFT, @)]
      <3>1. /\ kbd' \in KbdType
            /\ kbd'.active = kbd.active /\ kbd'.handler = kbd.handler
            /\ kbd'.lshift = Pressed(Head(kbc), LSHIFT, kbd.lshift)
            /\ kbd'.rshift = Pressed(Head(kbc), RSHIFT, kbd.rshift)
        <4>1. /\ Pressed(Head(kbc), LSHIFT, kbd.lshift) \in {0, 1}
              /\ Pressed(Head(kbc), RSHIFT, kbd.rshift) \in {0, 1}
          BY DEF Pressed, Types, KbdType
        <4> QED
          BY <2>9, <4>1 DEF Types, KbdType
      <3>2. Queue'
        BY <2>7, <2>8, <3>1
      <3>3. Keys'
        <4>1. handler'.at # "overrun"
          BY <1>5, <2>9 DEF Overruns, Calls
        <4> QED
          BY <1>4, <1>t, <2>1, <2>9, <4>1, TextSame DEF Keys, RoomForKeys
      <3>4. Types'
        BY <1>4, <1>5, <2>2, <2>4, <2>9, <3>1 DEF Types, conVars
      <3>5. SetUp'
        BY <1>2, <1>4, <1>8, <2>5, <3>1 DEF SetUp, Early
      <3> QED
        BY <1>6, <2>6, <3>2, <3>3, <3>4, <3>5
    <2>10. ASSUME ~ Shifts(Head(kbc)) /\ UNCHANGED kbd
           PROVE  Queue' /\ SetUp'
      <3>1. /\ Pressed(Head(kbc), LSHIFT, kbd.lshift) = kbd.lshift
            /\ Pressed(Head(kbc), RSHIFT, kbd.rshift) = kbd.rshift
        BY <2>10 DEF Pressed, Shifts
      <3>2. Queue'
        BY <2>7, <2>8, <2>10, <3>1
      <3>3. SetUp'
        BY <1>2, <1>4, <1>8, <2>5, <2>10 DEF SetUp, Early
      <3> QED
        BY <3>2, <3>3
    <2>11. CASE Head(kbc) = ESCAPE /\ UNCHANGED <<kbd, conVars>>
      <3>1. ~ Shifts(Head(kbc))
        BY <2>11 DEF Shifts, ESCAPE, LSHIFT, RSHIFT, Break
      <3>2. Keys'
        <4>1. handler'.at # "overrun"
          BY <1>5, <2>11 DEF Overruns, Calls
        <4> QED
          BY <1>4, <1>t, <2>1, <2>11, <4>1, TextSame DEF Keys, RoomForKeys
      <3>3. Types'
        BY <1>4, <1>5, <2>2, <2>4, <2>11 DEF Types, conVars
      <3> QED
        BY <1>6, <2>6, <2>10, <2>11, <3>1, <3>2, <3>3
    <2>12. CASE /\ ~ Shifts(Head(kbc)) /\ Head(kbc) # ESCAPE /\ UNCHANGED kbd
                /\ console_input(kbd_translate(Head(kbc), kbd.lshift = 1 \/ kbd.rshift = 1))
      <3>0. Overruns <=> ~ Fits(con_input_buffer.index + 1, con_output_buffer.index)
        BY <1>1, <1>8, <2>12 DEF Overruns, Calls
      <3>1. Keys' /\ con_input_buffer' \in InputType /\ con_output_buffer' \in OutputType
        BY <1>4, <1>5, <1>t, <2>1, <2>12, <3>0, TextGrows DEF Keys, RoomForKeys
      <3>2. Types'
        BY <1>4, <1>5, <2>2, <2>4, <2>12, <3>1 DEF Types
      <3> QED
        BY <1>6, <2>6, <2>10, <2>12, <3>1, <3>2
    <2> QED
      BY <1>8, <2>9, <2>11, <2>12 DEF kbd_handle
  <1> QED
    BY <1>1, <1>7, <1>8 DEF interrupt_handler, kbd_handle, Overruns, Calls

-----------------------------------------------------------------------------
(***************************************************************************)
(* The theorems.                                                           *)
(***************************************************************************)
(* The invariant holds in every reachable state. *)
THEOREM Invariance == Spec => []IInv
  <1>1. IInv /\ [Next]_vars => IInv'
    <2> SUFFICES ASSUME IInv, [Next]_vars
                 PROVE  IInv'
      OBVIOUS
    <2>1. CASE UNCHANGED vars
      <3>1. /\ UNCHANGED <<main, IF_flag, idt, irr, isr, imr, pic_base, handler, kbc, typed, kbd,
                           con_input_buffer, con_output_buffer>>
        BY <2>1 DEF vars, picVars, keyVars, conVars
      <3>2. Queue' /\ Keys' /\ Read' = Read
        BY <3>1, KeysFrame DEF IInv, conVars, Read
      <3> QED
        BY <3>1, <3>2 DEF IInv, Types, SetUp, Service, NoPanic, Acknowledged, Requests
    <2> QED
      BY <2>1, MainStep, KeyStep, TickStep, DeliverStep, ReturnStep, HandleStep
      DEF Next, Loop, Handler
  <1> QED
    BY <1>1, InitIInv, PTL DEF Spec

(* Nothing the handler or kernel() does leaves the registers and records   *)
(* ill formed; con_input_buffer.index gets as far as the size of           *)
(* cmd_buffer, which is outside it, and RoomForKeys says when.             *)
THEOREM TypeCorrect == Spec => []TypeOK
  <1>1. IInv => TypeOK
    <2> SUFFICES ASSUME Types
                 PROVE  TypeOK
      BY DEF IInv
    <2>1. /\ handler.at \in {"none", "body", "eoi", "iret", "panic", "overrun"}
          /\ kbd.lshift \in {0, 1} /\ kbd.rshift \in {0, 1}
      BY DEF Types, HandlerType, KbdType
    <2>2. /\ con_input_buffer.index \in 0 .. CmdSize
          /\ con_output_buffer.index \in 0 .. (ConSize - 1)
      BY DEF Types, InputType, OutputType, BufferType
    <2> QED
      BY <2>1, <2>2 DEF Types, TypeOK, Places
  <1> QED
    BY <1>1, Invariance, PTL

(* interrupt_handler serves the line that raised the interrupt, although   *)
(* pic_remap gives both PICs the same vectors.                             *)
THEOREM LinesToldApart == Spec => []RightHandler
  <1>1. IInv => RightHandler
    BY DEF IInv, Service, RightHandler, irq
  <1> QED
    BY <1>1, Invariance, PTL

(* No interrupt meets a missing descriptor or a NULL keyboard target, at   *)
(* whatever point of kernel() it comes.                                    *)
THEOREM NeverPanics == Spec => []NoPanic
  <1>1. IInv => NoPanic
    BY DEF IInv, Service
  <1> QED
    BY <1>1, Invariance, PTL

(* Every interrupt is acknowledged before its handler returns, and         *)
(* interrupts are on again afterwards.                                     *)
THEOREM AlwaysAcknowledged == Spec => []Acknowledged
  <1>1. IInv => Acknowledged
    BY DEF IInv, Service
  <1> QED
    BY <1>1, Invariance, PTL

(* Until a buffer overruns, every key that was read is in both buffers,    *)
(* once, in the order typed and in the case the shift keys gave it.        *)
THEOREM KeysKept == Spec => []KeysInOrder
  <1>1. IInv => KeysInOrder
    BY DEF IInv, Keys, Text, KeysInOrder
  <1> QED
    BY <1>1, Invariance, PTL

(* console_input stays inside the buffers until the key that makes as many *)
(* as cmd_buffer has bytes, and then leaves it.                            *)
THEOREM RoomUntilFull == Spec => []RoomForKeys
  <1>1. IInv => RoomForKeys
    BY DEF IInv, Keys
  <1> QED
    BY <1>1, Invariance, PTL
=============================================================================
