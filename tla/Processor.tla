------------------------------ MODULE Processor ------------------------------
(***************************************************************************)
(* The tables that gdt.c and idt.c fill for the processor, and the pair of *)
(* interrupt controllers that pic.c programs.  How processor and           *)
(* controllers read them is hardware: a selector names a table entry, an   *)
(* entry is judged by its access byte, a controller takes the bytes after  *)
(* its first initialisation word as the next ones and later bytes as mask. *)
(***************************************************************************)
EXTENDS Integers, Sequences

Bit(n, i) == (n \div 2^i) % 2 = 1

-----------------------------------------------------------------------------
\* Segments.  The access bytes that init_gdt stores, entry by entry; those
\* behind the last stay 0.
Selectable == 0..6
NoSegments == [i \in Selectable |-> 0]
init_gdt == [i \in Selectable |->
  CASE i = 1 -> 154   \* 0x9A: code, ring 0
    [] i = 2 -> 146   \* 0x92: data, ring 0
    [] i = 4 -> 250   \* 0xFA: code, ring 3
    [] i = 5 -> 242   \* 0xF2: data, ring 3
    [] i = 6 -> 137   \* 0x89: set_tss_gate
    [] OTHER -> 0]

Present(access) == Bit(access, 7)
Dpl(access) == (access \div 32) % 4
IsSegment(access) == Bit(access, 4)
IsCode(access) == IsSegment(access) /\ Bit(access, 3)
IsData(access) == IsSegment(access) /\ ~Bit(access, 3)

Entry(gdt, selector) == gdt[selector \div 8]
Rpl(selector) == selector % 4

\* mov to ds or es from ring 0, retfq to a code segment, ltr.
LoadsData(gdt, selector) ==
  LET a == Entry(gdt, selector)
  IN Present(a) /\ IsData(a) /\ Dpl(a) >= Rpl(selector)

LoadsCode(gdt, selector) ==
  LET a == Entry(gdt, selector)
  IN Present(a) /\ IsCode(a) /\ Dpl(a) = Rpl(selector)

LoadsTask(gdt, selector) ==
  LET a == Entry(gdt, selector)
  IN Present(a) /\ ~IsSegment(a) /\ a % 16 = 9

\* load_gdt loads the data segments with 0x10 and cs with 0x08, load_tss 0x30.
KernelSegmentsLoad(gdt) ==
  LoadsData(gdt, 16) /\ LoadsCode(gdt, 8) /\ LoadsTask(gdt, 48)

\* JumpToUserMode loads ds and es with 0x1b and returns to 0x23 : 0x1b.
UserSegmentsLoad(gdt) == LoadsData(gdt, 27) /\ LoadsCode(gdt, 35)

-----------------------------------------------------------------------------
\* Gates.  The vectors init_idt installs a handler for: those of the handlers
\* in interrupts.c, each of which panics, and the keyboard's.
PanicVectors == (0..8) \cup (10..14) \cup (16..20)
KeyboardVector == 33
GeneralProtection == 13

Gates == PanicVectors \cup {KeyboardVector}

\* What the processor pushes for a handler, from the top of the stack on, and
\* struct interrupt_frame, through which _panic reads it.
PushesErrorCode == {8} \cup (10..14) \cup {17}
Pushed(vector) ==
  (IF vector \in PushesErrorCode THEN <<"error code">> ELSE << >>)
  \o <<"rip", "cs", "rflags", "rsp", "ss">>

interrupt_frame ==
  <<"r15", "r14", "r13", "r12", "r11", "r10", "r9", "r8", "rdi", "rsi", "rbp",
    "rbx", "rdx", "rcx", "rax", "int_num", "error_code",
    "rip", "cs", "rflags", "rsp", "ss">>

\* What _panic shows behind "Fault Address: 0x": frame->rip.
FaultAddress(vector) ==
  LET at == CHOOSE i \in DOMAIN interrupt_frame : interrupt_frame[i] = "rip"
  IN IF at <= Len(Pushed(vector)) THEN Pushed(vector)[at] ELSE "interrupted stack"

-----------------------------------------------------------------------------
\* The controllers: 1 is the master, 2 the slave on its line 2.
Controllers == {1, 2}

\* Before the kernel: vectors 8 and 112 up, as the BIOS leaves them, every
\* line masked by the boot loader.
BootController == [k \in Controllers |->
  [expects |-> "mask", offset |-> IF k = 1 THEN 8 ELSE 112, mask |-> 255]]

ICW1 == 17   \* ICW1_INIT | ICW1_ICW4

\* A controller that gets a byte on its command port, or on its data port.
Commanded(c, byte) == IF byte = ICW1 THEN [c EXCEPT !.expects = "offset", !.mask = 0] ELSE c

Written(c, byte) ==
  CASE c.expects = "offset"  -> [c EXCEPT !.offset = byte, !.expects = "cascade"]
    [] c.expects = "cascade" -> [c EXCEPT !.expects = "mode"]
    [] c.expects = "mode"    -> [c EXCEPT !.expects = "mask"]
    [] c.expects = "mask"    -> [c EXCEPT !.mask = byte]

Command(pic, k, byte) == [pic EXCEPT ![k] = Commanded(@, byte)]
Data(pic, k, byte) == [pic EXCEPT ![k] = Written(@, byte)]

\* remap_pic: begin initialisation, then offsets, cascade, mode, old masks, the
\* master's byte before the slave's each time.
BothData(pic, byte1, byte2) == Data(Data(pic, 1, byte1), 2, byte2)

remap_pic(pic) ==
  LET begun == Command(Command(pic, 1, ICW1), 2, ICW1)
      offsets == BothData(begun, 32, 40)
      cascade == BothData(offsets, 4, 2)
      mode == BothData(cascade, 1, 1)
  IN BothData(mode, pic[1].mask, pic[2].mask)

\* The masks init_idt sets afterwards, and those that let the timer through.
program_pic_timer(pic) == BothData(remap_pic(pic), 252, 255)
program_pic(pic) == BothData(remap_pic(pic), 253, 255)

\* Whether line n (8 to 15 are the slave's) gets through, and as what vector.
GetsThrough(pic, n) ==
  IF n < 8 THEN ~Bit(pic[1].mask, n)
  ELSE ~Bit(pic[1].mask, 2) /\ ~Bit(pic[2].mask, n - 8)

Vector(pic, n) == IF n < 8 THEN pic[1].offset + n ELSE pic[2].offset + n - 8

=============================================================================
