-------------------------------- MODULE Boot --------------------------------
(***************************************************************************)
(* From the boot loader to the kernel's own page tables: _start's search   *)
(* for the tags of the stivale2 structure, then kernel() with fb_init,     *)
(* console_init, pmm_init and vmm_init, which builds a new top table and   *)
(* loads it into CR3.  Every step is executed at, and works on, virtual    *)
(* addresses, which CR3 must translate; one that it does not raises an     *)
(* exception, and interrupt_handler never returns from those ("panic").    *)
(*                                                                         *)
(* Virtual addresses are counted in pages, modulo VPAGES, which is four    *)
(* times what four levels of tables translate: bit 47 and the bits above   *)
(* it must agree in a canonical address.                                   *)
(***************************************************************************)
EXTENDS VmmOps

CONSTANTS
  TagLists,             \* what the loader's list of tags may be
  MemMaps,              \* the memory maps it may deliver
  BootMem, BootCR3,     \* its page tables: memory, and the frame of the top one
  KernelPages,          \* pages of the kernel's image, from its virtual base
  KernelFrame,          \* physical_base_address
  FbFrame, FbPages      \* the framebuffer

(* The pages below one entry of a table of each level, and below the top.  *)
Pages2M   == Fanout
Pages1G   == Fanout * Pages2M
Pages512G == Fanout * Pages1G
Pages256T == Fanout * Pages512G

VPAGES == 4 * Pages256T

(* 0xFFFF800000000000 (entry 256 of 512), 0xFFFFFFFF80000000 and           *)
(* 0xFFFFFFFFC0000000 (the last two entries of the last third-level table).*)
HH_DATA == VPAGES - Pages256T \div 2
HH_CODE == VPAGES - 2 * Pages1G
HH_HEAP == VPAGES - Pages1G

phys_to_hh_data(page) == (HH_DATA + page) % VPAGES

Path(page) == << (page \div Pages512G) % Fanout, (page \div Pages1G) % Fanout,
                 (page \div Pages2M) % Fanout, page % Fanout >>

Canonical(page) == page < Pages256T \div 2 \/ page >= HH_DATA

Reachable(t, root, page) == Canonical(page) /\ IsMapped(t, root, Path(page))

(* The tags _start looks for, in order.  It goes on without the first one. *)
Terminal == "terminal"
Lookups == << Terminal, "framebuffer", "memmap", "kernel_base_address", "rsdp",
              "hhdm", "pmrs", "modules" >>

Required_some(id) == id \notin {Terminal, "memmap"}

Required(id) == id # Terminal

(* What the header asks of the loader. *)
stivale_hdr_flags == {"higherhalf", "PMR", "virtual_kernel_mapping", "alwaysset"}

(* Where the loader's pointers point. *)
LoaderPointer(frame) == IF "higherhalf" \in stivale_hdr_flags THEN phys_to_hh_data(frame) ELSE frame

(* The machine: tables with the two entries that vmm_init copies, memory   *)
(* below one of them, the framebuffer and the kernel within it.            *)
ASSUME MachineAssumption ==
  /\ Fanout >= 4 /\ Fanout % 2 = 0
  /\ Frames \subseteq 0 .. (Pages512G - 1)
  /\ FbFrame \in Nat /\ FbPages \in Nat \ {0}
  /\ FbFrame .. (FbFrame + FbPages - 1) \subseteq Frames
  /\ KernelPages \in 0 .. (2 * Pages1G) /\ KernelFrame \in Frames
  /\ TagLists \subseteq Seq(STRING)

(* The loader's tables map physical memory to itself and from HH_DATA on,  *)
(* and the kernel's image from HH_CODE on (stivale2).                      *)
ASSUME LoaderAssumption ==
  LET boot == [mem |-> BootMem]
  IN  /\ BootCR3 \in Frames
      /\ BootMem \in [Frames -> [Indices ->
                        [frame : Frames, flags : SUBSET {PRESENT, READWRITE, PAGESIZE}]]]
      /\ \A i \in Indices : PAGESIZE \notin BootMem[BootCR3][i].flags
      /\ \A f \in Frames : \A page \in {f, phys_to_hh_data(f)} :
           Reachable(boot, BootCR3, page) /\ Translate(boot, BootCR3, Path(page)).frame = f
      /\ \A k \in 0 .. (KernelPages - 1) :
           /\ Reachable(boot, BootCR3, HH_CODE + k)
           /\ Translate(boot, BootCR3, Path(HH_CODE + k)).frame = KernelFrame + k

(* The memory maps: the bitmap, its bits for the loader's tables, which    *)
(* are not usable memory, and three usable pages in front of it, for the   *)
(* tables of vmm_init (the first free ones).                               *)
ASSUME MemMapAssumption ==
  \A map \in MemMaps :
    /\ TotalMem(map) \in Nat
    /\ BitmapTooLarge(map) \/
         LET base == LargestSegment(map).base
         IN  /\ UsableFrames(map) \subseteq Frames
             /\ base \in Nat
             /\ \A b \in 0 .. (BitmapSize(map) - 1) : (base + b) \div PAGE_SIZE \in Frames
             /\ UsablePages(map) \in 4 .. TotalPages(map)
             /\ Tables([mem |-> BootMem], BootCR3) \subseteq Bits(BitmapSize(map)) \ UsableFrames(map)
             /\ \E a, b, c \in (UsableFrames(map) \cap Bits(BitmapSize(map))) \ {0} :
                  a < b /\ b < c /\ c < base \div PAGE_SIZE

VARIABLES
  pc,
  type,                 \* boot_info.type
  tags, memmap,         \* what the loader delivers
  wanted, current_tag,  \* the lookup, and how far stivale2_get_tag has come
  found,                \* the tags that boot_info has
  fb_base,              \* fb_info.base, 0 until fb_init
  s,                    \* [info, mem, exhausted]: see VmmOps
  cr3, kernel_cr3, RootPageDirectory

loader   == <<type, tags, memmap>>
lookup   == <<wanted, current_tag, found>>
paging   == <<cr3, kernel_cr3, RootPageDirectory>>
bootVars == <<pc, loader, lookup, fb_base, s, paging>>

Init ==
  /\ pc = "entry" /\ type = "none"
  /\ tags \in TagLists /\ memmap \in MemMaps
  /\ wanted = 1 /\ current_tag = 1 /\ found = {}
  /\ fb_base = 0
  /\ s = [info |-> PmmZero, mem |-> BootMem, exhausted |-> FALSE]
  /\ cr3 = BootCR3 /\ kernel_cr3 = 0 /\ RootPageDirectory = 0

(* A step that works on some pages, and goes on if all can be reached. *)
Goto(next, pages) ==
  pc' = IF \A p \in pages : Reachable(s, cr3, p) THEN next ELSE "panic"

-----------------------------------------------------------------------------
start ==
  /\ pc = "entry" /\ pc' = "lookup" /\ type' = "STIVALE2"
  /\ UNCHANGED <<tags, memmap, lookup, fb_base, s, paging>>

(* With the Limine protocol the kernel only halts. *)
limine_start ==
  /\ pc = "entry" /\ pc' = "hung" /\ type' = "LIMINE"
  /\ UNCHANGED <<tags, memmap, lookup, fb_base, s, paging>>

Want == Lookups[wanted]

(* stivale2_get_tag: one pass of its loop at a time. *)
Advance_stuck == current_tag

Advance == current_tag + 1

get_tag_next ==
  /\ pc = "lookup" /\ wanted <= Len(Lookups)
  /\ current_tag <= Len(tags) /\ tags[current_tag] # Want
  /\ current_tag' = Advance
  /\ UNCHANGED <<pc, loader, wanted, found, fb_base, s, paging>>

get_tag_found ==
  /\ pc = "lookup" /\ wanted <= Len(Lookups)
  /\ current_tag <= Len(tags) /\ tags[current_tag] = Want
  /\ found' = found \cup {Want}
  /\ wanted' = wanted + 1 /\ current_tag' = 1
  /\ UNCHANGED <<pc, loader, fb_base, s, paging>>

get_tag_null ==
  /\ pc = "lookup" /\ wanted <= Len(Lookups)
  /\ current_tag > Len(tags)
  /\ pc' = IF Required(Want) THEN "hung" ELSE pc
  /\ wanted' = wanted + 1 /\ current_tag' = 1
  /\ UNCHANGED <<loader, found, fb_base, s, paging>>

(* serial_init, gdt_init and idt_init: ports and the kernel's own image. *)
kernel ==
  /\ pc = "lookup" /\ wanted > Len(Lookups)
  /\ pc' = "fb_init"
  /\ UNCHANGED <<loader, lookup, fb_base, s, paging>>

fb_init ==
  /\ pc = "fb_init" /\ pc' = "console_init"
  /\ fb_base' = LoaderPointer(FbFrame)
  /\ UNCHANGED <<loader, lookup, s, paging>>

Framebuffer == fb_base .. (fb_base + FbPages - 1)

(* console_init draws; so does every printf from here on. *)
console_init ==
  /\ pc = "console_init" /\ Goto("pmm_init", Framebuffer)
  /\ UNCHANGED <<loader, lookup, fb_base, s, paging>>

(* The pages that the bitmap lies in, where pmm.c reaches it. *)
BitmapPages(info) ==
  {phys_to_hh_data((info.bitmap_base + b) \div PAGE_SIZE) : b \in 0 .. (info.bitmap_size - 1)}

pmm_init ==
  /\ pc = "pmm_init"
  /\ IF BitmapTooLarge(memmap)
     THEN pc' = "hung" /\ s' = [s EXCEPT !.info = PmmSized(memmap)]
     ELSE /\ Goto("read_cr3", Framebuffer \cup BitmapPages(PmmReady(memmap)))
          /\ s' = [s EXCEPT !.info = PmmReady(memmap)]
  /\ UNCHANGED <<loader, lookup, fb_base, paging>>

-----------------------------------------------------------------------------
(* vmm_init. *)
vmm_read_cr3 ==
  /\ pc = "read_cr3" /\ Goto("create_root", Framebuffer)
  /\ kernel_cr3' = cr3
  /\ UNCHANGED <<loader, lookup, fb_base, s, cr3, RootPageDirectory>>

(* A new table is cleared at its physical address. *)
create_root ==
  /\ pc = "create_root"
  /\ LET c == vmm_create_page_table(s)
     IN  /\ s' = c.s /\ RootPageDirectory' = c.table
         /\ Goto("map_kernel", BitmapPages(s.info) \cup {c.table})
  /\ UNCHANGED <<loader, lookup, fb_base, cr3, kernel_cr3>>

(* The tables that a mapping works on, at their physical addresses too. *)
map_kernel ==
  /\ pc = "map_kernel"
  /\ s' = vmm_map_2Mpage(s, RootPageDirectory, Path(HH_CODE), KernelFrame, {PRESENT, READWRITE})
  /\ Goto("copy_data", BitmapPages(s.info) \cup
            {RootPageDirectory} \cup {EntryAt(s', RootPageDirectory, Path(HH_CODE), d).frame : d \in 1 .. 2})
  /\ UNCHANGED <<loader, lookup, fb_base, paging>>

Copied(index) == SetEntry(s, RootPageDirectory, index, s.mem[kernel_cr3][index])

(* entry[256] and entry[511] *)
copy_data ==
  /\ pc = "copy_data" /\ s' = Copied(Fanout \div 2)
  /\ Goto("copy_code", {RootPageDirectory, kernel_cr3})
  /\ UNCHANGED <<loader, lookup, fb_base, paging>>

copy_code_not ==
  /\ pc = "copy_code" /\ s' = s
  /\ Goto("write_cr3", {RootPageDirectory, kernel_cr3} \cup Framebuffer)
  /\ UNCHANGED <<loader, lookup, fb_base, paging>>

copy_code ==
  /\ pc = "copy_code" /\ s' = Copied(Fanout - 1)
  /\ Goto("write_cr3", {RootPageDirectory, kernel_cr3} \cup Framebuffer)
  /\ UNCHANGED <<loader, lookup, fb_base, paging>>

vmm_write_cr3_virtual ==
  /\ pc = "write_cr3" /\ pc' = "report"
  /\ cr3' = phys_to_hh_data(RootPageDirectory)
  /\ UNCHANGED <<loader, lookup, fb_base, s, kernel_cr3, RootPageDirectory>>

vmm_write_cr3 ==
  /\ pc = "write_cr3" /\ pc' = "report"
  /\ cr3' = RootPageDirectory
  /\ UNCHANGED <<loader, lookup, fb_base, s, kernel_cr3, RootPageDirectory>>

(* What kernel() prints behind vmm_init, up to "Kernel Done!". *)
report ==
  /\ pc = "report" /\ Goto("idle", Framebuffer)
  /\ UNCHANGED <<loader, lookup, fb_base, s, paging>>

vmm_init == vmm_read_cr3 \/ create_root \/ map_kernel \/ copy_data \/ copy_code \/ vmm_write_cr3

Step == start \/ limine_start \/ get_tag_next \/ get_tag_found \/ get_tag_null
          \/ kernel \/ fb_init \/ console_init \/ pmm_init \/ vmm_init \/ report

Spec == Init /\ [][Step]_bootVars /\ WF_bootVars(Step)

-----------------------------------------------------------------------------
(* Types and ranges; CR3 holds a table's physical address, and a pointer   *)
(* from the loader is canonical.                                           *)
TypeOK ==
  /\ wanted \in 1 .. (Len(Lookups) + 1) /\ current_tag \in 1 .. (Len(tags) + 1)
  /\ found \subseteq {Lookups[k] : k \in DOMAIN Lookups}
  /\ Canonical(fb_base)
  /\ s.info.usedpages \in 0 .. s.info.totalpages
  /\ cr3 \in {BootCR3, RootPageDirectory}
  /\ \A f \in Frames, k \in Indices : s.mem[f][k].frame \in Frames

(* The tags whose contents the step at each place reads. *)
Dereferenced == CASE pc = "fb_init"    -> {"framebuffer"}
                  [] pc = "pmm_init"   -> {"memmap"}
                  [] pc = "map_kernel" -> {"kernel_base_address"}
                  [] pc = "copy_code"  -> {"hhdm"}
                  [] OTHER -> {}

(* No tag is used that the loader did not deliver, whichever it leaves out *)
(* and in whatever order they come: _start halts first.                    *)
TagsFoundBeforeUse ==
  /\ Dereferenced \subseteq found
  /\ found \subseteq {tags[k] : k \in DOMAIN tags}

(* The pages that interrupt_handler and printf need at any moment.         *)
InUse == HH_CODE .. (HH_CODE + KernelPages - 1)
           \cup (IF fb_base = 0 THEN {} ELSE Framebuffer)
           \cup (IF s.info.bitmap_size = 0 \/ pc = "hung" THEN {} ELSE BitmapPages(s.info))

(* Interrupts are on from idt_init on: at every moment, before, during and *)
(* after the switch of CR3 in vmm_init, the kernel, the framebuffer and    *)
(* the bitmap are mapped to the frames the loader put them in.             *)
SpaceKept ==
  \A p \in InUse : /\ Reachable(s, cr3, p)
                   /\ Translate(s, cr3, Path(p)).frame
                        = Translate([mem |-> BootMem], BootCR3, Path(p)).frame

(* The tables in use (the loader's among them, which vmm_init keeps below  *)
(* its copied entries) are not for pmm_allocpage to give out.              *)
LiveTablesTaken ==
  pc \in {"create_root", "map_kernel", "copy_data", "copy_code", "write_cr3", "report", "idle"}
    => Tables(s, cr3) \subseteq s.info.bitmap

(* The start raises no exception: each address it works on is mapped at    *)
(* that moment, the physical ones before CR3 is loaded included.  A        *)
(* complete list of tags and a last memory map entry that the bitmap fits  *)
(* into bring the kernel up; anything else halts it.                       *)
Starts ==
  /\ <>(pc \in {"idle", "hung"})
  /\ (/\ type = "STIVALE2" /\ ~ BitmapTooLarge(memmap)
      /\ \A k \in DOMAIN Lookups : Required(Lookups[k]) => \E n \in DOMAIN tags : tags[n] = Lookups[k])
       ~> pc = "idle"
=============================================================================
