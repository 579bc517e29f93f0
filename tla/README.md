# fzzOS5: a verification project

fzzOS5 is a small x86-64 kernel in C and assembly. This directory holds TLA+
models of the parts of it that keep state, TLC configurations that check them
on small instances, and proofs checked by TLAPS. Paths below are relative to
the repository; `PROJECT.json` maps each definition to the lines it models.

## 1. The system

| Part | State | Operations | Depends on |
|---|---|---|---|
| Physical memory manager, `kernel/src/memory/pmm.c` | `pmm_info` (totals, counter, bitmap), `pmm_vmm_info` | `pmm_init`, `pmm_allocpage`, `pmm_freepage`, `pmm_allocpages`, `pmm_freepages`, `pmm_get_free_memory` | the boot loader's memory map |
| Page tables, `memory/vmm.c` | the tables themselves, `RootPageDirectory` | `vmm_map_{4K,2M,1G}page`, `vmm_unmap_page`, `vmm_pagewalk`, `vmm_init` | pages from the physical memory manager |
| Kernel heap, `memory/liballoc.c` | `l_memRoot`, `l_bestBet`, lists of majors and minors, totals | `kmalloc`, `kfree`, `kcalloc`, `krealloc` | the hooks of `liballoc_helper.c` |
| Heap hooks, `memory/liballoc_helper.c` | `kernel_heap_top`, the interrupt flag | `liballoc_alloc`, `liballoc_free`, `liballoc_lock`, `liballoc_unlock` | page tables, physical memory |
| Interrupts, `interrupts/idt.c`, `idt.asm` | the IDT, the interrupt flag, `pit_ticks` | `idt_init`, `idt_load`, `interrupt_handler` | PIC, keyboard, console |
| PIC and PIT, `device/PIC/pic.c` | masks, vectors, lines in service (in the chips) | `pic_remap`, `pic_disable`, `pic_clear_mask`, `pic_EOI`, `pit_init` | - |
| Keyboard, `device/keyboard/keyboard.c` | shift state, target, `kbd_active` | `kbd_set_target`, `kbd_handle`, `kbd_translate` | called by `interrupt_handler`; calls the target |
| Console, `device/console/console.c` | cursor, two buffers | `putchar`, `console_next`, `console_scroll`, `console_init`, `console_input` | framebuffer; printf calls `putchar` |
| Start, `boot/`, `kernel.c`, `gdt/` | `boot_info`, GDT, CR3 | `_start`, `stivale2_get_tag`, `kernel` | the boot loader's tags and page tables; calls the initialisers in order |
| printf, `util/printf.c`, `putchar.c` | none between calls; in a call the format, the arguments, the directive | `printf`, `(v)snprintf`, `sprintf`, `fctprintf`, `serial_printf` | console or a buffer; serial port |
| Serial port, `device/serial/serial.c` | the UART's registers | `serial_write`, `serial_write_str`, `serial_init` | - |
| The rest | - | ACPI printout, stubs for scheduler, user mode, file systems | - |

What is hard here. There is one CPU and no thread, so the concurrency is
between `kernel()` and the interrupt handler (from `idt_load`'s `sti` on), and
between both and the hardware: keys and ticks come while the interrupt system
is being brought up. The memory components are sequential, and hard for another
reason: each answers for state that a long sequence of calls builds up (which
pages are out, which gaps are left, which tables exist), where one wrong bit or
length shows up much later and elsewhere. Failure means running out: a page, a
region of the heap, room in a buffer. Nothing is persistent, so there is no
crash recovery. The hazards, each at its line, are listed in `PROJECT.json`.

What makes each part correct:

- physical memory: no page has two owners; only usable memory is given out; the
  account of free memory is exact;
- page tables: the processor's translation changes exactly as a call asks; the
  tables form a tree and no page taken for one is lost;
- heap: blocks are aligned, large enough and disjoint; a block is found again
  from its pointer; a request fails or grows the heap only when nothing fits;
  every call returns;
- interrupts: each is served by the right handler, acknowledged, and never
  brings the kernel down, whenever it comes; keys reach the buffers in order;
- start: no tag is used that was not found, no address is used that the page
  tables of the moment do not map, and a good loader's machine comes up;
- printf: the text is the one C's rules give, no more is stored than fits, it
  is terminated, and the serial line carries it in order;
- screen: until it is full, nothing is drawn outside the framebuffer, what is
  printed can be read in order as long as nobody prints amid a `putchar`, and
  what it costs when somebody does is bounded; scrolling keeps the text that
  stays on the screen.

## 2. Modules

| Module | Models |
|---|---|
| `PmmOps` | `pmm.c` as functions on `pmm_info`; the bitmap is the set of its one bits |
| `Pmm` | the manager with its clients: `pmm_init` on one of several maps, one action for allocation, release and the clearing of a page by its owner |
| `Heap` | abstract: what the heap promises its clients |
| `Liballoc` | `liballoc.c`: the calls, `kmalloc`'s search stepped case by case |
| `AddressSpace` | abstract: a function from virtual pages to frames and flags |
| `VmmOps` | `vmm.c` as functions on memory seen as page tables, over `PmmOps`; the processor's walk of the tables |
| `Vmm` | an address space being mapped and unmapped, at three page sizes |
| `Interrupts` | `kernel()`'s start, IDT, PICs, keyboard, console buffers, and the hardware that drives them |
| `Console` | `putchar`, the cursor and the framebuffer, with `kernel()` and the keyboard's handler printing |
| `Boot` | from the loader's tags through `pmm_init` and `vmm_init` to the kernel's own page tables, over `VmmOps` and `PmmOps` |
| `KernelHeap` | `Boot` and then `liballoc_alloc`, the heap's page hook, in the address space that `Boot` leaves |
| `PrintfOps` | the conversions of `printf.c` as functions |
| `Printf` | a call of the printf family, step by step, and `serial_printf` with the UART |
| `PmmOpsProofs`, `VmmOpsProofs` | facts about the operators that the proofs share: addresses and frames, the least clear bit, what an allocation does; the walk of the tables, what creating and linking a table does to it |
| `PmmProofs`, `LiballocProofs`, `VmmProofs`, `BootProofs`, `InterruptsProofs`, `ConsoleProofs` | the proofs about the component of that name |
| `MC*` | instances for TLC |

### Physical memory (`PmmOps`, `Pmm`)

A memory map is a sequence of records, as the boot loader delivers it, in byte
addresses; `PAGE_SIZE` is a constant. `pmm_init` sums the lengths, places the
bitmap at the start of the largest usable segment, clears the bits of usable
frames and marks frame 0; the hang of the size check is the phase "hung".
`held` is a ghost: the pages clients own. A client may clear a page it owns
(`ClearPage`: what `vmm_create_page_table` does first). If that page holds part
of the bitmap the bits stored in it become zero and the ghost `intact` becomes
false; what the allocator promises, it promises while `intact` holds. That this
can happen at all is run `pmm_bitmap_given_out`.

### Heap (`Liballoc`, `Heap`)

Structures are named by their addresses, with the sizes the compiler gives them
(40 and 40 bytes), `ALIGNMENT` 16, pages of 4096 and regions of 16 pages. One
action per case of `kmalloc`: CASE 1 (hop, restart, grow), 2, 3, 4 (fit or look
on) and 5 (hop, restart, grow). The page hook is taken by its contract in
`liballoc.h`: it returns NULL or pages nobody has. `pc` and `call` hold where a
call is and its locals; the lock turns interrupts off, so nothing runs between
the steps of one call. A write through NULL, or of a negative number of bytes,
is a page fault in the kernel, whose handler never returns (`Panic`). 64-bit
values are integers (a negative one stands for a huge unsigned one, `ULess`);
`unsigned int` is modulo `UINT`. Clients behave: they free what they hold, with
the exception of the block freed last (`DeadBlock`, caught by its magic).

### Page tables (`VmmOps`, `Vmm`, `AddressSpace`)

A virtual page is the tuple of its four indices, an entry a frame and a set of
flags. Every operation reaches tables by physical address, as the code does, so
the model is of an address space in which physical memory is mapped to itself:
the one the boot loader provides, in which `vmm_init` works. Memory not yet
given out is full of present entries, so that a table that is not cleared
shows. When a call takes page frame 0 for a table, for want of another, or a
page that holds the bitmap, nothing is said of what follows (`Spoilt`).
`Translation` is the processor's view: it stops at PAGESIZE, and each
level restricts the flags. In the entry of a large page the address bits below
its size are no address (`FrameBits`): the lowest is PAT, and the others are
reserved, so that an access faults if one of them is set (`ReservedClear`).
`vmm_map_1Gpage` masks nothing and `vmm_map_2Mpage` only what is below 4K, so
callers are assumed to map large pages to frames aligned to their size
(`TargetsAt`). The abstract `AddressSpace` is what `MapsAsAsked` and
`ImplementsAddressSpace` compare the translation with.

### Interrupts (`Interrupts`)

`main` is the position in `kernel()`: descriptors, `pic_remap`, `pic_disable`,
`idt_load` (with its `sti`), the two unmaskings, `console_init`, the two
assignments of `kbd_set_target`, the endless loop. Between any two steps a key
may be pressed, another line may be raised, and, with the flag on, the PIC may
deliver. A handler runs body, EOI and `iretq` as steps, with interrupts off,
while the hardware goes on. The chips are external: modelled from how the code
drives them (latching at the edge, ICW1 forgetting what was latched,
non-specific EOI; the controller holds one scancode until port 0x60 is read).
`kbd_table` is read one past its end for scancode 58 (Caps Lock): the constant
`PastTable` is the byte the linker put there. `console_input` compares no index
with a size. Behind `cmd_buffer` lies `con_output_buffer`
(`kernel/assemble.txt`), whose pointer the first byte too many overwrites; the
model stops there (`handler.at` "overrun"), and nothing is said of what follows.

### Screen (`Console`)

`ctx` holds the two callers of `putchar`: `kernel()`, printing one of several
texts, and the handler, to which Escape gives the tick count and a line feed to
print; while the handler prints `kernel()` stands still. The steps are the
accesses to the cursor and the framebuffer, in the order of the kernel that the
Makefile builds: `kernel/assemble.txt` lists it, and what it says about loads
and stores decides which interleavings exist (`cursor_x += 8` is a single
`addw`, while `cursor_y += 16` is a load, the clearing of `cursor_x` and a
store). A glyph is drawn row by row, so an Escape can leave two glyphs mixed.
`console_scroll` loads and stores one pixel after the other, then blanks the
rest, and an Escape can come between any two of these accesses, print and even
scroll itself: `scroll` holds the index and the pixel each caller has in hand.
A pixel holds the number of the glyph that drew it last. The ghost `glyphs` is
where each was drawn, `atRisk` what the Escapes amid a `putchar` may have cost,
and `before` the screen from which a caller began to scroll, as long as no
Escape has come since.
Geometry (`fb_init`, the font) is constant, and such that a position on the
screen, two tabs and a glyph fit in 16 bits (`ConsoleAssumption`); `Init` is the
state behind `console_init`, which is when the keyboard becomes active.

### Start (`Boot`) and page hook (`KernelHeap`)

`pc` is the position in `_start` and `kernel()`. `stivale2_get_tag` walks the
list one tag a step; a tag that is missing halts the machine, except the
terminal's. With Limine the kernel only halts. Every later step names the pages
it works on, where the code has them: the framebuffer at the loader's pointer
(in the higher half, because the header's flags ask for it), the bitmap through
`phys_to_hh_data`, page tables at their physical addresses. A page that CR3 does
not map at that moment, or a non-canonical address, is an exception, from which
`interrupt_handler` never returns ("panic"). Addresses are counted in pages,
with the offsets of `memory.h` at their places in tables of `Fanout` entries:
half of the address space, and the last two entries of the last third-level
table. `vmm_init` is six steps: read CR3, create the root, map the first 2M of
the kernel, copy entries 256 and 511, load CR3. Serial, GDT and IDT set-up touch
ports and the kernel's own image and are one step. The loader is external: its
tables map physical memory to itself and to the higher half, and the kernel
(`LoaderAssumption`); memory and kernel lie where
those two mappings reach them (`MachineAssumption`), and three usable pages lie
in front of the bitmap, as low memory does on a PC (`MemMapAssumption`): the
tables that `vmm_init` takes would otherwise overwrite it.

`KernelHeap` calls `liballoc_alloc` once the kernel is up, a page of its loop a
step.

### printf and serial port (`PrintfOps`, `Printf`)

A call is a message: a sequence of directives, each with flags, width,
precision, length, specifier and argument. `Written` and `Arguments` make the
format and the arguments from it, `_vsnprintf` reads them, one action for each
part of a directive, and `Intended` is what C's rules say the directives print,
written independently of the code (digits by their places, the field around
them). Characters are strings of length one. The integer types have constant
widths; `long` and `long long` are equal on this machine, so `_ntoa_long` and
`_ntoa_long_long` are one operator. `text` is what was handed to the output
function, `buffer` memory from the buffer on, and `console` what `_putchar` or
`fctprintf`'s function received, which a character 0 is not. The output of one
directive is one step: nothing that interrupts it reads what it has written (the
console, which is shared, is `Console`).

This printf departs from C, and `PrintsAsIntended` leaves those directives out
(`Regular`): numerals longer than the conversion buffer lose their front; a
left-aligned number ignores its precision; a negative precision counts as 0
instead of none; `#` with a width or precision may remove digits; `%p` ignores
its width. The calls are made all the same, and the other properties hold for
them. `kprintf.h:43-45` disables floating point and `%t`: not compiled.

## 3. Runs

| Run | Shows | States |
|---|---|---|
| `pmm` | four maps: ownership (`HeldPagesMarked`), usability (`OnlyUsableHeld`), account (`FreeMemoryExact`) | 1,600 |
| `pmm_bitmap_given_out` | violation: the frames of the bitmap are given to clients | |
| `pmm_stray_bits` | violation: a hole in the addresses puts bits behind the bitmap | |
| `liballoc` | `kmalloc`, `kfree`, `krealloc`, `kcalloc`: layout (`BlocksDisjoint`), lists (`ListsSound`), totals (`UsageExact`), no growth while a gap fits (`SearchComplete`), termination (`CallsReturn`), blocks that are found again and large enough (`PointersResolve`, `RoomAsRequested`), and `HeapSpec`, the implementation of `Heap` | 415,000 |
| `vmm` | `TablesFormATree`, `NoTableLost`, `PagewalkAgrees`, `MapsAsAsked` (each call, from each state), and `ImplementsAddressSpace` | 734 |
| `vmm_null_table` | violation: page frame 0 becomes a table when memory runs out | |
| `interrupts` | `RightHandler`, `NoPanic`, `KeysInOrder`, `RoomForKeys` (which key leaves `cmd_buffer`), and `KeysRead` (liveness) | 850,000 |
| `console` | `InsideUntilFilled`, `DamageBounded`, `ReadsInOrder`, `ScrollKeepsText` (for a scroll that no Escape disturbs) | 1,200,000 |
| `console_reentrant` | violation: a `printf` from the interrupt handler costs glyphs of the one it interrupts | |
| `boot` | lists of tags complete, reversed, and with each one missing: `TagsFoundBeforeUse`, `SpaceKept` (kernel, framebuffer and bitmap stay where they are at every moment, since interrupts are on), `LiveTablesTaken` (the loader's tables stay in use and are not given out), `Starts` (liveness: up or halted, never in an exception) | 809 |
| `heap_hook` | violation: behind `vmm_init` the page hook faults on the root table's physical address | |
| `printf` | 3,000 calls: `PrintsAsIntended`, `StoresWhatFits` (truncation, termination, count 0, the count returned), `SentInOrder`, `CallReturns` (liveness: the 8-bit index of `serial_write_str`) | 30,900 |

The comments of `printf.c` and `kprintf.h` call printf reentrant. On this
console it is not: an Escape amid a `putchar` costs glyphs (`console_reentrant`),
and `DamageBounded` is what is left of the claim. `console` also has what its
properties stop short of: once the bottom is reached every further line is drawn
behind the framebuffer, since `console_scroll` leaves `cursor_y`, and an Escape
amid a scroll may tear glyphs.

`kprintf.h:121` says that `fctprintf` returns "The number of characters that are
sent to the output function, not counting the terminating null character".
`StoresWhatFits` says exactly when it does: a `%c` of 0 is counted
(`printf.c:785`, `:856`) and not sent (`printf.c:162`), so with one in the text
it returns more.

Each violation is a finding in `PROJECT.json`, with the line of the repository
it disagrees with.

Bounds, and why they suffice.

- Pages of 4 bytes and maps of about a dozen frames: two bytes of bitmap, the
  last partly padding, are enough for frames below, in and behind the bitmap,
  for a full memory and for a map with frame 0 usable or not, with a hole, or
  with a last entry too short. The theorems below hold for all maps.
- Heap: three regions and four blocks are the fewest for a best bet that is
  neither first nor last and a region with a gap between two blocks; the sizes
  are chosen so that one request exactly fills a region, one leaves a gap that
  just fits another, and one does not fit beside it. Resizing to 0 and 40,000
  bytes frees, shrinks in place and moves, and the array has 40,000 bytes, too:
  few sizes keep the instance small, and the proofs are for all of them. `UINT`
  is 2^20: only its being larger than a region and a request matters
  (`SizesAssumption`: an array of `UINT` bytes or more is not asked for, since
  `kcalloc`'s int product makes its block too small).
- Page tables of two entries give 16 virtual pages over four real levels; the
  regions share and do not share tables at each level. Of the frames mapped to,
  16 is aligned for a large page of either size and 14 for the smaller. All
  mappings are present and writable, as all calls in the kernel are: a table
  keeps the flags of the call that created it, so with read-only pages beside
  writable ones `MapsAsAsked` does not hold.
- Interrupts: three scancodes are the fewest for a key between shift and its
  release, and a `cmd_buffer` of three bytes lets four overrun it, with or
  without a shift key among them.
  Line 8 stands for the slave PIC. Two further requests suffice to be pending
  during a handler and again behind it.
- Screen: five lines of ten glyphs of one by two pixels: the fewest lines of
  which a scroll by four keeps one, rows enough for a glyph to be half drawn,
  and columns enough for a tab that fits and one that does not. Two Escapes can
  both come amid one `putchar`, or one in each of two. Tick counts have one or
  two digits. `Pitch` equals `Width`. On so low a screen no pixel is moved onto
  one that is still to be moved; that this does no harm on a higher one is left
  to the proof (§4).

- Start: tables of four entries over four levels are the fewest in which
  identity map, direct map and kernel have entries of their own and the last
  third-level table its two last entries; 32 frames; a kernel of more than one
  2M page (four pages here), which only the copied entry 511 maps as a whole. A
  map whose last entry is too short for the bitmap takes the hang of `pmm_init`.
- printf: types of 2, 3, 4 and 8 bits with every limit, and one beyond it; a
  conversion buffer of 5 characters, so that numerals fit exactly, overflow by
  one and by many; a serial buffer of 8 (`WRAP`: it and the index that goes
  round have the same size in the code, 256) with texts of 0 to 15 characters;
  all 32 sets of flags with widths and precisions below and above the lengths;
  every sequence of three out of four directives. `MEMORY`, 20,
  is longer than any text, so that a character stored behind the buffer shows.

Fairness. `Boot`: the CPU goes on. `Printf`: the CPU goes on with the call, and
the UART sends what it holds. `Liballoc`: a step of a call that has begun is
eventually taken, since nothing else runs on the CPU with interrupts off.
`Interrupts`: the CPU goes on in `kernel()` and in the handler, and takes a
deliverable interrupt; nobody is assumed to press keys. Requests of the timer
are bounded, so it cannot starve the keyboard; in the code a handler takes far
less than the tick of 0.1 ms. `KeysRead` excludes behaviours with a key pressed
before the console is ready: such a key is never read, the controller stays
full, and the keyboard is dead from then on (`kbd_handle` returns before it
reads port 0x60). It excludes those in which `cmd_buffer` overran, too.

## 4. Proofs

Each `*Proofs` module proves properties that a run checks (and `Acknowledged`
and the absence of exceptions, which none does), for every value of the
constants that the named assumptions admit; TLC evaluates those on every run of
the module. The theorems have the form `Spec => []P`, from an inductive
invariant that TLC had checked before it was proved.

| Module | Theorems | For every |
|---|---|---|
| `PmmProofs` | `TypeOK`, `HeldPagesMarked`, `OnlyUsableHeld`, `FreeMemoryExact` | page size, memory map, sequence of calls |
| `LiballocProofs` | `TypeOK`, `BlocksDisjoint`, `ListsSound`, `UsageExact`, `PointersResolve`, `RoomAsRequested`, `SearchComplete`, `HeapSpec` | size of headers, pages and regions, alignment, placement of regions, sizes asked for, sequence of calls |
| `VmmProofs` | `TypeOK`, `TablesFormATree`, `NoTableLost`, `PagewalkAgrees`, `MapsAsAsked`, `ImplementsAddressSpace` | size of tables, memory, memory map, sets of pages and regions mapped |
| `BootProofs` | `TypeOK`, no exception, `TagsFoundBeforeUse`, `SpaceKept`, `LiveTablesTaken` | size of tables, loader's tables, list of tags, memory map, kernel and framebuffer |
| `InterruptsProofs` | `TypeOK`, `RightHandler`, `NoPanic`, `Acknowledged`, `KeysInOrder`, `RoomForKeys` | set of lines, scancodes, number of keys and requests, buffers |
| `ConsoleProofs` | `TypeOK`, `InsideUntilFilled`, `DamageBounded`, `ReadsInOrder`, `ScrollKeepsText` | screen, font, texts, messages, number of Escapes |

### Physical memory

Assumptions (`PageSizeAssumption`, `MemMapAssumption`): `PAGE_SIZE` is positive;
a map is not empty, its usable entries cover finitely many frames, each counted
once (they do not overlap), and there are at least one and no more of them than
there are pages in total. Bases, alignment, holes and the order of entries are
free.

None of the four is inductive. `HeldPagesMarked` survives an allocation only if
the bit found was clear and inside the bitmap; `OnlyUsableHeld` only if every
clear bit belongs to a usable frame; and an allocation finds a clear bit only if
the counter agrees with the bitmap. The inductive invariant `IInv` adds those
links: as long as the bitmap is intact, its clear bits are exactly the usable
frames that are not held, and the counter is the total less their number. The
layers of the proof are lemmas on addresses and frames, the least clear bit
(`LeastNatural`, `FirstUnset`), what an allocation does (`AllocEffect`,
`AllocFull`), how cardinalities move (`GrantFrame`, `ReturnFrame`), and one
lemma for each action.

### Heap

Assumptions: headers, alignment and pages have positive sizes, and NULL is no
region (`LayoutAssumption`); a region and each request, with its headers,
alignment and a page to spare, fit an `unsigned int`, and an array an `int`
(`SizesAssumption`: the code adds and rounds these sizes without a test, so a
larger request gets too small a block). Where the page hook places a region, in
what order and at what distance, is free, as long as it keeps its contract.

The invariant `IInv` has to hold between any two steps of a call, and has a part
for each thing that a step takes for granted:

- `Heap` is about the structure alone, as a predicate on majors, minors and
  root: `Regions` are apart, `Chain` is one doubly linked list reached from the
  root (stated as: a set closed under `next` that has the root is all of them),
  `Placed` blocks lie in their regions without overlap, `Firsts` and `Ordered`
  are the lists of minors in address order, and `Used` the accounts. None holds
  without the others: a gap found by looking from one minor to the next is
  free only because the list is in order and complete; a region taken off the
  chain has no blocks left only because `first` says so; and the test for room
  compares `size - usage`, modulo 2^32, which is a difference only because the
  usage is the sum of disjoint blocks (`UsageBound`).
- `Totals` and `Clients`: each pointer a client holds leads back, through the
  byte in front of it, to a header of its own with room for the request.
- `InCall`, `NoneEmpty` and `Searched` follow a call: its locals name live
  structures, a region without blocks is one just taken and has room for the
  request, and the regions passed so far, from the root on, have no gap for it.

A step changes the structure in one of four ways, and each is a lemma of its
own: a block is put into a gap (`InsertKeeps`) or taken out (`DeleteKeeps`), a
region is put behind the last (`AppendKeeps`) or taken off (`DropKeeps`); the
actions are then shown to be one or two of these (`LinkInserts`,
`ReleaseDeletes`, `GrownAppends`, `ReleaseDrops`). Sums over finite sets
(`SumFunctionOnSet`) come first: that a fold over a set exists and does not
depend on the order is proved from a minimal counterexample (`MinimalSubset`)
and not by induction. `SearchComplete` follows from `Searched`, once a region
tested as too full (`InsufficientNoFit`) or walked to its end (`ExhaustedNoFit`)
is known to have no gap: free bytes that lie together are counted by
`size - usage` (`GapBound`). The refinement maps each step to the one of `Heap`
at which the client sees it: kmalloc's return, the copy at the end of krealloc,
kfree.

### Page tables

Assumptions: usable frames are memory and one of them is free (`MapAssumption`);
callers pass present flags and existing frames (`CallsAssumption`), all the same
flags (`OnePermission`), and no region inside another (`RegionsApart`), and they
map large pages to aligned frames (`TargetsAt`). The code relies on its callers
for the last three; without any of them `MapsAsAsked` fails (§2, §3).

The properties speak of the translation, a walk over four levels; a call changes
memory in up to four places. `IInv` says, as long as no page ran short: the
present entries form a tree (two paths that reach the same table are one path),
every table is marked in the bitmap, the number of pages used is that of the
tables, an entry that leads to a table carries the callers' flags, and large
pages are where regions are. The argument goes down one level at a time: an
entry that is present leads on; one that is not gets a page that was free, hence
no table, so clearing it and linking it changes no walk but those through that
entry, which led nowhere (`Descend`). Writing the last entry then changes just
the walks that end there (`PutLeaf`). `MapsAsAsked` and the refinement follow
from the same lemmas.

### Start

Assumptions: `MachineAssumption`, `LoaderAssumption`, `MemMapAssumption` (§2).
`IInv` follows `pc`: which tags have been looked up and found (`Looked`), where
the framebuffer's pointer points (`Pointed`), which tables CR3 and
`RootPageDirectory` name (`Registers`), and what the new tables map at each of
the steps of `vmm_init` (`Staged`): before the switch the loader's tables are as
they were, because the pages taken are usable and the loader's are not; behind
it the copied entries lead into them. Every page that a step works on is then
mapped at that step, so the exception is never taken: this is the safety half
of `Starts`.

### Interrupts

Assumptions: lines 0 and 1 are among the lines; scancodes are bytes;
`cmd_buffer` is no larger than `console_buffer`, so that it is the first to
overrun. Any number of keys may be sent. `IInv` ties each register to the
position of `kernel()` (`SetUp`: descriptors, masks, vectors and flag), says
what may be latched and in service (`Service`, `Requests`), and what the
controller still holds of what was typed (`Queue`). `KeysInOrder` gives each key
kept its place in the buffers, the number of keys kept up to it; `KeptNext`,
`KeptSize` and `PrefixStable` say how that number grows, and that later keys
leave it alone. `RoomForKeys` is the same count against `CmdSize`: the handler
is in "overrun" exactly when it is reached, since both indices equal it until
then.

### Screen

Assumption: `ConsoleAssumption` (§2). Four invariants, three upon the first. The
first, `Sound`, keeps the cursor and what the two callers have read of it on the
screen until one of them is about to scroll; no caller can carry the other below
the bottom unnoticed, since each tests the value it stores. The second,
`Orderly`, holds as long as no Escape has come amid a `putchar`: the glyphs are
sorted, the handler runs only while `kernel()` is between two calls, and the
caller that runs is placed, by its position in `putchar`, with respect to the
cursor; a tab needs that `cursor_x` is less than four glyphs beyond the right
edge, so that its test does not wrap at 2^16.

The third, `Damage`, holds whatever the Escapes interrupt, and gives
`DamageBounded`. Glyphs lie in the cells of a grid (`OnGrid`), so two of them
share a cell or no pixel (`CellsApart`). What the handler has read of the cursor
is current, as `kernel()` waits for it (`Current`); what `kernel()` has read may
be stale. There is a set `R` of glyphs that may get lost, and every glyph outside
it has its own cell (`Apart`), is not in the cell being drawn (`Spared`), shows
all its drawn rows (`Intact`), and stands where neither caller draws again,
whatever `kernel()` resumes with (`Safe`). `Paid` is the account: an Escape amid
a `putchar` pays for one glyph and for those of its message. It spends the first
at once when `kernel()` is drawing a glyph, which the handler may draw over;
otherwise it holds it back (`s = 1`) until `kernel()` draws at the line it read
before, over at most one glyph. Of the message's glyphs each spends its own: it
may itself be drawn over, or, when `kernel()` is about to store its line, it
covers the one that is there. Between two `putchar`s nothing is spent, and with
nothing paid for nothing gets lost (`NothingDamaged`).

The fourth, `Undisturbed`, is about a scroll that no Escape has interrupted, and
gives `ScrollKeepsText`: the screen is that from which it began with the first
`i` pixels moved and those behind `finish_index` blanked as far as it has come
(`Moved`), and a pixel in hand is one of that first screen, since a pixel is
loaded before any store reaches it. `ScrollKeepsText` is proved for
`Pitch = Width`, and fails otherwise: `console_scroll` counts in rows of `Width`.

### Only model-checked

- Liveness (`CallsReturn`, `KeysRead`, `Starts`, `CallReturns`): fairness is out
  of the prover's reach.
- `Printf`: `PrintsAsIntended` is about recursive conversions of every number,
  an induction over data that the provers cannot do, and the other properties
  speak of the text that those conversions make.

## 5. Not modelled

- GDT and TSS: descriptors encoded and loaded once, no behaviour afterwards;
  `serial_init` and `pit_init` likewise program a chip once.
- `pmm_allocpages` and `pmm_freepages`: no callers. (The first marks none of the
  pages it returns, so they are returned again; it must not be used as it is.)
- `vmm_PMLwalk`, `putstring`, `console_exec`, `fb_clearscreen`, `serial_read`,
  stty, `bootloader_printf`: no callers or no effect.
- The TLB: no caller unmaps a page, and the one change of the tables in use is a
  load of CR3, which flushes it. A page unmapped by `vmm_unmap_page` would stay
  reachable until the next such load.
- The interrupt flag across `liballoc_lock` and `liballoc_unlock`: nothing
  allocates with interrupts off, or at all, in this version.
- ACPI and CPUID printouts; scheduler, user mode, file systems and ELF, which
  are stubs nothing calls; `archive/`.

## 6. What could follow

The interrupt flag across `liballoc_lock` and `liballoc_unlock`, once the kernel
allocates; and the TLB, once it unmaps.
