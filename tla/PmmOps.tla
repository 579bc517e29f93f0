------------------------------- MODULE PmmOps -------------------------------
(***************************************************************************)
(* The physical memory manager of memory/pmm.c as state transformers: each *)
(* operation takes the record pmm_info and gives back the new record, so   *)
(* that a caller (Pmm, Vmm, Boot) can make several calls in one step.      *)
(*                                                                         *)
(* The bitmap is the set of its one bits; bit f stands for the page frame  *)
(* f.  A page is named by its address, so NULL and page frame 0 coincide,  *)
(* as they do in the code.                                                 *)
(***************************************************************************)
EXTENDS Integers, FiniteSets, SequencesExt

CONSTANT PAGE_SIZE      \* bytes in a page (4096 in the code, small for TLC)

ASSUME PageSizeAssumption == PAGE_SIZE \in Nat \ {0}

NULL == 0

(* The memory map types the code tells apart (stivale2.h). *)
USABLE      == 1
FRAMEBUFFER == 4098     \* 0x1002

(* Bitmap helpers. *)
Bits(size) == 0 .. (8 * size - 1)

bitmap_set(bitmap, bit)   == bitmap \cup {bit}

bitmap_unset(bitmap, bit) == bitmap \ {bit}

(* The lowest zero bit, byte by byte and bit by bit; 0 when there is none. *)
get_first_unset(bitmap, size) ==
  LET unset == Bits(size) \ bitmap
  IN  IF unset = {} THEN 0
      ELSE CHOOSE i \in unset : \A j \in unset : i <= j

(***************************************************************************)
(* pmm_init over a memory map: a sequence of [base, length, type] entries. *)
(***************************************************************************)
(* First loop: total memory, the framebuffer entry (the last one wins) and *)
(* the largest usable segment (the first of that size wins).               *)
TotalMem(map) == FoldLeft(LAMBDA sum, e : sum + e.length, 0, map)

FramebufferInfo(map) ==
  FoldLeft(LAMBDA fb, e : IF e.type = FRAMEBUFFER
                          THEN [fb_base |-> e.base, fb_size |-> e.length]
                          ELSE fb,
           [fb_base |-> 0, fb_size |-> 0], map)

LargestSegment(map) ==
  FoldLeft(LAMBDA big, e : IF e.type = USABLE /\ e.length > big.length
                           THEN e ELSE big,
           [base |-> 0, length |-> 0, type |-> USABLE], map)

(* Second loop: the frames whose bit is cleared, and how many times the    *)
(* used page counter goes down.                                            *)
EntryFrames(e) == LET first == e.base \div PAGE_SIZE
                  IN  first .. (first + e.length \div PAGE_SIZE - 1)

UsableFrames(map) ==
  UNION {EntryFrames(map[i]) : i \in {k \in DOMAIN map : map[k].type = USABLE}}

UsablePages(map) ==
  FoldLeft(LAMBDA n, e : IF e.type = USABLE THEN n + e.length \div PAGE_SIZE ELSE n,
           0, map)

TotalPages(map) == TotalMem(map) \div PAGE_SIZE

BitmapSize(map) == TotalPages(map) \div 8 + 1

(* "Bitmap too large": the length compared is that of the entry the first  *)
(* loop ended on, the last of the map.                                     *)
BitmapTooLarge(map) == BitmapSize(map) > map[Len(map)].length

(* pmm_info before pmm_init: zeroed static storage. *)
PmmZero == [totalmem |-> 0, usedpages |-> 0, totalpages |-> 0,
            bitmap |-> {}, bitmap_base |-> 0, bitmap_size |-> 0]

(* pmm_info when pmm_init hangs: the bitmap has not been placed. *)
PmmSized(map) ==
  [totalmem |-> TotalMem(map), usedpages |-> TotalPages(map),
   totalpages |-> TotalPages(map), bitmap |-> {}, bitmap_base |-> 0,
   bitmap_size |-> BitmapSize(map)]

InitialBitmap_anytype(map) ==
  bitmap_set(Bits(BitmapSize(map)) \ UNION {EntryFrames(map[i]) : i \in DOMAIN map}, 0)

(* The bits pmm_init leaves set: all of them, less those of the usable     *)
(* frames, plus that of the NULL page.                                     *)
InitialBitmap(map) ==
  bitmap_set(Bits(BitmapSize(map)) \ UsableFrames(map), 0)

(* pmm_info when pmm_init returns; the NULL page counts as used once more. *)
PmmReady(map) ==
  [totalmem |-> TotalMem(map),
   usedpages |-> TotalPages(map) - UsablePages(map) + 1,
   totalpages |-> TotalPages(map), bitmap |-> InitialBitmap(map),
   bitmap_base |-> LargestSegment(map).base, bitmap_size |-> BitmapSize(map)]

(* Bits that the second loop clears beyond the end of the bitmap. *)
StrayBits(map) == UsableFrames(map) \ Bits(BitmapSize(map))

(***************************************************************************)
(* Single pages.                                                           *)
(***************************************************************************)
(* The first unset bit is set and counted; when no bit is unset that is    *)
(* bit 0, and the address returned is NULL.                                *)
pmm_allocpage_unmarked(info) ==
  IF info.usedpages >= info.totalpages
  THEN [info |-> info, page |-> NULL]
  ELSE LET index == get_first_unset(info.bitmap, info.bitmap_size)
       IN  [info |-> [info EXCEPT !.usedpages = @ + 1],
            page |-> index * PAGE_SIZE]

pmm_allocpage_late(info) ==
  IF info.usedpages > info.totalpages
  THEN [info |-> info, page |-> NULL]
  ELSE LET index == get_first_unset(info.bitmap, info.bitmap_size)
       IN  [info |-> [info EXCEPT !.bitmap    = bitmap_set(@, index),
                                  !.usedpages = @ + 1],
            page |-> index * PAGE_SIZE]

pmm_allocpage(info) ==
  IF info.usedpages >= info.totalpages
  THEN [info |-> info, page |-> NULL]
  ELSE LET index == get_first_unset(info.bitmap, info.bitmap_size)
       IN  [info |-> [info EXCEPT !.bitmap    = bitmap_set(@, index),
                                  !.usedpages = @ + 1],
            page |-> index * PAGE_SIZE]

pmm_freepage(info, page) ==
  [info EXCEPT !.bitmap    = bitmap_unset(@, page \div PAGE_SIZE),
               !.usedpages = @ - 1]

pmm_get_free_memory(info) == (info.totalpages - info.usedpages) * PAGE_SIZE
=============================================================================
