------------------------------- MODULE VmmOps -------------------------------
(***************************************************************************)
(* The page table code of memory/vmm.c as state transformers over s, the   *)
(* record of the physical memory manager's pmm_info (info), of memory seen *)
(* as page tables (mem: page frame -> index -> entry) and of a ghost: that *)
(* a page for a table was asked for when there was none left (exhausted).  *)
(*                                                                         *)
(* A virtual page is the tuple <<index4, index3, index2, index1>> that the *)
(* shifts and masks of every operation compute.  An entry is a frame and   *)
(* the set of flags or-ed to it; the flags are the ones whose bits lie     *)
(* below bit 9, which the masks ~0x1ff and >> 12 both remove.  The tables  *)
(* are reached through their physical addresses, as in the code: this is   *)
(* an address space that maps physical memory to itself.                   *)
(***************************************************************************)
EXTENDS PmmOps

CONSTANTS Fanout,       \* entries in a table (512 in the code)
          Frames        \* the page frames memory has

ASSUME VmmOpsAssumption == Fanout \in Nat \ {0} /\ Frames \subseteq Nat /\ 0 \in Frames

Indices == 0 .. (Fanout - 1)

PRESENT   == "PTE_PRESENT"
READWRITE == "PTE_READWRITE"
PAGESIZE  == "PTE_PAGESIZE"

Zero  == [frame |-> 0, flags |-> {}]
Clear == [i \in Indices |-> Zero]

(* A page for a table, cleared; NULL when there is none. *)
vmm_create_page_table_dirty(s) ==
  LET r == pmm_allocpage(s.info)
  IN  [s |-> [s EXCEPT !.info = r.info, !.exhausted = @ \/ r.page = NULL],
       table |-> r.page \div PAGE_SIZE]

vmm_create_page_table(s) ==
  LET r == pmm_allocpage(s.info)
      f == r.page \div PAGE_SIZE
  IN  [s |-> [s EXCEPT !.info = r.info, !.exhausted = @ \/ r.page = NULL,
                       !.mem = IF r.page = NULL THEN @ ELSE [@ EXCEPT ![f] = Clear]],
       table |-> f]

SetEntry(s, table, index, entry) == [s EXCEPT !.mem[table][index] = entry]

(* The table below an entry, created with the caller's flags if the entry  *)
(* is not present; a NULL page is reported and used all the same.          *)
vmm_get_pagemap_unlinked(s, pagemap, index, flags) ==
  IF PRESENT \in s.mem[pagemap][index].flags
  THEN [s |-> s, table |-> s.mem[pagemap][index].frame]
  ELSE vmm_create_page_table(s)

vmm_get_pagemap(s, pagemap, index, flags) ==
  IF PRESENT \in s.mem[pagemap][index].flags
  THEN [s |-> s, table |-> s.mem[pagemap][index].frame]
  ELSE LET c == vmm_create_page_table(s)
       IN  [s |-> SetEntry(c.s, pagemap, index, [frame |-> c.table, flags |-> flags]),
            table |-> c.table]

vmm_map_1Gpage(s, root, v, frame, flags) ==
  LET PML3 == vmm_get_pagemap(s, root, v[1], flags)
  IN  SetEntry(PML3.s, PML3.table, v[2],
               [frame |-> frame, flags |-> flags \cup {PAGESIZE}])

vmm_map_2Mpage_table(s, root, v, frame, flags) ==
  LET PML3 == vmm_get_pagemap(s, root, v[1], flags)
      PML2 == vmm_get_pagemap(PML3.s, PML3.table, v[2], flags)
  IN  SetEntry(PML2.s, PML2.table, v[3], [frame |-> frame, flags |-> flags])

vmm_map_2Mpage(s, root, v, frame, flags) ==
  LET PML3 == vmm_get_pagemap(s, root, v[1], flags)
      PML2 == vmm_get_pagemap(PML3.s, PML3.table, v[2], flags)
  IN  SetEntry(PML2.s, PML2.table, v[3],
               [frame |-> frame, flags |-> flags \cup {PAGESIZE}])

vmm_map_4Kpage_large(s, root, v, frame, flags) ==
  LET PML3 == vmm_get_pagemap(s, root, v[1], flags)
      PML2 == vmm_get_pagemap(PML3.s, PML3.table, v[2], flags)
      PML1 == vmm_get_pagemap(PML2.s, PML2.table, v[3], flags)
  IN  SetEntry(PML1.s, PML1.table, v[4],
               [frame |-> frame, flags |-> flags \cup {PAGESIZE}])

vmm_map_4Kpage(s, root, v, frame, flags) ==
  LET PML3 == vmm_get_pagemap(s, root, v[1], flags)
      PML2 == vmm_get_pagemap(PML3.s, PML3.table, v[2], flags)
      PML1 == vmm_get_pagemap(PML2.s, PML2.table, v[3], flags)
  IN  SetEntry(PML1.s, PML1.table, v[4], [frame |-> frame, flags |-> flags])

(* The entries met on the way down to level 1, each in the frame that the  *)
(* one above names, whatever its flags say.                                *)
EntryAt(s, root, v, depth) ==
  LET Below(pml, d) == s.mem[pml][v[d]].frame
      PML3 == Below(root, 1)
      PML2 == Below(PML3, 2)
      PML1 == Below(PML2, 3)
      table == CASE depth = 1 -> root [] depth = 2 -> PML3
                 [] depth = 3 -> PML2 [] depth = 4 -> PML1
  IN  s.mem[table][v[depth]]

(* The last entry is cleared if all four are present.  The tables stay,    *)
(* and the processor is not told (no invlpg).                              *)
vmm_unmap_page_index2(s, root, v) ==
  IF \A d \in 1 .. 4 : PRESENT \in EntryAt(s, root, v, d).flags
  THEN SetEntry(s, EntryAt(s, root, v, 3).frame, v[3], Zero)
  ELSE s

vmm_unmap_page(s, root, v) ==
  IF \A d \in 1 .. 4 : PRESENT \in EntryAt(s, root, v, d).flags
  THEN SetEntry(s, EntryAt(s, root, v, 3).frame, v[4], Zero)
  ELSE s

(* Four levels down, without a look at PRESENT or PAGESIZE. *)
vmm_pagewalk_level2(s, root, v) == EntryAt(s, root, v, 3).frame

vmm_pagewalk(s, root, v) == EntryAt(s, root, v, 4).frame

-----------------------------------------------------------------------------
(***************************************************************************)
(* The processor's view: a page is mapped when every entry down to the one *)
(* with PAGESIZE, or to level 1, is present, and no reserved bit is set;   *)
(* each of them restricts what may be done with the page.                  *)
(***************************************************************************)
AllPages == Indices \X Indices \X Indices \X Indices

IsLeaf(s, root, v, d) ==
  d = 4 \/ (d \in {2, 3} /\ PAGESIZE \in EntryAt(s, root, v, d).flags)

(* Where the walk ends: the first entry with PAGESIZE, or level 1. *)
LeafLevel(s, root, v) ==
  CHOOSE d \in 2 .. 4 :
    IsLeaf(s, root, v, d) /\ \A k \in 2 .. (d - 1) : ~ IsLeaf(s, root, v, k)

IsPresent(s, root, v) ==
  \A d \in 1 .. LeafLevel(s, root, v) : PRESENT \in EntryAt(s, root, v, d).flags

(* The pages that an entry of level d maps, and a page's place in them. *)
Span(d) == CASE d = 4 -> 1 [] d = 3 -> Fanout [] d = 2 -> Fanout * Fanout

OffsetIn(v, d) == CASE d = 4 -> 0
                    [] d = 3 -> v[4]
                    [] d = 2 -> v[3] * Fanout + v[4]

(* The bits of a large page's frame below its size are no address: the     *)
(* lowest, bit 12, is PAT, and the others are reserved, a fault if set.    *)
ReservedClear(frame, d) == d = 4 \/ frame % Span(d) \in {0, 1}

FrameBits(frame, d) == IF d = 4 THEN frame ELSE frame - (frame % Span(d))

IsMapped(s, root, v) ==
  LET d == LeafLevel(s, root, v)
  IN  IsPresent(s, root, v) /\ ReservedClear(EntryAt(s, root, v, d).frame, d)

Translate(s, root, v) ==
  LET d == LeafLevel(s, root, v)
  IN  [frame |-> FrameBits(EntryAt(s, root, v, d).frame, d) + OffsetIn(v, d),
       flags |-> {g \in {PRESENT, READWRITE} :
                    \A k \in 1 .. d : g \in EntryAt(s, root, v, k).flags}]

TranslationIn(s, root) ==
  [v \in {v \in AllPages : IsMapped(s, root, v)} |-> Translate(s, root, v)]

(* The tables reached from the root at each depth, by the path to them. *)
TableAt(s, root, path) == IF path = << >> THEN root
                          ELSE EntryAt(s, root, path, Len(path)).frame

TablePaths(s, root) ==
  {q \in UNION {[1 .. n -> Indices] : n \in 0 .. 3} : \A k \in 1 .. Len(q) :
     LET e == EntryAt(s, root, q, k)
     IN  PRESENT \in e.flags /\ PAGESIZE \notin e.flags}

Tables(s, root) == {TableAt(s, root, q) : q \in TablePaths(s, root)}
=============================================================================
