----------------------------- MODULE BootProofs -----------------------------
(***************************************************************************)
(* Proofs about the start, for every number of entries in a table, every   *)
(* memory, memory map and list of tags, and every set of page tables that  *)
(* a loader may have left.                                                 *)
(***************************************************************************)
EXTENDS Boot, VmmOpsProofs

-----------------------------------------------------------------------------
(***************************************************************************)
(* Virtual addresses.                                                      *)
(***************************************************************************)
(* Division, where it comes out even. *)
LEMMA Divide ==
  ASSUME NEW a \in Nat, NEW b \in Nat \ {0}, NEW r \in 0 .. (b - 1)
  PROVE  (a * b + r) \div b = a /\ (a * b + r) % b = r
  BY SMTT(30)

(* The pages of a table's entries. *)
LEMMA Sizes ==
  /\ Pages2M \in Nat \ {0} /\ Pages1G \in Nat \ {0} /\ Pages512G \in Nat \ {0} /\ Pages256T \in Nat \ {0}
  /\ Pages512G = Fanout * Pages1G /\ Pages256T = Fanout * Pages512G
  <1>1. \A a, b \in Nat \ {0} : a * b \in Nat \ {0}
    OBVIOUS
  <1>2. Fanout \in Nat \ {0}
    BY VmmOpsAssumption
  <1>3. Pages2M \in Nat \ {0}
    BY <1>2 DEF Pages2M
  <1>4. Pages1G \in Nat \ {0}
    BY <1>1, <1>2, <1>3 DEF Pages1G
  <1>5. Pages512G \in Nat \ {0}
    BY <1>1, <1>2, <1>4 DEF Pages512G
  <1>6. Pages256T \in Nat \ {0}
    BY <1>1, <1>2, <1>5 DEF Pages256T
  <1> QED
    BY <1>3, <1>4, <1>5, <1>6 DEF Pages512G, Pages256T

(* Each address has its indices. *)
LEMMA PathType ==
  ASSUME NEW page \in Nat
  PROVE  Path(page) \in AllPages
  <1>1. \A n \in Nat : n % Fanout \in Indices
    BY VmmOpsAssumption DEF Indices
  <1>2. \A n \in Nat, m \in Nat \ {0} : n \div m \in Nat
    OBVIOUS
  <1>3. /\ page \div Pages512G \in Nat /\ page \div Pages1G \in Nat /\ page \div Pages2M \in Nat
    BY <1>2, Sizes
  <1> QED
    BY <1>1, <1>3 DEF Path, AllPages

(* The direct map lies below entry Fanout / 2 of the top table. *)
LEMMA DataPages ==
  ASSUME NEW f \in 0 .. (Pages512G - 1)
  PROVE  /\ phys_to_hh_data(f) = HH_DATA + f /\ HH_DATA + f \in Nat
         /\ Canonical(HH_DATA + f) /\ Path(HH_DATA + f)[1] = Fanout \div 2
         /\ HH_DATA \in Nat \ {0}
  <1> DEFINE P == Pages512G
             h == Fanout \div 2
  <1>1. P \in Nat \ {0} /\ h \in Nat \ {0} /\ Fanout = 2 * h /\ f \in 0 .. (P - 1)
    BY Sizes, MachineAssumption, VmmOpsAssumption
  <1>2. Pages256T = 2 * (h * P)
    BY <1>1, Sizes
  <1> HIDE DEF P, h
  <1>3. h * P \in Nat /\ h * P >= P
    BY <1>1
  <1>4. HH_DATA = 7 * (h * P) /\ VPAGES = 8 * (h * P)
    BY <1>2, <1>3 DEF HH_DATA, VPAGES
  <1>5. HH_DATA + f = (7 * h) * P + f /\ 7 * h \in Nat
    BY <1>1, <1>3, <1>4
  <1>6. (HH_DATA + f) \div P = 7 * h
    BY <1>1, <1>5, Divide
  <1>7. (7 * h) % Fanout = h
    <2>1. 7 * h = 3 * Fanout + h /\ h \in 0 .. (Fanout - 1) /\ Fanout \in Nat \ {0}
      BY <1>1
    <2> QED
      BY <2>1, Divide
  <1>8. Path(HH_DATA + f)[1] = ((HH_DATA + f) \div P) % Fanout
    BY DEF Path, P
  <1>9. HH_DATA + f \in 0 .. (VPAGES - 1) /\ VPAGES \in Nat \ {0}
    BY <1>1, <1>3, <1>4
  <1>10. phys_to_hh_data(f) = HH_DATA + f
    BY <1>9 DEF phys_to_hh_data
  <1>11. Canonical(HH_DATA + f) /\ HH_DATA \in Nat \ {0}
    BY <1>1, <1>3, <1>4 DEF Canonical
  <1> QED
    BY <1>6, <1>7, <1>8, <1>9, <1>10, <1>11 DEF h

(* The kernel lies below the last entry. *)
LEMMA CodePages ==
  ASSUME NEW k \in 0 .. (2 * Pages1G - 1)
  PROVE  /\ HH_CODE + k \in Nat
         /\ Canonical(HH_CODE + k) /\ Path(HH_CODE + k)[1] = Fanout - 1
  <1> DEFINE P == Pages512G
             G == Pages1G
             F == Fanout
             r == (F - 2) * G + k
  <1>1. P \in Nat \ {0} /\ G \in Nat \ {0} /\ F \in Nat /\ F >= 4 /\ k \in 0 .. (2 * G - 1) /\ P = F * G
    BY Sizes, MachineAssumption, VmmOpsAssumption
  <1>2. Pages256T = F * P
    BY Sizes
  <1> HIDE DEF P, G, F
  <1>3. F * P \in Nat /\ F * P >= 4 * P /\ (4 * F - 1) * P = 4 * (F * P) - P
    BY <1>1
  <1>4. (F - 2) * G = F * G - 2 * G /\ (F - 2) * G \in Nat /\ F * G \in Nat
    BY <1>1
  <1>5. r \in 0 .. (P - 1) /\ r = P - 2 * G + k
    BY <1>1, <1>4
  <1> HIDE DEF r
  <1>6. HH_CODE = 4 * (F * P) - 2 * G
    BY <1>1, <1>2, <1>3 DEF HH_CODE, VPAGES, G
  <1>7. HH_CODE + k = (4 * F - 1) * P + r
    BY <1>1, <1>3, <1>5, <1>6
  <1>8. (HH_CODE + k) \div P = 4 * F - 1
    <2> DEFINE a == 4 * F - 1
    <2>1. a \in Nat
      BY <1>1
    <2> HIDE DEF a
    <2>2. (a * P + r) \div P = a
      BY <1>1, <1>5, <2>1, Divide
    <2> QED
      BY <1>7, <2>2 DEF a
  <1>9. (4 * F - 1) % F = F - 1
    <2> DEFINE l == F - 1
    <2>1. 4 * F - 1 = 3 * F + l /\ l \in 0 .. (F - 1) /\ F \in Nat \ {0}
      BY <1>1
    <2> HIDE DEF l
    <2>2. (3 * F + l) % F = l
      BY <2>1, Divide
    <2> QED
      BY <2>1, <2>2 DEF l
  <1>10. Path(HH_CODE + k)[1] = ((HH_CODE + k) \div P) % F
    BY DEF Path, P, F
  <1>11. HH_CODE + k \in Nat
    BY <1>1, <1>3, <1>6
  <1>12. HH_CODE + k >= HH_DATA
    <2>1. HH_DATA = 4 * (F * P) - (F * P) \div 2
      BY <1>2 DEF HH_DATA, VPAGES
    <2>2. 2 * G <= P
      BY <1>1, <1>4
    <2>3. (F * P) \div 2 >= 2 * P
      BY <1>1, <1>3
    <2> QED
      BY <1>1, <1>3, <1>6, <2>1, <2>2, <2>3
  <1> QED
    BY <1>8, <1>9, <1>10, <1>11, <1>12 DEF Canonical, F

-----------------------------------------------------------------------------
(***************************************************************************)
(* The loader's tables.                                                    *)
(***************************************************************************)
LoaderState == [mem |-> BootMem]

Loaders == Tables(LoaderState, BootCR3)

(* They are as the loader left them. *)
Intact(t) == t.mem \in MemType /\ \A f \in Loaders : t.mem[f] = BootMem[f]

(* The loader's tables are tables. *)
LEMMA LoaderTypes ==
  /\ LoaderState.mem = BootMem /\ BootMem \in MemType /\ BootCR3 \in Frames /\ BootCR3 \in Loaders
  /\ \A v \in AllPages : NoLargeTop(LoaderState, BootCR3, v)
  <1>1. LoaderState.mem = BootMem /\ BootMem \in MemType /\ BootCR3 \in Frames
    BY LoaderAssumption DEF LoaderState, MemType, EntryType
  <1>2. ASSUME NEW v \in AllPages
        PROVE  NoLargeTop(LoaderState, BootCR3, v)
    <2>1. EntryAt(LoaderState, BootCR3, v, 1) = BootMem[BootCR3][v[1]] /\ v[1] \in Indices
      BY <1>1, EntryLevels DEF AllPages
    <2>2. PAGESIZE \notin BootMem[BootCR3][v[1]].flags
      BY <2>1, LoaderAssumption
    <2> QED
      BY <2>1, <2>2 DEF NoLargeTop
  <1>3. BootCR3 \in Loaders
    <2>1. Path(0) \in AllPages /\ 1 \in 1 .. 4
      BY PathType
    <2>2. Live(LoaderState, BootCR3, Path(0), 1) /\ TableOf(LoaderState, BootCR3, Path(0), 1) = BootCR3
      BY DEF Live, TableOf
    <2> QED
      BY <2>1, <2>2, TablesAre DEF Loaders
  <1> QED
    BY <1>1, <1>2, <1>3

(* They are memory. *)
LEMMA LoaderFrames == Loaders \subseteq Frames
  <1> SUFFICES ASSUME NEW f \in Loaders
               PROVE  f \in Frames
    OBVIOUS
  <1>1. PICK v \in AllPages, d \in 1 .. 4 : f = TableOf(LoaderState, BootCR3, v, d)
    BY TablesAre DEF Loaders
  <1> QED
    BY <1>1, LoaderTypes, WalkTypes

(* Below an entry of the loader's top table, in whatever table it stands,  *)
(* walks are the loader's.                                                 *)
LEMMA SameBelow ==
  ASSUME NEW t, Intact(t), NEW top, NEW v \in AllPages, t.mem[top][v[1]] = BootMem[BootCR3][v[1]]
  PROVE  \A d \in 1 .. 4 :
           /\ Live(LoaderState, BootCR3, v, d) <=> Live(t, top, v, d)
           /\ Live(LoaderState, BootCR3, v, d) =>
                /\ EntryAt(t, top, v, d) = EntryAt(LoaderState, BootCR3, v, d)
                /\ d # 1 => TableOf(t, top, v, d) \in Loaders
  <1> DEFINE B == LoaderState
             C == BootCR3
             P(d) == /\ Live(B, C, v, d) <=> Live(t, top, v, d)
                     /\ Live(B, C, v, d) => /\ EntryAt(t, top, v, d) = EntryAt(B, C, v, d)
                                            /\ d # 1 => TableOf(t, top, v, d) \in Loaders
  <1>1. P(1)
    <2>1. EntryAt(t, top, v, 1) = EntryAt(B, C, v, 1)
      BY EntryLevels, LoaderTypes
    <2> QED
      BY <2>1 DEF Live
  <1>2. ASSUME NEW d \in 1 .. 3, P(d)
        PROVE  P(d + 1)
    <2>0. d + 1 \in 1 .. 4
      OBVIOUS
    <2>1. /\ Live(B, C, v, d + 1) <=> Live(B, C, v, d) /\ Leading(EntryAt(B, C, v, d))
          /\ Live(t, top, v, d + 1) <=> Live(t, top, v, d) /\ Leading(EntryAt(t, top, v, d))
          /\ TableOf(B, C, v, d + 1) = EntryAt(B, C, v, d).frame
          /\ TableOf(t, top, v, d + 1) = EntryAt(t, top, v, d).frame
      BY LiveStep
    <2>2. Live(B, C, v, d + 1) <=> Live(t, top, v, d + 1)
      BY <1>2, <2>1
    <2>3. ASSUME Live(B, C, v, d + 1)
          PROVE  /\ EntryAt(t, top, v, d + 1) = EntryAt(B, C, v, d + 1)
                 /\ TableOf(t, top, v, d + 1) \in Loaders
      <3>1. TableOf(t, top, v, d + 1) = TableOf(B, C, v, d + 1)
        BY <1>2, <2>1, <2>3
      <3>2. TableOf(B, C, v, d + 1) \in Loaders
        BY <2>0, <2>3, TablesAre DEF Loaders
      <3>3. t.mem[TableOf(B, C, v, d + 1)] = BootMem[TableOf(B, C, v, d + 1)]
        BY <3>2 DEF Intact
      <3>4. /\ EntryAt(t, top, v, d + 1) = t.mem[TableOf(t, top, v, d + 1)][v[d + 1]]
            /\ EntryAt(B, C, v, d + 1) = B.mem[TableOf(B, C, v, d + 1)][v[d + 1]]
        BY <2>0, WalkStep
      <3> QED
        BY <3>1, <3>2, <3>3, <3>4, LoaderTypes
    <2> QED
      BY <2>2, <2>3
  <1> HIDE DEF P
  <1>3. P(1) /\ P(2) /\ P(3) /\ P(4)
    <2>1. P(2)
      BY <1>1, <1>2
    <2>2. P(3)
      BY <1>2, <2>1
    <2>3. P(4)
      BY <1>2, <2>2
    <2> QED
      BY <1>1, <2>1, <2>2, <2>3
  <1>4. \A d \in 1 .. 4 : P(d)
    BY <1>3
  <1> QED
    BY <1>4 DEF P

(* So pages are mapped there as the loader mapped them. *)
LEMMA MappedBelow ==
  ASSUME NEW t, Intact(t), NEW top, NEW page \in Nat,
         t.mem[top][Path(page)[1]] = BootMem[BootCR3][Path(page)[1]],
         Reachable(LoaderState, BootCR3, page)
  PROVE  /\ Reachable(t, top, page)
         /\ Translate(t, top, Path(page)).frame = Translate(LoaderState, BootCR3, Path(page)).frame
  <1> DEFINE v == Path(page)
  <1>1. v \in AllPages /\ Canonical(page) /\ IsMapped(LoaderState, BootCR3, v)
    BY PathType DEF Reachable
  <1>2. NoLargeTop(LoaderState, BootCR3, v)
    BY <1>1, LoaderTypes
  <1> HIDE DEF v
  <1>3. t.mem[top][v[1]] = BootMem[BootCR3][v[1]]
    BY DEF v
  <1>4. \A d \in 1 .. 4 :
           /\ Live(LoaderState, BootCR3, v, d) <=> Live(t, top, v, d)
           /\ Live(LoaderState, BootCR3, v, d) => EntryAt(t, top, v, d) = EntryAt(LoaderState, BootCR3, v, d)
    BY <1>1, <1>3, SameBelow
  <1>5. IsMapped(t, top, v) /\ Translate(t, top, v) = Translate(LoaderState, BootCR3, v)
    BY <1>1, <1>2, <1>4, SameLive
  <1> QED
    BY <1>1, <1>5 DEF Reachable, v

(* Physical memory, the framebuffer, the kernel and the bitmap are mapped  *)
(* by the loader.                                                          *)
LEMMA LoaderMaps ==
  /\ \A f \in Frames : f \in Nat /\ Reachable(LoaderState, BootCR3, f)
  /\ \A f \in Frames : Reachable(LoaderState, BootCR3, phys_to_hh_data(f))
  /\ \A k \in 0 .. (KernelPages - 1) : Reachable(LoaderState, BootCR3, HH_CODE + k)
  BY LoaderAssumption, VmmOpsAssumption DEF LoaderState

(* The direct map and the kernel, below the entries that vmm_init copies. *)
LEMMA DataReach ==
  ASSUME NEW t, Intact(t), NEW top, t.mem[top][Fanout \div 2] = BootMem[BootCR3][Fanout \div 2],
         NEW f \in Frames
  PROVE  /\ Reachable(t, top, phys_to_hh_data(f))
         /\ Translate(t, top, Path(phys_to_hh_data(f))).frame
              = Translate(LoaderState, BootCR3, Path(phys_to_hh_data(f))).frame
  <1>1. f \in 0 .. (Pages512G - 1)
    BY MachineAssumption
  <1>2. phys_to_hh_data(f) \in Nat /\ Path(phys_to_hh_data(f))[1] = Fanout \div 2
    BY <1>1, DataPages
  <1> QED
    BY <1>2, LoaderMaps, MappedBelow

(* The kernel's image is reached through the copied last entry. *)
LEMMA CodeReach ==
  ASSUME NEW t, Intact(t), NEW top, t.mem[top][Fanout - 1] = BootMem[BootCR3][Fanout - 1],
         NEW k \in 0 .. (KernelPages - 1)
  PROVE  /\ Reachable(t, top, HH_CODE + k)
         /\ Translate(t, top, Path(HH_CODE + k)).frame
              = Translate(LoaderState, BootCR3, Path(HH_CODE + k)).frame
  <1>1. k \in 0 .. (2 * Pages1G - 1)
    BY MachineAssumption, Sizes
  <1>2. HH_CODE + k \in Nat /\ Path(HH_CODE + k)[1] = Fanout - 1
    BY <1>1, CodePages
  <1> QED
    BY <1>2, LoaderMaps, MappedBelow

(* Physical addresses, while the loader's tables are in use. *)
LEMMA FrameReach ==
  ASSUME NEW t, Intact(t), NEW f \in Frames
  PROVE  Reachable(t, BootCR3, f)
  <1>1. t.mem[BootCR3] = BootMem[BootCR3]
    BY LoaderTypes DEF Intact
  <1> QED
    BY <1>1, LoaderMaps, MappedBelow

-----------------------------------------------------------------------------
(***************************************************************************)
(* The physical memory manager.                                            *)
(***************************************************************************)
(* What pmm_init leaves for vmm_init. *)
LEMMA MapReady ==
  ASSUME NEW map \in MemMaps, ~ BitmapTooLarge(map), NEW info, info = PmmReady(map)
  PROVE  /\ info \in InfoType /\ info.bitmap_size # 0 /\ 0 \in info.bitmap
         /\ info.usedpages \in 0 .. (info.totalpages - 3)
         /\ Unset(info) \subseteq Frames /\ Unset(info) \cap Loaders = {} /\ Loaders \subseteq info.bitmap
         /\ \E a, b, c \in Unset(info) : a # b /\ a # c /\ b # c
         /\ \A b \in 0 .. (info.bitmap_size - 1) : (info.bitmap_base + b) \div PAGE_SIZE \in Frames
  <1>1. /\ TotalMem(map) \in Nat /\ UsableFrames(map) \subseteq Frames /\ LargestSegment(map).base \in Nat
        /\ \A b \in 0 .. (BitmapSize(map) - 1) : (LargestSegment(map).base + b) \div PAGE_SIZE \in Frames
        /\ UsablePages(map) \in 4 .. TotalPages(map)
        /\ Loaders \subseteq Bits(BitmapSize(map)) \ UsableFrames(map)
    BY MemMapAssumption DEF Loaders, LoaderState
  <1>2. \E a, b, c \in (UsableFrames(map) \cap Bits(BitmapSize(map))) \ {0} : a < b /\ b < c
    BY MemMapAssumption
  <1>3. /\ TotalPages(map) \in Nat /\ BitmapSize(map) \in Nat \ {0} /\ info \in InfoType
        /\ info.usedpages = TotalPages(map) - UsablePages(map) + 1 /\ info.totalpages = TotalPages(map)
        /\ info.bitmap_base = LargestSegment(map).base /\ info.bitmap_size = BitmapSize(map)
        /\ info.bitmap = (Bits(BitmapSize(map)) \ UsableFrames(map)) \cup {0}
        /\ Unset(info) = (UsableFrames(map) \cap Bits(BitmapSize(map))) \ {0}
    <2>1. UsablePages(map) \in Int
      BY <1>1
    <2> QED
      BY <1>1, <2>1, ReadyInfo
  <1>4. info.usedpages \in 0 .. (info.totalpages - 3)
    BY <1>1, <1>3
  <1>5. Unset(info) \subseteq Frames /\ Unset(info) \cap Loaders = {} /\ Loaders \subseteq info.bitmap
    BY <1>1, <1>3
  <1>6. \E a, b, c \in Unset(info) : a # b /\ a # c /\ b # c
    <2>1. Bits(BitmapSize(map)) \subseteq Nat
      BY <1>3 DEF Bits
    <2>2. PICK a \in Unset(info), b \in Unset(info), c \in Unset(info) : a < b /\ b < c
      BY <1>2, <1>3
    <2>3. a \in Nat /\ b \in Nat /\ c \in Nat
      BY <1>3, <2>1
    <2> QED
      BY <2>2, <2>3
  <1> QED
    BY <1>1, <1>3, <1>4, <1>5, <1>6

(* The manager has been set up, and nothing has been freed since. *)
Managed(t, map) ==
  /\ Sound(t) /\ ~ BitmapTooLarge(map)
  /\ t.info.bitmap_base = PmmReady(map).bitmap_base
  /\ t.info.bitmap_size = PmmReady(map).bitmap_size
  /\ PmmReady(map).bitmap \subseteq t.info.bitmap

(* Its bitmap lies in memory, and the framebuffer too. *)
LEMMA BitmapFrames ==
  ASSUME NEW map \in MemMaps, NEW info, ~ BitmapTooLarge(map),
         info.bitmap_base = PmmReady(map).bitmap_base, info.bitmap_size = PmmReady(map).bitmap_size,
         NEW p \in BitmapPages(info)
  PROVE  \E f \in Frames : p = phys_to_hh_data(f)
  <1>1. PICK b \in 0 .. (info.bitmap_size - 1) : p = phys_to_hh_data((info.bitmap_base + b) \div PAGE_SIZE)
    BY DEF BitmapPages
  <1>2. (info.bitmap_base + b) \div PAGE_SIZE \in Frames
    BY MapReady
  <1> QED
    BY <1>1, <1>2

(* The framebuffer's pages are those of frames in the direct map. *)
LEMMA FramebufferFrames ==
  ASSUME fb_base = phys_to_hh_data(FbFrame), NEW p \in Framebuffer
  PROVE  \E f \in Frames : p = phys_to_hh_data(f)
  <1>1. FbFrame \in Nat /\ FbFrame \in Frames /\ FbFrame \in 0 .. (Pages512G - 1)
    BY MachineAssumption
  <1>2. fb_base = HH_DATA + FbFrame /\ fb_base \in Nat /\ HH_DATA \in Nat
    BY <1>1, DataPages
  <1>3. PICK k \in 0 .. (FbPages - 1) : p = fb_base + k
    <2>1. p \in fb_base .. (fb_base + FbPages - 1) /\ FbPages \in Nat
      BY MachineAssumption DEF Framebuffer
    <2>2. p - fb_base \in 0 .. (FbPages - 1) /\ p = fb_base + (p - fb_base)
      BY <1>2, <2>1
    <2> QED
      BY <2>2
  <1>4. FbFrame + k \in Frames /\ FbFrame + k \in 0 .. (Pages512G - 1)
    BY <1>1, MachineAssumption
  <1>5. phys_to_hh_data(FbFrame + k) = HH_DATA + (FbFrame + k)
    BY <1>4, DataPages
  <1> QED
    BY <1>1, <1>2, <1>3, <1>4, <1>5

-----------------------------------------------------------------------------
(***************************************************************************)
(* The kernel's mapping, which vmm_init makes in its new top table.        *)
(***************************************************************************)
(* Only the entries that vmm_init sets are. *)
Blank(t, root) == \A i \in Indices \ {Fanout \div 2, Fanout - 1} : t.mem[root][i] = Zero

(* pmm_info with a frame given out. *)
LEMMA MarkedIs ==
  ASSUME NEW info \in InfoType, NEW f \in Nat
  PROVE  /\ Marked(info, f).bitmap = info.bitmap \cup {f} /\ Marked(info, f).usedpages = info.usedpages + 1
         /\ Marked(info, f).bitmap_base = info.bitmap_base /\ Marked(info, f).bitmap_size = info.bitmap_size
         /\ Marked(info, f).totalpages = info.totalpages
         /\ Unset(Marked(info, f)) = Unset(info) \ {f}
  <1>1. /\ Marked(info, f).bitmap = info.bitmap \cup {f} /\ Marked(info, f).usedpages = info.usedpages + 1
        /\ Marked(info, f).bitmap_base = info.bitmap_base /\ Marked(info, f).bitmap_size = info.bitmap_size
        /\ Marked(info, f).totalpages = info.totalpages
    BY DEF Marked, InfoType
  <1>2. Unset(Marked(info, f)) = Unset(info) \ {f}
    BY <1>1 DEF Unset
  <1> QED
    BY <1>1, <1>2

(* A new table, cleared; nothing is written but it and the entry above.    *)
Adds(t, pagemap, index, g) ==
  /\ Sound(g.s) /\ g.table \in Unset(t.info)
  /\ g.s.info = Marked(t.info, g.table)
  /\ \A f \in Frames \ {pagemap, g.table} : g.s.mem[f] = t.mem[f]
  /\ \A i \in Indices \ {index} : g.s.mem[pagemap][i] = t.mem[pagemap][i]
  /\ \A i \in Indices : g.s.mem[g.table][i] = Zero

(* vmm_get_pagemap, below an entry that is not present, while there are    *)
(* pages.                                                                  *)
LEMMA NewTable ==
  ASSUME NEW t, Sound(t), NEW pagemap \in Frames, NEW index \in Indices,
         PRESENT \notin t.mem[pagemap][index].flags, pagemap \in t.info.bitmap,
         Unset(t.info) # {}, t.info.usedpages < t.info.totalpages,
         NEW flags \in SUBSET {PRESENT, READWRITE, PAGESIZE},
         NEW g, g = vmm_get_pagemap(t, pagemap, index, flags)
  PROVE  Adds(t, pagemap, index, g)
  <1> DEFINE entry == [frame |-> g.table, flags |-> flags]
  <1>0. t.mem \in MemType
    BY DEF Sound, StateType
  <1>2. ~ (Unset(t.info) = {} \/ t.info.usedpages >= t.info.totalpages)
    <2>1. t.info.usedpages \in Int /\ t.info.totalpages \in Int
      BY DEF Sound, StateType, InfoType
    <2> QED
      BY <2>1
  <1>4. /\ Sound(g.s) /\ g.table \in Frames /\ g.table \in Unset(t.info)
        /\ g.s.info = Marked(t.info, g.table)
        /\ g.s.mem = Written(Wiped(t.mem, g.table), pagemap, index, [frame |-> g.table, flags |-> flags])
    <2>1. /\ Sound(g.s) /\ g.table \in Frames
          /\ \/ /\ PRESENT \in t.mem[pagemap][index].flags
                /\ g.s = t /\ g.table = t.mem[pagemap][index].frame
             \/ /\ PRESENT \notin t.mem[pagemap][index].flags
                /\ g.table \in Unset(t.info) /\ g.table # 0
                /\ g.s.info = Marked(t.info, g.table)
                /\ Short(g.s) <=> Short(t)
                /\ g.s.mem = Written(Wiped(t.mem, g.table), pagemap, index,
                                     [frame |-> g.table, flags |-> flags])
             \/ /\ PRESENT \notin t.mem[pagemap][index].flags
                /\ Unset(t.info) = {} \/ t.info.usedpages >= t.info.totalpages
                /\ g.table = 0 /\ Short(g.s)
      BY GetPagemap
    <2> QED
      BY <1>2, <2>1
  <1>5. entry \in EntryType /\ g.table # pagemap
    BY <1>0, <1>4 DEF EntryType, Unset
  <1>6. g.s.mem = Written(Wiped(t.mem, g.table), pagemap, index, entry)
    BY <1>4
  <1> HIDE DEF entry
  <1>7. Wiped(t.mem, g.table) \in MemType
    BY <1>0, <1>4, <1>5, ReadBack
  <1>8. ASSUME NEW f \in Frames \ {pagemap, g.table}
        PROVE  g.s.mem[f] = t.mem[f]
    <2>1. g.s.mem[f] = Wiped(t.mem, g.table)[f]
      BY <1>5, <1>6, <1>7, ReadBack
    <2>2. Wiped(t.mem, g.table)[f] = t.mem[f]
      BY <1>0, <1>4, <1>5, ReadBack
    <2> QED
      BY <2>1, <2>2
  <1>9. ASSUME NEW i \in Indices
        PROVE  /\ i # index => g.s.mem[pagemap][i] = t.mem[pagemap][i]
               /\ g.s.mem[g.table][i] = Zero
    <2>1. /\ i # index => g.s.mem[pagemap][i] = Wiped(t.mem, g.table)[pagemap][i]
          /\ g.s.mem[g.table][i] = Wiped(t.mem, g.table)[g.table][i]
      BY <1>4, <1>5, <1>6, <1>7, ReadBack
    <2>2. /\ Wiped(t.mem, g.table)[pagemap][i] = t.mem[pagemap][i]
          /\ Wiped(t.mem, g.table)[g.table][i] = Zero
      BY <1>0, <1>4, <1>5, ReadBack
    <2> QED
      BY <2>1, <2>2
  <1> QED
    BY <1>4, <1>8, <1>9 DEF Adds

(* The manager gives out none of the loader's tables. *)
LEMMA LoadersTaken ==
  ASSUME NEW t, NEW map \in MemMaps, Managed(t, map)
  PROVE  Loaders \subseteq t.info.bitmap /\ Unset(t.info) \cap Loaders = {}
  <1>1. Loaders \subseteq PmmReady(map).bitmap
    BY MapReady DEF Managed
  <1> QED
    BY <1>1 DEF Managed, Unset

(* It is the same when a page has been marked. *)
LEMMA ManagedStep ==
  ASSUME NEW t, NEW map \in MemMaps, Managed(t, map), NEW r, Sound(r), NEW f \in Nat,
         r.info = Marked(t.info, f)
  PROVE  Managed(r, map)
  <1>1. t.info \in InfoType
    BY DEF Managed, Sound, StateType
  <1> QED
    BY <1>1, MarkedIs DEF Managed

(* Two tables are created, and the large page is entered in the second. *)
LEMMA KernelMapped ==
  ASSUME NEW map \in MemMaps, NEW t, Managed(t, map), Intact(t),
         NEW root \in Frames, root \in t.info.bitmap, root \notin Loaders,
         \A i \in Indices : t.mem[root][i] = Zero,
         \E a, b \in Unset(t.info) : a # b, t.info.usedpages + 1 < t.info.totalpages,
         NEW v \in AllPages, v[1] = Fanout - 1, NEW flags \in SUBSET {PRESENT, READWRITE},
         NEW r, r = vmm_map_2Mpage(t, root, v, KernelFrame, flags)
  PROVE  Managed(r, map) /\ Intact(r) /\ root \in r.info.bitmap /\ Blank(r, root)
  <1> DEFINE g == vmm_get_pagemap(t, root, v[1], flags)
             h == vmm_get_pagemap(g.s, g.table, v[2], flags)
             entry == [frame |-> KernelFrame, flags |-> flags \cup {PAGESIZE}]
  <1>0. /\ v[1] \in Indices /\ v[2] \in Indices /\ v[3] \in Indices
        /\ Sound(t) /\ t.info \in InfoType /\ t.info.usedpages \in Int /\ t.info.totalpages \in Int
        /\ Unset(t.info) \subseteq Frames /\ Frames \subseteq Nat
        /\ Unset(t.info) \cap Loaders = {} /\ PRESENT \notin Zero.flags
        /\ flags \in SUBSET {PRESENT, READWRITE, PAGESIZE}
        /\ Loaders \subseteq Frames
    <2>1. v[1] \in Indices /\ v[2] \in Indices /\ v[3] \in Indices
      BY DEF AllPages
    <2>2. /\ Sound(t) /\ t.info \in InfoType /\ t.info.usedpages \in Int /\ t.info.totalpages \in Int
          /\ Unset(t.info) \subseteq Frames
      BY DEF Managed, Sound, StateType, InfoType
    <2>3. Unset(t.info) \cap Loaders = {} /\ PRESENT \notin Zero.flags
      BY LoadersTaken DEF Zero
    <2> QED
      BY <2>1, <2>2, <2>3, LoaderFrames, VmmOpsAssumption
  <1>1. r = SetEntry(h.s, h.table, v[3], entry)
    BY DEF vmm_map_2Mpage
  <1> HIDE DEF g, h
  <1>2. /\ Sound(g.s) /\ g.table \in Unset(t.info) /\ g.s.info = Marked(t.info, g.table)
        /\ \A f \in Frames \ {root, g.table} : g.s.mem[f] = t.mem[f]
        /\ \A i \in Indices \ {v[1]} : g.s.mem[root][i] = t.mem[root][i]
        /\ \A i \in Indices : g.s.mem[g.table][i] = Zero
    <2>1. PRESENT \notin t.mem[root][v[1]].flags /\ Unset(t.info) # {} /\ t.info.usedpages < t.info.totalpages
      BY <1>0
    <2>2. Adds(t, root, v[1], g)
      BY <1>0, <2>1, NewTable DEF g
    <2> QED
      BY <2>2 DEF Adds
  <1>3. /\ g.table \in Frames /\ g.table \in Nat /\ g.table # root /\ g.table \notin Loaders
        /\ g.table \in g.s.info.bitmap /\ root \in g.s.info.bitmap
        /\ Unset(g.s.info) = Unset(t.info) \ {g.table}
        /\ g.s.info.usedpages < g.s.info.totalpages /\ g.s.info \in InfoType
    <2>1. g.table \in Frames /\ g.table \in Nat /\ g.table # root /\ g.table \notin Loaders
      BY <1>0, <1>2 DEF Unset
    <2>2. g.s.info \in InfoType
      BY <1>2 DEF Sound, StateType
    <2> QED
      BY <1>0, <1>2, <2>1, <2>2, MarkedIs
  <1>4. /\ Sound(h.s) /\ h.table \in Unset(g.s.info) /\ h.s.info = Marked(g.s.info, h.table)
        /\ \A f \in Frames \ {g.table, h.table} : h.s.mem[f] = g.s.mem[f]
    <2>1. PRESENT \notin g.s.mem[g.table][v[2]].flags /\ Unset(g.s.info) # {}
      BY <1>0, <1>2, <1>3
    <2>2. Adds(g.s, g.table, v[2], h)
      BY <1>0, <1>2, <1>3, <2>1, NewTable DEF h
    <2> QED
      BY <2>2 DEF Adds
  <1>5. /\ h.table \in Frames /\ h.table \in Nat /\ h.table # root /\ h.table \notin Loaders
        /\ root \in h.s.info.bitmap /\ h.s \in StateType /\ h.s.mem \in MemType
    <2>1. h.table \in Frames /\ h.table \in Nat /\ h.table \notin Loaders
      BY <1>0, <1>3, <1>4
    <2>2. h.table # root
      BY <1>3, <1>4 DEF Unset
    <2>3. root \in h.s.info.bitmap
      BY <1>3, <1>4, <2>1, MarkedIs
    <2>4. h.s \in StateType /\ h.s.mem \in MemType
      BY <1>4 DEF Sound, StateType
    <2> QED
      BY <2>1, <2>2, <2>3, <2>4
  <1>6. Managed(h.s, map)
    <2>1. Managed(g.s, map)
      BY <1>2, <1>3, ManagedStep
    <2> QED
      BY <1>4, <1>5, <2>1, ManagedStep
  <1>7. entry \in EntryType
    BY MachineAssumption DEF EntryType
  <1> HIDE DEF entry
  <1>8. /\ r.info = h.s.info /\ r.mem = Written(h.s.mem, h.table, v[3], entry) /\ r.mem \in MemType
        /\ Sound(r)
    <2>1. /\ SetEntry(h.s, h.table, v[3], entry).info = h.s.info
          /\ SetEntry(h.s, h.table, v[3], entry).mem = Written(h.s.mem, h.table, v[3], entry)
          /\ Sound(SetEntry(h.s, h.table, v[3], entry))
      BY <1>0, <1>4, <1>5, <1>7, SetEntryEffect, SetEntrySound
    <2> QED
      BY <1>1, <2>1 DEF Sound, StateType
  <1>9. \A f \in Frames \ {h.table} : r.mem[f] = h.s.mem[f]
    BY <1>0, <1>5, <1>7, <1>8, ReadBack
  <1>10. Managed(r, map) /\ root \in r.info.bitmap
    BY <1>5, <1>6, <1>8 DEF Managed
  <1>11. Intact(r)
    <2> SUFFICES ASSUME NEW f \in Loaders
                 PROVE  r.mem[f] = BootMem[f]
      BY <1>8 DEF Intact
    <2>1. f \in Frames /\ f # root /\ f # g.table /\ f # h.table
      BY <1>0, <1>3, <1>5
    <2> QED
      BY <1>2, <1>4, <1>9, <2>1 DEF Intact
  <1>12. Blank(r, root)
    <2> SUFFICES ASSUME NEW i \in Indices \ {Fanout \div 2, Fanout - 1}
                 PROVE  r.mem[root][i] = Zero
      BY DEF Blank
    <2>1. r.mem[root] = g.s.mem[root]
      BY <1>3, <1>4, <1>5, <1>9
    <2>2. g.s.mem[root][i] = t.mem[root][i]
      BY <1>2
    <2> QED
      BY <2>1, <2>2
  <1> QED
    BY <1>10, <1>11, <1>12

-----------------------------------------------------------------------------
(***************************************************************************)
(* The inductive invariant.                                                *)
(***************************************************************************)
Starting == {"entry", "lookup", "fb_init", "console_init", "pmm_init"}
Building == {"map_kernel", "copy_data", "copy_code", "write_cr3"}
Switched == {"report", "idle"}

(* The lookups so far, and what they found. *)
Looked ==
  /\ tags \in Seq(STRING) /\ memmap \in MemMaps
  /\ wanted \in 1 .. (Len(Lookups) + 1) /\ current_tag \in 1 .. (Len(tags) + 1)
  /\ found \subseteq {Lookups[k] : k \in DOMAIN Lookups}
  /\ found \subseteq {tags[k] : k \in DOMAIN tags}
  /\ pc # "hung" => \A k \in 1 .. (wanted - 1) : Required(Lookups[k]) => Lookups[k] \in found
  /\ pc \notin {"entry", "lookup", "hung"} => wanted = Len(Lookups) + 1

(* The framebuffer is at the address in the direct map once it is drawn to.*)
Pointed ==
  /\ fb_base \in {0, phys_to_hh_data(FbFrame)}
  /\ pc \notin {"entry", "lookup", "fb_init", "hung"} => fb_base = phys_to_hh_data(FbFrame)

(* An entry of the top table is the loader's. *)
TakenOver(t, root, i) == t.mem[root][i] = BootMem[BootCR3][i]

(* The new top table is none of the loader's, and holds nothing but the    *)
(* entries vmm_init sets.                                                  *)
NewTop(t, root) ==
  root \in Frames /\ root \notin Loaders /\ root \in t.info.bitmap /\ Blank(t, root)

(* There are pages for two more tables. *)
TwoLeft(t) == (\E a, b \in Unset(t.info) : a # b) /\ t.info.usedpages + 1 < t.info.totalpages

(* pmm_info and memory, stage by stage. *)
Staged ==
  /\ pc \in Starting \cup Building \cup Switched \cup {"hung", "read_cr3", "create_root"}
  /\ Intact(s)
  /\ pc \in Starting => s.info = PmmZero
  /\ pc = "hung" => s.info \in {PmmZero, PmmSized(memmap)}
  /\ pc \notin Starting \cup {"hung"} => Managed(s, memmap)
  /\ pc \in Starting => s \in StateType
  /\ pc \in {"read_cr3", "create_root"} => s.info = PmmReady(memmap)
  /\ pc \in Building \cup Switched => NewTop(s, RootPageDirectory)
  /\ pc = "map_kernel" => TwoLeft(s) /\ \A i \in Indices : s.mem[RootPageDirectory][i] = Zero
  /\ pc \in {"copy_code", "write_cr3"} \cup Switched => TakenOver(s, RootPageDirectory, Fanout \div 2)
  /\ pc \in {"write_cr3"} \cup Switched => TakenOver(s, RootPageDirectory, Fanout - 1)

Registers ==
  /\ cr3 = IF pc \in Switched THEN RootPageDirectory ELSE BootCR3
  /\ pc \in {"create_root"} \cup Building => kernel_cr3 = BootCR3

IInv == Looked /\ Pointed /\ Staged /\ Registers

-----------------------------------------------------------------------------
(***************************************************************************)
(* The lookup of the tags.                                                 *)
(***************************************************************************)
LEMMA LookupsIs == Len(Lookups) = 8 /\ DOMAIN Lookups = 1 .. Len(Lookups)
  BY DEF Lookups

(* As the loader starts the kernel. *)
LEMMA InitIInv == Init => IInv
  <1> SUFFICES ASSUME Init
               PROVE  IInv
    OBVIOUS
  <1>1. Looked
    <2>1. tags \in Seq(STRING) /\ Len(tags) \in Nat
      BY MachineAssumption DEF Init
    <2> QED
      BY <2>1, LookupsIs DEF Init, Looked
  <1>2. Pointed
    BY DEF Init, Pointed
  <1>3. s.info = PmmZero /\ s.mem = BootMem /\ s \in StateType
    <2>1. PmmZero \in InfoType
      BY DEF PmmZero, InfoType
    <2> QED
      BY <2>1, LoaderTypes DEF Init, StateType
  <1>4. Intact(s)
    BY <1>3, LoaderTypes DEF Intact
  <1>5. Staged
    BY <1>3, <1>4 DEF Init, Staged, Starting, Building, Switched
  <1>6. Registers
    BY DEF Init, Registers, Building, Switched
  <1> QED
    BY <1>1, <1>2, <1>5, <1>6 DEF IInv

(* _start and stivale2_get_tag. *)
LEMMA LookupKeeps ==
  ASSUME IInv, start \/ limine_start \/ get_tag_next \/ get_tag_found \/ get_tag_null \/ kernel
  PROVE  IInv'
  <1>0. Looked /\ Pointed /\ Staged /\ Registers
    BY DEF IInv
  <1>1. /\ pc \in {"entry", "lookup"} /\ pc' \in {"lookup", "hung", "fb_init"}
        /\ s' = s /\ cr3' = cr3 /\ RootPageDirectory' = RootPageDirectory /\ fb_base' = fb_base
        /\ tags' = tags /\ memmap' = memmap /\ kernel_cr3' = kernel_cr3
    BY DEF start, limine_start, get_tag_next, get_tag_found, get_tag_null, kernel, paging, loader
  <1>2. Pointed'
    BY <1>0, <1>1 DEF Pointed
  <1>3. Staged'
    BY <1>0, <1>1 DEF Staged, Starting, Building, Switched
  <1>4. Registers'
    BY <1>0, <1>1 DEF Registers, Building, Switched
  <1>5. Looked'
    <2> DEFINE n == Len(Lookups)
               m == Len(tags)
    <2>0. /\ tags \in Seq(STRING) /\ memmap \in MemMaps /\ m \in Nat /\ DOMAIN tags = 1 .. m
          /\ n \in Nat /\ DOMAIN Lookups = 1 .. n
          /\ wanted \in 1 .. (n + 1) /\ current_tag \in 1 .. (m + 1)
          /\ found \subseteq {Lookups[k] : k \in 1 .. n} /\ found \subseteq {tags[k] : k \in 1 .. m}
          /\ \A k \in 1 .. (wanted - 1) : Required(Lookups[k]) => Lookups[k] \in found
      BY <1>0, <1>1, LookupsIs DEF Looked
    <2> HIDE DEF n, m
    <2>1. ASSUME wanted' \in 1 .. (n + 1), current_tag' \in 1 .. (m + 1),
                 found' \subseteq {Lookups[k] : k \in 1 .. n}, found' \subseteq {tags[k] : k \in 1 .. m},
                 pc' # "hung" => \A k \in 1 .. (wanted' - 1) : Required(Lookups[k]) => Lookups[k] \in found',
                 pc' = "fb_init" => wanted' = n + 1
          PROVE  Looked'
      BY <1>1, <2>0, <2>1 DEF Looked, n, m
    <2>2. CASE start \/ limine_start
      BY <2>0, <2>1, <2>2 DEF start, limine_start, lookup
    <2>3. CASE get_tag_next
      BY <2>0, <2>1, <2>3 DEF get_tag_next, Advance, m
    <2>4. CASE get_tag_found
      <3>1. /\ wanted \in 1 .. n /\ current_tag \in 1 .. m /\ tags[current_tag] = Lookups[wanted]
            /\ found' = found \cup {Lookups[wanted]} /\ wanted' = wanted + 1 /\ current_tag' = 1
            /\ pc' = "lookup"
        BY <2>0, <2>4 DEF get_tag_found, Want, n, m
      <3>2. found' \subseteq {Lookups[k] : k \in 1 .. n} /\ found' \subseteq {tags[k] : k \in 1 .. m}
        BY <2>0, <3>1
      <3>3. ASSUME NEW k \in 1 .. (wanted' - 1), Required(Lookups[k])
            PROVE  Lookups[k] \in found'
        <4>1. k \in 1 .. (wanted - 1) \/ k = wanted
          BY <3>1
        <4> QED
          BY <2>0, <3>1, <3>3, <4>1
      <3>4. wanted' \in 1 .. (n + 1) /\ current_tag' \in 1 .. (m + 1)
        BY <2>0, <3>1
      <3> QED
        BY <2>1, <3>1, <3>2, <3>3, <3>4
    <2>5. CASE get_tag_null
      <3>1. /\ wanted \in 1 .. n /\ found' = found /\ wanted' = wanted + 1 /\ current_tag' = 1
            /\ pc' = IF Required(Lookups[wanted]) THEN "hung" ELSE "lookup"
        BY <2>0, <2>5 DEF get_tag_null, Want, n
      <3>3. ASSUME pc' # "hung", NEW k \in 1 .. (wanted' - 1), Required(Lookups[k])
            PROVE  Lookups[k] \in found'
        <4>1. k \in 1 .. (wanted - 1) \/ k = wanted
          BY <3>1
        <4> QED
          BY <2>0, <3>1, <3>3, <4>1
      <3>4. wanted' \in 1 .. (n + 1) /\ current_tag' \in 1 .. (m + 1) /\ pc' # "fb_init"
        BY <2>0, <3>1
      <3> QED
        BY <2>0, <2>1, <3>1, <3>3, <3>4
    <2>6. CASE kernel
      BY <2>0, <2>1, <2>6 DEF kernel, lookup, n
    <2> QED
      BY <2>2, <2>3, <2>4, <2>5, <2>6
  <1> QED
    BY <1>2, <1>3, <1>4, <1>5 DEF IInv

-----------------------------------------------------------------------------
(***************************************************************************)
(* kernel() and vmm_init.                                                  *)
(***************************************************************************)
(* The tags stay found, and the framebuffer where it is. *)
LEMMA LookedKept ==
  ASSUME Looked, UNCHANGED <<loader, lookup>>, pc \notin {"entry", "lookup", "hung"}
  PROVE  Looked'
  BY DEF Looked, loader, lookup

(* The framebuffer's pointer stays. *)
LEMMA PointedKept ==
  ASSUME Pointed, fb_base' = fb_base, pc \notin {"entry", "lookup", "fb_init", "hung"}
  PROVE  Pointed'
  BY DEF Pointed

(* What every address that the start works on comes down to. *)
LEMMA Reaches ==
  ASSUME IInv
  PROVE  /\ \A f \in Frames : /\ Reachable(s, cr3, phys_to_hh_data(f))
                              /\ Translate(s, cr3, Path(phys_to_hh_data(f))).frame
                                   = Translate(LoaderState, BootCR3, Path(phys_to_hh_data(f))).frame
         /\ \A k \in 0 .. (KernelPages - 1) :
              /\ Reachable(s, cr3, HH_CODE + k)
              /\ Translate(s, cr3, Path(HH_CODE + k)).frame
                   = Translate(LoaderState, BootCR3, Path(HH_CODE + k)).frame
         /\ pc \notin Switched => \A f \in Frames : Reachable(s, cr3, f)
  <1>0. Intact(s) /\ cr3 = IF pc \in Switched THEN RootPageDirectory ELSE BootCR3
    BY DEF IInv, Staged, Registers
  <1>1. /\ s.mem[cr3][Fanout \div 2] = BootMem[BootCR3][Fanout \div 2]
        /\ s.mem[cr3][Fanout - 1] = BootMem[BootCR3][Fanout - 1]
    <2>1. CASE pc \in Switched
      BY <1>0, <2>1 DEF IInv, Staged, TakenOver
    <2>2. CASE pc \notin Switched
      BY <1>0, <2>2, LoaderTypes DEF Intact
    <2> QED
      BY <2>1, <2>2
  <1> QED
    BY <1>0, <1>1, DataReach, CodeReach, FrameReach

(* The framebuffer can be drawn to. *)
LEMMA Drawn ==
  ASSUME IInv, pc \notin {"entry", "lookup", "fb_init", "hung"}, NEW p \in Framebuffer
  PROVE  Reachable(s, cr3, p)
  <1>1. fb_base = phys_to_hh_data(FbFrame)
    BY DEF IInv, Pointed
  <1> QED
    BY <1>1, FramebufferFrames, Reaches

(* The bitmap can be read and written. *)
LEMMA BitmapReached ==
  ASSUME IInv, ~ BitmapTooLarge(memmap), NEW info,
         info.bitmap_base = PmmReady(memmap).bitmap_base, info.bitmap_size = PmmReady(memmap).bitmap_size,
         NEW p \in BitmapPages(info)
  PROVE  Reachable(s, cr3, p)
  <1>1. memmap \in MemMaps
    BY DEF IInv, Looked
  <1>2. PICK f \in Frames : p = phys_to_hh_data(f)
    BY <1>1, BitmapFrames
  <1> QED
    BY <1>2, Reaches

(* A step whose pages are mapped goes on. *)
LEMMA GoesOn ==
  ASSUME NEW next, NEW pages, Goto(next, pages), \A p \in pages : Reachable(s, cr3, p)
  PROVE  pc' = next
  BY DEF Goto

(* fb_init, console_init and what kernel() prints. *)
LEMMA DrawKeeps ==
  ASSUME IInv, fb_init \/ console_init \/ report
  PROVE  IInv'
  <1>0. Looked /\ Pointed /\ Staged /\ Registers
    BY DEF IInv
  <1>1. /\ pc \in {"fb_init", "console_init", "report"}
        /\ s' = s /\ UNCHANGED <<loader, lookup>> /\ UNCHANGED paging /\ memmap' = memmap
    BY DEF fb_init, console_init, report, loader
  <1>2. Looked'
    BY <1>0, <1>1, LookedKept
  <1>3. /\ pc = "fb_init" => pc' = "console_init"
        /\ pc = "console_init" => pc' = "pmm_init"
        /\ pc = "report" => pc' = "idle"
    <2>1. pc = "fb_init" => pc' = "console_init"
      BY DEF fb_init, console_init, report
    <2>2. ASSUME console_init
          PROVE  pc' = "pmm_init"
      <3>1. pc = "console_init" /\ Goto("pmm_init", Framebuffer)
        BY <2>2 DEF console_init
      <3> QED
        BY <3>1, Drawn, GoesOn
    <2>3. ASSUME report
          PROVE  pc' = "idle"
      <3>1. pc = "report" /\ Goto("idle", Framebuffer)
        BY <2>3 DEF report
      <3> QED
        BY <3>1, Drawn, GoesOn
    <2>4. (pc = "console_init" => console_init) /\ (pc = "report" => report)
      BY DEF fb_init, console_init, report
    <2> QED
      BY <2>1, <2>2, <2>3, <2>4
  <1>4. Pointed'
    <2>1. CASE pc = "fb_init"
      <3>1. fb_base' = phys_to_hh_data(FbFrame)
        BY <2>1 DEF fb_init, console_init, report, LoaderPointer, stivale_hdr_flags
      <3> QED
        BY <3>1 DEF Pointed
    <2>2. CASE pc # "fb_init"
      <3>1. fb_base' = fb_base
        BY <2>2 DEF fb_init, console_init, report
      <3> QED
        BY <1>0, <1>1, <2>2, <3>1, PointedKept
    <2> QED
      BY <2>1, <2>2
  <1>5. Staged'
    BY <1>0, <1>1, <1>3 DEF Staged, Starting, Building, Switched, paging
  <1>6. Registers'
    BY <1>0, <1>1, <1>3 DEF Registers, Building, Switched, paging
  <1> QED
    BY <1>2, <1>4, <1>5, <1>6 DEF IInv

(* pmm_init. *)
LEMMA PmmInitKeeps ==
  ASSUME IInv, pmm_init
  PROVE  IInv'
  <1>0. /\ Looked /\ Pointed /\ Staged /\ Registers /\ memmap \in MemMaps
        /\ pc = "pmm_init" /\ UNCHANGED <<loader, lookup>> /\ fb_base' = fb_base
        /\ UNCHANGED paging /\ memmap' = memmap
    BY DEF IInv, Looked, pmm_init, loader
  <1>1. Looked' /\ Pointed'
    BY <1>0, LookedKept, PointedKept
  <1>2. s \in StateType /\ s.mem \in MemType /\ s.exhausted \in BOOLEAN /\ Intact(s)
    BY <1>0 DEF Staged, Starting, StateType
  <1>3. CASE BitmapTooLarge(memmap)
    <2>1. pc' = "hung" /\ s' = [s EXCEPT !.info = PmmSized(memmap)]
      BY <1>3 DEF pmm_init
    <2>2. s'.info = PmmSized(memmap) /\ s'.mem = s.mem
      BY <1>2, <2>1 DEF StateType
    <2>3. Intact(s')
      BY <1>2, <2>2 DEF Intact
    <2>4. Staged'
      BY <1>0, <2>1, <2>2, <2>3 DEF Staged, Starting, Building, Switched
    <2>5. Registers'
      BY <1>0, <2>1 DEF Registers, Building, Switched, paging
    <2> QED
      BY <1>1, <2>4, <2>5 DEF IInv
  <1>4. CASE ~ BitmapTooLarge(memmap)
    <2>1. /\ Goto("read_cr3", Framebuffer \cup BitmapPages(PmmReady(memmap)))
          /\ s' = [s EXCEPT !.info = PmmReady(memmap)]
      BY <1>4 DEF pmm_init
    <2>2. pc' = "read_cr3"
      <3>1. \A p \in Framebuffer : Reachable(s, cr3, p)
        BY <1>0, Drawn
      <3>2. \A p \in BitmapPages(PmmReady(memmap)) : Reachable(s, cr3, p)
        BY <1>4, BitmapReached
      <3> QED
        BY <2>1, <3>1, <3>2, GoesOn
    <2>3. /\ PmmReady(memmap) \in InfoType /\ PmmReady(memmap).bitmap_size # 0 /\ 0 \in PmmReady(memmap).bitmap
          /\ PmmReady(memmap).usedpages \in 0 .. (PmmReady(memmap).totalpages - 3)
          /\ Unset(PmmReady(memmap)) \subseteq Frames
      BY <1>0, <1>4, MapReady
    <2>4. s'.info = PmmReady(memmap) /\ s'.mem = s.mem /\ s' \in StateType
      BY <1>2, <2>1, <2>3 DEF StateType
    <2>5. Sound(s')
      <3>1. PmmReady(memmap).usedpages \in 0 .. PmmReady(memmap).totalpages
        BY <2>3 DEF InfoType
      <3> QED
        BY <2>3, <2>4, <3>1 DEF Sound
    <2>6. Managed(s', memmap) /\ Intact(s')
      BY <1>2, <1>4, <2>4, <2>5 DEF Managed, Intact
    <2>7. Staged'
      BY <1>0, <2>2, <2>4, <2>6 DEF Staged, Starting, Building, Switched
    <2>8. Registers'
      BY <1>0, <2>2 DEF Registers, Building, Switched, paging
    <2> QED
      BY <1>1, <2>7, <2>8 DEF IInv
  <1> QED
    BY <1>3, <1>4

(* vmm_init reads CR3. *)
LEMMA ReadCr3Keeps ==
  ASSUME IInv, vmm_read_cr3
  PROVE  IInv'
  <1>0. /\ Looked /\ Pointed /\ Staged /\ Registers
        /\ pc = "read_cr3" /\ UNCHANGED <<loader, lookup>> /\ fb_base' = fb_base /\ s' = s /\ memmap' = memmap
        /\ cr3' = cr3 /\ kernel_cr3' = cr3 /\ Goto("create_root", Framebuffer)
    BY DEF IInv, vmm_read_cr3, loader
  <1>1. Looked' /\ Pointed'
    BY <1>0, LookedKept, PointedKept
  <1>2. pc' = "create_root"
    BY <1>0, Drawn, GoesOn
  <1>3. Staged'
    BY <1>0, <1>2 DEF Staged, Starting, Building, Switched
  <1>4. Registers'
    BY <1>0, <1>2 DEF Registers, Building, Switched
  <1> QED
    BY <1>1, <1>3, <1>4 DEF IInv

(* The new top table is a page that was free. *)
LEMMA CreateRootKeeps ==
  ASSUME IInv, create_root
  PROVE  IInv'
  <1> DEFINE c == vmm_create_page_table(s)
             info == PmmReady(memmap)
  <1>0. /\ Looked /\ Pointed /\ Staged /\ Registers /\ memmap \in MemMaps
        /\ pc = "create_root" /\ UNCHANGED <<loader, lookup>> /\ fb_base' = fb_base /\ memmap' = memmap
        /\ cr3' = cr3 /\ kernel_cr3' = kernel_cr3
        /\ s' = c.s /\ RootPageDirectory' = c.table
        /\ Goto("map_kernel", BitmapPages(s.info) \cup {c.table})
    BY DEF IInv, Looked, create_root, loader
  <1>1. Looked' /\ Pointed'
    BY <1>0, LookedKept, PointedKept
  <1>2. Managed(s, memmap) /\ Intact(s) /\ s.info = info /\ ~ BitmapTooLarge(memmap) /\ Sound(s)
    BY <1>0 DEF Staged, Starting, Building, Switched, Managed
  <1>3. /\ info \in InfoType /\ info.usedpages \in 0 .. (info.totalpages - 3)
        /\ Unset(info) \subseteq Frames /\ Unset(info) \cap Loaders = {}
        /\ \E a, b, d \in Unset(info) : a # b /\ a # d /\ b # d
    BY <1>0, <1>2, MapReady
  <1> HIDE DEF c, info
  <1>4. /\ Sound(c.s) /\ c.table \in Frames /\ c.table \in Unset(info)
        /\ c.s.info = Marked(info, c.table) /\ c.s.mem = Wiped(s.mem, c.table)
    <2>1. ~ (Unset(s.info) = {} \/ s.info.usedpages >= s.info.totalpages)
      BY <1>2, <1>3 DEF InfoType
    <2>2. /\ Sound(c.s) /\ c.table \in Frames
          /\ \/ /\ s.info.usedpages < s.info.totalpages
                /\ c.table \in Unset(s.info) /\ c.table # 0
                /\ c.s.info = Marked(s.info, c.table)
                /\ Short(c.s) <=> Short(s)
                /\ c.s.mem = Wiped(s.mem, c.table)
             \/ /\ Unset(s.info) = {} \/ s.info.usedpages >= s.info.totalpages
                /\ c.table = 0 /\ Short(c.s) /\ c.s.mem = s.mem
      BY <1>2, CreateTable DEF c
    <2> QED
      BY <1>2, <2>1, <2>2
  <1>5. pc' = "map_kernel"
    <2>1. \A p \in BitmapPages(s.info) : Reachable(s, cr3, p)
      BY <1>2, BitmapReached DEF info
    <2>2. Reachable(s, cr3, c.table)
      BY <1>0, <1>4, Reaches DEF Switched
    <2> QED
      BY <1>0, <2>1, <2>2, GoesOn
  <1>6. /\ c.table \in Nat /\ c.s.info.bitmap = info.bitmap \cup {c.table}
        /\ c.s.info.usedpages = info.usedpages + 1 /\ c.s.info.totalpages = info.totalpages
        /\ Unset(c.s.info) = Unset(info) \ {c.table}
    <2>1. c.table \in Nat /\ info \in InfoType
      BY <1>3, <1>4, VmmOpsAssumption
    <2>2. /\ Marked(info, c.table).bitmap = info.bitmap \cup {c.table}
          /\ Marked(info, c.table).usedpages = info.usedpages + 1
          /\ Marked(info, c.table).totalpages = info.totalpages
          /\ Unset(Marked(info, c.table)) = Unset(info) \ {c.table}
      BY <2>1, MarkedIs
    <2> QED
      BY <1>4, <2>1, <2>2
  <1>7. Managed(c.s, memmap)
    BY <1>0, <1>2, <1>4, <1>6, ManagedStep
  <1>8. /\ \A f \in Frames \ {c.table} : c.s.mem[f] = s.mem[f]
        /\ \A i \in Indices : c.s.mem[c.table][i] = Zero
    <2>1. s.mem \in MemType /\ 0 \in Indices /\ Zero \in EntryType
      BY <1>2, ClearTable, VmmOpsAssumption DEF Intact, Indices
    <2> QED
      BY <1>4, <2>1, ReadBack
  <1>9. Intact(c.s)
    <2>1. c.s.mem \in MemType
      BY <1>4 DEF Sound, StateType
    <2>2. \A f \in Loaders : f \in Frames /\ f # c.table
      BY <1>3, <1>4, LoaderFrames
    <2> QED
      BY <1>2, <1>8, <2>1, <2>2 DEF Intact
  <1>10. NewTop(c.s, c.table)
    BY <1>3, <1>4, <1>6, <1>8 DEF NewTop, Blank
  <1>11. TwoLeft(c.s)
    <2>1. c.s.info.usedpages + 1 < c.s.info.totalpages
      BY <1>3, <1>6 DEF InfoType
    <2>2. \E a, b \in Unset(c.s.info) : a # b
      BY <1>3, <1>6
    <2> QED
      BY <2>1, <2>2 DEF TwoLeft
  <1>12. Staged'
    BY <1>0, <1>5, <1>7, <1>8, <1>9, <1>10, <1>11 DEF Staged, Starting, Building, Switched
  <1>13. Registers'
    BY <1>0, <1>5 DEF Registers, Building, Switched
  <1> QED
    BY <1>1, <1>12, <1>13 DEF IInv

(* Two more tables, below the last entry, for a page of the kernel. *)
LEMMA MapKernelKeeps ==
  ASSUME IInv, map_kernel
  PROVE  IInv'
  <1> DEFINE root == RootPageDirectory
             v == Path(HH_CODE)
             flags == {PRESENT, READWRITE}
  <1>0. /\ Looked /\ Pointed /\ Staged /\ Registers /\ memmap \in MemMaps
        /\ pc = "map_kernel" /\ UNCHANGED <<loader, lookup>> /\ fb_base' = fb_base /\ memmap' = memmap
        /\ UNCHANGED paging
        /\ s' = vmm_map_2Mpage(s, root, v, KernelFrame, flags)
        /\ Goto("copy_data", BitmapPages(s.info) \cup {root} \cup {EntryAt(s', root, v, d).frame : d \in 1 .. 2})
    BY DEF IInv, Looked, map_kernel, loader
  <1>1. Looked' /\ Pointed'
    BY <1>0, LookedKept, PointedKept
  <1>2. /\ Managed(s, memmap) /\ Intact(s) /\ NewTop(s, root) /\ TwoLeft(s)
        /\ \A i \in Indices : s.mem[root][i] = Zero
    BY <1>0 DEF Staged, Starting, Building, Switched
  <1>3. v \in AllPages /\ v[1] = Fanout - 1
    <2>1. 0 \in 0 .. (2 * Pages1G - 1)
      BY Sizes
    <2>2. HH_CODE + 0 \in Nat /\ Path(HH_CODE + 0)[1] = Fanout - 1
      BY <2>1, CodePages
    <2>3. HH_CODE + 0 = HH_CODE
      BY Sizes DEF HH_CODE, VPAGES
    <2> QED
      BY <2>2, <2>3, PathType
  <1>4. flags \in SUBSET {PRESENT, READWRITE}
    OBVIOUS
  <1> HIDE DEF v, flags, root
  <1>5. Managed(s', memmap) /\ Intact(s') /\ root \in s'.info.bitmap /\ Blank(s', root)
    BY <1>0, <1>2, <1>3, <1>4, KernelMapped DEF NewTop, TwoLeft
  <1>6. NewTop(s', root)
    BY <1>2, <1>5 DEF NewTop
  <1>7. pc' = "copy_data"
    <2>1. \A p \in BitmapPages(s.info) : Reachable(s, cr3, p)
      BY <1>2, BitmapReached DEF Managed
    <2>2. \A f \in Frames : Reachable(s, cr3, f)
      BY <1>0, Reaches DEF Switched
    <2>3. root \in Frames
      BY <1>2 DEF NewTop
    <2>4. \A d \in 1 .. 2 : EntryAt(s', root, v, d).frame \in Frames
      <3>1. ASSUME NEW d \in 1 .. 4
            PROVE  EntryAt(s', root, v, d).frame \in Frames
        <4>1. EntryAt(s', root, v, d) \in EntryType
          BY <1>3, <1>5, <2>3, WalkTypes DEF Intact
        <4> QED
          BY <4>1 DEF EntryType
      <3> QED
        BY <3>1
    <2>5. \A p \in BitmapPages(s.info) \cup {root} \cup {EntryAt(s', root, v, d).frame : d \in 1 .. 2} :
             Reachable(s, cr3, p)
      BY <2>1, <2>2, <2>3, <2>4
    <2> QED
      BY <1>0, <2>5, GoesOn
  <1>8. Staged'
    BY <1>0, <1>5, <1>6, <1>7 DEF Staged, Starting, Building, Switched, paging, root
  <1>9. Registers'
    BY <1>0, <1>7 DEF Registers, Building, Switched, paging
  <1> QED
    BY <1>1, <1>8, <1>9 DEF IInv

(* entry[256] and entry[511]: an entry of the loader's top table is taken  *)
(* over into the new one.                                                  *)
LEMMA CopyEffect ==
  ASSUME IInv, pc \in {"copy_data", "copy_code"}, NEW index \in {Fanout \div 2, Fanout - 1},
         NEW t, t = Copied(index)
  PROVE  /\ Managed(t, memmap) /\ Intact(t) /\ NewTop(t, RootPageDirectory)
         /\ TakenOver(t, RootPageDirectory, index)
         /\ \A i \in Indices \ {index} : t.mem[RootPageDirectory][i] = s.mem[RootPageDirectory][i]
  <1> DEFINE root == RootPageDirectory
             entry == s.mem[kernel_cr3][index]
  <1>0. /\ Managed(s, memmap) /\ Intact(s) /\ NewTop(s, root) /\ kernel_cr3 = BootCR3
        /\ s.mem \in MemType /\ s \in StateType /\ Sound(s)
    BY DEF IInv, Staged, Registers, Starting, Building, Switched, Intact, Managed, Sound
  <1>1. index \in Indices
    BY MachineAssumption, VmmOpsAssumption DEF Indices
  <1>2. entry = BootMem[BootCR3][index] /\ entry \in EntryType
    BY <1>0, <1>1, LoaderTypes DEF Intact, MemType
  <1>3. t = SetEntry(s, root, index, entry)
    BY DEF Copied
  <1> HIDE DEF entry, root
  <1>4. root \in Frames /\ root \notin Loaders /\ root \in s.info.bitmap /\ Blank(s, root)
    BY <1>0 DEF NewTop
  <1>5. t.info = s.info /\ t.mem = Written(s.mem, root, index, entry) /\ Sound(t) /\ t.mem \in MemType
    <2>1. /\ SetEntry(s, root, index, entry).info = s.info
          /\ SetEntry(s, root, index, entry).mem = Written(s.mem, root, index, entry)
          /\ Sound(SetEntry(s, root, index, entry))
      BY <1>0, <1>1, <1>2, <1>4, SetEntryEffect, SetEntrySound
    <2> QED
      BY <1>3, <2>1 DEF Sound, StateType
  <1>6. Managed(t, memmap)
    BY <1>0, <1>5 DEF Managed
  <1>7. \A i \in Indices : t.mem[root][i] = IF i = index THEN entry ELSE s.mem[root][i]
    BY <1>0, <1>1, <1>2, <1>4, <1>5, ReadBack
  <1>8. \A f \in Frames \ {root} : t.mem[f] = s.mem[f]
    BY <1>0, <1>1, <1>2, <1>4, <1>5, ReadBack
  <1>9. Intact(t)
    BY <1>0, <1>4, <1>5, <1>8, LoaderFrames DEF Intact
  <1>10. NewTop(t, root)
    BY <1>4, <1>5, <1>7 DEF NewTop, Blank
  <1>11. TakenOver(t, root, index)
    BY <1>1, <1>2, <1>7 DEF TakenOver
  <1> QED
    BY <1>6, <1>7, <1>9, <1>10, <1>11 DEF root

(* vmm_init copies the entries for data and code. *)
LEMMA CopyKeeps ==
  ASSUME IInv, copy_data \/ copy_code
  PROVE  IInv'
  <1> DEFINE h == Fanout \div 2
             l == Fanout - 1
             root == RootPageDirectory
  <1>0. /\ Looked /\ Pointed /\ Staged /\ Registers
        /\ pc \in {"copy_data", "copy_code"} /\ UNCHANGED <<loader, lookup>>
        /\ fb_base' = fb_base /\ memmap' = memmap /\ UNCHANGED paging
    BY DEF IInv, copy_data, copy_code, loader
  <1>1. Looked' /\ Pointed'
    BY <1>0, LookedKept, PointedKept
  <1>2. /\ \A p \in {root, kernel_cr3} : Reachable(s, cr3, p)
        /\ \A p \in Framebuffer : Reachable(s, cr3, p)
    <2>1. root \in Frames /\ kernel_cr3 \in Frames
      BY <1>0, LoaderTypes DEF Staged, NewTop, Registers, Building
    <2> QED
      BY <1>0, <2>1, Reaches, Drawn DEF Switched
  <1>3. h \in Indices /\ l \in Indices /\ h # l
    BY MachineAssumption, VmmOpsAssumption DEF Indices
  <1> HIDE DEF h, l
  <1>4. CASE copy_data
    <2>1. pc = "copy_data" /\ s' = Copied(h) /\ Goto("copy_code", {root, kernel_cr3})
      BY <1>4 DEF copy_data, h
    <2>2. pc' = "copy_code"
      BY <1>2, <2>1, GoesOn
    <2>3. Managed(s', memmap) /\ Intact(s') /\ NewTop(s', root) /\ TakenOver(s', root, h)
      BY <1>0, <2>1, CopyEffect DEF h
    <2>4. Staged'
      BY <1>0, <2>2, <2>3 DEF Staged, Starting, Building, Switched, paging, h
    <2>5. Registers'
      BY <1>0, <2>1, <2>2 DEF Registers, Building, Switched, paging
    <2> QED
      BY <1>1, <2>4, <2>5 DEF IInv
  <1>5. CASE copy_code
    <2>1. pc = "copy_code" /\ s' = Copied(l) /\ Goto("write_cr3", {root, kernel_cr3} \cup Framebuffer)
      BY <1>5 DEF copy_code, l
    <2>2. pc' = "write_cr3"
      BY <1>2, <2>1, GoesOn
    <2>3. /\ Managed(s', memmap) /\ Intact(s') /\ NewTop(s', root) /\ TakenOver(s', root, l)
          /\ \A i \in Indices \ {l} : s'.mem[root][i] = s.mem[root][i]
      BY <1>0, <2>1, CopyEffect DEF l
    <2>4. TakenOver(s', root, h)
      BY <1>0, <1>3, <2>1, <2>3 DEF Staged, TakenOver, h
    <2>5. Staged'
      BY <1>0, <2>2, <2>3, <2>4 DEF Staged, Starting, Building, Switched, paging, h, l
    <2>6. Registers'
      BY <1>0, <2>1, <2>2 DEF Registers, Building, Switched, paging
    <2> QED
      BY <1>1, <2>5, <2>6 DEF IInv
  <1> QED
    BY <1>4, <1>5

(* vmm_init loads CR3. *)
LEMMA WriteCr3Keeps ==
  ASSUME IInv, vmm_write_cr3
  PROVE  IInv'
  <1>0. /\ Looked /\ Pointed /\ Staged /\ Registers
        /\ pc = "write_cr3" /\ pc' = "report" /\ UNCHANGED <<loader, lookup>> /\ fb_base' = fb_base
        /\ s' = s /\ memmap' = memmap /\ cr3' = RootPageDirectory /\ RootPageDirectory' = RootPageDirectory
    BY DEF IInv, vmm_write_cr3, loader
  <1>1. Looked' /\ Pointed'
    BY <1>0, LookedKept, PointedKept
  <1>2. Staged'
    BY <1>0 DEF Staged, Starting, Building, Switched
  <1>3. Registers'
    BY <1>0 DEF Registers, Building, Switched
  <1> QED
    BY <1>1, <1>2, <1>3 DEF IInv

(* The invariant holds in every reachable state. *)
THEOREM Invariance == Spec => []IInv
  <1>1. IInv /\ [Step]_bootVars => IInv'
    <2>1. IInv /\ UNCHANGED bootVars => IInv'
      <3> SUFFICES ASSUME IInv, UNCHANGED bootVars
                   PROVE  IInv'
        OBVIOUS
      <3>1. UNCHANGED <<pc, type, tags, memmap, wanted, current_tag, found, fb_base, s, cr3, kernel_cr3,
                        RootPageDirectory>>
        BY DEF bootVars, loader, lookup, paging
      <3>2. Looked' /\ Pointed' /\ Registers'
        BY <3>1 DEF IInv, Looked, Pointed, Registers
      <3>3. Staged'
        BY <3>1 DEF IInv, Staged
      <3> QED
        BY <3>2, <3>3 DEF IInv
    <2> QED
      BY <2>1, LookupKeeps, DrawKeeps, PmmInitKeeps, ReadCr3Keeps, CreateRootKeeps, MapKernelKeeps,
         CopyKeeps, WriteCr3Keeps DEF Step, vmm_init
  <1> QED
    BY <1>1, InitIInv, PTL DEF Spec

-----------------------------------------------------------------------------
(***************************************************************************)
(* What the invariant implies.                                             *)
(***************************************************************************)
LEMMA InvTypeOK == IInv => TypeOK
  <1> SUFFICES ASSUME IInv
               PROVE  TypeOK
    OBVIOUS
  <1>0. Looked /\ Pointed /\ Staged /\ Registers /\ memmap \in MemMaps
    BY DEF IInv, Looked
  <1>1. Canonical(fb_base)
    <2>1. Canonical(phys_to_hh_data(FbFrame))
      <3>1. FbFrame \in 0 .. (Pages512G - 1)
        BY MachineAssumption
      <3> QED
        BY <3>1, DataPages
    <2>2. Canonical(0)
      <3>1. Pages256T >= 2
        <4>1. \A a, b \in Nat \ {0} : a >= 4 => a * b >= 2
          OBVIOUS
        <4> QED
          BY <4>1, Sizes, MachineAssumption, VmmOpsAssumption
      <3> QED
        BY <3>1, Sizes DEF Canonical
    <2> QED
      BY <1>0, <2>1, <2>2 DEF Pointed
  <1>2. s.info.usedpages \in 0 .. s.info.totalpages
    <2>1. PmmZero.usedpages \in 0 .. PmmZero.totalpages
      BY DEF PmmZero
    <2>2. PmmSized(memmap).usedpages \in 0 .. PmmSized(memmap).totalpages
      <3>1. TotalPages(memmap) \in Nat
        BY <1>0, MemMapAssumption, PageSizeAssumption DEF TotalPages
      <3> QED
        BY <3>1 DEF PmmSized
    <2>3. Managed(s, memmap) => s.info.usedpages \in 0 .. s.info.totalpages
      BY DEF Managed, Sound
    <2> QED
      BY <1>0, <2>1, <2>2, <2>3 DEF Staged
  <1>3. \A f \in Frames, k \in Indices : s.mem[f][k].frame \in Frames
    BY <1>0 DEF Staged, Intact, MemType, EntryType
  <1> QED
    BY <1>0, <1>1, <1>2, <1>3 DEF TypeOK, Looked, Registers

(* The invariant implies the properties. *)
LEMMA InvTags == IInv => TagsFoundBeforeUse
  <1> SUFFICES ASSUME IInv
               PROVE  TagsFoundBeforeUse
    OBVIOUS
  <1>1. found \subseteq {tags[k] : k \in DOMAIN tags}
    BY DEF IInv, Looked
  <1>2. CASE pc \in {"entry", "lookup", "hung"}
    BY <1>1, <1>2 DEF TagsFoundBeforeUse, Dereferenced
  <1>3. CASE pc \notin {"entry", "lookup", "hung"}
    <2>1. \A k \in 1 .. 8 : Required(Lookups[k]) => Lookups[k] \in found
      BY <1>3, LookupsIs DEF IInv, Looked
    <2>2. /\ Lookups[2] = "framebuffer" /\ Lookups[3] = "memmap"
          /\ Lookups[4] = "kernel_base_address" /\ Lookups[6] = "hhdm"
      BY DEF Lookups
    <2>3. {"framebuffer", "memmap", "kernel_base_address", "hhdm"} \subseteq found
      <3>1. 2 \in 1 .. 8 /\ 3 \in 1 .. 8 /\ 4 \in 1 .. 8 /\ 6 \in 1 .. 8
        OBVIOUS
      <3> QED
        BY <2>1, <2>2, <3>1 DEF Required, Terminal
    <2>4. Dereferenced \subseteq {"framebuffer", "memmap", "kernel_base_address", "hhdm"}
      BY DEF Dereferenced
    <2> QED
      BY <1>1, <2>3, <2>4 DEF TagsFoundBeforeUse
  <1> QED
    BY <1>2, <1>3

(* What the start uses is mapped where it was. *)
LEMMA InvSpace == IInv => SpaceKept
  <1> SUFFICES ASSUME IInv, NEW p \in InUse
               PROVE  /\ Reachable(s, cr3, p)
                      /\ Translate(s, cr3, Path(p)).frame = Translate(LoaderState, BootCR3, Path(p)).frame
    BY DEF SpaceKept, LoaderState
  <1>0. Looked /\ Pointed /\ Staged /\ Registers /\ memmap \in MemMaps
    BY DEF IInv, Looked
  <1>1. CASE p \in HH_CODE .. (HH_CODE + KernelPages - 1)
    <2>1. HH_CODE \in Int /\ KernelPages \in Int
      BY Sizes, MachineAssumption DEF HH_CODE, VPAGES
    <2>2. p - HH_CODE \in 0 .. (KernelPages - 1) /\ p = HH_CODE + (p - HH_CODE)
      BY <1>1, <2>1
    <2> QED
      BY <2>2, Reaches
  <1>2. CASE fb_base # 0 /\ p \in Framebuffer
    <2>1. fb_base = phys_to_hh_data(FbFrame)
      BY <1>0, <1>2 DEF Pointed
    <2> QED
      BY <1>2, <2>1, FramebufferFrames, Reaches
  <1>3. CASE s.info.bitmap_size # 0 /\ pc # "hung" /\ p \in BitmapPages(s.info)
    <2>1. pc \notin Starting
      BY <1>0, <1>3 DEF Staged, PmmZero
    <2>2. Managed(s, memmap)
      BY <1>0, <1>3, <2>1 DEF Staged
    <2>3. PICK f \in Frames : p = phys_to_hh_data(f)
      BY <1>0, <1>3, <2>2, BitmapFrames DEF Managed
    <2> QED
      BY <2>3, Reaches
  <1> QED
    BY <1>1, <1>2, <1>3 DEF InUse

(* The tables in use are marked. *)
LEMMA InvTables == IInv => LiveTablesTaken
  <1> SUFFICES ASSUME IInv, pc \in {"create_root"} \cup Building \cup Switched,
                      NEW f \in Tables(s, cr3)
               PROVE  f \in s.info.bitmap
    BY DEF LiveTablesTaken, Building, Switched
  <1>0. Looked /\ Staged /\ Registers /\ memmap \in MemMaps /\ Intact(s) /\ Managed(s, memmap)
    BY DEF IInv, Looked, Staged, Starting, Building, Switched
  <1>1. PICK v \in AllPages, d \in 1 .. 4 : Live(s, cr3, v, d) /\ f = TableOf(s, cr3, v, d)
    BY TablesAre
  <1>2. Loaders \subseteq s.info.bitmap
    BY <1>0, LoadersTaken
  <1>3. cr3 \in s.info.bitmap
    BY <1>0, <1>2, LoaderTypes DEF Registers, Staged, NewTop
  <1>4. CASE d = 1
    BY <1>1, <1>3, <1>4 DEF TableOf
  <1>5. CASE d # 1
    <2>1. s.mem[cr3][v[1]] = BootMem[BootCR3][v[1]]
      <3>1. CASE pc \in Switched
        <4>1. cr3 = RootPageDirectory
          BY <1>0, <3>1 DEF Registers
        <4>2. Leading(s.mem[cr3][v[1]]) /\ v[1] \in Indices
          <5>1. 1 \in 1 .. (d - 1)
            BY <1>5
          <5>2. Leading(EntryAt(s, cr3, v, 1))
            BY <1>1, <5>1 DEF Live
          <5> QED
            BY <5>2, EntryLevels DEF AllPages
        <4>3. v[1] \in {Fanout \div 2, Fanout - 1}
          <5>1. Blank(s, cr3)
            BY <1>0, <3>1, <4>1 DEF Staged, NewTop
          <5>2. ~ Leading(Zero)
            BY DEF Leading, Zero
          <5> QED
            BY <4>2, <5>1, <5>2 DEF Blank
        <4> QED
          BY <1>0, <3>1, <4>1, <4>3 DEF Staged, TakenOver
      <3>2. CASE pc \notin Switched
        BY <1>0, <3>2, LoaderTypes DEF Registers, Intact
      <3> QED
        BY <3>1, <3>2
    <2>2. f \in Loaders
      BY <1>0, <1>1, <1>5, <2>1, SameBelow
    <2> QED
      BY <1>2, <2>2
  <1> QED
    BY <1>4, <1>5

(* The start's variables keep their ranges: CR3 holds the address of a top *)
(* table, and the loader's pointers are canonical.                         *)
THEOREM TypeCorrect == Spec => []TypeOK
  BY Invariance, InvTypeOK, PTL

(* No address that the start works on, before, during and after vmm_init's *)
(* switch of CR3, is unmapped: no exception is raised.                     *)
THEOREM NoException == Spec => [](pc # "panic")
  <1>1. IInv => pc # "panic"
    BY DEF IInv, Staged, Starting, Building, Switched
  <1> QED
    BY <1>1, Invariance, PTL

(* _start uses no tag that stivale2_get_tag did not find, whatever the     *)
(* loader's list.                                                          *)
THEOREM TagsFirst == Spec => []TagsFoundBeforeUse
  BY Invariance, InvTags, PTL

(* Kernel, framebuffer and bitmap are mapped to the same frames at every   *)
(* moment, vmm_init's own tables and their loading included.               *)
THEOREM SpaceStays == Spec => []SpaceKept
  BY Invariance, InvSpace, PTL

(* The tables in use, the loader's among them, are marked in the bitmap    *)
(* that pmm_allocpage takes pages from.                                    *)
THEOREM TablesTaken == Spec => []LiveTablesTaken
  BY Invariance, InvTables, PTL
=============================================================================
