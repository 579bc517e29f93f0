----------------------------- MODULE PmmProofs -----------------------------
(***************************************************************************)
(* Proofs about the physical memory manager, for every page size and every *)
(* set of memory maps that MemMapAssumption admits.                        *)
(***************************************************************************)
EXTENDS Pmm, PmmOpsProofs

-----------------------------------------------------------------------------
(* The sizes pmm_init computes are naturals and the bitmap is not empty. *)
LEMMA Sizes ==
  ASSUME NEW map \in MemMaps
  PROVE  /\ TotalPages(map) \in Nat
         /\ BitmapSize(map) \in Nat \ {0}
         /\ UsablePages(map) \in 1 .. TotalPages(map)
  <1>1. TotalMem(map) \in Nat /\ UsablePages(map) \in 1 .. TotalPages(map)
    BY MemMapAssumption
  <1>2. TotalPages(map) \in Nat
    BY <1>1, PageSizeAssumption DEF TotalPages
  <1>3. BitmapSize(map) \in Nat \ {0}
    BY <1>2 DEF BitmapSize
  <1> QED
    BY <1>1, <1>2, <1>3

-----------------------------------------------------------------------------
(***************************************************************************)
(* The inductive invariant.                                                *)
(***************************************************************************)
(* Before the manager is ready nobody holds a page; afterwards the sizes   *)
(* are those of the memory map.                                            *)
PhaseInv ==
  /\ phase # "ready" => held = {}
  /\ phase = "ready" => /\ pmm_info.bitmap_size = BitmapSize(memmap)
                        /\ pmm_info.totalpages = TotalPages(memmap)

(* There are finitely many held pages, and each was counted as used. *)
HeldInv == /\ IsFiniteSet(HeldFrames)
           /\ Cardinality(HeldFrames) <= pmm_info.usedpages

(* An intact bitmap has a zero bit exactly for the usable frames it covers *)
(* that are neither the NULL page nor held.                                *)
BitmapInv ==
  phase = "ready" /\ intact =>
    LET covered == (UsableFrames(memmap) \cap Bits(pmm_info.bitmap_size)) \ {0}
    IN  /\ HeldFrames \subseteq covered
        /\ Bits(pmm_info.bitmap_size) \ pmm_info.bitmap = covered \ HeldFrames

(* The counter agrees with the held pages when the bitmap covers the map. *)
CountInv ==
  phase = "ready" /\ intact /\ StrayBits(memmap) = {} =>
    pmm_info.usedpages = TotalPages(memmap) - UsablePages(memmap) + 1
                           + Cardinality(HeldFrames)

IInv == TypeOK /\ PhaseInv /\ HeldInv /\ BitmapInv /\ CountInv

(* The initial states satisfy the invariant. *)
LEMMA InitIInv == Init => IInv
  <1> SUFFICES ASSUME Init
               PROVE  IInv
    OBVIOUS
  <1>1. HeldFrames = {}
    BY DEF Init, HeldFrames
  <1>2. TypeOK
    BY DEF Init, TypeOK, PmmZero, Bits
  <1>3. HeldInv
    BY <1>1, FS_EmptySet DEF Init, HeldInv, PmmZero
  <1> QED
    BY <1>2, <1>3 DEF Init, IInv, PhaseInv, BitmapInv, CountInv

(* pmm_init establishes the bitmap and the counter, or hangs. *)
LEMMA InitStep == IInv /\ pmm_init => IInv'
  <1> SUFFICES ASSUME IInv, pmm_init
               PROVE  IInv'
    OBVIOUS
  <1>1. memmap \in MemMaps /\ memmap' = memmap /\ held = {} /\ held' = {}
    BY DEF IInv, TypeOK, PhaseInv, pmm_init
  <1>2. HeldFrames' = {} /\ HeldFrames = {}
    BY <1>1 DEF HeldFrames
  <1>3. IsFiniteSet({}) /\ Cardinality({}) = 0
    BY FS_EmptySet
  <1>4. /\ TotalPages(memmap) \in Nat
        /\ BitmapSize(memmap) \in Nat \ {0}
        /\ UsablePages(memmap) \in 1 .. TotalPages(memmap)
        /\ TotalMem(memmap) \in Nat
        /\ LargestSegment(memmap).base \in Nat
    BY <1>1, Sizes, MemMapAssumption
  <1>5. CASE phase' = "hung" /\ pmm_info' = PmmSized(memmap)
    <2>2. TypeOK'
      BY <1>1, <1>4, <1>5 DEF PmmSized, TypeOK, IInv, pmm_init, Bits
    <2>3. HeldInv'
      BY <1>2, <1>3, <1>4, <1>5 DEF PmmSized, HeldInv
    <2> QED
      BY <1>1, <1>5, <2>2, <2>3 DEF IInv, PhaseInv, BitmapInv, CountInv
  <1>6. CASE phase' = "ready" /\ pmm_info' = PmmReady(memmap)
    <2>2. /\ InitialBitmap(memmap) \subseteq Bits(BitmapSize(memmap))
          /\ InitialBitmap(memmap) \in SUBSET Nat
      BY <1>4 DEF InitialBitmap, bitmap_set, Bits
    <2>3. TypeOK'
      BY <1>1, <1>4, <1>6, <2>2 DEF PmmReady, TypeOK, IInv, pmm_init
    <2>4. HeldInv'
      BY <1>2, <1>3, <1>4, <1>6 DEF PmmReady, HeldInv
    <2>5. BitmapInv'
      BY <1>1, <1>2, <1>4, <1>6 DEF PmmReady, BitmapInv, InitialBitmap, bitmap_set
    <2>6. CountInv'
      BY <1>1, <1>2, <1>3, <1>4, <1>6 DEF PmmReady, CountInv
    <2>7. PhaseInv'
      BY <1>1, <1>6 DEF PmmReady, PhaseInv
    <2> QED
      BY <2>3, <2>4, <2>5, <2>6, <2>7 DEF IInv
  <1> QED
    BY <1>5, <1>6 DEF pmm_init

(* The frames held after one more page is granted; NULL grants nothing. *)
LEMMA GrantFrame ==
  ASSUME NEW f \in Nat, held' = held \cup ({f * PAGE_SIZE} \ {NULL})
  PROVE  /\ f = 0 => held' = held /\ HeldFrames' = HeldFrames
         /\ f # 0 => HeldFrames' = HeldFrames \cup {f}
  <1>1. f * PAGE_SIZE \in Nat /\ (f * PAGE_SIZE) \div PAGE_SIZE = f
    BY FrameOfAddress
  <1>2. f = 0 => f * PAGE_SIZE = NULL
    BY PageSizeAssumption DEF NULL
  <1>3. f # 0 => f * PAGE_SIZE # NULL
    BY PageSizeAssumption, <1>1 DEF NULL
  <1> QED
    BY <1>1, <1>2, <1>3 DEF HeldFrames

(* The frames held after a page is given back. *)
LEMMA ReturnFrame ==
  ASSUME TypeOK, NEW page \in held, held' = held \ {page}
  PROVE  HeldFrames' = HeldFrames \ {page \div PAGE_SIZE}
  <1>1. ASSUME NEW q \in held, q # page
        PROVE  q \div PAGE_SIZE # page \div PAGE_SIZE
    BY <1>1, AddressOfFrame DEF TypeOK
  <1> QED
    BY <1>1 DEF HeldFrames

(* pmm_allocpage keeps the invariant: the bit it sets is that of an unheld *)
(* usable frame, and it never counts a page that it does not grant.        *)
LEMMA AllocStep == IInv /\ AllocPage => IInv'
  <1> SUFFICES ASSUME IInv, AllocPage
               PROVE  IInv'
    OBVIOUS
  <1> DEFINE size == pmm_info.bitmap_size
             unset == Bits(size) \ pmm_info.bitmap
  <1>1. /\ phase = "ready" /\ phase' = phase /\ memmap' = memmap
        /\ intact' = intact /\ pmm_vmm_info' = pmm_vmm_info
        /\ memmap \in MemMaps
        /\ size = BitmapSize(memmap) /\ size \in Nat \ {0}
        /\ pmm_info.totalpages = TotalPages(memmap)
    BY Sizes DEF AllocPage, IInv, TypeOK, PhaseInv
  <1>2. CASE pmm_info.usedpages >= pmm_info.totalpages
    <2>1. pmm_info' = pmm_info /\ held' = held
      BY <1>2, AllocFull DEF AllocPage
    <2>2. HeldFrames' = HeldFrames
      BY <2>1 DEF HeldFrames
    <2> QED
      BY <1>1, <2>1, <2>2
         DEF IInv, TypeOK, PhaseInv, HeldInv, BitmapInv, CountInv
  <1>3. CASE ~ (pmm_info.usedpages >= pmm_info.totalpages)
    <2>1. PICK f \in Bits(size) :
            /\ IF unset = {} THEN f = 0 ELSE f \in unset
            /\ pmm_allocpage(pmm_info).page = f * PAGE_SIZE
            /\ pmm_allocpage(pmm_info).info =
                 [pmm_info EXCEPT !.bitmap = pmm_info.bitmap \cup {f},
                                  !.usedpages = pmm_info.usedpages + 1]
      BY <1>1, <1>3, AllocEffect
    <2>2. f \in Nat
      BY <2>1, <1>1 DEF Bits
    <2>3. /\ pmm_info' = [pmm_info EXCEPT !.bitmap = pmm_info.bitmap \cup {f},
                                          !.usedpages = pmm_info.usedpages + 1]
          /\ held' = held \cup ({f * PAGE_SIZE} \ {NULL})
      BY <2>1 DEF AllocPage
    <2>4. /\ pmm_info'.bitmap = pmm_info.bitmap \cup {f}
          /\ pmm_info'.usedpages = pmm_info.usedpages + 1
          /\ pmm_info'.totalpages = pmm_info.totalpages
          /\ pmm_info'.bitmap_size = size
          /\ pmm_info' \in [totalmem : Nat, usedpages : Nat, totalpages : Nat,
                             bitmap : SUBSET Nat, bitmap_base : Nat,
                             bitmap_size : Nat]
      <3>1. pmm_info \in [totalmem : Nat, usedpages : Nat, totalpages : Nat,
                          bitmap : SUBSET Nat, bitmap_base : Nat,
                          bitmap_size : Nat]
        BY DEF IInv, TypeOK
      <3>2. pmm_info.bitmap \cup {f} \in SUBSET Nat
        BY <2>2, <3>1
      <3>3. pmm_info.usedpages + 1 \in Nat
        BY <3>1
      <3> QED
        BY <2>3, <3>1, <3>2, <3>3
    <2>5. TypeOK'
      BY <1>1, <1>3, <2>1, <2>2, <2>3, <2>4, FrameOfAddress DEF IInv, TypeOK
    <2>6. /\ f = 0 => HeldFrames' = HeldFrames
          /\ f # 0 => HeldFrames' = HeldFrames \cup {f}
      BY <2>2, <2>3, GrantFrame
    <2>7. /\ IsFiniteSet(HeldFrames')
          /\ f \in HeldFrames \/ f = 0 => Cardinality(HeldFrames') = Cardinality(HeldFrames)
          /\ f \notin HeldFrames /\ f # 0 =>
                Cardinality(HeldFrames') = Cardinality(HeldFrames) + 1
      BY <2>6, FS_AddElement DEF IInv, HeldInv
    <2>8. Cardinality(HeldFrames) \in Nat /\ pmm_info.usedpages \in Nat
      BY FS_CardinalityType DEF IInv, HeldInv, TypeOK
    <2>9. HeldInv'
      <3>1. Cardinality(HeldFrames') <= Cardinality(HeldFrames) + 1
        BY <2>7, <2>8
      <3>2. Cardinality(HeldFrames) <= pmm_info.usedpages
        BY DEF IInv, HeldInv
      <3> QED
        BY <2>4, <2>7, <2>8, <3>1, <3>2 DEF HeldInv
    <2>10. PhaseInv'
      BY <1>1, <2>4 DEF PhaseInv
    <2>11. BitmapInv'
      BY <1>1, <2>1, <2>4, <2>6 DEF IInv, BitmapInv
    <2>12. CountInv'
      <3> SUFFICES ASSUME intact, StrayBits(memmap) = {}
                   PROVE  pmm_info'.usedpages =
                            TotalPages(memmap) - UsablePages(memmap) + 1
                              + Cardinality(HeldFrames')
        BY <1>1 DEF CountInv
      <3> DEFINE usable == UsableFrames(memmap)
      <3>1. /\ IsFiniteSet(usable) /\ Cardinality(usable) = UsablePages(memmap)
            /\ UsablePages(memmap) \in Nat /\ TotalPages(memmap) \in Nat
        BY <1>1, Sizes, MemMapAssumption
      <3>2. /\ HeldFrames \subseteq usable \ {0}
            /\ unset = (usable \ {0}) \ HeldFrames
        BY <1>1 DEF IInv, BitmapInv, StrayBits
      <3>3. pmm_info.usedpages = TotalPages(memmap) - UsablePages(memmap) + 1
                                   + Cardinality(HeldFrames)
        BY <1>1 DEF IInv, CountInv
      <3>4. unset # {}
        <4> SUFFICES ASSUME unset = {}
                     PROVE  FALSE
          OBVIOUS
        <4>1. HeldFrames = usable \ {0}
          BY <3>2
        <4>2. Cardinality(HeldFrames) >= Cardinality(usable) - 1
          <5>1. Cardinality(usable \ {0}) =
                  IF 0 \in usable THEN Cardinality(usable) - 1 ELSE Cardinality(usable)
            BY <3>1, FS_RemoveElement
          <5> QED
            BY <3>1, <4>1, <5>1
        <4> QED
          BY <1>1, <1>3, <2>8, <3>1, <3>3, <4>2
      <3>5. f # 0 /\ f \notin HeldFrames
        BY <2>1, <3>2, <3>4
      <3> QED
        BY <2>4, <2>7, <2>8, <3>1, <3>3, <3>5
    <2> QED
      BY <2>5, <2>9, <2>10, <2>11, <2>12 DEF IInv
  <1> QED
    BY <1>2, <1>3

(* pmm_freepage of a held page keeps the invariant. *)
LEMMA FreeStep == ASSUME IInv, NEW page \in held, FreePage(page)
                  PROVE  IInv'
  <1> DEFINE f == page \div PAGE_SIZE
  <1>1. /\ phase = "ready" /\ phase' = phase /\ memmap' = memmap
        /\ intact' = intact /\ memmap \in MemMaps
        /\ held' = held \ {page}
        /\ pmm_info' = [pmm_info EXCEPT !.bitmap = pmm_info.bitmap \ {f},
                                        !.usedpages = pmm_info.usedpages - 1]
    BY DEF FreePage, pmm_freepage, bitmap_unset, IInv, TypeOK
  <1>2. HeldFrames' = HeldFrames \ {f} /\ f \in HeldFrames
    <2>1. HeldFrames' = HeldFrames \ {f}
      BY <1>1, ReturnFrame DEF IInv
    <2> QED
      BY <2>1 DEF HeldFrames
  <1>3. /\ IsFiniteSet(HeldFrames')
        /\ Cardinality(HeldFrames') = Cardinality(HeldFrames) - 1
    BY <1>2, FS_RemoveElement DEF IInv, HeldInv
  <1>4. /\ Cardinality(HeldFrames) \in Nat /\ Cardinality(HeldFrames') \in Nat
        /\ pmm_info.usedpages \in Nat
        /\ Cardinality(HeldFrames) <= pmm_info.usedpages
    BY <1>3, FS_CardinalityType DEF IInv, HeldInv, TypeOK
  <1>5. pmm_info.usedpages - 1 \in Nat
    BY <1>3, <1>4
  <1>6. /\ pmm_info'.bitmap = pmm_info.bitmap \ {f}
        /\ pmm_info'.usedpages = pmm_info.usedpages - 1
        /\ pmm_info'.totalpages = pmm_info.totalpages
        /\ pmm_info'.bitmap_size = pmm_info.bitmap_size
        /\ pmm_info' \in [totalmem : Nat, usedpages : Nat, totalpages : Nat,
                           bitmap : SUBSET Nat, bitmap_base : Nat,
                           bitmap_size : Nat]
    <2>1. pmm_info \in [totalmem : Nat, usedpages : Nat, totalpages : Nat,
                        bitmap : SUBSET Nat, bitmap_base : Nat,
                        bitmap_size : Nat]
      BY DEF IInv, TypeOK
    <2>2. pmm_info.bitmap \ {f} \in SUBSET Nat
      BY <2>1
    <2> QED
      BY <1>1, <1>5, <2>1, <2>2
  <1>7. TypeOK'
    BY <1>1, <1>5, <1>6 DEF IInv, TypeOK
  <1>8. HeldInv'
    BY <1>3, <1>4, <1>6 DEF HeldInv
  <1>9. PhaseInv'
    BY <1>1, <1>6 DEF IInv, PhaseInv
  <1>10. BitmapInv'
    BY <1>1, <1>2, <1>6 DEF IInv, BitmapInv
  <1>11. CountInv'
    <2> SUFFICES ASSUME intact, StrayBits(memmap) = {}
                 PROVE  pmm_info'.usedpages =
                          TotalPages(memmap) - UsablePages(memmap) + 1
                            + Cardinality(HeldFrames')
      BY <1>1 DEF CountInv
    <2>1. pmm_info.usedpages = TotalPages(memmap) - UsablePages(memmap) + 1
                                 + Cardinality(HeldFrames)
      BY <1>1 DEF IInv, CountInv
    <2>2. UsablePages(memmap) \in Nat /\ TotalPages(memmap) \in Nat
      BY <1>1, Sizes
    <2> QED
      BY <1>3, <1>4, <1>6, <2>1, <2>2
  <1> QED
    BY <1>7, <1>8, <1>9, <1>10, <1>11 DEF IInv

(* A client that clears a page either misses the bitmap or ends its being  *)
(* intact.                                                                 *)
LEMMA ClearStep == ASSUME IInv, NEW page \in held, ClearPage(page)
                   PROVE  IInv'
  <1> DEFINE hit == BitsStoredIn(pmm_info, page \div PAGE_SIZE)
  <1>1. /\ phase = "ready" /\ phase' = phase /\ memmap' = memmap
        /\ held' = held /\ intact' = (intact /\ hit = {})
        /\ pmm_info' = [pmm_info EXCEPT !.bitmap = pmm_info.bitmap \ hit]
    BY DEF ClearPage
  <1>2. HeldFrames' = HeldFrames
    BY <1>1 DEF HeldFrames
  <1> HIDE DEF hit
  <1>3. /\ pmm_info'.bitmap = pmm_info.bitmap \ hit
        /\ pmm_info'.usedpages = pmm_info.usedpages
        /\ pmm_info'.totalpages = pmm_info.totalpages
        /\ pmm_info'.bitmap_size = pmm_info.bitmap_size
        /\ pmm_info' \in [totalmem : Nat, usedpages : Nat, totalpages : Nat,
                           bitmap : SUBSET Nat, bitmap_base : Nat,
                           bitmap_size : Nat]
    <2>1. pmm_info \in [totalmem : Nat, usedpages : Nat, totalpages : Nat,
                        bitmap : SUBSET Nat, bitmap_base : Nat,
                        bitmap_size : Nat]
      BY DEF IInv, TypeOK
    <2>2. pmm_info.bitmap \ hit \in SUBSET Nat
      BY <2>1
    <2> QED
      BY <1>1, <2>1, <2>2
  <1>4. TypeOK'
    BY <1>1, <1>3 DEF IInv, TypeOK
  <1>5. HeldInv' /\ PhaseInv'
    BY <1>1, <1>2, <1>3 DEF IInv, HeldInv, PhaseInv
  <1>6. BitmapInv' /\ CountInv'
    <2>1. CASE hit = {}
      BY <1>1, <1>2, <1>3, <2>1 DEF IInv, BitmapInv, CountInv
    <2>2. CASE hit # {}
      BY <1>1, <2>2 DEF BitmapInv, CountInv
    <2> QED
      BY <2>1, <2>2
  <1> QED
    BY <1>4, <1>5, <1>6 DEF IInv

-----------------------------------------------------------------------------
(* The invariant holds in every reachable state of the manager. *)
THEOREM Invariance == Spec => []IInv
  <1>1. IInv /\ [Next]_vars => IInv'
    <2> SUFFICES ASSUME IInv, [Next]_vars
                 PROVE  IInv'
      OBVIOUS
    <2>1. CASE pmm_init
      BY <2>1, InitStep
    <2>2. CASE AllocPage
      BY <2>2, AllocStep
    <2>3. CASE \E page \in held : FreePage(page) \/ ClearPage(page)
      BY <2>3, FreeStep, ClearStep
    <2>4. CASE Hang \/ UNCHANGED vars
      <3>1. UNCHANGED vars
        BY <2>4 DEF Hang
      <3>2. HeldFrames' = HeldFrames
        BY <3>1 DEF vars, HeldFrames
      <3> QED
        BY <3>1, <3>2
           DEF vars, IInv, TypeOK, PhaseInv, HeldInv, BitmapInv, CountInv
    <2> QED
      BY <2>1, <2>2, <2>3, <2>4 DEF Next
  <1> QED
    BY InitIInv, <1>1, PTL DEF Spec

(* Every variable keeps its type, the used page counter included: it stays *)
(* between zero and the total through any sequence of calls.               *)
THEOREM TypeCorrect == Spec => []TypeOK
  <1>1. IInv => TypeOK
    BY DEF IInv
  <1> QED
    BY <1>1, Invariance, PTL

(* Until a client writes into the bitmap, a held page is marked in it: no  *)
(* page is given to two clients at once.                                   *)
THEOREM HeldMarked == Spec => []HeldPagesMarked
  <1>1. IInv => HeldPagesMarked
    <2> SUFFICES ASSUME IInv, intact, NEW f \in HeldFrames
                 PROVE  f \in pmm_info.bitmap
      BY DEF HeldPagesMarked
    <2>1. phase = "ready"
      BY DEF IInv, PhaseInv, HeldFrames
    <2> QED
      BY <2>1 DEF IInv, BitmapInv
  <1> QED
    BY <1>1, Invariance, PTL

(* As long as nobody overwrites the bitmap, pmm_allocpage gives out only   *)
(* usable memory other than the NULL page.                                 *)
THEOREM UsableOnly == Spec => []OnlyUsableHeld
  <1>1. IInv => OnlyUsableHeld
    <2> SUFFICES ASSUME IInv, intact, NEW f \in HeldFrames
                 PROVE  f \in UsableFrames(memmap) \ {0}
      BY DEF OnlyUsableHeld
    <2>1. phase = "ready"
      BY DEF IInv, PhaseInv, HeldFrames
    <2> QED
      BY <2>1 DEF IInv, BitmapInv
  <1> QED
    BY <1>1, Invariance, PTL

(* On a memory map whose usable frames the bitmap covers, the free memory  *)
(* reported is that of the usable pages not held, less one page.           *)
THEOREM FreeMemory == Spec => []FreeMemoryExact
  <1>1. IInv => FreeMemoryExact
    <2> SUFFICES ASSUME IInv, phase = "ready", intact, StrayBits(memmap) = {}
                 PROVE  pmm_get_free_memory(pmm_info) =
                          PAGE_SIZE * (Cardinality(UsableFrames(memmap) \ HeldFrames) - 1)
      BY DEF FreeMemoryExact
    <2> DEFINE usable == UsableFrames(memmap)
    <2>1. memmap \in MemMaps
      BY DEF IInv, TypeOK
    <2>2. /\ IsFiniteSet(usable) /\ Cardinality(usable) = UsablePages(memmap)
          /\ UsablePages(memmap) \in Nat /\ TotalPages(memmap) \in Nat
      BY <2>1, Sizes, MemMapAssumption
    <2>3. /\ HeldFrames \subseteq usable
          /\ pmm_info.totalpages = TotalPages(memmap)
          /\ pmm_info.usedpages = TotalPages(memmap) - UsablePages(memmap) + 1
                                     + Cardinality(HeldFrames)
      BY DEF IInv, BitmapInv, CountInv, PhaseInv
    <2>4. usable \cap HeldFrames = HeldFrames
      BY <2>3
    <2>5. Cardinality(usable \ HeldFrames) = Cardinality(usable) - Cardinality(HeldFrames)
      <3> HIDE DEF usable
      <3>1. Cardinality(usable \ HeldFrames) =
              Cardinality(usable) - Cardinality(usable \cap HeldFrames)
        BY <2>2, FS_Difference
      <3> QED
        BY <2>4, <3>1
    <2>6. Cardinality(HeldFrames) \in Nat
      BY FS_CardinalityType DEF IInv, HeldInv
    <2>7. pmm_info.totalpages - pmm_info.usedpages =
            Cardinality(usable \ HeldFrames) - 1
      BY <2>2, <2>3, <2>5, <2>6
    <2>8. Cardinality(usable \ HeldFrames) - 1 \in Int
      BY <2>2, <2>5, <2>6
    <2> QED
      BY <2>7, <2>8, PageSizeAssumption DEF pmm_get_free_memory
  <1> QED
    BY <1>1, Invariance, PTL
=============================================================================
