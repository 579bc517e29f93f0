-------------------------------- MODULE Pmm --------------------------------
(***************************************************************************)
(* The physical memory manager at work: pmm_init builds the bitmap from    *)
(* the boot loader's memory map, then clients (the page table code and the *)
(* heap's page hook) take single pages, write to them and give them back.  *)
(* PmmOps holds the operations themselves.                                 *)
(***************************************************************************)
EXTENDS PmmOps

CONSTANT MemMaps        \* the memory maps the boot loader may pass

(***************************************************************************)
(* What stivale2 promises of a memory map: it has entries, and its usable  *)
(* entries are page aligned and do not overlap.  The proofs use it in this *)
(* form: the usable pages the second loop counts are distinct frames, and  *)
(* they are part of the total.                                             *)
(***************************************************************************)
ASSUME MemMapAssumption ==
  \A map \in MemMaps :
    /\ Len(map) > 0
    /\ UsableFrames(map) \subseteq Nat
    /\ IsFiniteSet(UsableFrames(map))
    /\ UsablePages(map) = Cardinality(UsableFrames(map))
    /\ TotalMem(map) \in Nat
    /\ LargestSegment(map).base \in Nat
    /\ UsablePages(map) \in 1 .. TotalPages(map)

VARIABLES
  phase,          \* "boot", "ready", or "hung" in pmm_init's for(;;)
  memmap,         \* boot_info.tag_memmap
  pmm_info,
  pmm_vmm_info,   \* the framebuffer's place, for vmm_init
  held,           \* ghost: the addresses of the pages clients hold
  intact          \* ghost: no client has written to the bitmap's bytes

vars == <<phase, memmap, pmm_info, pmm_vmm_info, held, intact>>

HeldFrames == {page \div PAGE_SIZE : page \in held}

(* The bits that lie in the bytes of page frame f. *)
BitsStoredIn(info, f) ==
  {b \in Bits(info.bitmap_size) :
     (info.bitmap_base + b \div 8) \div PAGE_SIZE = f}

Init ==
  /\ phase = "boot"
  /\ memmap \in MemMaps
  /\ pmm_info = PmmZero
  /\ pmm_vmm_info = [fb_base |-> 0, fb_size |-> 0]
  /\ held = {}
  /\ intact = TRUE

pmm_init_uncounted ==
  /\ phase = "boot"
  /\ pmm_vmm_info' = FramebufferInfo(memmap)
  /\ \/ BitmapTooLarge(memmap) /\ phase' = "hung" /\ pmm_info' = PmmSized(memmap)
     \/ /\ ~ BitmapTooLarge(memmap) /\ phase' = "ready"
        /\ pmm_info' = [PmmReady(memmap) EXCEPT !.usedpages = @ - 1]
  /\ UNCHANGED <<memmap, held, intact>>

pmm_init ==
  /\ phase = "boot"
  /\ pmm_vmm_info' = FramebufferInfo(memmap)
  /\ \/ BitmapTooLarge(memmap) /\ phase' = "hung"  /\ pmm_info' = PmmSized(memmap)
     \/ ~ BitmapTooLarge(memmap) /\ phase' = "ready" /\ pmm_info' = PmmReady(memmap)
  /\ UNCHANGED <<memmap, held, intact>>

(* for(;;){} after "Bitmap too large". *)
Hang == phase = "hung" /\ UNCHANGED vars

(* A client calls pmm_allocpage and keeps the page unless it is NULL. *)
AllocPage ==
  /\ phase = "ready"
  /\ LET r == pmm_allocpage(pmm_info)
     IN  /\ pmm_info' = r.info
         /\ held' = held \cup ({r.page} \ {NULL})
  /\ UNCHANGED <<phase, memmap, pmm_vmm_info, intact>>

(* A client gives back a page it holds. *)
FreePage(page) ==
  /\ phase = "ready"
  /\ pmm_info' = pmm_freepage(pmm_info, page)
  /\ held' = held \ {page}
  /\ UNCHANGED <<phase, memmap, pmm_vmm_info, intact>>

(* A client clears a page it holds, as vmm_create_page_table does with     *)
(* every page it gets: the bits kept in that page are cleared with it.     *)
ClearPage(page) ==
  LET hit == BitsStoredIn(pmm_info, page \div PAGE_SIZE)
  IN  /\ phase = "ready"
      /\ pmm_info' = [pmm_info EXCEPT !.bitmap = @ \ hit]
      /\ intact' = (intact /\ hit = {})
      /\ UNCHANGED <<phase, memmap, pmm_vmm_info, held>>

Next ==
  \/ pmm_init
  \/ Hang
  \/ AllocPage
  \/ \E page \in held : FreePage(page) \/ ClearPage(page)

Spec == Init /\ [][Next]_vars

-----------------------------------------------------------------------------
(* Type correctness; the page counters never leave the naturals, and the   *)
(* used pages never outnumber the pages (pmm_get_free_memory would wrap).  *)
TypeOK ==
  /\ phase \in {"boot", "ready", "hung"}
  /\ memmap \in MemMaps
  /\ pmm_info \in [totalmem : Nat, usedpages : Nat, totalpages : Nat,
                    bitmap : SUBSET Nat, bitmap_base : Nat, bitmap_size : Nat]
  /\ pmm_info.bitmap \subseteq Bits(pmm_info.bitmap_size)
  /\ pmm_info.usedpages <= pmm_info.totalpages
  /\ intact \in BOOLEAN
  /\ \A page \in held : page \in Nat /\ page % PAGE_SIZE = 0

(* As long as nobody overwrites the bitmap, every page a client holds is   *)
(* marked, so pmm_allocpage cannot give it to a second client.             *)
HeldPagesMarked == intact => HeldFrames \subseteq pmm_info.bitmap

(* As long as nobody overwrites the bitmap, every page given out lies in   *)
(* usable memory of the memory map and is not the NULL page: neither       *)
(* reserved memory nor the padding bits of the last bitmap byte ever leave *)
(* pmm_allocpage.                                                          *)
OnlyUsableHeld == intact => HeldFrames \subseteq UsableFrames(memmap) \ {0}

(* pmm_get_free_memory is exact, less the one page set aside as the NULL   *)
(* page: what it reports can really be allocated, call after call.  (When  *)
(* the map has holes the counter covers frames the bitmap does not.)       *)
FreeMemoryExact ==
  phase = "ready" /\ intact /\ StrayBits(memmap) = {} =>
    pmm_get_free_memory(pmm_info) =
      PAGE_SIZE * (Cardinality(UsableFrames(memmap) \ HeldFrames) - 1)

(* "unset bitmap for available memory" (pmm.c, pmm_init): memory is        *)
(* available when nothing lives in it, so no client may be given a page    *)
(* that holds the bitmap itself.                                           *)
BitmapNotAvailable == \A f \in HeldFrames : BitsStoredIn(pmm_info, f) = {}

(* "Size of Bitmap, in bytes" (pmm.h): bits are changed only within that   *)
(* many bytes.                                                             *)
BitsWithinBitmap ==
  phase = "ready" => UsableFrames(memmap) \subseteq Bits(pmm_info.bitmap_size)
=============================================================================
