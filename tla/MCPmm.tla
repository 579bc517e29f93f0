------------------------------- MODULE MCPmm -------------------------------
(***************************************************************************)
(* Memory maps for TLC.  With pages of 4 bytes a map of a dozen pages has  *)
(* a bitmap of two bytes, one of whose bytes is partly padding.            *)
(***************************************************************************)
EXTENDS Pmm

Entry(base, length, type) == [base |-> base, length |-> length, type |-> type]

RESERVED == 2

(* Page frame 0 is usable; the last segment is the largest; the total is   *)
(* not a whole number of pages.                                            *)
LowMemoryMap == << Entry(0, 8, USABLE), Entry(8, 5, RESERVED),
                   Entry(16, 20, USABLE), Entry(36, 8, FRAMEBUFFER) >>

(* Page frame 0 is reserved; two segments tie for the largest. *)
NoLowMemoryMap == << Entry(0, 6, RESERVED), Entry(8, 12, USABLE),
                     Entry(20, 2, RESERVED), Entry(24, 12, USABLE),
                     Entry(36, 4, RESERVED) >>

(* A gap in the addresses: a usable frame lies beyond the bitmap's bits. *)
HoleMap == << Entry(4, 12, USABLE), Entry(64, 4, USABLE),
              Entry(96, 4, FRAMEBUFFER) >>

(* A bitmap of two bytes, and a last entry of one. *)
ShortTailMap == << Entry(0, 32, USABLE), Entry(32, 1, RESERVED) >>

AllMaps == {LowMemoryMap, NoLowMemoryMap, HoleMap, ShortTailMap}
=============================================================================
