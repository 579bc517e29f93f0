------------------------------- MODULE MCVmm -------------------------------
(***************************************************************************)
(* Page tables of two entries, so that 16 virtual pages exist, in a memory *)
(* of 24 page frames.                                                      *)
(***************************************************************************)
EXTENDS Vmm

Entry3(base, length, type) == [base |-> base, length |-> length, type |-> type]

(* Frames 0 .. 7 and 10 .. 23 are usable, the bitmap is in 10: just enough *)
(* below it for the tables of the pages that follow.                       *)
RoomyMap == << Entry3(0, 32, USABLE), Entry3(32, 8, FRAMEBUFFER), Entry3(40, 56, USABLE) >>

(* Frames 0 .. 3 are usable: the fourth table finds no page. *)
TightMap == << Entry3(0, 16, USABLE), Entry3(16, 48, FRAMEBUFFER) >>

AllFrames == 0 .. 23

(* Two pages, in tables beside one another. *)
SmallPages == {<<0, 0, 0, 0>>, <<0, 0, 1, 0>>}

MediumRegions == {<<0, 1, 0>>}

LargeRegions == {<<1, 1>>}

WritableOnly == {{PRESENT, READWRITE}}
=============================================================================
