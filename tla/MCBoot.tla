------------------------------- MODULE MCBoot -------------------------------
(***************************************************************************)
(* Tables of four entries: entry 0 identity, entry 2 the direct map, entry *)
(* 3 the kernel.  32 frames of 4 bytes: low memory in frames 0 to 4, the   *)
(* kernel in 8 to 12, the large usable segment (and in it the bitmap) in   *)
(* 13 to 23, the loader's tables in 24 to 27, the framebuffer in 28 to 31. *)
(***************************************************************************)
EXTENDS Boot

Entry3(base, length, typ) == [base |-> base, length |-> length, type |-> typ]

RESERVED    == 2
RECLAIMABLE == 4096
KERNEL      == 4097

PCMap == << Entry3(0, 20, USABLE), Entry3(20, 12, RESERVED), Entry3(32, 20, KERNEL),
            Entry3(52, 44, USABLE), Entry3(96, 16, RECLAIMABLE), Entry3(112, 16, FRAMEBUFFER) >>

(* A last entry too short for the bitmap. *)
ShortMap == << Entry3(0, 20, USABLE), Entry3(20, 12, RESERVED), Entry3(32, 20, KERNEL),
               Entry3(52, 44, USABLE), Entry3(96, 16, RECLAIMABLE), Entry3(112, 12, FRAMEBUFFER),
               Entry3(124, 4, RESERVED) >>

AllFrames == 0 .. 31

(* Direct map and identity map share a table of "1G" pages; the kernel is  *)
(* mapped in two "2M" pages, of which vmm_init maps the first itself.      *)
RW == {PRESENT, READWRITE}

LoaderTables ==
  LET Blank == [f \in AllFrames |-> [k \in Indices |-> [frame |-> 0, flags |-> RW]]]
  IN  [Blank EXCEPT
        ![24] = [k \in Indices |-> CASE k \in {0, 2} -> [frame |-> 25, flags |-> RW]
                                     [] k = 3 -> [frame |-> 26, flags |-> RW]
                                     [] OTHER -> Zero],
        ![25] = [k \in Indices |-> IF k < 2 THEN [frame |-> 16 * k, flags |-> RW \cup {PAGESIZE}]
                                   ELSE Zero],
        ![26] = [k \in Indices |-> IF k = 2 THEN [frame |-> 27, flags |-> RW] ELSE Zero],
        ![27] = [k \in Indices |-> IF k < 2 THEN [frame |-> 8 + 4 * k, flags |-> RW \cup {PAGESIZE}]
                                   ELSE Zero]]

(* Complete lists, forwards and backwards, and each tag left out, with one *)
(* the kernel does not know in front.                                      *)
Backwards == Reverse(Lookups)

Lists == {Lookups, Backwards, << >>} \cup
         {<< "smp" >> \o SelectSeq(Backwards, LAMBDA id : id # gone) :
            gone \in {Lookups[k] : k \in DOMAIN Lookups}}

Maps == {PCMap, ShortMap}
=============================================================================
