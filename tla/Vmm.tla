-------------------------------- MODULE Vmm --------------------------------
(***************************************************************************)
(* Page tables at work: the kernel maps and unmaps pages of the address    *)
(* space under RootPageDirectory while the tables come, one page at a      *)
(* time, from the physical memory manager.                                 *)
(*                                                                         *)
(* This is the component on its own, in the address space it is written    *)
(* for (physical memory mapped to itself, as the boot loader's tables do). *)
(***************************************************************************)
EXTENDS VmmOps

CONSTANTS
  MemMap,               \* the boot loader's memory map
  Pages4K,              \* virtual pages clients map with vmm_map_4Kpage
  Regions2M,            \* <<index4, index3, index2>> for vmm_map_2Mpage
  Regions1G,            \* <<index4, index3>> for vmm_map_1Gpage
  Targets,              \* page frames they map them to
  Permissions           \* the flags they pass

(* What memory is, and the sizes pmm_init computes from the map, with a    *)
(* page for the top table.                                                 *)
ASSUME MapAssumption ==
  /\ UsableFrames(MemMap) \subseteq Frames
  /\ TotalMem(MemMap) \in Nat /\ LargestSegment(MemMap).base \in Nat
  /\ UsablePages(MemMap) \in 2 .. TotalPages(MemMap)
  /\ (UsableFrames(MemMap) \cap Bits(BitmapSize(MemMap))) \ {0} # {}

(* What clients pass. *)
ASSUME CallsAssumption ==
  /\ Pages4K \subseteq AllPages
  /\ Regions2M \subseteq Indices \X Indices \X Indices
  /\ Regions1G \subseteq Indices \X Indices
  /\ Targets \subseteq Frames
  /\ Permissions \subseteq SUBSET {PRESENT, READWRITE}
  /\ \A flags \in Permissions : PRESENT \in flags

(* They map no region inside another one: vmm_get_pagemap takes a large    *)
(* page for a table, and a table is lost when a large page replaces it.    *)
ASSUME RegionsApart ==
  /\ \A v \in Pages4K : <<v[1], v[2], v[3]>> \notin Regions2M /\ <<v[1], v[2]>> \notin Regions1G
  /\ \A v \in Regions2M : <<v[1], v[2]>> \notin Regions1G

(* They map a large page to frames aligned to its size, for the code does  *)
(* not see to it: vmm_map_1Gpage masks no bits of the address it is given, *)
(* and vmm_map_2Mpage only those below 4K.                                 *)
TargetsAt(d) == {frame \in Targets : frame % Span(d) = 0}

(* They all pass the same flags (PTE_PRESENT | PTE_READWRITE in the code): *)
(* a table keeps the flags of the call that created it.                    *)
ASSUME OnePermission == \A f, g \in Permissions : f = g

VARIABLES
  s,                    \* [info, mem, exhausted]
  RootPageDirectory     \* the frame of the top table

vars == <<s, RootPageDirectory>>

(* Memory not yet given out holds anything: at worst, present entries. *)
Garbage == [f \in Frames |-> [i \in Indices |->
             [frame |-> 0, flags |-> {PRESENT, READWRITE}]]]

(* vmm_init's RootPageDirectory = vmm_create_page_table(). *)
Init ==
  LET c == vmm_create_page_table([info |-> PmmReady(MemMap), mem |-> Garbage,
                                  exhausted |-> FALSE])
  IN  s = c.s /\ RootPageDirectory = c.table

Map4K(v, frame, flags) ==
  /\ s' = vmm_map_4Kpage(s, RootPageDirectory, v, frame, flags)
  /\ UNCHANGED RootPageDirectory

Map2M(v, frame, flags) ==
  /\ s' = vmm_map_2Mpage(s, RootPageDirectory, v, frame, flags)
  /\ UNCHANGED RootPageDirectory

Map1G(v, frame, flags) ==
  /\ s' = vmm_map_1Gpage(s, RootPageDirectory, v, frame, flags)
  /\ UNCHANGED RootPageDirectory

Unmap(v) ==
  /\ s' = vmm_unmap_page(s, RootPageDirectory, v)
  /\ UNCHANGED RootPageDirectory

(* A page has been made a table that must not be one: page frame 0, for    *)
(* want of another, or one that holds the bitmap, which the manager gives  *)
(* out like any other (see BitmapNotAvailable in Pmm).                     *)
BitmapFrames ==
  {(LargestSegment(MemMap).base + b) \div PAGE_SIZE : b \in 0 .. (BitmapSize(MemMap) - 1)}

Spoilt(t) == t.exhausted \/ BitmapFrames \cap (t.info.bitmap \ InitialBitmap(MemMap)) # {}

(* The callers' calls.  Nothing is said of what follows such a page.       *)
Next ==
  /\ ~ Spoilt(s)
  /\ \/ \E flags \in Permissions :
          \/ \E v \in Pages4K, frame \in Targets : Map4K(v, frame, flags)
          \/ \E v \in Regions2M, frame \in TargetsAt(3) : Map2M(v, frame, flags)
          \/ \E v \in Regions1G, frame \in TargetsAt(2) : Map1G(v, frame, flags)
     \/ \E v \in Pages4K : Unmap(v)

Spec == Init /\ [][Next]_vars

-----------------------------------------------------------------------------
(* What the processor makes of the tables (VmmOps). *)
Translation == TranslationIn(s, RootPageDirectory)

-----------------------------------------------------------------------------
(* Types; and bit 7, which is PAGESIZE in the tables above level 1 and PAT *)
(* in level 1, is never set in the latter.                                 *)
TypeOK ==
  /\ RootPageDirectory \in Frames
  /\ s.info.usedpages \in 0 .. s.info.totalpages
  /\ \A f \in Frames, i \in Indices :
       /\ s.mem[f][i].frame \in Frames
       /\ s.mem[f][i].flags \subseteq {PRESENT, READWRITE, PAGESIZE}
  /\ \A v \in AllPages : ~ Spoilt(s) /\
       LeafLevel(s, RootPageDirectory, v) = 4 /\ IsMapped(s, RootPageDirectory, v) =>
         PAGESIZE \notin EntryAt(s, RootPageDirectory, v, 4).flags

(* The tables form a tree: no page serves as a table in two places, and    *)
(* none that is a table can be given out again by pmm_allocpage.           *)
TablesFormATree ==
  ~ Spoilt(s) =>
    /\ \A q, r \in TablePaths(s, RootPageDirectory) :
         TableAt(s, RootPageDirectory, q) = TableAt(s, RootPageDirectory, r) => q = r
    /\ Tables(s, RootPageDirectory) \subseteq s.info.bitmap

(* No page is lost: every page taken for a table can be reached from the   *)
(* root, so what pmm_info counts as used is the tables and what was not    *)
(* free to begin with.                                                     *)
NoTableLost ==
  ~ Spoilt(s) =>
    s.info.usedpages = PmmReady(MemMap).usedpages + Cardinality(Tables(s, RootPageDirectory))

(* The virtual pages below a path, with their offsets in its region. *)
Region(q) == [v \in {v \in AllPages : SubSeq(v, 1, Len(q)) = q} |-> OffsetIn(v, Len(q))]

A == INSTANCE AddressSpace WITH
       trans   <- Translation,
       Regions <- {Region(q) : q \in Pages4K \cup Regions2M \cup Regions1G}

(* The page tables implement AddressSpace: whatever tables a call has to   *)
(* create, the processor's view changes in one step, at the pages the call *)
(* is about.                                                               *)
ImplementsAddressSpace == A!Init /\ [][Spoilt(s') \/ A!Next]_Translation

(* Every call does what its arguments say: from any state, mapping gives   *)
(* just the pages of the region the frames and flags asked for, and        *)
(* unmapping takes just the one page away.  Large pages are asked for at   *)
(* aligned frames, and nothing is said of calls that find no page.         *)
MapsAsAsked ==
  LET Done(t, region, frame, flags) ==
        Spoilt(t) \/ TranslationIn(t, RootPageDirectory) = A!Mapped(Translation, region, frame, flags)
  IN  ~ Spoilt(s) =>
        /\ \A flags \in Permissions :
             /\ \A v \in Pages4K, frame \in Targets :
                  Done(vmm_map_4Kpage(s, RootPageDirectory, v, frame, flags),
                       Region(v), frame, flags)
             /\ \A v \in Regions2M, frame \in TargetsAt(3) :
                  Done(vmm_map_2Mpage(s, RootPageDirectory, v, frame, flags),
                       Region(v), frame, flags)
             /\ \A v \in Regions1G, frame \in TargetsAt(2) :
                  Done(vmm_map_1Gpage(s, RootPageDirectory, v, frame, flags),
                       Region(v), frame, flags)
        /\ \A v \in Pages4K :
             TranslationIn(vmm_unmap_page(s, RootPageDirectory, v), RootPageDirectory) =
                A!Unmapped(Translation, v)

(* vmm_pagewalk agrees with the processor on the pages mapped 4K at a time.*)
PagewalkAgrees ==
  \A v \in Pages4K : IsMapped(s, RootPageDirectory, v) /\ ~ Spoilt(s) =>
    vmm_pagewalk(s, RootPageDirectory, v) = Translation[v].frame

(* "If it's null, we can't continue" (vmm.c, vmm_create_page_table): no    *)
(* entry of a table leads to page frame 0.                                 *)
NullIsNoTable == NULL \notin Tables(s, RootPageDirectory)
=============================================================================
