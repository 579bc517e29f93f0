---------------------------- MODULE VmmOpsProofs ----------------------------
(***************************************************************************)
(* Facts about the page table code of VmmOps, for every number of entries  *)
(* in a table and every memory, that the proofs of its callers share.      *)
(***************************************************************************)
EXTENDS VmmOps, PmmOpsProofs

(* The sets that pmm_info, memory and the state of VmmOps range over. *)
InfoType == [totalmem : Nat, usedpages : Int, totalpages : Int,
             bitmap : SUBSET Nat, bitmap_base : Nat, bitmap_size : Nat]

EntryType == [frame : Frames, flags : SUBSET {PRESENT, READWRITE, PAGESIZE}]

MemType == [Frames -> [Indices -> EntryType]]

StateType == [info : InfoType, mem : MemType, exhausted : BOOLEAN]

(* The frames that pmm_allocpage may still give out, and pmm_info when it  *)
(* has given out one of them.                                              *)
Unset(info) == Bits(info.bitmap_size) \ info.bitmap

Marked(info, f) == [info EXCEPT !.bitmap = @ \cup {f}, !.usedpages = @ + 1]

(* The manager is ready, and what it may give out is memory. *)
Sound(s) ==
  /\ s \in StateType
  /\ s.info.bitmap_size # 0 /\ Unset(s.info) \subseteq Frames /\ 0 \in s.info.bitmap
  /\ s.info.usedpages \in 0 .. s.info.totalpages

(* A page for a table was wanted when there was none. *)
Short(s) == s.exhausted

(* Memory with a table cleared, and with an entry written. *)
Wiped(m, t) == [m EXCEPT ![t] = Clear]

Written(m, t, i, entry) == [m EXCEPT ![t][i] = entry]

-----------------------------------------------------------------------------
(***************************************************************************)
(* The walk.                                                               *)
(***************************************************************************)
(* Each entry lies in the frame that the one above names. *)
LEMMA EntryLevels ==
  ASSUME NEW s, NEW root, NEW v
  PROVE  /\ EntryAt(s, root, v, 1) = s.mem[root][v[1]]
         /\ EntryAt(s, root, v, 2) = s.mem[EntryAt(s, root, v, 1).frame][v[2]]
         /\ EntryAt(s, root, v, 3) = s.mem[EntryAt(s, root, v, 2).frame][v[3]]
         /\ EntryAt(s, root, v, 4) = s.mem[EntryAt(s, root, v, 3).frame][v[4]]
  <1> DEFINE e1 == s.mem[root][v[1]]
             e2 == s.mem[e1.frame][v[2]]
             e3 == s.mem[e2.frame][v[3]]
  <1> HIDE DEF e1, e2, e3
  <1>1. EntryAt(s, root, v, 1) = e1
    BY DEF EntryAt, e1
  <1>2. EntryAt(s, root, v, 2) = e2
    BY DEF EntryAt, e1, e2
  <1>3. EntryAt(s, root, v, 3) = e3
    <2>1. (CASE 3 = 1 -> root [] 3 = 2 -> e1.frame [] 3 = 3 -> e2.frame [] 3 = 4 -> e3.frame) = e2.frame
      OBVIOUS
    <2> QED
      BY <2>1, Zenon DEF EntryAt, e1, e2, e3
  <1>4. EntryAt(s, root, v, 4) = s.mem[e3.frame][v[4]]
    <2>1. (CASE 4 = 1 -> root [] 4 = 2 -> e1.frame [] 4 = 3 -> e2.frame [] 4 = 4 -> e3.frame) = e3.frame
      OBVIOUS
    <2> QED
      BY <2>1, Zenon DEF EntryAt, e1, e2, e3
  <1> QED
    BY <1>1, <1>2, <1>3, <1>4 DEF e1, e2, e3

(* The walk ends at the first entry with PAGESIZE, or at level 1. *)
LEMMA LeafLevelIs ==
  ASSUME NEW s, NEW root, NEW v
  PROVE  LeafLevel(s, root, v) =
           IF PAGESIZE \in EntryAt(s, root, v, 2).flags THEN 2
           ELSE IF PAGESIZE \in EntryAt(s, root, v, 3).flags THEN 3 ELSE 4
  <1> DEFINE P(d) == IsLeaf(s, root, v, d) /\ \A k \in 2 .. (d - 1) : ~ IsLeaf(s, root, v, k)
             leaf == IF PAGESIZE \in EntryAt(s, root, v, 2).flags THEN 2
                     ELSE IF PAGESIZE \in EntryAt(s, root, v, 3).flags THEN 3 ELSE 4
  <1>1. leaf \in 2 .. 4 /\ P(leaf)
    BY DEF IsLeaf
  <1>2. \A d \in 2 .. 4 : P(d) => d = leaf
    BY DEF IsLeaf
  <1>3. LeafLevel(s, root, v) = CHOOSE d \in 2 .. 4 : P(d)
    BY DEF LeafLevel
  <1> HIDE DEF P, leaf
  <1>4. (CHOOSE d \in 2 .. 4 : P(d)) = leaf
    BY <1>1, <1>2
  <1> QED
    BY <1>3, <1>4 DEF leaf

(* The entries down to the leaf are present. *)
LEMMA PresentIs ==
  ASSUME NEW s, NEW root, NEW v
  PROVE  IsPresent(s, root, v) <=>
           /\ PRESENT \in EntryAt(s, root, v, 1).flags
           /\ PRESENT \in EntryAt(s, root, v, 2).flags
           /\ \/ PAGESIZE \in EntryAt(s, root, v, 2).flags
              \/ /\ PRESENT \in EntryAt(s, root, v, 3).flags
                 /\ \/ PAGESIZE \in EntryAt(s, root, v, 3).flags
                    \/ PRESENT \in EntryAt(s, root, v, 4).flags
  <1>1. CASE PAGESIZE \in EntryAt(s, root, v, 2).flags
    <2>1. LeafLevel(s, root, v) = 2
      BY <1>1, LeafLevelIs
    <2> QED
      BY <1>1, <2>1 DEF IsPresent
  <1>2. CASE PAGESIZE \notin EntryAt(s, root, v, 2).flags /\ PAGESIZE \in EntryAt(s, root, v, 3).flags
    <2>1. LeafLevel(s, root, v) = 3
      BY <1>2, LeafLevelIs
    <2> QED
      BY <1>2, <2>1 DEF IsPresent
  <1>3. CASE PAGESIZE \notin EntryAt(s, root, v, 2).flags /\ PAGESIZE \notin EntryAt(s, root, v, 3).flags
    <2>1. LeafLevel(s, root, v) = 4
      BY <1>3, LeafLevelIs
    <2> QED
      BY <1>3, <2>1 DEF IsPresent
  <1> QED
    BY <1>1, <1>2, <1>3

-----------------------------------------------------------------------------
(***************************************************************************)
(* Tables from pmm_allocpage.                                              *)
(***************************************************************************)
(* A cleared table is one. *)
LEMMA ClearTable == Zero \in EntryType /\ Clear \in [Indices -> EntryType]
  BY VmmOpsAssumption DEF Zero, Clear, EntryType

(* Writing an entry changes memory there and nowhere else. *)
LEMMA SetEntryEffect ==
  ASSUME NEW s \in StateType, NEW table \in Frames, NEW index \in Indices, NEW entry \in EntryType
  PROVE  /\ SetEntry(s, table, index, entry) \in StateType
         /\ SetEntry(s, table, index, entry).info = s.info
         /\ Short(SetEntry(s, table, index, entry)) <=> Short(s)
         /\ SetEntry(s, table, index, entry).mem = Written(s.mem, table, index, entry)
  <1>1. [s.mem EXCEPT ![table][index] = entry] \in MemType
    <2>1. s.mem \in MemType
      BY DEF StateType
    <2>2. [s.mem[table] EXCEPT ![index] = entry] \in [Indices -> EntryType]
      BY <2>1 DEF MemType
    <2> QED
      BY <2>1, <2>2 DEF MemType
  <1>2. SetEntry(s, table, index, entry).exhausted = s.exhausted
    BY DEF SetEntry, StateType
  <1> QED
    BY <1>1, <1>2 DEF SetEntry, StateType, Written, Short

(* What is read back. *)
LEMMA ReadBack ==
  ASSUME NEW m \in MemType, NEW t \in Frames, NEW i \in Indices, NEW entry \in EntryType,
         NEW u \in Frames, NEW j \in Indices
  PROVE  /\ Written(m, t, i, entry) \in MemType /\ Wiped(m, t) \in MemType
         /\ Written(m, t, i, entry)[u][j] = IF u = t /\ j = i THEN entry ELSE m[u][j]
         /\ Wiped(m, t)[u][j] = IF u = t THEN Zero ELSE m[u][j]
         /\ u # t => Written(m, t, i, entry)[u] = m[u] /\ Wiped(m, t)[u] = m[u]
  <1>1. [m[t] EXCEPT ![i] = entry] \in [Indices -> EntryType] /\ Clear \in [Indices -> EntryType]
    BY ClearTable DEF MemType
  <1>2. Written(m, t, i, entry) = [m EXCEPT ![t] = [m[t] EXCEPT ![i] = entry]]
    BY DEF Written, MemType
  <1>3. Written(m, t, i, entry) \in MemType /\ Wiped(m, t) \in MemType
    BY <1>1, <1>2 DEF MemType, Wiped
  <1>4. Written(m, t, i, entry)[u] = IF u = t THEN [m[t] EXCEPT ![i] = entry] ELSE m[u]
    BY <1>2 DEF MemType
  <1>5. Wiped(m, t)[u] = IF u = t THEN Clear ELSE m[u]
    BY DEF MemType, Wiped
  <1>6. Written(m, t, i, entry)[u][j] = IF u = t /\ j = i THEN entry ELSE m[u][j]
    BY <1>4 DEF MemType
  <1>7. Wiped(m, t)[u][j] = IF u = t THEN Zero ELSE m[u][j]
    BY <1>5 DEF Clear
  <1> QED
    BY <1>3, <1>4, <1>5, <1>6, <1>7

(* pmm_init leaves the usable frames free, but for the NULL page. *)
LEMMA ReadyInfo ==
  ASSUME NEW map, TotalMem(map) \in Nat, LargestSegment(map).base \in Nat, UsablePages(map) \in Int
  PROVE  /\ TotalPages(map) \in Nat /\ BitmapSize(map) \in Nat \ {0} /\ PmmReady(map) \in InfoType
         /\ PmmReady(map).usedpages = TotalPages(map) - UsablePages(map) + 1
         /\ PmmReady(map).totalpages = TotalPages(map)
         /\ PmmReady(map).bitmap_base = LargestSegment(map).base
         /\ PmmReady(map).bitmap_size = BitmapSize(map)
         /\ PmmReady(map).bitmap = (Bits(BitmapSize(map)) \ UsableFrames(map)) \cup {0}
         /\ Unset(PmmReady(map)) = (UsableFrames(map) \cap Bits(BitmapSize(map))) \ {0}
  <1>1. TotalPages(map) \in Nat
    BY PageSizeAssumption DEF TotalPages
  <1>2. BitmapSize(map) \in Nat \ {0}
    BY <1>1 DEF BitmapSize
  <1>3. InitialBitmap(map) = (Bits(BitmapSize(map)) \ UsableFrames(map)) \cup {0}
    BY DEF InitialBitmap, bitmap_set
  <1>4. InitialBitmap(map) \in SUBSET Nat
    BY <1>2, <1>3 DEF Bits
  <1>5. /\ PmmReady(map).usedpages = TotalPages(map) - UsablePages(map) + 1
        /\ PmmReady(map).totalpages = TotalPages(map)
        /\ PmmReady(map).bitmap_base = LargestSegment(map).base
        /\ PmmReady(map).bitmap_size = BitmapSize(map)
        /\ PmmReady(map).bitmap = InitialBitmap(map)
    BY DEF PmmReady
  <1>6. PmmReady(map) \in InfoType
    <2>1. TotalPages(map) - UsablePages(map) + 1 \in Int /\ TotalPages(map) \in Int /\ BitmapSize(map) \in Nat
      BY <1>1, <1>2
    <2> QED
      BY <1>4, <2>1 DEF PmmReady, InfoType
  <1>7. Unset(PmmReady(map)) = (UsableFrames(map) \cap Bits(BitmapSize(map))) \ {0}
    BY <1>3, <1>5 DEF Unset
  <1> QED
    BY <1>1, <1>2, <1>3, <1>5, <1>6, <1>7

(* vmm_create_page_table marks and clears a page that was free, or reports *)
(* that there was none.                                                    *)
LEMMA CreateTable ==
  ASSUME NEW s, Sound(s), NEW c, c = vmm_create_page_table(s)
  PROVE  /\ Sound(c.s) /\ c.table \in Frames
         /\ \/ /\ s.info.usedpages < s.info.totalpages
               /\ c.table \in Unset(s.info) /\ c.table # 0
               /\ c.s.info = Marked(s.info, c.table)
               /\ Short(c.s) <=> Short(s)
               /\ c.s.mem = Wiped(s.mem, c.table)
            \/ /\ Unset(s.info) = {} \/ s.info.usedpages >= s.info.totalpages
               /\ c.table = 0 /\ Short(c.s) /\ c.s.mem = s.mem
  <1> DEFINE r == pmm_allocpage(s.info)
             f == r.page \div PAGE_SIZE
  <1>0. /\ s \in StateType /\ s.info \in InfoType /\ s.mem \in MemType /\ s.exhausted \in BOOLEAN
        /\ s.info.bitmap_size \in Nat \ {0} /\ s.info.usedpages \in Int /\ s.info.totalpages \in Int
        /\ Unset(s.info) \subseteq Frames /\ 0 \in s.info.bitmap
        /\ s.info.usedpages \in 0 .. s.info.totalpages
    BY DEF Sound, StateType, InfoType
  <1>1. c.table = f
    BY DEF vmm_create_page_table
  <1>2. c.s = [s EXCEPT !.info = r.info, !.exhausted = @ \/ r.page = NULL,
                        !.mem = IF r.page = NULL THEN @ ELSE [@ EXCEPT ![f] = Clear]]
    BY DEF vmm_create_page_table
  <1> HIDE DEF r, f
  <1>3. /\ c.s.info = r.info /\ c.s.exhausted = (s.exhausted \/ r.page = NULL)
        /\ c.s.mem = IF r.page = NULL THEN s.mem ELSE [s.mem EXCEPT ![f] = Clear]
        /\ c.s = [info |-> c.s.info, mem |-> c.s.mem, exhausted |-> c.s.exhausted]
    BY <1>0, <1>2 DEF StateType
  <1>6. Short(c.s) <=> Short(s) \/ r.page = NULL
    BY <1>3, Zenon DEF Short
  <1>4. CASE s.info.usedpages >= s.info.totalpages
    <2>1. r.info = s.info /\ r.page = NULL
      BY <1>4, AllocFull DEF r
    <2>2. f = 0
      BY <2>1, PageSizeAssumption DEF f, NULL
    <2>3. c.s \in StateType
      BY <1>0, <1>3, <2>1 DEF StateType
    <2>4. Sound(c.s)
      BY <1>0, <1>3, <2>1, <2>3 DEF Sound
    <2> QED
      BY <1>1, <1>3, <1>4, <1>6, <2>1, <2>2, <2>4, VmmOpsAssumption
  <1>5. CASE ~ (s.info.usedpages >= s.info.totalpages)
    <2>1. PICK bit \in Bits(s.info.bitmap_size) :
            /\ IF Unset(s.info) = {} THEN bit = 0 ELSE bit \in Unset(s.info)
            /\ r.page = bit * PAGE_SIZE
            /\ r.info = [s.info EXCEPT !.bitmap = s.info.bitmap \cup {bit},
                                       !.usedpages = s.info.usedpages + 1]
      BY <1>0, <1>5, AllocEffect DEF r, Unset
    <2>2. bit \in Nat
      BY <1>0 DEF Bits
    <2>3. f = bit
      BY <2>1, <2>2, FrameOfAddress DEF f
    <2>4. r.page = NULL <=> bit = 0
      BY <2>1, <2>2, <2>3, FrameOfAddress, PageSizeAssumption DEF NULL, f
    <2>5. r.info \in InfoType
      <3>1. s.info.bitmap \cup {bit} \in SUBSET Nat /\ s.info.usedpages + 1 \in Int
        BY <1>0, <2>2 DEF InfoType
      <3> QED
        BY <1>0, <2>1, <3>1 DEF InfoType
    <2>6. /\ r.info.bitmap_size = s.info.bitmap_size /\ r.info.bitmap = s.info.bitmap \cup {bit}
          /\ r.info.totalpages = s.info.totalpages /\ r.info.usedpages = s.info.usedpages + 1
      BY <1>0, <2>1 DEF InfoType
    <2>7. /\ r.info.bitmap_size # 0 /\ Unset(r.info) \subseteq Frames /\ 0 \in r.info.bitmap
          /\ r.info.usedpages \in 0 .. r.info.totalpages
      <3>1. Unset(r.info) \subseteq Unset(s.info)
        BY <2>6 DEF Unset
      <3> QED
        BY <1>0, <1>5, <2>6, <3>1
    <2>8. CASE Unset(s.info) = {}
      <3>1. bit = 0 /\ r.page = NULL
        BY <2>1, <2>4, <2>8
      <3>2. c.s \in StateType
        BY <1>0, <1>3, <2>5, <3>1 DEF StateType
      <3>3. Sound(c.s)
        BY <1>3, <2>7, <3>2 DEF Sound
      <3> QED
        BY <1>1, <1>3, <1>6, <2>3, <2>8, <3>1, <3>3, VmmOpsAssumption
    <2>9. CASE Unset(s.info) # {}
      <3>1. bit \in Unset(s.info) /\ bit # 0 /\ bit \in Frames /\ r.page # NULL
        BY <1>0, <2>1, <2>4, <2>9 DEF Unset
      <3>2. [s.mem EXCEPT ![f] = Clear] \in MemType
        BY <1>0, ClearTable DEF MemType
      <3>3. c.s \in StateType
        BY <1>0, <1>3, <2>5, <3>1, <3>2 DEF StateType
      <3>4. r.info = Marked(s.info, bit) /\ c.s.mem = Wiped(s.mem, f)
        BY <1>3, <2>1, <3>1 DEF Marked, Wiped
      <3>5. Sound(c.s)
        BY <1>3, <2>7, <3>3 DEF Sound
      <3> QED
        BY <1>0, <1>1, <1>3, <1>5, <1>6, <2>3, <3>1, <3>4, <3>5
    <2> QED
      BY <2>8, <2>9
  <1> QED
    BY <1>0, <1>4, <1>5

(* Writing an entry leaves the manager as it is. *)
LEMMA SetEntrySound ==
  ASSUME NEW s, Sound(s), NEW table \in Frames, NEW index \in Indices, NEW entry \in EntryType
  PROVE  Sound(SetEntry(s, table, index, entry))
  BY SetEntryEffect DEF Sound

(* vmm_get_pagemap goes down, or creates a table and links it. *)
LEMMA GetPagemap ==
  ASSUME NEW s, Sound(s),
         NEW pagemap \in Frames, NEW index \in Indices, NEW flags \in SUBSET {PRESENT, READWRITE, PAGESIZE},
         NEW g, g = vmm_get_pagemap(s, pagemap, index, flags)
  PROVE  /\ Sound(g.s) /\ g.table \in Frames /\ (Short(s) => Short(g.s))
         /\ \/ /\ PRESENT \in s.mem[pagemap][index].flags
               /\ g.s = s /\ g.table = s.mem[pagemap][index].frame
            \/ /\ PRESENT \notin s.mem[pagemap][index].flags
               /\ g.table \in Unset(s.info) /\ g.table # 0
               /\ g.s.info = Marked(s.info, g.table)
               /\ Short(g.s) <=> Short(s)
               /\ g.s.mem = Written(Wiped(s.mem, g.table), pagemap, index,
                                    [frame |-> g.table, flags |-> flags])
            \/ /\ PRESENT \notin s.mem[pagemap][index].flags
               /\ Unset(s.info) = {} \/ s.info.usedpages >= s.info.totalpages
               /\ g.table = 0 /\ Short(g.s)
  <1>1. CASE PRESENT \in s.mem[pagemap][index].flags
    <2>1. g.s = s /\ g.table = s.mem[pagemap][index].frame
      BY <1>1 DEF vmm_get_pagemap
    <2>2. s.mem[pagemap][index].frame \in Frames
      BY DEF Sound, StateType, MemType, EntryType
    <2> QED
      BY <1>1, <2>1, <2>2
  <1>2. CASE PRESENT \notin s.mem[pagemap][index].flags
    <2> DEFINE c == vmm_create_page_table(s)
               entry == [frame |-> c.table, flags |-> flags]
    <2>1. g.s = SetEntry(c.s, pagemap, index, entry) /\ g.table = c.table
      BY <1>2 DEF vmm_get_pagemap
    <2> HIDE DEF c
    <2>2. /\ Sound(c.s) /\ c.table \in Frames
          /\ \/ /\ c.table \in Unset(s.info) /\ c.table # 0
                /\ c.s.info = Marked(s.info, c.table)
                /\ Short(c.s) <=> Short(s)
                /\ c.s.mem = Wiped(s.mem, c.table)
             \/ /\ Unset(s.info) = {} \/ s.info.usedpages >= s.info.totalpages
                /\ c.table = 0 /\ Short(c.s) /\ c.s.mem = s.mem
      BY CreateTable DEF c
    <2>3. entry \in EntryType
      BY <2>2 DEF EntryType
    <2> HIDE DEF entry
    <2>4. /\ SetEntry(c.s, pagemap, index, entry).info = c.s.info
          /\ Short(SetEntry(c.s, pagemap, index, entry)) <=> Short(c.s)
          /\ SetEntry(c.s, pagemap, index, entry).mem = Written(c.s.mem, pagemap, index, entry)
      <3>1. c.s \in StateType
        BY <2>2 DEF Sound
      <3> QED
        BY <2>3, <3>1, SetEntryEffect
    <2>5. Sound(SetEntry(c.s, pagemap, index, entry))
      <3>1. Sound(c.s)
        BY <2>2
      <3> QED
        BY <2>3, <3>1, SetEntrySound
    <2> QED
      BY <1>2, <2>1, <2>2, <2>4, <2>5 DEF entry
  <1> QED
    BY <1>1, <1>2

-----------------------------------------------------------------------------
(***************************************************************************)
(* The tables, along the walks to pages.                                   *)
(***************************************************************************)
(* The table a walk is in at depth d, whether it got there through present *)
(* entries that lead to tables, and walks that are the same so far.        *)
TableOf(s, root, v, d) == IF d = 1 THEN root ELSE EntryAt(s, root, v, d - 1).frame

Leading(entry) == PRESENT \in entry.flags /\ PAGESIZE \notin entry.flags

Live(s, root, v, d) == \A k \in 1 .. (d - 1) : Leading(EntryAt(s, root, v, k))

Same(v, w, d) == \A k \in 1 .. d : v[k] = w[k]

(* Tables form a tree: the same page is the table of walks that agree.     *)
Tree(s, root) ==
  \A v \in AllPages, w \in AllPages, d \in 1 .. 4, e \in 1 .. 4 :
    Live(s, root, v, d) /\ Live(s, root, w, e) /\ TableOf(s, root, v, d) = TableOf(s, root, w, e)
      => d = e /\ Same(v, w, d - 1)

(* The walk depends on the indices down to the entry it is at. *)
LEMMA EntryPrefix ==
  ASSUME NEW s, NEW root, NEW v, NEW w, NEW d \in 1 .. 4, \A k \in 1 .. d : v[k] = w[k]
  PROVE  EntryAt(s, root, v, d) = EntryAt(s, root, w, d)
  <1>1. EntryAt(s, root, v, 1) = EntryAt(s, root, w, 1)
    BY EntryLevels
  <1>2. d >= 2 => EntryAt(s, root, v, 2) = EntryAt(s, root, w, 2)
    BY <1>1, EntryLevels
  <1>3. d >= 3 => EntryAt(s, root, v, 3) = EntryAt(s, root, w, 3)
    BY <1>2, EntryLevels
  <1>4. d >= 4 => EntryAt(s, root, v, 4) = EntryAt(s, root, w, 4)
    BY <1>3, EntryLevels
  <1> QED
    BY <1>1, <1>2, <1>3, <1>4

(* A walk, step by step. *)
LEMMA WalkStep ==
  ASSUME NEW s, NEW root, NEW v, NEW d \in 1 .. 4
  PROVE  EntryAt(s, root, v, d) = s.mem[TableOf(s, root, v, d)][v[d]]
  <1>1. CASE d = 1
    BY <1>1, EntryLevels DEF TableOf
  <1>2. CASE d = 2
    BY <1>2, EntryLevels DEF TableOf
  <1>3. CASE d = 3
    BY <1>3, EntryLevels DEF TableOf
  <1>4. CASE d = 4
    BY <1>4, EntryLevels DEF TableOf
  <1> QED
    BY <1>1, <1>2, <1>3, <1>4

(* From one level to the next. *)
LEMMA LiveStep ==
  ASSUME NEW s, NEW root, NEW v, NEW d \in 1 .. 3
  PROVE  /\ Live(s, root, v, 1)
         /\ Live(s, root, v, d + 1) <=> Live(s, root, v, d) /\ Leading(EntryAt(s, root, v, d))
         /\ TableOf(s, root, v, 1) = root
         /\ TableOf(s, root, v, d + 1) = EntryAt(s, root, v, d).frame
  <1>1. \A k \in 1 .. d : k \in 1 .. (d - 1) \/ k = d
    OBVIOUS
  <1>2. d \in 1 .. d /\ \A k \in 1 .. (d - 1) : k \in 1 .. d
    OBVIOUS
  <1>3. Live(s, root, v, d + 1) <=> \A k \in 1 .. d : Leading(EntryAt(s, root, v, k))
    BY DEF Live
  <1>4. Live(s, root, v, d + 1) <=> Live(s, root, v, d) /\ Leading(EntryAt(s, root, v, d))
    BY <1>1, <1>2, <1>3 DEF Live
  <1> QED
    BY <1>4 DEF Live, TableOf

(* Walks that agree so far are in the same table. *)
LEMMA SameTable ==
  ASSUME NEW s, NEW root, NEW v, NEW w, NEW d \in 1 .. 4, Same(v, w, d - 1)
  PROVE  /\ TableOf(s, root, v, d) = TableOf(s, root, w, d)
         /\ Live(s, root, v, d) <=> Live(s, root, w, d)
  <1>1. ASSUME NEW k \in 1 .. (d - 1)
        PROVE  EntryAt(s, root, v, k) = EntryAt(s, root, w, k)
    <2>1. k \in 1 .. 4 /\ \A j \in 1 .. k : v[j] = w[j]
      BY DEF Same
    <2> QED
      BY <2>1, EntryPrefix
  <1>2. TableOf(s, root, v, d) = TableOf(s, root, w, d)
    BY <1>1 DEF TableOf
  <1> QED
    BY <1>1, <1>2 DEF Live

(* Tables are pages. *)
LEMMA WalkTypes ==
  ASSUME NEW s, s.mem \in MemType, NEW root \in Frames, NEW v \in AllPages, NEW d \in 1 .. 4
  PROVE  /\ v[d] \in Indices /\ TableOf(s, root, v, d) \in Frames
         /\ EntryAt(s, root, v, d) \in EntryType
  <1>0. v[1] \in Indices /\ v[2] \in Indices /\ v[3] \in Indices /\ v[4] \in Indices
    BY DEF AllPages
  <1>1. \A f \in Frames, i \in Indices : s.mem[f][i] \in EntryType
    BY DEF MemType
  <1>2. \A e \in EntryType : e.frame \in Frames
    BY DEF EntryType
  <1> DEFINE P(k) == TableOf(s, root, v, k) \in Frames /\ EntryAt(s, root, v, k) \in EntryType
  <1>3. P(1)
    BY <1>0, <1>1, WalkStep DEF TableOf
  <1>4. P(2)
    BY <1>0, <1>1, <1>2, <1>3, WalkStep DEF TableOf
  <1>5. P(3)
    BY <1>0, <1>1, <1>2, <1>4, WalkStep DEF TableOf
  <1>6. P(4)
    BY <1>0, <1>1, <1>2, <1>5, WalkStep DEF TableOf
  <1> HIDE DEF P
  <1>7. P(d) /\ v[d] \in Indices
    BY <1>0, <1>3, <1>4, <1>5, <1>6
  <1> QED
    BY <1>7 DEF P

(* Each path of TablePaths is the start of the walk to a page. *)
LEMMA PathIsWalk ==
  ASSUME NEW s, NEW root, NEW q \in TablePaths(s, root)
  PROVE  \E v \in AllPages, d \in 1 .. 4 :
           /\ q \in [1 .. (d - 1) -> Indices] /\ \A k \in 1 .. (d - 1) : v[k] = q[k]
           /\ Live(s, root, v, d) /\ TableAt(s, root, q) = TableOf(s, root, v, d)
  <1>1. PICK n \in 0 .. 3 : q \in [1 .. n -> Indices]
    BY DEF TablePaths
  <1>2. Len(q) = n
    BY <1>1
  <1>3. \A k \in 1 .. n : Leading(EntryAt(s, root, q, k))
    BY <1>2 DEF TablePaths, Leading
  <1> DEFINE At(k) == IF k <= n THEN q[k] ELSE 0
             v == <<At(1), At(2), At(3), 0>>
  <1>4. At(1) \in Indices /\ At(2) \in Indices /\ At(3) \in Indices /\ 0 \in Indices
    BY <1>1, VmmOpsAssumption DEF Indices
  <1>5. \A k \in 1 .. n : v[k] = q[k]
    OBVIOUS
  <1>6. v \in AllPages
    BY <1>4 DEF AllPages
  <1> HIDE DEF v
  <1>7. ASSUME NEW k \in 1 .. n
        PROVE  EntryAt(s, root, v, k) = EntryAt(s, root, q, k)
    <2>1. k \in 1 .. 4 /\ \A j \in 1 .. k : v[j] = q[j]
      BY <1>5
    <2> QED
      BY <2>1, EntryPrefix
  <1>8. Live(s, root, v, n + 1)
    BY <1>3, <1>7 DEF Live
  <1>9. TableAt(s, root, q) = TableOf(s, root, v, n + 1)
    <2>1. CASE n = 0
      <3>1. q = << >>
        BY <1>1, <2>1
      <3> QED
        BY <2>1, <3>1 DEF TableAt, TableOf
    <2>2. CASE n # 0
      <3>1. q # << >> /\ n \in 1 .. n
        BY <1>2, <2>2
      <3> QED
        BY <1>2, <1>7, <2>2, <3>1 DEF TableAt, TableOf
    <2> QED
      BY <2>1, <2>2
  <1>10. n + 1 \in 1 .. 4 /\ (n + 1) - 1 = n
    OBVIOUS
  <1> QED
    BY <1>1, <1>5, <1>6, <1>8, <1>9, <1>10

(* The tables that Tables names are those of the walks. *)
LEMMA TablesAre ==
  ASSUME NEW s, NEW root, NEW t
  PROVE  t \in Tables(s, root) <=>
           \E v \in AllPages, d \in 1 .. 4 : Live(s, root, v, d) /\ t = TableOf(s, root, v, d)
  <1>2. ASSUME NEW v \in AllPages, NEW d \in 1 .. 4, Live(s, root, v, d)
        PROVE  \E q \in TablePaths(s, root) : TableAt(s, root, q) = TableOf(s, root, v, d)
    <2> DEFINE n == d - 1
               q == [k \in 1 .. n |-> v[k]]
    <2>1. v[1] \in Indices /\ v[2] \in Indices /\ v[3] \in Indices
      BY DEF AllPages
    <2>2. n \in 0 .. 3 /\ \A k \in 1 .. n : v[k] \in Indices
      BY <2>1
    <2>3. q \in [1 .. n -> Indices] /\ \A k \in 1 .. n : q[k] = v[k]
      BY <2>2
    <2> HIDE DEF q
    <2>4. Len(q) = n
      BY <2>2, <2>3
    <2>5. ASSUME NEW k \in 1 .. n
          PROVE  EntryAt(s, root, q, k) = EntryAt(s, root, v, k)
      <3>1. k \in 1 .. 4 /\ \A j \in 1 .. k : q[j] = v[j]
        BY <2>3
      <3> QED
        BY <3>1, EntryPrefix
    <2>6. \A k \in 1 .. n : Leading(EntryAt(s, root, q, k))
      BY <1>2, <2>5 DEF Live
    <2>7. q \in TablePaths(s, root)
      BY <2>2, <2>3, <2>4, <2>6 DEF TablePaths, Leading
    <2>8. TableAt(s, root, q) = TableOf(s, root, v, d)
      <3>1. CASE n = 0
        <4>1. q = << >>
          BY <2>3, <3>1
        <4> QED
          BY <3>1, <4>1 DEF TableAt, TableOf
      <3>2. CASE n # 0
        <4>1. q # << >> /\ n \in 1 .. n
          BY <2>4, <3>2
        <4> QED
          BY <2>4, <2>5, <3>2, <4>1 DEF TableAt, TableOf
      <3> QED
        BY <3>1, <3>2
    <2> QED
      BY <2>7, <2>8
  <1>3. t \in Tables(s, root) <=> \E q \in TablePaths(s, root) : t = TableAt(s, root, q)
    BY DEF Tables
  <1>4. ASSUME NEW q \in TablePaths(s, root), t = TableAt(s, root, q)
        PROVE  \E v \in AllPages, d \in 1 .. 4 : Live(s, root, v, d) /\ t = TableOf(s, root, v, d)
    BY <1>4, PathIsWalk
  <1> QED
    BY <1>2, <1>3, <1>4

(* In a tree, the entry that a walk meets is the entry of another walk     *)
(* only if the two agree down to it.                                       *)
LEMMA EntriesApart ==
  ASSUME NEW s, NEW root, Tree(s, root), NEW v \in AllPages, NEW u \in AllPages,
         NEW d \in 1 .. 4, NEW c \in 1 .. 4, Live(s, root, v, d), Live(s, root, u, c)
  PROVE  (TableOf(s, root, v, d) = TableOf(s, root, u, c) /\ v[d] = u[c]) <=> (d = c /\ Same(v, u, c))
  <1>1. ASSUME TableOf(s, root, v, d) = TableOf(s, root, u, c), v[d] = u[c]
        PROVE  d = c /\ Same(v, u, c)
    <2>1. d = c /\ Same(v, u, d - 1)
      BY <1>1 DEF Tree
    <2> QED
      BY <1>1, <2>1 DEF Same
  <1>2. ASSUME d = c, Same(v, u, c)
        PROVE  TableOf(s, root, v, d) = TableOf(s, root, u, c) /\ v[d] = u[c]
    <2>1. Same(v, u, d - 1) /\ v[d] = u[c]
      BY <1>2 DEF Same
    <2> QED
      BY <1>2, <2>1, SameTable
  <1> QED
    BY <1>1, <1>2

(* Writing an entry that is none of a table's links, and does not become   *)
(* one, changes just the walks that meet it.                               *)
LEMMA WriteEntry ==
  ASSUME NEW s, s.mem \in MemType, NEW root \in Frames, Tree(s, root),
         NEW u \in AllPages, NEW c \in 1 .. 4, Live(s, root, u, c),
         NEW entry \in EntryType,
         c = 4 \/ (~ Leading(EntryAt(s, root, u, c)) /\ ~ Leading(entry)),
         NEW t, t.mem = Written(s.mem, TableOf(s, root, u, c), u[c], entry)
  PROVE  /\ \A v \in AllPages, d \in 1 .. 4 :
              /\ Live(t, root, v, d) <=> Live(s, root, v, d)
              /\ Live(s, root, v, d) =>
                   /\ TableOf(t, root, v, d) = TableOf(s, root, v, d)
                   /\ EntryAt(t, root, v, d) =
                        IF d = c /\ Same(v, u, c) THEN entry ELSE EntryAt(s, root, v, d)
         /\ Tree(t, root)
  <1> DEFINE P(v, d) == /\ Live(t, root, v, d) <=> Live(s, root, v, d)
                        /\ Live(s, root, v, d) =>
                             /\ TableOf(t, root, v, d) = TableOf(s, root, v, d)
                             /\ EntryAt(t, root, v, d) =
                                  IF d = c /\ Same(v, u, c) THEN entry ELSE EntryAt(s, root, v, d)
  <1>1. ASSUME NEW v \in AllPages, NEW d \in 1 .. 4, Live(s, root, v, d),
               TableOf(t, root, v, d) = TableOf(s, root, v, d)
        PROVE  EntryAt(t, root, v, d) = IF d = c /\ Same(v, u, c) THEN entry ELSE EntryAt(s, root, v, d)
    <2>1. /\ TableOf(s, root, v, d) \in Frames /\ v[d] \in Indices
          /\ TableOf(s, root, u, c) \in Frames /\ u[c] \in Indices
      BY WalkTypes
    <2>2. t.mem[TableOf(s, root, v, d)][v[d]] =
            IF TableOf(s, root, v, d) = TableOf(s, root, u, c) /\ v[d] = u[c]
            THEN entry ELSE s.mem[TableOf(s, root, v, d)][v[d]]
      BY <2>1, ReadBack
    <2>3. EntryAt(t, root, v, d) = t.mem[TableOf(s, root, v, d)][v[d]]
      BY <1>1, WalkStep
    <2>4. EntryAt(s, root, v, d) = s.mem[TableOf(s, root, v, d)][v[d]]
      BY WalkStep
    <2> QED
      BY <1>1, <2>2, <2>3, <2>4, EntriesApart
  <1>2. ASSUME NEW v \in AllPages
        PROVE  P(v, 1)
    BY <1>1, LiveStep
  <1>3. ASSUME NEW v \in AllPages, NEW d \in 1 .. 3, P(v, d)
        PROVE  P(v, d + 1)
    <2>1. /\ Live(s, root, v, d + 1) <=> Live(s, root, v, d) /\ Leading(EntryAt(s, root, v, d))
          /\ Live(t, root, v, d + 1) <=> Live(t, root, v, d) /\ Leading(EntryAt(t, root, v, d))
          /\ TableOf(s, root, v, d + 1) = EntryAt(s, root, v, d).frame
          /\ TableOf(t, root, v, d + 1) = EntryAt(t, root, v, d).frame
      BY LiveStep
    <2>2. ASSUME d = c, Same(v, u, c)
          PROVE  EntryAt(s, root, v, d) = EntryAt(s, root, u, c)
      BY <2>2, EntryPrefix DEF Same
    <2>3. Live(t, root, v, d + 1) <=> Live(s, root, v, d + 1)
      BY <1>3, <2>1, <2>2
    <2>4. Live(s, root, v, d + 1) => TableOf(t, root, v, d + 1) = TableOf(s, root, v, d + 1)
      BY <1>3, <2>1, <2>2
    <2>5. d + 1 \in 1 .. 4
      OBVIOUS
    <2> QED
      BY <1>1, <2>3, <2>4, <2>5
  <1>4. ASSUME NEW v \in AllPages, NEW d \in 1 .. 4
        PROVE  P(v, d)
    <2> HIDE DEF P
    <2>1. P(v, 1)
      BY <1>2
    <2>2. P(v, 2)
      BY <1>3, <2>1
    <2>3. P(v, 3)
      BY <1>3, <2>2
    <2>4. P(v, 4)
      BY <1>3, <2>3
    <2> QED
      BY <2>1, <2>2, <2>3, <2>4
  <1>5. Tree(t, root)
    BY <1>4 DEF Tree
  <1> QED
    BY <1>4, <1>5

(* Linking a cleared page, that is no table yet, below an entry that is    *)
(* not present adds one table, without links of its own.                   *)
LEMMA LinkTable ==
  ASSUME NEW s, s.mem \in MemType, NEW root \in Frames, Tree(s, root),
         NEW u \in AllPages, NEW c \in 1 .. 3, Live(s, root, u, c),
         PRESENT \notin EntryAt(s, root, u, c).flags,
         NEW g \in Frames,
         \A v \in AllPages, d \in 1 .. 4 : Live(s, root, v, d) => TableOf(s, root, v, d) # g,
         NEW entry \in EntryType, Leading(entry), entry.frame = g,
         NEW t, t.mem = Written(Wiped(s.mem, g), TableOf(s, root, u, c), u[c], entry)
  PROVE  /\ \A v \in AllPages, d \in 1 .. 4 :
              /\ Live(t, root, v, d) <=> Live(s, root, v, d) \/ (d = c + 1 /\ Same(v, u, c))
              /\ Live(s, root, v, d) =>
                   /\ TableOf(t, root, v, d) = TableOf(s, root, v, d)
                   /\ EntryAt(t, root, v, d) =
                        IF d = c /\ Same(v, u, c) THEN entry ELSE EntryAt(s, root, v, d)
              /\ d = c + 1 /\ Same(v, u, c) =>
                   TableOf(t, root, v, d) = g /\ EntryAt(t, root, v, d) = Zero
         /\ Tree(t, root)
  <1> DEFINE New(v, d) == d = c + 1 /\ Same(v, u, c)
             P(v, d) == /\ Live(t, root, v, d) <=> Live(s, root, v, d) \/ New(v, d)
                        /\ Live(s, root, v, d) =>
                             /\ TableOf(t, root, v, d) = TableOf(s, root, v, d)
                             /\ EntryAt(t, root, v, d) =
                                  IF d = c /\ Same(v, u, c) THEN entry ELSE EntryAt(s, root, v, d)
                        /\ New(v, d) => TableOf(t, root, v, d) = g /\ EntryAt(t, root, v, d) = Zero
  <1>0. /\ TableOf(s, root, u, c) \in Frames /\ u[c] \in Indices /\ TableOf(s, root, u, c) # g
        /\ Wiped(s.mem, g) \in MemType
    <2>1. c \in 1 .. 4 /\ 0 \in Indices
      BY VmmOpsAssumption DEF Indices
    <2> QED
      BY <2>1, WalkTypes, ReadBack
  <1>1. ASSUME NEW f \in Frames, NEW i \in Indices
        PROVE  t.mem[f][i] = IF f = TableOf(s, root, u, c) /\ i = u[c] THEN entry
                             ELSE IF f = g THEN Zero ELSE s.mem[f][i]
    <2>1. t.mem[f][i] = IF f = TableOf(s, root, u, c) /\ i = u[c] THEN entry ELSE Wiped(s.mem, g)[f][i]
      BY <1>0, ReadBack
    <2>2. Wiped(s.mem, g)[f][i] = IF f = g THEN Zero ELSE s.mem[f][i]
      BY ReadBack
    <2> QED
      BY <2>1, <2>2
  <1>2. ASSUME NEW v \in AllPages, NEW d \in 1 .. 4, Live(s, root, v, d),
               TableOf(t, root, v, d) = TableOf(s, root, v, d)
        PROVE  EntryAt(t, root, v, d) = IF d = c /\ Same(v, u, c) THEN entry ELSE EntryAt(s, root, v, d)
    <2>1. TableOf(s, root, v, d) \in Frames /\ v[d] \in Indices /\ TableOf(s, root, v, d) # g
      BY <1>2, WalkTypes
    <2>2. t.mem[TableOf(s, root, v, d)][v[d]] =
            IF TableOf(s, root, v, d) = TableOf(s, root, u, c) /\ v[d] = u[c]
            THEN entry ELSE s.mem[TableOf(s, root, v, d)][v[d]]
      BY <1>1, <2>1
    <2>3. EntryAt(t, root, v, d) = t.mem[TableOf(s, root, v, d)][v[d]]
      BY <1>2, WalkStep
    <2>4. EntryAt(s, root, v, d) = s.mem[TableOf(s, root, v, d)][v[d]]
      BY WalkStep
    <2>5. (TableOf(s, root, v, d) = TableOf(s, root, u, c) /\ v[d] = u[c]) <=> (d = c /\ Same(v, u, c))
      <3>1. c \in 1 .. 4
        OBVIOUS
      <3> QED
        BY <1>2, <3>1, EntriesApart
    <2> QED
      BY <2>2, <2>3, <2>4, <2>5
  <1>3. ASSUME NEW v \in AllPages
        PROVE  P(v, 1)
    <2>1. ~ New(v, 1)
      OBVIOUS
    <2> QED
      BY <1>2, <2>1, LiveStep
  <1>4. ASSUME NEW v \in AllPages, NEW d \in 1 .. 3, P(v, d)
        PROVE  P(v, d + 1)
    <2>0. d + 1 \in 1 .. 4 /\ d \in 1 .. 4
      OBVIOUS
    <2>1. /\ Live(s, root, v, d + 1) <=> Live(s, root, v, d) /\ Leading(EntryAt(s, root, v, d))
          /\ Live(t, root, v, d + 1) <=> Live(t, root, v, d) /\ Leading(EntryAt(t, root, v, d))
          /\ TableOf(s, root, v, d + 1) = EntryAt(s, root, v, d).frame
          /\ TableOf(t, root, v, d + 1) = EntryAt(t, root, v, d).frame
      BY LiveStep
    <2>2. ~ Leading(Zero)
      BY DEF Leading, Zero
    <2>3. CASE d = c /\ Same(v, u, c)
      <3>1. Live(s, root, v, d)
        <4>1. Same(v, u, c - 1)
          BY <2>3 DEF Same
        <4> QED
          BY <2>0, <2>3, <4>1, SameTable
      <3>2. EntryAt(s, root, v, d) = EntryAt(s, root, u, c)
        BY <2>0, <2>3, EntryPrefix DEF Same
      <3>3. ~ Live(s, root, v, d + 1) /\ Live(t, root, v, d + 1) /\ TableOf(t, root, v, d + 1) = g
        BY <1>4, <2>1, <2>3, <3>1, <3>2 DEF Leading
      <3>4. EntryAt(t, root, v, d + 1) = Zero
        <4>1. v[d + 1] \in Indices
          BY <2>0, WalkTypes
        <4>2. EntryAt(t, root, v, d + 1) = t.mem[g][v[d + 1]]
          BY <2>0, <3>3, WalkStep
        <4> QED
          BY <1>0, <1>1, <4>1, <4>2
      <3> QED
        BY <2>3, <3>3, <3>4
    <2>4. CASE ~ (d = c /\ Same(v, u, c))
      <3>1. ~ New(v, d + 1)
        BY <2>4
      <3>2. New(v, d) => ~ Live(s, root, v, d) /\ ~ Live(t, root, v, d + 1)
        <4> SUFFICES ASSUME New(v, d)
                     PROVE  ~ Live(s, root, v, d) /\ ~ Live(t, root, v, d + 1)
          OBVIOUS
        <4>1. ~ Live(t, root, v, d + 1)
          BY <1>4, <2>1, <2>2
        <4>2. EntryAt(s, root, v, c) = EntryAt(s, root, u, c)
          BY EntryPrefix DEF Same
        <4>3. c \in 1 .. (d - 1)
          OBVIOUS
        <4> QED
          BY <4>1, <4>2, <4>3 DEF Live, Leading
      <3>3. Live(t, root, v, d + 1) <=> Live(s, root, v, d + 1)
        BY <1>4, <2>1, <2>4, <3>2
      <3>4. Live(s, root, v, d + 1) => TableOf(t, root, v, d + 1) = TableOf(s, root, v, d + 1)
        BY <1>4, <2>1, <2>4
      <3>5. Live(s, root, v, d + 1) =>
               EntryAt(t, root, v, d + 1) =
                 IF d + 1 = c /\ Same(v, u, c) THEN entry ELSE EntryAt(s, root, v, d + 1)
        BY <1>2, <2>0, <3>4
      <3> QED
        BY <3>1, <3>3, <3>4, <3>5
    <2> QED
      BY <2>3, <2>4
  <1>5. ASSUME NEW v \in AllPages, NEW d \in 1 .. 4
        PROVE  P(v, d)
    <2> HIDE DEF P
    <2>1. P(v, 1)
      BY <1>3
    <2>2. P(v, 2)
      BY <1>4, <2>1
    <2>3. P(v, 3)
      BY <1>4, <2>2
    <2>4. P(v, 4)
      BY <1>4, <2>3
    <2> QED
      BY <2>1, <2>2, <2>3, <2>4
  <1>6. Tree(t, root)
    <2> SUFFICES ASSUME NEW v \in AllPages, NEW w \in AllPages, NEW d \in 1 .. 4, NEW e \in 1 .. 4,
                        Live(t, root, v, d), Live(t, root, w, e),
                        TableOf(t, root, v, d) = TableOf(t, root, w, e)
                 PROVE  d = e /\ Same(v, w, d - 1)
      BY DEF Tree
    <2>1. CASE Live(s, root, v, d) /\ Live(s, root, w, e)
      BY <1>5, <2>1 DEF Tree
    <2>2. CASE New(v, d) /\ New(w, e)
      BY <2>2 DEF Same
    <2>3. CASE Live(s, root, v, d) /\ New(w, e)
      BY <1>5, <2>3
    <2>4. CASE New(v, d) /\ Live(s, root, w, e)
      BY <1>5, <2>4
    <2> QED
      BY <1>5, <2>1, <2>2, <2>3, <2>4
  <1> QED
    BY <1>5, <1>6

-----------------------------------------------------------------------------
(***************************************************************************)
(* What the processor makes of a walk.                                     *)
(***************************************************************************)
(* The walk ends at depth d, in a page. *)
LeafAt(t, root, v, d) ==
  /\ Live(t, root, v, d) /\ PRESENT \in EntryAt(t, root, v, d).flags
  /\ d = 4 \/ PAGESIZE \in EntryAt(t, root, v, d).flags
  /\ ReservedClear(EntryAt(t, root, v, d).frame, d)

(* No entry of the top table maps a page. *)
NoLargeTop(t, root, v) ==
  PRESENT \in EntryAt(t, root, v, 1).flags => PAGESIZE \notin EntryAt(t, root, v, 1).flags

(* A page is mapped if its walk ends in a page, at the level where it does.*)
LEMMA MappedLeaf ==
  ASSUME NEW t, NEW root, NEW v, NoLargeTop(t, root, v)
  PROVE  /\ IsMapped(t, root, v) <=> \E d \in 2 .. 4 : LeafAt(t, root, v, d)
         /\ \A d \in 2 .. 4 : LeafAt(t, root, v, d) => LeafLevel(t, root, v) = d
  <1> DEFINE E(d) == EntryAt(t, root, v, d)
  <1>1. /\ Live(t, root, v, 2) <=> Leading(E(1))
        /\ Live(t, root, v, 3) <=> Leading(E(1)) /\ Leading(E(2))
        /\ Live(t, root, v, 4) <=> Leading(E(1)) /\ Leading(E(2)) /\ Leading(E(3))
    BY DEF Live
  <1>2. IsPresent(t, root, v) <=>
           /\ PRESENT \in E(1).flags
           /\ PRESENT \in E(2).flags
           /\ \/ PAGESIZE \in E(2).flags
              \/ /\ PRESENT \in E(3).flags
                 /\ PAGESIZE \in E(3).flags \/ PRESENT \in E(4).flags
    BY PresentIs
  <1>3. LeafLevel(t, root, v) = IF PAGESIZE \in E(2).flags THEN 2
                                ELSE IF PAGESIZE \in E(3).flags THEN 3 ELSE 4
    BY LeafLevelIs
  <1>4. IsMapped(t, root, v) <=> LeafAt(t, root, v, 2) \/ LeafAt(t, root, v, 3) \/ LeafAt(t, root, v, 4)
    <2>1. CASE PAGESIZE \in E(2).flags
      BY <1>1, <1>2, <1>3, <2>1 DEF IsMapped, LeafAt, NoLargeTop, Leading
    <2>2. CASE PAGESIZE \notin E(2).flags /\ PAGESIZE \in E(3).flags
      BY <1>1, <1>2, <1>3, <2>2 DEF IsMapped, LeafAt, NoLargeTop, Leading
    <2>3. CASE PAGESIZE \notin E(2).flags /\ PAGESIZE \notin E(3).flags
      BY <1>1, <1>2, <1>3, <2>3 DEF IsMapped, LeafAt, NoLargeTop, Leading
    <2> QED
      BY <2>1, <2>2, <2>3
  <1>5. /\ LeafAt(t, root, v, 2) => LeafLevel(t, root, v) = 2
        /\ LeafAt(t, root, v, 3) => LeafLevel(t, root, v) = 3
        /\ LeafAt(t, root, v, 4) => LeafLevel(t, root, v) = 4
    BY <1>1, <1>3 DEF LeafAt, Leading
  <1>6. \A d \in 2 .. 4 : d = 2 \/ d = 3 \/ d = 4
    OBVIOUS
  <1> QED
    BY <1>4, <1>5, <1>6

(* A walk that stops at an entry that is not present maps nothing. *)
LEMMA NotMapped ==
  ASSUME NEW t, NEW root, NEW v, NEW c \in 1 .. 4, Live(t, root, v, c),
         PRESENT \notin EntryAt(t, root, v, c).flags
  PROVE  ~ IsMapped(t, root, v)
  <1> DEFINE E(d) == EntryAt(t, root, v, d)
  <1>1. IsPresent(t, root, v) <=>
           /\ PRESENT \in E(1).flags
           /\ PRESENT \in E(2).flags
           /\ \/ PAGESIZE \in E(2).flags
              \/ /\ PRESENT \in E(3).flags
                 /\ PAGESIZE \in E(3).flags \/ PRESENT \in E(4).flags
    BY PresentIs
  <1>2. \A k \in 1 .. (c - 1) : Leading(E(k))
    BY DEF Live
  <1> QED
    BY <1>1, <1>2 DEF Leading, IsMapped

(* Walks that are live, and meet the same entries, as far as each other    *)
(* come to the same page.                                                  *)
LEMMA SameLive ==
  ASSUME NEW t, NEW root, NEW r, NEW top, NEW v, NoLargeTop(t, root, v),
         \A d \in 1 .. 4 : /\ Live(t, root, v, d) <=> Live(r, top, v, d)
                           /\ Live(t, root, v, d) => EntryAt(r, top, v, d) = EntryAt(t, root, v, d)
  PROVE  /\ IsMapped(t, root, v) <=> IsMapped(r, top, v)
         /\ IsMapped(t, root, v) => Translate(r, top, v) = Translate(t, root, v)
  <1>1. Live(t, root, v, 1) /\ EntryAt(r, top, v, 1) = EntryAt(t, root, v, 1)
    BY DEF Live
  <1>2. NoLargeTop(r, top, v)
    BY <1>1 DEF NoLargeTop
  <1>3. \A d \in 2 .. 4 : LeafAt(t, root, v, d) <=> LeafAt(r, top, v, d)
    BY DEF LeafAt
  <1>4. IsMapped(t, root, v) <=> IsMapped(r, top, v)
    BY <1>2, <1>3, MappedLeaf
  <1>5. ASSUME NEW d \in 2 .. 4, LeafAt(t, root, v, d)
        PROVE  Translate(r, top, v) = Translate(t, root, v)
    <2>1. LeafLevel(t, root, v) = d /\ LeafLevel(r, top, v) = d
      BY <1>2, <1>3, <1>5, MappedLeaf
    <2>2. ASSUME NEW k \in 1 .. d
          PROVE  EntryAt(r, top, v, k) = EntryAt(t, root, v, k)
      <3>1. Live(t, root, v, k) /\ k \in 1 .. 4
        BY <1>5 DEF LeafAt, Live
      <3> QED
        BY <3>1
    <2>3. {g \in {PRESENT, READWRITE} : \A k \in 1 .. d : g \in EntryAt(r, top, v, k).flags}
            = {g \in {PRESENT, READWRITE} : \A k \in 1 .. d : g \in EntryAt(t, root, v, k).flags}
      BY <2>2
    <2>4. EntryAt(r, top, v, d) = EntryAt(t, root, v, d)
      BY <2>2
    <2> QED
      BY <2>1, <2>3, <2>4 DEF Translate
  <1> QED
    BY <1>4, <1>5, MappedLeaf
=============================================================================
