----------------------------- MODULE VmmProofs -----------------------------
(***************************************************************************)
(* Proofs about the page tables, for every number of entries in a table,   *)
(* every memory map and every set of pages and regions that clients map.   *)
(***************************************************************************)
EXTENDS Vmm, VmmOpsProofs

-----------------------------------------------------------------------------
(* Address spaces that agree page by page. *)
LEMMA SameSpace ==
  ASSUME NEW t, NEW r, NEW root,
         \A v \in AllPages : /\ IsMapped(t, root, v) <=> IsMapped(r, root, v)
                             /\ IsMapped(t, root, v) => Translate(r, root, v) = Translate(t, root, v)
  PROVE  TranslationIn(r, root) = TranslationIn(t, root)
  <1>1. {v \in AllPages : IsMapped(r, root, v)} = {v \in AllPages : IsMapped(t, root, v)}
    OBVIOUS
  <1> QED
    BY <1>1 DEF TranslationIn

-----------------------------------------------------------------------------
(***************************************************************************)
(* The inductive invariant.                                                *)
(***************************************************************************)
(* The entries that clients make large pages. *)
Large(v, d) == \/ d = 2 /\ <<v[1], v[2]>> \in Regions1G
               \/ d = 3 /\ <<v[1], v[2], v[3]>> \in Regions2M

(* Present entries carry the clients' flags; they are large pages where    *)
(* clients map such, and lead on everywhere else.                          *)
Kinds(t, root) ==
  \A v \in AllPages, d \in 1 .. 4 :
    Live(t, root, v, d) /\ PRESENT \in EntryAt(t, root, v, d).flags =>
      /\ PAGESIZE \in EntryAt(t, root, v, d).flags <=> Large(v, d)
      /\ EntryAt(t, root, v, d).flags \ {PAGESIZE} \in Permissions

(* Tables are marked in the bitmap, and counted. *)
Taken(t, root) ==
  \A v \in AllPages, d \in 1 .. 4 : Live(t, root, v, d) => TableOf(t, root, v, d) \in t.info.bitmap

Counted(t, root) ==
  /\ IsFiniteSet(Tables(t, root))
  /\ t.info.usedpages = PmmReady(MemMap).usedpages + Cardinality(Tables(t, root))

Good(t, root) == Tree(t, root) /\ Kinds(t, root) /\ Taken(t, root) /\ Counted(t, root)

IInv == /\ Sound(s) /\ RootPageDirectory \in Frames
        /\ ~ Short(s) => Good(s, RootPageDirectory)

(* A manager that ran short has spoilt the tables. *)
LEMMA ShortSpoilt ==
  ASSUME NEW t
  PROVE  Short(t) => Spoilt(t)
  BY DEF Short, Spoilt

(* Good states have no large page in the top table. *)
LEMMA GoodTop ==
  ASSUME NEW t, NEW root, Kinds(t, root), NEW v \in AllPages
  PROVE  NoLargeTop(t, root, v)
  <1>1. Live(t, root, v, 1) /\ ~ Large(v, 1) /\ 1 \in 1 .. 4
    BY DEF Live, Large
  <1> QED
    BY <1>1 DEF Kinds, NoLargeTop

(* The position of a large page depends on the indices down to it. *)
LEMMA LargeSame ==
  ASSUME NEW v, NEW u, NEW d \in 1 .. 4, Same(v, u, d)
  PROVE  Large(v, d) <=> Large(u, d)
  BY DEF Large, Same

-----------------------------------------------------------------------------
(***************************************************************************)
(* One level down.                                                         *)
(***************************************************************************)
(* Whatever vmm_get_pagemap finds, it returns a page, and want of pages is *)
(* remembered.                                                             *)
LEMMA DescendSound ==
  ASSUME NEW t, Sound(t), NEW pagemap \in Frames, NEW index \in Indices, NEW flags \in Permissions,
         NEW g, g = vmm_get_pagemap(t, pagemap, index, flags)
  PROVE  Sound(g.s) /\ g.table \in Frames /\ (Short(t) => Short(g.s))
  <1>1. flags \in SUBSET {PRESENT, READWRITE, PAGESIZE}
    BY CallsAssumption
  <1> QED
    BY <1>1, GetPagemap

(* Along the walk to a page, above the entry that is a large page, if any, *)
(* vmm_get_pagemap keeps the tables good and maps nothing.                 *)
LEMMA Descend ==
  ASSUME NEW t, Sound(t), NEW root \in Frames, Good(t, root),
         NEW u \in AllPages, NEW c \in 1 .. 3, Live(t, root, u, c), ~ Large(u, c),
         NEW flags \in Permissions,
         NEW g, g = vmm_get_pagemap(t, TableOf(t, root, u, c), u[c], flags), ~ Short(g.s)
  PROVE  /\ Good(g.s, root)
         /\ Live(g.s, root, u, c + 1) /\ g.table = TableOf(g.s, root, u, c + 1)
         /\ TranslationIn(g.s, root) = TranslationIn(t, root)
  <1> DEFINE T == TableOf(t, root, u, c)
             entry == [frame |-> g.table, flags |-> flags]
  <1>0. /\ t \in StateType /\ t.mem \in MemType /\ t.info \in InfoType /\ c \in 1 .. 4
        /\ Tree(t, root) /\ Kinds(t, root) /\ Taken(t, root) /\ Counted(t, root)
    BY DEF Good, Sound, StateType
  <1>1. T \in Frames /\ u[c] \in Indices
    BY <1>0, WalkTypes
  <1>2. EntryAt(t, root, u, c) = t.mem[T][u[c]]
    BY <1>0, WalkStep
  <1>3. flags \in SUBSET {PRESENT, READWRITE, PAGESIZE} /\ PRESENT \in flags /\ PAGESIZE \notin flags
    BY CallsAssumption DEF PRESENT, READWRITE, PAGESIZE
  <1> HIDE DEF T
  <1>4. g = vmm_get_pagemap(t, T, u[c], flags)
    BY DEF T
  <1>7. /\ Sound(g.s) /\ g.table \in Frames
        /\ \/ /\ PRESENT \in t.mem[T][u[c]].flags
              /\ g.s = t /\ g.table = t.mem[T][u[c]].frame
           \/ /\ PRESENT \notin t.mem[T][u[c]].flags
              /\ g.table \in Unset(t.info) /\ g.table # 0
              /\ g.s.info = Marked(t.info, g.table)
              /\ Short(g.s) <=> Short(t)
              /\ g.s.mem = Written(Wiped(t.mem, g.table), T, u[c],
                                   [frame |-> g.table, flags |-> flags])
           \/ /\ PRESENT \notin t.mem[T][u[c]].flags
              /\ Unset(t.info) = {} \/ t.info.usedpages >= t.info.totalpages
              /\ g.table = 0 /\ Short(g.s)
    BY <1>1, <1>3, <1>4, GetPagemap
  <1>5. CASE PRESENT \in t.mem[T][u[c]].flags
    <2>1. g.s = t /\ g.table = EntryAt(t, root, u, c).frame
      BY <1>2, <1>5, <1>7
    <2>2. Leading(EntryAt(t, root, u, c))
      BY <1>0, <1>2, <1>5 DEF Kinds, Leading
    <2> QED
      BY <2>1, <2>2, LiveStep
  <1>6. CASE PRESENT \notin t.mem[T][u[c]].flags
    <2>1. /\ g.table \in Frames /\ g.table \in Unset(t.info)
          /\ g.s.info = Marked(t.info, g.table)
          /\ g.s.mem = Written(Wiped(t.mem, g.table), T, u[c], entry)
      BY <1>6, <1>7
    <2>2. entry \in EntryType /\ Leading(entry) /\ entry.frame = g.table /\ entry.flags = flags
      BY <1>3, <2>1 DEF EntryType, Leading
    <2>3. \A v \in AllPages, d \in 1 .. 4 : Live(t, root, v, d) => TableOf(t, root, v, d) # g.table
      BY <1>0, <2>1 DEF Taken, Unset
    <2>4. PRESENT \notin EntryAt(t, root, u, c).flags
      BY <1>2, <1>6
    <2> HIDE DEF entry
    <2>5. /\ \A v \in AllPages, d \in 1 .. 4 :
               /\ Live(g.s, root, v, d) <=> Live(t, root, v, d) \/ (d = c + 1 /\ Same(v, u, c))
               /\ Live(t, root, v, d) =>
                    /\ TableOf(g.s, root, v, d) = TableOf(t, root, v, d)
                    /\ EntryAt(g.s, root, v, d) =
                         IF d = c /\ Same(v, u, c) THEN entry ELSE EntryAt(t, root, v, d)
               /\ d = c + 1 /\ Same(v, u, c) =>
                    TableOf(g.s, root, v, d) = g.table /\ EntryAt(g.s, root, v, d) = Zero
          /\ Tree(g.s, root)
      <3>1. g.s.mem = Written(Wiped(t.mem, g.table), TableOf(t, root, u, c), u[c], entry)
        BY <2>1 DEF T
      <3> QED
        BY <1>0, <2>1, <2>2, <2>3, <2>4, <3>1, LinkTable
    <2>6. Same(u, u, c) /\ c + 1 \in 1 .. 4
      BY DEF Same
    <2>7. Live(g.s, root, u, c + 1) /\ g.table = TableOf(g.s, root, u, c + 1)
      BY <2>5, <2>6
    <2>8. Kinds(g.s, root)
      <3> SUFFICES ASSUME NEW v \in AllPages, NEW d \in 1 .. 4, Live(g.s, root, v, d),
                          PRESENT \in EntryAt(g.s, root, v, d).flags
                   PROVE  /\ PAGESIZE \in EntryAt(g.s, root, v, d).flags <=> Large(v, d)
                          /\ EntryAt(g.s, root, v, d).flags \ {PAGESIZE} \in Permissions
        BY DEF Kinds
      <3>1. Live(t, root, v, d)
        BY <2>5 DEF Zero
      <3>2. CASE d = c /\ Same(v, u, c)
        <4>1. EntryAt(g.s, root, v, d).flags = flags
          BY <2>2, <2>5, <3>1, <3>2
        <4>2. flags \ {PAGESIZE} = flags
          BY <1>3
        <4>3. ~ Large(v, d)
          BY <1>0, <3>2, LargeSame
        <4> QED
          BY <1>3, <4>1, <4>2, <4>3
      <3>3. CASE ~ (d = c /\ Same(v, u, c))
        <4>1. EntryAt(g.s, root, v, d) = EntryAt(t, root, v, d)
          BY <2>5, <3>1, <3>3
        <4> QED
          BY <1>0, <3>1, <4>1 DEF Kinds
      <3> QED
        BY <3>2, <3>3
    <2>9. /\ g.s.info.bitmap = t.info.bitmap \cup {g.table}
          /\ g.s.info.usedpages = t.info.usedpages + 1 /\ g.table \notin t.info.bitmap
      BY <1>0, <2>1 DEF InfoType, Marked, Unset
    <2>10. Taken(g.s, root)
      BY <1>0, <2>5, <2>9 DEF Taken
    <2>11. Counted(g.s, root)
      <3>1. ASSUME NEW x
            PROVE  x \in Tables(g.s, root) <=> x \in Tables(t, root) \/ x = g.table
        <4>1. ASSUME x \in Tables(g.s, root)
              PROVE  x \in Tables(t, root) \/ x = g.table
          <5>1. PICK v \in AllPages, d \in 1 .. 4 : Live(g.s, root, v, d) /\ x = TableOf(g.s, root, v, d)
            BY <4>1, TablesAre
          <5>2. (Live(t, root, v, d) /\ x = TableOf(t, root, v, d)) \/ x = g.table
            BY <2>5, <5>1
          <5> QED
            BY <5>2, TablesAre
        <4>2. ASSUME x \in Tables(t, root)
              PROVE  x \in Tables(g.s, root)
          <5>1. PICK v \in AllPages, d \in 1 .. 4 : Live(t, root, v, d) /\ x = TableOf(t, root, v, d)
            BY <4>2, TablesAre
          <5>2. Live(g.s, root, v, d) /\ x = TableOf(g.s, root, v, d)
            BY <2>5, <5>1
          <5> QED
            BY <5>2, TablesAre
        <4>3. g.table \in Tables(g.s, root)
          BY <2>6, <2>7, TablesAre
        <4> QED
          BY <4>1, <4>2, <4>3
      <3>2. Tables(g.s, root) = Tables(t, root) \cup {g.table}
        BY <3>1
      <3>3. g.table \notin Tables(t, root)
        BY <2>3, TablesAre
      <3>4. /\ IsFiniteSet(Tables(g.s, root))
            /\ Cardinality(Tables(g.s, root)) = Cardinality(Tables(t, root)) + 1
        <4>1. IsFiniteSet(Tables(t, root))
          BY <1>0 DEF Counted
        <4>2. /\ IsFiniteSet(Tables(t, root) \cup {g.table})
              /\ Cardinality(Tables(t, root) \cup {g.table}) =
                   IF g.table \in Tables(t, root) THEN Cardinality(Tables(t, root))
                   ELSE Cardinality(Tables(t, root)) + 1
          BY <4>1, FS_AddElement
        <4> QED
          BY <3>2, <3>3, <4>2
      <3>5. Cardinality(Tables(t, root)) \in Nat /\ t.info.usedpages \in Int
        BY <1>0, FS_CardinalityType DEF Counted, InfoType
      <3>6. PmmReady(MemMap).usedpages \in Int
        BY MapAssumption, PageSizeAssumption DEF PmmReady, TotalPages
      <3> QED
        BY <1>0, <2>9, <3>4, <3>5, <3>6 DEF Counted
    <2>12. TranslationIn(g.s, root) = TranslationIn(t, root)
      <3> SUFFICES ASSUME NEW v \in AllPages
                   PROVE  /\ IsMapped(t, root, v) <=> IsMapped(g.s, root, v)
                          /\ IsMapped(t, root, v) => Translate(g.s, root, v) = Translate(t, root, v)
        BY SameSpace
      <3>1. CASE Same(v, u, c)
        <4>1. Live(t, root, v, c) /\ EntryAt(t, root, v, c) = EntryAt(t, root, u, c)
          <5>1. Same(v, u, c - 1)
            BY <3>1 DEF Same
          <5>2. Live(t, root, v, c)
            BY <1>0, <5>1, SameTable
          <5> QED
            BY <1>0, <3>1, <5>2, EntryPrefix DEF Same
        <4>2. ~ IsMapped(t, root, v)
          BY <1>0, <2>4, <4>1, NotMapped
        <4>3. Live(g.s, root, v, c + 1) /\ EntryAt(g.s, root, v, c + 1) = Zero
          BY <2>5, <2>6, <3>1
        <4>4. ~ IsMapped(g.s, root, v)
          <5>1. PRESENT \notin EntryAt(g.s, root, v, c + 1).flags
            BY <4>3 DEF Zero
          <5> QED
            BY <2>6, <4>3, <5>1, NotMapped
        <4> QED
          BY <4>2, <4>4
      <3>2. CASE ~ Same(v, u, c)
        <4>1. \A d \in 1 .. 4 : /\ Live(t, root, v, d) <=> Live(g.s, root, v, d)
                                /\ Live(t, root, v, d) => EntryAt(g.s, root, v, d) = EntryAt(t, root, v, d)
          BY <2>5, <3>2
        <4>2. NoLargeTop(t, root, v)
          BY <1>0, GoodTop
        <4> QED
          BY <4>1, <4>2, SameLive
      <3> QED
        BY <3>1, <3>2
    <2> QED
      BY <2>5, <2>7, <2>8, <2>10, <2>11, <2>12 DEF Good
  <1> QED
    BY <1>5, <1>6

-----------------------------------------------------------------------------
(***************************************************************************)
(* The entry that a call is about.                                         *)
(***************************************************************************)
(* An entry of level 1, or a large page where clients map such, may be     *)
(* written as they write it.                                               *)
Fits(u, c, entry) ==
  /\ c = 4 \/ Large(u, c)
  /\ \/ c = 4 /\ entry = Zero
     \/ /\ PRESENT \in entry.flags /\ (PAGESIZE \in entry.flags <=> Large(u, c))
        /\ entry.flags \ {PAGESIZE} \in Permissions

(* An entry that fits is written. *)
LEMMA PutEntry ==
  ASSUME NEW t, Sound(t), NEW root \in Frames, Good(t, root),
         NEW u \in AllPages, NEW c \in 1 .. 4, Live(t, root, u, c),
         NEW entry \in EntryType, Fits(u, c, entry),
         NEW r, r = SetEntry(t, TableOf(t, root, u, c), u[c], entry)
  PROVE  /\ Sound(r) /\ Good(r, root) /\ (Short(r) <=> Short(t))
         /\ \A v \in AllPages, d \in 1 .. 4 :
              /\ Live(r, root, v, d) <=> Live(t, root, v, d)
              /\ Live(t, root, v, d) =>
                   /\ TableOf(r, root, v, d) = TableOf(t, root, v, d)
                   /\ EntryAt(r, root, v, d) =
                        IF d = c /\ Same(v, u, c) THEN entry ELSE EntryAt(t, root, v, d)
  <1>0. /\ t \in StateType /\ t.mem \in MemType
        /\ Tree(t, root) /\ Kinds(t, root) /\ Taken(t, root) /\ Counted(t, root)
    BY DEF Good, Sound, StateType
  <1>1. TableOf(t, root, u, c) \in Frames /\ u[c] \in Indices
    BY <1>0, WalkTypes
  <1>2. /\ r.info = t.info /\ (Short(r) <=> Short(t))
        /\ r.mem = Written(t.mem, TableOf(t, root, u, c), u[c], entry)
    BY <1>0, <1>1, SetEntryEffect
  <1>3. Sound(r)
    BY <1>1, SetEntrySound
  <1>4. c = 4 \/ (~ Leading(EntryAt(t, root, u, c)) /\ ~ Leading(entry))
    BY <1>0 DEF Fits, Kinds, Leading
  <1>5. /\ \A v \in AllPages, d \in 1 .. 4 :
             /\ Live(r, root, v, d) <=> Live(t, root, v, d)
             /\ Live(t, root, v, d) =>
                  /\ TableOf(r, root, v, d) = TableOf(t, root, v, d)
                  /\ EntryAt(r, root, v, d) =
                       IF d = c /\ Same(v, u, c) THEN entry ELSE EntryAt(t, root, v, d)
        /\ Tree(r, root)
    BY <1>0, <1>2, <1>4, WriteEntry
  <1>6. Kinds(r, root)
    <2> SUFFICES ASSUME NEW v \in AllPages, NEW d \in 1 .. 4, Live(r, root, v, d),
                        PRESENT \in EntryAt(r, root, v, d).flags
                 PROVE  /\ PAGESIZE \in EntryAt(r, root, v, d).flags <=> Large(v, d)
                        /\ EntryAt(r, root, v, d).flags \ {PAGESIZE} \in Permissions
      BY DEF Kinds
    <2>1. Live(t, root, v, d)
      BY <1>5
    <2>2. CASE d = c /\ Same(v, u, c)
      <3>1. EntryAt(r, root, v, d) = entry
        BY <1>5, <2>1, <2>2
      <3>2. Large(v, d) <=> Large(u, c)
        BY <2>2, LargeSame
      <3>3. entry # Zero
        BY <3>1 DEF Zero
      <3> QED
        BY <3>1, <3>2, <3>3 DEF Fits
    <2>3. CASE ~ (d = c /\ Same(v, u, c))
      <3>1. EntryAt(r, root, v, d) = EntryAt(t, root, v, d)
        BY <1>5, <2>1, <2>3
      <3> QED
        BY <1>0, <2>1, <3>1 DEF Kinds
    <2> QED
      BY <2>2, <2>3
  <1>7. Taken(r, root)
    BY <1>0, <1>2, <1>5 DEF Taken
  <1>8. Counted(r, root)
    <2>1. ASSUME NEW x
          PROVE  x \in Tables(r, root) <=> x \in Tables(t, root)
      BY <1>5, TablesAre
    <2>2. Tables(r, root) = Tables(t, root)
      BY <2>1
    <2> QED
      BY <1>0, <1>2, <2>2 DEF Counted
  <1> QED
    BY <1>2, <1>3, <1>5, <1>6, <1>7, <1>8 DEF Good

(* A page or a large page put at the end of a walk is what the processor   *)
(* sees below it, and all that changes.                                    *)
Put(space, u, c, frame, flags) ==
  [v \in DOMAIN space \cup {w \in AllPages : Same(w, u, c)} |->
     IF Same(v, u, c) THEN [frame |-> frame + OffsetIn(v, c), flags |-> flags] ELSE space[v]]

(* A leaf is written: the pages below it are mapped, and no others. *)
LEMMA PutLeaf ==
  ASSUME NEW t, Sound(t), NEW root \in Frames, Good(t, root),
         NEW u \in AllPages, NEW c \in 2 .. 4, Live(t, root, u, c), c = 4 \/ Large(u, c),
         NEW frame \in Frames, c = 4 \/ frame % Span(c) = 0, NEW flags \in Permissions,
         NEW entry \in EntryType, entry.frame = frame,
         entry.flags = IF c = 4 THEN flags ELSE flags \cup {PAGESIZE},
         NEW r, r = SetEntry(t, TableOf(t, root, u, c), u[c], entry)
  PROVE  /\ Sound(r) /\ Good(r, root) /\ (Short(r) <=> Short(t))
         /\ TranslationIn(r, root) = Put(TranslationIn(t, root), u, c, frame, flags)
  <1>0. c \in 1 .. 4 /\ Kinds(t, root) /\ t.mem \in MemType
    BY DEF Good, Sound, StateType
  <1>1. /\ flags \in SUBSET {PRESENT, READWRITE} /\ PRESENT \in flags /\ PAGESIZE \notin flags
        /\ PAGESIZE # PRESENT /\ PAGESIZE # READWRITE
    BY CallsAssumption DEF PRESENT, READWRITE, PAGESIZE
  <1>3. /\ PRESENT \in entry.flags /\ entry.flags \ {PAGESIZE} = flags
        /\ PAGESIZE \in entry.flags <=> c # 4
    BY <1>1
  <1>4. Fits(u, c, entry)
    BY <1>3 DEF Fits, Large
  <1>5. /\ Sound(r) /\ Good(r, root) /\ (Short(r) <=> Short(t))
        /\ \A v \in AllPages, d \in 1 .. 4 :
             /\ Live(r, root, v, d) <=> Live(t, root, v, d)
             /\ Live(t, root, v, d) =>
                  /\ TableOf(r, root, v, d) = TableOf(t, root, v, d)
                  /\ EntryAt(r, root, v, d) =
                       IF d = c /\ Same(v, u, c) THEN entry ELSE EntryAt(t, root, v, d)
    BY <1>0, <1>3, <1>4, PutEntry
  <1>6. ASSUME NEW v \in AllPages, Same(v, u, c)
        PROVE  /\ IsMapped(r, root, v)
               /\ Translate(r, root, v) = [frame |-> frame + OffsetIn(v, c), flags |-> flags]
    <2>1. Live(t, root, v, c)
      <3>1. Same(v, u, c - 1)
        BY <1>6 DEF Same
      <3> QED
        BY <1>0, <3>1, SameTable
    <2>2. Live(r, root, v, c) /\ EntryAt(r, root, v, c) = entry
      BY <1>0, <1>5, <1>6, <2>1
    <2>3. NoLargeTop(r, root, v)
      BY <1>5, GoodTop DEF Good
    <2>4. LeafAt(r, root, v, c) /\ FrameBits(frame, c) = frame
      <3>1. frame \in Nat
        BY VmmOpsAssumption
      <3>2. ReservedClear(frame, c) /\ FrameBits(frame, c) = frame
        BY <3>1 DEF ReservedClear, FrameBits
      <3> QED
        BY <1>3, <2>2, <3>2 DEF LeafAt
    <2>5. IsMapped(r, root, v) /\ LeafLevel(r, root, v) = c
      BY <2>3, <2>4, MappedLeaf
    <2>6. ASSUME NEW k \in 1 .. c
          PROVE  EntryAt(r, root, v, k).flags \ {PAGESIZE} = flags
      <3>0. k \in 1 .. 4 /\ (k = c \/ k \in 1 .. (c - 1)) /\ \A j \in 1 .. (k - 1) : j \in 1 .. (c - 1)
        OBVIOUS
      <3>1. Live(r, root, v, k) /\ k \in 1 .. 4
        BY <2>2, <3>0 DEF Live
      <3>2. PRESENT \in EntryAt(r, root, v, k).flags
        BY <1>3, <2>2, <3>0 DEF Live, Leading
      <3>3. EntryAt(r, root, v, k).flags \ {PAGESIZE} \in Permissions
        BY <1>5, <3>1, <3>2 DEF Good, Kinds
      <3> QED
        BY <3>3, OnePermission
    <2>7. {p \in {PRESENT, READWRITE} : \A k \in 1 .. c : p \in EntryAt(r, root, v, k).flags} = flags
      <3>1. ASSUME NEW p \in {PRESENT, READWRITE}
            PROVE  (\A k \in 1 .. c : p \in EntryAt(r, root, v, k).flags) <=> p \in flags
        <4>1. 1 \in 1 .. c /\ p # PAGESIZE
          BY <1>1
        <4>2. \A k \in 1 .. c : p \in EntryAt(r, root, v, k).flags <=> p \in flags
          BY <2>6, <4>1
        <4> QED
          BY <4>1, <4>2
      <3> QED
        BY <1>1, <3>1
    <2> QED
      BY <2>2, <2>4, <2>5, <2>7 DEF Translate
  <1>7. ASSUME NEW v \in AllPages, ~ Same(v, u, c)
        PROVE  /\ IsMapped(t, root, v) <=> IsMapped(r, root, v)
               /\ IsMapped(t, root, v) => Translate(r, root, v) = Translate(t, root, v)
    <2>1. \A d \in 1 .. 4 : /\ Live(t, root, v, d) <=> Live(r, root, v, d)
                            /\ Live(t, root, v, d) => EntryAt(r, root, v, d) = EntryAt(t, root, v, d)
      BY <1>5, <1>7
    <2>2. NoLargeTop(t, root, v)
      BY <1>0, GoodTop
    <2> QED
      BY <2>1, <2>2, SameLive
  <1>8. TranslationIn(r, root) = Put(TranslationIn(t, root), u, c, frame, flags)
    <2>1. DOMAIN TranslationIn(t, root) = {v \in AllPages : IsMapped(t, root, v)}
      BY DEF TranslationIn
    <2>2. {v \in AllPages : IsMapped(r, root, v)}
            = {v \in AllPages : IsMapped(t, root, v)} \cup {w \in AllPages : Same(w, u, c)}
      BY <1>6, <1>7
    <2>3. ASSUME NEW v \in {w \in AllPages : IsMapped(r, root, w)}
          PROVE  Translate(r, root, v) =
                   IF Same(v, u, c) THEN [frame |-> frame + OffsetIn(v, c), flags |-> flags]
                   ELSE TranslationIn(t, root)[v]
      <3>1. CASE Same(v, u, c)
        BY <1>6, <3>1
      <3>2. CASE ~ Same(v, u, c)
        BY <1>7, <3>2 DEF TranslationIn
      <3> QED
        BY <3>1, <3>2
    <2> QED
      BY <2>1, <2>2, <2>3 DEF TranslationIn, Put
  <1> QED
    BY <1>5, <1>8

-----------------------------------------------------------------------------
(***************************************************************************)
(* The calls.                                                              *)
(***************************************************************************)
(* What a call that maps may do: fail for want of a page, or map the pages *)
(* below the entry it is about.                                            *)
Maps(t, r, root, u, c, frame, flags) ==
  /\ Sound(r)
  /\ ~ Short(r) => /\ Good(r, root)
                   /\ TranslationIn(r, root) = Put(TranslationIn(t, root), u, c, frame, flags)

(* On the way down, at depth c of the walk to u. *)
Arrived(t, r, root, u, c, table) ==
  /\ Sound(r) /\ table \in Frames
  /\ ~ Short(r) => /\ Good(r, root) /\ Live(r, root, u, c) /\ table = TableOf(r, root, u, c)
                   /\ TranslationIn(r, root) = TranslationIn(t, root)

(* A call starts at the root. *)
LEMMA Start ==
  ASSUME NEW t, Sound(t), NEW root \in Frames, Good(t, root), NEW u
  PROVE  Arrived(t, t, root, u, 1, root)
  BY DEF Arrived, Live, TableOf

(* It goes down a level. *)
LEMMA OneDown ==
  ASSUME NEW t, NEW r, NEW root \in Frames, NEW u \in AllPages, NEW c \in 1 .. 3, NEW table,
         Arrived(t, r, root, u, c, table), ~ Large(u, c), NEW flags \in Permissions,
         NEW g, g = vmm_get_pagemap(r, table, u[c], flags)
  PROVE  Arrived(t, g.s, root, u, c + 1, g.table)
  <1>1. Sound(r) /\ table \in Frames
    BY DEF Arrived
  <1>2. u[c] \in Indices
    BY DEF AllPages
  <1>3. Sound(g.s) /\ g.table \in Frames /\ (Short(r) => Short(g.s))
    BY <1>1, <1>2, DescendSound
  <1>4. ASSUME ~ Short(g.s)
        PROVE  /\ Good(g.s, root) /\ Live(g.s, root, u, c + 1) /\ g.table = TableOf(g.s, root, u, c + 1)
               /\ TranslationIn(g.s, root) = TranslationIn(t, root)
    <2>1. /\ Good(r, root) /\ Live(r, root, u, c) /\ table = TableOf(r, root, u, c)
          /\ TranslationIn(r, root) = TranslationIn(t, root)
      BY <1>3, <1>4 DEF Arrived
    <2>2. g = vmm_get_pagemap(r, TableOf(r, root, u, c), u[c], flags)
      BY <2>1
    <2>3. /\ Good(g.s, root)
          /\ Live(g.s, root, u, c + 1) /\ g.table = TableOf(g.s, root, u, c + 1)
          /\ TranslationIn(g.s, root) = TranslationIn(r, root)
      BY <1>1, <1>4, <2>1, <2>2, Descend
    <2> QED
      BY <2>1, <2>3
  <1> QED
    BY <1>3, <1>4 DEF Arrived

(* It writes the leaf. *)
LEMMA AtLeaf ==
  ASSUME NEW t, NEW r, NEW root \in Frames, NEW u \in AllPages, NEW c \in 2 .. 4, NEW table,
         Arrived(t, r, root, u, c, table), c = 4 \/ Large(u, c),
         NEW frame \in Frames, c = 4 \/ frame % Span(c) = 0, NEW flags \in Permissions,
         NEW entry, entry.frame = frame, entry \in EntryType,
         entry.flags = IF c = 4 THEN flags ELSE flags \cup {PAGESIZE}
  PROVE  Maps(t, SetEntry(r, table, u[c], entry), root, u, c, frame, flags)
  <1> DEFINE q == SetEntry(r, table, u[c], entry)
  <1>1. Sound(r) /\ table \in Frames /\ u[c] \in Indices
    BY DEF Arrived, AllPages
  <1>2. Sound(q)
    BY <1>1, SetEntrySound
  <1>3. Short(q) <=> Short(r)
    BY <1>1, SetEntryEffect DEF Sound
  <1>4. ASSUME ~ Short(q)
        PROVE  /\ Good(q, root)
               /\ TranslationIn(q, root) = Put(TranslationIn(t, root), u, c, frame, flags)
    <2>1. /\ Good(r, root) /\ Live(r, root, u, c) /\ table = TableOf(r, root, u, c)
          /\ TranslationIn(r, root) = TranslationIn(t, root)
      BY <1>3, <1>4 DEF Arrived
    <2>2. q = SetEntry(r, TableOf(r, root, u, c), u[c], entry)
      BY <2>1
    <2> HIDE DEF q
    <2>3. /\ Good(q, root)
          /\ TranslationIn(q, root) = Put(TranslationIn(r, root), u, c, frame, flags)
      BY <1>1, <2>1, <2>2, PutLeaf
    <2> QED
      BY <2>1, <2>3
  <1> HIDE DEF q
  <1>5. Maps(t, q, root, u, c, frame, flags)
    BY <1>2, <1>4 DEF Maps
  <1> QED
    BY <1>5 DEF q

(* The entries that are written. *)
LEMMA LeafEntries ==
  ASSUME NEW frame \in Targets, NEW flags \in Permissions
  PROVE  /\ [frame |-> frame, flags |-> flags] \in EntryType
         /\ [frame |-> frame, flags |-> flags \cup {PAGESIZE}] \in EntryType
         /\ frame \in Frames
  BY CallsAssumption DEF EntryType

(* vmm_map_4Kpage. *)
LEMMA Map4KEffect ==
  ASSUME NEW t, Sound(t), NEW root \in Frames, Good(t, root),
         NEW v \in Pages4K, NEW frame \in Targets, NEW flags \in Permissions
  PROVE  v \in AllPages /\ Maps(t, vmm_map_4Kpage(t, root, v, frame, flags), root, v, 4, frame, flags)
  <1> DEFINE PML3 == vmm_get_pagemap(t, root, v[1], flags)
             PML2 == vmm_get_pagemap(PML3.s, PML3.table, v[2], flags)
             PML1 == vmm_get_pagemap(PML2.s, PML2.table, v[3], flags)
             entry == [frame |-> frame, flags |-> flags]
  <1>1. v \in AllPages /\ ~ Large(v, 1) /\ ~ Large(v, 2) /\ ~ Large(v, 3)
    BY CallsAssumption, RegionsApart DEF Large
  <1>2. vmm_map_4Kpage(t, root, v, frame, flags) = SetEntry(PML1.s, PML1.table, v[4], entry)
    BY DEF vmm_map_4Kpage
  <1>3. entry \in EntryType /\ entry.frame = frame /\ entry.flags = flags /\ frame \in Frames
    BY LeafEntries
  <1> HIDE DEF PML3, PML2, PML1, entry
  <1>4. Arrived(t, t, root, v, 1, root)
    BY Start
  <1>5. Arrived(t, PML3.s, root, v, 2, PML3.table)
    BY <1>1, <1>4, OneDown DEF PML3
  <1>6. Arrived(t, PML2.s, root, v, 3, PML2.table)
    BY <1>1, <1>5, OneDown DEF PML2
  <1>7. Arrived(t, PML1.s, root, v, 4, PML1.table)
    BY <1>1, <1>6, OneDown DEF PML1
  <1>8. 4 \in 2 .. 4 /\ entry.flags = IF 4 = 4 THEN flags ELSE flags \cup {PAGESIZE}
    BY <1>3
  <1>9. Maps(t, SetEntry(PML1.s, PML1.table, v[4], entry), root, v, 4, frame, flags)
    BY <1>1, <1>3, <1>7, <1>8, AtLeaf, Zenon
  <1> QED
    BY <1>1, <1>2, <1>9

(* vmm_map_2Mpage. *)
LEMMA Map2MEffect ==
  ASSUME NEW t, Sound(t), NEW root \in Frames, Good(t, root),
         NEW v \in Regions2M, NEW frame \in TargetsAt(3), NEW flags \in Permissions,
         NEW u \in AllPages, Same(u, v, 3)
  PROVE  Maps(t, vmm_map_2Mpage(t, root, v, frame, flags), root, u, 3, frame, flags)
  <1> DEFINE PML3 == vmm_get_pagemap(t, root, u[1], flags)
             PML2 == vmm_get_pagemap(PML3.s, PML3.table, u[2], flags)
             entry == [frame |-> frame, flags |-> flags \cup {PAGESIZE}]
  <1>1. v = <<u[1], u[2], u[3]>>
    BY CallsAssumption DEF Same
  <1>2. ~ Large(u, 1) /\ ~ Large(u, 2) /\ Large(u, 3)
    BY <1>1, RegionsApart DEF Large
  <1>3. vmm_map_2Mpage(t, root, v, frame, flags) = SetEntry(PML2.s, PML2.table, u[3], entry)
    BY DEF vmm_map_2Mpage, Same
  <1>4. /\ entry \in EntryType /\ entry.frame = frame /\ entry.flags = flags \cup {PAGESIZE}
        /\ frame \in Frames /\ (3 = 4 \/ frame % Span(3) = 0)
    BY LeafEntries DEF TargetsAt
  <1> HIDE DEF PML3, PML2, entry
  <1>5. Arrived(t, t, root, u, 1, root)
    BY Start
  <1>6. Arrived(t, PML3.s, root, u, 2, PML3.table)
    BY <1>2, <1>5, OneDown DEF PML3
  <1>7. Arrived(t, PML2.s, root, u, 3, PML2.table)
    BY <1>2, <1>6, OneDown DEF PML2
  <1>8. 3 \in 2 .. 4 /\ entry.flags = IF 3 = 4 THEN flags ELSE flags \cup {PAGESIZE}
    BY <1>4
  <1>9. Maps(t, SetEntry(PML2.s, PML2.table, u[3], entry), root, u, 3, frame, flags)
    BY <1>2, <1>4, <1>7, <1>8, AtLeaf, Zenon
  <1> QED
    BY <1>3, <1>9

(* vmm_map_1Gpage. *)
LEMMA Map1GEffect ==
  ASSUME NEW t, Sound(t), NEW root \in Frames, Good(t, root),
         NEW v \in Regions1G, NEW frame \in TargetsAt(2), NEW flags \in Permissions,
         NEW u \in AllPages, Same(u, v, 2)
  PROVE  Maps(t, vmm_map_1Gpage(t, root, v, frame, flags), root, u, 2, frame, flags)
  <1> DEFINE PML3 == vmm_get_pagemap(t, root, u[1], flags)
             entry == [frame |-> frame, flags |-> flags \cup {PAGESIZE}]
  <1>1. v = <<u[1], u[2]>>
    BY CallsAssumption DEF Same
  <1>2. ~ Large(u, 1) /\ Large(u, 2)
    BY <1>1 DEF Large
  <1>3. vmm_map_1Gpage(t, root, v, frame, flags) = SetEntry(PML3.s, PML3.table, u[2], entry)
    BY DEF vmm_map_1Gpage, Same
  <1>4. /\ entry \in EntryType /\ entry.frame = frame /\ entry.flags = flags \cup {PAGESIZE}
        /\ frame \in Frames /\ (2 = 4 \/ frame % Span(2) = 0)
    BY LeafEntries DEF TargetsAt
  <1> HIDE DEF PML3, entry
  <1>5. Arrived(t, t, root, u, 1, root)
    BY Start
  <1>6. Arrived(t, PML3.s, root, u, 2, PML3.table)
    BY <1>2, <1>5, OneDown DEF PML3
  <1>7. 2 \in 2 .. 4 /\ entry.flags = IF 2 = 4 THEN flags ELSE flags \cup {PAGESIZE}
    BY <1>4
  <1>8. Maps(t, SetEntry(PML3.s, PML3.table, u[2], entry), root, u, 2, frame, flags)
    BY <1>2, <1>4, <1>6, <1>7, AtLeaf, Zenon
  <1> QED
    BY <1>3, <1>8

(* The pages of a region are those whose walks meet its entry. *)
LEMMA RegionIs ==
  ASSUME NEW u \in AllPages, NEW c \in 2 .. 4, NEW q, q \in [1 .. c -> Indices], Len(q) = c, Same(u, q, c)
  PROVE  Region(q) = [v \in {w \in AllPages : Same(w, u, c)} |-> OffsetIn(v, c)]
  <1>1. ASSUME NEW v \in AllPages
        PROVE  SubSeq(v, 1, c) = q <=> Same(v, u, c)
    <2>1. /\ v = <<v[1], v[2], v[3], v[4]>> /\ v[1] \in Indices /\ v[2] \in Indices
          /\ v[3] \in Indices /\ v[4] \in Indices
      BY DEF AllPages
    <2>2. v \in [1 .. 4 -> Indices]
      BY <2>1
    <2>3. SubSeq(v, 1, c) = [k \in 1 .. c |-> v[k]]
      BY <2>2
    <2>4. q = [k \in 1 .. c |-> q[k]]
      OBVIOUS
    <2>5. SubSeq(v, 1, c) = q <=> \A k \in 1 .. c : v[k] = q[k]
      BY <2>3, <2>4
    <2> QED
      BY <2>5 DEF Same
  <1>2. {v \in AllPages : SubSeq(v, 1, Len(q)) = q} = {w \in AllPages : Same(w, u, c)}
    BY <1>1
  <1> QED
    BY <1>2 DEF Region

(* Put is what AddressSpace asks of a call. *)
LEMMA PutIsMapped ==
  ASSUME NEW space, \A v \in DOMAIN space : v \in AllPages, NEW frame, NEW flags, NEW u, NEW c, NEW q,
         Region(q) = [v \in {w \in AllPages : Same(w, u, c)} |-> OffsetIn(v, c)]
  PROVE  Put(space, u, c, frame, flags) = A!Mapped(space, Region(q), frame, flags)
  <1>1. Region(q) = [v \in {w \in AllPages : Same(w, u, c)} |-> OffsetIn(v, c)]
    OBVIOUS
  <1>2. DOMAIN Region(q) = {w \in AllPages : Same(w, u, c)}
    BY <1>1
  <1>3. ASSUME NEW v \in DOMAIN space \cup {w \in AllPages : Same(w, u, c)}
        PROVE  (IF Same(v, u, c) THEN [frame |-> frame + OffsetIn(v, c), flags |-> flags] ELSE space[v])
                 = (IF v \in DOMAIN Region(q) THEN [frame |-> frame + Region(q)[v], flags |-> flags] ELSE space[v])
    BY <1>1, <1>2
  <1> QED
    BY <1>2, <1>3 DEF Put, A!Mapped

(* A page mapped 4K at a time is mapped if its four entries are present. *)
LEMMA SmallMapped ==
  ASSUME NEW t, NEW root \in Frames, Good(t, root), NEW v \in Pages4K
  PROVE  /\ v \in AllPages
         /\ IsMapped(t, root, v) <=> \A d \in 1 .. 4 : PRESENT \in EntryAt(t, root, v, d).flags
         /\ IsMapped(t, root, v) => Live(t, root, v, 4) /\ LeafLevel(t, root, v) = 4
  <1>1. v \in AllPages /\ ~ Large(v, 1) /\ ~ Large(v, 2) /\ ~ Large(v, 3)
    BY CallsAssumption, RegionsApart DEF Large
  <1>2. ASSUME NEW d \in 1 .. 3, Live(t, root, v, d), PRESENT \in EntryAt(t, root, v, d).flags
        PROVE  Leading(EntryAt(t, root, v, d)) /\ Live(t, root, v, d + 1)
    <2>1. ~ Large(v, d) /\ d \in 1 .. 4
      BY <1>1
    <2>2. Leading(EntryAt(t, root, v, d))
      BY <1>1, <1>2, <2>1 DEF Good, Kinds, Leading
    <2> QED
      BY <1>2, <2>2, LiveStep
  <1>3. NoLargeTop(t, root, v)
    BY <1>1, GoodTop DEF Good
  <1>4. ASSUME \A d \in 1 .. 4 : PRESENT \in EntryAt(t, root, v, d).flags
        PROVE  IsMapped(t, root, v)
    <2>1. Live(t, root, v, 1)
      BY DEF Live
    <2>2. Live(t, root, v, 2)
      BY <1>2, <1>4, <2>1
    <2>3. Live(t, root, v, 3)
      BY <1>2, <1>4, <2>2
    <2>4. Live(t, root, v, 4)
      BY <1>2, <1>4, <2>3
    <2>5. LeafAt(t, root, v, 4)
      BY <1>4, <2>4 DEF LeafAt, ReservedClear
    <2> QED
      BY <1>3, <2>5, MappedLeaf
  <1>5. ASSUME IsMapped(t, root, v)
        PROVE  /\ \A d \in 1 .. 4 : PRESENT \in EntryAt(t, root, v, d).flags
               /\ Live(t, root, v, 4) /\ LeafLevel(t, root, v) = 4
    <2>1. PICK d \in 2 .. 4 : LeafAt(t, root, v, d)
      BY <1>3, <1>5, MappedLeaf
    <2>2. d = 4
      <3>1. Live(t, root, v, d) /\ PRESENT \in EntryAt(t, root, v, d).flags
        BY <2>1 DEF LeafAt
      <3>2. d \in 1 .. 3 => PAGESIZE \notin EntryAt(t, root, v, d).flags
        BY <1>2, <3>1 DEF Leading
      <3> QED
        BY <2>1, <3>2 DEF LeafAt
    <2>3. Live(t, root, v, 4) /\ PRESENT \in EntryAt(t, root, v, 4).flags /\ LeafLevel(t, root, v) = 4
      BY <1>3, <2>1, <2>2, MappedLeaf DEF LeafAt
    <2> QED
      BY <2>3 DEF Live, Leading
  <1> QED
    BY <1>1, <1>4, <1>5

(* vmm_unmap_page takes a page away. *)
LEMMA UnmapEffect ==
  ASSUME NEW t, Sound(t), NEW root \in Frames, Good(t, root), NEW v \in Pages4K,
         NEW r, r = vmm_unmap_page(t, root, v)
  PROVE  /\ Sound(r) /\ Good(r, root) /\ (Short(r) <=> Short(t))
         /\ TranslationIn(r, root) = A!Unmapped(TranslationIn(t, root), v)
         /\ ~ IsMapped(t, root, v) => r = t
  <1>0. v \in AllPages
    BY SmallMapped
  <1>1. CASE ~ IsMapped(t, root, v)
    <2>1. r = t
      BY <1>1, SmallMapped DEF vmm_unmap_page
    <2>2. DOMAIN TranslationIn(t, root) = {w \in AllPages : IsMapped(t, root, w)}
      BY DEF TranslationIn
    <2>3. DOMAIN TranslationIn(t, root) \ {v} = DOMAIN TranslationIn(t, root)
      BY <1>1, <2>2
    <2>4. TranslationIn(t, root) = [w \in DOMAIN TranslationIn(t, root) |-> TranslationIn(t, root)[w]]
      BY DEF TranslationIn
    <2> QED
      BY <2>1, <2>3, <2>4 DEF A!Unmapped
  <1>2. CASE IsMapped(t, root, v)
    <2>1. /\ \A d \in 1 .. 4 : PRESENT \in EntryAt(t, root, v, d).flags
          /\ Live(t, root, v, 4)
      BY <1>2, SmallMapped
    <2>2. r = SetEntry(t, EntryAt(t, root, v, 3).frame, v[4], Zero)
      BY <2>1 DEF vmm_unmap_page
    <2>3. TableOf(t, root, v, 4) = EntryAt(t, root, v, 3).frame
      BY DEF TableOf
    <2>4. r = SetEntry(t, TableOf(t, root, v, 4), v[4], Zero)
      BY <2>2, <2>3
    <2>5. Zero \in EntryType /\ Fits(v, 4, Zero)
      BY ClearTable DEF Fits
    <2>6. /\ Sound(r) /\ Good(r, root) /\ (Short(r) <=> Short(t))
          /\ \A w \in AllPages, d \in 1 .. 4 :
               /\ Live(r, root, w, d) <=> Live(t, root, w, d)
               /\ Live(t, root, w, d) =>
                    /\ TableOf(r, root, w, d) = TableOf(t, root, w, d)
                    /\ EntryAt(r, root, w, d) =
                         IF d = 4 /\ Same(w, v, 4) THEN Zero ELSE EntryAt(t, root, w, d)
      BY <1>0, <2>1, <2>4, <2>5, PutEntry
    <2>7. ~ IsMapped(r, root, v)
      <3>1. Live(r, root, v, 4) /\ EntryAt(r, root, v, 4) = Zero
        BY <1>0, <2>1, <2>6 DEF Same
      <3>2. PRESENT \notin EntryAt(r, root, v, 4).flags
        BY <3>1 DEF Zero
      <3> QED
        BY <3>1, <3>2, NotMapped
    <2>8. ASSUME NEW w \in AllPages, w # v
          PROVE  /\ IsMapped(t, root, w) <=> IsMapped(r, root, w)
                 /\ IsMapped(t, root, w) => Translate(r, root, w) = Translate(t, root, w)
      <3>1. ~ Same(w, v, 4)
        BY <1>0, <2>8 DEF Same, AllPages
      <3>2. \A d \in 1 .. 4 : /\ Live(t, root, w, d) <=> Live(r, root, w, d)
                              /\ Live(t, root, w, d) => EntryAt(r, root, w, d) = EntryAt(t, root, w, d)
        BY <2>6, <3>1
      <3>3. NoLargeTop(t, root, w)
        BY GoodTop DEF Good
      <3> QED
        BY <3>2, <3>3, SameLive
    <2>9. TranslationIn(r, root) = A!Unmapped(TranslationIn(t, root), v)
      <3>1. {w \in AllPages : IsMapped(r, root, w)} = {w \in AllPages : IsMapped(t, root, w)} \ {v}
        BY <2>7, <2>8
      <3>2. \A w \in {w \in AllPages : IsMapped(r, root, w)} :
               Translate(r, root, w) = TranslationIn(t, root)[w]
        BY <2>7, <2>8 DEF TranslationIn
      <3> QED
        BY <3>1, <3>2 DEF TranslationIn, A!Unmapped
    <2> QED
      BY <1>2, <2>6, <2>9
  <1> QED
    BY <1>1, <1>2

-----------------------------------------------------------------------------
(***************************************************************************)
(* The start: one cleared table.                                           *)
(***************************************************************************)
LEMMA Ready ==
  /\ PmmReady(MemMap) \in InfoType
  /\ PmmReady(MemMap).bitmap_size # 0 /\ 0 \in PmmReady(MemMap).bitmap
  /\ PmmReady(MemMap).usedpages \in 0 .. (PmmReady(MemMap).totalpages - 1)
  /\ Unset(PmmReady(MemMap)) \subseteq Frames /\ Unset(PmmReady(MemMap)) # {}
  <1>1. UsablePages(MemMap) \in Int /\ TotalMem(MemMap) \in Nat /\ LargestSegment(MemMap).base \in Nat
    BY MapAssumption
  <1>2. /\ TotalPages(MemMap) \in Nat /\ BitmapSize(MemMap) # 0 /\ PmmReady(MemMap) \in InfoType
        /\ PmmReady(MemMap).usedpages = TotalPages(MemMap) - UsablePages(MemMap) + 1
        /\ PmmReady(MemMap).totalpages = TotalPages(MemMap)
        /\ PmmReady(MemMap).bitmap_size = BitmapSize(MemMap)
        /\ PmmReady(MemMap).bitmap = (Bits(BitmapSize(MemMap)) \ UsableFrames(MemMap)) \cup {0}
        /\ Unset(PmmReady(MemMap)) = (UsableFrames(MemMap) \cap Bits(BitmapSize(MemMap))) \ {0}
    BY <1>1, ReadyInfo
  <1>3. PmmReady(MemMap).usedpages \in 0 .. (PmmReady(MemMap).totalpages - 1)
    BY <1>2, MapAssumption
  <1>4. Unset(PmmReady(MemMap)) \subseteq Frames /\ Unset(PmmReady(MemMap)) # {}
    BY <1>2, MapAssumption
  <1> QED
    BY <1>2, <1>3, <1>4

(* The initial state has one table, and nothing is mapped. *)
LEMMA InitIInv ==
  ASSUME Init
  PROVE  /\ IInv /\ ~ Short(s)
         /\ \A v \in AllPages : ~ IsMapped(s, RootPageDirectory, v)
  <1> DEFINE t == [info |-> PmmReady(MemMap), mem |-> Garbage, exhausted |-> FALSE]
             c == vmm_create_page_table(t)
             root == RootPageDirectory
  <1>0. s = c.s /\ root = c.table
    BY DEF Init
  <1>1. t.info = PmmReady(MemMap) /\ t.mem = Garbage /\ ~ Short(t) /\ t.exhausted = FALSE
    BY DEF Short
  <1>2. Garbage \in MemType
    <2>1. [frame |-> 0, flags |-> {PRESENT, READWRITE}] \in EntryType
      BY VmmOpsAssumption DEF EntryType
    <2> QED
      BY <2>1 DEF Garbage, MemType
  <1>3. t \in StateType
    BY <1>2, Ready DEF StateType
  <1> HIDE DEF t
  <1>4. Sound(t)
    <2>1. PmmReady(MemMap).totalpages \in Int
      BY Ready DEF InfoType
    <2> QED
      BY <1>1, <1>3, <2>1, Ready DEF Sound
  <1> HIDE DEF c
  <1>5. /\ Sound(c.s) /\ c.table \in Frames
        /\ \/ /\ c.table \in Unset(t.info)
              /\ c.s.info = Marked(t.info, c.table)
              /\ Short(c.s) <=> Short(t)
              /\ c.s.mem = Wiped(t.mem, c.table)
           \/ Unset(t.info) = {} \/ t.info.usedpages >= t.info.totalpages
    BY <1>4, CreateTable DEF c
  <1>6. Unset(t.info) # {} /\ ~ (t.info.usedpages >= t.info.totalpages)
    <2>1. PmmReady(MemMap).totalpages \in Int
      BY Ready DEF InfoType
    <2> QED
      BY <1>1, <2>1, Ready
  <1>7. /\ Sound(s) /\ root \in Frames /\ ~ Short(s)
        /\ s.info = Marked(t.info, root) /\ s.mem = Wiped(Garbage, root)
    BY <1>0, <1>1, <1>5, <1>6
  <1>8. ASSUME NEW v \in AllPages
        PROVE  EntryAt(s, root, v, 1) = Zero
    <2>1. v[1] \in Indices
      BY DEF AllPages
    <2>2. Wiped(Garbage, root)[root][v[1]] = Zero
      BY <1>2, <1>7, <2>1, ReadBack, ClearTable
    <2> QED
      BY <1>7, <2>2, EntryLevels
  <1>9. ASSUME NEW v \in AllPages, NEW d \in 1 .. 4, Live(s, root, v, d)
        PROVE  d = 1 /\ TableOf(s, root, v, d) = root /\ PRESENT \notin EntryAt(s, root, v, d).flags
    <2>1. d = 1
      BY <1>8, <1>9 DEF Live, Leading, Zero
    <2> QED
      BY <1>8, <2>1 DEF TableOf, Zero
  <1>10. Tree(s, root)
    BY <1>9 DEF Tree, Same
  <1>11. Kinds(s, root)
    BY <1>9 DEF Kinds
  <1>12. s.info.bitmap = t.info.bitmap \cup {root} /\ s.info.usedpages = t.info.usedpages + 1
    BY <1>1, <1>7, Ready DEF Marked, InfoType
  <1>13. Taken(s, root)
    BY <1>9, <1>12 DEF Taken
  <1>14. Counted(s, root)
    <2>1. ASSUME NEW x
          PROVE  x \in Tables(s, root) <=> x = root
      <3>1. x \in Tables(s, root) => x = root
        BY <1>9, TablesAre
      <3>2. root \in Tables(s, root)
        <4>1. <<0, 0, 0, 0>> \in AllPages
          BY VmmOpsAssumption DEF AllPages, Indices
        <4>2. Live(s, root, <<0, 0, 0, 0>>, 1) /\ root = TableOf(s, root, <<0, 0, 0, 0>>, 1) /\ 1 \in 1 .. 4
          BY DEF Live, TableOf
        <4> QED
          BY <4>1, <4>2, TablesAre
      <3> QED
        BY <3>1, <3>2
    <2>2. Tables(s, root) = {root}
      BY <2>1
    <2>3. IsFiniteSet({root}) /\ Cardinality({root}) = 1
      BY FS_Singleton
    <2> QED
      BY <1>1, <1>12, <2>2, <2>3 DEF Counted
  <1>15. ASSUME NEW v \in AllPages
         PROVE  ~ IsMapped(s, root, v)
    <2>1. Live(s, root, v, 1) /\ PRESENT \notin EntryAt(s, root, v, 1).flags
      BY <1>8 DEF Live, Zero
    <2> QED
      BY <2>1, NotMapped
  <1> QED
    BY <1>7, <1>10, <1>11, <1>13, <1>14, <1>15 DEF IInv, Good

-----------------------------------------------------------------------------
(***************************************************************************)
(* The steps.                                                              *)
(***************************************************************************)
(* Each kind of call maps its region, as AddressSpace says it. *)
LEMMA CallsMap ==
  ASSUME IInv, ~ Short(s), NEW flags \in Permissions
  PROVE  /\ \A v \in Pages4K, frame \in Targets :
              LET r == vmm_map_4Kpage(s, RootPageDirectory, v, frame, flags)
              IN  /\ Sound(r)
                  /\ ~ Short(r) => /\ Good(r, RootPageDirectory)
                                   /\ TranslationIn(r, RootPageDirectory)
                                        = A!Mapped(Translation, Region(v), frame, flags)
         /\ \A v \in Regions2M, frame \in TargetsAt(3) :
              LET r == vmm_map_2Mpage(s, RootPageDirectory, v, frame, flags)
              IN  /\ Sound(r)
                  /\ ~ Short(r) => /\ Good(r, RootPageDirectory)
                                   /\ TranslationIn(r, RootPageDirectory)
                                        = A!Mapped(Translation, Region(v), frame, flags)
         /\ \A v \in Regions1G, frame \in TargetsAt(2) :
              LET r == vmm_map_1Gpage(s, RootPageDirectory, v, frame, flags)
              IN  /\ Sound(r)
                  /\ ~ Short(r) => /\ Good(r, RootPageDirectory)
                                   /\ TranslationIn(r, RootPageDirectory)
                                        = A!Mapped(Translation, Region(v), frame, flags)
  <1> DEFINE root == RootPageDirectory
             Does(r, q, frame) ==
               /\ Sound(r)
               /\ ~ Short(r) => /\ Good(r, root)
                                /\ TranslationIn(r, root) = A!Mapped(Translation, Region(q), frame, flags)
  <1>1. Sound(s) /\ root \in Frames /\ Good(s, root)
    BY DEF IInv
  <1>2. DOMAIN Translation \subseteq AllPages
    BY DEF Translation, TranslationIn
  <1>3. ASSUME NEW r, NEW frame, NEW u \in AllPages, NEW c \in 2 .. 4, Maps(s, r, root, u, c, frame, flags),
               NEW q, q \in [1 .. c -> Indices], Len(q) = c, Same(u, q, c)
        PROVE  Does(r, q, frame)
    <2>0. /\ Region(q) = [v \in {w \in AllPages : Same(w, u, c)} |-> OffsetIn(v, c)]
          /\ \A v \in DOMAIN Translation : v \in AllPages
      BY <1>2, <1>3, RegionIs
    <2>1. Put(Translation, u, c, frame, flags) = A!Mapped(Translation, Region(q), frame, flags)
      BY <2>0, PutIsMapped
    <2> QED
      BY <1>3, <2>1 DEF Maps, Translation
  <1>4. ASSUME NEW v \in Pages4K, NEW frame \in Targets
        PROVE  Does(vmm_map_4Kpage(s, root, v, frame, flags), v, frame)
    <2>1. /\ v \in AllPages
          /\ Maps(s, vmm_map_4Kpage(s, root, v, frame, flags), root, v, 4, frame, flags)
      BY <1>1, Map4KEffect
    <2>2. v = <<v[1], v[2], v[3], v[4]>> /\ v[1] \in Indices /\ v[2] \in Indices /\ v[3] \in Indices /\ v[4] \in Indices
      BY <2>1 DEF AllPages
    <2>3. v \in [1 .. 4 -> Indices] /\ Len(v) = 4 /\ Same(v, v, 4)
      BY <2>2 DEF Same
    <2> HIDE DEF Does
    <2> QED
      BY <1>3, <2>1, <2>3
  <1>5. ASSUME NEW v \in Regions2M, NEW frame \in TargetsAt(3)
        PROVE  Does(vmm_map_2Mpage(s, root, v, frame, flags), v, frame)
    <2>1. /\ v = <<v[1], v[2], v[3]>> /\ v[1] \in Indices /\ v[2] \in Indices /\ v[3] \in Indices
          /\ 0 \in Indices
      BY CallsAssumption, VmmOpsAssumption DEF Indices
    <2>2. v \in [1 .. 3 -> Indices] /\ Len(v) = 3
      BY <2>1
    <2>3. PICK u \in AllPages : Same(u, v, 3)
      <3>1. <<v[1], v[2], v[3], 0>> \in AllPages
        BY <2>1 DEF AllPages
      <3>2. Same(<<v[1], v[2], v[3], 0>>, v, 3)
        BY DEF Same
      <3> QED
        BY <3>1, <3>2
    <2>4. Maps(s, vmm_map_2Mpage(s, root, v, frame, flags), root, u, 3, frame, flags)
      BY <1>1, <2>3, Map2MEffect
    <2> HIDE DEF Does
    <2> QED
      BY <1>3, <2>2, <2>3, <2>4
  <1>6. ASSUME NEW v \in Regions1G, NEW frame \in TargetsAt(2)
        PROVE  Does(vmm_map_1Gpage(s, root, v, frame, flags), v, frame)
    <2>1. v = <<v[1], v[2]>> /\ v[1] \in Indices /\ v[2] \in Indices /\ 0 \in Indices
      BY CallsAssumption, VmmOpsAssumption DEF Indices
    <2>2. v \in [1 .. 2 -> Indices] /\ Len(v) = 2
      BY <2>1
    <2>3. PICK u \in AllPages : Same(u, v, 2)
      <3>1. <<v[1], v[2], 0, 0>> \in AllPages
        BY <2>1 DEF AllPages
      <3>2. Same(<<v[1], v[2], 0, 0>>, v, 2)
        BY DEF Same
      <3> QED
        BY <3>1, <3>2
    <2>4. Maps(s, vmm_map_1Gpage(s, root, v, frame, flags), root, u, 2, frame, flags)
      BY <1>1, <2>3, Map1GEffect
    <2> HIDE DEF Does
    <2> QED
      BY <1>3, <2>2, <2>3, <2>4
  <1> QED
    BY <1>4, <1>5, <1>6

(* Every step keeps the invariant, and is one of AddressSpace's, unless it *)
(* ends for want of a page.                                                *)
LEMMA NextIInv ==
  ASSUME IInv, Next
  PROVE  IInv' /\ (Spoilt(s') \/ A!Next \/ Translation' = Translation)
  <1>0. Sound(s) /\ RootPageDirectory \in Frames /\ Good(s, RootPageDirectory) /\ ~ Short(s)
    BY ShortSpoilt DEF Next, IInv
  <1>1. ASSUME RootPageDirectory' = RootPageDirectory, Sound(s'), ~ Short(s') => Good(s', RootPageDirectory)
        PROVE  IInv'
    <2>1. Short(s)' <=> Short(s')
      BY DEF Short
    <2> QED
      BY <1>0, <1>1, <2>1 DEF IInv
  <1>2. ASSUME NEW q \in Pages4K \cup Regions2M \cup Regions1G, NEW frame \in Targets, NEW flags \in Permissions,
               RootPageDirectory' = RootPageDirectory, Sound(s'),
               ~ Short(s') => /\ Good(s', RootPageDirectory)
                              /\ TranslationIn(s', RootPageDirectory)
                                   = A!Mapped(Translation, Region(q), frame, flags)
        PROVE  IInv' /\ (Spoilt(s') \/ A!Next)
    <2>1. IInv'
      BY <1>1, <1>2
    <2>2. ASSUME ~ Short(s')
          PROVE  A!Next
      <3>1. Translation' = A!Mapped(Translation, Region(q), frame, flags)
        BY <1>2, <2>2 DEF Translation
      <3>2. A!Map(Region(q), frame, flags)
        BY <3>1 DEF A!Map
      <3> QED
        BY <1>2, <3>2 DEF A!Next
    <2> QED
      BY <2>1, <2>2, ShortSpoilt
  <1>3. ASSUME NEW frame \in Targets, NEW flags \in Permissions, NEW v \in Pages4K, Map4K(v, frame, flags)
        PROVE  IInv' /\ (Spoilt(s') \/ A!Next)
    <2>1. s' = vmm_map_4Kpage(s, RootPageDirectory, v, frame, flags) /\ RootPageDirectory' = RootPageDirectory
      BY <1>3 DEF Map4K
    <2>2. /\ Sound(s')
          /\ ~ Short(s') => /\ Good(s', RootPageDirectory)
                            /\ TranslationIn(s', RootPageDirectory)
                                 = A!Mapped(Translation, Region(v), frame, flags)
      BY <1>0, <2>1, CallsMap
    <2> QED
      BY <1>2, <2>1, <2>2
  <1>4. ASSUME NEW frame \in TargetsAt(3), NEW flags \in Permissions, NEW v \in Regions2M, Map2M(v, frame, flags)
        PROVE  IInv' /\ (Spoilt(s') \/ A!Next)
    <2>1. s' = vmm_map_2Mpage(s, RootPageDirectory, v, frame, flags) /\ RootPageDirectory' = RootPageDirectory
      BY <1>4 DEF Map2M
    <2>2. /\ Sound(s')
          /\ ~ Short(s') => /\ Good(s', RootPageDirectory)
                            /\ TranslationIn(s', RootPageDirectory)
                                 = A!Mapped(Translation, Region(v), frame, flags)
      BY <1>0, <2>1, CallsMap
    <2> QED
      BY <1>2, <2>1, <2>2 DEF TargetsAt
  <1>5. ASSUME NEW frame \in TargetsAt(2), NEW flags \in Permissions, NEW v \in Regions1G, Map1G(v, frame, flags)
        PROVE  IInv' /\ (Spoilt(s') \/ A!Next)
    <2>1. s' = vmm_map_1Gpage(s, RootPageDirectory, v, frame, flags) /\ RootPageDirectory' = RootPageDirectory
      BY <1>5 DEF Map1G
    <2>2. /\ Sound(s')
          /\ ~ Short(s') => /\ Good(s', RootPageDirectory)
                            /\ TranslationIn(s', RootPageDirectory)
                                 = A!Mapped(Translation, Region(v), frame, flags)
      BY <1>0, <2>1, CallsMap
    <2> QED
      BY <1>2, <2>1, <2>2 DEF TargetsAt
  <1>6. ASSUME NEW v \in Pages4K, Unmap(v)
        PROVE  IInv' /\ (A!Next \/ Translation' = Translation)
    <2>1. s' = vmm_unmap_page(s, RootPageDirectory, v) /\ RootPageDirectory' = RootPageDirectory
      BY <1>6 DEF Unmap
    <2>2. /\ Sound(s') /\ Good(s', RootPageDirectory)
          /\ TranslationIn(s', RootPageDirectory) = A!Unmapped(TranslationIn(s, RootPageDirectory), v)
          /\ ~ IsMapped(s, RootPageDirectory, v) => s' = s
      BY <1>0, <2>1, UnmapEffect
    <2>3. IInv'
      BY <1>1, <2>1, <2>2
    <2>4. CASE ~ IsMapped(s, RootPageDirectory, v)
      BY <2>1, <2>2, <2>3, <2>4 DEF Translation
    <2>5. CASE IsMapped(s, RootPageDirectory, v)
      <3>1. v \in DOMAIN Translation
        BY <1>0, <2>5, SmallMapped DEF Translation, TranslationIn
      <3>2. A!Unmap(v)
        BY <2>1, <2>2 DEF A!Unmap, Translation
      <3> QED
        BY <2>3, <3>1, <3>2 DEF A!Next
    <2> QED
      BY <2>4, <2>5
  <1> QED
    BY <1>3, <1>4, <1>5, <1>6 DEF Next

(* The invariant holds in every reachable state. *)
THEOREM Invariance == Spec => []IInv
  <1>1. Init => IInv
    BY InitIInv
  <1>2. IInv /\ [Next]_vars => IInv'
    <2>1. IInv /\ UNCHANGED vars => IInv'
      BY DEF IInv, vars
    <2> QED
      BY <2>1, NextIInv
  <1> QED
    BY <1>1, <1>2, PTL DEF Spec

-----------------------------------------------------------------------------
(***************************************************************************)
(* What the invariant implies.                                             *)
(***************************************************************************)
LEMMA InvTypeOK == IInv => TypeOK
  <1> SUFFICES ASSUME IInv
               PROVE  TypeOK
    OBVIOUS
  <1>1. /\ Sound(s) /\ RootPageDirectory \in Frames
        /\ s.info.usedpages \in 0 .. s.info.totalpages /\ s.mem \in MemType
    BY DEF IInv, Sound, StateType
  <1>2. ASSUME NEW f \in Frames, NEW i \in Indices
        PROVE  /\ s.mem[f][i].frame \in Frames
               /\ s.mem[f][i].flags \subseteq {PRESENT, READWRITE, PAGESIZE}
    BY <1>1 DEF MemType, EntryType
  <1>3. ASSUME NEW v \in AllPages, ~ Spoilt(s), LeafLevel(s, RootPageDirectory, v) = 4,
               IsMapped(s, RootPageDirectory, v)
        PROVE  PAGESIZE \notin EntryAt(s, RootPageDirectory, v, 4).flags
    <2>1. Good(s, RootPageDirectory)
      BY <1>3, ShortSpoilt DEF IInv
    <2>2. NoLargeTop(s, RootPageDirectory, v)
      BY <2>1, GoodTop DEF Good
    <2>3. LeafAt(s, RootPageDirectory, v, 4)
      BY <1>3, <2>2, MappedLeaf
    <2>4. ~ Large(v, 4) /\ 4 \in 1 .. 4
      BY DEF Large
    <2>5. Live(s, RootPageDirectory, v, 4) /\ PRESENT \in EntryAt(s, RootPageDirectory, v, 4).flags
      BY <2>3 DEF LeafAt
    <2>6. Kinds(s, RootPageDirectory)
      BY <2>1 DEF Good
    <2> QED
      BY <2>4, <2>5, <2>6 DEF Kinds
  <1> QED
    BY <1>1, <1>2, <1>3 DEF TypeOK

(* The tables form a tree. *)
LEMMA InvTree == IInv => TablesFormATree
  <1> DEFINE root == RootPageDirectory
  <1> SUFFICES ASSUME IInv, ~ Spoilt(s)
               PROVE  /\ \A q, r \in TablePaths(s, root) : TableAt(s, root, q) = TableAt(s, root, r) => q = r
                      /\ Tables(s, root) \subseteq s.info.bitmap
    BY DEF TablesFormATree
  <1>1. Tree(s, root) /\ Taken(s, root)
    BY ShortSpoilt DEF IInv, Good
  <1>2. ASSUME NEW q \in TablePaths(s, root), NEW r \in TablePaths(s, root),
               TableAt(s, root, q) = TableAt(s, root, r)
        PROVE  q = r
    <2>1. PICK v \in AllPages, d \in 1 .. 4 :
             /\ q \in [1 .. (d - 1) -> Indices] /\ \A k \in 1 .. (d - 1) : v[k] = q[k]
             /\ Live(s, root, v, d) /\ TableAt(s, root, q) = TableOf(s, root, v, d)
      BY PathIsWalk
    <2>2. PICK w \in AllPages, e \in 1 .. 4 :
             /\ r \in [1 .. (e - 1) -> Indices] /\ \A k \in 1 .. (e - 1) : w[k] = r[k]
             /\ Live(s, root, w, e) /\ TableAt(s, root, r) = TableOf(s, root, w, e)
      BY PathIsWalk
    <2>3. d = e /\ Same(v, w, d - 1)
      BY <1>1, <1>2, <2>1, <2>2 DEF Tree
    <2>4. r \in [1 .. (d - 1) -> Indices] /\ \A k \in 1 .. (d - 1) : q[k] = r[k]
      BY <2>1, <2>2, <2>3 DEF Same
    <2> QED
      BY <2>1, <2>4
  <1>3. Tables(s, root) \subseteq s.info.bitmap
    BY <1>1, TablesAre DEF Taken
  <1> QED
    BY <1>2, <1>3

(* vmm_pagewalk agrees with the processor. *)
LEMMA InvWalk == IInv => PagewalkAgrees
  <1> DEFINE root == RootPageDirectory
  <1> SUFFICES ASSUME IInv, NEW v \in Pages4K, IsMapped(s, root, v), ~ Spoilt(s)
               PROVE  vmm_pagewalk(s, root, v) = Translation[v].frame
    BY DEF PagewalkAgrees
  <1>1. Good(s, root) /\ root \in Frames /\ s.mem \in MemType
    BY ShortSpoilt DEF IInv, Sound, StateType
  <1>2. v \in AllPages /\ LeafLevel(s, root, v) = 4
    BY <1>1, SmallMapped
  <1>3. EntryAt(s, root, v, 4).frame \in Nat
    <2>1. EntryAt(s, root, v, 4) \in EntryType
      BY <1>1, <1>2, WalkTypes
    <2> QED
      BY <2>1, VmmOpsAssumption DEF EntryType
  <1>4. OffsetIn(v, 4) = 0
    BY DEF OffsetIn
  <1>5. Translate(s, root, v).frame = EntryAt(s, root, v, 4).frame + OffsetIn(v, 4)
    BY <1>2 DEF Translate, FrameBits
  <1>6. Translation[v] = Translate(s, root, v)
    BY <1>2 DEF Translation, TranslationIn
  <1> QED
    BY <1>3, <1>4, <1>5, <1>6 DEF vmm_pagewalk

(* Calls do as asked. *)
LEMMA InvAsked == IInv => MapsAsAsked
  <1> DEFINE root == RootPageDirectory
             Done(t, region, frame, flags) ==
               Spoilt(t) \/ TranslationIn(t, root) = A!Mapped(Translation, region, frame, flags)
  <1> SUFFICES ASSUME IInv, ~ Spoilt(s)
               PROVE  /\ \A flags \in Permissions :
                           /\ \A v \in Pages4K, frame \in Targets :
                                Done(vmm_map_4Kpage(s, root, v, frame, flags), Region(v), frame, flags)
                           /\ \A v \in Regions2M, frame \in TargetsAt(3) :
                                Done(vmm_map_2Mpage(s, root, v, frame, flags), Region(v), frame, flags)
                           /\ \A v \in Regions1G, frame \in TargetsAt(2) :
                                Done(vmm_map_1Gpage(s, root, v, frame, flags), Region(v), frame, flags)
                      /\ \A v \in Pages4K : TranslationIn(vmm_unmap_page(s, root, v), root) = A!Unmapped(Translation, v)
    BY DEF MapsAsAsked
  <1>1. Good(s, root) /\ Sound(s) /\ root \in Frames /\ ~ Short(s)
    BY ShortSpoilt DEF IInv
  <1>2. ASSUME NEW flags \in Permissions
        PROVE  /\ \A v \in Pages4K, frame \in Targets :
                    Done(vmm_map_4Kpage(s, root, v, frame, flags), Region(v), frame, flags)
               /\ \A v \in Regions2M, frame \in TargetsAt(3) :
                    Done(vmm_map_2Mpage(s, root, v, frame, flags), Region(v), frame, flags)
               /\ \A v \in Regions1G, frame \in TargetsAt(2) :
                    Done(vmm_map_1Gpage(s, root, v, frame, flags), Region(v), frame, flags)
    BY <1>1, CallsMap, ShortSpoilt
  <1>3. ASSUME NEW v \in Pages4K
        PROVE  TranslationIn(vmm_unmap_page(s, root, v), root) = A!Unmapped(Translation, v)
    BY <1>1, UnmapEffect DEF Translation
  <1> QED
    BY <1>2, <1>3

(* vmm.c: memory stays well typed, pmm_info's counter in range, and bit 7  *)
(* clear in the entries of level 1.                                        *)
THEOREM TypeCorrect == Spec => []TypeOK
  BY Invariance, InvTypeOK, PTL

(* vmm_get_pagemap and the calls above it: no page serves as a table in    *)
(* two places, and every table is marked in the bitmap.                    *)
THEOREM TreeKept == Spec => []TablesFormATree
  BY Invariance, InvTree, PTL

(* Every page that vmm_create_page_table took can be reached from the root.*)
THEOREM NothingLost == Spec => []NoTableLost
  <1>1. IInv => NoTableLost
    BY ShortSpoilt DEF IInv, Good, Counted, NoTableLost
  <1> QED
    BY <1>1, Invariance, PTL

(* vmm_pagewalk finds the frame that the processor does.                   *)
THEOREM WalkAgrees == Spec => []PagewalkAgrees
  BY Invariance, InvWalk, PTL

(* vmm_map_*page and vmm_unmap_page do what their arguments say, from      *)
(* every state, for large pages at aligned frames.                         *)
THEOREM AsAsked == Spec => []MapsAsAsked
  BY Invariance, InvAsked, PTL

(* The page tables implement AddressSpace.                                 *)
THEOREM Refinement == Spec => ImplementsAddressSpace
  <1>1. Init => A!Init
    <2> SUFFICES ASSUME Init
                 PROVE  Translation = [v \in {} |-> 0]
      BY DEF A!Init
    <2>1. {v \in AllPages : IsMapped(s, RootPageDirectory, v)} = {}
      BY InitIInv
    <2> QED
      BY <2>1 DEF Translation, TranslationIn
  <1>2. IInv /\ [Next]_vars => [Spoilt(s') \/ A!Next]_Translation
    <2>1. UNCHANGED vars => Translation' = Translation
      BY DEF vars, Translation
    <2> QED
      BY <2>1, NextIInv
  <1> QED
    BY <1>1, <1>2, Invariance, PTL DEF Spec, ImplementsAddressSpace
=============================================================================
