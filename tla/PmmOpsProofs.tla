---------------------------- MODULE PmmOpsProofs ----------------------------
(***************************************************************************)
(* Facts about the operations of PmmOps, for every page size, that the     *)
(* proofs of their callers share.                                          *)
(***************************************************************************)
EXTENDS PmmOps, FiniteSetTheorems, TLAPS

-----------------------------------------------------------------------------
(* Arithmetic and set facts.                                               *)

(* An address made from a frame number gives that frame number back. *)
LEMMA FrameOfAddress ==
  ASSUME NEW f \in Nat
  PROVE  /\ f * PAGE_SIZE \in Nat
         /\ (f * PAGE_SIZE) % PAGE_SIZE = 0
         /\ (f * PAGE_SIZE) \div PAGE_SIZE = f
  BY PageSizeAssumption, SMTT(30)

(* Page addresses with the same frame number are the same address. *)
LEMMA AddressOfFrame ==
  ASSUME NEW p \in Nat, NEW q \in Nat,
         p % PAGE_SIZE = 0, q % PAGE_SIZE = 0,
         p \div PAGE_SIZE = q \div PAGE_SIZE
  PROVE  p = q
  BY PageSizeAssumption, SMTT(30)

(* A nonempty set of naturals has a least element. *)
LEMMA LeastNatural ==
  ASSUME NEW S, S \subseteq Nat, S # {}
  PROVE  \E i \in S : \A j \in S : i <= j
  <1> DEFINE UpTo(i) == {k \in S : k <= i}
             T == {UpTo(i) : i \in S}
  <1>1. T \subseteq FiniteSubsetsOf(Nat)
    <2> SUFFICES ASSUME NEW i \in S
                 PROVE  UpTo(i) \subseteq Nat /\ IsFiniteSet(UpTo(i))
      BY DEF FiniteSubsetsOf
    <2>1. UpTo(i) \in SUBSET Nat /\ i \in Nat /\ \A s \in UpTo(i) : s <= i
      OBVIOUS
    <2> HIDE DEF UpTo
    <2> QED
      BY <2>1, FS_BoundedSetOfNaturals
  <1>2. T # {}
    OBVIOUS
  <1>3. PICK U \in T : \A V \in T : ~ (<<V, U>> \in StrictSubsetOrdering(Nat))
    <2> HIDE DEF T
    <2>1. IsWellFoundedOn(StrictSubsetOrdering(Nat), FiniteSubsetsOf(Nat))
      BY FS_StrictSubsetOrderingWellFounded
    <2> QED
      BY <1>1, <1>2, <2>1, WFMin
  <1>4. PICK i \in S : U = UpTo(i)
    BY <1>3
  <1>5. ASSUME NEW j \in S
        PROVE  i <= j
    <2> SUFFICES ASSUME j < i
                 PROVE  FALSE
      OBVIOUS
    <2>1. UpTo(j) \in T
      OBVIOUS
    <2>2. UpTo(j) \subseteq UpTo(i) /\ UpTo(j) # UpTo(i)
      <3>1. ASSUME NEW k \in UpTo(j)
            PROVE  k \in UpTo(i)
        <4>1. k \in Nat /\ j \in Nat /\ i \in Nat /\ k <= j
          OBVIOUS
        <4> QED
          BY <4>1
      <3>2. i \in UpTo(i) /\ i \notin UpTo(j)
        OBVIOUS
      <3> QED
        BY <3>1, <3>2
    <2>3. UpTo(i) \subseteq Nat /\ UpTo(j) \subseteq Nat
      OBVIOUS
    <2> HIDE DEF UpTo, T
    <2>4. <<UpTo(j), UpTo(i)>> \in StrictSubsetOrdering(Nat)
      BY <2>2, <2>3 DEF StrictSubsetOrdering
    <2> QED
      BY <1>3, <1>4, <2>1, <2>4
  <1> QED
    BY <1>5

(* get_first_unset gives an unset bit whenever there is one. *)
LEMMA FirstUnset ==
  ASSUME NEW bitmap, NEW size \in Nat, Bits(size) \ bitmap # {}
  PROVE  get_first_unset(bitmap, size) \in Bits(size) \ bitmap
  <1>1. Bits(size) \ bitmap \subseteq Nat
    BY DEF Bits
  <1> QED
    BY <1>1, LeastNatural DEF get_first_unset

(* What pmm_allocpage returns and how it changes the manager's record. *)
LEMMA AllocEffect ==
  ASSUME NEW info, info.bitmap_size \in Nat \ {0},
         ~ (info.usedpages >= info.totalpages),
         NEW unset, unset = Bits(info.bitmap_size) \ info.bitmap
  PROVE  \E f \in Bits(info.bitmap_size) :
           /\ IF unset = {} THEN f = 0 ELSE f \in unset
           /\ pmm_allocpage(info).page = f * PAGE_SIZE
           /\ pmm_allocpage(info).info =
                [info EXCEPT !.bitmap = info.bitmap \cup {f},
                             !.usedpages = info.usedpages + 1]
  <1> DEFINE f == get_first_unset(info.bitmap, info.bitmap_size)
  <1>1. IF unset = {} THEN f = 0 ELSE f \in unset
    <2>1. CASE unset = {}
      BY <2>1 DEF get_first_unset
    <2>2. CASE unset # {}
      BY <2>2, FirstUnset
    <2> QED
      BY <2>1, <2>2
  <1>2. f \in Bits(info.bitmap_size)
    <2> HIDE DEF f
    <2> QED
      BY <1>1 DEF Bits
  <1>3. pmm_allocpage(info).page = f * PAGE_SIZE
    BY DEF pmm_allocpage
  <1>4. pmm_allocpage(info).info =
                [info EXCEPT !.bitmap = info.bitmap \cup {f},
                             !.usedpages = info.usedpages + 1]
    BY DEF pmm_allocpage, bitmap_set
  <1> QED
    BY <1>1, <1>2, <1>3, <1>4

(* A full manager changes nothing. *)
LEMMA AllocFull ==
  ASSUME NEW info, info.usedpages >= info.totalpages
  PROVE  pmm_allocpage(info) = [info |-> info, page |-> NULL]
  BY DEF pmm_allocpage
=============================================================================
