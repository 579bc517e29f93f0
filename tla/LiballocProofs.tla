--------------------------- MODULE LiballocProofs ---------------------------
(***************************************************************************)
(* Proofs about Liballoc, for every size of the headers and pages, all     *)
(* addresses of the page hook and all requests that SizesAssumption        *)
(* allows.                                                                 *)
(***************************************************************************)
EXTENDS Liballoc, FiniteSetTheorems, TLAPS

-----------------------------------------------------------------------------
(* Sums over finite sets, as SumFunctionOnSet folds them.                  *)

(* The element that a fold takes next, and the equation that defines the   *)
(* fold of a sum.                                                          *)
Pick(s) == CHOOSE x \in s : TRUE

Unfolds(f, S, g) ==
  g = [s \in SUBSET S |-> IF s = {} THEN 0 ELSE f[Pick(s)] + g[s \ {Pick(s)}]]

Unfolding(f, S) == CHOOSE g : Unfolds(f, S, g)

LEMMA SumUnfolding ==
  ASSUME NEW f, NEW S
  PROVE  SumFunctionOnSet(f, S) = Unfolding(f, S)[S]
  BY DEF SumFunctionOnSet, FoldFunctionOnSet, MapThenFoldSet, Unfolding, Unfolds, Pick

LEMMA PickIn ==
  ASSUME NEW s, s # {}
  PROVE  Pick(s) \in s
  BY DEF Pick

(* A nonempty set of finite subsets has one with no other below it. *)
LEMMA MinimalSubset ==
  ASSUME NEW S, IsFiniteSet(S), NEW Bad, Bad \subseteq SUBSET S, Bad # {}
  PROVE  \E U \in Bad : \A V \in Bad : ~ (V \subseteq U /\ V # U)
  <1>1. Bad \subseteq FiniteSubsetsOf(S)
    BY FS_Subset DEF FiniteSubsetsOf
  <1>2. IsWellFoundedOn(StrictSubsetOrdering(S), FiniteSubsetsOf(S))
    BY FS_StrictSubsetOrderingWellFounded
  <1>3. PICK U \in Bad : \A V \in Bad : ~ (<<V, U>> \in StrictSubsetOrdering(S))
    BY <1>1, <1>2, WFMin
  <1> QED
    BY <1>1, <1>3 DEF StrictSubsetOrdering, FiniteSubsetsOf

LEMMA UnfoldsAgree ==
  ASSUME NEW f, NEW S, NEW T, NEW g, NEW h, IsFiniteSet(T), T \subseteq S,
         Unfolds(f, S, g), Unfolds(f, T, h)
  PROVE  \A s \in SUBSET T : g[s] = h[s]
  <1> DEFINE Bad == {s \in SUBSET T : g[s] # h[s]}
  <1> SUFFICES ASSUME Bad # {} PROVE FALSE
    OBVIOUS
  <1>1. PICK U \in Bad : \A V \in Bad : ~ (V \subseteq U /\ V # U)
    <2> Bad \subseteq SUBSET T
      OBVIOUS
    <2> HIDE DEF Bad
    <2> QED
      BY MinimalSubset
  <1>a. U \in SUBSET T /\ U \in SUBSET S /\ g[U] # h[U]
    BY <1>1
  <1>2. g[U] = (IF U = {} THEN 0 ELSE f[Pick(U)] + g[U \ {Pick(U)}])
    BY <1>a DEF Unfolds
  <1>3. h[U] = (IF U = {} THEN 0 ELSE f[Pick(U)] + h[U \ {Pick(U)}])
    BY <1>a DEF Unfolds
  <1>4. U # {}
    BY <1>a, <1>2, <1>3
  <1>5. U \ {Pick(U)} \notin Bad
    BY <1>1, <1>4, PickIn
  <1>6. U \ {Pick(U)} \in SUBSET T
    BY <1>a
  <1> QED
    BY <1>a, <1>2, <1>3, <1>4, <1>5, <1>6

LEMMA UnfoldingExists ==
  ASSUME NEW f, NEW S, IsFiniteSet(S)
  PROVE  Unfolds(f, S, Unfolding(f, S))
  <1> DEFINE Bad == {s \in SUBSET S : ~ Unfolds(f, s, Unfolding(f, s))}
  <1> SUFFICES ASSUME Bad # {} PROVE FALSE
    BY DEF Bad
  <1>1. PICK U \in Bad : \A V \in Bad : ~ (V \subseteq U /\ V # U)
    <2> Bad \subseteq SUBSET S
      OBVIOUS
    <2> HIDE DEF Bad
    <2> QED
      BY MinimalSubset
  <1>2. U \in SUBSET S /\ ~ Unfolds(f, U, Unfolding(f, U))
    BY <1>1
  <1>3. ASSUME NEW V, V \subseteq U, V # U
        PROVE  Unfolds(f, V, Unfolding(f, V)) /\ IsFiniteSet(V)
    BY <1>1, <1>2, <1>3, FS_Subset
  <1> HIDE DEF Bad
  <1> DEFINE at(t) == Unfolding(f, t)[t]
             g == [s \in SUBSET U |-> IF s = {} THEN 0
                                      ELSE f[Pick(s)] + at(s \ {Pick(s)})]
  <1>4. ASSUME NEW t, t \subseteq U, t # U
        PROVE  g[t] = at(t)
    <2>1. at(t) = (IF t = {} THEN 0 ELSE f[Pick(t)] + Unfolding(f, t)[t \ {Pick(t)}])
      BY <1>3, <1>4 DEF Unfolds
    <2>2. CASE t = {}
      BY <2>1, <2>2
    <2>3. CASE t # {}
      <3> DEFINE r == t \ {Pick(t)}
      <3>1. r \subseteq t /\ r # U /\ r \subseteq U
        BY <2>3, <1>4, PickIn
      <3>2. Unfolding(f, t)[r] = at(r)
        BY <3>1, <1>3, <1>4, UnfoldsAgree
      <3>3. g[t] = f[Pick(t)] + at(r)
        BY <2>3, <1>4
      <3> QED
        BY <2>1, <2>3, <3>2, <3>3
    <2> QED BY <2>2, <2>3
  <1>5. Unfolds(f, U, g)
    <2> SUFFICES ASSUME NEW s \in SUBSET U
                 PROVE  g[s] = (IF s = {} THEN 0 ELSE f[Pick(s)] + g[s \ {Pick(s)}])
      BY DEF Unfolds
    <2>1. CASE s = {}
      BY <2>1
    <2>2. CASE s # {}
      <3> DEFINE r == s \ {Pick(s)}
      <3>1. r \subseteq U /\ r # U
        BY <2>2, PickIn
      <3>2. g[r] = at(r)
        BY <3>1, <1>4
      <3>3. g[s] = f[Pick(s)] + at(r)
        BY <2>2
      <3> QED
        BY <2>2, <3>2, <3>3
    <2> QED BY <2>1, <2>2
  <1> HIDE DEF g
  <1> QED
    BY <1>2, <1>5 DEF Unfolding

LEMMA SumEquation ==
  ASSUME NEW f, NEW S, IsFiniteSet(S)
  PROVE  SumFunctionOnSet(f, S) =
           IF S = {} THEN 0
           ELSE f[Pick(S)] + SumFunctionOnSet(f, S \ {Pick(S)})
  <1> DEFINE r == S \ {Pick(S)}
  <1>1. Unfolds(f, S, Unfolding(f, S)) /\ Unfolds(f, r, Unfolding(f, r)) /\ IsFiniteSet(r)
    BY UnfoldingExists, FS_Subset
  <1>2. Unfolding(f, S)[S] = IF S = {} THEN 0 ELSE f[Pick(S)] + Unfolding(f, S)[r]
    BY <1>1 DEF Unfolds
  <1>3. Unfolding(f, S)[r] = Unfolding(f, r)[r]
    BY <1>1, UnfoldsAgree
  <1> QED
    BY <1>2, <1>3, SumUnfolding

LEMMA SumEmpty ==
  ASSUME NEW f
  PROVE  SumFunctionOnSet(f, {}) = 0
  BY SumEquation, FS_EmptySet

LEMMA SumType ==
  ASSUME NEW f, NEW S, IsFiniteSet(S), \A x \in S : f[x] \in Int
  PROVE  SumFunctionOnSet(f, S) \in Int
  <1> DEFINE Bad == {s \in SUBSET S : SumFunctionOnSet(f, s) \notin Int}
  <1> SUFFICES ASSUME Bad # {} PROVE FALSE
    OBVIOUS
  <1>1. PICK U \in Bad : \A V \in Bad : ~ (V \subseteq U /\ V # U)
    <2> Bad \subseteq SUBSET S
      OBVIOUS
    <2> HIDE DEF Bad
    <2> QED
      BY MinimalSubset
  <1>2. U \in SUBSET S /\ IsFiniteSet(U) /\ SumFunctionOnSet(f, U) \notin Int
    BY <1>1, FS_Subset
  <1>3. U # {}
    BY <1>2, SumEmpty
  <1>4. Pick(U) \in U /\ f[Pick(U)] \in Int
    BY <1>2, <1>3, PickIn
  <1>5. SumFunctionOnSet(f, U \ {Pick(U)}) \in Int
    BY <1>1, <1>2, <1>4
  <1> QED
    BY <1>2, <1>3, <1>4, <1>5, SumEquation

LEMMA SumWithout ==
  ASSUME NEW f, NEW S, IsFiniteSet(S), \A x \in S : f[x] \in Int, NEW x \in S
  PROVE  SumFunctionOnSet(f, S) = f[x] + SumFunctionOnSet(f, S \ {x})
  <1> DEFINE Sum(s) == SumFunctionOnSet(f, s)
             Bad == {s \in SUBSET S : \E y \in s : Sum(s) # f[y] + Sum(s \ {y})}
  <1> SUFFICES ASSUME Bad # {} PROVE FALSE
    OBVIOUS
  <1>1. PICK U \in Bad : \A V \in Bad : ~ (V \subseteq U /\ V # U)
    <2> Bad \subseteq SUBSET S
      OBVIOUS
    <2> HIDE DEF Bad
    <2> QED
      BY MinimalSubset
  <1>2. PICK y \in U : Sum(U) # f[y] + Sum(U \ {y})
    BY <1>1
  <1>3. U \in SUBSET S /\ IsFiniteSet(U) /\ U # {}
    BY <1>1, <1>2, FS_Subset
  <1> DEFINE p == Pick(U)
  <1>4. p \in U /\ Sum(U) = f[p] + Sum(U \ {p})
    BY <1>3, PickIn, SumEquation
  <1>5. p # y
    BY <1>2, <1>4
  <1>6. U \ {p} \notin Bad /\ U \ {y} \notin Bad
    BY <1>1, <1>2, <1>4
  <1>7. Sum(U \ {p}) = f[y] + Sum((U \ {p}) \ {y})
    BY <1>2, <1>3, <1>5, <1>6
  <1>8. Sum(U \ {y}) = f[p] + Sum((U \ {y}) \ {p})
    BY <1>3, <1>4, <1>5, <1>6
  <1>9. (U \ {p}) \ {y} = (U \ {y}) \ {p}
    OBVIOUS
  <1>10. f[p] \in Int /\ f[y] \in Int /\ Sum((U \ {p}) \ {y}) \in Int
    <2>1. f[p] \in Int /\ f[y] \in Int
      BY <1>2, <1>3, <1>4
    <2>2. IsFiniteSet((U \ {p}) \ {y}) /\ \A z \in (U \ {p}) \ {y} : f[z] \in Int
      BY <1>3, FS_Subset
    <2> QED
      BY <2>1, <2>2, SumType
  <1> HIDE DEF Sum, p
  <1> QED
    BY <1>2, <1>4, <1>7, <1>8, <1>9, <1>10

LEMMA SumAgree ==
  ASSUME NEW f, NEW h, NEW S, IsFiniteSet(S), \A x \in S : f[x] = h[x]
  PROVE  SumFunctionOnSet(f, S) = SumFunctionOnSet(h, S)
  <1> DEFINE Bad == {s \in SUBSET S : SumFunctionOnSet(f, s) # SumFunctionOnSet(h, s)}
  <1> SUFFICES ASSUME Bad # {} PROVE FALSE
    OBVIOUS
  <1>1. PICK U \in Bad : \A V \in Bad : ~ (V \subseteq U /\ V # U)
    <2> Bad \subseteq SUBSET S
      OBVIOUS
    <2> HIDE DEF Bad
    <2> QED
      BY MinimalSubset
  <1>2. U \in SUBSET S /\ IsFiniteSet(U) /\ SumFunctionOnSet(f, U) # SumFunctionOnSet(h, U)
    BY <1>1, FS_Subset
  <1>3. U # {}
    BY <1>2, SumEmpty
  <1>4. Pick(U) \in U /\ f[Pick(U)] = h[Pick(U)]
    BY <1>2, <1>3, PickIn
  <1>5. SumFunctionOnSet(f, U \ {Pick(U)}) = SumFunctionOnSet(h, U \ {Pick(U)})
    BY <1>1, <1>2, <1>4
  <1> QED
    BY <1>2, <1>3, <1>4, <1>5, SumEquation

-----------------------------------------------------------------------------
(***************************************************************************)
(* The inductive invariant.  The heap is described by its majors M, its    *)
(* minors N and its root r, so that a step can be taken apart: a region is *)
(* added or removed, then a block is linked or unlinked.                   *)
(***************************************************************************)
MajorType == [prev : Int, next : Int, pages : Nat, size : Nat, usage : Int, first : Int]
MinorType == [prev : Int, next : Int, block : Int, size : Nat, req_size : Nat]

In(N, m)  == {a \in DOMAIN N : N[a].block = m}
End(N, a) == a + SIZEOF_MINOR + N[a].size

MinSize == ALIGNMENT + ALIGN_INFO

(* The regions: whole pages, apart from each other, below UINT in size. *)
Regions(M) ==
  /\ M \in [DOMAIN M -> MajorType]
  /\ DOMAIN M \subseteq Nat \ {NULL}
  /\ IsFiniteSet(DOMAIN M)
  /\ \A m \in DOMAIN M : /\ M[m].size = M[m].pages * l_pageSize
                            /\ SIZEOF_MAJOR <= M[m].size /\ M[m].size < UINT
  /\ \A m \in DOMAIN M : \A k \in DOMAIN M \ {m} :
       m + M[m].size <= k \/ k + M[k].size <= m

(* The doubly linked list of majors, all of it reached from the root. *)
Closed(M, r, D) ==
  /\ r # NULL => r \in D
  /\ \A m \in D : M[m].next # NULL => M[m].next \in D

Chain(M, r) ==
  /\ r \in DOMAIN M \cup {NULL}
  /\ \A m \in DOMAIN M :
       /\ M[m].next \in DOMAIN M \cup {NULL}
       /\ M[m].prev \in DOMAIN M \cup {NULL}
       /\ M[m].prev = NULL <=> m = r
       /\ M[m].next # NULL => M[M[m].next].prev = m
       /\ M[m].prev # NULL => M[M[m].prev].next = m
  /\ \A D \in SUBSET DOMAIN M : Closed(M, r, D) => D = DOMAIN M

(* The blocks: inside their majors, and apart from each other. *)
Placed(M, N) ==
  /\ N \in [DOMAIN N -> MinorType]
  /\ DOMAIN N \subseteq Nat \ {NULL}
  /\ IsFiniteSet(DOMAIN N)
  /\ \A a \in DOMAIN N :
       /\ N[a].block \in DOMAIN M
       /\ N[a].block + SIZEOF_MAJOR <= a
       /\ End(N, a) <= N[a].block + M[N[a].block].size
       /\ MinSize <= N[a].size
  /\ \A a \in DOMAIN N : \A b \in DOMAIN N \ {a} : End(N, a) <= b \/ End(N, b) <= a

(* The doubly linked lists of minors, in address order. *)
Firsts(M, N) ==
  \A m \in DOMAIN M :
    /\ M[m].first \in In(N, m) \cup {NULL}
    /\ M[m].first = NULL => In(N, m) = {}
    /\ \A a \in In(N, m) : M[m].first <= a

Ordered(M, N) ==
  \A a \in DOMAIN N :
    /\ N[a].next \in In(N, N[a].block) \cup {NULL}
    /\ N[a].prev \in In(N, N[a].block) \cup {NULL}
    /\ N[a].next # NULL =>
         /\ a < N[a].next
         /\ N[N[a].next].prev = a
         /\ \A b \in In(N, N[a].block) : b <= a \/ N[a].next <= b
    /\ N[a].next = NULL => \A b \in In(N, N[a].block) : b <= a
    /\ N[a].prev # NULL => N[N[a].prev].next = a
    /\ N[a].prev = NULL <=> a = M[N[a].block].first

(* The totals. *)
Spans(N) == [a \in DOMAIN N |-> SIZEOF_MINOR + N[a].size]
Sizes(F) == [x \in DOMAIN F |-> F[x].size]

Used(M, N) ==
  \A m \in DOMAIN M : M[m].usage = SIZEOF_MAJOR + SumFunctionOnSet(Spans(N), In(N, m))

Heap(M, N, r) ==
  /\ Regions(M) /\ Chain(M, r)
  /\ Placed(M, N) /\ Firsts(M, N) /\ Ordered(M, N) /\ Used(M, N)

Total(F) == SumFunctionOnSet(Sizes(F), DOMAIN F)

Totals == l_inuse = Total(minors) /\ l_allocated = Total(majors)

(* A pointer that kmalloc returned for n bytes: behind the header it is    *)
(* found from, as ALIGN placed it.                                         *)
Owned(P, N, p, n) ==
  /\ p \in DOMAIN P
  /\ p = AlignedUp(p - P[p])
  /\ p - P[p] - SIZEOF_MINOR \in DOMAIN N
  /\ LET min == N[p - P[p] - SIZEOF_MINOR]
     IN  min.req_size = n /\ min.size >= Padded(n)

Clients == \A p \in DOMAIN blocks : Owned(pad, minors, p, blocks[p])

(* The call in progress. *)
Asked(c) ==
  /\ DOMAIN c = {"cont", "req", "want", "size", "real", "old", "new", "maj", "min",
                 "startedBet", "bestSize"}
  /\ c.cont \in {"malloc", "calloc", "realloc"}
  /\ c.req \in Nat /\ c.want = c.req /\ c.size = Padded(c.req) /\ c.real \in Nat
  /\ c.size + SIZEOF_MAJOR + SIZEOF_MINOR + l_pageSize <= UINT
  /\ c.cont = "realloc" =>
       c.old \in DOMAIN blocks /\ c.real = blocks[c.old] /\ c.real < c.want
  /\ c.startedBet \in BOOLEAN

InCall ==
  /\ pc \in {"major", "minor", "copy"} => Asked(call)
  /\ pc \in {"major", "minor"} => call.maj \in DOMAIN majors
  /\ pc = "minor" => call.min \in In(minors, call.maj)
  /\ pc = "copy" =>
       /\ call.cont = "realloc"
       /\ call.new # NULL =>
            call.new \notin DOMAIN blocks /\ Owned(pad, minors, call.new, call.want)

(* A region without blocks is one that the search has just taken. *)
NoneEmpty ==
  \A m \in DOMAIN majors : majors[m].first = NULL =>
    /\ pc = "major" /\ call.maj = m
    /\ Need <= majors[m].size - majors[m].usage

(* What the search has seen of the list, from the root on, has no room.    *)
Seen(D) ==
  /\ l_memRoot \in D \cup {call.maj}
  /\ \A m \in D : majors[m].next \in D \cup {call.maj}
  /\ \A m \in D : ~ Fits(m, Need)

Searched ==
  /\ pc \in {"major", "minor"} /\ ~ call.startedBet =>
       \E D \in SUBSET DOMAIN majors : Seen(D)
  /\ pc = "minor" =>
       /\ FrontGap < Need
       /\ \A a \in In(minors, call.maj) : a < call.min => minors[a].next - End(minors, a) < Need

Misc ==
  /\ pc \in {"idle", "major", "minor", "copy", "panic"}
  /\ l_bestBet \in DOMAIN majors \cup {NULL}
  /\ l_errorCount \in 0 .. MaxErrors
  /\ DOMAIN pad \subseteq Nat /\ pad \in [DOMAIN pad -> Nat]

IInv ==
  /\ Heap(majors, minors, l_memRoot) /\ Totals
  /\ Misc /\ Clients /\ InCall /\ NoneEmpty /\ Searched

-----------------------------------------------------------------------------
(* Arithmetic of the code's helpers.                                       *)

LEMMA Division ==
  ASSUME NEW x \in Nat, NEW n \in Nat, n > 0
  PROVE  x % n \in 0 .. (n - 1) /\ x \div n \in Nat /\ x = n * (x \div n) + (x % n)
  BY SMTT(30)

(* ALIGN finds a multiple of ALIGNMENT in the bytes set aside for it. *)
LEMMA AlignedUpWhere ==
  ASSUME NEW ptr \in Nat
  PROVE  /\ AlignedUp(ptr) \in Nat
         /\ AlignedUp(ptr) % ALIGNMENT = 0
         /\ ptr + ALIGN_INFO <= AlignedUp(ptr)
         /\ AlignedUp(ptr) < ptr + ALIGN_INFO + ALIGNMENT
  <1> DEFINE q == ptr + ALIGN_INFO
             d == q % ALIGNMENT
             k == q \div ALIGNMENT
  <1>1. ALIGNMENT \in Nat /\ ALIGNMENT > 0 /\ ALIGN_INFO \in Nat /\ q \in Nat
    BY LayoutAssumption
  <1>2. d \in 0 .. (ALIGNMENT - 1) /\ k \in Nat /\ q = ALIGNMENT * k + d
    BY <1>1, Division
  <1>3. (ALIGNMENT * (k + 1)) % ALIGNMENT = 0
    BY <1>1, <1>2, SMTT(30)
  <1>4. ALIGNMENT * (k + 1) = ALIGNMENT * k + ALIGNMENT
    BY <1>1, <1>2
  <1> HIDE DEF k, d
  <1>5. AlignedUp(ptr) = IF d # 0 THEN q + (ALIGNMENT - d) ELSE q
    BY DEF AlignedUp, d
  <1>6. CASE d # 0
    <2>1. AlignedUp(ptr) = ALIGNMENT * (k + 1)
      BY <1>1, <1>2, <1>4, <1>5, <1>6
    <2> QED
      BY <1>1, <1>2, <1>3, <1>4, <1>5, <1>6, <2>1
  <1>7. CASE d = 0
    BY <1>1, <1>2, <1>5, <1>7 DEF d
  <1> QED
    BY <1>6, <1>7

(* A residue of a value in range. *)
LEMMA InRange ==
  ASSUME NEW n \in Nat, NEW u \in Nat, n < u
  PROVE  n % u = n
  OBVIOUS

(* allocate_new_page asks for enough whole pages. *)
LEMMA NewPagesEnough ==
  ASSUME NEW size \in Nat, size + SIZEOF_MAJOR + SIZEOF_MINOR + l_pageSize <= UINT
  PROVE  /\ NewPages(size) \in Nat
         /\ NewPages(size) * l_pageSize \in Nat
         /\ NewPages(size) * l_pageSize < UINT
         /\ size + SIZEOF_MAJOR + SIZEOF_MINOR <= NewPages(size) * l_pageSize
         /\ NewMajor(size).size = NewPages(size) * l_pageSize
  <1> DEFINE st == size + SIZEOF_MAJOR + SIZEOF_MINOR
             k == st \div l_pageSize
             d == st % l_pageSize
             pages == k + (IF d = 0 THEN 0 ELSE 1)
  <1>1. /\ st \in Nat /\ l_pageSize \in Nat /\ l_pageSize > 0 /\ l_pageCount \in Nat
        /\ UINT \in Nat /\ st + l_pageSize <= UINT /\ l_pageCount * l_pageSize < UINT
        /\ l_pageCount * l_pageSize \in Nat
    BY LayoutAssumption, SizesAssumption
  <1>2. d \in 0 .. (l_pageSize - 1) /\ k \in Nat /\ st = l_pageSize * k + d
    <2> HIDE DEF st
    <2> QED
      BY <1>1, Division
  <1>3. st % UINT = st
    BY <1>1, InRange
  <1>4. NewPages(size) = IF pages < l_pageCount THEN l_pageCount ELSE pages
    BY <1>3 DEF NewPages
  <1> HIDE DEF k, d, st
  <1>5. pages \in Nat /\ pages * l_pageSize = l_pageSize * k + (IF d = 0 THEN 0 ELSE l_pageSize)
    BY <1>1, <1>2
  <1>6. st <= pages * l_pageSize /\ pages * l_pageSize < UINT /\ pages * l_pageSize \in Nat
    BY <1>1, <1>2, <1>5
  <1> HIDE DEF pages
  <1>7. pages < l_pageCount => pages * l_pageSize <= l_pageCount * l_pageSize
    BY <1>1, <1>5, SMTT(30)
  <1>8. /\ NewPages(size) \in Nat /\ NewPages(size) * l_pageSize \in Nat
        /\ NewPages(size) * l_pageSize < UINT /\ st <= NewPages(size) * l_pageSize
    BY <1>1, <1>4, <1>5, <1>6, <1>7
  <1>9. NewMajor(size).size = NewPages(size) * l_pageSize
    BY <1>1, <1>8, InRange DEF NewMajor
  <1> QED
    BY <1>8, <1>9 DEF st

-----------------------------------------------------------------------------
(***************************************************************************)
(* Usage counts bytes: the blocks of a major, which are apart, cover as    *)
(* many bytes as their spans add up to.                                    *)
(***************************************************************************)
USE DEF NULL

Bytes(N, T) == UNION {a .. (End(N, a) - 1) : a \in T}

LEMMA EndType ==
  ASSUME NEW M, NEW N, Placed(M, N), NEW a \in DOMAIN N
  PROVE  /\ End(N, a) \in Nat /\ a \in Nat /\ a # 0 /\ N[a].size \in Nat
         /\ End(N, a) = a + SIZEOF_MINOR + N[a].size
         /\ a < End(N, a)
  BY LayoutAssumption DEF Placed, End, MinorType

LEMMA SpansType ==
  ASSUME NEW M, NEW N, Placed(M, N), NEW m
  PROVE  /\ IsFiniteSet(In(N, m)) /\ In(N, m) \subseteq DOMAIN N
         /\ \A a \in In(N, m) : Spans(N)[a] \in Int
         /\ \A a \in DOMAIN N : /\ Spans(N)[a] = End(N, a) - a
                                /\ Spans(N)[a] \in Nat
                                /\ Spans(N)[a] = SIZEOF_MINOR + N[a].size
  <1>1. IsFiniteSet(In(N, m)) /\ In(N, m) \subseteq DOMAIN N
    BY FS_Subset DEF In, Placed
  <1> QED
    BY <1>1, EndType, LayoutAssumption DEF Spans

LEMMA IntervalSize ==
  ASSUME NEW a \in Int, NEW b \in Int, a <= b
  PROVE  IsFiniteSet(a .. (b - 1)) /\ Cardinality(a .. (b - 1)) = b - a
  <1> DEFINE c == b - 1
  <1>1. c \in Int
    OBVIOUS
  <1>2. IsFiniteSet(a .. c) /\ Cardinality(a .. c) = IF a > c THEN 0 ELSE c - a + 1
    <2> HIDE DEF c
    <2> QED
      BY <1>1, FS_Interval
  <1>3. (IF a > c THEN 0 ELSE c - a + 1) = b - a
    OBVIOUS
  <1> QED
    BY <1>2, <1>3

LEMMA UnionSize ==
  ASSUME NEW S, NEW T, IsFiniteSet(S), IsFiniteSet(T), S \cap T = {}
  PROVE  /\ IsFiniteSet(S \cup T)
         /\ Cardinality(S \cup T) = Cardinality(S) + Cardinality(T)
         /\ Cardinality(S) \in Nat /\ Cardinality(T) \in Nat
  <1>1. Cardinality(S) \in Nat /\ Cardinality(T) \in Nat
    BY FS_CardinalityType
  <1>2. Cardinality(S \cap T) = 0
    BY FS_EmptySet
  <1>3. Cardinality(S \cup T) = Cardinality(S) + Cardinality(T) - Cardinality(S \cap T)
    BY FS_Union
  <1>4. IsFiniteSet(S \cup T)
    BY FS_Union
  <1> QED
    BY <1>1, <1>2, <1>3, <1>4

LEMMA BytesCounted ==
  ASSUME NEW M, NEW N, Placed(M, N), NEW S \in SUBSET DOMAIN N
  PROVE  /\ IsFiniteSet(Bytes(N, S))
         /\ Cardinality(Bytes(N, S)) = SumFunctionOnSet(Spans(N), S)
  <1> DEFINE Counted(T) == /\ IsFiniteSet(Bytes(N, T))
                           /\ Cardinality(Bytes(N, T)) = SumFunctionOnSet(Spans(N), T)
             Bad == {T \in SUBSET S : ~ Counted(T)}
  <1> SUFFICES ASSUME Bad # {} PROVE FALSE
    OBVIOUS
  <1>0. IsFiniteSet(S)
    BY FS_Subset DEF Placed
  <1>1. PICK U \in Bad : \A V \in Bad : ~ (V \subseteq U /\ V # U)
    <2> Bad \subseteq SUBSET S
      OBVIOUS
    <2> HIDE DEF Bad
    <2> QED
      BY <1>0, MinimalSubset
  <1>2. U \in SUBSET DOMAIN N /\ IsFiniteSet(U) /\ ~ Counted(U)
    BY <1>0, <1>1, FS_Subset
  <1>3. U # {}
    <2>1. Bytes(N, {}) = {}
      BY DEF Bytes
    <2> QED
      BY <1>2, <2>1, SumEmpty, FS_EmptySet
  <1>4. PICK a \in U : TRUE
    BY <1>3
  <1> DEFINE R == U \ {a}
             I == a .. (End(N, a) - 1)
  <1>5. Counted(R)
    BY <1>1, <1>4
  <1>6. Bytes(N, U) = Bytes(N, R) \cup I
    BY <1>4 DEF Bytes
  <1>7. Bytes(N, R) \cap I = {}
    <2> SUFFICES ASSUME NEW x \in I, NEW b \in R, x \in b .. (End(N, b) - 1)
                 PROVE  FALSE
      BY DEF Bytes
    <2>1. End(N, a) <= b \/ End(N, b) <= a
      BY <1>2, <1>4 DEF Placed
    <2>2. a \in DOMAIN N /\ b \in DOMAIN N
      BY <1>2, <1>4
    <2> QED
      BY <2>1, <2>2, EndType
  <1>8. a \in DOMAIN N /\ IsFiniteSet(I) /\ Cardinality(I) = Spans(N)[a]
    <2>1. a \in DOMAIN N
      BY <1>2, <1>4
    <2>2. a \in Int /\ End(N, a) \in Int /\ a <= End(N, a) /\ Spans(N)[a] = End(N, a) - a
      BY <2>1, EndType, SpansType
    <2> QED
      BY <2>1, <2>2, IntervalSize
  <1>9. SumFunctionOnSet(Spans(N), U) = Spans(N)[a] + SumFunctionOnSet(Spans(N), R)
    <2>1. \A x \in U : Spans(N)[x] \in Int
      BY <1>2, SpansType
    <2> QED
      BY <1>2, <1>4, <2>1, SumWithout
  <1> HIDE DEF R, I
  <1>10. /\ IsFiniteSet(Bytes(N, U))
         /\ Cardinality(Bytes(N, U)) = Cardinality(Bytes(N, R)) + Cardinality(I)
    BY <1>5, <1>6, <1>7, <1>8, UnionSize
  <1>11. Cardinality(Bytes(N, R)) \in Nat /\ Cardinality(I) \in Nat
    BY <1>5, <1>8, FS_CardinalityType
  <1> QED
    BY <1>2, <1>5, <1>8, <1>9, <1>10, <1>11

(* need free bytes in one piece are no more than size - usage. *)
LEMMA GapBound ==
  ASSUME NEW M, NEW N, NEW r, Heap(M, N, r), NEW m \in DOMAIN M,
         NEW s \in Int, NEW need \in Nat, m + SIZEOF_MAJOR <= s, s + need <= m + M[m].size,
         \A a \in In(N, m) : s + need <= a \/ End(N, a) <= s
  PROVE  M[m].usage + need <= M[m].size
  <1> DEFINE B == Bytes(N, In(N, m))
             I == s .. (s + need - 1)
             W == (m + SIZEOF_MAJOR) .. (m + M[m].size - 1)
  <1>0. /\ Placed(M, N) /\ Regions(M) /\ m \in Nat /\ M[m].size \in Nat
        /\ SIZEOF_MAJOR \in Nat /\ SIZEOF_MAJOR <= M[m].size
    BY LayoutAssumption DEF Heap, Regions, MajorType
  <1>1. IsFiniteSet(B) /\ M[m].usage = SIZEOF_MAJOR + Cardinality(B)
    <2>1. In(N, m) \in SUBSET DOMAIN N
      BY DEF In
    <2> QED
      BY <1>0, <2>1, BytesCounted DEF Heap, Used
  <1>2. B \cup I \subseteq W
    <2>1. ASSUME NEW x \in I PROVE x \in W
      BY <1>0
    <2>2. ASSUME NEW a \in In(N, m), NEW x \in a .. (End(N, a) - 1) PROVE x \in W
      <3>1. a \in DOMAIN N /\ N[a].block = m
        BY DEF In
      <3>2. m + SIZEOF_MAJOR <= a /\ End(N, a) <= m + M[m].size
        BY <1>0, <3>1 DEF Placed
      <3> QED
        BY <1>0, <3>1, <3>2, EndType
    <2> QED
      BY <2>1, <2>2 DEF Bytes
  <1>3. B \cap I = {}
    <2> SUFFICES ASSUME NEW x \in I, NEW a \in In(N, m), x \in a .. (End(N, a) - 1)
                 PROVE  FALSE
      BY DEF Bytes
    <2>1. a \in DOMAIN N
      BY DEF In
    <2> QED
      BY <1>0, <2>1, EndType
  <1>4. IsFiniteSet(I) /\ Cardinality(I) = need
    <2> DEFINE e == s + need
    <2>1. e \in Int /\ s <= e /\ e - s = need /\ I = s .. (e - 1)
      OBVIOUS
    <2> HIDE DEF e, I
    <2> QED
      BY <2>1, IntervalSize
  <1>5. IsFiniteSet(W) /\ Cardinality(W) = M[m].size - SIZEOF_MAJOR
    <2> DEFINE b == m + SIZEOF_MAJOR
               e == m + M[m].size
    <2>1. /\ b \in Int /\ e \in Int /\ b <= e /\ e - b = M[m].size - SIZEOF_MAJOR
          /\ W = b .. (e - 1)
      BY <1>0
    <2> HIDE DEF b, e, W
    <2> QED
      BY <2>1, IntervalSize
  <1> HIDE DEF B, I, W
  <1>6. Cardinality(B \cup I) = Cardinality(B) + need
    BY <1>1, <1>3, <1>4, UnionSize
  <1>7. Cardinality(B \cup I) <= Cardinality(W) /\ Cardinality(B) \in Nat
    BY <1>1, <1>2, <1>5, FS_Subset, FS_CardinalityType
  <1> QED
    BY <1>0, <1>1, <1>5, <1>6, <1>7

LEMMA UsageBound ==
  ASSUME NEW M, NEW N, NEW r, Heap(M, N, r), NEW m \in DOMAIN M
  PROVE  M[m].usage \in Nat /\ M[m].usage <= M[m].size /\ SIZEOF_MAJOR <= M[m].usage
  <1>0. /\ Placed(M, N) /\ Regions(M) /\ m \in Nat /\ M[m].size \in Nat
        /\ SIZEOF_MAJOR \in Nat /\ SIZEOF_MAJOR <= M[m].size
    BY LayoutAssumption DEF Heap, Regions, MajorType
  <1>1. \A a \in In(N, m) : a \in DOMAIN N /\ m + SIZEOF_MAJOR <= a /\ a \in Nat
    BY <1>0, EndType DEF In, Placed
  <1>2. M[m].usage + 0 <= M[m].size
    <2>1. m + SIZEOF_MAJOR \in Int /\ 0 \in Nat /\ m + SIZEOF_MAJOR + 0 <= m + M[m].size
      BY <1>0
    <2>2. \A a \in In(N, m) : m + SIZEOF_MAJOR + 0 <= a
      BY <1>0, <1>1
    <2> QED
      BY <1>0, <2>1, <2>2, GapBound
  <1>3. M[m].usage \in Nat /\ SIZEOF_MAJOR <= M[m].usage
    <2>1. In(N, m) \in SUBSET DOMAIN N
      BY DEF In
    <2>2. M[m].usage = SIZEOF_MAJOR + Cardinality(Bytes(N, In(N, m)))
      BY <1>0, <2>1, BytesCounted DEF Heap, Used
    <2>3. Cardinality(Bytes(N, In(N, m))) \in Nat
      BY <1>0, <2>1, BytesCounted, FS_CardinalityType
    <2> QED
      BY <1>0, <2>2, <2>3
  <1> QED
    BY <1>0, <1>2, <1>3

-----------------------------------------------------------------------------
(***************************************************************************)
(* A block is linked in: kmalloc's cases 1 to 4 find a gap, behind the     *)
(* minor prev or at the beginning, and Link fills it.                      *)
(***************************************************************************)
Gap(M, N, m, a, prev, next, sz) ==
  /\ m \in DOMAIN M /\ sz \in Nat /\ MinSize <= sz
  /\ a + SIZEOF_MINOR + sz <= IF next = NULL THEN m + M[m].size ELSE next
  /\ \/ prev = NULL /\ a = m + SIZEOF_MAJOR /\ next = M[m].first
     \/ /\ prev # NULL /\ prev \in In(N, m)
        /\ a = End(N, prev) /\ next = N[prev].next

Insert(M, N, m, a, prev, next, sz, M2, N2) ==
  /\ DOMAIN M2 = DOMAIN M /\ M2 \in [DOMAIN M2 -> MajorType]
  /\ \A x \in DOMAIN M :
       /\ M2[x].prev = M[x].prev /\ M2[x].next = M[x].next
       /\ M2[x].pages = M[x].pages /\ M2[x].size = M[x].size
       /\ x = m /\ prev = NULL => M2[x].first = a
       /\ ~ (x = m /\ prev = NULL) => M2[x].first = M[x].first
       /\ x = m => M2[x].usage = M[x].usage + SIZEOF_MINOR + sz
       /\ x # m => M2[x].usage = M[x].usage
  /\ DOMAIN N2 = DOMAIN N \cup {a} /\ N2 \in [DOMAIN N2 -> MinorType]
  /\ N2[a].prev = prev /\ N2[a].next = next /\ N2[a].block = m /\ N2[a].size = sz
  /\ \A x \in DOMAIN N \ {a} :
       /\ N2[x].block = N[x].block /\ N2[x].size = N[x].size
       /\ N2[x].req_size = N[x].req_size
       /\ x = prev => N2[x].next = a
       /\ x # prev => N2[x].next = N[x].next
       /\ x = next => N2[x].prev = a
       /\ x # next => N2[x].prev = N[x].prev

(* The gap is inside the major and clear of all blocks. *)
LEMMA GapClear ==
  ASSUME NEW M, NEW N, NEW r, Heap(M, N, r), NEW m, NEW a, NEW prev, NEW next, NEW sz,
         Gap(M, N, m, a, prev, next, sz)
  PROVE  /\ a \in Nat /\ a # NULL /\ a \notin DOMAIN N
         /\ m \in DOMAIN M /\ m \in Nat /\ M[m].size \in Nat
         /\ m + SIZEOF_MAJOR <= a /\ a + SIZEOF_MINOR + sz <= m + M[m].size
         /\ \A b \in DOMAIN N : End(N, b) <= a \/ a + SIZEOF_MINOR + sz <= b
         /\ prev # NULL => prev \in In(N, m) /\ prev < a
         /\ next # NULL => next \in In(N, m) /\ a < next
         /\ \A b \in In(N, m) : (prev # NULL /\ b <= prev) \/ (next # NULL /\ next <= b)
  <1>0. /\ Placed(M, N) /\ Regions(M) /\ Firsts(M, N) /\ Ordered(M, N)
        /\ m \in DOMAIN M /\ m \in Nat /\ m # 0 /\ M[m].size \in Nat /\ sz \in Nat
        /\ SIZEOF_MAJOR \in Nat /\ SIZEOF_MINOR \in Nat /\ SIZEOF_MINOR > 0
    BY LayoutAssumption DEF Heap, Regions, MajorType, Gap
  <1>1. \A b \in In(N, m) : /\ b \in DOMAIN N /\ N[b].block = m
                            /\ m + SIZEOF_MAJOR <= b /\ b \in Nat /\ b # 0
                            /\ End(N, b) \in Nat /\ b + SIZEOF_MINOR <= End(N, b)
                            /\ End(N, b) <= m + M[m].size
    <2> SUFFICES ASSUME NEW b \in In(N, m)
                 PROVE  /\ b \in DOMAIN N /\ N[b].block = m
                        /\ m + SIZEOF_MAJOR <= b /\ b \in Nat /\ b # 0
                        /\ End(N, b) \in Nat /\ b + SIZEOF_MINOR <= End(N, b)
                        /\ End(N, b) <= m + M[m].size
      OBVIOUS
    <2>1. b \in DOMAIN N /\ N[b].block = m
      BY DEF In
    <2>2. m + SIZEOF_MAJOR <= b /\ End(N, b) <= m + M[m].size
      BY <1>0, <2>1 DEF Placed
    <2> QED
      BY <1>0, <2>1, <2>2, EndType
  <1>2. /\ a \in Nat /\ a # NULL /\ m + SIZEOF_MAJOR <= a
        /\ prev # NULL => prev \in In(N, m) /\ prev < a /\ a = End(N, prev)
    BY <1>0, <1>1 DEF Gap
  <1>3. next # NULL => next \in In(N, m) /\ a < next
    <2>1. next \in In(N, m) \cup {NULL}
      BY <1>0, <1>1 DEF Gap, Firsts, Ordered
    <2> QED
      BY <1>0, <1>1, <1>2, <2>1 DEF Gap
  <1>4. \A b \in In(N, m) : (prev # NULL /\ b <= prev) \/ (next # NULL /\ next <= b)
    <2> SUFFICES ASSUME NEW b \in In(N, m)
                 PROVE  (prev # NULL /\ b <= prev) \/ (next # NULL /\ next <= b)
      OBVIOUS
    <2>1. CASE prev = NULL
      <3>1. next = M[m].first
        BY <2>1 DEF Gap
      <3> QED
        BY <1>0, <3>1 DEF Firsts
    <2>2. CASE prev # NULL
      <3>1. prev \in In(N, m) /\ next = N[prev].next
        BY <2>2 DEF Gap
      <3>2. prev \in DOMAIN N /\ N[prev].block = m
        BY <1>1, <3>1
      <3>3. next # NULL => b <= prev \/ next <= b
        BY <1>0, <3>1, <3>2 DEF Ordered
      <3>4. next = NULL => b <= prev
        BY <1>0, <3>1, <3>2 DEF Ordered
      <3> QED
        BY <2>2, <3>3, <3>4
    <2> QED BY <2>1, <2>2
  <1>5. a + SIZEOF_MINOR + sz <= m + M[m].size
    BY <1>0, <1>1, <1>2, <1>3 DEF Gap
  <1>6. \A b \in DOMAIN N : End(N, b) <= a \/ a + SIZEOF_MINOR + sz <= b
    <2> SUFFICES ASSUME NEW b \in DOMAIN N
                 PROVE  End(N, b) <= a \/ a + SIZEOF_MINOR + sz <= b
      OBVIOUS
    <2>0. b \in Nat /\ End(N, b) \in Nat
      BY <1>0, EndType
    <2>1. CASE b \in In(N, m)
      <3>1. CASE prev # NULL /\ b <= prev
        <4>1. b = prev \/ End(N, b) <= prev \/ End(N, prev) <= b
          BY <1>0, <1>1, <1>2, <3>1 DEF Placed
        <4> QED
          BY <1>1, <1>2, <2>0, <3>1, <4>1
      <3>2. CASE next # NULL /\ next <= b
        BY <1>0, <1>1, <1>2, <1>3, <2>0, <3>2 DEF Gap
      <3> QED
        BY <1>4, <2>1, <3>1, <3>2
    <2>2. CASE b \notin In(N, m)
      <3> DEFINE k == N[b].block
      <3>1. k \in DOMAIN M \ {m} /\ k + SIZEOF_MAJOR <= b /\ End(N, b) <= k + M[k].size
        BY <1>0, <2>2 DEF Placed, In
      <3>2. k \in Nat /\ M[k].size \in Nat
        BY <1>0, <3>1 DEF Regions, MajorType
      <3>3. m + M[m].size <= k \/ k + M[k].size <= m
        BY <1>0, <3>1 DEF Regions
      <3> QED
        BY <1>0, <1>2, <1>5, <2>0, <3>1, <3>2, <3>3
    <2> QED BY <2>1, <2>2
  <1>7. a \notin DOMAIN N
    BY <1>0, <1>2, <1>6, EndType
  <1> QED
    BY <1>0, <1>2, <1>3, <1>4, <1>5, <1>6, <1>7

LEMMA InsertIn ==
  ASSUME NEW M, NEW N, NEW m, NEW a, NEW prev, NEW next, NEW sz, NEW M2, NEW N2,
         Insert(M, N, m, a, prev, next, sz, M2, N2), a \notin DOMAIN N
  PROVE  /\ In(N2, m) = In(N, m) \cup {a} /\ \A k : k # m => In(N2, k) = In(N, k)
         /\ \A x \in DOMAIN N : End(N2, x) = End(N, x)
         /\ End(N2, a) = a + SIZEOF_MINOR + sz
  <1>1. \A x \in DOMAIN N : N2[x].block = N[x].block /\ N2[x].size = N[x].size
    BY DEF Insert
  <1>2. N2[a].block = m /\ N2[a].size = sz /\ DOMAIN N2 = DOMAIN N \cup {a}
    BY DEF Insert
  <1> QED
    BY <1>1, <1>2 DEF In, End

LEMMA InsertMajors ==
  ASSUME NEW M, NEW N, NEW r, Regions(M), Chain(M, r), NEW m, NEW a, NEW prev, NEW next,
         NEW sz, NEW M2, NEW N2, Insert(M, N, m, a, prev, next, sz, M2, N2)
  PROVE  Regions(M2) /\ Chain(M2, r)
  <1>1. /\ DOMAIN M2 = DOMAIN M /\ M2 \in [DOMAIN M2 -> MajorType]
        /\ \A x \in DOMAIN M :
             /\ M2[x].prev = M[x].prev /\ M2[x].next = M[x].next
             /\ M2[x].pages = M[x].pages /\ M2[x].size = M[x].size
    BY DEF Insert
  <1>2. Regions(M2)
    BY <1>1 DEF Regions
  <1>3. \A D \in SUBSET DOMAIN M : Closed(M2, r, D) => Closed(M, r, D)
    BY <1>1 DEF Closed
  <1>4. Chain(M2, r)
    BY <1>1, <1>3 DEF Chain
  <1> QED BY <1>2, <1>4

LEMMA InsertPlaced ==
  ASSUME NEW M, NEW N, NEW r, Heap(M, N, r), NEW m, NEW a, NEW prev, NEW next, NEW sz,
         Gap(M, N, m, a, prev, next, sz),
         NEW M2, NEW N2, Insert(M, N, m, a, prev, next, sz, M2, N2)
  PROVE  Placed(M2, N2)
  <1>0. /\ a \in Nat /\ a # NULL /\ a \notin DOMAIN N /\ m \in DOMAIN M
        /\ m + SIZEOF_MAJOR <= a /\ a + SIZEOF_MINOR + sz <= m + M[m].size
        /\ \A b \in DOMAIN N : End(N, b) <= a \/ a + SIZEOF_MINOR + sz <= b
    BY GapClear
  <1>1. /\ DOMAIN N2 = DOMAIN N \cup {a} /\ N2 \in [DOMAIN N2 -> MinorType]
        /\ N2[a].block = m /\ N2[a].size = sz /\ End(N2, a) = a + SIZEOF_MINOR + sz
        /\ \A x \in DOMAIN N : /\ N2[x].block = N[x].block /\ N2[x].size = N[x].size
                               /\ End(N2, x) = End(N, x)
        /\ DOMAIN M2 = DOMAIN M /\ \A x \in DOMAIN M : M2[x].size = M[x].size
    <2>1. /\ End(N2, a) = a + SIZEOF_MINOR + sz
          /\ \A x \in DOMAIN N : End(N2, x) = End(N, x)
      BY <1>0, InsertIn
    <2> QED
      BY <1>0, <2>1 DEF Insert
  <1>2. IsFiniteSet(DOMAIN N2) /\ DOMAIN N2 \subseteq Nat \ {NULL}
    BY <1>0, <1>1, FS_AddElement DEF Heap, Placed
  <1>3. ASSUME NEW x \in DOMAIN N2
        PROVE  /\ N2[x].block \in DOMAIN M2
               /\ N2[x].block + SIZEOF_MAJOR <= x
               /\ End(N2, x) <= N2[x].block + M2[N2[x].block].size
               /\ MinSize <= N2[x].size
    <2>1. CASE x = a
      BY <1>0, <1>1, <2>1 DEF Gap
    <2>2. CASE x \in DOMAIN N
      BY <1>1, <2>2 DEF Heap, Placed
    <2> QED BY <1>1, <2>1, <2>2
  <1>4. ASSUME NEW x \in DOMAIN N2, NEW y \in DOMAIN N2 \ {x}
        PROVE  End(N2, x) <= y \/ End(N2, y) <= x
    <2>1. CASE x = a
      BY <1>0, <1>1, <2>1
    <2>2. CASE y = a
      BY <1>0, <1>1, <2>2
    <2>3. CASE x \in DOMAIN N /\ y \in DOMAIN N
      BY <1>1, <2>3 DEF Heap, Placed
    <2> QED BY <1>1, <2>1, <2>2, <2>3
  <1> QED
    BY <1>1, <1>2, <1>3, <1>4 DEF Placed

LEMMA InsertFirsts ==
  ASSUME NEW M, NEW N, NEW r, Heap(M, N, r), NEW m, NEW a, NEW prev, NEW next, NEW sz,
         Gap(M, N, m, a, prev, next, sz),
         NEW M2, NEW N2, Insert(M, N, m, a, prev, next, sz, M2, N2)
  PROVE  Firsts(M2, N2)
  <1>0. /\ a \in Nat /\ a # NULL /\ a \notin DOMAIN N /\ m \in DOMAIN M
        /\ prev # NULL => prev \in In(N, m) /\ prev < a
        /\ next # NULL => next \in In(N, m) /\ a < next
        /\ \A b \in In(N, m) : (prev # NULL /\ b <= prev) \/ (next # NULL /\ next <= b)
    BY GapClear
  <1>1. In(N2, m) = In(N, m) \cup {a} /\ \A k : k # m => In(N2, k) = In(N, k)
    BY <1>0, InsertIn
  <1>2. /\ DOMAIN M2 = DOMAIN M
        /\ \A x \in DOMAIN M : /\ x = m /\ prev = NULL => M2[x].first = a
                               /\ ~ (x = m /\ prev = NULL) => M2[x].first = M[x].first
    BY DEF Insert
  <1>3. Firsts(M, N) /\ Placed(M, N)
    BY DEF Heap
  <1>4. \A b \in In(N, m) : b \in Nat /\ b # 0
    BY <1>3 DEF In, Placed
  <1> SUFFICES ASSUME NEW k \in DOMAIN M
               PROVE  /\ M2[k].first \in In(N2, k) \cup {NULL}
                      /\ M2[k].first = NULL => In(N2, k) = {}
                      /\ \A b \in In(N2, k) : M2[k].first <= b
    BY <1>2 DEF Firsts
  <1>5. CASE k # m
    BY <1>1, <1>2, <1>3, <1>5 DEF Firsts
  <1>6. CASE k = m /\ prev = NULL
    BY <1>0, <1>1, <1>2, <1>4, <1>6
  <1>7. CASE k = m /\ prev # NULL
    <2>1. M2[k].first = M[m].first /\ In(N2, k) = In(N, m) \cup {a}
      BY <1>1, <1>2, <1>7
    <2>2. prev \in In(N, m) /\ prev < a
      BY <1>0, <1>7
    <2>3. /\ M[m].first \in In(N, m) /\ \A b \in In(N, m) : M[m].first <= b
      BY <1>0, <1>3, <2>2 DEF Firsts
    <2> QED
      BY <1>0, <1>4, <2>1, <2>2, <2>3
  <1> QED BY <1>5, <1>6, <1>7

LEMMA InsertOrdered ==
  ASSUME NEW M, NEW N, NEW r, Heap(M, N, r), NEW m, NEW a, NEW prev, NEW next, NEW sz,
         Gap(M, N, m, a, prev, next, sz),
         NEW M2, NEW N2, Insert(M, N, m, a, prev, next, sz, M2, N2)
  PROVE  Ordered(M2, N2)
  <1>0. /\ a \in Nat /\ a # NULL /\ a \notin DOMAIN N /\ m \in DOMAIN M
        /\ prev # NULL => prev \in In(N, m) /\ prev < a
        /\ next # NULL => next \in In(N, m) /\ a < next
        /\ \A b \in In(N, m) : (prev # NULL /\ b <= prev) \/ (next # NULL /\ next <= b)
    BY GapClear
  <1>1. In(N2, m) = In(N, m) \cup {a} /\ \A k : k # m => In(N2, k) = In(N, k)
    BY <1>0, InsertIn
  <1>2. /\ DOMAIN N2 = DOMAIN N \cup {a}
        /\ N2[a].prev = prev /\ N2[a].next = next /\ N2[a].block = m
        /\ \A x \in DOMAIN N : /\ N2[x].block = N[x].block
                               /\ x = prev => N2[x].next = a
                               /\ x # prev => N2[x].next = N[x].next
                               /\ x = next => N2[x].prev = a
                               /\ x # next => N2[x].prev = N[x].prev
    BY <1>0 DEF Insert
  <1>3. /\ DOMAIN M2 = DOMAIN M
        /\ \A x \in DOMAIN M : /\ x = m /\ prev = NULL => M2[x].first = a
                               /\ ~ (x = m /\ prev = NULL) => M2[x].first = M[x].first
    BY DEF Insert
  <1>4. Ordered(M, N) /\ Placed(M, N) /\ Firsts(M, N)
    BY DEF Heap
  <1>5. \A b \in DOMAIN N : b \in Nat /\ b # 0 /\ N[b].block \in DOMAIN M
    BY <1>4 DEF Placed
  <1>6. \A k : \A b \in In(N, k) : b \in DOMAIN N /\ N[b].block = k
    BY DEF In
  <1>7. /\ prev # NULL => N[prev].next = next
        /\ prev = NULL => M[m].first = next
        /\ next # NULL => N[next].prev = prev
    <2>1. CASE prev = NULL
      <3>1. M[m].first = next
        BY <2>1 DEF Gap
      <3>2. next # NULL => N[next].prev = NULL
        BY <1>0, <1>4, <1>6, <3>1 DEF Ordered
      <3> QED BY <2>1, <3>1, <3>2
    <2>2. CASE prev # NULL
      <3>1. next = N[prev].next
        BY <2>2 DEF Gap
      <3>2. next # NULL => N[next].prev = prev
        BY <1>0, <1>4, <1>6, <2>2, <3>1 DEF Ordered
      <3> QED BY <2>2, <3>1, <3>2
    <2> QED BY <2>1, <2>2
  <1> DEFINE OK(x) ==
               /\ N2[x].next \in In(N2, N2[x].block) \cup {NULL}
               /\ N2[x].prev \in In(N2, N2[x].block) \cup {NULL}
               /\ N2[x].next # NULL =>
                    /\ x < N2[x].next
                    /\ N2[N2[x].next].prev = x
                    /\ \A b \in In(N2, N2[x].block) : b <= x \/ N2[x].next <= b
               /\ N2[x].next = NULL => \A b \in In(N2, N2[x].block) : b <= x
               /\ N2[x].prev # NULL => N2[N2[x].prev].next = x
               /\ N2[x].prev = NULL <=> x = M2[N2[x].block].first
  <1>8. OK(a)
    <2>1. In(N2, N2[a].block) = In(N, m) \cup {a}
      BY <1>1, <1>2
    <2>2. next # NULL => N2[next].prev = a
      BY <1>0, <1>2, <1>6
    <2>3. prev # NULL => N2[prev].next = a
      BY <1>0, <1>2, <1>6
    <2>4. prev = NULL <=> a = M2[m].first
      <3>1. prev # NULL => M2[m].first # a
        BY <1>0, <1>3, <1>4, <1>6 DEF Firsts
      <3> QED
        BY <1>0, <1>3, <3>1
    <2>5. \A b \in In(N, m) \cup {a} : b <= a \/ (next # NULL /\ next <= b)
      BY <1>0, <1>5, <1>6
    <2> QED
      BY <1>0, <1>2, <2>1, <2>2, <2>3, <2>4, <2>5
  <1>9. ASSUME NEW x \in DOMAIN N PROVE OK(x)
    <2>0. /\ x # a /\ N2[x].block = N[x].block /\ x \in Nat /\ N[x].block \in DOMAIN M
          /\ x = prev => N2[x].next = a
          /\ x # prev => N2[x].next = N[x].next
          /\ x = next => N2[x].prev = a
          /\ x # next => N2[x].prev = N[x].prev
      BY <1>0, <1>2, <1>5
    <2>1. /\ N[x].next \in In(N, N[x].block) \cup {NULL}
          /\ N[x].prev \in In(N, N[x].block) \cup {NULL}
          /\ N[x].next # NULL =>
               /\ x < N[x].next
               /\ N[N[x].next].prev = x
               /\ \A b \in In(N, N[x].block) : b <= x \/ N[x].next <= b
          /\ N[x].next = NULL => \A b \in In(N, N[x].block) : b <= x
          /\ N[x].prev # NULL => N[N[x].prev].next = x
          /\ N[x].prev = NULL <=> x = M[N[x].block].first
      BY <1>4 DEF Ordered
    <2>2. CASE N[x].block # m
      <3>1. In(N2, N2[x].block) = In(N, N[x].block) /\ M2[N[x].block].first = M[N[x].block].first
        BY <1>1, <1>3, <2>0, <2>2
      <3>2. x # prev /\ x # next
        BY <1>0, <1>5, <1>6, <2>0, <2>2
      <3>3. N2[x].next = N[x].next /\ N2[x].prev = N[x].prev
        BY <2>0, <3>2
      <3>4. N[x].next # NULL => N2[N[x].next].prev = x
        BY <1>0, <1>2, <1>6, <2>1, <2>2
      <3>5. N[x].prev # NULL => N2[N[x].prev].next = x
        BY <1>0, <1>2, <1>6, <2>1, <2>2
      <3> QED
        BY <2>0, <2>1, <3>1, <3>3, <3>4, <3>5
    <2>3. CASE N[x].block = m
      <3>0. x \in In(N, m) /\ In(N2, N2[x].block) = In(N, m) \cup {a}
        BY <1>1, <2>0, <2>3 DEF In
      <3>1. /\ N2[x].next \in In(N2, m) \cup {NULL}
            /\ N2[x].prev \in In(N2, m) \cup {NULL}
        BY <2>0, <2>1, <2>3, <3>0
      <3>2. CASE x = prev
        <4>1. N2[x].next = a /\ N2[a].prev = x /\ x < a /\ N[x].next = next
          BY <1>0, <1>2, <1>5, <1>7, <2>0, <3>2
        <4>2. \A b \in In(N, m) : b <= x \/ a <= b
          BY <1>0, <1>5, <1>6, <3>2
        <4> QED
          BY <1>0, <2>0, <2>3, <3>0, <3>1, <3>2, <4>1, <4>2,
             <1>2, <1>3, <1>5, <1>6, <2>1
      <3>3. CASE x # prev
        <4>1. N2[x].next = N[x].next
          BY <2>0, <3>3
        <4>2. /\ N[x].next # NULL =>
                   /\ N2[N[x].next].prev = x
                   /\ \A b \in In(N, m) \cup {a} : b <= x \/ N[x].next <= b
              /\ N[x].next = NULL => \A b \in In(N, m) \cup {a} : b <= x
          <5>1. N[x].next # NULL => N[x].next # next
            <6> SUFFICES ASSUME N[x].next # NULL, N[x].next = next PROVE FALSE
              OBVIOUS
            <6>1. N[next].prev = x /\ N[next].prev = prev
              BY <1>7, <2>1
            <6> QED BY <6>1, <3>3
          <5>2. N[x].next # NULL => N2[N[x].next].prev = x
            BY <1>2, <1>6, <2>1, <5>1
          <5>3. x < a \/ a < x
            BY <1>0, <1>5, <2>0
          <5>4. ASSUME x < a PROVE N[x].next # NULL /\ N[x].next <= a
            <6>1. prev # NULL /\ x < prev /\ prev \in In(N, m)
              BY <1>0, <1>5, <1>6, <2>0, <3>0, <3>3, <5>4
            <6>2. N[x].next # NULL /\ N[x].next <= prev
              BY <1>5, <1>6, <2>0, <2>1, <2>3, <6>1
            <6> QED
              BY <1>0, <1>5, <1>6, <2>1, <6>1, <6>2
          <5> QED
            BY <1>0, <2>0, <2>1, <2>3, <5>2, <5>3, <5>4
        <4>3. x = next => N2[x].prev = a /\ N2[a].next = x
          BY <1>2, <2>0
        <4>4. x # next => /\ N2[x].prev = N[x].prev
                          /\ N[x].prev # NULL => N2[N[x].prev].next = x
          <5> SUFFICES ASSUME x # next, N[x].prev # NULL PROVE N2[N[x].prev].next = x
            BY <2>0
          <5>1. N[x].prev # prev
            BY <1>7, <2>1
          <5> QED
            BY <1>2, <1>6, <2>1, <5>1
        <4>5. N2[x].prev = NULL <=> x = M2[m].first
          <5>1. CASE x = next
            <6>1. N[x].prev = prev /\ N2[x].prev # NULL /\ next # NULL
              BY <1>0, <1>5, <1>7, <2>0, <5>1
            <6>2. prev # NULL => x # M2[m].first
              BY <1>0, <1>3, <2>1, <2>3, <6>1
            <6>3. prev = NULL => x # M2[m].first
              BY <1>0, <1>3, <2>0
            <6> QED BY <6>1, <6>2, <6>3
          <5>2. CASE x # next
            <6>1. N2[x].prev = N[x].prev
              BY <2>0, <5>2
            <6>2. prev # NULL => M2[m].first = M[m].first
              BY <1>0, <1>3
            <6>3. prev = NULL => M2[m].first = a /\ x # M[m].first
              BY <1>0, <1>3, <1>7, <5>2
            <6> QED
              BY <2>0, <2>1, <2>3, <6>1, <6>2, <6>3
          <5> QED BY <5>1, <5>2
        <4> QED
          BY <1>0, <2>0, <2>1, <2>3, <3>0, <3>1, <4>1, <4>2, <4>3, <4>4, <4>5
      <3> QED BY <3>2, <3>3
    <2> QED BY <2>2, <2>3
  <1> HIDE DEF OK
  <1>10. \A x \in DOMAIN N2 : OK(x)
    BY <1>2, <1>8, <1>9
  <1> QED
    BY <1>10 DEF Ordered, OK

LEMMA InsertUsed ==
  ASSUME NEW M, NEW N, NEW r, Heap(M, N, r), NEW m, NEW a, NEW prev, NEW next, NEW sz,
         Gap(M, N, m, a, prev, next, sz),
         NEW M2, NEW N2, Insert(M, N, m, a, prev, next, sz, M2, N2)
  PROVE  Used(M2, N2)
  <1>0. a \notin DOMAIN N /\ m \in DOMAIN M
    BY GapClear
  <1>1. In(N2, m) = In(N, m) \cup {a} /\ \A k : k # m => In(N2, k) = In(N, k)
    BY <1>0, InsertIn
  <1>2. /\ DOMAIN M2 = DOMAIN M
        /\ \A x \in DOMAIN M : /\ x = m => M2[x].usage = M[x].usage + SIZEOF_MINOR + sz
                               /\ x # m => M2[x].usage = M[x].usage
    BY DEF Insert
  <1>3. Placed(M, N) /\ Placed(M2, N2) /\ Used(M, N)
    BY InsertPlaced DEF Heap
  <1>4. Spans(N2)[a] = SIZEOF_MINOR + sz /\ \A x \in DOMAIN N : Spans(N2)[x] = Spans(N)[x]
    <2>1. a \in DOMAIN N2 /\ DOMAIN N \subseteq DOMAIN N2 /\ N2[a].size = sz
      BY DEF Insert
    <2>2. \A x \in DOMAIN N : N2[x].size = N[x].size
      BY <1>0 DEF Insert
    <2> QED
      BY <2>1, <2>2 DEF Spans
  <1>5. ASSUME NEW k
        PROVE  SumFunctionOnSet(Spans(N2), In(N, k)) = SumFunctionOnSet(Spans(N), In(N, k))
    <2>1. IsFiniteSet(In(N, k)) /\ In(N, k) \subseteq DOMAIN N
      BY <1>3, SpansType
    <2> QED
      BY <1>4, <2>1, SumAgree
  <1> SUFFICES ASSUME NEW k \in DOMAIN M
               PROVE  M2[k].usage = SIZEOF_MAJOR + SumFunctionOnSet(Spans(N2), In(N2, k))
    BY <1>2 DEF Used
  <1>6. CASE k # m
    BY <1>1, <1>2, <1>3, <1>5, <1>6 DEF Used
  <1>7. CASE k = m
    <2>1. IsFiniteSet(In(N2, m)) /\ a \in In(N2, m) /\ In(N2, m) \ {a} = In(N, m)
      BY <1>0, <1>1, <1>3, SpansType
    <2>2. \A x \in In(N2, m) : Spans(N2)[x] \in Int
      BY <1>3, SpansType
    <2>3. SumFunctionOnSet(Spans(N2), In(N2, m))
            = Spans(N2)[a] + SumFunctionOnSet(Spans(N2), In(N, m))
      BY <2>1, <2>2, SumWithout
    <2>4. M[m].usage = SIZEOF_MAJOR + SumFunctionOnSet(Spans(N), In(N, m))
      BY <1>0, <1>3 DEF Used
    <2>5. SumFunctionOnSet(Spans(N), In(N, m)) \in Int
      <3>1. IsFiniteSet(In(N, m)) /\ \A x \in In(N, m) : Spans(N)[x] \in Int
        BY <1>3, SpansType
      <3> QED BY <3>1, SumType
    <2>6. sz \in Nat /\ SIZEOF_MINOR \in Nat /\ SIZEOF_MAJOR \in Nat
      BY LayoutAssumption DEF Gap
    <2> QED
      BY <1>2, <1>4, <1>5, <1>7, <2>3, <2>4, <2>5, <2>6
  <1> QED BY <1>6, <1>7

(* Linking a block into a gap keeps the heap. *)
LEMMA InsertKeeps ==
  ASSUME NEW M, NEW N, NEW r, Heap(M, N, r), NEW m, NEW a, NEW prev, NEW next, NEW sz,
         Gap(M, N, m, a, prev, next, sz),
         NEW M2, NEW N2, Insert(M, N, m, a, prev, next, sz, M2, N2)
  PROVE  Heap(M2, N2, r)
  <1>1. Regions(M2) /\ Chain(M2, r)
    BY InsertMajors DEF Heap
  <1> QED
    BY <1>1, InsertPlaced, InsertFirsts, InsertOrdered, InsertUsed DEF Heap

-----------------------------------------------------------------------------
(***************************************************************************)
(* A block is unlinked: the first half of kfree.                           *)
(***************************************************************************)
Delete(M, N, a, M2, N2) ==
  /\ a \in DOMAIN N
  /\ DOMAIN M2 = DOMAIN M /\ M2 \in [DOMAIN M2 -> MajorType]
  /\ \A x \in DOMAIN M :
       /\ M2[x].prev = M[x].prev /\ M2[x].next = M[x].next
       /\ M2[x].pages = M[x].pages /\ M2[x].size = M[x].size
       /\ x = N[a].block /\ N[a].prev = NULL => M2[x].first = N[a].next
       /\ ~ (x = N[a].block /\ N[a].prev = NULL) => M2[x].first = M[x].first
       /\ x = N[a].block => M2[x].usage = M[x].usage - (SIZEOF_MINOR + N[a].size)
       /\ x # N[a].block => M2[x].usage = M[x].usage
  /\ DOMAIN N2 = DOMAIN N \ {a} /\ N2 \in [DOMAIN N2 -> MinorType]
  /\ \A x \in DOMAIN N \ {a} :
       /\ N2[x].block = N[x].block /\ N2[x].size = N[x].size
       /\ N2[x].req_size = N[x].req_size
       /\ x = N[a].prev => N2[x].next = N[a].next
       /\ x # N[a].prev => N2[x].next = N[x].next
       /\ x = N[a].next => N2[x].prev = N[a].prev
       /\ x # N[a].next => N2[x].prev = N[x].prev

LEMMA DeleteIn ==
  ASSUME NEW M, NEW N, NEW a, NEW M2, NEW N2, Delete(M, N, a, M2, N2)
  PROVE  /\ \A k : In(N2, k) = In(N, k) \ {a}
         /\ \A x \in DOMAIN N2 : End(N2, x) = End(N, x)
  <1>1. \A x \in DOMAIN N \ {a} : N2[x].block = N[x].block /\ N2[x].size = N[x].size
    BY DEF Delete
  <1>2. DOMAIN N2 = DOMAIN N \ {a}
    BY DEF Delete
  <1> QED
    BY <1>1, <1>2 DEF In, End

LEMMA DeleteMajors ==
  ASSUME NEW M, NEW N, NEW r, Regions(M), Chain(M, r), NEW a, NEW M2, NEW N2,
         Delete(M, N, a, M2, N2)
  PROVE  Regions(M2) /\ Chain(M2, r)
  <1>1. /\ DOMAIN M2 = DOMAIN M /\ M2 \in [DOMAIN M2 -> MajorType]
        /\ \A x \in DOMAIN M :
             /\ M2[x].prev = M[x].prev /\ M2[x].next = M[x].next
             /\ M2[x].pages = M[x].pages /\ M2[x].size = M[x].size
    BY DEF Delete
  <1>2. Regions(M2)
    BY <1>1 DEF Regions
  <1>3. \A D \in SUBSET DOMAIN M : Closed(M2, r, D) => Closed(M, r, D)
    BY <1>1 DEF Closed
  <1>4. Chain(M2, r)
    BY <1>1, <1>3 DEF Chain
  <1> QED BY <1>2, <1>4

LEMMA DeletePlaced ==
  ASSUME NEW M, NEW N, NEW r, Heap(M, N, r), NEW a, NEW M2, NEW N2,
         Delete(M, N, a, M2, N2)
  PROVE  Placed(M2, N2)
  <1>1. /\ DOMAIN N2 = DOMAIN N \ {a} /\ N2 \in [DOMAIN N2 -> MinorType]
        /\ \A x \in DOMAIN N2 : N2[x].block = N[x].block /\ N2[x].size = N[x].size
        /\ DOMAIN M2 = DOMAIN M /\ \A x \in DOMAIN M : M2[x].size = M[x].size
    BY DEF Delete
  <1>2. \A x \in DOMAIN N2 : End(N2, x) = End(N, x)
    BY DeleteIn
  <1>3. IsFiniteSet(DOMAIN N2)
    BY <1>1, FS_Subset DEF Heap, Placed
  <1> QED
    BY <1>1, <1>2, <1>3 DEF Heap, Placed

LEMMA DeleteFirsts ==
  ASSUME NEW M, NEW N, NEW r, Heap(M, N, r), NEW a, NEW M2, NEW N2,
         Delete(M, N, a, M2, N2)
  PROVE  Firsts(M2, N2)
  <1> DEFINE m == N[a].block
  <1>0. Firsts(M, N) /\ Ordered(M, N) /\ Placed(M, N) /\ a \in DOMAIN N
    BY DEF Heap, Delete
  <1>1. \A k : In(N2, k) = In(N, k) \ {a}
    BY DeleteIn
  <1>2. /\ DOMAIN M2 = DOMAIN M
        /\ \A x \in DOMAIN M :
             /\ x = m /\ N[a].prev = NULL => M2[x].first = N[a].next
             /\ ~ (x = m /\ N[a].prev = NULL) => M2[x].first = M[x].first
    BY DEF Delete
  <1>3. m \in DOMAIN M /\ \A x \in DOMAIN N : x \in Nat /\ x # 0
    BY <1>0 DEF Placed
  <1>4. \A k : \A b \in In(N, k) : b \in DOMAIN N /\ N[b].block = k
    BY DEF In
  <1>5. /\ N[a].next \in In(N, m) \cup {NULL}
        /\ N[a].next # NULL => a < N[a].next /\ \A b \in In(N, m) : b <= a \/ N[a].next <= b
        /\ N[a].next = NULL => \A b \in In(N, m) : b <= a
        /\ N[a].prev = NULL <=> a = M[m].first
    BY <1>0 DEF Ordered
  <1> HIDE DEF m
  <1> SUFFICES ASSUME NEW k \in DOMAIN M
               PROVE  /\ M2[k].first \in In(N2, k) \cup {NULL}
                      /\ M2[k].first = NULL => In(N2, k) = {}
                      /\ \A b \in In(N2, k) : M2[k].first <= b
    BY <1>2 DEF Firsts
  <1>6. /\ M[k].first \in In(N, k) \cup {NULL}
        /\ M[k].first = NULL => In(N, k) = {}
        /\ \A b \in In(N, k) : M[k].first <= b
    BY <1>0 DEF Firsts
  <1>7. CASE k # m
    <2>1. a \notin In(N, k)
      BY <1>4, <1>7 DEF m
    <2> QED
      BY <1>1, <1>2, <1>6, <1>7, <2>1
  <1>8. CASE k = m /\ N[a].prev = NULL
    <2>1. M2[k].first = N[a].next /\ a = M[k].first
      BY <1>2, <1>5, <1>8
    <2>2. \A b \in In(N, k) \ {a} : N[a].next # NULL /\ N[a].next <= b
      BY <1>3, <1>4, <1>5, <1>6, <1>8, <2>1
    <2> QED
      BY <1>1, <1>3, <1>4, <1>5, <1>8, <2>1, <2>2
  <1>9. CASE k = m /\ N[a].prev # NULL
    <2>1. M2[k].first = M[k].first /\ a # M[k].first
      BY <1>2, <1>5, <1>9
    <2> QED
      BY <1>1, <1>3, <1>4, <1>6, <2>1
  <1> QED BY <1>7, <1>8, <1>9

LEMMA DeleteOrdered ==
  ASSUME NEW M, NEW N, NEW r, Heap(M, N, r), NEW a, NEW M2, NEW N2,
         Delete(M, N, a, M2, N2)
  PROVE  Ordered(M2, N2)
  <1> DEFINE m == N[a].block
             p == N[a].prev
             n == N[a].next
  <1>0. Firsts(M, N) /\ Ordered(M, N) /\ Placed(M, N) /\ a \in DOMAIN N
    BY DEF Heap, Delete
  <1>1. \A k : In(N2, k) = In(N, k) \ {a}
    BY DeleteIn
  <1>2. \A x \in DOMAIN M : /\ x = m /\ p = NULL => M2[x].first = n
                            /\ ~ (x = m /\ p = NULL) => M2[x].first = M[x].first
    BY DEF Delete
  <1>3. /\ DOMAIN N2 = DOMAIN N \ {a}
        /\ \A x \in DOMAIN N \ {a} :
             /\ N2[x].block = N[x].block
             /\ x = p => N2[x].next = n
             /\ x # p => N2[x].next = N[x].next
             /\ x = n => N2[x].prev = p
             /\ x # n => N2[x].prev = N[x].prev
    BY DEF Delete
  <1>4. \A x \in DOMAIN N : x \in Nat /\ x # 0 /\ N[x].block \in DOMAIN M
    BY <1>0 DEF Placed
  <1>5. \A k : \A b \in In(N, k) : b \in DOMAIN N /\ N[b].block = k
    BY DEF In
  <1> DEFINE Old(x) ==
               /\ N[x].next \in In(N, N[x].block) \cup {NULL}
               /\ N[x].prev \in In(N, N[x].block) \cup {NULL}
               /\ N[x].next # NULL =>
                    /\ x < N[x].next
                    /\ N[N[x].next].prev = x
                    /\ \A b \in In(N, N[x].block) : b <= x \/ N[x].next <= b
               /\ N[x].next = NULL => \A b \in In(N, N[x].block) : b <= x
               /\ N[x].prev # NULL => N[N[x].prev].next = x
               /\ N[x].prev = NULL <=> x = M[N[x].block].first
  <1>6. ASSUME NEW x \in DOMAIN N PROVE Old(x)
    BY <1>0 DEF Ordered
  <1>7. /\ n \in In(N, m) \cup {NULL} /\ p \in In(N, m) \cup {NULL}
        /\ n # NULL => a < n /\ N[n].prev = a /\ \A b \in In(N, m) : b <= a \/ n <= b
        /\ n = NULL => \A b \in In(N, m) : b <= a
        /\ p # NULL => N[p].next = a
        /\ p = NULL <=> a = M[m].first
    BY <1>0, <1>6
  <1>8. p # NULL => p < a /\ \A b \in In(N, m) : b <= p \/ a <= b
    <2> SUFFICES ASSUME p # NULL
                 PROVE  p < a /\ \A b \in In(N, m) : b <= p \/ a <= b
      OBVIOUS
    <2> HIDE DEF m, p, n
    <2>1. p \in DOMAIN N /\ N[p].block = m /\ N[p].next = a /\ a # NULL
      BY <1>0, <1>4, <1>5, <1>7
    <2>2. Old(p)
      BY <2>1, <1>6
    <2> QED
      BY <2>1, <2>2
  <1> HIDE DEF m, p, n
  <1> SUFFICES ASSUME NEW x \in DOMAIN N \ {a}
               PROVE  /\ N2[x].next \in In(N2, N2[x].block) \cup {NULL}
                      /\ N2[x].prev \in In(N2, N2[x].block) \cup {NULL}
                      /\ N2[x].next # NULL =>
                           /\ x < N2[x].next
                           /\ N2[N2[x].next].prev = x
                           /\ \A b \in In(N2, N2[x].block) : b <= x \/ N2[x].next <= b
                      /\ N2[x].next = NULL => \A b \in In(N2, N2[x].block) : b <= x
                      /\ N2[x].prev # NULL => N2[N2[x].prev].next = x
                      /\ N2[x].prev = NULL <=> x = M2[N2[x].block].first
    BY <1>3 DEF Ordered
  <1>9. Old(x) /\ N2[x].block = N[x].block /\ In(N2, N2[x].block) = In(N, N[x].block) \ {a}
    BY <1>1, <1>3, <1>6
  <1>10. x \in Nat /\ a \in Nat /\ N[x].block \in DOMAIN M
    BY <1>0, <1>4
  <1>11. /\ N[x].next = a => x = p
         /\ N[x].prev = a => x = n
    BY <1>0, <1>4, <1>9 DEF p, n
  <1>12. x \in {p, n} => N[x].block = m
    BY <1>4, <1>5, <1>7
  <1>13. /\ N2[x].next \in In(N2, N2[x].block) \cup {NULL}
         /\ N2[x].next # NULL =>
              /\ x < N2[x].next
              /\ N2[N2[x].next].prev = x
              /\ \A b \in In(N2, N2[x].block) : b <= x \/ N2[x].next <= b
         /\ N2[x].next = NULL => \A b \in In(N2, N2[x].block) : b <= x
    <2>1. CASE x = p
      <3>1. N2[x].next = n /\ p # NULL /\ N[x].block = m
        BY <1>3, <1>4, <1>12, <2>1
      <3>2. n # NULL => n # a /\ n \in DOMAIN N /\ N2[n].prev = x
        BY <1>3, <1>4, <1>5, <1>7, <1>10, <2>1
      <3>3. n # NULL => x < n /\ \A b \in In(N, m) \ {a} : b <= x \/ n <= b
        BY <1>4, <1>5, <1>7, <1>8, <1>10, <2>1, <3>1
      <3>4. n = NULL => \A b \in In(N, m) \ {a} : b <= x
        BY <1>4, <1>5, <1>7, <1>8, <1>10, <2>1, <3>1
      <3> QED
        BY <1>7, <1>9, <3>1, <3>2, <3>3, <3>4
    <2>2. CASE x # p
      <3>1. N2[x].next = N[x].next /\ N[x].next # a
        BY <1>3, <1>11, <2>2
      <3>2. N[x].next # NULL => N2[N[x].next].prev = x
        <4> SUFFICES ASSUME N[x].next # NULL PROVE N2[N[x].next].prev = x
          OBVIOUS
        <4>1. N[x].next \in DOMAIN N \ {a} /\ N[N[x].next].prev = x
          BY <1>5, <1>9, <3>1
        <4>2. N[x].next # n
          BY <1>7, <4>1
        <4> QED
          BY <1>3, <4>1, <4>2
      <3> QED
        BY <1>9, <3>1, <3>2
    <2> QED BY <2>1, <2>2
  <1>14. /\ N2[x].prev \in In(N2, N2[x].block) \cup {NULL}
         /\ N2[x].prev # NULL => N2[N2[x].prev].next = x
         /\ N2[x].prev = NULL <=> x = M2[N2[x].block].first
    <2>1. CASE x = n
      <3>1. N2[x].prev = p /\ N[x].block = m /\ n # NULL
        BY <1>3, <1>4, <1>12, <2>1
      <3>2. p # NULL => p # a /\ p \in DOMAIN N /\ N2[p].next = x
        BY <1>3, <1>5, <1>7, <1>8, <1>10, <2>1
      <3>3. p = NULL => x = M2[m].first
        BY <1>2, <1>10, <2>1, <3>1
      <3>4. p # NULL => x # M2[m].first
        BY <1>0, <1>2, <1>4, <1>7, <1>9, <1>10, <2>1, <3>1
      <3> QED
        BY <1>7, <1>9, <3>1, <3>2, <3>3, <3>4
    <2>2. CASE x # n
      <3>1. N2[x].prev = N[x].prev /\ N[x].prev # a
        BY <1>3, <1>11, <2>2
      <3>2. N[x].prev # NULL => N2[N[x].prev].next = x
        <4> SUFFICES ASSUME N[x].prev # NULL PROVE N2[N[x].prev].next = x
          OBVIOUS
        <4>1. N[x].prev \in DOMAIN N \ {a} /\ N[N[x].prev].next = x
          BY <1>5, <1>9, <3>1
        <4>2. N[x].prev # p
          BY <1>7, <4>1
        <4> QED
          BY <1>3, <4>1, <4>2
      <3>3. N[x].prev = NULL <=> x = M2[N[x].block].first
        <4>1. CASE N[x].block = m /\ p = NULL
          <5>1. M2[m].first = n /\ a = M[m].first
            BY <1>2, <1>7, <1>10, <4>1
          <5> QED
            BY <1>9, <2>2, <4>1, <5>1
        <4>2. CASE ~ (N[x].block = m /\ p = NULL)
          BY <1>2, <1>9, <1>10, <4>2
        <4> QED BY <4>1, <4>2
      <3> QED
        BY <1>9, <3>1, <3>2, <3>3
    <2> QED BY <2>1, <2>2
  <1> QED
    BY <1>13, <1>14

LEMMA DeleteUsed ==
  ASSUME NEW M, NEW N, NEW r, Heap(M, N, r), NEW a, NEW M2, NEW N2,
         Delete(M, N, a, M2, N2)
  PROVE  Used(M2, N2)
  <1> DEFINE m == N[a].block
  <1>0. Placed(M, N) /\ Placed(M2, N2) /\ Used(M, N) /\ a \in DOMAIN N
    <2>1. Placed(M2, N2)
      BY DeletePlaced
    <2> QED
      BY <2>1 DEF Heap, Delete
  <1>1. \A k : In(N2, k) = In(N, k) \ {a}
    BY DeleteIn
  <1>2. /\ DOMAIN M2 = DOMAIN M
        /\ \A x \in DOMAIN M :
             /\ x = m => M2[x].usage = M[x].usage - (SIZEOF_MINOR + N[a].size)
             /\ x # m => M2[x].usage = M[x].usage
    BY DEF Delete
  <1>3. \A x \in DOMAIN N2 : Spans(N2)[x] = Spans(N)[x]
    <2>1. \A x \in DOMAIN N2 : N2[x].size = N[x].size /\ x \in DOMAIN N
      BY DEF Delete
    <2> QED BY <2>1 DEF Spans
  <1>4. ASSUME NEW k
        PROVE  SumFunctionOnSet(Spans(N2), In(N2, k)) = SumFunctionOnSet(Spans(N), In(N2, k))
    <2>1. IsFiniteSet(In(N2, k)) /\ In(N2, k) \subseteq DOMAIN N2
      BY <1>0, SpansType
    <2> QED
      BY <1>3, <2>1, SumAgree
  <1>5. a \in In(N, m) /\ \A k : k # m => a \notin In(N, k)
    BY <1>0 DEF In
  <1>6. /\ Spans(N)[a] = SIZEOF_MINOR + N[a].size /\ Spans(N)[a] \in Nat
        /\ \A k : /\ IsFiniteSet(In(N, k))
                  /\ \A x \in In(N, k) : Spans(N)[x] \in Int
    BY <1>0, SpansType
  <1> HIDE DEF m
  <1> SUFFICES ASSUME NEW k \in DOMAIN M
               PROVE  M2[k].usage = SIZEOF_MAJOR + SumFunctionOnSet(Spans(N2), In(N2, k))
    BY <1>2 DEF Used
  <1>7. M[k].usage = SIZEOF_MAJOR + SumFunctionOnSet(Spans(N), In(N, k))
    BY <1>0 DEF Used
  <1>8. CASE k # m
    <2>1. In(N2, k) = In(N, k)
      BY <1>1, <1>5, <1>8
    <2> QED
      BY <1>2, <1>4, <1>7, <1>8, <2>1
  <1>9. CASE k = m
    <2>1. SumFunctionOnSet(Spans(N), In(N, m))
            = Spans(N)[a] + SumFunctionOnSet(Spans(N), In(N, m) \ {a})
      BY <1>5, <1>6, SumWithout
    <2>2. SumFunctionOnSet(Spans(N), In(N, m) \ {a}) \in Int
      <3>1. IsFiniteSet(In(N, m) \ {a}) /\ \A x \in In(N, m) \ {a} : Spans(N)[x] \in Int
        BY <1>6, FS_RemoveElement
      <3> QED BY <3>1, SumType
    <2>3. SIZEOF_MAJOR \in Nat
      BY LayoutAssumption
    <2>4. M2[k].usage = M[k].usage - Spans(N)[a]
      BY <1>2, <1>6, <1>9
    <2>5. SumFunctionOnSet(Spans(N2), In(N2, k)) = SumFunctionOnSet(Spans(N), In(N, m) \ {a})
      BY <1>1, <1>4, <1>9
    <2> QED
      BY <1>6, <1>7, <1>9, <2>1, <2>2, <2>3, <2>4, <2>5
  <1> QED BY <1>8, <1>9

(* Unlinking a block keeps the heap. *)
LEMMA DeleteKeeps ==
  ASSUME NEW M, NEW N, NEW r, Heap(M, N, r), NEW a, NEW M2, NEW N2,
         Delete(M, N, a, M2, N2)
  PROVE  Heap(M2, N2, r)
  <1>1. Regions(M2) /\ Chain(M2, r)
    BY DeleteMajors DEF Heap
  <1> QED
    BY <1>1, DeletePlaced, DeleteFirsts, DeleteOrdered, DeleteUsed DEF Heap

-----------------------------------------------------------------------------
(***************************************************************************)
(* A region is taken from the page hook, or given back to it.              *)
(***************************************************************************)
Append(M, r, last, base, pages, M2, r2) ==
  /\ base \in Nat \ {NULL} /\ base \notin DOMAIN M /\ pages \in Nat
  /\ SIZEOF_MAJOR <= pages * l_pageSize /\ pages * l_pageSize < UINT
  /\ \A m \in DOMAIN M : base + pages * l_pageSize <= m \/ m + M[m].size <= base
  /\ \/ r = NULL /\ last = NULL /\ r2 = base
     \/ r # NULL /\ last \in DOMAIN M /\ M[last].next = NULL /\ r2 = r
  /\ DOMAIN M2 = DOMAIN M \cup {base} /\ M2 \in [DOMAIN M2 -> MajorType]
  /\ M2[base].prev = last /\ M2[base].next = NULL /\ M2[base].pages = pages
  /\ M2[base].size = pages * l_pageSize /\ M2[base].usage = SIZEOF_MAJOR
  /\ M2[base].first = NULL
  /\ \A x \in DOMAIN M :
       /\ x = last => M2[x].next = base
       /\ x # last => M2[x].next = M[x].next
       /\ M2[x].prev = M[x].prev /\ M2[x].pages = M[x].pages /\ M2[x].size = M[x].size
       /\ M2[x].first = M[x].first /\ M2[x].usage = M[x].usage

LEMMA NoRootNoMajors ==
  ASSUME NEW M, NEW r, Chain(M, r), r = NULL
  PROVE  DOMAIN M = {}
  <1>1. Closed(M, r, {})
    BY DEF Closed
  <1> QED
    BY <1>1 DEF Chain

LEMMA AppendChain ==
  ASSUME NEW M, NEW r, Regions(M), Chain(M, r), NEW last, NEW base, NEW pages, NEW M2, NEW r2,
         Append(M, r, last, base, pages, M2, r2)
  PROVE  Chain(M2, r2)
  <1>1. /\ base # NULL /\ base \notin DOMAIN M /\ DOMAIN M2 = DOMAIN M \cup {base}
        /\ M2[base].prev = last /\ M2[base].next = NULL
        /\ \A x \in DOMAIN M :
             /\ x = last => M2[x].next = base
             /\ x # last => M2[x].next = M[x].next
             /\ M2[x].prev = M[x].prev
    BY DEF Append
  <1>2. \A x \in DOMAIN M : x # NULL
    BY DEF Regions
  <1>3. CASE r = NULL
    <2>1. DOMAIN M = {} /\ last = NULL /\ r2 = base
      BY <1>3, NoRootNoMajors DEF Append
    <2>2. ASSUME NEW D \in SUBSET DOMAIN M2, Closed(M2, r2, D)
          PROVE  D = DOMAIN M2
      BY <1>1, <2>1, <2>2 DEF Closed
    <2> QED
      BY <1>1, <2>1, <2>2 DEF Chain
  <1>4. CASE r # NULL
    <2>1. last \in DOMAIN M /\ M[last].next = NULL /\ r2 = r /\ r \in DOMAIN M
      BY <1>4 DEF Append, Chain
    <2>2. ASSUME NEW D \in SUBSET DOMAIN M2, Closed(M2, r2, D)
          PROVE  D = DOMAIN M2
      <3> DEFINE E == D \ {base}
      <3>1. E \in SUBSET DOMAIN M
        BY <1>1
      <3>2. ASSUME NEW x \in E, M[x].next # NULL
            PROVE  M[x].next \in E
        <4>1. x \in DOMAIN M /\ x \in D /\ x # last
          BY <2>1, <3>1, <3>2
        <4>2. M2[x].next = M[x].next /\ M[x].next \in DOMAIN M
          BY <1>1, <3>2, <4>1 DEF Chain
        <4>3. M2[x].next \in D
          BY <2>2, <3>2, <4>1, <4>2 DEF Closed
        <4> QED
          BY <1>1, <4>2, <4>3
      <3>3. Closed(M, r, E)
        <4>1. r \in D
          BY <1>4, <2>1, <2>2 DEF Closed
        <4> QED
          BY <1>1, <2>1, <3>2, <4>1 DEF Closed
      <3>4. E = DOMAIN M
        BY <3>1, <3>3 DEF Chain
      <3>5. last \in D /\ M2[last].next = base
        BY <1>1, <2>1, <3>4
      <3>6. base \in D
        BY <1>1, <2>2, <3>5 DEF Closed
      <3> QED
        BY <1>1, <3>4, <3>6
    <2>3. ASSUME NEW x \in DOMAIN M
          PROVE  /\ M2[x].next \in DOMAIN M2 \cup {NULL}
                 /\ M2[x].prev \in DOMAIN M2 \cup {NULL}
                 /\ M2[x].prev = NULL <=> x = r2
                 /\ M2[x].next # NULL => M2[M2[x].next].prev = x
                 /\ M2[x].prev # NULL => M2[M2[x].prev].next = x
      <3>1. /\ M[x].next \in DOMAIN M \cup {NULL}
            /\ M[x].prev \in DOMAIN M \cup {NULL}
            /\ M[x].prev = NULL <=> x = r
            /\ M[x].next # NULL => M[M[x].next].prev = x
            /\ M[x].prev # NULL => M[M[x].prev].next = x
        BY DEF Chain
      <3>2. M[x].prev # last
        BY <1>2, <2>1, <3>1
      <3> QED
        BY <1>1, <2>1, <3>1, <3>2
    <2> QED
      BY <1>1, <1>2, <2>1, <2>2, <2>3 DEF Chain
  <1> QED BY <1>3, <1>4

(* A new region, without blocks, keeps the heap. *)
LEMMA AppendKeeps ==
  ASSUME NEW M, NEW N, NEW r, Heap(M, N, r), NEW last, NEW base, NEW pages, NEW M2, NEW r2,
         Append(M, r, last, base, pages, M2, r2)
  PROVE  Heap(M2, N, r2)
  <1>0. /\ Regions(M) /\ Chain(M, r) /\ Placed(M, N) /\ Firsts(M, N) /\ Ordered(M, N)
        /\ Used(M, N)
    BY DEF Heap
  <1>1. /\ DOMAIN M2 = DOMAIN M \cup {base} /\ base \notin DOMAIN M
        /\ \A x \in DOMAIN M : /\ M2[x].size = M[x].size /\ M2[x].first = M[x].first
                               /\ M2[x].usage = M[x].usage
        /\ M2[base].first = NULL /\ M2[base].usage = SIZEOF_MAJOR
    BY DEF Append
  <1>2. In(N, base) = {}
    BY <1>0, <1>1 DEF In, Placed
  <1>3. Regions(M2)
    <2>1. /\ M2 \in [DOMAIN M2 -> MajorType] /\ base \in Nat \ {NULL}
          /\ M2[base].size = pages * l_pageSize /\ M2[base].pages = pages
          /\ SIZEOF_MAJOR <= M2[base].size /\ M2[base].size < UINT
          /\ \A m \in DOMAIN M : base + M2[base].size <= m \/ m + M[m].size <= base
          /\ \A x \in DOMAIN M : M2[x].pages = M[x].pages
      BY DEF Append
    <2>2. IsFiniteSet(DOMAIN M2) /\ DOMAIN M2 \subseteq Nat \ {NULL}
      BY <1>0, <1>1, <2>1, FS_AddElement DEF Regions
    <2>3. \A m \in DOMAIN M2 : /\ M2[m].size = M2[m].pages * l_pageSize
                               /\ SIZEOF_MAJOR <= M2[m].size /\ M2[m].size < UINT
      BY <1>0, <1>1, <2>1 DEF Regions
    <2>4. \A m \in DOMAIN M2 : \A k \in DOMAIN M2 \ {m} :
            m + M2[m].size <= k \/ k + M2[k].size <= m
      BY <1>0, <1>1, <2>1 DEF Regions
    <2> QED
      BY <2>1, <2>2, <2>3, <2>4 DEF Regions
  <1>4. Chain(M2, r2)
    BY <1>0, AppendChain
  <1>5. Placed(M2, N)
    BY <1>0, <1>1 DEF Placed
  <1>6. Firsts(M2, N)
    BY <1>0, <1>1, <1>2 DEF Firsts
  <1>7. Ordered(M2, N)
    BY <1>0, <1>1 DEF Ordered, Placed
  <1>8. Used(M2, N)
    <2>1. SumFunctionOnSet(Spans(N), In(N, base)) = 0
      BY <1>2, SumEmpty
    <2>2. SIZEOF_MAJOR = SIZEOF_MAJOR + 0
      BY LayoutAssumption
    <2> QED
      BY <1>0, <1>1, <2>1, <2>2 DEF Used
  <1> QED
    BY <1>3, <1>4, <1>5, <1>6, <1>7, <1>8 DEF Heap

Drop(M, N, r, m, M2, r2) ==
  /\ m \in DOMAIN M /\ In(N, m) = {}
  /\ r = m => r2 = M[m].next
  /\ r # m => r2 = r
  /\ DOMAIN M2 = DOMAIN M \ {m} /\ M2 \in [DOMAIN M2 -> MajorType]
  /\ \A x \in DOMAIN M \ {m} :
       /\ x = M[m].prev => M2[x].next = M[m].next
       /\ x # M[m].prev => M2[x].next = M[x].next
       /\ x = M[m].next => M2[x].prev = M[m].prev
       /\ x # M[m].next => M2[x].prev = M[x].prev
       /\ M2[x].pages = M[x].pages /\ M2[x].size = M[x].size
       /\ M2[x].first = M[x].first /\ M2[x].usage = M[x].usage

LEMMA DropChain ==
  ASSUME NEW M, NEW N, NEW r, Regions(M), Chain(M, r), NEW m, NEW M2, NEW r2,
         Drop(M, N, r, m, M2, r2)
  PROVE  Chain(M2, r2)
  <1> DEFINE p == M[m].prev
             n == M[m].next
  <1>1. /\ m \in DOMAIN M /\ DOMAIN M2 = DOMAIN M \ {m}
        /\ r = m => r2 = n
        /\ r # m => r2 = r
        /\ \A x \in DOMAIN M \ {m} :
             /\ x = p => M2[x].next = n
             /\ x # p => M2[x].next = M[x].next
             /\ x = n => M2[x].prev = p
             /\ x # n => M2[x].prev = M[x].prev
    BY DEF Drop
  <1>2. \A x \in DOMAIN M : x # NULL
    BY DEF Regions
  <1>3. /\ \A x \in DOMAIN M :
             /\ M[x].next \in DOMAIN M \cup {NULL}
             /\ M[x].prev \in DOMAIN M \cup {NULL}
             /\ M[x].prev = NULL <=> x = r
             /\ M[x].next # NULL => M[M[x].next].prev = x
             /\ M[x].prev # NULL => M[M[x].prev].next = x
        /\ r \in DOMAIN M \cup {NULL}
        /\ \A D \in SUBSET DOMAIN M : Closed(M, r, D) => D = DOMAIN M
    BY DEF Chain
  <1>4. /\ n \in DOMAIN M \cup {NULL} /\ p \in DOMAIN M \cup {NULL}
        /\ p = NULL <=> m = r
        /\ n # NULL => M[n].prev = m
        /\ p # NULL => M[p].next = m
    BY <1>1, <1>3
  <1> HIDE DEF p, n
  <1>5. ASSUME NEW D \in SUBSET DOMAIN M2, Closed(M2, r2, D)
        PROVE  D = DOMAIN M2
    <2>0. /\ D \in SUBSET DOMAIN M /\ m \notin D
          /\ r2 # NULL => r2 \in D
          /\ \A x \in D : M2[x].next # NULL => M2[x].next \in D
      BY <1>1, <1>5 DEF Closed
    <2>1. \A x \in D : x # p => M[x].next = M2[x].next
      BY <1>1, <2>0
    <2>2. CASE r = m \/ p \in D
      <3>1. n # NULL => n \in D
        <4>1. CASE r = m
          BY <1>1, <2>0, <4>1
        <4>2. CASE p \in D
          <5>1. M2[p].next = n
            BY <1>1, <2>0, <4>2
          <5> QED
            BY <2>0, <4>2, <5>1
        <4> QED BY <2>2, <4>1, <4>2
      <3>2. Closed(M, r, D \cup {m})
        <4>1. r # NULL => r \in D \cup {m}
          BY <1>1, <2>0
        <4>2. ASSUME NEW x \in D \cup {m}, M[x].next # NULL
              PROVE  M[x].next \in D \cup {m}
          <5>1. CASE x = m
            BY <3>1, <4>2, <5>1 DEF n
          <5>2. CASE x = p /\ x \in D
            BY <1>2, <1>4, <2>0, <5>2
          <5>3. CASE x # p /\ x \in D
            BY <2>0, <2>1, <4>2, <5>3
          <5> QED BY <5>1, <5>2, <5>3
        <4> QED
          BY <4>1, <4>2 DEF Closed
      <3>3. D \cup {m} = DOMAIN M
        <4>1. D \cup {m} \in SUBSET DOMAIN M
          BY <1>1, <2>0
        <4> QED BY <1>3, <3>2, <4>1
      <3> QED
        BY <1>1, <2>0, <3>3
    <2>3. CASE r # m /\ p \notin D
      <3>1. Closed(M, r, D)
        BY <1>1, <2>0, <2>1, <2>3 DEF Closed
      <3>2. D = DOMAIN M
        BY <1>3, <2>0, <3>1
      <3> QED
        BY <1>1, <2>0, <3>2
    <2> QED BY <2>2, <2>3
  <1>6. n # m /\ p # m
    <2>1. n # m
      BY <1>1, <1>2, <1>3, <1>4, <1>5 DEF Closed
    <2> QED
      BY <1>1, <1>2, <1>4, <2>1 DEF n
  <1>7. r2 \in DOMAIN M2 \cup {NULL}
    BY <1>1, <1>3, <1>4, <1>6
  <1>8. ASSUME NEW x \in DOMAIN M2
        PROVE  /\ M2[x].next \in DOMAIN M2 \cup {NULL}
               /\ M2[x].prev \in DOMAIN M2 \cup {NULL}
               /\ M2[x].prev = NULL <=> x = r2
               /\ M2[x].next # NULL => M2[M2[x].next].prev = x
               /\ M2[x].prev # NULL => M2[M2[x].prev].next = x
    <2>0. x \in DOMAIN M /\ x # m /\ x # NULL
      BY <1>1, <1>2
    <2>1. /\ M[x].next \in DOMAIN M \cup {NULL}
          /\ M[x].prev \in DOMAIN M \cup {NULL}
          /\ M[x].prev = NULL <=> x = r
          /\ M[x].next # NULL => M[M[x].next].prev = x
          /\ M[x].prev # NULL => M[M[x].prev].next = x
      BY <1>3, <2>0
    <2>2. M[x].next = m => x = p
      BY <1>1, <1>2, <2>1 DEF p
    <2>3. M[x].prev = m => x = n
      BY <1>1, <1>2, <2>1 DEF n
    <2>4. M2[x].next \in DOMAIN M2 \cup {NULL}
      BY <1>1, <1>4, <1>6, <2>0, <2>1, <2>2
    <2>5. M2[x].prev \in DOMAIN M2 \cup {NULL}
      BY <1>1, <1>4, <1>6, <2>0, <2>1, <2>3
    <2>6. M2[x].prev = NULL <=> x = r2
      BY <1>1, <1>2, <1>4, <1>6, <2>0, <2>1
    <2>7. M2[x].next # NULL => M2[M2[x].next].prev = x
      <3>1. CASE x = p
        BY <1>1, <1>4, <1>6, <2>0, <3>1
      <3>2. CASE x # p
        <4>1. M2[x].next = M[x].next
          BY <1>1, <2>0, <3>2
        <4> QED
          BY <1>1, <1>4, <1>6, <2>0, <2>1, <2>2, <3>2, <4>1
      <3> QED BY <3>1, <3>2
    <2>8. M2[x].prev # NULL => M2[M2[x].prev].next = x
      <3>1. CASE x = n
        BY <1>1, <1>4, <1>6, <2>0, <3>1
      <3>2. CASE x # n
        <4>1. M2[x].prev = M[x].prev
          BY <1>1, <2>0, <3>2
        <4> QED
          BY <1>1, <1>4, <1>6, <2>0, <2>1, <2>3, <3>2, <4>1
      <3> QED BY <3>1, <3>2
    <2> QED
      BY <2>4, <2>5, <2>6, <2>7, <2>8
  <1> QED
    BY <1>5, <1>7, <1>8 DEF Chain

(* Giving back a region without blocks keeps the heap. *)
LEMMA DropKeeps ==
  ASSUME NEW M, NEW N, NEW r, Heap(M, N, r), NEW m, NEW M2, NEW r2,
         Drop(M, N, r, m, M2, r2)
  PROVE  Heap(M2, N, r2)
  <1>0. /\ Regions(M) /\ Chain(M, r) /\ Placed(M, N) /\ Firsts(M, N) /\ Ordered(M, N)
        /\ Used(M, N)
    BY DEF Heap
  <1>1. /\ DOMAIN M2 = DOMAIN M \ {m} /\ M2 \in [DOMAIN M2 -> MajorType]
        /\ \A x \in DOMAIN M \ {m} :
             /\ M2[x].pages = M[x].pages /\ M2[x].size = M[x].size
             /\ M2[x].first = M[x].first /\ M2[x].usage = M[x].usage
        /\ \A a \in DOMAIN N : N[a].block # m
    BY DEF Drop, In
  <1>2. IsFiniteSet(DOMAIN M2)
    BY <1>0, <1>1, FS_Subset DEF Regions
  <1>3. Regions(M2)
    BY <1>0, <1>1, <1>2 DEF Regions
  <1>4. Chain(M2, r2)
    BY <1>0, DropChain
  <1>5. \A a \in DOMAIN N : N[a].block \in DOMAIN M2
    BY <1>0, <1>1 DEF Placed
  <1>6. Placed(M2, N)
    BY <1>0, <1>1, <1>5 DEF Placed
  <1>7. Firsts(M2, N)
    BY <1>0, <1>1 DEF Firsts
  <1>8. Ordered(M2, N)
    BY <1>0, <1>1, <1>5 DEF Ordered
  <1>9. Used(M2, N)
    BY <1>0, <1>1 DEF Used
  <1> QED
    BY <1>3, <1>4, <1>6, <1>7, <1>8, <1>9 DEF Heap

-----------------------------------------------------------------------------
(***************************************************************************)
(* The code's steps are these changes.                                     *)
(***************************************************************************)
LEMMA Extended ==
  ASSUME NEW f, NEW x, NEW v
  PROVE  /\ DOMAIN With(f, x, v) = DOMAIN f \cup {x}
         /\ With(f, x, v) = [y \in DOMAIN f \cup {x} |-> With(f, x, v)[y]]
         /\ With(f, x, v)[x] = v
         /\ \A y \in DOMAIN f \ {x} : With(f, x, v)[y] = f[y]
  BY DEF With

(* Comparison of values that are no residue of a negative one. *)
LEMMA ULessNat ==
  ASSUME NEW x \in Nat, NEW y \in Nat
  PROVE  ULess(x, y) <=> x < y
  BY DEF ULess

LEMMA FreeInRange ==
  ASSUME NEW r, Heap(majors, minors, r), NEW m \in DOMAIN majors
  PROVE  FreeIn(m) = majors[m].size - majors[m].usage /\ FreeIn(m) \in Nat
  <1>1. /\ majors[m].usage \in Nat /\ majors[m].usage <= majors[m].size
        /\ majors[m].size \in Nat /\ majors[m].size < UINT /\ UINT \in Nat
    BY UsageBound, LayoutAssumption DEF Heap, Regions, MajorType
  <1>2. majors[m].size - majors[m].usage \in Nat /\ majors[m].size - majors[m].usage < UINT
    BY <1>1
  <1> QED
    BY <1>1, <1>2, InRange DEF FreeIn

LEMMA AskedWhere ==
  ASSUME Asked(call)
  PROVE  /\ call.size \in Nat /\ call.req \in Nat /\ call.want = call.req
         /\ Need \in Nat /\ Need = call.size + SIZEOF_MINOR
         /\ MinSize <= call.size /\ call.size = Padded(call.req)
         /\ call.size % UINT = call.size /\ call.req % UINT = call.req
         /\ call.size + SIZEOF_MAJOR + SIZEOF_MINOR + l_pageSize <= UINT
  <1>1. /\ ALIGNMENT \in Nat /\ ALIGN_INFO \in Nat /\ SIZEOF_MINOR \in Nat /\ UINT \in Nat
        /\ SIZEOF_MAJOR \in Nat /\ l_pageSize \in Nat /\ l_pageSize > 0
    BY LayoutAssumption
  <1>2. /\ call.req \in Nat /\ call.want = call.req /\ call.size = Padded(call.req)
        /\ call.size + SIZEOF_MAJOR + SIZEOF_MINOR + l_pageSize <= UINT
    BY DEF Asked
  <1>3. call.size = call.req + ALIGNMENT + ALIGN_INFO
    BY <1>2 DEF Padded
  <1>4. call.size \in Nat /\ call.size < UINT /\ call.req < UINT
    BY <1>1, <1>2, <1>3
  <1>5. Need = call.size + SIZEOF_MINOR /\ Need \in Nat /\ MinSize <= call.size
    BY <1>1, <1>2, <1>3, <1>4 DEF Need, MinSize
  <1>6. call.size % UINT = call.size /\ call.req % UINT = call.req
    BY <1>1, <1>2, <1>4, InRange
  <1> QED
    BY <1>2, <1>4, <1>5, <1>6

LEMMA LinkInserts ==
  ASSUME NEW others, NEW r, Heap(others, minors, r), Asked(call),
         NEW m, NEW a, NEW prev, NEW next, Gap(others, minors, m, a, prev, next, call.size),
         Link(others, m, a, prev, next)
  PROVE  /\ Insert(others, minors, m, a, prev, next, call.size, majors', minors')
         /\ minors'[a].req_size = call.req
  <1> DEFINE sz == call.size
             new == [prev |-> prev, next |-> next, block |-> m,
                     size |-> sz, req_size |-> call.req]
             L == Linked(a, prev, next)
  <1>0. /\ sz \in Nat /\ call.req \in Nat /\ sz % UINT = sz /\ call.req % UINT = call.req
        /\ Need = SIZEOF_MINOR + sz /\ SIZEOF_MINOR \in Nat /\ SIZEOF_MAJOR \in Nat
        /\ UINT \in Nat
    BY AskedWhere, LayoutAssumption
  <1>1. /\ a \in Nat /\ a # NULL /\ a \notin DOMAIN minors
        /\ m \in DOMAIN others /\ m \in Nat /\ others[m].size \in Nat
        /\ m + SIZEOF_MAJOR <= a /\ a + SIZEOF_MINOR + sz <= m + others[m].size
        /\ \A b \in DOMAIN minors : End(minors, b) <= a \/ a + SIZEOF_MINOR + sz <= b
        /\ prev # NULL => prev \in In(minors, m)
        /\ next # NULL => next \in In(minors, m)
    BY GapClear
  <1>2. /\ minors \in [DOMAIN minors -> MinorType] /\ DOMAIN minors \subseteq Nat
        /\ others \in [DOMAIN others -> MajorType] /\ others[m].size < UINT
    BY <1>1 DEF Heap, Placed, Regions
  <1>3. prev \in Int /\ next \in Int
    BY <1>1, <1>2 DEF In
  <1>4. /\ others[m].usage \in Nat
        /\ (others[m].usage + Need) % UINT = others[m].usage + SIZEOF_MINOR + sz
    <2>1. others[m].usage + (SIZEOF_MINOR + sz) <= others[m].size
      <3>1. \A b \in In(minors, m) : a + (SIZEOF_MINOR + sz) <= b \/ End(minors, b) <= a
        BY <1>0, <1>1, <1>2 DEF In
      <3>2. /\ SIZEOF_MINOR + sz \in Nat /\ a \in Int
            /\ a + (SIZEOF_MINOR + sz) <= m + others[m].size
        BY <1>0, <1>1
      <3> QED
        BY <1>1, <3>1, <3>2, GapBound
    <2>2. others[m].usage \in Nat
      BY <1>1, UsageBound
    <2>3. others[m].usage + Need \in Nat /\ others[m].usage + Need < UINT
      BY <1>0, <1>1, <1>2, <2>1, <2>2
    <2> QED
      BY <1>0, <2>2, <2>3, InRange
  <1>5. /\ minors' = With(L, a, new)
        /\ majors' = [others EXCEPT ![m].first = IF prev = NULL THEN a ELSE @,
                                    ![m].usage = (@ + Need) % UINT]
    BY <1>0 DEF Link
  <1>6. new \in MinorType
    BY <1>0, <1>1, <1>3 DEF MinorType
  <1>7. /\ DOMAIN L = DOMAIN minors
        /\ \A x \in DOMAIN minors :
             /\ L[x] \in MinorType
             /\ L[x].block = minors[x].block /\ L[x].size = minors[x].size
             /\ L[x].req_size = minors[x].req_size
             /\ x = prev => L[x].next = a
             /\ x # prev => L[x].next = minors[x].next
             /\ x = next => L[x].prev = a
             /\ x # next => L[x].prev = minors[x].prev
    <2>1. L = [x \in DOMAIN minors |->
                 [minors[x] EXCEPT !.next = IF x = prev THEN a ELSE @,
                                   !.prev = IF x = next THEN a ELSE @]]
      BY DEF L, Linked
    <2> HIDE DEF L
    <2>2. DOMAIN L = DOMAIN minors
      BY <2>1
    <2> SUFFICES ASSUME NEW x \in DOMAIN minors
                 PROVE  /\ L[x] \in MinorType
                        /\ L[x].block = minors[x].block /\ L[x].size = minors[x].size
                        /\ L[x].req_size = minors[x].req_size
                        /\ x = prev => L[x].next = a
                        /\ x # prev => L[x].next = minors[x].next
                        /\ x = next => L[x].prev = a
                        /\ x # next => L[x].prev = minors[x].prev
      BY <2>2
    <2>3. minors[x] \in MinorType
      BY <1>2
    <2> DEFINE n == IF x = prev THEN a ELSE minors[x].next
               p == IF x = next THEN a ELSE minors[x].prev
    <2>4. L[x] = [minors[x] EXCEPT !.next = n, !.prev = p]
      BY <2>1, <2>3 DEF MinorType
    <2>5. /\ n \in Int /\ p \in Int
          /\ x = prev => n = a
          /\ x # prev => n = minors[x].next
          /\ x = next => p = a
          /\ x # next => p = minors[x].prev
      BY <1>1, <2>3 DEF MinorType
    <2> HIDE DEF n, p
    <2> QED
      BY <2>3, <2>4, <2>5 DEF MinorType
  <1>12. new.prev = prev /\ new.next = next /\ new.block = m /\ new.size = sz
         /\ new.req_size = call.req
    OBVIOUS
  <1> HIDE DEF L, new
  <1>8. /\ DOMAIN minors' = DOMAIN minors \cup {a} /\ minors'[a] = new
        /\ \A x \in DOMAIN minors : minors'[x] = L[x]
    BY <1>1, <1>5, <1>7 DEF With
  <1>9. minors' \in [DOMAIN minors' -> MinorType]
    <2>1. \A x \in DOMAIN minors' : minors'[x] \in MinorType
      BY <1>6, <1>7, <1>8
    <2>2. minors' = [x \in DOMAIN minors' |-> minors'[x]]
      BY <1>5 DEF With
    <2> QED BY <2>1, <2>2
  <1>10. /\ DOMAIN majors' = DOMAIN others /\ majors' \in [DOMAIN majors' -> MajorType]
         /\ \A x \in DOMAIN others :
              /\ majors'[x].prev = others[x].prev /\ majors'[x].next = others[x].next
              /\ majors'[x].pages = others[x].pages /\ majors'[x].size = others[x].size
              /\ x = m /\ prev = NULL => majors'[x].first = a
              /\ ~ (x = m /\ prev = NULL) => majors'[x].first = others[x].first
              /\ x = m => majors'[x].usage = others[x].usage + SIZEOF_MINOR + sz
              /\ x # m => majors'[x].usage = others[x].usage
    <2> DEFINE f == IF prev = NULL THEN a ELSE others[m].first
               u == others[m].usage + SIZEOF_MINOR + sz
               j == [others[m] EXCEPT !.first = f, !.usage = u]
    <2>1. others[m] \in MajorType
      BY <1>1, <1>2
    <2>2. /\ j \in MajorType /\ j.prev = others[m].prev /\ j.next = others[m].next
          /\ j.pages = others[m].pages /\ j.size = others[m].size
          /\ j.first = f /\ j.usage = u
      <3>1. f \in Int /\ u \in Int
        BY <1>0, <1>1, <1>4, <2>1 DEF MajorType
      <3> HIDE DEF f, u
      <3> QED
        BY <2>1, <3>1 DEF MajorType
    <2>3. majors' = [others EXCEPT ![m] = j]
      BY <1>1, <1>2, <1>4, <1>5, <2>1 DEF MajorType
    <2> HIDE DEF j
    <2> QED
      BY <1>1, <1>2, <2>2, <2>3
  <1>11. minors'[a].req_size = call.req
    BY <1>8, <1>12
  <1> QED
    BY <1>7, <1>8, <1>9, <1>10, <1>11, <1>12 DEF Insert

LEMMA HookApart ==
  ASSUME Regions(majors), NEW size \in Nat,
         size + SIZEOF_MAJOR + SIZEOF_MINOR + l_pageSize <= UINT,
         NEW base \in liballoc_alloc(NewPages(size)) \ {NULL}
  PROVE  /\ base \in Nat \ {NULL} /\ base \notin DOMAIN majors /\ NewPages(size) \in Nat
         /\ SIZEOF_MAJOR <= NewPages(size) * l_pageSize
         /\ NewPages(size) * l_pageSize < UINT
         /\ \A m \in DOMAIN majors :
              base + NewPages(size) * l_pageSize <= m \/ m + majors[m].size <= base
  <1> DEFINE bytes == NewPages(size) * l_pageSize
  <1>1. /\ NewPages(size) \in Nat /\ bytes \in Nat /\ bytes < UINT
        /\ size + SIZEOF_MAJOR + SIZEOF_MINOR <= bytes
        /\ SIZEOF_MAJOR \in Nat /\ SIZEOF_MAJOR > 0 /\ SIZEOF_MINOR \in Nat
    BY NewPagesEnough, LayoutAssumption
  <1>2. /\ base \in Nat \ {NULL}
        /\ \A m \in DOMAIN majors : \/ base + bytes <= m
                                    \/ m + majors[m].pages * l_pageSize <= base
    BY LayoutAssumption DEF liballoc_alloc
  <1>3. \A m \in DOMAIN majors : /\ majors[m].size = majors[m].pages * l_pageSize
                                 /\ majors[m].size \in Nat /\ m \in Nat
                                 /\ SIZEOF_MAJOR <= majors[m].size
    BY DEF Regions, MajorType
  <1> HIDE DEF bytes
  <1>4. \A m \in DOMAIN majors : base + bytes <= m \/ m + majors[m].size <= base
    BY <1>2, <1>3
  <1>5. base \notin DOMAIN majors /\ SIZEOF_MAJOR <= bytes
    BY <1>1, <1>2, <1>3, <1>4
  <1> QED
    BY <1>1, <1>2, <1>4, <1>5 DEF bytes

LEMMA NewMajorIs ==
  ASSUME NEW size \in Nat, size + SIZEOF_MAJOR + SIZEOF_MINOR + l_pageSize <= UINT
  PROVE  /\ NewMajor(size) = [prev |-> NULL, next |-> NULL, pages |-> NewPages(size),
                              size |-> NewPages(size) * l_pageSize,
                              usage |-> SIZEOF_MAJOR, first |-> NULL]
         /\ NewPages(size) \in Nat /\ NewPages(size) * l_pageSize \in Nat
         /\ SIZEOF_MAJOR \in Nat
  <1>1. /\ NewPages(size) \in Nat /\ NewMajor(size).size = NewPages(size) * l_pageSize
        /\ NewPages(size) * l_pageSize \in Nat /\ SIZEOF_MAJOR \in Nat
    BY NewPagesEnough, LayoutAssumption
  <1> QED
    BY <1>1 DEF NewMajor

(* kmalloc's first region. *)
LEMMA RootAppends ==
  ASSUME Heap(majors, minors, NULL), NEW size \in Nat,
         size + SIZEOF_MAJOR + SIZEOF_MINOR + l_pageSize <= UINT,
         NEW base \in liballoc_alloc(NewPages(size)) \ {NULL}
  PROVE  Append(majors, NULL, NULL, base, NewPages(size),
                With(majors, base, NewMajor(size)), base)
  <1> DEFINE M2 == With(majors, base, NewMajor(size))
             j == [NewMajor(size) EXCEPT !.prev = NULL]
  <1>0. Regions(majors) /\ Chain(majors, NULL)
    BY DEF Heap
  <1>1. DOMAIN majors = {}
    BY <1>0, NoRootNoMajors
  <1>2. j = NewMajor(size)
    BY DEF NewMajor
  <1>3. /\ j \in MajorType /\ j.prev = NULL /\ j.next = NULL /\ j.pages = NewPages(size)
        /\ j.size = NewPages(size) * l_pageSize /\ j.usage = SIZEOF_MAJOR /\ j.first = NULL
    BY NewMajorIs DEF MajorType
  <1> HIDE DEF j
  <1>4. DOMAIN M2 = {base} /\ M2[base] = j /\ M2 \in [DOMAIN M2 -> MajorType]
    BY <1>1, <1>2, <1>3 DEF With
  <1>5. DOMAIN M2 = DOMAIN majors \cup {base}
    BY <1>1, <1>4
  <1>6. /\ base \in Nat \ {NULL} /\ base \notin DOMAIN majors /\ NewPages(size) \in Nat
        /\ SIZEOF_MAJOR <= NewPages(size) * l_pageSize
        /\ NewPages(size) * l_pageSize < UINT
    BY <1>0, HookApart
  <1> HIDE DEF M2
  <1>7. Append(majors, NULL, NULL, base, NewPages(size), M2, base)
    BY <1>1, <1>3, <1>4, <1>5, <1>6 DEF Append
  <1> QED
    BY <1>7 DEF M2

(* allocate_new_page at the end of the list. *)
LEMMA GrownAppends ==
  ASSUME NEW r, Heap(majors, minors, r), Asked(call), call.maj \in DOMAIN majors,
         majors[call.maj].next = NULL,
         NEW base \in liballoc_alloc(NewPages(call.size)) \ {NULL}
  PROVE  Append(majors, r, call.maj, base, NewPages(call.size), Grown(base), r)
  <1> DEFINE M2 == Grown(base)
             j == [NewMajor(call.size) EXCEPT !.prev = call.maj]
             K == [majors EXCEPT ![call.maj].next = base]
  <1>0. /\ Regions(majors) /\ Chain(majors, r) /\ call.size \in Nat
        /\ call.size + SIZEOF_MAJOR + SIZEOF_MINOR + l_pageSize <= UINT
        /\ majors \in [DOMAIN majors -> MajorType] /\ call.maj \in Int
    BY AskedWhere DEF Heap, Regions
  <1>1. r # NULL
    BY <1>0, NoRootNoMajors
  <1>2. /\ base \in Nat \ {NULL} /\ base \notin DOMAIN majors /\ NewPages(call.size) \in Nat
        /\ SIZEOF_MAJOR <= NewPages(call.size) * l_pageSize
        /\ NewPages(call.size) * l_pageSize < UINT
        /\ \A m \in DOMAIN majors :
             base + NewPages(call.size) * l_pageSize <= m \/ m + majors[m].size <= base
    BY <1>0, HookApart
  <1>3. /\ j \in MajorType /\ j.prev = call.maj /\ j.next = NULL
        /\ j.pages = NewPages(call.size) /\ j.size = NewPages(call.size) * l_pageSize
        /\ j.usage = SIZEOF_MAJOR /\ j.first = NULL
    BY <1>0, NewMajorIs DEF MajorType
  <1>4. /\ DOMAIN K = DOMAIN majors /\ K \in [DOMAIN majors -> MajorType]
        /\ \A x \in DOMAIN majors :
             /\ x = call.maj => K[x].next = base
             /\ x # call.maj => K[x].next = majors[x].next
             /\ K[x].prev = majors[x].prev /\ K[x].pages = majors[x].pages
             /\ K[x].size = majors[x].size
             /\ K[x].first = majors[x].first /\ K[x].usage = majors[x].usage
    BY <1>0, <1>2 DEF MajorType
  <1>5. M2 = With(K, base, j)
    BY DEF Grown
  <1> HIDE DEF j, K, M2
  <1>6. /\ DOMAIN M2 = DOMAIN majors \cup {base} /\ M2[base] = j
        /\ \A x \in DOMAIN majors : M2[x] = K[x]
        /\ M2 \in [DOMAIN M2 -> MajorType]
    BY <1>2, <1>3, <1>4, <1>5 DEF With
  <1>7. Append(majors, r, call.maj, base, NewPages(call.size), M2, r)
    BY <1>1, <1>2, <1>3, <1>4, <1>6 DEF Append
  <1> QED
    BY <1>7 DEF M2

(* The majors when the block with header a is unlinked, before the major   *)
(* it was in is given back.                                                *)
FirstWithout(a) ==
  IF minors[a].prev = NULL THEN minors[a].next ELSE majors[minors[a].block].first

Trimmed(a) ==
  LET m == minors[a].block
  IN  [majors EXCEPT ![m] =
         [majors[m] EXCEPT !.first = FirstWithout(a),
                           !.usage = majors[m].usage - (SIZEOF_MINOR + minors[a].size)]]

LEMMA TrimmedIs ==
  ASSUME NEW r, Heap(majors, minors, r), NEW a \in DOMAIN minors, NEW m,
         m = minors[a].block
  PROVE  /\ m \in DOMAIN majors
         /\ DOMAIN Trimmed(a) = DOMAIN majors
         /\ Trimmed(a) \in [DOMAIN majors -> MajorType]
         /\ \A x \in DOMAIN majors : x # m => Trimmed(a)[x] = majors[x]
         /\ Trimmed(a)[m].prev = majors[m].prev /\ Trimmed(a)[m].next = majors[m].next
         /\ Trimmed(a)[m].pages = majors[m].pages /\ Trimmed(a)[m].size = majors[m].size
         /\ Trimmed(a)[m].first = FirstWithout(a)
         /\ Trimmed(a)[m].usage = majors[m].usage - (SIZEOF_MINOR + minors[a].size)
         /\ FirstWithout(a) \in Int
         /\ majors[m] \in MajorType /\ minors[a] \in MinorType
  <1> DEFINE f == FirstWithout(a)
             u == majors[m].usage - (SIZEOF_MINOR + minors[a].size)
             j == [majors[m] EXCEPT !.first = f, !.usage = u]
  <1>1. /\ majors \in [DOMAIN majors -> MajorType] /\ m \in DOMAIN majors
        /\ majors[m] \in MajorType /\ minors[a] \in MinorType
    BY DEF Heap, Regions, Placed
  <1>2. f \in Int /\ u \in Int
    BY <1>1, LayoutAssumption DEF MajorType, MinorType, FirstWithout
  <1>3. Trimmed(a) = [majors EXCEPT ![m] = j]
    BY DEF Trimmed
  <1> HIDE DEF f, u
  <1>4. /\ j \in MajorType /\ j.prev = majors[m].prev /\ j.next = majors[m].next
        /\ j.pages = majors[m].pages /\ j.size = majors[m].size
        /\ j.first = f /\ j.usage = u
    BY <1>1, <1>2 DEF MajorType
  <1> HIDE DEF j
  <1>5. /\ DOMAIN Trimmed(a) = DOMAIN majors /\ Trimmed(a)[m] = j
        /\ Trimmed(a) \in [DOMAIN majors -> MajorType]
        /\ \A x \in DOMAIN majors : x # m => Trimmed(a)[x] = majors[x]
    BY <1>1, <1>3, <1>4
  <1> QED
    BY <1>1, <1>2, <1>4, <1>5 DEF f, u

LEMMA ReleaseDeletes ==
  ASSUME NEW r, Heap(majors, minors, r), NEW ptr, NEW a \in DOMAIN minors,
         a = HeaderOf(ptr), Release(ptr)
  PROVE  Delete(majors, minors, a, Trimmed(a), minors')
  <1> DEFINE m == minors[a].block
             M1 == Trimmed(a)
             p == minors[a].prev
             n == minors[a].next
  <1>1. /\ m \in DOMAIN majors /\ DOMAIN M1 = DOMAIN majors
        /\ M1 \in [DOMAIN majors -> MajorType]
        /\ \A x \in DOMAIN majors : x # m => M1[x] = majors[x]
        /\ M1[m].prev = majors[m].prev /\ M1[m].next = majors[m].next
        /\ M1[m].pages = majors[m].pages /\ M1[m].size = majors[m].size
        /\ M1[m].first = FirstWithout(a)
        /\ M1[m].usage = majors[m].usage - (SIZEOF_MINOR + minors[a].size)
    BY TrimmedIs
  <1>2. minors' = [x \in DOMAIN minors \ {a} |->
                     [minors[x] EXCEPT !.prev = IF x = n THEN p ELSE @,
                                       !.next = IF x = p THEN n ELSE @]]
    BY DEF Release
  <1>3. p = NULL => FirstWithout(a) = n
    BY DEF FirstWithout
  <1>4. p # NULL => FirstWithout(a) = majors[m].first
    BY DEF FirstWithout
  <1>5. minors \in [DOMAIN minors -> MinorType] /\ p \in Int /\ n \in Int
    BY DEF Heap, Placed, MinorType
  <1> HIDE DEF p, n, M1, m
  <1>6. ASSUME NEW x \in DOMAIN minors \ {a}
        PROVE  /\ minors'[x] \in MinorType
               /\ minors'[x].block = minors[x].block /\ minors'[x].size = minors[x].size
               /\ minors'[x].req_size = minors[x].req_size
               /\ x = p => minors'[x].next = n
               /\ x # p => minors'[x].next = minors[x].next
               /\ x = n => minors'[x].prev = p
               /\ x # n => minors'[x].prev = minors[x].prev
    <2> DEFINE n2 == IF x = p THEN n ELSE minors[x].next
               p2 == IF x = n THEN p ELSE minors[x].prev
    <2>1. minors[x] \in MinorType
      BY <1>5
    <2>2. minors'[x] = [minors[x] EXCEPT !.prev = p2, !.next = n2]
      BY <1>2, <2>1 DEF MinorType
    <2>3. /\ n2 \in Int /\ p2 \in Int
          /\ x = p => n2 = n
          /\ x # p => n2 = minors[x].next
          /\ x = n => p2 = p
          /\ x # n => p2 = minors[x].prev
      BY <1>5, <2>1 DEF MinorType
    <2> HIDE DEF n2, p2
    <2> QED
      BY <2>1, <2>2, <2>3 DEF MinorType
  <1>7. DOMAIN minors' = DOMAIN minors \ {a} /\ minors' \in [DOMAIN minors' -> MinorType]
    <2>1. DOMAIN minors' = DOMAIN minors \ {a}
      BY <1>2
    <2>2. minors' = [x \in DOMAIN minors' |-> minors'[x]]
      BY <1>2
    <2> QED BY <1>6, <2>1, <2>2
  <1>8. \A x \in DOMAIN majors :
          /\ M1[x].prev = majors[x].prev /\ M1[x].next = majors[x].next
          /\ M1[x].pages = majors[x].pages /\ M1[x].size = majors[x].size
          /\ x = m /\ p = NULL => M1[x].first = n
          /\ ~ (x = m /\ p = NULL) => M1[x].first = majors[x].first
          /\ x = m => M1[x].usage = majors[x].usage - (SIZEOF_MINOR + minors[a].size)
          /\ x # m => M1[x].usage = majors[x].usage
    BY <1>1, <1>3, <1>4
  <1> QED
    BY <1>1, <1>6, <1>7, <1>8 DEF Delete, m, M1, p, n

(* What kfree then does with the major. *)
LEMMA ReleaseDrops ==
  ASSUME NEW r, Heap(majors, minors, r), r = l_memRoot, NEW ptr, NEW a \in DOMAIN minors,
         a = HeaderOf(ptr), Release(ptr), NEW m, m = minors[a].block,
         NEW M1, M1 = Trimmed(a)
  PROVE  /\ Heap(M1, minors', r)
         /\ \/ /\ Drop(M1, minors', r, m, majors', l_memRoot')
               /\ l_allocated' = l_allocated - M1[m].size
               /\ l_bestBet' = BetWithout(m)
            \/ /\ majors' = M1 /\ l_memRoot' = r /\ l_allocated' = l_allocated
               /\ M1[m].first # NULL
               /\ l_bestBet' = m \/ l_bestBet' = l_bestBet
  <1>1. Delete(majors, minors, a, M1, minors')
    BY ReleaseDeletes
  <1>2. Heap(M1, minors', r)
    BY <1>1, DeleteKeeps
  <1>3. /\ m \in DOMAIN majors /\ DOMAIN M1 = DOMAIN majors
        /\ M1 \in [DOMAIN majors -> MajorType]
        /\ \A x \in DOMAIN majors : x # m => M1[x] = majors[x]
        /\ M1[m].prev = majors[m].prev /\ M1[m].next = majors[m].next
        /\ M1[m].pages = majors[m].pages /\ M1[m].size = majors[m].size
        /\ M1[m].first = FirstWithout(a)
        /\ M1[m].usage = majors[m].usage - (SIZEOF_MINOR + minors[a].size)
        /\ FirstWithout(a) \in Int /\ majors[m] \in MajorType /\ minors[a] \in MinorType
    BY TrimmedIs
  <1>4. UsageWithout(m, a) = M1[m].usage
    <2>1. M1[m].usage \in Nat /\ M1[m].usage <= M1[m].size
      BY <1>2, <1>3, UsageBound
    <2>2. M1[m].size \in Nat /\ M1[m].size < UINT /\ UINT \in Nat
      BY <1>2, <1>3, LayoutAssumption DEF Heap, Regions, MajorType
    <2>3. majors[m].usage - (minors[a].size + SIZEOF_MINOR) = M1[m].usage
      BY <1>3, LayoutAssumption DEF MajorType, MinorType
    <2> QED
      BY <2>1, <2>2, <2>3, InRange DEF UsageWithout
  <1>5. M1[m] = [majors[m] EXCEPT !.first = FirstWithout(a), !.usage = UsageWithout(m, a)]
    <2> DEFINE u == majors[m].usage - (SIZEOF_MINOR + minors[a].size)
    <2>1. M1 = [majors EXCEPT ![m] = [majors[m] EXCEPT !.first = FirstWithout(a), !.usage = u]]
      BY DEF Trimmed
    <2>2. u = UsageWithout(m, a)
      BY <1>3, <1>4
    <2> HIDE DEF u
    <2>3. M1[m] = [majors[m] EXCEPT !.first = FirstWithout(a), !.usage = u]
      BY <1>3, <2>1
    <2> QED
      BY <2>2, <2>3
  <1>6. \/ /\ M1[m].first = NULL
           /\ l_memRoot' = (IF l_memRoot = m THEN M1[m].next ELSE l_memRoot)
           /\ l_bestBet' = BetWithout(m)
           /\ majors' = [x \in DOMAIN majors \ {m} |->
                [majors[x] EXCEPT !.next = IF x = M1[m].prev THEN M1[m].next ELSE @,
                                  !.prev = IF x = M1[m].next THEN M1[m].prev ELSE @]]
           /\ l_allocated' = l_allocated - M1[m].size
        \/ /\ M1[m].first # NULL
           /\ majors' = [majors EXCEPT ![m] = M1[m]]
           /\ l_bestBet' = m \/ l_bestBet' = l_bestBet
           /\ l_memRoot' = l_memRoot /\ l_allocated' = l_allocated
    <2> DEFINE A == HeaderOf(ptr)
               B == minors[A].block
               f == IF minors[A].prev = NULL THEN minors[A].next ELSE majors[B].first
               j == [majors[B] EXCEPT !.first = f, !.usage = UsageWithout(B, A)]
    <2>1. \/ /\ f = NULL
             /\ l_memRoot' = (IF l_memRoot = B THEN j.next ELSE l_memRoot)
             /\ l_bestBet' = BetWithout(B)
             /\ majors' = [x \in DOMAIN majors \ {B} |->
                  [majors[x] EXCEPT !.next = IF x = j.prev THEN j.next ELSE @,
                                    !.prev = IF x = j.next THEN j.prev ELSE @]]
             /\ l_allocated' = l_allocated - j.size
          \/ /\ f # NULL
             /\ majors' = [majors EXCEPT ![B] = j]
             /\ l_bestBet' = B \/ l_bestBet' = l_bestBet
             /\ l_memRoot' = l_memRoot /\ l_allocated' = l_allocated
      BY DEF Release
    <2>2. A = a /\ B = m /\ f = FirstWithout(a)
      BY DEF FirstWithout
    <2> HIDE DEF A, B, f
    <2>3. j = M1[m]
      BY <1>5, <2>2
    <2> HIDE DEF j
    <2> QED
      BY <1>3, <2>1, <2>2, <2>3
  <1>7. CASE M1[m].first = NULL
    <2> DEFINE p == M1[m].prev
               n == M1[m].next
    <2>1. In(minors', m) = {}
      BY <1>2, <1>3, <1>7 DEF Heap, Firsts
    <2>2. /\ majors \in [DOMAIN majors -> MajorType] /\ p \in Int /\ n \in Int
      BY <1>3 DEF Heap, Regions, MajorType
    <2> HIDE DEF p, n
    <2>3. majors' = [x \in DOMAIN majors \ {m} |->
                [majors[x] EXCEPT !.next = IF x = p THEN n ELSE @,
                                  !.prev = IF x = n THEN p ELSE @]]
      BY <1>6, <1>7 DEF p, n
    <2>4. ASSUME NEW x \in DOMAIN majors \ {m}
          PROVE  /\ majors'[x] \in MajorType
                 /\ x = p => majors'[x].next = n
                 /\ x # p => majors'[x].next = M1[x].next
                 /\ x = n => majors'[x].prev = p
                 /\ x # n => majors'[x].prev = M1[x].prev
                 /\ majors'[x].pages = M1[x].pages /\ majors'[x].size = M1[x].size
                 /\ majors'[x].first = M1[x].first /\ majors'[x].usage = M1[x].usage
      <3> DEFINE n2 == IF x = p THEN n ELSE majors[x].next
                 p2 == IF x = n THEN p ELSE majors[x].prev
      <3>1. majors[x] \in MajorType /\ M1[x] = majors[x]
        BY <1>3, <2>2
      <3>2. majors'[x] = [majors[x] EXCEPT !.next = n2, !.prev = p2]
        BY <2>3, <3>1 DEF MajorType
      <3>3. /\ n2 \in Int /\ p2 \in Int
            /\ x = p => n2 = n
            /\ x # p => n2 = majors[x].next
            /\ x = n => p2 = p
            /\ x # n => p2 = majors[x].prev
        BY <2>2, <3>1 DEF MajorType
      <3> HIDE DEF n2, p2
      <3> QED
        BY <3>1, <3>2, <3>3 DEF MajorType
    <2>5. DOMAIN majors' = DOMAIN M1 \ {m} /\ majors' \in [DOMAIN majors' -> MajorType]
      <3>1. DOMAIN majors' = DOMAIN majors \ {m}
        BY <2>3
      <3>2. majors' = [x \in DOMAIN majors' |-> majors'[x]]
        BY <2>3
      <3> QED BY <1>3, <2>4, <3>1, <3>2
    <2>6. /\ r = m => l_memRoot' = n
          /\ r # m => l_memRoot' = r
      BY <1>6, <1>7 DEF n
    <2>7. Drop(M1, minors', r, m, majors', l_memRoot')
      BY <1>3, <2>1, <2>4, <2>5, <2>6 DEF Drop, p, n
    <2> QED
      BY <1>2, <1>6, <1>7, <2>7
  <1>8. CASE M1[m].first # NULL
    <2>1. majors' = M1
      <3>1. majors' = [majors EXCEPT ![m] = M1[m]]
        BY <1>6, <1>8
      <3>2. majors \in [DOMAIN majors -> MajorType]
        BY DEF Heap, Regions
      <3> QED BY <1>3, <3>1, <3>2
    <2> QED
      BY <1>2, <1>6, <1>8, <2>1
  <1> QED BY <1>7, <1>8

-----------------------------------------------------------------------------
(* The totals of the sizes.                                                *)

LEMMA TotalAdded ==
  ASSUME NEW F, NEW G, NEW x, IsFiniteSet(DOMAIN F), x \notin DOMAIN F,
         DOMAIN G = DOMAIN F \cup {x}, G[x].size \in Int,
         \A y \in DOMAIN F : F[y].size \in Int /\ G[y].size = F[y].size
  PROVE  Total(G) = Total(F) + G[x].size /\ Total(F) \in Int
  <1>1. /\ \A y \in DOMAIN G : Sizes(G)[y] \in Int
        /\ \A y \in DOMAIN F : Sizes(G)[y] = Sizes(F)[y] /\ Sizes(F)[y] \in Int
        /\ Sizes(G)[x] = G[x].size
    BY DEF Sizes
  <1>2. IsFiniteSet(DOMAIN G) /\ x \in DOMAIN G /\ DOMAIN G \ {x} = DOMAIN F
    BY FS_AddElement
  <1>3. Total(G) = Sizes(G)[x] + SumFunctionOnSet(Sizes(G), DOMAIN F)
    BY <1>1, <1>2, SumWithout DEF Total
  <1>4. SumFunctionOnSet(Sizes(G), DOMAIN F) = Total(F)
    BY <1>1, SumAgree DEF Total
  <1>5. Total(F) \in Int
    BY <1>1, SumType DEF Total
  <1> QED
    BY <1>1, <1>3, <1>4, <1>5

LEMMA TotalSame ==
  ASSUME NEW F, NEW G, IsFiniteSet(DOMAIN F), DOMAIN G = DOMAIN F,
         \A y \in DOMAIN F : G[y].size = F[y].size
  PROVE  Total(G) = Total(F)
  <1>1. \A y \in DOMAIN F : Sizes(G)[y] = Sizes(F)[y]
    BY DEF Sizes
  <1> QED
    BY <1>1, SumAgree DEF Total

LEMMA HeapSizes ==
  ASSUME NEW M, NEW N, NEW r, Heap(M, N, r)
  PROVE  /\ IsFiniteSet(DOMAIN M) /\ IsFiniteSet(DOMAIN N)
         /\ \A m \in DOMAIN M : M[m].size \in Int
         /\ \A a \in DOMAIN N : N[a].size \in Int
  BY DEF Heap, Regions, Placed, MajorType, MinorType

LEMMA InsertTotals ==
  ASSUME NEW M, NEW N, NEW r, Heap(M, N, r), NEW m, NEW a, NEW prev, NEW next, NEW sz,
         Gap(M, N, m, a, prev, next, sz),
         NEW M2, NEW N2, Insert(M, N, m, a, prev, next, sz, M2, N2)
  PROVE  Total(N2) = Total(N) + sz /\ Total(M2) = Total(M)
  <1>0. a \notin DOMAIN N
    BY GapClear
  <1>1. a \notin DOMAIN N /\ sz \in Int
    BY <1>0 DEF Gap
  <1>2. /\ DOMAIN N2 = DOMAIN N \cup {a} /\ N2[a].size = sz
        /\ \A y \in DOMAIN N : N2[y].size = N[y].size
        /\ DOMAIN M2 = DOMAIN M /\ \A y \in DOMAIN M : M2[y].size = M[y].size
    BY <1>1 DEF Insert
  <1>3. /\ IsFiniteSet(DOMAIN M) /\ IsFiniteSet(DOMAIN N)
        /\ \A y \in DOMAIN N : N[y].size \in Int
    BY HeapSizes
  <1>4. Total(N2) = Total(N) + sz
    BY <1>1, <1>2, <1>3, TotalAdded
  <1>5. Total(M2) = Total(M)
    BY <1>2, <1>3, TotalSame
  <1> QED BY <1>4, <1>5

LEMMA DeleteTotals ==
  ASSUME NEW M, NEW N, NEW r, Heap(M, N, r), NEW a, NEW M2, NEW N2,
         Delete(M, N, a, M2, N2)
  PROVE  Total(N2) = Total(N) - N[a].size /\ Total(M2) = Total(M)
  <1>1. /\ a \in DOMAIN N /\ a \notin DOMAIN N2 /\ DOMAIN N = DOMAIN N2 \cup {a}
        /\ \A y \in DOMAIN N2 : N2[y].size = N[y].size /\ y \in DOMAIN N
        /\ DOMAIN M2 = DOMAIN M /\ \A y \in DOMAIN M : M2[y].size = M[y].size
    BY DEF Delete
  <1>2. /\ IsFiniteSet(DOMAIN M) /\ IsFiniteSet(DOMAIN N)
        /\ \A y \in DOMAIN N : N[y].size \in Int
    BY HeapSizes
  <1>3. IsFiniteSet(DOMAIN N2) /\ \A y \in DOMAIN N2 : N2[y].size \in Int
    BY <1>1, <1>2, FS_Subset
  <1>4. Total(N) = Total(N2) + N[a].size /\ Total(N2) \in Int
    BY <1>1, <1>2, <1>3, TotalAdded
  <1>5. Total(M2) = Total(M)
    BY <1>1, <1>2, TotalSame
  <1> QED BY <1>1, <1>2, <1>4, <1>5

LEMMA AppendTotals ==
  ASSUME NEW M, NEW N, NEW r, Heap(M, N, r), NEW last, NEW base, NEW pages, NEW M2, NEW r2,
         Append(M, r, last, base, pages, M2, r2)
  PROVE  Total(M2) = Total(M) + M2[base].size
  <1>1. /\ base \notin DOMAIN M /\ DOMAIN M2 = DOMAIN M \cup {base}
        /\ \A y \in DOMAIN M : M2[y].size = M[y].size
        /\ M2 \in [DOMAIN M2 -> MajorType]
    BY DEF Append
  <1>2. M2[base].size \in Int
    BY <1>1 DEF MajorType
  <1>3. IsFiniteSet(DOMAIN M) /\ \A m \in DOMAIN M : M[m].size \in Int
    BY HeapSizes
  <1> QED
    BY <1>1, <1>2, <1>3, TotalAdded

LEMMA DropTotals ==
  ASSUME NEW M, NEW N, NEW r, Heap(M, N, r), NEW m, NEW M2, NEW r2,
         Drop(M, N, r, m, M2, r2)
  PROVE  Total(M2) = Total(M) - M[m].size
  <1>1. /\ m \in DOMAIN M /\ m \notin DOMAIN M2 /\ DOMAIN M = DOMAIN M2 \cup {m}
        /\ \A y \in DOMAIN M2 : M2[y].size = M[y].size /\ y \in DOMAIN M
    BY DEF Drop
  <1>2. IsFiniteSet(DOMAIN M) /\ \A y \in DOMAIN M : M[y].size \in Int
    BY HeapSizes
  <1>3. IsFiniteSet(DOMAIN M2) /\ \A y \in DOMAIN M2 : M2[y].size \in Int
    BY <1>1, <1>2, FS_Subset
  <1>4. Total(M) = Total(M2) + M[m].size /\ Total(M2) \in Int
    BY <1>1, <1>2, <1>3, TotalAdded
  <1> QED BY <1>1, <1>2, <1>4

-----------------------------------------------------------------------------
(* Pointers that clients hold.                                             *)

(* The header h that UNALIGN finds, and the room behind the pointer. *)
LEMMA OwnedWhere ==
  ASSUME NEW M, NEW N, Placed(M, N), NEW P, DOMAIN P \subseteq Nat, P \in [DOMAIN P -> Nat],
         NEW p, NEW n, Owned(P, N, p, n)
  PROVE  LET h == p - P[p] - SIZEOF_MINOR
         IN  /\ P[p] < ALIGNMENT + ALIGN_INFO /\ h \in DOMAIN N /\ h \in Nat /\ p \in Nat
             /\ p \in DOMAIN P /\ n \in Nat
             /\ p = AlignedUp(h + SIZEOF_MINOR)
             /\ p % ALIGNMENT = 0
             /\ h + SIZEOF_MINOR + ALIGN_INFO <= p
             /\ p + n <= End(N, h) /\ p < End(N, h)
             /\ End(N, h) \in Nat /\ N[h].req_size = n
             /\ N[h].size >= Padded(n)
  <1> DEFINE h == p - P[p] - SIZEOF_MINOR
             q == p - P[p]
  <1>1. /\ p \in DOMAIN P /\ p = AlignedUp(q) /\ h \in DOMAIN N
        /\ N[h].req_size = n /\ N[h].size >= Padded(n)
    BY DEF Owned
  <1>2. /\ p \in Nat /\ P[p] \in Nat /\ SIZEOF_MINOR \in Nat
        /\ ALIGNMENT \in Nat /\ ALIGN_INFO \in Nat /\ ALIGN_INFO > 0
    BY <1>1, LayoutAssumption
  <1>3. /\ h \in Nat /\ n \in Nat /\ N[h].size \in Nat
        /\ End(N, h) = h + SIZEOF_MINOR + N[h].size
    BY <1>1, EndType DEF Placed, MinorType
  <1>4. q \in Nat /\ q = h + SIZEOF_MINOR /\ P[p] = p - q
    BY <1>2, <1>3
  <1>5. /\ p % ALIGNMENT = 0 /\ q + ALIGN_INFO <= p
        /\ p < q + ALIGN_INFO + ALIGNMENT
    <2> HIDE DEF q
    <2> QED
      BY <1>1, <1>4, AlignedUpWhere
  <1>6. P[p] < ALIGNMENT + ALIGN_INFO
    BY <1>2, <1>4, <1>5
  <1>7. p + n <= End(N, h) /\ p < End(N, h) /\ End(N, h) \in Nat
    BY <1>1, <1>2, <1>3, <1>4, <1>5 DEF Padded
  <1>8. p = AlignedUp(h + SIZEOF_MINOR) /\ h + SIZEOF_MINOR + ALIGN_INFO <= p
    BY <1>1, <1>4, <1>5
  <1> HIDE DEF h, q
  <1>9. /\ P[p] < ALIGNMENT + ALIGN_INFO /\ h \in DOMAIN N /\ h \in Nat /\ p \in Nat
        /\ p \in DOMAIN P /\ n \in Nat
        /\ p = AlignedUp(h + SIZEOF_MINOR)
        /\ p % ALIGNMENT = 0
        /\ h + SIZEOF_MINOR + ALIGN_INFO <= p
        /\ p + n <= End(N, h) /\ p < End(N, h)
        /\ End(N, h) \in Nat /\ N[h].req_size = n
        /\ N[h].size >= Padded(n)
    BY <1>1, <1>2, <1>3, <1>5, <1>6, <1>7, <1>8
  <1> QED
    BY <1>9 DEF h

LEMMA HeaderFound ==
  ASSUME NEW M, Placed(M, minors), DOMAIN pad \subseteq Nat, pad \in [DOMAIN pad -> Nat],
         NEW p, NEW n, Owned(pad, minors, p, n)
  PROVE  HeaderOf(p) = p - pad[p] - SIZEOF_MINOR
  <1>1. pad[p] < ALIGNMENT + ALIGN_INFO
    BY OwnedWhere
  <1> QED
    BY <1>1 DEF HeaderOf, UNALIGN

(* Two pointers have blocks of their own. *)
LEMMA OwnedApart ==
  ASSUME NEW M, NEW N, Placed(M, N), NEW P, DOMAIN P \subseteq Nat, P \in [DOMAIN P -> Nat],
         NEW p, NEW n, Owned(P, N, p, n), NEW q, NEW k, Owned(P, N, q, k), p # q
  PROVE  /\ p - P[p] - SIZEOF_MINOR # q - P[q] - SIZEOF_MINOR
         /\ p + n <= q \/ q + k <= p
  <1> DEFINE h == p - P[p] - SIZEOF_MINOR
             g == q - P[q] - SIZEOF_MINOR
  <1>1. /\ h \in DOMAIN N /\ h \in Nat /\ p \in Nat /\ n \in Nat
        /\ p = AlignedUp(h + SIZEOF_MINOR) /\ h + SIZEOF_MINOR + ALIGN_INFO <= p
        /\ p + n <= End(N, h) /\ End(N, h) \in Nat
    BY OwnedWhere
  <1>2. /\ g \in DOMAIN N /\ g \in Nat /\ q \in Nat /\ k \in Nat
        /\ q = AlignedUp(g + SIZEOF_MINOR) /\ g + SIZEOF_MINOR + ALIGN_INFO <= q
        /\ q + k <= End(N, g) /\ End(N, g) \in Nat
    BY OwnedWhere
  <1> HIDE DEF h, g
  <1>3. h # g
    BY <1>1, <1>2
  <1>4. End(N, h) <= g \/ End(N, g) <= h
    BY <1>1, <1>2, <1>3 DEF Placed
  <1>5. SIZEOF_MINOR \in Nat /\ ALIGN_INFO \in Nat
    BY LayoutAssumption
  <1>6. p + n <= q \/ q + k <= p
    BY <1>1, <1>2, <1>4, <1>5
  <1> QED
    BY <1>3, <1>6 DEF h, g

-----------------------------------------------------------------------------
(* kmalloc returns.                                                        *)

LEMMA AskedAfter ==
  ASSUME NEW c, Asked(c), blocks' = blocks, DOMAIN call' = DOMAIN c,
         call'.cont = c.cont, call'.req = c.req, call'.want = c.want, call'.size = c.size,
         call'.real = c.real, call'.old = c.old, call'.startedBet \in BOOLEAN
  PROVE  Asked(call)'
  <1>1. Padded(call.req)' = Padded(c.req)
    BY DEF Padded
  <1> QED
    BY <1>1 DEF Asked

LEMMA ReturnCases ==
  ASSUME NEW c, Asked(c), NEW ptr, Return(c, ptr)
  PROVE  \/ /\ pc' = "idle" /\ c.cont # "realloc"
            /\ ptr = NULL => blocks' = blocks
            /\ ptr # NULL => blocks' = With(blocks, ptr, c.want)
         \/ pc' = "panic" /\ blocks' = blocks /\ ptr = NULL
         \/ /\ pc' = "copy" /\ blocks' = blocks /\ c.cont = "realloc"
            /\ call'.cont = "realloc"
            /\ call'.new = ptr /\ call'.want = c.want /\ Asked(call)'
  <1>1. c.real \in Nat
    BY DEF Asked
  <1>2. CASE c.cont # "realloc" /\ pc' = "idle"
    <2>1. blocks' = IF ptr = NULL THEN blocks ELSE With(blocks, ptr, c.want)
      BY <1>2 DEF Return
    <2> QED BY <1>2, <2>1
  <1>3. CASE pc' = "panic"
    <2>1. (c.real < 0 \/ (ptr = NULL /\ c.real > 0)) /\ blocks' = blocks
      BY <1>3 DEF Return
    <2> QED BY <1>1, <1>3, <2>1
  <1>4. CASE c.cont = "realloc" /\ pc' = "copy" /\ blocks' = blocks
             /\ call' = [c EXCEPT !.new = ptr]
    <2>1. /\ DOMAIN call' = DOMAIN c /\ call'.cont = c.cont /\ call'.req = c.req
          /\ call'.want = c.want /\ call'.size = c.size /\ call'.real = c.real
          /\ call'.old = c.old /\ call'.startedBet \in BOOLEAN
      BY <1>4 DEF Asked
    <2>2. call'.new = ptr
      BY <1>4 DEF Asked
    <2>3. Asked(call)'
      BY <1>4, <2>1, AskedAfter
    <2> QED BY <1>4, <2>1, <2>2, <2>3
  <1> QED
    BY <1>2, <1>3, <1>4 DEF Return

(* The block that Link returns is new, and the others stay. *)
LEMMA LinkPointer ==
  ASSUME NEW others, NEW r, Heap(others, minors, r), Asked(call),
         DOMAIN pad \subseteq Nat, pad \in [DOMAIN pad -> Nat], Clients,
         NEW m, NEW a, NEW prev, NEW next, Gap(others, minors, m, a, prev, next, call.size),
         Link(others, m, a, prev, next)
  PROVE  LET p == AlignedUp(a + SIZEOF_MINOR)
         IN  /\ p # NULL /\ p \notin DOMAIN blocks /\ Return(call, p)
             /\ Owned(pad', minors', p, call.want)
             /\ \A q \in DOMAIN blocks : Owned(pad', minors', q, blocks[q])
             /\ DOMAIN pad' \subseteq Nat /\ pad' \in [DOMAIN pad' -> Nat]
  <1> DEFINE p == AlignedUp(a + SIZEOF_MINOR)
             d == p - (a + SIZEOF_MINOR)
  <1>0. /\ SIZEOF_MINOR \in Nat /\ SIZEOF_MAJOR \in Nat /\ ALIGN_INFO \in Nat
        /\ ALIGNMENT \in Nat
        /\ call.size = Padded(call.req) /\ call.want = call.req /\ call.req \in Nat
        /\ call.size \in Nat /\ Placed(others, minors)
    BY AskedWhere, LayoutAssumption DEF Heap
  <1>1. /\ a \in Nat /\ a \notin DOMAIN minors
        /\ \A b \in DOMAIN minors : End(minors, b) <= a \/ a + SIZEOF_MINOR + call.size <= b
    BY GapClear
  <1>2. /\ Insert(others, minors, m, a, prev, next, call.size, majors', minors')
        /\ minors'[a].req_size = call.req
    BY LinkInserts
  <1>3. /\ DOMAIN minors' = DOMAIN minors \cup {a} /\ minors'[a].size = call.size
        /\ \A x \in DOMAIN minors : /\ minors'[x].size = minors[x].size
                                    /\ minors'[x].req_size = minors[x].req_size
    BY <1>1, <1>2 DEF Insert
  <1>4. /\ p \in Nat /\ a + SIZEOF_MINOR + ALIGN_INFO <= p
        /\ p < a + SIZEOF_MINOR + ALIGN_INFO + ALIGNMENT
    <2>1. a + SIZEOF_MINOR \in Nat
      BY <1>0, <1>1
    <2> QED BY <2>1, AlignedUpWhere
  <1>5. pad' = With(pad, p, d) /\ Return(call, p)
    BY DEF Link
  <1>6. d \in Nat /\ p - d = a + SIZEOF_MINOR /\ p - d - SIZEOF_MINOR = a
    BY <1>0, <1>1, <1>4
  <1>7. p # NULL /\ p < a + SIZEOF_MINOR + call.size
    <2>1. a + SIZEOF_MINOR + ALIGN_INFO > 0
      BY <1>0, <1>1, LayoutAssumption
    <2> QED
      BY <1>0, <1>1, <1>4, <2>1 DEF Padded
  <1>8. p = AlignedUp(p - d)
    BY <1>6
  <1> HIDE DEF p, d
  <1>9. /\ DOMAIN pad' = DOMAIN pad \cup {p} /\ pad'[p] = d
        /\ \A q \in DOMAIN pad : q # p => pad'[q] = pad[q]
        /\ pad' \in [DOMAIN pad' -> Nat]
    BY <1>5, <1>6 DEF With
  <1>10. Owned(pad', minors', p, call.want)
    <2>1. p - pad'[p] - SIZEOF_MINOR = a
      BY <1>6, <1>9
    <2>2. minors'[a].req_size = call.want /\ minors'[a].size >= Padded(call.want)
      BY <1>0, <1>2, <1>3
    <2> QED
      BY <1>3, <1>8, <1>9, <2>1, <2>2 DEF Owned
  <1>11. ASSUME NEW q \in DOMAIN blocks
         PROVE  q # p /\ Owned(pad', minors', q, blocks[q])
    <2> DEFINE n == blocks[q]
               h == q - pad[q] - SIZEOF_MINOR
    <2>1. Owned(pad, minors, q, n)
      BY DEF Clients
    <2>2. /\ h \in DOMAIN minors /\ h \in Nat /\ q \in Nat /\ q \in DOMAIN pad
          /\ h + SIZEOF_MINOR + ALIGN_INFO <= q
          /\ q < End(minors, h) /\ End(minors, h) \in Nat
      BY <1>0, <2>1, OwnedWhere
    <2>3. q # p
      <3> HIDE DEF h
      <3>1. End(minors, h) <= a \/ a + SIZEOF_MINOR + call.size <= h
        BY <1>1, <2>2
      <3> QED
        BY <1>0, <1>1, <1>4, <1>7, <2>2, <3>1
    <2>4. pad'[q] = pad[q] /\ q \in DOMAIN pad'
      BY <1>9, <2>2, <2>3
    <2>5. Owned(pad', minors', q, n)
      <3>1. /\ h \in DOMAIN minors' /\ minors'[h].size = minors[h].size
            /\ minors'[h].req_size = minors[h].req_size
        BY <1>3, <2>2
      <3> QED
        BY <2>1, <2>4, <3>1 DEF Owned
    <2> QED BY <2>3, <2>5
  <1>12. DOMAIN pad' \subseteq Nat
    BY <1>4, <1>9
  <1>13. /\ p # NULL /\ p \notin DOMAIN blocks /\ Return(call, p)
         /\ Owned(pad', minors', p, call.want)
         /\ \A q \in DOMAIN blocks : Owned(pad', minors', q, blocks[q])
         /\ DOMAIN pad' \subseteq Nat /\ pad' \in [DOMAIN pad' -> Nat]
    BY <1>5, <1>7, <1>9, <1>10, <1>11, <1>12
  <1> QED
    BY <1>13 DEF p

(* A step that links a block and returns it keeps the invariant. *)
LEMMA LinkKeeps ==
  ASSUME NEW others, Heap(others, minors, l_memRoot'), Asked(call), Misc, Clients,
         l_inuse = Total(minors), l_allocated' = Total(others),
         NEW m, NEW a, NEW prev, NEW next, Gap(others, minors, m, a, prev, next, call.size),
         Link(others, m, a, prev, next),
         l_bestBet' \in DOMAIN others \cup {NULL}, l_errorCount' = l_errorCount,
         \A x \in DOMAIN others : x # m => others[x].first # NULL
  PROVE  IInv'
  <1> DEFINE p == AlignedUp(a + SIZEOF_MINOR)
  <1>0. DOMAIN pad \subseteq Nat /\ pad \in [DOMAIN pad -> Nat] /\ l_errorCount \in 0 .. MaxErrors
    BY DEF Misc
  <1>1. Insert(others, minors, m, a, prev, next, call.size, majors', minors')
    BY LinkInserts
  <1>2. Heap(majors', minors', l_memRoot')
    BY <1>1, InsertKeeps
  <1>3. /\ p # NULL /\ p \notin DOMAIN blocks /\ Return(call, p)
        /\ Owned(pad', minors', p, call.want)
        /\ \A q \in DOMAIN blocks : Owned(pad', minors', q, blocks[q])
        /\ DOMAIN pad' \subseteq Nat /\ pad' \in [DOMAIN pad' -> Nat]
    BY <1>0, LinkPointer
  <1> HIDE DEF p
  <1>4. \/ /\ pc' = "idle" /\ blocks' = With(blocks, p, call.want)
        \/ /\ pc' = "copy" /\ blocks' = blocks /\ call'.cont = "realloc"
           /\ call'.new = p /\ call'.want = call.want /\ Asked(call)'
    BY <1>3, ReturnCases
  <1>5. Totals'
    <2>1. Total(minors') = Total(minors) + call.size /\ Total(majors') = Total(others)
      BY <1>1, InsertTotals
    <2>2. l_inuse' = l_inuse + call.size
      BY DEF Link
    <2> QED
      BY <2>1, <2>2 DEF Totals
  <1>6. Misc'
    <2>1. DOMAIN majors' = DOMAIN others
      BY <1>1 DEF Insert
    <2>2. pc' \in {"idle", "major", "minor", "copy", "panic"}
      BY <1>4
    <2> QED
      BY <1>0, <1>3, <2>1, <2>2 DEF Misc
  <1>7. Clients'
    <2>1. CASE blocks' = blocks
      BY <1>3, <2>1 DEF Clients
    <2>2. CASE blocks' = With(blocks, p, call.want)
      <3>1. /\ DOMAIN blocks' = DOMAIN blocks \cup {p} /\ blocks'[p] = call.want
            /\ \A q \in DOMAIN blocks : blocks'[q] = blocks[q]
        BY <1>3, <2>2 DEF With
      <3> QED
        BY <1>3, <3>1 DEF Clients
    <2> QED BY <1>4, <2>1, <2>2
  <1>8. InCall'
    <2>1. CASE pc' = "idle"
      BY <2>1 DEF InCall
    <2>2. CASE pc' = "copy"
      <3>1. /\ blocks' = blocks /\ call'.cont = "realloc" /\ call'.new = p
            /\ call'.want = call.want /\ Asked(call)'
        BY <1>4, <2>2
      <3>2. call'.new \notin DOMAIN blocks' /\ Owned(pad', minors', call'.new, call'.want)
        BY <1>3, <3>1
      <3> QED
        BY <2>2, <3>1, <3>2 DEF InCall
    <2> QED BY <1>4, <2>1, <2>2
  <1>9. NoneEmpty'
    <2>1. a \in In(minors', m)
      BY <1>1 DEF Insert, In
    <2>2. \A x \in DOMAIN majors' : x # m => majors'[x].first # NULL
      BY <1>1 DEF Insert
    <2>3. \A x \in DOMAIN majors' : majors'[x].first # NULL
      BY <1>2, <2>1, <2>2 DEF Heap, Firsts
    <2> QED
      BY <2>3 DEF NoneEmpty
  <1>10. Searched'
    BY <1>4 DEF Searched
  <1> QED
    BY <1>2, <1>5, <1>6, <1>7, <1>8, <1>9, <1>10 DEF IInv

(* The same for one that returns NULL and leaves the heap alone. *)
LEMMA NullKeeps ==
  ASSUME NEW c, Asked(c), IInv, Return(c, NULL),
         \A m \in DOMAIN majors : majors[m].first # NULL,
         UNCHANGED <<l_memRoot, majors, minors, l_allocated, l_inuse, pad, l_errorCount>>,
         l_bestBet' \in DOMAIN majors \cup {NULL}
  PROVE  IInv'
  <1>1. /\ blocks' = blocks
        /\ \/ pc' = "idle" \/ pc' = "panic"
           \/ pc' = "copy" /\ call'.cont = "realloc" /\ call'.new = NULL /\ Asked(call)'
    BY ReturnCases
  <1>2. Heap(majors, minors, l_memRoot)' /\ Totals' /\ Clients'
    BY <1>1 DEF IInv, Totals, Clients
  <1>3. Misc'
    BY <1>1 DEF IInv, Misc
  <1>4. InCall'
    BY <1>1 DEF InCall
  <1>5. NoneEmpty' /\ Searched'
    BY <1>1 DEF NoneEmpty, Searched
  <1> QED
    BY <1>2, <1>3, <1>4, <1>5 DEF IInv

-----------------------------------------------------------------------------
(* The search.                                                             *)

LEMMA SearchState ==
  ASSUME IInv, pc \in {"major", "minor"}
  PROVE  /\ Heap(majors, minors, l_memRoot) /\ Asked(call)
         /\ call.maj \in DOMAIN majors /\ call.maj \in Nat /\ call.maj # NULL
         /\ majors[call.maj] \in MajorType
         /\ Need \in Nat /\ SIZEOF_MAJOR \in Nat /\ SIZEOF_MINOR \in Nat
         /\ majors[call.maj].size \in Nat /\ majors[call.maj].usage \in Nat
         /\ majors[call.maj].usage <= majors[call.maj].size
  <1>1. Heap(majors, minors, l_memRoot) /\ Asked(call) /\ call.maj \in DOMAIN majors
    BY DEF IInv, InCall
  <1>2. Need \in Nat /\ SIZEOF_MAJOR \in Nat /\ SIZEOF_MINOR \in Nat
    BY <1>1, AskedWhere, LayoutAssumption
  <1>3. /\ call.maj \in Nat /\ call.maj # NULL /\ majors[call.maj] \in MajorType
        /\ majors[call.maj].size \in Nat
    BY <1>1 DEF Heap, Regions, MajorType
  <1>4. majors[call.maj].usage \in Nat /\ majors[call.maj].usage <= majors[call.maj].size
    BY <1>1, UsageBound
  <1> QED BY <1>1, <1>2, <1>3, <1>4

LEMMA InsufficientIs ==
  ASSUME IInv, pc \in {"major", "minor"}
  PROVE  Insufficient <=> majors[call.maj].size - majors[call.maj].usage < Need
  <1>1. /\ FreeIn(call.maj) = majors[call.maj].size - majors[call.maj].usage
        /\ FreeIn(call.maj) \in Nat
    BY SearchState, FreeInRange
  <1>2. Need \in Nat
    BY SearchState
  <1>3. ULess(FreeIn(call.maj), Need) <=> FreeIn(call.maj) < Need
    BY <1>1, <1>2, ULessNat
  <1> QED
    BY <1>1, <1>3 DEF Insufficient

(* The minors of the major that is searched, and the front gap. *)
LEMMA MinorWhere ==
  ASSUME IInv, pc \in {"major", "minor"}, NEW a \in In(minors, call.maj)
  PROVE  /\ a \in DOMAIN minors /\ minors[a].block = call.maj /\ a \in Nat /\ a # NULL
         /\ call.maj + SIZEOF_MAJOR <= a /\ minors[a].size \in Nat
         /\ End(minors, a) = a + SIZEOF_MINOR + minors[a].size
         /\ End(minors, a) \in Nat /\ a < End(minors, a)
         /\ End(minors, a) <= call.maj + majors[call.maj].size
  <1>1. a \in DOMAIN minors /\ minors[a].block = call.maj
    BY DEF In
  <1>2. Placed(majors, minors)
    BY SearchState DEF Heap
  <1>3. call.maj + SIZEOF_MAJOR <= a /\ End(minors, a) <= call.maj + majors[call.maj].size
    BY <1>1, <1>2 DEF Placed
  <1> QED
    BY <1>1, <1>2, <1>3, EndType

LEMMA FrontGapIs ==
  ASSUME IInv, pc \in {"major", "minor"}, majors[call.maj].first # NULL
  PROVE  /\ majors[call.maj].first \in In(minors, call.maj)
         /\ FrontGap \in Nat /\ (ULess(FrontGap, Need) <=> FrontGap < Need)
         /\ FrontGap = majors[call.maj].first - call.maj - SIZEOF_MAJOR
  <1> DEFINE f == majors[call.maj].first
  <1>1. /\ call.maj \in DOMAIN majors /\ call.maj \in Nat /\ Need \in Nat
        /\ SIZEOF_MAJOR \in Nat /\ Firsts(majors, minors)
    BY SearchState DEF Heap
  <1>2. f \in In(minors, call.maj)
    BY <1>1 DEF Firsts
  <1>3. f \in Nat /\ call.maj + SIZEOF_MAJOR <= f
    BY <1>2, MinorWhere
  <1>4. FrontGap = f - call.maj - SIZEOF_MAJOR
    BY DEF FrontGap
  <1>5. FrontGap \in Nat
    BY <1>1, <1>3, <1>4
  <1> QED
    BY <1>1, <1>2, <1>4, <1>5, ULessNat

LEMMA GapBehindIs ==
  ASSUME IInv, pc \in {"major", "minor"}, NEW a \in In(minors, call.maj)
  PROVE  /\ minors[a].next # NULL => /\ minors[a].next \in In(minors, call.maj)
                                     /\ GapBehind(a) = minors[a].next - End(minors, a)
         /\ minors[a].next = NULL =>
              GapBehind(a) = call.maj + majors[call.maj].size - End(minors, a)
         /\ GapBehind(a) \in Nat
         /\ ULess(GapBehind(a), Need) <=> GapBehind(a) < Need
  <1> DEFINE n == minors[a].next
             e == IF n = NULL THEN call.maj + majors[call.maj].size ELSE n
  <1>0. /\ call.maj \in Nat /\ majors[call.maj].size \in Nat /\ Need \in Nat
        /\ SIZEOF_MINOR \in Nat /\ Ordered(majors, minors) /\ Placed(majors, minors)
    BY SearchState DEF Heap
  <1>1. /\ a \in DOMAIN minors /\ minors[a].block = call.maj /\ a \in Nat
        /\ End(minors, a) = a + SIZEOF_MINOR + minors[a].size /\ minors[a].size \in Nat
        /\ End(minors, a) \in Nat /\ a < End(minors, a)
        /\ End(minors, a) <= call.maj + majors[call.maj].size
    BY MinorWhere
  <1>2. n # NULL => n \in In(minors, call.maj) /\ a < n
    BY <1>0, <1>1 DEF Ordered
  <1>3. n # NULL => n \in Nat /\ End(minors, a) <= n
    <2> SUFFICES ASSUME n # NULL PROVE n \in Nat /\ End(minors, a) <= n
      OBVIOUS
    <2>1. n \in In(minors, call.maj) /\ a < n
      BY <1>2
    <2>2. n \in DOMAIN minors /\ n \in Nat /\ n < End(minors, n) /\ End(minors, n) \in Nat
      BY <2>1, MinorWhere
    <2>3. End(minors, a) <= n \/ End(minors, n) <= a
      BY <1>0, <1>1, <2>1, <2>2 DEF Placed
    <2> QED
      BY <1>1, <2>1, <2>2, <2>3
  <1>4. GapBehind(a) = e - a - SIZEOF_MINOR - minors[a].size
    BY DEF GapBehind
  <1>5. e \in Nat /\ End(minors, a) <= e
    BY <1>0, <1>1, <1>3
  <1>6. /\ n # NULL => e = n
        /\ n = NULL => e = call.maj + majors[call.maj].size
    OBVIOUS
  <1> HIDE DEF e, n
  <1>7. GapBehind(a) = e - End(minors, a) /\ GapBehind(a) \in Nat
    BY <1>0, <1>1, <1>4, <1>5
  <1>8. ULess(GapBehind(a), Need) <=> GapBehind(a) < Need
    BY <1>0, <1>7, ULessNat
  <1>9. n # NULL => n \in In(minors, call.maj) /\ GapBehind(a) = n - End(minors, a)
    BY <1>2, <1>6, <1>7
  <1>10. n = NULL => GapBehind(a) = call.maj + majors[call.maj].size - End(minors, a)
    BY <1>0, <1>1, <1>6, <1>7
  <1> USE DEF n
  <1> QED
    BY <1>7, <1>8, <1>9, <1>10, Zenon

(* Where the search passes on, the major has no room. *)
LEMMA InsufficientNoFit ==
  ASSUME IInv, pc \in {"major", "minor"}, Insufficient
  PROVE  ~ Fits(call.maj, Need)
  <1> SUFFICES ASSUME Fits(call.maj, Need) PROVE FALSE
    OBVIOUS
  <1> DEFINE m == call.maj
  <1>0. /\ Heap(majors, minors, l_memRoot) /\ m \in DOMAIN majors /\ m \in Nat
        /\ Need \in Nat /\ SIZEOF_MAJOR \in Nat /\ SIZEOF_MINOR \in Nat
        /\ majors[m].size \in Nat /\ majors[m].usage \in Nat
    BY SearchState
  <1>1. MinorsOf(m) = In(minors, m) /\ \A a : EndOf(a) = End(minors, a)
    BY DEF MinorsOf, In, EndOf, End
  <1>2. PICK s \in {m + SIZEOF_MAJOR} \cup {End(minors, a) : a \in In(minors, m)} :
          /\ s + Need <= m + majors[m].size
          /\ \A a \in In(minors, m) : s + Need <= a \/ End(minors, a) <= s
    BY <1>1 DEF Fits
  <1>3. s \in Int /\ m + SIZEOF_MAJOR <= s
    <2>1. CASE s = m + SIZEOF_MAJOR
      BY <1>0, <2>1
    <2>2. CASE s \in {End(minors, a) : a \in In(minors, m)}
      <3>1. PICK a \in In(minors, m) : s = End(minors, a)
        BY <2>2
      <3>2. a \in Nat /\ m + SIZEOF_MAJOR <= a /\ End(minors, a) \in Nat /\ a < End(minors, a)
        BY <3>1, MinorWhere
      <3> QED BY <1>0, <3>1, <3>2
    <2> QED BY <2>1, <2>2
  <1>4. majors[m].usage + Need <= majors[m].size
    BY <1>0, <1>2, <1>3, GapBound
  <1>5. majors[m].size - majors[m].usage < Need
    BY InsufficientIs
  <1> QED
    BY <1>0, <1>4, <1>5

LEMMA ExhaustedNoFit ==
  ASSUME IInv, Exhausted
  PROVE  ~ Fits(call.maj, Need)
  <1> SUFFICES ASSUME Fits(call.maj, Need) PROVE FALSE
    OBVIOUS
  <1> DEFINE m == call.maj
             l == call.min
  <1>0. /\ Heap(majors, minors, l_memRoot) /\ m \in DOMAIN majors /\ m \in Nat
        /\ Need \in Nat /\ SIZEOF_MAJOR \in Nat /\ SIZEOF_MINOR \in Nat
        /\ majors[m].size \in Nat /\ pc = "minor"
        /\ Placed(majors, minors) /\ Firsts(majors, minors) /\ Ordered(majors, minors)
    BY SearchState DEF Exhausted, Heap
  <1>1. MinorsOf(m) = In(minors, m) /\ \A a : EndOf(a) = End(minors, a)
    BY DEF MinorsOf, In, EndOf, End
  <1>2. PICK s \in {m + SIZEOF_MAJOR} \cup {End(minors, a) : a \in In(minors, m)} :
          /\ s + Need <= m + majors[m].size
          /\ \A a \in In(minors, m) : s + Need <= a \/ End(minors, a) <= s
    BY <1>1 DEF Fits
  <1>3. /\ l \in In(minors, m) /\ FrontGap < Need /\ minors[l].next = NULL
        /\ \A a \in In(minors, m) : a < l => minors[a].next - End(minors, a) < Need
    BY <1>0 DEF IInv, InCall, Searched, Exhausted
  <1>4. \A b \in In(minors, m) : /\ b \in DOMAIN minors /\ minors[b].block = m
                                 /\ b \in Nat /\ b # NULL /\ b < End(minors, b)
                                 /\ m + SIZEOF_MAJOR <= b /\ End(minors, b) \in Nat
    BY <1>0, MinorWhere
  <1>5. \A b \in In(minors, m) : b <= l
    BY <1>0, <1>3, <1>4 DEF Ordered
  <1>6. CASE s = m + SIZEOF_MAJOR
    <2> DEFINE f == majors[m].first
    <2>1. f # NULL
      BY <1>0, <1>3 DEF Firsts
    <2>2. f \in In(minors, m) /\ FrontGap = f - m - SIZEOF_MAJOR
      BY <1>0, <2>1, FrontGapIs
    <2> HIDE DEF f
    <2>3. s + Need <= f \/ End(minors, f) <= s
      BY <1>2, <2>2
    <2> QED
      BY <1>0, <1>3, <1>4, <1>6, <2>2, <2>3
  <1>7. CASE s \in {End(minors, a) : a \in In(minors, m)}
    <2>1. PICK a \in In(minors, m) : s = End(minors, a)
      BY <1>7
    <2> DEFINE n == minors[a].next
    <2>2. CASE a = l
      <3>1. GapBehind(l) < Need /\ GapBehind(l) = m + majors[m].size - End(minors, l)
        BY <1>0, <1>3, GapBehindIs DEF Exhausted
      <3> QED
        BY <1>0, <1>2, <1>3, <1>4, <2>1, <2>2, <3>1
    <2>3. CASE a # l
      <3>1. a < l
        BY <1>3, <1>4, <1>5, <2>1, <2>3
      <3>2. n # NULL
        <4>1. n = NULL => \A b \in In(minors, m) : b <= a
          BY <1>0, <1>4, <2>1 DEF Ordered
        <4> QED
          BY <1>3, <1>4, <2>1, <3>1, <4>1
      <3>3. n \in In(minors, m) /\ a < n
        BY <1>0, <1>4, <2>1, <3>2 DEF Ordered
      <3>4. n - End(minors, a) < Need
        BY <1>3, <2>1, <3>1
      <3> HIDE DEF n
      <3>5. End(minors, a) <= n \/ End(minors, n) <= a
        BY <1>0, <1>4, <2>1, <3>3 DEF Placed
      <3>6. s + Need <= n \/ End(minors, n) <= s
        BY <1>2, <3>3
      <3> QED
        BY <1>0, <1>4, <2>1, <3>3, <3>4, <3>5, <3>6
    <2> QED BY <2>2, <2>3
  <1> QED BY <1>2, <1>6, <1>7

(* At the end of the list, all majors have been looked at. *)
LEMMA SearchEnds ==
  ASSUME IInv, pc \in {"major", "minor"}, ~ call.startedBet, majors[call.maj].next = NULL,
         ~ Fits(call.maj, Need)
  PROVE  /\ \A m \in DOMAIN majors : ~ Fits(m, Need)
         /\ \A m \in DOMAIN majors : m # call.maj => majors[m].next \in DOMAIN majors
  <1>1. PICK D \in SUBSET DOMAIN majors : Seen(D)
    BY DEF IInv, Searched
  <1>2. /\ l_memRoot \in D \cup {call.maj}
        /\ \A m \in D : majors[m].next \in D \cup {call.maj}
        /\ \A m \in D : ~ Fits(m, Need)
    BY <1>1 DEF Seen
  <1>3. call.maj \in DOMAIN majors /\ Chain(majors, l_memRoot)
    BY SearchState DEF Heap
  <1> DEFINE E == D \cup {call.maj}
  <1>4. E \in SUBSET DOMAIN majors /\ Closed(majors, l_memRoot, E)
    BY <1>2, <1>3 DEF Closed
  <1>5. E = DOMAIN majors
    BY <1>3, <1>4 DEF Chain
  <1> QED
    BY <1>2, <1>3, <1>5

LEMMA FitsSame ==
  ASSUME NEW m, minors' = minors, majors'[m].size = majors[m].size, call'.size = call.size
  PROVE  Fits(m, Need)' <=> Fits(m, Need)
  BY DEF Fits, MinorsOf, EndOf, Need

(* The first minor is missing only where the search has just grown. *)
LEMMA FirstsThere ==
  ASSUME IInv, pc \in {"major", "minor"},
         pc = "minor" \/ Insufficient \/ majors[call.maj].first # NULL
  PROVE  \A m \in DOMAIN majors : majors[m].first # NULL
  <1> SUFFICES ASSUME NEW m \in DOMAIN majors, majors[m].first = NULL PROVE FALSE
    OBVIOUS
  <1>1. pc = "major" /\ call.maj = m /\ Need <= majors[m].size - majors[m].usage
    BY DEF IInv, NoneEmpty
  <1>2. Insufficient <=> majors[m].size - majors[m].usage < Need
    BY <1>1, InsufficientIs
  <1>3. Need \in Nat /\ majors[m].size \in Nat /\ majors[m].usage \in Nat
    BY <1>1, SearchState
  <1> QED
    BY <1>1, <1>2, <1>3

LEMMA BestStays ==
  ASSUME IInv, pc \in {"major", "minor"}, RememberBest
  PROVE  l_bestBet' \in DOMAIN majors \cup {NULL}
  <1>1. l_bestBet \in DOMAIN majors \cup {NULL} /\ call.maj \in DOMAIN majors
    BY SearchState DEF IInv, Misc
  <1>2. l_bestBet' = call.maj \/ l_bestBet' = l_bestBet
    BY DEF RememberBest
  <1> QED BY <1>1, <1>2

(* A step that moves the search on, and touches nothing else. *)
Moves ==
  /\ pc \in {"major", "minor"} /\ pc' \in {"major", "minor"}
  /\ UNCHANGED <<l_memRoot, majors, minors, l_allocated, l_inuse, pad, blocks, l_errorCount>>
  /\ l_bestBet' \in DOMAIN majors \cup {NULL}
  /\ DOMAIN call' = DOMAIN call /\ call'.cont = call.cont /\ call'.req = call.req
  /\ call'.want = call.want /\ call'.size = call.size /\ call'.real = call.real
  /\ call'.old = call.old /\ call'.startedBet \in BOOLEAN

LEMMA MoveKeeps ==
  ASSUME IInv, Moves, call'.maj \in DOMAIN majors,
         \A m \in DOMAIN majors : majors[m].first # NULL,
         pc' = "minor" => /\ call'.min \in In(minors, call'.maj)
                          /\ FrontGap' < Need
                          /\ \A a \in In(minors, call'.maj) :
                               a < call'.min => minors[a].next - End(minors, a) < Need,
         ~ call'.startedBet =>
           \E D \in SUBSET DOMAIN majors :
             /\ l_memRoot \in D \cup {call'.maj}
             /\ \A m \in D : majors[m].next \in D \cup {call'.maj}
             /\ \A m \in D : ~ Fits(m, Need)
  PROVE  IInv'
  <1>0. /\ Asked(call) /\ Heap(majors, minors, l_memRoot) /\ Totals /\ Misc /\ Clients
        /\ pc \in {"major", "minor"}
    BY SearchState DEF IInv, Moves
  <1>1. /\ l_memRoot' = l_memRoot /\ majors' = majors /\ minors' = minors
        /\ l_allocated' = l_allocated /\ l_inuse' = l_inuse /\ pad' = pad
        /\ blocks' = blocks /\ l_errorCount' = l_errorCount /\ call'.size = call.size
        /\ pc' \in {"major", "minor"}
    BY DEF Moves
  <1>2. Asked(call)'
    BY <1>0, AskedAfter DEF Moves
  <1>3. Heap(majors, minors, l_memRoot)' /\ Totals' /\ Clients'
    BY <1>0, <1>1 DEF Totals, Clients
  <1>4. Misc'
    BY <1>0, <1>1 DEF Misc, Moves
  <1>5. InCall'
    BY <1>1, <1>2 DEF InCall
  <1>6. NoneEmpty'
    BY <1>1 DEF NoneEmpty
  <1>7. Need' = Need /\ \A m : Fits(m, Need)' <=> Fits(m, Need)
    BY <1>1, FitsSame DEF Need
  <1>8. ~ call'.startedBet => (\E D \in SUBSET DOMAIN majors : Seen(D))'
    <2> SUFFICES ASSUME ~ call'.startedBet
                 PROVE  (\E D \in SUBSET DOMAIN majors : Seen(D))'
      OBVIOUS
    <2>1. PICK D \in SUBSET DOMAIN majors :
            /\ l_memRoot \in D \cup {call'.maj}
            /\ \A m \in D : majors[m].next \in D \cup {call'.maj}
            /\ \A m \in D : ~ Fits(m, Need)
      OBVIOUS
    <2>2. \A m \in D : ~ Fits(m, Need)'
      BY <1>7, <2>1
    <2>3. Seen(D)'
      BY <1>1, <2>1, <2>2 DEF Seen
    <2> QED
      BY <1>1, <2>3
  <1>9. Searched'
    BY <1>1, <1>7, <1>8 DEF Searched
  <1> QED
    BY <1>3, <1>4, <1>5, <1>6, <1>9 DEF IInv

(* What has been seen, when the search goes on to the next major. *)
LEMMA SeenMore ==
  ASSUME IInv, pc \in {"major", "minor"}, majors[call.maj].next # NULL,
         ~ Fits(call.maj, Need), call'.maj = majors[call.maj].next,
         call'.startedBet = call.startedBet
  PROVE  /\ call'.maj \in DOMAIN majors
         /\ ~ call'.startedBet =>
              \E D \in SUBSET DOMAIN majors :
                /\ l_memRoot \in D \cup {call'.maj}
                /\ \A m \in D : majors[m].next \in D \cup {call'.maj}
                /\ \A m \in D : ~ Fits(m, Need)
  <1>1. call.maj \in DOMAIN majors /\ Chain(majors, l_memRoot)
    BY SearchState DEF Heap
  <1>2. call'.maj \in DOMAIN majors
    BY <1>1 DEF Chain
  <1>3. ASSUME ~ call.startedBet
        PROVE  \E D \in SUBSET DOMAIN majors :
                /\ l_memRoot \in D \cup {call'.maj}
                /\ \A m \in D : majors[m].next \in D \cup {call'.maj}
                /\ \A m \in D : ~ Fits(m, Need)
    <2>1. PICK D \in SUBSET DOMAIN majors : Seen(D)
      BY <1>3 DEF IInv, Searched
    <2>2. /\ l_memRoot \in D \cup {call.maj}
          /\ \A m \in D : majors[m].next \in D \cup {call.maj}
          /\ \A m \in D : ~ Fits(m, Need)
      BY <2>1 DEF Seen
    <2> DEFINE E == D \cup {call.maj}
    <2>3. /\ E \in SUBSET DOMAIN majors /\ l_memRoot \in E \cup {call'.maj}
          /\ \A m \in E : majors[m].next \in E \cup {call'.maj}
          /\ \A m \in E : ~ Fits(m, Need)
      BY <1>1, <2>2
    <2> HIDE DEF E
    <2> QED BY <2>3
  <1> QED BY <1>2, <1>3

LEMMA RootThere ==
  ASSUME IInv, pc \in {"major", "minor"}
  PROVE  l_memRoot \in DOMAIN majors
  <1>1. Chain(majors, l_memRoot) /\ call.maj \in DOMAIN majors
    BY SearchState DEF Heap
  <1>2. l_memRoot # NULL
    BY <1>1, NoRootNoMajors
  <1> QED BY <1>1, <1>2 DEF Chain

LEMMA Case1HopKeeps ==
  ASSUME IInv, Case1Hop
  PROVE  IInv'
  <1>1. /\ pc = "major" /\ Insufficient /\ majors[call.maj].next # NULL
        /\ RememberBest /\ pc' = "major"
        /\ call' = [call EXCEPT !.maj = majors[call.maj].next, !.bestSize = BetterBest]
        /\ UNCHANGED <<l_memRoot, majors, minors, l_allocated, l_inuse, pad, blocks, l_errorCount>>
    BY DEF Case1Hop, Goto, KeepHeader
  <1>2. Asked(call) /\ ~ Fits(call.maj, Need)
    BY <1>1, SearchState, InsufficientNoFit
  <1>3. /\ DOMAIN call' = DOMAIN call /\ call'.cont = call.cont /\ call'.req = call.req
        /\ call'.want = call.want /\ call'.size = call.size /\ call'.real = call.real
        /\ call'.old = call.old /\ call'.startedBet = call.startedBet
        /\ call'.startedBet \in BOOLEAN /\ call'.maj = majors[call.maj].next
    BY <1>1, <1>2 DEF Asked
  <1>4. Moves
    BY <1>1, <1>3, BestStays DEF Moves
  <1>5. \A m \in DOMAIN majors : majors[m].first # NULL
    BY <1>1, FirstsThere
  <1>6. /\ call'.maj \in DOMAIN majors
        /\ ~ call'.startedBet =>
             \E D \in SUBSET DOMAIN majors :
               /\ l_memRoot \in D \cup {call'.maj}
               /\ \A m \in D : majors[m].next \in D \cup {call'.maj}
               /\ \A m \in D : ~ Fits(m, Need)
    BY <1>1, <1>2, <1>3, SeenMore
  <1> QED
    BY <1>1, <1>4, <1>5, <1>6, MoveKeeps

LEMMA Case1RestartKeeps ==
  ASSUME IInv, Case1Restart
  PROVE  IInv'
  <1>1. /\ pc = "major" /\ Insufficient /\ RememberBest /\ pc' = "major"
        /\ call' = [call EXCEPT !.maj = l_memRoot, !.bestSize = BetterBest,
                                !.startedBet = FALSE]
        /\ UNCHANGED <<l_memRoot, majors, minors, l_allocated, l_inuse, pad, blocks, l_errorCount>>
    BY DEF Case1Restart, KeepHeader
  <1>2. Asked(call) /\ l_memRoot \in DOMAIN majors
    BY <1>1, SearchState, RootThere
  <1>3. /\ DOMAIN call' = DOMAIN call /\ call'.cont = call.cont /\ call'.req = call.req
        /\ call'.want = call.want /\ call'.size = call.size /\ call'.real = call.real
        /\ call'.old = call.old /\ call'.startedBet \in BOOLEAN /\ call'.maj = l_memRoot
    BY <1>1, <1>2 DEF Asked
  <1>4. Moves
    BY <1>1, <1>3, BestStays DEF Moves
  <1>5. \A m \in DOMAIN majors : majors[m].first # NULL
    BY <1>1, FirstsThere
  <1>6. \E D \in SUBSET DOMAIN majors :
          /\ l_memRoot \in D \cup {call'.maj}
          /\ \A m \in D : majors[m].next \in D \cup {call'.maj}
          /\ \A m \in D : ~ Fits(m, Need)
    <2> WITNESS {} \in SUBSET DOMAIN majors
    <2> QED BY <1>3
  <1> QED
    BY <1>1, <1>2, <1>3, <1>4, <1>5, <1>6, MoveKeeps

(* What has been seen stays, within one major. *)
LEMMA SeenStill ==
  ASSUME IInv, pc \in {"major", "minor"}, call'.maj = call.maj,
         call'.startedBet = call.startedBet
  PROVE  ~ call'.startedBet =>
              \E D \in SUBSET DOMAIN majors :
                /\ l_memRoot \in D \cup {call'.maj}
                /\ \A m \in D : majors[m].next \in D \cup {call'.maj}
                /\ \A m \in D : ~ Fits(m, Need)
  <1> SUFFICES ASSUME ~ call.startedBet
               PROVE  \E D \in SUBSET DOMAIN majors :
                        /\ l_memRoot \in D \cup {call.maj}
                        /\ \A m \in D : majors[m].next \in D \cup {call.maj}
                        /\ \A m \in D : ~ Fits(m, Need)
    OBVIOUS
  <1>1. PICK D \in SUBSET DOMAIN majors : Seen(D)
    BY DEF IInv, Searched
  <1> QED
    BY <1>1 DEF Seen

LEMMA Case4Keeps ==
  ASSUME IInv, Case4
  PROVE  IInv'
  <1> DEFINE f == majors[call.maj].first
  <1>1. /\ pc = "major" /\ f # NULL /\ ULess(FrontGap, Need)
        /\ RememberBest /\ pc' = "minor"
        /\ call' = [call EXCEPT !.min = f, !.bestSize = BetterBest]
        /\ UNCHANGED <<l_memRoot, majors, minors, l_allocated, l_inuse, pad, blocks, l_errorCount>>
    BY DEF Case4, KeepHeader
  <1>2. Asked(call) /\ call.maj \in DOMAIN majors /\ Firsts(majors, minors)
    BY <1>1, SearchState DEF Heap
  <1> HIDE DEF f
  <1>3. /\ DOMAIN call' = DOMAIN call /\ call'.cont = call.cont /\ call'.req = call.req
        /\ call'.want = call.want /\ call'.size = call.size /\ call'.real = call.real
        /\ call'.old = call.old /\ call'.startedBet = call.startedBet
        /\ call'.startedBet \in BOOLEAN /\ call'.maj = call.maj /\ call'.min = f
    BY <1>1, <1>2 DEF Asked
  <1>4. Moves
    BY <1>1, <1>3, BestStays DEF Moves
  <1>5. \A m \in DOMAIN majors : majors[m].first # NULL
    BY <1>1, FirstsThere DEF f
  <1>6. f \in In(minors, call.maj) /\ FrontGap < Need
    BY <1>1, FrontGapIs DEF f
  <1>7. FrontGap' = FrontGap
    BY <1>1, <1>3 DEF FrontGap
  <1>8. \A a \in In(minors, call.maj) : ~ (a < f)
    <2> SUFFICES ASSUME NEW a \in In(minors, call.maj) PROVE ~ (a < f)
      OBVIOUS
    <2>1. f <= a
      BY <1>2 DEF Firsts, f
    <2>2. a \in Nat /\ f \in Nat
      BY <1>1, <1>6, MinorWhere
    <2> QED BY <2>1, <2>2
  <1>9. ~ call'.startedBet =>
              \E D \in SUBSET DOMAIN majors :
                /\ l_memRoot \in D \cup {call'.maj}
                /\ \A m \in D : majors[m].next \in D \cup {call'.maj}
                /\ \A m \in D : ~ Fits(m, Need)
    BY <1>1, <1>3, SeenStill
  <1> QED
    BY <1>2, <1>3, <1>4, <1>5, <1>6, <1>7, <1>8, <1>9, MoveKeeps

LEMMA Case4NextKeeps ==
  ASSUME IInv, Case4Next
  PROVE  IInv'
  <1> DEFINE l == call.min
             n == minors[l].next
  <1>1. /\ pc = "minor" /\ ULess(GapBehind(l), Need) /\ n # NULL
        /\ pc' = "minor" /\ l_bestBet' = l_bestBet
        /\ call' = [call EXCEPT !.min = n]
        /\ UNCHANGED <<l_memRoot, majors, minors, l_allocated, l_inuse, pad, blocks, l_errorCount>>
    BY DEF Case4Next, KeepHeader, heapVars
  <1>2. /\ Asked(call) /\ call.maj \in DOMAIN majors /\ Ordered(majors, minors)
        /\ l \in In(minors, call.maj) /\ FrontGap < Need
        /\ \A a \in In(minors, call.maj) : a < l => minors[a].next - End(minors, a) < Need
        /\ l_bestBet \in DOMAIN majors \cup {NULL}
    BY <1>1, SearchState DEF IInv, InCall, Searched, Heap, Misc
  <1>3. n \in In(minors, call.maj) /\ n - End(minors, l) < Need
    BY <1>1, <1>2, GapBehindIs
  <1>4. \A a \in In(minors, call.maj) : a <= l \/ n <= a
    BY <1>1, <1>2, MinorWhere DEF Ordered
  <1>5. \A a \in In(minors, call.maj) : a < n => minors[a].next - End(minors, a) < Need
    <2> SUFFICES ASSUME NEW a \in In(minors, call.maj), a < n
                 PROVE  minors[a].next - End(minors, a) < Need
      OBVIOUS
    <2>1. a \in Nat /\ l \in Nat /\ n \in Nat
      BY <1>1, <1>2, <1>3, MinorWhere
    <2>2. a < l \/ a = l
      BY <1>4, <2>1
    <2> QED BY <1>2, <1>3, <2>2
  <1> HIDE DEF n, l
  <1>6. /\ DOMAIN call' = DOMAIN call /\ call'.cont = call.cont /\ call'.req = call.req
        /\ call'.want = call.want /\ call'.size = call.size /\ call'.real = call.real
        /\ call'.old = call.old /\ call'.startedBet = call.startedBet
        /\ call'.startedBet \in BOOLEAN /\ call'.maj = call.maj /\ call'.min = n
    BY <1>1, <1>2 DEF Asked
  <1>7. Moves
    BY <1>1, <1>2, <1>6 DEF Moves
  <1>8. \A m \in DOMAIN majors : majors[m].first # NULL
    BY <1>1, FirstsThere
  <1>9. FrontGap' = FrontGap
    BY <1>1, <1>6 DEF FrontGap
  <1>10. ~ call'.startedBet =>
              \E D \in SUBSET DOMAIN majors :
                /\ l_memRoot \in D \cup {call'.maj}
                /\ \A m \in D : majors[m].next \in D \cup {call'.maj}
                /\ \A m \in D : ~ Fits(m, Need)
    BY <1>1, <1>6, SeenStill
  <1> QED
    BY <1>2, <1>3, <1>5, <1>6, <1>7, <1>8, <1>9, <1>10, MoveKeeps

LEMMA Case5HopKeeps ==
  ASSUME IInv, Case5Hop
  PROVE  IInv'
  <1>1. /\ pc = "minor" /\ Exhausted /\ majors[call.maj].next # NULL
        /\ l_bestBet' = l_bestBet /\ pc' = "major"
        /\ call' = [call EXCEPT !.maj = majors[call.maj].next]
        /\ UNCHANGED <<l_memRoot, majors, minors, l_allocated, l_inuse, pad, blocks, l_errorCount>>
    BY DEF Case5Hop, Exhausted, KeepHeader, heapVars
  <1>2. Asked(call) /\ ~ Fits(call.maj, Need) /\ l_bestBet \in DOMAIN majors \cup {NULL}
    BY <1>1, SearchState, ExhaustedNoFit DEF IInv, Misc
  <1>3. /\ DOMAIN call' = DOMAIN call /\ call'.cont = call.cont /\ call'.req = call.req
        /\ call'.want = call.want /\ call'.size = call.size /\ call'.real = call.real
        /\ call'.old = call.old /\ call'.startedBet = call.startedBet
        /\ call'.startedBet \in BOOLEAN /\ call'.maj = majors[call.maj].next
    BY <1>1, <1>2 DEF Asked
  <1>4. Moves
    BY <1>1, <1>2, <1>3 DEF Moves
  <1>5. \A m \in DOMAIN majors : majors[m].first # NULL
    BY <1>1, FirstsThere
  <1>6. /\ call'.maj \in DOMAIN majors
        /\ ~ call'.startedBet =>
             \E D \in SUBSET DOMAIN majors :
               /\ l_memRoot \in D \cup {call'.maj}
               /\ \A m \in D : majors[m].next \in D \cup {call'.maj}
               /\ \A m \in D : ~ Fits(m, Need)
    BY <1>1, <1>2, <1>3, SeenMore
  <1> QED
    BY <1>1, <1>4, <1>5, <1>6, MoveKeeps

LEMMA Case5RestartKeeps ==
  ASSUME IInv, Case5Restart
  PROVE  IInv'
  <1>1. /\ pc = "minor" /\ l_bestBet' = l_bestBet /\ pc' = "major"
        /\ call' = [call EXCEPT !.maj = l_memRoot, !.startedBet = FALSE]
        /\ UNCHANGED <<l_memRoot, majors, minors, l_allocated, l_inuse, pad, blocks, l_errorCount>>
    BY DEF Case5Restart, Exhausted, KeepHeader, heapVars
  <1>2. /\ Asked(call) /\ l_memRoot \in DOMAIN majors
        /\ l_bestBet \in DOMAIN majors \cup {NULL}
    BY <1>1, SearchState, RootThere DEF IInv, Misc
  <1>3. /\ DOMAIN call' = DOMAIN call /\ call'.cont = call.cont /\ call'.req = call.req
        /\ call'.want = call.want /\ call'.size = call.size /\ call'.real = call.real
        /\ call'.old = call.old /\ call'.startedBet \in BOOLEAN /\ call'.maj = l_memRoot
    BY <1>1, <1>2 DEF Asked
  <1>4. Moves
    BY <1>1, <1>2, <1>3 DEF Moves
  <1>5. \A m \in DOMAIN majors : majors[m].first # NULL
    BY <1>1, FirstsThere
  <1>6. \E D \in SUBSET DOMAIN majors :
          /\ l_memRoot \in D \cup {call'.maj}
          /\ \A m \in D : majors[m].next \in D \cup {call'.maj}
          /\ \A m \in D : ~ Fits(m, Need)
    <2> WITNESS {} \in SUBSET DOMAIN majors
    <2> QED BY <1>3
  <1> QED
    BY <1>1, <1>2, <1>3, <1>4, <1>5, <1>6, MoveKeeps

-----------------------------------------------------------------------------
(* The cases that end with a block.                                        *)

LEMMA OthersThere ==
  ASSUME IInv, pc \in {"major", "minor"}
  PROVE  \A x \in DOMAIN majors : x # call.maj => majors[x].first # NULL
  BY DEF IInv, NoneEmpty

LEMMA Case2Gap ==
  ASSUME IInv, Case2
  PROVE  Gap(majors, minors, call.maj, call.maj + SIZEOF_MAJOR, NULL, NULL, call.size)
  <1> DEFINE m == call.maj
  <1>1. pc = "major" /\ ~ Insufficient /\ majors[m].first = NULL
    BY DEF Case2
  <1>2. /\ Heap(majors, minors, l_memRoot) /\ Asked(call) /\ m \in DOMAIN majors /\ m \in Nat
        /\ Need \in Nat /\ SIZEOF_MAJOR \in Nat /\ SIZEOF_MINOR \in Nat
        /\ majors[m].size \in Nat /\ majors[m].usage \in Nat
    BY <1>1, SearchState
  <1>3. majors[m].usage = SIZEOF_MAJOR
    <2>1. In(minors, m) = {}
      BY <1>1, <1>2 DEF Heap, Firsts
    <2>2. majors[m].usage = SIZEOF_MAJOR + SumFunctionOnSet(Spans(minors), In(minors, m))
      BY <1>2 DEF Heap, Used
    <2> QED
      BY <1>2, <2>1, <2>2, SumEmpty
  <1>4. /\ call.size \in Nat /\ MinSize <= call.size /\ Need = call.size + SIZEOF_MINOR
    BY <1>2, AskedWhere
  <1>5. Need <= majors[m].size - SIZEOF_MAJOR
    BY <1>1, <1>2, <1>3, InsufficientIs
  <1> QED
    BY <1>1, <1>2, <1>4, <1>5 DEF Gap

LEMMA Case3Gap ==
  ASSUME IInv, Case3
  PROVE  Gap(majors, minors, call.maj, call.maj + SIZEOF_MAJOR, NULL,
             majors[call.maj].first, call.size)
  <1> DEFINE m == call.maj
             f == majors[m].first
  <1>1. pc = "major" /\ ~ Insufficient /\ f # NULL /\ ~ ULess(FrontGap, Need)
    BY DEF Case3
  <1>2. /\ Heap(majors, minors, l_memRoot) /\ Asked(call) /\ m \in DOMAIN majors /\ m \in Nat
        /\ Need \in Nat /\ SIZEOF_MAJOR \in Nat /\ SIZEOF_MINOR \in Nat
    BY <1>1, SearchState
  <1>3. FrontGap = f - m - SIZEOF_MAJOR /\ FrontGap >= Need /\ f \in Nat
    <2>1. /\ f \in In(minors, m) /\ FrontGap = f - m - SIZEOF_MAJOR /\ FrontGap \in Nat
          /\ (ULess(FrontGap, Need) <=> FrontGap < Need)
      BY <1>1, FrontGapIs
    <2>2. f \in Nat
      BY <1>1, <2>1, MinorWhere
    <2> QED BY <1>1, <1>2, <2>1, <2>2
  <1>4. /\ call.size \in Nat /\ MinSize <= call.size /\ Need = call.size + SIZEOF_MINOR
    BY <1>2, AskedWhere
  <1> QED
    BY <1>1, <1>2, <1>3, <1>4 DEF Gap

LEMMA Case4FitGap ==
  ASSUME IInv, Case4Fit
  PROVE  Gap(majors, minors, call.maj, call.min + SIZEOF_MINOR + minors[call.min].size,
             call.min, minors[call.min].next, call.size)
  <1> DEFINE m == call.maj
             l == call.min
             n == minors[l].next
             a == l + SIZEOF_MINOR + minors[l].size
  <1>1. pc = "minor" /\ ~ ULess(GapBehind(l), Need)
    BY DEF Case4Fit
  <1>2. /\ Asked(call) /\ m \in DOMAIN majors /\ m \in Nat /\ majors[m].size \in Nat
        /\ Need \in Nat /\ SIZEOF_MAJOR \in Nat /\ SIZEOF_MINOR \in Nat
        /\ l \in In(minors, m)
    BY <1>1, SearchState DEF IInv, InCall
  <1>3. a = End(minors, l) /\ l \in Nat /\ l # NULL /\ a \in Nat
    BY <1>1, <1>2, MinorWhere
  <1>4. /\ call.size \in Nat /\ MinSize <= call.size /\ Need = call.size + SIZEOF_MINOR
    BY <1>2, AskedWhere
  <1>5. /\ GapBehind(l) \in Nat /\ GapBehind(l) >= Need
        /\ n # NULL => n \in In(minors, m) /\ GapBehind(l) = n - a
        /\ n = NULL => GapBehind(l) = m + majors[m].size - a
    <2>1. /\ minors[l].next # NULL => /\ minors[l].next \in In(minors, call.maj)
                                      /\ GapBehind(l) = minors[l].next - End(minors, l)
          /\ minors[l].next = NULL =>
               GapBehind(l) = call.maj + majors[call.maj].size - End(minors, l)
          /\ GapBehind(l) \in Nat
          /\ ULess(GapBehind(l), Need) <=> GapBehind(l) < Need
      BY <1>1, <1>2, GapBehindIs
    <2> QED
      BY <1>1, <1>2, <1>3, <2>1
  <1>6. n # NULL => n \in Nat
    BY <1>1, <1>5, MinorWhere
  <1> HIDE DEF n
  <1>7. n # NULL => a + SIZEOF_MINOR + call.size <= n
    BY <1>2, <1>3, <1>4, <1>5, <1>6
  <1>8. n = NULL => a + SIZEOF_MINOR + call.size <= m + majors[m].size
    BY <1>2, <1>3, <1>4, <1>5
  <1> HIDE DEF a
  <1>9. Gap(majors, minors, m, a, l, n, call.size)
    BY <1>2, <1>3, <1>4, <1>7, <1>8 DEF Gap, n
  <1> QED
    BY <1>9 DEF n, a

(* The cases that find room link the block into a gap.                     *)
LEMMA FitLinks ==
  ASSUME IInv, Case2 \/ Case3 \/ Case4Fit
  PROVE  /\ pc \in {"major", "minor"} /\ l_memRoot' = l_memRoot
         /\ l_allocated' = l_allocated /\ l_errorCount' = l_errorCount
         /\ l_bestBet' = l_bestBet \/ RememberBest
         /\ \E a, prev, next :
              /\ Gap(majors, minors, call.maj, a, prev, next, call.size)
              /\ Link(majors, call.maj, a, prev, next)
  <1>1. CASE Case2
    BY <1>1, Case2Gap DEF Case2
  <1>2. CASE Case3
    BY <1>2, Case3Gap DEF Case3
  <1>3. CASE Case4Fit
    BY <1>3, Case4FitGap DEF Case4Fit
  <1> QED BY <1>1, <1>2, <1>3

LEMMA FitKeeps ==
  ASSUME IInv, Case2 \/ Case3 \/ Case4Fit
  PROVE  IInv'
  <1> DEFINE m == call.maj
  <1>1. PICK a, prev, next : /\ Gap(majors, minors, m, a, prev, next, call.size)
                             /\ Link(majors, m, a, prev, next)
    BY FitLinks
  <1>2. /\ pc \in {"major", "minor"} /\ l_memRoot' = l_memRoot
        /\ l_allocated' = l_allocated /\ l_errorCount' = l_errorCount
    BY FitLinks
  <1>3. Heap(majors, minors, l_memRoot) /\ Asked(call)
    BY <1>2, SearchState
  <1>4. \A x \in DOMAIN majors : x # m => majors[x].first # NULL
    BY <1>2, OthersThere
  <1>5. Misc /\ Clients /\ l_inuse = Total(minors) /\ l_allocated = Total(majors)
    BY DEF IInv, Totals
  <1>6. l_bestBet' \in DOMAIN majors \cup {NULL}
    BY <1>2, <1>5, FitLinks, BestStays DEF Misc
  <1> HIDE DEF m
  <1>7. Heap(majors, minors, l_memRoot') /\ l_allocated' = Total(majors)
    BY <1>2, <1>3, <1>5
  <1> QED
    BY <1>1, <1>2, <1>3, <1>4, <1>5, <1>6, <1>7, LinkKeeps

-----------------------------------------------------------------------------
(* The cases that grow the heap.                                           *)

(* A new region has room for the block that it was asked for. *)
LEMMA NewRegion ==
  ASSUME NEW r, Heap(majors, minors, r), NEW size \in Nat, MinSize <= size,
         size + SIZEOF_MAJOR + SIZEOF_MINOR + l_pageSize <= UINT,
         NEW last, NEW base, NEW M2, NEW r2,
         Append(majors, r, last, base, NewPages(size), M2, r2)
  PROVE  /\ Heap(M2, minors, r2)
         /\ Gap(M2, minors, base, base + SIZEOF_MAJOR, NULL, NULL, size)
         /\ Total(M2) = Total(majors) + NewMajor(size).size
         /\ base \in DOMAIN M2 /\ DOMAIN M2 = DOMAIN majors \cup {base}
         /\ base \notin DOMAIN majors /\ base # NULL
         /\ \A x \in DOMAIN majors : /\ M2[x].first = majors[x].first
                                     /\ M2[x].size = majors[x].size
                                     /\ x # last => M2[x].next = majors[x].next
                                     /\ x = last => M2[x].next = base
         /\ M2[base].first = NULL
         /\ size + SIZEOF_MINOR <= M2[base].size - M2[base].usage
  <1>1. Heap(M2, minors, r2) /\ Total(M2) = Total(majors) + M2[base].size
    BY AppendKeeps, AppendTotals
  <1>2. /\ base \in DOMAIN M2 /\ M2[base].size = NewPages(size) * l_pageSize
        /\ M2[base].usage = SIZEOF_MAJOR /\ M2[base].first = NULL /\ base \in Nat
        /\ DOMAIN M2 = DOMAIN majors \cup {base} /\ base \notin DOMAIN majors /\ base # NULL
        /\ \A x \in DOMAIN majors : /\ M2[x].first = majors[x].first
                                    /\ M2[x].size = majors[x].size
                                    /\ x # last => M2[x].next = majors[x].next
                                    /\ x = last => M2[x].next = base
    BY DEF Append
  <1>3. /\ size + SIZEOF_MAJOR + SIZEOF_MINOR <= M2[base].size /\ M2[base].size \in Nat
        /\ NewMajor(size).size = M2[base].size
    BY <1>2, NewPagesEnough
  <1>4. SIZEOF_MAJOR \in Nat /\ SIZEOF_MINOR \in Nat
    BY LayoutAssumption
  <1>5. Gap(M2, minors, base, base + SIZEOF_MAJOR, NULL, NULL, size)
    BY <1>2, <1>3, <1>4 DEF Gap
  <1>6. size + SIZEOF_MINOR <= M2[base].size - M2[base].usage
    BY <1>2, <1>3, <1>4
  <1> QED
    BY <1>1, <1>2, <1>3, <1>5, <1>6

LEMMA RootRegion ==
  ASSUME NEW r, Heap(majors, minors, r), NEW size \in Nat, MinSize <= size,
         size + SIZEOF_MAJOR + SIZEOF_MINOR + l_pageSize <= UINT,
         NEW base, NEW M2, Append(majors, r, r, base, NewPages(size), M2, base)
  PROVE  /\ Heap(M2, minors, base)
         /\ Total(M2) = Total(majors) + NewMajor(size).size
         /\ DOMAIN M2 = DOMAIN majors \cup {base}
         /\ size + SIZEOF_MINOR <= M2[base].size - M2[base].usage
  <1>1. Heap(M2, minors, base)
    BY AppendKeeps
  <1>2. Total(M2) = Total(majors) + M2[base].size
    BY AppendTotals
  <1>3. /\ M2[base].size = NewPages(size) * l_pageSize
        /\ M2[base].usage = SIZEOF_MAJOR /\ DOMAIN M2 = DOMAIN majors \cup {base}
    BY DEF Append
  <1>4. /\ size + SIZEOF_MAJOR + SIZEOF_MINOR <= M2[base].size /\ M2[base].size \in Nat
        /\ NewMajor(size).size = M2[base].size
    BY <1>3, NewPagesEnough
  <1>5. SIZEOF_MAJOR \in Nat /\ SIZEOF_MINOR \in Nat
    BY LayoutAssumption
  <1> QED
    BY <1>1, <1>2, <1>3, <1>4, <1>5

LEMMA GrownRegion ==
  ASSUME IInv, pc \in {"major", "minor"}, majors[call.maj].next = NULL,
         NEW base \in liballoc_alloc(NewPages(call.size)) \ {NULL}
  PROVE  /\ Heap(Grown(base), minors, l_memRoot)
         /\ Gap(Grown(base), minors, base, base + SIZEOF_MAJOR, NULL, NULL, call.size)
         /\ Total(Grown(base)) = Total(majors) + NewMajor(call.size).size
         /\ base \in DOMAIN Grown(base) /\ DOMAIN Grown(base) = DOMAIN majors \cup {base}
         /\ base \notin DOMAIN majors /\ base # NULL
         /\ \A x \in DOMAIN majors :
              /\ Grown(base)[x].first = majors[x].first
              /\ Grown(base)[x].size = majors[x].size
              /\ x # call.maj => Grown(base)[x].next = majors[x].next
              /\ x = call.maj => Grown(base)[x].next = base
         /\ Grown(base)[base].first = NULL
         /\ Need <= Grown(base)[base].size - Grown(base)[base].usage
  <1>1. /\ Heap(majors, minors, l_memRoot) /\ Asked(call) /\ call.maj \in DOMAIN majors
    BY SearchState
  <1>2. /\ call.size \in Nat /\ MinSize <= call.size /\ Need = call.size + SIZEOF_MINOR
        /\ call.size + SIZEOF_MAJOR + SIZEOF_MINOR + l_pageSize <= UINT
    BY <1>1, AskedWhere
  <1>3. Append(majors, l_memRoot, call.maj, base, NewPages(call.size), Grown(base), l_memRoot)
    BY <1>1, GrownAppends
  <1> DEFINE G == Grown(base)
             size == call.size
             last == call.maj
  <1> HIDE DEF G, size, last
  <1>4. /\ size \in Nat /\ MinSize <= size
        /\ size + SIZEOF_MAJOR + SIZEOF_MINOR + l_pageSize <= UINT
        /\ Append(majors, l_memRoot, last, base, NewPages(size), G, l_memRoot)
    BY <1>2, <1>3 DEF G, size, last
  <1>5. /\ Heap(G, minors, l_memRoot)
        /\ Gap(G, minors, base, base + SIZEOF_MAJOR, NULL, NULL, size)
        /\ Total(G) = Total(majors) + NewMajor(size).size
        /\ base \in DOMAIN G /\ DOMAIN G = DOMAIN majors \cup {base}
        /\ base \notin DOMAIN majors /\ base # NULL
        /\ \A x \in DOMAIN majors : /\ G[x].first = majors[x].first
                                    /\ G[x].size = majors[x].size
                                    /\ x # last => G[x].next = majors[x].next
                                    /\ x = last => G[x].next = base
        /\ G[base].first = NULL
        /\ size + SIZEOF_MINOR <= G[base].size - G[base].usage
    BY <1>1, <1>4, NewRegion
  <1> QED
    BY <1>2, <1>5 DEF G, size, last

LEMMA Case1GrowKeeps ==
  ASSUME IInv, Case1Grow
  PROVE  IInv'
  <1>1. /\ pc = "major" /\ Insufficient /\ majors[call.maj].next = NULL
        /\ RememberBest /\ l_memRoot' = l_memRoot /\ l_errorCount' = l_errorCount
    BY DEF Case1Grow
  <1>2. l_bestBet' \in DOMAIN majors \cup {NULL}
    BY <1>1, BestStays
  <1>3. \A x \in DOMAIN majors : majors[x].first # NULL
    BY <1>1, FirstsThere
  <1>4. Misc /\ Clients /\ l_inuse = Total(minors) /\ l_allocated = Total(majors)
    BY DEF IInv, Totals
  <1>5. Asked(call)
    BY <1>1, SearchState
  <1>6. ASSUME NEW base \in liballoc_alloc(NewPages(call.size)) \ {NULL},
               Link(Grown(base), base, base + SIZEOF_MAJOR, NULL, NULL),
               l_allocated' = l_allocated + NewMajor(call.size).size
        PROVE  IInv'
    <2> DEFINE G == Grown(base)
               a == base + SIZEOF_MAJOR
    <2>1. /\ Heap(G, minors, l_memRoot)
          /\ Gap(G, minors, base, a, NULL, NULL, call.size)
          /\ Total(G) = Total(majors) + NewMajor(call.size).size
          /\ DOMAIN G = DOMAIN majors \cup {base}
          /\ \A x \in DOMAIN majors : G[x].first = majors[x].first
      BY <1>1, GrownRegion
    <2>2. Link(G, base, a, NULL, NULL)
      BY <1>6
    <2> HIDE DEF G, a
    <2>3. /\ Heap(G, minors, l_memRoot') /\ l_allocated' = Total(G)
          /\ l_bestBet' \in DOMAIN G \cup {NULL}
          /\ \A x \in DOMAIN G : x # base => G[x].first # NULL
      BY <1>1, <1>2, <1>3, <1>4, <1>6, <2>1
    <2> QED
      BY <1>1, <1>4, <1>5, <2>1, <2>2, <2>3, LinkKeeps
  <1>7. ASSUME Return(call, NULL),
               UNCHANGED <<majors, minors, l_allocated, l_inuse, pad, dead>>
        PROVE  IInv'
    <2>1. UNCHANGED <<l_memRoot, majors, minors, l_allocated, l_inuse, pad, l_errorCount>>
      BY <1>1, <1>7
    <2> QED
      BY <1>2, <1>3, <1>5, <1>7, <2>1, NullKeeps
  <1> QED
    BY <1>6, <1>7 DEF Case1Grow

LEMMA Case5GrowKeeps ==
  ASSUME IInv, Case5Grow
  PROVE  IInv'
  <1>1. /\ pc = "minor" /\ Exhausted /\ majors[call.maj].next = NULL /\ ~ call.startedBet
        /\ l_memRoot' = l_memRoot /\ l_errorCount' = l_errorCount /\ l_bestBet' = l_bestBet
        /\ minors' = minors /\ l_inuse' = l_inuse /\ pad' = pad
    BY DEF Case5Grow, Exhausted, KeepHeader
  <1>3. \A x \in DOMAIN majors : majors[x].first # NULL
    BY <1>1, FirstsThere
  <1>4. Misc /\ Clients /\ l_inuse = Total(minors) /\ l_allocated = Total(majors)
    BY DEF IInv, Totals
  <1>5. Asked(call)
    BY <1>1, SearchState
  <1>6. ASSUME NEW base \in liballoc_alloc(NewPages(call.size)) \ {NULL},
               majors' = Grown(base), l_allocated' = l_allocated + NewMajor(call.size).size,
               pc' = "major", call' = [call EXCEPT !.maj = base], blocks' = blocks
        PROVE  IInv'
    <2>1. /\ Heap(majors', minors, l_memRoot)
          /\ Total(majors') = Total(majors) + NewMajor(call.size).size
          /\ DOMAIN majors' = DOMAIN majors \cup {base}
          /\ \A x \in DOMAIN majors : /\ majors'[x].first = majors[x].first
                                      /\ majors'[x].size = majors[x].size
                                      /\ x # call.maj => majors'[x].next = majors[x].next
                                      /\ x = call.maj => majors'[x].next = base
          /\ Need <= majors'[base].size - majors'[base].usage
      BY <1>1, <1>6, GrownRegion
    <2>2. /\ DOMAIN call' = DOMAIN call /\ call'.cont = call.cont /\ call'.req = call.req
          /\ call'.want = call.want /\ call'.size = call.size /\ call'.real = call.real
          /\ call'.old = call.old /\ call'.startedBet = call.startedBet
          /\ call'.startedBet \in BOOLEAN /\ call'.maj = base
      BY <1>5, <1>6 DEF Asked
    <2>3. Asked(call)'
      BY <1>5, <1>6, <2>2, AskedAfter
    <2>4. Heap(majors, minors, l_memRoot)' /\ Totals' /\ Clients'
      BY <1>1, <1>4, <1>6, <2>1 DEF Totals, Clients
    <2>5. Misc'
      BY <1>1, <1>4, <1>6, <2>1 DEF Misc
    <2>6. InCall'
      BY <1>6, <2>1, <2>2, <2>3 DEF InCall
    <2>7. Need' = Need
      BY <2>2 DEF Need
    <2>8. NoneEmpty'
      BY <1>3, <1>6, <2>1, <2>2, <2>7 DEF NoneEmpty
    <2>9. ~ Fits(call.maj, Need)
      BY <1>1, ExhaustedNoFit
    <2>10. /\ \A m \in DOMAIN majors : ~ Fits(m, Need)
           /\ \A m \in DOMAIN majors : m # call.maj => majors[m].next \in DOMAIN majors
           /\ l_memRoot \in DOMAIN majors
      BY <1>1, <2>9, SearchEnds, RootThere
    <2>11. \A m \in DOMAIN majors : ~ Fits(m, Need)'
      BY <1>1, <2>1, <2>2, <2>10, FitsSame
    <2>12. \A m \in DOMAIN majors : majors'[m].next \in DOMAIN majors \cup {base}
      BY <2>1, <2>10
    <2>13. (\E D \in SUBSET DOMAIN majors : Seen(D))'
      <3> DEFINE E == DOMAIN majors
      <3>1. /\ E \in SUBSET DOMAIN majors' /\ l_memRoot' \in E \cup {call'.maj}
            /\ \A m \in E : majors'[m].next \in E \cup {call'.maj}
            /\ \A m \in E : ~ Fits(m, Need)'
        BY <1>1, <2>1, <2>2, <2>10, <2>11, <2>12
      <3> HIDE DEF E
      <3>2. \E D \in SUBSET DOMAIN majors' :
              /\ l_memRoot' \in D \cup {call'.maj}
              /\ \A m \in D : majors'[m].next \in D \cup {call'.maj}
              /\ \A m \in D : ~ Fits(m, Need)'
        BY <3>1
      <3> QED
        BY <3>2 DEF Seen
    <2>14. Searched'
      BY <1>6, <2>13 DEF Searched
    <2> QED
      BY <2>4, <2>5, <2>6, <2>8, <2>14 DEF IInv
  <1>7. ASSUME Return(call, NULL), majors' = majors, l_allocated' = l_allocated
        PROVE  IInv'
    <2>1. /\ UNCHANGED <<l_memRoot, majors, minors, l_allocated, l_inuse, pad, l_errorCount>>
          /\ l_bestBet' \in DOMAIN majors \cup {NULL}
      BY <1>1, <1>4, <1>7 DEF Misc
    <2> QED
      BY <1>3, <1>5, <1>7, <2>1, NullKeeps
  <1> QED
    BY <1>6, <1>7 DEF Case5Grow

-----------------------------------------------------------------------------
(* A call begins.                                                          *)

LEMMA SearchFromIs ==
  ASSUME NEW c, Asked(c), NEW root, NEW best, NEW s, s = SearchFrom(c, root, best)
  PROVE  /\ DOMAIN s = DOMAIN c /\ s.cont = c.cont /\ s.req = c.req /\ s.want = c.want
         /\ s.size = c.size /\ s.real = c.real /\ s.old = c.old
         /\ s.startedBet \in BOOLEAN
         /\ s.startedBet => l_bestBet # NULL /\ s.maj = l_bestBet
         /\ ~ s.startedBet => s.maj = root
  <1> DEFINE bet == l_bestBet # NULL /\ ULess(c.size + SIZEOF_MINOR, best)
             maj == IF bet THEN l_bestBet ELSE root
  <1>1. s = [c EXCEPT !.startedBet = bet, !.bestSize = best, !.maj = maj]
    BY DEF SearchFrom
  <1>2. DOMAIN c = {"cont", "req", "want", "size", "real", "old", "new", "maj", "min",
                    "startedBet", "bestSize"}
    BY DEF Asked
  <1>3. /\ bet \in BOOLEAN
        /\ bet => l_bestBet # NULL /\ maj = l_bestBet
        /\ ~ bet => maj = root
    OBVIOUS
  <1> HIDE DEF bet, maj
  <1>4. /\ DOMAIN s = DOMAIN c /\ s.cont = c.cont /\ s.req = c.req /\ s.want = c.want
        /\ s.size = c.size /\ s.real = c.real /\ s.old = c.old
        /\ s.startedBet = bet /\ s.maj = maj
    BY <1>1, <1>2
  <1> QED
    BY <1>3, <1>4

(* The search starts over a heap in which only the root may be empty. *)
LEMMA StartKeeps ==
  ASSUME NEW c, Asked(c), NEW root, NEW best,
         Misc, Clients, Heap(majors', minors', l_memRoot'), Totals',
         minors' = minors, pad' = pad, blocks' = blocks, l_errorCount' = l_errorCount,
         l_bestBet' = l_bestBet, l_bestBet \in DOMAIN majors' \cup {NULL},
         l_memRoot' = root, root \in DOMAIN majors',
         pc' = "major", call' = SearchFrom(c, root, best),
         \A m \in DOMAIN majors' : majors'[m].first = NULL =>
           /\ call'.maj = m
           /\ c.size + SIZEOF_MINOR <= majors'[m].size - majors'[m].usage
  PROVE  IInv'
  <1>1. /\ DOMAIN call' = DOMAIN c /\ call'.cont = c.cont /\ call'.req = c.req
        /\ call'.want = c.want /\ call'.size = c.size /\ call'.real = c.real
        /\ call'.old = c.old /\ call'.startedBet \in BOOLEAN
        /\ call'.startedBet => l_bestBet # NULL /\ call'.maj = l_bestBet
        /\ ~ call'.startedBet => call'.maj = root
    BY SearchFromIs
  <1>2. Asked(call)'
    BY <1>1, AskedAfter
  <1>3. call'.maj \in DOMAIN majors'
    BY <1>1
  <1>4. Clients' /\ Misc'
    BY DEF Clients, Misc
  <1>5. InCall'
    BY <1>2, <1>3 DEF InCall
  <1>6. NoneEmpty'
    BY <1>1 DEF NoneEmpty, Need
  <1>7. ~ call'.startedBet => (\E D \in SUBSET DOMAIN majors : Seen(D))'
    <2> SUFFICES ASSUME ~ call'.startedBet
                 PROVE  (\E D \in SUBSET DOMAIN majors : Seen(D))'
      OBVIOUS
    <2>1. Seen({})'
      BY <1>1 DEF Seen
    <2>2. {} \in SUBSET DOMAIN majors'
      OBVIOUS
    <2> QED BY <2>1, <2>2
  <1>8. Searched'
    BY <1>7 DEF Searched
  <1> QED
    BY <1>4, <1>5, <1>6, <1>8 DEF IInv

LEMMA EnterKeeps ==
  ASSUME IInv, pc = "idle", NEW req \in Nat,
         NEW cont \in {"malloc", "calloc", "realloc"}, NEW real \in Nat, NEW old,
         req + ALIGNMENT + ALIGN_INFO + SIZEOF_MAJOR + SIZEOF_MINOR + l_pageSize <= UINT,
         cont = "realloc" => old \in DOMAIN blocks /\ real = blocks[old] /\ real < req,
         Enter(req, req, cont, real, old), l_errorCount' = l_errorCount
  PROVE  IInv'
  <1> DEFINE c == [cont |-> cont, req |-> req, want |-> req, size |-> Padded(req),
                   real |-> real, old |-> old, new |-> NULL, maj |-> NULL, min |-> NULL,
                   startedBet |-> FALSE, bestSize |-> 0]
             best == IF l_bestBet = NULL THEN 0 ELSE FreeIn(l_bestBet)
  <1>0. /\ ALIGNMENT \in Nat /\ ALIGN_INFO \in Nat /\ ALIGN_INFO > 0
        /\ SIZEOF_MAJOR \in Nat /\ SIZEOF_MINOR \in Nat /\ l_pageSize \in Nat
    BY LayoutAssumption
  <1>1. Padded(req) = req + ALIGNMENT + ALIGN_INFO /\ Padded(req) # 0 /\ Padded(req) \in Nat
    BY <1>0 DEF Padded
  <1>2. \/ /\ l_memRoot # NULL
           /\ pc' = "major" /\ call' = SearchFrom(c, l_memRoot, best)
           /\ UNCHANGED <<heapVars, blocks>>
        \/ /\ l_memRoot = NULL
           /\ \E base \in liballoc_alloc(NewPages(c.size)) \ {NULL} :
                /\ majors' = With(majors, base, NewMajor(c.size))
                /\ l_memRoot' = base
                /\ l_allocated' = l_allocated + NewMajor(c.size).size
                /\ pc' = "major" /\ call' = SearchFrom(c, base, best)
           /\ UNCHANGED <<l_bestBet, minors, l_inuse, pad, blocks>>
        \/ l_memRoot = NULL /\ Return(c, NULL) /\ UNCHANGED heapVars
    BY <1>1 DEF Enter
  <1>3. Asked(c)
    BY <1>0, <1>1 DEF Asked
  <1>4. /\ c.size \in Nat /\ MinSize <= c.size
        /\ c.size + SIZEOF_MAJOR + SIZEOF_MINOR + l_pageSize <= UINT
    BY <1>0, <1>1 DEF MinSize
  <1> HIDE DEF c, best
  <1>5. /\ Misc /\ Clients /\ Heap(majors, minors, l_memRoot) /\ Totals
        /\ \A m \in DOMAIN majors : majors[m].first # NULL
    BY DEF IInv, NoneEmpty
  <1>6. CASE /\ l_memRoot # NULL
             /\ pc' = "major" /\ call' = SearchFrom(c, l_memRoot, best)
             /\ UNCHANGED <<heapVars, blocks>>
    <2>1. /\ l_memRoot' = l_memRoot /\ l_bestBet' = l_bestBet /\ majors' = majors
          /\ minors' = minors /\ l_allocated' = l_allocated /\ l_inuse' = l_inuse
          /\ pad' = pad /\ blocks' = blocks
      BY <1>6 DEF heapVars
    <2>2. l_memRoot \in DOMAIN majors /\ l_bestBet \in DOMAIN majors \cup {NULL}
      BY <1>5, <1>6 DEF Heap, Chain, Misc
    <2>3. Totals' /\ Heap(majors', minors', l_memRoot')
      BY <1>5, <2>1 DEF Totals
    <2> DEFINE root == l_memRoot
    <2>4. /\ l_memRoot' = root /\ root \in DOMAIN majors'
          /\ call' = SearchFrom(c, root, best) /\ pc' = "major"
          /\ l_bestBet \in DOMAIN majors' \cup {NULL}
          /\ \A m \in DOMAIN majors' : majors'[m].first # NULL
      BY <1>5, <1>6, <2>1, <2>2
    <2> HIDE DEF root
    <2> QED
      BY <1>3, <1>5, <2>1, <2>3, <2>4, StartKeeps
  <1>7. ASSUME l_memRoot = NULL,
               NEW base \in liballoc_alloc(NewPages(c.size)) \ {NULL},
               majors' = With(majors, base, NewMajor(c.size)),
               l_memRoot' = base, l_allocated' = l_allocated + NewMajor(c.size).size,
               pc' = "major", call' = SearchFrom(c, base, best),
               UNCHANGED <<l_bestBet, minors, l_inuse, pad, blocks>>
        PROVE  IInv'
    <2>0. Heap(majors, minors, NULL) /\ DOMAIN majors = {}
      <3>1. Chain(majors, l_memRoot) /\ Heap(majors, minors, l_memRoot)
        BY <1>5 DEF Heap
      <3> QED BY <1>7, <3>1, NoRootNoMajors
    <2>2. /\ Heap(majors', minors, base)
          /\ Total(majors') = Total(majors) + NewMajor(c.size).size
          /\ DOMAIN majors' = DOMAIN majors \cup {base}
          /\ c.size + SIZEOF_MINOR <= majors'[base].size - majors'[base].usage
      <3>1. Append(majors, NULL, NULL, base, NewPages(c.size), majors', base)
        BY <1>4, <1>7, <2>0, RootAppends
      <3> DEFINE r == NULL
      <3>2. Heap(majors, minors, r) /\ Append(majors, r, r, base, NewPages(c.size), majors', base)
        BY <2>0, <3>1
      <3> HIDE DEF r
      <3> QED
        BY <1>4, <3>2, RootRegion
    <2>3. /\ DOMAIN majors' = {base} /\ l_bestBet = NULL
      BY <1>5, <2>0, <2>2 DEF Misc
    <2>4. Totals' /\ Heap(majors', minors', l_memRoot')
      BY <1>5, <1>7, <2>2 DEF Totals
    <2>5. call'.maj = base
      BY <1>3, <1>7, <2>3, SearchFromIs
    <2> QED
      BY <1>3, <1>5, <1>7, <2>2, <2>3, <2>4, <2>5, StartKeeps
  <1>8. CASE l_memRoot = NULL /\ Return(c, NULL) /\ UNCHANGED heapVars
    <2>1. /\ UNCHANGED <<l_memRoot, majors, minors, l_allocated, l_inuse, pad, l_errorCount>>
          /\ l_bestBet' = l_bestBet
      BY <1>8 DEF heapVars
    <2>2. l_bestBet' \in DOMAIN majors \cup {NULL}
      BY <1>5, <2>1 DEF Misc
    <2> QED
      BY <1>3, <1>5, <1>8, <2>1, <2>2, NullKeeps
  <1> QED
    BY <1>2, <1>6, <1>7, <1>8

-----------------------------------------------------------------------------
(* A block is freed.                                                       *)

LEMMA ReleaseState ==
  ASSUME Heap(majors, minors, l_memRoot), Totals, Misc,
         \A m \in DOMAIN majors : majors[m].first # NULL,
         NEW ptr, NEW n, Owned(pad, minors, ptr, n), Release(ptr)
  PROVE  /\ Heap(majors', minors', l_memRoot') /\ Totals'
         /\ l_bestBet' \in DOMAIN majors' \cup {NULL}
         /\ DOMAIN pad' \subseteq Nat /\ pad' \in [DOMAIN pad' -> Nat]
         /\ \A m \in DOMAIN majors' : majors'[m].first # NULL
  <1> DEFINE a == HeaderOf(ptr)
             m == minors[a].block
             M1 == Trimmed(a)
  <1>0. /\ Placed(majors, minors) /\ DOMAIN pad \subseteq Nat /\ pad \in [DOMAIN pad -> Nat]
        /\ l_bestBet \in DOMAIN majors \cup {NULL}
    BY DEF Heap, Misc
  <1>1. a \in DOMAIN minors
    BY <1>0, HeaderFound, OwnedWhere
  <1>2. l_inuse' = l_inuse - minors[a].size /\ pad' = Restrict(pad, DOMAIN pad \ {ptr})
    BY DEF Release
  <1>3. Delete(majors, minors, a, M1, minors')
    BY <1>1, ReleaseDeletes
  <1>4. /\ Heap(M1, minors', l_memRoot)
        /\ \/ /\ Drop(M1, minors', l_memRoot, m, majors', l_memRoot')
              /\ l_allocated' = l_allocated - M1[m].size
              /\ l_bestBet' = BetWithout(m)
           \/ /\ majors' = M1 /\ l_memRoot' = l_memRoot /\ l_allocated' = l_allocated
              /\ M1[m].first # NULL
              /\ l_bestBet' = m \/ l_bestBet' = l_bestBet
    BY <1>1, ReleaseDrops
  <1>5. m \in DOMAIN majors /\ minors[a].block = m
    BY <1>0, <1>1 DEF Placed
  <1> HIDE DEF a, m, M1
  <1>6. /\ DOMAIN M1 = DOMAIN majors
        /\ \A x \in DOMAIN majors : x # m => M1[x].first = majors[x].first
    BY <1>3, <1>5 DEF Delete
  <1>7. Total(minors') = Total(minors) - minors[a].size /\ Total(M1) = Total(majors)
    BY <1>3, DeleteTotals
  <1>8. l_inuse' = Total(minors')
    BY <1>2, <1>7 DEF Totals
  <1>9. DOMAIN pad' \subseteq Nat /\ pad' \in [DOMAIN pad' -> Nat]
    BY <1>0, <1>2 DEF Restrict
  <1>10. CASE /\ Drop(M1, minors', l_memRoot, m, majors', l_memRoot')
              /\ l_allocated' = l_allocated - M1[m].size
              /\ l_bestBet' = BetWithout(m)
    <2>1. Heap(majors', minors', l_memRoot')
      BY <1>4, <1>10, DropKeeps
    <2>2. Total(majors') = Total(M1) - M1[m].size
      BY <1>4, <1>10, DropTotals
    <2>3. Totals'
      BY <1>7, <1>8, <1>10, <2>2 DEF Totals
    <2>4. /\ DOMAIN majors' = DOMAIN M1 \ {m}
          /\ \A x \in DOMAIN M1 \ {m} : majors'[x].first = M1[x].first
      BY <1>10 DEF Drop
    <2>5. l_bestBet' \in DOMAIN majors' \cup {NULL}
      BY <1>0, <1>6, <1>10, <2>4 DEF BetWithout
    <2>6. \A x \in DOMAIN majors' : majors'[x].first # NULL
      BY <1>6, <2>4
    <2> QED
      BY <1>9, <2>1, <2>3, <2>5, <2>6
  <1>11. CASE /\ majors' = M1 /\ l_memRoot' = l_memRoot /\ l_allocated' = l_allocated
              /\ M1[m].first # NULL
              /\ l_bestBet' = m \/ l_bestBet' = l_bestBet
    <2>1. Heap(majors', minors', l_memRoot')
      BY <1>4, <1>11
    <2>2. Totals'
      BY <1>7, <1>8, <1>11 DEF Totals
    <2>3. l_bestBet' \in DOMAIN majors' \cup {NULL}
      BY <1>0, <1>5, <1>6, <1>11
    <2>4. \A x \in DOMAIN majors' : majors'[x].first # NULL
      BY <1>6, <1>11
    <2> QED
      BY <1>9, <2>1, <2>2, <2>3, <2>4
  <1> QED
    BY <1>4, <1>10, <1>11

(* The other blocks stay where they are. *)
LEMMA ReleaseOthers ==
  ASSUME Heap(majors, minors, l_memRoot), Misc,
         NEW ptr, NEW n, Owned(pad, minors, ptr, n), Release(ptr),
         NEW q, NEW k, Owned(pad, minors, q, k), q # ptr
  PROVE  Owned(pad', minors', q, k)
  <1> DEFINE a == HeaderOf(ptr)
             h == q - pad[q] - SIZEOF_MINOR
  <1>0. /\ Placed(majors, minors) /\ DOMAIN pad \subseteq Nat /\ pad \in [DOMAIN pad -> Nat]
    BY DEF Heap, Misc
  <1>1. a \in DOMAIN minors /\ a = ptr - pad[ptr] - SIZEOF_MINOR
    BY <1>0, HeaderFound, OwnedWhere
  <1>2. h # a
    BY <1>0, <1>1, OwnedApart
  <1>3. pad' = Restrict(pad, DOMAIN pad \ {ptr})
    BY DEF Release
  <1>4. Delete(majors, minors, a, Trimmed(a), minors')
    BY <1>1, ReleaseDeletes
  <1>5. h \in DOMAIN minors /\ q \in DOMAIN pad
    BY DEF Owned
  <1>6. /\ h \in DOMAIN minors' /\ minors'[h].size = minors[h].size
        /\ minors'[h].req_size = minors[h].req_size
    BY <1>2, <1>4, <1>5 DEF Delete
  <1>7. q \in DOMAIN pad' /\ pad'[q] = pad[q]
    BY <1>3, <1>5 DEF Restrict
  <1> QED
    BY <1>6, <1>7 DEF Owned

LEMMA kfreeKeeps ==
  ASSUME IInv, NEW ptr \in DOMAIN blocks, kfree(ptr)
  PROVE  IInv'
  <1>1. /\ pc = "idle" /\ Release(ptr) /\ pc' = "idle" /\ l_errorCount' = l_errorCount
        /\ blocks' = Restrict(blocks, DOMAIN blocks \ {ptr})
    BY DEF kfree
  <1>2. /\ Heap(majors, minors, l_memRoot) /\ Totals /\ Misc /\ Clients
        /\ \A m \in DOMAIN majors : majors[m].first # NULL
    BY <1>1 DEF IInv, NoneEmpty
  <1>3. Owned(pad, minors, ptr, blocks[ptr])
    BY <1>2 DEF Clients
  <1>4. /\ Heap(majors', minors', l_memRoot') /\ Totals'
        /\ l_bestBet' \in DOMAIN majors' \cup {NULL}
        /\ DOMAIN pad' \subseteq Nat /\ pad' \in [DOMAIN pad' -> Nat]
        /\ \A m \in DOMAIN majors' : majors'[m].first # NULL
    BY <1>1, <1>2, <1>3, ReleaseState
  <1>5. Clients'
    <2> SUFFICES ASSUME NEW q \in DOMAIN blocks'
                 PROVE  Owned(pad', minors', q, blocks'[q])
      BY DEF Clients
    <2>1. q \in DOMAIN blocks /\ q # ptr /\ blocks'[q] = blocks[q]
      BY <1>1 DEF Restrict
    <2>2. Owned(pad, minors, q, blocks[q])
      BY <1>2, <2>1 DEF Clients
    <2> QED
      BY <1>1, <1>2, <1>3, <2>1, <2>2, ReleaseOthers
  <1>6. Misc'
    BY <1>1, <1>2, <1>4 DEF Misc
  <1>7. InCall' /\ NoneEmpty' /\ Searched'
    BY <1>1, <1>4 DEF InCall, NoneEmpty, Searched
  <1> QED
    BY <1>4, <1>5, <1>6, <1>7 DEF IInv

LEMMA kreallocCopyKeeps ==
  ASSUME IInv, krealloc_copy
  PROVE  IInv'
  <1> DEFINE kept == Restrict(blocks, DOMAIN blocks \ {call.old})
  <1>1. /\ pc = "copy" /\ Release(call.old) /\ pc' = "idle" /\ l_errorCount' = l_errorCount
        /\ blocks' = IF call.new = NULL THEN kept ELSE With(kept, call.new, call.want)
    BY DEF krealloc_copy
  <1>2. /\ Heap(majors, minors, l_memRoot) /\ Totals /\ Misc /\ Clients
        /\ \A m \in DOMAIN majors : majors[m].first # NULL
        /\ Asked(call) /\ call.cont = "realloc"
        /\ call.new # NULL =>
             call.new \notin DOMAIN blocks /\ Owned(pad, minors, call.new, call.want)
    BY <1>1 DEF IInv, NoneEmpty, InCall
  <1>3. call.old \in DOMAIN blocks /\ Owned(pad, minors, call.old, blocks[call.old])
    BY <1>2 DEF Clients, Asked
  <1>4. /\ Heap(majors', minors', l_memRoot') /\ Totals'
        /\ l_bestBet' \in DOMAIN majors' \cup {NULL}
        /\ DOMAIN pad' \subseteq Nat /\ pad' \in [DOMAIN pad' -> Nat]
        /\ \A m \in DOMAIN majors' : majors'[m].first # NULL
    BY <1>1, <1>2, <1>3, ReleaseState
  <1>5. \A q \in DOMAIN kept : kept[q] = blocks[q] /\ Owned(pad', minors', q, kept[q])
    <2> SUFFICES ASSUME NEW q \in DOMAIN kept
                 PROVE  kept[q] = blocks[q] /\ Owned(pad', minors', q, kept[q])
      OBVIOUS
    <2>1. q \in DOMAIN blocks /\ q # call.old /\ kept[q] = blocks[q]
      BY DEF Restrict
    <2>2. Owned(pad, minors, q, blocks[q])
      BY <1>2, <2>1 DEF Clients
    <2>3. Owned(pad', minors', q, blocks[q])
      BY <1>1, <1>2, <1>3, <2>1, <2>2, ReleaseOthers
    <2> QED BY <2>1, <2>3
  <1>6. call.new # NULL => Owned(pad', minors', call.new, call.want)
    BY <1>1, <1>2, <1>3, ReleaseOthers
  <1> HIDE DEF kept
  <1>7. Clients'
    <2>1. CASE call.new = NULL
      BY <1>1, <1>5, <2>1 DEF Clients
    <2>2. CASE call.new # NULL
      <3>1. blocks' = With(kept, call.new, call.want)
        BY <1>1, <2>2
      <3>2. /\ DOMAIN blocks' = DOMAIN kept \cup {call.new} /\ blocks'[call.new] = call.want
            /\ \A q \in DOMAIN kept : q # call.new => blocks'[q] = kept[q]
        BY <3>1 DEF With
      <3> QED
        BY <1>5, <1>6, <2>2, <3>2 DEF Clients
    <2> QED BY <2>1, <2>2
  <1>8. Misc'
    BY <1>1, <1>2, <1>4 DEF Misc
  <1>9. InCall' /\ NoneEmpty' /\ Searched'
    BY <1>1, <1>4 DEF InCall, NoneEmpty, Searched
  <1> QED
    BY <1>4, <1>7, <1>8, <1>9 DEF IInv

-----------------------------------------------------------------------------
(* krealloc in place, the calls, and the invariant.                        *)

LEMMA SizeNoteKeeps ==
  ASSUME NEW M, NEW N, NEW r, Heap(M, N, r), NEW N2,
         DOMAIN N2 = DOMAIN N, N2 \in [DOMAIN N -> MinorType],
         \A x \in DOMAIN N : /\ N2[x].prev = N[x].prev /\ N2[x].next = N[x].next
                             /\ N2[x].block = N[x].block /\ N2[x].size = N[x].size
  PROVE  Heap(M, N2, r) /\ Total(N2) = Total(N)
  <1>0. /\ Regions(M) /\ Chain(M, r) /\ Placed(M, N) /\ Firsts(M, N) /\ Ordered(M, N)
        /\ Used(M, N) /\ IsFiniteSet(DOMAIN N)
    BY HeapSizes DEF Heap
  <1>1. \A m : In(N2, m) = In(N, m)
    BY DEF In
  <1>2. \A x \in DOMAIN N : End(N2, x) = End(N, x)
    BY DEF End
  <1>3. Spans(N2) = Spans(N)
    BY DEF Spans
  <1>4. Placed(M, N2)
    BY <1>0, <1>2 DEF Placed
  <1>5. Firsts(M, N2)
    BY <1>0, <1>1 DEF Firsts
  <1>6. Ordered(M, N2)
    <2> SUFFICES ASSUME NEW a \in DOMAIN N
                 PROVE  /\ N2[a].next \in In(N2, N2[a].block) \cup {NULL}
                        /\ N2[a].prev \in In(N2, N2[a].block) \cup {NULL}
                        /\ N2[a].next # NULL =>
                             /\ a < N2[a].next
                             /\ N2[N2[a].next].prev = a
                             /\ \A b \in In(N2, N2[a].block) : b <= a \/ N2[a].next <= b
                        /\ N2[a].next = NULL => \A b \in In(N2, N2[a].block) : b <= a
                        /\ N2[a].prev # NULL => N2[N2[a].prev].next = a
                        /\ N2[a].prev = NULL <=> a = M[N2[a].block].first
      BY DEF Ordered
    <2>1. /\ N[a].next \in In(N, N[a].block) \cup {NULL}
          /\ N[a].prev \in In(N, N[a].block) \cup {NULL}
          /\ N[a].next # NULL =>
               /\ a < N[a].next
               /\ N[N[a].next].prev = a
               /\ \A b \in In(N, N[a].block) : b <= a \/ N[a].next <= b
          /\ N[a].next = NULL => \A b \in In(N, N[a].block) : b <= a
          /\ N[a].prev # NULL => N[N[a].prev].next = a
          /\ N[a].prev = NULL <=> a = M[N[a].block].first
      BY <1>0 DEF Ordered
    <2>2. \A m : In(N, m) \subseteq DOMAIN N
      BY DEF In
    <2> QED
      BY <1>1, <2>1, <2>2
  <1>7. Used(M, N2)
    BY <1>0, <1>1, <1>3 DEF Used
  <1>8. Total(N2) = Total(N)
    BY <1>0, TotalSame
  <1> QED
    BY <1>0, <1>4, <1>5, <1>6, <1>7, <1>8 DEF Heap

LEMMA ShrinkKeeps ==
  ASSUME IInv, NEW ptr \in DOMAIN blocks, NEW n \in Resizes, pc = "idle",
         minors[HeaderOf(ptr)].req_size >= n,
         minors' = [minors EXCEPT ![HeaderOf(ptr)].req_size = n % UINT],
         blocks' = [blocks EXCEPT ![ptr] = n],
         UNCHANGED <<l_memRoot, l_bestBet, majors, l_allocated, l_inuse, pad, pc, call>>,
         l_errorCount' = l_errorCount
  PROVE  IInv'
  <1> DEFINE a == HeaderOf(ptr)
  <1>0. /\ Heap(majors, minors, l_memRoot) /\ Totals /\ Misc /\ Clients
        /\ \A m \in DOMAIN majors : majors[m].first # NULL
        /\ DOMAIN pad \subseteq Nat /\ pad \in [DOMAIN pad -> Nat] /\ Placed(majors, minors)
    BY DEF IInv, NoneEmpty, Misc, Heap
  <1>1. n \in Nat /\ n % UINT = n
    <2>1. /\ n \in Nat /\ ALIGNMENT \in Nat /\ ALIGN_INFO \in Nat /\ SIZEOF_MAJOR \in Nat
          /\ SIZEOF_MINOR \in Nat /\ l_pageSize \in Nat /\ l_pageSize > 0 /\ UINT \in Nat
          /\ n + ALIGNMENT + ALIGN_INFO + SIZEOF_MAJOR + SIZEOF_MINOR + l_pageSize <= UINT
      BY LayoutAssumption, SizesAssumption
    <2>2. n < UINT
      BY <2>1
    <2> QED BY <2>1, <2>2, InRange
  <1>2. Owned(pad, minors, ptr, blocks[ptr])
    BY <1>0 DEF Clients
  <1>3. /\ a \in DOMAIN minors /\ minors[a].req_size = blocks[ptr]
        /\ minors[a].size >= Padded(blocks[ptr]) /\ a = ptr - pad[ptr] - SIZEOF_MINOR
        /\ ptr \in DOMAIN pad /\ ptr = AlignedUp(ptr - pad[ptr])
    BY <1>0, <1>2, HeaderFound DEF Owned
  <1>4. minors \in [DOMAIN minors -> MinorType] /\ minors[a] \in MinorType
    BY <1>0, <1>3 DEF Placed
  <1> DEFINE j == [minors[a] EXCEPT !.req_size = n]
  <1>5. /\ minors' = [minors EXCEPT ![a] = j] /\ j \in MinorType /\ j.req_size = n
        /\ j.prev = minors[a].prev /\ j.next = minors[a].next
        /\ j.block = minors[a].block /\ j.size = minors[a].size
    BY <1>1, <1>4 DEF MinorType
  <1> HIDE DEF a, j
  <1>6. /\ DOMAIN minors' = DOMAIN minors /\ minors' \in [DOMAIN minors -> MinorType]
        /\ minors'[a].req_size = n
        /\ \A x \in DOMAIN minors :
             /\ minors'[x].prev = minors[x].prev /\ minors'[x].next = minors[x].next
             /\ minors'[x].block = minors[x].block /\ minors'[x].size = minors[x].size
             /\ x # a => minors'[x].req_size = minors[x].req_size
    BY <1>3, <1>4, <1>5
  <1>7. Heap(majors, minors', l_memRoot) /\ Total(minors') = Total(minors)
    <2> DEFINE N2 == minors'
    <2>1. /\ DOMAIN N2 = DOMAIN minors /\ N2 \in [DOMAIN minors -> MinorType]
          /\ \A x \in DOMAIN minors :
               /\ N2[x].prev = minors[x].prev /\ N2[x].next = minors[x].next
               /\ N2[x].block = minors[x].block /\ N2[x].size = minors[x].size
      BY <1>6
    <2>2. Heap(majors, N2, l_memRoot) /\ Total(N2) = Total(minors)
      <3> HIDE DEF N2
      <3> QED
        BY <1>0, <2>1, SizeNoteKeeps
    <2> QED BY <2>2
  <1>8. Totals' /\ Misc'
    BY <1>0, <1>7 DEF Totals, Misc
  <1>9. Clients'
    <2> SUFFICES ASSUME NEW q \in DOMAIN blocks
                 PROVE  Owned(pad, minors', q, blocks'[q])
      BY DEF Clients
    <2>1. CASE q = ptr
      <3>1. blocks'[ptr] = n
        OBVIOUS
      <3>2. Padded(blocks[ptr]) >= Padded(n) /\ Padded(n) \in Nat /\ Padded(blocks[ptr]) \in Nat
        <4>1. blocks[ptr] \in Nat /\ blocks[ptr] >= n
          BY <1>3, <1>4 DEF MinorType, a
        <4>2. ALIGNMENT \in Nat /\ ALIGN_INFO \in Nat
          BY LayoutAssumption
        <4> QED BY <1>1, <4>1, <4>2 DEF Padded
      <3>3. minors'[a].size >= Padded(n)
        <4>1. minors[a].size \in Nat
          BY <1>4 DEF MinorType
        <4> QED BY <1>3, <1>6, <3>2, <4>1
      <3> QED
        BY <1>3, <1>6, <2>1, <3>1, <3>3 DEF Owned
    <2>2. CASE q # ptr
      <3> DEFINE h == q - pad[q] - SIZEOF_MINOR
      <3>1. blocks'[q] = blocks[q] /\ Owned(pad, minors, q, blocks[q])
        BY <1>0, <2>2 DEF Clients
      <3>2. h # a
        BY <1>0, <1>2, <1>3, <2>2, <3>1, OwnedApart
      <3>3. h \in DOMAIN minors
        BY <3>1 DEF Owned
      <3>4. /\ h \in DOMAIN minors' /\ minors'[h].size = minors[h].size
            /\ minors'[h].req_size = minors[h].req_size
        BY <1>6, <3>2, <3>3
      <3> QED
        BY <3>1, <3>4 DEF Owned
    <2> QED BY <2>1, <2>2
  <1>10. InCall' /\ NoneEmpty' /\ Searched'
    BY <1>0 DEF InCall, NoneEmpty, Searched
  <1> QED
    BY <1>7, <1>8, <1>9, <1>10 DEF IInv

LEMMA SizeInRange ==
  ASSUME NEW n \in Requests \cup Resizes \cup {arr[1] * arr[2] : arr \in Arrays}
  PROVE  /\ n \in Nat
         /\ n + ALIGNMENT + ALIGN_INFO + SIZEOF_MAJOR + SIZEOF_MINOR + l_pageSize <= UINT
  <1>1. n + ALIGNMENT + ALIGN_INFO + SIZEOF_MAJOR + SIZEOF_MINOR + l_pageSize <= UINT
    BY SizesAssumption
  <1>2. CASE n \in Requests \cup Resizes
    BY <1>1, <1>2, LayoutAssumption
  <1>3. CASE n \in {arr[1] * arr[2] : arr \in Arrays}
    <2>1. PICK arr \in Arrays : n = arr[1] * arr[2]
      BY <1>3
    <2>2. arr[1] \in Nat /\ arr[2] \in Nat
      BY LayoutAssumption
    <2> QED BY <1>1, <2>1, <2>2
  <1> QED BY <1>2, <1>3

LEMMA kmallocKeeps ==
  ASSUME IInv, NEW n \in Requests, kmalloc(n)
  PROVE  IInv'
  <1>1. /\ pc = "idle" /\ Enter(n, n, "malloc", 0, NULL) /\ l_errorCount' = l_errorCount
    BY DEF kmalloc, MayAsk, KeepHeader
  <1>2. /\ n \in Nat
        /\ n + ALIGNMENT + ALIGN_INFO + SIZEOF_MAJOR + SIZEOF_MINOR + l_pageSize <= UINT
    BY SizeInRange
  <1> DEFINE cont == "malloc"
             real == 0
             old == NULL
  <1>3. /\ cont \in {"malloc", "calloc", "realloc"} /\ cont # "realloc" /\ real \in Nat
        /\ Enter(n, n, cont, real, old)
    BY <1>1
  <1> HIDE DEF cont, real, old
  <1> QED
    BY <1>1, <1>2, <1>3, EnterKeeps

LEMMA kcallocKeeps ==
  ASSUME IInv, NEW arr \in Arrays, kcalloc(arr[1], arr[2])
  PROVE  IInv'
  <1> DEFINE n == arr[1] * arr[2]
  <1>1. n \in {x[1] * x[2] : x \in Arrays}
    OBVIOUS
  <1>2. /\ n \in Nat
        /\ n + ALIGNMENT + ALIGN_INFO + SIZEOF_MAJOR + SIZEOF_MINOR + l_pageSize <= UINT
    <2> HIDE DEF n
    <2> QED
      BY <1>1, SizeInRange
  <1>3. 2 * n < UINT /\ UINT \in Nat
    BY SizesAssumption, LayoutAssumption
  <1>4. /\ pc = "idle" /\ Enter(ToInt(n), n, "calloc", ToInt(n), NULL)
        /\ l_errorCount' = l_errorCount
    BY DEF kcalloc, MayAsk, KeepHeader
  <1> HIDE DEF n
  <1>5. ToInt(n) = n
    <2>1. n % UINT = n
      BY <1>2, <1>3, InRange
    <2> QED
      BY <1>2, <1>3, <2>1 DEF ToInt
  <1> DEFINE cont == "calloc"
             old == NULL
  <1>6. /\ cont \in {"malloc", "calloc", "realloc"} /\ cont # "realloc"
        /\ Enter(n, n, cont, n, old)
    BY <1>4, <1>5
  <1> HIDE DEF cont, old
  <1> QED
    BY <1>2, <1>4, <1>6, EnterKeeps

LEMMA kreallocKeeps ==
  ASSUME IInv, NEW ptr \in DOMAIN blocks, NEW n \in Resizes, krealloc(ptr, n)
  PROVE  IInv'
  <1> DEFINE a == HeaderOf(ptr)
             real == minors[a].req_size
  <1>1. CASE n = 0 /\ kfree(ptr)
    BY <1>1, kfreeKeeps
  <1>2. CASE /\ pc = "idle" /\ n # 0 /\ real >= n
             /\ minors' = [minors EXCEPT ![a].req_size = n % UINT]
             /\ blocks' = [blocks EXCEPT ![ptr] = n]
             /\ UNCHANGED <<l_memRoot, l_bestBet, majors, l_allocated, l_inuse, pad, pc, call>>
             /\ KeepHeader
    <2>1. l_errorCount' = l_errorCount
      BY <1>2 DEF KeepHeader
    <2> QED
      BY <1>2, <2>1, ShrinkKeeps
  <1>3. CASE /\ MayAsk /\ n # 0 /\ real < n
             /\ Enter(n, n, "realloc", real, ptr)
             /\ KeepHeader
    <2>1. pc = "idle" /\ l_errorCount' = l_errorCount
      BY <1>3 DEF KeepHeader, MayAsk
    <2>2. /\ n \in Nat
          /\ n + ALIGNMENT + ALIGN_INFO + SIZEOF_MAJOR + SIZEOF_MINOR + l_pageSize <= UINT
      BY SizeInRange
    <2>3. /\ Placed(majors, minors) /\ DOMAIN pad \subseteq Nat /\ pad \in [DOMAIN pad -> Nat]
          /\ Owned(pad, minors, ptr, blocks[ptr])
      BY DEF IInv, Heap, Misc, Clients
    <2>4. real = blocks[ptr] /\ real \in Nat
      BY <2>3, HeaderFound, OwnedWhere
    <2> DEFINE cont == "realloc"
    <2>5. cont \in {"malloc", "calloc", "realloc"} /\ Enter(n, n, cont, real, ptr) /\ real < n
      BY <1>3
    <2> HIDE DEF cont, real
    <2> QED
      BY <2>1, <2>2, <2>4, <2>5, EnterKeeps
  <1> QED
    BY <1>1, <1>2, <1>3 DEF krealloc

LEMMA StaysKeeps ==
  ASSUME IInv, UNCHANGED <<heapVars, blocks>>, l_errorCount' \in 0 .. MaxErrors,
         \/ pc = "copy" /\ pc' = "panic"
         \/ pc = "idle" /\ pc' = "idle"
         \/ pc' = pc /\ call' = call
  PROVE  IInv'
  <1>1. /\ l_memRoot' = l_memRoot /\ l_bestBet' = l_bestBet /\ majors' = majors
        /\ minors' = minors /\ l_allocated' = l_allocated /\ l_inuse' = l_inuse
        /\ pad' = pad /\ blocks' = blocks
    BY DEF heapVars
  <1>2. Heap(majors, minors, l_memRoot)' /\ Totals' /\ Misc' /\ Clients'
    BY <1>1 DEF IInv, Totals, Misc, Clients
  <1>3. CASE pc' = "idle" /\ pc = "idle"
    BY <1>1, <1>2, <1>3 DEF IInv, InCall, NoneEmpty, Searched
  <1>4. CASE pc' = pc /\ call' = call
    <2>1. InCall' /\ NoneEmpty'
      BY <1>1, <1>4 DEF IInv, InCall, NoneEmpty, Asked, Need
    <2>2. /\ Need' = Need /\ FrontGap' = FrontGap /\ Searched
          /\ \A m : Fits(m, Need)' <=> Fits(m, Need)
      BY <1>1, <1>4, FitsSame DEF IInv, Need, FrontGap
    <2>3. ASSUME pc \in {"major", "minor"}, ~ call.startedBet
          PROVE  (\E D \in SUBSET DOMAIN majors : Seen(D))'
      <3>1. PICK D \in SUBSET DOMAIN majors : Seen(D)
        BY <2>2, <2>3 DEF Searched
      <3>2. Seen(D)'
        BY <1>1, <1>4, <2>2, <3>1 DEF Seen
      <3> QED BY <1>1, <3>2
    <2>4. Searched'
      BY <1>1, <1>4, <2>2, <2>3 DEF Searched
    <2> QED BY <1>2, <2>1, <2>4 DEF IInv
  <1>5. CASE pc' = "panic" /\ pc = "copy"
    <2>1. NoneEmpty'
      BY <1>1, <1>5 DEF IInv, NoneEmpty
    <2>2. InCall' /\ Searched'
      BY <1>5 DEF InCall, Searched
    <2> QED BY <1>2, <2>1, <2>2 DEF IInv
  <1> QED
    BY <1>3, <1>4, <1>5

-----------------------------------------------------------------------------
(* The invariant is inductive.                                             *)

LEMMA InitIInv ==
  ASSUME Init
  PROVE  IInv
  <1>1. /\ l_memRoot = NULL /\ l_bestBet = NULL
        /\ majors = << >> /\ minors = << >> /\ pad = << >> /\ blocks = << >>
        /\ l_allocated = 0 /\ l_inuse = 0 /\ l_errorCount = 0 /\ pc = "idle"
    BY DEF Init
  <1>2. /\ DOMAIN majors = {} /\ DOMAIN minors = {} /\ DOMAIN pad = {} /\ DOMAIN blocks = {}
    BY <1>1
  <1>3. \A f : DOMAIN f = {} => \A T : f \in [DOMAIN f -> T] <=> f = [x \in DOMAIN f |-> f[x]]
    OBVIOUS
  <1>4. /\ majors = [x \in DOMAIN majors |-> majors[x]]
        /\ minors = [x \in DOMAIN minors |-> minors[x]]
        /\ pad = [x \in DOMAIN pad |-> pad[x]]
    BY <1>1
  <1>5. Heap(majors, minors, l_memRoot)
    <2>1. Regions(majors)
      BY <1>2, <1>3, <1>4, FS_EmptySet DEF Regions
    <2>2. Chain(majors, l_memRoot)
      BY <1>1, <1>2 DEF Chain
    <2>3. Placed(majors, minors)
      BY <1>2, <1>3, <1>4, FS_EmptySet DEF Placed
    <2>4. Firsts(majors, minors) /\ Ordered(majors, minors) /\ Used(majors, minors)
      BY <1>2 DEF Firsts, Ordered, Used
    <2> QED
      BY <2>1, <2>2, <2>3, <2>4 DEF Heap
  <1>6. Totals
    <2>1. Total(majors) = 0 /\ Total(minors) = 0
      BY <1>2, SumEmpty DEF Total
    <2> QED BY <1>1, <2>1 DEF Totals
  <1>7. Misc
    <2>1. 0 \in 0 .. MaxErrors
      BY LayoutAssumption
    <2> QED BY <1>1, <1>2, <1>3, <1>4, <2>1 DEF Misc
  <1>8. Clients /\ InCall /\ NoneEmpty /\ Searched
    BY <1>1, <1>2 DEF Clients, InCall, NoneEmpty, Searched
  <1> QED
    BY <1>5, <1>6, <1>7, <1>8 DEF IInv

LEMMA SearchKeeps ==
  ASSUME IInv, Search
  PROVE  IInv'
  BY Case1HopKeeps, Case1RestartKeeps, Case1GrowKeeps, FitKeeps, Case4Keeps,
     Case4NextKeeps, Case5HopKeeps, Case5RestartKeeps, Case5GrowKeeps
     DEF Search

LEMMA NextKeeps ==
  ASSUME IInv, [Next]_vars
  PROVE  IInv'
  <1>1. ASSUME NEW n \in Requests, kmalloc(n) PROVE IInv'
    BY <1>1, kmallocKeeps
  <1>2. ASSUME NEW arr \in Arrays, kcalloc(arr[1], arr[2]) PROVE IInv'
    BY <1>2, kcallocKeeps
  <1>3. ASSUME NEW ptr \in DOMAIN blocks, kfree(ptr) PROVE IInv'
    BY <1>3, kfreeKeeps
  <1>4. ASSUME NEW ptr \in DOMAIN blocks, NEW n \in Resizes, krealloc(ptr, n) PROVE IInv'
    BY <1>4, kreallocKeeps
  <1>5. CASE Search
    BY <1>5, SearchKeeps
  <1>6. CASE krealloc_copy
    BY <1>6, kreallocCopyKeeps
  <1>0. l_errorCount \in 0 .. MaxErrors
    BY DEF IInv, Misc
  <1>7. CASE krealloc_fault
    <2>1. /\ UNCHANGED <<heapVars, blocks>> /\ l_errorCount' \in 0 .. MaxErrors
          /\ pc = "copy" /\ pc' = "panic"
      BY <1>0, <1>7 DEF krealloc_fault
    <2> QED BY <2>1, StaysKeeps
  <1>8. CASE DeadBlock
    <2>1. l_errorCount + 1 \in 0 .. MaxErrors
      BY <1>0, <1>8, LayoutAssumption DEF DeadBlock
    <2>2. /\ UNCHANGED <<heapVars, blocks>> /\ l_errorCount' \in 0 .. MaxErrors
          /\ pc = "idle" /\ pc' = "idle"
      BY <1>8, <2>1 DEF DeadBlock
    <2> QED BY <2>2, StaysKeeps
  <1>9. CASE UNCHANGED vars
    <2>1. /\ UNCHANGED <<heapVars, blocks>> /\ l_errorCount' \in 0 .. MaxErrors
          /\ pc' = pc /\ call' = call
      BY <1>0, <1>9 DEF vars
    <2> QED BY <2>1, StaysKeeps
  <1>10. CASE Panic
    BY <1>9, <1>10 DEF Panic
  <1> QED
    BY <1>1, <1>2, <1>3, <1>4, <1>5, <1>6, <1>7, <1>8, <1>9, <1>10 DEF Next

(* The invariant holds in every state the heap can reach, whatever the     *)
(* clients ask for and wherever the page hook places its regions.          *)
THEOREM Invariant == Spec => []IInv
  <1>1. Init => IInv
    BY InitIInv
  <1>2. IInv /\ [Next]_vars => IInv'
    BY NextKeeps
  <1> QED
    BY <1>1, <1>2, PTL DEF Spec

-----------------------------------------------------------------------------
(* What the heap keeps, in every state.                                    *)

(* No pointer dangles: every pointer the heap will follow is NULL or a     *)
(* live structure, in every step of every call (kfree takes a region back  *)
(* from l_bestBet before it returns its pages).                            *)
THEOREM TypeCorrect == Spec => []TypeOK
  <1>1. ASSUME IInv PROVE TypeOK
    <2>0. /\ Heap(majors, minors, l_memRoot) /\ Misc /\ InCall
          /\ \A m : MinorsOf(m) = In(minors, m)
      BY <1>1 DEF IInv, MinorsOf, In
    <2>1. /\ Chain(majors, l_memRoot) /\ Firsts(majors, minors) /\ Ordered(majors, minors)
          /\ Placed(majors, minors) /\ Regions(majors)
      BY <2>0 DEF Heap
    <2>2. ASSUME NEW m \in DOMAIN majors
          PROVE  majors[m].usage \in 0 .. majors[m].size
      <3>1. majors[m].usage <= majors[m].size /\ majors[m].usage \in Nat
        BY <2>0, UsageBound
      <3>2. majors[m].size \in Nat
        BY <2>1 DEF Regions, MajorType
      <3> QED BY <3>1, <3>2
    <2>3. \A m \in DOMAIN majors : /\ majors[m].next \in DOMAIN majors \cup {NULL}
                                   /\ majors[m].prev \in DOMAIN majors \cup {NULL}
                                   /\ majors[m].first \in MinorsOf(m) \cup {NULL}
      BY <2>0, <2>1 DEF Chain, Firsts
    <2>4. \A a \in DOMAIN minors :
            /\ minors[a].block \in DOMAIN majors
            /\ minors[a].next \in MinorsOf(minors[a].block) \cup {NULL}
            /\ minors[a].prev \in MinorsOf(minors[a].block) \cup {NULL}
      BY <2>0, <2>1 DEF Placed, Ordered
    <2>5. /\ pc = "major" => call.maj \in DOMAIN majors
          /\ pc = "minor" => call.min \in MinorsOf(call.maj)
      BY <2>0 DEF InCall
    <2>6. l_memRoot \in DOMAIN majors \cup {NULL}
      BY <2>1 DEF Chain
    <2> QED
      BY <2>0, <2>2, <2>3, <2>4, <2>5, <2>6 DEF TypeOK, Misc
  <1> QED
    BY <1>1, Invariant, PTL

(* Every block lies inside the pages of its region and no two blocks or    *)
(* headers overlap, however the calls of kmalloc, krealloc and kfree cut   *)
(* the regions up.                                                         *)
THEOREM Disjointness == Spec => []BlocksDisjoint
  <1>1. ASSUME IInv PROVE BlocksDisjoint
    <2>1. Placed(majors, minors) /\ Regions(majors)
      BY <1>1 DEF IInv, Heap
    <2>2. \A a : EndOf(a) = End(minors, a)
      BY DEF EndOf, End
    <2>3. \A m \in DOMAIN majors : majors[m].size = majors[m].pages * l_pageSize
      BY <2>1 DEF Regions
    <2> SUFFICES ASSUME NEW a \in DOMAIN minors
                 PROVE  LET m == minors[a].block
                        IN  /\ m + SIZEOF_MAJOR <= a
                            /\ EndOf(a) <= m + majors[m].pages * l_pageSize
                            /\ \A b \in DOMAIN minors \ {a} :
                                 EndOf(a) <= b \/ EndOf(b) <= a
      BY DEF BlocksDisjoint
    <2>4. /\ minors[a].block \in DOMAIN majors /\ minors[a].block + SIZEOF_MAJOR <= a
          /\ End(minors, a) <= minors[a].block + majors[minors[a].block].size
      BY <2>1 DEF Placed
    <2>5. \A b \in DOMAIN minors \ {a} : End(minors, a) <= b \/ End(minors, b) <= a
      BY <2>1 DEF Placed
    <2> QED
      BY <2>2, <2>3, <2>4, <2>5
  <1> QED
    BY <1>1, Invariant, PTL

(* The two kinds of lists are sound whenever the search walks them: one    *)
(* chain of regions, all reached from l_memRoot, and in each the minors in *)
(* address order, linked both ways.                                        *)
THEOREM ListsCorrect == Spec => []ListsSound
  <1>1. ASSUME IInv PROVE ListsSound
    <2>0. /\ Chain(majors, l_memRoot) /\ Firsts(majors, minors) /\ Ordered(majors, minors)
          /\ Placed(majors, minors) /\ Regions(majors)
          /\ \A m : MinorsOf(m) = In(minors, m)
      BY <1>1 DEF IInv, Heap, MinorsOf, In
    <2>1. \A D \in SUBSET DOMAIN majors :
            (l_memRoot # NULL => l_memRoot \in D)
              /\ (\A m \in D : majors[m].next # NULL => majors[m].next \in D)
              => D = DOMAIN majors
      BY <2>0 DEF Chain, Closed
    <2>2. \A m \in DOMAIN majors :
            /\ majors[m].prev = NULL <=> m = l_memRoot
            /\ majors[m].next # NULL => majors[majors[m].next].prev = m
            /\ majors[m].prev # NULL => majors[majors[m].prev].next = m
      BY <2>0 DEF Chain
    <2>3. ASSUME NEW m \in DOMAIN majors
          PROVE  /\ majors[m].first = NULL <=> MinorsOf(m) = {}
                 /\ \A a \in MinorsOf(m) : majors[m].first <= a
      <3>1. /\ majors[m].first \in In(minors, m) \cup {NULL}
            /\ majors[m].first = NULL => In(minors, m) = {}
            /\ \A a \in In(minors, m) : majors[m].first <= a
        BY <2>0 DEF Firsts
      <3>2. In(minors, m) = {} => majors[m].first = NULL
        BY <3>1
      <3> QED
        BY <2>0, <3>1, <3>2
    <2>4. ASSUME NEW a \in DOMAIN minors
          PROVE  LET later == {b \in MinorsOf(minors[a].block) : b > a}
                 IN  minors[a].next = (IF later = {} THEN NULL ELSE Min(later))
      <3> DEFINE m == minors[a].block
                 n == minors[a].next
                 later == {b \in MinorsOf(m) : b > a}
      <3>1. /\ n \in In(minors, m) \cup {NULL}
            /\ n # NULL => a < n /\ \A b \in In(minors, m) : b <= a \/ n <= b
            /\ n = NULL => \A b \in In(minors, m) : b <= a
        BY <2>0 DEF Ordered
      <3>2. /\ a \in Nat /\ \A b \in In(minors, m) : b \in Nat
        BY <2>0 DEF Placed, In
      <3>3. CASE n = NULL
        <4>1. later = {}
          BY <2>0, <3>1, <3>2, <3>3
        <4> QED BY <3>3, <4>1
      <3>4. CASE n # NULL
        <4>1. n \in later /\ \A b \in later : n <= b /\ b \in Nat
          BY <2>0, <3>1, <3>2, <3>4
        <4> HIDE DEF later, n
        <4>2. \A x \in later : (\A y \in later : x <= y) => x = n
          BY <4>1
        <4>3. Min(later) = n
          BY <4>1, <4>2 DEF Min
        <4> QED BY <4>1, <4>3 DEF later, n
      <3> QED BY <3>3, <3>4
    <2>5. \A a \in DOMAIN minors :
            /\ minors[a].next # NULL => minors[minors[a].next].prev = a
            /\ minors[a].prev = NULL <=> a = majors[minors[a].block].first
      BY <2>0 DEF Ordered
    <2> QED
      BY <2>1, <2>2, <2>3, <2>4, <2>5 DEF ListsSound
  <1> QED
    BY <1>1, Invariant, PTL

(* The running totals of every region and of the heap are the sums of what *)
(* is in the lists, to the byte, and between calls no region is kept that  *)
(* holds no block.                                                         *)
THEOREM UsageCorrect == Spec => []UsageExact
  <1>1. ASSUME IInv PROVE UsageExact
    <2>0. /\ Used(majors, minors) /\ Totals /\ NoneEmpty
          /\ \A m : MinorsOf(m) = In(minors, m)
      BY <1>1 DEF IInv, Heap, MinorsOf, In
    <2>1. \A m \in DOMAIN majors :
            majors[m].usage = SIZEOF_MAJOR
              + SumFunctionOnSet([a \in DOMAIN minors |-> SIZEOF_MINOR + minors[a].size],
                                 MinorsOf(m))
      BY <2>0 DEF Used, Spans
    <2>2. \A m \in DOMAIN majors : pc = "idle" => majors[m].first # NULL
      BY <2>0 DEF NoneEmpty
    <2>3. \A F : SumFunction([x \in DOMAIN F |-> F[x].size]) = Total(F)
      BY DEF SumFunction, FoldFunction, SumFunctionOnSet, Total, Sizes
    <2> QED
      BY <2>0, <2>1, <2>2, <2>3 DEF UsageExact, Totals
  <1> QED
    BY <1>1, Invariant, PTL

(* What a client holds is aligned, and kfree and krealloc find the header  *)
(* of the block from the pointer through the byte ALIGN left there.        *)
THEOREM PointersCorrect == Spec => []PointersResolve
  <1>1. ASSUME IInv PROVE PointersResolve
    <2> SUFFICES ASSUME NEW p \in DOMAIN blocks
                 PROVE  /\ p % ALIGNMENT = 0 /\ HeaderOf(p) \in DOMAIN minors
                        /\ p - ALIGN_INFO >= HeaderOf(p) + SIZEOF_MINOR
      BY DEF PointersResolve
    <2> DEFINE h == p - pad[p] - SIZEOF_MINOR
    <2>1. /\ Placed(majors, minors) /\ DOMAIN pad \subseteq Nat /\ pad \in [DOMAIN pad -> Nat]
          /\ Owned(pad, minors, p, blocks[p])
      BY <1>1 DEF IInv, Heap, Misc, Clients
    <2>2. HeaderOf(p) = h
      BY <2>1, HeaderFound
    <2>3. /\ h \in DOMAIN minors /\ h \in Nat /\ p \in Nat /\ p % ALIGNMENT = 0
          /\ h + SIZEOF_MINOR + ALIGN_INFO <= p
      BY <2>1, OwnedWhere
    <2>4. SIZEOF_MINOR \in Nat /\ ALIGN_INFO \in Nat
      BY LayoutAssumption
    <2> HIDE DEF h
    <2> QED
      BY <2>2, <2>3, <2>4
  <1> QED
    BY <1>1, Invariant, PTL

(* A block has room for all the bytes its client asked for, at the aligned *)
(* pointer the client was given, after every krealloc in place too.        *)
THEOREM RoomCorrect == Spec => []RoomAsRequested
  <1>1. ASSUME IInv PROVE RoomAsRequested
    <2> SUFFICES ASSUME NEW p \in DOMAIN blocks
                 PROVE  p + blocks[p] <= EndOf(HeaderOf(p))
      BY DEF RoomAsRequested
    <2> DEFINE h == p - pad[p] - SIZEOF_MINOR
               n == blocks[p]
    <2>1. /\ Placed(majors, minors) /\ DOMAIN pad \subseteq Nat /\ pad \in [DOMAIN pad -> Nat]
          /\ Owned(pad, minors, p, n)
      BY <1>1 DEF IInv, Heap, Misc, Clients
    <2> HIDE DEF n
    <2>2. HeaderOf(p) = h
      BY <2>1, HeaderFound
    <2>3. p + n <= End(minors, h)
      BY <2>1, OwnedWhere
    <2> QED
      BY <2>2, <2>3 DEF EndOf, End, n
  <1> QED
    BY <1>1, Invariant, PTL

-----------------------------------------------------------------------------
(* The search and the page hook.                                           *)

LEMMA FitFound ==
  ASSUME IInv, Case2 \/ Case3 \/ Case4Fit
  PROVE  DOMAIN majors' = DOMAIN majors /\ minors' # minors
  <1>1. PICK a, prev, next : /\ Gap(majors, minors, call.maj, a, prev, next, call.size)
                             /\ Link(majors, call.maj, a, prev, next)
    BY FitLinks
  <1>2. Heap(majors, minors, l_memRoot)
    BY DEF IInv
  <1>3. a \notin DOMAIN minors
    <2> DEFINE m == call.maj
               sz == call.size
    <2>1. Gap(majors, minors, m, a, prev, next, sz)
      BY <1>1
    <2> HIDE DEF m, sz
    <2> QED
      BY <1>2, <2>1, GapClear
  <1>4. a \in DOMAIN minors' /\ DOMAIN majors' = DOMAIN majors
    BY <1>1 DEF Link, With
  <1> QED
    BY <1>3, <1>4

(* kmalloc turns to the page hook, and gives up where that has no pages,   *)
(* only when no region has a gap for the block: the best bet it may have   *)
(* started at never hides one, nor do the ends of the lists.               *)
THEOREM SearchFinds == Spec => SearchComplete
  <1>1. ASSUME IInv, [Next]_vars
        PROVE  [AsksHook => \A m \in DOMAIN majors : ~ Fits(m, Need)]_vars
    <2> SUFFICES ASSUME Next, AsksHook
                 PROVE  \A m \in DOMAIN majors : ~ Fits(m, Need)
      BY <1>1
    <2>0. pc \in {"major", "minor"}
      BY DEF AsksHook
    <2>1. Search
      BY <2>0 DEF Next, kmalloc, kcalloc, krealloc, kfree, MayAsk, krealloc_copy,
                  krealloc_fault, DeadBlock, Panic
    <2>2. CASE \/ Case1Hop \/ Case1Restart \/ Case4 \/ Case4Next \/ Case5Hop \/ Case5Restart
      <3>1. majors' = majors /\ pc' \in {"major", "minor"}
        BY <2>0, <2>2 DEF Case1Hop, Case1Restart, Case4, Case4Next, Case5Hop, Case5Restart,
                          Goto, heapVars
      <3> QED
        BY <3>1 DEF AsksHook
    <2>3. CASE Case2 \/ Case3 \/ Case4Fit
      BY <1>1, <2>3, FitFound DEF AsksHook
    <2>4. CASE Case1Grow
      <3>1. Insufficient /\ majors[call.maj].next = NULL /\ ~ call.startedBet
        BY <2>4 DEF Case1Grow
      <3>2. ~ Fits(call.maj, Need)
        BY <1>1, <2>0, <3>1, InsufficientNoFit
      <3> QED
        BY <1>1, <2>0, <3>1, <3>2, SearchEnds
    <2>5. CASE Case5Grow
      <3>1. Exhausted /\ majors[call.maj].next = NULL /\ ~ call.startedBet
        BY <2>5 DEF Case5Grow
      <3>2. ~ Fits(call.maj, Need)
        BY <1>1, <3>1, ExhaustedNoFit
      <3> QED
        BY <1>1, <2>0, <3>1, <3>2, SearchEnds
    <2> QED
      BY <2>1, <2>2, <2>3, <2>4, <2>5 DEF Search
  <1> QED
    BY <1>1, Invariant, PTL DEF Spec, SearchComplete

-----------------------------------------------------------------------------
(* The heap implements the abstract specification.                         *)

LEMMA NullReturns ==
  ASSUME NEW c, Return(c, NULL)
  PROVE  blocks' = blocks
  BY DEF Return

LEMMA EnterReturns ==
  ASSUME NEW req, NEW want, NEW cont, NEW real, NEW old, Enter(req, want, cont, real, old)
  PROVE  blocks' = blocks
  BY NullReturns DEF Enter

(* A block that the search finds was not a client's before. *)
LEMMA LinkReturns ==
  ASSUME NEW others, NEW r, Heap(others, minors, r), IInv, pc \in {"major", "minor"},
         NEW m, NEW a, NEW prev, NEW next, Gap(others, minors, m, a, prev, next, call.size),
         Link(others, m, a, prev, next)
  PROVE  \/ blocks' = blocks
         \/ \E p : p \notin DOMAIN blocks /\ blocks' = With(blocks, p, call.want)
  <1> DEFINE p == AlignedUp(a + SIZEOF_MINOR)
  <1>1. Asked(call) /\ DOMAIN pad \subseteq Nat /\ pad \in [DOMAIN pad -> Nat] /\ Clients
    BY SearchState DEF IInv, Misc
  <1>2. p # NULL /\ p \notin DOMAIN blocks /\ Return(call, p)
    BY <1>1, LinkPointer
  <1> HIDE DEF p
  <1>3. \/ blocks' = blocks \/ blocks' = With(blocks, p, call.want)
    BY <1>1, <1>2, ReturnCases
  <1> QED
    BY <1>2, <1>3

LEMMA SearchReturns ==
  ASSUME IInv, Search
  PROVE  \/ blocks' = blocks
         \/ \E p : p \notin DOMAIN blocks /\ blocks' = With(blocks, p, call.want)
  <1>0. pc \in {"major", "minor"}
    BY DEF Search, Case1Hop, Case1Restart, Case1Grow, Case2, Case3, Case4, Case4Fit,
           Case4Next, Case5Hop, Case5Restart, Case5Grow, Exhausted
  <1>1. CASE \/ Case1Hop \/ Case1Restart \/ Case4 \/ Case4Next \/ Case5Hop \/ Case5Restart
    BY <1>1 DEF Case1Hop, Case1Restart, Case4, Case4Next, Case5Hop, Case5Restart
  <1>2. CASE Case2 \/ Case3 \/ Case4Fit
    <2> DEFINE m == call.maj
    <2>1. PICK a, prev, next : /\ Gap(majors, minors, m, a, prev, next, call.size)
                               /\ Link(majors, m, a, prev, next)
      BY <1>2, FitLinks
    <2>2. Heap(majors, minors, l_memRoot)
      BY DEF IInv
    <2> HIDE DEF m
    <2> QED
      BY <1>0, <2>1, <2>2, LinkReturns
  <1>3. CASE Case1Grow
    <2>1. CASE Return(call, NULL)
      BY <2>1, NullReturns
    <2>2. ASSUME NEW base \in liballoc_alloc(NewPages(call.size)) \ {NULL},
                 Link(Grown(base), base, base + SIZEOF_MAJOR, NULL, NULL)
          PROVE  \/ blocks' = blocks
                 \/ \E p : p \notin DOMAIN blocks /\ blocks' = With(blocks, p, call.want)
      <3> DEFINE G == Grown(base)
                 a == base + SIZEOF_MAJOR
      <3>1. majors[call.maj].next = NULL
        BY <1>3 DEF Case1Grow
      <3>2. /\ Heap(G, minors, l_memRoot)
            /\ Gap(G, minors, base, a, NULL, NULL, call.size)
        BY <1>0, <3>1, GrownRegion
      <3>3. Link(G, base, a, NULL, NULL)
        BY <2>2
      <3> HIDE DEF G, a
      <3> QED
        BY <1>0, <3>2, <3>3, LinkReturns
    <2> QED
      BY <1>3, <2>1, <2>2 DEF Case1Grow
  <1>4. CASE Case5Grow
    BY <1>4, NullReturns DEF Case5Grow
  <1> QED
    BY <1>1, <1>2, <1>3, <1>4 DEF Search

LEMMA AllocStep ==
  ASSUME IInv', NEW p, p \notin DOMAIN blocks, NEW n, blocks' = With(blocks, p, n)
  PROVE  H!Alloc
  <1>1. /\ Placed(majors', minors') /\ DOMAIN pad' \subseteq Nat
        /\ pad' \in [DOMAIN pad' -> Nat]
        /\ \A q \in DOMAIN blocks' : Owned(pad', minors', q, blocks'[q])
    BY DEF IInv, Heap, Misc, Clients
  <1>2. /\ DOMAIN blocks' = DOMAIN blocks \cup {p} /\ blocks'[p] = n
        /\ \A q \in DOMAIN blocks : blocks'[q] = blocks[q]
    BY DEF With
  <1>3. Owned(pad', minors', p, n)
    BY <1>1, <1>2
  <1>4. p % ALIGNMENT = 0
    BY <1>1, <1>3, OwnedWhere
  <1>5. ASSUME NEW q \in DOMAIN blocks
        PROVE  p # q /\ (p + n <= q \/ q + blocks[q] <= p)
    <2>1. p # q /\ Owned(pad', minors', q, blocks[q])
      BY <1>1, <1>2
    <2> DEFINE k == blocks[q]
    <2> HIDE DEF k
    <2>2. Owned(pad', minors', q, k)
      BY <2>1 DEF k
    <2>3. p + n <= q \/ q + k <= p
      BY <1>1, <1>3, <2>1, <2>2, OwnedApart
    <2> QED BY <2>1, <2>3 DEF k
  <1>6. H!Fresh(p, blocks)
    BY <1>2, <1>4, <1>5 DEF H!Fresh, H!Disjoint, H!With, With
  <1> QED
    BY <1>2, <1>6 DEF H!Alloc

LEMMA FreeStep ==
  ASSUME NEW p \in DOMAIN blocks, blocks' = Restrict(blocks, DOMAIN blocks \ {p})
  PROVE  H!Free
  BY DEF H!Free, H!Without, H!Restrict, Restrict

LEMMA ShrinkStep ==
  ASSUME NEW p \in DOMAIN blocks, NEW n, n <= blocks[p], blocks' = [blocks EXCEPT ![p] = n]
  PROVE  H!Shrink
  <1>1. p \in DOMAIN blocks' /\ blocks'[p] = n
    OBVIOUS
  <1>2. blocks'[p] <= blocks[p] /\ blocks' = [blocks EXCEPT ![p] = blocks'[p]]
    BY <1>1
  <1> QED
    BY <1>1, <1>2 DEF H!Shrink

LEMMA MoveStep ==
  ASSUME IInv, NEW p \in DOMAIN blocks, NEW q, q \notin DOMAIN blocks, NEW n,
         Owned(pad, minors, q, n), blocks[p] <= n,
         blocks' = With(Restrict(blocks, DOMAIN blocks \ {p}), q, n)
  PROVE  H!Move
  <1> DEFINE kept == Restrict(blocks, DOMAIN blocks \ {p})
  <1>1. /\ Placed(majors, minors) /\ DOMAIN pad \subseteq Nat /\ pad \in [DOMAIN pad -> Nat]
        /\ \A x \in DOMAIN blocks : Owned(pad, minors, x, blocks[x])
    BY DEF IInv, Heap, Misc, Clients
  <1>2. /\ DOMAIN kept = DOMAIN blocks \ {p}
        /\ \A x \in DOMAIN kept : x \in DOMAIN blocks /\ kept[x] = blocks[x]
    BY DEF Restrict
  <1>3. H!Without(p) = kept
    BY DEF H!Without, H!Restrict, Restrict
  <1> HIDE DEF kept
  <1>4. blocks' = With(kept, q, n)
    BY DEF kept
  <1>5. q \in DOMAIN blocks' /\ blocks'[q] = n
    BY <1>4 DEF With
  <1>6. q % ALIGNMENT = 0
    BY <1>1, OwnedWhere
  <1>7. ASSUME NEW x \in DOMAIN blocks
        PROVE  q # x /\ (q + n <= x \/ x + blocks[x] <= q)
    <2> DEFINE k == blocks[x]
    <2>1. q # x /\ Owned(pad, minors, x, k)
      BY <1>1
    <2> HIDE DEF k
    <2>2. q + n <= x \/ x + k <= q
      BY <1>1, <2>1, OwnedApart
    <2> QED BY <2>1, <2>2 DEF k
  <1>8. H!Fresh(q, kept)
    BY <1>2, <1>4, <1>5, <1>6, <1>7 DEF H!Fresh, H!Disjoint, H!With, With
  <1>9. H!Disjoint(q, blocks'[q], p, blocks[p]) /\ blocks'[q] >= blocks[p]
    <2>1. n \in Nat /\ blocks[p] \in Nat
      BY <1>1, OwnedWhere
    <2> QED BY <1>5, <1>7, <2>1 DEF H!Disjoint
  <1> QED
    BY <1>3, <1>5, <1>8, <1>9 DEF H!Move

LEMMA kreallocStep ==
  ASSUME IInv, NEW ptr \in DOMAIN blocks, NEW n \in Resizes, krealloc(ptr, n)
  PROVE  blocks' = blocks \/ H!Free \/ H!Shrink
  <1> DEFINE a == HeaderOf(ptr)
             real == minors[a].req_size
  <1>1. CASE kfree(ptr)
    BY <1>1, FreeStep DEF kfree
  <1>2. CASE real >= n /\ blocks' = [blocks EXCEPT ![ptr] = n]
    <2>1. /\ Placed(majors, minors) /\ DOMAIN pad \subseteq Nat /\ pad \in [DOMAIN pad -> Nat]
          /\ Owned(pad, minors, ptr, blocks[ptr])
      BY DEF IInv, Heap, Misc, Clients
    <2>2. real = blocks[ptr] /\ real \in Nat /\ n \in Nat
      BY <2>1, HeaderFound, OwnedWhere, LayoutAssumption
    <2>3. n <= blocks[ptr]
      BY <1>2, <2>2
    <2> QED
      BY <1>2, <2>3, ShrinkStep
  <1>3. CASE Enter(n, n, "realloc", real, ptr)
    BY <1>3, EnterReturns
  <1> QED
    BY <1>1, <1>2, <1>3 DEF krealloc

LEMMA kreallocCopyStep ==
  ASSUME IInv, krealloc_copy
  PROVE  H!Free \/ H!Move
  <1>1. /\ pc = "copy"
        /\ call.new = NULL => blocks' = Restrict(blocks, DOMAIN blocks \ {call.old})
        /\ call.new # NULL =>
             blocks' = With(Restrict(blocks, DOMAIN blocks \ {call.old}), call.new, call.want)
    BY DEF krealloc_copy
  <1>2. /\ Asked(call) /\ call.cont = "realloc"
        /\ call.new # NULL =>
             call.new \notin DOMAIN blocks /\ Owned(pad, minors, call.new, call.want)
    BY <1>1 DEF IInv, InCall
  <1>3. /\ call.old \in DOMAIN blocks /\ call.real \in Nat /\ call.want \in Nat
        /\ call.real = blocks[call.old] /\ call.real < call.want
    BY <1>2 DEF Asked
  <1>4. CASE call.new = NULL
    BY <1>1, <1>3, <1>4, FreeStep
  <1>5. CASE call.new # NULL
    <2> DEFINE p == call.old
               q == call.new
               n == call.want
    <2>1. /\ p \in DOMAIN blocks /\ q \notin DOMAIN blocks /\ Owned(pad, minors, q, n)
          /\ blocks[p] <= n
          /\ blocks' = With(Restrict(blocks, DOMAIN blocks \ {p}), q, n)
      BY <1>1, <1>2, <1>3, <1>5
    <2> HIDE DEF p, q, n
    <2> QED BY <2>1, MoveStep
  <1> QED BY <1>4, <1>5

(* The heap keeps the promises of Heap to its clients: each step of        *)
(* kmalloc, kcalloc, krealloc and kfree is one of its steps or leaves the  *)
(* clients' blocks alone.  Clients see the block where the call returns.   *)
THEOREM Refinement == Spec => HeapSpec
  <1>1. Init => H!Init
    BY DEF Init, H!Init
  <1>2. ASSUME IInv, [Next]_vars
        PROVE  [H!Next]_blocks
    <2>0. IInv'
      BY <1>2, NextKeeps
    <2>1. ASSUME NEW n \in Requests, kmalloc(n) PROVE blocks' = blocks
      BY <2>1, EnterReturns DEF kmalloc
    <2>2. ASSUME NEW arr \in Arrays, kcalloc(arr[1], arr[2]) PROVE blocks' = blocks
      BY <2>2, EnterReturns DEF kcalloc
    <2>3. ASSUME NEW ptr \in DOMAIN blocks, kfree(ptr) PROVE H!Next
      BY <2>3, FreeStep DEF kfree, H!Next
    <2>4. ASSUME NEW ptr \in DOMAIN blocks, NEW n \in Resizes, krealloc(ptr, n)
          PROVE  [H!Next]_blocks
      BY <1>2, <2>4, kreallocStep DEF H!Next
    <2>5. CASE Search
      <3>1. CASE blocks' = blocks
        BY <3>1
      <3>2. ASSUME NEW p, p \notin DOMAIN blocks, blocks' = With(blocks, p, call.want)
            PROVE  H!Next
        <4> DEFINE n == call.want
        <4>1. blocks' = With(blocks, p, n)
          BY <3>2
        <4> HIDE DEF n
        <4> QED
          BY <2>0, <3>2, <4>1, AllocStep DEF H!Next
      <3> QED
        BY <1>2, <2>5, <3>1, <3>2, SearchReturns
    <2>6. CASE krealloc_copy
      BY <1>2, <2>6, kreallocCopyStep DEF H!Next
    <2>7. CASE krealloc_fault \/ DeadBlock \/ Panic \/ UNCHANGED vars
      BY <2>7 DEF krealloc_fault, DeadBlock, Panic, vars
    <2> QED
      BY <1>2, <2>1, <2>2, <2>3, <2>4, <2>5, <2>6, <2>7 DEF Next
  <1> QED
    BY <1>1, <1>2, Invariant, PTL DEF Spec, HeapSpec, H!Spec

=============================================================================
