------------------------------ MODULE Liballoc ------------------------------
(***************************************************************************)
(* The kernel heap of memory/liballoc.c: kmalloc, kfree, kcalloc and       *)
(* krealloc over a doubly linked list of majors (regions taken from the    *)
(* page hook), each with a doubly linked list of minors (the blocks in     *)
(* use).  A structure is named by its address; majors and minors map the   *)
(* addresses of the live structures to their fields.  A minor is live      *)
(* exactly when its magic is LIBALLOC_MAGIC.                               *)
(*                                                                         *)
(* liballoc_lock and liballoc_unlock clear and set the interrupt flag of   *)
(* the only CPU, so nothing runs between two steps of a call that holds    *)
(* the lock; kmalloc's loops are stepped only to follow the code's order.  *)
(*                                                                         *)
(* A 64-bit unsigned value is an integer that stands for its residue: a    *)
(* negative one is a value above 2^63.  unsigned int is taken modulo UINT. *)
(* The counters of warnings and possible overruns, which only a DEBUG      *)
(* build prints, are left out.                                             *)
(***************************************************************************)
EXTENDS Integers, FiniteSetsExt, Functions

CONSTANTS
  SIZEOF_MAJOR, SIZEOF_MINOR,     \* bytes of the two headers (40 and 40)
  ALIGNMENT, ALIGN_INFO,          \* 16 and 16
  l_pageSize, l_pageCount,        \* 4096 and 16
  UINT,                           \* 2^32, smaller for TLC
  Bases,          \* addresses at which the page hook may place a region
  Requests,       \* sizes clients ask kmalloc for
  Resizes,        \* sizes clients ask krealloc for
  Arrays,         \* <<nobj, size>> pairs clients ask kcalloc for
  MaxBlocks,      \* bound on the blocks clients hold
  MaxErrors       \* bound on the calls with a block that was freed before

NULL == 0

ASSUME LayoutAssumption ==
  /\ SIZEOF_MAJOR \in Nat \ {0} /\ SIZEOF_MINOR \in Nat \ {0}
  /\ ALIGNMENT \in Nat \ {0, 1} /\ ALIGN_INFO \in Nat \ {0}
  /\ l_pageSize \in Nat \ {0} /\ l_pageCount \in Nat \ {0}
  /\ UINT \in Nat \ {0}
  /\ Bases \subseteq Nat \ {NULL}
  /\ Requests \subseteq Nat /\ Resizes \subseteq Nat /\ Arrays \subseteq Nat \X Nat
  /\ MaxBlocks \in Nat /\ MaxErrors \in Nat

(* What clients ask for fits an unsigned int with the headers and a page   *)
(* to spare, and an array an int: beyond that the code's sizes wrap, which *)
(* it does not look for.                                                   *)
ASSUME SizesAssumption ==
  /\ l_pageCount * l_pageSize < UINT
  /\ \A n \in Requests \cup Resizes \cup {arr[1] * arr[2] : arr \in Arrays} :
       n + ALIGNMENT + ALIGN_INFO + SIZEOF_MAJOR + SIZEOF_MINOR + l_pageSize <= UINT
  /\ \A arr \in Arrays : 2 * (arr[1] * arr[2]) < UINT

VARIABLES
  l_memRoot, l_bestBet,     \* majors, or NULL
  majors,         \* address -> [prev, next, pages, size, usage, first]
  minors,         \* address -> [prev, next, block, size, req_size]
  l_allocated, l_inuse, l_errorCount,
  pad,            \* block pointer -> the byte ALIGN stores in front of it
  pc,             \* where the current call is
  call,           \* the locals of kmalloc and of the call it serves
  blocks,         \* ghost: pointer -> the size the client asked for
  dead            \* ghost: the block freed last, while its header is intact

heapVars == <<l_memRoot, l_bestBet, majors, minors, l_allocated, l_inuse, pad>>
vars == <<heapVars, l_errorCount, pc, call, blocks, dead>>

-----------------------------------------------------------------------------
(* The function f with x mapped to v, be it in f's domain or not. *)
With(f, x, v) == [y \in DOMAIN f \cup {x} |-> IF y = x THEN v ELSE f[y]]

(* Comparison of 64-bit unsigned values. *)
ULess(a, b) == IF (a < 0) = (b < 0) THEN a < b ELSE b < 0

(* Conversion of an unsigned int to int. *)
ToInt(n) == LET u == n % UINT IN IF 2 * u >= UINT THEN u - UINT ELSE u

FreeIn(m) == (majors[m].size - majors[m].usage) % UINT

(* ALIGN moves a pointer up, leaving at least ALIGN_INFO bytes, and notes  *)
(* by how much; UNALIGN reads the note and moves it back.                  *)
AlignedUp_none(ptr) == ptr + ALIGN_INFO

AlignedUp(ptr) ==
  LET q == ptr + ALIGN_INFO
      d == q % ALIGNMENT
  IN  IF d # 0 THEN q + (ALIGNMENT - d) ELSE q

UNALIGN_small(ptr) == IF pad[ptr] < ALIGNMENT THEN ptr - pad[ptr] ELSE ptr

UNALIGN(ptr) == IF pad[ptr] < ALIGNMENT + ALIGN_INFO THEN ptr - pad[ptr] ELSE ptr

(* Room for the block with the bytes that alignment may take. *)
Padded_short(req) == req + ALIGN_INFO

Padded(req) == req + ALIGNMENT + ALIGN_INFO

HeaderOf(ptr) == UNALIGN(ptr) - SIZEOF_MINOR

(***************************************************************************)
(* allocate_new_page: the pages asked of the hook, and the new major.      *)
(***************************************************************************)
NewPages(size) ==
  LET st    == (size + SIZEOF_MAJOR + SIZEOF_MINOR) % UINT
      pages == st \div l_pageSize + (IF st % l_pageSize = 0 THEN 0 ELSE 1)
  IN  IF pages < l_pageCount THEN l_pageCount ELSE pages

NewMajor(size) ==
  [prev |-> NULL, next |-> NULL, pages |-> NewPages(size),
   size |-> (NewPages(size) * l_pageSize) % UINT,
   usage |-> SIZEOF_MAJOR, first |-> NULL]

(* What liballoc_alloc may return: NULL, or pages nobody else has. *)
liballoc_alloc(pages) ==
  {NULL} \cup
  {b \in Bases : \A m \in DOMAIN majors :
                    \/ b + pages * l_pageSize <= m
                    \/ m + majors[m].pages * l_pageSize <= b}

-----------------------------------------------------------------------------
NoCall  == [cont |-> "none"]
NoBlock == [ptr |-> NULL, hdr |-> NULL]

Init ==
  /\ l_memRoot = NULL /\ l_bestBet = NULL
  /\ majors = << >> /\ minors = << >> /\ pad = << >>
  /\ l_allocated = 0 /\ l_inuse = 0 /\ l_errorCount = 0
  /\ pc = "idle" /\ call = NoCall
  /\ blocks = << >> /\ dead = NoBlock

(***************************************************************************)
(* kmalloc.  call.cont says whom it serves: a client, kcalloc or krealloc; *)
(* call.want is what the client asked for, call.req what kmalloc was told. *)
(***************************************************************************)
(* kmalloc returns ptr to its caller.  kcalloc then clears call.real bytes *)
(* and krealloc goes on to copy them.  A page fault in the kernel ends in  *)
(* the handler's endless loop: clearing bytes at NULL is one, and so is    *)
(* clearing a number of bytes that went negative in an int.                *)
Return(c, ptr) ==
  LET fault == c.cont = "calloc" /\ (c.real < 0 \/ (ptr = NULL /\ c.real > 0))
  IN  \/ /\ c.cont # "realloc" /\ ~ fault
         /\ pc' = "idle" /\ call' = NoCall
         /\ blocks' = IF ptr = NULL THEN blocks ELSE With(blocks, ptr, c.want)
      \/ /\ fault /\ pc' = "panic" /\ call' = c
         /\ UNCHANGED blocks
      \/ /\ c.cont = "realloc"
         /\ pc' = "copy" /\ call' = [c EXCEPT !.new = ptr]
         /\ UNCHANGED blocks

(* Which major the search starts at: the best bet if it has room to spare. *)
SearchFrom_norestart(c, root, bestSize) ==
  LET bet == l_bestBet # NULL /\ ULess(c.size + SIZEOF_MINOR, bestSize)
  IN  [c EXCEPT !.bestSize = bestSize,
                !.maj = IF bet THEN l_bestBet ELSE root]

SearchFrom(c, root, bestSize) ==
  LET bet == l_bestBet # NULL /\ ULess(c.size + SIZEOF_MINOR, bestSize)
  IN  [c EXCEPT !.startedBet = bet, !.bestSize = bestSize,
                !.maj = IF bet THEN l_bestBet ELSE root]

(* Entry: the size with room for alignment (kmalloc(1) if it wrapped to 0),*)
(* and the first major if there is none.                                   *)
Enter(req, want, cont, real, old) ==
  LET asked == IF Padded(req) = 0 THEN 1 ELSE req
      c == [cont |-> cont, req |-> asked, want |-> want, size |-> Padded(asked),
            real |-> real, old |-> old, new |-> NULL, maj |-> NULL, min |-> NULL,
            startedBet |-> FALSE, bestSize |-> 0]
      best == IF l_bestBet = NULL THEN 0 ELSE FreeIn(l_bestBet)
  IN  \/ /\ l_memRoot # NULL
         /\ pc' = "major" /\ call' = SearchFrom(c, l_memRoot, best)
         /\ UNCHANGED <<heapVars, blocks>>
      \/ /\ l_memRoot = NULL
         /\ \E base \in liballoc_alloc(NewPages(c.size)) \ {NULL} :
              /\ majors' = With(majors, base, NewMajor(c.size))
              /\ l_memRoot' = base
              /\ l_allocated' = l_allocated + NewMajor(c.size).size
              /\ pc' = "major" /\ call' = SearchFrom(c, base, best)
         /\ UNCHANGED <<l_bestBet, minors, l_inuse, pad, blocks>>
      \/ l_memRoot = NULL /\ Return(c, NULL) /\ UNCHANGED heapVars

(* At a major: remember it if it has more room than the best so far. *)
RememberBest ==
  LET diff == FreeIn(call.maj)
  IN  l_bestBet' = IF call.bestSize < diff THEN call.maj ELSE l_bestBet

BetterBest ==
  LET diff == FreeIn(call.maj)
  IN  IF call.bestSize < diff THEN diff ELSE call.bestSize

Need == call.size + SIZEOF_MINOR

Insufficient == ULess(FreeIn(call.maj), Need)

(* A new minor at address a of major m, between prev and next (NULL at the *)
(* ends), and the return of its aligned block.  others holds the majors    *)
(* with any new one among them.                                            *)
Linked_oneway(a, prev, next) ==
  [x \in DOMAIN minors |-> [minors[x] EXCEPT !.next = IF x = prev THEN a ELSE @]]

Linked(a, prev, next) ==
  [x \in DOMAIN minors |->
     [minors[x] EXCEPT !.next = IF x = prev THEN a ELSE @,
                       !.prev = IF x = next THEN a ELSE @]]

Link(others, m, a, prev, next) ==
  LET p == AlignedUp(a + SIZEOF_MINOR)
      new == [prev |-> prev, next |-> next, block |-> m,
              size |-> call.size % UINT, req_size |-> call.req % UINT]
  IN  /\ minors' = With(Linked(a, prev, next), a, new)
      /\ majors' = [others EXCEPT
                      ![m].first = IF prev = NULL THEN a ELSE @,
                      ![m].usage = (@ + Need) % UINT]
      /\ l_inuse' = l_inuse + call.size
      /\ pad' = With(pad, p, p - (a + SIZEOF_MINOR))
      /\ dead' = IF dead # NoBlock /\ a < dead.ptr
                      /\ dead.hdr < a + SIZEOF_MINOR + call.size
                 THEN NoBlock ELSE dead
      /\ Return(call, p)

(* allocate_new_page at the end of the list, behind call.maj. *)
Grown(base) ==
  With([majors EXCEPT ![call.maj].next = base],
       base, [NewMajor(call.size) EXCEPT !.prev = call.maj])

KeepHeader == UNCHANGED <<l_errorCount, dead>>

Goto(m, label) == /\ pc' = label
                  /\ call' = [call EXCEPT !.maj = m, !.bestSize = BetterBest]

(* CASE 1: not enough space in this major. *)
Case1Hop ==
  /\ pc = "major" /\ Insufficient /\ majors[call.maj].next # NULL
  /\ RememberBest /\ Goto(majors[call.maj].next, "major")
  /\ UNCHANGED <<l_memRoot, majors, minors, l_allocated, l_inuse, pad, blocks>>
  /\ KeepHeader

Case1Restart_again ==
  /\ pc = "major" /\ Insufficient /\ majors[call.maj].next = NULL
  /\ call.startedBet
  /\ RememberBest /\ Goto(l_memRoot, "major")
  /\ UNCHANGED <<l_memRoot, majors, minors, l_allocated, l_inuse, pad, blocks>>
  /\ KeepHeader

Case1Restart ==
  /\ pc = "major" /\ Insufficient /\ majors[call.maj].next = NULL
  /\ call.startedBet
  /\ RememberBest /\ pc' = pc
  /\ call' = [call EXCEPT !.maj = l_memRoot, !.bestSize = BetterBest,
                          !.startedBet = FALSE]
  /\ UNCHANGED <<l_memRoot, majors, minors, l_allocated, l_inuse, pad, blocks>>
  /\ KeepHeader

(* ... at the end of the list: a new major behind it, used at once as in   *)
(* CASE 2, or no more memory.                                              *)
Case1Grow ==
  /\ pc = "major" /\ Insufficient /\ majors[call.maj].next = NULL
  /\ ~ call.startedBet
  /\ RememberBest
  /\ \/ \E base \in liballoc_alloc(NewPages(call.size)) \ {NULL} :
          /\ Link(Grown(base), base, base + SIZEOF_MAJOR, NULL, NULL)
          /\ l_allocated' = l_allocated + NewMajor(call.size).size
     \/ /\ Return(call, NULL)
        /\ UNCHANGED <<majors, minors, l_allocated, l_inuse, pad, dead>>
  /\ UNCHANGED <<l_memRoot, l_errorCount>>

(* CASE 2: a brand new major. *)
Case2 ==
  /\ pc = "major" /\ ~ Insufficient /\ majors[call.maj].first = NULL
  /\ RememberBest
  /\ Link(majors, call.maj, call.maj + SIZEOF_MAJOR, NULL, NULL)
  /\ UNCHANGED <<l_memRoot, l_allocated, l_errorCount>>

(* CASE 3: enough space before the first minor. *)
FrontGap == majors[call.maj].first - call.maj - SIZEOF_MAJOR

Case3 ==
  /\ pc = "major" /\ ~ Insufficient /\ majors[call.maj].first # NULL
  /\ ~ ULess(FrontGap, Need)
  /\ RememberBest
  /\ Link(majors, call.maj, call.maj + SIZEOF_MAJOR, NULL, majors[call.maj].first)
  /\ UNCHANGED <<l_memRoot, l_allocated, l_errorCount>>

(* CASE 4: look behind each minor of the major in turn. *)
Case4 ==
  /\ pc = "major" /\ ~ Insufficient /\ majors[call.maj].first # NULL
  /\ ULess(FrontGap, Need)
  /\ RememberBest /\ pc' = "minor"
  /\ call' = [call EXCEPT !.min = majors[call.maj].first, !.bestSize = BetterBest]
  /\ UNCHANGED <<l_memRoot, majors, minors, l_allocated, l_inuse, pad, blocks>>
  /\ KeepHeader

(* The gap behind a minor, up to the next one or to the major's end. *)
GapBehind_used(a) ==
  LET next == minors[a].next
      end  == IF next = NULL THEN call.maj + majors[call.maj].size ELSE next
  IN  end - a - SIZEOF_MINOR

GapBehind(a) ==
  LET next == minors[a].next
      end  == IF next = NULL THEN call.maj + majors[call.maj].size ELSE next
  IN  end - a - SIZEOF_MINOR - minors[a].size

(* CASE 4.1 (behind the last minor) and CASE 4.2 (between two). *)
Case4Fit ==
  /\ pc = "minor" /\ ~ ULess(GapBehind(call.min), Need)
  /\ Link(majors, call.maj, call.min + SIZEOF_MINOR + minors[call.min].size,
          call.min, minors[call.min].next)
  /\ UNCHANGED <<l_memRoot, l_bestBet, l_allocated, l_errorCount>>

Case4Next ==
  /\ pc = "minor" /\ ULess(GapBehind(call.min), Need) /\ minors[call.min].next # NULL
  /\ call' = [call EXCEPT !.min = minors[call.min].next]
  /\ UNCHANGED <<heapVars, pc, blocks>> /\ KeepHeader

(* CASE 5: no gap in this major is large enough. *)
Exhausted == /\ pc = "minor" /\ minors[call.min].next = NULL
             /\ ULess(GapBehind(call.min), Need)

Case5Hop ==
  /\ Exhausted /\ majors[call.maj].next # NULL
  /\ pc' = "major" /\ call' = [call EXCEPT !.maj = majors[call.maj].next]
  /\ UNCHANGED <<heapVars, blocks>> /\ KeepHeader

Case5Restart ==
  /\ Exhausted /\ majors[call.maj].next = NULL /\ call.startedBet
  /\ pc' = "major"
  /\ call' = [call EXCEPT !.maj = l_memRoot, !.startedBet = FALSE]
  /\ UNCHANGED <<heapVars, blocks>> /\ KeepHeader

Case5Grow ==
  /\ Exhausted /\ majors[call.maj].next = NULL /\ ~ call.startedBet
  /\ \/ \E base \in liballoc_alloc(NewPages(call.size)) \ {NULL} :
          /\ majors' = Grown(base)
          /\ l_allocated' = l_allocated + NewMajor(call.size).size
          /\ pc' = "major" /\ call' = [call EXCEPT !.maj = base]
          /\ UNCHANGED blocks
     \/ Return(call, NULL) /\ UNCHANGED <<majors, l_allocated>>
  /\ UNCHANGED <<l_memRoot, l_bestBet, minors, l_inuse, pad>> /\ KeepHeader

(***************************************************************************)
(* The calls.  kmalloc, kcalloc and krealloc start here and go on with the *)
(* cases above.  kfree(NULL) only counts a warning and is left out, as is  *)
(* krealloc(NULL, n), which is kmalloc(n).                                 *)
(***************************************************************************)
MayAsk == pc = "idle" /\ Cardinality(DOMAIN blocks) < MaxBlocks

kmalloc(n) == MayAsk /\ Enter(n, n, "malloc", 0, NULL) /\ KeepHeader

kcalloc(nobj, size) ==
  LET real_size == ToInt(nobj * size)
  IN  MayAsk /\ Enter(real_size, nobj * size, "calloc", real_size, NULL) /\ KeepHeader

(* kfree of a live block: unlink the minor, and the major with it when it  *)
(* was the last; otherwise the major may become the best bet.              *)
UsageWithout_header(m, a) == (majors[m].usage - minors[a].size) % UINT

UsageWithout(m, a) == (majors[m].usage - (minors[a].size + SIZEOF_MINOR)) % UINT

BetWithout_kept(m) == l_bestBet

BetWithout(m) == IF l_bestBet = m THEN NULL ELSE l_bestBet

Release(ptr) ==
  LET a == HeaderOf(ptr)
      min == minors[a]
      m == min.block
      first == IF min.prev = NULL THEN min.next ELSE majors[m].first
      maj == [majors[m] EXCEPT !.first = first, !.usage = UsageWithout(m, a)]
      FreeOf(j) == ToInt(j.size - j.usage)
  IN  /\ l_inuse' = l_inuse - min.size
      /\ minors' = [x \in DOMAIN minors \ {a} |->
                      [minors[x] EXCEPT !.prev = IF x = min.next THEN min.prev ELSE @,
                                        !.next = IF x = min.prev THEN min.next ELSE @]]
      /\ pad' = Restrict(pad, DOMAIN pad \ {ptr})
      /\ \/ /\ first = NULL
            /\ l_memRoot' = IF l_memRoot = m THEN maj.next ELSE l_memRoot
            /\ l_bestBet' = BetWithout(m)
            /\ majors' = [x \in DOMAIN majors \ {m} |->
                 [majors[x] EXCEPT !.next = IF x = maj.prev THEN maj.next ELSE @,
                                   !.prev = IF x = maj.next THEN maj.prev ELSE @]]
            /\ l_allocated' = l_allocated - maj.size
            /\ dead' = NoBlock
         \/ /\ first # NULL
            /\ majors' = [majors EXCEPT ![m] = maj]
            /\ l_bestBet' = IF l_bestBet # NULL
                               /\ FreeOf(maj) > FreeOf(majors'[l_bestBet])
                            THEN m ELSE l_bestBet
            /\ dead' = [ptr |-> ptr, hdr |-> a]
            /\ UNCHANGED <<l_memRoot, l_allocated>>

kfree(ptr) ==
  /\ pc = "idle"
  /\ Release(ptr)
  /\ blocks' = Restrict(blocks, DOMAIN blocks \ {ptr})
  /\ UNCHANGED <<pc, call, l_errorCount>>

(* kfree or krealloc of a block freed before, whose header still says      *)
(* LIBALLOC_DEAD: an error is counted and nothing is done.                 *)
DeadBlock ==
  /\ pc = "idle" /\ dead # NoBlock /\ l_errorCount < MaxErrors
  /\ l_errorCount' = l_errorCount + 1
  /\ UNCHANGED <<heapVars, pc, call, blocks, dead>>

(* krealloc: size 0 frees; a smaller size is noted in place; a larger one  *)
(* needs a new block, and the lock is released before it is asked for.     *)
krealloc(ptr, n) ==
  LET a == HeaderOf(ptr)
      real_size == minors[a].req_size
  IN  \/ n = 0 /\ kfree(ptr)
      \/ /\ pc = "idle" /\ n # 0 /\ real_size >= n
         /\ minors' = [minors EXCEPT ![a].req_size = n % UINT]
         /\ blocks' = [blocks EXCEPT ![ptr] = n]
         /\ UNCHANGED <<l_memRoot, l_bestBet, majors, l_allocated, l_inuse, pad, pc, call>>
         /\ KeepHeader
      \/ /\ MayAsk /\ n # 0 /\ real_size < n
         /\ Enter(n, n, "realloc", real_size, ptr)
         /\ KeepHeader

(* ... then the old contents are copied and the old block is freed. *)
krealloc_copy ==
  /\ pc = "copy" /\ ~ (call.new = NULL /\ call.real > 0)
  /\ Release(call.old)
  /\ blocks' = LET kept == Restrict(blocks, DOMAIN blocks \ {call.old})
               IN  IF call.new = NULL THEN kept ELSE With(kept, call.new, call.want)
  /\ pc' = "idle" /\ call' = NoCall
  /\ UNCHANGED l_errorCount

krealloc_fault ==
  /\ pc = "copy" /\ call.new = NULL /\ call.real > 0
  /\ pc' = "panic"
  /\ UNCHANGED <<heapVars, l_errorCount, call, blocks, dead>>

(* The exception handler's cli; hlt; for(;;). *)
Panic == pc = "panic" /\ UNCHANGED vars

Search == \/ Case1Hop \/ Case1Restart \/ Case1Grow \/ Case2 \/ Case3 \/ Case4
          \/ Case4Fit \/ Case4Next \/ Case5Hop \/ Case5Restart \/ Case5Grow

Next ==
  \/ \E n \in Requests : kmalloc(n)
  \/ \E arr \in Arrays : kcalloc(arr[1], arr[2])
  \/ \E ptr \in DOMAIN blocks : kfree(ptr) \/ \E n \in Resizes : krealloc(ptr, n)
  \/ Search
  \/ krealloc_copy
  \/ krealloc_fault
  \/ DeadBlock
  \/ Panic

(* A call that has begun goes on: nothing else runs on the CPU. *)
Fairness == WF_vars(Search) /\ WF_vars(krealloc_copy) /\ WF_vars(krealloc_fault)

Spec == Init /\ [][Next]_vars /\ Fairness

-----------------------------------------------------------------------------
EndOf(a) == a + SIZEOF_MINOR + minors[a].size

MinorsOf(m) == {a \in DOMAIN minors : minors[a].block = m}

(* Types, and the rule that every pointer field is NULL or a live         *)
(* structure: nothing the heap will follow dangles.                        *)
TypeOK ==
  /\ l_memRoot \in DOMAIN majors \cup {NULL}
  /\ l_bestBet \in DOMAIN majors \cup {NULL}
  /\ \A m \in DOMAIN majors :
       /\ majors[m].next \in DOMAIN majors \cup {NULL}
       /\ majors[m].prev \in DOMAIN majors \cup {NULL}
       /\ majors[m].first \in MinorsOf(m) \cup {NULL}
       /\ majors[m].usage \in 0 .. majors[m].size
  /\ \A a \in DOMAIN minors :
       /\ minors[a].block \in DOMAIN majors
       /\ minors[a].next \in MinorsOf(minors[a].block) \cup {NULL}
       /\ minors[a].prev \in MinorsOf(minors[a].block) \cup {NULL}
  /\ pc \in {"idle", "major", "minor", "copy", "panic"}
  /\ pc = "major" => call.maj \in DOMAIN majors
  /\ pc = "minor" => call.min \in MinorsOf(call.maj)
  /\ l_errorCount \in 0 .. MaxErrors

(* Every block lies inside its major, behind the major's header, and no    *)
(* two blocks overlap, headers included.                                   *)
BlocksDisjoint ==
  \A a \in DOMAIN minors :
    LET m == minors[a].block
    IN  /\ m + SIZEOF_MAJOR <= a
        /\ EndOf(a) <= m + majors[m].pages * l_pageSize
        /\ \A b \in DOMAIN minors \ {a} : EndOf(a) <= b \/ EndOf(b) <= a

(* What a client holds is aligned, kfree finds its header again through    *)
(* UNALIGN, and the byte noted in front of it is the block's own.          *)
PointersResolve ==
  \A p \in DOMAIN blocks :
    /\ p % ALIGNMENT = 0
    /\ HeaderOf(p) \in DOMAIN minors
    /\ p - ALIGN_INFO >= HeaderOf(p) + SIZEOF_MINOR

(* "The size of memory requested" (liballoc.c, struct liballoc_minor): the *)
(* block has room for all of what the client asked for.                    *)
RoomAsRequested ==
  \A p \in DOMAIN blocks : p + blocks[p] <= EndOf(HeaderOf(p))

(* The lists are what the search relies on: the majors form one chain, all *)
(* of which is reached from l_memRoot, and each major's minors are chained *)
(* in address order.                                                       *)
ListsSound ==
  /\ \A D \in SUBSET DOMAIN majors :
       (l_memRoot # NULL => l_memRoot \in D)
         /\ (\A m \in D : majors[m].next # NULL => majors[m].next \in D)
         => D = DOMAIN majors
  /\ \A m \in DOMAIN majors :
       /\ majors[m].prev = NULL <=> m = l_memRoot
       /\ majors[m].next # NULL => majors[majors[m].next].prev = m
       /\ majors[m].prev # NULL => majors[majors[m].prev].next = m
       /\ majors[m].first = NULL <=> MinorsOf(m) = {}
       /\ \A a \in MinorsOf(m) : majors[m].first <= a
  /\ \A a \in DOMAIN minors :
       LET later == {b \in MinorsOf(minors[a].block) : b > a}
       IN  /\ minors[a].next = (IF later = {} THEN NULL ELSE Min(later))
           /\ minors[a].next # NULL => minors[minors[a].next].prev = a
           /\ minors[a].prev = NULL <=> a = majors[minors[a].block].first

(* The running totals agree with the lists, and between calls no region is *)
(* kept that holds no block.                                               *)
UsageExact ==
  /\ \A m \in DOMAIN majors :
       /\ majors[m].usage = SIZEOF_MAJOR
            + SumFunctionOnSet([a \in DOMAIN minors |-> SIZEOF_MINOR + minors[a].size],
                               MinorsOf(m))
       /\ pc = "idle" => majors[m].first # NULL
  /\ l_inuse = SumFunction([a \in DOMAIN minors |-> minors[a].size])
  /\ l_allocated = SumFunction([m \in DOMAIN majors |-> majors[m].size])

(* need contiguous bytes are free somewhere in major m. *)
Fits(m, need) ==
  \E s \in {m + SIZEOF_MAJOR} \cup {EndOf(a) : a \in MinorsOf(m)} :
    /\ s + need <= m + majors[m].size
    /\ \A a \in MinorsOf(m) : s + need <= a \/ EndOf(a) <= s

(* A step of the search that asks the page hook for a new major. *)
AsksHook ==
  /\ pc \in {"major", "minor"}
  /\ \/ DOMAIN majors' # DOMAIN majors
     \/ minors' = minors /\ pc' \notin {"major", "minor"}

(* kmalloc turns to the page hook (and gives up, if that fails) only when  *)
(* no major has a gap for the block, wherever the search started.          *)
SearchComplete ==
  [][AsksHook => \A m \in DOMAIN majors : ~ Fits(m, Need)]_vars

(* Every call ends: with a result, or in a page fault. *)
CallsReturn == pc \in {"major", "minor", "copy"} ~> pc \in {"idle", "panic"}

(* The heap keeps the promises of the abstract specification. *)
H == INSTANCE Heap
HeapSpec == H!Spec

=============================================================================
