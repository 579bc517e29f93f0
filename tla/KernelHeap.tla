----------------------------- MODULE KernelHeap -----------------------------
(***************************************************************************)
(* The page hook of the kernel heap (memory/liballoc_helper.c) in the      *)
(* address space that the kernel runs in once Boot has come to its end.    *)
(***************************************************************************)
EXTENDS Boot

CONSTANT Counts         \* numbers of pages liballoc asks for

VARIABLES kernel_heap_top,
          hook          \* the call in progress or made: [count, result]

heapVars == <<bootVars, kernel_heap_top, hook>>

Pending == VPAGES       \* a result that is not there: no page has this number

HeapInit ==
  /\ Init
  /\ kernel_heap_top = HH_HEAP
  /\ hook = [count |-> 0, result |-> Pending]

(* kmalloc calls liballoc_alloc(count). *)
Call(count) ==
  /\ pc = "idle" /\ hook.count = 0
  /\ pc' = "liballoc_alloc" /\ hook' = [count |-> count, result |-> Pending]
  /\ UNCHANGED <<loader, lookup, fb_base, s, paging, kernel_heap_top>>

(* One pass of the loop: a page from pmm_allocpage, whatever it is, mapped *)
(* behind the top.  vmm_map_4Kpage works on the tables at their physical   *)
(* addresses: one that is not mapped stops it.                             *)
liballoc_alloc_page ==
  /\ pc = "liballoc_alloc" /\ kernel_heap_top < HH_HEAP + hook.count
  /\ \E r \in {pmm_allocpage(s.info)} :
     \E taken \in {[s EXCEPT !.info = r.info]} :
     \E mapped \in {vmm_map_4Kpage(taken, RootPageDirectory, Path(kernel_heap_top + 1),
                                   r.page \div PAGE_SIZE, {PRESENT, READWRITE})} :
       LET tables == {RootPageDirectory} \cup
                       {EntryAt(mapped, RootPageDirectory, Path(kernel_heap_top + 1), d).frame :
                          d \in 1 .. 3}
       IN  /\ Goto("liballoc_alloc", BitmapPages(s.info) \cup tables)
           /\ s' = IF \A p \in tables : Reachable(s, cr3, p) THEN mapped ELSE taken
  /\ kernel_heap_top' = IF pc' = "panic" THEN kernel_heap_top ELSE kernel_heap_top + 1
  /\ UNCHANGED <<loader, lookup, fb_base, paging, hook>>

liballoc_alloc_return ==
  /\ pc = "liballoc_alloc" /\ kernel_heap_top = HH_HEAP + hook.count
  /\ pc' = "idle"
  /\ hook' = [hook EXCEPT !.result = phys_to_hh_data(kernel_heap_top)]
  /\ UNCHANGED <<loader, lookup, fb_base, s, paging, kernel_heap_top>>

HeapStep == Step /\ UNCHANGED <<kernel_heap_top, hook>>

HeapNext ==
  \/ HeapStep
  \/ \E count \in Counts : Call(count)
  \/ liballoc_alloc_page
  \/ liballoc_alloc_return

HeapSpec == HeapInit /\ [][HeapNext]_heapVars
              /\ WF_heapVars(HeapStep \/ liballoc_alloc_page \/ liballoc_alloc_return)

(* "return NULL if the pages were not allocated. return A pointer to the   *)
(* allocated memory." (liballoc.h on liballoc_alloc): a call comes back,   *)
(* with NULL or with a pointer to that many pages that can be reached.     *)
HookKeepsContract ==
  hook.count > 0 ~>
    \/ hook.result = NULL
    \/ /\ hook.result # Pending
       /\ \A k \in 0 .. (hook.count - 1) : Reachable(s, cr3, hook.result + k)
=============================================================================
