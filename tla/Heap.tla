-------------------------------- MODULE Heap --------------------------------
(***************************************************************************)
(* What the heap promises its clients, whatever it does inside: a block is *)
(* aligned memory of the size asked for that no other block shares, and it *)
(* stays where it is until its owner frees or moves it.                    *)
(***************************************************************************)
EXTENDS Integers, Functions

CONSTANT ALIGNMENT

VARIABLE blocks         \* pointer -> size of every block a client holds

Init == blocks = << >>

(* The function f with x mapped to v as well. *)
With(f, x, v) == [y \in DOMAIN f \cup {x} |-> IF y = x THEN v ELSE f[y]]

Disjoint(p, n, q, k) == p + n <= q \/ q + k <= p

(* blocks' has the new block p beside those of old. *)
Fresh(p, old) ==
  /\ p % ALIGNMENT = 0
  /\ \A q \in DOMAIN old : p # q /\ Disjoint(p, blocks'[p], q, old[q])
  /\ blocks' = With(old, p, blocks'[p])

Without(p) == Restrict(blocks, DOMAIN blocks \ {p})

Alloc == \E p \in DOMAIN blocks' \ DOMAIN blocks : Fresh(p, blocks)

Free == \E p \in DOMAIN blocks : blocks' = Without(p)

Shrink == \E p \in DOMAIN blocks \cap DOMAIN blocks' :
            /\ blocks'[p] <= blocks[p]
            /\ blocks' = [blocks EXCEPT ![p] = blocks'[p]]

(* The block p moves to q; both exist while the contents are copied. *)
Move == \E p \in DOMAIN blocks : \E q \in DOMAIN blocks' \ DOMAIN blocks :
          /\ Disjoint(q, blocks'[q], p, blocks[p])
          /\ blocks'[q] >= blocks[p]
          /\ Fresh(q, Without(p))

Next == Alloc \/ Free \/ Shrink \/ Move

Spec == Init /\ [][Next]_blocks
=============================================================================
