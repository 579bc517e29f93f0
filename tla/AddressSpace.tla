---------------------------- MODULE AddressSpace ----------------------------
(***************************************************************************)
(* What a set of page tables promises: a function from virtual pages to    *)
(* page frames and permissions, which one call changes at the pages it is  *)
(* about, as it was asked to, and nowhere else.                            *)
(***************************************************************************)
EXTENDS Integers

CONSTANTS Regions,      \* what one call may map: functions from the virtual
                        \* pages of a region to their offsets in it
          Targets,      \* page frames a region may be mapped to
          Permissions   \* sets of flags it may be mapped with

VARIABLE trans          \* virtual page -> [frame, flags], for mapped pages

Init == trans = [v \in {} |-> 0]

(* The address space with a region mapped, and with a page unmapped. *)
Mapped(space, region, frame, flags) ==
  [v \in DOMAIN space \cup DOMAIN region |->
     IF v \in DOMAIN region
     THEN [frame |-> frame + region[v], flags |-> flags]
     ELSE space[v]]

Unmapped(space, v) == [w \in DOMAIN space \ {v} |-> space[w]]

Map(region, frame, flags) == trans' = Mapped(trans, region, frame, flags)

Unmap(v) == trans' = Unmapped(trans, v)

Next ==
  \/ \E region \in Regions, frame \in Targets, flags \in Permissions :
       Map(region, frame, flags)
  \/ \E v \in DOMAIN trans : Unmap(v)

Spec == Init /\ [][Next]_trans
=============================================================================
