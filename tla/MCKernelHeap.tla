---------------------------- MODULE MCKernelHeap ----------------------------
(***************************************************************************)
(* The machine of MCBoot, started from a complete list of tags.            *)
(***************************************************************************)
EXTENDS KernelHeap, MCBoot

FullList == {Lookups}
OneMap   == {PCMap}
=============================================================================
