----------------------------- MODULE MCLiballoc -----------------------------
(***************************************************************************)
(* liballoc with the structure sizes, alignment and page sizes of the code *)
(* and room for a few regions of 16 pages (65536 bytes).                   *)
(***************************************************************************)
EXTENDS Liballoc

Region == 65536

ThreeBases == {Region, 3 * Region, 5 * Region}

(* An array of two times 20000 bytes. *)
OneArray == {<<2, 20000>>}
=============================================================================
