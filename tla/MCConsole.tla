----------------------------- MODULE MCConsole -----------------------------
(***************************************************************************)
(* A screen of five lines of ten glyphs of one by two pixels: one text has *)
(* tabs of both kinds, the other stops on the last line, so that an Escape *)
(* makes it scroll.                                                        *)
(***************************************************************************)
EXTENDS Console

G == GLYPH

SomeTexts == { << G, G, LF, HT, G, HT, G, CR, G >>, << LF, LF, LF, G, LF, G >> }

TickCounts == { << G, LF >>, << G, G, LF >> }
=============================================================================
