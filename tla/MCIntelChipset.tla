--------------------------- MODULE MCIntelChipset ---------------------------
(***************************************************************************)
(* All ids the repository lists for chips of generations 2 to 12, and some *)
(* that are in no list (i810, and chips newer than the lists).             *)
(***************************************************************************)
EXTENDS IntelChipset

MCId == ListedIds \cup {\h7121, \h1132, \h4680, \h56A0}
=============================================================================
