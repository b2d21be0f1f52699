----------------------------- MODULE MCRockchip -----------------------------
(***************************************************************************)
(* Instances of RockchipDriver for TLC.  Of two objects one has a header   *)
(* of one whole line, the other one of a line and a half, and their sizes  *)
(* differ; the first fills a page exactly, which is what an import by      *)
(* descriptor with an unknown size needs.                                  *)
(***************************************************************************)
EXTENDS RockchipDriver, TLC

CONSTANTS o1, o2

MCReq == (o1 :> [fmt |-> "XRGB8888", hdr |-> 12, width |-> 3, height |-> 3])
      @@ (o2 :> [fmt |-> "RGB565",   hdr |-> 12, width |-> 3, height |-> 3])

\* Processes, buffer structures and the numbers the kernel hands out are
\* interchangeable; objects and descriptor 0 are not.
Interchangeable ==
  Permutations(Proc) \cup Permutations(Buf) \cup Permutations(Handle)
    \cup Permutations(Addr) \cup Permutations(Rga)
    \cup Permutations(Fd \ {Fd0})
=============================================================================
