--------------------------- MODULE MCRockchipBlit ---------------------------
(***************************************************************************)
(* Instances of RockchipBlit: two surfaces with as many rows, of which not  *)
(* as many are the header's, and one that could not be wrapped for RGA.    *)
(***************************************************************************)
EXTENDS RockchipBlit

CONSTANTS s1, s2, s3

MCLines  == [s \in Surface |-> IF s = s2 THEN 2 ELSE 1]
MCHeight == [s \in Surface |-> IF s = s2 THEN 1 ELSE 2]
MCRows   == {[y |-> 0, h |-> 1], [y |-> 0, h |-> 2], [y |-> 1, h |-> 1]}

MCHardware == PorterDuff \cup {"ROT_90", "ROT_180", "ROT_270", "FLIP_H",
                "FLIP_V", "FLIP_H_V", "KEY_NORMAL", "ROP", "SYNC",
                "COLOR_FILL"}
=============================================================================
