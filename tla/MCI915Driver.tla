---------------------------- MODULE MCI915Driver ----------------------------
(***************************************************************************)
(* Instances of I915Driver for TLC.                                        *)
(***************************************************************************)
EXTENDS I915Driver, TLC

\* processes, structures, objects and numbers are interchangeable
Interchangeable ==
  Permutations(Proc) \cup Permutations(Buf) \cup Permutations(Obj)
    \cup Permutations(Handle) \cup Permutations(Fd)
=============================================================================
