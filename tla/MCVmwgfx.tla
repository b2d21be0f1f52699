----------------------------- MODULE MCVmwgfx ------------------------------
(***************************************************************************)
(* Instances of VmwgfxDriver for TLC: nothing the kernel hands out differs *)
(* from the rest of its kind.                                              *)
(***************************************************************************)
EXTENDS VmwgfxDriver, TLC

Interchangeable ==
  Permutations(Proc) \cup Permutations(Buf) \cup Permutations(Obj)
    \cup Permutations(Handle) \cup Permutations(Addr)
=============================================================================
