------------------------------ MODULE GemKernel ------------------------------
(***************************************************************************)
(* The DRM side the drivers stand on, which is not part of the repository  *)
(* and is modelled from the calls the drivers make: GEM buffer objects and *)
(* the references processes hold on them.                                  *)
(*                                                                         *)
(* A process reaches an object through a slot: a GEM handle of its DRM     *)
(* file, a PRIME file descriptor, the address of a mapping, or a handle of *)
(* the RGA library.  An object exists while some slot of some process      *)
(* refers to it, and its memory is reused once none does.                  *)
(***************************************************************************)
EXTENDS Integers

CONSTANTS
  Proc,    \* processes that have the device open (server and clients)
  Obj,     \* buffer objects
  Handle,  \* GEM handle numbers other than 0
  Fd,      \* file descriptor numbers
  Addr,    \* addresses mmap() can return
  Rga,     \* RGA buffer handles other than 0
  None     \* handle 0, descriptor -1, address NULL, RGA handle 0, no object

Slot == Handle \cup Fd \cup Addr \cup Rga

ASSUME SlotAssumption ==
  /\ Handle \cap Fd = {} /\ Handle \cap Addr = {} /\ Handle \cap Rga = {}
  /\ Fd \cap Addr = {} /\ Fd \cap Rga = {} /\ Addr \cap Rga = {}
  /\ None \notin Slot /\ None \notin Obj

VARIABLE res   \* res[p][s]: the object that slot s of process p refers to

ResType == res \in [Proc -> [Slot -> Obj \cup {None}]]

NoReferences == [s \in Slot |-> None]

\* the unused slots of a kind K in process p; the kernel hands out any of them
Free(p, K) == {s \in K : res[p][s] = None}

Alive == {o \in Obj : \E p \in Proc, s \in Slot : res[p][s] = o}

\* an object can be opened by its global name while a handle to it is open
Named == {o \in Obj : \E p \in Proc, s \in Handle : res[p][s] = o}

\* the table of process p after the slots of S come to refer to o
Bind(p, S, o) == [res EXCEPT ![p] = [s \in Slot |-> IF s \in S THEN o ELSE @[s]]]

\* ... and after the slots of S are closed, unmapped or released
Release(p, S) == Bind(p, S, None)
=============================================================================
