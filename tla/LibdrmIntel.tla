---------------------------- MODULE LibdrmIntel -----------------------------
(***************************************************************************)
(* libdrm_intel's buffer objects, which are not part of the repository and *)
(* are modelled from the calls of the i915 driver.  The manager keeps one  *)
(* buffer object (bo) for each GEM handle it has, and counts who uses it:  *)
(* opening again by a name or a descriptor that leads to a known handle    *)
(* gives the same bo once more, and the last user to let go gives it back. *)
(* A bo is mapped by the CPU or through the GTT; a mapping, once made,     *)
(* stays until the bo is freed, bo.virtual being its address as long as    *)
(* the maps outnumber the unmaps.                                          *)
(*                                                                         *)
(* The driver has called drm_intel_bufmgr_gem_enable_reuse() (line 84 of   *)
(* intel-i915-driver.c): a bo that was allocated, and not opened, may be   *)
(* kept when nobody uses it any more, with its handle open, and be what a  *)
(* later allocation returns.  libdrm would except a bo that it exported    *)
(* itself; but callers export the handle, which it does not get to know.   *)
(***************************************************************************)
EXTENDS GemKernel

VARIABLES
  primed,   \* primed[p]: handles the kernel has exported or imported for p
  bo,       \* bo[p][h]: the bo of p on handle h, or NoBo
  kept      \* kept[p]: handles of the bos that are kept for reuse

Way == {"cpu", "gtt"}

ASSUME WayAssumption == None \notin Way

NoBo  == [refs |-> 0, named |-> FALSE, reusable |-> FALSE, maps |-> 0,
          virtual |-> None, cached |-> {}]
NewBo == [NoBo EXCEPT !.refs = 1]

BoType ==
  /\ primed \in [Proc -> SUBSET Handle]
  /\ bo \in [Proc -> [Handle -> [refs : Nat, named : BOOLEAN,
                                 reusable : BOOLEAN, maps : Nat,
                                 virtual : Way \cup {None},
                                 cached : SUBSET Way]]]
  /\ kept \in [Proc -> SUBSET Handle]

\* a bo on a new object, or one that is kept, with its object and its mappings
AllocBo(p, h, o) ==
  \/ /\ h \in Free(p, Handle) /\ o \notin Alive
     /\ res' = Bind(p, {h}, o)
     /\ bo' = [bo EXCEPT ![p][h] = [NewBo EXCEPT !.reusable = TRUE]]
     /\ UNCHANGED <<primed, kept>>
  \/ /\ h \in kept[p] /\ o = res[p][h]
     /\ bo' = [bo EXCEPT ![p][h].refs = 1]
     /\ kept' = [kept EXCEPT ![p] = @ \ {h}]
     /\ UNCHANGED <<res, primed>>

ReferenceBo(p, h) ==
  /\ bo' = [bo EXCEPT ![p][h].refs = @ + 1]
  /\ UNCHANGED <<res, primed, kept>>

\* drm_intel_bo_gem_create_from_name(): a bo that was opened by this name, or
\* one on a new handle, whatever handles the process has already
OpenName(p, h, o) ==
  LET known == {g \in Handle : bo[p][g].named /\ res[p][g] = o} IN
  IF known # {} THEN h \in known /\ ReferenceBo(p, h)
  ELSE /\ h \in Free(p, Handle)
       /\ res' = Bind(p, {h}, o)
       /\ bo' = [bo EXCEPT ![p][h] = [NewBo EXCEPT !.named = TRUE]]
       /\ UNCHANGED <<primed, kept>>

\* drm_intel_bo_gem_create_from_prime(): the kernel finds the handle by which
\* it exported or imported the object before, or makes one
OpenPrime(p, h, o) ==
  LET known == {g \in primed[p] : res[p][g] = o} IN
  IF known # {} THEN h \in known /\ ReferenceBo(p, h)
  ELSE /\ h \in Free(p, Handle)
       /\ res' = Bind(p, {h}, o)
       /\ bo' = [bo EXCEPT ![p][h] = NewBo]
       /\ primed' = [primed EXCEPT ![p] = @ \cup {h}]
       /\ UNCHANGED kept

\* a bo after a call to map it one way; a mapping that exists cannot fail
MappedBo(b, way, ok) ==
  IF ok \/ way \in b.cached
  THEN [b EXCEPT !.maps = @ + 1, !.virtual = way, !.cached = @ \cup {way}]
  ELSE b

\* unmapping what is not mapped is no error
UnmappedBo(b) ==
  IF b.maps = 0 THEN b
  ELSE [b EXCEPT !.maps = @ - 1,
                 !.virtual = IF b.maps = 1 THEN None ELSE @]

\* bos are freed: their handles are closed
FreeBos(p, H) ==
  /\ res' = Release(p, H)
  /\ primed' = [primed EXCEPT ![p] = @ \ H]
  /\ bo' = [bo EXCEPT ![p] = [h \in Handle |-> IF h \in H THEN NoBo ELSE @[h]]]
  /\ kept' = [kept EXCEPT ![p] = @ \ H]

\* a bo that nobody uses, and that was b, is kept; it counts as unmapped
KeepBo(p, h, b) ==
  /\ b.reusable
  /\ bo' = [bo EXCEPT ![p][h] = [b EXCEPT !.refs = 0, !.maps = 0]]
  /\ kept' = [kept EXCEPT ![p] = @ \cup {h}]
  /\ UNCHANGED <<res, primed>>

\* drm_intel_bo_unreference() of the bo on h, which now is b: the last
\* reference frees it or, if it may be reused, has it kept
UnreferenceBo(p, h, b) ==
  IF b.refs = 1 THEN FreeBos(p, {h}) \/ KeepBo(p, h, b)
  ELSE /\ bo' = [bo EXCEPT ![p][h] = [b EXCEPT !.refs = @ - 1]]
       /\ UNCHANGED <<res, primed, kept>>
=============================================================================
