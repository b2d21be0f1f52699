---------------------------- MODULE VmwgfxDriver ----------------------------
(***************************************************************************)
(* Surface buffers in the vmwgfx driver.  It has no import entries, so the *)
(* objects of a process are its own, and one GEM handle leads to each.     *)
(*                                                                         *)
(* Unlike the other drivers it does not unmap in unmap_buffer(): that only *)
(* counts, the mapping and its address stay until destroy_buffer().  It    *)
(* does not look for an old mapping in map_buffer() either: every call     *)
(* makes a new one.                                                        *)
(*                                                                         *)
(* A call that fails changes nothing the model has and is a stuttering     *)
(* step.  The geometry of the buffers is SurfaceLayout's.                  *)
(***************************************************************************)
EXTENDS GemKernel, FiniteSets

CONSTANTS
  Buf,       \* vmwgfx_buffer structures of a process
  MaxMaps    \* bound on the map_count of a buffer

ASSUME VmwgfxAssumption == MaxMaps \in Nat /\ IsFiniteSet(Buf)

VARIABLES
  up,        \* up[p]: the process has a driver
  nr_bufs,   \* driver->nr_bufs
  warned,    \* the last destroy_driver() said that buffers are left
  buf,       \* buf[p][b]: a vmwgfx_buffer, or NoBuffer
  replaced   \* replaced[p]: addresses map_buffer() overwrote in a buffer

vars == <<res, up, nr_bufs, warned, buf, replaced>>

NoBuffer == [obj |-> None, handle |-> None, buff |-> None, map_count |-> 0]

Live(p) == {b \in Buf : buf[p][b].obj # None}

Init ==
  /\ res = [p \in Proc |-> NoReferences]
  /\ up = [p \in Proc |-> FALSE]
  /\ nr_bufs = [p \in Proc |-> 0]
  /\ warned = [p \in Proc |-> FALSE]
  /\ buf = [p \in Proc |-> [b \in Buf |-> NoBuffer]]
  /\ replaced = [p \in Proc |-> {}]

CreateDriver(p) ==
  /\ ~up[p] /\ Live(p) = {}
  /\ up' = [up EXCEPT ![p] = TRUE]
  /\ nr_bufs' = [nr_bufs EXCEPT ![p] = 0]
  /\ warned' = [warned EXCEPT ![p] = FALSE]
  /\ UNCHANGED <<res, buf, replaced>>

DestroyDriver(p) ==
  /\ up[p]
  /\ up' = [up EXCEPT ![p] = FALSE]
  /\ warned' = [warned EXCEPT ![p] = nr_bufs[p] # 0]
  /\ nr_bufs' = [nr_bufs EXCEPT ![p] = 0]
  /\ UNCHANGED <<res, buf, replaced>>

\* nr_bufs++, and a slip that forgets it
CountNothing(p) == UNCHANGED nr_bufs
CountBuffer(p)  == nr_bufs' = [nr_bufs EXCEPT ![p] = @ + 1]

\* DRM_VMW_ALLOC_DMABUF, asked for again while it is interrupted, and the
\* buffer structure
CreateBuffer(p, b) ==
  \E o \in Obj \ Alive, h \in Free(p, Handle) :
    /\ up[p] /\ b \notin Live(p)
    /\ res' = Bind(p, {h}, o)
    /\ buf' = [buf EXCEPT ![p][b] =
                 [obj |-> o, handle |-> h, buff |-> None, map_count |-> 0]]
    /\ CountBuffer(p)
    /\ UNCHANGED <<up, warned, replaced>>

\* an address that is in the buffer is lost
MapBuffer(p, b) ==
  \E a \in Free(p, Addr) :
    /\ up[p] /\ b \in Live(p) /\ buf[p][b].map_count < MaxMaps
    /\ res' = Bind(p, {a}, buf[p][b].obj)
    /\ buf' = [buf EXCEPT ![p][b].buff = a, ![p][b].map_count = @ + 1]
    /\ replaced' = [replaced EXCEPT ![p] = @ \cup ({buf[p][b].buff} \ {None})]
    /\ UNCHANGED <<up, nr_bufs, warned>>

\* a slip: the mapping goes, the address stays
UnmapBufferForReal(p, b) ==
  /\ up[p] /\ b \in Live(p) /\ buf[p][b].map_count > 0
  /\ res' = Release(p, {buf[p][b].buff})
  /\ buf' = [buf EXCEPT ![p][b].map_count = @ - 1]
  /\ UNCHANGED <<up, nr_bufs, warned, replaced>>

\* the caller unmaps what it mapped
UnmapBuffer(p, b) ==
  /\ up[p] /\ b \in Live(p) /\ buf[p][b].map_count > 0
  /\ buf' = [buf EXCEPT ![p][b].map_count = @ - 1]
  /\ UNCHANGED <<res, up, nr_bufs, warned, replaced>>

\* one munmap, of the last address, and DRM_VMW_UNREF_DMABUF, whatever
\* map_count is; a slip trusts map_count
ReleasedIfMapped(m) == {m.handle} \cup (IF m.map_count > 0 THEN {m.buff} ELSE {})
Released(m) == {m.handle, m.buff} \ {None}

DiscountNothing(p) == UNCHANGED nr_bufs
DiscountBuffer(p)  == nr_bufs' = [nr_bufs EXCEPT ![p] = @ - 1]

DestroyBuffer(p, b) ==
  /\ up[p] /\ b \in Live(p)
  /\ res' = Release(p, Released(buf[p][b]))
  /\ buf' = [buf EXCEPT ![p][b] = NoBuffer]
  /\ DiscountBuffer(p)
  /\ UNCHANGED <<up, warned, replaced>>

\* the process exits or crashes; the kernel closes and unmaps all it had
ProcessDies(p) ==
  /\ res' = Release(p, Slot)
  /\ up' = [up EXCEPT ![p] = FALSE]
  /\ nr_bufs' = [nr_bufs EXCEPT ![p] = 0]
  /\ warned' = [warned EXCEPT ![p] = FALSE]
  /\ buf' = [buf EXCEPT ![p] = [b \in Buf |-> NoBuffer]]
  /\ replaced' = [replaced EXCEPT ![p] = {}]

Next ==
  \E p \in Proc :
    \/ CreateDriver(p) \/ DestroyDriver(p)
    \/ \E b \in Buf :
         \/ CreateBuffer(p, b) \/ MapBuffer(p, b)
         \/ UnmapBuffer(p, b) \/ DestroyBuffer(p, b)
    \/ ProcessDies(p)

Spec == Init /\ [][Next]_vars

-----------------------------------------------------------------------------
(* Properties.                                                             *)

\* Every variable keeps to its type; nr_bufs and map_count, both unsigned in
\* the driver, are never counted down past 0.
TypeOK ==
  /\ ResType
  /\ up \in [Proc -> BOOLEAN]
  /\ nr_bufs \in [Proc -> Nat]
  /\ warned \in [Proc -> BOOLEAN]
  /\ buf \in [Proc -> [Buf -> [obj : Obj \cup {None},
                               handle : Handle \cup {None},
                               buff : Addr \cup {None},
                               map_count : Nat]]]
  /\ replaced \in [Proc -> SUBSET Addr]

\* The address in a live buffer leads to the buffer's own object, mapped or
\* unmapped, and no other buffer has it: a caller that still draws through
\* base.buff after unmap_buffer() draws into the right memory.
AddressIsOwn ==
  \A p \in Proc : \A b \in Live(p) :
    LET m == buf[p][b] IN
    /\ res[p][m.handle] = m.obj
    /\ m.buff # None =>
         /\ res[p][m.buff] = m.obj
         /\ \A c \in Live(p) \ {b} : buf[p][c].buff # m.buff

\* The warning of destroy_driver() ("There is still %d buffers left") is
\* printed if and only if there are some.
WarningIsExact ==
  \A p \in Proc : warned[p] <=> ~up[p] /\ Live(p) # {}

\* Whatever nobody will give back is a mapping that a second map_buffer() call
\* replaced in its buffer: destroy_buffer() gives back everything else.
OnlyReplacedMappingsLeak ==
  \A p \in Proc : \A s \in Slot :
    res[p][s] # None =>
      s \in replaced[p] \/ \E b \in Live(p) : s \in {buf[p][b].handle, buf[p][b].buff}
=============================================================================
