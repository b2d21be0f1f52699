----------------------------- MODULE I915Driver -----------------------------
(***************************************************************************)
(* The life of surface buffers in the i915 driver.  A surface uses a       *)
(* buffer object (bo) of libdrm_intel, which keeps one bo for all surfaces *)
(* that were made by the same name or descriptor: surfaces of a process    *)
(* share its count of users, its count of maps and its address.  A bo of   *)
(* create_buffer() may be kept by libdrm when its surfaces are destroyed,  *)
(* and be given to the next one, whoever else has its object by then.      *)
(*                                                                         *)
(* As in RockchipDriver an entry is an action, and one that fails changes  *)
(* nothing: a surface that cannot be allocated lets its bo go again.  The  *)
(* checks of the format and the size (LayoutExchange) decide only whether  *)
(* an entry fails.  The handle or descriptor an import is made from stays  *)
(* the caller's.  The batch's own bo is never shared, and left out.        *)
(***************************************************************************)
EXTENDS LibdrmIntel, FiniteSets

CONSTANTS
  Buf,      \* surface structures of a process
  Scanout,  \* whether create_buffer is asked for surfaces to be scanned out
  Reimports \* whether a process imports an object that it exported, and whose
            \* bo is kept by now: libdrm then uses the bo and goes on keeping it

ASSUME BufAssumption ==
  IsFiniteSet(Buf) /\ Scanout \subseteq BOOLEAN /\ Reimports \in BOOLEAN

VARIABLES
  up,          \* the process has a driver
  nr_buffers,  \* driver->nr_buffers
  warned,      \* the last destroy_driver said that buffers are left
  buf,         \* buf[p][b]: a my_surface_buffer, or NoBuffer
  held         \* handles and descriptors that belong to the caller

libdrm == <<res, primed, bo, kept>>
vars == <<res, primed, bo, kept, up, nr_buffers, warned, buf, held>>

-----------------------------------------------------------------------------
\* obj is the object the surface was made for, bo its bo's handle; created tells
\* a surface of create_buffer(), which alone fills in cpp and the format
NoBuffer == [obj |-> None, bo |-> None, prime_fd |-> None, created |-> FALSE,
             scanout |-> FALSE, buff |-> None]

Live(p) == {b \in Buf : buf[p][b].obj # None}

\* the mapping map_buffer() asks for
MapWay(m) == IF m.scanout THEN "gtt" ELSE "cpu"

Init ==
  /\ res = [p \in Proc |-> NoReferences]
  /\ primed = [p \in Proc |-> {}]
  /\ bo = [p \in Proc |-> [h \in Handle |-> NoBo]]
  /\ kept = [p \in Proc |-> {}]
  /\ up = [p \in Proc |-> FALSE]
  /\ nr_buffers = [p \in Proc |-> 0]
  /\ warned = [p \in Proc |-> FALSE]
  /\ buf = [p \in Proc |-> [b \in Buf |-> NoBuffer]]
  /\ held = [p \in Proc |-> {}]

\* get_intel_chip_id() and the manager's initialisation succeed
CreateDriver(p) ==
  /\ ~up[p] /\ Live(p) = {}
  /\ up' = [up EXCEPT ![p] = TRUE]
  /\ nr_buffers' = [nr_buffers EXCEPT ![p] = 0]
  /\ warned' = [warned EXCEPT ![p] = FALSE]
  /\ UNCHANGED <<libdrm, buf, held>>

\* slip: the manager, and the bos it keeps, are not given up
ForgetManager(p) == UNCHANGED libdrm

\* drm_intel_bufmgr_destroy()
DestroyManager(p) == FreeBos(p, kept[p])

DestroyDriver(p) ==
  /\ up[p]
  /\ up' = [up EXCEPT ![p] = FALSE]
  /\ warned' = [warned EXCEPT ![p] = nr_buffers[p] # 0]
  /\ nr_buffers' = [nr_buffers EXCEPT ![p] = 0]
  /\ DestroyManager(p)
  /\ UNCHANGED <<buf, held>>

\* nr_buffers++, and a slip that forgets it
CountNothing(p) == UNCHANGED nr_buffers
CountBuffer(p)  == nr_buffers' = [nr_buffers EXCEPT ![p] = @ + 1]

\* i915_create_buffer_helper()
MakeBuffer(p, b, o, h, fd, created, scanout) ==
  /\ up[p] /\ b \notin Live(p)
  /\ buf' = [buf EXCEPT ![p][b] =
               [obj |-> o, bo |-> h, prime_fd |-> fd, created |-> created,
                scanout |-> scanout, buff |-> None]]
  /\ CountBuffer(p)
  /\ UNCHANGED <<up, warned, held>>

CreateBuffer(p, b) ==
  \E o \in Obj, h \in Handle, scanout \in Scanout :
    /\ AllocBo(p, h, o)
    /\ MakeBuffer(p, b, o, h, None, TRUE, scanout)

\* a slip: the bo is made on the caller's handle itself
AdoptHandle(p, handle, h) == h = handle /\ ReferenceBo(p, h)

\* create_bo_from_handle(), without DRM_INTEL_HAVE_CREATE_FROM_HANDLE: the
\* handle is turned into a name, and the name opened
CreateBoFromHandle(p, handle, h) == OpenName(p, h, res[p][handle])

\* handle is the caller's, or that of a surface
CreateBufferFromHandle(p, b) ==
  \E handle \in held[p] \cup {buf[p][c].bo : c \in Live(p)}, h \in Handle :
    /\ handle \in Handle
    /\ CreateBoFromHandle(p, handle, h)
    /\ MakeBuffer(p, b, res[p][handle], h, None, FALSE, FALSE)

CreateBufferFromName(p, b) ==
  \E o \in Named, h \in Handle :
    /\ OpenName(p, h, o)
    /\ MakeBuffer(p, b, o, h, None, FALSE, FALSE)

CreateBufferFromPrimeFd(p, b) ==
  \E fd \in held[p] \cap Fd, h \in Handle :
    /\ Reimports \/ \A g \in kept[p] \cap primed[p] : res[p][g] # res[p][fd]
    /\ OpenPrime(p, h, res[p][fd])
    /\ MakeBuffer(p, b, res[p][fd], h, fd, FALSE, FALSE)

\* the result of the map call is not looked at, bo->virtual is
MapBuffer(p, b) ==
  LET m == buf[p][b] IN
  \E ok \in BOOLEAN :
    /\ up[p] /\ b \in Live(p) /\ m.buff = None
    /\ bo' = [bo EXCEPT ![p][m.bo] = MappedBo(@, MapWay(m), ok)]
    /\ buf' = [buf EXCEPT ![p][b].buff = bo'[p][m.bo].virtual]
    /\ UNCHANGED <<res, primed, kept, up, nr_buffers, warned, held>>

\* a slip: only the address is forgotten
UnmapBufferForgets(p, b) ==
  /\ up[p] /\ b \in Live(p) /\ buf[p][b].buff # None
  /\ buf' = [buf EXCEPT ![p][b].buff = None]
  /\ UNCHANGED <<libdrm, up, nr_buffers, warned, held>>

UnmapBuffer(p, b) ==
  /\ up[p] /\ b \in Live(p) /\ buf[p][b].buff # None
  /\ bo' = [bo EXCEPT ![p][buf[p][b].bo] = UnmappedBo(@)]
  /\ buf' = [buf EXCEPT ![p][b].buff = None]
  /\ UNCHANGED <<res, primed, kept, up, nr_buffers, warned, held>>

\* slips: a surface that is mapped is not unmapped; an imported descriptor is
\* closed, as the rockchip driver does; the bo is unreferenced twice, or not
LetGoMapped(p, m) == UnreferenceBo(p, m.bo, bo[p][m.bo])
LetGoAndClose(p, m) ==
  /\ res' = Release(p, {m.bo, m.prime_fd})
  /\ primed' = [primed EXCEPT ![p] = @ \ {m.bo}]
  /\ bo' = [bo EXCEPT ![p][m.bo] = NoBo]
  /\ UNCHANGED kept
LetGoTwice(p, m) ==
  UnreferenceBo(p, m.bo,
                [bo[p][m.bo] EXCEPT !.refs = IF @ > 1 THEN @ - 1 ELSE 1])
LetGoNothing(p, m) == UNCHANGED libdrm

DiscountBuffer(p) == nr_buffers' = [nr_buffers EXCEPT ![p] = @ - 1]

\* the unmap call, if the surface is mapped, and drm_intel_bo_unreference()
LetGo(p, m) ==
  LET b == bo[p][m.bo]
  IN UnreferenceBo(p, m.bo, IF m.buff # None THEN UnmappedBo(b) ELSE b)

DestroyBuffer(p, b) ==
  /\ up[p] /\ b \in Live(p)
  /\ LetGo(p, buf[p][b])
  /\ buf' = [buf EXCEPT ![p][b] = NoBuffer]
  /\ DiscountBuffer(p)
  /\ UNCHANGED <<up, warned, held>>

-----------------------------------------------------------------------------
(* What libdrm, the callers and the kernel do besides.                      *)

\* a bo is freed after being kept for a second, or when memory is short; that
\* is done at some later call which frees or allocates another bo
LibdrmFrees(p) ==
  \E h \in kept[p] :
    /\ FreeBos(p, {h})
    /\ UNCHANGED <<up, nr_buffers, warned, buf, held>>

\* a surface is exported for another process, or for this one
CallerExports(p) ==
  \E b \in Live(p), f \in Free(p, Fd) :
    /\ res' = Bind(p, {f}, buf[p][b].obj)
    /\ primed' = [primed EXCEPT ![p] = @ \cup {buf[p][b].bo}]
    /\ held' = [held EXCEPT ![p] = @ \cup {f}]
    /\ UNCHANGED <<bo, kept, up, nr_buffers, warned, buf>>

\* a descriptor comes over a socket
CallerReceivesFd(p) ==
  \E o \in Alive, f \in Free(p, Fd) :
    /\ res' = Bind(p, {f}, o)
    /\ held' = [held EXCEPT ![p] = @ \cup {f}]
    /\ UNCHANGED <<primed, bo, kept, up, nr_buffers, warned, buf>>

CallerOpensName(p) ==
  \E o \in Named, h \in Free(p, Handle) :
    /\ res' = Bind(p, {h}, o)
    /\ held' = [held EXCEPT ![p] = @ \cup {h}]
    /\ UNCHANGED <<primed, bo, kept, up, nr_buffers, warned, buf>>

CallerReleases(p) ==
  \E s \in held[p] :
    /\ res' = Release(p, {s})
    /\ held' = [held EXCEPT ![p] = @ \ {s}]
    /\ UNCHANGED <<primed, bo, kept, up, nr_buffers, warned, buf>>

ProcessDies(p) ==
  /\ res' = Release(p, Slot)
  /\ primed' = [primed EXCEPT ![p] = {}]
  /\ bo' = [bo EXCEPT ![p] = [h \in Handle |-> NoBo]]
  /\ kept' = [kept EXCEPT ![p] = {}]
  /\ up' = [up EXCEPT ![p] = FALSE]
  /\ nr_buffers' = [nr_buffers EXCEPT ![p] = 0]
  /\ warned' = [warned EXCEPT ![p] = FALSE]
  /\ buf' = [buf EXCEPT ![p] = [b \in Buf |-> NoBuffer]]
  /\ held' = [held EXCEPT ![p] = {}]

Next ==
  \E p \in Proc :
    \/ CreateDriver(p) \/ DestroyDriver(p)
    \/ \E b \in Buf :
         \/ CreateBuffer(p, b) \/ CreateBufferFromHandle(p, b)
         \/ CreateBufferFromName(p, b) \/ CreateBufferFromPrimeFd(p, b)
         \/ MapBuffer(p, b) \/ UnmapBuffer(p, b) \/ DestroyBuffer(p, b)
    \/ CallerExports(p) \/ CallerReceivesFd(p) \/ CallerOpensName(p)
    \/ CallerReleases(p) \/ ProcessDies(p) \/ LibdrmFrees(p)

Spec == Init /\ [][Next]_vars

-----------------------------------------------------------------------------
(* Properties.                                                             *)

Users(p, h)  == {b \in Live(p) : buf[p][b].bo = h}
Mapped(p, h) == {b \in Users(p, h) : buf[p][b].buff # None}

\* Every variable keeps to its type.
TypeOK ==
  /\ ResType /\ BoType
  /\ up \in [Proc -> BOOLEAN] /\ warned \in [Proc -> BOOLEAN]
  /\ nr_buffers \in [Proc -> Nat]
  /\ buf \in [Proc -> [Buf -> [obj : Obj \cup {None}, bo : Handle \cup {None},
                               prime_fd : Fd \cup {None}, created : BOOLEAN,
                               scanout : BOOLEAN, buff : Way \cup {None}]]]
  /\ held \in [Proc -> SUBSET (Handle \cup Fd)]

\* A bo has as many references as there are surfaces on it: however surfaces
\* on one object were made, one by one or sharing a bo, the last that is
\* destroyed gives the bo back and no earlier one does.
RefsExact ==
  \A p \in Proc, h \in Handle : bo[p][h].refs = Cardinality(Users(p, h))

\* A live surface's handle leads to its own object, and its address, if it
\* has one, to a mapping of its bo that exists, although surfaces that share
\* the bo map and unmap it two ways and calls to do so fail unnoticed.
SurfaceIsGood ==
  \A p \in Proc : \A b \in Live(p) :
    LET m == buf[p][b] IN
    /\ res[p][m.bo] = m.obj
    /\ m.buff # None => m.buff \in bo[p][m.bo].cached

\* Two surfaces of create_buffer() that are alive, in one process or in two,
\* never have one object, although bos, and with them objects that others may
\* still have, are used again (imports are for having another's object).
CreatedApart ==
  \A p, q \in Proc : \A b \in Live(p), c \in Live(q) :
    /\ <<p, b>> # <<q, c>>
    /\ buf[p][b].created /\ buf[q][c].created
    => buf[p][b].obj # buf[q][c].obj

\* What the caller holds stays open and is not taken over by the driver or by
\* libdrm: the driver stores the numbers it is given but gives back only what
\* it opened itself.
CallerKeepsItsOwn ==
  \A p \in Proc : \A s \in held[p] :
    /\ res[p][s] # None
    /\ s \in Handle => bo[p][s].refs = 0 /\ s \notin kept[p]

\* Every open handle is the caller's, that of a surface, or one that libdrm
\* keeps for reuse, and it keeps none that is in use, nor any when there is no
\* driver.  (Descriptors are never the driver's.)
NothingLeaks ==
  \A p \in Proc :
    /\ \A h \in Handle :
         res[p][h] # None => \/ h \in held[p] \cup kept[p]
                             \/ \E b \in Live(p) : buf[p][b].bo = h
    /\ \A b \in Live(p) : buf[p][b].bo \notin kept[p]
    /\ up[p] \/ kept[p] = {}

\* A bo is not left mapped by surfaces that were unmapped or destroyed; a map
\* call that failed may make the count smaller, but not greater.
MapsAreUsed ==
  \A p \in Proc, h \in Handle : bo[p][h].maps <= Cardinality(Mapped(p, h))

\* destroy_driver() warns if, and only if, buffers are left.
WarningIsExact ==
  \A p \in Proc :
    IF up[p] THEN nr_buffers[p] = Cardinality(Live(p))
             ELSE warned[p] <=> Live(p) # {}

\* If the map call of a surface fails the surface gets no address, or (the
\* driver having asked for another kind of mapping) that of a surface which
\* shares its bo and is mapped at that time: never one left over.
FailedMapBorrows ==
  [][\A p \in Proc : \A b \in Live(p) :
       LET m == buf[p][b]
           a == buf'[p][b].buff
       IN m.buff = None /\ a \notin {None, MapWay(m)} => Mapped(p, m.bo) # {}
    ]_vars

\* The promise that the rockchip driver keeps: every surface has its object's
\* memory until it is destroyed, and the last reference gives it back, those
\* that libdrm keeps for reuse counted in.
Promise ==
  INSTANCE SharedSurfaces WITH
    Surf  <- Buf,
    Token <- Handle \cup Fd,
    surf  <- [p \in Proc |-> [b \in Buf |-> buf[p][b].obj]],
    tok   <- [p \in Proc |-> [t \in Handle \cup Fd |->
                IF t \in held[p] \cup kept[p] THEN res[p][t] ELSE None]],
    pool  <- Alive

KeepsPromise == Promise!SSpec
=============================================================================
