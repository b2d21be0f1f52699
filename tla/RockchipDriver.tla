--------------------------- MODULE RockchipDriver ---------------------------
(***************************************************************************)
(* The life of surface buffers in the rockchip driver: the processes that  *)
(* share GEM objects (a server and its clients), each with a driver of its *)
(* own, create buffers, import them by handle, by global name or by PRIME  *)
(* descriptor, map, unmap and destroy them, close the driver and die.      *)
(*                                                                         *)
(* Every driver entry is called by one thread of its process and returns   *)
(* before the next call, so an entry is one action; what interleaves are   *)
(* the processes and the calls.  An entry that fails returns before it     *)
(* changes anything the model has, and is a stuttering step.               *)
(*                                                                         *)
(* The caller's side of the interface is the one the code relies on: a     *)
(* handle or descriptor passed to a successful create_buffer_from_* call   *)
(* belongs to the buffer from then on.                                     *)
(***************************************************************************)
EXTENDS GemKernel, SurfaceLayout, FiniteSets

CONSTANTS
  Buf,         \* surface buffer structures of a process
  Fd0,         \* descriptor number 0: in Fd if stdin is closed, else outside
  Req,         \* Req[o]: the create_buffer() arguments object o is made for
  Page,        \* the page size, to which the kernel rounds an object's size
  MaxNrBufs    \* bound on the nr_bufs counter

ASSUME ConstantAssumption ==
  /\ Req \in [Obj -> [fmt : STRING, hdr : Nat, width : Nat, height : Nat]]
  /\ Page \in Nat \ {0}
  /\ MaxNrBufs \in Nat
  /\ IsFiniteSet(Buf)
  /\ Fd0 \notin Handle \cup Addr \cup Rga \cup {None}

VARIABLES
  up,        \* up[p]: the process has a driver (drv)
  nr_bufs,   \* drv->nr_bufs
  warned,    \* the last destroy_driver() said that buffers are left
  buf,       \* buf[p][b]: a my_surface_buffer, or NoBuffer
  held       \* handles and descriptors that belong to the caller

vars == <<res, up, nr_bufs, warned, buf, held>>

-----------------------------------------------------------------------------
(* Geometry of a buffer made for, or claimed to be, an object like o.      *)

Cpp(o)   == RockchipCpp(Req[o].fmt)
Pitch(o) == PitchOf(Req[o].width, Cpp(o), 4)
Lines(o) == HeaderLines(Req[o].hdr, Pitch(o))
Size(o)  == SizeOf(Lines(o), Req[o].height, Pitch(o))
NoImportedLines(o) == 0                       \* a slip: header forgotten
ImportedLines(o) == ImportedHeaderLines(Req[o].hdr, Pitch(o))
FileSize(o) == Page * ((Size(o) + Page - 1) \div Page)

\* a slip: the size passed in is not compared
ClaimOkForAnySize(size, o) == Cpp(o) # 0

\* rockchip's check_format_size() for a caller that claims the layout of o
ClaimOk(size, o) ==
  FormatSizeOk(size, Cpp(o), Req[o].hdr, Req[o].width, Req[o].height,
               Pitch(o), 4)

\* objects are made of a supported format and of some width (a pitch of 0
\* divides by zero in every create_buffer entry)
ASSUME PitchAssumption == \A o \in Obj : Pitch(o) # 0

-----------------------------------------------------------------------------
(* Buffers: obj is the object the buffer gives access to, like the one     *)
(* whose layout it was given.                                              *)

NoBuffer == [obj |-> None, like |-> None, handle |-> None, prime_fd |-> None,
             rga_handle |-> None, buff |-> None, size |-> 0, lines |-> 0]

Live(p) == {b \in Buf : buf[p][b].obj # None}

\* the kernel and RGA references a buffer owns
Slots(b) == {b.handle, b.prime_fd, b.rga_handle, b.buff} \ {None}

Init ==
  /\ res = [p \in Proc |-> NoReferences]
  /\ up = [p \in Proc |-> FALSE]
  /\ nr_bufs = [p \in Proc |-> 0]
  /\ warned = [p \in Proc |-> FALSE]
  /\ buf = [p \in Proc |-> [b \in Buf |-> NoBuffer]]
  /\ held = [p \in Proc |-> {}]

\* p may call an entry that makes the buffer structure b
CanMake(p, b) == up[p] /\ b \notin Live(p) /\ nr_bufs[p] < MaxNrBufs

\* wrap_rga_buffer() on a handle: the export fails (f = None) or gives a
\* descriptor, and then the RGA import fails (r = None) or gives a handle
WrapRgaBuffer(p, f, r) ==
  /\ f \in Free(p, Fd) \cup {None}
  /\ r \in Free(p, Rga) \cup {None}
  /\ f = None => r = None

\* nr_bufs++, and a slip that forgets it
CountNothing(p) == UNCHANGED nr_bufs
CountBuffer(p)  == nr_bufs' = [nr_bufs EXCEPT ![p] = @ + 1]

\* the new buffer b of p; it owns the slots h, f and r
MakeBuffer(p, b, o, like, h, f, r, size, lines) ==
  /\ buf' = [buf EXCEPT ![p][b] =
               [obj |-> o, like |-> like, handle |-> h, prime_fd |-> f,
                rga_handle |-> r, buff |-> None, size |-> size,
                lines |-> lines]]
  /\ CountBuffer(p)
  /\ UNCHANGED <<up, warned>>

-----------------------------------------------------------------------------
CreateDriver(p) ==
  /\ ~up[p] /\ Live(p) = {}
  /\ up' = [up EXCEPT ![p] = TRUE]
  /\ nr_bufs' = [nr_bufs EXCEPT ![p] = 0]
  /\ warned' = [warned EXCEPT ![p] = FALSE]
  /\ UNCHANGED <<res, buf, held>>

DestroyDriver(p) ==
  /\ up[p]
  /\ up' = [up EXCEPT ![p] = FALSE]
  /\ warned' = [warned EXCEPT ![p] = nr_bufs[p] # 0]
  /\ nr_bufs' = [nr_bufs EXCEPT ![p] = 0]
  /\ UNCHANGED <<res, buf, held>>

CreateBuffer(p, b) ==
  \E o \in Obj \ Alive, h \in Free(p, Handle),
     f \in Fd \cup {None}, r \in Rga \cup {None} :
    /\ CanMake(p, b)
    /\ Cpp(o) # 0 /\ Size(o) # 0
    /\ WrapRgaBuffer(p, f, r)
    /\ res' = Bind(p, {h, f, r}, o)
    /\ MakeBuffer(p, b, o, o, h, f, r, Size(o), Lines(o))
    /\ UNCHANGED held

\* the caller passes a handle of its own and, or not, the size it knows
CreateBufferFromHandle(p, b) ==
  \E h \in held[p] \cap Handle, like \in Obj, f \in Fd \cup {None},
     r \in Rga \cup {None} : \E size \in {0, Size(res[p][h])} :
    /\ CanMake(p, b)
    /\ ClaimOk(size, like)
    /\ WrapRgaBuffer(p, f, r)
    /\ res' = Bind(p, {f, r}, res[p][h])
    /\ MakeBuffer(p, b, res[p][h], like, h, f, r, size, ImportedLines(like))
    /\ held' = [held EXCEPT ![p] = @ \ {h}]

CreateBufferFromName(p, b) ==
  \E o \in Named, h \in Free(p, Handle), like \in Obj, f \in Fd \cup {None},
     r \in Rga \cup {None} :
    /\ CanMake(p, b)
    /\ ClaimOk(0, like)
    /\ WrapRgaBuffer(p, f, r)
    /\ res' = Bind(p, {h, f, r}, o)
    /\ MakeBuffer(p, b, o, like, h, f, r,
         SizeOf(ImportedLines(like), Req[like].height, Pitch(like)),
         ImportedLines(like))
    /\ UNCHANGED held

\* handle stays 0, so that wrap_rga_buffer() fails to export it
CreateBufferFromPrimeFd(p, b) ==
  \E fd \in held[p] \cap Fd, like \in Obj :
    \E claimed \in {0, Size(res[p][fd])} :
      LET fileSize == FileSize(res[p][fd])
          size     == IF claimed = 0 THEN fileSize ELSE claimed
      IN
      /\ CanMake(p, b)
      /\ size <= fileSize
      /\ ClaimOk(size, like)
      /\ MakeBuffer(p, b, res[p][fd], like, None, fd, None, size,
                    ImportedLines(like))
      /\ held' = [held EXCEPT ![p] = @ \ {fd}]
      /\ UNCHANGED res

\* the test "if (buffer->prime_fd)" takes every number but 0 for a descriptor,
\* -1 too; the kernel maps neither 0 bytes nor more than the object has
Mappable(m) ==
  /\ IF m.prime_fd # Fd0 THEN m.prime_fd # None ELSE m.handle # None
  /\ 0 < m.size /\ m.size <= FileSize(m.obj)

MapBuffer(p, b) ==
  \E a \in Free(p, Addr) :
    /\ up[p] /\ b \in Live(p) /\ buf[p][b].buff = None
    /\ Mappable(buf[p][b])
    /\ res' = Bind(p, {a}, buf[p][b].obj)
    /\ buf' = [buf EXCEPT ![p][b].buff = a]
    /\ UNCHANGED <<up, nr_bufs, warned, held>>

\* a slip: the address stays in the buffer
UnmapBufferKeepsAddress(p, b) ==
  /\ up[p] /\ b \in Live(p) /\ buf[p][b].buff # None
  /\ res' = Release(p, {buf[p][b].buff})
  /\ UNCHANGED <<up, nr_bufs, warned, buf, held>>

UnmapBuffer(p, b) ==
  /\ up[p] /\ b \in Live(p) /\ buf[p][b].buff # None
  /\ res' = Release(p, {buf[p][b].buff})
  /\ buf' = [buf EXCEPT ![p][b].buff = None]
  /\ UNCHANGED <<up, nr_bufs, warned, held>>

\* slips: a mapped buffer is not unmapped; its handle is not closed
ReleasedButMapping(m) == Slots(m) \ {Fd0, m.buff}
ReleasedButHandle(m)  == Slots(m) \ {Fd0, m.handle}

\* munmap, releasebuffer_handle, close unless the descriptor is number 0,
\* GEM_CLOSE
Released(m) == Slots(m) \ {Fd0}

\* the buffer is counted off only if GEM_CLOSE had a handle to close
DestroyBuffer(p, b) ==
  LET m == buf[p][b] IN
  /\ up[p] /\ b \in Live(p)
  /\ res' = Release(p, Released(m))
  /\ buf' = [buf EXCEPT ![p][b] = NoBuffer]
  /\ nr_bufs' = [nr_bufs EXCEPT ![p] = @ - (IF m.handle # None THEN 1 ELSE 0)]
  /\ UNCHANGED <<up, warned, held>>

-----------------------------------------------------------------------------
(* What the callers do besides calling the driver.                         *)

\* a descriptor comes over a socket, from a process that has the object
CallerReceivesFd(p) ==
  \E o \in Alive, f \in Free(p, Fd) :
    /\ res' = Bind(p, {f}, o)
    /\ held' = [held EXCEPT ![p] = @ \cup {f}]
    /\ UNCHANGED <<up, nr_bufs, warned, buf>>

CallerOpensName(p) ==
  \E o \in Named, h \in Free(p, Handle) :
    /\ res' = Bind(p, {h}, o)
    /\ held' = [held EXCEPT ![p] = @ \cup {h}]
    /\ UNCHANGED <<up, nr_bufs, warned, buf>>

CallerReleases(p) ==
  \E s \in held[p] :
    /\ res' = Release(p, {s})
    /\ held' = [held EXCEPT ![p] = @ \ {s}]
    /\ UNCHANGED <<up, nr_bufs, warned, buf>>

\* the process exits or crashes; the kernel closes all it had open
ProcessDies(p) ==
  /\ res' = Release(p, Slot)
  /\ up' = [up EXCEPT ![p] = FALSE]
  /\ nr_bufs' = [nr_bufs EXCEPT ![p] = 0]
  /\ warned' = [warned EXCEPT ![p] = FALSE]
  /\ buf' = [buf EXCEPT ![p] = [b \in Buf |-> NoBuffer]]
  /\ held' = [held EXCEPT ![p] = {}]

Next ==
  \E p \in Proc :
    \/ CreateDriver(p) \/ DestroyDriver(p)
    \/ \E b \in Buf :
         \/ CreateBuffer(p, b) \/ CreateBufferFromHandle(p, b)
         \/ CreateBufferFromName(p, b) \/ CreateBufferFromPrimeFd(p, b)
         \/ MapBuffer(p, b) \/ UnmapBuffer(p, b) \/ DestroyBuffer(p, b)
    \/ CallerReceivesFd(p) \/ CallerOpensName(p) \/ CallerReleases(p)
    \/ ProcessDies(p)

Spec == Init /\ [][Next]_vars

-----------------------------------------------------------------------------
(* Properties.                                                             *)

SurfaceBuffer ==
  [obj : Obj \cup {None}, like : Obj \cup {None},
   handle : Handle \cup {None}, prime_fd : Fd \cup {None},
   rga_handle : Rga \cup {None}, buff : Addr \cup {None},
   size : Nat, lines : Nat]

\* Every variable keeps to its type; above all, nr_bufs, which is unsigned in
\* the driver, is never counted down past 0.
TypeOK ==
  /\ ResType
  /\ up \in [Proc -> BOOLEAN]
  /\ nr_bufs \in [Proc -> Nat]
  /\ warned \in [Proc -> BOOLEAN]
  /\ buf \in [Proc -> [Buf -> SurfaceBuffer]]
  /\ held \in [Proc -> SUBSET (Handle \cup Fd)]

\* A reference a live buffer has stored (handle, descriptor, RGA handle,
\* address) is open and leads to the buffer's own object, and nobody else in
\* the process, neither the caller nor another buffer, would close it: no
\* order of create, import, map, unmap and destroy calls leaves a buffer with
\* a number that has been closed, or closed and handed out again.
OwnsItsResources ==
  \A p \in Proc : \A b \in Live(p) :
    /\ \A s \in Slots(buf[p][b]) : res[p][s] = buf[p][b].obj /\ s \notin held[p]
    /\ \A c \in Live(p) \ {b} : Slots(buf[p][b]) \cap Slots(buf[p][c]) = {}

\* Every reference of a process other than descriptor 0 is in somebody's care:
\* a live buffer will close it, or the caller will.  (destroy_buffer() takes
\* a prime_fd of 0 for "none", so descriptor 0 is excepted.)
NothingLeaks ==
  \A p \in Proc : \A s \in Slot \ {Fd0} :
    res[p][s] # None => s \in held[p] \/ \E b \in Live(p) : s \in Slots(buf[p][b])

\* If destroy_driver() is called while buffers are left, it says so, however
\* the buffers of the process were made and whichever were destroyed before.
LeftoversAreReported ==
  \A p \in Proc : ~up[p] /\ Live(p) # {} => warned[p]

\* The converse, which is what the warning of destroy_driver() says ("There
\* is still %d buffers left"): it is printed only if there are some.
WarningIsTrue ==
  \A p \in Proc : warned[p] => Live(p) # {}

\* The pixel rows of a mapped buffer end inside its mapping, and that inside
\* the object, even if the caller claimed the layout of some other object.
RowsInsideMapping ==
  \A p \in Proc : \A b \in Live(p) :
    LET m == buf[p][b] IN
    m.buff # None =>
      /\ SizeOf(m.lines, Req[m.like].height, Pitch(m.like)) <= m.size
      /\ m.size <= FileSize(m.obj)

\* All who map an object with its true layout find its pixels at the same
\* offset, if the header fills whole lines; in any case no importer looks for
\* them more than one line before the creator's.
SharedPixelsAgree ==
  \A p, q \in Proc : \A b \in Live(p), c \in Live(q) :
    LET m == buf[p][b]
        n == buf[q][c]
        o == m.obj
    IN m.like = o /\ n.obj = o /\ n.like = o =>
         IF Req[o].hdr % Pitch(o) = 0 THEN m.lines = n.lines
                                      ELSE m.lines - n.lines \in -1 .. 1

\* The abstract specification, under: a surface is a live buffer, a token is
\* a handle or descriptor the caller holds, the pool is what the kernel keeps.
Promise ==
  INSTANCE SharedSurfaces WITH
    Surf  <- Buf,
    Token <- Handle \cup Fd,
    surf  <- [p \in Proc |-> [b \in Buf |-> buf[p][b].obj]],
    tok   <- [p \in Proc |-> [t \in Handle \cup Fd |->
                IF t \in held[p] THEN res[p][t] ELSE None]],
    pool  <- Alive

\* If descriptor 0 is in use for something else, the driver keeps the promise.
KeepsPromise == Promise!SSpec
=============================================================================
