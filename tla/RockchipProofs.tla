--------------------------- MODULE RockchipProofs ---------------------------
(***************************************************************************)
(* Proofs about the rockchip driver for any number of processes, objects,  *)
(* buffers, handles and descriptors.                                       *)
(***************************************************************************)
EXTENDS RockchipDriver, TLAPS, FiniteSetTheorems

-----------------------------------------------------------------------------
(* The geometry yields natural numbers.                                    *)

\* The cpp of any format is 0, 2, 3 or 4.
LEMMA CppIsNat == \A o \in Obj : Cpp(o) \in Nat
BY DEF Cpp, RockchipCpp

\* Reduction modulo Word keeps a number in uint32_t.
LEMMA WrapIsNat == \A n \in Int : Wrap(n) \in Nat
BY WordAssumption DEF Wrap

\* Products, quotients and roundings of natural numbers are natural numbers.
LEMMA ArithIsNat ==
  /\ \A a, b \in Nat : a * b \in Nat
  /\ \A a \in Nat, b \in Nat \ {0} : a \div b \in Nat
  /\ \A n \in Nat : RoundToMultiple(n, 4) \in Nat
<1>1. \A a, b \in Nat : a * b \in Nat
  OBVIOUS
<1>2. \A a \in Nat, b \in Nat \ {0} : a \div b \in Nat
  OBVIOUS
<1>3. \A n \in Nat : RoundToMultiple(n, 4) \in Nat
  <2> SUFFICES ASSUME NEW n \in Nat PROVE RoundToMultiple(n, 4) \in Nat
    OBVIOUS
  <2>1. \A x \in Nat : x - (x % 4) \in Nat
    OBVIOUS
  <2> QED
    BY <2>1, WrapIsNat DEF RoundToMultiple
<1> QED
  BY <1>1, <1>2, <1>3

\* The pitch is positive, line counts and sizes are natural numbers.
LEMMA LayoutIsNat ==
  ASSUME NEW o \in Obj
  PROVE  /\ Pitch(o) \in Nat \ {0}
         /\ Lines(o) \in Nat
         /\ ImportedLines(o) \in Nat
         /\ Size(o) \in Nat
         /\ FileSize(o) \in Nat
         /\ SizeOf(ImportedLines(o), Req[o].height, Pitch(o)) \in Nat
<1> DEFINE q == Req[o]
<1>1. /\ q.hdr \in Nat /\ q.width \in Nat /\ q.height \in Nat
      /\ Page \in Nat \ {0}
  BY ConstantAssumption
<1>2. Pitch(o) \in Nat \ {0}
  <2>1. Wrap(q.width * Cpp(o)) \in Nat
    <3>1. q.width * Cpp(o) \in Nat
      BY <1>1, CppIsNat
    <3> QED
      BY <3>1, WrapIsNat
  <2>2. PitchOf(q.width, Cpp(o), 4) \in Nat
    BY <2>1, ArithIsNat DEF PitchOf
  <2> QED
    BY <2>2, PitchAssumption DEF Pitch
<1>3. Lines(o) \in Nat
  <2>1. \A a \in Nat, b \in Nat \ {0} : HeaderLines(a, b) \in Nat
    <3> SUFFICES ASSUME NEW a \in Nat, NEW b \in Nat \ {0}
                 PROVE  HeaderLines(a, b) \in Nat
      OBVIOUS
    <3>1. a \div b \in Nat
      BY ArithIsNat
    <3>2. (IF a % b # 0 THEN 1 ELSE 0) \in Nat
      OBVIOUS
    <3> QED
      BY <3>1, <3>2 DEF HeaderLines
  <2> QED
    BY <2>1, <1>1, <1>2 DEF Lines
<1>4. ImportedLines(o) \in Nat
  BY <1>1, <1>2, ArithIsNat DEF ImportedLines, ImportedHeaderLines
<1>5. \A n \in Nat : SizeOf(n, q.height, Pitch(o)) \in Nat
  <2> SUFFICES ASSUME NEW n \in Nat
               PROVE  SizeOf(n, q.height, Pitch(o)) \in Nat
    OBVIOUS
  <2>1. Wrap(q.height + n) \in Nat
    BY <1>1, WrapIsNat
  <2>2. Wrap(q.height + n) * Pitch(o) \in Nat
    BY <2>1, <1>2, ArithIsNat
  <2> QED
    BY <2>2, WrapIsNat DEF SizeOf
<1>6. Size(o) \in Nat
  BY <1>3, <1>5 DEF Size
<1>7. FileSize(o) \in Nat
  <2>1. Size(o) + Page - 1 \in Nat
    BY <1>1, <1>6
  <2> QED
    BY <2>1, <1>1, ArithIsNat DEF FileSize
<1> QED
  BY <1>2, <1>3, <1>4, <1>5, <1>6, <1>7

-----------------------------------------------------------------------------
(* The inductive invariant, process by process: no action touches another  *)
(* process than its own.  HeldIsOpen is the strengthening that makes the   *)
(* hand-over of a handle or a descriptor safe: what the caller passes in   *)
(* is open, so it cannot be a slot the kernel is about to hand out.        *)

BuffersOwn(q) ==
  \A b \in Live(q) : \A s \in Slots(buf[q][b]) :
    res[q][s] = buf[q][b].obj /\ s \notin held[q]

BuffersApart(q) ==
  \A b \in Live(q) : \A c \in Live(q) \ {b} :
    Slots(buf[q][b]) \cap Slots(buf[q][c]) = {}

AllCaredFor(q) ==
  \A s \in Slot \ {Fd0} :
    res[q][s] # None =>
      s \in held[q] \/ \E b \in Live(q) : s \in Slots(buf[q][b])

HeldIsOpen(q) == \A s \in held[q] : res[q][s] # None

Ownership(q) ==
  BuffersOwn(q) /\ BuffersApart(q) /\ AllCaredFor(q) /\ HeldIsOpen(q)

Count(q) ==
  /\ up[q] => nr_bufs[q] >= Cardinality(Live(q))
  /\ ~up[q] /\ Live(q) # {} => warned[q]

IInv == TypeOK /\ \A q \in Proc : Ownership(q) /\ Count(q)

\* What each create entry sees to, and map_buffer() keeps: a buffer has a
\* handle or a descriptor; it is laid out like some object, and its size, if
\* known, is the one that create_buffer() gives that layout or that of its own
\* rows; and what is mapped is mapped whole.
Anchored(m) == m.handle # None \/ m.prime_fd # None

LaidOut(m) ==
  /\ m.like \in Obj
  /\ m.lines \in {Lines(m.like), ImportedLines(m.like)}
  /\ m.size \in {0, Size(m.like),
                 SizeOf(m.lines, Req[m.like].height, Pitch(m.like))}

MapFits(m) == m.buff # None => 0 < m.size /\ m.size <= FileSize(m.obj)

WellMade(m) == Anchored(m) /\ LaidOut(m) /\ MapFits(m)

BuffersWellMade == \A q \in Proc : \A b \in Live(q) : WellMade(buf[q][b])

-----------------------------------------------------------------------------
(* Ownership under the three ways a process's buffers change.              *)

\* The slots of a buffer are slots, and None is none of them.
LEMMA SlotsAreSlots ==
  ASSUME NEW m \in SurfaceBuffer
  PROVE  Slots(m) \subseteq Slot
BY DEF SurfaceBuffer, Slots, Slot

\* A process whose tables do not change stays as it was.
LEMMA Frame ==
  ASSUME NEW q \in Proc, Ownership(q),
         res'[q] = res[q], buf'[q] = buf[q], held'[q] = held[q]
  PROVE  Ownership(q)'
BY DEF Ownership, BuffersOwn, BuffersApart, AllCaredFor, HeldIsOpen, Live

\* p gets buffer b with the contents m: its slots are the newly opened ones
\* of T, which lead to m.obj, and those of G, which the caller gave away.
Adds(p, b, m, T, G) ==
  /\ b \notin Live(p) /\ m.obj \in Obj
  /\ Slots(m) = T \cup G
  /\ \A s \in T : s \in Slot /\ res[p][s] = None
  /\ \A s \in G : s \in held[p] /\ res[p][s] = m.obj
  /\ \A s \in Slot : res'[p][s] = IF s \in T THEN m.obj ELSE res[p][s]
  /\ \A c \in Buf : buf'[p][c] = IF c = b THEN m ELSE buf[p][c]
  /\ held'[p] = held[p] \ G

\* A buffer made of free slots and of what the caller gives away is owned.
LEMMA AddBuffer ==
  ASSUME TypeOK, NEW p \in Proc, NEW b \in Buf, NEW m \in SurfaceBuffer,
         NEW T, NEW G, Ownership(p), Adds(p, b, m, T, G)
  PROVE  Ownership(p)'
<1> USE DEF Adds
<1>1. None \notin Obj /\ None \notin Slot
  BY SlotAssumption
<1>2. Live(p)' = Live(p) \cup {b}
  BY <1>1 DEF Live
<1>3. \A c \in Live(p) : c # b /\ c \in Buf /\ buf'[p][c] = buf[p][c]
  BY DEF Live
<1>4. buf'[p][b] = m
  OBVIOUS
<1>5. \A c \in Live(p) : Slots(buf[p][c]) \subseteq Slot
  BY <1>3, SlotsAreSlots DEF TypeOK
<1>6. \A s \in held[p] : s \in Slot
  BY DEF TypeOK, Slot
<1>7. \A c \in Live(p) : \A s \in Slots(buf[p][c]) :
        s \notin T /\ s \notin G /\ res[p][s] # None
  BY <1>1, <1>3 DEF Ownership, BuffersOwn, Live
<1>8. \A s \in T : s \notin held[p]
  BY DEF Ownership, HeldIsOpen
<1>9. BuffersOwn(p)'
  <2>1. \A s \in Slots(m) : res'[p][s] = m.obj /\ s \notin held'[p]
    BY <1>6, <1>8
  <2>2. \A c \in Live(p) : \A s \in Slots(buf[p][c]) :
          res'[p][s] = buf[p][c].obj /\ s \notin held'[p]
    BY <1>5, <1>7 DEF Ownership, BuffersOwn
  <2> QED
    BY <2>1, <2>2, <1>2, <1>3, <1>4 DEF BuffersOwn
<1>10. BuffersApart(p)'
  <2>1. \A c \in Live(p) : Slots(m) \cap Slots(buf[p][c]) = {}
    BY <1>7
  <2>2. \A c \in Live(p) : \A d \in Live(p) \ {c} :
          Slots(buf[p][c]) \cap Slots(buf[p][d]) = {}
    BY DEF Ownership, BuffersApart
  <2> QED
    BY <2>1, <2>2, <1>2, <1>3, <1>4 DEF BuffersApart
<1>11. AllCaredFor(p)'
  <2> SUFFICES ASSUME NEW s \in Slot \ {Fd0}, res'[p][s] # None
               PROVE  s \in held'[p] \/ \E c \in Live(p)' : s \in Slots(buf'[p][c])
    BY DEF AllCaredFor
  <2>1. CASE s \in Slots(m)
    BY <2>1, <1>2, <1>4
  <2>2. CASE s \notin Slots(m)
    <3>1. s \in held[p] \/ \E c \in Live(p) : s \in Slots(buf[p][c])
      BY <2>2 DEF Ownership, AllCaredFor
    <3> QED
      BY <3>1, <2>2, <1>2, <1>3
  <2> QED
    BY <2>1, <2>2
<1>12. HeldIsOpen(p)'
  BY <1>1, <1>6, <1>8 DEF Ownership, HeldIsOpen
<1> QED
  BY <1>9, <1>10, <1>11, <1>12 DEF Ownership

-----------------------------------------------------------------------------
(* Counting, and putting the parts together.                               *)

\* The buffers of a process are finitely many.
LEMMA LiveIsFinite ==
  ASSUME NEW q \in Proc
  PROVE  IsFiniteSet(Live(q)) /\ Cardinality(Live(q)) \in Nat
BY ConstantAssumption, FS_Subset, FS_CardinalityType DEF Live

\* A step of process p keeps the invariant if it keeps p's part of it.
LEMMA OneProcess ==
  ASSUME IInv, NEW p \in Proc, TypeOK', Ownership(p)', Count(p)',
         \A q \in Proc \ {p} :
           /\ res'[q] = res[q] /\ buf'[q] = buf[q] /\ held'[q] = held[q]
           /\ up'[q] = up[q] /\ nr_bufs'[q] = nr_bufs[q] /\ warned'[q] = warned[q]
  PROVE  IInv'
<1> SUFFICES ASSUME NEW q \in Proc \ {p}
             PROVE  Ownership(q)' /\ Count(q)'
  BY DEF IInv
<1>1. Ownership(q)'
  BY Frame DEF IInv
<1>2. Live(q)' = Live(q)
  BY DEF Live
<1>3. Count(q)'
  BY <1>2 DEF IInv, Count
<1> QED
  BY <1>1, <1>3

\* What the four create entries have in common.
Makes(p, b, m, T, G) ==
  /\ up[p] /\ b \notin Live(p) /\ m.obj \in Obj
  /\ Slots(m) = T \cup G
  /\ \A s \in T : s \in Slot /\ res[p][s] = None
  /\ \A s \in G : s \in held[p] /\ res[p][s] = m.obj
  /\ res' = Bind(p, T, m.obj)
  /\ buf' = [buf EXCEPT ![p][b] = m]
  /\ nr_bufs' = [nr_bufs EXCEPT ![p] = @ + 1]
  /\ held' = [held EXCEPT ![p] = @ \ G]
  /\ UNCHANGED <<up, warned>>

\* A create entry keeps the invariant.
LEMMA Creation ==
  ASSUME IInv, NEW p \in Proc, NEW b \in Buf, NEW m \in SurfaceBuffer,
         NEW T, NEW G, Makes(p, b, m, T, G)
  PROVE  IInv'
<1> USE DEF Makes
<1>1. TypeOK
  BY DEF IInv
<1>2. TypeOK'
  <2>1. ResType'
    BY <1>1 DEF TypeOK, ResType, Bind
  <2>2. buf' \in [Proc -> [Buf -> SurfaceBuffer]]
    BY <1>1 DEF TypeOK
  <2>3. nr_bufs' \in [Proc -> Nat] /\ held' \in [Proc -> SUBSET (Handle \cup Fd)]
    BY <1>1 DEF TypeOK
  <2> QED
    BY <1>1, <2>1, <2>2, <2>3 DEF TypeOK
<1>3. Adds(p, b, m, T, G)
  <2>1. \A s \in Slot : res'[p][s] = IF s \in T THEN m.obj ELSE res[p][s]
    BY <1>1 DEF TypeOK, ResType, Bind
  <2>2. \A c \in Buf : buf'[p][c] = IF c = b THEN m ELSE buf[p][c]
    BY <1>1 DEF TypeOK
  <2>3. held'[p] = held[p] \ G
    BY <1>1 DEF TypeOK
  <2> QED
    BY <2>1, <2>2, <2>3 DEF Adds
<1>4. Ownership(p)'
  BY <1>1, <1>3, AddBuffer DEF IInv
<1>5. Count(p)'
  <2>1. Live(p)' = Live(p) \cup {b}
    BY <1>1, <1>3, SlotAssumption DEF Live, Adds
  <2>2. Cardinality(Live(p)') = Cardinality(Live(p)) + 1
    BY <2>1, LiveIsFinite, FS_AddElement
  <2>3. nr_bufs'[p] = nr_bufs[p] + 1 /\ up'[p]
    BY <1>1 DEF TypeOK
  <2>4. nr_bufs[p] >= Cardinality(Live(p)) /\ nr_bufs[p] \in Nat
    BY <1>1 DEF IInv, Count, TypeOK
  <2> QED
    BY <2>2, <2>3, <2>4, LiveIsFinite DEF Count
<1>6. \A q \in Proc \ {p} :
        /\ res'[q] = res[q] /\ buf'[q] = buf[q] /\ held'[q] = held[q]
        /\ up'[q] = up[q] /\ nr_bufs'[q] = nr_bufs[q] /\ warned'[q] = warned[q]
  BY <1>1 DEF TypeOK, ResType, Bind
<1> QED
  BY <1>2, <1>4, <1>5, <1>6, OneProcess

-----------------------------------------------------------------------------
(* The create entries.                                                     *)

\* A buffer structure filled in by MakeBuffer is one, and its slots are h, f, r.
LEMMA NewBufferIsTyped ==
  ASSUME NEW o \in Obj, NEW like \in Obj, NEW h \in Handle \cup {None},
         NEW f \in Fd \cup {None}, NEW r \in Rga \cup {None},
         NEW size \in Nat, NEW lines \in Nat
  PROVE  LET m == [obj |-> o, like |-> like, handle |-> h, prime_fd |-> f,
                   rga_handle |-> r, buff |-> None, size |-> size,
                   lines |-> lines]
         IN  m \in SurfaceBuffer /\ m.obj = o /\ Slots(m) = {h, f, r} \ {None}
BY DEF SurfaceBuffer, Slots

\* None names no slot, so binding it binds nothing.
LEMMA BindIgnoresNone ==
  ASSUME NEW p \in Proc, NEW S, NEW o
  PROVE  Bind(p, S, o) = Bind(p, S \ {None}, o)
BY SlotAssumption DEF Bind

\* A buffer just made is not mapped.
LEMMA Unmapped == \A m \in SurfaceBuffer : m.buff = None => MapFits(m)
BY DEF MapFits

\* A claim that the driver accepts has no size or the size of its layout.
LEMMA ClaimedSize ==
  ASSUME NEW size, NEW like \in Obj, ClaimOk(size, like)
  PROVE  size \in {0, Size(like)}
BY DEF ClaimOk, FormatSizeOk, Size, Lines

\* create_buffer() makes a buffer of free slots and a new object.
LEMMA CreateBufferMakes ==
  ASSUME IInv, NEW p \in Proc, NEW b \in Buf, CreateBuffer(p, b)
  PROVE  \E m \in SurfaceBuffer, T \in SUBSET Slot :
           Makes(p, b, m, T, {}) /\ WellMade(m) /\ m.obj \notin Alive
<1>1. PICK o \in Obj \ Alive, h \in Free(p, Handle),
           f \in Fd \cup {None}, r \in Rga \cup {None} :
        /\ CanMake(p, b) /\ WrapRgaBuffer(p, f, r)
        /\ res' = Bind(p, {h, f, r}, o)
        /\ MakeBuffer(p, b, o, o, h, f, r, Size(o), Lines(o))
        /\ UNCHANGED held
  BY DEF CreateBuffer
<1> DEFINE m == [obj |-> o, like |-> o, handle |-> h, prime_fd |-> f,
                 rga_handle |-> r, buff |-> None, size |-> Size(o),
                 lines |-> Lines(o)]
           T == {h, f, r} \ {None}
<1>2. h \in Handle /\ Size(o) \in Nat /\ Lines(o) \in Nat
  BY LayoutIsNat DEF Free
<1>3. m \in SurfaceBuffer /\ m.obj = o /\ Slots(m) = T
  BY <1>2, NewBufferIsTyped
<1>4. \A s \in T : s \in Slot /\ res[p][s] = None
  BY <1>1 DEF Free, WrapRgaBuffer, Slot
<1>5. res' = Bind(p, T, o)
  BY <1>1, BindIgnoresNone
<1>6. held' = [held EXCEPT ![p] = @ \ {}]
  BY <1>1 DEF IInv, TypeOK
<1>7. buf' = [buf EXCEPT ![p][b] = m]
  BY <1>1 DEF MakeBuffer
<1>8. m.buff = None /\ Anchored(m) /\ LaidOut(m)
  BY <1>2, SlotAssumption DEF Anchored, LaidOut, Slot
<1> HIDE DEF m, T
<1>9. Makes(p, b, m, T, {})
  BY <1>1, <1>3, <1>4, <1>5, <1>6, <1>7
     DEF Makes, CanMake, MakeBuffer, CountBuffer
<1> QED
  BY <1>3, <1>4, <1>8, <1>9, Unmapped DEF WellMade

\* create_buffer_from_handle() makes one of the caller's handle.
LEMMA CreateBufferFromHandleMakes ==
  ASSUME IInv, NEW p \in Proc, NEW b \in Buf, CreateBufferFromHandle(p, b)
  PROVE  \E m \in SurfaceBuffer, T \in SUBSET Slot, h \in held[p] :
           Makes(p, b, m, T, {h}) /\ WellMade(m)
<1> DEFINE Body(h, like, f, r, size) ==
             /\ CanMake(p, b) /\ WrapRgaBuffer(p, f, r) /\ ClaimOk(size, like)
             /\ res' = Bind(p, {f, r}, res[p][h])
             /\ MakeBuffer(p, b, res[p][h], like, h, f, r, size,
                           ImportedLines(like))
             /\ held' = [held EXCEPT ![p] = @ \ {h}]
<1>1. PICK h \in held[p] \cap Handle, like \in Obj, f \in Fd \cup {None},
           r \in Rga \cup {None} :
        \E size \in {0, Size(res[p][h])} : Body(h, like, f, r, size)
  BY DEF CreateBufferFromHandle
<1>2. PICK size \in {0, Size(res[p][h])} : Body(h, like, f, r, size)
  BY <1>1
<1> DEFINE o == res[p][h]
           m == [obj |-> o, like |-> like, handle |-> h, prime_fd |-> f,
                 rga_handle |-> r, buff |-> None, size |-> size,
                 lines |-> ImportedLines(like)]
           T == {f, r} \ {None}
<1>3. h \in Slot /\ h # None /\ h \notin T
  BY SlotAssumption DEF Slot
<1>4. o \in Obj
  BY <1>3 DEF IInv, Ownership, HeldIsOpen, TypeOK, ResType
<1>5. size \in Nat /\ ImportedLines(like) \in Nat
  BY <1>4, LayoutIsNat
<1>6. m \in SurfaceBuffer /\ m.obj = o /\ Slots(m) = T \cup {h}
  <2>1. m \in SurfaceBuffer
    BY <1>4, <1>5 DEF SurfaceBuffer
  <2>2. Slots(m) = T \cup {h}
    BY <1>3 DEF Slots
  <2> QED
    BY <2>1, <2>2
<1>7. \A s \in T : s \in Slot /\ res[p][s] = None
  BY <1>2 DEF Free, WrapRgaBuffer, Slot
<1>8. res' = Bind(p, T, o)
  BY <1>2, BindIgnoresNone
<1>9. buf' = [buf EXCEPT ![p][b] = m]
  BY <1>2 DEF MakeBuffer
<1>10. m.buff = None /\ Anchored(m) /\ LaidOut(m)
  BY <1>2, <1>3, ClaimedSize DEF Anchored, LaidOut
<1> HIDE DEF m, T, o
<1>11. \A s \in {h} : s \in held[p] /\ res[p][s] = m.obj
  BY <1>6 DEF o
<1>12. Makes(p, b, m, T, {h})
  BY <1>2, <1>4, <1>6, <1>7, <1>8, <1>9, <1>11
     DEF Makes, CanMake, MakeBuffer, CountBuffer
<1> QED
  BY <1>6, <1>7, <1>12, <1>10, Unmapped DEF WellMade

\* create_buffer_from_name() makes one of an object that is there.
LEMMA CreateBufferFromNameMakes ==
  ASSUME IInv, NEW p \in Proc, NEW b \in Buf, CreateBufferFromName(p, b)
  PROVE  \E m \in SurfaceBuffer, T \in SUBSET Slot :
           Makes(p, b, m, T, {}) /\ WellMade(m) /\ m.obj \in Alive
<1> DEFINE size(x) == SizeOf(ImportedLines(x), Req[x].height, Pitch(x))
<1>1. PICK o \in Named, h \in Free(p, Handle), like \in Obj,
           f \in Fd \cup {None}, r \in Rga \cup {None} :
        /\ CanMake(p, b) /\ WrapRgaBuffer(p, f, r)
        /\ res' = Bind(p, {h, f, r}, o)
        /\ MakeBuffer(p, b, o, like, h, f, r, size(like), ImportedLines(like))
        /\ UNCHANGED held
  BY DEF CreateBufferFromName
<1> DEFINE m == [obj |-> o, like |-> like, handle |-> h, prime_fd |-> f,
                 rga_handle |-> r, buff |-> None, size |-> size(like),
                 lines |-> ImportedLines(like)]
           T == {h, f, r} \ {None}
<1>2. o \in Obj /\ h \in Handle /\ size(like) \in Nat /\ ImportedLines(like) \in Nat
  BY LayoutIsNat DEF Free, Named
<1>3. m \in SurfaceBuffer /\ m.obj = o /\ Slots(m) = T
  BY <1>2, NewBufferIsTyped
<1>4. \A s \in T : s \in Slot /\ res[p][s] = None
  BY <1>1 DEF Free, WrapRgaBuffer, Slot
<1>5. res' = Bind(p, T, o)
  BY <1>1, BindIgnoresNone
<1>6. held' = [held EXCEPT ![p] = @ \ {}]
  BY <1>1 DEF IInv, TypeOK
<1>7. buf' = [buf EXCEPT ![p][b] = m]
  BY <1>1 DEF MakeBuffer
<1>8. m.buff = None /\ Anchored(m) /\ LaidOut(m)
  BY <1>2, SlotAssumption DEF Anchored, LaidOut, Slot
<1>9. o \in Alive
  BY DEF Named, Alive, Slot
<1> HIDE DEF m, T, size
<1>10. Makes(p, b, m, T, {})
  BY <1>1, <1>2, <1>3, <1>4, <1>5, <1>6, <1>7
     DEF Makes, CanMake, MakeBuffer, CountBuffer
<1> QED
  BY <1>3, <1>4, <1>8, <1>9, <1>10, Unmapped DEF WellMade

\* create_buffer_from_prime_fd() makes one of the caller's descriptor.
LEMMA CreateBufferFromPrimeFdMakes ==
  ASSUME IInv, NEW p \in Proc, NEW b \in Buf, CreateBufferFromPrimeFd(p, b)
  PROVE  \E m \in SurfaceBuffer, fd \in held[p] :
           Makes(p, b, m, {}, {fd}) /\ WellMade(m)
<1> DEFINE Body(fd, like, size) ==
             /\ CanMake(p, b) /\ ClaimOk(size, like)
             /\ MakeBuffer(p, b, res[p][fd], like, None, fd, None, size,
                           ImportedLines(like))
             /\ held' = [held EXCEPT ![p] = @ \ {fd}]
             /\ UNCHANGED res
<1>0. PICK fd \in held[p] \cap Fd, like \in Obj :
        \E size \in {FileSize(res[p][fd]), Size(res[p][fd])} :
          Body(fd, like, size)
  BY DEF CreateBufferFromPrimeFd
<1>1. PICK size \in {FileSize(res[p][fd]), Size(res[p][fd])} :
        Body(fd, like, size)
  BY <1>0
<1> DEFINE o == res[p][fd]
           m == [obj |-> o, like |-> like, handle |-> None, prime_fd |-> fd,
                 rga_handle |-> None, buff |-> None, size |-> size,
                 lines |-> ImportedLines(like)]
<1>2. fd \in Slot /\ fd # None
  BY SlotAssumption DEF Slot
<1>3. o \in Obj
  BY <1>2 DEF IInv, Ownership, HeldIsOpen, TypeOK, ResType
<1>4. size \in Nat /\ ImportedLines(like) \in Nat
  BY <1>3, LayoutIsNat
<1>5. m \in SurfaceBuffer /\ m.obj = o /\ Slots(m) = {} \cup {fd}
  <2>1. m \in SurfaceBuffer
    BY <1>3, <1>4 DEF SurfaceBuffer
  <2>2. Slots(m) = {fd}
    BY <1>2 DEF Slots
  <2> QED
    BY <2>1, <2>2
<1>6. res' = Bind(p, {}, o)
  BY <1>1 DEF IInv, TypeOK, ResType, Bind
<1>7. buf' = [buf EXCEPT ![p][b] = m]
  BY <1>1 DEF MakeBuffer
<1>8. m.buff = None /\ Anchored(m) /\ LaidOut(m)
  BY <1>1, <1>2, ClaimedSize DEF Anchored, LaidOut
<1> HIDE DEF m, o
<1>9. \A s \in {fd} : s \in held[p] /\ res[p][s] = m.obj
  BY <1>5 DEF o
<1>10. Makes(p, b, m, {}, {fd})
  BY <1>1, <1>3, <1>5, <1>6, <1>7, <1>9
     DEF Makes, CanMake, MakeBuffer, CountBuffer
<1> QED
  BY <1>5, <1>10, <1>8, Unmapped DEF WellMade

\* So does every create entry, which therefore keeps the invariant.
LEMMA CreateEntries ==
  ASSUME IInv, NEW p \in Proc, NEW b \in Buf,
         \/ CreateBuffer(p, b) \/ CreateBufferFromHandle(p, b)
         \/ CreateBufferFromName(p, b) \/ CreateBufferFromPrimeFd(p, b)
  PROVE  /\ IInv'
         /\ \E m \in SurfaceBuffer :
              WellMade(m) /\ buf' = [buf EXCEPT ![p][b] = m]
<1>1. PICK m \in SurfaceBuffer, T \in SUBSET Slot, G \in SUBSET held[p] :
        Makes(p, b, m, T, G) /\ WellMade(m)
  <2>1. CASE CreateBuffer(p, b)
    BY <2>1, CreateBufferMakes
  <2>2. CASE CreateBufferFromHandle(p, b)
    BY <2>2, CreateBufferFromHandleMakes
  <2>3. CASE CreateBufferFromName(p, b)
    BY <2>3, CreateBufferFromNameMakes
  <2>4. CASE CreateBufferFromPrimeFd(p, b)
    BY <2>4, CreateBufferFromPrimeFdMakes
  <2> QED
    BY <2>1, <2>2, <2>3, <2>4
<1>2. IInv'
  BY <1>1, Creation
<1> QED
  BY <1>1, <1>2 DEF Makes

-----------------------------------------------------------------------------
(* Map, unmap and destroy.                                                 *)

\* The fields of a live buffer, and its slots in terms of them.
LEMMA LiveBuffer ==
  ASSUME TypeOK, NEW p \in Proc, NEW b \in Live(p)
  PROVE  /\ b \in Buf /\ buf[p][b] \in SurfaceBuffer
         /\ buf[p][b].obj \in Obj /\ Slots(buf[p][b]) \subseteq Slot
<1>1. b \in Buf /\ buf[p][b].obj # None /\ buf[p][b] \in SurfaceBuffer
  BY DEF Live, TypeOK
<1> QED
  BY <1>1, SlotsAreSlots DEF SurfaceBuffer

\* map_buffer() keeps the invariant: the address is fresh.
LEMMA MapBufferStep ==
  ASSUME IInv, NEW p \in Proc, NEW b \in Buf, MapBuffer(p, b)
  PROVE  IInv'
<1>1. PICK a \in Free(p, Addr) :
        /\ up[p] /\ b \in Live(p) /\ buf[p][b].buff = None
        /\ res' = Bind(p, {a}, buf[p][b].obj)
        /\ buf' = [buf EXCEPT ![p][b].buff = a]
        /\ UNCHANGED <<up, nr_bufs, warned, held>>
  BY DEF MapBuffer
<1> DEFINE m == buf[p][b]
           n == [m EXCEPT !.buff = a]
<1>2. TypeOK /\ m \in SurfaceBuffer /\ m.obj \in Obj
  BY <1>1, LiveBuffer DEF IInv
<1>3. a \in Addr /\ a \in Slot /\ a # None /\ res[p][a] = None /\ a \notin held[p]
  BY <1>2, SlotAssumption DEF Free, Slot, TypeOK
<1>4. n \in SurfaceBuffer /\ n.obj = m.obj
  BY <1>2, <1>3 DEF SurfaceBuffer
<1>5. Slots(n) = Slots(m) \cup {a}
  BY <1>1, <1>2, <1>3 DEF SurfaceBuffer, Slots
<1>6. \A c \in Buf : buf'[p][c] = IF c = b THEN n ELSE buf[p][c]
  BY <1>1, <1>2 DEF TypeOK
<1>7. \A s \in Slot : res'[p][s] = IF s = a THEN m.obj ELSE res[p][s]
  BY <1>1, <1>2 DEF TypeOK, ResType, Bind
<1>8. Live(p)' = Live(p)
  BY <1>1, <1>4, <1>6 DEF Live
<1>9. TypeOK'
  <2>1. ResType'
    BY <1>1, <1>2 DEF TypeOK, ResType, Bind
  <2>2. buf' = [buf EXCEPT ![p] = [@ EXCEPT ![b] = n]]
    BY <1>1
  <2> HIDE DEF n
  <2>3. buf' \in [Proc -> [Buf -> SurfaceBuffer]]
    BY <2>2, <1>2, <1>4 DEF TypeOK
  <2> QED
    BY <1>1, <1>2, <2>1, <2>3 DEF TypeOK
<1> HIDE DEF m, n
<1>10. Ownership(p)'
  <2>1. held'[p] = held[p]
    BY <1>1
  <2>2. \A c \in Live(p) : /\ c \in Buf /\ Slots(buf[p][c]) \subseteq Slot
                           /\ a \notin Slots(buf[p][c])
    <3> SUFFICES ASSUME NEW c \in Live(p)
                 PROVE  /\ c \in Buf /\ Slots(buf[p][c]) \subseteq Slot
                        /\ a \notin Slots(buf[p][c])
      OBVIOUS
    <3>1. /\ c \in Buf /\ Slots(buf[p][c]) \subseteq Slot
          /\ buf[p][c].obj # None
      BY <1>2, LiveBuffer, SlotAssumption
    <3>2. \A s \in Slots(buf[p][c]) : res[p][s] = buf[p][c].obj
      BY DEF IInv, Ownership, BuffersOwn
    <3> QED
      BY <3>1, <3>2, <1>3
  <2>3. \A c \in Live(p) : c # b => buf'[p][c] = buf[p][c]
    BY <1>6, <2>2
  <2>4. b \in Live(p) /\ buf'[p][b] = n /\ buf[p][b] = m
    BY <1>1, <1>6 DEF m
  <2>5. BuffersOwn(p)'
    <3> SUFFICES ASSUME NEW c \in Live(p), NEW s \in Slots(buf'[p][c])
                 PROVE  res'[p][s] = buf'[p][c].obj /\ s \notin held[p]
      BY <1>8, <2>1 DEF BuffersOwn
    <3>1. CASE c = b
      BY <3>1, <1>3, <1>4, <1>5, <1>7, <2>2, <2>4 DEF IInv, Ownership, BuffersOwn
    <3>2. CASE c # b
      BY <3>2, <1>7, <2>2, <2>3 DEF IInv, Ownership, BuffersOwn
    <3> QED
      BY <3>1, <3>2
  <2>6. BuffersApart(p)'
    BY <1>5, <1>8, <2>2, <2>3, <2>4 DEF IInv, Ownership, BuffersApart
  <2>7. AllCaredFor(p)'
    BY <1>5, <1>7, <1>8, <2>1, <2>3, <2>4 DEF IInv, Ownership, AllCaredFor
  <2>8. HeldIsOpen(p)'
    BY <1>2, <1>3, <1>7, <2>1 DEF IInv, Ownership, HeldIsOpen, TypeOK, Slot
  <2> QED
    BY <2>5, <2>6, <2>7, <2>8 DEF Ownership
<1>11. Count(p)'
  BY <1>1, <1>8 DEF IInv, Count
<1>12. \A q \in Proc \ {p} : res'[q] = res[q] /\ buf'[q] = buf[q]
  BY <1>1, <1>2 DEF TypeOK, ResType, Bind
<1> QED
  BY <1>1, <1>9, <1>10, <1>11, <1>12, OneProcess

\* b's contents become n, and the slots of S it gives up are closed.
Gives(p, b, n, S) ==
  /\ b \in Live(p)
  /\ Slots(n) \subseteq Slots(buf[p][b]) \ S
  /\ Slots(buf[p][b]) \subseteq Slots(n) \cup S \cup {Fd0}
  /\ S \subseteq Slots(buf[p][b])
  /\ \/ n.obj = buf[p][b].obj
     \/ n.obj = None /\ Slots(n) = {}
  /\ res' = Bind(p, S, None)
  /\ buf' = [buf EXCEPT ![p] = [@ EXCEPT ![b] = n]]
  /\ UNCHANGED held

\* A buffer that closes what it gives up leaves the rest owned.
LEMMA GiveUp ==
  ASSUME TypeOK, NEW p \in Proc, NEW b \in Buf, NEW n \in SurfaceBuffer,
         NEW S, Ownership(p), Gives(p, b, n, S)
  PROVE  /\ Ownership(p)'
         /\ ResType' /\ buf' \in [Proc -> [Buf -> SurfaceBuffer]]
         /\ Live(p)' = IF n.obj = None THEN Live(p) \ {b} ELSE Live(p)
         /\ \A q \in Proc \ {p} : res'[q] = res[q] /\ buf'[q] = buf[q]
<1> USE DEF Gives
<1>1. \A c \in Buf : buf'[p][c] = IF c = b THEN n ELSE buf[p][c]
  BY DEF TypeOK
<1>2. \A s \in Slot : res'[p][s] = IF s \in S THEN None ELSE res[p][s]
  BY DEF TypeOK, ResType, Bind
<1>3. /\ ResType' /\ buf' \in [Proc -> [Buf -> SurfaceBuffer]]
      /\ \A q \in Proc \ {p} : res'[q] = res[q] /\ buf'[q] = buf[q]
  BY DEF TypeOK, ResType, Bind
<1>4. Live(p)' = IF n.obj = None THEN Live(p) \ {b} ELSE Live(p)
  BY <1>1 DEF Live
<1>5. \A c \in Live(p) :
        /\ c \in Buf /\ Slots(buf[p][c]) \subseteq Slot
        /\ c # b => /\ buf'[p][c] = buf[p][c]
                    /\ Slots(buf[p][c]) \cap Slots(buf[p][b]) = {}
  BY <1>1, LiveBuffer DEF Ownership, BuffersApart
<1>6. buf'[p][b] = n /\ held'[p] = held[p]
  BY <1>1
<1>7. BuffersOwn(p)'
  <2> SUFFICES ASSUME NEW c \in Live(p), c \in Live(p)',
                      NEW s \in Slots(buf'[p][c])
               PROVE  res'[p][s] = buf'[p][c].obj /\ s \notin held[p]
    BY <1>4, <1>6 DEF BuffersOwn
  <2>1. CASE c = b
    BY <2>1, <1>2, <1>4, <1>5, <1>6 DEF Ownership, BuffersOwn
  <2>2. CASE c # b
    BY <2>2, <1>2, <1>5 DEF Ownership, BuffersOwn
  <2> QED
    BY <2>1, <2>2
<1>8. BuffersApart(p)'
  <2> SUFFICES ASSUME NEW c \in Live(p), c \in Live(p)',
                      NEW d \in Live(p), d # c
               PROVE  Slots(buf'[p][c]) \cap Slots(buf'[p][d]) = {}
    BY <1>4 DEF BuffersApart
  <2>1. \A e \in Live(p) : Slots(buf'[p][e]) \subseteq Slots(buf[p][e])
    BY <1>5, <1>6
  <2> QED
    BY <2>1 DEF Ownership, BuffersApart
<1>9. AllCaredFor(p)'
  <2> SUFFICES ASSUME NEW s \in Slot \ {Fd0}, res'[p][s] # None, s \notin held[p]
               PROVE  \E c \in Live(p)' : s \in Slots(buf'[p][c])
    BY <1>6 DEF AllCaredFor
  <2>1. s \notin S /\ res[p][s] # None
    BY <1>2
  <2>2. PICK c \in Live(p) : s \in Slots(buf[p][c])
    BY <2>1 DEF Ownership, AllCaredFor
  <2>3. CASE c = b
    <3>1. s \in Slots(n)
      BY <2>1, <2>2, <2>3
    <3>2. n.obj # None
      BY <3>1 DEF Live
    <3> QED
      BY <3>1, <3>2, <1>4, <1>6
  <2>4. CASE c # b
    BY <2>2, <2>4, <1>4, <1>5
  <2> QED
    BY <2>3, <2>4
<1>10. HeldIsOpen(p)'
  <2>1. \A s \in held[p] : s \in Slot /\ s \notin S
    BY DEF Ownership, BuffersOwn, TypeOK, Slot
  <2> QED
    BY <2>1, <1>2, <1>6 DEF Ownership, HeldIsOpen
<1> QED
  BY <1>3, <1>4, <1>7, <1>8, <1>9, <1>10 DEF Ownership

\* unmap_buffer() keeps the invariant.
LEMMA UnmapBufferStep ==
  ASSUME IInv, NEW p \in Proc, NEW b \in Buf, UnmapBuffer(p, b)
  PROVE  IInv'
<1> USE DEF UnmapBuffer
<1> DEFINE m == buf[p][b]
           n == [m EXCEPT !.buff = None]
<1>1. TypeOK /\ m \in SurfaceBuffer /\ m.obj \in Obj
  BY LiveBuffer DEF IInv
<1>2. n \in SurfaceBuffer /\ n.obj = m.obj /\ n.obj # None
  BY <1>1, SlotAssumption DEF SurfaceBuffer
<1>3. m.buff \notin {m.handle, m.prime_fd, m.rga_handle}
  BY <1>1, SlotAssumption DEF SurfaceBuffer, Slot
<1>4. Slots(n) = Slots(m) \ {m.buff} /\ m.buff \in Slots(m)
  BY <1>1, <1>3 DEF SurfaceBuffer, Slots
<1>5. buf' = [buf EXCEPT ![p] = [@ EXCEPT ![b] = n]]
  OBVIOUS
<1>6. res' = Bind(p, {m.buff}, None)
  BY DEF Release
<1>7. UNCHANGED <<up, nr_bufs, warned, held>> /\ b \in Live(p)
  OBVIOUS
<1> HIDE DEF n, UnmapBuffer
<1>8. Gives(p, b, n, {m.buff})
  BY <1>2, <1>4, <1>5, <1>6, <1>7 DEF Gives
<1>9. /\ Ownership(p)' /\ Live(p)' = Live(p)
      /\ ResType' /\ buf' \in [Proc -> [Buf -> SurfaceBuffer]]
      /\ \A q \in Proc \ {p} : res'[q] = res[q] /\ buf'[q] = buf[q]
  BY <1>1, <1>2, <1>8, GiveUp DEF IInv
<1>10. TypeOK'
  BY <1>1, <1>7, <1>9 DEF TypeOK
<1>11. Count(p)'
  BY <1>7, <1>9 DEF IInv, Count
<1> QED
  BY <1>7, <1>9, <1>10, <1>11, OneProcess

\* destroy_buffer() keeps the invariant; the counter, which is at least the
\* number of live buffers, is positive when it counts one down.
LEMMA DestroyBufferStep ==
  ASSUME IInv, NEW p \in Proc, NEW b \in Buf, DestroyBuffer(p, b)
  PROVE  IInv'
<1> USE DEF DestroyBuffer
<1> DEFINE m == buf[p][b]
           S == Slots(m) \ {Fd0}
<1>1. TypeOK /\ m \in SurfaceBuffer
  BY LiveBuffer DEF IInv
<1>2. NoBuffer \in SurfaceBuffer /\ NoBuffer.obj = None /\ Slots(NoBuffer) = {}
  BY DEF NoBuffer, SurfaceBuffer, Slots
<1>3. res' = Bind(p, S, None)
  BY DEF Release, Released
<1>4. buf' = [buf EXCEPT ![p] = [@ EXCEPT ![b] = NoBuffer]]
  OBVIOUS
<1>5. UNCHANGED <<up, warned, held>> /\ b \in Live(p) /\ up[p]
  OBVIOUS
<1>6. Gives(p, b, NoBuffer, S)
  BY <1>2, <1>3, <1>4, <1>5 DEF Gives
<1>7. /\ Ownership(p)' /\ Live(p)' = Live(p) \ {b}
      /\ ResType' /\ buf' \in [Proc -> [Buf -> SurfaceBuffer]]
      /\ \A q \in Proc \ {p} : res'[q] = res[q] /\ buf'[q] = buf[q]
  BY <1>1, <1>2, <1>6, GiveUp DEF IInv
<1>8. Cardinality(Live(p)') = Cardinality(Live(p)) - 1
  BY <1>5, <1>7, LiveIsFinite, FS_RemoveElement
<1>9. nr_bufs[p] \in Nat /\ nr_bufs[p] >= Cardinality(Live(p))
  BY <1>1, <1>5 DEF IInv, Count, TypeOK
<1>10. Cardinality(Live(p)') \in Nat
  <2>1. IsFiniteSet(Live(p) \ {b})
    BY LiveIsFinite, FS_RemoveElement
  <2> QED
    BY <2>1, <1>7, FS_CardinalityType
<1>11. /\ nr_bufs'[p] \in Nat /\ nr_bufs'[p] >= Cardinality(Live(p)')
       /\ \A q \in Proc \ {p} : nr_bufs'[q] = nr_bufs[q]
  <2>1. nr_bufs'[p] = nr_bufs[p] - (IF m.handle # None THEN 1 ELSE 0)
    BY <1>1 DEF TypeOK
  <2>2. \A q \in Proc \ {p} : nr_bufs'[q] = nr_bufs[q]
    BY <1>1 DEF TypeOK
  <2> QED
    BY <2>1, <2>2, <1>8, <1>9, <1>10, LiveIsFinite
<1>12. nr_bufs' \in [Proc -> Nat]
  BY <1>1, <1>11 DEF TypeOK
<1>13. TypeOK'
  BY <1>1, <1>5, <1>7, <1>12 DEF TypeOK
<1>14. Count(p)'
  BY <1>5, <1>11 DEF Count
<1> QED
  BY <1>5, <1>7, <1>11, <1>13, <1>14, OneProcess

-----------------------------------------------------------------------------
(* The driver itself and the callers.                                      *)

\* create_driver() and destroy_driver() touch no buffer; the latter warns if
\* there are any, because it then counts at least one.
LEMMA DriverStep ==
  ASSUME IInv, NEW p \in Proc, CreateDriver(p) \/ DestroyDriver(p)
  PROVE  IInv'
<1>1. TypeOK /\ UNCHANGED <<res, buf, held>>
  BY DEF IInv, CreateDriver, DestroyDriver
<1>2. TypeOK'
  <2>1. up' \in [Proc -> BOOLEAN]
    BY <1>1, Zenon DEF TypeOK, CreateDriver, DestroyDriver
  <2>2. nr_bufs' = [nr_bufs EXCEPT ![p] = 0]
    BY DEF CreateDriver, DestroyDriver
  <2>3. nr_bufs' \in [Proc -> Nat]
    BY <1>1, <2>2 DEF TypeOK
  <2>4. warned' \in [Proc -> BOOLEAN]
    BY <1>1 DEF TypeOK, CreateDriver, DestroyDriver
  <2> QED
    BY <1>1, <2>1, <2>3, <2>4 DEF TypeOK, ResType
<1>3. \A q \in Proc \ {p} :
        up'[q] = up[q] /\ nr_bufs'[q] = nr_bufs[q] /\ warned'[q] = warned[q]
  BY <1>1 DEF TypeOK, CreateDriver, DestroyDriver
<1>4. Live(p)' = Live(p) /\ Ownership(p)'
  BY <1>1, Frame DEF IInv, Live
<1>5. Count(p)'
  <2>1. CASE CreateDriver(p)
    BY <2>1, <1>1, <1>4, FS_EmptySet DEF CreateDriver, Count, TypeOK
  <2>2. CASE DestroyDriver(p)
    <3>1. ~up'[p] /\ (nr_bufs[p] # 0 => warned'[p])
      BY <2>2, <1>1 DEF DestroyDriver, TypeOK
    <3>2. nr_bufs[p] >= Cardinality(Live(p)) /\ nr_bufs[p] \in Nat
      BY <2>2, <1>1 DEF IInv, Count, TypeOK, DestroyDriver
    <3>3. Live(p) # {} => Cardinality(Live(p)) # 0
      BY LiveIsFinite, FS_EmptySet
    <3>4. Live(p) # {} => nr_bufs[p] # 0
      BY <3>2, <3>3, LiveIsFinite
    <3> QED
      BY <3>1, <3>4, <1>4, Zenon DEF Count
  <2> QED
    BY <2>1, <2>2
<1> QED
  BY <1>1, <1>2, <1>4, <1>5, <1>3, OneProcess

\* The caller opens a free slot and holds it.
LEMMA CallerTakesStep ==
  ASSUME IInv, NEW p \in Proc, CallerReceivesFd(p) \/ CallerOpensName(p)
  PROVE  IInv'
<1>1. PICK o \in Obj, t \in Handle \cup Fd :
        /\ res[p][t] = None
        /\ res' = Bind(p, {t}, o)
        /\ held' = [held EXCEPT ![p] = @ \cup {t}]
        /\ UNCHANGED <<up, nr_bufs, warned, buf>>
  BY DEF CallerReceivesFd, CallerOpensName, Free, Alive, Named
<1>2. TypeOK /\ t \in Slot /\ None \notin Obj
  BY SlotAssumption DEF IInv, Slot
<1>3. TypeOK'
  BY <1>1, <1>2 DEF TypeOK, ResType, Bind
<1>4. \A s \in Slot : res'[p][s] = IF s = t THEN o ELSE res[p][s]
  BY <1>1, <1>2 DEF TypeOK, ResType, Bind
<1>5. held'[p] = held[p] \cup {t} /\ buf'[p] = buf[p] /\ Live(p)' = Live(p)
  BY <1>1, <1>2 DEF TypeOK, Live
<1>6. \A b \in Live(p) : Slots(buf[p][b]) \subseteq Slot /\ t \notin Slots(buf[p][b])
  BY <1>1, <1>2, LiveBuffer DEF IInv, Ownership, BuffersOwn
<1>7. Ownership(p)'
  <2>1. BuffersOwn(p)'
    BY <1>4, <1>5, <1>6 DEF IInv, Ownership, BuffersOwn
  <2>2. BuffersApart(p)'
    BY <1>5 DEF IInv, Ownership, BuffersApart
  <2>3. AllCaredFor(p)'
    BY <1>4, <1>5 DEF IInv, Ownership, AllCaredFor
  <2>4. HeldIsOpen(p)'
    BY <1>2, <1>4, <1>5 DEF IInv, Ownership, HeldIsOpen, TypeOK, Slot
  <2> QED
    BY <2>1, <2>2, <2>3, <2>4 DEF Ownership
<1>8. Count(p)'
  BY <1>1, <1>5 DEF IInv, Count
<1>9. \A q \in Proc \ {p} : res'[q] = res[q] /\ held'[q] = held[q]
  BY <1>1, <1>2 DEF TypeOK, ResType, Bind
<1> QED
  BY <1>1, <1>3, <1>7, <1>8, <1>9, OneProcess

\* The caller closes a slot it holds.
LEMMA CallerReleasesStep ==
  ASSUME IInv, NEW p \in Proc, CallerReleases(p)
  PROVE  IInv'
<1>1. PICK t \in held[p] :
        /\ res' = Bind(p, {t}, None)
        /\ held' = [held EXCEPT ![p] = @ \ {t}]
        /\ UNCHANGED <<up, nr_bufs, warned, buf>>
  BY DEF CallerReleases, Release
<1>2. TypeOK /\ t \in Slot
  BY DEF IInv, TypeOK, Slot
<1>3. TypeOK'
  BY <1>1, <1>2 DEF TypeOK, ResType, Bind
<1>4. \A s \in Slot : res'[p][s] = IF s = t THEN None ELSE res[p][s]
  BY <1>1, <1>2 DEF TypeOK, ResType, Bind
<1>5. held'[p] = held[p] \ {t} /\ buf'[p] = buf[p] /\ Live(p)' = Live(p)
  BY <1>1, <1>2 DEF TypeOK, Live
<1>6. \A b \in Live(p) : Slots(buf[p][b]) \subseteq Slot /\ t \notin Slots(buf[p][b])
  BY <1>2, LiveBuffer DEF IInv, Ownership, BuffersOwn
<1>7. Ownership(p)'
  <2>1. BuffersOwn(p)'
    BY <1>4, <1>5, <1>6 DEF IInv, Ownership, BuffersOwn
  <2>2. BuffersApart(p)'
    BY <1>5 DEF IInv, Ownership, BuffersApart
  <2>3. AllCaredFor(p)'
    BY <1>4, <1>5 DEF IInv, Ownership, AllCaredFor
  <2>4. HeldIsOpen(p)'
    BY <1>2, <1>4, <1>5 DEF IInv, Ownership, HeldIsOpen, TypeOK, Slot
  <2> QED
    BY <2>1, <2>2, <2>3, <2>4 DEF Ownership
<1>8. Count(p)'
  BY <1>1, <1>5 DEF IInv, Count
<1>9. \A q \in Proc \ {p} : res'[q] = res[q] /\ held'[q] = held[q]
  BY <1>1, <1>2 DEF TypeOK, ResType, Bind
<1> QED
  BY <1>1, <1>3, <1>7, <1>8, <1>9, OneProcess

\* A process that has nothing owns all it has.
LEMMA NothingIsOwned ==
  ASSUME NEW p \in Proc, res[p] = NoReferences, held[p] = {},
         buf[p] = [b \in Buf |-> NoBuffer], nr_bufs[p] = 0
  PROVE  Ownership(p) /\ Count(p)
<1>1. Live(p) = {}
  BY DEF Live, NoBuffer
<1>2. Cardinality(Live(p)) = 0
  BY <1>1, FS_EmptySet
<1> QED
  BY <1>1, <1>2 DEF Ownership, BuffersOwn, BuffersApart, AllCaredFor,
                    HeldIsOpen, Count, NoReferences

\* A process that dies leaves nothing.
LEMMA ProcessDiesStep ==
  ASSUME IInv, NEW p \in Proc, ProcessDies(p)
  PROVE  IInv'
<1> USE DEF ProcessDies
<1>1. TypeOK
  BY DEF IInv
<1>2. NoBuffer \in SurfaceBuffer
  BY DEF NoBuffer, SurfaceBuffer
<1>3. ResType'
  BY <1>1 DEF TypeOK, ResType, Release, Bind
<1>4. buf' \in [Proc -> [Buf -> SurfaceBuffer]]
  BY <1>1, <1>2 DEF TypeOK
<1>5. TypeOK'
  BY <1>1, <1>3, <1>4 DEF TypeOK
<1>6. /\ res'[p] = NoReferences /\ held'[p] = {} /\ nr_bufs'[p] = 0
      /\ buf'[p] = [b \in Buf |-> NoBuffer]
  BY <1>1 DEF TypeOK, ResType, Release, Bind, NoReferences
<1>7. Ownership(p)' /\ Count(p)'
  <2>1. Live(p)' = {}
    BY <1>6 DEF Live, NoBuffer
  <2>2. Cardinality(Live(p)') = 0
    BY <2>1, FS_EmptySet
  <2> QED
    BY <1>6, <2>1, <2>2 DEF Ownership, BuffersOwn, BuffersApart, AllCaredFor,
                            HeldIsOpen, Count, NoReferences
<1>8. \A q \in Proc \ {p} :
        /\ res'[q] = res[q] /\ buf'[q] = buf[q] /\ held'[q] = held[q]
        /\ up'[q] = up[q] /\ nr_bufs'[q] = nr_bufs[q] /\ warned'[q] = warned[q]
  BY <1>1 DEF TypeOK, ResType, Release, Bind
<1> QED
  BY <1>5, <1>7, <1>8, OneProcess

-----------------------------------------------------------------------------
(* The theorems.                                                           *)

\* The invariant holds initially.
LEMMA InitIInv == Init => IInv
<1> SUFFICES ASSUME Init PROVE IInv
  OBVIOUS
<1>1. NoBuffer \in SurfaceBuffer
  BY DEF NoBuffer, SurfaceBuffer
<1>2. TypeOK
  BY <1>1 DEF Init, TypeOK, ResType, NoReferences
<1>3. \A p \in Proc : Ownership(p) /\ Count(p)
  BY NothingIsOwned DEF Init
<1> QED
  BY <1>2, <1>3 DEF IInv

\* Every step of the system, or of nothing in it, keeps the invariant.
LEMMA NextIInv == IInv /\ [Next]_vars => IInv'
<1> SUFFICES ASSUME IInv, [Next]_vars PROVE IInv'
  OBVIOUS
<1>1. CASE UNCHANGED vars
  <2>1. TypeOK'
    BY <1>1 DEF IInv, TypeOK, ResType, vars
  <2>2. \A q \in Proc : Ownership(q)'
    BY <1>1, Frame DEF IInv, vars
  <2>3. \A q \in Proc : Live(q)' = Live(q)
    BY <1>1 DEF Live, vars
  <2>4. \A q \in Proc : Count(q)'
    BY <1>1, <2>3 DEF IInv, Count, vars
  <2> QED
    BY <2>1, <2>2, <2>4 DEF IInv
<1>2. ASSUME NEW p \in Proc, CreateDriver(p) \/ DestroyDriver(p) PROVE IInv'
  BY <1>2, DriverStep
<1>3. ASSUME NEW p \in Proc, NEW b \in Buf,
             \/ CreateBuffer(p, b) \/ CreateBufferFromHandle(p, b)
             \/ CreateBufferFromName(p, b) \/ CreateBufferFromPrimeFd(p, b)
      PROVE IInv'
  BY <1>3, CreateEntries
<1>4. ASSUME NEW p \in Proc, NEW b \in Buf,
             MapBuffer(p, b) \/ UnmapBuffer(p, b) \/ DestroyBuffer(p, b)
      PROVE IInv'
  BY <1>4, MapBufferStep, UnmapBufferStep, DestroyBufferStep
<1>5. ASSUME NEW p \in Proc,
             CallerReceivesFd(p) \/ CallerOpensName(p) \/ CallerReleases(p)
      PROVE IInv'
  BY <1>5, CallerTakesStep, CallerReleasesStep
<1>6. ASSUME NEW p \in Proc, ProcessDies(p) PROVE IInv'
  BY <1>6, ProcessDiesStep
<1> QED
  BY <1>1, <1>2, <1>3, <1>4, <1>5, <1>6 DEF Next

\* The inductive invariant holds of every behaviour.
THEOREM Invariance == Spec => []IInv
<1>1. Init => IInv
  BY InitIInv
<1>2. IInv /\ [Next]_vars => IInv'
  BY NextIInv
<1> QED
  BY <1>1, <1>2, PTL DEF Spec

\* Types are kept; in particular, nr_bufs is never counted down past 0.
THEOREM TypeCorrect == Spec => []TypeOK
<1>1. IInv => TypeOK
  BY DEF IInv
<1> QED
  BY <1>1, Invariance, PTL

\* No buffer stores a number that was closed, or is somebody else's.
THEOREM ResourcesOwned == Spec => []OwnsItsResources
<1>1. IInv => OwnsItsResources
  BY DEF IInv, Ownership, BuffersOwn, BuffersApart, OwnsItsResources
<1> QED
  BY <1>1, Invariance, PTL

\* But for descriptor 0, no handle, descriptor, mapping or RGA handle leaks.
THEOREM NoLeak == Spec => []NothingLeaks
<1>1. IInv => NothingLeaks
  BY DEF IInv, Ownership, AllCaredFor, NothingLeaks
<1> QED
  BY <1>1, Invariance, PTL

\* A driver destroyed with buffers left says so.
THEOREM NoSilentLeftover == Spec => []LeftoversAreReported
<1>1. IInv => LeftoversAreReported
  BY DEF IInv, Count, LeftoversAreReported
<1> QED
  BY <1>1, Invariance, PTL
-----------------------------------------------------------------------------
(* How buffers are laid out and mapped.                                    *)

\* A step that gives one buffer good contents, or none, leaves all of them good.
LEMMA OneBuffer ==
  ASSUME TypeOK, BuffersWellMade, NEW p \in Proc, NEW b \in Buf, NEW m,
         buf' = [buf EXCEPT ![p][b] = m], m.obj = None \/ WellMade(m)
  PROVE  BuffersWellMade'
<1> SUFFICES ASSUME NEW q \in Proc, NEW c \in Buf, buf'[q][c].obj # None
             PROVE  WellMade(buf'[q][c])
  BY DEF BuffersWellMade, Live
<1>1. CASE q = p /\ c = b
  BY <1>1 DEF TypeOK
<1>2. CASE ~(q = p /\ c = b)
  <2>1. buf'[q][c] = buf[q][c]
    BY <1>2 DEF TypeOK
  <2> QED
    BY <2>1 DEF BuffersWellMade, Live
<1> QED
  BY <1>1, <1>2

\* Every step leaves buffers well made.
LEMMA WellMadeNext ==
  IInv /\ BuffersWellMade /\ [Next]_vars => BuffersWellMade'
<1> SUFFICES ASSUME IInv, BuffersWellMade, [Next]_vars PROVE BuffersWellMade'
  OBVIOUS
<1>1. TypeOK
  BY DEF IInv
<1>2. CASE UNCHANGED buf
  BY <1>2 DEF BuffersWellMade, Live
<1>3. ASSUME NEW p \in Proc, NEW b \in Buf,
             \/ CreateBuffer(p, b) \/ CreateBufferFromHandle(p, b)
             \/ CreateBufferFromName(p, b) \/ CreateBufferFromPrimeFd(p, b)
      PROVE  BuffersWellMade'
  <2>1. PICK m \in SurfaceBuffer :
          WellMade(m) /\ buf' = [buf EXCEPT ![p][b] = m]
    BY <1>3, CreateEntries
  <2> QED
    BY <1>1, <2>1, OneBuffer
<1>4. ASSUME NEW p \in Proc, NEW b \in Buf, MapBuffer(p, b)
      PROVE  BuffersWellMade'
  <2> DEFINE m == buf[p][b]
  <2>1. /\ b \in Live(p) /\ Mappable(m)
        /\ \E a \in Free(p, Addr) : buf' = [buf EXCEPT ![p][b].buff = a]
    BY <1>4 DEF MapBuffer
  <2>2. PICK a \in Free(p, Addr) :
          buf' = [buf EXCEPT ![p][b] = [m EXCEPT !.buff = a]]
    BY <2>1
  <2>3. m \in SurfaceBuffer /\ WellMade(m)
    BY <1>1, <2>1, LiveBuffer DEF BuffersWellMade
  <2> DEFINE n == [m EXCEPT !.buff = a]
  <2>4. /\ n.handle = m.handle /\ n.prime_fd = m.prime_fd /\ n.like = m.like
        /\ n.lines = m.lines /\ n.size = m.size /\ n.obj = m.obj
    BY <2>3 DEF SurfaceBuffer
  <2> HIDE DEF n
  <2>5. WellMade(n)
    BY <2>1, <2>3, <2>4 DEF WellMade, Anchored, LaidOut, MapFits, Mappable
  <2>6. buf' = [buf EXCEPT ![p][b] = n]
    BY <2>2 DEF n
  <2> QED
    BY <1>1, <2>5, <2>6, OneBuffer
<1>5. ASSUME NEW p \in Proc, NEW b \in Buf, UnmapBuffer(p, b)
      PROVE  BuffersWellMade'
  <2> DEFINE m == buf[p][b]
             n == [m EXCEPT !.buff = None]
  <2>1. b \in Live(p) /\ buf' = [buf EXCEPT ![p][b] = n]
    BY <1>5 DEF UnmapBuffer
  <2>2. m \in SurfaceBuffer /\ WellMade(m)
    BY <1>1, <2>1, LiveBuffer DEF BuffersWellMade
  <2>3. /\ n.handle = m.handle /\ n.prime_fd = m.prime_fd /\ n.like = m.like
        /\ n.lines = m.lines /\ n.size = m.size /\ n.obj = m.obj
        /\ n.buff = None
    BY <2>2 DEF SurfaceBuffer
  <2> HIDE DEF n
  <2>4. WellMade(n)
    BY <2>2, <2>3 DEF WellMade, Anchored, LaidOut, MapFits
  <2> QED
    BY <1>1, <2>1, <2>4, OneBuffer
<1>6. ASSUME NEW p \in Proc, NEW b \in Buf, DestroyBuffer(p, b)
      PROVE  BuffersWellMade'
  <2>1. buf' = [buf EXCEPT ![p][b] = NoBuffer] /\ NoBuffer.obj = None
    BY <1>6 DEF DestroyBuffer, NoBuffer
  <2> QED
    BY <1>1, <2>1, OneBuffer
<1>7. ASSUME NEW p \in Proc, ProcessDies(p) PROVE BuffersWellMade'
  <2>1. \A q \in Proc, c \in Buf :
          buf'[q][c] = IF q = p THEN NoBuffer ELSE buf[q][c]
    BY <1>1, <1>7 DEF ProcessDies, TypeOK
  <2>2. NoBuffer.obj = None
    BY DEF NoBuffer
  <2> QED
    BY <2>1, <2>2 DEF BuffersWellMade, Live
<1>8. ASSUME NEW p \in Proc,
             \/ CreateDriver(p) \/ DestroyDriver(p) \/ CallerReceivesFd(p)
             \/ CallerOpensName(p) \/ CallerReleases(p)
      PROVE  BuffersWellMade'
  BY <1>2, <1>8 DEF CreateDriver, DestroyDriver, CallerReceivesFd,
                    CallerOpensName, CallerReleases
<1> QED
  BY <1>2, <1>3, <1>4, <1>5, <1>6, <1>7, <1>8 DEF Next, vars

\* Buffers are well made at all times.
LEMMA WellMadeAlways == Spec => []BuffersWellMade
<1>1. Init => BuffersWellMade
  BY DEF Init, BuffersWellMade, Live, NoBuffer
<1> QED
  BY <1>1, WellMadeNext, Invariance, PTL DEF Spec

\* An imported header has the lines of the creator's, or one less.
LEMMA ImportedLinesAgree ==
  ASSUME NEW o \in Obj
  PROVE  /\ Lines(o) - ImportedLines(o) \in {0, 1}
         /\ Req[o].hdr % Pitch(o) = 0 => Lines(o) = ImportedLines(o)
<1>1. Req[o].hdr \in Nat /\ Pitch(o) \in Nat \ {0}
  BY ConstantAssumption, LayoutIsNat
<1>2. \A h \in Nat, n \in Nat \ {0} :
        /\ HeaderLines(h, n) - ImportedHeaderLines(h, n) \in {0, 1}
        /\ h % n = 0 => HeaderLines(h, n) = ImportedHeaderLines(h, n)
  <2> SUFFICES ASSUME NEW h \in Nat, NEW n \in Nat \ {0}
               PROVE  /\ HeaderLines(h, n) - ImportedHeaderLines(h, n) \in {0, 1}
                      /\ h % n = 0 => HeaderLines(h, n) = ImportedHeaderLines(h, n)
    OBVIOUS
  <2>1. h \div n \in Nat /\ 0 \div n = 0
    BY ArithIsNat
  <2> QED
    BY <2>1 DEF HeaderLines, ImportedHeaderLines
<1> QED
  BY <1>1, <1>2 DEF Lines, ImportedLines

\* Whoever maps an object by its true layout finds the pixels where the others
\* do, or at most one line off.
THEOREM PixelsAgree == Spec => []SharedPixelsAgree
<1>1. BuffersWellMade => SharedPixelsAgree
  <2> SUFFICES ASSUME BuffersWellMade, NEW p \in Proc, NEW q \in Proc,
                      NEW b \in Live(p), NEW c \in Live(q), NEW o,
                      o = buf[p][b].obj, buf[p][b].like = o, buf[q][c].like = o
               PROVE  IF Req[o].hdr % Pitch(o) = 0
                      THEN buf[p][b].lines = buf[q][c].lines
                      ELSE buf[p][b].lines - buf[q][c].lines \in -1 .. 1
    BY DEF SharedPixelsAgree
  <2>1. /\ o \in Obj
        /\ buf[p][b].lines \in {Lines(o), ImportedLines(o)}
        /\ buf[q][c].lines \in {Lines(o), ImportedLines(o)}
    BY DEF BuffersWellMade, WellMade, LaidOut
  <2> QED
    BY <2>1, ImportedLinesAgree, LayoutIsNat
<1> QED
  BY <1>1, WellMadeAlways, PTL

\* No surface that is asked for is so large that its size wraps around in
\* uint32_t (the code does not look; see LayoutExchange).
NothingWraps ==
  \A o \in Obj : (Req[o].height + Lines(o)) * Pitch(o) < Word

\* Then fewer header lines never make a larger buffer.
LEMMA RowsFit ==
  ASSUME NothingWraps, NEW o \in Obj
  PROVE  SizeOf(ImportedLines(o), Req[o].height, Pitch(o)) <= Size(o)
<1> DEFINE h == Req[o].height
           n == Pitch(o)
           i == ImportedLines(o)
           l == Lines(o)
<1>1. h \in Nat /\ n \in Nat \ {0} /\ i \in Nat /\ l \in Nat /\ i <= l
  BY ConstantAssumption, LayoutIsNat, ImportedLinesAgree
<1>2. (h + l) * n < Word /\ Word \in Nat \ {0}
  BY WordAssumption DEF NothingWraps
<1> HIDE DEF h, n, i, l
<1>3. \A a \in Nat : a < Word => Wrap(a) = a
  BY <1>2 DEF Wrap
<1>4. (h + i) * n <= (h + l) * n /\ h + l <= (h + l) * n /\ h + i <= (h + i) * n
  <2>1. \A a, d \in Nat, k \in Nat \ {0} : a <= a * k /\ a * k <= (a + d) * k
    <3> SUFFICES ASSUME NEW a \in Nat, NEW d \in Nat, NEW k \in Nat \ {0}
                 PROVE  a <= a * k /\ a * k <= (a + d) * k
      OBVIOUS
    <3>1. a * k = a + a * (k - 1) /\ (a + d) * k = a * k + d * k
      OBVIOUS
    <3>2. a * (k - 1) \in Nat /\ d * k \in Nat /\ a * k \in Nat
      BY ArithIsNat
    <3> QED
      BY <3>1, <3>2
  <2>2. h + l = (h + i) + (l - i) /\ l - i \in Nat /\ h + i \in Nat /\ h + l \in Nat
    BY <1>1
  <2> QED
    BY <1>1, <2>1, <2>2
<1>5. (h + i) * n \in Nat /\ (h + l) * n \in Nat /\ h + i \in Nat /\ h + l \in Nat
  BY <1>1, ArithIsNat
<1>6. SizeOf(i, h, n) = (h + i) * n /\ SizeOf(l, h, n) = (h + l) * n
  BY <1>2, <1>3, <1>4, <1>5 DEF SizeOf
<1> QED
  BY <1>4, <1>6 DEF h, n, i, l, Size

\* The rows of a mapped buffer are inside of its mapping, whatever layout the
\* caller has claimed, as long as no size wraps around.
THEOREM RowsInside == NothingWraps => (Spec => []RowsInsideMapping)
<1> SUFFICES ASSUME NothingWraps PROVE Spec => []RowsInsideMapping
  OBVIOUS
<1>1. BuffersWellMade => RowsInsideMapping
  <2> SUFFICES ASSUME BuffersWellMade, NEW p \in Proc, NEW b \in Live(p),
                      buf[p][b].buff # None
               PROVE  /\ SizeOf(buf[p][b].lines, Req[buf[p][b].like].height,
                                Pitch(buf[p][b].like)) <= buf[p][b].size
                      /\ buf[p][b].size <= FileSize(buf[p][b].obj)
    BY DEF RowsInsideMapping
  <2> DEFINE m == buf[p][b]
  <2>1. LaidOut(m) /\ 0 < m.size /\ m.size <= FileSize(m.obj)
    BY DEF BuffersWellMade, WellMade, MapFits
  <2> HIDE DEF m
  <2>2. /\ SizeOf(Lines(m.like), Req[m.like].height, Pitch(m.like))
             = Size(m.like)
        /\ SizeOf(ImportedLines(m.like), Req[m.like].height, Pitch(m.like))
             <= Size(m.like)
        /\ Size(m.like) \in Nat
        /\ SizeOf(ImportedLines(m.like), Req[m.like].height, Pitch(m.like))
             \in Nat
    BY <2>1, RowsFit, LayoutIsNat DEF LaidOut, Size
  <2>3. SizeOf(m.lines, Req[m.like].height, Pitch(m.like)) <= m.size
    BY <2>1, <2>2 DEF LaidOut
  <2> QED
    BY <2>1, <2>3 DEF m
<1> QED
  BY <1>1, WellMadeAlways, PTL
-----------------------------------------------------------------------------
(* The promise of SharedSurfaces, as long as descriptor 0 is in use for     *)
(* something else.                                                          *)

\* the surfaces, tokens and pool of the abstract specification
Surfaces == [p \in Proc |-> [b \in Buf |-> buf[p][b].obj]]
Tokens ==
  [p \in Proc |-> [t \in Handle \cup Fd |->
     IF t \in held[p] THEN res[p][t] ELSE None]]

ReferencedBy(sf, tk) ==
  {o \in Obj : \E p \in Proc : \/ \E b \in Buf : sf[p][b] = o
                               \/ \E t \in Handle \cup Fd : tk[p][t] = o}

\* What is alive is what a surface or a token refers to: nothing leaks, and
\* every surface has a handle or a descriptor open.
PoolIsReferenced == Alive = ReferencedBy(Surfaces, Tokens)

LEMMA PoolIs == Fd0 \notin Fd /\ IInv /\ BuffersWellMade => PoolIsReferenced
<1> SUFFICES ASSUME Fd0 \notin Fd, IInv, BuffersWellMade, NEW o \in Obj
             PROVE  o \in Alive <=> o \in ReferencedBy(Surfaces, Tokens)
  BY DEF PoolIsReferenced, Alive, ReferencedBy
<1>1. o # None /\ Fd0 \notin Slot /\ None \notin Slot /\ TypeOK
  BY SlotAssumption, ConstantAssumption DEF Slot, IInv
<1>2. ASSUME NEW p \in Proc, NEW s \in Slot, res[p][s] = o
      PROVE  o \in ReferencedBy(Surfaces, Tokens)
  <2>1. CASE s \in held[p]
    <3>1. s \in Handle \cup Fd
      BY <1>1, <2>1 DEF TypeOK
    <3>2. Tokens[p][s] = o
      BY <1>2, <2>1, <3>1 DEF Tokens
    <3> QED
      BY <3>1, <3>2 DEF ReferencedBy
  <2>2. CASE s \notin held[p]
    <3>1. PICK b \in Live(p) : s \in Slots(buf[p][b])
      BY <1>1, <1>2, <2>2 DEF IInv, Ownership, AllCaredFor
    <3>2. b \in Buf /\ buf[p][b].obj = o
      BY <1>2, <3>1 DEF IInv, Ownership, BuffersOwn, Live
    <3> QED
      BY <3>2 DEF Surfaces, ReferencedBy
  <2> QED
    BY <2>1, <2>2
<1>3. ASSUME NEW p \in Proc, NEW b \in Buf, Surfaces[p][b] = o
      PROVE  o \in Alive
  <2>1. b \in Live(p) /\ buf[p][b].obj = o
    BY <1>1, <1>3 DEF Surfaces, Live
  <2>2. PICK s : s \in Slots(buf[p][b])
    <3>1. buf[p][b].handle # None \/ buf[p][b].prime_fd # None
      BY <2>1 DEF BuffersWellMade, WellMade, Anchored
    <3>2. \/ buf[p][b].handle \in Slots(buf[p][b])
          \/ buf[p][b].prime_fd \in Slots(buf[p][b])
      BY <3>1 DEF Slots
    <3> QED
      BY <3>2
  <2>3. s \in Slot
    BY <1>1, <2>1, <2>2, LiveBuffer
  <2>4. res[p][s] = o
    BY <2>1, <2>2 DEF IInv, Ownership, BuffersOwn
  <2> QED
    BY <2>3, <2>4 DEF Alive
<1>4. ASSUME NEW p \in Proc, NEW t \in Handle \cup Fd, Tokens[p][t] = o
      PROVE  o \in Alive
  <2>1. t \in Slot /\ res[p][t] = o
    BY <1>1, <1>4 DEF Tokens, Slot
  <2> QED
    BY <2>1 DEF Alive
<1> QED
  BY <1>2, <1>3, <1>4 DEF Alive, ReferencedBy

\* A surface on o adds o to what is referenced.
LEMMA SurfaceAdded ==
  ASSUME NEW p \in Proc, NEW b \in Buf, NEW o \in Obj,
         Surfaces[p][b] = None,
         \A q \in Proc, c \in Buf :
           Surfaces'[q][c] = IF q = p /\ c = b THEN o ELSE Surfaces[q][c]
  PROVE  ReferencedBy(Surfaces', Tokens) = ReferencedBy(Surfaces, Tokens) \cup {o}
<1> None \notin Obj
  BY SlotAssumption
<1> QED
  BY DEF ReferencedBy

\* A token that becomes a surface leaves what is referenced as it is.
LEMMA TokenAdopted ==
  ASSUME NEW p \in Proc, NEW b \in Buf,
         NEW t \in Handle \cup Fd, Surfaces[p][b] = None, Tokens[p][t] \in Obj,
         \A q \in Proc, c \in Buf :
           Surfaces'[q][c] = IF q = p /\ c = b THEN Tokens[p][t] ELSE Surfaces[q][c],
         \A q \in Proc, u \in Handle \cup Fd :
           Tokens'[q][u] = IF q = p /\ u = t THEN None ELSE Tokens[q][u]
  PROVE  ReferencedBy(Surfaces', Tokens') = ReferencedBy(Surfaces, Tokens)
<1>1. None \notin Obj
  BY SlotAssumption
<1>2. ASSUME NEW x \in ReferencedBy(Surfaces', Tokens')
      PROVE  x \in ReferencedBy(Surfaces, Tokens)
  <2>1. x \in Obj
    BY DEF ReferencedBy
  <2>2. ASSUME NEW q \in Proc, NEW c \in Buf, Surfaces'[q][c] = x
        PROVE  x \in ReferencedBy(Surfaces, Tokens)
    BY <2>1, <2>2 DEF ReferencedBy
  <2>3. ASSUME NEW q \in Proc, NEW u \in Handle \cup Fd, Tokens'[q][u] = x
        PROVE  x \in ReferencedBy(Surfaces, Tokens)
    BY <1>1, <2>1, <2>3 DEF ReferencedBy
  <2> QED
    BY <2>2, <2>3 DEF ReferencedBy
<1>3. ASSUME NEW x \in ReferencedBy(Surfaces, Tokens)
      PROVE  x \in ReferencedBy(Surfaces', Tokens')
  <2>1. x \in Obj
    BY DEF ReferencedBy
  <2>2. ASSUME NEW q \in Proc, NEW c \in Buf, Surfaces[q][c] = x
        PROVE  x \in ReferencedBy(Surfaces', Tokens')
    <3>1. Surfaces'[q][c] = x
      BY <1>1, <2>1, <2>2
    <3> QED
      BY <2>1, <3>1 DEF ReferencedBy
  <2>3. ASSUME NEW q \in Proc, NEW u \in Handle \cup Fd, Tokens[q][u] = x
        PROVE  x \in ReferencedBy(Surfaces', Tokens')
    <3>1. CASE q = p /\ u = t
      <4>1. Surfaces'[p][b] = x
        BY <2>3, <3>1
      <4> QED
        BY <2>1, <4>1 DEF ReferencedBy
    <3>2. CASE ~(q = p /\ u = t)
      <4>1. Tokens'[q][u] = x
        BY <2>3, <3>2
      <4> QED
        BY <2>1, <4>1 DEF ReferencedBy
    <3> QED
      BY <3>1, <3>2
  <2> QED
    BY <2>2, <2>3 DEF ReferencedBy
<1> QED
  BY <1>2, <1>3

\* The surfaces and tokens have their types.
LEMMA SurfacesTyped ==
  ASSUME TypeOK
  PROVE  /\ Surfaces \in [Proc -> [Buf -> Obj \cup {None}]]
         /\ Tokens \in [Proc -> [Handle \cup Fd -> Obj \cup {None}]]
<1>1. \A p \in Proc, b \in Buf : buf[p][b].obj \in Obj \cup {None}
  BY DEF TypeOK, SurfaceBuffer
<1>2. \A p \in Proc, t \in Handle \cup Fd : res[p][t] \in Obj \cup {None}
  BY DEF TypeOK, ResType, Slot
<1> QED
  BY <1>1, <1>2 DEF Surfaces, Tokens

\* Two tables with the same entries are the same.
LEMMA SameTable ==
  ASSUME NEW D, NEW E, NEW V, NEW f \in [D -> [E -> V]],
         NEW g \in [D -> [E -> V]], \A q \in D, u \in E : f[q][u] = g[q][u]
  PROVE  f = g
OBVIOUS

\* What a create entry does to surfaces and tokens.
LEMMA MakesMaps ==
  ASSUME IInv, TypeOK', NEW p \in Proc, NEW b \in Buf,
         NEW m \in SurfaceBuffer, NEW T, NEW G, Makes(p, b, m, T, G)
  PROVE  /\ Surfaces[p][b] = None
         /\ Surfaces' = [Surfaces EXCEPT ![p][b] = m.obj]
         /\ G = {} => Tokens' = Tokens
         /\ \A t \in held[p] : G = {t} =>
              /\ t \in Handle \cup Fd /\ Tokens[p][t] = m.obj
              /\ Tokens' = [Tokens EXCEPT ![p][t] = None]
<1>1. TypeOK /\ TypeOK'
  BY DEF IInv
<1>2. Surfaces[p][b] = None
  BY DEF Makes, Surfaces, Live
<1>3. Surfaces' = [Surfaces EXCEPT ![p][b] = m.obj]
  BY <1>1 DEF Makes, Surfaces, TypeOK
<1>4. \A q \in Proc, t \in Handle \cup Fd :
        Tokens'[q][t] = IF q = p /\ t \in G THEN None ELSE Tokens[q][t]
  <2> SUFFICES ASSUME NEW q \in Proc, NEW t \in Handle \cup Fd
               PROVE  Tokens'[q][t] = IF q = p /\ t \in G THEN None
                                                         ELSE Tokens[q][t]
    OBVIOUS
  <2>1. t \in held'[q] <=> t \in held[q] /\ ~(q = p /\ t \in G)
    BY <1>1 DEF Makes, TypeOK
  <2>2. t \in held[q] => res[q][t] # None
    BY DEF IInv, Ownership, HeldIsOpen
  <2>3. t \in held[q] => res'[q][t] = res[q][t]
    BY <1>1, <2>2 DEF Makes, TypeOK, ResType, Bind, Slot
  <2> QED
    BY <2>1, <2>3 DEF Tokens
<1>5. ASSUME G = {} PROVE Tokens' = Tokens
  BY <1>1, <1>4, <1>5 DEF Tokens
<1>6. ASSUME NEW t \in held[p], G = {t}
      PROVE  /\ t \in Handle \cup Fd /\ Tokens[p][t] = m.obj
             /\ Tokens' = [Tokens EXCEPT ![p][t] = None]
  <2>1. t \in Handle \cup Fd /\ Tokens[p][t] = m.obj
    BY <1>1, <1>6 DEF TypeOK, Makes, Tokens
  <2>2. Tokens' = [Tokens EXCEPT ![p][t] = None]
    <3> DEFINE tg == [Tokens EXCEPT ![p][t] = None]
    <3>1. \A q \in Proc, u \in Handle \cup Fd :
            tg[q][u] = IF q = p /\ u = t THEN None ELSE Tokens[q][u]
      BY <2>1 DEF Tokens
    <3>2. tg \in [Proc -> [Handle \cup Fd -> Obj \cup {None}]]
      BY <1>1, <2>1, SurfacesTyped
    <3>3. Tokens' \in [Proc -> [Handle \cup Fd -> Obj \cup {None}]]
      <4>1. \A q \in Proc, u \in Handle \cup Fd : res'[q][u] \in Obj \cup {None}
        BY <1>1 DEF TypeOK, ResType, Slot
      <4> QED
        BY <4>1 DEF Tokens
    <3> HIDE DEF tg
    <3>4. \A q \in Proc, u \in Handle \cup Fd : Tokens'[q][u] = tg[q][u]
      BY <1>4, <1>6, <3>1
    <3>5. Tokens' = tg
      BY <3>2, <3>3, <3>4, SameTable
    <3> QED
      BY <3>5 DEF tg
  <2> QED
    BY <2>1, <2>2
<1> QED
  BY <1>2, <1>3, <1>5, <1>6
\* The instance's own terms.
LEMMA PromiseTerms ==
  /\ \A sf, tk : Promise!ReferencedBy(sf, tk) = ReferencedBy(sf, tk)
  /\ Promise!svars = <<Surfaces, Tokens, Alive>>
BY DEF Promise!ReferencedBy, ReferencedBy, Promise!svars, Surfaces, Tokens

\* A create entry is a step of the promise: a new object, a token that becomes
\* a surface, or one more surface on an object that is there.
LEMMA CreateEntriesImplement ==
  ASSUME IInv, TypeOK', PoolIsReferenced, PoolIsReferenced',
         NEW p \in Proc, NEW b \in Buf,
         \/ CreateBuffer(p, b) \/ CreateBufferFromHandle(p, b)
         \/ CreateBufferFromName(p, b) \/ CreateBufferFromPrimeFd(p, b)
  PROVE  Promise!Create(p, b) \/ Promise!Adopt(p, b) \/ Promise!Open(p, b)
<1>1. /\ Surfaces \in [Proc -> [Buf -> Obj \cup {None}]]
      /\ Tokens \in [Proc -> [Handle \cup Fd -> Obj \cup {None}]]
  BY SurfacesTyped DEF IInv
<1>2. /\ Alive = ReferencedBy(Surfaces, Tokens)
      /\ Alive' = ReferencedBy(Surfaces', Tokens')
  BY DEF PoolIsReferenced
<1>3. None \notin Obj
  BY SlotAssumption
<1>4. ASSUME NEW m \in SurfaceBuffer, NEW T \in SUBSET Slot,
             Makes(p, b, m, T, {})
      PROVE  Promise!Create(p, b) \/ Promise!Open(p, b)
  <2>1. /\ Surfaces[p][b] = None /\ Tokens' = Tokens
        /\ Surfaces' = [Surfaces EXCEPT ![p][b] = m.obj]
    BY <1>4, MakesMaps
  <2>2. m.obj \in Obj
    BY <1>4 DEF Makes
  <2>3. Alive' = Alive \cup {m.obj}
    <3>1. \A q \in Proc, c \in Buf :
            Surfaces'[q][c] = IF q = p /\ c = b THEN m.obj ELSE Surfaces[q][c]
      BY <1>1, <2>1
    <3>2. ReferencedBy(Surfaces', Tokens)
            = ReferencedBy(Surfaces, Tokens) \cup {m.obj}
      BY <2>1, <2>2, <3>1, SurfaceAdded
    <3> QED
      BY <1>2, <2>1, <3>2
  <2>4. CASE m.obj \in Alive
    <3>1. Alive' = Alive
      BY <2>3, <2>4
    <3>2. Promise!Open(p, b)
      BY <2>1, <2>4, <3>1 DEF Promise!Open, Surfaces, Tokens
    <3> QED
      BY <3>2
  <2>5. CASE m.obj \notin Alive
    <3>1. Promise!Create(p, b)
      BY <2>1, <2>2, <2>3, <2>5 DEF Promise!Create, Surfaces, Tokens
    <3> QED
      BY <3>1
  <2> QED
    BY <2>4, <2>5
<1>5. ASSUME NEW m \in SurfaceBuffer, NEW T \in SUBSET Slot, NEW t \in held[p],
             Makes(p, b, m, T, {t})
      PROVE  Promise!Adopt(p, b)
  <2>1. /\ Surfaces[p][b] = None
        /\ Surfaces' = [Surfaces EXCEPT ![p][b] = m.obj]
        /\ t \in Handle \cup Fd /\ Tokens[p][t] = m.obj
        /\ Tokens' = [Tokens EXCEPT ![p][t] = None]
    BY <1>5, MakesMaps
  <2>2. m.obj \in Obj
    BY <1>5 DEF Makes
  <2>3. Alive' = Alive
    <3>1. \A q \in Proc, c \in Buf :
            Surfaces'[q][c] = IF q = p /\ c = b THEN Tokens[p][t]
                                               ELSE Surfaces[q][c]
      BY <1>1, <2>1
    <3>2. \A q \in Proc, u \in Handle \cup Fd :
            Tokens'[q][u] = IF q = p /\ u = t THEN None ELSE Tokens[q][u]
      BY <1>1, <2>1
    <3>3. ReferencedBy(Surfaces', Tokens') = ReferencedBy(Surfaces, Tokens)
      BY <2>1, <2>2, <3>1, <3>2, TokenAdopted
    <3> QED
      BY <1>2, <3>3
  <2> QED
    BY <1>3, <2>1, <2>2, <2>3 DEF Promise!Adopt, Surfaces, Tokens
<1>6. CASE CreateBuffer(p, b)
  BY <1>4, <1>6, CreateBufferMakes
<1>7. CASE CreateBufferFromHandle(p, b)
  BY <1>5, <1>7, CreateBufferFromHandleMakes
<1>8. CASE CreateBufferFromName(p, b)
  BY <1>4, <1>8, CreateBufferFromNameMakes
<1>9. CASE CreateBufferFromPrimeFd(p, b)
  <2>1. {} \in SUBSET Slot
    OBVIOUS
  <2> QED
    BY <1>5, <1>9, <2>1, CreateBufferFromPrimeFdMakes
<1> QED
  BY <1>6, <1>7, <1>8, <1>9

\* map_buffer(), unmap_buffer() and the driver itself touch neither surfaces
\* nor tokens.
LEMMA StutterImplements ==
  ASSUME PoolIsReferenced, PoolIsReferenced', Surfaces' = Surfaces,
         Tokens' = Tokens
  PROVE  UNCHANGED Promise!svars
<1>1. Alive' = Alive
  BY DEF PoolIsReferenced
<1> QED
  BY <1>1 DEF Promise!svars, Surfaces, Tokens

\* Slots that were not the caller's may be opened and closed.
LEMMA TokensStay ==
  ASSUME TypeOK, held' = held, NEW p \in Proc, NEW S, NEW o,
         res' = Bind(p, S, o), S \cap held[p] = {}
  PROVE  Tokens' = Tokens
<1>1. \A q \in Proc, t \in Handle \cup Fd :
        t \in held[q] => res'[q][t] = res[q][t]
  BY DEF TypeOK, ResType, Bind, Slot
<1> QED
  BY <1>1 DEF Tokens

LEMMA MapsImplement ==
  ASSUME IInv, PoolIsReferenced, PoolIsReferenced', NEW p \in Proc,
         NEW b \in Buf, MapBuffer(p, b) \/ UnmapBuffer(p, b)
  PROVE  UNCHANGED Promise!svars
<1>1. TypeOK
  BY DEF IInv
<1>2. held' = held
  BY DEF MapBuffer, UnmapBuffer
<1>3. Surfaces' = Surfaces
  <2>1. \E a : buf' = [buf EXCEPT ![p][b].buff = a]
    BY DEF MapBuffer, UnmapBuffer
  <2>2. \A q \in Proc, c \in Buf : buf'[q][c].obj = buf[q][c].obj
    BY <1>1, <2>1 DEF TypeOK, SurfaceBuffer
  <2> QED
    BY <2>2 DEF Surfaces
<1>4. CASE MapBuffer(p, b)
  <2>1. PICK a \in Free(p, Addr) : res' = Bind(p, {a}, buf[p][b].obj)
    BY <1>4 DEF MapBuffer
  <2>2. a \notin held[p]
    BY <1>1, SlotAssumption DEF Free, TypeOK
  <2>3. Tokens' = Tokens
    BY <1>1, <1>2, <2>1, <2>2, TokensStay
  <2> QED
    BY <1>3, <2>3, StutterImplements
<1>5. CASE UnmapBuffer(p, b)
  <2>1. /\ b \in Live(p) /\ buf[p][b].buff # None
        /\ res' = Bind(p, {buf[p][b].buff}, None)
    BY <1>5 DEF UnmapBuffer, Release
  <2>2. buf[p][b].buff \in Addr
    BY <1>1, <2>1, LiveBuffer DEF SurfaceBuffer
  <2>3. buf[p][b].buff \notin held[p]
    BY <1>1, <2>2, SlotAssumption DEF TypeOK
  <2>4. Tokens' = Tokens
    BY <1>1, <1>2, <2>1, <2>3, TokensStay
  <2> QED
    BY <1>3, <2>4, StutterImplements
<1> QED
  BY <1>4, <1>5

\* destroy_buffer() drops a surface.
LEMMA DestroyImplements ==
  ASSUME IInv, PoolIsReferenced', NEW p \in Proc, NEW b \in Buf,
         DestroyBuffer(p, b)
  PROVE  Promise!Drop(p, b)
<1>1. TypeOK
  BY DEF IInv
<1>2. /\ b \in Live(p) /\ held' = held
      /\ res' = Bind(p, Slots(buf[p][b]) \ {Fd0}, None)
      /\ buf' = [buf EXCEPT ![p][b] = NoBuffer]
  BY DEF DestroyBuffer, Release, Released
<1>3. Slots(buf[p][b]) \cap held[p] = {}
  BY <1>2 DEF IInv, Ownership, BuffersOwn
<1>4. Tokens' = Tokens
  BY <1>1, <1>2, <1>3, TokensStay
<1>5. Surfaces[p][b] # None
  BY <1>2 DEF Surfaces, Live
<1>6. Surfaces' = [Surfaces EXCEPT ![p][b] = None]
  <2>1. NoBuffer.obj = None
    BY DEF NoBuffer
  <2> QED
    BY <1>1, <1>2, <2>1 DEF Surfaces, TypeOK
<1>7. Alive' = ReferencedBy(Surfaces', Tokens)
  BY <1>4 DEF PoolIsReferenced
<1>8. Alive' = Promise!ReferencedBy(Surfaces', Tokens)
  BY <1>7, PromiseTerms
<1> QED
  BY <1>4, <1>5, <1>6, <1>8 DEF Promise!Drop, Surfaces, Tokens
\* A handle or descriptor the caller gets is a token for an object that exists.
LEMMA TakesImplement ==
  ASSUME IInv, TypeOK', PoolIsReferenced, PoolIsReferenced', NEW p \in Proc,
         CallerReceivesFd(p) \/ CallerOpensName(p)
  PROVE  Promise!Take(p)
<1>1. PICK o \in Alive, t \in Handle \cup Fd :
        /\ res[p][t] = None
        /\ res' = Bind(p, {t}, o)
        /\ held' = [held EXCEPT ![p] = @ \cup {t}]
        /\ buf' = buf
  <2>1. Named \subseteq Alive
    BY DEF Named, Alive, Slot
  <2> QED
    BY <2>1 DEF CallerReceivesFd, CallerOpensName, Free
<1>2. TypeOK /\ o \in Obj /\ None \notin Obj /\ t \in Slot
  BY SlotAssumption DEF IInv, Alive, Slot
<1>3. Tokens[p][t] = None /\ Surfaces' = Surfaces
  BY <1>1 DEF Tokens, Surfaces
<1>4. \A q \in Proc, u \in Handle \cup Fd :
        Tokens'[q][u] = IF q = p /\ u = t THEN o ELSE Tokens[q][u]
  <2> SUFFICES ASSUME NEW q \in Proc, NEW u \in Handle \cup Fd
               PROVE  Tokens'[q][u] = IF q = p /\ u = t THEN o ELSE Tokens[q][u]
    OBVIOUS
  <2>1. u \in held'[q] <=> u \in held[q] \/ (q = p /\ u = t)
    BY <1>1, <1>2 DEF TypeOK
  <2>2. res'[q][u] = IF q = p /\ u = t THEN o ELSE res[q][u]
    BY <1>1, <1>2 DEF TypeOK, ResType, Bind, Slot
  <2> QED
    BY <2>1, <2>2 DEF Tokens
<1>5. Tokens' = [Tokens EXCEPT ![p][t] = o]
  <2> DEFINE tg == [Tokens EXCEPT ![p][t] = o]
  <2>1. tg \in [Proc -> [Handle \cup Fd -> Obj \cup {None}]]
    BY <1>2, SurfacesTyped
  <2>2. Tokens' \in [Proc -> [Handle \cup Fd -> Obj \cup {None}]]
    <3>1. \A q \in Proc, u \in Handle \cup Fd : res'[q][u] \in Obj \cup {None}
      BY DEF TypeOK, ResType, Slot
    <3> QED
      BY <3>1 DEF Tokens
  <2>3. \A q \in Proc, u \in Handle \cup Fd :
          tg[q][u] = IF q = p /\ u = t THEN o ELSE Tokens[q][u]
    BY DEF Tokens
  <2> HIDE DEF tg
  <2>4. Tokens' = tg
    BY <1>4, <2>1, <2>2, <2>3, SameTable
  <2> QED
    BY <2>4 DEF tg
<1>6. Alive' = Alive
  <2>1. ReferencedBy(Surfaces, Tokens') = ReferencedBy(Surfaces, Tokens) \cup {o}
    BY <1>2, <1>3, <1>4 DEF ReferencedBy
  <2> QED
    BY <1>1, <1>3, <2>1 DEF PoolIsReferenced
<1> QED
  BY <1>1, <1>3, <1>5, <1>6 DEF Promise!Take, Surfaces, Tokens

\* What the caller closes is a token it gives up.
LEMMA ReleasesImplement ==
  ASSUME IInv, TypeOK', PoolIsReferenced', NEW p \in Proc, CallerReleases(p)
  PROVE  Promise!Discard(p)
<1>1. PICK t \in held[p] :
        /\ res' = Bind(p, {t}, None)
        /\ held' = [held EXCEPT ![p] = @ \ {t}]
        /\ buf' = buf
  BY DEF CallerReleases, Release
<1>2. TypeOK /\ t \in Handle \cup Fd
  BY DEF IInv, TypeOK
<1>3. Tokens[p][t] # None /\ Surfaces' = Surfaces
  <2>1. res[p][t] # None
    BY DEF IInv, Ownership, HeldIsOpen
  <2> QED
    BY <1>1, <1>2, <2>1 DEF Tokens, Surfaces
<1>4. \A q \in Proc, u \in Handle \cup Fd :
        Tokens'[q][u] = IF q = p /\ u = t THEN None ELSE Tokens[q][u]
  <2> SUFFICES ASSUME NEW q \in Proc, NEW u \in Handle \cup Fd
               PROVE  Tokens'[q][u] = IF q = p /\ u = t THEN None
                                                        ELSE Tokens[q][u]
    OBVIOUS
  <2>1. u \in held'[q] <=> u \in held[q] /\ ~(q = p /\ u = t)
    BY <1>1, <1>2 DEF TypeOK
  <2>2. ~(q = p /\ u = t) => res'[q][u] = res[q][u]
    BY <1>1, <1>2 DEF TypeOK, ResType, Bind, Slot
  <2> QED
    BY <2>1, <2>2 DEF Tokens
<1> DEFINE Row == [u \in Handle \cup Fd |-> IF u \in {t} THEN None ELSE Tokens[p][u]]
           tg == [Tokens EXCEPT ![p] = Row]
<1>5. Tokens' = tg
  <2>1. /\ Tokens \in [Proc -> [Handle \cup Fd -> Obj \cup {None}]]
        /\ Row \in [Handle \cup Fd -> Obj \cup {None}]
    BY <1>2, SurfacesTyped
  <2>2. tg \in [Proc -> [Handle \cup Fd -> Obj \cup {None}]]
    <3> HIDE DEF Row
    <3> QED
      BY <2>1
  <2>3. Tokens' \in [Proc -> [Handle \cup Fd -> Obj \cup {None}]]
    <3>1. \A q \in Proc, u \in Handle \cup Fd : res'[q][u] \in Obj \cup {None}
      BY DEF TypeOK, ResType, Slot
    <3> QED
      BY <3>1 DEF Tokens
  <2>4. \A q \in Proc, u \in Handle \cup Fd :
          tg[q][u] = IF q = p /\ u = t THEN None ELSE Tokens[q][u]
    BY <2>1
  <2> HIDE DEF tg
  <2>5. Tokens' = tg
    BY <1>4, <2>2, <2>3, <2>4, SameTable
  <2> QED
    BY <2>5
<1>6. Alive' = Promise!ReferencedBy(Surfaces, Tokens')
  BY <1>3, PromiseTerms DEF PoolIsReferenced
<1>7. {t} \in SUBSET {u \in Handle \cup Fd : Tokens[p][u] # None}
  BY <1>2, <1>3
<1> QED
  BY <1>3, <1>5, <1>6, <1>7 DEF Promise!Discard, Surfaces, Tokens

\* A process that dies gives up all its surfaces and tokens.
LEMMA DeathImplements ==
  ASSUME TypeOK, PoolIsReferenced', NEW p \in Proc, ProcessDies(p)
  PROVE  Promise!Die(p)
<1>1. Surfaces' = [Surfaces EXCEPT ![p] = [b \in Buf |-> None]]
  <2>1. NoBuffer.obj = None
    BY DEF NoBuffer
  <2> QED
    BY <2>1 DEF ProcessDies, Surfaces, TypeOK
<1>2. Tokens' = [Tokens EXCEPT ![p] = [t \in Handle \cup Fd |-> None]]
  <2>1. \A q \in Proc \ {p} : held'[q] = held[q] /\ res'[q] = res[q]
    BY DEF ProcessDies, TypeOK, ResType, Release, Bind
  <2>2. held'[p] = {}
    BY DEF ProcessDies, TypeOK
  <2> QED
    BY <2>1, <2>2 DEF Tokens
<1>3. Alive' = Promise!ReferencedBy(Surfaces', Tokens')
  BY PromiseTerms DEF PoolIsReferenced
<1> QED
  BY <1>1, <1>2, <1>3 DEF Promise!Die, Surfaces, Tokens

\* The driver and its callers take steps of the promise only.
LEMMA NextImplements ==
  IInv /\ IInv' /\ PoolIsReferenced /\ PoolIsReferenced' /\ [Next]_vars =>
    [Promise!SNext]_(Promise!svars)
<1> SUFFICES ASSUME IInv, IInv', PoolIsReferenced, PoolIsReferenced',
                    [Next]_vars
             PROVE  [Promise!SNext]_(Promise!svars)
  OBVIOUS
<1>1. TypeOK /\ TypeOK'
  BY DEF IInv
<1>2. CASE UNCHANGED vars
  <2>1. Surfaces' = Surfaces /\ Tokens' = Tokens
    BY <1>2 DEF vars, Surfaces, Tokens
  <2> QED
    BY <2>1, StutterImplements
<1>3. ASSUME NEW p \in Proc, CreateDriver(p) \/ DestroyDriver(p)
      PROVE  UNCHANGED Promise!svars
  <2>1. Surfaces' = Surfaces /\ Tokens' = Tokens
    BY <1>3 DEF CreateDriver, DestroyDriver, Surfaces, Tokens
  <2> QED
    BY <2>1, StutterImplements
<1>4. ASSUME NEW p \in Proc, NEW b \in Buf,
             \/ CreateBuffer(p, b) \/ CreateBufferFromHandle(p, b)
             \/ CreateBufferFromName(p, b) \/ CreateBufferFromPrimeFd(p, b)
      PROVE  Promise!SNext
  <2>1. Promise!Create(p, b) \/ Promise!Adopt(p, b) \/ Promise!Open(p, b)
    BY <1>1, <1>4, CreateEntriesImplement
  <2> QED
    BY <2>1 DEF Promise!SNext
<1>5. ASSUME NEW p \in Proc, NEW b \in Buf, MapBuffer(p, b) \/ UnmapBuffer(p, b)
      PROVE  UNCHANGED Promise!svars
  BY <1>5, MapsImplement
<1>6. ASSUME NEW p \in Proc, NEW b \in Buf, DestroyBuffer(p, b)
      PROVE  Promise!SNext
  <2>1. Promise!Drop(p, b)
    BY <1>6, DestroyImplements
  <2> QED
    BY <2>1 DEF Promise!SNext
<1>7. ASSUME NEW p \in Proc,
             \/ CallerReceivesFd(p) \/ CallerOpensName(p)
             \/ CallerReleases(p) \/ ProcessDies(p)
      PROVE  Promise!SNext
  <2>1. Promise!Take(p) \/ Promise!Discard(p) \/ Promise!Die(p)
    BY <1>1, <1>7, TakesImplement, ReleasesImplement, DeathImplements
  <2> QED
    BY <2>1 DEF Promise!SNext
<1> QED
  BY <1>2, <1>3, <1>4, <1>5, <1>6, <1>7 DEF Next

\* The driver keeps the promise: a surface has its object's memory until it is
\* destroyed, and the last reference gives it back, unless a descriptor is
\* number 0.
THEOREM PromiseKept == Fd0 \notin Fd => (Spec => KeepsPromise)
<1> SUFFICES ASSUME Fd0 \notin Fd PROVE Spec => KeepsPromise
  OBVIOUS
<1>1. Init => Promise!SInit
  <2> SUFFICES ASSUME Init PROVE Promise!SInit
    OBVIOUS
  <2>1. /\ Surfaces = [p \in Proc |-> [b \in Buf |-> None]]
        /\ Tokens = [p \in Proc |-> [t \in Handle \cup Fd |-> None]]
    BY DEF Init, Surfaces, Tokens, NoBuffer
  <2>2. Alive = {}
    BY SlotAssumption DEF Init, Alive, NoReferences
  <2> QED
    BY <2>1, <2>2 DEF Promise!SInit, Surfaces, Tokens
<1>2. IInv /\ BuffersWellMade => PoolIsReferenced
  BY PoolIs
<1> QED
  BY <1>1, <1>2, NextImplements, Invariance, WellMadeAlways, PTL
     DEF Spec, KeepsPromise, Promise!SSpec
=============================================================================
