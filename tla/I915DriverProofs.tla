-------------------------- MODULE I915DriverProofs --------------------------
(***************************************************************************)
(* Proofs about the buffers of the i915 driver for any number of           *)
(* processes, objects, surfaces, handles and descriptors.                  *)
(***************************************************************************)
EXTENDS I915Driver, TLAPS, FiniteSetTheorems

\* A record of buf, and one of bo, as the type invariant has them.
SurfaceRecord ==
  [obj : Obj \cup {None}, bo : Handle \cup {None}, prime_fd : Fd \cup {None},
   created : BOOLEAN, scanout : BOOLEAN, buff : Way \cup {None}]

BoRecord ==
  [refs : Nat, named : BOOLEAN, reusable : BOOLEAN, maps : Nat,
   virtual : Way \cup {None}, cached : SUBSET Way]

-----------------------------------------------------------------------------
(* The inductive invariant, process by process.  That the references are   *)
(* counted exactly and that handles are not shared with the caller need    *)
(* each other: a bo that is found again must be one with users, or the     *)
(* handle of a bo without users could be the caller's by now, or one that  *)
(* libdrm keeps.  That created surfaces never meet on an object is the one *)
(* part that looks at two processes (Apart).                               *)

\* The bo on a handle: counted exactly, blank without users unless it is kept,
\* kept only without users, with an address only while it is mapped.
BoGood(q, h) ==
  LET r == bo[q][h] IN
  /\ r.refs = Cardinality(Users(q, h))
  /\ Users(q, h) = {} /\ h \notin kept[q] => r = NoBo /\ h \notin primed[q]
  /\ h \in kept[q] => Users(q, h) = {} /\ r.reusable /\ res[q][h] # None
  /\ r.reusable => ~r.named
  /\ r.maps <= Cardinality(Mapped(q, h))
  /\ r.maps = 0 => r.virtual = None
  /\ r.virtual # None => r.virtual \in r.cached

\* A live surface has a handle, its object and an address that exists; a
\* created one has a bo that may be reused.
Owns(q, b) ==
  LET m == buf[q][b] IN
  /\ m.bo \in Handle /\ res[q][m.bo] = m.obj
  /\ m.buff # None => m.buff \in bo[q][m.bo].cached
  /\ m.created => bo[q][m.bo].reusable

\* No two created surfaces share a bo.
Single(q) ==
  \A b, c \in Live(q) :
    buf[q][b].created /\ buf[q][c].created /\ buf[q][b].bo = buf[q][c].bo => b = c

\* What the caller holds is open and nothing of the driver's or libdrm's.
Keeps(q) ==
  \A s \in held[q] :
    /\ res[q][s] # None /\ s \notin kept[q]
    /\ s \in Handle => Users(q, s) = {}

\* What is open is the caller's, libdrm's or a surface's.
CaredFor(q) ==
  \A s \in Slot :
    res[q][s] # None => \/ s \in held[q] \cup kept[q]
                        \/ \E b \in Live(q) : buf[q][b].bo = s

\* The count is exact while there is a driver, and the warning afterwards.
Counts(q) ==
  IF up[q] THEN nr_buffers[q] = Cardinality(Live(q)) /\ ~warned[q]
           ELSE warned[q] <=> Live(q) # {}

Good(q) ==
  /\ \A h \in Handle : BoGood(q, h)
  /\ \A b \in Live(q) : Owns(q, b)
  /\ Single(q) /\ Keeps(q) /\ CaredFor(q) /\ Counts(q)
  /\ up[q] \/ kept[q] = {}

\* Two bos that may be reused are never on one object.
Apart ==
  \A p, q \in Proc : \A g, h \in Handle :
    bo[p][g].reusable /\ bo[q][h].reusable /\ res[p][g] = res[q][h]
    => p = q /\ g = h

IInv == TypeOK /\ Apart /\ \A q \in Proc : Good(q)

-----------------------------------------------------------------------------
\* The surfaces of a process, and of a bo, are finitely many.
LEMMA Finite ==
  ASSUME NEW q, NEW h
  PROVE  /\ IsFiniteSet(Live(q)) /\ Cardinality(Live(q)) \in Nat
         /\ IsFiniteSet(Users(q, h)) /\ Cardinality(Users(q, h)) \in Nat
         /\ IsFiniteSet(Mapped(q, h)) /\ Cardinality(Mapped(q, h)) \in Nat
<1>1. Live(q) \subseteq Buf /\ Users(q, h) \subseteq Buf /\ Mapped(q, h) \subseteq Buf
  BY DEF Live, Users, Mapped
<1> QED
  BY <1>1, BufAssumption, FS_Subset, FS_CardinalityType

\* Bind changes the slots of S of process p, and nothing else.
LEMMA BindChanges ==
  ASSUME ResType, NEW p \in Proc, NEW S, NEW o \in Obj \cup {None},
         res' = Bind(p, S, o)
  PROVE  /\ ResType'
         /\ \A s \in Slot : res'[p][s] = IF s \in S THEN o ELSE res[p][s]
         /\ \A q \in Proc \ {p} : res'[q] = res[q]
BY DEF ResType, Bind

\* The types of single records.
LEMMA Records ==
  ASSUME TypeOK, NEW p \in Proc
  PROVE  /\ \A h \in Handle : bo[p][h] \in BoRecord
         /\ \A b \in Buf : buf[p][b] \in SurfaceRecord
         /\ bo \in [Proc -> [Handle -> BoRecord]]
         /\ buf \in [Proc -> [Buf -> SurfaceRecord]]
BY DEF TypeOK, BoType, BoRecord, SurfaceRecord

\* A blank bo, and one with its first user.
LEMMA NewBoIsBo ==
  /\ NoBo \in BoRecord /\ NoBo.refs = 0 /\ NoBo.maps = 0 /\ NoBo.virtual = None
  /\ NoBo.cached = {} /\ ~NoBo.named /\ ~NoBo.reusable
  /\ NewBo \in BoRecord /\ NewBo.refs = 1 /\ NewBo.maps = 0
  /\ NewBo.virtual = None /\ NewBo.cached = {}
  /\ ~NewBo.named /\ ~NewBo.reusable
BY DEF NoBo, NewBo, BoRecord

\* A reference more or less changes a bo in nothing else.
LEMMA RefsChange ==
  ASSUME NEW r \in BoRecord, NEW k \in Nat
  PROVE  LET n == [r EXCEPT !.refs = k] IN
         /\ n \in BoRecord /\ n.refs = k /\ n.maps = r.maps
         /\ n.virtual = r.virtual /\ n.cached = r.cached
         /\ n.named = r.named /\ n.reusable = r.reusable
BY DEF BoRecord

\* A map call maps once more, or leaves the bo alone.
LEMMA MappedBoIsBo ==
  ASSUME NEW r \in BoRecord, NEW way \in Way, NEW ok \in BOOLEAN
  PROVE  LET n == MappedBo(r, way, ok) IN
         \/ n = r
         \/ /\ n \in BoRecord /\ n.refs = r.refs /\ n.maps = r.maps + 1
            /\ n.virtual = way /\ n.cached = r.cached \cup {way}
            /\ n.named = r.named /\ n.reusable = r.reusable
<1> DEFINE r1 == [r EXCEPT !.maps = r.maps + 1]
           r2 == [r1 EXCEPT !.virtual = way]
           r3 == [r2 EXCEPT !.cached = r.cached \cup {way}]
<1>1. /\ r1 \in BoRecord /\ r1.maps = r.maps + 1
      /\ r1.refs = r.refs /\ r1.cached = r.cached
      /\ r1.named = r.named /\ r1.reusable = r.reusable
  BY DEF BoRecord
<1> HIDE DEF r1
<1>2. /\ r2 \in BoRecord /\ r2.maps = r1.maps /\ r2.virtual = way
      /\ r2.refs = r1.refs /\ r2.cached = r1.cached
      /\ r2.named = r.named /\ r2.reusable = r.reusable
  BY <1>1 DEF BoRecord
<1> HIDE DEF r2
<1>3. /\ r3 \in BoRecord /\ r3.maps = r2.maps /\ r3.virtual = r2.virtual
      /\ r3.refs = r2.refs /\ r3.cached = r.cached \cup {way}
      /\ r3.named = r.named /\ r3.reusable = r.reusable
  BY <1>1, <1>2 DEF BoRecord
<1>4. MappedBo(r, way, ok) = r \/ MappedBo(r, way, ok) = r3
  BY DEF MappedBo, r1, r2
<1> HIDE DEF r3
<1> QED
  BY <1>1, <1>2, <1>3, <1>4

\* An unmap call unmaps once, if there is something to unmap.
LEMMA UnmappedBoIsBo ==
  ASSUME NEW r \in BoRecord
  PROVE  LET n == UnmappedBo(r) IN
         /\ n \in BoRecord /\ n.refs = r.refs /\ n.cached = r.cached
         /\ n.maps = IF r.maps = 0 THEN 0 ELSE r.maps - 1
         /\ n.virtual = IF r.maps = 1 THEN None ELSE r.virtual
         /\ n.named = r.named /\ n.reusable = r.reusable
<1>1. CASE r.maps = 0
  BY <1>1 DEF UnmappedBo, BoRecord
<1>2. CASE r.maps # 0
  <2> DEFINE r1 == [r EXCEPT !.maps = r.maps - 1]
             v  == IF r.maps = 1 THEN None ELSE r.virtual
             r2 == [r1 EXCEPT !.virtual = v]
  <2>1. r.maps - 1 \in Nat /\ v \in Way \cup {None}
    BY <1>2 DEF BoRecord
  <2>2. /\ r1 \in BoRecord /\ r1.maps = r.maps - 1
        /\ r1.refs = r.refs /\ r1.cached = r.cached
        /\ r1.named = r.named /\ r1.reusable = r.reusable
    BY <2>1 DEF BoRecord
  <2>3. UnmappedBo(r) = r2
    BY <1>2 DEF UnmappedBo
  <2> HIDE DEF r1, v
  <2>4. /\ r2 \in BoRecord /\ r2.maps = r1.maps /\ r2.virtual = v
        /\ r2.refs = r1.refs /\ r2.cached = r1.cached
        /\ r2.named = r.named /\ r2.reusable = r.reusable
    BY <2>1, <2>2 DEF BoRecord
  <2> HIDE DEF r2
  <2> QED
    BY <1>2, <2>2, <2>3, <2>4 DEF v
<1> QED
  BY <1>1, <1>2

\* A step of process p keeps the invariant if it keeps p's part of it.
LEMMA OneProcess ==
  ASSUME IInv, NEW p \in Proc, TypeOK', Apart', Good(p)',
         \A q \in Proc \ {p} :
           /\ res'[q] = res[q] /\ primed'[q] = primed[q] /\ bo'[q] = bo[q]
           /\ kept'[q] = kept[q] /\ buf'[q] = buf[q] /\ held'[q] = held[q]
           /\ up'[q] = up[q] /\ nr_buffers'[q] = nr_buffers[q]
           /\ warned'[q] = warned[q]
  PROVE  IInv'
<1> SUFFICES ASSUME NEW q \in Proc \ {p} PROVE Good(q)'
  BY DEF IInv
<1>1. /\ Live(q)' = Live(q)
      /\ \A h \in Handle : Users(q, h)' = Users(q, h) /\ Mapped(q, h)' = Mapped(q, h)
  BY DEF Live, Users, Mapped
<1>2. Good(q)
  BY DEF IInv
<1>3. \A h \in Handle : BoGood(q, h)'
  BY <1>1, <1>2 DEF Good, BoGood
<1>4. \A b \in Live(q)' : Owns(q, b)'
  BY <1>1, <1>2 DEF Good, Owns
<1>5. Keeps(q)' /\ CaredFor(q)' /\ Counts(q)'
  BY <1>1, <1>2 DEF Good, Keeps, CaredFor, Counts
<1>6. Single(q)' /\ (up'[q] \/ kept'[q] = {})
  BY <1>1, <1>2 DEF Good, Single
<1> QED
  BY <1>3, <1>4, <1>5, <1>6 DEF Good

\* Bos that may be reused stay apart if none is added and none moves.
LEMMA ApartStays ==
  ASSUME Apart,
         \A q \in Proc, h \in Handle :
           bo'[q][h].reusable => bo[q][h].reusable /\ res'[q][h] = res[q][h]
  PROVE  Apart'
BY DEF Apart

\* A bo that may be reused has its object.
LEMMA ReusableIsOpen ==
  ASSUME IInv, NEW q \in Proc, NEW h \in Handle, bo[q][h].reusable
  PROVE  res[q][h] \in Obj
<1>1. Good(q) /\ BoGood(q, h) /\ h \in Slot
  BY DEF IInv, Good, Slot
<1>2. Users(q, h) # {} \/ h \in kept[q]
  BY <1>1, NewBoIsBo DEF BoGood
<1>3. CASE h \in kept[q]
  BY <1>1, <1>3 DEF BoGood, IInv, TypeOK, ResType
<1>4. CASE Users(q, h) # {}
  <2>1. PICK b \in Live(q) : buf[q][b].bo = h
    BY <1>4 DEF Users
  <2>2. res[q][h] = buf[q][b].obj /\ buf[q][b].obj # None
    BY <1>1, <2>1 DEF Good, Owns, Live
  <2> QED
    BY <1>1, <2>2 DEF IInv, TypeOK, ResType
<1> QED
  BY <1>2, <1>3, <1>4

\* A bo that a step leaves alone, and whose surfaces it leaves alone, is good.
LEMMA SameBo ==
  ASSUME NEW p, NEW h, BoGood(p, h), bo'[p][h] = bo[p][h],
         h \in kept'[p] <=> h \in kept[p],
         h \in kept[p] => res'[p][h] = res[p][h],
         h \in primed'[p] => h \in primed[p] \/ Users(p, h) # {},
         Users(p, h)' = Users(p, h), Mapped(p, h)' = Mapped(p, h)
  PROVE  BoGood(p, h)'
BY DEF BoGood

\* A new record for one bo leaves the others alone.
LEMMA BoChanges ==
  ASSUME IInv, NEW p \in Proc, NEW h \in Handle, NEW n \in BoRecord,
         bo' = [bo EXCEPT ![p][h] = n]
  PROVE  /\ bo' \in [Proc -> [Handle -> BoRecord]] /\ bo'[p][h] = n
         /\ \A g \in Handle \ {h} : bo'[p][g] = bo[p][g]
         /\ \A q \in Proc \ {p} : bo'[q] = bo[q]
BY Records DEF IInv

-----------------------------------------------------------------------------
(* Opening a bo.  Whether libdrm makes one, finds one or has kept one, the *)
(* surface that is made on it adds one reference to one bo.                *)

\* Process p has one more reference to the bo on h, which leads to o and, for
\* a surface that is created, has no other users and may be reused.
Opened(p, h, o, created) ==
  /\ ResType' /\ BoType' /\ Apart'
  /\ created => Users(p, h) = {} /\ bo'[p][h].reusable
  /\ h \notin held[p] /\ res'[p][h] = o
  /\ res[p][h] \in {None, o}
  /\ \A s \in Slot \ {h} : res'[p][s] = res[p][s]
  /\ LET r == bo[p][h]
         n == bo'[p][h] IN
     /\ n.refs = r.refs + 1 /\ n.maps = r.maps
     /\ n.virtual = r.virtual /\ n.cached = r.cached
     /\ r.reusable => n.reusable
     /\ n.reusable => ~n.named
  /\ \A g \in Handle \ {h} :
       bo'[p][g] = bo[p][g] /\ (g \in primed'[p] <=> g \in primed[p])
  /\ kept'[p] = kept[p] \ {h}
  /\ \A q \in Proc \ {p} :
       /\ res'[q] = res[q] /\ bo'[q] = bo[q] /\ primed'[q] = primed[q]
       /\ kept'[q] = kept[q]

\* A handle that is not open has no users, is not the caller's and not kept.
LEMMA FreeHandle ==
  ASSUME IInv, NEW p \in Proc, NEW h \in Free(p, Handle)
  PROVE  /\ h \in Handle /\ h \in Slot /\ res[p][h] = None
         /\ Users(p, h) = {} /\ bo[p][h] = NoBo
         /\ h \notin primed[p] /\ h \notin held[p] /\ h \notin kept[p]
<1>1. h \in Handle /\ h \in Slot /\ res[p][h] = None
  BY DEF Free, Slot
<1>2. Good(p)
  BY DEF IInv
<1>3. Users(p, h) = {}
  BY <1>1, <1>2 DEF Users, Live, Good, Owns
<1> QED
  BY <1>1, <1>2, <1>3 DEF Good, BoGood, Keeps

\* A bo on a new handle is opened, however libdrm marks it.
LEMMA NewBoOpened ==
  ASSUME IInv, NEW p \in Proc, NEW h \in Free(p, Handle), NEW o \in Obj,
         NEW r \in BoRecord, r.refs = 1, r.maps = 0, r.virtual = None,
         r.cached = {}, r.reusable => ~r.named /\ o \notin Alive,
         NEW created \in BOOLEAN, created => r.reusable,
         res' = Bind(p, {h}, o), bo' = [bo EXCEPT ![p][h] = r], kept' = kept,
         primed' = primed \/ primed' = [primed EXCEPT ![p] = @ \cup {h}]
  PROVE  Opened(p, h, o, created)
<1>1. /\ h \in Handle /\ h \in Slot /\ Users(p, h) = {} /\ bo[p][h] = NoBo
      /\ h \notin held[p] /\ h \notin kept[p] /\ res[p][h] = None
  BY FreeHandle
<1>2. /\ ResType'
      /\ \A s \in Slot : res'[p][s] = IF s \in {h} THEN o ELSE res[p][s]
      /\ \A q \in Proc \ {p} : res'[q] = res[q]
  <2>1. ResType /\ o \in Obj \cup {None}
    BY DEF IInv, TypeOK
  <2> QED
    BY <2>1, BindChanges
<1>3. /\ bo' \in [Proc -> [Handle -> BoRecord]] /\ bo'[p][h] = r
      /\ \A g \in Handle \ {h} : bo'[p][g] = bo[p][g]
      /\ \A q \in Proc \ {p} : bo'[q] = bo[q]
  BY <1>1, Records DEF IInv
<1>4. /\ primed' \in [Proc -> SUBSET Handle]
      /\ \A g \in Handle \ {h} : g \in primed'[p] <=> g \in primed[p]
      /\ \A q \in Proc \ {p} : primed'[q] = primed[q]
  <2>1. primed \in [Proc -> SUBSET Handle]
    BY DEF IInv, TypeOK, BoType
  <2>2. CASE primed' = primed
    BY <2>1, <2>2
  <2>3. CASE primed' = [primed EXCEPT ![p] = @ \cup {h}]
    BY <1>1, <2>1, <2>3
  <2> QED
    BY <2>2, <2>3
<1>5. BoType'
  BY <1>3, <1>4 DEF BoType, BoRecord, IInv, TypeOK
<1>6. bo[p][h].refs = 0 /\ bo[p][h].maps = 0 /\ bo[p][h].virtual = None
      /\ bo[p][h].cached = {} /\ ~bo[p][h].reusable
  BY <1>1, NewBoIsBo
<1>7. res'[p][h] = o /\ \A s \in Slot \ {h} : res'[p][s] = res[p][s]
  BY <1>1, <1>2
<1>8. LET n == bo'[p][h] IN
      /\ n.refs = bo[p][h].refs + 1 /\ n.maps = bo[p][h].maps
      /\ n.virtual = bo[p][h].virtual /\ n.cached = bo[p][h].cached
      /\ bo[p][h].reusable => n.reusable
      /\ n.reusable => ~n.named
  BY <1>3, <1>6
<1>9. Apart'
  <2>1. ASSUME NEW q \in Proc, NEW g \in Handle, bo'[q][g].reusable,
               q # p \/ g # h
        PROVE  bo[q][g].reusable /\ res'[q][g] = res[q][g] /\ res[q][g] \in Obj
    <3>1. CASE q # p
      BY <1>2, <1>3, <2>1, <3>1, ReusableIsOpen
    <3>2. CASE q = p
      <4>1. g \in Slot \ {h} /\ g \in Handle \ {h}
        BY <2>1, <3>2 DEF Slot
      <4>2. bo'[p][g] = bo[p][g] /\ res'[p][g] = res[p][g]
        BY <1>3, <1>7, <4>1
      <4> QED
        BY <2>1, <3>2, <4>2, ReusableIsOpen
    <3> QED
      BY <3>1, <3>2
  <2>2. ASSUME NEW q \in Proc, NEW g \in Handle, bo'[q][g].reusable,
               q # p \/ g # h, r.reusable
        PROVE  res'[q][g] # o
    <3>1. res'[q][g] = res[q][g] /\ g \in Slot
      BY <2>1, <2>2 DEF Slot
    <3> QED
      BY <2>2, <3>1 DEF Alive
  <2>3. SUFFICES ASSUME NEW q1 \in Proc, NEW q2 \in Proc, NEW g1 \in Handle,
                        NEW g2 \in Handle,
                        /\ bo'[q1][g1].reusable /\ bo'[q2][g2].reusable
                        /\ res'[q1][g1] = res'[q2][g2]
                 PROVE  q1 = q2 /\ g1 = g2
    BY Zenon DEF Apart
  <2>4. CASE q1 = p /\ g1 = h
    <3>1. r.reusable /\ res'[q2][g2] = o
      BY <1>3, <1>7, <2>3, <2>4
    <3> QED
      BY <2>2, <2>3, <2>4, <3>1
  <2>5. CASE q2 = p /\ g2 = h
    <3>1. r.reusable /\ res'[q1][g1] = o
      BY <1>3, <1>7, <2>3, <2>5
    <3> QED
      BY <2>2, <2>3, <2>5, <3>1
  <2>6. CASE (q1 # p \/ g1 # h) /\ (q2 # p \/ g2 # h)
    <3>1. /\ bo[q1][g1].reusable /\ bo[q2][g2].reusable
          /\ res[q1][g1] = res[q2][g2]
      BY <2>1, <2>3, <2>6
    <3> QED
      BY <3>1 DEF IInv, Apart
  <2> QED
    BY <2>4, <2>5, <2>6
<1>10. kept'[p] = kept[p] \ {h} /\ (created => bo'[p][h].reusable)
  BY <1>1, <1>3
<1> QED
  BY <1>1, <1>2, <1>3, <1>4, <1>5, <1>7, <1>8, <1>9, <1>10 DEF Opened

\* So is a bo that has users and is referenced once more.
LEMMA KnownBoOpened ==
  ASSUME IInv, NEW p \in Proc, NEW h \in Handle, NEW o \in Obj,
         Users(p, h) # {}, res[p][h] = o, ReferenceBo(p, h)
  PROVE  Opened(p, h, o, FALSE)
<1> DEFINE r == bo[p][h]
           n == [r EXCEPT !.refs = r.refs + 1]
<1>1. r \in BoRecord /\ bo \in [Proc -> [Handle -> BoRecord]]
  BY Records DEF IInv
<1>2. /\ n \in BoRecord /\ n.refs = r.refs + 1 /\ n.maps = r.maps
      /\ n.virtual = r.virtual /\ n.cached = r.cached
      /\ n.named = r.named /\ n.reusable = r.reusable
  <2>1. r.refs + 1 \in Nat
    BY <1>1 DEF BoRecord
  <2> HIDE DEF r
  <2> QED
    BY <1>1, <2>1, RefsChange
<1>3. /\ bo' = [bo EXCEPT ![p][h] = n] /\ res' = res /\ primed' = primed
      /\ kept' = kept
  BY <1>1 DEF ReferenceBo
<1> HIDE DEF n
<1>4. /\ bo' \in [Proc -> [Handle -> BoRecord]] /\ bo'[p][h] = n
      /\ \A g \in Handle \ {h} : bo'[p][g] = bo[p][g]
      /\ \A q \in Proc \ {p} : bo'[q] = bo[q]
  BY <1>1, <1>2, <1>3
<1>5. ResType' /\ BoType'
  BY <1>3, <1>4 DEF IInv, TypeOK, ResType, BoType, BoRecord
<1>6. h \notin held[p] /\ h \notin kept[p] /\ (r.reusable => ~r.named)
  BY DEF IInv, Good, Keeps, BoGood
<1>7. Apart'
  <2>1. \A q \in Proc, g \in Handle : bo'[q][g].reusable => bo[q][g].reusable
    BY <1>2, <1>4
  <2> QED
    BY <1>3, <2>1, ApartStays DEF IInv
<1> HIDE DEF r
<1> QED
  BY <1>2, <1>3, <1>4, <1>5, <1>6, <1>7 DEF Opened, r

\* A bo that libdrm finds by its name, or the kernel by its handle without it
\* being kept, has users.
LEMMA KnownHasUsers ==
  ASSUME IInv, NEW p \in Proc, NEW h \in Handle,
         bo[p][h].named \/ (h \in primed[p] /\ h \notin kept[p])
  PROVE  Users(p, h) # {}
<1>1. BoGood(p, h)
  BY DEF IInv, Good
<1> QED
  BY <1>1, NewBoIsBo DEF BoGood

\* A bo that is kept is opened again, for a surface that is created.
LEMMA KeptBoOpened ==
  ASSUME IInv, NEW p \in Proc, NEW h \in kept[p], NEW o \in Obj, o = res[p][h],
         NEW r \in BoRecord, r = bo[p][h], NEW n, n = [r EXCEPT !.refs = 1],
         bo' = [bo EXCEPT ![p][h] = n],
         kept' = [kept EXCEPT ![p] = @ \ {h}], UNCHANGED <<res, primed>>
  PROVE  Opened(p, h, o, TRUE)
<1>1. /\ bo \in [Proc -> [Handle -> BoRecord]] /\ h \in Handle
      /\ kept \in [Proc -> SUBSET Handle]
  BY Records DEF IInv, TypeOK, BoType
<1>2. /\ n \in BoRecord /\ n.refs = 1 /\ n.maps = r.maps
      /\ n.virtual = r.virtual /\ n.cached = r.cached
      /\ n.named = r.named /\ n.reusable = r.reusable
  <2>1. 1 \in Nat
    OBVIOUS
  <2> QED
    BY <2>1, RefsChange
<1>3. /\ Users(p, h) = {} /\ r.reusable /\ ~r.named /\ r.refs = 0
      /\ h \notin held[p]
  <2>1. BoGood(p, h) /\ Keeps(p)
    BY <1>1 DEF IInv, Good
  <2> QED
    BY <2>1, FS_EmptySet DEF BoGood, Keeps
<1>4. /\ bo' \in [Proc -> [Handle -> BoRecord]] /\ bo'[p][h] = n
      /\ \A g \in Handle \ {h} : bo'[p][g] = bo[p][g]
      /\ \A q \in Proc \ {p} : bo'[q] = bo[q]
  BY <1>1, <1>2, BoChanges
<1>5. /\ kept' \in [Proc -> SUBSET Handle] /\ kept'[p] = kept[p] \ {h}
      /\ \A q \in Proc \ {p} : kept'[q] = kept[q]
  BY <1>1
<1>6. ResType' /\ BoType'
  BY <1>4, <1>5 DEF IInv, TypeOK, ResType, BoType, BoRecord
<1>7. Apart'
  <2>1. \A q \in Proc, g \in Handle : bo'[q][g].reusable => bo[q][g].reusable
    BY <1>2, <1>4
  <2> QED
    BY <2>1, ApartStays DEF IInv
<1> QED
  BY <1>1, <1>2, <1>3, <1>4, <1>5, <1>6, <1>7 DEF Opened

\* drm_intel_bo_alloc() opens a bo.
LEMMA AllocOpens ==
  ASSUME IInv, NEW p \in Proc, NEW h \in Handle, NEW o \in Obj, AllocBo(p, h, o)
  PROVE  Opened(p, h, o, TRUE)
<1>1. CASE /\ h \in kept[p] /\ o = res[p][h]
           /\ bo' = [bo EXCEPT ![p][h].refs = 1]
           /\ kept' = [kept EXCEPT ![p] = @ \ {h}]
           /\ UNCHANGED <<res, primed>>
  <2>1. PICK r \in BoRecord : r = bo[p][h]
    BY Records DEF IInv
  <2>2. PICK n : n = [r EXCEPT !.refs = 1]
    OBVIOUS
  <2>3. bo' = [bo EXCEPT ![p][h] = n]
    BY <1>1, <2>1, <2>2
  <2> QED
    BY <1>1, <2>1, <2>2, <2>3, KeptBoOpened
<1>2. CASE /\ h \in Free(p, Handle) /\ o \notin Alive
           /\ res' = Bind(p, {h}, o)
           /\ bo' = [bo EXCEPT ![p][h] = [NewBo EXCEPT !.reusable = TRUE]]
           /\ UNCHANGED <<primed, kept>>
  <2> DEFINE r == [NewBo EXCEPT !.reusable = TRUE]
  <2>1. /\ r \in BoRecord /\ r.refs = 1 /\ r.maps = 0 /\ r.virtual = None
        /\ r.cached = {} /\ r.reusable /\ ~r.named
    BY NewBoIsBo DEF BoRecord
  <2>2. bo' = [bo EXCEPT ![p][h] = r]
    BY <1>2
  <2> HIDE DEF r
  <2> QED
    BY <1>2, <2>1, <2>2, NewBoOpened
<1> QED
  BY <1>1, <1>2 DEF AllocBo

\* drm_intel_bo_gem_create_from_name() opens a bo.
LEMMA NameOpens ==
  ASSUME IInv, NEW p \in Proc, NEW h \in Handle, NEW o \in Obj, OpenName(p, h, o)
  PROVE  Opened(p, h, o, FALSE)
<1> DEFINE known == {g \in Handle : bo[p][g].named /\ res[p][g] = o}
<1>1. CASE known # {}
  <2>1. /\ bo[p][h].named /\ res[p][h] = o /\ ReferenceBo(p, h)
    BY <1>1 DEF OpenName
  <2>2. Users(p, h) # {}
    BY <2>1, KnownHasUsers
  <2> QED
    BY <2>1, <2>2, KnownBoOpened
<1>2. CASE known = {}
  <2> DEFINE r == [NewBo EXCEPT !.named = TRUE]
  <2>1. /\ r \in BoRecord /\ r.refs = 1 /\ r.maps = 0 /\ r.virtual = None
        /\ r.cached = {} /\ ~r.reusable
    BY NewBoIsBo DEF BoRecord
  <2>2. /\ h \in Free(p, Handle) /\ res' = Bind(p, {h}, o) /\ kept' = kept
        /\ bo' = [bo EXCEPT ![p][h] = r] /\ primed' = primed
    BY <1>2 DEF OpenName
  <2> HIDE DEF r
  <2> QED
    BY <2>1, <2>2, NewBoOpened
<1> QED
  BY <1>1, <1>2

\* drm_intel_bo_gem_create_from_prime() opens a bo.
LEMMA PrimeOpens ==
  ASSUME IInv, NEW p \in Proc, NEW h \in Handle, NEW o \in Obj,
         \A g \in kept[p] \cap primed[p] : res[p][g] # o, OpenPrime(p, h, o)
  PROVE  Opened(p, h, o, FALSE)
<1> DEFINE known == {g \in primed[p] : res[p][g] = o}
<1>1. CASE known # {}
  <2>1. /\ h \in primed[p] /\ res[p][h] = o /\ ReferenceBo(p, h)
    BY <1>1 DEF OpenPrime
  <2>2. Users(p, h) # {}
    BY <2>1, KnownHasUsers
  <2> QED
    BY <2>1, <2>2, KnownBoOpened
<1>2. CASE known = {}
  <2>1. /\ h \in Free(p, Handle) /\ res' = Bind(p, {h}, o) /\ kept' = kept
        /\ bo' = [bo EXCEPT ![p][h] = NewBo]
        /\ primed' = [primed EXCEPT ![p] = @ \cup {h}]
    BY <1>2 DEF OpenPrime
  <2> QED
    BY <2>1, NewBoOpened, NewBoIsBo
<1> QED
  BY <1>1, <1>2

-----------------------------------------------------------------------------
(* The entries that make a surface.                                        *)

\* A surface made on a bo that was opened for it keeps the invariant.
LEMMA MakeBufferStep ==
  ASSUME IInv, NEW p \in Proc, NEW b \in Buf, NEW o \in Obj, NEW h \in Handle,
         NEW fd \in Fd \cup {None}, NEW created \in BOOLEAN,
         NEW scanout \in BOOLEAN, Opened(p, h, o, created),
         MakeBuffer(p, b, o, h, fd, created, scanout)
  PROVE  IInv'
<1> DEFINE m == [obj |-> o, bo |-> h, prime_fd |-> fd, created |-> created,
                 scanout |-> scanout, buff |-> None]
<1>1. /\ up[p] /\ b \notin Live(p)
      /\ buf' = [buf EXCEPT ![p][b] = m]
      /\ nr_buffers' = [nr_buffers EXCEPT ![p] = @ + 1]
      /\ UNCHANGED <<up, warned, held>>
  BY DEF MakeBuffer, CountBuffer
<1>2. /\ m \in SurfaceRecord /\ m.obj = o /\ m.bo = h /\ m.buff = None
      /\ m.created = created /\ o # None /\ h \in Slot
  BY SlotAssumption DEF SurfaceRecord, Slot
<1> HIDE DEF m
<1>3. /\ buf' \in [Proc -> [Buf -> SurfaceRecord]]
      /\ buf'[p][b] = m /\ \A c \in Buf \ {b} : buf'[p][c] = buf[p][c]
      /\ \A q \in Proc \ {p} : buf'[q] = buf[q]
  BY <1>1, <1>2, Records DEF IInv
<1>4. /\ nr_buffers' \in [Proc -> Nat] /\ nr_buffers'[p] = nr_buffers[p] + 1
      /\ \A q \in Proc \ {p} : nr_buffers'[q] = nr_buffers[q]
  BY <1>1 DEF IInv, TypeOK
<1>5. TypeOK'
  BY <1>1, <1>3, <1>4 DEF IInv, TypeOK, Opened, SurfaceRecord
<1>6. Live(p)' = Live(p) \cup {b} /\ Live(p) \subseteq Buf
  BY <1>2, <1>3 DEF Live
<1>7. /\ Users(p, h)' = Users(p, h) \cup {b} /\ b \notin Users(p, h)
      /\ \A g \in Handle \ {h} : Users(p, g)' = Users(p, g)
      /\ \A g \in Handle : Mapped(p, g)' = Mapped(p, g)
  <2>1. /\ Users(p, h)' = Users(p, h) \cup {b} /\ b \notin Users(p, h)
        /\ \A g \in Handle \ {h} : Users(p, g)' = Users(p, g)
    BY <1>1, <1>2, <1>3, <1>6 DEF Users
  <2>2. \A g \in Handle : Mapped(p, g)' = {c \in Users(p, g)' : buf'[p][c].buff # None}
    BY DEF Mapped
  <2>3. \A g \in Handle : Users(p, g) \subseteq Buf \ {b}
    BY <1>1, <1>6 DEF Users
  <2>4. ASSUME NEW g \in Handle PROVE Mapped(p, g)' = Mapped(p, g)
    <3>1. \A c \in Users(p, g) : buf'[p][c] = buf[p][c]
      BY <1>3, <2>3
    <3>2. Users(p, g)' = Users(p, g) \/ Users(p, g)' = Users(p, g) \cup {b}
      BY <2>1
    <3> QED
      BY <1>2, <1>3, <2>2, <3>1, <3>2 DEF Mapped
  <2> QED
    BY <2>1, <2>4
<1>8. Good(p)
  BY DEF IInv
<1>9. ASSUME NEW g \in Handle PROVE BoGood(p, g)'
  <2>1. BoGood(p, g)
    BY <1>8 DEF Good
  <2>2. CASE g # h
    <3>1. /\ bo'[p][g] = bo[p][g] /\ (g \in primed'[p] <=> g \in primed[p])
          /\ res'[p][g] = res[p][g] /\ (g \in kept'[p] <=> g \in kept[p])
      BY <2>2 DEF Opened, Slot
    <3> QED
      BY <1>7, <2>1, <2>2, <3>1, SameBo
  <2>3. CASE g = h
    <3>1. Cardinality(Users(p, h)') = Cardinality(Users(p, h)) + 1
      BY <1>7, Finite, FS_AddElement
    <3>2. Users(p, h)' # {} /\ h \notin kept'[p]
      BY <1>7 DEF Opened
    <3> QED
      BY <1>7, <2>1, <2>3, <3>1, <3>2 DEF Opened, BoGood
  <2> QED
    BY <2>2, <2>3
<1>10. ASSUME NEW c \in Live(p)' PROVE Owns(p, c)'
  <2>1. CASE c = b
    BY <1>2, <1>3, <2>1 DEF Owns, Opened
  <2>2. CASE c # b
    <3>1. c \in Live(p) /\ Owns(p, c) /\ buf'[p][c] = buf[p][c]
      BY <1>3, <1>6, <1>8, <2>2 DEF Good
    <3>2. buf[p][c].bo \in Handle /\ buf[p][c].bo \in Slot
      BY <3>1 DEF Owns, Slot
    <3>3. buf[p][c].bo = h => res[p][h] = o
      BY <1>6, <3>1 DEF Opened, Owns, Live
    <3>4. res'[p][buf[p][c].bo] = res[p][buf[p][c].bo]
      BY <3>2, <3>3 DEF Opened
    <3>5. /\ bo'[p][buf[p][c].bo].cached = bo[p][buf[p][c].bo].cached
          /\ bo[p][buf[p][c].bo].reusable => bo'[p][buf[p][c].bo].reusable
      BY <3>2 DEF Opened
    <3> QED
      BY <3>1, <3>4, <3>5 DEF Owns
  <2> QED
    BY <2>1, <2>2
<1>11. Keeps(p)'
  <2>1. \A s \in held[p] : s \in Slot \ {h}
    BY DEF IInv, TypeOK, Opened, Slot
  <2> QED
    BY <1>1, <1>7, <1>8, <2>1 DEF Good, Keeps, Opened
<1>12. CaredFor(p)'
  <2> SUFFICES ASSUME NEW s \in Slot, res'[p][s] # None
               PROVE  \/ s \in held[p] \cup kept'[p]
                      \/ \E c \in Live(p)' : buf'[p][c].bo = s
    BY <1>1 DEF CaredFor
  <2>1. CASE s = h
    BY <1>2, <1>3, <1>6, <2>1
  <2>2. CASE s # h
    <3>1. res[p][s] # None /\ (s \in kept[p] => s \in kept'[p])
      BY <2>2 DEF Opened
    <3>2. s \in held[p] \cup kept[p] \/ \E c \in Live(p) : buf[p][c].bo = s
      BY <1>8, <3>1 DEF Good, CaredFor
    <3> QED
      BY <1>1, <1>3, <1>6, <3>1, <3>2
  <2> QED
    BY <2>1, <2>2
<1>13. Counts(p)'
  <2>1. Cardinality(Live(p)') = Cardinality(Live(p)) + 1
    BY <1>1, <1>6, Finite, FS_AddElement
  <2> QED
    BY <1>1, <1>4, <1>8, <2>1 DEF Good, Counts
<1>14. Single(p)'
  <2> SUFFICES ASSUME NEW c \in Live(p)', NEW d \in Live(p)', c # d,
                      buf'[p][c].created, buf'[p][d].created
               PROVE  buf'[p][c].bo # buf'[p][d].bo
    BY DEF Single
  <2>1. ASSUME NEW e \in Live(p)', e # b
        PROVE  e \in Live(p) /\ buf'[p][e] = buf[p][e]
    BY <1>3, <1>6, <2>1
  <2>2. ASSUME NEW e \in Live(p)', e # b, created PROVE buf'[p][e].bo # h
    BY <2>1, <2>2 DEF Opened, Users
  <2>3. buf'[p][b].bo = h /\ buf'[p][b].created = created
    BY <1>2, <1>3
  <2>4. CASE c = b \/ d = b
    BY <2>2, <2>3, <2>4
  <2>5. CASE c # b /\ d # b
    BY <1>8, <2>1, <2>5 DEF Good, Single
  <2> QED
    BY <2>4, <2>5
<1>15. Good(p)'
  BY <1>1, <1>9, <1>10, <1>11, <1>12, <1>13, <1>14 DEF Good
<1> QED
  BY <1>1, <1>3, <1>4, <1>5, <1>15, OneProcess DEF Opened

\* An entry that makes a surface b opens a bo on an object for it.
Makes(p, b) ==
  \E o \in Obj, h \in Handle, fd \in Fd \cup {None}, created \in BOOLEAN,
     scanout \in BOOLEAN :
    Opened(p, h, o, created) /\ MakeBuffer(p, b, o, h, fd, created, scanout)

\* create_buffer() does.
LEMMA CreateBufferMakes ==
  ASSUME IInv, NEW p \in Proc, NEW b \in Buf, CreateBuffer(p, b)
  PROVE  Makes(p, b)
<1>1. PICK o \in Obj, h \in Handle, scanout \in Scanout :
        AllocBo(p, h, o) /\ MakeBuffer(p, b, o, h, None, TRUE, scanout)
  BY DEF CreateBuffer
<1>2. scanout \in BOOLEAN /\ None \in Fd \cup {None} /\ TRUE \in BOOLEAN
  BY BufAssumption
<1> QED
  BY <1>1, <1>2, AllocOpens DEF Makes

\* create_buffer_from_handle() does.
LEMMA FromHandleMakes ==
  ASSUME IInv, NEW p \in Proc, NEW b \in Buf, CreateBufferFromHandle(p, b)
  PROVE  Makes(p, b)
<1>1. PICK handle \in held[p] \cup {buf[p][c].bo : c \in Live(p)}, h \in Handle :
        /\ handle \in Handle
        /\ OpenName(p, h, res[p][handle])
        /\ MakeBuffer(p, b, res[p][handle], h, None, FALSE, FALSE)
  BY DEF CreateBufferFromHandle, CreateBoFromHandle
<1>2. PICK o \in Obj : o = res[p][handle]
  <2>1. res[p][handle] # None
    <3>1. CASE handle \in held[p]
      BY <3>1 DEF IInv, Good, Keeps
    <3>2. CASE handle \notin held[p]
      <4>1. PICK c \in Live(p) : handle = buf[p][c].bo
        BY <3>2
      <4> QED
        BY <4>1 DEF IInv, Good, Owns, Live
    <3> QED
      BY <3>1, <3>2
  <2> QED
    BY <1>1, <2>1 DEF IInv, TypeOK, ResType, Slot
<1>3. None \in Fd \cup {None} /\ FALSE \in BOOLEAN
  OBVIOUS
<1> QED
  BY <1>1, <1>2, <1>3, NameOpens DEF Makes

\* create_buffer_from_name() does.
LEMMA FromNameMakes ==
  ASSUME IInv, NEW p \in Proc, NEW b \in Buf, CreateBufferFromName(p, b)
  PROVE  Makes(p, b)
<1>1. PICK o \in Named, h \in Handle :
        OpenName(p, h, o) /\ MakeBuffer(p, b, o, h, None, FALSE, FALSE)
  BY DEF CreateBufferFromName
<1>2. o \in Obj /\ None \in Fd \cup {None} /\ FALSE \in BOOLEAN
  BY DEF Named
<1> QED
  BY <1>1, <1>2, NameOpens DEF Makes

\* create_buffer_from_prime_fd() does, if it finds no bo that is kept.
LEMMA FromPrimeFdMakes ==
  ASSUME IInv, ~Reimports, NEW p \in Proc, NEW b \in Buf, CreateBufferFromPrimeFd(p, b)
  PROVE  Makes(p, b)
<1>1. PICK fd \in held[p] \cap Fd, h \in Handle :
        /\ \A g \in kept[p] \cap primed[p] : res[p][g] # res[p][fd]
        /\ OpenPrime(p, h, res[p][fd])
        /\ MakeBuffer(p, b, res[p][fd], h, fd, FALSE, FALSE)
  BY DEF CreateBufferFromPrimeFd
<1>2. PICK o \in Obj : o = res[p][fd]
  <2>1. res[p][fd] # None
    BY DEF IInv, Good, Keeps
  <2> QED
    BY <2>1 DEF IInv, TypeOK, ResType, Slot
<1>3. fd \in Fd \cup {None} /\ FALSE \in BOOLEAN
  OBVIOUS
<1> QED
  BY <1>1, <1>2, <1>3, PrimeOpens DEF Makes

\* So all of them keep the invariant.
LEMMA MakesStep ==
  ASSUME IInv, NEW p \in Proc, NEW b \in Buf, Makes(p, b)
  PROVE  IInv'
BY MakeBufferStep DEF Makes

-----------------------------------------------------------------------------
(* The other entries.                                                      *)

\* A new address in a surface changes nothing else of it.
LEMMA BuffChanges ==
  ASSUME IInv, NEW p \in Proc, NEW b \in Buf, NEW v \in Way \cup {None},
         buf' = [buf EXCEPT ![p][b].buff = v]
  PROVE  /\ buf' \in [Proc -> [Buf -> SurfaceRecord]]
         /\ \A c \in Buf : /\ buf'[p][c].obj = buf[p][c].obj
                           /\ buf'[p][c].bo = buf[p][c].bo
                           /\ buf'[p][c].created = buf[p][c].created
         /\ buf'[p][b].buff = v
         /\ \A c \in Buf \ {b} : buf'[p][c] = buf[p][c]
         /\ \A q \in Proc \ {p} : buf'[q] = buf[q]
         /\ Live(p)' = Live(p)
         /\ \A h \in Handle : Users(p, h)' = Users(p, h)
<1> DEFINE r == buf[p][b]
           m == [r EXCEPT !.buff = v]
<1>1. r \in SurfaceRecord /\ buf \in [Proc -> [Buf -> SurfaceRecord]]
  BY Records DEF IInv
<1>2. /\ m \in SurfaceRecord /\ m.obj = r.obj /\ m.bo = r.bo /\ m.buff = v
      /\ m.created = r.created
  <2> HIDE DEF r
  <2> QED
    BY <1>1 DEF SurfaceRecord
<1>3. buf' = [buf EXCEPT ![p][b] = m]
  BY <1>1
<1> HIDE DEF m
<1>4. /\ buf' \in [Proc -> [Buf -> SurfaceRecord]] /\ buf'[p][b] = m
      /\ \A c \in Buf \ {b} : buf'[p][c] = buf[p][c]
      /\ \A q \in Proc \ {p} : buf'[q] = buf[q]
  BY <1>1, <1>2, <1>3
<1>5. \A c \in Buf : /\ buf'[p][c].obj = buf[p][c].obj
                     /\ buf'[p][c].bo = buf[p][c].bo
                     /\ buf'[p][c].created = buf[p][c].created
  BY <1>2, <1>4
<1>6. Live(p)' = Live(p)
  BY <1>5 DEF Live
<1>7. \A h \in Handle : Users(p, h)' = Users(p, h)
  BY <1>5, <1>6 DEF Users, Live
<1> QED
  BY <1>2, <1>4, <1>5, <1>6, <1>7

\* If a surface gets or loses an address and its bo a map, it is enough to look
\* at the two.
LEMMA MapStep ==
  ASSUME IInv, NEW p \in Proc, NEW b \in Buf, NEW h \in Handle,
         b \in Live(p), h = buf[p][b].bo,
         NEW n \in BoRecord, NEW v \in Way \cup {None},
         buf' = [buf EXCEPT ![p][b].buff = v],
         bo' = [bo EXCEPT ![p][h] = n],
         UNCHANGED <<res, primed, kept, up, nr_buffers, warned, held>>,
         bo[p][h].cached \subseteq n.cached, n.reusable = bo[p][h].reusable,
         v # None => v \in n.cached,
         BoGood(p, h)'
  PROVE  IInv'
<1>1. Good(p) /\ Live(p) \subseteq Buf
  BY DEF Live, IInv
<1>2. /\ bo' \in [Proc -> [Handle -> BoRecord]] /\ bo'[p][h] = n
      /\ \A g \in Handle \ {h} : bo'[p][g] = bo[p][g]
      /\ \A q \in Proc \ {p} : bo'[q] = bo[q]
  <2>1. bo \in [Proc -> [Handle -> BoRecord]]
    BY Records DEF IInv
  <2> QED
    BY <2>1
<1>3. /\ buf' \in [Proc -> [Buf -> SurfaceRecord]]
      /\ \A c \in Buf : /\ buf'[p][c].obj = buf[p][c].obj
                        /\ buf'[p][c].bo = buf[p][c].bo
                        /\ buf'[p][c].created = buf[p][c].created
      /\ buf'[p][b].buff = v
      /\ \A c \in Buf \ {b} : buf'[p][c] = buf[p][c]
      /\ \A q \in Proc \ {p} : buf'[q] = buf[q]
      /\ Live(p)' = Live(p)
      /\ \A g \in Handle : Users(p, g)' = Users(p, g)
  <2>1. /\ buf' \in [Proc -> [Buf -> SurfaceRecord]]
        /\ \A q \in Proc \ {p} : buf'[q] = buf[q]
    BY BuffChanges
  <2>2. buf'[p][b].buff = v /\ \A c \in Buf \ {b} : buf'[p][c] = buf[p][c]
    <3>1. buf \in [Proc -> [Buf -> SurfaceRecord]]
      BY Records DEF IInv
    <3> QED
      BY <3>1 DEF SurfaceRecord
  <2>3. Live(p)' = Live(p) /\ \A g \in Handle : Users(p, g)' = Users(p, g)
    BY BuffChanges
  <2>4. \A c \in Buf : /\ buf'[p][c].obj = buf[p][c].obj
                      /\ buf'[p][c].bo = buf[p][c].bo
                      /\ buf'[p][c].created = buf[p][c].created
    BY BuffChanges
  <2> QED
    BY <2>1, <2>2, <2>3, <2>4
<1>4. TypeOK'
  BY <1>2, <1>3 DEF IInv, TypeOK, ResType, BoType, BoRecord, SurfaceRecord
<1>5. ASSUME NEW g \in Handle PROVE BoGood(p, g)'
  <2>1. CASE g = h
    BY <2>1
  <2>2. CASE g # h
    <3>1. b \notin Users(p, g) /\ Users(p, g) \subseteq Buf
      BY <2>2 DEF Users, Live
    <3>2. Mapped(p, g)' = Mapped(p, g)
      BY <1>3, <3>1 DEF Mapped
    <3> QED
      BY <1>1, <1>2, <1>3, <2>2, <3>2, SameBo DEF Good
  <2> QED
    BY <2>1, <2>2
<1>6. ASSUME NEW c \in Live(p) PROVE Owns(p, c)'
  <2>1. Owns(p, c) /\ c \in Buf
    BY <1>1, <1>3 DEF Good
  <2>2. /\ bo[p][buf[p][c].bo].cached \subseteq bo'[p][buf[p][c].bo].cached
        /\ bo[p][buf[p][c].bo].reusable => bo'[p][buf[p][c].bo].reusable
    BY <1>2, <2>1 DEF Owns
  <2>3. buf'[p][c].buff # None => buf'[p][c].buff \in bo'[p][buf[p][c].bo].cached
    <3>1. CASE c = b
      BY <1>2, <1>3, <3>1
    <3>2. CASE c # b
      BY <1>3, <2>1, <2>2, <3>2 DEF Owns
    <3> QED
      BY <3>1, <3>2
  <2>4. /\ buf'[p][c].bo = buf[p][c].bo /\ buf'[p][c].obj = buf[p][c].obj
        /\ buf'[p][c].created = buf[p][c].created
    BY <1>3, <2>1
  <2> QED
    BY <2>1, <2>2, <2>3, <2>4 DEF Owns
<1>7. Keeps(p)'
  BY <1>1, <1>3 DEF Good, Keeps
<1>8. CaredFor(p)'
  BY <1>1, <1>3 DEF Good, CaredFor
<1>9. Counts(p)'
  BY <1>1, <1>3 DEF Good, Counts
<1>10. Single(p)' /\ (up'[p] \/ kept'[p] = {})
  BY <1>1, <1>3 DEF Good, Single
<1>11. Good(p)'
  BY <1>3, <1>5, <1>6, <1>7, <1>8, <1>9, <1>10 DEF Good
<1>12. Apart'
  <2>1. \A q \in Proc, g \in Handle : bo'[q][g].reusable => bo[q][g].reusable
    BY <1>2
  <2> QED
    BY <2>1, ApartStays DEF IInv
<1> QED
  BY <1>2, <1>3, <1>4, <1>11, <1>12, OneProcess

\* map_buffer() keeps the invariant, whether the map call fails or not.
LEMMA MapBufferStep ==
  ASSUME IInv, NEW p \in Proc, NEW b \in Buf, MapBuffer(p, b)
  PROVE  IInv'
<1>0. PICK h \in Handle : h = buf[p][b].bo
  BY DEF IInv, Good, Owns, MapBuffer
<1> DEFINE r == bo[p][h]
           way == MapWay(buf[p][b])
<1>1. PICK ok \in BOOLEAN :
        /\ up[p] /\ b \in Live(p) /\ buf[p][b].buff = None
        /\ bo' = [bo EXCEPT ![p][h] = MappedBo(@, way, ok)]
        /\ buf' = [buf EXCEPT ![p][b].buff = bo'[p][h].virtual]
        /\ UNCHANGED <<res, primed, kept, up, nr_buffers, warned, held>>
  BY <1>0 DEF MapBuffer
<1> DEFINE n == MappedBo(r, way, ok)
<1>2. /\ r \in BoRecord /\ BoGood(p, h) /\ way \in Way
      /\ bo \in [Proc -> [Handle -> BoRecord]]
  BY Records DEF IInv, Good, MapWay, Way
<1>3. \/ n = r
      \/ /\ n \in BoRecord /\ n.refs = r.refs /\ n.maps = r.maps + 1
         /\ n.virtual = way /\ n.cached = r.cached \cup {way}
         /\ n.named = r.named /\ n.reusable = r.reusable
  <2> HIDE DEF r, way
  <2> QED
    BY <1>2, MappedBoIsBo
<1>4. bo' = [bo EXCEPT ![p][h] = n]
  BY <1>1, <1>2
<1> HIDE DEF n, way
<1>5. /\ n \in BoRecord /\ bo'[p][h] = n /\ n.refs = r.refs
      /\ n.named = r.named /\ n.reusable = r.reusable
  BY <1>2, <1>3, <1>4, BoChanges
<1>6. PICK v \in Way \cup {None} :
        v = n.virtual /\ buf' = [buf EXCEPT ![p][b].buff = v]
  BY <1>1, <1>5 DEF BoRecord
<1>7. /\ r.cached \subseteq n.cached
      /\ v # None => v \in n.cached
      /\ n.maps = 0 => v = None
  <2>1. CASE n = r
    BY <1>2, <1>6, <2>1 DEF BoGood
  <2>2. CASE n # r
    BY <1>2, <1>3, <1>6, <2>2 DEF BoRecord
  <2> QED
    BY <2>1, <2>2
<1>8. Users(p, h)' = Users(p, h) /\ b \in Users(p, h)
  <2>1. b \in Users(p, h)
    BY <1>0, <1>1 DEF Users
  <2> QED
    BY <1>6, <2>1, BuffChanges
<1>9. Mapped(p, h)' = IF v = None THEN Mapped(p, h) ELSE Mapped(p, h) \cup {b}
  <2>1. /\ buf'[p][b].buff = v
        /\ \A c \in Users(p, h) \ {b} : buf'[p][c].buff = buf[p][c].buff
    <3>1. Users(p, h) \subseteq Buf
      BY DEF Users, Live
    <3>2. buf'[p][b].buff = v /\ \A c \in Buf \ {b} : buf'[p][c] = buf[p][c]
      BY <1>6, BuffChanges
    <3> QED
      BY <3>1, <3>2
  <2>2. Mapped(p, h)' = {c \in Users(p, h) : buf'[p][c].buff # None}
    BY <1>8 DEF Mapped
  <2> QED
    BY <1>1, <1>8, <2>1, <2>2 DEF Mapped
<1>10. n.maps <= Cardinality(Mapped(p, h)')
  <2>1. b \notin Mapped(p, h)
    BY <1>1 DEF Mapped
  <2>2. Cardinality(Mapped(p, h) \cup {b}) = Cardinality(Mapped(p, h)) + 1
    BY <2>1, Finite, FS_AddElement
  <2>3. r.maps <= Cardinality(Mapped(p, h)) /\ r.maps \in Nat
    BY <1>2 DEF BoGood, BoRecord
  <2>4. Cardinality(Mapped(p, h)) \in Nat
    BY Finite
  <2>5. CASE n = r
    BY <1>9, <2>2, <2>3, <2>4, <2>5
  <2>6. CASE n # r
    <3>1. v # None /\ n.maps = r.maps + 1
      BY <1>2, <1>3, <1>6, <2>6, WayAssumption
    <3> QED
      BY <1>9, <2>2, <2>3, <2>4, <3>1
  <2> QED
    BY <2>5, <2>6
<1>11. BoGood(p, h)'
  <2>1. Users(p, h) # {}
    BY <1>8
  <2> QED
    <3>1. n.refs = Cardinality(Users(p, h)') /\ Users(p, h)' # {}
      BY <1>2, <1>5, <1>8, <2>1 DEF BoGood
    <3>2. /\ n.maps = 0 => n.virtual = None
          /\ n.virtual # None => n.virtual \in n.cached
      <4>1. v = n.virtual
        BY <1>6
      <4> QED
        BY <1>7, <4>1
    <3>3. h \notin kept'[p] /\ (n.reusable => ~n.named)
      BY <1>1, <1>2, <1>5, <2>1 DEF BoGood
    <3> QED
      BY <1>5, <1>10, <3>1, <3>2, <3>3 DEF BoGood
<1>12. /\ b \in Live(p)
       /\ UNCHANGED <<res, primed, kept, up, nr_buffers, warned, held>>
  BY <1>1
<1>13. buf' = [buf EXCEPT ![p][b].buff = v]
  BY <1>6
<1>14. n \in BoRecord /\ bo[p][h].cached \subseteq n.cached
       /\ n.reusable = bo[p][h].reusable /\ (v # None => v \in n.cached)
  BY <1>5, <1>7
<1> HIDE DEF r
<1> QED
  BY <1>0, <1>4, <1>11, <1>12, <1>13, <1>14, MapStep

\* unmap_buffer() keeps the invariant.
LEMMA UnmapBufferStep ==
  ASSUME IInv, NEW p \in Proc, NEW b \in Buf, UnmapBuffer(p, b)
  PROVE  IInv'
<1>0. PICK h \in Handle : h = buf[p][b].bo
  BY DEF IInv, Good, Owns, UnmapBuffer
<1> DEFINE r == bo[p][h]
           n == UnmappedBo(r)
<1>1. /\ up[p] /\ b \in Live(p) /\ buf[p][b].buff # None
      /\ bo' = [bo EXCEPT ![p][h] = UnmappedBo(@)]
      /\ buf' = [buf EXCEPT ![p][b].buff = None]
      /\ UNCHANGED <<res, primed, kept, up, nr_buffers, warned, held>>
  BY <1>0 DEF UnmapBuffer
<1>2. /\ r \in BoRecord /\ BoGood(p, h)
      /\ bo \in [Proc -> [Handle -> BoRecord]]
  BY Records DEF IInv, Good
<1>3. /\ n \in BoRecord /\ n.refs = r.refs /\ n.cached = r.cached
      /\ n.maps = IF r.maps = 0 THEN 0 ELSE r.maps - 1
      /\ n.virtual = IF r.maps = 1 THEN None ELSE r.virtual
      /\ n.named = r.named /\ n.reusable = r.reusable
  <2> HIDE DEF r
  <2> QED
    BY <1>2, UnmappedBoIsBo
<1>4. bo' = [bo EXCEPT ![p][h] = n]
  BY <1>1, <1>2
<1> HIDE DEF n
<1>5. bo'[p][h] = n
  BY <1>2, <1>3, <1>4, BoChanges
<1>6. Users(p, h)' = Users(p, h) /\ b \in Users(p, h)
  <2>1. b \in Users(p, h)
    BY <1>0, <1>1 DEF Users
  <2> QED
    BY <1>1, <2>1, BuffChanges
<1>7. Mapped(p, h)' = Mapped(p, h) \ {b}
  <2>1. /\ buf'[p][b].buff = None
        /\ \A c \in Users(p, h) \ {b} : buf'[p][c].buff = buf[p][c].buff
    <3>1. Users(p, h) \subseteq Buf
      BY DEF Users, Live
    <3>2. buf'[p][b].buff = None /\ \A c \in Buf \ {b} : buf'[p][c] = buf[p][c]
      <4>1. /\ buf' = [buf EXCEPT ![p][b].buff = None]
            /\ None \in Way \cup {None}
        BY <1>1
      <4> QED
        BY <4>1, BuffChanges
    <3> QED
      BY <3>1, <3>2
  <2>2. Mapped(p, h)' = {c \in Users(p, h) : buf'[p][c].buff # None}
    BY <1>6 DEF Mapped
  <2> QED
    BY <1>6, <2>1, <2>2 DEF Mapped
<1>8. n.maps <= Cardinality(Mapped(p, h)')
  <2>1. b \in Mapped(p, h)
    BY <1>1, <1>6 DEF Mapped
  <2>2. Cardinality(Mapped(p, h)') = Cardinality(Mapped(p, h)) - 1
    BY <1>7, <2>1, Finite, FS_RemoveElement
  <2>3. Cardinality(Mapped(p, h)) \in Nat /\ Cardinality(Mapped(p, h)) # 0
    BY <2>1, Finite, FS_EmptySet
  <2>4. r.maps <= Cardinality(Mapped(p, h)) /\ r.maps \in Nat
    BY <1>2 DEF BoGood, BoRecord
  <2> QED
    BY <1>3, <2>2, <2>3, <2>4
<1>9. BoGood(p, h)'
  <2>1. Users(p, h) # {}
    BY <1>6
  <2>2. n.maps = 0 => n.virtual = None
    BY <1>2, <1>3 DEF BoGood, BoRecord
  <2>3. h \notin kept'[p] /\ (n.reusable => ~n.named)
    BY <1>1, <1>2, <1>3, <2>1 DEF BoGood
  <2> QED
    BY <1>2, <1>3, <1>5, <1>6, <1>8, <2>1, <2>2, <2>3 DEF BoGood
<1> QED
  BY <1>0, <1>1, <1>3, <1>4, <1>9, MapStep

\* What a surface that goes leaves of its bo before the reference is dropped.
LEMMA UnmappedIfMapped ==
  ASSUME IInv, NEW p \in Proc, NEW b \in Buf, b \in Live(p), NEW h \in Handle,
         h = buf[p][b].bo, NEW n,
         n = IF buf[p][b].buff # None THEN UnmappedBo(bo[p][h]) ELSE bo[p][h]
  PROVE  /\ n \in BoRecord /\ n.refs = bo[p][h].refs /\ n.cached = bo[p][h].cached
         /\ n.named = bo[p][h].named /\ n.reusable = bo[p][h].reusable
         /\ n.maps <= Cardinality(Mapped(p, h) \ {b})
         /\ n.maps = 0 => n.virtual = None
         /\ n.virtual # None => n.virtual \in n.cached
<1>1. PICK r \in BoRecord : r = bo[p][h]
  BY Records DEF IInv
<1>2. BoGood(p, h)
  BY DEF IInv, Good
<1>3. /\ r.maps <= Cardinality(Mapped(p, h)) /\ r.maps \in Nat
      /\ r.maps = 0 => r.virtual = None
      /\ r.virtual # None => r.virtual \in r.cached
  BY <1>1, <1>2 DEF BoGood, BoRecord
<1>4. b \in Users(p, h) /\ Cardinality(Mapped(p, h)) \in Nat
  BY Finite DEF Users
<1>5. CASE buf[p][b].buff = None
  <2>1. Mapped(p, h) \ {b} = Mapped(p, h)
    BY <1>5 DEF Mapped
  <2> QED
    BY <1>1, <1>3, <1>5, <2>1
<1>6. CASE buf[p][b].buff # None
  <2>1. b \in Mapped(p, h)
    BY <1>4, <1>6 DEF Mapped
  <2>2. Cardinality(Mapped(p, h) \ {b}) = Cardinality(Mapped(p, h)) - 1
    <3>1. IsFiniteSet(Mapped(p, h))
      BY Finite
    <3> QED
      BY <2>1, <3>1, FS_RemoveElement
  <2>3. Cardinality(Mapped(p, h)) # 0
    BY <2>1, Finite, FS_EmptySet
  <2>4. /\ n \in BoRecord /\ n.refs = r.refs /\ n.cached = r.cached
        /\ n.maps = IF r.maps = 0 THEN 0 ELSE r.maps - 1
        /\ n.virtual = IF r.maps = 1 THEN None ELSE r.virtual
        /\ n.named = r.named /\ n.reusable = r.reusable
    BY <1>1, <1>6, UnmappedBoIsBo
  <2>5. n.maps <= Cardinality(Mapped(p, h) \ {b})
    BY <1>3, <1>4, <2>2, <2>3, <2>4
  <2>6. n.maps = 0 => n.virtual = None
    BY <1>3, <2>4
  <2>7. n.virtual # None => n.virtual \in n.cached
    BY <1>3, <2>4
  <2> QED
    BY <1>1, <2>4, <2>5, <2>6, <2>7
<1> QED
  BY <1>5, <1>6

\* What is left of the bo after that, if there are no other users: nothing, or
\* a bo that is kept; and otherwise a bo with a user less.
Freed(p, h) ==
  /\ res'[p][h] = None /\ bo'[p][h] = NoBo /\ h \notin primed'[p]
  /\ kept'[p] = kept[p]

SetAside(p, h) ==
  /\ res'[p][h] = res[p][h] /\ kept'[p] = kept[p] \cup {h}
  /\ LET n == bo'[p][h] IN
     n.refs = 0 /\ n.maps = 0 /\ n.virtual = None /\ n.reusable /\ ~n.named

UsedLess(p, h, b) ==
  /\ res'[p][h] = res[p][h] /\ kept'[p] = kept[p]
  /\ LET r == bo[p][h]
         n == bo'[p][h] IN
     /\ n.refs = r.refs - 1 /\ n.cached = r.cached
     /\ n.named = r.named /\ n.reusable = r.reusable
     /\ n.maps <= Cardinality(Mapped(p, h) \ {b})
     /\ n.maps = 0 => n.virtual = None
     /\ n.virtual # None => n.virtual \in n.cached

Left(p, h, b) ==
  /\ ResType' /\ BoType' /\ Apart'
  /\ IF Users(p, h) \ {b} = {} THEN Freed(p, h) \/ SetAside(p, h)
                               ELSE UsedLess(p, h, b)
  /\ \A s \in Slot \ {h} : res'[p][s] = res[p][s]
  /\ \A g \in Handle \ {h} :
       bo'[p][g] = bo[p][g] /\ (g \in primed'[p] <=> g \in primed[p])
  /\ \A q \in Proc \ {p} :
       /\ res'[q] = res[q] /\ bo'[q] = bo[q] /\ primed'[q] = primed[q]
       /\ kept'[q] = kept[q]

\* Bos without users are freed: others stay as they are.
LEMMA FreedBos ==
  ASSUME IInv, NEW p \in Proc, NEW H \in SUBSET Handle, FreeBos(p, H)
  PROVE  /\ ResType' /\ BoType' /\ Apart'
         /\ \A s \in Slot : res'[p][s] = IF s \in H THEN None ELSE res[p][s]
         /\ \A h \in Handle : bo'[p][h] = IF h \in H THEN NoBo ELSE bo[p][h]
         /\ primed'[p] = primed[p] \ H /\ kept'[p] = kept[p] \ H
         /\ \A q \in Proc \ {p} :
              /\ res'[q] = res[q] /\ bo'[q] = bo[q] /\ primed'[q] = primed[q]
              /\ kept'[q] = kept[q]
<1>1. /\ ResType /\ bo \in [Proc -> [Handle -> BoRecord]]
      /\ primed \in [Proc -> SUBSET Handle] /\ kept \in [Proc -> SUBSET Handle]
  BY Records DEF IInv, TypeOK, BoType
<1>2. /\ ResType'
      /\ \A s \in Slot : res'[p][s] = IF s \in H THEN None ELSE res[p][s]
      /\ \A q \in Proc \ {p} : res'[q] = res[q]
  <2>1. res' = Bind(p, H, None) /\ None \in Obj \cup {None}
    BY DEF FreeBos, Release
  <2> QED
    BY <1>1, <2>1, BindChanges
<1>3. /\ bo' \in [Proc -> [Handle -> BoRecord]]
      /\ \A h \in Handle : bo'[p][h] = IF h \in H THEN NoBo ELSE bo[p][h]
      /\ \A q \in Proc \ {p} : bo'[q] = bo[q]
  BY <1>1, NewBoIsBo DEF FreeBos
<1>4. /\ primed' \in [Proc -> SUBSET Handle] /\ kept' \in [Proc -> SUBSET Handle]
      /\ primed'[p] = primed[p] \ H /\ kept'[p] = kept[p] \ H
      /\ \A q \in Proc \ {p} : primed'[q] = primed[q] /\ kept'[q] = kept[q]
  BY <1>1 DEF FreeBos
<1>5. BoType'
  BY <1>3, <1>4 DEF BoType, BoRecord
<1>6. Apart'
  <2> SUFFICES ASSUME NEW q \in Proc, NEW h \in Handle, bo'[q][h].reusable
               PROVE  bo[q][h].reusable /\ res'[q][h] = res[q][h]
    BY ApartStays DEF IInv
  <2>1. CASE q = p
    <3>1. h \notin H
      BY <1>3, <2>1, NewBoIsBo
    <3> QED
      BY <1>2, <1>3, <2>1, <3>1 DEF Slot
  <2>2. CASE q # p
    BY <1>2, <1>3, <2>2
  <2> QED
    BY <2>1, <2>2
<1> QED
  BY <1>2, <1>3, <1>4, <1>5, <1>6

\* Letting a surface's bo go frees it, or has it kept, if it was the last.
LEMMA LetGoLeaves ==
  ASSUME IInv, NEW p \in Proc, NEW b \in Buf, b \in Live(p), NEW h \in Handle,
         h = buf[p][b].bo, LetGo(p, buf[p][b])
  PROVE  Left(p, h, b)
<1>1. PICK n : n = IF buf[p][b].buff # None THEN UnmappedBo(bo[p][h]) ELSE bo[p][h]
  OBVIOUS
<1>2. /\ n \in BoRecord /\ n.refs = bo[p][h].refs /\ n.cached = bo[p][h].cached
      /\ n.named = bo[p][h].named /\ n.reusable = bo[p][h].reusable
      /\ n.maps <= Cardinality(Mapped(p, h) \ {b})
      /\ n.maps = 0 => n.virtual = None
      /\ n.virtual # None => n.virtual \in n.cached
  <2>1. /\ n \in BoRecord /\ n.refs = bo[p][h].refs
        /\ n.cached = bo[p][h].cached /\ n.maps <= Cardinality(Mapped(p, h) \ {b})
        /\ n.maps = 0 => n.virtual = None
        /\ n.virtual # None => n.virtual \in n.cached
    BY <1>1, UnmappedIfMapped
  <2>2. n.named = bo[p][h].named /\ n.reusable = bo[p][h].reusable
    <3>1. PICK r \in BoRecord : r = bo[p][h]
      BY Records DEF IInv
    <3>2. n = r \/ n = UnmappedBo(r)
      BY <1>1, <3>1
    <3>3. n.named = r.named /\ n.reusable = r.reusable
      BY <3>2, UnmappedBoIsBo
    <3> QED
      BY <3>1, <3>3
  <2> QED
    BY <2>1, <2>2
<1>3. UnreferenceBo(p, h, n)
  BY <1>1 DEF LetGo
<1>4. /\ bo \in [Proc -> [Handle -> BoRecord]] /\ primed \in [Proc -> SUBSET Handle]
      /\ kept \in [Proc -> SUBSET Handle] /\ ResType /\ h \in Slot
  BY Records DEF IInv, TypeOK, BoType, Slot
<1>5. /\ b \in Users(p, h) /\ h \notin kept[p] /\ (n.reusable => ~n.named)
      /\ n.refs = Cardinality(Users(p, h)) /\ n.refs \in Nat
      /\ Cardinality(Users(p, h) \ {b}) = n.refs - 1
      /\ IsFiniteSet(Users(p, h) \ {b})
  <2>1. BoGood(p, h)
    BY DEF IInv, Good
  <2>2. b \in Users(p, h)
    BY DEF Users
  <2> QED
    BY <1>2, <2>1, <2>2, Finite, FS_RemoveElement DEF BoGood
<1>6. n.refs = 1 <=> Users(p, h) \ {b} = {}
  BY <1>5, FS_EmptySet
<1>7. CASE n.refs = 1 /\ FreeBos(p, {h})
  <2>1. {h} \in SUBSET Handle
    OBVIOUS
  <2>2. /\ ResType' /\ BoType' /\ Apart'
        /\ \A s \in Slot : res'[p][s] = IF s \in {h} THEN None ELSE res[p][s]
        /\ \A g \in Handle : bo'[p][g] = IF g \in {h} THEN NoBo ELSE bo[p][g]
        /\ primed'[p] = primed[p] \ {h} /\ kept'[p] = kept[p] \ {h}
        /\ \A q \in Proc \ {p} :
             /\ res'[q] = res[q] /\ bo'[q] = bo[q] /\ primed'[q] = primed[q]
             /\ kept'[q] = kept[q]
    BY <1>7, <2>1, FreedBos
  <2>3. Freed(p, h)
    BY <1>4, <1>5, <2>2 DEF Freed
  <2> QED
    BY <1>6, <1>7, <2>2, <2>3 DEF Left
<1>8. CASE n.refs = 1 /\ KeepBo(p, h, n)
  <2> DEFINE r == [n EXCEPT !.refs = 0]
             d == [r EXCEPT !.maps = 0]
  <2>1. /\ r \in BoRecord /\ r.refs = 0 /\ r.virtual = n.virtual
        /\ r.named = n.named /\ r.reusable = n.reusable
    BY <1>2, RefsChange
  <2>2. /\ n.reusable /\ bo' = [bo EXCEPT ![p][h] = d]
        /\ kept' = [kept EXCEPT ![p] = @ \cup {h}] /\ res' = res
        /\ primed' = primed
    BY <1>8 DEF KeepBo
  <2> HIDE DEF r
  <2>3. /\ d \in BoRecord /\ d.refs = 0 /\ d.maps = 0 /\ d.virtual = n.virtual
        /\ d.named = n.named /\ d.reusable = n.reusable
    BY <2>1 DEF BoRecord
  <2> HIDE DEF d
  <2>4. /\ bo' \in [Proc -> [Handle -> BoRecord]] /\ bo'[p][h] = d
        /\ \A g \in Handle \ {h} : bo'[p][g] = bo[p][g]
        /\ \A q \in Proc \ {p} : bo'[q] = bo[q]
    BY <1>4, <2>2, <2>3
  <2>5. /\ kept' \in [Proc -> SUBSET Handle] /\ kept'[p] = kept[p] \cup {h}
        /\ \A q \in Proc \ {p} : kept'[q] = kept[q]
    BY <1>4, <2>2
  <2>6. ResType' /\ BoType'
    BY <1>4, <2>2, <2>4, <2>5 DEF ResType, BoType, BoRecord
  <2>7. n.virtual = None
    <3>1. Mapped(p, h) \ {b} = {}
      BY <1>6, <1>8 DEF Mapped
    <3>2. Cardinality(Mapped(p, h) \ {b}) = 0
      BY <3>1, FS_EmptySet
    <3>3. n.maps \in Nat /\ n.maps <= 0
      BY <1>2, <3>2 DEF BoRecord
    <3> QED
      BY <1>2, <3>3
  <2>8. Apart'
    <3>1. \A q \in Proc, g \in Handle : bo'[q][g].reusable => bo[q][g].reusable
      BY <1>2, <2>3, <2>4
    <3> QED
      BY <2>2, <3>1, ApartStays DEF IInv
  <2>9. SetAside(p, h)
    BY <1>5, <2>2, <2>3, <2>4, <2>5, <2>7 DEF SetAside
  <2> QED
    BY <1>6, <1>8, <2>2, <2>4, <2>5, <2>6, <2>8, <2>9 DEF Left
<1>9. CASE n.refs # 1
  <2>1. PICK k \in Nat : k = n.refs - 1
    <3>1. n.refs # 0
      BY <1>5, Finite, FS_EmptySet
    <3> QED
      BY <1>5, <3>1
  <2>2. PICK d \in BoRecord :
          /\ d = [n EXCEPT !.refs = k]
          /\ d.refs = k /\ d.maps = n.maps /\ d.virtual = n.virtual
          /\ d.cached = n.cached /\ d.named = n.named /\ d.reusable = n.reusable
    BY <1>2, RefsChange
  <2>3. /\ bo' = [bo EXCEPT ![p][h] = d] /\ res' = res /\ primed' = primed
        /\ kept' = kept
    BY <1>3, <1>9, <2>1, <2>2 DEF UnreferenceBo
  <2>4. /\ bo' \in [Proc -> [Handle -> BoRecord]] /\ bo'[p][h] = d
        /\ \A g \in Handle \ {h} : bo'[p][g] = bo[p][g]
        /\ \A q \in Proc \ {p} : bo'[q] = bo[q]
    BY <1>4, <2>3
  <2>5. ResType' /\ BoType'
    BY <1>4, <2>3, <2>4 DEF ResType, BoType, BoRecord, IInv, TypeOK
  <2>6. /\ d.refs = bo[p][h].refs - 1 /\ d.cached = bo[p][h].cached
        /\ d.maps <= Cardinality(Mapped(p, h) \ {b})
        /\ d.maps = 0 => d.virtual = None
        /\ d.virtual # None => d.virtual \in d.cached
        /\ d.named = bo[p][h].named /\ d.reusable = bo[p][h].reusable
    BY <1>2, <2>1, <2>2
  <2>7. Apart'
    <3>1. \A q \in Proc, g \in Handle : bo'[q][g].reusable => bo[q][g].reusable
      BY <2>4, <2>6
    <3> QED
      BY <2>3, <3>1, ApartStays DEF IInv
  <2>8. UsedLess(p, h, b)
    BY <2>3, <2>4, <2>6 DEF UsedLess
  <2> QED
    BY <1>6, <1>9, <2>3, <2>4, <2>5, <2>7, <2>8 DEF Left
<1> QED
  BY <1>3, <1>7, <1>8, <1>9 DEF UnreferenceBo

\* destroy_buffer() keeps the invariant.
LEMMA DestroyBufferStep ==
  ASSUME IInv, NEW p \in Proc, NEW b \in Buf, DestroyBuffer(p, b)
  PROVE  IInv'
<1>1. /\ up[p] /\ b \in Live(p)
      /\ LetGo(p, buf[p][b])
      /\ buf' = [buf EXCEPT ![p][b] = NoBuffer]
      /\ nr_buffers' = [nr_buffers EXCEPT ![p] = @ - 1]
      /\ UNCHANGED <<up, warned, held>>
  BY DEF DestroyBuffer, DiscountBuffer
<1>2. PICK h \in Handle : h = buf[p][b].bo
  BY <1>1 DEF IInv, Good, Owns
<1>3. Left(p, h, b)
  BY <1>1, <1>2, LetGoLeaves
<1>4. NoBuffer \in SurfaceRecord /\ NoBuffer.obj = None
  BY DEF NoBuffer, SurfaceRecord
<1>5. /\ buf' \in [Proc -> [Buf -> SurfaceRecord]] /\ buf'[p][b].obj = None
      /\ \A c \in Buf \ {b} : buf'[p][c] = buf[p][c]
      /\ \A q \in Proc \ {p} : buf'[q] = buf[q]
  BY <1>1, <1>4, Records DEF IInv
<1>6. Live(p)' = Live(p) \ {b} /\ Live(p) \subseteq Buf
  BY <1>5 DEF Live
<1>7. Good(p) /\ nr_buffers[p] = Cardinality(Live(p)) /\ ~warned[p]
  BY <1>1 DEF IInv, Good, Counts
<1>8. /\ Cardinality(Live(p)') = Cardinality(Live(p)) - 1
      /\ Cardinality(Live(p)) \in Nat /\ Cardinality(Live(p)) # 0
  BY <1>1, <1>6, Finite, FS_RemoveElement, FS_EmptySet
<1>9. /\ nr_buffers' \in [Proc -> Nat] /\ nr_buffers'[p] = nr_buffers[p] - 1
      /\ \A q \in Proc \ {p} : nr_buffers'[q] = nr_buffers[q]
  <2>1. nr_buffers \in [Proc -> Nat] /\ nr_buffers[p] # 0
    BY <1>7, <1>8 DEF IInv, TypeOK
  <2>2. nr_buffers[p] - 1 \in Nat
    BY <2>1
  <2> QED
    BY <1>1, <2>1, <2>2
<1>10. TypeOK'
  BY <1>1, <1>3, <1>5, <1>9 DEF IInv, TypeOK, Left, SurfaceRecord
<1>11. /\ \A g \in Handle : /\ Users(p, g)' = Users(p, g) \ {b}
                            /\ Mapped(p, g)' = Mapped(p, g) \ {b}
       /\ b \in Users(p, h) /\ \A g \in Handle \ {h} : b \notin Users(p, g)
  <2>1. \A g \in Handle : Users(p, g)' = Users(p, g) \ {b}
    BY <1>5, <1>6 DEF Users
  <2>2. ASSUME NEW g \in Handle PROVE Mapped(p, g)' = Mapped(p, g) \ {b}
    <3>1. \A c \in Users(p, g) \ {b} : buf'[p][c] = buf[p][c]
      BY <1>5, <1>6 DEF Users
    <3>2. Mapped(p, g)' = {c \in Users(p, g)' : buf'[p][c].buff # None}
      BY DEF Mapped
    <3> QED
      BY <2>1, <3>1, <3>2 DEF Mapped
  <2> QED
    BY <1>1, <1>2, <2>1, <2>2 DEF Users
<1>12. h \notin kept[p] /\ res[p][h] # None
  BY <1>1, <1>2, <1>7, <1>11 DEF Good, BoGood, Owns, Live
<1>13. ASSUME NEW g \in Handle PROVE BoGood(p, g)'
  <2>1. BoGood(p, g)
    BY <1>7 DEF Good
  <2>2. CASE g # h
    <3>1. Users(p, g)' = Users(p, g) /\ Mapped(p, g)' = Mapped(p, g)
      <4>1. b \notin Users(p, g)
        BY <1>11, <2>2
      <4>2. b \notin Mapped(p, g)
        BY <4>1 DEF Mapped
      <4> QED
        BY <1>11, <4>1, <4>2
    <3>2. /\ bo'[p][g] = bo[p][g] /\ (g \in primed'[p] <=> g \in primed[p])
          /\ res'[p][g] = res[p][g] /\ (g \in kept'[p] <=> g \in kept[p])
      BY <1>3, <2>2 DEF Left, Freed, SetAside, UsedLess, Slot
    <3> QED
      BY <2>1, <3>1, <3>2, SameBo
  <2>3. CASE g = h /\ Users(p, h) \ {b} = {}
    <3>1. Users(p, h)' = {} /\ Mapped(p, h)' = {}
      BY <1>11, <2>3 DEF Mapped
    <3>2. CASE Freed(p, h)
      BY <1>12, <2>3, <3>1, <3>2, NewBoIsBo, FS_EmptySet DEF BoGood, Freed
    <3>3. CASE SetAside(p, h)
      BY <1>12, <2>3, <3>1, <3>3, FS_EmptySet DEF BoGood, SetAside
    <3> QED
      BY <1>3, <2>3, <3>2, <3>3 DEF Left
  <2>4. CASE g = h /\ Users(p, h) \ {b} # {}
    <3>1. Cardinality(Users(p, h)') = Cardinality(Users(p, h)) - 1
      BY <1>11, Finite, FS_RemoveElement
    <3>2. bo'[p][h].refs = Cardinality(Users(p, h)') /\ Users(p, h)' # {}
      BY <1>3, <1>11, <2>1, <2>4, <3>1 DEF Left, UsedLess, BoGood
    <3>3. /\ h \notin kept'[p] /\ (bo'[p][h].reusable => ~bo'[p][h].named)
          /\ bo'[p][h].maps <= Cardinality(Mapped(p, h)')
          /\ bo'[p][h].maps = 0 => bo'[p][h].virtual = None
          /\ bo'[p][h].virtual # None => bo'[p][h].virtual \in bo'[p][h].cached
      BY <1>3, <1>11, <1>12, <2>1, <2>4 DEF Left, UsedLess, BoGood
    <3> QED
      BY <2>4, <3>2, <3>3 DEF BoGood
  <2> QED
    BY <2>2, <2>3, <2>4
<1>14. ASSUME NEW c \in Live(p)' PROVE Owns(p, c)'
  <2>1. c \in Live(p) /\ c # b /\ Owns(p, c) /\ buf'[p][c] = buf[p][c]
    BY <1>5, <1>6, <1>7 DEF Good
  <2>2. PICK g \in Handle : g = buf[p][c].bo
    BY <2>1 DEF Owns
  <2>3. g = h => Users(p, h) \ {b} # {}
    BY <2>1, <2>2 DEF Users
  <2>4. g \in Slot
    BY DEF Slot
  <2>5. /\ res'[p][g] = res[p][g] /\ bo'[p][g].cached = bo[p][g].cached
        /\ bo[p][g].reusable => bo'[p][g].reusable
    BY <1>3, <2>3, <2>4 DEF Left, UsedLess
  <2> QED
    BY <2>1, <2>2, <2>5 DEF Owns
<1>15. Keeps(p)'
  <2>1. \A s \in held[p] : s \in Slot /\ s # h
    BY <1>7, <1>11 DEF IInv, TypeOK, Good, Keeps, Slot
  <2>2. kept'[p] \subseteq kept[p] \cup {h}
    BY <1>3 DEF Left, Freed, SetAside, UsedLess
  <2> QED
    BY <1>1, <1>3, <1>7, <1>11, <2>1, <2>2 DEF Good, Keeps, Left
<1>16. CaredFor(p)'
  <2> SUFFICES ASSUME NEW s \in Slot, res'[p][s] # None
               PROVE  \/ s \in held[p] \cup kept'[p]
                      \/ \E c \in Live(p)' : buf'[p][c].bo = s
    BY <1>1 DEF CaredFor
  <2>1. kept[p] \subseteq kept'[p]
    BY <1>3 DEF Left, Freed, SetAside, UsedLess
  <2>2. CASE s = h
    <3>1. CASE Users(p, h) \ {b} = {}
      BY <1>3, <2>2, <3>1 DEF Left, Freed, SetAside
    <3>2. CASE Users(p, h) \ {b} # {}
      <4>1. PICK c \in Users(p, h) : c # b
        BY <3>2
      <4> QED
        BY <1>5, <1>6, <2>2, <4>1 DEF Users
    <3> QED
      BY <3>1, <3>2
  <2>3. CASE s # h
    <3>1. res[p][s] # None
      BY <1>3, <2>3 DEF Left
    <3>2. s \in held[p] \cup kept[p] \/ \E c \in Live(p) : buf[p][c].bo = s
      BY <1>7, <3>1 DEF Good, CaredFor
    <3> QED
      BY <1>2, <1>5, <1>6, <2>3, <2>1, <3>2
  <2> QED
    BY <2>2, <2>3
<1>17. Counts(p)'
  BY <1>1, <1>7, <1>8, <1>9 DEF Counts
<1>18. Single(p)' /\ up'[p]
  BY <1>1, <1>5, <1>6, <1>7 DEF Good, Single
<1>19. Good(p)'
  BY <1>13, <1>14, <1>15, <1>16, <1>17, <1>18 DEF Good
<1> QED
  BY <1>1, <1>3, <1>5, <1>9, <1>10, <1>19, OneProcess DEF Left

-----------------------------------------------------------------------------
(* Drivers, callers and processes.                                         *)

\* A bo that may be reused has users, or is kept.
LEMMA ReusableInUse ==
  ASSUME IInv, NEW q \in Proc, NEW h \in Handle, bo[q][h].reusable
  PROVE  Users(q, h) # {} \/ h \in kept[q]
<1>1. BoGood(q, h)
  BY DEF IInv, Good
<1> QED
  BY <1>1, NewBoIsBo DEF BoGood

\* If the surfaces and bos of a process stay as they are, all that matters is
\* who holds what is open, and the count.
LEMMA SurfacesStay ==
  ASSUME IInv, NEW p \in Proc, TypeOK', UNCHANGED <<bo, kept, buf>>,
         up[p] => up'[p],
         \A h \in Handle : h \in primed'[p] => h \in primed[p] \/ Users(p, h) # {},
         \A h \in Handle :
           Users(p, h) # {} \/ h \in kept[p] => res'[p][h] = res[p][h],
         Keeps(p)', CaredFor(p)', Counts(p)',
         \A q \in Proc \ {p} :
           /\ res'[q] = res[q] /\ primed'[q] = primed[q] /\ held'[q] = held[q]
           /\ up'[q] = up[q] /\ nr_buffers'[q] = nr_buffers[q]
           /\ warned'[q] = warned[q]
  PROVE  IInv'
<1>1. /\ Live(p)' = Live(p)
      /\ \A h \in Handle : Users(p, h)' = Users(p, h) /\ Mapped(p, h)' = Mapped(p, h)
  BY DEF Live, Users, Mapped
<1>2. Good(p)
  BY DEF IInv
<1>3. \A h \in Handle : BoGood(p, h)'
  BY <1>1, <1>2, SameBo DEF Good
<1>4. ASSUME NEW b \in Live(p)' PROVE Owns(p, b)'
  <2>1. b \in Live(p) /\ Owns(p, b)
    BY <1>1, <1>2 DEF Good
  <2>2. b \in Users(p, buf[p][b].bo) /\ buf[p][b].bo \in Handle
    BY <2>1 DEF Users, Owns
  <2>3. res'[p][buf[p][b].bo] = res[p][buf[p][b].bo]
    BY <2>2
  <2> QED
    BY <2>1, <2>3 DEF Owns
<1>5. Single(p)' /\ (up'[p] \/ kept'[p] = {})
  BY <1>1, <1>2 DEF Good, Single
<1>6. Good(p)'
  BY <1>3, <1>4, <1>5 DEF Good
<1>7. Apart'
  <2> SUFFICES ASSUME NEW q \in Proc, NEW h \in Handle, bo[q][h].reusable
               PROVE  res'[q][h] = res[q][h]
    BY ApartStays DEF IInv
  <2>1. CASE q = p
    BY <2>1, ReusableInUse
  <2>2. CASE q # p
    BY <2>2
  <2> QED
    BY <2>1, <2>2
<1> QED
  BY <1>6, <1>7, OneProcess

\* Bos that are kept can be freed.
LEMMA KeptFreed ==
  ASSUME IInv, NEW p \in Proc, NEW K \in SUBSET kept[p], FreeBos(p, K),
         UNCHANGED <<buf, held>>, TypeOK', Counts(p)', up'[p] \/ kept'[p] = {},
         \A q \in Proc \ {p} :
           /\ up'[q] = up[q] /\ nr_buffers'[q] = nr_buffers[q]
           /\ warned'[q] = warned[q]
  PROVE  IInv'
<1>1. K \in SUBSET Handle
  BY DEF IInv, TypeOK, BoType
<1>2. /\ Apart'
      /\ \A s \in Slot : res'[p][s] = IF s \in K THEN None ELSE res[p][s]
      /\ \A h \in Handle : bo'[p][h] = IF h \in K THEN NoBo ELSE bo[p][h]
      /\ primed'[p] = primed[p] \ K /\ kept'[p] = kept[p] \ K
      /\ \A q \in Proc \ {p} :
           /\ res'[q] = res[q] /\ bo'[q] = bo[q] /\ primed'[q] = primed[q]
           /\ kept'[q] = kept[q]
  BY <1>1, FreedBos
<1>3. /\ Live(p)' = Live(p)
      /\ \A h \in Handle : Users(p, h)' = Users(p, h) /\ Mapped(p, h)' = Mapped(p, h)
  BY DEF Live, Users, Mapped
<1>4. Good(p) /\ \A h \in Handle : BoGood(p, h)
  BY DEF IInv, Good
<1>5. ASSUME NEW h \in Handle PROVE BoGood(p, h)'
  <2>1. CASE h \in K
    <3>1. Users(p, h)' = {} /\ Mapped(p, h)' = {}
      <4>1. h \in kept[p] /\ BoGood(p, h)
        BY <1>4, <2>1
      <4>2. Users(p, h) = {}
        BY <4>1 DEF BoGood
      <4> QED
        BY <1>3, <4>2 DEF Mapped
    <3>2. bo'[p][h] = NoBo /\ h \notin primed'[p] /\ h \notin kept'[p]
      BY <1>2, <2>1
    <3>3. Cardinality(Users(p, h)') = 0 /\ Cardinality(Mapped(p, h)') = 0
      BY <3>1, FS_EmptySet
    <3> QED
      BY <3>1, <3>2, <3>3, NewBoIsBo DEF BoGood
  <2>2. CASE h \notin K
    <3>1. /\ bo'[p][h] = bo[p][h] /\ res'[p][h] = res[p][h]
          /\ (h \in kept'[p] <=> h \in kept[p])
          /\ (h \in primed'[p] => h \in primed[p])
      BY <1>2, <2>2 DEF Slot
    <3> QED
      BY <1>3, <1>4, <3>1, SameBo
  <2> QED
    BY <2>1, <2>2
<1>6. ASSUME NEW b \in Live(p)' PROVE Owns(p, b)'
  <2>1. b \in Live(p) /\ Owns(p, b)
    BY <1>3, <1>4 DEF Good
  <2>2. PICK h \in Handle : h = buf[p][b].bo
    BY <2>1 DEF Owns
  <2>3. h \notin kept[p] /\ h \in Slot
    BY <1>4, <2>1, <2>2 DEF BoGood, Users, Slot
  <2>4. bo'[p][h] = bo[p][h] /\ res'[p][h] = res[p][h]
    BY <1>2, <2>3
  <2> QED
    BY <2>1, <2>2, <2>4 DEF Owns
<1>7. Keeps(p)'
  <2>1. \A s \in held[p] : s \in Slot
    BY DEF IInv, TypeOK, Slot
  <2> QED
    BY <1>2, <1>3, <1>4, <2>1 DEF Good, Keeps
<1>8. CaredFor(p)'
  <2> SUFFICES ASSUME NEW s \in Slot, res'[p][s] # None
               PROVE  \/ s \in held[p] \cup kept'[p]
                      \/ \E b \in Live(p) : buf[p][b].bo = s
    BY <1>3 DEF CaredFor
  <2>1. s \notin K /\ res[p][s] # None
    BY <1>2
  <2> QED
    BY <1>2, <1>4, <2>1 DEF Good, CaredFor
<1>9. Single(p)'
  BY <1>3, <1>4 DEF Good, Single
<1>10. Good(p)'
  BY <1>5, <1>6, <1>7, <1>8, <1>9 DEF Good
<1> QED
  BY <1>2, <1>10, OneProcess

\* create_driver() keeps the invariant.
LEMMA CreateDriverStep ==
  ASSUME IInv, NEW p \in Proc, CreateDriver(p)
  PROVE  IInv'
<1>1. UNCHANGED <<res, primed, bo, kept, buf, held>>
  BY DEF libdrm, CreateDriver
<1>2. TypeOK /\ Good(p) /\ Live(p)' = Live(p)
  BY <1>1 DEF IInv, Live
<1>3. /\ up' \in [Proc -> BOOLEAN] /\ up'[p]
      /\ nr_buffers' \in [Proc -> Nat] /\ nr_buffers'[p] = 0
      /\ warned' \in [Proc -> BOOLEAN] /\ ~warned'[p]
  BY <1>2 DEF TypeOK, CreateDriver
<1>4. TypeOK'
  BY <1>1, <1>2, <1>3 DEF TypeOK, ResType, BoType
<1>5. Counts(p)'
  <2>1. Live(p) = {}
    BY DEF CreateDriver
  <2> QED
    BY <1>2, <1>3, <2>1, FS_EmptySet DEF Counts
<1>6. \A q \in Proc \ {p} :
        up'[q] = up[q] /\ nr_buffers'[q] = nr_buffers[q] /\ warned'[q] = warned[q]
  BY <1>2 DEF TypeOK, CreateDriver
<1>7. Keeps(p)' /\ CaredFor(p)'
  <2>1. \A h \in Handle : Users(p, h)' = Users(p, h)
    BY <1>1, <1>2 DEF Users
  <2>2. Keeps(p) /\ CaredFor(p)
    BY <1>2 DEF Good
  <2> QED
    BY <1>1, <1>2, <2>1, <2>2 DEF Keeps, CaredFor
<1>8. /\ UNCHANGED <<bo, kept, buf>> /\ (up[p] => up'[p])
      /\ \A h \in Handle : h \in primed'[p] => h \in primed[p] \/ Users(p, h) # {}
      /\ \A h \in Handle :
           Users(p, h) # {} \/ h \in kept[p] => res'[p][h] = res[p][h]
      /\ \A q \in Proc \ {p} :
           /\ res'[q] = res[q] /\ primed'[q] = primed[q] /\ held'[q] = held[q]
           /\ up'[q] = up[q] /\ nr_buffers'[q] = nr_buffers[q]
           /\ warned'[q] = warned[q]
  BY <1>1, <1>3, <1>6
<1> QED
  BY <1>4, <1>5, <1>7, <1>8, SurfacesStay

\* destroy_driver() keeps the invariant: it frees what libdrm keeps.
LEMMA DestroyDriverStep ==
  ASSUME IInv, NEW p \in Proc, DestroyDriver(p)
  PROVE  IInv'
<1>1. UNCHANGED <<buf, held>> /\ FreeBos(p, kept[p])
  BY DEF DestroyDriver, DestroyManager
<1>2. TypeOK /\ Good(p) /\ Live(p)' = Live(p) /\ kept[p] \in SUBSET Handle
  BY <1>1 DEF IInv, Live, TypeOK, BoType
<1>3. /\ ResType' /\ BoType' /\ kept'[p] = {}
  BY <1>1, <1>2, FreedBos
<1>4. /\ up' \in [Proc -> BOOLEAN] /\ ~up'[p]
      /\ nr_buffers' \in [Proc -> Nat] /\ warned' \in [Proc -> BOOLEAN]
  <2>1. PICK w \in BOOLEAN : warned' = [warned EXCEPT ![p] = w]
    BY DEF DestroyDriver
  <2> QED
    BY <1>2, <2>1 DEF TypeOK, DestroyDriver
<1>5. TypeOK'
  BY <1>1, <1>2, <1>3, <1>4 DEF TypeOK
<1>6. Counts(p)'
  <2>1. warned'[p] <=> Cardinality(Live(p)) # 0
    BY <1>2 DEF TypeOK, Good, Counts, DestroyDriver
  <2>2. Cardinality(Live(p)) # 0 <=> Live(p) # {}
    BY Finite, FS_EmptySet
  <2> QED
    BY <1>2, <1>4, <2>1, <2>2 DEF Counts
<1>7. \A q \in Proc \ {p} :
        up'[q] = up[q] /\ nr_buffers'[q] = nr_buffers[q] /\ warned'[q] = warned[q]
  BY <1>2 DEF TypeOK, DestroyDriver
<1> QED
  BY <1>1, <1>3, <1>5, <1>6, <1>7, KeptFreed

\* libdrm freeing a bo that it kept keeps the invariant.
LEMMA LibdrmFreesStep ==
  ASSUME IInv, NEW p \in Proc, LibdrmFrees(p)
  PROVE  IInv'
<1>1. PICK h \in kept[p] : FreeBos(p, {h})
  BY DEF LibdrmFrees
<1>2. UNCHANGED <<up, nr_buffers, warned, buf, held>>
  BY DEF LibdrmFrees
<1>3. TypeOK /\ Good(p) /\ Live(p)' = Live(p) /\ {h} \in SUBSET Handle
  BY <1>2 DEF IInv, Live, TypeOK, BoType
<1>4. TypeOK'
  BY <1>1, <1>2, <1>3, FreedBos DEF TypeOK
<1>5. Counts(p)' /\ (up'[p] \/ kept'[p] = {})
  BY <1>2, <1>3 DEF Good, Counts
<1> QED
  BY <1>1, <1>2, <1>4, <1>5, KeptFreed

\* What a caller gets keeps the invariant, if the driver does not use it.
LEMMA CallerGets ==
  ASSUME IInv, NEW p \in Proc, NEW s \in Handle \cup Fd, NEW o \in Obj,
         res[p][s] = None, res' = Bind(p, {s}, o),
         held' = [held EXCEPT ![p] = @ \cup {s}],
         primed' \in [Proc -> SUBSET Handle],
         \A h \in Handle : h \in primed'[p] => h \in primed[p] \/ Users(p, h) # {},
         \A q \in Proc \ {p} : primed'[q] = primed[q],
         UNCHANGED <<bo, kept, up, nr_buffers, warned, buf>>
  PROVE  IInv'
<1>1. ResType /\ o \in Obj \cup {None} /\ s \in Slot /\ o # None
  BY SlotAssumption DEF IInv, TypeOK, Slot
<1>2. /\ ResType'
      /\ \A t \in Slot : res'[p][t] = IF t \in {s} THEN o ELSE res[p][t]
      /\ \A q \in Proc \ {p} : res'[q] = res[q]
  BY <1>1, BindChanges
<1>3. /\ held' \in [Proc -> SUBSET (Handle \cup Fd)] /\ held'[p] = held[p] \cup {s}
      /\ \A q \in Proc \ {p} : held'[q] = held[q]
  BY DEF IInv, TypeOK
<1>4. TypeOK'
  BY <1>2, <1>3 DEF IInv, TypeOK, BoType
<1>5. Good(p) /\ Live(p)' = Live(p)
  BY DEF IInv, Live
<1>6. \A b \in Live(p) : /\ buf[p][b].bo \in Slot /\ buf[p][b].bo # s
                         /\ res[p][buf[p][b].bo] # None
  BY <1>5, SlotAssumption DEF IInv, TypeOK, Good, Owns, Live, Slot
<1>7. /\ s \in Handle => Users(p, s) = {}
      /\ s \notin kept[p]
  <2>1. kept[p] \subseteq Handle
    BY DEF IInv, TypeOK, BoType
  <2>2. s \in Handle => s \notin kept[p]
    BY <1>5 DEF Good, BoGood
  <2> QED
    BY <1>6, <2>1, <2>2 DEF Users
<1>8. \A h \in Handle :
        Users(p, h) # {} \/ h \in kept[p] => res'[p][h] = res[p][h]
  BY <1>2, <1>7 DEF Slot
<1>9. Keeps(p)'
  <2>1. \A t \in held[p] : t \in Slot
    BY DEF IInv, TypeOK, Slot
  <2>2. \A t \in Handle : Users(p, t)' = Users(p, t)
    BY <1>5 DEF Users
  <2> QED
    BY <1>1, <1>2, <1>3, <1>5, <1>7, <2>1, <2>2 DEF Good, Keeps
<1>10. CaredFor(p)'
  BY <1>2, <1>3, <1>5 DEF Good, CaredFor
<1>11. Counts(p)'
  BY <1>5 DEF Good, Counts
<1>12. \A q \in Proc \ {p} :
         /\ res'[q] = res[q] /\ primed'[q] = primed[q] /\ held'[q] = held[q]
         /\ up'[q] = up[q] /\ nr_buffers'[q] = nr_buffers[q]
         /\ warned'[q] = warned[q]
  BY <1>2, <1>3
<1> QED
  BY <1>4, <1>8, <1>9, <1>10, <1>11, <1>12, SurfacesStay

\* A caller that exports a surface keeps the invariant.
LEMMA ExportStep ==
  ASSUME IInv, NEW p \in Proc, CallerExports(p)
  PROVE  IInv'
<1>1. PICK b \in Live(p), f \in Free(p, Fd) :
        /\ res' = Bind(p, {f}, buf[p][b].obj)
        /\ primed' = [primed EXCEPT ![p] = @ \cup {buf[p][b].bo}]
        /\ held' = [held EXCEPT ![p] = @ \cup {f}]
        /\ UNCHANGED <<bo, kept, up, nr_buffers, warned, buf>>
  BY DEF CallerExports
<1>2. f \in Handle \cup Fd /\ res[p][f] = None
  BY DEF Free
<1>3. PICK o \in Obj : o = buf[p][b].obj
  BY DEF IInv, TypeOK, Live
<1>4. PICK h \in Handle : h = buf[p][b].bo
  BY DEF IInv, Good, Owns
<1>5. b \in Users(p, h)
  BY <1>4 DEF Users
<1>6. primed \in [Proc -> SUBSET Handle] /\ primed' = [primed EXCEPT ![p] = @ \cup {h}]
  BY <1>1, <1>4 DEF IInv, TypeOK, BoType
<1>7. /\ primed' \in [Proc -> SUBSET Handle] /\ primed'[p] = primed[p] \cup {h}
      /\ \A q \in Proc \ {p} : primed'[q] = primed[q]
  BY <1>6
<1>8. \A g \in Handle : g \in primed'[p] => g \in primed[p] \/ Users(p, g) # {}
  BY <1>5, <1>7
<1> QED
  BY <1>1, <1>2, <1>3, <1>7, <1>8, CallerGets

\* A caller that receives a descriptor or opens a name keeps the invariant.
LEMMA ReceiveStep ==
  ASSUME IInv, NEW p \in Proc, CallerReceivesFd(p) \/ CallerOpensName(p)
  PROVE  IInv'
<1>1. PICK o \in Alive \cup Named, s \in Free(p, Handle) \cup Free(p, Fd) :
        /\ res' = Bind(p, {s}, o)
        /\ held' = [held EXCEPT ![p] = @ \cup {s}]
        /\ UNCHANGED <<primed, bo, kept, up, nr_buffers, warned, buf>>
  BY DEF CallerReceivesFd, CallerOpensName
<1>2. s \in Handle \cup Fd /\ res[p][s] = None /\ o \in Obj
  BY DEF Free, Alive, Named
<1>3. primed' \in [Proc -> SUBSET Handle] /\ primed' = primed
  BY <1>1 DEF IInv, TypeOK, BoType
<1> QED
  BY <1>1, <1>2, <1>3, CallerGets

\* A caller that releases what it holds keeps the invariant.
LEMMA ReleaseStep ==
  ASSUME IInv, NEW p \in Proc, CallerReleases(p)
  PROVE  IInv'
<1>1. PICK s \in held[p] :
        /\ res' = Bind(p, {s}, None)
        /\ held' = [held EXCEPT ![p] = @ \ {s}]
        /\ UNCHANGED <<primed, bo, kept, up, nr_buffers, warned, buf>>
  BY DEF CallerReleases, Release
<1>2. ResType /\ None \in Obj \cup {None}
  BY DEF IInv, TypeOK
<1>3. /\ ResType'
      /\ \A t \in Slot : res'[p][t] = IF t \in {s} THEN None ELSE res[p][t]
      /\ \A q \in Proc \ {p} : res'[q] = res[q]
  BY <1>1, <1>2, BindChanges
<1>4. /\ held' \in [Proc -> SUBSET (Handle \cup Fd)] /\ held'[p] = held[p] \ {s}
      /\ \A q \in Proc \ {p} : held'[q] = held[q]
  BY <1>1 DEF IInv, TypeOK
<1>5. TypeOK'
  BY <1>1, <1>3, <1>4 DEF IInv, TypeOK, BoType
<1>6. Good(p) /\ Live(p)' = Live(p)
  BY <1>1 DEF IInv, Live
<1>7. \A h \in Handle :
        Users(p, h) # {} \/ h \in kept[p] => res'[p][h] = res[p][h]
  BY <1>3, <1>6 DEF Good, Keeps, Slot
<1>8. Keeps(p)'
  <2>1. \A t \in held[p] : t \in Slot
    BY DEF IInv, TypeOK, Slot
  <2>2. \A t \in Handle : Users(p, t)' = Users(p, t)
    BY <1>1, <1>6 DEF Users
  <2> QED
    BY <1>1, <1>3, <1>4, <1>6, <2>1, <2>2 DEF Good, Keeps
<1>9. CaredFor(p)'
  BY <1>1, <1>3, <1>4, <1>6 DEF Good, CaredFor
<1>10. Counts(p)'
  BY <1>1, <1>6 DEF Good, Counts
<1>11. \A q \in Proc \ {p} :
         /\ res'[q] = res[q] /\ primed'[q] = primed[q] /\ held'[q] = held[q]
         /\ up'[q] = up[q] /\ nr_buffers'[q] = nr_buffers[q]
         /\ warned'[q] = warned[q]
  BY <1>1, <1>3, <1>4
<1>12. /\ UNCHANGED <<bo, kept, buf>> /\ (up[p] => up'[p])
       /\ \A h \in Handle : h \in primed'[p] => h \in primed[p] \/ Users(p, h) # {}
  BY <1>1
<1> QED
  BY <1>5, <1>7, <1>8, <1>9, <1>10, <1>11, <1>12, SurfacesStay

\* A process that has nothing is good.
LEMMA NothingIsGood ==
  ASSUME NEW p \in Proc,
         \A s \in Slot : res[p][s] = None, primed[p] = {}, kept[p] = {},
         \A h \in Handle : bo[p][h] = NoBo,
         ~up[p], ~warned[p], \A b \in Buf : buf[p][b] = NoBuffer, held[p] = {}
  PROVE  Good(p)
<1>1. Live(p) = {}
  BY DEF Live, NoBuffer
<1>2. \A h \in Handle : Users(p, h) = {} /\ Mapped(p, h) = {}
  BY <1>1 DEF Users, Mapped
<1>3. ASSUME NEW h \in Handle PROVE BoGood(p, h)
  <2>1. bo[p][h] = NoBo /\ h \notin primed[p]
    OBVIOUS
  <2>2. Cardinality(Users(p, h)) = 0 /\ Cardinality(Mapped(p, h)) = 0
    BY <1>2, FS_EmptySet
  <2>3. NoBo.refs = 0 /\ NoBo.maps = 0 /\ NoBo.virtual = None /\ ~NoBo.reusable
    BY NewBoIsBo
  <2> QED
    BY <2>1, <2>2, <2>3 DEF BoGood
<1> QED
  BY <1>1, <1>3 DEF Good, Single, Keeps, CaredFor, Counts

\* The initial state satisfies the invariant.
LEMMA InitInv == Init => IInv
<1> SUFFICES ASSUME Init PROVE IInv
  OBVIOUS
<1>1. TypeOK
  BY NewBoIsBo DEF Init, TypeOK, ResType, BoType, BoRecord, NoReferences, NoBuffer
<1>2. ASSUME NEW q \in Proc PROVE Good(q)
  BY NothingIsGood DEF Init, NoReferences
<1>3. Apart
  BY NewBoIsBo DEF Init, Apart
<1> QED
  BY <1>1, <1>2, <1>3 DEF IInv

\* The end of a process keeps the invariant: it leaves nothing.
LEMMA ProcessDiesStep ==
  ASSUME IInv, NEW p \in Proc, ProcessDies(p)
  PROVE  IInv'
<1>1. /\ ResType'
      /\ \A s \in Slot : res'[p][s] = None
      /\ \A q \in Proc \ {p} : res'[q] = res[q]
  <2>1. ResType /\ None \in Obj \cup {None} /\ res' = Bind(p, Slot, None)
    BY DEF IInv, TypeOK, ProcessDies, Release
  <2> QED
    BY <2>1, BindChanges
<1>2. NoBuffer \in SurfaceRecord
  BY DEF NoBuffer, SurfaceRecord
<1>3. /\ buf' \in [Proc -> [Buf -> SurfaceRecord]]
      /\ \A b \in Buf : buf'[p][b] = NoBuffer
      /\ \A q \in Proc \ {p} : buf'[q] = buf[q]
  BY <1>2, Records DEF IInv, ProcessDies
<1>4. /\ bo' \in [Proc -> [Handle -> BoRecord]]
      /\ \A h \in Handle : bo'[p][h] = NoBo
      /\ \A q \in Proc \ {p} : bo'[q] = bo[q]
  BY NewBoIsBo, Records DEF IInv, ProcessDies
<1>5. /\ primed' \in [Proc -> SUBSET Handle] /\ primed'[p] = {}
      /\ kept' \in [Proc -> SUBSET Handle] /\ kept'[p] = {}
      /\ held' \in [Proc -> SUBSET (Handle \cup Fd)] /\ held'[p] = {}
      /\ up' \in [Proc -> BOOLEAN] /\ ~up'[p]
      /\ warned' \in [Proc -> BOOLEAN] /\ ~warned'[p]
      /\ nr_buffers' \in [Proc -> Nat]
  BY DEF IInv, TypeOK, BoType, ProcessDies
<1>6. \A q \in Proc \ {p} :
        /\ primed'[q] = primed[q] /\ held'[q] = held[q] /\ up'[q] = up[q]
        /\ kept'[q] = kept[q] /\ nr_buffers'[q] = nr_buffers[q] /\ warned'[q] = warned[q]
  BY DEF IInv, TypeOK, BoType, ProcessDies
<1>7. TypeOK'
  BY <1>1, <1>3, <1>4, <1>5 DEF TypeOK, BoType, BoRecord, SurfaceRecord
<1>8. Good(p)'
  <2>1. Live(p)' = {}
    BY <1>3 DEF Live, NoBuffer
  <2>2. \A h \in Handle : Users(p, h)' = {} /\ Mapped(p, h)' = {}
    BY <2>1 DEF Users, Mapped
  <2>3. ASSUME NEW h \in Handle PROVE BoGood(p, h)'
    <3>1. bo'[p][h] = NoBo
      BY <1>4
    <3>2. h \notin primed'[p] /\ h \notin kept'[p]
      BY <1>5
    <3>3. Users(p, h)' = {} /\ Mapped(p, h)' = {} /\ Cardinality({}) = 0
      BY <2>2, FS_EmptySet
    <3> QED
      BY <3>1, <3>2, <3>3, NewBoIsBo DEF BoGood
  <2>4. Single(p)' /\ Keeps(p)' /\ CaredFor(p)' /\ Counts(p)'
    BY <1>1, <1>5, <2>1 DEF Single, Keeps, CaredFor, Counts
  <2> QED
    BY <1>5, <2>1, <2>3, <2>4 DEF Good
<1>9. Apart'
  <2> SUFFICES ASSUME NEW q \in Proc, NEW h \in Handle, bo'[q][h].reusable
               PROVE  bo[q][h].reusable /\ res'[q][h] = res[q][h]
    BY ApartStays DEF IInv
  <2>1. q # p
    BY <1>4, NewBoIsBo
  <2> QED
    BY <1>1, <1>4, <2>1
<1> QED
  BY <1>1, <1>3, <1>4, <1>6, <1>7, <1>8, <1>9, OneProcess

\* Every step keeps the invariant.
LEMMA NextInv == ~Reimports /\ IInv /\ [Next]_vars => IInv'
<1> SUFFICES ASSUME ~Reimports, IInv, [Next]_vars PROVE IInv'
  OBVIOUS
<1>1. CASE UNCHANGED vars
  <2>1. TypeOK'
    BY <1>1 DEF vars, IInv, TypeOK, ResType, BoType
  <2>2. ASSUME NEW q \in Proc PROVE Good(q)'
    <3>1. Good(q) /\ Live(q)' = Live(q)
      BY <1>1 DEF vars, IInv, Live
    <3>2. \A h \in Handle : Users(q, h)' = Users(q, h) /\ Mapped(q, h)' = Mapped(q, h)
      BY <1>1 DEF vars, Users, Mapped, Live
    <3>3. \A h \in Handle : BoGood(q, h)'
      BY <1>1, <3>1, <3>2 DEF vars, Good, BoGood
    <3>4. \A b \in Live(q)' : Owns(q, b)'
      BY <1>1, <3>1 DEF vars, Good, Owns
    <3>5. Single(q)' /\ Keeps(q)' /\ CaredFor(q)' /\ Counts(q)'
      BY <1>1, <3>1, <3>2 DEF vars, Good, Single, Keeps, CaredFor, Counts
    <3>6. up'[q] \/ kept'[q] = {}
      BY <1>1, <3>1 DEF vars, Good
    <3> QED
      BY <3>3, <3>4, <3>5, <3>6 DEF Good
  <2>3. Apart'
    BY <1>1 DEF vars, IInv, Apart
  <2> QED
    BY <2>1, <2>2, <2>3 DEF IInv
<1>2. ASSUME NEW p \in Proc, CreateDriver(p) \/ DestroyDriver(p) PROVE IInv'
  BY <1>2, CreateDriverStep, DestroyDriverStep
<1>3. ASSUME NEW p \in Proc, NEW b \in Buf, CreateBuffer(p, b) PROVE IInv'
  BY <1>3, CreateBufferMakes, MakesStep
<1>4. ASSUME NEW p \in Proc, NEW b \in Buf, CreateBufferFromHandle(p, b) PROVE IInv'
  BY <1>4, FromHandleMakes, MakesStep
<1>5. ASSUME NEW p \in Proc, NEW b \in Buf, CreateBufferFromName(p, b) PROVE IInv'
  BY <1>5, FromNameMakes, MakesStep
<1>6. ASSUME NEW p \in Proc, NEW b \in Buf, CreateBufferFromPrimeFd(p, b) PROVE IInv'
  BY <1>6, FromPrimeFdMakes, MakesStep
<1>7. ASSUME NEW p \in Proc, NEW b \in Buf, MapBuffer(p, b) PROVE IInv'
  BY <1>7, MapBufferStep
<1>8. ASSUME NEW p \in Proc, NEW b \in Buf, UnmapBuffer(p, b) PROVE IInv'
  BY <1>8, UnmapBufferStep
<1>9. ASSUME NEW p \in Proc, NEW b \in Buf, DestroyBuffer(p, b) PROVE IInv'
  BY <1>9, DestroyBufferStep
<1>10. ASSUME NEW p \in Proc, CallerExports(p) PROVE IInv'
  BY <1>10, ExportStep
<1>11. ASSUME NEW p \in Proc, CallerReceivesFd(p) \/ CallerOpensName(p) PROVE IInv'
  BY <1>11, ReceiveStep
<1>12. ASSUME NEW p \in Proc, CallerReleases(p) PROVE IInv'
  BY <1>12, ReleaseStep
<1>13. ASSUME NEW p \in Proc, ProcessDies(p) PROVE IInv'
  BY <1>13, ProcessDiesStep
<1>14. ASSUME NEW p \in Proc, LibdrmFrees(p) PROVE IInv'
  BY <1>14, LibdrmFreesStep
<1> QED
  BY <1>1, <1>2, <1>3, <1>4, <1>5, <1>6, <1>7, <1>8, <1>9, <1>10, <1>11, <1>12,
     <1>13, <1>14 DEF Next

-----------------------------------------------------------------------------
(* The theorems.  They suppose that no process imports an object whose bo   *)
(* libdrm keeps for it: libdrm would use that bo, and go on keeping it.     *)

\* The inductive invariant holds in every reachable state.
THEOREM Invariance == ~Reimports => (Spec => []IInv)
<1> SUFFICES ASSUME ~Reimports PROVE Spec => []IInv
  OBVIOUS
<1> QED
  BY InitInv, NextInv, PTL DEF Spec

\* Every variable keeps to its type; no counter is counted below 0.
THEOREM TypeCorrect == ~Reimports => (Spec => []TypeOK)
<1>1. IInv => TypeOK
  BY DEF IInv
<1> QED
  BY <1>1, Invariance, PTL

\* A bo has as many references as surfaces, however they were made.
THEOREM ReferencesCounted == ~Reimports => (Spec => []RefsExact)
<1>1. IInv => RefsExact
  BY DEF IInv, Good, BoGood, RefsExact
<1> QED
  BY <1>1, Invariance, PTL

\* A surface's handle leads to its object, its address to a mapping.
THEOREM SurfacesGood == ~Reimports => (Spec => []SurfaceIsGood)
<1>1. IInv => SurfaceIsGood
  BY DEF IInv, Good, Owns, SurfaceIsGood
<1> QED
  BY <1>1, Invariance, PTL

\* What the caller holds stays open and its own.
THEOREM CallerKeeps == ~Reimports => (Spec => []CallerKeepsItsOwn)
<1>1. IInv => CallerKeepsItsOwn
  <2> SUFFICES ASSUME IInv, NEW p \in Proc, NEW s \in held[p]
               PROVE  /\ res[p][s] # None
                      /\ s \in Handle => bo[p][s].refs = 0 /\ s \notin kept[p]
    BY DEF CallerKeepsItsOwn
  <2>1. /\ res[p][s] # None /\ s \notin kept[p]
        /\ s \in Handle => Users(p, s) = {}
    BY DEF IInv, Good, Keeps
  <2>2. s \in Handle => bo[p][s] = NoBo
    BY <2>1 DEF IInv, Good, BoGood
  <2> QED
    BY <2>1, <2>2, NewBoIsBo
<1> QED
  BY <1>1, Invariance, PTL

\* What is open is the caller's, a surface's, or kept by libdrm for reuse; what
\* is kept is not in use, and freed when the driver is destroyed.
THEOREM NoLeak == ~Reimports => (Spec => []NothingLeaks)
<1>1. IInv => NothingLeaks
  <2> SUFFICES ASSUME IInv, NEW p \in Proc
               PROVE  /\ \A h \in Handle :
                           res[p][h] # None =>
                             \/ h \in held[p] \cup kept[p]
                             \/ \E b \in Live(p) : buf[p][b].bo = h
                      /\ \A b \in Live(p) : buf[p][b].bo \notin kept[p]
                      /\ up[p] \/ kept[p] = {}
    BY DEF NothingLeaks
  <2>1. Good(p)
    BY DEF IInv
  <2>2. ASSUME NEW b \in Live(p) PROVE buf[p][b].bo \notin kept[p]
    <3>1. PICK h \in Handle : h = buf[p][b].bo
      BY <2>1 DEF Good, Owns
    <3>2. Users(p, h) # {} /\ BoGood(p, h)
      BY <2>1, <3>1 DEF Users, Good
    <3> QED
      BY <3>1, <3>2 DEF BoGood
  <2> QED
    BY <2>1, <2>2 DEF Good, CaredFor, Slot
<1> QED
  BY <1>1, Invariance, PTL

\* Created surfaces never have one object, although bos are used again whose
\* objects others may still have.
THEOREM CreatedStayApart == ~Reimports => (Spec => []CreatedApart)
<1>1. IInv => CreatedApart
  <2> SUFFICES ASSUME IInv, NEW p \in Proc, NEW q \in Proc,
                      NEW b \in Live(p), NEW c \in Live(q),
                      buf[p][b].created, buf[q][c].created,
                      buf[p][b].obj = buf[q][c].obj
               PROVE  p = q /\ b = c
    BY DEF CreatedApart
  <2>1. /\ buf[p][b].bo \in Handle /\ buf[q][c].bo \in Handle
        /\ bo[p][buf[p][b].bo].reusable /\ bo[q][buf[q][c].bo].reusable
        /\ res[p][buf[p][b].bo] = res[q][buf[q][c].bo]
    BY DEF IInv, Good, Owns
  <2>2. p = q /\ buf[p][b].bo = buf[q][c].bo
    BY <2>1 DEF IInv, Apart
  <2> QED
    BY <2>2 DEF IInv, Good, Single
<1> QED
  BY <1>1, Invariance, PTL

\* A bo is not left mapped by surfaces that were unmapped or destroyed.
THEOREM MapsUsed == ~Reimports => (Spec => []MapsAreUsed)
<1>1. IInv => MapsAreUsed
  BY DEF IInv, Good, BoGood, MapsAreUsed
<1> QED
  BY <1>1, Invariance, PTL

\* destroy_driver() warns if and only if buffers are left.
THEOREM WarningExact == ~Reimports => (Spec => []WarningIsExact)
<1>1. IInv => WarningIsExact
  BY DEF IInv, Good, Counts, WarningIsExact
<1> QED
  BY <1>1, Invariance, PTL
-----------------------------------------------------------------------------
(* An address that a surface gets although its map call failed.            *)

\* Only map_buffer() gives a surface an address.
LEMMA OnlyMapsGiveAddresses ==
  ASSUME ~Reimports, IInv, [Next]_vars, NEW p \in Proc, NEW b \in Live(p),
         buf[p][b].buff = None, buf'[p][b].buff # None
  PROVE  MapBuffer(p, b)
<1>1. b \in Buf /\ buf \in [Proc -> [Buf -> SurfaceRecord]]
  BY Records DEF IInv, Live
<1>2. NoBuffer.buff = None
  BY DEF NoBuffer
<1>3. buf' # buf
  OBVIOUS
<1>4. ASSUME NEW q \in Proc, NEW c \in Buf, Makes(q, c)
      PROVE  FALSE
  <2>1. /\ c \notin Live(q)
        /\ \E m : buf' = [buf EXCEPT ![q][c] = m]
    BY <1>4 DEF Makes, MakeBuffer
  <2>2. buf'[p][b] = buf[p][b]
    BY <1>1, <2>1
  <2> QED
    BY <2>2
<1>5. ASSUME NEW q \in Proc, NEW c \in Buf,
             CreateBuffer(q, c) \/ CreateBufferFromHandle(q, c)
               \/ CreateBufferFromName(q, c) \/ CreateBufferFromPrimeFd(q, c)
      PROVE  FALSE
  BY <1>4, <1>5, CreateBufferMakes, FromHandleMakes, FromNameMakes,
     FromPrimeFdMakes
<1>6. ASSUME NEW q \in Proc, NEW c \in Buf, MapBuffer(q, c)
      PROVE  q = p /\ c = b
  <2>1. PICK v : buf' = [buf EXCEPT ![q][c].buff = v]
    BY <1>6 DEF MapBuffer
  <2> QED
    BY <1>1, <2>1
<1>7. ASSUME NEW q \in Proc, NEW c \in Buf, UnmapBuffer(q, c)
      PROVE  FALSE
  <2>1. buf' = [buf EXCEPT ![q][c].buff = None]
    BY <1>7 DEF UnmapBuffer
  <2> QED
    BY <1>1, <2>1 DEF SurfaceRecord
<1>8. ASSUME NEW q \in Proc, NEW c \in Buf, DestroyBuffer(q, c)
      PROVE  FALSE
  <2>1. buf' = [buf EXCEPT ![q][c] = NoBuffer]
    BY <1>8 DEF DestroyBuffer
  <2> QED
    BY <1>1, <1>2, <2>1
<1>9. ASSUME NEW q \in Proc, ProcessDies(q)
      PROVE  FALSE
  <2>1. buf' = [buf EXCEPT ![q] = [c \in Buf |-> NoBuffer]]
    BY <1>9 DEF ProcessDies
  <2> QED
    BY <1>1, <1>2, <2>1
<1>10. ASSUME NEW q \in Proc,
              \/ CreateDriver(q) \/ DestroyDriver(q) \/ CallerExports(q)
              \/ CallerReceivesFd(q) \/ CallerOpensName(q) \/ CallerReleases(q)
              \/ LibdrmFrees(q)
       PROVE  FALSE
  BY <1>3, <1>10 DEF CreateDriver, DestroyDriver, CallerExports, LibdrmFrees,
                     CallerReceivesFd, CallerOpensName, CallerReleases
<1> QED
  BY <1>3, <1>5, <1>6, <1>7, <1>8, <1>9, <1>10 DEF Next, vars

\* What FailedMapBorrows says of a step.
Borrows ==
  \A p \in Proc : \A b \in Live(p) :
    LET m == buf[p][b]
        a == buf'[p][b].buff
    IN m.buff = None /\ a \notin {None, MapWay(m)} => Mapped(p, m.bo) # {}

LEMMA NextBorrows == ~Reimports /\ IInv /\ [Next]_vars => Borrows
<1> SUFFICES ASSUME ~Reimports, IInv, [Next]_vars, NEW p \in Proc, NEW b \in Live(p),
                    buf[p][b].buff = None,
                    buf'[p][b].buff \notin {None, MapWay(buf[p][b])}
             PROVE  Mapped(p, buf[p][b].bo) # {}
  BY DEF Borrows
<1>1. MapBuffer(p, b)
  BY OnlyMapsGiveAddresses
<1>2. PICK h \in Handle : h = buf[p][b].bo
  BY DEF IInv, Good, Owns
<1> DEFINE r == bo[p][h]
           way == MapWay(buf[p][b])
<1>3. PICK ok \in BOOLEAN :
        /\ bo' = [bo EXCEPT ![p][h] = MappedBo(@, way, ok)]
        /\ buf' = [buf EXCEPT ![p][b].buff = bo'[p][h].virtual]
  BY <1>1, <1>2 DEF MapBuffer
<1>4. /\ b \in Buf /\ BoGood(p, h) /\ way \in Way
      /\ r \in BoRecord /\ bo \in [Proc -> [Handle -> BoRecord]]
      /\ buf[p][b] \in SurfaceRecord /\ buf \in [Proc -> [Buf -> SurfaceRecord]]
  BY Records DEF IInv, Good, MapWay, Way, Live
<1>5. buf'[p][b].buff = MappedBo(r, way, ok).virtual
  <2>1. bo'[p][h] = MappedBo(r, way, ok)
    BY <1>3, <1>4
  <2>2. buf'[p][b].buff = bo'[p][h].virtual
    BY <1>3, <1>4 DEF SurfaceRecord
  <2> QED
    BY <2>1, <2>2
<1>6. \/ MappedBo(r, way, ok) = r
      \/ MappedBo(r, way, ok).virtual = way
  <2> HIDE DEF r, way
  <2> QED
    BY <1>4, MappedBoIsBo
<1>7. r.virtual # None
  BY <1>5, <1>6
<1>8. r.maps # 0 /\ r.maps \in Nat /\ r.maps <= Cardinality(Mapped(p, h))
  BY <1>4, <1>7 DEF BoGood, BoRecord
<1>9. Mapped(p, h) # {}
  <2>1. Cardinality({}) = 0
    BY FS_EmptySet
  <2> QED
    BY <1>8, <2>1
<1> QED
  BY <1>2, <1>9

\* If a map call fails the surface gets no address, or that of a surface that
\* shares its bo and is mapped.
THEOREM MapsBorrow == ~Reimports => (Spec => FailedMapBorrows)
<1> SUFFICES ASSUME ~Reimports PROVE Spec => FailedMapBorrows
  OBVIOUS
<1>1. IInv /\ [Next]_vars => [Borrows]_vars
  BY NextBorrows
<1> QED
  BY <1>1, Invariance, PTL DEF Spec, FailedMapBorrows, Borrows
-----------------------------------------------------------------------------
(* The promise of SharedSurfaces.                                          *)

\* the surfaces, tokens and pool of the abstract specification
Surfaces == [p \in Proc |-> [b \in Buf |-> buf[p][b].obj]]
Tokens ==
  [p \in Proc |-> [t \in Handle \cup Fd |->
     IF t \in held[p] \cup kept[p] THEN res[p][t] ELSE None]]

ReferencedBy(sf, tk) ==
  {o \in Obj : \E p \in Proc : \/ \E b \in Buf : sf[p][b] = o
                               \/ \E t \in Handle \cup Fd : tk[p][t] = o}

\* What is alive is what a surface or a token refers to: every slot is the
\* caller's, libdrm's or a surface's, and every surface has a handle to its object.
PoolIsReferenced == Alive = ReferencedBy(Surfaces, Tokens)

LEMMA PoolIs == IInv => PoolIsReferenced
<1> SUFFICES ASSUME IInv, NEW o \in Obj
             PROVE  o \in Alive <=> o \in ReferencedBy(Surfaces, Tokens)
  BY DEF PoolIsReferenced, Alive, ReferencedBy
<1>1. o # None /\ TypeOK
  BY SlotAssumption DEF IInv
<1>2. ASSUME NEW p \in Proc, NEW s \in Slot, res[p][s] = o
      PROVE  o \in ReferencedBy(Surfaces, Tokens)
  <2>1. CASE s \in held[p] \cup kept[p]
    <3>1. s \in Handle \cup Fd
      BY <1>1, <2>1 DEF TypeOK, BoType
    <3>2. Tokens[p][s] = o
      BY <1>2, <2>1, <3>1 DEF Tokens
    <3> QED
      BY <3>1, <3>2 DEF ReferencedBy
  <2>2. CASE s \notin held[p] \cup kept[p]
    <3>1. PICK b \in Live(p) : buf[p][b].bo = s
      BY <1>1, <1>2, <2>2 DEF IInv, Good, CaredFor
    <3>2. b \in Buf /\ buf[p][b].obj = o
      BY <1>2, <3>1 DEF IInv, Good, Owns, Live
    <3> QED
      BY <3>2 DEF Surfaces, ReferencedBy
  <2> QED
    BY <2>1, <2>2
<1>3. ASSUME NEW p \in Proc, NEW b \in Buf, Surfaces[p][b] = o
      PROVE  o \in Alive
  <2>1. b \in Live(p) /\ buf[p][b].obj = o
    BY <1>1, <1>3 DEF Surfaces, Live
  <2>2. buf[p][b].bo \in Slot /\ res[p][buf[p][b].bo] = o
    BY <2>1 DEF IInv, Good, Owns, Slot
  <2> QED
    BY <2>2 DEF Alive
<1>4. ASSUME NEW p \in Proc, NEW t \in Handle \cup Fd, Tokens[p][t] = o
      PROVE  o \in Alive
  <2>1. t \in Slot /\ res[p][t] = o
    BY <1>1, <1>4 DEF Tokens, Slot
  <2> QED
    BY <2>1 DEF Alive
<1> QED
  BY <1>2, <1>3, <1>4 DEF Alive, ReferencedBy

\* Two tables with the same entries are the same.
LEMMA SameTable ==
  ASSUME NEW D, NEW E, NEW V, NEW f \in [D -> [E -> V]],
         NEW g \in [D -> [E -> V]], \A q \in D, u \in E : f[q][u] = g[q][u]
  PROVE  f = g
OBVIOUS

\* The tokens' type.
LEMMA TokensTyped ==
  ASSUME TypeOK
  PROVE  Tokens \in [Proc -> [Handle \cup Fd -> Obj \cup {None}]]
<1>1. \A p \in Proc, t \in Handle \cup Fd : res[p][t] \in Obj \cup {None}
  BY DEF TypeOK, ResType, Slot
<1> QED
  BY <1>1 DEF Tokens

\* ... and after a step.
LEMMA TokensTypedPrimed ==
  ASSUME TypeOK'
  PROVE  Tokens' \in [Proc -> [Handle \cup Fd -> Obj \cup {None}]]
<1>1. \A p \in Proc, t \in Handle \cup Fd : res'[p][t] \in Obj \cup {None}
  BY DEF TypeOK, ResType, Slot
<1> QED
  BY <1>1 DEF Tokens

\* The instance's own terms.
LEMMA PromiseTerms ==
  /\ \A sf, tk : Promise!ReferencedBy(sf, tk) = ReferencedBy(sf, tk)
  /\ Promise!svars = <<Surfaces, Tokens, Alive>>
BY DEF Promise!ReferencedBy, ReferencedBy, Promise!svars, Surfaces, Tokens

\* What a token stands for.
LEMMA TokenIs ==
  ASSUME NEW q \in Proc, NEW u \in Handle \cup Fd
  PROVE  Tokens[q][u] = IF u \in held[q] \cup kept[q] THEN res[q][u] ELSE None
BY DEF Tokens

\* Tokens stay what they are if only slots that nobody holds or keeps change.
LEMMA TokensStay ==
  ASSUME held' = held, kept' = kept,
         \A q \in Proc : \A s \in held[q] \cup kept[q] : res'[q][s] = res[q][s]
  PROVE  Tokens' = Tokens
BY DEF Tokens

\* One token becomes another, or none.
LEMMA TokenChanges ==
  ASSUME TypeOK, TypeOK', NEW p \in Proc, NEW t \in Handle \cup Fd,
         NEW o \in Obj \cup {None},
         \A q \in Proc, u \in Handle \cup Fd :
           Tokens'[q][u] = IF q = p /\ u = t THEN o ELSE Tokens[q][u]
  PROVE  Tokens' = [Tokens EXCEPT ![p][t] = o]
<1> DEFINE tg == [Tokens EXCEPT ![p][t] = o]
<1>1. /\ Tokens \in [Proc -> [Handle \cup Fd -> Obj \cup {None}]]
      /\ Tokens' \in [Proc -> [Handle \cup Fd -> Obj \cup {None}]]
  BY TokensTyped, TokensTypedPrimed
<1>2. tg \in [Proc -> [Handle \cup Fd -> Obj \cup {None}]]
  BY <1>1
<1>3. \A q \in Proc, u \in Handle \cup Fd :
        tg[q][u] = IF q = p /\ u = t THEN o ELSE Tokens[q][u]
  BY <1>1
<1> HIDE DEF tg
<1>4. Tokens' = tg
  BY <1>1, <1>2, <1>3, SameTable
<1> QED
  BY <1>4 DEF tg

\* Steps that touch neither surfaces nor tokens leave the pool alone.
LEMMA StutterImplements ==
  ASSUME PoolIsReferenced, PoolIsReferenced', Surfaces' = Surfaces,
         Tokens' = Tokens
  PROVE  UNCHANGED Promise!svars
<1>1. Alive' = Alive
  BY DEF PoolIsReferenced
<1> QED
  BY <1>1 DEF Promise!svars, Surfaces, Tokens

\* An entry that makes a surface is a step of the promise: a new object, one
\* more surface on an object that is there, or one on an object that was kept.
LEMMA MakesImplement ==
  ASSUME IInv, TypeOK', PoolIsReferenced, PoolIsReferenced', NEW p \in Proc,
         NEW b \in Buf, Makes(p, b)
  PROVE  Promise!Create(p, b) \/ Promise!Open(p, b) \/ Promise!Adopt(p, b)
<1>1. PICK o \in Obj, h \in Handle, created \in BOOLEAN :
        /\ Opened(p, h, o, created) /\ b \notin Live(p) /\ held' = held
        /\ \E m : m.obj = o /\ buf' = [buf EXCEPT ![p][b] = m]
  <2>1. PICK o \in Obj, h \in Handle, fd \in Fd \cup {None}, created \in BOOLEAN,
             scanout \in BOOLEAN :
          Opened(p, h, o, created) /\ MakeBuffer(p, b, o, h, fd, created, scanout)
    BY DEF Makes
  <2> DEFINE m == [obj |-> o, bo |-> h, prime_fd |-> fd, created |-> created,
                   scanout |-> scanout, buff |-> None]
  <2>2. m.obj = o
    OBVIOUS
  <2>3. b \notin Live(p) /\ held' = held /\ buf' = [buf EXCEPT ![p][b] = m]
    BY <2>1 DEF MakeBuffer
  <2> HIDE DEF m
  <2> QED
    BY <2>1, <2>2, <2>3
<1>2. TypeOK /\ buf \in [Proc -> [Buf -> SurfaceRecord]]
  BY Records DEF IInv
<1>3. Surfaces[p][b] = None
  BY <1>1 DEF Surfaces, Live
<1>4. \A q \in Proc, c \in Buf :
        buf'[q][c].obj = IF q = p /\ c = b THEN o ELSE buf[q][c].obj
  <2>1. PICK m : m.obj = o /\ buf' = [buf EXCEPT ![p][b] = m]
    BY <1>1
  <2> QED
    BY <1>2, <2>1
<1>5. Surfaces' = [Surfaces EXCEPT ![p][b] = o]
  <2>1. PICK m : m.obj = o /\ buf' = [buf EXCEPT ![p][b] = m]
    BY <1>1
  <2> QED
    BY <1>2, <2>1 DEF Surfaces
<1>6. /\ h \notin held[p] /\ h \in Slot
      /\ \A s \in held[p] \cup kept[p] : s \in Slot
      /\ \A s \in kept[p] : s \in Handle
  BY <1>1, <1>2 DEF TypeOK, BoType, Opened, Slot
<1>7. CASE h \notin kept[p]
  <2>1. kept' = kept
    <3>1. kept \in [Proc -> SUBSET Handle] /\ kept' \in [Proc -> SUBSET Handle]
      BY <1>2 DEF TypeOK, BoType
    <3>2. \A q \in Proc : kept'[q] = kept[q]
      BY <1>1, <1>7 DEF Opened
    <3> QED
      BY <3>1, <3>2
  <2>2. Tokens' = Tokens
    <3>1. \A q \in Proc : \A s \in held[q] \cup kept[q] : res'[q][s] = res[q][s]
      BY <1>1, <1>6, <1>7 DEF Opened
    <3> QED
      BY <1>1, <2>1, <3>1, TokensStay
  <2>3. Alive' = Alive \cup {o}
    <3>1. None \notin Obj
      BY SlotAssumption
    <3>2. \A q \in Proc, c \in Buf :
            Surfaces'[q][c] = IF q = p /\ c = b THEN o ELSE Surfaces[q][c]
      BY <1>4 DEF Surfaces
    <3>3. ReferencedBy(Surfaces', Tokens) = ReferencedBy(Surfaces, Tokens) \cup {o}
      BY <1>3, <3>1, <3>2 DEF ReferencedBy
    <3> QED
      BY <2>2, <3>3 DEF PoolIsReferenced
  <2>4. CASE o \in Alive
    <3>1. Alive' = Alive
      BY <2>3, <2>4
    <3>2. Promise!Open(p, b)
      BY <1>3, <1>5, <2>2, <2>4, <3>1 DEF Promise!Open, Surfaces, Tokens
    <3> QED
      BY <3>2
  <2>5. CASE o \notin Alive
    <3>1. Promise!Create(p, b)
      BY <1>3, <1>5, <2>2, <2>3, <2>5 DEF Promise!Create, Surfaces, Tokens
    <3> QED
      BY <3>1
  <2> QED
    BY <2>4, <2>5
<1>8. CASE h \in kept[p]
  <2>1. res[p][h] # None /\ h \in Handle \cup Fd
    <3>1. BoGood(p, h)
      BY DEF IInv, Good
    <3> QED
      BY <1>8, <3>1 DEF BoGood
  <2>2. res[p][h] = o
    BY <1>1, <2>1 DEF Opened
  <2>3. Tokens[p][h] = o /\ Tokens[p][h] # None
    BY <1>8, <2>1, <2>2, TokenIs
  <2>4. \A q \in Proc, u \in Handle \cup Fd :
          Tokens'[q][u] = IF q = p /\ u = h THEN None ELSE Tokens[q][u]
    <3> SUFFICES ASSUME NEW q \in Proc, NEW u \in Handle \cup Fd
                 PROVE  Tokens'[q][u] = IF q = p /\ u = h THEN None
                                                          ELSE Tokens[q][u]
      OBVIOUS
    <3>1. u \in held'[q] \cup kept'[q] <=>
            u \in held[q] \cup kept[q] /\ ~(q = p /\ u = h)
      BY <1>1, <1>6 DEF Opened
    <3>2. ~(q = p /\ u = h) => res'[q][u] = res[q][u]
      BY <1>1 DEF Opened, Slot
    <3> QED
      BY <3>1, <3>2, TokenIs DEF Tokens
  <2>5. Tokens' = [Tokens EXCEPT ![p][h] = None]
    <3>1. PICK v \in Obj \cup {None} : v = None
      OBVIOUS
    <3>2. \A q \in Proc, u \in Handle \cup Fd :
            Tokens'[q][u] = IF q = p /\ u = h THEN v ELSE Tokens[q][u]
      BY <2>4, <3>1
    <3>3. TypeOK /\ h \in Handle \cup Fd
      BY <1>2, <2>1
    <3>4. Tokens' = [Tokens EXCEPT ![p][h] = v]
      BY <3>2, <3>3, TokenChanges, SMTT(30)
    <3> QED
      BY <3>1, <3>4
  <2>6. Alive' = Alive
    <3>1. /\ \A q \in Proc, c \in Buf :
               Surfaces'[q][c] = IF q = p /\ c = b THEN o ELSE Surfaces[q][c]
          /\ None \notin Obj
      BY <1>4, SlotAssumption DEF Surfaces
    <3>2. ReferencedBy(Surfaces', Tokens') = ReferencedBy(Surfaces, Tokens)
      BY <1>3, <2>1, <2>3, <2>4, <3>1 DEF ReferencedBy
    <3> QED
      BY <3>2 DEF PoolIsReferenced
  <2>7. Promise!Adopt(p, b)
    BY <1>3, <1>5, <2>1, <2>3, <2>5, <2>6 DEF Promise!Adopt, Surfaces, Tokens
  <2> QED
    BY <2>7
<1> QED
  BY <1>7, <1>8

\* Mapping and unmapping is none.
LEMMA MapsImplement ==
  ASSUME IInv, PoolIsReferenced, PoolIsReferenced', NEW p \in Proc,
         NEW b \in Buf, MapBuffer(p, b) \/ UnmapBuffer(p, b)
  PROVE  UNCHANGED Promise!svars
<1>1. buf \in [Proc -> [Buf -> SurfaceRecord]]
  BY Records DEF IInv
<1>2. /\ held' = held /\ kept' = kept /\ res' = res
      /\ \E v : buf' = [buf EXCEPT ![p][b].buff = v]
  BY DEF MapBuffer, UnmapBuffer
<1>3. \A q \in Proc, c \in Buf : buf'[q][c].obj = buf[q][c].obj
  BY <1>1, <1>2 DEF SurfaceRecord
<1>4. Surfaces' = Surfaces /\ Tokens' = Tokens
  BY <1>2, <1>3 DEF Surfaces, Tokens
<1> QED
  BY <1>4, StutterImplements

\* destroy_buffer() drops a surface, and with it perhaps the object, unless
\* libdrm keeps that.
LEMMA DestroyImplements ==
  ASSUME IInv, TypeOK', PoolIsReferenced, PoolIsReferenced', NEW p \in Proc,
         NEW b \in Buf, DestroyBuffer(p, b)
  PROVE  Promise!Drop(p, b) \/ Promise!Keep(p, b)
<1>1. /\ b \in Live(p) /\ held' = held /\ LetGo(p, buf[p][b])
      /\ buf' = [buf EXCEPT ![p][b] = NoBuffer]
  BY DEF DestroyBuffer
<1>2. TypeOK /\ buf \in [Proc -> [Buf -> SurfaceRecord]]
  BY Records DEF IInv
<1>3. PICK h \in Handle : h = buf[p][b].bo
  BY <1>1 DEF IInv, Good, Owns
<1>4. Left(p, h, b)
  BY <1>1, <1>3, LetGoLeaves
<1>5. Surfaces[p][b] # None
  BY <1>1 DEF Surfaces, Live
<1>6. Surfaces' = [Surfaces EXCEPT ![p][b] = None]
  <2>1. NoBuffer.obj = None
    BY DEF NoBuffer
  <2> QED
    BY <1>1, <1>2, <2>1 DEF Surfaces
<1>7. /\ h \notin held[p] /\ h \notin kept[p] /\ h \in Handle \cup Fd
      /\ \A s \in held[p] \cup kept[p] : s \in Slot \ {h}
  <2>1. b \in Users(p, h)
    BY <1>1, <1>3 DEF Users
  <2>2. h \notin held[p] /\ h \notin kept[p]
    BY <2>1 DEF IInv, Good, Keeps, BoGood
  <2> QED
    BY <1>2, <2>2 DEF TypeOK, BoType, Slot
<1>8. CASE kept'[p] = kept[p]
  <2>1. kept' = kept
    <3>1. kept \in [Proc -> SUBSET Handle] /\ kept' \in [Proc -> SUBSET Handle]
      BY <1>2 DEF TypeOK, BoType
    <3>2. \A q \in Proc : kept'[q] = kept[q]
      BY <1>4, <1>8 DEF Left
    <3> QED
      BY <3>1, <3>2
  <2>2. Tokens' = Tokens
    <3>1. \A q \in Proc : \A s \in held[q] \cup kept[q] : res'[q][s] = res[q][s]
      BY <1>4, <1>7 DEF Left
    <3> QED
      BY <1>1, <2>1, <3>1, TokensStay
  <2>3. Alive' = Promise!ReferencedBy(Surfaces', Tokens)
    BY <2>2, PromiseTerms DEF PoolIsReferenced
  <2>4. Promise!Drop(p, b)
    BY <1>5, <1>6, <2>2, <2>3 DEF Promise!Drop, Surfaces, Tokens
  <2> QED
    BY <2>4
<1>9. CASE kept'[p] # kept[p]
  <2>1. SetAside(p, h)
    BY <1>4, <1>9 DEF Left, Freed, UsedLess
  <2>2. res'[p][h] = buf[p][b].obj /\ buf[p][b].obj \in Obj
    <3>1. res[p][h] = buf[p][b].obj
      BY <1>1, <1>3 DEF IInv, Good, Owns
    <3>2. buf[p][b].obj \in Obj
      BY <1>1, Records DEF IInv, Live, SurfaceRecord
    <3> QED
      BY <2>1, <3>1, <3>2 DEF SetAside
  <2> DEFINE o == buf[p][b].obj
  <2>3. Tokens[p][h] = None
    BY <1>7, TokenIs
  <2>4. \A q \in Proc, u \in Handle \cup Fd :
          Tokens'[q][u] = IF q = p /\ u = h THEN o ELSE Tokens[q][u]
    <3> SUFFICES ASSUME NEW q \in Proc, NEW u \in Handle \cup Fd
                 PROVE  Tokens'[q][u] = IF q = p /\ u = h THEN o ELSE Tokens[q][u]
      OBVIOUS
    <3>1. u \in held'[q] \cup kept'[q] <=>
            u \in held[q] \cup kept[q] \/ (q = p /\ u = h)
      BY <1>1, <1>4, <2>1 DEF Left, SetAside
    <3>2. ~(q = p /\ u = h) => res'[q][u] = res[q][u]
      BY <1>4 DEF Left, Slot
    <3> QED
      BY <2>2, <3>1, <3>2, TokenIs DEF Tokens
  <2>5. Tokens' = [Tokens EXCEPT ![p][h] = o]
    BY <1>2, <1>7, <2>2, <2>4, TokenChanges
  <2>6. Surfaces[p][b] = o
    BY <1>1 DEF Surfaces, Live
  <2>7. Alive' = Alive
    <3>1. \A q \in Proc, c \in Buf :
            Surfaces'[q][c] = IF q = p /\ c = b THEN None ELSE Surfaces[q][c]
      <4>1. /\ Surfaces' = [q \in Proc |-> [c \in Buf |-> buf'[q][c].obj]]
            /\ NoBuffer.obj = None
        BY DEF Surfaces, NoBuffer
      <4>2. \A q \in Proc, c \in Buf :
              buf'[q][c] = IF q = p /\ c = b THEN NoBuffer ELSE buf[q][c]
        BY <1>1, <1>2
      <4> QED
        BY <4>1, <4>2 DEF Surfaces
    <3>2. None \notin Obj /\ b \in Buf
      BY SlotAssumption
    <3>3. ReferencedBy(Surfaces', Tokens') = ReferencedBy(Surfaces, Tokens)
      BY <1>7, <2>3, <2>4, <2>6, <3>1, <3>2 DEF ReferencedBy
    <3> QED
      BY <3>3 DEF PoolIsReferenced
  <2>8. Promise!Keep(p, b)
    BY <1>5, <1>6, <1>7, <2>3, <2>5, <2>6, <2>7 DEF Promise!Keep, Surfaces, Tokens
  <2> QED
    BY <2>8
<1> QED
  BY <1>8, <1>9

\* A new token on an object that is there.
LEMMA TakesImplement ==
  ASSUME IInv, TypeOK', PoolIsReferenced, PoolIsReferenced', NEW p \in Proc,
         CallerExports(p) \/ CallerReceivesFd(p) \/ CallerOpensName(p)
  PROVE  Promise!Take(p)
<1>1. PICK o \in Alive, t \in Handle \cup Fd :
        /\ res[p][t] = None
        /\ res' = Bind(p, {t}, o)
        /\ held' = [held EXCEPT ![p] = @ \cup {t}]
        /\ buf' = buf /\ kept' = kept
  <2>1. CASE CallerReceivesFd(p) \/ CallerOpensName(p)
    <3>1. Named \subseteq Alive
      BY DEF Named, Alive, Slot
    <3> QED
      BY <2>1, <3>1 DEF CallerReceivesFd, CallerOpensName, Free
  <2>2. CASE CallerExports(p)
    <3>1. PICK b \in Live(p), f \in Free(p, Fd) :
            /\ res' = Bind(p, {f}, buf[p][b].obj)
            /\ held' = [held EXCEPT ![p] = @ \cup {f}]
            /\ buf' = buf /\ kept' = kept
      BY <2>2 DEF CallerExports
    <3>2. buf[p][b].bo \in Slot /\ res[p][buf[p][b].bo] = buf[p][b].obj
      BY DEF IInv, Good, Owns, Slot
    <3>3. buf[p][b].obj \in Obj
      BY Records DEF IInv, Live, SurfaceRecord
    <3>4. buf[p][b].obj \in Alive
      BY <3>2, <3>3 DEF Alive
    <3> QED
      BY <3>1, <3>4 DEF Free
  <2> QED
    BY <2>1, <2>2
<1>2. TypeOK /\ ResType /\ o \in Obj /\ None \notin Obj /\ t \in Slot
  BY SlotAssumption DEF IInv, TypeOK, Alive, Slot
<1>3. Tokens[p][t] = None /\ Surfaces' = Surfaces
  BY <1>1, TokenIs DEF Surfaces
<1>4. \A q \in Proc, u \in Handle \cup Fd :
        Tokens'[q][u] = IF q = p /\ u = t THEN o ELSE Tokens[q][u]
  <2> SUFFICES ASSUME NEW q \in Proc, NEW u \in Handle \cup Fd
               PROVE  Tokens'[q][u] = IF q = p /\ u = t THEN o ELSE Tokens[q][u]
    OBVIOUS
  <2>1. u \in held'[q] \cup kept'[q] <=>
          u \in held[q] \cup kept[q] \/ (q = p /\ u = t)
    BY <1>1, <1>2 DEF TypeOK
  <2>2. res'[q][u] = IF q = p /\ u = t THEN o ELSE res[q][u]
    BY <1>1, <1>2 DEF TypeOK, ResType, Bind, Slot
  <2> QED
    BY <2>1, <2>2 DEF Tokens
<1>5. Tokens' = [Tokens EXCEPT ![p][t] = o]
  BY <1>2, <1>4, TokenChanges
<1>6. Alive' = Alive
  <2>1. ReferencedBy(Surfaces, Tokens') = ReferencedBy(Surfaces, Tokens) \cup {o}
    BY <1>2, <1>3, <1>4 DEF ReferencedBy
  <2> QED
    BY <1>1, <1>3, <2>1 DEF PoolIsReferenced
<1> QED
  BY <1>1, <1>3, <1>5, <1>6 DEF Promise!Take, Surfaces, Tokens

\* A set of tokens is given up: only these change, and no surface does.
LEMMA GivesUp ==
  ASSUME IInv, TypeOK', PoolIsReferenced', NEW p \in Proc, buf' = buf,
         NEW T \in SUBSET (held[p] \cup kept[p]),
         held'[p] \cup kept'[p] = (held[p] \cup kept[p]) \ T,
         \A s \in Slot \ T : res'[p][s] = res[p][s],
         \A q \in Proc \ {p} :
           res'[q] = res[q] /\ held'[q] = held[q] /\ kept'[q] = kept[q]
  PROVE  Promise!Discard(p)
<1>1. TypeOK /\ T \subseteq Handle \cup Fd
  BY DEF IInv, TypeOK, BoType
<1>2. Surfaces' = Surfaces
  BY DEF Surfaces
<1>3. \A t \in T : Tokens[p][t] # None
  <2> SUFFICES ASSUME NEW t \in T PROVE Tokens[p][t] # None
    OBVIOUS
  <2>1. res[p][t] # None
    <3>1. CASE t \in held[p]
      BY <3>1 DEF IInv, Good, Keeps
    <3>2. CASE t \in kept[p]
      BY <3>2 DEF IInv, TypeOK, BoType, Good, BoGood
    <3> QED
      BY <3>1, <3>2
  <2> QED
    BY <1>1, <2>1, TokenIs
<1> DEFINE Row == [u \in Handle \cup Fd |-> IF u \in T THEN None ELSE Tokens[p][u]]
           tg == [Tokens EXCEPT ![p] = Row]
<1>4. Tokens' = tg
  <2>1. /\ Tokens \in [Proc -> [Handle \cup Fd -> Obj \cup {None}]]
        /\ Tokens' \in [Proc -> [Handle \cup Fd -> Obj \cup {None}]]
    BY <1>1, TokensTyped, TokensTypedPrimed
  <2>2. Row \in [Handle \cup Fd -> Obj \cup {None}]
    BY <2>1
  <2>3. \A u \in Handle \cup Fd : Tokens'[p][u] = Row[u]
    <3> SUFFICES ASSUME NEW u \in Handle \cup Fd PROVE Tokens'[p][u] = Row[u]
      OBVIOUS
    <3>1. Tokens'[p][u] = IF u \in held'[p] \cup kept'[p] THEN res'[p][u] ELSE None
      BY DEF Tokens
    <3>2. u \notin T => res'[p][u] = res[p][u]
      BY DEF Slot
    <3> QED
      BY <3>1, <3>2, TokenIs
  <2>4. \A q \in Proc \ {p}, u \in Handle \cup Fd : Tokens'[q][u] = Tokens[q][u]
    BY DEF Tokens
  <2> HIDE DEF Row
  <2>5. tg \in [Proc -> [Handle \cup Fd -> Obj \cup {None}]]
    BY <2>1, <2>2
  <2>6. \A q \in Proc, u \in Handle \cup Fd :
          tg[q][u] = IF q = p THEN Row[u] ELSE Tokens[q][u]
    BY <2>1
  <2> HIDE DEF tg
  <2>7. \A q \in Proc, u \in Handle \cup Fd : Tokens'[q][u] = tg[q][u]
    BY <2>3, <2>4, <2>6
  <2> QED
    BY <2>1, <2>5, <2>7, SameTable
<1>5. T \in SUBSET {t \in Handle \cup Fd : Tokens[p][t] # None}
  BY <1>1, <1>3
<1>6. Alive' = Promise!ReferencedBy(Surfaces, Tokens')
  BY <1>2, PromiseTerms DEF PoolIsReferenced
<1> QED
  BY <1>2, <1>4, <1>5, <1>6 DEF Promise!Discard, Surfaces, Tokens

\* What the caller closes is a token it gives up.
LEMMA ReleasesImplement ==
  ASSUME IInv, TypeOK', PoolIsReferenced', NEW p \in Proc, CallerReleases(p)
  PROVE  Promise!Discard(p)
<1>1. PICK t \in held[p] :
        /\ res' = Bind(p, {t}, None)
        /\ held' = [held EXCEPT ![p] = @ \ {t}]
        /\ buf' = buf /\ kept' = kept
  BY DEF CallerReleases, Release
<1>2. ResType /\ None \in Obj \cup {None} /\ t \notin kept[p]
  <2>1. Keeps(p) /\ ResType
    BY DEF IInv, TypeOK, Good
  <2> QED
    BY <2>1 DEF Keeps
<1>3. /\ ResType'
      /\ \A s \in Slot : res'[p][s] = IF s \in {t} THEN None ELSE res[p][s]
      /\ \A q \in Proc \ {p} : res'[q] = res[q]
  BY <1>1, <1>2, BindChanges
<1>4. held'[p] = held[p] \ {t} /\ \A q \in Proc \ {p} : held'[q] = held[q]
  BY <1>1 DEF IInv, TypeOK
<1> DEFINE T == {t}
<1>5. /\ T \in SUBSET (held[p] \cup kept[p])
      /\ held'[p] \cup kept'[p] = (held[p] \cup kept[p]) \ T
      /\ \A s \in Slot \ T : res'[p][s] = res[p][s]
  BY <1>1, <1>2, <1>3, <1>4
<1> HIDE DEF T
<1> QED
  BY <1>1, <1>3, <1>4, <1>5, GivesUp

\* So are the bos that libdrm kept and frees, one at a time or, when the driver
\* is destroyed, all.
LEMMA FreeingImplements ==
  ASSUME IInv, TypeOK', PoolIsReferenced', NEW p \in Proc,
         DestroyDriver(p) \/ LibdrmFrees(p)
  PROVE  Promise!Discard(p)
<1>1. PICK K \in SUBSET kept[p] : FreeBos(p, K) /\ UNCHANGED <<buf, held>>
  <2>1. CASE DestroyDriver(p)
    BY <2>1 DEF DestroyDriver, DestroyManager
  <2>2. CASE LibdrmFrees(p)
    BY <2>2 DEF LibdrmFrees
  <2> QED
    BY <2>1, <2>2
<1>2. K \in SUBSET Handle
  BY DEF IInv, TypeOK, BoType
<1>3. /\ \A s \in Slot : res'[p][s] = IF s \in K THEN None ELSE res[p][s]
      /\ kept'[p] = kept[p] \ K
      /\ \A q \in Proc \ {p} : res'[q] = res[q] /\ kept'[q] = kept[q]
  BY <1>1, <1>2, FreedBos
<1>4. K \cap held[p] = {}
  BY DEF IInv, Good, Keeps
<1>5. /\ K \in SUBSET (held[p] \cup kept[p])
      /\ held'[p] \cup kept'[p] = (held[p] \cup kept[p]) \ K
      /\ \A s \in Slot \ K : res'[p][s] = res[p][s]
  BY <1>1, <1>3, <1>4
<1> QED
  BY <1>1, <1>3, <1>5, GivesUp

\* A process that dies gives up all its surfaces and tokens.
LEMMA DeathImplements ==
  ASSUME TypeOK, PoolIsReferenced', NEW p \in Proc, ProcessDies(p)
  PROVE  Promise!Die(p)
<1>1. Surfaces' = [Surfaces EXCEPT ![p] = [b \in Buf |-> None]]
  <2>1. NoBuffer.obj = None
    BY DEF NoBuffer
  <2> QED
    BY <2>1 DEF ProcessDies, Surfaces, TypeOK
<1>2. Tokens' = [Tokens EXCEPT ![p] = [t \in Handle \cup Fd |-> None]]
  <2>1. \A q \in Proc \ {p} :
          held'[q] = held[q] /\ kept'[q] = kept[q] /\ res'[q] = res[q]
    BY DEF ProcessDies, TypeOK, ResType, BoType, Release, Bind
  <2>2. held'[p] = {} /\ kept'[p] = {}
    BY DEF ProcessDies, TypeOK, BoType
  <2> QED
    BY <2>1, <2>2 DEF Tokens
<1>3. Alive' = Promise!ReferencedBy(Surfaces', Tokens')
  BY PromiseTerms DEF PoolIsReferenced
<1> QED
  BY <1>1, <1>2, <1>3 DEF Promise!Die, Surfaces, Tokens

\* The driver and its callers take steps of the promise only.
LEMMA NextImplements ==
  ~Reimports /\ IInv /\ IInv' /\ PoolIsReferenced /\ PoolIsReferenced'
    /\ [Next]_vars => [Promise!SNext]_(Promise!svars)
<1> SUFFICES ASSUME ~Reimports, IInv, IInv', PoolIsReferenced,
                    PoolIsReferenced', [Next]_vars
             PROVE  [Promise!SNext]_(Promise!svars)
  OBVIOUS
<1>0. TypeOK'
  BY DEF IInv
<1>1. CASE UNCHANGED vars
  <2>1. Surfaces' = Surfaces /\ Tokens' = Tokens
    BY <1>1 DEF vars, Surfaces, Tokens
  <2> QED
    BY <2>1, StutterImplements
<1>2. ASSUME NEW p \in Proc, CreateDriver(p)
      PROVE  UNCHANGED Promise!svars
  <2>1. Surfaces' = Surfaces /\ Tokens' = Tokens
    BY <1>2 DEF CreateDriver, libdrm, Surfaces, Tokens
  <2> QED
    BY <2>1, StutterImplements
<1>3. ASSUME NEW p \in Proc, NEW b \in Buf,
             \/ CreateBuffer(p, b) \/ CreateBufferFromHandle(p, b)
             \/ CreateBufferFromName(p, b) \/ CreateBufferFromPrimeFd(p, b)
      PROVE  Promise!SNext
  <2>1. Makes(p, b)
    BY <1>3, CreateBufferMakes, FromHandleMakes, FromNameMakes, FromPrimeFdMakes
  <2>2. Promise!Create(p, b) \/ Promise!Open(p, b) \/ Promise!Adopt(p, b)
    BY <1>0, <2>1, MakesImplement
  <2> QED
    BY <2>2 DEF Promise!SNext
<1>4. ASSUME NEW p \in Proc, NEW b \in Buf, MapBuffer(p, b) \/ UnmapBuffer(p, b)
      PROVE  UNCHANGED Promise!svars
  BY <1>4, MapsImplement
<1>5. ASSUME NEW p \in Proc, NEW b \in Buf, DestroyBuffer(p, b)
      PROVE  Promise!SNext
  <2>1. Promise!Drop(p, b) \/ Promise!Keep(p, b)
    BY <1>0, <1>5, DestroyImplements
  <2> QED
    BY <2>1 DEF Promise!SNext
<1>6. ASSUME NEW p \in Proc,
             \/ CallerExports(p) \/ CallerReceivesFd(p) \/ CallerOpensName(p)
             \/ CallerReleases(p) \/ ProcessDies(p)
             \/ DestroyDriver(p) \/ LibdrmFrees(p)
      PROVE  Promise!SNext
  <2>1. Promise!Take(p) \/ Promise!Discard(p) \/ Promise!Die(p)
    BY <1>0, <1>6, TakesImplement, ReleasesImplement, FreeingImplements,
       DeathImplements DEF IInv
  <2> QED
    BY <2>1 DEF Promise!SNext
<1> QED
  BY <1>1, <1>2, <1>3, <1>4, <1>5, <1>6 DEF Next

\* The i915 driver keeps the promise: a surface has its object's memory until
\* it is destroyed, and the last reference, libdrm's among them, gives it back.
\* Every import opens a reference of its own: the only tokens that become
\* surfaces (Adopt) are bos that libdrm kept.
THEOREM PromiseKept == ~Reimports => (Spec => KeepsPromise)
<1> SUFFICES ASSUME ~Reimports PROVE Spec => KeepsPromise
  OBVIOUS
<1>1. Init => Promise!SInit
  <2> SUFFICES ASSUME Init PROVE Promise!SInit
    OBVIOUS
  <2>1. /\ Surfaces = [p \in Proc |-> [b \in Buf |-> None]]
        /\ Tokens = [p \in Proc |-> [t \in Handle \cup Fd |-> None]]
    BY DEF Init, Surfaces, Tokens, NoBuffer
  <2>2. Alive = {}
    BY SlotAssumption DEF Init, Alive, NoReferences
  <2> QED
    BY <2>1, <2>2 DEF Promise!SInit, Surfaces, Tokens
<1>2. IInv => PoolIsReferenced
  BY PoolIs
<1> QED
  BY <1>1, <1>2, NextImplements, Invariance, PTL
     DEF Spec, KeepsPromise, Promise!SSpec
=============================================================================
