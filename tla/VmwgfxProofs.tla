---------------------------- MODULE VmwgfxProofs ----------------------------
(***************************************************************************)
(* Proofs about the vmwgfx driver for any number of processes, objects,    *)
(* buffers, handles and addresses, and any bound on the maps of a buffer.  *)
(***************************************************************************)
EXTENDS VmwgfxDriver, TLAPS, FiniteSetTheorems

-----------------------------------------------------------------------------
(* The inductive invariant, process by process.  Closing a handle or       *)
(* undoing a mapping is safe because no two buffers have the same; neither *)
(* the types nor the warning are inductive without the exact count.        *)

\* The numbers in a live buffer lead to the buffer's object.
Owns(q) ==
  \A b \in Live(q) :
    LET m == buf[q][b] IN
    /\ m.handle # None /\ res[q][m.handle] = m.obj
    /\ m.buff # None => res[q][m.buff] = m.obj

\* Two live buffers have different handles and different addresses.
Apart(q) ==
  \A b \in Live(q) : \A c \in Live(q) \ {b} :
    /\ buf[q][b].handle # buf[q][c].handle
    /\ buf[q][b].buff # None => buf[q][b].buff # buf[q][c].buff

\* What is open is a live buffer's, or was replaced.
CaredFor(q) ==
  \A s \in Slot :
    res[q][s] # None =>
      s \in replaced[q] \/ \E b \in Live(q) : s \in {buf[q][b].handle, buf[q][b].buff}

\* The count is exact while there is a driver, and the warning afterwards.
Counts(q) ==
  /\ up[q] => nr_bufs[q] = Cardinality(Live(q))
  /\ warned[q] <=> ~up[q] /\ Live(q) # {}

Good(q) == Owns(q) /\ Apart(q) /\ CaredFor(q) /\ Counts(q)

IInv == TypeOK /\ \A q \in Proc : Good(q)

\* A record of buf, which the type invariant says all of them are.
VmwgfxBuffer ==
  [obj : Obj \cup {None}, handle : Handle \cup {None},
   buff : Addr \cup {None}, map_count : Nat]

-----------------------------------------------------------------------------
\* The buffers of a process are finitely many.
LEMMA LiveIsFinite ==
  ASSUME NEW q \in Proc
  PROVE  IsFiniteSet(Live(q)) /\ Cardinality(Live(q)) \in Nat
BY VmwgfxAssumption, FS_Subset, FS_CardinalityType DEF Live

\* Bind changes the slots of S of process p, and nothing else.
LEMMA BindChanges ==
  ASSUME TypeOK, NEW p \in Proc, NEW S, NEW o \in Obj \cup {None},
         res' = Bind(p, S, o)
  PROVE  /\ ResType'
         /\ \A s \in Slot : res'[p][s] = IF s \in S THEN o ELSE res[p][s]
         /\ \A q \in Proc \ {p} : res'[q] = res[q]
BY DEF TypeOK, ResType, Bind

\* A step of process p keeps the invariant if it keeps p's part of it.
LEMMA OneProcess ==
  ASSUME IInv, NEW p \in Proc, TypeOK', Good(p)',
         \A q \in Proc \ {p} :
           /\ res'[q] = res[q] /\ buf'[q] = buf[q] /\ replaced'[q] = replaced[q]
           /\ up'[q] = up[q] /\ nr_bufs'[q] = nr_bufs[q] /\ warned'[q] = warned[q]
  PROVE  IInv'
<1> SUFFICES ASSUME NEW q \in Proc \ {p} PROVE Good(q)'
  BY DEF IInv
<1>1. Live(q)' = Live(q)
  BY DEF Live
<1>2. Good(q)
  BY DEF IInv
<1> QED
  BY <1>1, <1>2 DEF Good, Owns, Apart, CaredFor, Counts

\* The initial state satisfies the invariant.
LEMMA InitInv == Init => IInv
<1> SUFFICES ASSUME Init PROVE IInv
  OBVIOUS
<1>1. TypeOK
  BY DEF Init, TypeOK, ResType, NoReferences, NoBuffer
<1>2. \A q \in Proc : Live(q) = {}
  BY DEF Init, Live, NoBuffer
<1>3. \A q \in Proc : \A s \in Slot : res[q][s] = None
  BY DEF Init, NoReferences
<1>4. \A q \in Proc : Counts(q)
  BY <1>2, FS_EmptySet DEF Init, Counts
<1> QED
  BY <1>1, <1>2, <1>3, <1>4 DEF IInv, Good, Owns, Apart, CaredFor

-----------------------------------------------------------------------------
(* One lemma for each action.                                              *)

\* create_driver() keeps the invariant.
LEMMA CreateDriverStep ==
  ASSUME IInv, NEW p \in Proc, CreateDriver(p)
  PROVE  IInv'
<1>1. TypeOK'
  BY DEF IInv, TypeOK, ResType, CreateDriver
<1>2. Live(p)' = {} /\ Live(p) = {}
  BY DEF CreateDriver, Live
<1>3. Good(p)'
  <2>1. nr_bufs'[p] = 0 /\ up'[p] /\ ~warned'[p]
    BY DEF IInv, TypeOK, CreateDriver
  <2>2. Counts(p)'
    BY <1>2, <2>1, FS_EmptySet DEF Counts
  <2> QED
    BY <1>2, <2>2 DEF IInv, Good, Owns, Apart, CaredFor, CreateDriver
<1>4. \A q \in Proc \ {p} :
        up'[q] = up[q] /\ nr_bufs'[q] = nr_bufs[q] /\ warned'[q] = warned[q]
  BY DEF IInv, TypeOK, CreateDriver
<1> QED
  BY <1>1, <1>3, <1>4, OneProcess DEF CreateDriver

\* destroy_driver() keeps the invariant: the count tells whether to warn.
LEMMA DestroyDriverStep ==
  ASSUME IInv, NEW p \in Proc, DestroyDriver(p)
  PROVE  IInv'
<1>1. TypeOK'
  BY DEF IInv, TypeOK, ResType, DestroyDriver
<1>2. Live(p)' = Live(p)
  BY DEF DestroyDriver, Live
<1>3. Good(p)'
  <2>1. ~up'[p] /\ (warned'[p] <=> Cardinality(Live(p)) # 0)
    BY DEF IInv, TypeOK, Good, Counts, DestroyDriver
  <2>2. Counts(p)'
    BY <1>2, <2>1, LiveIsFinite, FS_EmptySet DEF Counts
  <2> QED
    BY <1>2, <2>2 DEF IInv, Good, Owns, Apart, CaredFor, DestroyDriver
<1>4. \A q \in Proc \ {p} :
        up'[q] = up[q] /\ nr_bufs'[q] = nr_bufs[q] /\ warned'[q] = warned[q]
  BY DEF IInv, TypeOK, DestroyDriver
<1> QED
  BY <1>1, <1>3, <1>4, OneProcess DEF DestroyDriver

\* create_buffer() keeps the invariant: the handle it gets is no other's.
LEMMA CreateBufferStep ==
  ASSUME IInv, NEW p \in Proc, NEW b \in Buf, CreateBuffer(p, b)
  PROVE  IInv'
<1>1. PICK o \in Obj \ Alive, h \in Free(p, Handle) :
        /\ up[p] /\ b \notin Live(p)
        /\ res' = Bind(p, {h}, o)
        /\ buf' = [buf EXCEPT ![p][b] =
                     [obj |-> o, handle |-> h, buff |-> None, map_count |-> 0]]
        /\ CountBuffer(p)
        /\ UNCHANGED <<up, warned, replaced>>
  BY DEF CreateBuffer
<1> DEFINE m == [obj |-> o, handle |-> h, buff |-> None, map_count |-> 0]
<1>2. /\ o \in Obj /\ o # None /\ h \in Handle /\ h \in Slot /\ h # None
      /\ res[p][h] = None
  BY <1>1, SlotAssumption DEF Free, Slot
<1>3. /\ ResType'
      /\ \A s \in Slot : res'[p][s] = IF s = h THEN o ELSE res[p][s]
      /\ \A q \in Proc \ {p} : res'[q] = res[q]
  <2>1. o \in Obj \cup {None} /\ res' = Bind(p, {h}, o) /\ TypeOK
    BY <1>1, <1>2 DEF IInv
  <2>2. /\ ResType'
        /\ \A s \in Slot : res'[p][s] = IF s \in {h} THEN o ELSE res[p][s]
        /\ \A q \in Proc \ {p} : res'[q] = res[q]
    BY <2>1, BindChanges
  <2> QED
    BY <2>2
<1>4. TypeOK'
  <2>1. m \in VmwgfxBuffer
    BY <1>2 DEF VmwgfxBuffer
  <2>2. buf' \in [Proc -> [Buf -> VmwgfxBuffer]]
    BY <1>1, <2>1 DEF IInv, TypeOK, VmwgfxBuffer
  <2> QED
    BY <1>1, <1>3, <2>2 DEF IInv, TypeOK, VmwgfxBuffer, CountBuffer
<1>5. \A c \in Buf : buf'[p][c] = IF c = b THEN m ELSE buf[p][c]
  BY <1>1 DEF IInv, TypeOK
<1>6. Live(p)' = Live(p) \cup {b}
  BY <1>2, <1>5 DEF Live
<1>7. \A c \in Live(p) :
        /\ c \in Buf /\ c # b /\ buf[p][c].obj # None
        /\ buf[p][c].handle \in Handle /\ buf[p][c].handle # h
        /\ buf[p][c].buff \in Addr \cup {None}
  BY <1>1, <1>2 DEF IInv, TypeOK, Good, Owns, Live
<1>8. Owns(p)'
  BY <1>2, <1>3, <1>5, <1>6, <1>7, SlotAssumption DEF IInv, Good, Owns, Slot
<1>9. Apart(p)'
  BY <1>5, <1>6, <1>7 DEF IInv, Good, Apart
<1>10. CaredFor(p)'
  <2> SUFFICES ASSUME NEW s \in Slot, res'[p][s] # None
               PROVE  \/ s \in replaced'[p]
                      \/ \E c \in Live(p)' : s \in {buf'[p][c].handle, buf'[p][c].buff}
    BY DEF CaredFor
  <2>1. CASE s = h
    BY <1>5, <1>6, <2>1
  <2>2. CASE s # h
    <3>1. s \in replaced[p] \/ \E c \in Live(p) : s \in {buf[p][c].handle, buf[p][c].buff}
      BY <1>3, <2>2 DEF IInv, Good, CaredFor
    <3> QED
      BY <1>1, <1>5, <1>6, <1>7, <3>1
  <2> QED
    BY <2>1, <2>2
<1>11. Counts(p)'
  <2>1. Cardinality(Live(p)') = Cardinality(Live(p)) + 1
    BY <1>1, <1>6, LiveIsFinite, FS_AddElement
  <2>2. nr_bufs'[p] = nr_bufs[p] + 1 /\ up'[p] /\ ~warned'[p]
    BY <1>1 DEF IInv, TypeOK, Good, Counts, CountBuffer
  <2> QED
    BY <1>1, <2>1, <2>2 DEF IInv, Good, Counts
<1>12. \A q \in Proc \ {p} : buf'[q] = buf[q] /\ nr_bufs'[q] = nr_bufs[q]
  BY <1>1 DEF IInv, TypeOK, CountBuffer
<1> QED
  BY <1>1, <1>3, <1>4, <1>8, <1>9, <1>10, <1>11, <1>12, OneProcess DEF Good

\* map_buffer() keeps the invariant: the address it gets is no other's, and
\* the one it overwrites is among the replaced ones.
LEMMA MapBufferStep ==
  ASSUME IInv, NEW p \in Proc, NEW b \in Buf, MapBuffer(p, b)
  PROVE  IInv'
<1>1. PICK a \in Free(p, Addr) :
        /\ up[p] /\ b \in Live(p) /\ buf[p][b].map_count < MaxMaps
        /\ res' = Bind(p, {a}, buf[p][b].obj)
        /\ buf' = [buf EXCEPT ![p][b].buff = a, ![p][b].map_count = @ + 1]
        /\ replaced' = [replaced EXCEPT ![p] = @ \cup ({buf[p][b].buff} \ {None})]
        /\ UNCHANGED <<up, nr_bufs, warned>>
  BY DEF MapBuffer
<1> DEFINE o == buf[p][b].obj
<1>2. buf[p][b] \in VmwgfxBuffer
  BY DEF IInv, TypeOK, VmwgfxBuffer
<1>3. /\ o \in Obj /\ o # None /\ a \in Addr /\ a \in Slot /\ a # None
      /\ res[p][a] = None
  BY <1>1, <1>2, SlotAssumption DEF Free, Slot, Live, VmwgfxBuffer
<1>4. /\ ResType'
      /\ \A s \in Slot : res'[p][s] = IF s = a THEN o ELSE res[p][s]
      /\ \A q \in Proc \ {p} : res'[q] = res[q]
  <2>1. o \in Obj \cup {None} /\ res' = Bind(p, {a}, o) /\ TypeOK
    BY <1>1, <1>3 DEF IInv
  <2> HIDE DEF o
  <2>2. /\ ResType'
        /\ \A s \in Slot : res'[p][s] = IF s \in {a} THEN o ELSE res[p][s]
        /\ \A q \in Proc \ {p} : res'[q] = res[q]
    BY <2>1, BindChanges
  <2> QED
    BY <2>2
<1>5. /\ buf'[p][b] \in VmwgfxBuffer
      /\ buf'[p][b].obj = o /\ buf'[p][b].handle = buf[p][b].handle
      /\ buf'[p][b].buff = a
      /\ \A c \in Buf \ {b} : buf'[p][c] = buf[p][c]
      /\ \A q \in Proc \ {p} : buf'[q] = buf[q]
      /\ buf' \in [Proc -> [Buf -> VmwgfxBuffer]]
  <2> DEFINE m == [buf[p][b] EXCEPT !.buff = a, !.map_count = @ + 1]
  <2>1. /\ m \in VmwgfxBuffer /\ m.obj = o
        /\ m.handle = buf[p][b].handle /\ m.buff = a
    <3>1. buf[p][b].map_count + 1 \in Nat
      BY <1>2 DEF VmwgfxBuffer
    <3>2. m = [obj |-> o, handle |-> buf[p][b].handle, buff |-> a,
               map_count |-> buf[p][b].map_count + 1]
      <4>1. ASSUME NEW r \in VmwgfxBuffer, NEW n \in Nat
            PROVE  [[r EXCEPT !.buff = a] EXCEPT !.map_count = n] =
                     [obj |-> r.obj, handle |-> r.handle, buff |-> a, map_count |-> n]
        <5> DEFINE r1 == [r EXCEPT !.buff = a]
        <5>1. /\ r1 \in VmwgfxBuffer
              /\ r1.obj = r.obj /\ r1.handle = r.handle /\ r1.buff = a
          BY <1>3 DEF VmwgfxBuffer
        <5> HIDE DEF r1
        <5>2. [r1 EXCEPT !.map_count = n] =
                [obj |-> r1.obj, handle |-> r1.handle, buff |-> r1.buff, map_count |-> n]
          BY <5>1 DEF VmwgfxBuffer
        <5> QED
          BY <5>1, <5>2 DEF r1
      <4> QED
        BY <1>2, <3>1, <4>1
    <3> QED
      BY <1>2, <1>3, <3>1, <3>2 DEF VmwgfxBuffer
  <2>2. buf \in [Proc -> [Buf -> VmwgfxBuffer]]
    BY DEF IInv, TypeOK, VmwgfxBuffer
  <2>3. buf' = [buf EXCEPT ![p][b] = m]
    BY <1>1, <2>2 DEF VmwgfxBuffer
  <2> HIDE DEF m
  <2>4. /\ buf'[p][b] = m
        /\ \A c \in Buf \ {b} : buf'[p][c] = buf[p][c]
        /\ \A q \in Proc \ {p} : buf'[q] = buf[q]
        /\ buf' \in [Proc -> [Buf -> VmwgfxBuffer]]
    BY <2>1, <2>2, <2>3
  <2> QED
    BY <2>1, <2>4
<1>6. TypeOK'
  <2>1. replaced' \in [Proc -> SUBSET Addr]
    BY <1>1, <1>2 DEF IInv, TypeOK, VmwgfxBuffer
  <2> QED
    BY <1>1, <1>4, <1>5, <2>1 DEF IInv, TypeOK, VmwgfxBuffer
<1>7. Live(p)' = Live(p)
  BY <1>3, <1>5 DEF Live
<1>8. \A c \in Live(p) :
        /\ c \in Buf /\ buf[p][c].obj # None
        /\ buf[p][c].handle \in Handle
        /\ buf[p][c].buff \in Addr \cup {None} /\ buf[p][c].buff # a
        /\ buf[p][c].handle # a
  BY <1>3, SlotAssumption DEF IInv, TypeOK, Good, Owns, Live
<1>9. Owns(p)'
  <2>1. \A c \in Live(p) \ {b} :
          LET m == buf'[p][c] IN
          /\ m.handle # None /\ res'[p][m.handle] = m.obj
          /\ m.buff # None => res'[p][m.buff] = m.obj
    BY <1>4, <1>5, <1>8 DEF IInv, Good, Owns, Slot
  <2>2. res'[p][buf[p][b].handle] = o /\ buf[p][b].handle # None
    <3>1. res[p][buf[p][b].handle] = o /\ buf[p][b].handle # None
      BY <1>1 DEF IInv, Good, Owns
    <3>2. buf[p][b].handle \in Slot /\ buf[p][b].handle # a
      BY <1>1, <1>8 DEF Slot
    <3> QED
      BY <1>4, <3>1, <3>2
  <2> QED
    BY <1>3, <1>4, <1>5, <1>7, <2>1, <2>2 DEF Owns
<1>10. Apart(p)'
  BY <1>5, <1>7, <1>8 DEF IInv, Good, Apart
<1>11. CaredFor(p)'
  <2> SUFFICES ASSUME NEW s \in Slot, res'[p][s] # None
               PROVE  \/ s \in replaced'[p]
                      \/ \E c \in Live(p) : s \in {buf'[p][c].handle, buf'[p][c].buff}
    BY <1>7 DEF CaredFor
  <2>1. replaced'[p] = replaced[p] \cup ({buf[p][b].buff} \ {None})
    BY <1>1 DEF IInv, TypeOK
  <2>2. CASE s = a
    BY <1>1, <1>5, <2>2
  <2>3. CASE s # a
    <3>1. s \in replaced[p] \/ \E c \in Live(p) : s \in {buf[p][c].handle, buf[p][c].buff}
      BY <2>3, <1>4 DEF IInv, Good, CaredFor
    <3>2. s # None
      BY SlotAssumption
    <3> QED
      BY <2>1, <3>1, <3>2, <1>5, <1>8
  <2> QED
    BY <2>2, <2>3
<1>12. Counts(p)'
  BY <1>1, <1>7 DEF IInv, Good, Counts
<1>13. \A q \in Proc \ {p} : replaced'[q] = replaced[q]
  BY <1>1 DEF IInv, TypeOK
<1> QED
  BY <1>1, <1>4, <1>5, <1>6, <1>9, <1>10, <1>11, <1>12, <1>13, OneProcess DEF Good

\* unmap_buffer() keeps the invariant: it only counts.
LEMMA UnmapBufferStep ==
  ASSUME IInv, NEW p \in Proc, NEW b \in Buf, UnmapBuffer(p, b)
  PROVE  IInv'
<1>1. buf[p][b] \in VmwgfxBuffer /\ buf[p][b].map_count > 0
  BY DEF IInv, TypeOK, VmwgfxBuffer, UnmapBuffer
<1>2. /\ buf' \in [Proc -> [Buf -> VmwgfxBuffer]]
      /\ \A c \in Buf : /\ buf'[p][c].obj = buf[p][c].obj
                        /\ buf'[p][c].handle = buf[p][c].handle
                        /\ buf'[p][c].buff = buf[p][c].buff
      /\ \A q \in Proc \ {p} : buf'[q] = buf[q]
  <2> DEFINE m == [buf[p][b] EXCEPT !.map_count = @ - 1]
  <2>1. /\ m \in VmwgfxBuffer /\ m.obj = buf[p][b].obj
        /\ m.handle = buf[p][b].handle /\ m.buff = buf[p][b].buff
    BY <1>1 DEF VmwgfxBuffer
  <2>2. buf \in [Proc -> [Buf -> VmwgfxBuffer]]
    BY DEF IInv, TypeOK, VmwgfxBuffer
  <2>3. buf' = [buf EXCEPT ![p][b] = m]
    BY <2>2 DEF VmwgfxBuffer, UnmapBuffer
  <2> HIDE DEF m
  <2>4. /\ buf'[p][b] = m
        /\ \A c \in Buf \ {b} : buf'[p][c] = buf[p][c]
        /\ \A q \in Proc \ {p} : buf'[q] = buf[q]
        /\ buf' \in [Proc -> [Buf -> VmwgfxBuffer]]
    BY <2>1, <2>2, <2>3
  <2> QED
    BY <2>1, <2>4
<1>3. TypeOK'
  BY <1>2 DEF IInv, TypeOK, ResType, VmwgfxBuffer, UnmapBuffer
<1>4. Live(p)' = Live(p) /\ \A c \in Live(p) : c \in Buf
  BY <1>2 DEF Live
<1>5. Good(p)'
  BY <1>2, <1>4 DEF IInv, Good, Owns, Apart, CaredFor, Counts, UnmapBuffer
<1> QED
  BY <1>2, <1>3, <1>5, OneProcess DEF UnmapBuffer

\* destroy_buffer() keeps the invariant: what it gives back is no other's.
LEMMA DestroyBufferStep ==
  ASSUME IInv, NEW p \in Proc, NEW b \in Buf, DestroyBuffer(p, b)
  PROVE  IInv'
<1> DEFINE S == {buf[p][b].handle, buf[p][b].buff} \ {None}
<1>1. /\ up[p] /\ b \in Live(p)
      /\ res' = Bind(p, S, None)
      /\ buf' = [buf EXCEPT ![p][b] = NoBuffer]
      /\ nr_bufs' = [nr_bufs EXCEPT ![p] = @ - 1]
      /\ UNCHANGED <<up, warned, replaced>>
  BY DEF DestroyBuffer, DiscountBuffer, Release, Released
<1>2. /\ ResType'
      /\ \A s \in Slot : res'[p][s] = IF s \in S THEN None ELSE res[p][s]
      /\ \A q \in Proc \ {p} : res'[q] = res[q]
  BY <1>1, BindChanges DEF IInv
<1>3. NoBuffer \in VmwgfxBuffer /\ NoBuffer.obj = None
  BY DEF NoBuffer, VmwgfxBuffer
<1>4. /\ buf' \in [Proc -> [Buf -> VmwgfxBuffer]]
      /\ \A c \in Buf : buf'[p][c] = IF c = b THEN NoBuffer ELSE buf[p][c]
      /\ \A q \in Proc \ {p} : buf'[q] = buf[q]
  BY <1>1, <1>3 DEF IInv, TypeOK, VmwgfxBuffer
<1>5. Live(p)' = Live(p) \ {b}
  BY <1>3, <1>4 DEF Live
<1>6. /\ Cardinality(Live(p)') = Cardinality(Live(p)) - 1
      /\ Cardinality(Live(p)) \in Nat /\ Cardinality(Live(p)) # 0
  BY <1>1, <1>5, LiveIsFinite, FS_RemoveElement, FS_EmptySet
<1>7. nr_bufs[p] = Cardinality(Live(p)) /\ ~warned[p]
  BY <1>1 DEF IInv, Good, Counts
<1>8. TypeOK'
  <2>1. nr_bufs' \in [Proc -> Nat]
    <3>1. nr_bufs \in [Proc -> Nat] /\ nr_bufs[p] # 0
      BY <1>6, <1>7 DEF IInv, TypeOK
    <3>2. nr_bufs[p] - 1 \in Nat
      BY <3>1
    <3> QED
      BY <1>1, <3>1, <3>2
  <2> QED
    BY <1>1, <1>2, <1>4, <2>1 DEF IInv, TypeOK, VmwgfxBuffer
<1>9. \A c \in Live(p) :
        /\ c \in Buf /\ buf[p][c].handle \in Handle
        /\ buf[p][c].buff \in Addr \cup {None}
  BY DEF IInv, TypeOK, Good, Owns, Live
<1>10. \A c \in Live(p) \ {b} :
         buf[p][c].handle \notin S /\ buf[p][c].buff \notin S
  <2>1. \A c \in Live(p) \ {b} :
          /\ buf[p][c].handle # buf[p][b].handle
          /\ buf[p][c].buff # None => buf[p][c].buff # buf[p][b].buff
    BY <1>1 DEF IInv, Good, Apart
  <2> QED
    BY <1>1, <1>9, <2>1, SlotAssumption DEF Slot
<1>11. Owns(p)'
  BY <1>2, <1>4, <1>5, <1>9, <1>10 DEF IInv, Good, Owns, Slot
<1>12. Apart(p)'
  BY <1>4, <1>5, <1>9 DEF IInv, Good, Apart
<1>13. CaredFor(p)'
  <2> SUFFICES ASSUME NEW s \in Slot, res'[p][s] # None
               PROVE  \/ s \in replaced'[p]
                      \/ \E c \in Live(p)' : s \in {buf'[p][c].handle, buf'[p][c].buff}
    BY DEF CaredFor
  <2>1. s \notin S /\ res[p][s] # None /\ s # None
    BY <1>2, SlotAssumption
  <2>2. s \in replaced[p] \/ \E c \in Live(p) : s \in {buf[p][c].handle, buf[p][c].buff}
    BY <2>1 DEF IInv, Good, CaredFor
  <2> QED
    BY <1>1, <1>4, <1>5, <1>9, <2>1, <2>2
<1>14. Counts(p)'
  <2>1. nr_bufs'[p] = nr_bufs[p] - 1 /\ up'[p] /\ ~warned'[p]
    BY <1>1, <1>7 DEF IInv, TypeOK
  <2> QED
    BY <1>6, <1>7, <2>1 DEF Counts
<1>15. \A q \in Proc \ {p} : nr_bufs'[q] = nr_bufs[q]
  BY <1>1 DEF IInv, TypeOK
<1> QED
  BY <1>1, <1>2, <1>4, <1>8, <1>11, <1>12, <1>13, <1>14, <1>15, OneProcess DEF Good

\* The end of a process keeps the invariant: it leaves nothing.
LEMMA ProcessDiesStep ==
  ASSUME IInv, NEW p \in Proc, ProcessDies(p)
  PROVE  IInv'
<1>1. /\ ResType'
      /\ \A s \in Slot : res'[p][s] = None
      /\ \A q \in Proc \ {p} : res'[q] = res[q]
  BY BindChanges DEF IInv, ProcessDies, Release
<1>2. TypeOK'
  BY <1>1 DEF IInv, TypeOK, ProcessDies, NoBuffer
<1>3. Live(p)' = {} /\ ~up'[p] /\ ~warned'[p]
  BY DEF IInv, TypeOK, ProcessDies, Live, NoBuffer
<1>4. Good(p)'
  BY <1>1, <1>3 DEF Good, Owns, Apart, CaredFor, Counts
<1>5. \A q \in Proc \ {p} :
        /\ buf'[q] = buf[q] /\ replaced'[q] = replaced[q]
        /\ up'[q] = up[q] /\ nr_bufs'[q] = nr_bufs[q] /\ warned'[q] = warned[q]
  BY DEF IInv, TypeOK, ProcessDies
<1> QED
  BY <1>1, <1>2, <1>4, <1>5, OneProcess

\* Every step keeps the invariant.
LEMMA NextInv == IInv /\ [Next]_vars => IInv'
<1> SUFFICES ASSUME IInv, [Next]_vars PROVE IInv'
  OBVIOUS
<1>1. CASE UNCHANGED vars
  <2>1. TypeOK'
    BY <1>1 DEF vars, IInv, TypeOK, ResType
  <2>2. ASSUME NEW q \in Proc PROVE Good(q)'
    <3>1. Live(q)' = Live(q) /\ Good(q)
      BY <1>1 DEF vars, IInv, Live
    <3> QED
      BY <1>1, <3>1 DEF vars, Good, Owns, Apart, CaredFor, Counts
  <2> QED
    BY <2>1, <2>2 DEF IInv
<1>2. ASSUME NEW p \in Proc, CreateDriver(p) PROVE IInv'
  BY <1>2, CreateDriverStep
<1>3. ASSUME NEW p \in Proc, DestroyDriver(p) PROVE IInv'
  BY <1>3, DestroyDriverStep
<1>4. ASSUME NEW p \in Proc, NEW b \in Buf, CreateBuffer(p, b) PROVE IInv'
  BY <1>4, CreateBufferStep
<1>5. ASSUME NEW p \in Proc, NEW b \in Buf, MapBuffer(p, b) PROVE IInv'
  BY <1>5, MapBufferStep
<1>6. ASSUME NEW p \in Proc, NEW b \in Buf, UnmapBuffer(p, b) PROVE IInv'
  BY <1>6, UnmapBufferStep
<1>7. ASSUME NEW p \in Proc, NEW b \in Buf, DestroyBuffer(p, b) PROVE IInv'
  BY <1>7, DestroyBufferStep
<1>8. ASSUME NEW p \in Proc, ProcessDies(p) PROVE IInv'
  BY <1>8, ProcessDiesStep
<1> QED
  BY <1>1, <1>2, <1>3, <1>4, <1>5, <1>6, <1>7, <1>8 DEF Next

-----------------------------------------------------------------------------
\* The inductive invariant holds in every reachable state.
THEOREM Invariance == Spec => []IInv
BY InitInv, NextInv, PTL DEF Spec

\* Every variable keeps to its type; no counter is counted below 0.
THEOREM TypeCorrect == Spec => []TypeOK
<1>1. IInv => TypeOK
  BY DEF IInv
<1> QED
  BY <1>1, Invariance, PTL

\* The address in a buffer is its own, mapped or unmapped.
THEOREM AddressOwned == Spec => []AddressIsOwn
<1>1. IInv => AddressIsOwn
  BY DEF IInv, Good, Owns, Apart, AddressIsOwn
<1> QED
  BY <1>1, Invariance, PTL

\* destroy_driver() warns if and only if buffers are left.
THEOREM WarningExact == Spec => []WarningIsExact
<1>1. IInv => WarningIsExact
  BY DEF IInv, Good, Counts, WarningIsExact
<1> QED
  BY <1>1, Invariance, PTL

\* Only mappings that a second map_buffer() replaced are never given back.
THEOREM OnlyReplacedLeak == Spec => []OnlyReplacedMappingsLeak
<1>1. IInv => OnlyReplacedMappingsLeak
  BY DEF IInv, Good, CaredFor, OnlyReplacedMappingsLeak
<1> QED
  BY <1>1, Invariance, PTL
=============================================================================
