--------------------------- MODULE SharedSurfaces ---------------------------
(***************************************************************************)
(* What a surface driver promises the processes that share buffer objects. *)
(*                                                                         *)
(* A process gets at an object through its surfaces and through tokens:    *)
(* handles and descriptors that its own code holds, and handles that a     *)
(* library below the driver keeps to use the object again.  The memory of  *)
(* an object is in the pool as long as somebody has one or the other, and  *)
(* goes back in the very step in which the last of them is given up: no    *)
(* surface ever loses its memory to another surface, and none is kept for  *)
(* nobody.                                                                 *)
(***************************************************************************)
CONSTANTS Proc, Surf, Token, Obj, None

VARIABLES
  surf,   \* surf[p][s]: the object behind surface s of p, or None
  tok,    \* tok[p][t]: the object token t of p stands for, or None
  pool    \* the objects that have memory

svars == <<surf, tok, pool>>

ReferencedBy(sf, tk) ==
  {o \in Obj : \E p \in Proc : \/ \E s \in Surf : sf[p][s] = o
                               \/ \E t \in Token : tk[p][t] = o}

SInit ==
  /\ surf = [p \in Proc |-> [s \in Surf |-> None]]
  /\ tok = [p \in Proc |-> [t \in Token |-> None]]
  /\ pool = {}

\* a new object for a new surface
Create(p, s) ==
  /\ surf[p][s] = None
  /\ \E o \in Obj \ pool :
       /\ surf' = [surf EXCEPT ![p][s] = o]
       /\ pool' = pool \cup {o}
  /\ UNCHANGED tok

\* a token becomes a surface on its object
Adopt(p, s) ==
  /\ surf[p][s] = None
  /\ \E t \in Token :
       /\ tok[p][t] # None
       /\ surf' = [surf EXCEPT ![p][s] = tok[p][t]]
       /\ tok' = [tok EXCEPT ![p][t] = None]
  /\ UNCHANGED pool

\* a surface on an object that exists
Open(p, s) ==
  /\ surf[p][s] = None
  /\ \E o \in pool : surf' = [surf EXCEPT ![p][s] = o]
  /\ UNCHANGED <<tok, pool>>

\* a token for an object that exists
Take(p) ==
  /\ \E t \in Token, o \in pool :
       /\ tok[p][t] = None
       /\ tok' = [tok EXCEPT ![p][t] = o]
  /\ UNCHANGED <<surf, pool>>

Drop(p, s) ==
  /\ surf[p][s] # None
  /\ surf' = [surf EXCEPT ![p][s] = None]
  /\ UNCHANGED tok
  /\ pool' = ReferencedBy(surf', tok)

\* a surface is given up, but not its object
Keep(p, s) ==
  /\ surf[p][s] # None
  /\ surf' = [surf EXCEPT ![p][s] = None]
  /\ \E t \in Token : /\ tok[p][t] = None
                       /\ tok' = [tok EXCEPT ![p][t] = surf[p][s]]
  /\ UNCHANGED pool

Discard(p) ==
  /\ \E T \in SUBSET {t \in Token : tok[p][t] # None} :
       tok' = [tok EXCEPT ![p] =
                 [t \in Token |-> IF t \in T THEN None ELSE @[t]]]
  /\ UNCHANGED surf
  /\ pool' = ReferencedBy(surf, tok')

Die(p) ==
  /\ surf' = [surf EXCEPT ![p] = [s \in Surf |-> None]]
  /\ tok' = [tok EXCEPT ![p] = [t \in Token |-> None]]
  /\ pool' = ReferencedBy(surf', tok')

SNext ==
  \E p \in Proc :
    \/ \E s \in Surf : \/ Create(p, s) \/ Adopt(p, s) \/ Open(p, s)
                       \/ Drop(p, s) \/ Keep(p, s)
    \/ Take(p) \/ Discard(p) \/ Die(p)

SSpec == SInit /\ [][SNext]_svars
=============================================================================
