------------------------- MODULE IntelChipsetProofs -------------------------
(***************************************************************************)
(* Proofs about the identification of chips, for any set of PCI ids.       *)
(***************************************************************************)
EXTENDS IntelChipset, TLAPS

-----------------------------------------------------------------------------
(* The table and its searches.                                             *)

\* The lines of the table, in its order.
LEMMA Table ==
  /\ DOMAIN pciids = 1 .. 9
  /\ pciids[1].ids = TGL_IDS /\ pciids[1].gen = 12
  /\ pciids[2].ids = EHL_IDS /\ pciids[2].gen = 11
  /\ pciids[3].ids = ICL_IDS /\ pciids[3].gen = 11
  /\ pciids[4].ids = CNL_IDS /\ pciids[4].gen = 10
  /\ pciids[5].ids = CFL_IDS /\ pciids[5].gen = 9
  /\ pciids[6].ids = GLK_IDS /\ pciids[6].gen = 9
  /\ pciids[7].ids = KBL_IDS /\ pciids[7].gen = 9
  /\ pciids[8].ids = BXT_IDS /\ pciids[8].gen = 9
  /\ pciids[9].ids = SKL_IDS /\ pciids[9].gen = 9
BY DEF pciids

\* The latest generation comes first.
LEMMA Sorted ==
  /\ \A i \in 1 .. 9 : pciids[i].gen \in 9 .. 12
  /\ \A i, j \in 1 .. 9 : i <= j => pciids[j].gen <= pciids[i].gen
BY Table

\* A search ends at the first of the lines it may end at.
LEMMA FirstLineIsFirst ==
  ASSUME NEW S \in SUBSET (1 .. 9)
  PROVE  /\ S = {} => FirstLine(S) = 0
         /\ S # {} => /\ FirstLine(S) \in S
                      /\ \A j \in S : FirstLine(S) <= j
<1>1. CASE S = {}
  BY <1>1 DEF FirstLine
<1>2. CASE S # {}
  <2> DEFINE First(i) == i \in S /\ \A j \in S : i <= j
  <2>1. First(1) \/ 1 \notin S
    OBVIOUS
  <2>2. First(1) \/ First(2) \/ S \cap (1 .. 2) = {}
    BY <2>1
  <2>3. (\E i \in S : First(i)) \/ S \cap (1 .. 4) = {}
    <3>1. First(3) \/ 3 \notin S \/ S \cap (1 .. 2) # {}
      OBVIOUS
    <3>2. First(4) \/ 4 \notin S \/ S \cap (1 .. 3) # {}
      OBVIOUS
    <3> QED
      BY <2>2, <3>1, <3>2
  <2>4. (\E i \in S : First(i)) \/ S \cap (1 .. 6) = {}
    <3>1. First(5) \/ 5 \notin S \/ S \cap (1 .. 4) # {}
      OBVIOUS
    <3>2. First(6) \/ 6 \notin S \/ S \cap (1 .. 5) # {}
      OBVIOUS
    <3> QED
      BY <2>3, <3>1, <3>2
  <2>5. (\E i \in S : First(i)) \/ S \cap (1 .. 8) = {}
    <3>1. First(7) \/ 7 \notin S \/ S \cap (1 .. 6) # {}
      OBVIOUS
    <3>2. First(8) \/ 8 \notin S \/ S \cap (1 .. 7) # {}
      OBVIOUS
    <3> QED
      BY <2>4, <3>1, <3>2
  <2>6. \E i \in S : First(i)
    <3>1. First(9) \/ 9 \notin S \/ S \cap (1 .. 8) # {}
      OBVIOUS
    <3>2. 9 \in S \/ S \cap (1 .. 8) # {}
      <4>1. PICK e \in S : e \in 1 .. 9
        BY <1>2
      <4>2. e = 9 \/ e \in 1 .. 8
        BY <4>1
      <4> QED
        BY <4>2
    <3> QED
      BY <2>5, <3>1, <3>2
  <2> QED
    BY <1>2, <2>6 DEF FirstLine
<1> QED
  BY <1>1, <1>2

\* The lines that list an id, and those where intel_is_genx() may stop.
Lines(id)      == {k \in DOMAIN pciids : id \in pciids[k].ids}
Stops(id, gen) ==
  {k \in DOMAIN pciids : pciids[k].gen < gen \/ id \in pciids[k].ids}

\* intel_get_genx() finds the generation of a line that lists the id.
LEMMA GetFinds ==
  ASSUME NEW id
  PROVE  \/ Lines(id) = {} /\ intel_get_genx(id) = 0
         \/ \E k \in 1 .. 9 :
              /\ id \in pciids[k].ids /\ intel_get_genx(id) = pciids[k].gen
              /\ \A j \in Lines(id) : k <= j
<1>1. Lines(id) \in SUBSET (1 .. 9)
  BY Table DEF Lines
<1>2. intel_get_genx(id) = IF FirstLine(Lines(id)) = 0 THEN 0
                           ELSE pciids[FirstLine(Lines(id))].gen
  BY DEF intel_get_genx, Lines
<1>3. CASE Lines(id) = {}
  BY <1>1, <1>2, <1>3, FirstLineIsFirst
<1>4. CASE Lines(id) # {}
  <2>1. PICK k \in Lines(id) : k = FirstLine(Lines(id)) /\ \A j \in Lines(id) : k <= j
    BY <1>1, <1>4, FirstLineIsFirst
  <2>2. k \in 1 .. 9 /\ id \in pciids[k].ids
    BY <2>1, Table DEF Lines
  <2> QED
    BY <1>2, <2>1, <2>2
<1> QED
  BY <1>3, <1>4

\* intel_is_genx() may stop early, the table being sorted.
LEMMA SearchesAgreeOn ==
  ASSUME NEW id, NEW gen \in 9 .. 12
  PROVE  intel_is_genx(id, gen) <=> intel_get_genx(id) = gen
<1> DEFINE i == FirstLine(Stops(id, gen))
<1>1. Stops(id, gen) \in SUBSET (1 .. 9) /\ Lines(id) \subseteq Stops(id, gen)
  BY Table DEF Stops, Lines
<1>2. intel_is_genx(id, gen) <=> i # 0 /\ pciids[i].gen = gen
  BY DEF intel_is_genx, Stops
<1>3. \/ Stops(id, gen) = {} /\ i = 0
      \/ i \in Stops(id, gen) /\ \A j \in Stops(id, gen) : i <= j
  BY <1>1, FirstLineIsFirst
<1> HIDE DEF i
<1>4. ASSUME i # 0, pciids[i].gen = gen
      PROVE  intel_get_genx(id) = gen
  <2>1. i \in 1 .. 9 /\ i \in Lines(id)
    BY <1>1, <1>3, <1>4 DEF Stops, Lines
  <2>2. PICK k \in 1 .. 9 :
          /\ id \in pciids[k].ids /\ intel_get_genx(id) = pciids[k].gen
          /\ \A j \in Lines(id) : k <= j
    BY <2>1, GetFinds
  <2>3. k \in Lines(id)
    BY <2>2, Table DEF Lines
  <2>4. k = i
    BY <1>1, <1>3, <2>1, <2>2, <2>3
  <2> QED
    BY <1>4, <2>2, <2>4
<1>5. ASSUME intel_get_genx(id) = gen
      PROVE  i # 0 /\ pciids[i].gen = gen
  <2>1. PICK k \in 1 .. 9 :
          /\ id \in pciids[k].ids /\ gen = pciids[k].gen
          /\ \A j \in Lines(id) : k <= j
    BY <1>5, GetFinds
  <2>2. k \in Stops(id, gen)
    BY <1>1, <2>1, Table DEF Lines
  <2>3. i \in 1 .. 9 /\ i \in Stops(id, gen) /\ i <= k
    BY <1>1, <1>3, <2>2
  <2>4. pciids[k].gen <= pciids[i].gen
    BY <2>1, <2>3, Sorted
  <2>5. i \in Lines(id)
    BY <2>1, <2>3, <2>4, Sorted DEF Stops, Lines
  <2>6. i = k
    BY <2>1, <2>3, <2>5
  <2> QED
    BY <2>1, <2>3, <2>6
<1> QED
  BY <1>2, <1>4, <1>5

-----------------------------------------------------------------------------
(* The lists and the predicates.                                           *)

\* Lists of different newer generations have no id in common.
LEMMA NewerApart ==
  ASSUME NEW id \in Nat
  PROVE  /\ id \in TGL_IDS =>
              id \notin EHL_IDS \cup ICL_IDS \cup CNL_IDS \cup Listed(9)
         /\ id \in EHL_IDS \cup ICL_IDS => id \notin CNL_IDS \cup Listed(9)
         /\ id \in CNL_IDS => id \notin Listed(9)
<1> USE DEF Listed, SKL_IDS, BXT_IDS, KBL_IDS, GLK_IDS, CFL_IDS, CML_IDS
<1>1. id \in TGL_IDS =>
        id \notin EHL_IDS \cup ICL_IDS \cup CNL_IDS \cup Listed(9)
  BY DEF TGL_IDS, EHL_IDS, ICL_IDS, CNL_IDS
<1>2. id \in EHL_IDS \cup ICL_IDS => id \notin CNL_IDS \cup Listed(9)
  BY DEF EHL_IDS, ICL_IDS, CNL_IDS
<1>3. id \in CNL_IDS => id \notin Listed(9)
  BY DEF CNL_IDS
<1> QED
  BY <1>1, <1>2, <1>3

\* What the table lists, by generation.
LEMMA TableLists ==
  /\ \A id, k : k \in Lines(id) => k \in 1 .. 9 /\ id \in Listed(pciids[k].gen)
  /\ \A id : \A gen \in 9 .. 12 :
       id \in Listed(gen) => \E k \in Lines(id) : pciids[k].gen = gen
<1>1. ASSUME NEW id, NEW k \in Lines(id)
      PROVE  k \in 1 .. 9 /\ id \in Listed(pciids[k].gen)
  BY Table DEF Lines, Listed
<1>2. ASSUME NEW id, NEW gen \in 9 .. 12, id \in Listed(gen)
      PROVE  \E k \in Lines(id) : pciids[k].gen = gen
  <2>1. CASE gen = 12
    BY <1>2, <2>1, Table DEF Lines, Listed
  <2>2. CASE gen = 11
    BY <1>2, <2>2, Table DEF Lines, Listed
  <2>3. CASE gen = 10
    BY <1>2, <2>3, Table DEF Lines, Listed
  <2>4. CASE gen = 9
    BY <1>2, <2>4, Table DEF Lines, Listed
  <2> QED
    BY <2>1, <2>2, <2>3, <2>4
<1> QED
  BY <1>1, <1>2

\* The table gives a newer chip the generation it is listed under.
LEMMA NewerIsListed ==
  ASSUME NEW id \in Nat, NEW gen \in 9 .. 12, id \in Listed(gen)
  PROVE  intel_get_genx(id) = gen
<1>1. PICK k \in Lines(id) : pciids[k].gen = gen
  BY TableLists
<1>2. PICK j \in 1 .. 9 : j \in Lines(id) /\ intel_get_genx(id) = pciids[j].gen
  <2>1. Lines(id) # {}
    BY <1>1
  <2> QED
    BY <2>1, GetFinds, Table DEF Lines
<1>3. id \in Listed(pciids[j].gen) /\ pciids[j].gen \in 9 .. 12
  BY <1>2, TableLists, Sorted
<1>4. ASSUME NEW g \in 9 .. 12, NEW h \in 9 .. 12, id \in Listed(g),
             id \in Listed(h)
      PROVE  g = h
  <2>1. /\ Listed(12) = TGL_IDS /\ Listed(11) = ICL_IDS \cup EHL_IDS
        /\ Listed(10) = CNL_IDS
    BY DEF Listed
  <2> QED
    BY <1>4, <2>1, NewerApart
<1> QED
  BY <1>2, <1>3, <1>4

\* The table has no older chip.
LEMMA OlderNotInTable ==
  ASSUME NEW id \in Nat, NEW gen \in 2 .. 8, id \in Listed(gen)
  PROVE  intel_get_genx(id) = 0
<1> DEFINE old == GEN2_IDS \cup GEN3_IDS \cup GEN4_IDS \cup GEN5_IDS \cup SNB_IDS
                    \cup IVB_IDS \cup HSW_IDS \cup VLV_IDS \cup BDW_IDS \cup CHV_IDS
<1>1. id \in old
  BY DEF Listed
<1>2. id \notin TGL_IDS \cup EHL_IDS \cup ICL_IDS \cup CNL_IDS
  BY <1>1 DEF GEN2_IDS, GEN3_IDS, GEN4_IDS, GEN5_IDS, SNB_IDS, IVB_IDS, HSW_IDS,
              VLV_IDS, BDW_IDS, CHV_IDS, TGL_IDS, EHL_IDS, ICL_IDS, CNL_IDS
<1>3. id \notin CFL_IDS \cup GLK_IDS \cup KBL_IDS \cup BXT_IDS \cup SKL_IDS
  BY <1>1 DEF GEN2_IDS, GEN3_IDS, GEN4_IDS, GEN5_IDS, SNB_IDS, IVB_IDS, HSW_IDS,
              VLV_IDS, BDW_IDS, CHV_IDS, CFL_IDS, CML_IDS, GLK_IDS, KBL_IDS,
              BXT_IDS, SKL_IDS
<1>4. Lines(id) = {}
  BY <1>2, <1>3, Table DEF Lines
<1> QED
  BY <1>4, GetFinds, Table DEF Lines

\* The predicates give an older chip the generation it is listed under, or
\* none.  They are asked latest first: one that holds settles the matter.
LEMMA OlderIsListed ==
  ASSUME NEW id \in Nat, NEW gen \in 2 .. 8, id \in Listed(gen)
  PROVE  pci_id_to_gen(id) = IF id \in Overlooked THEN 0 ELSE gen
<1> USE DEF IS_GEN8, IS_GEN7, IS_GEN6, IS_GEN5, IS_GEN4, IS_GEN3, IS_GEN2,
            IS_9XX, IS_G33, IS_HASWELL, IS_BROADWELL, Overlooked
<1> USE DEF CHIP_GEN2, CHIP_915, CHIP_945, CHIP_G33, CHIP_IGD, CHIP_965,
            CHIP_G4X, CHIP_GEN5, CHIP_SANDYBRIDGE, CHIP_IVYBRIDGE,
            CHIP_VALLEYVIEW, CHIP_CHERRYVIEW, CHIP_HASWELL, BDW_VARIANTS
<1>0. intel_get_genx(id) = 0
  BY OlderNotInTable
<1>2. CASE gen = 2
  BY <1>0, <1>2 DEF pci_id_to_gen, Listed, GEN2_IDS
<1>3. CASE gen = 3
  BY <1>0, <1>3 DEF pci_id_to_gen, Listed, GEN3_IDS
<1>4. CASE gen = 4
  BY <1>0, <1>4 DEF pci_id_to_gen, Listed, GEN4_IDS
<1>5. CASE gen = 5
  BY <1>0, <1>5 DEF pci_id_to_gen, Listed, GEN5_IDS
<1>6. CASE gen = 6
  BY <1>0, <1>6 DEF pci_id_to_gen, Listed, SNB_IDS
<1>7. CASE gen = 7
  BY <1>0, <1>7 DEF pci_id_to_gen, Listed, IVB_IDS, HSW_IDS, VLV_IDS
<1>8. CASE gen = 8
  BY <1>0, <1>8 DEF pci_id_to_gen, Listed, BDW_IDS, CHV_IDS
<1> QED
  BY <1>2, <1>3, <1>4, <1>5, <1>6, <1>7, <1>8

\* Whatever the id, the answer is a generation or 0.
LEMMA GenIsGen == ASSUME NEW id PROVE pci_id_to_gen(id) \in {0} \cup 2 .. 12
<1>1. intel_get_genx(id) = 0 \/ intel_get_genx(id) \in 9 .. 12
  BY GetFinds, Sorted
<1> QED
  BY <1>1 DEF pci_id_to_gen

-----------------------------------------------------------------------------
(* The driver under construction.                                          *)

\* A driver that was identified has its chip's id and the generation that
\* goes with it; one that was aborted has a chip without a generation.
Settled ==
  /\ \/ driver = NewDriver
     \/ /\ Identified /\ driver.chip_id \in Id
        /\ driver.gen = pci_id_to_gen(driver.chip_id) /\ driver.gen # 0
  /\ pc = "aborted" => Identified /\ pci_id_to_gen(node.id) = 0

IInv == TypeOK /\ Settled

LEMMA StepKeeps == IInv /\ [Next]_vars => IInv'
<1> SUFFICES ASSUME IInv, [Next]_vars PROVE IInv'
  OBVIOUS
<1> USE DEF IInv, TypeOK, Settled, Identified
<1>1. CASE Fails
  BY <1>1 DEF Fails
<1>2. CASE Skips
  BY <1>2 DEF Skips
<1>3. CASE Identifies
  <2>1. node.id \in Id
    BY <1>3 DEF Identifies, Node, PciDevice
  <2>2. /\ node' = node /\ pc' = "manager"
        /\ driver' = [chip_id |-> node.id, gen |-> pci_id_to_gen(node.id)]
        /\ Identified /\ pci_id_to_gen(node.id) # 0
    BY <1>3 DEF Identifies
  <2>3. /\ driver'.chip_id = node.id /\ driver'.gen = pci_id_to_gen(node.id)
        /\ driver'.gen \in 2 .. 12
    BY <2>2, GenIsGen
  <2> QED
    BY <2>1, <2>2, <2>3
<1>4. CASE Aborts
  BY <1>4 DEF Aborts
<1>5. CASE InitManager
  BY <1>5 DEF InitManager
<1>6. CASE UNCHANGED vars
  BY <1>6 DEF vars
<1> QED
  BY <1>1, <1>2, <1>3, <1>4, <1>5, <1>6 DEF Next

\* The invariant holds in every state.
THEOREM Invariance == Spec => []IInv
<1>1. Init => IInv
  BY DEF Init, IInv, TypeOK, Settled
<1> QED
  BY <1>1, StepKeeps, PTL DEF Spec

\* The variables keep to their types, and only an Intel device is identified.
THEOREM TypeCorrect == Spec => []TypeOK
<1>1. IInv => TypeOK
  BY DEF IInv
<1> QED
  BY <1>1, Invariance, PTL

\* No chip is of generation 0, which calloc() leaves in a new driver.
LEMMA NewIsNotListed ==
  ASSUME NEW gen \in 2 .. 12
  PROVE  0 \notin Listed(gen)
BY DEF Listed, GEN2_IDS, GEN3_IDS, GEN4_IDS, GEN5_IDS, SNB_IDS, IVB_IDS, HSW_IDS,
       VLV_IDS, BDW_IDS, CHV_IDS, CFL_IDS, CML_IDS, GLK_IDS, KBL_IDS, BXT_IDS,
       SKL_IDS, TGL_IDS, EHL_IDS, ICL_IDS, CNL_IDS

\* A chip is given the generation it is listed under, however the lists and
\* the predicates overlap.
THEOREM ListedIsGiven == Spec => []GenerationIsListed
<1>1. IInv => GenerationIsListed
  <2> SUFFICES ASSUME IInv, NEW gen \in 2 .. 12, driver.chip_id \in Listed(gen)
               PROVE  driver.gen = gen
    BY DEF GenerationIsListed
  <2>1. driver # NewDriver
    BY NewIsNotListed DEF NewDriver
  <2>2. PICK id \in Nat :
          id = driver.chip_id /\ driver.gen = pci_id_to_gen(id) /\ driver.gen # 0
    BY <2>1, ChipAssumption DEF IInv, Settled
  <2>3. CASE gen \in 2 .. 8
    BY <2>2, <2>3, OlderIsListed
  <2>4. CASE gen \in 9 .. 12
    BY <2>2, <2>4, NewerIsListed DEF pci_id_to_gen
  <2> QED
    BY <2>3, <2>4
<1> QED
  BY <1>1, Invariance, PTL

\* The search that stops early misses nothing.
THEOREM SearchesAlwaysAgree == Spec => []SearchesAgree
<1>1. SearchesAgree
  BY SearchesAgreeOn DEF SearchesAgree
<1> QED
  BY <1>1, PTL

\* Of the chips the lists have only the five that the predicates have not
\* fail the assertion.
THEOREM FewFail == Spec => []OnlyOverlookedFail
<1>1. IInv => OnlyOverlookedFail
  <2> SUFFICES ASSUME IInv, pc = "aborted", node.id \in ListedIds
               PROVE  node.id \in Overlooked
    BY DEF OnlyOverlookedFail
  <2>1. PICK id \in Nat : id = node.id /\ pci_id_to_gen(id) = 0
    <3>1. node \in Node /\ node.kind = "pci" /\ pci_id_to_gen(node.id) = 0
      BY DEF IInv, TypeOK, Settled, Identified
    <3>2. node.id \in Id
      BY <3>1 DEF Node, PciDevice
    <3> QED
      BY <3>1, <3>2, ChipAssumption
  <2>2. PICK gen \in 2 .. 12 : id \in Listed(gen)
    BY <2>1 DEF ListedIds
  <2>3. CASE gen \in 2 .. 8
    BY <2>1, <2>2, <2>3, OlderIsListed
  <2>4. CASE gen \in 9 .. 12
    BY <2>1, <2>2, <2>4, NewerIsListed DEF pci_id_to_gen
  <2> QED
    BY <2>3, <2>4
<1> QED
  BY <1>1, Invariance, PTL
=============================================================================
