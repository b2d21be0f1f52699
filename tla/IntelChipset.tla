---------------------------- MODULE IntelChipset ----------------------------
(***************************************************************************)
(* How the i915 driver finds out which generation of chip it drives: udev  *)
(* gives the PCI id of the device, and tables and predicates from two      *)
(* sources, libdrm's older macros and the kernel's lists of ids, turn it   *)
(* into a generation, by which the rings of the batches are chosen.        *)
(***************************************************************************)
EXTENDS Integers, Sequences

CONSTANTS
  Id,       \* PCI ids a device may have
  Intel,    \* the vendor id 0x8086
  Other     \* any other vendor id

ASSUME ChipAssumption == Id \subseteq Nat /\ Intel # Other

VARIABLES
  node,     \* what the descriptor passed to create_driver leads to
  driver,   \* the DrmDriver under construction
  pc        \* where i915_create_driver() is

vars == <<node, driver, pc>>

-----------------------------------------------------------------------------
(* Ids and predicates of intel-chipset.h.                                  *)

CHIP_GEN2  == {\h3577, \h2562, \h3582, \h2572}
CHIP_915   == {\h2582, \h258A, \h2592}
CHIP_945   == {\h2772, \h27A2, \h27AE}
CHIP_G33   == {\h29B2, \h29C2, \h29D2}
CHIP_IGD   == {\hA011, \hA001}
CHIP_965   == {\h29A2, \h2992, \h2982, \h2972, \h2A02, \h2A12}
CHIP_G4X   == {\h2A42, \h2E02, \h2E12, \h2E22, \h2E32}
CHIP_GEN5  == {\h0042, \h0046}
CHIP_SANDYBRIDGE ==
  {\h0102, \h0112, \h0122, \h0106, \h0116, \h0126, \h010A}
CHIP_IVYBRIDGE  == {\h0152, \h0162, \h0156, \h0166, \h015A, \h016A}
CHIP_VALLEYVIEW == {\h0F30, \h0F31, \h0F32, \h0F33}
CHIP_CHERRYVIEW == {\h22B0, \h22B1, \h22B2, \h22B3}

\* Desktop and mobile, SDV, ULT and CRW parts, with five variants each
CHIP_HASWELL == {256 * part + 16 * gt + variant :
                   part \in {\h4, \hC, \hA, \hD}, gt \in 0 .. 2,
                   variant \in {\h2, \h6, \hA, \hB, \hE}}

BDW_VARIANTS == {\h2, \h6, \hA, \hB, \hD, \hE}

IS_GEN2(id) == id \in CHIP_GEN2
IS_G33(id)  == id \in CHIP_G33 \cup CHIP_IGD

\* a slip: IS_945 without the G33s
IS_GEN3WithoutG33(id) == id \in CHIP_945 \cup CHIP_915

IS_GEN3(id) == id \in CHIP_945 \cup CHIP_915 \/ IS_G33(id)
IS_GEN4(id) == id \in CHIP_965 \cup CHIP_G4X
IS_GEN5(id) == id \in CHIP_GEN5
IS_GEN6(id) == id \in CHIP_SANDYBRIDGE
IS_HASWELL(id) == id \in CHIP_HASWELL
IS_GEN7(id) == id \in CHIP_IVYBRIDGE \cup CHIP_VALLEYVIEW \/ IS_HASWELL(id)

IS_BROADWELL(id) ==
  /\ (id \div 256) % 256 = \h16
  /\ (id \div 16) % 16 <= 3
  /\ id % 16 \in BDW_VARIANTS

IS_GEN8(id) == IS_BROADWELL(id) \/ id \in CHIP_CHERRYVIEW

-----------------------------------------------------------------------------
(* The lists of i915-pciids.h.  Those up to generation 8 are not used by   *)
(* the driver, whose predicates above say the same once more.              *)

GEN2_IDS == {\h3577} \cup {\h2562} \cup {\h3582, \h358E} \cup {\h2572}
GEN3_IDS == {\h2582, \h258A, \h2592, \h2772, \h27A2, \h27AE,
             \h29B2, \h29C2, \h29D2, \hA001, \hA011}
GEN4_IDS == {\h2972, \h2982, \h2992, \h29A2, \h2A02, \h2A12, \h2A42,
             \h2E02, \h2E12, \h2E22, \h2E32, \h2E42, \h2E92}
GEN5_IDS == {\h0042, \h0046}
SNB_IDS  == {\h0102, \h010A, \h0112, \h0122, \h0106, \h0116, \h0126}
IVB_IDS  == {\h0156, \h0166, \h0152, \h015A, \h0162, \h016A}
HSW_IDS  == {256 * part + 16 * gt + variant :
               part \in {\h4, \hA, \hC, \hD}, gt \in 0 .. 2,
               variant \in {\h2, \hA, \hB, \hE, \h6}}
VLV_IDS  == {\h0F30, \h0F31, \h0F32, \h0F33, \h0157, \h0155}
BDW_IDS  == {\h1600 + 16 * gt + variant :
               gt \in 0 .. 3, variant \in {\h6, \hB, \hE, \h2, \hA, \hD}}
CHV_IDS  == \h22B0 .. \h22B3

SKL_IDS ==
  {\h1906, \h190E, \h1902, \h190B, \h190A} \cup
  {\h1916, \h1921, \h191E, \h1912, \h191B, \h191A, \h191D} \cup
  {\h1926, \h1923, \h1927, \h192B, \h192D} \cup
  {\h1932, \h193B, \h193D, \h192A, \h193A}
BXT_IDS == {\h0A84, \h1A84, \h1A85, \h5A84, \h5A85}
GLK_IDS == {\h3184, \h3185}
KBL_IDS ==
  {\h5906, \h5913, \h590E, \h5915, \h5902, \h5908, \h590B, \h590A} \cup
  {\h5916, \h5921, \h591E, \h5917, \h5912, \h591B, \h591A, \h591D} \cup
  {\h5926, \h5923, \h5927, \h593B} \cup {\h591C, \h87C0}
CML_IDS ==
  {\h9B00 + n : n \in {\h21, \hAA, \hAB, \hAC, \hA0, \hA5, \hA8, \hA4, \hA2}}
  \cup {\h9B00 + n : n \in {\h41, \hCA, \hCB, \hCC, \hC0, \hC5, \hC8, \hC4,
                           \hC2, \hC6, \hE6, \hF6}}
CFL_IDS ==
  {\h3E00 + n : n \in (\h90 .. \h94) \cup {\h96} \cup (\h98 .. \h9C)
                      \cup (\hA0 .. \hA9)}
  \cup {\h87CA} \cup CML_IDS
CNL_IDS ==
  {\h5A00 + n : n \in {\h54, \h5C, \h44, \h4C, \h51, \h59, \h41, \h49,
                       \h52, \h5A, \h42, \h4A, \h50, \h40}}
ICL_IDS ==
  {\h8A00 + n : n \in (\h50 .. \h54) \cup (\h56 .. \h5D) \cup {\h70, \h71}}
EHL_IDS == {\h4500, \h4571, \h4551, \h4541}
TGL_IDS ==
  {\h9A00 + n : n \in {\h49, \h40, \h59, \h60, \h68, \h70, \h78}}

-----------------------------------------------------------------------------
(* intel-chipset.c: the table of the newer ids, a list to a line, and its  *)
(* two searches.                                                           *)

\* a slip: a list of generation 9 was added at the top
UnsortedPciids ==
  <<[ids |-> SKL_IDS, gen |-> 9],
    [ids |-> TGL_IDS, gen |-> 12], [ids |-> EHL_IDS, gen |-> 11],
    [ids |-> ICL_IDS, gen |-> 11], [ids |-> CNL_IDS, gen |-> 10],
    [ids |-> CFL_IDS, gen |-> 9],  [ids |-> GLK_IDS, gen |-> 9],
    [ids |-> KBL_IDS, gen |-> 9],  [ids |-> BXT_IDS, gen |-> 9]>>

pciids ==
  <<[ids |-> TGL_IDS, gen |-> 12], [ids |-> EHL_IDS, gen |-> 11],
    [ids |-> ICL_IDS, gen |-> 11], [ids |-> CNL_IDS, gen |-> 10],
    [ids |-> CFL_IDS, gen |-> 9],  [ids |-> GLK_IDS, gen |-> 9],
    [ids |-> KBL_IDS, gen |-> 9],  [ids |-> BXT_IDS, gen |-> 9],
    [ids |-> SKL_IDS, gen |-> 9]>>

\* where a search that ends at any of these lines ends, or 0
FirstLine(lines) ==
  IF lines = {} THEN 0 ELSE CHOOSE i \in lines : \A j \in lines : i <= j

\* the generation stored at *gen, 0 if the search fails
intel_get_genx(id) ==
  LET i == FirstLine({k \in DOMAIN pciids : id \in pciids[k].ids})
  IN IF i = 0 THEN 0 ELSE pciids[i].gen

\* the search stops at the first line of an older generation
intel_is_genx(id, gen) ==
  LET i == FirstLine({k \in DOMAIN pciids :
                        pciids[k].gen < gen \/ id \in pciids[k].ids})
  IN i # 0 /\ pciids[i].gen = gen

IS_9XX(id) ==
  \/ IS_GEN3(id) \/ IS_GEN4(id) \/ IS_GEN5(id) \/ IS_GEN6(id)
  \/ IS_GEN7(id) \/ IS_GEN8(id) \/ intel_get_genx(id) # 0

\* a slip: IS_9XX is asked before the generations it contains
pci_id_to_gen_early(id) ==
  CASE intel_get_genx(id) # 0 -> intel_get_genx(id)
    [] intel_get_genx(id) = 0 /\ IS_9XX(id) -> 3
    [] ~IS_9XX(id) -> 2

\* 0 stands for the failed assertion that what remains is generation 2
pci_id_to_gen(id) ==
  IF intel_get_genx(id) # 0 THEN intel_get_genx(id)
  ELSE IF IS_GEN8(id) THEN 8
  ELSE IF IS_GEN7(id) THEN 7
  ELSE IF IS_GEN6(id) THEN 6
  ELSE IF IS_GEN5(id) THEN 5
  ELSE IF IS_GEN4(id) THEN 4
  ELSE IF IS_9XX(id) THEN 3
  ELSE IF IS_GEN2(id) THEN 2 ELSE 0

-----------------------------------------------------------------------------
(* Descriptors: of no character device, of one that udev does not know, of *)
(* one whose parent has no PCI_ID property, or of a PCI device.            *)

PciDevice == [kind : {"pci"}, vendor : {Intel, Other}, id : Id]
Node == {[kind |-> k] : k \in {"no_device", "unknown", "no_pci_id"}}
          \cup PciDevice

NewDriver == [chip_id |-> 0, gen |-> 0]          \* from calloc()

Init == node \in Node /\ driver = NewDriver /\ pc = "create"

Identified == node.kind = "pci" /\ node.vendor = Intel

\* get_intel_chip_id() fails, and so does create_driver
Fails ==
  /\ pc = "create"
  /\ \/ node.kind \in {"no_device", "no_pci_id"}
     \/ node.kind = "pci" /\ ~Identified
  /\ pc' = "failed"
  /\ UNCHANGED <<node, driver>>

\* without a udev device it returns 0 and leaves the driver as it was
Skips ==
  /\ pc = "create" /\ node.kind = "unknown"
  /\ pc' = "manager"
  /\ UNCHANGED <<node, driver>>

\* a slip: the vendor is not looked at
IdentifiesAny ==
  /\ pc = "create" /\ node.kind = "pci" /\ pci_id_to_gen(node.id) # 0
  /\ driver' = [chip_id |-> node.id, gen |-> pci_id_to_gen(node.id)]
  /\ pc' = "manager"
  /\ UNCHANGED node

Identifies ==
  /\ pc = "create" /\ Identified /\ pci_id_to_gen(node.id) # 0
  /\ driver' = [chip_id |-> node.id, gen |-> pci_id_to_gen(node.id)]
  /\ pc' = "manager"
  /\ UNCHANGED node

Aborts ==
  /\ pc = "create" /\ Identified /\ pci_id_to_gen(node.id) = 0
  /\ pc' = "aborted"
  /\ UNCHANGED <<node, driver>>

\* drm_intel_bufmgr_gem_init() gives a manager, or not
InitManager ==
  /\ pc = "manager"
  /\ pc' \in {"created", "failed"}
  /\ UNCHANGED <<node, driver>>

Next == Fails \/ Skips \/ Identifies \/ Aborts \/ InitManager

Spec == Init /\ [][Next]_vars

-----------------------------------------------------------------------------
(* Properties.                                                             *)

\* The generation i915-pciids.h lists an id under.
Listed(gen) ==
  CASE gen = 2 -> GEN2_IDS [] gen = 3 -> GEN3_IDS [] gen = 4 -> GEN4_IDS
    [] gen = 5 -> GEN5_IDS [] gen = 6 -> SNB_IDS
    [] gen = 7 -> IVB_IDS \cup HSW_IDS \cup VLV_IDS
    [] gen = 8 -> BDW_IDS \cup CHV_IDS
    [] gen = 9 -> SKL_IDS \cup BXT_IDS \cup KBL_IDS \cup GLK_IDS \cup CFL_IDS
    [] gen = 10 -> CNL_IDS [] gen = 11 -> ICL_IDS \cup EHL_IDS
    [] gen = 12 -> TGL_IDS

ListedIds == UNION {Listed(gen) : gen \in 2 .. 12}

\* The variables keep to their types; only an Intel device is identified.
TypeOK ==
  /\ node \in Node
  /\ pc \in {"create", "manager", "created", "failed", "aborted"}
  /\ \/ driver = NewDriver
     \/ Identified /\ driver.chip_id \in Id /\ driver.gen \in 2 .. 12

\* A chip is given the generation under which i915-pciids.h lists its id,
\* although the predicates overlap (IS_9XX contains those of later chips) and
\* their ids are written down a second time.
GenerationIsListed ==
  \A gen \in 2 .. 12 : driver.chip_id \in Listed(gen) => driver.gen = gen

\* The two searches of the table agree, although one stops early: "Keep ids
\* sorted by gen; latest gen first".
SearchesAgree ==
  \A gen \in 9 .. 12 :
    intel_is_genx(driver.chip_id, gen) <=> intel_get_genx(driver.chip_id) = gen

\* The chips that i915-pciids.h has and intel-chipset.h has not: an I85X, two
\* B43 and two Valleyviews.
Overlooked == {\h358E, \h2E42, \h2E92, \h0155, \h0157}

\* pci_id_to_gen() asserts that a chip which is of no later generation is of
\* generation 2: of the ids that are listed for these generations only those
\* five fail it.
OnlyOverlookedFail ==
  pc = "aborted" => node.id \in Overlooked \/ node.id \notin ListedIds
=============================================================================
