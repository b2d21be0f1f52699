------------------------------- MODULE MCI915 -------------------------------
(***************************************************************************)
(* Instances of I915Batch: two surfaces of different depth that the driver *)
(* created, and one it imported, whose pitch and cpp are left at 0.        *)
(***************************************************************************)
EXTENDS I915Batch, TLC

CONSTANTS s1, s2, s3

MCCpp   == [s \in Surface |-> IF s = s1 THEN 4 ELSE IF s = s2 THEN 2 ELSE 0]
MCPitch == [s \in Surface |-> IF s \in {s1, s2} THEN 256 ELSE 0]
=============================================================================
