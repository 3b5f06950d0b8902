------------------------------ MODULE MCDevice ------------------------------
(***************************************************************************)
(* Instances of Device for TLC: credentials with the password of the one   *)
(* account, others with a wrong one, and those of a second user.           *)
(***************************************************************************)
EXTENDS Device

CONSTANTS d1, d2, right, his, her, him

CredsUser == [c \in Creds |-> IF c = his THEN him ELSE her]

HisOnOne == [d \in Devices |-> IF d = d1 THEN Creds ELSE {right}]
=============================================================================
