------------------------------ MODULE MCDjango ------------------------------
(***************************************************************************)
(* Instance of DjangoRendezvous for TLC: two people with a program each.   *)
(***************************************************************************)
EXTENDS DjangoRendezvous

CONSTANTS c1, c2, p1, p2

OneEach == [c \in Clients |-> IF c = c1 THEN p1 ELSE p2]
=============================================================================
