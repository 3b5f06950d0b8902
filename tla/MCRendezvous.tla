---------------------------- MODULE MCRendezvous ----------------------------
(***************************************************************************)
(* Instances of Rendezvous for TLC: two people with one program each, or   *)
(* one person with two.  Usernames and emails may be permuted in a run     *)
(* without liveness properties.                                            *)
(***************************************************************************)
EXTENDS Rendezvous, TLC

CONSTANTS c1, c2, p1, p2

OneEach == [c \in Clients |-> IF c = c1 THEN p1 ELSE p2]
BothOfOne == [c \in Clients |-> p1]

Alike == Permutations(Users) \cup Permutations(Emails)
=============================================================================
