------------------------------ MODULE MCStore ------------------------------
(***************************************************************************)
(* Instance of Store for TLC: the callers share one handle and its mutex.  *)
(***************************************************************************)
EXTENDS Store

CONSTANTS c1, c2, h1

SharedHandle == [c \in Callers |-> h1]
=============================================================================
