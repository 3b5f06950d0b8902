---------------------------- MODULE SharedFolder ----------------------------
(***************************************************************************)
(* What synchronisation promises (push and pull of src/src/sync.rs): a     *)
(* store changes only by its own user or by taking in a copy offered to    *)
(* it.  A copy is what the sender's own store held under that very name    *)
(* when it was read; it is offered to each other device at most once, and  *)
(* an offer is taken in at most once, at any time later, or never.         *)
(***************************************************************************)
EXTENDS Naturals

CONSTANTS Nodes, Names, Slots, None

VARIABLES
    store,      \* each device's files: a name to its content, or None
    latest,     \* how often users have written each name
    sending,    \* the copy each device has read and for whom, or None
    offers      \* the offers made and neither taken in nor given up, or None

vars == <<store, latest, sending, offers>>

Init == /\ store = [n \in Nodes |-> [f \in Names |-> None]]
        /\ latest = [f \in Names |-> 0]
        /\ sending = [n \in Nodes |-> None]
        /\ offers = [s \in Slots |-> None]

Write(n, f) == /\ latest' = [latest EXCEPT ![f] = @ + 1]
               /\ store' = [store EXCEPT ![n][f] =
                              [name |-> f, seq |-> latest[f] + 1]]
               /\ UNCHANGED <<sending, offers>>

Remove(n, f) == /\ store[n][f] # None
                /\ store' = [store EXCEPT ![n][f] = None]
                /\ UNCHANGED <<latest, sending, offers>>

Read(n, f, ps) == /\ sending[n] = None
                  /\ store[n][f] # None
                  /\ ps \subseteq Nodes \ {n}
                  /\ sending' = [sending EXCEPT ![n] =
                                   [name |-> f, content |-> store[n][f], to |-> ps]]
                  /\ UNCHANGED <<store, latest, offers>>

(* Whether the offer gets through or not, p is not offered this copy again.*)
PassOver(n, p) == /\ sending[n] # None
                  /\ p \in sending[n].to
                  /\ sending' = [sending EXCEPT ![n].to = @ \ {p}]
                  /\ UNCHANGED <<store, latest>>

Offer(n, p, s) == /\ PassOver(n, p)
                  /\ offers[s] = None
                  /\ offers' = [offers EXCEPT ![s] =
                                  [to |-> p, name |-> sending[n].name,
                                   content |-> sending[n].content]]

(* Nothing is asked of the store that takes the copy in.                   *)
Receive(s) == /\ offers[s] # None
              /\ store' = [store EXCEPT ![offers[s].to][offers[s].name] =
                             offers[s].content]
              /\ offers' = [offers EXCEPT ![s] = None]
              /\ UNCHANGED <<latest, sending>>

(* Pushes end and offers are given up, several when a process dies; all    *)
(* others stay as they are.                                                *)
GiveUp ==
    /\ UNCHANGED <<store, latest>>
    /\ sending' = [n \in Nodes |-> IF sending'[n] = None THEN None ELSE sending[n]]
    /\ offers' = [s \in Slots |-> IF offers'[s] = None THEN None ELSE offers[s]]

Next == \/ GiveUp
        \/ \E n \in Nodes, f \in Names :
              \/ Write(n, f)
              \/ Remove(n, f)
              \/ \E ps \in SUBSET Nodes : Read(n, f, ps)
        \/ \E n, p \in Nodes : \/ PassOver(n, p) /\ UNCHANGED offers
                               \/ \E s \in Slots : Offer(n, p, s)
        \/ \E s \in Slots : Receive(s)

Spec == Init /\ [][Next]_vars
=============================================================================
