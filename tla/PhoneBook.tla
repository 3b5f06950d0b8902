----------------------------- MODULE PhoneBook -----------------------------
(***************************************************************************)
(* What a rendezvous server promises, the one of src/rendezvous/src/main.rs *)
(* and the one of src/rendezvous-py:                                       *)
(* a username belongs to whoever signed up for it first; only its owner    *)
(* enters and removes nodes under it; a node he has not asked to remove is *)
(* forgotten only when its last registration is older than the TTL.  The   *)
(* server may die, which takes all nodes, and the owners too unless it     *)
(* keeps them on disk.                                                     *)
(***************************************************************************)
EXTENDS Naturals

CONSTANTS People, Users, Nodes, PeerTtl, MaxTime, None,
          Durable     \* TRUE: owners survive a restart

VARIABLES
    owner,      \* whose username it is, or None
    book,       \* the entry of each node under each username, or None
    leaving,    \* who is about to remove which node under which username
    now,
    up          \* whether the server is running

data == <<owner, book, leaving, now>>
vars == <<data, up>>

(* now_secs().saturating_sub(PEER_TTL_SECS): what was seen before is old.  *)
Cutoff == IF now > PeerTtl THEN now - PeerTtl ELSE 0

Init == /\ owner = [u \in Users |-> None]
        /\ book = [u \in Users |-> [n \in Nodes |-> None]]
        /\ leaving = {}
        /\ now = 0
        /\ up = TRUE

Own(p, u) == /\ owner[u] = None
             /\ owner' = [owner EXCEPT ![u] = p]
             /\ UNCHANGED <<book, leaving, now>>

(* The entry may carry a time that has passed: the request has waited.     *)
Enroll(p, u, n, s) ==
    /\ owner[u] = p
    /\ s <= now
    /\ book' = [book EXCEPT ![u][n] = [seen |-> s, by |-> p]]
    /\ UNCHANGED <<owner, leaving, now>>

(* Nothing is removed that its owner has not asked to be removed; he may   *)
(* change his mind.                                                        *)
Ask(p, u, n) == /\ owner[u] = p
                /\ leaving' = leaving \cup {<<p, u, n>>}
                /\ UNCHANGED <<owner, book, now>>

Withdraw(p, u, n) == /\ leaving' = leaving \ {<<p, u, n>>}
                     /\ UNCHANGED <<owner, book, now>>

Leave(p, u, n) == /\ owner[u] = p
                  /\ <<p, u, n>> \in leaving
                  /\ book' = [book EXCEPT ![u][n] = None]
                  /\ leaving' \in {leaving, leaving \ {<<p, u, n>>}}
                  /\ UNCHANGED <<owner, now>>

(* All entries older than some time t, itself not later than the cutoff.   *)
Forget(t) ==
    /\ t <= Cutoff
    /\ book' = [u \in Users |-> [n \in Nodes |->
                  IF book[u][n] # None /\ book[u][n].seen < t
                  THEN None ELSE book[u][n]]]
    /\ UNCHANGED <<owner, leaving, now>>

Tick == now' = now + 1 /\ UNCHANGED <<owner, book, leaving, up>>

Dies == /\ up /\ up' = FALSE
        /\ owner' = IF Durable THEN owner ELSE [u \in Users |-> None]
        /\ book' = [u \in Users |-> [n \in Nodes |-> None]]
        /\ leaving' = {}
        /\ UNCHANGED now

Starts == ~up /\ up' = TRUE /\ UNCHANGED data

Work == \/ \E p \in People, u \in Users : Own(p, u)
        \/ \E p \in People, u \in Users, n \in Nodes, s \in 0 .. MaxTime :
              Enroll(p, u, n, s)
        \/ \E p \in People, u \in Users, n \in Nodes :
              Ask(p, u, n) \/ Withdraw(p, u, n) \/ Leave(p, u, n)
        \/ \E t \in 0 .. MaxTime : Forget(t)

Next == (up /\ Work /\ UNCHANGED up) \/ Tick \/ Dies \/ Starts

Spec == Init /\ [][Next]_vars
=============================================================================
