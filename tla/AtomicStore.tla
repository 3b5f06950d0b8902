---------------------------- MODULE AtomicStore ----------------------------
(***************************************************************************)
(* What DddSync (src/src/store.rs) promises its callers: `add` either puts *)
(* a whole file under a name that was free, within the two limits, in one  *)
(* step, or refuses for a reason that is true of this very request at the  *)
(* moment it refuses, and changes nothing.  Only `remove` takes a file     *)
(* away.                                                                   *)
(***************************************************************************)
EXTENDS Naturals, FiniteSets

CONSTANTS Callers, Names, Sizes, MaxFiles, MaxFileBytes, None

VARIABLES
    files,      \* the visible directory: a name to its file, or None
    request,    \* the name and size a caller's `add` is for, or None
    outcome     \* what a caller's last `add` is doing or returned

vars == <<files, request, outcome>>

Stored == {n \in Names : files[n] # None}

Returned == {"idle", "ok", "limit", "exists", "io"}

Init == /\ files = [n \in Names |-> None]
        /\ request = [c \in Callers |-> None]
        /\ outcome = [c \in Callers |-> "idle"]

Call(c, n, s) == /\ outcome[c] \in Returned
                 /\ request' = [request EXCEPT ![c] = [name |-> n, size |-> s]]
                 /\ outcome' = [outcome EXCEPT ![c] = "busy"]
                 /\ UNCHANGED files

Return(c, r) == /\ outcome[c] = "busy"
                /\ outcome' = [outcome EXCEPT ![c] = r]
                /\ request' = [request EXCEPT ![c] = None]

(* The two limits: the size of one file and the number of files.           *)
Fits(q) == q.size <= MaxFileBytes /\ Cardinality(Stored) < MaxFiles

(* What is asked for is stored whole.                                      *)
Add(c) == /\ Return(c, "ok")
          /\ Fits(request[c])
          /\ files[request[c].name] = None
          /\ files' = [files EXCEPT ![request[c].name] = request[c]]

(* The reasons `add` may give for refusing q: the file or the store is too *)
(* big, that name is taken, or an operation on the file system failed.     *)
Reason(q, r) == \/ r = "limit" /\ ~Fits(q)
                \/ r = "exists" /\ files[q.name] # None
                \/ r = "io"

Refuse(c, r) == /\ Return(c, r)
                /\ Reason(request[c], r)
                /\ UNCHANGED files

Remove(n) == /\ files[n] # None
             /\ files' = [files EXCEPT ![n] = None]
             /\ UNCHANGED <<request, outcome>>

(* A process that dies takes its calls with it and leaves the directory.   *)
Abandon(cs) == /\ outcome' = [c \in Callers |->
                                IF c \in cs THEN "idle" ELSE outcome[c]]
               /\ request' = [c \in Callers |->
                                IF c \in cs THEN None ELSE request[c]]
               /\ UNCHANGED files

Next == \/ \E c \in Callers, n \in Names, s \in Sizes : Call(c, n, s)
        \/ \E c \in Callers : Add(c)
        \/ \E c \in Callers, r \in Returned : Refuse(c, r)
        \/ \E n \in Names : Remove(n)
        \/ \E cs \in SUBSET Callers : Abandon(cs)

Spec == Init /\ [][Next]_vars
=============================================================================
