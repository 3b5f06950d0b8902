----------------------------- MODULE SyncProofs -----------------------------
(***************************************************************************)
(* Proofs about Sync, for any number of nodes, names, writes and offers,   *)
(* with every failure, crash and removal the constants allow.              *)
(***************************************************************************)
EXTENDS Sync, TLAPS

USE SyncAssumption

LEMMA NotifiedType ==
  ASSUME NEW n \in Nodes, NEW f \in Names, TypeOK
  PROVE  Notified(n, f) \in [Nodes -> Seq(Names)]
BY DEF Notified, TypeOK

LEMMA ResultType ==
  ASSUME NEW t \in Task, NEW r \in {"failed", "installed"}
  PROVE  Result(t, r) \in Task \cup {None}
<1>1. [t EXCEPT !.at = r] \in Task
  BY DEF Task
<1> QED
  BY <1>1 DEF Result

(* What the end of a task, and a crash, make of it.                        *)
LEMMA ResultOffer ==
  ASSUME NEW t \in Task, NEW r \in {"failed", "installed"}
  PROVE  Result(t, r) = None \/ Result(t, r).at = r
<1>1. [t EXCEPT !.at = r].at = r
  BY DEF Task
<1> QED
  BY <1>1 DEF Result

LEMMA InvInit == Init => TypeOK /\ AwaitInv
BY DEF Init, TypeOK, AwaitInv

(* Every step keeps the types, and what a watcher awaits is its own offer. *)
LEMMA TypeNext == TypeOK /\ AwaitInv /\ [Next]_vars => TypeOK' /\ AwaitInv'
<1> SUFFICES ASSUME TypeOK, AwaitInv, [Next]_vars
             PROVE  TypeOK' /\ AwaitInv'
  OBVIOUS
<1> USE DEF TypeOK, AwaitInv
<1>1. ASSUME NEW n \in Nodes, NEW f \in Names, UserWrite(n, f)
      PROVE  TypeOK' /\ AwaitInv'
  <2>1. latest[f] + 1 \in 1 .. MaxWrites
    BY <1>1 DEF UserWrite
  <2>2. [name |-> f, seq |-> latest[f] + 1] \in Content
    BY <2>1 DEF Content
  <2>3. store' \in [Nodes -> [Names -> Content \cup {None}]]
    BY <1>1, <2>2 DEF UserWrite
  <2>4. latest' \in [Names -> 0 .. MaxWrites]
    BY <1>1, <2>1 DEF UserWrite
  <2>5. events' \in [Nodes -> Seq(Names)]
    BY <1>1, NotifiedType DEF UserWrite
  <2> QED
    BY <1>1, <2>3, <2>4, <2>5 DEF UserWrite
<1>2. ASSUME NEW n \in Nodes, NEW f \in Names, UserRemove(n, f)
      PROVE  TypeOK' /\ AwaitInv'
  BY <1>2 DEF UserRemove
<1>3. ASSUME NEW n \in Nodes, EventSkipped(n)
      PROVE  TypeOK' /\ AwaitInv'
  BY <1>3 DEF EventSkipped
<1>4. ASSUME NEW n \in Nodes, PushStarts(n)
      PROVE  TypeOK' /\ AwaitInv'
  BY <1>4 DEF PushStarts, Push
<1>5. ASSUME NEW n \in Nodes, NEW ps \in SUBSET Nodes, FetchPeers(n, ps), ps # {}
      PROVE  TypeOK' /\ AwaitInv'
  <2>1. PICK q : q = [push[n] EXCEPT !.at = "import", !.peers = ps]
    OBVIOUS
  <2>2. push[n] \in Push
    BY <1>5 DEF FetchPeers
  <2>3. q \in Push /\ q.at = "import" /\ q.slot = push[n].slot
    BY <2>1, <2>2 DEF Push
  <2>4. push' = [push EXCEPT ![n] = q]
    BY <1>5, <2>1 DEF FetchPeers
  <2>5. push' \in [Nodes -> Push \cup {None}]
    BY <2>3, <2>4
  <2>6. TypeOK'
    BY <1>5, <2>5 DEF FetchPeers
  <2>7. AwaitInv'
    BY <1>5, <2>3, <2>4 DEF FetchPeers
  <2> QED
    BY <2>6, <2>7
<1>6. ASSUME NEW n \in Nodes, Import(n)
      PROVE  TypeOK' /\ AwaitInv'
  <2>1. push[n] \in Push /\ store[n][push[n].name] \in Content
    BY <1>6 DEF Import, Push
  <2>2. PICK q : q = [push[n] EXCEPT !.at = "notify",
                                     !.content = store[n][push[n].name]]
    OBVIOUS
  <2>3. q \in Push /\ q.at = "notify" /\ q.content # None /\ q.slot = push[n].slot
    BY <2>1, <2>2 DEF Push
  <2>4. push' = [push EXCEPT ![n] = q]
    BY <1>6, <2>2 DEF Import, Imported
  <2>5. push' \in [Nodes -> Push \cup {None}]
    BY <2>3, <2>4
  <2>6. TypeOK'
    BY <1>6, <2>5 DEF Import, Imported
  <2>7. AwaitInv'
    BY <1>6, <2>3, <2>4 DEF Import, Imported
  <2> QED
    BY <2>6, <2>7
<1>7. ASSUME NEW n \in Nodes, EndPush(n),
             UNCHANGED <<store, events, tasks, exports, up, latest>>
      PROVE  TypeOK' /\ AwaitInv'
  BY <1>7 DEF EndPush
<1>8. ASSUME NEW n \in Nodes, NEW p \in Nodes, NEW s \in Slots, Offer(n, p, s)
      PROVE  TypeOK' /\ AwaitInv'
  <2>1. push[n] \in Push /\ push[n].at = "notify" /\ push[n].content # None
    BY <1>8 DEF Offer, Notifying
  <2>2. PICK q : q = [push[n] EXCEPT !.peers = push[n].peers \ {p}, !.slot = s]
    OBVIOUS
  <2>3. q \in Push /\ q.at = "notify" /\ q.content # None /\ q.slot = s
    BY <2>1, <2>2 DEF Push
  <2>4. push' = [push EXCEPT ![n] = q]
    BY <1>8, <2>2 DEF Offer
  <2>5. PICK t \in Task :
              t = [at |-> "offered", from |-> n, to |-> p,
                   name |-> push[n].name, content |-> push[n].content,
                   wanted |-> TRUE]
    <3>1. push[n].name \in Names /\ push[n].content \in Content
      BY <2>1 DEF Push
    <3>2. [at |-> "offered", from |-> n, to |-> p, name |-> push[n].name,
           content |-> push[n].content, wanted |-> TRUE] \in Task
      BY <3>1 DEF Task
    <3> QED
      BY <3>2, Zenon
  <2>6. t.from = n /\ t.wanted
    BY <2>5
  <2>7. tasks' = [tasks EXCEPT ![s] = t] /\ tasks[s] = None
    BY <1>8, <2>5 DEF Offer
  <2>8. TypeOK'
    <3>1. push' \in [Nodes -> Push \cup {None}]
      BY <2>3, <2>4
    <3>2. tasks' \in [Slots -> Task \cup {None}]
      BY <2>6, <2>7
    <3> QED
      BY <1>8, <3>1, <3>2 DEF Offer
  <2>9. AwaitInv'
    <3> SUFFICES ASSUME NEW m \in Nodes, push'[m] # None
                 PROVE  /\ push'[m].at = "notify" => push'[m].content # None
                        /\ push'[m].slot # None =>
                             /\ push'[m].at = "notify"
                             /\ tasks'[push'[m].slot] # None
                             /\ tasks'[push'[m].slot].from = m
                             /\ tasks'[push'[m].slot].wanted
      OBVIOUS
    <3>1. CASE m = n
      BY <3>1, <2>3, <2>4, <2>6, <2>7
    <3>2. CASE m # n
      <4>1. push'[m] = push[m]
        BY <3>2, <2>4
      <4>2. push[m].slot # None => push[m].slot # s
        BY <4>1, <2>7
      <4> QED
        BY <4>1, <4>2, <2>7 DEF Push
    <3> QED
      BY <3>1, <3>2
  <2> QED
    BY <2>8, <2>9
<1>9. ASSUME NEW n \in Nodes, NEW p \in Nodes, OfferFails(n, p)
      PROVE  TypeOK' /\ AwaitInv'
  <2>1. push[n] \in Push
    BY <1>9 DEF OfferFails, Notifying
  <2>2. PICK q : q = [push[n] EXCEPT !.peers = push[n].peers \ {p}]
    OBVIOUS
  <2>3. q \in Push /\ q.at = push[n].at /\ q.content = push[n].content
        /\ q.slot = push[n].slot
    BY <2>1, <2>2 DEF Push
  <2>4. push' = [push EXCEPT ![n] = q]
    BY <1>9, <2>2 DEF OfferFails
  <2>5. push' \in [Nodes -> Push \cup {None}]
    BY <2>3, <2>4
  <2>6. TypeOK'
    BY <1>9, <2>5 DEF OfferFails
  <2>7. AwaitInv'
    BY <1>9, <2>1, <2>3, <2>4 DEF OfferFails
  <2> QED
    BY <2>6, <2>7
<1>10. ASSUME NEW n \in Nodes, AckArrives(n) \/ AckTimeout(n)
       PROVE  TypeOK' /\ AwaitInv'
  <2>1. /\ push[n] \in Push /\ push[n].at = "notify" /\ push[n].content # None
        /\ push[n].slot \in Slots /\ tasks[push[n].slot] \in Task
        /\ tasks[push[n].slot].from = n
    BY <1>10 DEF AckArrives, AckTimeout, Notifying, Push
  <2>2. PICK q : q = [push[n] EXCEPT !.slot = None]
    OBVIOUS
  <2>3. q \in Push /\ q.at = "notify" /\ q.content # None /\ q.slot = None
    BY <2>1, <2>2 DEF Push
  <2>4. push' = [push EXCEPT ![n] = q]
    BY <1>10, <2>2 DEF AckArrives, AckTimeout
  <2>5. PICK t \in Task \cup {None} : tasks' = [tasks EXCEPT ![push[n].slot] = t]
    <3>1. CASE AckArrives(n)
      BY <3>1 DEF AckArrives
    <3>2. CASE AckTimeout(n)
      <4>1. [tasks[push[n].slot] EXCEPT !.wanted = FALSE] \in Task
        BY <2>1 DEF Task
      <4> QED
        BY <3>2, <4>1 DEF AckTimeout
    <3> QED
      BY <1>10, <3>1, <3>2
  <2>6. TypeOK'
    <3>1. push' \in [Nodes -> Push \cup {None}]
      BY <2>3, <2>4
    <3>2. tasks' \in [Slots -> Task \cup {None}]
      BY <2>1, <2>5
    <3> QED
      BY <1>10, <3>1, <3>2 DEF AckArrives, AckTimeout
  <2>7. AwaitInv'
    <3> SUFFICES ASSUME NEW m \in Nodes, push'[m] # None
                 PROVE  /\ push'[m].at = "notify" => push'[m].content # None
                        /\ push'[m].slot # None =>
                             /\ push'[m].at = "notify"
                             /\ tasks'[push'[m].slot] # None
                             /\ tasks'[push'[m].slot].from = m
                             /\ tasks'[push'[m].slot].wanted
      OBVIOUS
    <3>1. CASE m = n
      BY <3>1, <2>3, <2>4
    <3>2. CASE m # n
      <4>1. push'[m] = push[m] /\ push[m] \in Push
        BY <3>2, <2>4
      <4>2. push[m].slot # None => push[m].slot # push[n].slot
        BY <3>2, <4>1, <2>1
      <4>3. push[m].slot # None => tasks'[push[m].slot] = tasks[push[m].slot]
        BY <4>1, <4>2, <2>5 DEF Push
      <4> QED
        BY <4>1, <4>3
    <3> QED
      BY <3>1, <3>2
  <2> QED
    BY <2>6, <2>7
<1>12. ASSUME NEW s \in Slots, NEW a \in {"downloaded", "exported"},
              tasks[s] # None, tasks' = [tasks EXCEPT ![s].at = a], push' = push
       PROVE  tasks' \in [Slots -> Task \cup {None}] /\ AwaitInv'
  <2>1. PICK t : t = [tasks[s] EXCEPT !.at = a]
    OBVIOUS
  <2>2. tasks[s] \in Task
    BY <1>12
  <2>3. t \in Task /\ t.from = tasks[s].from /\ t.wanted = tasks[s].wanted
    BY <2>1, <2>2 DEF Task
  <2>4. tasks' = [tasks EXCEPT ![s] = t]
    BY <1>12, <2>1
  <2>5. tasks' \in [Slots -> Task \cup {None}]
    BY <2>3, <2>4
  <2>6. AwaitInv'
    <3>1. \A r \in Slots : /\ tasks[r] # None => tasks'[r] # None
                            /\ tasks'[r].from = tasks[r].from
                            /\ tasks'[r].wanted = tasks[r].wanted
      <4>1. tasks'[s] = t /\ t # None
        BY <2>3, <2>4, SyncAssumption
      <4>2. \A r \in Slots : r # s => tasks'[r] = tasks[r]
        BY <2>4
      <4> QED
        BY <4>1, <4>2, <2>3
    <3>2. ASSUME NEW m \in Nodes, push[m] # None, push[m].slot # None
          PROVE  push[m].slot \in Slots
      BY <3>2 DEF Push
    <3> QED
      BY <1>12, <3>1, <3>2
  <2> QED
    BY <2>5, <2>6
<1>23. ASSUME NEW s \in Slots, Download(s)
       PROVE  TypeOK' /\ AwaitInv'
  BY <1>12, <1>23 DEF Download
<1>24. ASSUME NEW s \in Slots, NEW x \in Slots, ExportTo(s, x)
       PROVE  TypeOK' /\ AwaitInv'
  <2>1. tasks' \in [Slots -> Task \cup {None}] /\ AwaitInv'
    BY <1>12, <1>24 DEF ExportTo
  <2>2. tasks[s].content \in Content
    <3>1. tasks[s] \in Task
      BY <1>24 DEF ExportTo
    <3> QED
      BY <3>1 DEF Task
  <2>3. [path |-> x, content |-> tasks[s].content] \in Export
    BY <2>2 DEF Export
  <2>4. exports' \in [Slots -> Export \cup {None}]
    BY <1>24, <2>3 DEF ExportTo
  <2> QED
    BY <1>24, <2>1, <2>4 DEF ExportTo
<1>13. ASSUME NEW s \in Slots, PullFails(s) \/ Install(s)
       PROVE  tasks' \in [Slots -> Task \cup {None}]
  <2>1. tasks[s] \in Task
    <3>1. tasks[s] # None
      BY <1>13 DEF PullFails, Install, Installed
    <3>2. tasks[s] \in Task \cup {None}
      OBVIOUS
    <3> QED
      BY <3>1, <3>2
  <2>2. Result(tasks[s], "failed") \in Task \cup {None}
    BY <2>1, ResultType
  <2>3. Result(tasks[s], "installed") \in Task \cup {None}
    BY <2>1, ResultType
  <2> QED
    BY <1>13, <2>2, <2>3 DEF PullFails, Install, Installed
<1>14. ASSUME NEW s \in Slots, PullFails(s) \/ Install(s)
       PROVE  AwaitInv'
  <2>1. /\ push' = push
        /\ tasks[s] \in Task
        /\ \A r \in Slots : r # s => tasks'[r] = tasks[r]
        /\ tasks[s].wanted => /\ tasks'[s] # None
                              /\ tasks'[s].from = tasks[s].from
                              /\ tasks'[s].wanted
    <3>1. tasks[s] \in Task /\ push' = push
      BY <1>14 DEF PullFails, Install, Installed
    <3>2. PICK r \in {"failed", "installed"} :
                tasks' = [tasks EXCEPT ![s] = Result(tasks[s], r)]
      BY <1>14 DEF PullFails, Install, Installed
    <3>3. [tasks[s] EXCEPT !.at = r] \in Task
      BY <3>1 DEF Task
    <3>4. /\ [tasks[s] EXCEPT !.at = r].from = tasks[s].from
          /\ [tasks[s] EXCEPT !.at = r].wanted = tasks[s].wanted
      BY <3>1 DEF Task
    <3>5. tasks'[s] = Result(tasks[s], r)
      BY <3>2
    <3>6. \A x \in Slots : x # s => tasks'[x] = tasks[x]
      BY <3>2
    <3>7. tasks[s].wanted => tasks'[s] = [tasks[s] EXCEPT !.at = r]
      BY <3>5 DEF Result
    <3>8. tasks[s].wanted => /\ tasks'[s] # None
                             /\ tasks'[s].from = tasks[s].from
                             /\ tasks'[s].wanted
      BY <3>3, <3>4, <3>7
    <3> QED
      BY <3>1, <3>6, <3>8
  <2>2. ASSUME NEW m \in Nodes, push[m] # None, push[m].slot # None
        PROVE  /\ tasks'[push[m].slot] # None
               /\ tasks'[push[m].slot].from = m
               /\ tasks'[push[m].slot].wanted
    <3>1. push[m].slot \in Slots
      BY <2>2 DEF Push
    <3>2. tasks[push[m].slot] # None /\ tasks[push[m].slot].from = m
          /\ tasks[push[m].slot].wanted
      BY <2>2
    <3>3. CASE push[m].slot = s
      BY <3>2, <3>3, <2>1
    <3>4. CASE push[m].slot # s
      BY <3>1, <3>2, <3>4, <2>1
    <3> QED
      BY <3>3, <3>4
  <2> QED
    BY <2>1, <2>2
<1>15. ASSUME NEW s \in Slots, PullFails(s)
       PROVE  TypeOK'
  <2>1. exports' \in [Slots -> Export \cup {None}]
    BY <1>15 DEF PullFails
  <2> QED
    BY <1>13, <1>15, <2>1 DEF PullFails
<1>16. ASSUME NEW s \in Slots, Install(s)
       PROVE  TypeOK'
  <2>1. tasks[s].to \in Nodes /\ tasks[s].name \in Names
    BY <1>16 DEF Install, Installed, Task
  <2>4. exports[s] # None => exports[s].content \in Content \cup {None}
    BY DEF Export
  <2>5. exports' \in [Slots -> Export \cup {None}]
    <3>1. ASSUME NEW r \in Slots, exports[r] # None
          PROVE  [exports[r] EXCEPT !.content = None] \in Export
      <4>1. PICK e \in Export : e = exports[r]
        BY <3>1
      <4>2. [e EXCEPT !.content = None] \in Export
        BY DEF Export
      <4> QED
        BY <4>1, <4>2
    <3>2. exports[s] \in Export \cup {None}
      OBVIOUS
    <3> QED
      BY <1>16, <3>1 DEF Install, Installed, SamePath
  <2>2. events' \in [Nodes -> Seq(Names)]
    BY <1>16, <2>1, NotifiedType DEF Install, Installed
  <2>3. store' \in [Nodes -> [Names -> Content \cup {None}]]
    BY <1>16, <2>1, <2>4 DEF Install, Installed
  <2> QED
    BY <1>13, <1>16, <2>2, <2>3, <2>5 DEF Install, Installed
<1>17. ASSUME NEW n \in Nodes, Crash(n)
       PROVE  TypeOK' /\ AwaitInv'
  <2>1. ASSUME NEW s \in Slots, tasks[s] # None
        PROVE  /\ tasks'[s] \in Task \cup {None}
               /\ tasks[s].from # n /\ tasks[s].wanted =>
                    /\ tasks'[s] # None
                    /\ tasks'[s].from = tasks[s].from
                    /\ tasks'[s].wanted
    <3>1. PICK t \in Task : t = tasks[s]
      BY <2>1
    <3>2. /\ [t EXCEPT !.at = "failed"] \in Task
          /\ [t EXCEPT !.at = "failed"].from = t.from
          /\ [t EXCEPT !.at = "failed"].wanted = t.wanted
          /\ [t EXCEPT !.wanted = FALSE] \in Task
      BY DEF Task
    <3> QED
      BY <1>17, <3>1, <3>2 DEF Crash, Result
  <2>2. tasks' \in [Slots -> Task \cup {None}]
    <3>1. \A s \in Slots : tasks'[s] \in Task \cup {None}
      <4>1. \A s \in Slots : tasks[s] = None => tasks'[s] = None
        BY <1>17 DEF Crash
      <4> QED
        BY <2>1, <4>1
    <3>2. \E e : tasks' = [s \in Slots |-> e[s]]
      <4>1. tasks' = [s \in Slots |-> tasks'[s]]
        BY <1>17 DEF Crash
      <4> QED
        BY <4>1
    <3> QED
      BY <3>1, <3>2
  <2>3. push' = [push EXCEPT ![n] = None]
    BY <1>17 DEF Crash
  <2>4. AwaitInv'
    <3>1. ASSUME NEW m \in Nodes, push'[m] # None, push[m].slot # None
          PROVE  /\ tasks'[push[m].slot] # None
                 /\ tasks'[push[m].slot].from = m
                 /\ tasks'[push[m].slot].wanted
      <4>1. m # n /\ push[m] # None /\ push[m].slot \in Slots
        BY <2>3, <3>1 DEF Push
      <4>2. tasks[push[m].slot] # None /\ tasks[push[m].slot].from = m
            /\ tasks[push[m].slot].wanted
        BY <3>1, <4>1
      <4> QED
        BY <2>1, <4>1, <4>2
    <3>2. \A m \in Nodes : push'[m] # None => push'[m] = push[m]
      BY <2>3
    <3> QED
      BY <3>1, <3>2
  <2>5. events' \in [Nodes -> Seq(Names)]
    BY <1>17 DEF Crash
  <2>6. exports' \in [Slots -> Export \cup {None}]
    BY <1>17 DEF Crash
  <2> QED
    BY <1>17, <2>2, <2>3, <2>4, <2>5, <2>6 DEF Crash
<1>18. ASSUME NEW n \in Nodes, Restart(n)
       PROVE  TypeOK' /\ AwaitInv'
  BY <1>18 DEF Restart
<1>19. CASE UNCHANGED vars
  BY <1>19 DEF vars
<1>20. ASSUME NEW n \in Nodes, NEW ps \in SUBSET Nodes, FetchPeers(n, ps)
       PROVE  TypeOK' /\ AwaitInv'
  BY <1>5, <1>7, <1>20 DEF FetchPeers
<1>21. ASSUME NEW n \in Nodes, WatcherStep(n)
       PROVE  TypeOK' /\ AwaitInv'
  BY <1>3, <1>4, <1>6, <1>7, <1>8, <1>9, <1>10, <1>20, <1>21
     DEF WatcherStep, ImportFails, PushDone
<1>22. ASSUME NEW s \in Slots, TaskStep(s)
       PROVE  TypeOK' /\ AwaitInv'
  BY <1>14, <1>15, <1>16, <1>22, <1>23, <1>24 DEF TaskStep
<1> QED
  BY <1>1, <1>2, <1>17, <1>18, <1>19, <1>21, <1>22 DEF Next

-----------------------------------------------------------------------------

(* Where a copy after a step comes from.  In the store: it was there, a    *)
(* task brought it, or the user wrote it just now.                         *)
LEMMA StoredFrom ==
  TypeOK /\ ExportInv /\ NoncesDiffer /\ [Next]_vars =>
    \A f \in Names, n \in Nodes : store'[n][f] # None =>
      \/ store[n][f] = store'[n][f]
      \/ \E s \in Slots : /\ tasks[s] # None /\ tasks[s].name = f
                          /\ tasks[s].content = store'[n][f]
      \/ latest'[f] > latest[f] /\ store'[n][f] = Newest(f)'
<1> SUFFICES ASSUME TypeOK, ExportInv, NoncesDiffer, [Next]_vars,
                    NEW f \in Names, NEW n \in Nodes,
                    store'[n][f] # None, store'[n][f] # store[n][f]
             PROVE  \/ \E s \in Slots : /\ tasks[s] # None /\ tasks[s].name = f
                                        /\ tasks[s].content = store'[n][f]
                    \/ latest'[f] > latest[f] /\ store'[n][f] = Newest(f)'
  OBVIOUS
<1>1. ASSUME NEW m \in Nodes, NEW g \in Names, UserWrite(m, g)
      PROVE  latest'[f] > latest[f] /\ store'[n][f] = Newest(f)'
  <2>1. m = n /\ g = f
    BY <1>1 DEF UserWrite, TypeOK
  <2>2. latest'[f] = latest[f] + 1 /\ latest[f] \in Nat
    BY <1>1, <2>1 DEF UserWrite, TypeOK
  <2>3. store'[n][f] = [name |-> f, seq |-> latest[f] + 1]
    BY <1>1, <2>1 DEF UserWrite, TypeOK
  <2> QED
    BY <2>2, <2>3 DEF Newest
<1>2. ASSUME NEW m \in Nodes, NEW g \in Names, UserRemove(m, g)
      PROVE  FALSE
  BY <1>2 DEF UserRemove, TypeOK
<1>3. ASSUME NEW s \in Slots, Install(s)
      PROVE  \E r \in Slots : /\ tasks[r] # None /\ tasks[r].name = f
                              /\ tasks[r].content = store'[n][f]
  <2>1. tasks[s] # None /\ tasks[s].name \in Names /\ tasks[s].to \in Nodes
    BY <1>3 DEF Install, Installed, TypeOK, Task
  <2>2. tasks[s].to = n /\ tasks[s].name = f
    BY <1>3, <2>1 DEF Install, Installed, TypeOK
  <2>3. exports[s].content = tasks[s].content
    <3>1. exports[s] = [path |-> s, content |-> tasks[s].content]
      BY <1>3 DEF Install, Installed, ExportInv
    <3> QED
      BY <3>1
  <2>4. store'[n][f] = tasks[s].content
    BY <1>3, <2>1, <2>2, <2>3 DEF Install, Installed, TypeOK
  <2> QED
    BY <2>1, <2>2, <2>4
<1>4. store' # store
  OBVIOUS
<1> QED
  BY <1>1, <1>2, <1>3, <1>4
     DEF Next, vars, WatcherStep, TaskStep, EventSkipped, PushStarts, FetchPeers,
         Import, Imported, ImportFails, Offer, OfferFails, AckArrives, AckTimeout,
         PushDone, Download, ExportTo, PullFails, Crash, Restart

(* What the steps of a push that is notifying its peers keep of it.        *)

LEMMA OfferKeeps ==
  ASSUME TypeOK, NEW n \in Nodes, NEW p \in Nodes, NEW s \in Slots, Offer(n, p, s)
  PROVE  /\ push[n] \in Push
         /\ \E q \in Push : /\ push' = [push EXCEPT ![n] = q]
                            /\ q.at = push[n].at /\ q.name = push[n].name
                            /\ q.content = push[n].content
                            /\ q.peers = push[n].peers \ {p}
<1>1. push[n] \in Push
  BY DEF Offer, Notifying, TypeOK
<1>2. PICK q : q = [push[n] EXCEPT !.peers = push[n].peers \ {p}, !.slot = s]
  OBVIOUS
<1>3. push' = [push EXCEPT ![n] = q]
  BY <1>2 DEF Offer
<1>4. /\ q \in Push
      /\ q.at = push[n].at /\ q.name = push[n].name
      /\ q.content = push[n].content /\ q.peers = push[n].peers \ {p}
  BY <1>1, <1>2 DEF Push
<1> QED
  BY <1>1, <1>3, <1>4

LEMMA OfferFailsKeeps ==
  ASSUME TypeOK, NEW n \in Nodes, NEW p \in Nodes, OfferFails(n, p)
  PROVE  /\ push[n] \in Push
         /\ \E q \in Push : /\ push' = [push EXCEPT ![n] = q]
                            /\ q.at = push[n].at /\ q.name = push[n].name
                            /\ q.content = push[n].content
                            /\ q.peers = push[n].peers \ {p}
<1>1. push[n] \in Push
  BY DEF OfferFails, Notifying, TypeOK
<1>2. PICK q : q = [push[n] EXCEPT !.peers = push[n].peers \ {p}]
  OBVIOUS
<1>3. push' = [push EXCEPT ![n] = q]
  BY <1>2 DEF OfferFails
<1>4. /\ q \in Push
      /\ q.at = push[n].at /\ q.name = push[n].name
      /\ q.content = push[n].content /\ q.peers = push[n].peers \ {p}
  BY <1>1, <1>2 DEF Push
<1> QED
  BY <1>1, <1>3, <1>4

LEMMA AckKeeps ==
  ASSUME TypeOK, NEW n \in Nodes, AckArrives(n) \/ AckTimeout(n)
  PROVE  /\ push[n] \in Push
         /\ \E q \in Push : /\ push' = [push EXCEPT ![n] = q]
                            /\ q.at = push[n].at /\ q.name = push[n].name
                            /\ q.content = push[n].content
                            /\ q.peers = push[n].peers
<1>1. push[n] \in Push
  BY DEF AckArrives, AckTimeout, Notifying, TypeOK
<1>2. PICK q : q = [push[n] EXCEPT !.slot = None]
  OBVIOUS
<1>3. push' = [push EXCEPT ![n] = q]
  BY <1>2 DEF AckArrives, AckTimeout
<1>4. /\ q \in Push
      /\ q.at = push[n].at /\ q.name = push[n].name
      /\ q.content = push[n].content /\ q.peers = push[n].peers
  BY <1>1, <1>2 DEF Push
<1> QED
  BY <1>1, <1>3, <1>4

(* In a push: it was in that push, or imported from the node's store.      *)
LEMMA PushedFrom ==
  TypeOK /\ AwaitInv /\ [Next]_vars =>
    \A f \in Names, n \in Nodes : Notifying(n)' /\ push'[n].name = f =>
      \/ Notifying(n) /\ push[n].name = f /\ push[n].content = push'[n].content
      \/ store[n][f] # None /\ store[n][f] = push'[n].content
<1> SUFFICES ASSUME TypeOK, [Next]_vars, NEW n \in Nodes, Notifying(n)'
             PROVE  \/ /\ Notifying(n) /\ push[n].name = push'[n].name
                       /\ push[n].content = push'[n].content
                    \/ /\ store[n][push'[n].name] # None
                       /\ store[n][push'[n].name] = push'[n].content
  OBVIOUS
<1> USE DEF Notifying
<1>1. ASSUME NEW m \in Nodes, PushStarts(m)
      PROVE  push'[n] = push[n]
  <2>1. m # n
    BY <1>1 DEF PushStarts, TypeOK
  <2> QED
    BY <1>1, <2>1 DEF PushStarts, TypeOK
<1>2. ASSUME NEW m \in Nodes, EndPush(m)
      PROVE  push'[n] = push[n]
  BY <1>2 DEF EndPush, TypeOK
<1>3. ASSUME NEW m \in Nodes, NEW ps \in SUBSET Nodes, FetchPeers(m, ps), ps # {}
      PROVE  push'[n] = push[n]
  <2>1. push'[m].at = "import"
    <3>1. push[m] \in Push
      BY <1>3 DEF FetchPeers, TypeOK
    <3>2. [push[m] EXCEPT !.at = "import", !.peers = ps].at = "import"
      BY <3>1 DEF Push
    <3> QED
      BY <1>3, <3>2 DEF FetchPeers, TypeOK
  <2> QED
    BY <1>3, <2>1 DEF FetchPeers, TypeOK
<1>4. ASSUME NEW m \in Nodes, Import(m)
      PROVE  \/ push'[n] = push[n]
             \/ /\ store[n][push'[n].name] # None
                /\ store[n][push'[n].name] = push'[n].content
  <2>1. push[m] \in Push
    BY <1>4 DEF Import, TypeOK
  <2>2. PICK q : q = [push[m] EXCEPT !.at = "notify",
                                     !.content = store[m][push[m].name]]
    OBVIOUS
  <2>3. q.name = push[m].name /\ q.content = store[m][push[m].name]
    BY <2>1, <2>2 DEF Push
  <2>4. push' = [push EXCEPT ![m] = q] /\ store[m][push[m].name] # None
    BY <1>4, <2>2 DEF Import, Imported
  <2> QED
    BY <2>3, <2>4 DEF TypeOK
<1>5. ASSUME NEW m \in Nodes,
             \/ \E p \in Nodes, s \in Slots : Offer(m, p, s)
             \/ \E p \in Nodes : OfferFails(m, p)
             \/ AckArrives(m)
             \/ AckTimeout(m)
      PROVE  /\ Notifying(n) /\ push[n].name = push'[n].name
             /\ push[n].content = push'[n].content
  <2>1. PICK q \in Push : /\ push' = [push EXCEPT ![m] = q]
                          /\ q.at = push[m].at /\ q.name = push[m].name
                          /\ q.content = push[m].content
    BY <1>5, OfferKeeps, OfferFailsKeeps, AckKeeps
  <2>2. Notifying(m)
    BY <1>5 DEF Offer, OfferFails, AckArrives, AckTimeout
  <2> QED
    BY <2>1, <2>2 DEF TypeOK
<1>6. ASSUME NEW m \in Nodes, Crash(m)
      PROVE  push'[n] = push[n]
  BY <1>6 DEF Crash, TypeOK
<1>7. CASE push' = push
  BY <1>7
<1>8. ASSUME NEW m \in Nodes, NEW ps \in SUBSET Nodes, FetchPeers(m, ps)
      PROVE  push'[n] = push[n]
  BY <1>2, <1>3, <1>8 DEF FetchPeers
<1>9. ASSUME NEW m \in Nodes, WatcherStep(m)
      PROVE  \/ /\ Notifying(n) /\ push[n].name = push'[n].name
                /\ push[n].content = push'[n].content
             \/ /\ store[n][push'[n].name] # None
                /\ store[n][push'[n].name] = push'[n].content
  BY <1>1, <1>2, <1>4, <1>5, <1>7, <1>8, <1>9
     DEF WatcherStep, EventSkipped, ImportFails, PushDone
<1> QED
  BY <1>6, <1>7, <1>9
     DEF Next, vars, UserWrite, UserRemove, TaskStep, Download, ExportTo, PullFails,
         Install, Installed, Restart

(* A task is one there was, with its file and its devices, still awaited   *)
(* only if it was, or an offer made now.                                   *)
Kept(s) == /\ tasks[s] # None
           /\ tasks'[s].name = tasks[s].name /\ tasks'[s].content = tasks[s].content
           /\ tasks'[s].from = tasks[s].from /\ tasks'[s].to = tasks[s].to
           /\ tasks'[s].wanted => tasks[s].wanted

Made(s) == \E n, p \in Nodes : Offer(n, p, s)

LEMMA TaskFields ==
  ASSUME NEW t \in Task, NEW a
  PROVE  /\ [t EXCEPT !.at = a].name = t.name
         /\ [t EXCEPT !.at = a].content = t.content
         /\ [t EXCEPT !.at = a].from = t.from
         /\ [t EXCEPT !.at = a].to = t.to
         /\ [t EXCEPT !.at = a].wanted = t.wanted
         /\ [t EXCEPT !.wanted = FALSE].name = t.name
         /\ [t EXCEPT !.wanted = FALSE].content = t.content
         /\ [t EXCEPT !.wanted = FALSE].from = t.from
         /\ [t EXCEPT !.wanted = FALSE].to = t.to
         /\ [t EXCEPT !.wanted = FALSE].wanted = FALSE
BY DEF Task

LEMMA TaskKept ==
  TypeOK /\ AwaitInv /\ [Next]_vars =>
    \A s \in Slots : tasks'[s] # None => Kept(s) \/ Made(s)
<1> SUFFICES ASSUME TypeOK, AwaitInv, [Next]_vars, NEW s \in Slots, tasks'[s] # None
             PROVE  Kept(s) \/ Made(s)
  OBVIOUS
<1>1. ASSUME NEW t, tasks[s] = t, t \in Task,
             \/ tasks'[s] = t
             \/ \E a : tasks'[s] \in {[t EXCEPT !.at = a], Result(t, a)}
             \/ tasks'[s] = [t EXCEPT !.wanted = FALSE]
      PROVE  Kept(s)
  <2>1. t # None
    BY <1>1, SyncAssumption
  <2>2. CASE tasks'[s] = t
    BY <1>1, <2>1, <2>2 DEF Kept
  <2>3. CASE \E a : tasks'[s] \in {[t EXCEPT !.at = a], Result(t, a)}
    <3>1. PICK a : tasks'[s] = [t EXCEPT !.at = a]
      BY <2>3 DEF Result
    <3> QED
      BY <1>1, <2>1, <3>1, TaskFields DEF Kept
  <2>4. CASE tasks'[s] = [t EXCEPT !.wanted = FALSE]
    BY <1>1, <2>1, <2>4, TaskFields DEF Kept
  <2> QED
    BY <1>1, <2>2, <2>3, <2>4
<1>2. ASSUME tasks'[s] = tasks[s]
      PROVE  Kept(s)
  BY <1>1, <1>2 DEF TypeOK
<1>3. ASSUME NEW n \in Nodes, NEW p \in Nodes, NEW r \in Slots, Offer(n, p, r)
      PROVE  Kept(s) \/ Made(s)
  <2>1. CASE r = s
    BY <1>3, <2>1 DEF Made
  <2>2. CASE r # s
    BY <1>2, <1>3, <2>2 DEF Offer, TypeOK
  <2> QED
    BY <2>1, <2>2
<1>4. ASSUME NEW n \in Nodes, AckArrives(n) \/ AckTimeout(n)
      PROVE  Kept(s)
  <2>1. push[n].slot \in Slots /\ tasks[push[n].slot] \in Task
    BY <1>4 DEF AckArrives, AckTimeout, Notifying, TypeOK, AwaitInv, Push
  <2>2. \/ tasks' = [tasks EXCEPT ![push[n].slot] = None]
        \/ tasks' = [tasks EXCEPT ![push[n].slot] =
                       [tasks[push[n].slot] EXCEPT !.wanted = FALSE]]
    BY <1>4 DEF AckArrives, AckTimeout
  <2>3. CASE s = push[n].slot
    <3>1. tasks'[s] = [tasks[s] EXCEPT !.wanted = FALSE]
      BY <2>1, <2>2, <2>3 DEF TypeOK
    <3> QED
      BY <1>1, <2>1, <2>3, <3>1
  <2>4. CASE s # push[n].slot
    <3>1. tasks'[s] = tasks[s]
      BY <2>2, <2>4 DEF TypeOK
    <3> QED
      BY <1>2, <3>1
  <2> QED
    BY <2>3, <2>4
<1>5. ASSUME NEW r \in Slots, TaskStep(r)
      PROVE  Kept(s)
  <2>1. tasks[r] \in Task
    BY <1>5 DEF TaskStep, Download, ExportTo, PullFails, Install, Installed, TypeOK
  <2>2. PICK a : \/ tasks' = [tasks EXCEPT ![r] = [tasks[r] EXCEPT !.at = a]]
                 \/ tasks' = [tasks EXCEPT ![r] = Result(tasks[r], a)]
    BY <1>5 DEF TaskStep, Download, ExportTo, PullFails, Install, Installed
  <2>3. CASE s = r
    <3>1. tasks'[s] \in {[tasks[s] EXCEPT !.at = a], Result(tasks[s], a)}
      BY <2>2, <2>3 DEF TypeOK
    <3> QED
      BY <1>1, <2>1, <2>3, <3>1
  <2>4. CASE s # r
    <3>1. tasks'[s] = tasks[s]
      BY <2>2, <2>4 DEF TypeOK
    <3> QED
      BY <1>2, <3>1
  <2> QED
    BY <2>3, <2>4
<1>6. ASSUME NEW n \in Nodes, Crash(n)
      PROVE  Kept(s)
  <2>1. tasks[s] # None /\ tasks[s] \in Task
    BY <1>6 DEF Crash, TypeOK
  <2>2. \/ tasks'[s] = Result(tasks[s], "failed")
        \/ tasks'[s] = [tasks[s] EXCEPT !.wanted = FALSE]
        \/ tasks'[s] = tasks[s]
    BY <1>6, <2>1 DEF Crash
  <2> QED
    BY <1>1, <2>1, <2>2
<1>7. ASSUME NEW n \in Nodes, WatcherStep(n)
      PROVE  Kept(s) \/ Made(s)
  BY <1>2, <1>3, <1>4, <1>7
     DEF WatcherStep, EventSkipped, PushStarts, FetchPeers, Import, Imported,
         ImportFails, OfferFails, PushDone
<1> QED
  BY <1>2, <1>5, <1>6, <1>7 DEF Next, vars, UserWrite, UserRemove, Restart

(* What an offer puts in its slot.                                         *)
LEMMA OfferMakes ==
  ASSUME TypeOK, NEW n \in Nodes, NEW p \in Nodes, NEW s \in Slots, Offer(n, p, s)
  PROVE  /\ tasks'[s].from = n /\ tasks'[s].to = p
         /\ tasks'[s].name = push[n].name /\ tasks'[s].content = push[n].content
<1>1. tasks'[s] = [at |-> "offered", from |-> n, to |-> p,
                   name |-> push[n].name, content |-> push[n].content,
                   wanted |-> TRUE]
  BY DEF Offer, TypeOK
<1> QED
  BY <1>1

(* In a task: it was in that task, or in the push that made the offer.     *)
LEMMA TaskFrom ==
  TypeOK /\ AwaitInv /\ [Next]_vars =>
    \A f \in Names, s \in Slots : tasks'[s] # None /\ tasks'[s].name = f =>
      \/ /\ tasks[s] # None /\ tasks[s].name = f
         /\ tasks[s].content = tasks'[s].content
      \/ \E n \in Nodes : /\ Notifying(n) /\ push[n].name = f
                          /\ push[n].content = tasks'[s].content
<1> SUFFICES ASSUME TypeOK, AwaitInv, [Next]_vars, NEW s \in Slots, tasks'[s] # None
             PROVE  \/ /\ tasks[s] # None /\ tasks[s].name = tasks'[s].name
                       /\ tasks[s].content = tasks'[s].content
                    \/ \E n \in Nodes : /\ Notifying(n)
                                        /\ push[n].name = tasks'[s].name
                                        /\ push[n].content = tasks'[s].content
  OBVIOUS
<1>1. CASE Kept(s)
  BY <1>1 DEF Kept
<1>2. ASSUME NEW n \in Nodes, NEW p \in Nodes, Offer(n, p, s)
      PROVE  /\ Notifying(n) /\ push[n].name = tasks'[s].name
             /\ push[n].content = tasks'[s].content
  <2>1. Notifying(n)
    BY <1>2 DEF Offer
  <2> QED
    BY <1>2, <2>1, OfferMakes
<1> QED
  BY <1>1, <1>2, TaskKept DEF Made

(* Together: a copy that was not there before is what a user wrote now.    *)
LEMMA CopiesStep ==
  TypeOK /\ AwaitInv /\ ExportInv /\ NoncesDiffer /\ [Next]_vars =>
    \A f \in Names :
      Copies(f)' \subseteq Copies(f) \cup
         (IF latest'[f] > latest[f] THEN {Newest(f)'} ELSE {})
<1> SUFFICES ASSUME TypeOK, AwaitInv, ExportInv, NoncesDiffer, [Next]_vars,
                    NEW f \in Names, NEW c, c \in Copies(f)'
             PROVE  c \in Copies(f) \/ (latest'[f] > latest[f] /\ c = Newest(f)')
  OBVIOUS
<1>1. CASE \E n \in Nodes : store'[n][f] # None /\ c = store'[n][f]
  BY <1>1, StoredFrom DEF Copies
<1>2. CASE \E n \in Nodes : /\ Notifying(n)' /\ push'[n].name = f
                            /\ c = push'[n].content
  BY <1>2, PushedFrom DEF Copies
<1>3. CASE \E s \in Slots : /\ tasks'[s] # None /\ tasks'[s].name = f
                            /\ c = tasks'[s].content
  <2>1. PICK s \in Slots : /\ tasks'[s] # None /\ tasks'[s].name = f
                           /\ c = tasks'[s].content
    BY <1>3
  <2>2. \/ /\ tasks[s] # None /\ tasks[s].name = f /\ tasks[s].content = c
        \/ \E n \in Nodes : /\ Notifying(n) /\ push[n].name = f
                            /\ push[n].content = c
    BY <2>1, TaskFrom
  <2> QED
    BY <2>2 DEF Copies
<1> QED
  BY <1>1, <1>2, <1>3 DEF Copies

-----------------------------------------------------------------------------

(* fetch_peers leaves the node's own record out, and a push only takes     *)
(* peers off its list.                                                     *)
LEMMA PeersNext ==
  TypeOK /\ AwaitInv /\ AddressInv /\ [Next]_vars =>
    \A m \in Nodes : push'[m] # None => m \notin push'[m].peers
<1> SUFFICES ASSUME TypeOK, AwaitInv, AddressInv, [Next]_vars,
                    NEW m \in Nodes, push'[m] # None
             PROVE  m \notin push'[m].peers
  OBVIOUS
<1>1. CASE push'[m] = push[m]
  BY <1>1 DEF AddressInv
<1>2. ASSUME NEW n \in Nodes, PushStarts(n)
      PROVE  m \notin push'[m].peers
  <2>1. push' = [push EXCEPT ![n] =
                   [at |-> "peers", name |-> Head(events[n]), content |-> None,
                    peers |-> {}, slot |-> None]]
    BY <1>2 DEF PushStarts
  <2> QED
    BY <1>1, <2>1 DEF TypeOK
<1>3. ASSUME NEW n \in Nodes, NEW ps \in SUBSET Nodes, FetchPeers(n, ps)
      PROVE  m \notin push'[m].peers
  <2>1. PICK q : q = [push[n] EXCEPT !.at = "import", !.peers = ps]
    OBVIOUS
  <2>2. push[n] \in Push /\ n \notin ps
    BY <1>3 DEF FetchPeers, TypeOK
  <2>3. q.peers = ps
    BY <2>1, <2>2 DEF Push
  <2>4. push' \in {[push EXCEPT ![n] = q], [push EXCEPT ![n] = None]}
    BY <1>3, <2>1 DEF FetchPeers, EndPush
  <2> QED
    BY <1>1, <2>2, <2>3, <2>4 DEF TypeOK
<1>4. ASSUME NEW n \in Nodes, NEW q, push[n] \in Push, q.peers \subseteq push[n].peers,
             push' = [push EXCEPT ![n] = q]
      PROVE  m \notin push'[m].peers
  BY <1>1, <1>4 DEF AddressInv, TypeOK
<1>5. ASSUME NEW n \in Nodes, push' = [push EXCEPT ![n] = None]
      PROVE  m \notin push'[m].peers
  BY <1>1, <1>5 DEF TypeOK
<1>6. ASSUME NEW n \in Nodes, Import(n)
      PROVE  m \notin push'[m].peers
  <2>1. PICK q : q = [push[n] EXCEPT !.at = "notify",
                                     !.content = store[n][push[n].name]]
    OBVIOUS
  <2>2. push[n] \in Push /\ push' = [push EXCEPT ![n] = q]
    BY <1>6, <2>1 DEF Import, Imported, TypeOK
  <2>3. q.peers = push[n].peers
    BY <2>1, <2>2 DEF Push
  <2> QED
    BY <1>4, <2>2, <2>3
<1>7. ASSUME NEW n \in Nodes, NEW p \in Nodes, NEW s \in Slots, Offer(n, p, s)
      PROVE  m \notin push'[m].peers
  BY <1>4, <1>7, OfferKeeps
<1>8. ASSUME NEW n \in Nodes, NEW p \in Nodes, OfferFails(n, p)
      PROVE  m \notin push'[m].peers
  BY <1>4, <1>8, OfferFailsKeeps
<1>9. ASSUME NEW n \in Nodes, AckArrives(n) \/ AckTimeout(n)
      PROVE  m \notin push'[m].peers
  BY <1>4, <1>9, AckKeeps
<1>10. ASSUME NEW n \in Nodes, WatcherStep(n)
       PROVE  m \notin push'[m].peers
  BY <1>1, <1>2, <1>3, <1>5, <1>6, <1>7, <1>8, <1>9, <1>10
     DEF WatcherStep, EventSkipped, ImportFails, PushDone, EndPush
<1> QED
  BY <1>1, <1>5, <1>10
     DEF Next, vars, UserWrite, UserRemove, TaskStep, Download, ExportTo, PullFails,
         Install, Installed, Crash, Restart

(* So the two ends of an offer are different devices.                      *)
LEMMA AddressNext ==
  TypeOK /\ AwaitInv /\ AddressInv /\ [Next]_vars => AddressInv'
<1> SUFFICES ASSUME TypeOK, AwaitInv, AddressInv, [Next]_vars,
                    NEW s \in Slots, tasks'[s] # None
             PROVE  tasks'[s].from # tasks'[s].to
  BY PeersNext DEF AddressInv
<1>1. CASE Kept(s)
  BY <1>1 DEF Kept, AddressInv
<1>2. ASSUME NEW n \in Nodes, NEW p \in Nodes, Offer(n, p, s)
      PROVE  tasks'[s].from # tasks'[s].to
  <2>1. n # p
    BY <1>2 DEF Offer, Notifying, AddressInv
  <2> QED
    BY <1>2, <2>1, OfferMakes
<1> QED
  BY <1>1, <1>2, TaskKept DEF Made

(* A task exports once, to a path of its own while no nonce is drawn twice,*)
(* and what it exports is what it was offered.                             *)
LEMMA ExportNext ==
  TypeOK /\ AwaitInv /\ ExportInv /\ [Next]_vars => ExportInv'
<1> SUFFICES ASSUME TypeOK, AwaitInv, ExportInv, [Next]_vars, NEW s \in Slots
             PROVE  /\ exports'[s] # None
                         <=> tasks'[s] # None /\ tasks'[s].at = "exported"
                    /\ NoncesDiffer /\ exports'[s] # None =>
                         exports'[s] = [path |-> s, content |-> tasks'[s].content]
  BY DEF ExportInv
<1> DEFINE Good == /\ exports'[s] # None
                         <=> tasks'[s] # None /\ tasks'[s].at = "exported"
                   /\ NoncesDiffer /\ exports'[s] # None =>
                         exports'[s] = [path |-> s, content |-> tasks'[s].content]
<1>0. /\ exports[s] # None <=> tasks[s] # None /\ tasks[s].at = "exported"
      /\ NoncesDiffer /\ exports[s] # None =>
           exports[s] = [path |-> s, content |-> tasks[s].content]
  BY DEF ExportInv
<1>1. ASSUME tasks'[s] = tasks[s], exports'[s] = exports[s]
      PROVE  Good
  BY <1>0, <1>1
<1>2. ASSUME exports'[s] = None, tasks'[s] = None \/ tasks'[s].at # "exported"
      PROVE  Good
  BY <1>2
<1>3. ASSUME NEW t \in Task, tasks[s] = t, exports'[s] = exports[s],
             tasks'[s] = [t EXCEPT !.wanted = FALSE]
      PROVE  Good
  <2>1. /\ tasks'[s] # None /\ tasks[s] # None /\ tasks'[s].at = tasks[s].at
        /\ tasks'[s].content = tasks[s].content
    <3>1. [t EXCEPT !.wanted = FALSE] \in Task
      BY DEF Task
    <3>2. [t EXCEPT !.wanted = FALSE].at = t.at
          /\ [t EXCEPT !.wanted = FALSE].content = t.content
      BY DEF Task
    <3> QED
      BY <1>3, <3>1, <3>2, SyncAssumption
  <2> QED
    BY <1>0, <1>3, <2>1
<1>4. ASSUME NEW n \in Nodes, NEW p \in Nodes, NEW r \in Slots, Offer(n, p, r)
      PROVE  Good
  <2>1. CASE r = s
    <3>1. tasks[s] = None /\ exports'[s] = exports[s]
      BY <1>4, <2>1 DEF Offer
    <3>2. tasks'[s].at = "offered"
      BY <1>4, <2>1 DEF Offer, TypeOK
    <3> QED
      BY <1>0, <1>2, <3>1, <3>2
  <2>2. CASE r # s
    BY <1>1, <1>4, <2>2 DEF Offer, TypeOK
  <2> QED
    BY <2>1, <2>2
<1>5. ASSUME NEW n \in Nodes, AckArrives(n) \/ AckTimeout(n)
      PROVE  Good
  <2>1. push[n].slot \in Slots /\ tasks[push[n].slot] \in Task /\ exports' = exports
    BY <1>5 DEF AckArrives, AckTimeout, Notifying, TypeOK, AwaitInv, Push
  <2>2. CASE s # push[n].slot
    BY <1>1, <1>5, <2>1, <2>2 DEF AckArrives, AckTimeout, TypeOK
  <2>3. CASE s = push[n].slot /\ AckArrives(n)
    BY <1>0, <1>2, <2>1, <2>3 DEF AckArrives, TypeOK
  <2>4. CASE s = push[n].slot /\ AckTimeout(n)
    BY <1>3, <2>1, <2>4 DEF AckTimeout, TypeOK
  <2> QED
    BY <1>5, <2>2, <2>3, <2>4
<1>6. ASSUME NEW r \in Slots, Download(r)
      PROVE  Good
  <2>1. CASE r = s
    <3>1. tasks[s] \in Task /\ tasks[s].at = "offered" /\ exports' = exports
      BY <1>6, <2>1 DEF Download, TypeOK
    <3>2. [tasks[s] EXCEPT !.at = "downloaded"].at = "downloaded"
      BY <3>1 DEF Task
    <3>3. tasks'[s].at = "downloaded"
      BY <1>6, <2>1, <3>2 DEF Download, TypeOK
    <3> QED
      BY <1>0, <1>2, <3>1, <3>3
  <2>2. CASE r # s
    BY <1>1, <1>6, <2>2 DEF Download, TypeOK
  <2> QED
    BY <2>1, <2>2
<1>7. ASSUME NEW r \in Slots, NEW x \in Slots, ExportTo(r, x)
      PROVE  Good
  <2>1. CASE r = s
    <3>1. tasks[s] \in Task
      BY <1>7, <2>1 DEF ExportTo, TypeOK
    <3>2. PICK t : t = [tasks[s] EXCEPT !.at = "exported"]
      OBVIOUS
    <3>3. /\ t \in Task /\ t.at = "exported" /\ t.content = tasks[s].content
      BY <3>1, <3>2 DEF Task
    <3>4. tasks'[s] = t /\ t # None
      BY <1>7, <2>1, <3>2, <3>3, SyncAssumption DEF ExportTo, TypeOK
    <3>5. exports'[s] = [path |-> x, content |-> tasks[s].content]
      BY <1>7, <2>1 DEF ExportTo
    <3>6. [path |-> x, content |-> tasks[s].content] # None
      <4>1. [path |-> x, content |-> tasks[s].content] \in Export
        BY <3>1 DEF Export, Task
      <4> QED
        BY <4>1, SyncAssumption
    <3>7. NoncesDiffer => x = s
      BY <1>7, <2>1 DEF ExportTo
    <3> QED
      BY <3>3, <3>4, <3>5, <3>6, <3>7
  <2>2. CASE r # s /\ ~SamePath(s, r, x)
    BY <1>1, <1>7, <2>2 DEF ExportTo, TypeOK
  <2>3. CASE r # s /\ SamePath(s, r, x)
    <3>1. tasks'[s] = tasks[s] /\ exports[s] # None
      BY <1>7, <2>3 DEF ExportTo, TypeOK, SamePath
    <3>2. ~NoncesDiffer
      BY <1>0, <1>7, <2>3 DEF ExportTo, SamePath
    <3>3. exports'[s] # None
      <4>1. tasks[r] \in Task
        BY <1>7 DEF ExportTo, TypeOK
      <4>2. [path |-> x, content |-> tasks[r].content] \in Export
        BY <4>1 DEF Export, Task
      <4>3. exports'[s] = [path |-> x, content |-> tasks[r].content]
        BY <1>7, <2>3 DEF ExportTo
      <4> QED
        BY <4>2, <4>3, SyncAssumption
    <3> QED
      BY <1>0, <3>1, <3>2, <3>3
  <2> QED
    BY <2>1, <2>2, <2>3
<1>8. ASSUME NEW r \in Slots, PullFails(r)
      PROVE  Good
  <2>1. CASE r = s
    <3>1. tasks[s] \in Task /\ tasks'[s] = Result(tasks[s], "failed")
      BY <1>8, <2>1 DEF PullFails, TypeOK
    <3>2. tasks'[s] = None \/ tasks'[s].at = "failed"
      BY <3>1, ResultOffer
    <3>3. exports'[s] = None
      BY <1>8, <2>1 DEF PullFails, TypeOK
    <3> QED
      BY <1>2, <3>2, <3>3
  <2>2. CASE r # s
    BY <1>1, <1>8, <2>2 DEF PullFails, TypeOK
  <2> QED
    BY <2>1, <2>2
<1>9. ASSUME NEW r \in Slots, Install(r)
      PROVE  Good
  <2>1. CASE r = s
    <3>1. tasks[s] \in Task /\ tasks'[s] = Result(tasks[s], "installed")
      BY <1>9, <2>1 DEF Install, Installed, TypeOK
    <3>2. tasks'[s] = None \/ tasks'[s].at = "installed"
      BY <3>1, ResultOffer
    <3>3. exports'[s] = None
      BY <1>9, <2>1 DEF Install, Installed, TypeOK
    <3> QED
      BY <1>2, <3>2, <3>3
  <2>2. CASE r # s /\ ~SamePath(s, r, exports[r].path)
    BY <1>1, <1>9, <2>2 DEF Install, Installed, TypeOK
  <2>3. CASE r # s /\ SamePath(s, r, exports[r].path)
    <3>1. tasks'[s] = tasks[s] /\ exports[s] # None
          /\ exports[s] \in Export
      BY <1>9, <2>3 DEF Install, Installed, TypeOK, SamePath
    <3>2. ~NoncesDiffer
      <4>1. exports[r] # None /\ exports[r].path = exports[s].path
        BY <1>9, <2>3 DEF Install, Installed, SamePath
      <4>2. NoncesDiffer =>
              /\ exports[r] = [path |-> r, content |-> tasks[r].content]
              /\ exports[s] = [path |-> s, content |-> tasks[s].content]
        BY <3>1, <4>1 DEF ExportInv
      <4>3. NoncesDiffer => exports[r].path = r /\ exports[s].path = s
        BY <4>2
      <4> QED
        BY <2>3, <4>1, <4>3
    <3>3. exports'[s] # None
      <4>1. [exports[s] EXCEPT !.content = None] \in Export
        BY <3>1 DEF Export
      <4>2. exports'[s] = [exports[s] EXCEPT !.content = None]
        BY <1>9, <2>3 DEF Install, Installed
      <4> QED
        BY <4>1, <4>2, SyncAssumption
    <3> QED
      BY <1>0, <3>1, <3>2, <3>3
  <2> QED
    BY <2>1, <2>2, <2>3
<1>10. ASSUME NEW n \in Nodes, Crash(n)
       PROVE  Good
  <2>1. CASE tasks[s] = None
    BY <1>1, <1>10, <2>1 DEF Crash
  <2>2. CASE tasks[s] # None /\ tasks[s].to = n
    <3>1. /\ tasks[s] \in Task /\ tasks'[s] = Result(tasks[s], "failed")
          /\ exports'[s] = None
      BY <1>10, <2>2 DEF Crash, TypeOK
    <3> QED
      BY <1>2, <3>1, ResultOffer
  <2>3. CASE tasks[s] # None /\ tasks[s].to # n
    <3>1. /\ tasks[s] \in Task /\ exports'[s] = exports[s]
          /\ \/ tasks'[s] = None /\ tasks[s].at \in {"installed", "failed"}
             \/ tasks'[s] = [tasks[s] EXCEPT !.wanted = FALSE]
             \/ tasks'[s] = tasks[s]
      BY <1>10, <2>3 DEF Crash, TypeOK
    <3>2. CASE tasks'[s] = None /\ tasks[s].at \in {"installed", "failed"}
      BY <1>0, <1>2, <3>1, <3>2
    <3> QED
      BY <1>1, <1>3, <3>1, <3>2
  <2> QED
    BY <2>1, <2>2, <2>3
<1>11. ASSUME NEW n \in Nodes, WatcherStep(n)
       PROVE  Good
  BY <1>1, <1>4, <1>5, <1>11
     DEF WatcherStep, EventSkipped, PushStarts, FetchPeers, Import, Imported,
         ImportFails, OfferFails, PushDone
<1>12. ASSUME NEW r \in Slots, TaskStep(r)
       PROVE  Good
  BY <1>6, <1>7, <1>8, <1>9, <1>12 DEF TaskStep
<1> QED
  BY <1>1, <1>10, <1>11, <1>12 DEF Next, vars, UserWrite, UserRemove, Restart

(* A push that waits for an ack stays as it is until the ack comes, the    *)
(* time is over, or its process dies.                                      *)
LEMMA WaitingStays ==
  ASSUME TypeOK, AwaitInv, [Next]_vars, NEW m \in Nodes,
         Notifying(m), push[m].slot # None, push'[m] # push[m]
  PROVE  AckArrives(m) \/ AckTimeout(m) \/ Crash(m)
<1>1. push'[m] # push[m] => \E n \in Nodes : WatcherStep(n) \/ Crash(n)
  BY DEF Next, vars, UserWrite, UserRemove, TaskStep, Download, ExportTo, PullFails, Install,
         Installed, Restart
<1>2. ASSUME NEW n \in Nodes, NEW q, push' = [push EXCEPT ![n] = q]
      PROVE  n = m
  BY <1>2 DEF TypeOK
<1>3. ASSUME NEW n \in Nodes, WatcherStep(n)
      PROVE  AckArrives(m) \/ AckTimeout(m)
  <2>1. \E q : push' = [push EXCEPT ![n] = q]
    BY <1>3
       DEF WatcherStep, EventSkipped, PushStarts, FetchPeers, Import, Imported,
           ImportFails, Offer, OfferFails, AckArrives, AckTimeout, PushDone, EndPush
  <2>2. WatcherStep(m)
    BY <1>2, <1>3, <2>1
  <2> QED
    BY <2>2
       DEF WatcherStep, EventSkipped, PushStarts, FetchPeers, Import, Imported,
           ImportFails, Offer, OfferFails, PushDone, Notifying
<1>4. ASSUME NEW n \in Nodes, Crash(n)
      PROVE  Crash(m)
  BY <1>2, <1>4 DEF Crash
<1> QED
  BY <1>1, <1>3, <1>4

(* An ack ends its task, a timeout and a crash end the wait for it.        *)
LEMMA ServedNext ==
  TypeOK /\ AwaitInv /\ AddressInv /\ WantedServed /\ [Next]_vars => WantedServed'
<1> SUFFICES ASSUME TypeOK, AwaitInv, AddressInv, WantedServed, [Next]_vars,
                    NEW s \in Slots, tasks'[s] # None, tasks'[s].wanted
             PROVE  /\ Serving(tasks[s].from, tasks[s].content)'
                    /\ push'[tasks'[s].from].slot = s
  BY DEF WantedServed
<1>1. ASSUME NEW n \in Nodes, NEW p \in Nodes, Offer(n, p, s)
      PROVE  /\ Serving(tasks[s].from, tasks[s].content)'
             /\ push'[tasks'[s].from].slot = s
  <2>1. push[n] \in Push /\ push[n].at = "notify"
    BY <1>1 DEF Offer, Notifying, TypeOK
  <2>2. PICK q : q = [push[n] EXCEPT !.peers = push[n].peers \ {p}, !.slot = s]
    OBVIOUS
  <2>3. /\ q.at = "notify" /\ q.content = push[n].content /\ q.slot = s
        /\ q \in Push
    BY <2>1, <2>2 DEF Push
  <2>4. push'[n] = q
    BY <1>1, <2>2 DEF Offer, TypeOK
  <2>5. q # None
    BY <2>3, SyncAssumption
  <2>6. tasks'[s].from = n /\ tasks'[s].content = push[n].content
    BY <1>1, OfferMakes
  <2> QED
    BY <2>3, <2>4, <2>5, <2>6 DEF Serving, Notifying
<1>2. ASSUME Kept(s)
      PROVE  /\ Serving(tasks[s].from, tasks[s].content)'
             /\ push'[tasks'[s].from].slot = s
  <2>1. PICK m : m = tasks[s].from
    OBVIOUS
  <2>2. /\ tasks[s] # None /\ tasks[s].wanted /\ tasks[s] \in Task
        /\ tasks'[s].from = m /\ tasks'[s].content = tasks[s].content
    BY <1>2, <2>1 DEF Kept, TypeOK
  <2>3. /\ m \in Nodes /\ Notifying(m) /\ push[m].content = tasks[s].content
        /\ push[m].slot = s /\ push[m].slot # None
    BY <2>1, <2>2, SyncAssumption DEF WantedServed, Serving, Task
  <2>4. ~AckArrives(m)
    BY <2>3 DEF AckArrives, TypeOK
  <2>5. ~AckTimeout(m)
    <3>1. [tasks[s] EXCEPT !.wanted = FALSE].wanted = FALSE
      BY <2>2, TaskFields
    <3> QED
      BY <2>3, <3>1 DEF AckTimeout, TypeOK
  <2>6. ASSUME Crash(m)
        PROVE  FALSE
    <3>1. tasks[s].to # m
      BY <2>1, <2>2 DEF AddressInv
    <3>2. tasks'[s] \in {None, [tasks[s] EXCEPT !.wanted = FALSE]}
      BY <2>1, <2>2, <2>6, <3>1 DEF Crash
    <3>3. [tasks[s] EXCEPT !.wanted = FALSE].wanted = FALSE
      BY <2>2, TaskFields
    <3> QED
      BY <3>2, <3>3
  <2>7. push'[m] = push[m]
    BY <2>3, <2>4, <2>5, <2>6, WaitingStays
  <2> QED
    BY <2>2, <2>3, <2>7 DEF Serving, Notifying
<1> QED
  BY <1>1, <1>2, TaskKept DEF Made

(* The inductive invariant of the synchronisation protocol.                *)
THEOREM Invariant == Spec => []IInv
<1>1. Init => IInv
  BY InvInit DEF IInv, Init, AddressInv, WantedServed, ExportInv
<1>2. IInv /\ [Next]_vars => IInv'
  BY TypeNext, AddressNext, ServedNext, ExportNext DEF IInv
<1> QED
  BY <1>1, <1>2, PTL DEF Spec

(* Every variable holds what the code can put there.                       *)
THEOREM TypeCorrect == Spec => []TypeOK
BY Invariant, PTL DEF IInv

(* The router of a push serves every offer whose ack the push still waits  *)
(* for, whatever the other devices do (push 206-229, notify_peer 440-452   *)
(* of sync.rs).                                                            *)
THEOREM OffersServed == Spec => []WantedServed
BY Invariant, PTL DEF IInv

(* A content of which no copy is left never comes back, whatever fails:    *)
(* synchronisation makes copies of copies and nothing else, as long as no  *)
(* two tasks of a node export to one path.                                 *)
THEOREM NothingComesBack ==
  ASSUME NoncesDiffer
  PROVE  Spec => NothingReappears
<1>1. IInv /\ [Next]_vars =>
        [\A f \in Names : Copies(f)' \subseteq Copies(f) \cup
            (IF latest'[f] > latest[f] THEN {Newest(f)'} ELSE {})]_vars
  BY CopiesStep DEF IInv
<1> QED
  BY <1>1, Invariant, PTL DEF Spec, NothingReappears

-----------------------------------------------------------------------------
(* Synchronisation implements the shared folder.                           *)

SendingOf(n) == IF Notifying(n) THEN [name |-> push[n].name,
                                      content |-> push[n].content,
                                      to |-> push[n].peers]
                ELSE None
OfferOf(s) == IF Pending(s) THEN [to |-> tasks[s].to, name |-> tasks[s].name,
                                  content |-> tasks[s].content]
              ELSE None

LEMMA SendingIs ==
  ASSUME TypeOK, AwaitInv
  PROVE  /\ Sending = [n \in Nodes |-> SendingOf(n)]
         /\ \A n \in Nodes : Notifying(n) =>
              /\ SendingOf(n) \in Sent /\ SendingOf(n) # None
              /\ push[n] \in Push /\ push[n].content \in Content
<1>1. Sending = [n \in Nodes |-> SendingOf(n)]
  BY DEF Sending, SendingOf
<1>2. ASSUME NEW n \in Nodes, Notifying(n)
      PROVE  push[n] \in Push /\ push[n].content \in Content
  BY <1>2 DEF TypeOK, AwaitInv, Notifying, Push
<1>3. ASSUME NEW n \in Nodes, Notifying(n)
      PROVE  SendingOf(n) \in Sent
  BY <1>2, <1>3 DEF SendingOf, Sent, Push
<1> QED
  BY <1>1, <1>2, <1>3

LEMMA OffersIs ==
  ASSUME TypeOK
  PROVE  /\ Offers = [s \in Slots |-> OfferOf(s)]
         /\ \A s \in Slots : Pending(s) =>
              OfferOf(s) \in Offered /\ OfferOf(s) # None /\ tasks[s] \in Task
<1>1. Offers = [s \in Slots |-> OfferOf(s)]
  BY DEF Offers, OfferOf
<1>2. ASSUME NEW s \in Slots, Pending(s)
      PROVE  tasks[s] \in Task
  BY <1>2 DEF TypeOK, Pending
<1>3. ASSUME NEW s \in Slots, Pending(s)
      PROVE  OfferOf(s) \in Offered
  BY <1>2, <1>3 DEF OfferOf, Offered, Task
<1> QED
  BY <1>1, <1>2, <1>3

(* The steps that only end pushes and offers, and those the folder does    *)
(* not see.                                                                *)
LEMMA GiveUpStep ==
  ASSUME UNCHANGED <<store, latest>>,
         \A n \in Nodes : SendingOf(n)' \in {None, SendingOf(n)},
         \A s \in Slots : OfferOf(s)' \in {None, OfferOf(s)}
  PROVE  Folder!GiveUp
<1>1. /\ Sending = [n \in Nodes |-> SendingOf(n)]
      /\ Offers = [s \in Slots |-> OfferOf(s)]
  BY DEF Sending, SendingOf, Offers, OfferOf
<1>2. /\ Sending' = [n \in Nodes |-> SendingOf(n)']
      /\ Offers' = [s \in Slots |-> OfferOf(s)']
  BY DEF Sending, SendingOf, Offers, OfferOf
<1> HIDE DEF SendingOf, OfferOf
<1> QED
  BY <1>1, <1>2 DEF Folder!GiveUp

(* A change of one push, or of one task, changes nothing else of them.     *)
LEMMA OnePush ==
  ASSUME TypeOK, NEW n \in Nodes, NEW q, push' = [push EXCEPT ![n] = q]
  PROVE  /\ \A m \in Nodes \ {n} : SendingOf(m)' = SendingOf(m)
         /\ push'[n] = q
         /\ q = None \/ q.at # "notify" => SendingOf(n)' = None
         /\ /\ q # None /\ Notifying(n) /\ q.at = push[n].at
            /\ q.name = push[n].name /\ q.content = push[n].content
            => SendingOf(n)' = [name |-> push[n].name,
                                content |-> push[n].content, to |-> q.peers]
BY DEF TypeOK, SendingOf, Notifying

LEMMA OneTask ==
  ASSUME TypeOK, NEW s \in Slots, NEW t, tasks' = [tasks EXCEPT ![s] = t]
  PROVE  /\ \A r \in Slots \ {s} : OfferOf(r)' = OfferOf(r)
         /\ tasks'[s] = t
         /\ t = None \/ t.at \notin {"offered", "downloaded", "exported"} => OfferOf(s)' = None
         /\ /\ t # None /\ Pending(s) /\ t.at \in {"offered", "downloaded", "exported"}
            /\ t.to = tasks[s].to /\ t.name = tasks[s].name
            /\ t.content = tasks[s].content
            => OfferOf(s)' = OfferOf(s)
BY DEF TypeOK, OfferOf, Pending

LEMMA SamePushes ==
  /\ push' = push => \A n \in Nodes : SendingOf(n)' = SendingOf(n)
  /\ tasks' = tasks => \A s \in Slots : OfferOf(s)' = OfferOf(s)
BY DEF SendingOf, Notifying, OfferOf, Pending

(* The watcher's steps that the folder sees only as a push or an offer     *)
(* ending, if at all.                                                      *)
LEMMA QuietWatcher ==
  ASSUME TypeOK, AwaitInv, NEW n \in Nodes,
         \/ EventSkipped(n) \/ PushStarts(n)
         \/ \E ps \in SUBSET Nodes : FetchPeers(n, ps)
         \/ ImportFails(n) \/ AckArrives(n) \/ AckTimeout(n) \/ PushDone(n)
  PROVE  Folder!GiveUp
<1>1. CASE EventSkipped(n)
  BY <1>1, GiveUpStep, SamePushes DEF EventSkipped
<1>2. ASSUME NEW q, push' = [push EXCEPT ![n] = q], q = None \/ q.at # "notify",
             UNCHANGED <<store, tasks, latest>>
      PROVE  Folder!GiveUp
  BY <1>2, GiveUpStep, OnePush, SamePushes
<1>3. CASE PushStarts(n)
  BY <1>2, <1>3 DEF PushStarts
<1>4. ASSUME NEW ps \in SUBSET Nodes, FetchPeers(n, ps)
      PROVE  Folder!GiveUp
  <2>1. PICK q : q = [push[n] EXCEPT !.at = "import", !.peers = ps]
    OBVIOUS
  <2>2. q.at = "import"
    <3>1. push[n] \in Push
      BY <1>4 DEF FetchPeers, TypeOK
    <3> QED
      BY <2>1, <3>1 DEF Push
  <2>3. push' \in {[push EXCEPT ![n] = q], [push EXCEPT ![n] = None]}
    BY <1>4, <2>1 DEF FetchPeers, EndPush
  <2> QED
    BY <1>2, <1>4, <2>2, <2>3 DEF FetchPeers
<1>5. CASE ImportFails(n) \/ PushDone(n)
  BY <1>2, <1>5 DEF ImportFails, PushDone, EndPush
<1>6. CASE AckArrives(n) \/ AckTimeout(n)
  <2>1. PICK q \in Push : /\ push' = [push EXCEPT ![n] = q]
                          /\ q.at = push[n].at /\ q.name = push[n].name
                          /\ q.content = push[n].content
                          /\ q.peers = push[n].peers
    BY <1>6, AckKeeps
  <2>2. Notifying(n) /\ push[n].slot \in Slots /\ tasks[push[n].slot] \in Task
    BY <1>6 DEF AckArrives, AckTimeout, Notifying, AwaitInv, TypeOK, Push
  <2>3. \A m \in Nodes : SendingOf(m)' = SendingOf(m)
    <3>1. q # None
      BY SyncAssumption
    <3>2. SendingOf(n)' = [name |-> push[n].name, content |-> push[n].content,
                           to |-> q.peers]
      BY <2>1, <2>2, <3>1, OnePush
    <3>3. SendingOf(n)' = SendingOf(n)
      BY <2>1, <2>2, <3>2 DEF SendingOf
    <3>4. \A m \in Nodes \ {n} : SendingOf(m)' = SendingOf(m)
      BY <2>1, OnePush
    <3> QED
      BY <3>3, <3>4
  <2>4. \A s \in Slots : OfferOf(s)' \in {None, OfferOf(s)}
    <3>1. PICK t : /\ tasks' = [tasks EXCEPT ![push[n].slot] = t]
                   /\ \/ t = None
                      \/ /\ AckTimeout(n)
                         /\ t = [tasks[push[n].slot] EXCEPT !.wanted = FALSE]
      BY <1>6 DEF AckArrives, AckTimeout
    <3>2. CASE t = None
      BY <2>2, <3>1, <3>2, OneTask
    <3>3. CASE AckTimeout(n) /\ t = [tasks[push[n].slot] EXCEPT !.wanted = FALSE]
      <4>1. /\ t \in Task /\ t.at = tasks[push[n].slot].at
            /\ t.to = tasks[push[n].slot].to
            /\ t.name = tasks[push[n].slot].name
            /\ t.content = tasks[push[n].slot].content
        BY <2>2, <3>3 DEF Task
      <4>2. Pending(push[n].slot)
        BY <2>2, <3>3 DEF AckTimeout, Pending
      <4> QED
        BY <2>2, <3>1, <4>1, <4>2, OneTask DEF Pending
    <3> QED
      BY <3>1, <3>2, <3>3
  <2> QED
    BY <1>6, <2>3, <2>4, GiveUpStep DEF AckArrives, AckTimeout
<1> QED
  BY <1>1, <1>3, <1>4, <1>5, <1>6

(* A download and an export leave an offer as it is; a failed pull and a crash end it.  *)
LEMMA QuietTasks ==
  ASSUME TypeOK, AwaitInv,
         \/ \E s \in Slots : \/ Download(s) \/ PullFails(s)
                            \/ \E x \in Slots : ExportTo(s, x)
         \/ \E n \in Nodes : Crash(n) \/ Restart(n)
         \/ UNCHANGED vars
  PROVE  Folder!GiveUp
<1>1. ASSUME NEW s \in Slots, NEW a \in {"downloaded", "exported"},
             tasks' = [tasks EXCEPT ![s].at = a], Pending(s),
             UNCHANGED <<store, push, latest>>
      PROVE  Folder!GiveUp
  <2>1. PICK t : t = [tasks[s] EXCEPT !.at = a]
    OBVIOUS
  <2>2. tasks[s] \in Task
    BY <1>1 DEF Pending, TypeOK
  <2>3. /\ t \in Task /\ t.at = a /\ t.to = tasks[s].to
        /\ t.name = tasks[s].name /\ t.content = tasks[s].content
    BY <2>1, <2>2 DEF Task
  <2>4. tasks' = [tasks EXCEPT ![s] = t]
    BY <1>1, <2>1
  <2>5. t # None /\ t.at \in {"offered", "downloaded", "exported"}
    BY <1>1, <2>3, SyncAssumption
  <2>6. OfferOf(s)' = OfferOf(s)
    BY <1>1, <2>3, <2>4, <2>5, OneTask
  <2>7. \A r \in Slots \ {s} : OfferOf(r)' = OfferOf(r)
    BY <2>4, OneTask
  <2> QED
    BY <1>1, <2>6, <2>7, GiveUpStep, SamePushes
<1>5. ASSUME NEW s \in Slots, Download(s) \/ \E x \in Slots : ExportTo(s, x)
      PROVE  Folder!GiveUp
  BY <1>1, <1>5 DEF Download, ExportTo, Pending
<1>2. ASSUME NEW s \in Slots, PullFails(s)
      PROVE  Folder!GiveUp
  <2>1. PICK t : t = Result(tasks[s], "failed")
    OBVIOUS
  <2>2. tasks[s] \in Task
    BY <1>2 DEF PullFails, TypeOK
  <2>3. t = None \/ t.at = "failed"
    BY <2>1, <2>2, ResultOffer
  <2>4. tasks' = [tasks EXCEPT ![s] = t]
    BY <1>2, <2>1 DEF PullFails
  <2>5. \A r \in Slots : OfferOf(r)' \in {None, OfferOf(r)}
    BY <2>3, <2>4, OneTask
  <2> QED
    BY <1>2, <2>5, GiveUpStep, SamePushes DEF PullFails
<1>3. ASSUME NEW n \in Nodes, Crash(n)
      PROVE  Folder!GiveUp
  <2>1. \A m \in Nodes : SendingOf(m)' \in {None, SendingOf(m)}
    BY <1>3, OnePush DEF Crash
  <2>2. ASSUME NEW s \in Slots
        PROVE  OfferOf(s)' \in {None, OfferOf(s)}
    <3>1. CASE tasks[s] = None
      BY <1>3, <3>1 DEF Crash, OfferOf, Pending
    <3>2. CASE tasks[s] # None
      <4>1. PICK t \in Task : t = tasks[s]
        BY <3>2 DEF TypeOK
      <4>2. \/ tasks'[s] = Result(t, "failed")
            \/ tasks'[s] = None
            \/ tasks'[s] = [t EXCEPT !.wanted = FALSE]
            \/ tasks'[s] = t
        BY <1>3, <4>1 DEF Crash
      <4>3. CASE tasks'[s] = Result(t, "failed")
        BY <4>1, <4>3, ResultOffer DEF OfferOf, Pending
      <4>4. CASE tasks'[s] = [t EXCEPT !.wanted = FALSE]
        <5>1. /\ tasks'[s].at = t.at /\ tasks'[s].to = t.to
              /\ tasks'[s].name = t.name /\ tasks'[s].content = t.content
              /\ tasks'[s] \in Task
          BY <4>1, <4>4 DEF Task
        <5> QED
          BY <3>2, <4>1, <5>1 DEF OfferOf, Pending
      <4>5. CASE tasks'[s] \in {None, t}
        BY <4>1, <4>5 DEF OfferOf, Pending
      <4> QED
        BY <4>2, <4>3, <4>4, <4>5
    <3> QED
      BY <3>1, <3>2
  <2> QED
    BY <1>3, <2>1, <2>2, GiveUpStep DEF Crash
<1>4. CASE UNCHANGED vars \/ \E n \in Nodes : Restart(n)
  BY <1>4, GiveUpStep, SamePushes DEF vars, Restart
<1> QED
  BY <1>2, <1>3, <1>4, <1>5

LEMMA FolderNext ==
  ASSUME NoncesDiffer
  PROVE  IInv /\ [Next]_vars => [Folder!Next]_(Folder!vars)
<1> SUFFICES ASSUME IInv, [Next]_vars
             PROVE  Folder!Next
  OBVIOUS
<1> USE DEF IInv
<1>1. ASSUME NEW n \in Nodes, NEW f \in Names, UserWrite(n, f)
      PROVE  Folder!Write(n, f)
  <2>1. push' = push /\ tasks' = tasks
    BY <1>1 DEF UserWrite
  <2>2. Sending' = Sending /\ Offers' = Offers
    BY <2>1 DEF Sending, Notifying, Offers, Pending
  <2> QED
    BY <1>1, <2>2 DEF UserWrite, Folder!Write
<1>2. ASSUME NEW n \in Nodes, NEW f \in Names, UserRemove(n, f)
      PROVE  Folder!Remove(n, f)
  <2>1. push' = push /\ tasks' = tasks
    BY <1>2 DEF UserRemove
  <2>2. Sending' = Sending /\ Offers' = Offers
    BY <2>1 DEF Sending, Notifying, Offers, Pending
  <2> QED
    BY <1>2, <2>2 DEF UserRemove, Folder!Remove
<1>3. ASSUME NEW n \in Nodes, Import(n)
      PROVE  \E f \in Names, ps \in SUBSET Nodes : Folder!Read(n, f, ps)
  <2>1. /\ push[n] \in Push /\ push[n].at = "import"
        /\ store[n][push[n].name] # None /\ n \notin push[n].peers
        /\ tasks' = tasks /\ store' = store /\ latest' = latest
    BY <1>3 DEF Import, Imported, TypeOK, AddressInv
  <2>2. PICK f \in Names, ps \in SUBSET Nodes : f = push[n].name /\ ps = push[n].peers
    BY <2>1 DEF Push
  <2>3. PICK q : q = [push[n] EXCEPT !.at = "notify", !.content = store[n][f]]
    OBVIOUS
  <2>4. /\ q \in Push /\ q.at = "notify" /\ q.name = f
        /\ q.content = store[n][f] /\ q.peers = ps
    <3>1. store[n][f] \in Content
      BY <2>1, <2>2 DEF TypeOK
    <3> QED
      BY <2>1, <2>2, <2>3, <3>1 DEF Push
  <2>5. push' = [push EXCEPT ![n] = q]
    BY <1>3, <2>2, <2>3 DEF Import, Imported
  <2>6. Sending[n] = None
    BY <2>1 DEF Sending, Notifying
  <2>7. Sending' = [Sending EXCEPT ![n] = [name |-> f, content |-> store[n][f],
                                           to |-> ps]]
    <3>1. push'[n] = q /\ q # None /\ \A m \in Nodes \ {n} : push'[m] = push[m]
      BY <2>4, <2>5 DEF TypeOK
    <3> QED
      BY <2>4, <3>1 DEF Sending, Notifying
  <2>8. Offers' = Offers
    BY <2>1 DEF Offers, Pending
  <2>9. Folder!Read(n, f, ps)
    BY <2>1, <2>2, <2>6, <2>7, <2>8 DEF Folder!Read
  <2> QED
    BY <2>9
<1>4. ASSUME NEW n \in Nodes, NEW p \in Nodes, NEW q \in Push,
             Notifying(n), p \in push[n].peers,
             push' = [push EXCEPT ![n] = q],
             q.at = push[n].at, q.name = push[n].name, q.content = push[n].content,
             q.peers = push[n].peers \ {p}, UNCHANGED <<store, latest>>
      PROVE  /\ Folder!PassOver(n, p)
             /\ Sending[n].name = push[n].name
             /\ Sending[n].content = push[n].content
  <2>1. /\ Sending = [m \in Nodes |-> SendingOf(m)]
        /\ SendingOf(n) # None
    BY <1>4, SendingIs
  <2>2. SendingOf(n) = [name |-> push[n].name, content |-> push[n].content,
                        to |-> push[n].peers]
    BY <1>4 DEF SendingOf
  <2>3. Sending' = [m \in Nodes |-> SendingOf(m)']
    BY DEF Sending, SendingOf
  <2>4. /\ SendingOf(n)' = [name |-> push[n].name, content |-> push[n].content,
                            to |-> push[n].peers \ {p}]
        /\ \A m \in Nodes \ {n} : SendingOf(m)' = SendingOf(m)
    <3>1. q # None
      BY SyncAssumption
    <3>2. /\ TypeOK /\ push' = [push EXCEPT ![n] = q]
          /\ q.at = push[n].at /\ q.name = push[n].name
          /\ q.content = push[n].content /\ q.peers = push[n].peers \ {p}
      BY <1>4
    <3>3. \A m \in Nodes \ {n} : SendingOf(m)' = SendingOf(m)
      BY <3>2, OnePush
    <3>4. SendingOf(n)' = [name |-> push[n].name, content |-> push[n].content,
                           to |-> q.peers]
      BY <1>4, <3>1, <3>2, OnePush
    <3> QED
      BY <3>2, <3>3, <3>4
  <2>5. PICK r : r = [Sending[n] EXCEPT !.to = @ \ {p}]
    OBVIOUS
  <2>6. Sending[n] = SendingOf(n) /\ Sending[n].to = push[n].peers
    BY <2>1, <2>2
  <2>7. r = SendingOf(n)'
    <3>1. Sending[n] = [name |-> push[n].name, content |-> push[n].content,
                        to |-> push[n].peers]
      BY <2>2, <2>6
    <3>2. PICK rest : rest = push[n].peers \ {p}
      OBVIOUS
    <3>3. r = [Sending[n] EXCEPT !.to = rest]
      BY <2>5, <2>6, <3>2
    <3>4. r = [name |-> push[n].name, content |-> push[n].content, to |-> rest]
      BY <3>1, <3>3
    <3> QED
      BY <2>4, <3>2, <3>4
  <2>8. Sending' = [Sending EXCEPT ![n] = r]
    <3> HIDE DEF SendingOf
    <3> QED
      BY <2>1, <2>3, <2>4, <2>7
  <2>9. Sending' = [Sending EXCEPT ![n].to = @ \ {p}]
    BY <2>5, <2>8
  <2>10. Sending[n].name = push[n].name /\ Sending[n].content = push[n].content
    BY <2>2, <2>6
  <2> QED
    BY <1>4, <2>1, <2>6, <2>9, <2>10 DEF Folder!PassOver
<1>5. ASSUME NEW n \in Nodes, NEW p \in Nodes, OfferFails(n, p)
      PROVE  Folder!PassOver(n, p) /\ UNCHANGED Offers
  <2>1. UNCHANGED Offers
    BY <1>5 DEF OfferFails, Offers, Pending
  <2>2. /\ Notifying(n) /\ p \in push[n].peers
        /\ UNCHANGED <<store, latest>>
    BY <1>5 DEF OfferFails
  <2> QED
    BY <1>4, <1>5, <2>1, <2>2, OfferFailsKeeps
<1>6. ASSUME NEW n \in Nodes, NEW p \in Nodes, NEW s \in Slots, Offer(n, p, s)
      PROVE  Folder!Offer(n, p, s)
  <2>1. /\ Folder!PassOver(n, p)
        /\ Sending[n].name = push[n].name /\ Sending[n].content = push[n].content
    <3>1. /\ Notifying(n) /\ p \in push[n].peers
          /\ UNCHANGED <<store, latest>>
      BY <1>6 DEF Offer
    <3>2. PICK q \in Push : /\ push' = [push EXCEPT ![n] = q]
                            /\ q.at = push[n].at /\ q.name = push[n].name
                            /\ q.content = push[n].content
                            /\ q.peers = push[n].peers \ {p}
      BY <1>6, OfferKeeps
    <3> QED
      BY <1>4, <3>1, <3>2
  <2>2. push[n].name \in Names /\ push[n].content \in Content
    BY <1>6, SendingIs DEF Offer, Push
  <2>3. PICK t : t = [at |-> "offered", from |-> n, to |-> p,
                      name |-> push[n].name, content |-> push[n].content,
                      wanted |-> TRUE]
    OBVIOUS
  <2>4. t \in Task /\ t # None
    <3>1. t \in Task
      BY <2>2, <2>3, Zenon DEF Task
    <3> QED
      BY <3>1, SyncAssumption
  <2>5. tasks' = [tasks EXCEPT ![s] = t] /\ tasks[s] = None
    BY <1>6, <2>3 DEF Offer
  <2>6. /\ tasks'[s] = t
        /\ \A r \in Slots \ {s} : OfferOf(r)' = OfferOf(r)
    BY <2>5, OneTask
  <2>7. OfferOf(s)' = [to |-> p, name |-> push[n].name, content |-> push[n].content]
    BY <2>3, <2>4, <2>6 DEF OfferOf, Pending
  <2>8. /\ Offers = [r \in Slots |-> OfferOf(r)]
        /\ Offers' = [r \in Slots |-> OfferOf(r)']
        /\ OfferOf(s) = None
    BY <2>5 DEF Offers, OfferOf, Pending
  <2>9. Offers[s] = None
        /\ Offers' = [Offers EXCEPT ![s] = [to |-> p, name |-> push[n].name,
                                             content |-> push[n].content]]
    BY <2>6, <2>7, <2>8
  <2> QED
    BY <2>1, <2>9 DEF Folder!Offer
<1>7. ASSUME NEW s \in Slots, Install(s)
      PROVE  Folder!Receive(s)
  <2>1. /\ Pending(s) /\ tasks[s] \in Task
        /\ push' = push /\ latest' = latest
        /\ store' = [store EXCEPT ![tasks[s].to][tasks[s].name] = tasks[s].content]
    <3>1. exports[s] = [path |-> s, content |-> tasks[s].content]
      BY <1>7 DEF Install, Installed, ExportInv
    <3>2. exports[s].content = tasks[s].content
      BY <3>1
    <3> QED
      BY <1>7, <3>2 DEF Install, Installed, Pending, TypeOK
  <2>2. PICK t : t = Result(tasks[s], "installed")
    OBVIOUS
  <2>3. t = None \/ t.at = "installed"
    BY <2>1, <2>2, ResultOffer
  <2>4. tasks' = [tasks EXCEPT ![s] = t]
    BY <1>7, <2>2 DEF Install, Installed
  <2>5. OfferOf(s)' = None /\ \A r \in Slots \ {s} : OfferOf(r)' = OfferOf(r)
    BY <2>3, <2>4, OneTask
  <2>6. /\ Offers = [r \in Slots |-> OfferOf(r)]
        /\ Offers' = [r \in Slots |-> OfferOf(r)']
        /\ Offers[s] # None
        /\ Offers[s] = [to |-> tasks[s].to, name |-> tasks[s].name,
                        content |-> tasks[s].content]
    BY <2>1, OffersIs DEF Offers, OfferOf
  <2>7. Offers' = [Offers EXCEPT ![s] = None]
    <3>1. DOMAIN Offers = Slots
      BY <2>6
    <3>2. \A r \in Slots : Offers'[r] = IF r = s THEN None ELSE Offers[r]
      BY <2>5, <2>6
    <3> QED
      BY <2>6, <3>1, <3>2
  <2>8. Sending' = Sending
    BY <2>1 DEF Sending, Notifying
  <2>9. /\ Offers[s].to = tasks[s].to /\ Offers[s].name = tasks[s].name
        /\ Offers[s].content = tasks[s].content
    BY <2>6
  <2>10. store' = [store EXCEPT ![Offers[s].to][Offers[s].name] =
                                 Offers[s].content]
    BY <2>1, <2>9
  <2> QED
    BY <2>1, <2>6, <2>7, <2>8, <2>10 DEF Folder!Receive
<1>8. ASSUME NEW n \in Nodes, WatcherStep(n)
      PROVE  Folder!Next
  BY <1>3, <1>5, <1>6, <1>8, QuietWatcher DEF WatcherStep, Folder!Next
<1>9. ASSUME NEW s \in Slots, TaskStep(s)
      PROVE  Folder!Next
  BY <1>7, <1>9, QuietTasks DEF TaskStep, Folder!Next
<1>10. CASE UNCHANGED vars \/ \E n \in Nodes : Crash(n) \/ Restart(n)
  BY <1>10, QuietTasks DEF Folder!Next
<1> QED
  BY <1>1, <1>2, <1>8, <1>9, <1>10 DEF Next, Folder!Next

(* However pushes, pulls, timeouts, late tasks, crashes and removals       *)
(* interleave, a store only ever takes in what another device's own store  *)
(* held when it was sent, and each offer at most once (push 155-229, pull  *)
(* 235-307, notify_peer 423-452 of sync.rs), as long as no two tasks of a  *)
(* node export to one path.                                                *)
THEOREM FoldersShared ==
  ASSUME NoncesDiffer
  PROVE  Spec => ImplementsSharedFolder
<1>1. Init => Folder!Init
  BY DEF Init, Folder!Init, Sending, Notifying, Offers, Pending
<1> QED
  BY <1>1, FolderNext, Invariant, PTL
     DEF Spec, ImplementsSharedFolder, Folder!Spec
=============================================================================
