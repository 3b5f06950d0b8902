-------------------------------- MODULE Sync --------------------------------
(***************************************************************************)
(* File synchronisation between the devices of one user: the watcher loop  *)
(* of src/src/watcher.rs on every node, push, pull and the SyncListener of *)
(* src/src/sync.rs between them.                                           *)
(*                                                                         *)
(* A node runs one watcher, which handles one event at a time and awaits   *)
(* the whole push inside the handler, and one task per accepted offer;     *)
(* the tasks of a node run next to its watcher and to one another.  A      *)
(* task that its sender has given up on runs on.                           *)
(*                                                                         *)
(* A content is one state a user left a file in: its name and the number   *)
(* of the write, counted over all nodes, so that a higher number is a      *)
(* later write by perfectly synchronised clocks.  A file an editor saves   *)
(* in several writes is several contents.                                  *)
(***************************************************************************)
EXTENDS Naturals, FiniteSets, Sequences

CONSTANTS
    Nodes,          \* the user's devices, all enrolled with the rendezvous
    Writers,        \* the nodes whose user edits files
    Dead,           \* enrolled nodes that never answer
    Names,          \* file names, none with a leading dot
    Slots,          \* offers that can be in progress at once
    MaxFiles,       \* MAX_FILES
    MaxWrites,      \* bound: writes of one name
    MayFail,        \* TRUE: calls may fail and time out
    MayCrash,       \* TRUE: a node's process may die and be started again
    MayRemove,      \* TRUE: users may remove files
    NoncesDiffer,   \* TRUE: the tasks of a node never draw the same nonce
    None

Content == [name : Names, seq : 1 .. MaxWrites]

Push == [at : {"peers", "import", "notify"}, name : Names,
         content : Content \cup {None}, peers : SUBSET Nodes,
         slot : Slots \cup {None}]

Task == [at : {"offered", "downloaded", "exported", "installed", "failed"},
         from : Nodes, to : Nodes, name : Names, content : Content,
         wanted : BOOLEAN]

(* What a task has exported: where, and what is there now, or None once    *)
(* another task has renamed it away.                                       *)
Export == [path : Slots, content : Content \cup {None}]

(* A copy that is being sent and one that is offered, as SharedFolder has  *)
(* them.                                                                   *)
Sent == [name : Names, content : Content, to : SUBSET Nodes]
Offered == [to : Nodes, name : Names, content : Content]

ASSUME SyncAssumption ==
    /\ Writers \subseteq Nodes /\ Dead \subseteq Nodes
    /\ MaxFiles \in Nat /\ MaxWrites \in Nat
    /\ {MayFail, MayCrash, MayRemove, NoncesDiffer} \subseteq BOOLEAN
    /\ None \notin Content \cup Push \cup Task \cup Export \cup Slots
                 \cup Sent \cup Offered

VARIABLES
    store,      \* each node's ~/dddatasync: a name to its content, or None
    events,     \* each node's notify events not yet handled, oldest first
    push,       \* the push each node's watcher is awaiting, or None
    tasks,      \* the offers in progress: handle_sync_connection at the peer
    exports,    \* the .dddatasync-export-* file of each task, or None
    up,         \* whether each node's process runs
    latest      \* how often users have written each name

vars == <<store, events, push, tasks, exports, up, latest>>

Init == /\ store = [n \in Nodes |-> [f \in Names |-> None]]
        /\ events = [n \in Nodes |-> <<>>]
        /\ push = [n \in Nodes |-> None]
        /\ tasks = [s \in Slots |-> None]
        /\ exports = [s \in Slots |-> None]
        /\ up = [n \in Nodes |-> n \notin Dead]
        /\ latest = [f \in Names |-> 0]

Stored(n) == {f \in Names : store[n][f] # None}
Newest(f) == [name |-> f, seq |-> latest[f]]

(* DddSync::can_add for a file of ordinary size.                           *)
CanAdd(n) == Cardinality(Stored(n)) < MaxFiles

-----------------------------------------------------------------------------
(* The file system and its user.                                           *)

(* What notify reports of a change to f while the process runs.  An event  *)
(* still waiting for the same name makes a second one redundant: both      *)
(* would push what the file holds when they are handled.                   *)
Notified(n, f) ==
    IF up[n] /\ \A i \in 1 .. Len(events[n]) : events[n][i] # f
    THEN [events EXCEPT ![n] = Append(@, f)]
    ELSE events

(* A user edits a file in place, or adds one while the store has room.     *)
UserWrite(n, f) ==
    /\ n \in Writers
    /\ latest[f] < MaxWrites
    /\ store[n][f] # None \/ CanAdd(n)
    /\ latest' = [latest EXCEPT ![f] = @ + 1]
    /\ store' = [store EXCEPT ![n][f] = [name |-> f, seq |-> latest[f] + 1]]
    /\ events' = Notified(n, f)
    /\ UNCHANGED <<push, tasks, exports, up>>

(* `dddatasync remove`: the watcher ignores the event.                     *)
UserRemove(n, f) ==
    /\ MayRemove
    /\ store[n][f] # None
    /\ store' = [store EXCEPT ![n][f] = None]
    /\ UNCHANGED <<events, push, tasks, exports, up, latest>>

-----------------------------------------------------------------------------
(* The watcher: handle_event, push_file and sync::push.                    *)

EndPush(n) == push' = [push EXCEPT ![n] = None]

(* The next event is for a file that is gone, or the store has no room for *)
(* one more file: nothing is pushed.                                       *)
EventSkipped(n) ==
    /\ up[n] /\ push[n] = None /\ events[n] # <<>>
    /\ store[n][Head(events[n])] = None \/ ~CanAdd(n)
    /\ events' = [events EXCEPT ![n] = Tail(@)]
    /\ UNCHANGED <<store, push, tasks, exports, up, latest>>

PushStarts(n) ==
    /\ up[n] /\ push[n] = None /\ events[n] # <<>>
    /\ store[n][Head(events[n])] # None /\ CanAdd(n)
    /\ events' = [events EXCEPT ![n] = Tail(@)]
    /\ push' = [push EXCEPT ![n] =
                  [at |-> "peers", name |-> Head(events[n]), content |-> None,
                   peers |-> {}, slot |-> None]]
    /\ UNCHANGED <<store, tasks, exports, up, latest>>

(* fetch_peers: the other nodes enrolled under the username.               *)
FetchPeers(n, ps) ==
    /\ push[n] # None /\ push[n].at = "peers"
    /\ ps \subseteq Nodes \ {n}
    /\ MayFail \/ ps = Nodes \ {n}
    /\ IF ps = {} THEN EndPush(n)
       ELSE push' = [push EXCEPT ![n] =
                         [@ EXCEPT !.at = "import", !.peers = ps]]
    /\ UNCHANGED <<store, events, tasks, exports, up, latest>>

(* import_file_as_collection, once the endpoint is bound and online: what  *)
(* is sent is what the file holds now.                                     *)
Imported(n, c) ==
    /\ push[n] # None /\ push[n].at = "import"
    /\ push' = [push EXCEPT ![n] = [@ EXCEPT !.at = "notify", !.content = c]]
    /\ UNCHANGED <<store, events, tasks, exports, up, latest>>

(* (Mutants: a file that is gone by now is sent all the same; what an      *)
(* earlier push left in the blob store is sent.)                           *)
ImportUnchecked(n) == /\ push[n] # None
                      /\ Imported(n, store[n][push[n].name])

ImportCached(n) == /\ push[n] # None
                   /\ store[n][push[n].name] # None
                   /\ Imported(n, [name |-> push[n].name, seq |-> 1])

Import(n) == /\ push[n] # None
             /\ store[n][push[n].name] # None
             /\ Imported(n, store[n][push[n].name])

ImportFails(n) ==
    /\ push[n] # None /\ push[n].at = "import"
    /\ MayFail \/ store[n][push[n].name] = None
    /\ EndPush(n)
    /\ UNCHANGED <<store, events, tasks, exports, up, latest>>

Notifying(n) == push[n] # None /\ push[n].at = "notify"

(* notify_peer connects to the next peer and sends the offer; the peer's   *)
(* SyncListener spawns a task for it.                                      *)
Offer(n, p, s) ==
    /\ Notifying(n) /\ push[n].slot = None
    /\ p \in push[n].peers /\ up[p]
    /\ tasks[s] = None
    /\ tasks' = [tasks EXCEPT ![s] =
                   [at |-> "offered", from |-> n, to |-> p,
                    name |-> push[n].name, content |-> push[n].content,
                    wanted |-> TRUE]]
    /\ push' = [push EXCEPT ![n] =
                  [@ EXCEPT !.peers = push[n].peers \ {p}, !.slot = s]]
    /\ UNCHANGED <<store, events, exports, up, latest>>

(* The connection is refused or times out: log it and go on.               *)
(* (Mutant: the push ends here.)                                           *)
OfferFailsAborts(n, p) ==
    /\ Notifying(n) /\ push[n].slot = None
    /\ p \in push[n].peers
    /\ MayFail \/ ~up[p]
    /\ EndPush(n)
    /\ UNCHANGED <<store, events, tasks, exports, up, latest>>

OfferFails(n, p) ==
    /\ Notifying(n) /\ push[n].slot = None
    /\ p \in push[n].peers
    /\ MayFail \/ ~up[p]
    /\ push' = [push EXCEPT ![n].peers = @ \ {p}]
    /\ UNCHANGED <<store, events, tasks, exports, up, latest>>

(* The ack, ok or not, arrives: go on with the next peer.                  *)
AckArrives(n) ==
    /\ Notifying(n) /\ push[n].slot # None
    /\ tasks[push[n].slot].at \in {"installed", "failed"}
    /\ tasks' = [tasks EXCEPT ![push[n].slot] = None]
    /\ push' = [push EXCEPT ![n].slot = None]
    /\ UNCHANGED <<store, events, exports, up, latest>>

(* A task that has not come to its result.                                 *)
Pending(s) == /\ tasks[s] # None
              /\ tasks[s].at \in {"offered", "downloaded", "exported"}

(* No ack within two minutes: the sender gives up, the peer does not.      *)
(* (Mutant: the sender will offer the file to that peer again.)            *)
AckTimeoutRetries(n) ==
    /\ MayFail
    /\ Notifying(n) /\ push[n].slot # None
    /\ Pending(push[n].slot)
    /\ tasks' = [tasks EXCEPT ![push[n].slot].wanted = FALSE]
    /\ push' = [push EXCEPT ![n].slot = None,
                            ![n].peers = @ \cup {tasks[push[n].slot].to}]
    /\ UNCHANGED <<store, events, exports, up, latest>>

AckTimeout(n) ==
    /\ MayFail
    /\ Notifying(n) /\ push[n].slot # None
    /\ Pending(push[n].slot)
    /\ tasks' = [tasks EXCEPT ![push[n].slot].wanted = FALSE]
    /\ push' = [push EXCEPT ![n].slot = None]
    /\ UNCHANGED <<store, events, exports, up, latest>>

(* All peers have been tried: the router shuts down and push returns.      *)
(* (Mutant: it does not wait for the last ack.)                            *)
PushDoneUnacknowledged(n) ==
    /\ Notifying(n) /\ push[n].peers = {}
    /\ EndPush(n)
    /\ UNCHANGED <<store, events, tasks, exports, up, latest>>

PushDone(n) ==
    /\ Notifying(n) /\ push[n].slot = None /\ push[n].peers = {}
    /\ EndPush(n)
    /\ UNCHANGED <<store, events, tasks, exports, up, latest>>

WatcherStep(n) == \/ EventSkipped(n)
                  \/ PushStarts(n)
                  \/ \E ps \in SUBSET Nodes : FetchPeers(n, ps)
                  \/ Import(n)
                  \/ ImportFails(n)
                  \/ \E p \in Nodes, s \in Slots : Offer(n, p, s)
                  \/ \E p \in Nodes : OfferFails(n, p)
                  \/ AckArrives(n)
                  \/ AckTimeout(n)
                  \/ PushDone(n)

-----------------------------------------------------------------------------
(* The receiver: handle_sync_connection and pull.                          *)

(* The router of the sender's push serves what that push imported.         *)
Serving(n, c) == Notifying(n) /\ push[n].content = c

(* The task's result: an ack on the offer's stream if the sender still     *)
(* reads it.                                                               *)
Result(t, r) == IF t.wanted THEN [t EXCEPT !.at = r] ELSE None

Download(s) ==
    /\ tasks[s] # None /\ tasks[s].at = "offered"
    /\ Serving(tasks[s].from, tasks[s].content)
    /\ tasks' = [tasks EXCEPT ![s].at = "downloaded"]
    /\ UNCHANGED <<store, events, push, exports, up, latest>>

(* The task r has its exported file where s has it.                        *)
SamePath(r, s, x) == /\ exports[r] # None /\ exports[r].path = x
                     /\ tasks[r].to = tasks[s].to

(* export_with_opts, to a path named by the process id and the nanoseconds *)
(* within the second: the same name comes round every second, and an       *)
(* export to a path that is in use replaces what is there.                 *)
ExportTo(s, x) ==
    /\ tasks[s] # None /\ tasks[s].at = "downloaded"
    /\ NoncesDiffer => x = s
    /\ tasks' = [tasks EXCEPT ![s].at = "exported"]
    /\ exports' = [r \in Slots |->
                     IF r = s \/ SamePath(r, s, x)
                     THEN [path |-> x, content |-> tasks[s].content]
                     ELSE exports[r]]
    /\ UNCHANGED <<store, events, push, up, latest>>

(* The sender's router is gone, or its file no longer has the hash it was  *)
(* imported with (ImportMode::TryReference reads it again), or what was    *)
(* exported has been renamed by another task, or the network, the export   *)
(* or the rename fails.  Nobody reads an exported file that stays behind.  *)
PullFails(s) ==
    /\ tasks[s] # None
    /\ \/ MayFail /\ Pending(s)
       \/ tasks[s].at = "exported" /\ exports[s].content = None
       \/ /\ tasks[s].at = "offered"
          /\ \/ ~Serving(tasks[s].from, tasks[s].content)
             \/ store[tasks[s].from][tasks[s].name] # tasks[s].content
    /\ tasks' = [tasks EXCEPT ![s] = Result(@, "failed")]
    /\ exports' = [exports EXCEPT ![s] = None]
    /\ UNCHANGED <<store, events, push, up, latest>>

(* The rename of the exported file over the final name.  Nothing is asked  *)
(* first: not can_add, not the age of what is there.                       *)
Installed(s) ==
    /\ tasks[s] # None /\ tasks[s].at = "exported"
    /\ exports[s] # None /\ exports[s].content # None
    /\ store' = [store EXCEPT ![tasks[s].to][tasks[s].name] = exports[s].content]
    /\ events' = Notified(tasks[s].to, tasks[s].name)
    /\ tasks' = [tasks EXCEPT ![s] = Result(@, "installed")]
    /\ exports' = [r \in Slots |->
                     IF r = s THEN None
                     ELSE IF SamePath(r, s, exports[s].path)
                          THEN [exports[r] EXCEPT !.content = None]
                          ELSE exports[r]]
    /\ UNCHANGED <<push, up, latest>>

(* (Mutant: the task waits for the node's watcher.)                        *)
InstallWhenIdle(s) == /\ tasks[s] # None
                      /\ push[tasks[s].to] = None
                      /\ Installed(s)

Install(s) == Installed(s)

TaskStep(s) == \/ Download(s)
               \/ \E x \in Slots : ExportTo(s, x)
               \/ PullFails(s)
               \/ Install(s)

-----------------------------------------------------------------------------
(* The process of a node dies: its watcher, its queued events and its      *)
(* tasks are gone; a sender waiting for one of them gets an error.  The    *)
(* store stays, and is not compared with anything at the next start.       *)

Crash(n) ==
    /\ MayCrash /\ up[n]
    /\ up' = [up EXCEPT ![n] = FALSE]
    /\ events' = [events EXCEPT ![n] = <<>>]
    /\ push' = [push EXCEPT ![n] = None]
    /\ tasks' = [s \in Slots |->
         LET t == tasks[s]
         IN  IF t = None THEN None
             ELSE IF t.to = n THEN Result(t, "failed")
             ELSE IF t.from = n /\ t.at \in {"installed", "failed"} THEN None
             ELSE IF t.from = n THEN [t EXCEPT !.wanted = FALSE]
             ELSE t]
    /\ exports' = [s \in Slots |->
         IF tasks[s] # None /\ tasks[s].to = n THEN None ELSE exports[s]]
    /\ UNCHANGED <<store, latest>>

Restart(n) ==
    /\ ~up[n] /\ n \notin Dead
    /\ up' = [up EXCEPT ![n] = TRUE]
    /\ UNCHANGED <<store, events, push, tasks, exports, latest>>

-----------------------------------------------------------------------------

Next == \/ \E n \in Nodes, f \in Names : UserWrite(n, f)
        \/ \E n \in Nodes, f \in Names : UserRemove(n, f)
        \/ \E n \in Nodes : WatcherStep(n)
        \/ \E s \in Slots : TaskStep(s)
        \/ \E n \in Nodes : Crash(n)
        \/ \E n \in Nodes : Restart(n)

Spec == Init /\ [][Next]_vars

(* tokio polls every ready task: the watcher and each listener task go on  *)
(* as long as they can.                                                    *)
FairSpec == /\ Spec
            /\ \A n \in Nodes : WF_vars(WatcherStep(n))
            /\ \A s \in Slots : WF_vars(TaskStep(s))

-----------------------------------------------------------------------------

TypeOK == /\ store \in [Nodes -> [Names -> Content \cup {None}]]
          /\ events \in [Nodes -> Seq(Names)]
          /\ push \in [Nodes -> Push \cup {None}]
          /\ tasks \in [Slots -> Task \cup {None}]
          /\ exports \in [Slots -> Export \cup {None}]
          /\ up \in [Nodes -> BOOLEAN]
          /\ latest \in [Names -> 0 .. MaxWrites]

(* Every copy of f that is anywhere in the system.                         *)
Copies(f) ==
    {store[n][f] : n \in {m \in Nodes : store[m][f] # None}}
    \cup {push[n].content : n \in {m \in Nodes : Notifying(m) /\ push[m].name = f}}
    \cup {tasks[s].content : s \in {r \in Slots : tasks[r] # None /\ tasks[r].name = f}}

(* A content that is nowhere any more, because every copy was overwritten  *)
(* or removed, never comes back: late tasks, restarts and echoes install   *)
(* only what somebody still had, and only a user writes something new.     *)
(* (While no nonce is drawn twice.)                                        *)
NothingReappears ==
    [][\A f \in Names : Copies(f)' \subseteq Copies(f) \cup
            (IF latest'[f] > latest[f] THEN {Newest(f)'} ELSE {})]_vars

(* As long as a sender waits for the ack of an offer its router serves     *)
(* what was offered: no push ends, and no blob store is removed, under a   *)
(* task somebody counts on.  (After a timeout either may be gone.)         *)
WantedServed ==
    \A s \in Slots : tasks[s] # None /\ tasks[s].wanted =>
        /\ Serving(tasks[s].from, tasks[s].content)
        /\ push[tasks[s].from].slot = s

(* Whatever fails, crashes or comes late, the devices share their files as *)
(* SharedFolder says: an offer is made of what the sender's own store held *)
(* when it was imported, to another device, and is installed at most once, *)
(* unchanged, while no nonce is drawn twice.                               *)
Sending == [n \in Nodes |->
              IF Notifying(n) THEN [name |-> push[n].name,
                                    content |-> push[n].content,
                                    to |-> push[n].peers]
              ELSE None]

Offers == [s \in Slots |->
             IF Pending(s) THEN [to |-> tasks[s].to, name |-> tasks[s].name,
                                 content |-> tasks[s].content]
             ELSE None]

Folder == INSTANCE SharedFolder WITH sending <- Sending, offers <- Offers

ImplementsSharedFolder == Folder!Spec

(* Two watchers may push to each other at the same time, each awaiting the *)
(* other's ack: because the listener's tasks do not wait for the watcher,  *)
(* every push comes to its end without the help of a timeout.              *)
PushEnds == \A n \in Nodes : push[n] # None ~> push[n] = None

(* A file that is written once gets to every live node and stays there,    *)
(* while the stores have room; a node that never answers does not keep it  *)
(* from the others ("errors from individual peers ... do not abort the     *)
(* push to remaining peers", sync.rs:143-144).                             *)
Converges ==
    \A f \in Names, n \in Nodes \ Dead :
        latest[f] = MaxWrites ~> [](store[n][f] = [name |-> f, seq |-> MaxWrites])

(* What makes them inductive: a push in its notify stage has imported a    *)
(* content, and the offer it waits for is its own and still wanted.        *)
AwaitInv ==
    \A n \in Nodes : push[n] # None =>
        /\ push[n].at = "notify" => push[n].content # None
        /\ push[n].slot # None =>
             /\ push[n].at = "notify"
             /\ tasks[push[n].slot] # None
             /\ tasks[push[n].slot].from = n
             /\ tasks[push[n].slot].wanted

(* No device pushes to itself.                                             *)
AddressInv ==
    /\ \A n \in Nodes : push[n] # None => n \notin push[n].peers
    /\ \A s \in Slots : tasks[s] # None => tasks[s].from # tasks[s].to

(* A task has a file exported exactly between its export and its end; and  *)
(* while no nonce is drawn twice it is what the task was offered.          *)
ExportInv ==
    \A s \in Slots :
        /\ exports[s] # None <=> tasks[s] # None /\ tasks[s].at = "exported"
        /\ NoncesDiffer /\ exports[s] # None =>
             exports[s] = [path |-> s, content |-> tasks[s].content]

IInv == TypeOK /\ AwaitInv /\ AddressInv /\ WantedServed /\ ExportInv

-----------------------------------------------------------------------------
(* What the repository says, and the code does not do.                     *)

(* README.md:26-28: the last write wins, on perfectly synchronised clocks: *)
(* what is in a store is never replaced by something written earlier.      *)
LastWriteWins ==
    [][\A n \in Nodes, f \in Names :
          store[n][f] # None /\ store'[n][f] # None
             => store'[n][f].seq >= store[n][f].seq]_vars

(* watcher.rs:18-20: ignoring dot files "prevents the watcher from         *)
(* re-triggering on its own writes".  Users write a bounded number of      *)
(* times, so in the end nobody has anything to push.                       *)
EventuallyQuiet == <>[](\A n \in Nodes : push[n] = None)
=============================================================================
