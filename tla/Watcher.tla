------------------------------- MODULE Watcher -------------------------------
(***************************************************************************)
(* One device's Watcher of src/src/watcher.rs in time: its select! loop,   *)
(* the handlers the loop awaits, the keepalive timer that goes on          *)
(* meanwhile, and the channel from notify's thread.                        *)
(*                                                                         *)
(* Time passes only where the code waits.  A wait ends when what it waits  *)
(* for happens.  Some have a timeout; for the others the code states no    *)
(* limit, and the constants that bound them are assumptions.  A path is    *)
(* the one file the properties observe, or another.                        *)
(***************************************************************************)
EXTENDS Naturals, Sequences

CONSTANTS
    Peers,              \* other devices enrolled under the username, at most
    OnlineTimeout,      \* until an endpoint is online
    ConnectTimeout,     \* until a peer accepts a connection
    AckTimeout,         \* until a peer acknowledges an offer
    ShutdownTimeout,    \* until the router of a push is closed
    Interval,           \* KEEPALIVE_INTERVAL
    PeerTtl,            \* the server's PEER_TTL_SECS
    ChannelSize,        \* capacity of the channel
    Events,             \* what notify reports: the paths of an event, in order
    MaxPaths,           \* the most paths of an event
    MaxKernel,          \* capacity of the kernel's queue of events
    MayFail,            \* TRUE: requests and set-up fail, the server restarts
    HttpTime,           \* bound: a message to or from the server; the code has none
    SetupTime,          \* bound: the temp store is loaded and an endpoint bound; none
    ImportTime,         \* bound: reading a file into the blob store; none
    SendTime,           \* bound: a stream is opened and the offer written; none
    MaxPassed,          \* bound: paths select! prefers to a tick that is due
    MaxMissed           \* bound: ticks due while it does

Files == {"file", "other"}      \* the file observed, and any other

(* Where the loop waits: for the endpoint, for the server to take a        *)
(* registration and to answer it, for its answer to DELETE and to /peers,  *)
(* and in a push: for its store and endpoint, its relay, its import, then  *)
(* for each peer to accept, to take the offer and to acknowledge it.       *)
Pushing == {"fetch", "setup", "relay", "import", "connect", "send", "ack", "close"}
Waits == {"online", "register", "reply", "leave"} \cup Pushing

(* The waits without a timeout.                                            *)
Unlimited == {"register", "reply", "leave", "fetch", "setup", "import", "send"}

(* push() around its peers, and notify_peer.  (Mutant: one timeout for the *)
(* connection and the ack together is started again for each.)             *)
PushLimit == [setup |-> SetupTime, relay |-> OnlineTimeout,
              import |-> ImportTime, close |-> ShutdownTimeout]

PeerLimitTwice == [connect |-> ConnectTimeout + AckTimeout, send |-> SendTime,
                   ack |-> ConnectTimeout + AckTimeout]

PeerLimit == [connect |-> ConnectTimeout, send |-> SendTime, ack |-> AckTimeout]

Limit ==
    [w \in Waits |-> CASE w = "online" -> OnlineTimeout
                       [] w \in DOMAIN PushLimit -> PushLimit[w]
                       [] w \in DOMAIN PeerLimit -> PeerLimit[w]
                       [] OTHER -> HttpTime]

Stages == Waits \cup {"select", "paths", "stopped", "failed"}

ASSUME WatcherAssumption ==
    /\ {Peers, OnlineTimeout, ConnectTimeout, AckTimeout, ShutdownTimeout, PeerTtl,
        HttpTime, SetupTime, ImportTime, SendTime,
        MaxKernel, MaxPassed, MaxMissed} \subseteq Nat
    /\ {Interval, ChannelSize, MaxPaths} \subseteq Nat \ {0}
    /\ Events \subseteq Seq(Files) /\ \A e \in Events : Len(e) <= MaxPaths
    /\ MayFail \in BOOLEAN

VARIABLES
    at,         \* what run() is doing
    spent,      \* the time it has waited there
    left,       \* the peers the push has not yet turned to
    started,    \* whether the keepalive timer has been created
    due,        \* the time until the timer's next tick
    missed,     \* ticks that are due and not yet taken
    passed,     \* paths taken since the last registration while a tick was due
    since,      \* the time since the last attempt to register
    age,        \* the age of the server's record of the device, at most Gone
    lost,       \* whether that attempt failed or the server has restarted since
    kernel,     \* events notify's thread has yet to send, the first in its hands
    waiting,    \* whether the thread waits in blocking_send with the first
    queue,      \* events in the channel
    paths,      \* the paths of the event that its handler has yet to turn to
    path,       \* the path whose push the handler awaits
    unsent,     \* whether the file has changed and nobody has read it since:
                \* "no", "yes", or "dropped" when nobody is going to
    stop        \* whether Ctrl-C has been pressed

loop == <<at, spent, left, started>>
timer == <<due, missed, passed>>
record == <<since, age, lost>>
channel == <<kernel, waiting, queue>>
handler == <<paths, path>>
vars == <<loop, timer, record, channel, handler, unsent, stop>>

(* The record is forgotten, or so old that /peers does not list it.        *)
Gone == PeerTtl + 1
Listed == age < Gone

Ended == at \in {"stopped", "failed"}

Init == /\ at = "online" /\ spent = 0 /\ left = 0 /\ started = FALSE
        /\ due = Interval /\ missed = 0 /\ passed = 0
        /\ since = 0 /\ age = Gone /\ lost = FALSE
        /\ kernel = <<>> /\ waiting = FALSE /\ queue = <<>>
        /\ paths = <<>> /\ path = "none" /\ unsent = "no" /\ stop = FALSE

Go(s) == at' = s /\ spent' = 0

-----------------------------------------------------------------------------
(* Time.                                                                   *)

(* The interval is created with its default behaviour: every tick is taken *)
(* in the end, however late, and the next ones do not move.                *)
Clock ==
    IF ~started THEN UNCHANGED <<due, missed>>
    ELSE IF due > 1 THEN due' = due - 1 /\ UNCHANGED missed
    ELSE due' = Interval /\ missed' = missed + 1

(* select! waits only while none of its branches is ready.                 *)
NothingReady == at = "select" /\ queue = <<>> /\ missed = 0 /\ ~stop

(* (Mutant: a timeout that fires one unit late.)                           *)
PassLate == /\ \/ at \in Waits /\ spent <= Limit[at]
               \/ NothingReady
            /\ spent' = IF at = "select" THEN 0 ELSE spent + 1
            /\ since' = since + 1
            /\ age' = IF Listed THEN age + 1 ELSE age
            /\ Clock
            /\ UNCHANGED <<at, left, started, passed, lost, channel, handler, unsent, stop>>

Pass == /\ \/ at \in Waits /\ spent < Limit[at]
           \/ NothingReady
        /\ spent' = IF at = "select" THEN 0 ELSE spent + 1
        /\ since' = since + 1
        /\ age' = IF Listed THEN age + 1 ELSE age
        /\ Clock
        /\ UNCHANGED <<at, left, started, passed, lost, channel, handler, unsent, stop>>

(* When the watcher has returned its record just gets older.               *)
RecordAges == /\ Ended /\ Listed
              /\ age' = age + 1
              /\ UNCHANGED <<loop, timer, since, lost, channel, handler, unsent, stop>>

-----------------------------------------------------------------------------
(* notify                                                                  *)

Mentions(e) == \E i \in DOMAIN e : e[i] = "file"
About(q) == \E i \in DOMAIN q : Mentions(q[i])

Watching == ~Ended /\ at # "online"

(* The kernel reports a change in the store while notify watches it.  When *)
(* its queue is full it reports nothing; a change nobody has read yet is   *)
(* then read with this one.                                                *)
FileChanges(e) ==
    /\ Watching
    /\ IF Len(kernel) < MaxKernel THEN kernel' = Append(kernel, e) ELSE UNCHANGED kernel
    /\ unsent' = IF ~Mentions(e) THEN unsent
                 ELSE IF Len(kernel) < MaxKernel THEN "yes"
                 ELSE IF unsent = "no" THEN "dropped" ELSE unsent
    /\ UNCHANGED <<loop, timer, record, waiting, queue, handler, stop>>

(* notify's thread calls the closure with the next event.  (Mutant: as its *)
(* comment says, the event is dropped when the channel is full.)           *)
DeliverOrDrop ==
    /\ Watching /\ kernel # <<>> /\ ~waiting
    /\ kernel' = Tail(kernel)
    /\ queue' = IF Len(queue) < ChannelSize THEN Append(queue, Head(kernel)) ELSE queue
    /\ UNCHANGED <<loop, timer, record, waiting, handler, unsent, stop>>

Deliver ==
    /\ Watching /\ kernel # <<>> /\ ~waiting
    /\ IF Len(queue) < ChannelSize
         THEN /\ kernel' = Tail(kernel)
              /\ queue' = Append(queue, Head(kernel))
              /\ UNCHANGED waiting
         ELSE waiting' = TRUE /\ UNCHANGED <<kernel, queue>>
    /\ UNCHANGED <<loop, timer, record, handler, unsent, stop>>

SendReturns == /\ Watching /\ waiting /\ Len(queue) < ChannelSize
               /\ waiting' = FALSE
               /\ kernel' = Tail(kernel)
               /\ queue' = Append(queue, Head(kernel))
               /\ UNCHANGED <<loop, timer, record, handler, unsent, stop>>

(* run() has returned and dropped the receiver.                            *)
SendFails == /\ Ended /\ waiting
             /\ waiting' = FALSE
             /\ kernel' = Tail(kernel)
             /\ UNCHANGED <<loop, timer, record, queue, handler, unsent, stop>>

-----------------------------------------------------------------------------
(* run(), up to its loop                                                   *)

(* The endpoint is online and the store directory is watched: register.    *)
Online == /\ at = "online"
          /\ Go("register")
          /\ UNCHANGED <<left, started, timer, record, channel, handler, unsent, stop>>

SetupFails == /\ at = "online"
              /\ MayFail \/ spent = OnlineTimeout
              /\ Go("failed")
              /\ UNCHANGED <<left, started, timer, record, channel, handler, unsent, stop>>

(* register_with_rendezvous: the server writes the record and answers.     *)
Registered == /\ at = "register"
              /\ Go("reply")
              /\ since' = 0 /\ age' = 0 /\ lost' = FALSE
              /\ passed' = 0
              /\ UNCHANGED <<left, started, due, missed, channel, handler, unsent, stop>>

(* The failure is only logged; the next tick is the next attempt.          *)
RegisterFails == /\ at = "register" /\ MayFail
                 /\ Go("select") /\ started' = TRUE
                 /\ since' = 0 /\ lost' = TRUE
                 /\ passed' = 0
                 /\ UNCHANGED <<left, due, missed, age, channel, handler, unsent, stop>>

(* The timer is created after the first attempt.                           *)
Replied == /\ at = "reply"
           /\ Go("select") /\ started' = TRUE
           /\ UNCHANGED <<left, timer, record, channel, handler, unsent, stop>>

-----------------------------------------------------------------------------
(* select!: of the branches that are ready it takes one at random.         *)

(* (Mutant: Ctrl-C waits until the channel is empty.)                      *)
TakeStopWhenIdle ==
    /\ at = "select" /\ stop /\ queue = <<>>
    /\ Go("leave")
    /\ UNCHANGED <<left, started, timer, record, channel, handler, unsent, stop>>

TakeStop == /\ at = "select" /\ stop
            /\ Go("leave")
            /\ UNCHANGED <<left, started, timer, record, channel, handler, unsent, stop>>

(* deregister is best effort.                                              *)
Deregistered(ok) == /\ at = "leave"
                    /\ ok \/ MayFail
                    /\ Go("stopped")
                    /\ age' = IF ok THEN Gone ELSE age
                    /\ UNCHANGED <<left, started, timer, since, lost, channel,
                                   handler, unsent, stop>>

TakeTick == /\ at = "select" /\ missed > 0
            /\ missed' = missed - 1
            /\ Go("register")
            /\ UNCHANGED <<left, started, due, passed, record, channel, handler, unsent, stop>>

(* The caps MaxPassed and MaxMissed are for TLC: nothing in the code keeps *)
(* select! from preferring events to a tick for as long as there are any.  *)
TakeEvent ==
    /\ at = "select" /\ queue # <<>>
    /\ queue' = Tail(queue) /\ paths' = Head(queue)
    /\ Go("paths")
    /\ \/ missed = 0 /\ UNCHANGED passed
       \/ /\ missed \in 1 .. MaxMissed
          /\ passed' = passed + Len(Head(queue)) /\ passed' <= MaxPassed
    /\ UNCHANGED <<left, started, due, missed, record, kernel, waiting, path,
                   unsent, stop>>

-----------------------------------------------------------------------------
(* handle_event and push_file                                              *)

(* A handler that is done with the file and has not read it leaves the     *)
(* change to the events about it that still wait.                          *)
GiveUp(f) ==
    unsent' = IF /\ f = "file" /\ unsent = "yes"
                 /\ ~(About(kernel) \/ About(queue) \/ Mentions(paths'))
              THEN "dropped" ELSE unsent

(* Not a creation or a modification, a dot file, no file any more, or no   *)
(* room in the store.                                                      *)
SkipPath == /\ at = "paths" /\ paths # <<>>
            /\ paths' = Tail(paths)
            /\ GiveUp(Head(paths))
            /\ UNCHANGED <<loop, timer, record, channel, path, stop>>

TakePath == /\ at = "paths" /\ paths # <<>>
            /\ paths' = Tail(paths) /\ path' = Head(paths)
            /\ Go("fetch")
            /\ UNCHANGED <<left, started, timer, record, channel, unsent, stop>>

HandlerReturns == /\ at = "paths" /\ paths = <<>>
                  /\ Go("select")
                  /\ UNCHANGED <<left, started, timer, record, channel, handler,
                                 unsent, stop>>

Handled == /\ Go("paths") /\ path' = "none"
           /\ UNCHANGED <<left, started, timer, record, channel, paths, stop>>

(* fetch_peers: one record that does not parse fails the whole list.       *)
NoPeers == at = "fetch" /\ Handled /\ GiveUp(path)

FetchPeers(k) == /\ at = "fetch"
                 /\ left' = k
                 /\ Go("setup")
                 /\ UNCHANGED <<started, timer, record, channel, handler, unsent, stop>>

-----------------------------------------------------------------------------
(* sync::push, awaited by the handler                                      *)

PushBound == /\ at = "setup"
             /\ Go("relay")
             /\ UNCHANGED <<left, started, timer, record, channel, handler, unsent, stop>>

PushOnline == /\ at = "relay"
              /\ Go("import")
              /\ UNCHANGED <<left, started, timer, record, channel, handler, unsent, stop>>

PushFails == /\ \/ at = "setup" /\ MayFail
                \/ at = "relay" /\ spent = OnlineTimeout
                \/ at = "import"
             /\ Handled /\ GiveUp(path)

(* The file is read: what has changed in it up to now will be offered.     *)
Import == /\ at = "import"
          /\ unsent' = IF path = "file" THEN "no" ELSE unsent
          /\ left' = left - 1
          /\ Go("connect")
          /\ UNCHANGED <<started, timer, record, channel, handler, stop>>

Accepts == /\ at = "connect"
           /\ Go("send")
           /\ UNCHANGED <<left, started, timer, record, channel, handler, unsent, stop>>

Sent == /\ at = "send"
        /\ Go("ack")
        /\ UNCHANGED <<left, started, timer, record, channel, handler, unsent, stop>>

NextPeer == /\ IF left > 0 THEN left' = left - 1 /\ Go("connect")
                           ELSE UNCHANGED left /\ Go("close")
            /\ UNCHANGED <<started, timer, record, channel, handler, unsent, stop>>

(* An ack, a refusal, an error or a timeout: the next peer, if any.        *)
(* (Mutant: the ack is awaited without a timeout.)                         *)
PeerDoneNoTimeout ==
    /\ at \in {"connect", "send", "ack"} /\ NextPeer
    /\ at = "ack" => spent < AckTimeout

PeerDone == at \in {"connect", "send", "ack"} /\ NextPeer

Closed == at = "close" /\ Handled /\ UNCHANGED unsent

-----------------------------------------------------------------------------
(* The user and the server                                                 *)

Interrupt == /\ ~Ended /\ ~stop
             /\ stop' = TRUE
             /\ UNCHANGED <<loop, timer, record, channel, handler, unsent>>

ServerRestart == /\ MayFail /\ Listed
                 /\ age' = Gone /\ lost' = TRUE
                 /\ UNCHANGED <<loop, timer, since, channel, handler, unsent, stop>>

-----------------------------------------------------------------------------

Notify == Deliver \/ SendReturns \/ SendFails

Step == \/ Online \/ SetupFails
        \/ Registered \/ RegisterFails \/ Replied
        \/ TakeStop \/ TakeTick \/ TakeEvent
        \/ \E ok \in BOOLEAN : Deregistered(ok)
        \/ SkipPath \/ TakePath \/ HandlerReturns
        \/ NoPeers
        \/ \E k \in 1 .. Peers : FetchPeers(k)
        \/ PushBound \/ PushOnline \/ PushFails \/ Import
        \/ Accepts \/ Sent \/ PeerDone \/ Closed

Next == \/ Step \/ Pass \/ RecordAges
        \/ \E e \in Events : FileChanges(e)
        \/ Notify \/ Interrupt \/ ServerRestart

Spec == Init /\ [][Next]_vars

(* Time passes, waits with a timeout end, notify's thread runs; select!    *)
(* takes a branch at random, so one that is ready again and again is taken *)
(* in the end.  A wait without a timeout may last for ever.                *)
FairSpec == /\ Spec
            /\ WF_vars(Step /\ at \notin Unlimited)
            /\ WF_vars(Pass) /\ WF_vars(Notify)
            /\ SF_vars(TakeStop) /\ SF_vars(TakeEvent)

-----------------------------------------------------------------------------

Flags == /\ started \in BOOLEAN
         /\ lost \in BOOLEAN
         /\ waiting \in BOOLEAN
         /\ unsent \in {"no", "yes", "dropped"}
         /\ stop \in BOOLEAN

Numbers == /\ at \in Stages
           /\ spent \in Nat
           /\ at \in Waits => spent <= Limit[at]
           /\ left \in 0 .. Peers
           /\ due \in 1 .. Interval
           /\ missed \in Nat
           /\ passed \in Nat
           /\ since \in Nat
           /\ age \in 0 .. Gone

Queues == /\ kernel \in Seq(Events) /\ Len(kernel) <= MaxKernel
          /\ queue \in Seq(Events) /\ Len(queue) <= ChannelSize
          /\ paths \in Seq(Files)
          /\ path \in Files \cup {"none"}
          /\ waiting => kernel # <<>>

TypeOK == Numbers /\ Flags /\ Queues

(* The longest a peer, and a whole push, can hold up the loop.             *)
PeerTime == ConnectTimeout + SendTime + AckTimeout
PushTime == HttpTime + SetupTime + OnlineTimeout + ImportTime + Peers * PeerTime
              + ShutdownTimeout

(* The longest time between two attempts to register: an interval, the     *)
(* pushes of the event that is being handled when the tick falls due, those *)
(* of the events select! prefers to it, and two answers of the server.     *)
Worst == Interval + (passed + MaxPaths) * PushTime + 2 * HttpTime

(* The device tries to register again before Worst has passed, though the  *)
(* loop awaits whole pushes: nothing but the events that select! prefers   *)
(* delays the keepalive further ("re-registers with the rendezvous server  *)
(* every KEEPALIVE_INTERVAL seconds", watcher.rs:24-25).                   *)
RegistersInTime == started /\ ~Ended => since <= Worst

(* What watcher.rs:24-26 says that is for: "so the TTL does not expire and *)
(* other devices can always find this node", as long as the watcher runs,  *)
(* its requests succeed and the server does not restart.                   *)
StaysListed == started /\ at # "leave" /\ ~Ended /\ ~lost => Listed

(* A change that was reported and has not been read is in the hands of     *)
(* somebody who will see to it, whatever other files change: notify's      *)
(* thread waits when the channel is full ("drop the event" says the        *)
(* comment, watcher.rs:276).                                               *)
ChangeInHand == unsent = "yes" /\ ~Ended =>
                  \/ About(kernel) \/ About(queue) \/ Mentions(paths)
                  \/ path = "file" /\ at \in {"fetch", "setup", "relay", "import"}

(* The waits without a timeout all end.                                    *)
Answered == []<>(at \notin Unlimited)

(* Notify's thread does not wait for ever while the server answers:        *)
(* keepalives, other events and Ctrl-C compete for the loop, and peers     *)
(* that accept an offer and say no more hold it up, but the channel is     *)
(* read again.                                                             *)
NotifyResumes == Answered => (waiting ~> ~waiting)

(* Ctrl-C ends the watcher, however many peers are silent, if the waits    *)
(* without a timeout end: the loop sees it when the handler it awaits has  *)
(* returned.                                                               *)
StopEnds == Answered => (stop ~> Ended)

-----------------------------------------------------------------------------
(* What makes them inductive.                                              *)

StageInv == /\ at \in {"setup", "relay", "import"} => left > 0
            /\ at \in {"connect", "send", "ack"} => left < Peers
            /\ at = "online" => ~started
            /\ ~started => /\ at \in {"online", "register", "reply", "failed"}
                           /\ due = Interval /\ missed = 0
            /\ at \in Pushing => Len(paths) < MaxPaths
            /\ at = "paths" => Len(paths) <= MaxPaths
            /\ at \notin Pushing \cup {"paths"} => paths = <<>>

(* What the loop may still await: the rest of this wait, what follows it   *)
(* in the push, and the pushes of the event's other paths.                 *)
After(w, k) ==
    CASE w = "fetch" -> PushTime - HttpTime
      [] w = "setup" -> OnlineTimeout + ImportTime + k * PeerTime + ShutdownTimeout
      [] w = "relay" -> ImportTime + k * PeerTime + ShutdownTimeout
      [] w \in {"import", "ack"} -> k * PeerTime + ShutdownTimeout
      [] w = "connect" -> SendTime + AckTimeout + k * PeerTime + ShutdownTimeout
      [] w = "send" -> AckTimeout + k * PeerTime + ShutdownTimeout
      [] OTHER -> 0

Rest(w, t, k) == IF w \in Waits THEN (Limit[w] - t) + After(w, k) ELSE 0

Awaited == Rest(at, spent, left)
Remaining == Awaited + Len(paths) * PushTime

(* While no tick is due the next one is due in time; while one is, what    *)
(* the loop still awaits and the events it has preferred to the tick       *)
(* account for the delay.                                                  *)
TimeInv ==
    /\ at = "reply" /\ ~started => since <= spent
    /\ started /\ at \in {"register", "leave"} => since + Remaining <= Worst
    /\ started /\ at \notin {"register", "leave"} /\ ~Ended =>
         IF missed = 0 THEN since + due <= Interval + HttpTime
         ELSE since + Remaining <= Interval + HttpTime + (passed + MaxPaths) * PushTime

AgeInv == (started \/ at = "reply") /\ ~Ended /\ ~lost => age <= since

IInv == TypeOK /\ StageInv /\ TimeInv /\ AgeInv /\ ChangeInHand
=============================================================================
