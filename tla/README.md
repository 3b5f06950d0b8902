# Verification of dddatasync

`dddatasync` keeps a small directory, `~/dddatasync`, the same on all devices
of a user: each device watches its directory and sends every changed file to
the others over iroh, and finds them in a rendezvous server where each device
enrols. This directory holds TLA+ models of the program, the TLC
configurations that check them, and proofs about them for TLAPS.

    tlc -workers 2 -config MCSync_faults.cfg MCSync      # one run
    tlapm SyncProofs.tla                                 # one set of proofs

`PROJECT.json` lists the components, the runs, the source lines each definition
stands for, the findings, the hazards and the theorems.

## 1. Inventory

| part | source | state it keeps | operations |
|---|---|---|---|
| local store | `src/src/store.rs` | the directory: visible files and `.tmp-*` files; one mutex per `DddSync` value | `open`, `add`, `remove`, `files`, `can_add`, `clean_temp_files` |
| watcher | `src/src/watcher.rs` | the channel of notify events; the keepalive timer | `start_with_shutdown`, `handle_event`, `push_file`, `fetch_peers`, register, deregister |
| synchronisation | `src/src/sync.rs` | endpoints and blob stores of each push and pull; temp directories | `push`, `notify_peer`, `SyncListener`, `handle_sync_connection`, `pull` |
| rendezvous server (Rust) | `src/rendezvous/src/main.rs` | accounts, verification tokens, sessions, registry: four maps, four locks | signup, verify, login, register, deregister, peers, `prune_task` |
| rendezvous server (Django) | `src/rendezvous-py/rendezvous/` | accounts and sessions in database rows, the registry in memory behind one lock | the same, and an administrator who approves and blocks |
| rendezvous client | `src/src/rendezvous_client.rs` | the bearer token it was made with | one HTTP request for each operation, with no timeout |
| identity | `src/src/auth.rs` | the identity file and its temp file | derive, save, load |
| command line | `src/src/main.rs` | the token file | `start`, `login`, `list`, `remove`, `clean` |

How they interact. `add` ends in a rename, which notify reports; the report
crosses from notify's thread to the watcher's task through a channel. The
watcher handles one event at a time and awaits the whole push in the handler:
query the rendezvous, bind an endpoint, import the file, then for each peer in
turn connect, send an offer, and wait at most two minutes for the ack. At the
peer a listener accepts connections and spawns a task for each; the task
downloads from the sender's endpoint, exports to a temp directory and renames
into the peer's directory, which is an event for the peer's watcher. Watchers
also enrol with the server again every two minutes; the server lists what was
enrolled in the last five.

What is hard, and what has to be right:

* **store**: threads meet in `add` after having copied outside the lock;
  `remove` and `clean` take no lock; another process has a mutex of its own;
  every error return has to remove the temp file; the temp names are made of the
  clock. Right is: a file appears whole, under a free name, within the limits.
* **synchronisation**: pushes in both directions, several offers in progress at
  one node, a sender that gives up on a task that goes on, echoes of a node's
  own files, edits between offer and install, nodes that die. Right is: files
  arrive and stay, under their names, and nothing that is gone comes back.
* **rendezvous server**: a handler takes up to three locks one after the other,
  acts under the second on what it read under the first, and may be dropped at
  each wait. `prune_task` computes its cutoffs before it waits. Right is: a name
  belongs to who took it first, only he writes under it, nothing is pruned
  early and what has expired is pruned.
* **watcher timing**: one task awaits whole pushes, keepalives, Ctrl-C and the
  channel from notify's thread, which is stopped while the channel is full.
  Right is: the device stays listed, no change gets lost, everything goes on, as long as
  the server answers: its requests have no timeout.
* **identity**: login writes two files in several steps, talks to a server in
  between and may die; `start` reads both once; the server keeps its sessions in
  memory. Right is: the files load and fit together, and nothing replaces a key.
* **Django**: rows are read, changed and saved in separate queries, while other
  threads, an administrator and a prune thread do the same; a restart keeps the
  database and loses the registry. Right is what is right of the Rust server,
  and that a block holds.
* **names made of the clock**: temp files of `add`, and the directories and exports of
  pushes and pulls, are named by the process id and a time that may repeat.

## 2. Modules

| module | models | |
|---|---|---|
| `AtomicStore` | what `add` and `remove` promise | abstract |
| `Store` | `store.rs`, one action per system call or lock operation | implements `AtomicStore` |
| `StoreProofs` | theorems about `Store` | |
| `SharedFolder` | what pushes and pulls promise | abstract |
| `Sync` | `watcher.rs` and `sync.rs` on all nodes of a user | uses the store as one step; implements `SharedFolder` |
| `SyncProofs` | theorems about `Sync` | |
| `PhoneBook` | what the server promises | abstract |
| `Rendezvous` | `rendezvous/src/main.rs`, one action per lock taken | implements `PhoneBook` |
| `RendezvousProofs` | theorems about `Rendezvous` | |
| `Watcher` | `watcher.rs` of one device in time, with the requests and pushes it awaits | |
| `WatcherProofs` | theorems about `Watcher` | |
| `Device` | `login` and `start` of `main.rs`, `auth.rs` and `rendezvous_client.rs` on several devices | |
| `DeviceProofs` | theorems about `Device` | |
| `DjangoRendezvous` | `src/rendezvous-py`, one action per query and lock taken | implements `PhoneBook` |
| `DjangoProofs` | theorems about `DjangoRendezvous` | |
| `MCStore`, `MCSync`, `MCRendezvous`, `MCWatcher`, `MCDevice`, `MCDjango` | constants of the runs | |

**Store.** `files` and `temps` are the visible and the `.tmp-*` entries, `mu` the
mutex of each handle, `pc` and `call` each thread's place in `add` and its
request. `add` is `AddStat` (metadata), `AddCopy` or `AddCopyFails`, `AddLock`,
`AddCounted`, `AddOverLimit` or `AddScanFails` (`can_add_locked`, which scans the
directory), `AddAbsent` or `AddExists` (`dest.exists()`), `AddRename` or
`AddRenameFails`. `Remove`, `CleanList`, `CleanRemove` and `CleanStops` are the two
commands; `Crash` is a process that dies and is started again. `Named` is `uuid_simple`: two
threads of one process may draw one temp name, and then copy over each other's file,
unless `TicksDiffer`. `Refuse` is an early return under the lock; its removal of the temp
file may fail, which the code ignores. `leaked` is a history variable: temp files left by
a failed copy, rename or removal, or a death. The mutex guard is dropped by the
language on every return, so each return of the model unlocks.
`AtomicStore` knows for each caller what it has asked for (`request`), so a reason
given for a refusal has to be true of that request at that moment, and what is
stored has to be what was asked for.

**Sync.** `store[n]` is node n's directory, `events[n]` what notify has reported
and the watcher not handled, `push[n]` the push its watcher awaits, `tasks` the
offers in progress, each at its receiver. A content is a file name and the
number of the write that produced it. `EventSkipped` and `PushStarts` are
`handle_event` with its checks, `FetchPeers` the query, `Import` the moment the
bytes are read, `Offer`, `OfferFails`, `AckArrives` and `AckTimeout` the parts of
`notify_peer`, `PushDone` the router's shutdown. `Download`, `ExportTo`, `PullFails` and
`Install` are `handle_sync_connection` and `pull`. `exports[s]` is the file a task has exported
and not yet renamed; its path is drawn by `nonce()`, so unless `NoncesDiffer` two tasks of
one node may export to one path: the later content replaces the earlier, whoever
renames first installs it, and the other's rename fails. `Crash` takes the queue, the
push and the tasks of a node; `Restart` compares the store with nothing, as
`start` does. In `SharedFolder` a device's `sending` is the copy its push has
imported and whom it is still to be offered to, and `offers` the tasks that have
not ended: a timeout does not end the peer's task, so to the folder it is nothing.

**Rendezvous.** `users`, `verify`, `sessions` and `registry` are the four maps,
`req` the handler each client waits for and what it has read so far, `prune`
where `prune_task` is and the time it has computed. Tokens are numbered in the
order they are generated. `PersonOf` says whose program a client is: a program
knows its user's passwords, and the token it was given. The username and node
in a registration are arbitrary, since they come from a file that another login
may have replaced. `Cancel` is a handler dropped at an await because its client, one of
the `Hasty`, closed the connection.

**Watcher.** `at` is what `run()` awaits and `spent` for how long it has. `Limit` is how long each
wait may last: `PushLimit` and `PeerLimit` hold the timeouts of `push` and `notify_peer`; the
waits in `Unlimited` (a request to the server, the temp store and the endpoint of a push,
the import, the stream and the write of an offer) have no timeout in the code, and what
bounds them is an assumption with a constant of its own. `left` counts the peers of the push
in progress, `due` and `missed` are the keepalive timer, which goes on while the loop is
busy and owes its ticks, and `age` is the age of the server's record. `kernel`, `waiting` and
`queue` are the kernel's events, whether notify's thread is stopped in `blocking_send`, and the
channel. An event is the sequence of its paths: `paths` are those its handler has yet to
turn to, `path` the one whose push it awaits. `Pass` lets one unit of time go by, only where
the code waits, and never past a limit. `Online`, `Registered`, `Replied` lead to the loop;
`TakeStop`, `TakeTick` and `TakeEvent` are the branches of `select!`, any of which may be
taken when several are ready; `SkipPath`, `TakePath` and `HandlerReturns` are `handle_event`; and
`FetchPeers`, `PushBound`, `PushOnline`, `Import`, `Accepts`, `Sent`, `PeerDone` and `Closed` the
push. A peer may be dead, or accept and take any time up to the timeout for its ack. What
arrives at the peers is `Sync`'s matter; the two share the order of a handler's steps.
`unsent` is a history variable: the observed file has changed and nobody has read it
since; it is `"dropped"` once nobody is going to (the kernel's queue was full, or every
handler that was to read the file gave up).

**Device.** `identity`, `tmp` and `token` are the files of each device, `login` the
`dddatasync login` in progress on it, one action per system call: `Check`,
`SaveWrite`, `SaveMode`, `SaveRename`, then `ServerLogin` or `ServerRefuses`, and
`SaveToken`. `LoginDies` may come between any two. `Start` loads what is there,
`Register` and `Stop` are the watcher's requests. `registry`, `sessions` and `issued` are as
much of the server as this needs: sessions expire (`SessionExpires`) and a restart forgets
them, while the device keeps its token file and `run` the token it was started with; the
server itself is `Rendezvous`. `enrolled` is a history variable: what `login` has told its user
last.

**DjangoRendezvous.** `users` and `token` are the rows, `registry` and `prune` the memory
of the process, `req` what a view has read and not yet used: every query is an
action. `SignupUser`, `SignupEmail`, `SignupInserts`, `SignupMails` (the mail is out,
whatever then becomes of the view) and `SignupEnds` are `signup_view`; `VerifyReads` and
`VerifySaves`, `LoginReads` and `LoginCreates` the next two; `Authenticate`, `Stamp` and `Upsert` or `Remove` are `register_view`.
`Approve` and `Block` are the administrator, `Fails` a view that raises, and `Dies` keeps
the database. `PhoneBook` has a constant for that, `Durable`: the owners of its names survive
a death of this server, and none does of the Rust one. In both servers `up` is FALSE
between `Dies` and `Starts`, where time goes by and nobody is answered.

### Abstractions

* Bytes, hashes, addresses and JSON are left out. Requests that are malformed
  change nothing and are no step.
* In `Store` the temp names of two processes differ, since they begin with the process
  id; those of two threads may be equal (`Named`).
* In `Sync` one event stands for one change: a second event while the first
  still waits is redundant, since what is pushed is what the file holds later.
  The directories of pushes and pulls are taken to be private (see section 8); the
  paths of exports are not, unless `NoncesDiffer`.
* In `Sync` the nodes are enrolled throughout; under `MayFail` a query may return
  any part of the list. The listener, the pushes and the pulls of a node bind
  endpoints with the same key; an offer delivered to one of the others is
  refused, which is an `OfferFails`.
* In `Rendezvous` the clock never goes back, Argon2 accepts the right password and
  no other, and 256 random bits do not repeat; the same holds of `DjangoRendezvous`.
  Nothing in the Rust server sets the status `Blocked` (only its tests do), so it is not a status of the model;
  `VerifyApproves` leaves every account that is not pending alone, as the code does.
* In `Watcher` a path is the observed file or another. The constants `HttpTime`, `SetupTime`,
  `ImportTime` and `SendTime` bound the waits for which the code has no timeout. The safety
  properties count them; the liveness properties do not rely on them.
* In `Device` two credentials have the same key only if they are the same, and a user
  waits for a `login` to end before running another. `Sync` and `Watcher` are about
  devices with different keys, which is what the repository's tests set up: devices with
  equal credentials overwrite each other's record and find nobody, as
  `tests/test_watcher_subprocess.rs:174-179` says.

## 3. Properties

`Store`
* `ImplementsAtomicStore`: with one handle, sources that hold still and a clock that gives
  no time twice, the interleaved steps of `add` are one atomic step or a refusal whose
  reason is true. (When two threads read one tick it is false: one rename installs the
  other's copy.)
* `TempsOwned`: an `add` that has returned leaves no temp file, except when the copy, the
  rename or the removal of that file failed or the process died; also when two calls had
  one name for theirs.
* `CountBounded`: k processes exceed `MAX_FILES` by at most k - 1. The run has one
  process, the theorem any number.

`Sync`
* `ImplementsSharedFolder`: a device's files change by its own user or by taking in an
  offer; an offer is of what the sender's own store held under that name when it was
  read, goes to another device, once for each push, and is taken in at most once,
  perhaps long after the sender has given up. Timeouts, late tasks, echoes and deaths add
  nothing to that, while the tasks of a node draw different nonces. A sender that offered
  again after a timeout would.
* `NothingReappears`: a content whose last copy is gone never comes back, though
  tasks, echoes and senders work with old versions all the time; under the same condition.
* `WantedServed`: while a sender waits for an ack, its router serves what it offered. A
  push that did not wait for its acks would pull the blob from under its peers.
* `PushEnds`: two nodes that push to each other do not wait for each other for
  ever, even with no timeout.
* `Converges`: a file written once reaches every live node and stays, though an
  enrolled node never answers.

`Rendezvous`
* `ImplementsPhoneBook`: a username stays with its first owner; only he enters and
  removes nodes under it; a node nobody has asked to remove is dropped only when its
  own last registration is older than the TTL.
* `OwnersOnly`, `SessionOwners`: what a handler decided under one lock is still
  true under the next.
* `EmailsDiffer`: two signups at once cannot both get an email address.
* `OnlyHangUpStrands`: a pending account has a token that verifies it, or a request about to
  give it one, and only a client that hangs up while its own handler is between two
  locks with that token takes it away. It says both that the interleavings of signup,
  verify and restarts are harmless and what a dropped handler costs.
* `SessionsKept`: no session is taken before it expires.
* `ExpiredForgotten`: what has expired is forgotten, unless it is registered again.

`Watcher`
* `RegistersInTime`: between two attempts to register there are never more than an
  interval, two answers of the server, the pushes of the event in hand, and those of the
  events that `select!` has preferred to a due tick.
* `StaysListed`: a device that has enrolled is listed as long as it runs, its requests
  succeed and the server does not restart, as the watcher's comment says. False
  (`watcher_silent`).
* `ChangeInHand`: a change that was reported and nobody has read is with notify's thread, in
  the channel, or with the handler, whatever other files change.
* `NotifyResumes`, `StopEnds`: the stopped thread goes on, and Ctrl-C ends the watcher,
  though the loop awaits one push after the other and peers are silent, if the waits
  without a timeout end (`Answered`).

`Device`
* `IdentityWhole`: wherever logins die, an identity file is one that loads.
* `LoggedIn`: after "logged in as" the device has that identity and a token of its user,
  whatever later logins try.
* `IdentityKept`: no login replaces a key.

`DjangoRendezvous`: `ImplementsPhoneBook`, `EmailsDiffer`, `OwnersOnly` and `SessionOwners` as
above, and
* `BlockHolds`: once no view is left that read the account before it was blocked,
  nothing but the administrator's approval lets it in again. A verification in progress
  does undo a block (finding 6), so the property begins when there is none.
* `BlockedForgotten`: its nodes disappear, though their programs hold tokens and ask
  again and again.

Each module has one type invariant, `TypeOK`.

## 4. Runs

| run | instance | result |
|---|---|---|
| `store_one_handle` | 2 threads, 1 handle, 1 cleaner, 3 names, 2 sizes of which one is too large, limit 2, a clock that gives no time twice | 354 698 states; all of the store's properties |
| `sync_faults` | 2 nodes, 2 names, 2 writes of each, 2 offers in progress, limit 2; failures, timeouts, deaths, removals; nonces differ | 918 783 states up to symmetry; `ImplementsSharedFolder`, `WantedServed`, `NothingReappears` |
| `sync_converges` | 2 live nodes and a silent one, 2 names, limit 3, no other fault | `PushEnds`, `Converges` |
| `sync_last_file` | 2 nodes, 2 names, limit 2 | `Converges` fails |
| `sync_older_wins` | 2 nodes, 1 name, 2 writes on one node | `LastWriteWins` fails |
| `sync_ping_pong` | 2 nodes, 1 name, 1 write | `EventuallyQuiet` fails |
| `rendezvous_server` | 2 people with a program each, of whom one hangs up at will, 2 names, 2 emails, 1 node, 4 tokens, clock 0..2, peer TTL 1, session TTL 2 | 1 178 358 states up to symmetry; all safety properties |
| `rendezvous_pruning` | 1 person with 2 programs, 1 name, 2 tokens, clock 0..3, approved at signup; clients hang up, the server restarts | 171 904 states; `ExpiredForgotten`, `ImplementsPhoneBook` |
| `watcher_keepalive` | 1 peer, dead or silent; online 1, connect 1, ack 2, shutdown 1, interval 3; waits without a timeout end at once or fail; a channel of 1, a kernel's queue of 1, events of 1 and of 2 paths; 1 path preferred to a tick | 487 814 states; all of the watcher's properties but `StaysListed` |
| `watcher_silent` | the program's numbers in units of 5 s: online 6, connect 6, ack 24, shutdown 1, interval 24, TTL 60; 1 peer, nothing fails | `StaysListed` fails |
| `device_logins` | 2 devices, 2 users, one of whom uses only the first device, which may fail and die; 2 tokens; sessions expire, the server restarts | 410 987 states; all of the device's properties |
| `django_accounts` | 2 people with a program each, 2 names, 2 emails, 1 node, clock 0..1, peer TTL 0, session TTL 1; restarts | 514 679 states; all of its properties |

Why the bounds are enough for the cases of interest. In `Store` the interference
is between two calls, or a call and a command; the third name is there so that
the count limit could be exceeded. In `sync_faults`
two offers may be in progress while a node edits, so an install may meet an edit,
another install, an echo, and a task whose sender has given up; two contents of
each name tell old from new, two names tell mixed-up files. `sync_converges`
writes both files on either node, so pushes cross. `rendezvous_server` has four
tokens so that both people can sign up, verify and log in; with two programs a
handler of each is at any lock. The clock reaches one more than the peer TTL,
and in `rendezvous_pruning` more than the session TTL. In `watcher_keepalive` the
timeouts are small and in the order of the program's; the bound of `RegistersInTime` is
their sum, so a timeout that starts again shows; a channel of one place is full as
soon as one event waits, with a second in the thread's hands and a third that the kernel
drops; an event of two paths makes two pushes of one event. `watcher_silent` has the
program's own numbers, without rounding. `device_logins` has a
login that matches the identity and one that does not, a death between any two
steps, and a token older than its session. In `django_accounts` a program of each
person is between any two queries; the peer TTL is over after one tick, the
session TTL is not, so a token outlives a record. `MaxPassed`, `MaxMissed`, `MaxTokens`,
`MaxTime`, `MaxWrites`, `Slots` and `TempNames` bound counters that the code leaves
unbounded, and `HttpTime`, `SetupTime`, `ImportTime` and `SendTime` waits; the proofs hold for
every value of them.

`MaxPassed` deserves a word. `select!` picks at random among the branches that are ready,
so it may prefer one event after the other to a due keepalive, without a limit of its
own; `MaxPassed` caps the paths so preferred, and `MaxMissed` the ticks due meanwhile, for
TLC. `RegistersInTime` does not hide the delay: its bound grows with `passed`, the paths
preferred since the last registration, and is proved for every cap. It is therefore no
bound on the delay as such, which nothing in the code gives; that one silent peer is enough
to exceed the TTL is `watcher_silent`. (There the event is taken when the tick has just
fallen due; with a finer unit than 5 s a push that begins less than 5 s before does it.)

Checked besides, with other values of the constants. `MCStore_one_handle` with `TicksDiffer` FALSE:
`TempsOwned` and `CountBounded` hold (38 584 states), `ImplementsAtomicStore` does not.
`MCSync_faults` with `NoncesDiffer` FALSE: `TypeOK`, `WantedServed` and `ExportInv` hold,
`ImplementsSharedFolder` does not: a task whose sender has given up and a newer one
export to one path, and the content of one is installed under the name of the other.
`MCWatcher_keepalive` with `HttpTime`, `SetupTime` and `SendTime` 1: `IInv` holds (1 453 840
states).

Deadlock is checked except where the bounds stop the model (tokens used up at
the last tick: `rendezvous_server`; `sync_last_file`, where everything written has
been skipped) or the program ends (`watcher_keepalive`).

Symmetry is used in runs without liveness properties only.

Every property has a mutant of the code that breaks it in the same run: the mutated
operators stand before the ones they mutate and are marked "(Mutant: ...)".

### Fairness

* `Sync!FairSpec`: weak fairness of each watcher and each listener task; tokio
  polls every task that is ready, and they share no lock. Timeouts are not
  used: in the liveness runs `MayFail` is FALSE, so the pushes must end without.
  Users, deaths and restarts are not fair.
* `Rendezvous!FairSpec`: weak fairness of `prune_task` alone, an endless loop over a
  sleep of fixed length and two locks that every handler gives back. Time is not
  fair; the property is about what has expired already.

* `Watcher!FairSpec`: weak fairness of time, of notify's thread, and of the loop's steps
  except out of a wait in `Unlimited`: a wait with a timeout ends, one without may last for
  ever. That those end (the server answers) is a premise of the two properties, not an
  assumption about the program. `select!` chooses among ready branches at random, so a
  branch that is ready again and again is taken in the end: strong fairness of
  `TakeStop` and `TakeEvent`. Users and events are not fair.
* `DjangoRendezvous!FairSpec`: weak fairness of the prune thread, an endless loop that
  catches what its task raises.

## 5. Findings

1. `watcher.rs:183`: `can_add` is asked about a file that is already counted, so
   the file that fills a store is never sent (`sync_last_file`).
2. `sync.rs:301`: nothing compares times, though README.md:26 promises that the
   last write wins. The run needs one user on one device: the peer sends back the
   version it pulled, and it replaces a newer edit (`sync_older_wins`).
3. `watcher.rs:163`: two nodes send an unchanged file to each other for ever
   (`sync_ping_pong`), which the comment at watcher.rs:18-20 rules out.
4. `watcher.rs:142`: the comment at watcher.rs:24-26 promises that the TTL does not expire
   and that others can always find the device. The keepalive waits for the push in
   progress; with one peer that accepts and does not acknowledge, 120 + 30 + 30 + 120 + 5 =
   305 s pass between two registrations, and a record lives 300 s (`watcher_silent`).
5. `rendezvous/src/main.rs:404`: README.md:18-20 says "No authentication — any client can
   register any username". Both servers compare the account of the bearer token with the
   username of the request; `OwnersOnly`, which says the contrary of the README, holds in
   `rendezvous_server` and `django_accounts` and is proved. The README is out of date.
6. `views.py:132`: `test_views.py:301` says "Email verification must not change the status of a
   blocked account." `verify_view` reads the pending account at line 126 and saves it approved
   at line 132 whatever it is by then, so a block in between is lost. `BlockHolds` holds of
   accounts that no view has read before the block (`ShutOut`); without that condition
   `VerifyReads`, `Block`, `VerifySaves` is a counterexample.

What the models show besides, without a run of its own: a source that grows during
`add` is stored above `MAX_FILE_BYTES`, since the size is read before the copy
(`store.rs:89`, `SourceMayChange`); pulled files are installed without a limit check, so
two devices fill each other beyond three files (`sync.rs:300`, `Install`); a Rust
handler dropped between two locks leaves an account that stays pending with its
username and email taken (`rendezvous/src/main.rs:272`, `OnlyHangUpStrands`);
`watcher.rs:276` says an event is dropped when the channel is full, where the thread waits
instead; two threads whose `add`s read one tick of the clock share a temp file, and one
stores the other's copy (`store.rs:160`, `TicksDiffer`); two pulls of one process that begin
their exports a whole number of seconds apart may share a path, and one installs the
other's file (`sync.rs:455`, whose comment calls the nonce random; `NoncesDiffer`); a server
that takes a request and never answers holds up the watcher, and Ctrl-C, for ever
(`rendezvous_client.rs:73`, `Unlimited`).

## 6. Proofs

All theorems hold for every value of the constants that satisfies the named
assumption of the module (`StoreAssumption`, `SyncAssumption`,
`RendezvousAssumption`, `WatcherAssumption`, `DeviceAssumption`, `DjangoAssumption`): they give the types of the constants, say that `None` is
none of the values it stands beside, and, for `Store`, that the sets which are
counted are finite. TLC evaluates them in the runs. Each inductive invariant `IInv`
has been checked by TLC on the instances above before it was proved.

**StoreProofs.** `IInv` is `TypeOK`, `CallInv` (a thread has a request while it is in
`add`, and a temp name exactly from its copy on), `LockInv` (the holder of a mutex is the
thread in the locked region) and `TempInv` (under `TicksDiffer` no two calls share a temp
name, and a temp file a call owns is its copy: what the rename installs). `CountLimit` needs `CountInv`, which adds the handles that have counted and not
yet renamed to the number of files, and mutual exclusion from `LockInv`.
`AddIsAtomic` is the refinement of `AtomicStore` under `OneHandle`,
`~SourceMayChange` and `TicksDiffer`: `SeenInv` says that what the holder has seen, room and no
file of that name, still holds at the rename, since others can only remove.
`TempsAccounted` needs neither: it is inductive with `CallInv`, also when calls share a temp
name: an action that ends a call has removed or renamed the temp file of that name or has
entered it in `leaked`, and no action changes another call's temp name.

**SyncProofs.** `IInv` is `TypeOK`, `AwaitInv` (a push in its notify stage has imported
something; the offer it awaits is in progress, its own, and still wanted), `AddressInv`
(no push has its own device among its peers, and the two ends of a task differ),
`WantedServed` and `ExportInv` (a task has a file exported exactly between its export and its
end, and it is what the task was offered if nonces differ). `WantedServed` is the converse of `AwaitInv`, and needs
`AddressInv`: the death of a task's receiver must not be that of its sender. The lemmas
`TaskKept` and `WaitingStays` carry it: a task stays the same file between the same devices,
and a push that waits for an ack changes only when the ack comes, the time is over, or
its process dies. `NothingComesBack` shows for each action that every copy after
it was a copy before it, or what a user has just written. It and `FoldersShared` assume
`NoncesDiffer`, which the code does not ensure; `Invariant` and `OffersServed` do not. `FoldersShared` is the
refinement of `SharedFolder`: `UserWrite`, `UserRemove`, `Import`, `OfferFails`, `Offer` and `Install`
are its `Write`, `Remove`, `Read`, `PassOver`, `Offer` and `Receive`, and every other step of a
watcher, a task or a dying process leaves each copy being sent and each offer as it
is or ends it (`GiveUpStep`). `Read` needs `AddressInv`; `AwaitInv` says that there is
a content to offer, and a task where a push waits for an ack.

**RendezvousProofs.** `IInv` is `TypeOK`, `EmailsDiffer`, `SessionOwners`, `OwnersOnly`,
`RequestInv` (what a handler has read of its account still holds), `IssuedInv`
(the next token is new to every map and client) and `PruneInv` (the cutoff
`prune_task` has computed is not ahead of the clock's). The lemma `AccountsStay`
carries it: but for `Dies` no step takes an account, its owner or its
approval away. `PhoneBookImplemented` maps `SignupInserts` to `Own`, `Register` to
`Enroll` with a time that may have passed, `Deregister` to `Leave`, `PruneRegistry`
to `Forget` with a cutoff that may have passed, and most other steps to stutters.
The book's `leaving` is the set of removals that wait for the registry's lock
(`Leaving`): without it a node that `prune_task` drops too early could pass for one
its owner removed. The book's `up` is the server's: without it the same could pass
for a crash. Most lemmas are about `Step`, a step of the running server without `up`.
`NothingElseStrands` makes no assumption about who hangs up. It is proved from `VerifyInv`
beside `IInv`: a pending account has a token to wait for, a signup's token is in
no map until that signup stores it, and a signup between its two locks has the very
token its account waits for. Without the last an account could wait for a
token that another signup stores. The lemma `VerifiableNext` then goes through the steps,
and only a `Cancel` of a request that carries the account's token is left over.

**WatcherProofs.** `IInv` is `TypeOK`, `StageInv` (where peers and paths are left and when the
timer exists), `TimeInv`, `AgeInv` (the record is no older than the last attempt) and
`ChangeInHand`. `RegistersInTime` alone is not inductive: a push may start late. `TimeInv`
adds to the time since the last attempt what the loop still awaits (`Remaining`, the
rest of this wait, of all that must follow it, and the pushes of the event's other
paths): while no tick is due the next one is in time, and once one is due the sum stays
below the interval, two answers of the server, the pushes of one event and one push for
each path preferred to the tick. The lemmas `RestBound` and `Progress` say that no step of
a push leaves more to await than the one before it. No constant is fixed, so the theorem
says what the program's own numbers give: 120 s, and 35 s and 150 s for each peer of every
push in between, which is within the TTL of 300 s only while no peer uses its time.
`ChangeInHand` is inductive with `TypeOK` and `StageInv`.

**DeviceProofs.** `LoginInv` says for each step of a login what is on disk: the temp file
holds its credentials from the write on, and is private before the rename; there
is no identity before the rename, and its own after. The identity is therefore
never replaced, and the token `login` saves is of its user.

**DjangoProofs.** `IInv` is `TypeOK`, `EmailsDiffer`, `SessionOwners`, `OwnersOnly`, `RequestInv` and
`PruneInv`. A view acts on a row it read some queries ago, and between two of them the
administrator may change its status; `RequestInv` says what cannot change: that the
account exists, who owns it, and that it has been approved once. `BlocksHold` shows that from
`ShutOut` on only `Approve` makes the account anything but blocked: nobody can start to
verify it or to enter a node, and nobody has started. `PhoneBookImplemented` maps
`SignupInserts` to `Own`, `Upsert` to `Enroll`, `Authenticate` of a removal to `Ask`, `Remove` to
`Leave`, `PruneRegistry` to `Forget`, and `Dies` to a death of the book that keeps the
owners.

## 7. Only model-checked

Liveness (`PushEnds`, `Converges`, `ExpiredForgotten`, `NotifyResumes`, `StopEnds`,
`BlockedForgotten`) is beyond the prover: these are properties under fairness, and what a
fair step can do is a question of ENABLED. Every other property of a passing run is
proved.

## 8. Not modelled

The send and receive directories. `push` and `pull` keep their blob stores in directories
named by the process id and the nanoseconds within the second (`sync.rs:455`), which a
thread of their own removes afterwards. `Sync` takes those that overlap to be different,
also where the paths of exports are not; a shared one would be a blob store that is
locked, or that goes away under a pull, which is a `PullFails` or an `ImportFails`.

Not modelled: the framing of messages (`write_msg`, `read_msg`: a length and JSON; what does
not parse is a failed offer or task in `Sync`); changes made while a device is down, which
nothing promises to send; the forms of Django's administration, which can change or
delete anything, and its actions on several accounts at once; a second `login` while one
runs on the same device.

Not planned: iroh, QUIC, Argon2, HTTP and JSON (libraries), the derivation of
keys (a pure function of a library), Django's settings and migration, build
files and containers.
