----------------------------- MODULE Rendezvous -----------------------------
(***************************************************************************)
(* The rendezvous server of src/rendezvous/src/main.rs: accounts, their    *)
(* verification, sessions and the registry of nodes, each a map behind a   *)
(* lock of its own.                                                        *)
(*                                                                         *)
(* No handler holds two locks at once.  A handler is one action for each   *)
(* lock it takes, and between two of them other handlers, the pruning      *)
(* task and the clock go on, and the handler may be dropped because its    *)
(* client has hung up.  A request that is refused before it changes        *)
(* anything is no step.                                                    *)
(*                                                                         *)
(* generate_token is 256 random bits: a token never repeats, and nobody    *)
(* knows one he was not given.  Tokens are numbered as they are generated. *)
(***************************************************************************)
EXTENDS Naturals

CONSTANTS
    Clients,        \* programs that send requests, one at a time each
    People,
    PersonOf,       \* whose program a client is: the passwords it knows
    Users,          \* usernames
    Emails,
    Nodes,
    PeerTtl,        \* PEER_TTL_SECS
    SessionTtl,     \* SESSION_TTL_SECS
    AutoApprove,    \* AUTO_APPROVE_USERS
    Hasty,          \* the clients that may hang up
    MayRestart,     \* TRUE: the server may die and be started again
    MaxTime,        \* bound: the clock
    MaxTokens,      \* bound: tokens generated
    None

Tokens == 1 .. MaxTokens

Account == [owner : People, email : Emails, status : {"pending", "approved"},
            vtoken : Tokens \cup {None}]
Session == [user : Users, expires : Nat]
Record == [seen : 0 .. MaxTime, by : People]

(* A handler that has released its first lock, or has not yet taken it.    *)
Signup == [op : {"signup"}, at : {"insert", "token"}, user : Users,
           email : Emails, vtoken : Tokens \cup {None}]
Visit == [op : {"verify", "login"}, user : Users]
Listing == [op : {"register", "deregister"}, at : {"users", "registry"},
            as : Users, user : Users, node : Nodes, seen : 0 .. MaxTime]
Request == Signup \cup Visit \cup Listing

Prune == [at : {"asleep", "registry", "sessions"}, time : 0 .. MaxTime]

ASSUME RendezvousAssumption ==
    /\ PersonOf \in [Clients -> People]
    /\ PeerTtl \in Nat /\ SessionTtl \in Nat
    /\ MaxTime \in Nat /\ MaxTokens \in Nat
    /\ Hasty \subseteq Clients
    /\ {AutoApprove, MayRestart} \subseteq BOOLEAN
    /\ None \notin People \cup Users \cup Tokens \cup Account \cup Session
                    \cup Record \cup Request

VARIABLES
    users,      \* the account of each username, or None
    verify,     \* verify_tokens: the username of each token, or None
    sessions,   \* the session of each token, or None
    registry,   \* the record of each node under each username, or None
    req,        \* the request each client waits for, or None
    token,      \* the session token each client has stored, or None
    prune,      \* where prune_task is, and the time it has computed
    issued,     \* the number of tokens generated so far
    now,        \* now_secs()
    up          \* whether the server is running

data == <<users, verify, sessions, registry, req, token, prune, issued, now>>
vars == <<data, up>>

NoTokens == [t \in Tokens |-> None]
NoRecords == [u \in Users |-> [n \in Nodes |-> None]]
Asleep == [at |-> "asleep", time |-> 0]

Init == /\ users = [u \in Users |-> None]
        /\ verify = NoTokens
        /\ sessions = NoTokens
        /\ registry = NoRecords
        /\ req = [c \in Clients |-> None]
        /\ token = [c \in Clients |-> None]
        /\ prune = Asleep
        /\ issued = 0
        /\ now = 0
        /\ up = TRUE

Cutoff == IF now > PeerTtl THEN now - PeerTtl ELSE 0

Continue(c, r) == req' = [req EXCEPT ![c] = r]
Reply(c) == Continue(c, None)

-----------------------------------------------------------------------------
(* POST /auth/signup                                                       *)

(* The password is hashed and the verification token generated.            *)
SignupArrives(c, u, e) ==
    /\ req[c] = None
    /\ AutoApprove \/ issued < MaxTokens
    /\ issued' = IF AutoApprove THEN issued ELSE issued + 1
    /\ Continue(c, [op |-> "signup", at |-> "insert", user |-> u, email |-> e,
                    vtoken |-> IF AutoApprove THEN None ELSE issued + 1])
    /\ UNCHANGED <<users, verify, sessions, registry, token, prune, now>>

At(c, op, at) == req[c] # None /\ req[c].op = op /\ req[c].at = at

EmailTaken(e) == \E u \in Users : users[u] # None /\ users[u].email = e

Insert(c) ==
    /\ users' = [users EXCEPT ![req[c].user] =
                   [owner |-> PersonOf[c], email |-> req[c].email,
                    status |-> IF AutoApprove THEN "approved" ELSE "pending",
                    vtoken |-> req[c].vtoken]]
    /\ IF AutoApprove THEN Reply(c)
       ELSE Continue(c, [req[c] EXCEPT !.at = "token"])
    /\ UNCHANGED <<verify, sessions, registry, token, prune, issued, now>>

(* Both checks and the insertion under one write lock.  (Mutants: the      *)
(* email, or the username, was looked for before the lock was taken.)      *)
SignupInsertsEmailUnchecked(c) ==
    /\ At(c, "signup", "insert")
    /\ users[req[c].user] = None
    /\ Insert(c)

SignupInsertsUserUnchecked(c) ==
    /\ At(c, "signup", "insert")
    /\ ~EmailTaken(req[c].email)
    /\ Insert(c)

SignupInserts(c) ==
    /\ At(c, "signup", "insert")
    /\ users[req[c].user] = None /\ ~EmailTaken(req[c].email)
    /\ Insert(c)

SignupRefused(c) ==
    /\ At(c, "signup", "insert")
    /\ users[req[c].user] # None \/ EmailTaken(req[c].email)
    /\ Reply(c)
    /\ UNCHANGED <<users, verify, sessions, registry, token, prune, issued, now>>

(* The token gets into verify_tokens, under that map's lock.  (Mutant: it  *)
(* is forgotten.)                                                          *)
SignupForgetsToken(c) ==
    /\ At(c, "signup", "token")
    /\ Reply(c)
    /\ UNCHANGED <<users, verify, sessions, registry, token, prune, issued, now>>

SignupStoresToken(c) ==
    /\ At(c, "signup", "token")
    /\ verify' = [verify EXCEPT ![req[c].vtoken] = req[c].user]
    /\ Reply(c)
    /\ UNCHANGED <<users, sessions, registry, token, prune, issued, now>>

-----------------------------------------------------------------------------
(* GET /auth/verify/:token                                                 *)

(* (Mutant: the username is looked up when the token has been removed.)    *)
VerifyTakesAndLooks(c, t) ==
    /\ req[c] = None
    /\ verify[t] # None
    /\ verify' = [verify EXCEPT ![t] = None]
    /\ Continue(c, [op |-> "verify", user |-> verify'[t]])
    /\ UNCHANGED <<users, sessions, registry, token, prune, issued, now>>

VerifyTakes(c, t) ==
    /\ req[c] = None
    /\ verify[t] # None
    /\ verify' = [verify EXCEPT ![t] = None]
    /\ Continue(c, [op |-> "verify", user |-> verify[t]])
    /\ UNCHANGED <<users, sessions, registry, token, prune, issued, now>>

(* An account that is not pending is left as it is.                        *)
VerifyApproves(c) ==
    /\ req[c] # None /\ req[c].op = "verify"
    /\ users' = [users EXCEPT ![req[c].user] =
                   IF @ # None /\ @.status = "pending"
                   THEN [@ EXCEPT !.status = "approved", !.vtoken = None]
                   ELSE @]
    /\ Reply(c)
    /\ UNCHANGED <<verify, sessions, registry, token, prune, issued, now>>

-----------------------------------------------------------------------------
(* POST /auth/login                                                        *)

(* Hash and status are read; the password is verified after the lock has   *)
(* been released.  (Mutant: a pending account may log in.)                 *)
LoginReadsAnyStatus(c, u) ==
    /\ req[c] = None
    /\ users[u] # None /\ users[u].owner = PersonOf[c]
    /\ Continue(c, [op |-> "login", user |-> u])
    /\ UNCHANGED <<users, verify, sessions, registry, token, prune, issued, now>>

LoginReads(c, u) ==
    /\ req[c] = None
    /\ users[u] # None /\ users[u].owner = PersonOf[c]
    /\ users[u].status = "approved"
    /\ Continue(c, [op |-> "login", user |-> u])
    /\ UNCHANGED <<users, verify, sessions, registry, token, prune, issued, now>>

(* The session is stored; the client stores the token it gets, unless it   *)
(* has hung up by then.                                                    *)
LoginStores(c, delivered) ==
    /\ req[c] # None /\ req[c].op = "login"
    /\ issued < MaxTokens
    /\ delivered \/ c \in Hasty
    /\ issued' = issued + 1
    /\ sessions' = [sessions EXCEPT ![issued + 1] =
                      [user |-> req[c].user, expires |-> now + SessionTtl]]
    /\ token' = IF delivered THEN [token EXCEPT ![c] = issued + 1] ELSE token
    /\ Reply(c)
    /\ UNCHANGED <<users, verify, registry, prune, now>>

-----------------------------------------------------------------------------
(* POST and DELETE /register                                               *)

(* authenticate looks the client's token up among the sessions.  The       *)
(* username and node of the request are the client's affair: they come     *)
(* from its identity file, which another login may have replaced.          *)
AuthSession(c, op, u, n) ==
    /\ req[c] = None
    /\ token[c] # None
    /\ sessions[token[c]] # None /\ sessions[token[c]].expires >= now
    /\ Continue(c, [op |-> op, at |-> "users", as |-> sessions[token[c]].user,
                    user |-> u, node |-> n, seen |-> 0])
    /\ UNCHANGED <<users, verify, sessions, registry, token, prune, issued, now>>

Checking(c) == /\ req[c] # None /\ req[c].op \in {"register", "deregister"}
               /\ req[c].at = "users"

Admitted(c) == /\ Checking(c)
               /\ Continue(c, [req[c] EXCEPT !.at = "registry", !.seen =
                                 IF req[c].op = "register" THEN now ELSE 0])
               /\ UNCHANGED <<users, verify, sessions, registry, token, prune,
                              issued, now>>

Approved(u) == users[u] # None /\ users[u].status = "approved"

(* Then it looks at the account, and the handler compares the usernames    *)
(* and takes the time.  (Mutant: the usernames are not compared.)          *)
AuthUserAnyName(c) == Checking(c) /\ Approved(req[c].as) /\ Admitted(c)

AuthUser(c) == /\ Checking(c)
               /\ Approved(req[c].as) /\ req[c].as = req[c].user
               /\ Admitted(c)

AuthRefused(c) == /\ Checking(c)
                  /\ ~Approved(req[c].as) \/ req[c].as # req[c].user
                  /\ Reply(c)
                  /\ UNCHANGED <<users, verify, sessions, registry, token,
                                 prune, issued, now>>

(* The record with the node's id is replaced, or a new one pushed; last_   *)
(* seen is the time from before the wait for the lock.                     *)
Register(c) ==
    /\ At(c, "register", "registry")
    /\ registry' = [registry EXCEPT ![req[c].user][req[c].node] =
                      [seen |-> req[c].seen, by |-> PersonOf[c]]]
    /\ Reply(c)
    /\ UNCHANGED <<users, verify, sessions, token, prune, issued, now>>

Deregister(c) ==
    /\ At(c, "deregister", "registry")
    /\ registry' = [registry EXCEPT ![req[c].user][req[c].node] = None]
    /\ Reply(c)
    /\ UNCHANGED <<users, verify, sessions, token, prune, issued, now>>

(* The client hangs up: its handler is dropped where it waits for a lock.  *)
Cancel(c) ==
    /\ c \in Hasty
    /\ req[c] # None
    /\ Reply(c)
    /\ UNCHANGED <<users, verify, sessions, registry, token, prune, issued, now>>

(* GET /peers: what handle_peers answers for u.                            *)
Peers(u) == {n \in Nodes : registry[u][n] # None /\ registry[u][n].seen >= Cutoff}

-----------------------------------------------------------------------------
(* prune_task                                                              *)

(* (Mutants: the wrong TTL; no TTL.)                                       *)
PruneWakesAt(t) == /\ prune.at = "asleep"
                   /\ prune' = [at |-> "registry", time |-> t]
                   /\ UNCHANGED <<users, verify, sessions, registry, req, token,
                                  issued, now>>

PruneWakesSessionTtl ==
    PruneWakesAt(IF now > SessionTtl THEN now - SessionTtl ELSE 0)
PruneWakesNoTtl == PruneWakesAt(now)

PruneWakes == PruneWakesAt(Cutoff)

PruneRegistry ==
    /\ prune.at = "registry"
    /\ registry' = [u \in Users |-> [n \in Nodes |->
                      IF registry[u][n] # None /\ registry[u][n].seen < prune.time
                      THEN None ELSE registry[u][n]]]
    /\ prune' = [at |-> "sessions", time |-> now]
    /\ UNCHANGED <<users, verify, sessions, req, token, issued, now>>

RemoveSessions(dead) ==
    /\ prune.at = "sessions"
    /\ sessions' = [t \in Tokens |-> IF t \in dead THEN None ELSE sessions[t]]
    /\ prune' = Asleep
    /\ UNCHANGED <<users, verify, registry, req, token, issued, now>>

(* (Mutant: sessions are pruned when they are as old as PEER_TTL_SECS.)    *)
PruneSessionsPeerTtl ==
    RemoveSessions({t \in Tokens : /\ sessions[t] # None
                                   /\ sessions[t].expires + PeerTtl
                                        <= prune.time + SessionTtl})

PruneSessions ==
    RemoveSessions({t \in Tokens : /\ sessions[t] # None
                                   /\ sessions[t].expires <= prune.time})

PruneStep == /\ up /\ UNCHANGED up
             /\ PruneWakes \/ PruneRegistry \/ PruneSessions

-----------------------------------------------------------------------------

Tick == /\ now < MaxTime
        /\ now' = now + 1
        /\ UNCHANGED <<users, verify, sessions, registry, req, token, prune,
                       issued, up>>

(* Nothing is stored on disk.  Clients keep their tokens.                  *)
Dies == /\ MayRestart
        /\ up /\ up' = FALSE
        /\ users' = [u \in Users |-> None]
        /\ verify' = NoTokens
        /\ sessions' = NoTokens
        /\ registry' = NoRecords
        /\ req' = [c \in Clients |-> None]
        /\ prune' = Asleep
        /\ UNCHANGED <<token, issued, now>>

Starts == ~up /\ up' = TRUE /\ UNCHANGED data

Handler(c) == \/ SignupInserts(c)
              \/ SignupRefused(c)
              \/ SignupStoresToken(c)
              \/ VerifyApproves(c)
              \/ \E delivered \in BOOLEAN : LoginStores(c, delivered)
              \/ AuthUser(c)
              \/ AuthRefused(c)
              \/ Register(c)
              \/ Deregister(c)
              \/ Cancel(c)

Arrival(c) == \/ \E u \in Users, e \in Emails : SignupArrives(c, u, e)
              \/ \E t \in Tokens : VerifyTakes(c, t)
              \/ \E u \in Users : LoginReads(c, u)
              \/ \E op \in {"register", "deregister"}, u \in Users, n \in Nodes :
                    AuthSession(c, op, u, n)

Next == \/ up /\ UNCHANGED up /\ \E c \in Clients : Arrival(c) \/ Handler(c)
        \/ PruneStep
        \/ Tick
        \/ Dies
        \/ Starts

Spec == Init /\ [][Next]_vars

(* prune_task sleeps a fixed time and its loop never ends.                 *)
FairSpec == Spec /\ WF_vars(PruneStep)

-----------------------------------------------------------------------------

TypeOK == /\ users \in [Users -> Account \cup {None}]
          /\ verify \in [Tokens -> Users \cup {None}]
          /\ sessions \in [Tokens -> Session \cup {None}]
          /\ registry \in [Users -> [Nodes -> Record \cup {None}]]
          /\ req \in [Clients -> Request \cup {None}]
          /\ token \in [Clients -> Tokens \cup {None}]
          /\ prune \in Prune
          /\ issued \in 0 .. MaxTokens
          /\ now \in 0 .. MaxTime
          /\ up \in BOOLEAN

(* An email address belongs to one account, and two signups at the same    *)
(* time cannot both get it.                                                *)
EmailsDiffer == \A u, v \in Users :
                   users[u] # None /\ users[v] # None /\ users[u].email = users[v].email
                      => u = v

(* A session is of an approved account, and the token that opens it is     *)
(* held only by the programs of the account's owner.                       *)
SessionOwners ==
    /\ \A t \in Tokens : sessions[t] # None => Approved(sessions[t].user)
    /\ \A c \in Clients : token[c] # None /\ sessions[token[c]] # None
          => users[sessions[token[c]].user].owner = PersonOf[c]

(* Whatever is registered under a username was registered by the owner of  *)
(* the account with that username: authenticate and the comparison after   *)
(* it (main.rs:404-405).  README.md:18-20 still says "No authentication -- *)
(* any client can register any username"; the code has moved on.           *)
OwnersOnly == \A u \in Users, n \in Nodes : registry[u][n] # None =>
                 /\ Approved(u)
                 /\ registry[u][n].by = users[u].owner

(* A request that has a verification token in its hands: on the way from   *)
(* the new account to verify_tokens, or from there to the account.         *)
Carries(c) == At(c, "signup", "token") \/ (req[c] # None /\ req[c].op = "verify")

Verifiable(u) == users[u] # None /\ users[u].status = "pending" =>
    \/ verify[users[u].vtoken] = u
    \/ \E c \in Clients : Carries(c) /\ req[c].user = u

(* A pending account can be verified, its token in verify_tokens or about  *)
(* to be used, from the moment it is there ("GET /auth/verify/:token --    *)
(* verify email address -> account approved", main.rs:8).  Only a client   *)
(* that hangs up while its own handler waits with the token between two    *)
(* locks takes that away, and then for good; no interleaving does.         *)
OnlyHangUpStrands ==
    [][\A u \in Users : Verifiable(u) =>
          \/ Verifiable(u)'
          \/ \E c \in Clients : Cancel(c) /\ Carries(c) /\ req[c].user = u]_vars

(* While the server runs a session is taken away only once it has expired. *)
(* (One that expires this second authenticate would still have accepted.)  *)
SessionsKept ==
    [][\A t \in Tokens : sessions[t] # None /\ sessions'[t] = None =>
          sessions[t].expires <= now \/ Dies]_vars

(* Who is about to remove a node: his request has passed authenticate and  *)
(* waits for the registry's lock.                                          *)
Leaving == {<<PersonOf[c], req[c].user, req[c].node>> :
              c \in {d \in Clients : At(d, "deregister", "registry")}}

(* The server implements the phone book, through all its interleavings:    *)
(* in particular a registered node stays listed until its own registration *)
(* is older than the TTL or its owner removes it.                          *)
Book == INSTANCE PhoneBook WITH
    owner <- [u \in Users |-> IF users[u] = None THEN None ELSE users[u].owner],
    book <- registry,
    leaving <- Leaving,
    Durable <- FALSE

ImplementsPhoneBook == Book!Spec

(* A record that has expired is forgotten in the end, or registered again. *)
ExpiredForgotten ==
    \A u \in Users, n \in Nodes :
        registry[u][n] # None /\ n \notin Peers(u)
           ~> registry[u][n] = None \/ n \in Peers(u)

-----------------------------------------------------------------------------

(* What makes them inductive.  What a handler has read about its account   *)
(* still holds when it takes its next lock, because accounts stay.         *)
RequestInv ==
    \A c \in Clients : req[c] # None =>
        /\ req[c].op = "login" =>
             Approved(req[c].user) /\ users[req[c].user].owner = PersonOf[c]
        /\ req[c].op \in {"register", "deregister"} =>
             /\ Approved(req[c].as) /\ users[req[c].as].owner = PersonOf[c]
             /\ req[c].at = "registry" => req[c].as = req[c].user
             /\ req[c].seen <= now

(* The next token is new to everybody.                                     *)
IssuedInv == /\ \A t \in Tokens : sessions[t] # None => t <= issued
             /\ \A c \in Clients : token[c] # None => token[c] <= issued

(* A verification token belongs to one signup and one account: it is new   *)
(* when it is generated, it is in verify_tokens only once its signup has   *)
(* put it there, and no other signup can bring the same one.               *)
Signing(c) == req[c] # None /\ req[c].op = "signup"

VerifyInv ==
    /\ \A u \in Users : users[u] # None /\ users[u].status = "pending"
          => users[u].vtoken # None
    /\ \A t \in Tokens : verify[t] # None => t <= issued
    /\ \A c \in Clients : Signing(c) =>
         /\ req[c].vtoken = None <=> AutoApprove
         /\ req[c].vtoken # None =>
              req[c].vtoken <= issued /\ verify[req[c].vtoken] = None
         /\ req[c].at = "token" =>
              /\ ~AutoApprove
              /\ users[req[c].user] # None
              /\ users[req[c].user].status = "pending"
                   => users[req[c].user].vtoken = req[c].vtoken
    /\ \A c, d \in Clients : c # d /\ Signing(c) /\ Signing(d)
          /\ req[c].vtoken # None => req[c].vtoken # req[d].vtoken

(* While prune_task waits for the lock its cutoff only gets older.         *)
PruneInv == /\ prune.at = "registry" => prune.time <= Cutoff
            /\ prune.at = "sessions" => prune.time <= now

IInv == /\ TypeOK
        /\ EmailsDiffer
        /\ SessionOwners
        /\ OwnersOnly
        /\ RequestInv
        /\ IssuedInv
        /\ PruneInv
=============================================================================
