-------------------------- MODULE DjangoRendezvous --------------------------
(***************************************************************************)
(* The rendezvous server of src/rendezvous-py: the same requests as the    *)
(* Rust server, with accounts and sessions in a database that survives a   *)
(* restart, the registry of nodes in memory, and an administrator who      *)
(* approves and blocks accounts.                                           *)
(*                                                                         *)
(* runserver answers every request in a thread of its own.  A view is one  *)
(* action for each query and for each time it takes the registry's lock;   *)
(* ATOMIC_REQUESTS is not set, so every query commits on its own and other *)
(* views run between two of them.  A request that is refused before it     *)
(* has read anything it keeps is no step.                                  *)
(***************************************************************************)
EXTENDS Naturals

CONSTANTS
    Clients,        \* programs that send requests, one at a time each
    People,
    PersonOf,       \* whose program a client is: the passwords it knows
    Users,          \* usernames
    Emails,
    Nodes,
    PeerTtl,        \* PEER_TTL_SECS
    SessionTtl,     \* SESSION_TOKEN_TTL_SECS
    AutoApprove,    \* AUTO_APPROVE_USERS
    MayRestart,     \* TRUE: the server may die and be started again
    MaxTime,        \* bound: the clock
    None

(* vtoken: whether the account has a verification token, and whether the   *)
(* mail with its link has been sent.                                       *)
Account == [owner : People, email : Emails,
            status : {"pending", "approved", "blocked"},
            vtoken : {"none", "unsent", "sent"}]
Session == [user : Users, expires : 0 .. MaxTime + SessionTtl]
Record == [seen : 0 .. MaxTime, by : People]

(* What a view has read and carries to its next query or lock.             *)
Signup == [op : {"signup"}, at : {"email", "insert", "mail"}, user : Users,
           email : Emails]
Visit == [op : {"verify", "login"}, user : Users]
Listing == [op : {"register", "deregister"}, at : {"admitted", "registry"},
            user : Users, node : Nodes, seen : 0 .. MaxTime]
Request == Signup \cup Visit \cup Listing

ASSUME DjangoAssumption ==
    /\ PersonOf \in [Clients -> People]
    /\ PeerTtl \in Nat /\ SessionTtl \in Nat /\ MaxTime \in Nat
    /\ {AutoApprove, MayRestart} \subseteq BOOLEAN
    /\ None \notin People \cup Account \cup Session \cup Record \cup Request \cup Nat

VARIABLES
    users,      \* UserAccount: the account of each username, or None
    token,      \* the session of the token each client has stored, or None
    registry,   \* _registry: the record of each node of each username, or None
    req,        \* the request each client waits for, or None
    prune,      \* the cutoff the prune thread waits for the lock with, or None
    now,
    up          \* whether the server is running

database == <<users, token>>
data == <<users, token, registry, req, prune, now>>
vars == <<data, up>>

NoRecords == [u \in Users |-> [n \in Nodes |-> None]]

Init == /\ users = [u \in Users |-> None]
        /\ token = [c \in Clients |-> None]
        /\ registry = NoRecords
        /\ req = [c \in Clients |-> None]
        /\ prune = None
        /\ now = 0
        /\ up = TRUE

Is(u, status) == users[u] # None /\ users[u].status = status
Reached(u) == users[u] # None /\ users[u].status # "pending"

(* A record is live while last_seen >= _now() - PEER_TTL_SECS.             *)
Cutoff == IF now > PeerTtl THEN now - PeerTtl ELSE 0

Doing(c, op) == req[c] # None /\ req[c].op = op
At(c, op, at) == Doing(c, op) /\ req[c].at = at

Continue(c, r) == req' = [req EXCEPT ![c] = r]
Reply(c) == Continue(c, None)

-----------------------------------------------------------------------------
(* POST /auth/signup                                                       *)

EmailTaken(e) == \E u \in Users : users[u] # None /\ users[u].email = e

SignupUser(c, u, e) ==
    /\ req[c] = None
    /\ users[u] = None
    /\ Continue(c, [op |-> "signup", at |-> "email", user |-> u, email |-> e])
    /\ UNCHANGED <<database, registry, prune, now>>

SignupEmail(c) ==
    /\ At(c, "signup", "email")
    /\ IF EmailTaken(req[c].email) THEN Reply(c)
       ELSE Continue(c, [req[c] EXCEPT !.at = "insert"])
    /\ UNCHANGED <<database, registry, prune, now>>

Insert(c) ==
    /\ users' = [users EXCEPT ![req[c].user] =
                   [owner |-> PersonOf[c], email |-> req[c].email,
                    status |-> IF AutoApprove THEN "approved" ELSE "pending",
                    vtoken |-> IF AutoApprove THEN "none" ELSE "unsent"]]
    /\ IF AutoApprove THEN Reply(c)
       ELSE Continue(c, [req[c] EXCEPT !.at = "mail"])
    /\ UNCHANGED <<token, registry, prune, now>>

(* What the two queries found may be so no longer; the columns are unique  *)
(* and the database refuses the row.  (Mutants: one of them is not.)       *)
SignupInsertsAnyEmail(c) == /\ At(c, "signup", "insert")
                            /\ users[req[c].user] = None
                            /\ Insert(c)

SignupInsertsAnyUser(c) == /\ At(c, "signup", "insert")
                           /\ ~EmailTaken(req[c].email)
                           /\ Insert(c)

SignupInserts(c) == /\ At(c, "signup", "insert")
                    /\ users[req[c].user] = None /\ ~EmailTaken(req[c].email)
                    /\ Insert(c)

(* The mail goes out while the view waits in send_mail, or it does not:    *)
(* a failure is logged and the account stays.  Whatever happens to the     *)
(* view then, a mail that is out stays out.                                *)
SignupMails(c) ==
    /\ At(c, "signup", "mail")
    /\ users[req[c].user].vtoken = "unsent"
    /\ users' = [users EXCEPT ![req[c].user].vtoken = "sent"]
    /\ UNCHANGED <<token, registry, req, prune, now>>

SignupEnds(c) == /\ At(c, "signup", "mail")
                 /\ Reply(c)
                 /\ UNCHANGED <<database, registry, prune, now>>

-----------------------------------------------------------------------------
(* GET /auth/verify/<token>                                                *)

(* (Mutant: the account is looked up by its token alone.)                  *)
VerifyReadsAnyStatus(c, u) ==
    /\ req[c] = None
    /\ users[u] # None /\ users[u].vtoken = "sent"
    /\ Continue(c, [op |-> "verify", user |-> u])
    /\ UNCHANGED <<database, registry, prune, now>>

VerifyReads(c, u) ==
    /\ req[c] = None
    /\ Is(u, "pending") /\ users[u].vtoken = "sent"
    /\ Continue(c, [op |-> "verify", user |-> u])
    /\ UNCHANGED <<database, registry, prune, now>>

(* The two columns are written, whatever has become of the account.        *)
VerifySaves(c) ==
    /\ Doing(c, "verify")
    /\ users' = [users EXCEPT ![req[c].user].status = "approved",
                              ![req[c].user].vtoken = "none"]
    /\ Reply(c)
    /\ UNCHANGED <<token, registry, prune, now>>

-----------------------------------------------------------------------------
(* POST /auth/login                                                        *)

(* The account is read and the password checked against what was read.     *)
(* (Mutant: a pending account may log in.)                                 *)
LoginReadsAnyStatus(c, u) ==
    /\ req[c] = None
    /\ users[u] # None /\ users[u].owner = PersonOf[c]
    /\ Continue(c, [op |-> "login", user |-> u])
    /\ UNCHANGED <<database, registry, prune, now>>

LoginReads(c, u) ==
    /\ req[c] = None
    /\ Is(u, "approved") /\ users[u].owner = PersonOf[c]
    /\ Continue(c, [op |-> "login", user |-> u])
    /\ UNCHANGED <<database, registry, prune, now>>

(* _create_session_token.  A row is never removed: a client's token stands *)
(* for the row it opens.  (Mutant: the TTL is added twice.)                *)
LoginCreatesTwoTtls(c) ==
    /\ Doing(c, "login")
    /\ token' = [token EXCEPT ![c] =
                   [user |-> req[c].user, expires |-> now + 2 * SessionTtl]]
    /\ Reply(c)
    /\ UNCHANGED <<users, registry, prune, now>>

LoginCreates(c) ==
    /\ Doing(c, "login")
    /\ token' = [token EXCEPT ![c] =
                   [user |-> req[c].user, expires |-> now + SessionTtl]]
    /\ Reply(c)
    /\ UNCHANGED <<users, registry, prune, now>>

-----------------------------------------------------------------------------
(* POST and DELETE /register                                               *)

(* _authenticate is one query, of the session joined with its account.     *)
(* The username of the request is the client's affair.  (Mutants: the      *)
(* status is not asked for; the usernames are not compared.)               *)
Unexpired(c) == token[c] # None /\ token[c].expires > now

Admit(c, op, u, n) ==
    /\ req[c] = None
    /\ Continue(c, [op |-> op, at |-> "admitted", user |-> u, node |-> n,
                    seen |-> 0])
    /\ UNCHANGED <<database, registry, prune, now>>

AuthenticateAnyStatus(c, op, u, n) ==
    Unexpired(c) /\ u = token[c].user /\ Admit(c, op, u, n)

AuthenticateAnyName(c, op, u, n) ==
    Unexpired(c) /\ Is(token[c].user, "approved") /\ Admit(c, op, u, n)

Authenticate(c, op, u, n) ==
    /\ Unexpired(c) /\ Is(token[c].user, "approved")
    /\ u = token[c].user
    /\ Admit(c, op, u, n)

(* upsert takes the time before it takes the lock.                         *)
Stamp(c) ==
    /\ At(c, "register", "admitted")
    /\ Continue(c, [req[c] EXCEPT !.at = "registry", !.seen = now])
    /\ UNCHANGED <<database, registry, prune, now>>

Upsert(c) ==
    /\ At(c, "register", "registry")
    /\ registry' = [registry EXCEPT ![req[c].user][req[c].node] =
                      [seen |-> req[c].seen, by |-> PersonOf[c]]]
    /\ Reply(c)
    /\ UNCHANGED <<database, prune, now>>

Remove(c) ==
    /\ At(c, "deregister", "admitted")
    /\ registry' = [registry EXCEPT ![req[c].user][req[c].node] = None]
    /\ Reply(c)
    /\ UNCHANGED <<database, prune, now>>

(* GET /peers: what peers_view answers for u.                              *)
Peers(u) == {n \in Nodes : registry[u][n] # None /\ registry[u][n].seen >= Cutoff}

(* A query fails (a unique column, a locked database), or the body lacks a *)
(* field: the view raises, and what it has not done yet is not done.       *)
Fails(c) == /\ req[c] # None
            /\ Reply(c)
            /\ UNCHANGED <<database, registry, prune, now>>

-----------------------------------------------------------------------------
(* The administrator's actions, each one UPDATE of the account whatever    *)
(* its status.  block_accounts leaves the verification token.              *)

Approve(u) == /\ users[u] # None
              /\ users' = [users EXCEPT ![u].status = "approved",
                                        ![u].vtoken = "none"]
              /\ UNCHANGED <<token, registry, req, prune, now>>

Block(u) == /\ users[u] # None
            /\ users' = [users EXCEPT ![u].status = "blocked"]
            /\ UNCHANGED <<token, registry, req, prune, now>>

-----------------------------------------------------------------------------
(* The prune thread                                                        *)

PruneWakes == /\ prune = None
              /\ prune' = Cutoff
              /\ UNCHANGED <<database, registry, req, now>>

PruneRegistry ==
    /\ prune # None
    /\ registry' = [u \in Users |-> [n \in Nodes |->
                      IF registry[u][n] # None /\ registry[u][n].seen < prune
                      THEN None ELSE registry[u][n]]]
    /\ prune' = None
    /\ UNCHANGED <<database, req, now>>

-----------------------------------------------------------------------------

Tick == /\ now < MaxTime
        /\ now' = now + 1
        /\ UNCHANGED <<database, registry, req, prune, up>>

(* The database keeps what has been committed; the registry was in memory. *)
Dies == /\ MayRestart
        /\ up /\ up' = FALSE
        /\ registry' = NoRecords
        /\ req' = [c \in Clients |-> None]
        /\ prune' = None
        /\ UNCHANGED <<database, now>>

Starts == ~up /\ up' = TRUE /\ UNCHANGED data

Arrival(c) == \/ \E u \in Users, e \in Emails : SignupUser(c, u, e)
              \/ \E u \in Users : VerifyReads(c, u) \/ LoginReads(c, u)
              \/ \E op \in {"register", "deregister"}, u \in Users, n \in Nodes :
                    Authenticate(c, op, u, n)

View(c) == \/ SignupEmail(c)
           \/ SignupInserts(c)
           \/ SignupMails(c)
           \/ SignupEnds(c)
           \/ VerifySaves(c)
           \/ LoginCreates(c)
           \/ Stamp(c)
           \/ Upsert(c)
           \/ Remove(c)
           \/ Fails(c)

PruneStep == up /\ UNCHANGED up /\ (PruneWakes \/ PruneRegistry)

(* The administrator's pages are served by the same process.               *)
Served == \/ \E c \in Clients : Arrival(c) \/ View(c)
          \/ \E u \in Users : Approve(u) \/ Block(u)

Next == \/ up /\ UNCHANGED up /\ Served
        \/ PruneStep
        \/ Tick
        \/ Dies
        \/ Starts

Spec == Init /\ [][Next]_vars

(* The prune thread sleeps a fixed time, catches what its task raises and  *)
(* never ends.                                                             *)
FairSpec == Spec /\ WF_vars(PruneStep)

-----------------------------------------------------------------------------

TypeOK == /\ users \in [Users -> Account \cup {None}]
          /\ token \in [Clients -> Session \cup {None}]
          /\ registry \in [Users -> [Nodes -> Record \cup {None}]]
          /\ req \in [Clients -> Request \cup {None}]
          /\ prune \in 0 .. MaxTime \cup {None}
          /\ now \in 0 .. MaxTime
          /\ up \in BOOLEAN

(* An email address belongs to one account, however many signups looked    *)
(* for it at the same time and did not find it.                            *)
EmailsDiffer == \A u, v \in Users :
                   users[u] # None /\ users[v] # None /\ users[u].email = users[v].email
                      => u = v

(* A token opens a session of an account that has been approved, and only  *)
(* the programs of the account's owner hold one: across restarts, which    *)
(* keep both, and while the account is blocked.                            *)
SessionOwners == \A c \in Clients : token[c] # None =>
                    /\ Reached(token[c].user)
                    /\ users[token[c].user].owner = PersonOf[c]

(* Whatever is registered under a username was registered by the owner of  *)
(* the account with that username: _authenticate and the comparison after  *)
(* it (views.py:190-191, 206-207).  README.md:18-20 still says "No         *)
(* authentication -- any client can register any username".                *)
OwnersOnly == \A u \in Users, n \in Nodes : registry[u][n] # None =>
                 users[u] # None /\ registry[u][n].by = users[u].owner

(* A blocked account that no view has read while it was not: none is about *)
(* to verify it or to enter a node under it.                               *)
ShutOut(u) ==
    /\ Is(u, "blocked")
    /\ ~\E c \in Clients : /\ Doing(c, "verify") \/ Doing(c, "register")
                           /\ req[c].user = u

(* Once a block has taken effect it holds, and nothing is registered under *)
(* the username, until the administrator approves the account: not the old *)
(* verification link, not a token from before, not a restart.              *)
BlockHolds ==
    [][\A u \in Users : ShutOut(u) =>
          \/ Approve(u)
          \/ /\ ShutOut(u)'
             /\ \A n \in Nodes : registry'[u][n] \in {registry[u][n], None}]_vars

(* The nodes of a blocked account, whose programs still hold their tokens  *)
(* and go on asking, are all forgotten unless it is approved again.        *)
(* (Time: the clock has reached its bound, so that TTLs are over.)         *)
BlockedForgotten ==
    \A u \in Users : ShutOut(u) /\ Peers(u) = {}
                        ~> registry[u] = [n \in Nodes |-> None] \/ ~Is(u, "blocked")

(* Who is about to remove a node: his request has been admitted.           *)
Leaving == {<<PersonOf[c], req[c].user, req[c].node>> :
              c \in {d \in Clients : At(d, "deregister", "admitted")}}

(* This server implements the same phone book as the Rust one, a durable   *)
(* one: it forgets the entries, and not the owners, when it restarts.      *)
Book == INSTANCE PhoneBook WITH
    owner <- [u \in Users |-> IF users[u] = None THEN None ELSE users[u].owner],
    book <- registry,
    leaving <- Leaving,
    Durable <- TRUE

ImplementsPhoneBook == Book!Spec

-----------------------------------------------------------------------------

(* What makes the invariants inductive.  What a view has read about an     *)
(* account may change before its next query, but the account, its owner    *)
(* and that it has been approved once do not.                              *)
RequestInv ==
    \A c \in Clients : req[c] # None =>
        /\ req[c].op = "signup" /\ req[c].at = "mail" => users[req[c].user] # None
        /\ req[c].op = "verify" => users[req[c].user] # None
        /\ req[c].op \in {"login", "register", "deregister"} =>
             Reached(req[c].user) /\ users[req[c].user].owner = PersonOf[c]
        /\ req[c].op \in {"register", "deregister"} => req[c].seen <= now

(* While the prune thread waits for the lock its cutoff only gets older.   *)
PruneInv == prune # None => prune <= Cutoff

IInv == /\ TypeOK
        /\ EmailsDiffer
        /\ SessionOwners
        /\ OwnersOnly
        /\ RequestInv
        /\ PruneInv
=============================================================================
