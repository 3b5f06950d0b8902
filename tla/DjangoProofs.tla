---------------------------- MODULE DjangoProofs ----------------------------
(***************************************************************************)
(* Proofs about DjangoRendezvous, for any clients, usernames, nodes, TTLs  *)
(* and bounds, with an administrator, failing queries and restarts.        *)
(***************************************************************************)
EXTENDS DjangoRendezvous, TLAPS

USE DjangoAssumption

(* The view a request is in says which fields it has.                      *)
LEMMA Kinds ==
  ASSUME NEW r \in Request
  PROVE  /\ r.op = "signup" => r \in Signup
         /\ r.op \in {"verify", "login"} => r \in Visit
         /\ r.op \in {"register", "deregister"} => r \in Listing
BY DEF Request, Signup, Visit, Listing

(* A step, but for the start of the server, as the views see it: most      *)
(* lemmas need nothing of up.                                              *)
Step == \/ \E c \in Clients : Arrival(c) \/ View(c)
        \/ \E u \in Users : Approve(u) \/ Block(u)
        \/ PruneStep
        \/ Tick
        \/ Dies

Moves == [Step]_data /\ up' \in BOOLEAN

USE DEF Moves

LEMMA Steps == TypeOK /\ [Next]_vars => Moves
<1>1. TypeOK /\ [Next]_vars => up' \in BOOLEAN
  BY DEF Next, PruneStep, Tick, Dies, Starts, vars, TypeOK
<1>2. [Next]_vars => [Step]_data
  BY DEF Next, Served, Step, Starts, vars
<1> QED
  BY <1>1, <1>2

LEMMA InvInit == Init => IInv
<1> SUFFICES ASSUME Init PROVE IInv
  OBVIOUS
<1>1. TypeOK
  BY DEF Init, TypeOK, NoRecords
<1>2. EmailsDiffer /\ SessionOwners /\ OwnersOnly /\ RequestInv /\ PruneInv
  BY DEF Init, EmailsDiffer, SessionOwners, OwnersOnly, RequestInv, PruneInv,
         NoRecords
<1> QED
  BY <1>1, <1>2 DEF IInv

-----------------------------------------------------------------------------
(* The accounts.  A step leaves them, adds one, or sets columns of one.    *)

Adds(c, a) == /\ SignupInserts(c)
              /\ users' = [users EXCEPT ![req[c].user] = a]
              /\ a.owner = PersonOf[c] /\ a.email = req[c].email

Sets(u, a) == /\ users[u] # None
              /\ users' = [users EXCEPT ![u] = a]
              /\ a.owner = users[u].owner /\ a.email = users[u].email
              /\ a.status = "pending" => users[u].status = "pending"

LEMMA InsertAdds ==
  ASSUME TypeOK, NEW c \in Clients, SignupInserts(c)
  PROVE  \E a \in Account : Adds(c, a)
<1>1. PICK a : a = [owner |-> PersonOf[c], email |-> req[c].email,
                    status |-> IF AutoApprove THEN "approved" ELSE "pending",
                    vtoken |-> IF AutoApprove THEN "none" ELSE "unsent"]
  OBVIOUS
<1>2. req[c] \in Signup
  BY Kinds DEF SignupInserts, At, Doing, TypeOK
<1>3. a \in Account
  BY <1>1, <1>2 DEF Signup, Account
<1>4. users' = [users EXCEPT ![req[c].user] = a]
  BY <1>1 DEF SignupInserts, Insert
<1> QED
  BY <1>1, <1>3, <1>4 DEF Adds

LEMMA AccountSteps ==
  ASSUME TypeOK, RequestInv, Moves
  PROVE  \/ users' = users
         \/ \E c \in Clients, a \in Account : Adds(c, a)
         \/ \E u \in Users, a \in Account : Sets(u, a)
<1>2. ASSUME NEW c \in Clients, SignupMails(c)
      PROVE  \E u \in Users, a \in Account : Sets(u, a)
  <2>1. PICK u : u = req[c].user
    OBVIOUS
  <2>2. req[c] \in Signup /\ u \in Users /\ users[u] # None
    BY <1>2, <2>1, Kinds DEF SignupMails, At, Doing, TypeOK, RequestInv, Signup
  <2>3. users[u] \in Account
    BY <2>2 DEF TypeOK
  <2>4. users' = [users EXCEPT ![u] = [users[u] EXCEPT !.vtoken = "sent"]]
    BY <1>2, <2>1, <2>2, <2>3 DEF SignupMails, TypeOK, Account
  <2>5. [users[u] EXCEPT !.vtoken = "sent"] \in Account
    BY <2>3 DEF Account
  <2>6. Sets(u, [users[u] EXCEPT !.vtoken = "sent"])
    BY <2>2, <2>3, <2>4 DEF Sets, Account
  <2> QED
    BY <2>2, <2>5, <2>6
<1>3. ASSUME NEW u \in Users, users[u] # None, NEW s \in {"approved", "blocked"},
             NEW v \in {"none", users[u].vtoken},
             users' = [users EXCEPT ![u] = [users[u] EXCEPT !.status = s,
                                                            !.vtoken = v]]
      PROVE  \E a \in Account : Sets(u, a)
  <2>1. users[u] \in Account
    BY <1>3 DEF TypeOK
  <2>2. [users[u] EXCEPT !.status = s, !.vtoken = v] \in Account
    BY <2>1 DEF Account
  <2>3. Sets(u, [users[u] EXCEPT !.status = s, !.vtoken = v])
    BY <1>3, <2>1 DEF Sets, Account
  <2> QED
    BY <2>2, <2>3
<1>4. ASSUME NEW c \in Clients, VerifySaves(c)
      PROVE  \E u \in Users, a \in Account : Sets(u, a)
  <2>1. PICK u : u = req[c].user
    OBVIOUS
  <2>2. req[c] \in Visit /\ u \in Users /\ users[u] # None
    BY <1>4, <2>1, Kinds DEF VerifySaves, Doing, TypeOK, RequestInv, Visit
  <2>3. users[u] \in Account
    BY <2>2 DEF TypeOK
  <2>4. users' = [users EXCEPT ![u] = [users[u] EXCEPT !.status = "approved",
                                                       !.vtoken = "none"]]
    BY <1>4, <2>1, <2>2, <2>3 DEF VerifySaves, TypeOK, Account
  <2> QED
    BY <1>3, <2>2, <2>4
<1>5. ASSUME NEW u \in Users, Approve(u) \/ Block(u)
      PROVE  \E a \in Account : Sets(u, a)
  <2>1. users[u] # None /\ users[u] \in Account
    BY <1>5 DEF Approve, Block, TypeOK
  <2>2. CASE Approve(u)
    <3>1. users' = [users EXCEPT ![u] = [users[u] EXCEPT !.status = "approved",
                                                         !.vtoken = "none"]]
      BY <2>1, <2>2 DEF Approve, TypeOK, Account
    <3> QED
      BY <1>3, <2>1, <3>1
  <2>3. CASE Block(u)
    <3>1. users' = [users EXCEPT ![u] = [users[u] EXCEPT !.status = "blocked",
                                                  !.vtoken = users[u].vtoken]]
      BY <2>1, <2>3 DEF Block, TypeOK, Account
    <3> QED
      BY <1>3, <2>1, <3>1
  <2> QED
    BY <1>5, <2>2, <2>3
<1>6. ASSUME NEW c \in Clients,
             \/ Arrival(c) \/ SignupEmail(c) \/ LoginCreates(c) \/ Stamp(c)
             \/ Upsert(c) \/ Remove(c) \/ Fails(c) \/ SignupEnds(c)
      PROVE  users' = users
  BY <1>6 DEF Arrival, SignupUser, VerifyReads, LoginReads, Authenticate, Admit,
              SignupEmail, LoginCreates, Stamp, Upsert, Remove, Fails, SignupEnds,
              database
<1>7. PruneStep \/ Tick \/ Dies \/ UNCHANGED data => users' = users
  BY DEF PruneStep, PruneWakes, PruneRegistry, Tick, Dies, data, database
<1> QED
  BY InsertAdds, <1>2, <1>4, <1>5, <1>6, <1>7 DEF Step, View

(* An account is never lost, keeps its owner and its email, and is never   *)
(* pending again.                                                          *)
Stays(u) == /\ users'[u] # None
            /\ users'[u].owner = users[u].owner
            /\ users'[u].email = users[u].email
            /\ Reached(u) => Reached(u)'

LEMMA AccountsStay ==
  ASSUME TypeOK, RequestInv, Moves, NEW u \in Users, users[u] # None
  PROVE  Stays(u)
<1>1. ASSUME NEW c \in Clients, NEW a \in Account, Adds(c, a)
      PROVE  users'[u] = users[u]
  <2>1. users[req[c].user] = None
    BY <1>1 DEF Adds, SignupInserts
  <2> QED
    BY <1>1, <2>1 DEF Adds, TypeOK
<1>2. ASSUME NEW v \in Users, NEW a \in Account, Sets(v, a)
      PROVE  Stays(u)
  <2>1. a # None
    OBVIOUS
  <2> QED
    BY <1>2, <2>1 DEF Sets, TypeOK, Stays, Reached
<1> QED
  BY <1>1, <1>2, AccountSteps DEF Stays, Reached

LEMMA EmailsNext ==
  ASSUME TypeOK, EmailsDiffer, RequestInv, Moves
  PROVE  EmailsDiffer'
<1>1. CASE users' = users
  BY <1>1 DEF EmailsDiffer
<1>2. ASSUME NEW c \in Clients, NEW a \in Account, Adds(c, a)
      PROVE  EmailsDiffer'
  <2>1. \A u \in Users : users[u] # None => users[u].email # a.email
    BY <1>2 DEF Adds, SignupInserts, EmailTaken
  <2>2. \A u \in Users : users'[u] = IF u = req[c].user THEN a ELSE users[u]
    BY <1>2 DEF Adds, TypeOK
  <2> QED
    BY <2>1, <2>2 DEF EmailsDiffer
<1>3. ASSUME NEW x \in Users, NEW a \in Account, Sets(x, a)
      PROVE  EmailsDiffer'
  <2>1. \A u \in Users : users'[u] = IF u = x THEN a ELSE users[u]
    BY <1>3 DEF Sets, TypeOK
  <2>2. users[x] # None /\ a.email = users[x].email
    BY <1>3 DEF Sets
  <2> QED
    BY <2>1, <2>2 DEF EmailsDiffer
<1> QED
  BY <1>1, <1>2, <1>3, AccountSteps

-----------------------------------------------------------------------------
(* The requests.                                                           *)

LEMMA ContinueType ==
  ASSUME NEW c \in Clients, NEW q \in Request \cup {None}, TypeOK
  PROVE  [req EXCEPT ![c] = q] \in [Clients -> Request \cup {None}]
BY DEF TypeOK

(* A client's step leaves the requests of the others, the prune thread and *)
(* the clock alone.                                                        *)
LEMMA OthersWait ==
  ASSUME TypeOK, NEW c \in Clients, Arrival(c) \/ View(c)
  PROVE  /\ \A d \in Clients \ {c} : req'[d] = req[d]
         /\ prune' = prune /\ now' = now
<1> USE DEF Continue, Reply
<1>1. CASE Arrival(c)
  <2>1. prune' = prune /\ now' = now /\ \E q : req' = [req EXCEPT ![c] = q]
    BY <1>1 DEF Arrival, SignupUser, VerifyReads, LoginReads, Authenticate, Admit
  <2> QED
    BY <2>1 DEF TypeOK
<1>2. CASE View(c)
  <2>1. prune' = prune /\ now' = now
    BY <1>2 DEF View, SignupEmail, SignupInserts, Insert, SignupMails,
                SignupEnds, VerifySaves, LoginCreates, Stamp, Upsert, Remove, Fails
  <2>2. req' = req \/ \E q : req' = [req EXCEPT ![c] = q]
    BY <1>2 DEF View, SignupEmail, SignupInserts, Insert, SignupMails,
                SignupEnds, VerifySaves, LoginCreates, Stamp, Upsert, Remove, Fails
  <2> QED
    BY <2>1, <2>2 DEF TypeOK
<1> QED
  BY <1>1, <1>2

(* What a view may carry on with, having read the database.                *)
Sound(c) ==
    req[c] # None =>
        /\ req[c].op = "signup" /\ req[c].at = "mail" => users[req[c].user] # None
        /\ req[c].op = "verify" => users[req[c].user] # None
        /\ req[c].op \in {"login", "register", "deregister"} =>
             Reached(req[c].user) /\ users[req[c].user].owner = PersonOf[c]
        /\ req[c].op \in {"register", "deregister"} => req[c].seen <= now

(* What each step of a client makes of its own request.                    *)
LEMMA OwnRequest ==
  ASSUME TypeOK, SessionOwners, RequestInv, NEW c \in Clients, Arrival(c) \/ View(c)
  PROVE  req'[c] \in Request \cup {None} /\ Sound(c)'
<1> USE DEF Continue, Reply, Doing
<1>1. CASE req'[c] = None
  BY <1>1 DEF Sound
<1>2. ASSUME NEW u \in Users, NEW e \in Emails, SignupUser(c, u, e)
      PROVE  req'[c] \in Request \cup {None} /\ Sound(c)'
  <2>1. req'[c] = [op |-> "signup", at |-> "email", user |-> u, email |-> e]
    BY <1>2 DEF SignupUser, TypeOK
  <2>2. req'[c] \in Request
    BY <2>1 DEF Request, Signup
  <2> QED
    BY <2>1, <2>2 DEF Sound
<1>3. ASSUME NEW op \in {"verify", "login"}, NEW u \in Users,
             req'[c] = [op |-> op, user |-> u],
             users'[u] # None,
             op = "login" => Reached(u)' /\ users'[u].owner = PersonOf[c]
      PROVE  req'[c] \in Request \cup {None} /\ Sound(c)'
  <2>1. req'[c] \in Request
    BY <1>3 DEF Request, Visit
  <2> QED
    BY <1>3, <2>1 DEF Sound, Reached
<1>4. ASSUME NEW u \in Users, VerifyReads(c, u) \/ LoginReads(c, u)
      PROVE  req'[c] \in Request \cup {None} /\ Sound(c)'
  BY <1>3, <1>4 DEF VerifyReads, LoginReads, Is, Reached, TypeOK, database
<1>5. ASSUME NEW q \in Listing, req'[c] = q, q.seen <= now',
             Reached(q.user)', users'[q.user].owner = PersonOf[c]
      PROVE  req'[c] \in Request \cup {None} /\ Sound(c)'
  BY <1>5 DEF Request, Listing, Sound
<1>6. ASSUME NEW op \in {"register", "deregister"}, NEW u \in Users,
             NEW n \in Nodes, Authenticate(c, op, u, n)
      PROVE  req'[c] \in Request \cup {None} /\ Sound(c)'
  <2>1. PICK q : q = [op |-> op, at |-> "admitted", user |-> u, node |-> n,
                      seen |-> 0]
    OBVIOUS
  <2>2. req'[c] = q
    BY <1>6, <2>1 DEF Authenticate, Admit, TypeOK
  <2>3. q \in Listing
    BY <2>1 DEF Listing, TypeOK
  <2>4. Reached(u) /\ users[u].owner = PersonOf[c]
    BY <1>6 DEF Authenticate, Unexpired, SessionOwners
  <2>5. users' = users /\ now' = now /\ 0 <= now
    BY <1>6 DEF Authenticate, Admit, database, TypeOK
  <2>6. q.user = u /\ q.seen = 0
    BY <2>1
  <2>7. Reached(q.user)' /\ users'[q.user].owner = PersonOf[c]
    BY <2>2, <2>4, <2>5, <2>6 DEF Reached
  <2> QED
    BY <1>5, <2>2, <2>3, <2>5, <2>6, <2>7
<1>7. ASSUME SignupEmail(c), req'[c] # None
      PROVE  req'[c] \in Request \cup {None} /\ Sound(c)'
  <2>1. req[c] \in Signup
    BY <1>7, Kinds DEF SignupEmail, At, TypeOK
  <2>2. req'[c] = [req[c] EXCEPT !.at = "insert"]
    BY <1>7 DEF SignupEmail, TypeOK
  <2>3. req'[c] \in Signup /\ req'[c].at = "insert" /\ req'[c].op = "signup"
    BY <2>1, <2>2 DEF Signup
  <2> QED
    BY <2>3 DEF Sound, Request
<1>8. ASSUME SignupInserts(c), req'[c] # None
      PROVE  req'[c] \in Request \cup {None} /\ Sound(c)'
  <2>1. req[c] \in Signup
    BY <1>8, Kinds DEF SignupInserts, At, TypeOK
  <2>2. req'[c] = [req[c] EXCEPT !.at = "mail"]
    BY <1>8 DEF SignupInserts, Insert, TypeOK
  <2>3. /\ req'[c] \in Signup /\ req'[c].op = "signup"
        /\ req'[c].user = req[c].user /\ req[c].user \in Users
    BY <2>1, <2>2 DEF Signup
  <2>4. users'[req[c].user] # None
    BY <1>8, <2>3, InsertAdds DEF Adds, TypeOK
  <2> QED
    BY <2>3, <2>4 DEF Sound, Request
<1>9. ASSUME Stamp(c)
      PROVE  req'[c] \in Request \cup {None} /\ Sound(c)'
  <2>1. req[c] \in Listing
    BY <1>9, Kinds DEF Stamp, At, TypeOK
  <2>2. PICK q : q = [req[c] EXCEPT !.at = "registry", !.seen = now]
    OBVIOUS
  <2>3. q \in Listing /\ q.user = req[c].user /\ q.seen = now
    BY <2>1, <2>2 DEF Listing, TypeOK
  <2>4. req'[c] = q /\ users' = users /\ now' = now
    BY <1>9, <2>2 DEF Stamp, TypeOK, database
  <2>5. Reached(req[c].user) /\ users[req[c].user].owner = PersonOf[c]
    BY <1>9, <2>1 DEF Stamp, At, RequestInv
  <2>6. Reached(q.user)' /\ users'[q.user].owner = PersonOf[c] /\ q.seen <= now'
    BY <2>3, <2>4, <2>5 DEF Reached, TypeOK
  <2> QED
    BY <1>5, <2>3, <2>4, <2>6
<1>10. ASSUME \/ SignupEnds(c) \/ VerifySaves(c) \/ LoginCreates(c)
              \/ Upsert(c) \/ Remove(c) \/ Fails(c)
       PROVE  req'[c] = None
  BY <1>10 DEF SignupEnds, VerifySaves, LoginCreates, Upsert, Remove, Fails, TypeOK
<1>11. ASSUME SignupMails(c)
       PROVE  req'[c] \in Request \cup {None} /\ Sound(c)'
  <2>1. req'[c] = req[c] /\ req[c] \in Signup /\ req[c].op = "signup"
    BY <1>11, Kinds DEF SignupMails, At, TypeOK
  <2>2. users'[req[c].user] # None
    <3>1. users[req[c].user] # None /\ req[c].user \in Users
      BY <1>11, <2>1 DEF SignupMails, At, RequestInv, Signup
    <3>2. users[req[c].user] \in Account
      BY <3>1 DEF TypeOK
    <3>3. users'[req[c].user] = [users[req[c].user] EXCEPT !.vtoken = "sent"]
      BY <1>11, <3>1 DEF SignupMails, TypeOK
    <3>4. users'[req[c].user] \in Account
      BY <3>2, <3>3 DEF Account
    <3> QED
      BY <3>4
  <2> QED
    BY <2>1, <2>2 DEF Sound, Request
<1> QED
  BY <1>1, <1>2, <1>4, <1>6, <1>7, <1>8, <1>9, <1>10, <1>11 DEF Arrival, View

LEMMA RequestsNext ==
  ASSUME TypeOK, SessionOwners, RequestInv, Moves
  PROVE  RequestInv'
<1> SUFFICES ASSUME NEW c \in Clients
             PROVE  Sound(c)'
  BY DEF RequestInv, Sound
<1>1. ASSUME req'[c] = req[c]
      PROVE  Sound(c)'
  <2>1. CASE req[c] = None
    BY <1>1, <2>1 DEF Sound
  <2>2. CASE req[c] # None
    <3>1. req[c] \in Request /\ Sound(c)
      BY <2>2 DEF TypeOK, RequestInv, Sound
    <3>2. req[c].user \in Users
      BY <3>1 DEF Request, Signup, Visit, Listing
    <3>3. users[req[c].user] # None => Stays(req[c].user)
      BY <3>2, AccountsStay
    <3>4. now' \in Nat /\ now \in Nat /\ now <= now'
      <4>1. Tick => now' = now + 1
        BY DEF Tick
      <4>2. now' = now \/ Tick
        BY OthersWait DEF Step, Approve, Block, PruneStep, PruneWakes,
                          PruneRegistry, Dies, data
      <4> QED
        BY <4>1, <4>2 DEF TypeOK
    <3>5. req[c].op \in {"register", "deregister"} => req[c].seen <= now'
      <4>1. req[c].op \in {"register", "deregister"} => req[c].seen \in Nat
        BY <3>1, Kinds DEF Listing
      <4> QED
        BY <2>2, <3>1, <3>4, <4>1 DEF Sound
    <3>6. Reached(req[c].user) /\ users[req[c].user].owner = PersonOf[c]
             => Reached(req[c].user)' /\ users'[req[c].user].owner = PersonOf[c]
      BY <1>1, <3>3 DEF Stays, Reached
    <3> QED
      BY <1>1, <2>2, <3>1, <3>3, <3>5, <3>6 DEF Sound, Stays
  <2> QED
    BY <2>1, <2>2
<1>2. CASE Dies
  BY <1>2 DEF Dies, Sound
<1>3. ASSUME NEW d \in Clients, Arrival(d) \/ View(d), d # c
      PROVE  req'[c] = req[c]
  BY <1>3, OthersWait
<1>4. CASE Arrival(c) \/ View(c)
  BY <1>4, OwnRequest
<1>5. ASSUME \/ \E u \in Users : Approve(u) \/ Block(u)
             \/ PruneStep \/ Tick \/ UNCHANGED data
      PROVE  req' = req
  BY <1>5 DEF Approve, Block, PruneStep, PruneWakes, PruneRegistry, Tick, data
<1> QED
  BY <1>1, <1>2, <1>3, <1>4, <1>5 DEF Step

LEMMA SessionsNext ==
  ASSUME TypeOK, SessionOwners, RequestInv, Moves
  PROVE  SessionOwners' /\ token' \in [Clients -> Session \cup {None}]
<1>1. CASE token' = token
  <2> SUFFICES ASSUME NEW c \in Clients, token[c] # None
               PROVE  /\ Reached(token[c].user)'
                      /\ users'[token[c].user].owner = PersonOf[c]
    BY <1>1 DEF SessionOwners, Reached, TypeOK
  <2>1. Reached(token[c].user) /\ users[token[c].user].owner = PersonOf[c]
    BY DEF SessionOwners
  <2>2. token[c].user \in Users
    BY DEF TypeOK, Session
  <2> QED
    BY <1>1, <2>1, <2>2, AccountsStay DEF Stays, Reached
<1>2. ASSUME NEW c \in Clients, LoginCreates(c)
      PROVE  SessionOwners' /\ token' \in [Clients -> Session \cup {None}]
  <2>1. req[c] \in Visit /\ req[c].op = "login" /\ req[c] # None
    BY <1>2, Kinds DEF LoginCreates, Doing, TypeOK
  <2>2. PICK s : s = [user |-> req[c].user, expires |-> now + SessionTtl]
    OBVIOUS
  <2>3. s \in Session /\ s.user = req[c].user
    BY <2>1, <2>2 DEF Visit, Session, TypeOK
  <2>4. token' = [token EXCEPT ![c] = s] /\ users' = users
    BY <1>2, <2>2 DEF LoginCreates
  <2>5. Reached(s.user) /\ users[s.user].owner = PersonOf[c]
    BY <2>1, <2>3 DEF RequestInv
  <2>6. \A d \in Clients : token'[d] = IF d = c THEN s ELSE token[d]
    BY <2>4 DEF TypeOK
  <2>7. SessionOwners'
    BY <2>4, <2>5, <2>6 DEF SessionOwners, Reached
  <2> QED
    BY <2>3, <2>4, <2>7 DEF TypeOK
<1>3. ASSUME NEW c \in Clients, Arrival(c) \/ View(c)
      PROVE  token' = token \/ LoginCreates(c)
  BY <1>3 DEF Arrival, SignupUser, VerifyReads, LoginReads, Authenticate, Admit,
              View, SignupEmail, SignupInserts, Insert, SignupMails, SignupEnds,
              VerifySaves, Stamp, Upsert, Remove, Fails, database
<1>4. ASSUME \/ \E u \in Users : Approve(u) \/ Block(u)
             \/ PruneStep \/ Tick \/ Dies \/ UNCHANGED data
      PROVE  token' = token
  BY <1>4 DEF Approve, Block, PruneStep, PruneWakes, PruneRegistry, Tick, Dies,
              database, data
<1> QED
  BY <1>1, <1>2, <1>3, <1>4 DEF Step, TypeOK

-----------------------------------------------------------------------------
(* The registry.                                                           *)

(* Only these steps change it.                                             *)
LEMMA RegistrySteps ==
  ASSUME Moves
  PROVE  \/ registry' = registry
         \/ \E c \in Clients : Upsert(c) \/ Remove(c)
         \/ PruneRegistry
         \/ Dies
<1>1. ASSUME NEW c \in Clients, Arrival(c) \/ View(c)
      PROVE  registry' = registry \/ Upsert(c) \/ Remove(c)
  BY <1>1 DEF Arrival, SignupUser, VerifyReads, LoginReads, Authenticate, Admit,
              View, SignupEmail, SignupInserts, Insert, SignupMails, SignupEnds,
              VerifySaves, LoginCreates, Stamp, Fails
<1>2. ASSUME \/ \E u \in Users : Approve(u) \/ Block(u)
             \/ PruneWakes \/ Tick \/ UNCHANGED data
      PROVE  registry' = registry
  BY <1>2 DEF Approve, Block, PruneWakes, Tick, data
<1> QED
  BY <1>1, <1>2 DEF Step, PruneStep

(* What a request to the registry is about, and who sent it.               *)
LEMMA Listed ==
  ASSUME TypeOK, RequestInv, NEW c \in Clients,
         Doing(c, "register") \/ Doing(c, "deregister")
  PROVE  /\ req[c] \in Listing
         /\ req[c].user \in Users /\ req[c].node \in Nodes
         /\ req[c].seen \in 0 .. MaxTime /\ req[c].seen <= now
         /\ Reached(req[c].user) /\ users[req[c].user].owner = PersonOf[c]
<1>1. req[c] \in Listing
  BY Kinds DEF Doing, TypeOK
<1> QED
  BY <1>1 DEF Listing, Doing, RequestInv

(* What an upsert, a removal or the prune thread makes of an entry.        *)
LEMMA Entries ==
  ASSUME TypeOK, RequestInv, Moves, NEW u \in Users, NEW n \in Nodes
  PROVE  \/ registry'[u][n] \in {registry[u][n], None}
         \/ \E c \in Clients :
               /\ Upsert(c) /\ u = req[c].user
               /\ registry'[u][n] = [seen |-> req[c].seen, by |-> PersonOf[c]]
<1>1. ASSUME NEW c \in Clients, Upsert(c), registry'[u][n] # registry[u][n]
      PROVE  /\ u = req[c].user
             /\ registry'[u][n] = [seen |-> req[c].seen, by |-> PersonOf[c]]
  <2>1. req[c].user \in Users /\ req[c].node \in Nodes
    BY <1>1, Listed DEF Upsert, At
  <2>2. PICK r : r = [seen |-> req[c].seen, by |-> PersonOf[c]]
    OBVIOUS
  <2>3. registry' = [registry EXCEPT ![req[c].user][req[c].node] = r]
    BY <1>1, <2>2 DEF Upsert
  <2> QED
    BY <1>1, <2>1, <2>2, <2>3 DEF TypeOK
<1>2. ASSUME NEW c \in Clients, Remove(c)
      PROVE  registry'[u][n] \in {registry[u][n], None}
  <2>1. registry' = [registry EXCEPT ![req[c].user][req[c].node] = None]
    BY <1>2 DEF Remove
  <2> QED
    BY <2>1 DEF TypeOK
<1>3. PruneRegistry \/ Dies => registry'[u][n] \in {registry[u][n], None}
  BY DEF PruneRegistry, Dies, NoRecords
<1> QED
  BY <1>1, <1>2, <1>3, RegistrySteps

LEMMA RegistryType ==
  ASSUME TypeOK, RequestInv, Moves
  PROVE  registry' \in [Users -> [Nodes -> Record \cup {None}]]
<1>1. ASSUME NEW c \in Clients, Upsert(c)
      PROVE  registry' \in [Users -> [Nodes -> Record \cup {None}]]
  <2>1. req[c].user \in Users /\ req[c].node \in Nodes /\ req[c].seen \in 0 .. MaxTime
    BY <1>1, Listed DEF Upsert, At
  <2>2. PICK r : r = [seen |-> req[c].seen, by |-> PersonOf[c]]
    OBVIOUS
  <2>3. r \in Record
    BY <2>1, <2>2 DEF Record
  <2>4. registry' = [registry EXCEPT ![req[c].user][req[c].node] = r]
    BY <1>1, <2>2 DEF Upsert
  <2> QED
    BY <2>1, <2>3, <2>4 DEF TypeOK
<1>2. ASSUME NEW c \in Clients, Remove(c)
      PROVE  registry' \in [Users -> [Nodes -> Record \cup {None}]]
  <2>1. req[c].user \in Users /\ req[c].node \in Nodes
    BY <1>2, Listed DEF Remove, At
  <2>2. registry' = [registry EXCEPT ![req[c].user][req[c].node] = None]
    BY <1>2 DEF Remove
  <2> QED
    BY <2>1, <2>2 DEF TypeOK
<1>3. PruneRegistry \/ Dies => registry' \in [Users -> [Nodes -> Record \cup {None}]]
  BY DEF PruneRegistry, Dies, NoRecords, TypeOK
<1> QED
  BY <1>1, <1>2, <1>3, RegistrySteps DEF TypeOK

LEMMA OwnersNext ==
  ASSUME TypeOK, OwnersOnly, RequestInv, Moves
  PROVE  OwnersOnly'
<1> SUFFICES ASSUME NEW u \in Users, NEW n \in Nodes, registry'[u][n] # None
             PROVE  users'[u] # None /\ registry'[u][n].by = users'[u].owner
  BY DEF OwnersOnly
<1>1. CASE registry'[u][n] = registry[u][n]
  <2>1. users[u] # None /\ registry[u][n].by = users[u].owner
    BY <1>1 DEF OwnersOnly
  <2> QED
    BY <1>1, <2>1, AccountsStay DEF Stays
<1>2. ASSUME NEW c \in Clients, Upsert(c), u = req[c].user,
             registry'[u][n] = [seen |-> req[c].seen, by |-> PersonOf[c]]
      PROVE  users'[u] # None /\ registry'[u][n].by = users'[u].owner
  <2>1. Reached(u) /\ users[u].owner = PersonOf[c]
    BY <1>2, Listed DEF Upsert, At
  <2>2. users' = users
    BY <1>2 DEF Upsert, database
  <2> QED
    BY <1>2, <2>1, <2>2 DEF Reached
<1> QED
  BY <1>1, <1>2, Entries

LEMMA PruneNext ==
  ASSUME TypeOK, PruneInv, Moves
  PROVE  PruneInv' /\ prune' \in 0 .. MaxTime \cup {None} /\ now' \in 0 .. MaxTime
<1>1. Cutoff \in 0 .. now /\ now \in 0 .. MaxTime
  BY DEF Cutoff, TypeOK
<1>2. CASE PruneWakes
  BY <1>1, <1>2 DEF PruneWakes, PruneInv, Cutoff
<1>3. CASE PruneRegistry \/ Dies
  BY <1>1, <1>3 DEF PruneRegistry, Dies, PruneInv
<1>4. CASE Tick
  <2>1. now' = now + 1 /\ prune' = prune /\ now' \in 0 .. MaxTime
    BY <1>1, <1>4 DEF Tick
  <2>2. Cutoff <= Cutoff' /\ Cutoff' \in Nat
    BY <1>1, <2>1 DEF Cutoff
  <2>3. prune # None => prune \in Nat
    BY DEF TypeOK
  <2> QED
    BY <1>1, <2>1, <2>2, <2>3 DEF PruneInv, TypeOK
<1>5. CASE prune' = prune /\ now' = now
  BY <1>5 DEF PruneInv, Cutoff, TypeOK
<1>6. ASSUME \/ \E u \in Users : Approve(u) \/ Block(u)
             \/ UNCHANGED data
      PROVE  prune' = prune /\ now' = now
  BY <1>6 DEF Approve, Block, data
<1> QED
  BY <1>2, <1>3, <1>4, <1>5, <1>6, OthersWait DEF Step, PruneStep

-----------------------------------------------------------------------------

LEMMA TypeNext ==
  ASSUME TypeOK, SessionOwners, RequestInv, PruneInv, Moves
  PROVE  TypeOK'
<1>1. users' \in [Users -> Account \cup {None}]
  <2>1. ASSUME NEW c \in Clients, NEW a \in Account, Adds(c, a)
        PROVE  users' \in [Users -> Account \cup {None}]
    BY <2>1 DEF Adds, TypeOK
  <2>2. ASSUME NEW u \in Users, NEW a \in Account, Sets(u, a)
        PROVE  users' \in [Users -> Account \cup {None}]
    BY <2>2 DEF Sets, TypeOK
  <2> QED
    BY <2>1, <2>2, AccountSteps DEF TypeOK
<1>2. req' \in [Clients -> Request \cup {None}]
  <2>1. ASSUME NEW c \in Clients, Arrival(c) \/ View(c)
        PROVE  req' \in [Clients -> Request \cup {None}]
    <3>1. req' = req \/ \E q : req' = [req EXCEPT ![c] = q]
      BY <2>1 DEF Arrival, SignupUser, VerifyReads, LoginReads, Authenticate, Admit,
             View, SignupEmail, SignupInserts, Insert, SignupMails, SignupEnds,
             VerifySaves, LoginCreates, Stamp, Upsert, Remove, Fails, Continue, Reply
    <3>2. req' = [req EXCEPT ![c] = req'[c]]
      BY <3>1 DEF TypeOK
    <3> QED
      BY <2>1, <3>2, OwnRequest, ContinueType
  <2>2. CASE Dies
    BY <2>2 DEF Dies
  <2>3. ASSUME \/ \E u \in Users : Approve(u) \/ Block(u)
               \/ PruneStep \/ Tick \/ UNCHANGED data
        PROVE  req' = req
    BY <2>3 DEF Approve, Block, PruneStep, PruneWakes, PruneRegistry, Tick, data
  <2> QED
    BY <2>1, <2>2, <2>3 DEF Step, TypeOK
<1> QED
  BY <1>1, <1>2, SessionsNext, RegistryType, PruneNext DEF TypeOK

LEMMA InvNext == IInv /\ [Next]_vars => IInv'
BY Steps, TypeNext, EmailsNext, SessionsNext, OwnersNext, RequestsNext, PruneNext
   DEF IInv

(* The invariant holds whatever views, the administrator, the prune thread,*)
(* failing queries and restarts do between one query and the next.         *)
THEOREM Invariant == Spec => []IInv
<1> QED
  BY InvInit, InvNext, PTL DEF Spec

(* Every row, request and record has its type.                             *)
THEOREM TypeCorrect == Spec => []TypeOK
<1>1. IInv => TypeOK
  BY DEF IInv
<1> QED
  BY <1>1, Invariant, PTL

(* No two accounts share an email address, although signup_view looks for  *)
(* it in one query and inserts in another (views.py:81).                   *)
THEOREM EmailsUnique == Spec => []EmailsDiffer
<1>1. IInv => EmailsDiffer
  BY DEF IInv
<1> QED
  BY <1>1, Invariant, PTL

(* A token is of an account that has been approved, and only its owner's   *)
(* programs hold it, before and after a restart.                           *)
THEOREM SessionsOwned == Spec => []SessionOwners
<1>1. IInv => SessionOwners
  BY DEF IInv
<1> QED
  BY <1>1, Invariant, PTL

(* Only the owner of a username registers nodes under it (register_view,   *)
(* views.py:189).                                                          *)
THEOREM RegistryOwned == Spec => []OwnersOnly
<1>1. IInv => OwnersOnly
  BY DEF IInv
<1> QED
  BY <1>1, Invariant, PTL

-----------------------------------------------------------------------------
(* A block holds.                                                          *)

InFlight(c, u) == (Doing(c, "verify") \/ Doing(c, "register")) /\ req[c].user = u

LEMMA StaysBlocked ==
  ASSUME TypeOK, RequestInv, Moves, NEW u \in Users, ShutOut(u), ~Approve(u)
  PROVE  Is(u, "blocked")'
<1>1. users[u] \in Account /\ users[u].status = "blocked"
  BY DEF ShutOut, Is, TypeOK
<1>2. CASE users' = users
  BY <1>1, <1>2 DEF Is
<1>3. ASSUME NEW c \in Clients, NEW a \in Account, Adds(c, a)
      PROVE  Is(u, "blocked")'
  <2>1. users[req[c].user] = None
    BY <1>3 DEF Adds, SignupInserts
  <2>2. users'[u] = users[u]
    BY <1>1, <1>3, <2>1 DEF Adds, TypeOK
  <2> QED
    BY <1>1, <2>2 DEF Is
<1>4. ASSUME NEW c \in Clients, SignupMails(c)
      PROVE  Is(u, "blocked")'
  <2>1. PICK v : users' = [users EXCEPT ![req[c].user].vtoken = v]
    BY <1>4 DEF SignupMails
  <2>2. users'[u] \in {users[u], [users[u] EXCEPT !.vtoken = v]}
    BY <2>1 DEF TypeOK
  <2>3. users'[u] # None
    BY <1>1, AccountsStay DEF Stays
  <2> QED
    BY <1>1, <2>2, <2>3 DEF Is, Account
<1>5. ASSUME NEW c \in Clients, VerifySaves(c)
      PROVE  Is(u, "blocked")'
  <2>1. req[c].user # u
    BY <1>5 DEF VerifySaves, ShutOut
  <2>2. users'[u] = users[u]
    BY <1>5, <2>1 DEF VerifySaves, TypeOK
  <2> QED
    BY <1>1, <2>2 DEF Is
<1>6. ASSUME NEW v \in Users, Approve(v) \/ Block(v)
      PROVE  Is(u, "blocked")'
  <2>1. users'[u] # None
    BY <1>1, AccountsStay DEF Stays
  <2>2. CASE Approve(v)
    <3>1. users'[u] = users[u]
      BY <2>2 DEF Approve, TypeOK
    <3> QED
      BY <1>1, <3>1 DEF Is
  <2>3. CASE Block(v)
    <3>1. users'[u] \in {users[u], [users[u] EXCEPT !.status = "blocked"]}
      BY <2>3 DEF Block, TypeOK
    <3> QED
      BY <1>1, <2>1, <3>1 DEF Is, Account
  <2> QED
    BY <1>6, <2>2, <2>3
<1>7. ASSUME NEW c \in Clients,
             \/ Arrival(c) \/ SignupEmail(c) \/ LoginCreates(c) \/ Stamp(c)
             \/ Upsert(c) \/ Remove(c) \/ Fails(c) \/ SignupEnds(c)
      PROVE  users' = users
  BY <1>7 DEF Arrival, SignupUser, VerifyReads, LoginReads, Authenticate, Admit,
              SignupEmail, LoginCreates, Stamp, Upsert, Remove, Fails, SignupEnds,
              database
<1>8. PruneStep \/ Tick \/ Dies \/ UNCHANGED data => users' = users
  BY DEF PruneStep, PruneWakes, PruneRegistry, Tick, Dies, data, database
<1> QED
  BY <1>2, <1>3, <1>4, <1>5, <1>6, <1>7, <1>8, InsertAdds DEF Step, View

LEMMA NoneArrives ==
  ASSUME TypeOK, RequestInv, Moves, NEW u \in Users, ShutOut(u),
         NEW c \in Clients
  PROVE  ~InFlight(c, u)'
<1> USE DEF Continue, Reply
<1>1. ~InFlight(c, u) /\ ~Is(u, "pending") /\ ~Is(u, "approved")
  BY DEF ShutOut, Is, InFlight
<1>2. CASE req'[c] = req[c] \/ req'[c] = None
  BY <1>1, <1>2 DEF InFlight, Doing
<1>3. ASSUME NEW v \in Users, NEW e \in Emails, SignupUser(c, v, e)
      PROVE  ~InFlight(c, u)'
  BY <1>3 DEF SignupUser, InFlight, Doing, TypeOK
<1>4. ASSUME NEW v \in Users, VerifyReads(c, v) \/ LoginReads(c, v)
      PROVE  ~InFlight(c, u)'
  BY <1>1, <1>4 DEF VerifyReads, LoginReads, InFlight, Doing, TypeOK
<1>5. ASSUME NEW op \in {"register", "deregister"}, NEW v \in Users,
             NEW n \in Nodes, Authenticate(c, op, v, n)
      PROVE  ~InFlight(c, u)'
  <2>1. v # u
    BY <1>1, <1>5 DEF Authenticate
  <2>2. req'[c].user = v
    BY <1>5 DEF Authenticate, Admit, TypeOK
  <2> QED
    BY <2>1, <2>2 DEF InFlight
<1>6. ASSUME SignupEmail(c) \/ SignupInserts(c)
      PROVE  ~InFlight(c, u)'
  <2>1. req[c] \in Signup
    BY <1>6, Kinds DEF SignupEmail, SignupInserts, At, Doing, TypeOK
  <2>2. req'[c] \in {None, [req[c] EXCEPT !.at = "insert"],
                     [req[c] EXCEPT !.at = "mail"]}
    BY <1>6 DEF SignupEmail, SignupInserts, Insert, TypeOK
  <2> QED
    BY <2>1, <2>2 DEF InFlight, Doing, Signup
<1>7. ASSUME Stamp(c)
      PROVE  ~InFlight(c, u)'
  <2>1. req[c] \in Listing /\ req[c].user # u
    BY <1>1, <1>7, Kinds DEF Stamp, At, Doing, InFlight, TypeOK
  <2>2. req'[c] = [req[c] EXCEPT !.at = "registry", !.seen = now]
    BY <1>7 DEF Stamp, TypeOK
  <2>3. req'[c].user = req[c].user
    BY <2>1, <2>2 DEF Listing
  <2> QED
    BY <2>1, <2>3 DEF InFlight
<1>8. ASSUME \/ SignupEnds(c) \/ VerifySaves(c) \/ LoginCreates(c)
             \/ Upsert(c) \/ Remove(c) \/ Fails(c)
      PROVE  req'[c] = None
  BY <1>8 DEF SignupEnds, VerifySaves, LoginCreates, Upsert, Remove, Fails, TypeOK
<1>9. ASSUME NEW d \in Clients, Arrival(d) \/ View(d), d # c
      PROVE  req'[c] = req[c]
  BY <1>9, OthersWait
<1>10. ASSUME \/ \E v \in Users : Approve(v) \/ Block(v)
              \/ PruneStep \/ Tick \/ UNCHANGED data
       PROVE  req' = req
  BY <1>10 DEF Approve, Block, PruneStep, PruneWakes, PruneRegistry, Tick, data
<1>11. Dies => req'[c] = None
  BY DEF Dies
<1>12. SignupMails(c) => req'[c] = req[c]
  BY DEF SignupMails
<1> QED
  BY <1>2, <1>3, <1>4, <1>5, <1>6, <1>7, <1>8, <1>9, <1>10, <1>11, <1>12
  DEF Step, Arrival, View

(* Neither the old verification link, nor a token from before the block,   *)
(* nor a restart undoes a block that has taken effect (admin.py:20,        *)
(* views.py:38, views.py:127).                                             *)
THEOREM BlocksHold == Spec => BlockHolds
<1> DEFINE Holds(u) ==
      ShutOut(u) =>
          \/ Approve(u)
          \/ /\ ShutOut(u)'
             /\ \A n \in Nodes : registry'[u][n] \in {registry[u][n], None}
<1>1. ASSUME IInv, Moves, NEW u \in Users
      PROVE  Holds(u)
  <2> SUFFICES ASSUME ShutOut(u), ~Approve(u)
               PROVE  /\ ShutOut(u)'
                      /\ \A n \in Nodes : registry'[u][n] \in {registry[u][n], None}
    OBVIOUS
  <2>1. Is(u, "blocked")'
    BY <1>1, StaysBlocked DEF IInv
  <2>2. \A c \in Clients : ~InFlight(c, u)'
    BY <1>1, NoneArrives DEF IInv
  <2>3. ASSUME NEW c \in Clients, Upsert(c)
        PROVE  req[c].user # u
    BY <2>3 DEF Upsert, At, ShutOut
  <2>4. \A n \in Nodes : registry'[u][n] \in {registry[u][n], None}
    BY <1>1, <2>3, Entries DEF IInv
  <2> QED
    BY <2>1, <2>2, <2>4 DEF ShutOut, InFlight
<1>2. Spec => [][\A u \in Users : Holds(u)]_vars
  <2>1. IInv /\ [Next]_vars => [\A u \in Users : Holds(u)]_vars
    BY <1>1, Steps DEF IInv
  <2> QED
    BY <2>1, Invariant, PTL DEF Spec
<1> QED
  BY <1>2 DEF BlockHolds

-----------------------------------------------------------------------------
(* The server implements the phone book.                                   *)

Owner == [u \in Users |-> IF users[u] = None THEN None ELSE users[u].owner]

LEMMA BookInit == Init => Book!Init
BY DEF Init, NoRecords, Leaving, At, Doing, Book!Init

(* Owners change only when an account is added.                            *)
LEMMA SameOwners ==
  ASSUME TypeOK, RequestInv, Moves,
         \A c \in Clients, a \in Account : ~Adds(c, a)
  PROVE  Owner' = Owner
<1>1. ASSUME NEW u \in Users, NEW a \in Account, Sets(u, a)
      PROVE  Owner' = Owner
  <2>1. a # None
    OBVIOUS
  <2> QED
    BY <1>1, <2>1 DEF Sets, Owner, TypeOK
<1> QED
  BY <1>1, AccountSteps DEF Owner

(* The client whose account is added goes on.                              *)
LEMMA InsertMoves ==
  ASSUME TypeOK, NEW c \in Clients, SignupInserts(c)
  PROVE  req'[c] # req[c]
<1>1. req[c] \in Signup /\ req[c] # None /\ req[c].at = "insert"
  BY Kinds DEF SignupInserts, At, Doing, TypeOK
<1>2. req'[c] \in {None, [req[c] EXCEPT !.at = "mail"]}
  BY DEF SignupInserts, Insert, Continue, Reply, TypeOK
<1>3. [req[c] EXCEPT !.at = "mail"].at = "mail"
  BY <1>1 DEF Signup
<1> QED
  BY <1>1, <1>2, <1>3

Asks(c) == At(c, "deregister", "admitted")
Entry(c) == <<PersonOf[c], req[c].user, req[c].node>>

LEMMA LeavingEntries ==
  \A x : x \in Leaving <=> \E c \in Clients : Asks(c) /\ x = Entry(c)
BY DEF Leaving, Asks, Entry

(* A step of one client leaves what the others ask for.                    *)
LEMMA LeavingStep ==
  ASSUME NEW c \in Clients, \A d \in Clients \ {c} : req'[d] = req[d]
  PROVE  /\ ~Asks(c) /\ ~Asks(c)' => Leaving' = Leaving
         /\ ~Asks(c) /\ Asks(c)' => Leaving' = Leaving \cup {Entry(c)'}
         /\ Asks(c) /\ ~Asks(c)' => Leaving' \in {Leaving, Leaving \ {Entry(c)}}
<1> DEFINE Others == {Entry(d) : d \in {e \in Clients \ {c} : Asks(e)}}
<1>1. \A d \in Clients \ {c} : (Asks(d)' <=> Asks(d)) /\ Entry(d)' = Entry(d)
  BY DEF Asks, At, Doing, Entry
<1>2. \A x : x \in Leaving' <=> \E d \in Clients : Asks(d)' /\ x = Entry(d)'
  BY DEF Leaving, Asks, Entry
<1>3. Leaving = IF Asks(c) THEN Others \cup {Entry(c)} ELSE Others
  BY LeavingEntries
<1>4. Leaving' = IF Asks(c)' THEN Others \cup {Entry(c)'} ELSE Others
  BY <1>1, <1>2
<1> HIDE DEF Others
<1>5. ASSUME Asks(c), ~Asks(c)'
      PROVE  Leaving' \in {Leaving, Leaving \ {Entry(c)}}
  <2>1. Leaving' = Others /\ Leaving = Others \cup {Entry(c)}
    BY <1>3, <1>4, <1>5
  <2>2. CASE Entry(c) \in Others
    BY <2>1, <2>2
  <2>3. CASE Entry(c) \notin Others
    BY <2>1, <2>3
  <2> QED
    BY <2>2, <2>3
<1> QED
  BY <1>3, <1>4, <1>5

Same == Owner' = Owner /\ registry' = registry /\ now' = now

(* SignupInserts is Own, Authenticate of a DELETE is Ask, Upsert is Enroll,*)
(* Remove is Leave, and a DELETE that fails is Withdraw.                   *)
LEMMA OwnStep ==
  ASSUME TypeOK, NEW c \in Clients, SignupInserts(c)
  PROVE  Book!Work
<1>1. PICK a \in Account : Adds(c, a)
  BY InsertAdds
<1>2. req[c] \in Signup
  BY Kinds DEF SignupInserts, At, Doing, TypeOK
<1>3. PICK p \in People, u \in Users : p = PersonOf[c] /\ u = req[c].user
  BY <1>2 DEF Signup
<1>4. Owner[u] = None /\ Owner' = [Owner EXCEPT ![u] = p]
  <2>1. users[u] = None /\ users' = [users EXCEPT ![u] = a] /\ a.owner = p /\ a # None
    BY <1>1, <1>3 DEF Adds, SignupInserts
  <2> QED
    BY <2>1 DEF Owner, TypeOK
<1>5. registry' = registry /\ now' = now
  BY DEF SignupInserts, Insert
<1>6. Leaving' = Leaving
  <2>1. ~Asks(c)
    BY DEF SignupInserts, Asks, At, Doing
  <2>2. req'[c] \in {None, [req[c] EXCEPT !.at = "mail"]}
    BY DEF SignupInserts, Insert, Continue, Reply, TypeOK
  <2>3. ~Asks(c)'
    BY <1>2, <2>2 DEF Asks, At, Doing, Signup
  <2> QED
    BY <2>1, <2>3, OthersWait, LeavingStep DEF View
<1>7. Book!Own(p, u)
  BY <1>4, <1>5, <1>6 DEF Owner, Book!Own
<1> QED
  BY <1>7 DEF Book!Work

LEMMA EnrollStep ==
  ASSUME TypeOK, RequestInv, NEW c \in Clients, Upsert(c)
  PROVE  Book!Work
<1>1. /\ req[c].user \in Users /\ req[c].node \in Nodes
      /\ req[c].seen \in 0 .. MaxTime /\ req[c].seen <= now
      /\ Reached(req[c].user) /\ users[req[c].user].owner = PersonOf[c]
  BY Listed DEF Upsert, At
<1>2. Owner[req[c].user] = PersonOf[c] /\ PersonOf[c] \in People
  BY <1>1 DEF Owner, Reached
<1>3. Owner' = Owner /\ now' = now
  BY DEF Upsert, database, Owner
<1>4. Leaving' = Leaving
  <2>1. ~Asks(c) /\ ~Asks(c)'
    BY DEF Upsert, Reply, Continue, Asks, At, Doing, TypeOK
  <2> QED
    BY <2>1, OthersWait, LeavingStep DEF View
<1>5. Book!Enroll(PersonOf[c], req[c].user, req[c].node, req[c].seen)
  BY <1>1, <1>2, <1>3, <1>4 DEF Upsert, Owner, Book!Enroll
<1> QED
  BY <1>1, <1>2, <1>5 DEF Book!Work

LEMMA AskStep ==
  ASSUME TypeOK, SessionOwners, NEW c \in Clients, NEW u \in Users,
         NEW n \in Nodes, Authenticate(c, "deregister", u, n)
  PROVE  Book!Work
<1>1. PICK p \in People : p = PersonOf[c]
  OBVIOUS
<1>2. Owner[u] = p /\ Same
  BY <1>1 DEF Authenticate, Unexpired, Admit, SessionOwners, Reached, database,
              Same, Owner
<1>3. PICK q : q = [op |-> "deregister", at |-> "admitted", user |-> u,
                    node |-> n, seen |-> 0]
  OBVIOUS
<1>4. q \in Request
  BY <1>3 DEF Request, Listing, TypeOK
<1>5. req'[c] = q /\ req[c] = None
  BY <1>3 DEF Authenticate, Admit, Continue, TypeOK
<1>6. ~Asks(c) /\ Asks(c)' /\ Entry(c)' = <<p, u, n>>
  BY <1>1, <1>3, <1>4, <1>5 DEF Asks, At, Doing, Entry
<1>7. Leaving' = Leaving \cup {<<p, u, n>>}
  BY <1>6, OthersWait, LeavingStep DEF Arrival
<1>8. Book!Ask(p, u, n)
  BY <1>2, <1>7 DEF Same, Owner, Book!Ask
<1> QED
  BY <1>8 DEF Book!Work

LEMMA LeaveStep ==
  ASSUME TypeOK, RequestInv, NEW c \in Clients, Asks(c), Remove(c) \/ Fails(c)
  PROVE  [Book!Work]_(Book!data)
<1>1. /\ req[c].user \in Users /\ req[c].node \in Nodes
      /\ Reached(req[c].user) /\ users[req[c].user].owner = PersonOf[c]
  BY Listed DEF Asks, At
<1>2. PICK p \in People, u \in Users, n \in Nodes :
         p = PersonOf[c] /\ u = req[c].user /\ n = req[c].node
  BY <1>1
<1>3. Owner[u] = p /\ <<p, u, n>> = Entry(c) /\ <<p, u, n>> \in Leaving
  BY <1>1, <1>2, LeavingEntries DEF Owner, Reached, Entry
<1>4. Leaving' \in {Leaving, Leaving \ {<<p, u, n>>}}
  <2>1. ~Asks(c)'
    BY DEF Remove, Fails, Reply, Continue, Asks, At, Doing, TypeOK
  <2> QED
    BY <1>3, <2>1, OthersWait, LeavingStep DEF View
<1>5. Owner' = Owner /\ now' = now
  BY DEF Remove, Fails, database, Owner
<1>6. CASE Remove(c)
  <2>1. Book!Leave(p, u, n)
    BY <1>2, <1>3, <1>4, <1>5, <1>6 DEF Remove, Owner, Book!Leave
  <2> QED
    BY <2>1 DEF Book!Work
<1>7. CASE Fails(c) /\ Leaving' = Leaving \ {<<p, u, n>>}
  <2>1. Book!Withdraw(p, u, n)
    BY <1>5, <1>7 DEF Fails, Owner, Book!Withdraw
  <2> QED
    BY <2>1 DEF Book!Work
<1>8. CASE Fails(c) /\ Leaving' = Leaving
  BY <1>5, <1>8 DEF Fails, Owner, Book!data
<1> QED
  BY <1>4, <1>6, <1>7, <1>8

(* No other step of a client shows in the book.                            *)
LEMMA OtherSteps ==
  ASSUME TypeOK, RequestInv, Moves, NEW c \in Clients,
         Arrival(c) \/ View(c), ~SignupInserts(c), ~Upsert(c), ~Asks(c),
         \A u \in Users, n \in Nodes : ~Authenticate(c, "deregister", u, n)
  PROVE  Same /\ Leaving' = Leaving
<1> USE DEF Continue, Reply
<1>1. ~Asks(c)'
  <2>1. CASE req'[c] = None
    BY <2>1 DEF Asks, At, Doing
  <2>2. ASSUME NEW u \in Users, NEW e \in Emails, SignupUser(c, u, e)
        PROVE  ~Asks(c)'
    BY <2>2 DEF SignupUser, Asks, At, Doing, TypeOK
  <2>3. ASSUME NEW u \in Users, VerifyReads(c, u) \/ LoginReads(c, u)
        PROVE  ~Asks(c)'
    BY <2>3 DEF VerifyReads, LoginReads, Asks, At, Doing, TypeOK
  <2>4. ASSUME NEW u \in Users, NEW n \in Nodes, Authenticate(c, "register", u, n)
        PROVE  ~Asks(c)'
    BY <2>4 DEF Authenticate, Admit, Asks, At, Doing, TypeOK
  <2>5. ASSUME SignupEmail(c)
        PROVE  ~Asks(c)'
    <3>1. req[c] \in Signup
      BY <2>5, Kinds DEF SignupEmail, At, Doing, TypeOK
    <3>2. req'[c] \in {None, [req[c] EXCEPT !.at = "insert"]}
      BY <2>5 DEF SignupEmail, TypeOK
    <3> QED
      BY <3>1, <3>2 DEF Asks, At, Doing, Signup
  <2>6. ASSUME Stamp(c)
        PROVE  ~Asks(c)'
    <3>1. req[c] \in Listing /\ req[c].op = "register"
      BY <2>6, Kinds DEF Stamp, At, Doing, TypeOK
    <3>2. req'[c] = [req[c] EXCEPT !.at = "registry", !.seen = now]
      BY <2>6 DEF Stamp, TypeOK
    <3> QED
      BY <3>1, <3>2 DEF Asks, At, Doing, Listing
  <2>7. ASSUME \/ SignupEnds(c) \/ VerifySaves(c) \/ LoginCreates(c)
               \/ Remove(c) \/ Fails(c)
        PROVE  req'[c] = None
    BY <2>7 DEF SignupEnds, VerifySaves, LoginCreates, Remove, Fails, TypeOK
  <2>8. SignupMails(c) => ~Asks(c)'
    BY DEF SignupMails, Asks, At, Doing
  <2> QED
    BY <2>1, <2>2, <2>3, <2>4, <2>5, <2>6, <2>7, <2>8 DEF Arrival, View
<1>2. Leaving' = Leaving
  BY <1>1, OthersWait, LeavingStep
<1>3. Owner' = Owner
  <2>1. \A d \in Clients, a \in Account : ~Adds(d, a)
    BY InsertMoves, OthersWait DEF Adds
  <2> QED
    BY <2>1, SameOwners
<1>4. registry' = registry
  <2>1. ~Remove(c)
    BY DEF Remove, Asks
  <2> QED
    BY <2>1 DEF Arrival, SignupUser, VerifyReads, LoginReads, Authenticate, Admit,
       View, SignupEmail, SignupMails, SignupEnds, VerifySaves, LoginCreates,
       Stamp, Fails
<1> QED
  BY <1>2, <1>3, <1>4, OthersWait DEF Same

(* What the server does while it runs is work on the book.                 *)
LEMMA BookWork ==
  ASSUME IInv, Moves, ~Dies, ~Tick
  PROVE  [Book!Work]_(Book!data)
<1> USE DEF IInv
<1>1. CASE Same /\ Leaving' = Leaving
  BY <1>1 DEF Same, Owner, Book!data
<1>2. ASSUME NEW c \in Clients, Arrival(c) \/ View(c)
      PROVE  [Book!Work]_(Book!data)
  <2>1. CASE SignupInserts(c)
    BY <2>1, OwnStep
  <2>2. CASE Upsert(c)
    BY <2>2, EnrollStep
  <2>3. ASSUME NEW u \in Users, NEW n \in Nodes, Authenticate(c, "deregister", u, n)
        PROVE  Book!Work
    BY <2>3, AskStep
  <2>4. ASSUME Asks(c)
        PROVE  Remove(c) \/ Fails(c)
    BY <1>2, <2>4 DEF Asks, At, Doing, Arrival, SignupUser, VerifyReads,
         LoginReads, Authenticate, Admit, View, SignupEmail, SignupInserts,
         SignupMails, SignupEnds, VerifySaves, LoginCreates, Stamp, Upsert
  <2>5. CASE Asks(c)
    BY <2>4, <2>5, LeaveStep
  <2> QED
    BY <1>1, <1>2, <2>1, <2>2, <2>3, <2>5, OtherSteps
<1>3. ASSUME \E u \in Users : Approve(u) \/ Block(u)
      PROVE  Same /\ Leaving' = Leaving
  <2>1. req' = req /\ registry' = registry /\ now' = now
    BY <1>3 DEF Approve, Block
  <2>2. \A c \in Clients, a \in Account : ~Adds(c, a)
    BY <2>1, InsertMoves DEF Adds
  <2> QED
    BY <2>1, <2>2, SameOwners DEF Same, Leaving, At, Doing
<1>4. CASE PruneRegistry
  <2>1. prune <= Cutoff /\ prune \in 0 .. MaxTime
    BY <1>4 DEF PruneRegistry, PruneInv, TypeOK
  <2>2. Cutoff = Book!Cutoff
    BY DEF Cutoff, Book!Cutoff
  <2>3. Owner' = Owner /\ now' = now /\ Leaving' = Leaving
    BY <1>4 DEF PruneRegistry, database, Owner, Leaving, At, Doing
  <2>4. Book!Forget(prune)
    BY <1>4, <2>1, <2>2, <2>3 DEF PruneRegistry, Owner, Book!Forget
  <2> QED
    BY <2>1, <2>4 DEF Book!Work
<1>5. PruneWakes \/ UNCHANGED data => Same /\ Leaving' = Leaving
  BY DEF PruneWakes, data, database, Same, Owner, Leaving, At, Doing
<1> QED
  BY <1>1, <1>2, <1>3, <1>4, <1>5 DEF Step, PruneStep

LEMMA BookNext == IInv /\ [Next]_vars => [Book!Next]_(Book!vars)
<1> SUFFICES ASSUME IInv, [Next]_vars
             PROVE  [Book!Next]_(Book!vars)
  OBVIOUS
<1>1. CASE Dies
  <2>1. Leaving' = {}
    BY <1>1 DEF Dies, Leaving, At, Doing
  <2>2. Owner' = Owner
    BY <1>1 DEF Dies, database, Owner
  <2>3. Book!Dies
    BY <1>1, <2>1, <2>2 DEF Dies, NoRecords, Owner, Book!Dies
  <2> QED
    BY <2>3 DEF Book!Next
<1>2. CASE Tick
  <2>1. Leaving' = Leaving /\ Owner' = Owner
    BY <1>2 DEF Tick, database, Leaving, At, Doing, Owner
  <2>2. Book!Tick
    BY <1>2, <2>1 DEF Tick, Owner, Book!Tick
  <2> QED
    BY <2>2 DEF Book!Next
<1>3. CASE Starts
  <2>1. Leaving' = Leaving /\ Owner' = Owner
    BY <1>3 DEF Starts, data, database, Leaving, At, Doing, Owner
  <2>2. Book!Starts
    BY <1>3, <2>1 DEF Starts, data, Owner, Book!Starts, Book!data
  <2> QED
    BY <2>2 DEF Book!Next
<1>4. CASE ~Dies /\ ~Tick /\ ~Starts
  <2>1. [Book!Work]_(Book!data)
    BY <1>4, Steps, BookWork DEF IInv
  <2>2. up' = up /\ (up \/ UNCHANGED vars)
    BY <1>4 DEF Next, PruneStep, vars
  <2>3. UNCHANGED vars => UNCHANGED Book!data
    BY DEF vars, data, database, Book!data, Leaving, At, Doing
  <2> QED
    BY <2>1, <2>2, <2>3 DEF Book!Next, Book!vars
<1> QED
  BY <1>1, <1>2, <1>3, <1>4

(* Every behaviour of this server, seen as who owns which username and     *)
(* what is registered under it, is one of the phone book of the Rust       *)
(* server (views.py:95, 183-212, registry.py:22-70).                       *)
THEOREM PhoneBookImplemented == Spec => ImplementsPhoneBook
<1>1. Spec => Book!Init /\ [][Book!Next]_(Book!vars)
  BY BookInit, BookNext, Invariant, PTL DEF Spec
<1> QED
  BY <1>1 DEF ImplementsPhoneBook, Book!Spec
=============================================================================
