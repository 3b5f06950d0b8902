-------------------------- MODULE RendezvousProofs --------------------------
(***************************************************************************)
(* Proofs about Rendezvous, for any clients, usernames, nodes, TTLs and    *)
(* bounds, with clients that hang up and servers that restart.             *)
(***************************************************************************)
EXTENDS Rendezvous, TLAPS

USE RendezvousAssumption

(* The handler a request is in says which fields it has.                   *)
LEMMA Kinds ==
  ASSUME NEW r \in Request
  PROVE  /\ r.op = "signup" => r \in Signup
         /\ r.op \in {"verify", "login"} => r \in Visit
         /\ r.op \in {"register", "deregister"} => r \in Listing
BY DEF Request, Signup, Visit, Listing

(* A step, but for the start of the server, as the handlers see it: most   *)
(* lemmas need nothing of up.                                              *)
Step == \/ \E c \in Clients : Arrival(c) \/ Handler(c)
        \/ PruneStep
        \/ Tick
        \/ Dies

Moves == [Step]_data /\ up' \in BOOLEAN

USE DEF Moves

LEMMA Steps == TypeOK /\ [Next]_vars => Moves
<1>1. TypeOK /\ [Next]_vars => up' \in BOOLEAN
  BY DEF Next, PruneStep, Tick, Dies, Starts, vars, TypeOK
<1>2. [Next]_vars => [Step]_data
  BY DEF Next, Step, Starts, vars
<1> QED
  BY <1>1, <1>2

LEMMA InvInit == Init => IInv
<1> SUFFICES ASSUME Init PROVE IInv
  OBVIOUS
<1>1. TypeOK
  BY DEF Init, TypeOK, NoTokens, NoRecords, Asleep, Prune
<1>2. EmailsDiffer /\ SessionOwners /\ OwnersOnly
  BY DEF Init, EmailsDiffer, SessionOwners, OwnersOnly, NoTokens, NoRecords
<1>3. RequestInv /\ IssuedInv /\ PruneInv
  BY DEF Init, RequestInv, IssuedInv, PruneInv, NoTokens, Asleep
<1> QED
  BY <1>1, <1>2, <1>3 DEF IInv

-----------------------------------------------------------------------------
(* Types.  A step of a handler leaves all other requests alone.            *)

LEMMA ContinueType ==
  ASSUME NEW c \in Clients, NEW q \in Request \cup {None}, TypeOK
  PROVE  [req EXCEPT ![c] = q] \in [Clients -> Request \cup {None}]
BY DEF TypeOK

LEMMA TypeNext == TypeOK /\ Moves => TypeOK'
<1> SUFFICES ASSUME TypeOK, Moves PROVE TypeOK'
  OBVIOUS
<1> USE DEF Continue, Reply
<1>1. ASSUME NEW c \in Clients, Reply(c)
      PROVE  req' \in [Clients -> Request \cup {None}]
  BY <1>1, ContinueType
<1>2. ASSUME NEW c \in Clients, NEW u \in Users, NEW e \in Emails,
             SignupArrives(c, u, e)
      PROVE  TypeOK'
  <2>1. PICK q : q = [op |-> "signup", at |-> "insert", user |-> u, email |-> e,
                      vtoken |-> IF AutoApprove THEN None ELSE issued + 1]
    OBVIOUS
  <2>2. AutoApprove \/ issued + 1 \in Tokens
    BY <1>2 DEF SignupArrives, TypeOK, Tokens
  <2>3. q \in Request
    BY <2>1, <2>2 DEF Request, Signup
  <2>4. req' \in [Clients -> Request \cup {None}]
    BY <1>2, <2>1, <2>3, ContinueType DEF SignupArrives
  <2>5. issued' \in 0 .. MaxTokens
    BY <1>2 DEF SignupArrives, TypeOK
  <2> QED
    BY <1>2, <2>4, <2>5 DEF SignupArrives, TypeOK
<1>3. ASSUME NEW c \in Clients, SignupInserts(c)
      PROVE  TypeOK'
  <2>1. req[c] \in Signup
    BY <1>3, Kinds DEF SignupInserts, At, TypeOK
  <2>2. PICK q : q = [req[c] EXCEPT !.at = "token"]
    OBVIOUS
  <2>3. q \in Request
    BY <2>1, <2>2 DEF Request, Signup
  <2>4. req' \in [Clients -> Request \cup {None}]
    BY <1>1, <1>3, <2>2, <2>3, ContinueType DEF SignupInserts, Insert
  <2>5. PICK a : a = [owner |-> PersonOf[c], email |-> req[c].email,
                      status |-> IF AutoApprove THEN "approved" ELSE "pending",
                      vtoken |-> req[c].vtoken]
    OBVIOUS
  <2>6. a \in Account
    BY <2>1, <2>5 DEF Signup, Account
  <2>7. users' = [users EXCEPT ![req[c].user] = a]
    BY <1>3, <2>5 DEF SignupInserts, Insert
  <2>8. users' \in [Users -> Account \cup {None}]
    BY <2>6, <2>7 DEF TypeOK
  <2> QED
    BY <1>3, <2>4, <2>8 DEF SignupInserts, Insert, TypeOK
<1>4. ASSUME NEW c \in Clients,
             SignupRefused(c) \/ AuthRefused(c) \/ Cancel(c)
      PROVE  TypeOK'
  BY <1>1, <1>4 DEF SignupRefused, AuthRefused, Cancel, TypeOK
<1>5. ASSUME NEW c \in Clients, SignupStoresToken(c)
      PROVE  TypeOK'
  <2>1. req[c] \in Signup
    BY <1>5, Kinds DEF SignupStoresToken, At, TypeOK
  <2>2. verify' \in [Tokens -> Users \cup {None}]
    BY <1>5, <2>1 DEF SignupStoresToken, Signup, TypeOK
  <2> QED
    BY <1>1, <1>5, <2>2 DEF SignupStoresToken, TypeOK
<1>6. ASSUME NEW c \in Clients, NEW t \in Tokens, VerifyTakes(c, t)
      PROVE  TypeOK'
  <2>1. [op |-> "verify", user |-> verify[t]] \in Request
    BY <1>6 DEF VerifyTakes, TypeOK, Request, Visit
  <2>2. req' \in [Clients -> Request \cup {None}]
    BY <1>6, <2>1, ContinueType DEF VerifyTakes
  <2> QED
    BY <1>6, <2>2 DEF VerifyTakes, TypeOK
<1>7. ASSUME NEW c \in Clients, VerifyApproves(c)
      PROVE  TypeOK'
  <2>1. req[c] \in Visit
    BY <1>7, Kinds DEF VerifyApproves, TypeOK
  <2>2. PICK a \in Account \cup {None} : users' = [users EXCEPT ![req[c].user] = a]
    <3>1. users[req[c].user] \in Account \cup {None}
      BY <2>1 DEF Visit, TypeOK
    <3>2. ASSUME users[req[c].user] # None
          PROVE  [users[req[c].user] EXCEPT !.status = "approved", !.vtoken = None]
                    \in Account
      BY <3>1, <3>2 DEF Account
    <3> QED
      BY <1>7, <3>1, <3>2 DEF VerifyApproves
  <2>3. users' \in [Users -> Account \cup {None}]
    BY <2>2 DEF TypeOK
  <2> QED
    BY <1>1, <1>7, <2>3 DEF VerifyApproves, TypeOK
<1>8. ASSUME NEW c \in Clients, NEW u \in Users, LoginReads(c, u)
      PROVE  TypeOK'
  <2>1. [op |-> "login", user |-> u] \in Request
    BY DEF Request, Visit
  <2>2. req' \in [Clients -> Request \cup {None}]
    BY <1>8, <2>1, ContinueType DEF LoginReads
  <2> QED
    BY <1>8, <2>2 DEF LoginReads, TypeOK
<1>9. ASSUME NEW c \in Clients, NEW d \in BOOLEAN, LoginStores(c, d)
      PROVE  TypeOK'
  <2>1. issued + 1 \in Tokens /\ issued' \in 0 .. MaxTokens
    BY <1>9 DEF LoginStores, TypeOK, Tokens
  <2>2. req[c] \in Visit
    BY <1>9, Kinds DEF LoginStores, TypeOK
  <2>3. [user |-> req[c].user, expires |-> now + SessionTtl] \in Session
    BY <2>2 DEF Visit, Session, TypeOK
  <2>4. sessions' \in [Tokens -> Session \cup {None}]
    BY <1>9, <2>1, <2>3 DEF LoginStores, TypeOK
  <2>5. token' \in [Clients -> Tokens \cup {None}]
    BY <1>9, <2>1 DEF LoginStores, TypeOK
  <2> QED
    BY <1>1, <1>9, <2>1, <2>4, <2>5 DEF LoginStores, TypeOK
<1>10. ASSUME NEW c \in Clients, NEW op \in {"register", "deregister"},
              NEW u \in Users, NEW n \in Nodes, AuthSession(c, op, u, n)
       PROVE  TypeOK'
  <2>1. sessions[token[c]].user \in Users
    BY <1>10 DEF AuthSession, TypeOK, Session
  <2>2. [op |-> op, at |-> "users", as |-> sessions[token[c]].user,
         user |-> u, node |-> n, seen |-> 0] \in Request
    BY <2>1 DEF Request, Listing
  <2>3. req' \in [Clients -> Request \cup {None}]
    BY <1>10, <2>2, ContinueType DEF AuthSession
  <2> QED
    BY <1>10, <2>3 DEF AuthSession, TypeOK
<1>11. ASSUME NEW c \in Clients, AuthUser(c)
       PROVE  TypeOK'
  <2>1. req[c] \in Listing
    BY <1>11, Kinds DEF AuthUser, Checking, TypeOK
  <2>2. PICK s \in 0 .. MaxTime : s = IF req[c].op = "register" THEN now ELSE 0
    BY DEF TypeOK
  <2>3. [req[c] EXCEPT !.at = "registry", !.seen = s] \in Request
    BY <2>1 DEF Request, Listing
  <2>4. req' \in [Clients -> Request \cup {None}]
    BY <1>11, <2>2, <2>3, ContinueType DEF AuthUser, Admitted
  <2> QED
    BY <1>11, <2>4 DEF AuthUser, Admitted, TypeOK
<1>12. ASSUME NEW c \in Clients, Register(c) \/ Deregister(c)
       PROVE  TypeOK'
  <2>1. req[c] \in Listing
    BY <1>12, Kinds DEF Register, Deregister, At, TypeOK
  <2>2. [seen |-> req[c].seen, by |-> PersonOf[c]] \in Record
    BY <2>1 DEF Listing, Record
  <2>3. PICK x \in Record \cup {None} :
           registry' = [registry EXCEPT ![req[c].user][req[c].node] = x]
    BY <1>12, <2>2 DEF Register, Deregister
  <2>4. req[c].user \in Users /\ req[c].node \in Nodes
    BY <2>1 DEF Listing
  <2>5. registry' \in [Users -> [Nodes -> Record \cup {None}]]
    BY <2>3, <2>4 DEF TypeOK
  <2> QED
    BY <1>1, <1>12, <2>5 DEF Register, Deregister, TypeOK
<1>13. CASE PruneWakes
  <2>1. Cutoff \in 0 .. MaxTime
    BY DEF Cutoff, TypeOK
  <2> QED
    BY <1>13, <2>1 DEF PruneWakes, PruneWakesAt, Prune, TypeOK
<1>14. CASE PruneRegistry
  <2>1. registry' \in [Users -> [Nodes -> Record \cup {None}]]
    BY <1>14 DEF PruneRegistry, TypeOK
  <2> QED
    BY <1>14, <2>1 DEF PruneRegistry, Prune, TypeOK
<1>15. CASE PruneSessions
  <2>1. sessions' \in [Tokens -> Session \cup {None}]
    BY <1>15 DEF PruneSessions, RemoveSessions, TypeOK
  <2> QED
    BY <1>15, <2>1 DEF PruneSessions, RemoveSessions, Asleep, Prune, TypeOK
<1>16. CASE Tick
  BY <1>16 DEF Tick, TypeOK
<1>17. CASE Dies
  BY <1>17 DEF Dies, NoTokens, NoRecords, Asleep, Prune, TypeOK
<1>18. CASE UNCHANGED data
  BY <1>18 DEF data, TypeOK
<1>19. ASSUME NEW c \in Clients, Arrival(c)
       PROVE  TypeOK'
  BY <1>2, <1>6, <1>8, <1>10, <1>19 DEF Arrival
<1>20. ASSUME NEW c \in Clients, Handler(c)
       PROVE  TypeOK'
  BY <1>3, <1>4, <1>5, <1>7, <1>9, <1>11, <1>12, <1>20 DEF Handler
<1> QED
  BY <1>13, <1>14, <1>15, <1>16, <1>17, <1>18, <1>19, <1>20 DEF Step, PruneStep

-----------------------------------------------------------------------------
(* An account, once there, keeps its owner and its email, and an approved  *)
(* one stays approved: whatever a handler has read about an account holds  *)
(* for as long as the server runs.                                         *)

Stays(u) == users[u] # None =>
               /\ users'[u] # None
               /\ users'[u].owner = users[u].owner
               /\ users'[u].email = users[u].email
               /\ users[u].status = "approved" => users'[u].status = "approved"

(* Only a signup, a verification and a restart change accounts.            *)
LEMMA AccountSteps ==
  ASSUME Moves
  PROVE  \/ users' = users
         \/ \E c \in Clients : SignupInserts(c) \/ VerifyApproves(c)
         \/ Dies
<1>1. ASSUME NEW c \in Clients, Arrival(c)
      PROVE  users' = users
  BY <1>1 DEF Arrival, SignupArrives, VerifyTakes, LoginReads, AuthSession
<1>2. ASSUME NEW c \in Clients, Handler(c)
      PROVE  users' = users \/ SignupInserts(c) \/ VerifyApproves(c)
  BY <1>2 DEF Handler, SignupRefused, SignupStoresToken, LoginStores, AuthUser,
              Admitted, AuthRefused, Register, Deregister, Cancel
<1>3. PruneStep \/ Tick \/ UNCHANGED data => users' = users
  BY DEF PruneStep, PruneWakes, PruneWakesAt, PruneRegistry, PruneSessions,
         RemoveSessions, Tick, data
<1> QED
  BY <1>1, <1>2, <1>3 DEF Step

(* No step short of a restart takes anything of that back.                 *)
LEMMA AccountsStay ==
  ASSUME TypeOK, Moves, ~Dies
  PROVE  \A u \in Users : Stays(u)
<1> SUFFICES ASSUME NEW u \in Users, users[u] # None
             PROVE  Stays(u)
  BY DEF Stays
<1>1. users[u] \in Account
  BY DEF TypeOK
<1>2. ASSUME NEW c \in Clients, SignupInserts(c)
      PROVE  Stays(u)
  <2>1. req[c].user # u /\ users'[u] = users[u]
    BY <1>2 DEF SignupInserts, Insert, TypeOK
  <2> QED
    BY <2>1 DEF Stays
<1>3. ASSUME NEW c \in Clients, VerifyApproves(c)
      PROVE  Stays(u)
  <2>1. users'[u] \in {users[u],
                       [users[u] EXCEPT !.status = "approved", !.vtoken = None]}
    BY <1>3 DEF VerifyApproves, TypeOK
  <2> QED
    BY <1>1, <2>1 DEF Stays, Account
<1>4. CASE users' = users
  BY <1>4 DEF Stays
<1> QED
  BY <1>2, <1>3, <1>4, AccountSteps

-----------------------------------------------------------------------------
(* Two signups at once cannot both get an email address: it is looked for  *)
(* and the account inserted under one lock.                                *)

LEMMA EmailsNext ==
  ASSUME TypeOK, EmailsDiffer, Moves
  PROVE  EmailsDiffer'
<1>1. ASSUME NEW c \in Clients, SignupInserts(c)
      PROVE  EmailsDiffer'
  <2>1. PICK a : /\ a.email = req[c].email
                 /\ users' = [users EXCEPT ![req[c].user] = a]
    BY <1>1 DEF SignupInserts, Insert
  <2>2. \A u \in Users : users[u] # None => users[u].email # req[c].email
    BY <1>1 DEF SignupInserts, EmailTaken
  <2>3. \A u \in Users : users'[u] = IF u = req[c].user THEN a ELSE users[u]
    BY <2>1 DEF TypeOK
  <2> QED
    BY <2>1, <2>2, <2>3 DEF EmailsDiffer
<1>2. ASSUME NEW c \in Clients, VerifyApproves(c)
      PROVE  EmailsDiffer'
  <2>1. \A u \in Users : users'[u] # None => users[u] # None
    BY <1>2 DEF VerifyApproves, TypeOK
  <2>2. ~Dies \/ \A u \in Users : users'[u] = None
    BY DEF Dies
  <2>3. \A u \in Users : users'[u] # None => users'[u].email = users[u].email
    BY <2>1, <2>2, AccountsStay DEF Stays
  <2> QED
    BY <2>1, <2>3 DEF EmailsDiffer
<1>3. CASE Dies
  BY <1>3 DEF Dies, EmailsDiffer
<1>4. CASE users' = users
  BY <1>4 DEF EmailsDiffer
<1> QED
  BY <1>1, <1>2, <1>3, <1>4, AccountSteps

-----------------------------------------------------------------------------
(* Only a login that ends, prune_task and a restart change sessions.       *)

LEMMA SessionSteps ==
  ASSUME TypeOK, Moves
  PROVE  \/ sessions' = sessions /\ token' = token /\ issued' >= issued
         \/ \E c \in Clients, d \in BOOLEAN : LoginStores(c, d)
         \/ PruneSessions
         \/ Dies
<1>1. ASSUME NEW c \in Clients, Arrival(c)
      PROVE  sessions' = sessions /\ token' = token /\ issued' >= issued
  <2>1. issued' \in {issued, issued + 1}
    BY <1>1 DEF Arrival, SignupArrives, VerifyTakes, LoginReads, AuthSession
  <2>2. issued' >= issued
    BY <2>1 DEF TypeOK
  <2> QED
    BY <1>1, <2>2 DEF Arrival, SignupArrives, VerifyTakes, LoginReads, AuthSession
<1>2. ASSUME NEW c \in Clients, Handler(c)
      PROVE  \/ sessions' = sessions /\ token' = token /\ issued' = issued
             \/ \E d \in BOOLEAN : LoginStores(c, d)
  BY <1>2 DEF Handler, SignupInserts, Insert, SignupRefused, SignupStoresToken,
              VerifyApproves, AuthUser, Admitted, AuthRefused, Register,
              Deregister, Cancel
<1>3. PruneWakes \/ PruneRegistry \/ Tick \/ UNCHANGED data =>
         sessions' = sessions /\ token' = token /\ issued' = issued
  BY DEF PruneWakes, PruneWakesAt, PruneRegistry, Tick, data
<1> QED
  BY <1>1, <1>2, <1>3 DEF Step, PruneStep, TypeOK

(* A session keeps what it is until it is removed.                         *)
LEMMA PruneOnlyRemoves ==
  ASSUME TypeOK, PruneSessions
  PROVE  /\ \A t \in Tokens : sessions'[t] # None => sessions'[t] = sessions[t]
         /\ token' = token /\ users' = users /\ issued' = issued
BY DEF PruneSessions, RemoveSessions

LEMMA IssuedNext ==
  ASSUME TypeOK, IssuedInv, Moves
  PROVE  IssuedInv'
<1>1. ASSUME NEW c \in Clients, NEW d \in BOOLEAN, LoginStores(c, d)
      PROVE  IssuedInv'
  BY <1>1 DEF LoginStores, IssuedInv, TypeOK, Tokens
<1>2. CASE PruneSessions
  BY <1>2, PruneOnlyRemoves DEF IssuedInv
<1>3. CASE Dies
  BY <1>3 DEF Dies, NoTokens, IssuedInv
<1>4. CASE sessions' = sessions /\ token' = token /\ issued' >= issued
  <2>1. issued \in Nat /\ issued' \in Nat
    BY TypeNext DEF TypeOK
  <2>2. \A t \in Tokens : t <= issued => t <= issued'
    BY <1>4, <2>1 DEF Tokens
  <2> QED
    BY <1>4, <2>2 DEF IssuedInv, TypeOK
<1> QED
  BY <1>1, <1>2, <1>3, <1>4, SessionSteps

LEMMA SessionsNext ==
  ASSUME TypeOK, SessionOwners, RequestInv, IssuedInv, Moves
  PROVE  SessionOwners'
<1>1. ASSUME ~Dies,
             \A t \in Tokens : sessions'[t] # None => sessions'[t] = sessions[t],
             token' = token
      PROVE  SessionOwners'
  <2>1. \A t \in Tokens : sessions[t] # None => sessions[t].user \in Users
    BY DEF TypeOK, Session
  <2>2. ASSUME NEW t \in Tokens, sessions'[t] # None
        PROVE  Approved(sessions[t].user)'
    BY <1>1, <2>1, <2>2, AccountsStay DEF SessionOwners, Approved, Stays
  <2>3. ASSUME NEW c \in Clients, token'[c] # None, sessions'[token'[c]] # None
        PROVE  users'[sessions'[token'[c]].user].owner = PersonOf[c]
    <3>1. token[c] \in Tokens /\ sessions[token[c]] # None
                              /\ sessions'[token'[c]] = sessions[token[c]]
      BY <1>1, <2>3 DEF TypeOK
    <3>2. users[sessions[token[c]].user].owner = PersonOf[c]
          /\ Approved(sessions[token[c]].user)
      BY <3>1 DEF SessionOwners, TypeOK
    <3> QED
      BY <1>1, <2>1, <3>1, <3>2, AccountsStay DEF Approved, Stays
  <2> QED
    BY <2>2, <2>3 DEF SessionOwners
<1>2. ASSUME NEW c \in Clients, NEW d \in BOOLEAN, LoginStores(c, d)
      PROVE  SessionOwners'
  <2> DEFINE new == issued + 1
  <2>1. new \in Tokens
    BY <1>2 DEF LoginStores, TypeOK, Tokens
  <2>2. Approved(req[c].user) /\ users[req[c].user].owner = PersonOf[c]
    BY <1>2 DEF LoginStores, RequestInv
  <2>3. PICK s : s.user = req[c].user /\ sessions' = [sessions EXCEPT ![new] = s]
    BY <1>2 DEF LoginStores
  <2>4. users' = users
    BY <1>2 DEF LoginStores
  <2>5. \A e \in Clients : token'[e] = new => e = c
    BY <1>2 DEF LoginStores, IssuedInv, TypeOK, Tokens
  <2>6. \A e \in Clients : token'[e] # new => token'[e] = token[e]
    BY <1>2 DEF LoginStores, TypeOK
  <2>7. \A t \in Tokens : sessions'[t] = IF t = new THEN s ELSE sessions[t]
    BY <2>3 DEF TypeOK
  <2>8. \A t \in Tokens : sessions'[t] # None => Approved(sessions[t].user)'
    BY <2>2, <2>3, <2>4, <2>7 DEF SessionOwners, Approved
  <2>9. ASSUME NEW e \in Clients, token'[e] # None, sessions'[token'[e]] # None
        PROVE  users'[sessions'[token'[e]].user].owner = PersonOf[e]
    <3>1. CASE token'[e] = new
      BY <2>1, <2>2, <2>3, <2>4, <2>5, <2>7, <3>1
    <3>2. CASE token'[e] # new
      <4>1. token'[e] = token[e] /\ token[e] \in Tokens
        BY <2>6, <2>9, <3>2 DEF TypeOK
      <4> QED
        BY <2>4, <2>7, <2>9, <3>2, <4>1 DEF SessionOwners
    <3> QED
      BY <3>1, <3>2
  <2> QED
    BY <2>8, <2>9 DEF SessionOwners
<1>3. CASE PruneSessions
  <2>1. Dies => SessionOwners'
    BY DEF Dies, NoTokens, SessionOwners, TypeOK
  <2> QED
    BY <1>1, <1>3, <2>1, PruneOnlyRemoves
<1>4. CASE Dies
  BY <1>4, TypeNext DEF Dies, NoTokens, SessionOwners, TypeOK
<1>5. CASE ~Dies /\ sessions' = sessions /\ token' = token
  BY <1>1, <1>5
<1> QED
  BY <1>2, <1>3, <1>4, <1>5, SessionSteps

-----------------------------------------------------------------------------
(* What a request says is true when its handler takes the next lock.       *)

Sound(c) == req[c] # None =>
    /\ req[c].op = "login" =>
         Approved(req[c].user) /\ users[req[c].user].owner = PersonOf[c]
    /\ req[c].op \in {"register", "deregister"} =>
         /\ Approved(req[c].as) /\ users[req[c].as].owner = PersonOf[c]
         /\ req[c].at = "registry" => req[c].as = req[c].user
         /\ req[c].seen <= now

(* A request nobody works on stays sound.                                  *)
LEMMA SoundStays ==
  ASSUME TypeOK, Moves, ~Dies, NEW c \in Clients, Sound(c),
         req'[c] = req[c]
  PROVE  Sound(c)'
<1> SUFFICES ASSUME req[c] # None
             PROVE  Sound(c)'
  BY DEF Sound
<1>1. now' >= now /\ now \in Nat /\ now' \in Nat
  <2>1. now' \in {now, now + 1}
    BY DEF Step, Arrival, SignupArrives, VerifyTakes, LoginReads, AuthSession,
           Handler, SignupInserts, Insert, SignupRefused, SignupStoresToken,
           VerifyApproves, LoginStores, AuthUser, Admitted, AuthRefused,
           Register, Deregister, Cancel, PruneStep, PruneWakes, PruneWakesAt,
           PruneRegistry, PruneSessions, RemoveSessions, Tick, Dies, data
  <2> QED
    BY <2>1 DEF TypeOK
<1>2. CASE req[c].op = "login"
  <2>1. req[c].user \in Users
    BY <1>2, Kinds DEF TypeOK, Visit
  <2>2. Approved(req[c].user)' /\ users'[req[c].user].owner = PersonOf[c]
    BY <1>2, <2>1, AccountsStay DEF Sound, Approved, Stays
  <2> QED
    BY <1>2, <2>2 DEF Sound, Approved
<1>3. CASE req[c].op \in {"register", "deregister"}
  <2>1. req[c] \in Listing
    BY <1>3, Kinds DEF TypeOK
  <2>2. req[c].as \in Users /\ req[c].seen \in Nat
    BY <2>1 DEF Listing
  <2>3. Approved(req[c].as) /\ users[req[c].as].owner = PersonOf[c]
    BY <1>3 DEF Sound
  <2>4. users'[req[c].as] # None /\ users'[req[c].as].status = "approved"
        /\ users'[req[c].as].owner = PersonOf[c]
    BY <2>2, <2>3, AccountsStay DEF Approved, Stays
  <2>5. req[c].seen <= now'
    BY <1>1, <1>3, <2>2 DEF Sound
  <2> QED
    BY <1>3, <2>4, <2>5 DEF Sound, Approved
<1> QED
  BY <1>2, <1>3 DEF Sound

(* A handler's step changes only its own client's request.                 *)
LEMMA OthersWait ==
  ASSUME TypeOK, NEW c \in Clients, Arrival(c) \/ Handler(c)
  PROVE  \A d \in Clients \ {c} : req'[d] = req[d]
BY DEF TypeOK, Arrival, SignupArrives, VerifyTakes, LoginReads, AuthSession,
       Handler, SignupInserts, Insert, SignupRefused, SignupStoresToken,
       VerifyApproves, LoginStores, AuthUser, Admitted, AuthRefused, Register,
       Deregister, Cancel, Continue, Reply

LEMMA RequestsNext ==
  ASSUME TypeOK, SessionOwners, RequestInv, Moves
  PROVE  RequestInv'
<1>1. \A c \in Clients : Sound(c)
  BY DEF RequestInv, Sound
<1> SUFFICES ASSUME NEW c \in Clients
             PROVE  Sound(c)'
  BY DEF RequestInv, Sound
<1> USE DEF Continue, Reply
<1>2. CASE Dies
  BY <1>2 DEF Dies, Sound
<1>3. CASE ~Dies /\ req'[c] = req[c]
  BY <1>1, <1>3, SoundStays
<1>4. CASE req'[c] = None
  BY <1>4 DEF Sound
<1>5. ASSUME NEW u \in Users, NEW e \in Emails, SignupArrives(c, u, e)
      PROVE  Sound(c)'
  <2>1. req'[c].op = "signup"
    BY <1>5 DEF SignupArrives, TypeOK
  <2> QED
    BY <2>1 DEF Sound
<1>6. CASE SignupInserts(c)
  <2>1. req'[c] = None \/ req'[c].op = "signup"
    <3>1. req[c] \in Signup
      BY <1>6, Kinds DEF SignupInserts, At, TypeOK
    <3>2. [req[c] EXCEPT !.at = "token"].op = "signup"
      BY <3>1 DEF Signup
    <3> QED
      BY <1>6, <3>2 DEF SignupInserts, Insert, TypeOK
  <2> QED
    BY <2>1 DEF Sound
<1>7. ASSUME NEW t \in Tokens, VerifyTakes(c, t)
      PROVE  Sound(c)'
  <2>1. req'[c].op = "verify"
    BY <1>7 DEF VerifyTakes, TypeOK
  <2> QED
    BY <2>1 DEF Sound
<1>8. ASSUME NEW u \in Users, LoginReads(c, u)
      PROVE  Sound(c)'
  <2>1. req'[c].op = "login" /\ req'[c].user = u /\ users' = users
    BY <1>8 DEF LoginReads, TypeOK
  <2> QED
    BY <1>8, <2>1 DEF LoginReads, Sound, Approved
<1>9. ASSUME NEW op \in {"register", "deregister"}, NEW u \in Users,
             NEW n \in Nodes, AuthSession(c, op, u, n)
      PROVE  Sound(c)'
  <2>1. /\ req'[c].op = op /\ req'[c].at = "users" /\ req'[c].seen = 0
        /\ req'[c].as = sessions[token[c]].user
    BY <1>9 DEF AuthSession, TypeOK
  <2>2. token[c] \in Tokens
    BY <1>9 DEF AuthSession, TypeOK
  <2>3. /\ Approved(sessions[token[c]].user)
        /\ users[sessions[token[c]].user].owner = PersonOf[c]
    BY <1>9, <2>2 DEF AuthSession, SessionOwners
  <2>4. users' = users /\ now' = now /\ 0 <= now
    BY <1>9 DEF AuthSession, TypeOK
  <2> QED
    BY <2>1, <2>3, <2>4 DEF Sound, Approved
<1>10. CASE AuthUser(c)
  <2>1. req[c] \in Listing
    BY <1>10, Kinds DEF AuthUser, Checking, TypeOK
  <2>2. PICK s : s = IF req[c].op = "register" THEN now ELSE 0
    OBVIOUS
  <2>3. req'[c] = [req[c] EXCEPT !.at = "registry", !.seen = s]
    BY <1>10, <2>2 DEF AuthUser, Admitted, TypeOK
  <2>4. req'[c].op = req[c].op /\ req'[c].as = req[c].as
        /\ req'[c].user = req[c].user /\ req'[c].seen = s
    BY <2>1, <2>3 DEF Listing
  <2>5. users' = users /\ now' = now /\ s <= now
    BY <1>10, <2>2 DEF AuthUser, Admitted, TypeOK
  <2>6. /\ Approved(req[c].as) /\ users[req[c].as].owner = PersonOf[c]
        /\ req[c].as = req[c].user /\ req[c].op \in {"register", "deregister"}
    BY <1>1, <1>10 DEF AuthUser, Checking, Sound
  <2> QED
    BY <2>4, <2>5, <2>6 DEF Sound, Approved
<1>11. ASSUME NEW d \in Clients, Arrival(d) \/ Handler(d), d # c
       PROVE  req'[c] = req[c]
  BY <1>11, OthersWait
<1>12. CASE Arrival(c)
  BY <1>5, <1>7, <1>8, <1>9, <1>12 DEF Arrival
<1>13. ASSUME Handler(c)
       PROVE  SignupInserts(c) \/ AuthUser(c) \/ req'[c] = None
  BY <1>13 DEF Handler, TypeOK, SignupRefused, SignupStoresToken, VerifyApproves,
               LoginStores, AuthRefused, Register, Deregister, Cancel
<1>14. PruneStep \/ Tick \/ UNCHANGED data => req' = req
  BY DEF PruneStep, PruneWakes, PruneWakesAt, PruneRegistry, PruneSessions,
         RemoveSessions, Tick, data
<1> QED
  BY <1>2, <1>3, <1>4, <1>6, <1>10, <1>11, <1>12, <1>13, <1>14 DEF Step

-----------------------------------------------------------------------------
(* Verification.  Every other step leaves the accounts, the verification   *)
(* tokens and the requests that carry one alone; only a client that hangs  *)
(* up gives such a request up.                                             *)

Elsewhere == /\ users' = users /\ verify' = verify
             /\ issued' \in Nat /\ issued' >= issued
             /\ \A c \in Clients : Signing(c)' => req'[c] = req[c]
             /\ \A c \in Clients : Carries(c) => req'[c] = req[c] \/ Cancel(c)

LEMMA VerificationSteps ==
  ASSUME TypeOK, Moves
  PROVE  \/ \E c \in Clients, u \in Users, e \in Emails : SignupArrives(c, u, e)
         \/ \E c \in Clients : \/ SignupInserts(c) \/ SignupStoresToken(c)
                               \/ VerifyApproves(c)
         \/ \E c \in Clients, t \in Tokens : VerifyTakes(c, t)
         \/ Dies
         \/ Elsewhere
<1> USE DEF Continue, Reply
<1>1. ASSUME NEW c \in Clients, Arrival(c) \/ Handler(c),
             users' = users, verify' = verify,
             issued' = issued \/ issued' = issued + 1,
             req'[c] = None \/ req'[c].op # "signup",
             Carries(c) => Cancel(c)
      PROVE  Elsewhere
  <2>1. issued' \in Nat /\ issued' >= issued
    BY <1>1, TypeNext DEF TypeOK
  <2> QED
    BY <1>1, <2>1, OthersWait DEF Elsewhere, Signing
<1>2. ASSUME NEW c \in Clients, NEW u \in Users, LoginReads(c, u)
      PROVE  Elsewhere
  <2>1. ~Carries(c)
    BY <1>2 DEF LoginReads, Carries, At
  <2>2. req'[c].op = "login"
    BY <1>2 DEF LoginReads, TypeOK
  <2>3. users' = users /\ verify' = verify /\ issued' = issued /\ Arrival(c)
    BY <1>2 DEF LoginReads, Arrival
  <2> QED
    BY <1>1, <2>1, <2>2, <2>3
<1>3. ASSUME NEW c \in Clients, NEW op \in {"register", "deregister"},
             NEW u \in Users, NEW n \in Nodes, AuthSession(c, op, u, n)
      PROVE  Elsewhere
  <2>1. ~Carries(c)
    BY <1>3 DEF AuthSession, Carries, At
  <2>2. req'[c].op = op
    BY <1>3 DEF AuthSession, TypeOK
  <2>3. users' = users /\ verify' = verify /\ issued' = issued /\ Arrival(c)
    BY <1>3 DEF AuthSession, Arrival
  <2> QED
    BY <1>1, <2>1, <2>2, <2>3
<1>4. ASSUME NEW c \in Clients,
             \/ SignupRefused(c) \/ AuthRefused(c) \/ Register(c)
             \/ Deregister(c) \/ Cancel(c)
      PROVE  Elsewhere
  <2>1. Carries(c) => Cancel(c)
    BY <1>4 DEF SignupRefused, AuthRefused, Checking, Register, Deregister,
                Cancel, Carries, At
  <2>2. /\ req'[c] = None
        /\ users' = users /\ verify' = verify /\ issued' = issued /\ Handler(c)
    BY <1>4 DEF SignupRefused, AuthRefused, Register, Deregister, Cancel,
                Handler, TypeOK
  <2> QED
    BY <1>1, <2>1, <2>2
<1>5. ASSUME NEW c \in Clients, NEW d \in BOOLEAN, LoginStores(c, d)
      PROVE  Elsewhere
  <2>1. ~Carries(c) /\ req'[c] = None
    BY <1>5 DEF LoginStores, Carries, At, TypeOK
  <2>2. users' = users /\ verify' = verify /\ issued' = issued + 1 /\ Handler(c)
    BY <1>5 DEF LoginStores, Handler
  <2> QED
    BY <1>1, <2>1, <2>2
<1>6. ASSUME NEW c \in Clients, AuthUser(c)
      PROVE  Elsewhere
  <2>1. req[c] \in Listing
    BY <1>6, Kinds DEF AuthUser, Checking, TypeOK
  <2>2. PICK s : s = IF req[c].op = "register" THEN now ELSE 0
    OBVIOUS
  <2>3. req'[c] = [req[c] EXCEPT !.at = "registry", !.seen = s]
    BY <1>6, <2>2 DEF AuthUser, Admitted, TypeOK
  <2>4. req'[c].op = req[c].op
    BY <2>1, <2>3 DEF Listing
  <2> QED
    BY <1>1, <1>6, <2>4 DEF AuthUser, Checking, Admitted, Handler, Carries, At
<1>7. PruneStep \/ Tick \/ UNCHANGED data => Elsewhere
  BY DEF PruneStep, PruneWakes, PruneWakesAt, PruneRegistry, PruneSessions,
         RemoveSessions, Tick, data, Elsewhere, TypeOK
<1> QED
  BY <1>2, <1>3, <1>4, <1>5, <1>6, <1>7 DEF Step, Arrival, Handler

(* The request of a signup after its insertion.                            *)
LEMMA InsertedRequest ==
  ASSUME TypeOK, NEW c \in Clients, SignupInserts(c)
  PROVE  /\ req[c] \in Signup /\ req[c].user \in Users
         /\ \/ AutoApprove /\ req'[c] = None
            \/ /\ ~AutoApprove /\ req'[c] # None
               /\ req'[c].op = "signup" /\ req'[c].at = "token"
               /\ req'[c].user = req[c].user /\ req'[c].vtoken = req[c].vtoken
<1>1. req[c] \in Signup
  BY Kinds DEF SignupInserts, At, TypeOK
<1>2. ASSUME ~AutoApprove
      PROVE  /\ req'[c].op = "signup" /\ req'[c].at = "token"
             /\ req'[c].user = req[c].user /\ req'[c].vtoken = req[c].vtoken
             /\ req'[c] \in Request
  <2>1. req'[c] = [req[c] EXCEPT !.at = "token"]
    BY <1>2 DEF SignupInserts, Insert, Continue, TypeOK
  <2> QED
    BY <1>1, <2>1 DEF Signup, Request
<1>3. AutoApprove => req'[c] = None
  BY DEF SignupInserts, Insert, Reply, Continue, TypeOK
<1> QED
  BY <1>1, <1>2, <1>3 DEF Signup

(* The account it has inserted.                                            *)
LEMMA InsertedAccount ==
  ASSUME TypeOK, NEW c \in Clients, SignupInserts(c)
  PROVE  /\ users'[req[c].user] # None
         /\ users'[req[c].user].vtoken = req[c].vtoken
         /\ users'[req[c].user].status = "pending" => ~AutoApprove
         /\ \A u \in Users \ {req[c].user} : users'[u] = users[u]
<1>1. req[c] \in Signup /\ req[c].user \in Users
  BY InsertedRequest
<1>2. PICK a : a = [owner |-> PersonOf[c], email |-> req[c].email,
                    status |-> IF AutoApprove THEN "approved" ELSE "pending",
                    vtoken |-> req[c].vtoken]
  OBVIOUS
<1>3. a \in Account
  BY <1>1, <1>2 DEF Signup, Account
<1>4. users' = [users EXCEPT ![req[c].user] = a]
  BY <1>2 DEF SignupInserts, Insert
<1> QED
  BY <1>1, <1>2, <1>3, <1>4 DEF TypeOK

(* A verification takes an account out of the pending ones, or changes     *)
(* nothing of it.                                                          *)
LEMMA ApprovedAccount ==
  ASSUME TypeOK, NEW c \in Clients, VerifyApproves(c)
  PROVE  \A u \in Users :
           /\ users[u] # None <=> users'[u] # None
           /\ users'[u] = users[u] \/ users'[u].status = "approved"
           /\ u = req[c].user /\ users'[u] # None => users'[u].status # "pending"
<1> SUFFICES ASSUME NEW u \in Users
             PROVE  /\ users[u] # None <=> users'[u] # None
                    /\ users'[u] = users[u] \/ users'[u].status = "approved"
                    /\ u = req[c].user /\ users'[u] # None
                         => users'[u].status # "pending"
  OBVIOUS
<1>1. CASE u # req[c].user \/ users[u] = None \/ users[u].status # "pending"
  BY <1>1 DEF VerifyApproves, TypeOK
<1>2. CASE u = req[c].user /\ users[u] # None /\ users[u].status = "pending"
  <2>1. users'[u] = [users[u] EXCEPT !.status = "approved", !.vtoken = None]
    BY <1>2 DEF VerifyApproves, TypeOK
  <2>2. users[u] \in Account
    BY <1>2 DEF TypeOK
  <2>3. users'[u] \in Account /\ users'[u].status = "approved"
    BY <2>1, <2>2 DEF Account
  <2> QED
    BY <1>2, <2>3
<1> QED
  BY <1>1, <1>2

LEMMA VerifyNext ==
  ASSUME TypeOK, VerifyInv, Moves
  PROVE  VerifyInv'
<1>0. TypeOK'
  BY TypeNext
<1> USE DEF Continue, Reply
<1>1. ASSUME NEW c \in Clients, NEW u \in Users, NEW e \in Emails,
             SignupArrives(c, u, e)
      PROVE  VerifyInv'
  <2>1. /\ req'[c].vtoken = IF AutoApprove THEN None ELSE issued + 1
        /\ req'[c].at = "insert"
        /\ users' = users /\ verify' = verify
        /\ issued' = IF AutoApprove THEN issued ELSE issued + 1
    BY <1>1 DEF SignupArrives, TypeOK
  <2>2. \A d \in Clients \ {c} : req'[d] = req[d]
    BY <1>1 DEF SignupArrives, TypeOK
  <2>3. ~AutoApprove => issued + 1 \in Tokens
    BY <1>1 DEF SignupArrives, TypeOK, Tokens
  <2>4. issued \in Nat /\ \A t \in Tokens : t \in Nat /\ t # None
    BY DEF TypeOK, Tokens
  <2>5. \A d \in Clients : Signing(d) => req[d].vtoken \in Tokens \cup {None}
    BY Kinds DEF Signing, Signup, TypeOK
  <2>6. verify[issued + 1] = None \/ AutoApprove
    BY <2>3, <2>4 DEF VerifyInv
  <2>7. \A d \in Clients : Signing(d) /\ req[d].vtoken # None
           => req[d].vtoken <= issued /\ req[d].vtoken \in Nat
    BY <2>4, <2>5 DEF VerifyInv
  <2>8. \A t \in Tokens : verify'[t] # None => t <= issued'
    BY <2>1, <2>4 DEF VerifyInv
  <2>9. ASSUME NEW d \in Clients, Signing(d)'
        PROVE  /\ req'[d].vtoken = None <=> AutoApprove
               /\ req'[d].vtoken # None =>
                    req'[d].vtoken <= issued' /\ verify'[req'[d].vtoken] = None
               /\ req'[d].at = "token" =>
                    /\ ~AutoApprove
                    /\ users'[req'[d].user] # None
                    /\ users'[req'[d].user].status = "pending"
                         => users'[req'[d].user].vtoken = req'[d].vtoken
    <3>1. CASE d = c
      BY <3>1, <2>1, <2>3, <2>4, <2>6
    <3>2. CASE d # c
      <4>1. req'[d] = req[d] /\ Signing(d)
        BY <2>2, <2>9, <3>2 DEF Signing
      <4>2. req[d].vtoken # None => req[d].vtoken <= issued'
        BY <2>1, <2>4, <2>7, <4>1
      <4> QED
        BY <2>1, <4>1, <4>2 DEF VerifyInv
    <3> QED
      BY <3>1, <3>2
  <2>10. ASSUME NEW d \in Clients, NEW b \in Clients, d # b,
                Signing(d)', Signing(b)', req'[d].vtoken # None
         PROVE  req'[d].vtoken # req'[b].vtoken
    <3>1. \A x \in Clients \ {c} : Signing(x)' => Signing(x)
      BY <2>2 DEF Signing
    <3>2. CASE d # c /\ b # c
      BY <2>2, <2>10, <3>1, <3>2 DEF VerifyInv
    <3>3. CASE d = c
      BY <2>1, <2>2, <2>4, <2>7, <2>10, <3>1, <3>3
    <3>4. CASE b = c
      BY <2>1, <2>2, <2>4, <2>7, <2>10, <3>1, <3>4
    <3> QED
      BY <3>2, <3>3, <3>4
  <2> QED
    BY <2>1, <2>8, <2>9, <2>10 DEF VerifyInv
<1>2. ASSUME NEW c \in Clients, SignupInserts(c)
      PROVE  VerifyInv'
  <2>1. verify' = verify /\ issued' = issued /\ Signing(c) /\ users[req[c].user] = None
    BY <1>2 DEF SignupInserts, Insert, At, Signing
  <2>2. \A d \in Clients \ {c} : req'[d] = req[d]
    BY <1>2, OthersWait DEF Handler
  <2>3. \A d \in Clients \ {c} : Signing(d) /\ req[d].at = "token"
           => req[d].user # req[c].user
    BY <2>1 DEF VerifyInv
  <2>4. \A d \in Clients : Signing(d) => req[d].user \in Users
    BY Kinds DEF Signing, Signup, TypeOK
  <2>5. \A d \in Clients : Signing(d)' => Signing(d) /\ req'[d].vtoken = req[d].vtoken
    BY <1>2, <2>1, <2>2, InsertedRequest DEF Signing
  <2>6. ASSUME NEW d \in Clients, Signing(d)', req'[d].at = "token"
        PROVE  /\ ~AutoApprove
               /\ users'[req'[d].user] # None
               /\ users'[req'[d].user].status = "pending"
                    => users'[req'[d].user].vtoken = req'[d].vtoken
    <3>1. CASE d = c
      BY <1>2, <2>6, <3>1, InsertedRequest, InsertedAccount DEF Signing
    <3>2. CASE d # c
      BY <1>2, <2>2, <2>3, <2>4, <2>5, <2>6, <3>2, InsertedAccount DEF VerifyInv
    <3> QED
      BY <3>1, <3>2
  <2>7. ASSUME NEW u \in Users, users'[u] # None, users'[u].status = "pending"
        PROVE  users'[u].vtoken # None
    BY <1>2, <2>1, <2>7, InsertedAccount DEF VerifyInv
  <2> QED
    BY <2>1, <2>5, <2>6, <2>7 DEF VerifyInv
<1>3. ASSUME NEW c \in Clients, SignupStoresToken(c)
      PROVE  VerifyInv'
  <2>1. /\ users' = users /\ issued' = issued /\ ~Signing(c)' /\ Signing(c)
        /\ verify' = [verify EXCEPT ![req[c].vtoken] = req[c].user]
    BY <1>3 DEF SignupStoresToken, At, Signing, TypeOK
  <2>2. \A d \in Clients \ {c} : req'[d] = req[d]
    BY <1>3, OthersWait DEF Handler
  <2>3. req[c].vtoken # None /\ req[c].vtoken <= issued
    BY <1>3, <2>1 DEF VerifyInv, SignupStoresToken, At
  <2>4. \A d \in Clients : Signing(d)' =>
           /\ Signing(d) /\ req'[d] = req[d]
           /\ req[d].vtoken # None => req[d].vtoken # req[c].vtoken
    BY <2>1, <2>2 DEF Signing, VerifyInv
  <2>5. \A t \in Tokens : verify'[t] # None => t <= issued
    BY <2>1, <2>3 DEF VerifyInv, TypeOK
  <2>6. \A d \in Clients : Signing(d)' /\ req'[d].vtoken # None
           => req'[d].vtoken <= issued /\ verify'[req'[d].vtoken] = None
    BY <2>1, <2>4 DEF VerifyInv, TypeOK
  <2> QED
    BY <2>1, <2>4, <2>5, <2>6 DEF VerifyInv
<1>4. ASSUME NEW c \in Clients, NEW t \in Tokens, VerifyTakes(c, t)
      PROVE  VerifyInv'
  <2>1. /\ users' = users /\ issued' = issued /\ ~Signing(c)'
        /\ verify' = [verify EXCEPT ![t] = None]
    BY <1>4 DEF VerifyTakes, Signing, TypeOK
  <2>2. \A d \in Clients : Signing(d)' => Signing(d) /\ req'[d] = req[d]
    BY <1>4, <2>1, OthersWait DEF Arrival, Signing
  <2>3. \A s : verify[s] = None => verify'[s] = None
    BY <2>1 DEF TypeOK
  <2> QED
    BY <2>1, <2>2, <2>3 DEF VerifyInv, TypeOK
<1>5. ASSUME NEW c \in Clients, VerifyApproves(c)
      PROVE  VerifyInv'
  <2>1. verify' = verify /\ issued' = issued /\ ~Signing(c)'
    BY <1>5 DEF VerifyApproves, Signing, TypeOK
  <2>2. \A d \in Clients : Signing(d)' => Signing(d) /\ req'[d] = req[d]
    BY <1>5, <2>1, OthersWait DEF Handler, Signing
  <2>3. \A d \in Clients : Signing(d) => req[d].user \in Users
    BY Kinds DEF Signing, Signup, TypeOK
  <2> QED
    BY <1>5, <2>1, <2>2, <2>3, ApprovedAccount DEF VerifyInv
<1>6. CASE Dies
  BY <1>6 DEF Dies, NoTokens, VerifyInv, Signing
<1>7. CASE Elsewhere
  <2>1. \A d \in Clients : Signing(d)' => Signing(d) /\ req'[d] = req[d]
    BY <1>7 DEF Elsewhere, Signing
  <2>2. issued \in Nat /\ \A t \in Tokens : t \in Nat
    BY DEF TypeOK, Tokens
  <2>3. \A d \in Clients : Signing(d) => req[d].vtoken \in Tokens \cup {None}
    BY Kinds DEF Signing, Signup, TypeOK
  <2>4. \A t \in Tokens : t <= issued => t <= issued'
    BY <1>7, <2>2 DEF Elsewhere
  <2> QED
    BY <1>7, <2>1, <2>3, <2>4 DEF Elsewhere, VerifyInv
<1> QED
  BY <1>1, <1>2, <1>3, <1>4, <1>5, <1>6, <1>7, VerificationSteps

(* Whoever gives up a request that carries a token has handed the token on *)
(* in the same step, unless he hangs up.                                   *)
Waits(u) == \E c \in Clients : Carries(c) /\ req[c].user = u
Abandons(u) == \E c \in Clients : Cancel(c) /\ Carries(c) /\ req[c].user = u

LEMMA VerifiableNext ==
  ASSUME TypeOK, VerifyInv, Moves, NEW u \in Users, Verifiable(u), ~Abandons(u)
  PROVE  Verifiable(u)'
<1>0. users[u] # None /\ users[u].status = "pending"
         => verify[users[u].vtoken] = u \/ Waits(u)
  BY Zenon DEF Verifiable, Waits
<1>1. SUFFICES ASSUME users'[u] # None, users'[u].status = "pending"
               PROVE  verify'[users'[u].vtoken] = u \/ Waits(u)'
  BY Zenon DEF Verifiable, Waits
<1> USE DEF Continue, Reply
<1>2. ASSUME users'[u] = users[u], UNCHANGED verify,
             \A c \in Clients : Carries(c) => req'[c] = req[c] \/ Cancel(c)
      PROVE  verify'[users'[u].vtoken] = u \/ Waits(u)'
  BY <1>0, <1>1, <1>2 DEF Waits, Abandons, Carries, At
<1>3. ASSUME NEW c \in Clients, NEW v \in Users, NEW e \in Emails,
             SignupArrives(c, v, e)
      PROVE  verify'[users'[u].vtoken] = u \/ Waits(u)'
  BY <1>2, <1>3 DEF SignupArrives, Carries, At, TypeOK
<1>4. ASSUME NEW c \in Clients, SignupInserts(c)
      PROVE  verify'[users'[u].vtoken] = u \/ Waits(u)'
  <2>1. CASE u = req[c].user
    <3>1. Carries(c)' /\ req'[c].user = u
      BY <1>1, <1>4, <2>1, InsertedAccount, InsertedRequest DEF Carries, At
    <3> QED
      BY <3>1 DEF Waits
  <2>2. CASE u # req[c].user
    <3>1. users'[u] = users[u] /\ verify' = verify
      BY <1>4, <2>2, InsertedAccount DEF SignupInserts, Insert
    <3>2. ~Carries(c)
      BY <1>4 DEF SignupInserts, Carries, At
    <3> QED
      BY <1>2, <1>4, <3>1, <3>2, OthersWait DEF Handler
  <2> QED
    BY <2>1, <2>2
<1>5. ASSUME NEW c \in Clients, SignupStoresToken(c)
      PROVE  verify'[users'[u].vtoken] = u \/ Waits(u)'
  <2>1. /\ users' = users /\ Signing(c) /\ req[c].at = "token"
        /\ verify' = [verify EXCEPT ![req[c].vtoken] = req[c].user]
    BY <1>5 DEF SignupStoresToken, At, Signing
  <2>2. \A d \in Clients \ {c} : req'[d] = req[d]
    BY <1>5, OthersWait DEF Handler
  <2>3. req[c].vtoken \in Tokens
    BY <2>1, Kinds DEF Signing, Signup, VerifyInv, TypeOK
  <2>4. CASE req[c].user = u
    <3>1. users[u].vtoken = req[c].vtoken
      BY <1>1, <2>1, <2>4 DEF VerifyInv
    <3> QED
      BY <2>1, <2>3, <2>4, <3>1 DEF TypeOK
  <2>5. CASE req[c].user # u /\ verify[users[u].vtoken] = u
    <3>1. verify[req[c].vtoken] = None
      BY <2>1, <2>3 DEF VerifyInv, Tokens
    <3>2. users[u].vtoken # req[c].vtoken
      BY <2>5, <3>1
    <3> QED
      BY <1>1, <2>1, <2>3, <2>5, <3>2 DEF TypeOK, Account, VerifyInv
  <2>6. CASE req[c].user # u /\ Waits(u)
    BY <2>2, <2>6 DEF Waits, Carries, At
  <2> QED
    BY <1>0, <1>1, <2>1, <2>4, <2>5, <2>6
<1>6. ASSUME NEW c \in Clients, NEW t \in Tokens, VerifyTakes(c, t)
      PROVE  verify'[users'[u].vtoken] = u \/ Waits(u)'
  <2>1. /\ users' = users /\ ~Carries(c)
        /\ verify' = [verify EXCEPT ![t] = None]
    BY <1>6 DEF VerifyTakes, Carries, At
  <2>2. /\ req'[c] # None /\ req'[c].op = "verify" /\ req'[c].user = verify[t]
        /\ \A d \in Clients \ {c} : req'[d] = req[d]
    <3>1. req'[c] = [op |-> "verify", user |-> verify[t]]
      BY <1>6 DEF VerifyTakes, TypeOK
    <3>2. [op |-> "verify", user |-> verify[t]] \in Request
      BY <1>6 DEF VerifyTakes, TypeOK, Request, Visit
    <3> QED
      BY <1>6, <3>1, <3>2, OthersWait DEF Arrival
  <2>3. CASE users[u].vtoken = t /\ verify[t] = u
    BY <2>2, <2>3 DEF Waits, Carries
  <2>4. CASE users[u].vtoken # t /\ verify[users[u].vtoken] = u
    BY <1>1, <2>1, <2>4 DEF TypeOK, Account, VerifyInv
  <2>5. CASE Waits(u)
    BY <2>1, <2>2, <2>5 DEF Waits, Carries, At
  <2> QED
    BY <1>0, <1>1, <2>1, <2>3, <2>4, <2>5
<1>7. ASSUME NEW c \in Clients, VerifyApproves(c)
      PROVE  verify'[users'[u].vtoken] = u \/ Waits(u)'
  <2>1. users'[u] = users[u] /\ u # req[c].user /\ verify' = verify
    BY <1>1, <1>7, ApprovedAccount DEF VerifyApproves
  <2>2. \A d \in Clients \ {c} : req'[d] = req[d]
    BY <1>7, OthersWait DEF Handler
  <2> QED
    BY <1>0, <1>1, <2>1, <2>2 DEF Waits, Carries, At
<1>8. CASE Dies
  BY <1>1, <1>8 DEF Dies
<1>9. CASE Elsewhere
  BY <1>2, <1>9 DEF Elsewhere
<1> QED
  BY <1>3, <1>4, <1>5, <1>6, <1>7, <1>8, <1>9, VerificationSteps

-----------------------------------------------------------------------------
(* The registry.                                                           *)

(* Only these steps change it.                                             *)
LEMMA RegistrySteps ==
  ASSUME Moves
  PROVE  \/ registry' = registry
         \/ \E c \in Clients : Register(c) \/ Deregister(c)
         \/ PruneRegistry
         \/ Dies
<1>1. ASSUME NEW c \in Clients, Arrival(c)
      PROVE  registry' = registry
  BY <1>1 DEF Arrival, SignupArrives, VerifyTakes, LoginReads, AuthSession
<1>2. ASSUME NEW c \in Clients, Handler(c)
      PROVE  registry' = registry \/ Register(c) \/ Deregister(c)
  BY <1>2 DEF Handler, SignupInserts, Insert, SignupRefused, SignupStoresToken,
              VerifyApproves, LoginStores, AuthUser, Admitted, AuthRefused, Cancel
<1>3. PruneWakes \/ PruneSessions \/ Tick \/ UNCHANGED data => registry' = registry
  BY DEF PruneWakes, PruneWakesAt, PruneSessions, RemoveSessions, Tick, data
<1> QED
  BY <1>1, <1>2, <1>3 DEF Step, PruneStep

(* What a request to the registry is about, and who sent it.               *)
LEMMA Listed ==
  ASSUME TypeOK, RequestInv, NEW c \in Clients,
         At(c, "register", "registry") \/ At(c, "deregister", "registry")
  PROVE  /\ req[c] \in Listing
         /\ req[c].user \in Users /\ req[c].node \in Nodes
         /\ req[c].seen \in 0 .. MaxTime /\ req[c].seen <= now
         /\ Approved(req[c].user) /\ users[req[c].user].owner = PersonOf[c]
<1>1. req[c] \in Listing
  BY Kinds DEF At, TypeOK
<1>2. /\ Approved(req[c].as) /\ users[req[c].as].owner = PersonOf[c]
      /\ req[c].as = req[c].user /\ req[c].seen <= now
  BY DEF At, RequestInv
<1> QED
  BY <1>1, <1>2 DEF Listing

LEMMA OwnersNext ==
  ASSUME TypeOK, OwnersOnly, RequestInv, Moves
  PROVE  OwnersOnly'
<1>1. CASE Dies
  BY <1>1 DEF Dies, NoRecords, OwnersOnly
<1> SUFFICES ASSUME ~Dies, NEW u \in Users, NEW n \in Nodes,
                    registry'[u][n] # None
             PROVE  /\ Approved(u)'
                    /\ registry'[u][n].by = users'[u].owner
  BY <1>1 DEF OwnersOnly
<1>2. ASSUME registry'[u][n] = registry[u][n]
      PROVE  /\ Approved(u)'
             /\ registry'[u][n].by = users'[u].owner
  <2>1. Approved(u) /\ registry[u][n].by = users[u].owner
    BY <1>2 DEF OwnersOnly
  <2> QED
    BY <1>2, <2>1, AccountsStay DEF Approved, Stays
<1>3. ASSUME NEW c \in Clients, Register(c), registry'[u][n] # registry[u][n]
      PROVE  /\ Approved(u)'
             /\ registry'[u][n].by = users'[u].owner
  <2>1. req[c].user \in Users /\ req[c].node \in Nodes
        /\ Approved(req[c].user) /\ users[req[c].user].owner = PersonOf[c]
    BY <1>3, Listed DEF Register
  <2>2. PICK r : r.by = PersonOf[c]
                 /\ registry' = [registry EXCEPT ![req[c].user][req[c].node] = r]
    BY <1>3 DEF Register
  <2>3. u = req[c].user /\ registry'[u][n] = r
    BY <1>3, <2>1, <2>2 DEF TypeOK
  <2>4. users' = users
    BY <1>3 DEF Register
  <2> QED
    BY <2>1, <2>2, <2>3, <2>4 DEF Approved
<1>4. ASSUME NEW c \in Clients, Deregister(c)
      PROVE  registry'[u][n] = registry[u][n]
  <2>1. registry' = [registry EXCEPT ![req[c].user][req[c].node] = None]
    BY <1>4 DEF Deregister
  <2> QED
    BY <2>1 DEF TypeOK
<1>5. PruneRegistry => registry'[u][n] = registry[u][n]
  BY DEF PruneRegistry
<1> QED
  BY <1>2, <1>3, <1>4, <1>5, RegistrySteps

LEMMA PruneNext ==
  ASSUME TypeOK, PruneInv, Moves
  PROVE  PruneInv'
<1>1. CASE PruneWakes
  BY <1>1 DEF PruneWakes, PruneWakesAt, PruneInv, Cutoff, TypeOK
<1>2. CASE PruneRegistry
  BY <1>2 DEF PruneRegistry, PruneInv, TypeOK
<1>3. CASE PruneSessions \/ Dies
  BY <1>3 DEF PruneSessions, RemoveSessions, Dies, Asleep, PruneInv
<1>4. CASE Tick
  <2>1. now' = now + 1 /\ prune' = prune /\ now \in Nat
    BY <1>4 DEF Tick, TypeOK
  <2>2. Cutoff <= Cutoff' /\ Cutoff \in Nat /\ Cutoff' \in Nat
    BY <2>1 DEF Cutoff
  <2>3. prune.time \in Nat
    BY DEF TypeOK, Prune
  <2> QED
    BY <2>1, <2>2, <2>3 DEF PruneInv
<1>5. CASE prune' = prune /\ now' = now
  BY <1>5 DEF PruneInv, Cutoff
<1>6. ASSUME NEW c \in Clients, Arrival(c) \/ Handler(c)
      PROVE  prune' = prune /\ now' = now
  BY <1>6 DEF Arrival, SignupArrives, VerifyTakes, LoginReads, AuthSession,
           Handler, SignupInserts, Insert, SignupRefused, SignupStoresToken,
           VerifyApproves, LoginStores, AuthUser, Admitted, AuthRefused,
           Register, Deregister, Cancel
<1> QED
  BY <1>1, <1>2, <1>3, <1>4, <1>5, <1>6 DEF Step, PruneStep, data

-----------------------------------------------------------------------------

LEMMA InvNext == IInv /\ [Next]_vars => IInv'
BY Steps, TypeNext, EmailsNext, SessionsNext, OwnersNext, RequestsNext, IssuedNext,
   PruneNext DEF IInv

(* The invariant holds whatever handlers, prune_task, clients that hang up *)
(* and restarts do between one lock and the next.                          *)
THEOREM Invariant == Spec => []IInv
<1> QED
  BY InvInit, InvNext, PTL DEF Spec

(* Every map, request and token has its type.                              *)
THEOREM TypeCorrect == Spec => []TypeOK
<1>1. IInv => TypeOK
  BY DEF IInv
<1> QED
  BY <1>1, Invariant, PTL

(* No two accounts share an email address (signup, main.rs:244).           *)
THEOREM EmailsUnique == Spec => []EmailsDiffer
<1>1. IInv => EmailsDiffer
  BY DEF IInv
<1> QED
  BY <1>1, Invariant, PTL

(* A session is of an approved account and only its owner holds its token. *)
THEOREM SessionsOwned == Spec => []SessionOwners
<1>1. IInv => SessionOwners
  BY DEF IInv
<1> QED
  BY <1>1, Invariant, PTL

(* Only the owner of a username registers nodes under it (authenticate and *)
(* the comparison after it, main.rs:404).                                  *)
THEOREM RegistryOwned == Spec => []OwnersOnly
<1>1. IInv => OwnersOnly
  BY DEF IInv
<1> QED
  BY <1>1, Invariant, PTL

(* An account that waits for verification stays one that can be verified,  *)
(* through every interleaving of its signup and its verification with      *)
(* other handlers, every hang-up of other clients and every restart; only  *)
(* the client whose own handler has the token in its hands can lose it, by *)
(* hanging up (main.rs:244-277, 296-323).                                  *)
THEOREM NothingElseStrands == Spec => OnlyHangUpStrands
<1> DEFINE Kept == \A u \in Users : Verifiable(u) =>
             \/ Verifiable(u)'
             \/ \E c \in Clients : Cancel(c) /\ Carries(c) /\ req[c].user = u
<1>1. Init => VerifyInv
  BY DEF Init, NoTokens, VerifyInv, Signing
<1>2. IInv /\ VerifyInv /\ [Next]_vars => VerifyInv'
  BY VerifyNext, Steps DEF IInv
<1>3. IInv /\ VerifyInv /\ [Next]_vars => Kept
  BY VerifiableNext, Steps DEF IInv, Abandons
<1>4. Spec => [][Kept]_vars
  BY <1>1, <1>2, <1>3, Invariant, PTL DEF Spec
<1> QED
  BY <1>4 DEF OnlyHangUpStrands

(* prune_task takes no session from a client that authenticate would still *)
(* accept in a second's time.                                              *)
THEOREM SessionsLast == Spec => SessionsKept
<1> DEFINE Kept == \A t \in Tokens : sessions[t] # None /\ sessions'[t] = None =>
                     sessions[t].expires <= now \/ Dies
<1>1. ASSUME IInv, Moves
      PROVE  Kept
  <2>1. ASSUME NEW c \in Clients, NEW d \in BOOLEAN, LoginStores(c, d)
        PROVE  Kept
    <3>1. PICK s \in Session : sessions' = [sessions EXCEPT ![issued + 1] = s]
      <4>1. req[c] \in Visit
        BY <1>1, <2>1, Kinds DEF LoginStores, IInv, TypeOK
      <4>2. [user |-> req[c].user, expires |-> now + SessionTtl] \in Session
        BY <1>1, <4>1 DEF IInv, TypeOK, Visit, Session
      <4> QED
        BY <2>1, <4>2 DEF LoginStores
    <3>2. s # None
      BY DEF Session
    <3> QED
      BY <1>1, <3>1, <3>2 DEF IInv, TypeOK
  <2>2. CASE PruneSessions
    <3>1. prune.time <= now /\ prune.time \in Nat /\ now \in Nat
      BY <1>1, <2>2 DEF PruneSessions, RemoveSessions, IInv, PruneInv, TypeOK, Prune
    <3>2. ASSUME NEW t \in Tokens, sessions[t] # None, sessions'[t] = None
          PROVE  sessions[t].expires <= now
      <4>1. sessions[t].expires \in Nat
        BY <1>1, <3>2 DEF IInv, TypeOK, Session
      <4>2. sessions[t].expires <= prune.time
        BY <2>2, <3>2 DEF PruneSessions, RemoveSessions
      <4> QED
        BY <3>1, <4>1, <4>2
    <3> QED
      BY <3>2
  <2> QED
    BY <1>1, <2>1, <2>2, SessionSteps DEF IInv
<1>2. IInv /\ [Next]_vars => Kept
  BY <1>1, Steps DEF IInv
<1>3. Spec => [][Kept]_vars
  BY <1>2, Invariant, PTL DEF Spec
<1> QED
  BY <1>3 DEF SessionsKept

-----------------------------------------------------------------------------
(* The server implements the phone book.                                   *)

Owner == [u \in Users |-> IF users[u] = None THEN None ELSE users[u].owner]

LEMMA BookInit == Init => Book!Init
BY DEF Init, NoRecords, Leaving, At, Book!Init

(* Accounts come and go without a step of the book when no owner changes.  *)
LEMMA SameOwners ==
  ASSUME TypeOK, Moves, ~Dies,
         \A u \in Users : users'[u] # None => users[u] # None
  PROVE  Owner' = Owner
BY AccountsStay DEF Owner, Stays

Asks(c) == At(c, "deregister", "registry")
Entry(c) == <<PersonOf[c], req[c].user, req[c].node>>

LEMMA LeavingEntries ==
  \A x : x \in Leaving <=> \E c \in Clients : Asks(c) /\ x = Entry(c)
BY DEF Leaving, Asks, Entry

(* A step of one client's handler leaves what the others ask for.          *)
LEMMA LeavingStep ==
  ASSUME NEW c \in Clients, \A d \in Clients \ {c} : req'[d] = req[d]
  PROVE  /\ ~Asks(c) /\ ~Asks(c)' => Leaving' = Leaving
         /\ ~Asks(c) /\ Asks(c)' => Leaving' = Leaving \cup {Entry(c)'}
         /\ Asks(c) /\ ~Asks(c)' => Leaving' \in {Leaving, Leaving \ {Entry(c)}}
<1>1. \A d \in Clients \ {c} : (Asks(d)' <=> Asks(d)) /\ Entry(d)' = Entry(d)
  BY DEF Asks, At, Entry
<1>2. \A x : x \in Leaving' <=> \E d \in Clients : Asks(d)' /\ x = Entry(d)'
  BY DEF Leaving, Asks, Entry
<1> DEFINE Others == {Entry(d) : d \in {e \in Clients \ {c} : Asks(e)}}
<1>3. Leaving = IF Asks(c) THEN Others \cup {Entry(c)} ELSE Others
  BY LeavingEntries
<1>4. Leaving' = IF Asks(c)' THEN Others \cup {Entry(c)'} ELSE Others
  BY <1>1, <1>2
<1> HIDE DEF Others
<1>5. ASSUME Asks(c), ~Asks(c)'
      PROVE  Leaving' \in {Leaving, Leaving \ {Entry(c)}}
  <2>1. Leaving' = Others /\ Leaving = Others \cup {Entry(c)}
    BY <1>3, <1>4, <1>5
  <2>2. CASE Entry(c) \in Others
    BY <2>1, <2>2
  <2>3. CASE Entry(c) \notin Others
    BY <2>1, <2>3
  <2> QED
    BY <2>2, <2>3
<1> QED
  BY <1>3, <1>4, <1>5

(* Which steps change it.                                                  *)
LEMMA LeavingNext ==
  ASSUME TypeOK, NEW c \in Clients, Arrival(c) \/ Handler(c)
  PROVE  \/ Leaving' = Leaving
         \/ /\ AuthUser(c) /\ req[c].op = "deregister"
            /\ Leaving' = Leaving \cup {Entry(c)}
         \/ /\ Deregister(c) \/ Cancel(c)
            /\ Leaving' \in {Leaving, Leaving \ {Entry(c)}}
<1> USE OthersWait, LeavingStep DEF Continue, Reply
<1>1. CASE Arrival(c)
  <2>1. ~Asks(c)
    BY <1>1 DEF Arrival, SignupArrives, VerifyTakes, LoginReads, AuthSession,
                Asks, At
  <2>2. ~Asks(c)'
    BY <1>1 DEF Arrival, SignupArrives, VerifyTakes, LoginReads, AuthSession,
                Asks, At, TypeOK
  <2> QED
    BY <2>1, <2>2
<1>2. CASE SignupInserts(c)
  <2>1. req[c] \in Signup
    BY <1>2, Kinds DEF SignupInserts, At, TypeOK
  <2>2. [req[c] EXCEPT !.at = "token"].op = "signup"
    BY <2>1, <1>2 DEF Signup, SignupInserts, At
  <2>3. ~Asks(c) /\ ~Asks(c)'
    BY <1>2, <2>2 DEF SignupInserts, Insert, Asks, At, TypeOK
  <2> QED
    BY <2>3
<1>3. CASE AuthUser(c)
  <2>1. req[c] \in Listing
    BY <1>3, Kinds DEF AuthUser, Checking, TypeOK
  <2>2. PICK s \in 0 .. MaxTime : s = IF req[c].op = "register" THEN now ELSE 0
    BY DEF TypeOK
  <2>3. req'[c] = [req[c] EXCEPT !.at = "registry", !.seen = s]
    BY <1>3, <2>2 DEF AuthUser, Admitted, TypeOK
  <2>4. /\ req'[c].op = req[c].op /\ req'[c].at = "registry"
        /\ req'[c].user = req[c].user /\ req'[c].node = req[c].node
    BY <2>1, <2>3 DEF Listing
  <2>5. req'[c] # None
    <3>1. req'[c] \in Request
      BY <2>1, <2>3 DEF Listing, Request
    <3> QED
      BY <3>1
  <2>6. ~Asks(c) /\ (Asks(c)' <=> req[c].op = "deregister")
    BY <1>3, <2>4, <2>5 DEF AuthUser, Checking, Asks, At
  <2>7. Entry(c)' = Entry(c)
    BY <2>4 DEF Entry
  <2> QED
    BY <1>3, <2>6, <2>7
<1>4. CASE Deregister(c) \/ Cancel(c)
  <2>1. ~Asks(c)'
    BY <1>4 DEF Deregister, Cancel, Asks, At, TypeOK
  <2> QED
    BY <1>4, <2>1
<1>5. CASE \/ SignupRefused(c) \/ SignupStoresToken(c) \/ VerifyApproves(c)
           \/ \E d \in BOOLEAN : LoginStores(c, d)
           \/ AuthRefused(c) \/ Register(c)
  <2>1. ~Asks(c) /\ ~Asks(c)'
    BY <1>5 DEF SignupRefused, SignupStoresToken, VerifyApproves, LoginStores,
                AuthRefused, Checking, Register, Asks, At, TypeOK
  <2> QED
    BY <2>1
<1> QED
  BY <1>1, <1>2, <1>3, <1>4, <1>5 DEF Handler

(* What the server does while it runs is work on the book.                 *)
LEMMA BookWork ==
  ASSUME IInv, Moves, ~Dies, ~Tick
  PROVE  [Book!Work]_(Book!data)
<1> DEFINE Same == Owner' = Owner /\ registry' = registry /\ now' = now
<1> USE DEF IInv
<1>1. CASE Same /\ Leaving' = Leaving
  BY <1>1 DEF Owner, Book!data
<1>2. ASSUME NEW c \in Clients, Arrival(c)
      PROVE  Same /\ Leaving' = Leaving
  <2>1. req[c] = None /\ users' = users /\ registry' = registry /\ now' = now
    BY <1>2 DEF Arrival, SignupArrives, VerifyTakes, LoginReads, AuthSession
  <2>2. ~AuthUser(c) /\ ~Deregister(c) /\ ~Cancel(c)
    BY <2>1 DEF AuthUser, Checking, Deregister, Cancel, At
  <2> QED
    BY <1>2, <2>1, <2>2, LeavingNext DEF Owner
<1>3. ASSUME NEW c \in Clients, SignupInserts(c)
      PROVE  Book!Work
  <2>1. req[c] \in Signup
    BY <1>3, Kinds DEF SignupInserts, At, TypeOK
  <2>2. req[c].user \in Users /\ PersonOf[c] \in People
    BY <2>1 DEF Signup
  <2>3. PICK a : /\ a.owner = PersonOf[c]
                 /\ a = [owner |-> PersonOf[c], email |-> req[c].email,
                         status |-> IF AutoApprove THEN "approved" ELSE "pending",
                         vtoken |-> req[c].vtoken]
                 /\ users' = [users EXCEPT ![req[c].user] = a]
    BY <1>3 DEF SignupInserts, Insert
  <2>4. a # None
    <3>1. a \in Account
      BY <2>1, <2>2, <2>3 DEF Account, Signup
    <3> QED
      BY <3>1
  <2>5. /\ Owner[req[c].user] = None
        /\ Owner' = [Owner EXCEPT ![req[c].user] = PersonOf[c]]
    BY <1>3, <2>2, <2>3, <2>4 DEF SignupInserts, Owner, TypeOK
  <2>6. registry' = registry /\ now' = now
    BY <1>3 DEF SignupInserts, Insert
  <2>7. Leaving' = Leaving
    <3>1. ~AuthUser(c) /\ ~Deregister(c)
      BY <1>3 DEF SignupInserts, AuthUser, Checking, Deregister, At
    <3>2. ~Cancel(c)
      BY <1>3, <2>2, <2>3, <2>4 DEF SignupInserts, Cancel, TypeOK
    <3> QED
      BY <1>3, <3>1, <3>2, LeavingNext DEF Handler
  <2>8. PICK p \in People, u \in Users : p = PersonOf[c] /\ u = req[c].user
    BY <2>2
  <2>9. Book!Own(p, u)
    BY <2>5, <2>6, <2>7, <2>8 DEF Owner, Book!Own
  <2> QED
    BY <2>9 DEF Book!Work
<1>4. ASSUME NEW c \in Clients, VerifyApproves(c)
      PROVE  Same
  BY <1>4, SameOwners DEF VerifyApproves, TypeOK
<1>5. ASSUME NEW c \in Clients, Register(c)
      PROVE  Book!Work
  <2>1. /\ req[c].user \in Users /\ req[c].node \in Nodes
        /\ req[c].seen \in 0 .. MaxTime /\ req[c].seen <= now
        /\ Approved(req[c].user) /\ users[req[c].user].owner = PersonOf[c]
    BY <1>5, Listed DEF Register
  <2>2. Owner[req[c].user] = PersonOf[c] /\ PersonOf[c] \in People
    BY <2>1 DEF Owner, Approved
  <2>3. Owner' = Owner /\ now' = now
    BY <1>5 DEF Register, Owner
  <2>4. Leaving' = Leaving
    BY <1>5, OthersWait, LeavingStep
       DEF Handler, Register, Reply, Continue, Asks, At, TypeOK
  <2>5. Book!Enroll(PersonOf[c], req[c].user, req[c].node, req[c].seen)
    BY <1>5, <2>1, <2>2, <2>3, <2>4 DEF Register, Owner, Book!Enroll
  <2> QED
    BY <2>1, <2>2, <2>5 DEF Book!Work
<1>6. ASSUME NEW c \in Clients, AuthUser(c), req[c].op = "deregister",
             Leaving' = Leaving \cup {Entry(c)}
      PROVE  Book!Work
  <2>1. req[c] \in Listing
    BY <1>6, Kinds DEF AuthUser, Checking, TypeOK
  <2>2. Approved(req[c].user) /\ users[req[c].user].owner = PersonOf[c]
    BY <1>6 DEF AuthUser, Checking, RequestInv
  <2>3. PICK p \in People, u \in Users, n \in Nodes :
           p = PersonOf[c] /\ u = req[c].user /\ n = req[c].node
    BY <2>1 DEF Listing
  <2>4. Owner[u] = p /\ Leaving' = Leaving \cup {<<p, u, n>>}
    BY <1>6, <2>2, <2>3 DEF Owner, Approved, Entry
  <2>5. Same
    BY <1>6 DEF AuthUser, Admitted, Owner
  <2>6. Book!Ask(p, u, n)
    BY <2>4, <2>5 DEF Owner, Book!Ask
  <2> QED
    BY <2>3, <2>6 DEF Book!Work
<1>7. ASSUME NEW c \in Clients, Deregister(c),
             Leaving' \in {Leaving, Leaving \ {Entry(c)}}
      PROVE  Book!Work
  <2>1. /\ req[c].user \in Users /\ req[c].node \in Nodes
        /\ Approved(req[c].user) /\ users[req[c].user].owner = PersonOf[c]
    BY <1>7, Listed DEF Deregister
  <2>2. PICK p \in People, u \in Users, n \in Nodes :
           p = PersonOf[c] /\ u = req[c].user /\ n = req[c].node
    BY <2>1
  <2>3. Owner[u] = p /\ <<p, u, n>> = Entry(c)
    BY <2>1, <2>2 DEF Owner, Approved, Entry
  <2>4. Entry(c) \in Leaving
    BY <1>7, LeavingEntries DEF Deregister, Asks
  <2>5. Owner' = Owner /\ now' = now
        /\ registry' = [registry EXCEPT ![u][n] = None]
    BY <1>7, <2>2 DEF Deregister, Owner
  <2>6. Book!Leave(p, u, n)
    BY <1>7, <2>3, <2>4, <2>5 DEF Owner, Book!Leave
  <2> QED
    BY <2>2, <2>6 DEF Book!Work
<1>8. ASSUME NEW c \in Clients, Cancel(c), ~Asks(c)
      PROVE  Same /\ Leaving' = Leaving
  BY <1>8, OthersWait, LeavingStep
     DEF Handler, Cancel, Reply, Continue, Asks, At, Owner, TypeOK
<1>9. ASSUME NEW c \in Clients, Cancel(c), Asks(c),
              Leaving' \in {Leaving, Leaving \ {Entry(c)}}
       PROVE  [Book!Work]_(Book!data)
  <2>1. Same
    BY <1>9 DEF Cancel, Owner
  <2>2. req[c] \in Listing
    BY <1>9, Kinds DEF Asks, At, TypeOK
  <2>3. PICK p \in People, u \in Users, n \in Nodes : <<p, u, n>> = Entry(c)
    BY <2>2 DEF Listing, Entry
  <2>4. CASE Leaving' = Leaving \ {Entry(c)}
    <3>1. Book!Withdraw(p, u, n)
      BY <2>1, <2>3, <2>4 DEF Owner, Book!Withdraw
    <3> QED
      BY <2>3, <3>1 DEF Book!Work
  <2> QED
    BY <1>1, <1>9, <2>1, <2>4
<1>10. ASSUME NEW c \in Clients, Handler(c), ~SignupInserts(c),
              ~VerifyApproves(c), ~Register(c), ~Deregister(c)
       PROVE  Same
  BY <1>10 DEF Handler, SignupRefused, SignupStoresToken, LoginStores, AuthUser,
               Admitted, AuthRefused, Cancel, Owner
<1>11. CASE PruneRegistry
  <2>1. prune.time <= Cutoff /\ prune.time \in 0 .. MaxTime
    BY <1>11 DEF PruneRegistry, PruneInv, TypeOK, Prune
  <2>2. Cutoff = Book!Cutoff
    BY DEF Cutoff, Book!Cutoff
  <2>3. Owner' = Owner /\ now' = now /\ Leaving' = Leaving
    BY <1>11 DEF PruneRegistry, Owner, Leaving, At
  <2>4. Book!Forget(prune.time)
    BY <1>11, <2>1, <2>2, <2>3 DEF PruneRegistry, Owner, Book!Forget
  <2> QED
    BY <2>1, <2>4 DEF Book!Work
<1>12. PruneWakes \/ PruneSessions \/ UNCHANGED data => Same /\ Leaving' = Leaving
  BY DEF PruneWakes, PruneWakesAt, PruneSessions, RemoveSessions, data, Owner,
         Leaving, At
<1>13. ASSUME NEW c \in Clients, Handler(c)
       PROVE  [Book!Work]_(Book!data)
  <2>1. \/ Leaving' = Leaving
        \/ AuthUser(c) /\ req[c].op = "deregister" /\ Leaving' = Leaving \cup {Entry(c)}
        \/ /\ Deregister(c) \/ Cancel(c)
           /\ Leaving' \in {Leaving, Leaving \ {Entry(c)}}
    BY <1>13, LeavingNext
  <2>2. Deregister(c) => Leaving' \in {Leaving, Leaving \ {Entry(c)}}
    BY <2>1 DEF Deregister, AuthUser, Checking, At
  <2> HIDE DEF Same
  <2> QED
    BY <1>1, <1>3, <1>4, <1>5, <1>6, <1>7, <1>8, <1>9, <1>10, <1>13,
       <2>1, <2>2
<1> HIDE DEF Same
<1> QED
  BY <1>1, <1>2, <1>11, <1>12, <1>13 DEF Step, PruneStep

LEMMA BookNext == IInv /\ [Next]_vars => [Book!Next]_(Book!vars)
<1> SUFFICES ASSUME IInv, [Next]_vars
             PROVE  [Book!Next]_(Book!vars)
  OBVIOUS
<1>1. CASE Dies
  <2>1. Leaving' = {}
    BY <1>1 DEF Dies, Leaving, At
  <2>2. Book!Dies
    BY <1>1, <2>1 DEF Dies, NoRecords, Book!Dies
  <2> QED
    BY <2>2 DEF Book!Next
<1>2. CASE Tick
  <2>1. Leaving' = Leaving /\ Owner' = Owner
    BY <1>2 DEF Tick, Leaving, At, Owner
  <2>2. Book!Tick
    BY <1>2, <2>1 DEF Tick, Owner, Book!Tick
  <2> QED
    BY <2>2 DEF Book!Next
<1>3. CASE Starts
  <2>1. Leaving' = Leaving /\ Owner' = Owner
    BY <1>3 DEF Starts, data, Leaving, At, Owner
  <2>2. Book!Starts
    BY <1>3, <2>1 DEF Starts, data, Owner, Book!Starts, Book!data
  <2> QED
    BY <2>2 DEF Book!Next
<1>4. CASE ~Dies /\ ~Tick /\ ~Starts
  <2>1. [Book!Work]_(Book!data)
    BY <1>4, Steps, BookWork DEF IInv
  <2>2. up' = up /\ (up \/ UNCHANGED vars)
    BY <1>4 DEF Next, PruneStep, vars
  <2>3. UNCHANGED vars => UNCHANGED Book!data
    BY DEF vars, data, Book!data, Leaving, At
  <2> QED
    BY <2>1, <2>2, <2>3 DEF Book!Next, Book!vars
<1> QED
  BY <1>1, <1>2, <1>3, <1>4

(* Every behaviour of the server, seen as who owns which username and what *)
(* is registered under it, is one of the phone book (main.rs:244-269,      *)
(* 404-465, 477-488).                                                      *)
THEOREM PhoneBookImplemented == Spec => ImplementsPhoneBook
<1>1. Spec => Book!Init /\ [][Book!Next]_(Book!vars)
  BY BookInit, BookNext, Invariant, PTL DEF Spec
<1> QED
  BY <1>1 DEF ImplementsPhoneBook, Book!Spec
=============================================================================
