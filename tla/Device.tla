------------------------------- MODULE Device -------------------------------
(***************************************************************************)
(* What a device keeps on disk and who it says it is: `dddatasync login`   *)
(* (src/src/main.rs, src/src/auth.rs) writes the identity and the bearer   *)
(* token step by step and may die between any two; `dddatasync start`      *)
(* loads both and registers with the rendezvous server.                    *)
(*                                                                         *)
(* A member of Creds is a username with a passphrase.  The node key, and   *)
(* with it the node id, is a function of the two (derive_key), and no two  *)
(* members share a key: a member of Creds stands for its node id as well.  *)
(***************************************************************************)
EXTENDS Naturals

CONSTANTS
    Devices,
    Creds,
    Users,
    UserOf,             \* the username of some credentials
    Typed,              \* the credentials that users type on each device
    Good,               \* the credentials whose passphrase is the account's password
    Frail,              \* the devices whose processes die and whose calls fail
    MaxTokens,          \* bound: tokens the server issues
    None

(* Each login with the server is given a new token.  An identity file is   *)
(* private when its mode is 0600.                                          *)
Tokens == [user : Users, number : 1 .. MaxTokens]
Files == [cred : Creds, private : BOOLEAN]

ASSUME DeviceAssumption ==
    /\ UserOf \in [Creds -> Users]
    /\ Typed \in [Devices -> SUBSET Creds]
    /\ Good \subseteq Creds
    /\ Frail \subseteq Devices
    /\ MaxTokens \in Nat
    /\ None \notin Creds \cup Devices \cup Files \cup Tokens

VARIABLES
    identity,   \* ~/dddatasync/.identity of a device: a file, or None
    tmp,        \* its .identity.tmp
    token,      \* its .token: what was written, or None
    login,      \* the `login` a user runs on the device
    enrolled,   \* the credentials `login` last said it logged in with
    run,        \* what the `start` on the device has loaded, or None
    registry,   \* the server's record of a node id: the device it leads to
    sessions,   \* the tokens the server takes
    issued      \* tokens it has issued so far

disk == <<identity, tmp, token>>
server == <<registry, sessions, issued>>
vars == <<disk, login, enrolled, run, server>>

(* No token file, or an empty one, is the empty token (load_token and      *)
(* unwrap_or_default).                                                     *)
NoToken == [user |-> None, number |-> 0]

Stages == {"check", "write", "mode", "rename", "server", "token"}

Idle == [at |-> "idle", cred |-> None, token |-> NoToken]
Logins == [at : Stages, cred : Creds, token : Tokens \cup {NoToken}] \cup {Idle}

Init == /\ identity = [d \in Devices |-> None]
        /\ tmp = [d \in Devices |-> None]
        /\ token = [d \in Devices |-> None]
        /\ login = [d \in Devices |-> Idle]
        /\ enrolled = [d \in Devices |-> None]
        /\ run = [d \in Devices |-> None]
        /\ registry = [c \in Creds |-> None]
        /\ sessions = {} /\ issued = 0

At(d, s) == login[d].at = s
Go(d, s) == login' = [login EXCEPT ![d].at = s]
Leave(d) == login' = [login EXCEPT ![d] = Idle]

-----------------------------------------------------------------------------
(* UserIdentity::login                                                     *)

(* A user runs one login at a time on a device.                            *)
Login(d, c) == /\ At(d, "idle") /\ c \in Typed[d]
               /\ login' = [login EXCEPT ![d] = [at |-> "check", cred |-> c,
                                                 token |-> NoToken]]
               /\ UNCHANGED <<disk, enrolled, run, server>>

(* load_from_path refuses a file that others may read.                     *)
Loads(f) == f # None /\ f.private

(* (Mutants: an existing identity is not compared; one that differs is     *)
(* overwritten.)                                                           *)
CheckExistsOnly(d) ==
    /\ At(d, "check")
    /\ \/ identity[d] = None /\ Go(d, "write")
       \/ Loads(identity[d]) /\ Go(d, "server")
       \/ identity[d] # None /\ ~Loads(identity[d]) /\ Leave(d)
    /\ UNCHANGED <<disk, enrolled, run, server>>

CheckOverwrite(d) ==
    /\ At(d, "check")
    /\ IF Loads(identity[d]) /\ identity[d].cred = login[d].cred
         THEN Go(d, "server") ELSE Go(d, "write")
    /\ UNCHANGED <<disk, enrolled, run, server>>

Check(d) ==
    /\ At(d, "check")
    /\ \/ identity[d] = None /\ Go(d, "write")
       \/ /\ Loads(identity[d]) /\ identity[d].cred = login[d].cred
          /\ Go(d, "server")
       \/ /\ identity[d] # None
          /\ ~(Loads(identity[d]) /\ identity[d].cred = login[d].cred)
          /\ Leave(d)
    /\ UNCHANGED <<disk, enrolled, run, server>>

(* save_identity: fs::write, chmod, rename.  fs::write keeps the mode of a *)
(* leftover of an earlier login.  What a write that fails leaves is        *)
(* written over by the next login before anyone reads it.                  *)
Written(d) == [cred |-> login[d].cred, private |-> tmp[d] # None /\ tmp[d].private]

(* (Mutant: without the chmod.)                                            *)
SaveWriteNoMode(d) ==
    /\ At(d, "write") /\ Go(d, "rename")
    /\ tmp' = [tmp EXCEPT ![d] = Written(d)]
    /\ UNCHANGED <<identity, token, enrolled, run, server>>

SaveWrite(d) ==
    /\ At(d, "write") /\ Go(d, "mode")
    /\ tmp' = [tmp EXCEPT ![d] = Written(d)]
    /\ UNCHANGED <<identity, token, enrolled, run, server>>

SaveMode(d) ==
    /\ At(d, "mode") /\ Go(d, "rename")
    /\ tmp' = [tmp EXCEPT ![d].private = TRUE]
    /\ UNCHANGED <<identity, token, enrolled, run, server>>

SaveRename(d) ==
    /\ At(d, "rename") /\ Go(d, "server")
    /\ identity' = [identity EXCEPT ![d] = tmp[d]]
    /\ tmp' = [tmp EXCEPT ![d] = None]
    /\ UNCHANGED <<token, enrolled, run, server>>

-----------------------------------------------------------------------------
(* cmd_login goes on with the server                                       *)

(* (Mutant: an answer without a token is taken for an empty one.)          *)
ServerLoginEmpty(d) ==
    /\ At(d, "server") /\ login[d].cred \in Good
    /\ login' = [login EXCEPT ![d].at = "token", ![d].token = NoToken]
    /\ UNCHANGED <<disk, enrolled, run, server>>

ServerLogin(d) ==
    /\ At(d, "server") /\ login[d].cred \in Good
    /\ issued < MaxTokens /\ issued' = issued + 1
    /\ LET t == [user |-> UserOf[login[d].cred], number |-> issued'] IN
         /\ login' = [login EXCEPT ![d].at = "token", ![d].token = t]
         /\ sessions' = sessions \cup {t}
    /\ UNCHANGED <<disk, enrolled, run, registry>>

(* Refused, or not reached: login only warns and keeps the token there is. *)
ServerRefuses(d) ==
    /\ At(d, "server") /\ (d \in Frail \/ login[d].cred \notin Good)
    /\ Leave(d)
    /\ UNCHANGED <<disk, enrolled, run, server>>

(* save_token writes a temp file and renames it; nobody ever reads the     *)
(* temp file or looks at the mode.  "logged in as ..."                     *)
SaveToken(d) ==
    /\ At(d, "token") /\ Leave(d)
    /\ token' = [token EXCEPT ![d] = login[d].token]
    /\ enrolled' = [enrolled EXCEPT ![d] = login[d].cred]
    /\ UNCHANGED <<identity, tmp, run, server>>

(* The process dies, or an operation on the file system fails.             *)
LoginDies(d) == /\ d \in Frail /\ ~At(d, "idle")
                /\ Leave(d)
                /\ UNCHANGED <<disk, enrolled, run, server>>

(* The user follows the advice of the error: "remove ... to re-enroll".    *)
RemoveIdentity(d) ==
    /\ At(d, "idle") /\ identity[d] # None
    /\ identity' = [identity EXCEPT ![d] = None]
    /\ enrolled' = [enrolled EXCEPT ![d] = None]
    /\ UNCHANGED <<tmp, token, login, run, server>>

-----------------------------------------------------------------------------
(* `start`, until it is killed or interrupted                              *)

Start(d) ==
    /\ run[d] = None /\ Loads(identity[d])
    /\ run' = [run EXCEPT ![d] = [cred |-> identity[d].cred,
                                  token |-> IF token[d] = None THEN NoToken
                                                               ELSE token[d]]]
    /\ UNCHANGED <<disk, login, enrolled, server>>

(* The server takes a record only with a live token for its username.      *)
Accepted(r) == r.token \in sessions /\ r.token.user = UserOf[r.cred]

(* Its record of a node id is replaced.                                    *)
Register(d) ==
    /\ run[d] # None /\ Accepted(run[d])
    /\ registry' = [registry EXCEPT ![run[d].cred] = d]
    /\ UNCHANGED <<disk, login, enrolled, run, sessions, issued>>

(* Ctrl-C: deregister, best effort, whichever device the record leads to.  *)
Stop(d) ==
    /\ run[d] # None
    /\ registry' = IF Accepted(run[d]) THEN [registry EXCEPT ![run[d].cred] = None]
                                       ELSE registry
    /\ run' = [run EXCEPT ![d] = None]
    /\ UNCHANGED <<disk, login, enrolled, sessions, issued>>

StartDies(d) == /\ d \in Frail /\ run[d] # None
                /\ run' = [run EXCEPT ![d] = None]
                /\ UNCHANGED <<disk, login, enrolled, server>>

-----------------------------------------------------------------------------
(* The server                                                              *)

(* A record that is not refreshed in time expires, even that of a device   *)
(* that runs: Watcher shows how its push may hold the refresh up.          *)
Expires(c) == /\ registry[c] # None
              /\ registry' = [registry EXCEPT ![c] = None]
              /\ UNCHANGED <<disk, login, enrolled, run, sessions, issued>>

(* A session ends after a day; it is kept in memory only.                  *)
SessionExpires(t) == /\ t \in sessions
                     /\ sessions' = sessions \ {t}
                     /\ UNCHANGED <<disk, login, enrolled, run, registry, issued>>

ServerRestart == /\ sessions' = {}
                 /\ registry' = [c \in Creds |-> None]
                 /\ UNCHANGED <<disk, login, enrolled, run, issued>>

-----------------------------------------------------------------------------

LoginStep(d) == \/ Check(d) \/ SaveWrite(d) \/ SaveMode(d)
                \/ SaveRename(d) \/ ServerLogin(d) \/ ServerRefuses(d)
                \/ SaveToken(d)

Next == \/ \E d \in Devices : \/ \E c \in Creds : Login(d, c)
                              \/ LoginStep(d) \/ LoginDies(d) \/ RemoveIdentity(d)
                              \/ Start(d) \/ Register(d) \/ Stop(d) \/ StartDies(d)
        \/ \E c \in Creds : Expires(c)
        \/ \E t \in Tokens : SessionExpires(t)
        \/ ServerRestart

Spec == Init /\ [][Next]_vars

-----------------------------------------------------------------------------

TypeOK ==
    /\ identity \in [Devices -> Files \cup {None}]
    /\ tmp \in [Devices -> Files \cup {None}]
    /\ token \in [Devices -> Tokens \cup {None}]
    /\ login \in [Devices -> Logins]
    /\ enrolled \in [Devices -> Creds \cup {None}]
    /\ run \in [Devices -> [cred : Creds, token : Tokens \cup {NoToken}] \cup {None}]
    /\ registry \in [Creds -> Devices \cup {None}]
    /\ sessions \subseteq Tokens
    /\ issued \in 0 .. MaxTokens

(* Wherever a login dies it leaves no identity file that later logins, and *)
(* start, would refuse to load ("Write to a temp file first, then rename   *)
(* for atomicity", auth.rs:143).                                           *)
IdentityWhole == \A d \in Devices : identity[d] # None => Loads(identity[d])

(* After "logged in as" the device has what start needs, the identity and  *)
(* a token for its user, whatever later logins on it try or fail to do.    *)
LoggedIn == \A d \in Devices : enrolled[d] # None =>
              /\ identity[d] # None /\ identity[d].cred = enrolled[d]
              /\ token[d] # None /\ token[d].user = UserOf[enrolled[d]]

(* No login replaces the key of a device; only its user removes it         *)
(* ("Calling login twice with different credentials for the same store     *)
(* directory is an error", auth.rs:37-38).                                 *)
IdentityKept == [][\A d \in Devices :
                     identity[d] # None => identity'[d] \in {identity[d], None}]_vars

-----------------------------------------------------------------------------
(* What makes the first three inductive.                                   *)
LoginOK(d) ==
    /\ At(d, "mode") => tmp[d] # None /\ tmp[d].cred = login[d].cred
    /\ At(d, "rename") => /\ tmp[d] # None /\ tmp[d].private
                          /\ tmp[d].cred = login[d].cred
    /\ login[d].at \in {"write", "mode", "rename"} => identity[d] = None
    /\ login[d].at \in {"server", "token"} =>
         identity[d] # None /\ identity[d].cred = login[d].cred
    /\ At(d, "token") => /\ login[d].token \in Tokens
                         /\ login[d].token.user = UserOf[login[d].cred]

LoginInv == \A d \in Devices : LoginOK(d)

IInv == TypeOK /\ LoginInv /\ IdentityWhole /\ LoggedIn
=============================================================================
