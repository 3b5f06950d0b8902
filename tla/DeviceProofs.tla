---------------------------- MODULE DeviceProofs ----------------------------
(***************************************************************************)
(* Proofs about Device, for any devices, users and credentials.            *)
(***************************************************************************)
EXTENDS Device, TLAPS

LEMMA NoneApart ==
  /\ \A c \in Creds : c # None
  /\ \A f \in Files : f # None
  /\ \A t \in Tokens : t # None
  /\ UserOf \in [Creds -> Users] /\ MaxTokens \in Nat
BY DeviceAssumption

LEMMA Goes ==
  ASSUME TypeOK, NEW d \in Devices, login[d].at # "idle", NEW s \in Stages,
         NEW t \in Tokens \cup {NoToken}
  PROVE  /\ [login EXCEPT ![d].at = s] \in [Devices -> Logins]
         /\ [login EXCEPT ![d].at = s, ![d].token = t] \in [Devices -> Logins]
         /\ [login EXCEPT ![d].at = s][d].at = s
         /\ [login EXCEPT ![d].at = s][d].cred = login[d].cred
<1>1. PICK l \in Logins : l = login[d] /\ l # Idle
  BY DEF TypeOK, Idle
<1>2. [l EXCEPT !.at = s] \in Logins /\ [l EXCEPT !.at = s, !.token = t] \in Logins
  BY <1>1 DEF Logins
<1>3. [l EXCEPT !.at = s].at = s /\ [l EXCEPT !.at = s].cred = l.cred
  BY <1>1 DEF Logins
<1>4. [login EXCEPT ![d].at = s][d] = [l EXCEPT !.at = s]
  BY <1>1 DEF TypeOK
<1> QED
  BY <1>1, <1>2, <1>3, <1>4 DEF TypeOK

LEMMA InvInit == Init => IInv
BY NoneApart DEF Init, IInv, TypeOK, LoginInv, LoginOK, IdentityWhole, LoggedIn, Logins, Idle,
                 Stages, At

-----------------------------------------------------------------------------

LEMMA TypeNext == TypeOK /\ LoginInv /\ [Next]_vars => TypeOK'
<1> SUFFICES ASSUME TypeOK, LoginInv, [Next]_vars PROVE TypeOK'
  OBVIOUS
<1> USE NoneApart DEF TypeOK, At, Go, Leave, disk, server
<1>1. ASSUME NEW d \in Devices, NEW c \in Creds, Login(d, c) PROVE TypeOK'
  BY <1>1 DEF Login, Logins, Idle, Stages, NoToken, Tokens, Files
<1>2. ASSUME NEW d \in Devices, Check(d) PROVE TypeOK'
  <2>1. login' = [login EXCEPT ![d].at = "write"] \/ login' = [login EXCEPT ![d].at = "server"]
        \/ login' = [login EXCEPT ![d] = Idle]
    BY <1>2 DEF Check
  <2>2. login[d].at # "idle"
    BY <1>2 DEF Check
  <2>3. "write" \in Stages /\ "server" \in Stages /\ Idle \in Logins
    BY DEF Stages, Logins
  <2>4. [login EXCEPT ![d].at = "write"] \in [Devices -> Logins]
        /\ [login EXCEPT ![d].at = "server"] \in [Devices -> Logins]
    BY <2>2, <2>3, Goes
  <2>5. [login EXCEPT ![d] = Idle] \in [Devices -> Logins]
    BY <2>3
  <2>6. login' \in [Devices -> Logins]
    BY <2>1, <2>4, <2>5
  <2> QED
    BY <1>2, <2>6 DEF Check
<1>3. ASSUME NEW d \in Devices, SaveWrite(d) PROVE TypeOK'
  BY <1>3 DEF SaveWrite, Written, Logins, Idle, Stages, NoToken, Tokens, Files
<1>4. ASSUME NEW d \in Devices, SaveMode(d) PROVE TypeOK'
  <2>1. login' \in [Devices -> Logins]
    BY <1>4, Goes DEF SaveMode, Stages
  <2>2. tmp[d] \in Files
    BY <1>4 DEF SaveMode, LoginInv, LoginOK
  <2>3. [tmp[d] EXCEPT !.private = TRUE] \in Files
    BY <2>2 DEF Files
  <2>4. tmp' \in [Devices -> Files \cup {None}]
    BY <1>4, <2>3 DEF SaveMode
  <2> QED
    BY <1>4, <2>1, <2>4 DEF SaveMode
<1>5. ASSUME NEW d \in Devices, SaveRename(d) PROVE TypeOK'
  BY <1>5 DEF SaveRename, Logins, Idle, Stages, NoToken, Tokens, Files
<1>6. ASSUME NEW d \in Devices, ServerLogin(d) PROVE TypeOK'
  <2>1. login[d].cred \in Creds /\ login[d].at # "idle"
    BY <1>6 DEF ServerLogin, Logins, Idle
  <2>2. issued' \in 1 .. MaxTokens
    BY <1>6 DEF ServerLogin
  <2>3. [user |-> UserOf[login[d].cred], number |-> issued'] \in Tokens
    BY <2>1, <2>2 DEF Tokens
  <2>4. login' \in [Devices -> Logins]
    BY <1>6, <2>1, <2>3, Goes DEF ServerLogin, Stages
  <2>5. sessions' \subseteq Tokens
    BY <1>6, <2>3 DEF ServerLogin
  <2> QED
    BY <1>6, <2>2, <2>4, <2>5 DEF ServerLogin
<1>7. ASSUME NEW d \in Devices, ServerRefuses(d) PROVE TypeOK'
  BY <1>7 DEF ServerRefuses, Logins, Idle, Stages, NoToken, Tokens, Files
<1>8. ASSUME NEW d \in Devices, SaveToken(d) PROVE TypeOK'
  <2>1. login[d].cred \in Creds /\ login[d].token \in Tokens
    BY <1>8 DEF SaveToken, Logins, Idle, LoginInv, LoginOK
  <2> QED
    BY <1>8, <2>1 DEF SaveToken, Logins
<1>9. ASSUME NEW d \in Devices, LoginDies(d) PROVE TypeOK'
  BY <1>9 DEF LoginDies, Logins, Idle, Stages, NoToken, Tokens, Files
<1>10. ASSUME NEW d \in Devices, RemoveIdentity(d) PROVE TypeOK'
  BY <1>10 DEF RemoveIdentity, Logins, Idle, Stages, NoToken, Tokens, Files
<1>11. ASSUME NEW d \in Devices, Start(d) PROVE TypeOK'
  BY <1>11 DEF Start, Loads, Logins, Idle, Stages, NoToken, Tokens, Files
<1>12. ASSUME NEW d \in Devices, Register(d) PROVE TypeOK'
  BY <1>12 DEF Register, Logins, Idle, Stages, NoToken, Tokens, Files
<1>13. ASSUME NEW d \in Devices, Stop(d) PROVE TypeOK'
  BY <1>13 DEF Stop, Logins, Idle, Stages, NoToken, Tokens, Files
<1>14. ASSUME NEW d \in Devices, StartDies(d) PROVE TypeOK'
  BY <1>14 DEF StartDies, Logins, Idle, Stages, NoToken, Tokens, Files
<1>15. ASSUME NEW c \in Creds, Expires(c) PROVE TypeOK'
  BY <1>15 DEF Expires, Logins, Idle, Stages, NoToken, Tokens, Files
<1>18. ASSUME NEW t \in Tokens, SessionExpires(t) PROVE TypeOK'
  BY <1>18 DEF SessionExpires
<1>16. ASSUME ServerRestart PROVE TypeOK'
  BY <1>16 DEF ServerRestart, Logins, Idle, Stages, NoToken, Tokens, Files
<1>17. CASE UNCHANGED vars
  BY <1>17 DEF vars, Logins, Idle, Stages, NoToken, Tokens, Files
<1> QED
  BY <1>1, <1>2, <1>3, <1>4, <1>5, <1>6, <1>7, <1>8, <1>9, <1>10, <1>11, <1>12, <1>13, <1>14, <1>15, <1>16, <1>17,
     <1>18
     DEF Next, LoginStep

(* A login owns its temp file and, once it has found or made the identity, *)
(* the identity file too.                                                  *)
LEMMA LoginNext == TypeOK /\ LoginInv /\ [Next]_vars => LoginInv'
<1> SUFFICES ASSUME TypeOK, LoginInv, [Next]_vars PROVE LoginInv'
  OBVIOUS
<1> USE NoneApart DEF TypeOK, LoginInv, LoginOK, At, Go, Leave, disk, server
<1>1. ASSUME NEW d \in Devices, NEW c \in Creds, Login(d, c) PROVE LoginInv'
  BY <1>1 DEF Login, Idle
<1>2. ASSUME NEW d \in Devices, Check(d) PROVE LoginInv'
  <2>1. UNCHANGED <<identity, tmp>> /\ \A e \in Devices \ {d} : login'[e] = login[e]
    BY <1>2 DEF Check, Idle
  <2>2. \/ login'[d].at = "idle"
        \/ login'[d].at = "write" /\ identity[d] = None
        \/ /\ login'[d].at = "server" /\ login'[d].cred = login[d].cred
           /\ identity[d] # None /\ identity[d].cred = login[d].cred
    <3>1. CASE identity[d] = None /\ login' = [login EXCEPT ![d].at = "write"]
      BY <3>1
    <3>2. CASE /\ identity[d] # None /\ identity[d].cred = login[d].cred
               /\ login' = [login EXCEPT ![d].at = "server"]
      <4>1. login[d].at # "idle" /\ "server" \in Stages
        BY <1>2 DEF Check, Stages
      <4>2. login'[d].at = "server" /\ login'[d].cred = login[d].cred
        BY <3>2, <4>1, Goes
      <4> QED
        BY <3>2, <4>2
    <3>3. CASE login' = [login EXCEPT ![d] = Idle]
      BY <3>3 DEF Idle
    <3> QED
      BY <1>2, <3>1, <3>2, <3>3 DEF Check, Loads
  <2> QED
    BY <2>1, <2>2
<1>3. ASSUME NEW d \in Devices, SaveWrite(d) PROVE LoginInv'
  <2>1. UNCHANGED identity /\ \A e \in Devices \ {d} : login'[e] = login[e] /\ tmp'[e] = tmp[e]
    BY <1>3 DEF SaveWrite
  <2>2. Written(d) \in Files /\ Written(d).cred = login[d].cred
    BY <1>3 DEF SaveWrite, Written, Files, Logins, Idle
  <2>3. /\ login'[d].at = "mode" /\ login'[d].cred = login[d].cred
        /\ tmp'[d] = Written(d) /\ identity[d] = None
    BY <1>3 DEF SaveWrite, Logins, Idle
  <2> QED
    BY <2>1, <2>2, <2>3
<1>4. ASSUME NEW d \in Devices, SaveMode(d) PROVE LoginInv'
  <2>1. UNCHANGED identity /\ \A e \in Devices \ {d} : login'[e] = login[e] /\ tmp'[e] = tmp[e]
    BY <1>4 DEF SaveMode
  <2>2. PICK f \in Files : f = tmp[d]
    BY <1>4 DEF SaveMode
  <2>3. /\ [f EXCEPT !.private = TRUE] \in Files
        /\ [f EXCEPT !.private = TRUE].private
        /\ [f EXCEPT !.private = TRUE].cred = f.cred
    BY DEF Files
  <2>4. /\ login'[d].at = "rename" /\ login'[d].cred = login[d].cred
        /\ tmp'[d] = [f EXCEPT !.private = TRUE] /\ identity[d] = None
    BY <1>4, <2>2 DEF SaveMode, Logins, Idle
  <2>5. tmp'[d] # None /\ tmp'[d].private /\ tmp'[d].cred = login'[d].cred
    <3>1. f.cred = login[d].cred
      BY <1>4, <2>2 DEF SaveMode
    <3> QED
      BY <2>3, <2>4, <3>1
  <2>6. LoginOK(d)'
    BY ONLY <2>1, <2>4, <2>5 DEF LoginOK, At
  <2>7. \A e \in Devices \ {d} : LoginOK(e)'
    BY <2>1
  <2> QED
    BY <2>6, <2>7
<1>5. ASSUME NEW d \in Devices, SaveRename(d) PROVE LoginInv'
  BY <1>5 DEF SaveRename
<1>6. ASSUME NEW d \in Devices, ServerLogin(d) PROVE LoginInv'
  BY <1>6 DEF ServerLogin, Tokens, Logins, Idle
<1>7. ASSUME NEW d \in Devices, ServerRefuses(d) PROVE LoginInv'
  BY <1>7 DEF ServerRefuses, Idle
<1>8. ASSUME NEW d \in Devices, SaveToken(d) PROVE LoginInv'
  BY <1>8 DEF SaveToken, Idle
<1>9. ASSUME NEW d \in Devices, LoginDies(d) PROVE LoginInv'
  BY <1>9 DEF LoginDies, Idle
<1>10. ASSUME NEW d \in Devices, RemoveIdentity(d) PROVE LoginInv'
  BY <1>10 DEF RemoveIdentity
<1>11. ASSUME NEW d \in Devices, Start(d) PROVE LoginInv'
  BY <1>11 DEF Start
<1>12. ASSUME NEW d \in Devices, Register(d) PROVE LoginInv'
  BY <1>12 DEF Register
<1>13. ASSUME NEW d \in Devices, Stop(d) PROVE LoginInv'
  BY <1>13 DEF Stop
<1>14. ASSUME NEW d \in Devices, StartDies(d) PROVE LoginInv'
  BY <1>14 DEF StartDies
<1>15. ASSUME NEW c \in Creds, Expires(c) PROVE LoginInv'
  BY <1>15 DEF Expires
<1>18. ASSUME NEW t \in Tokens, SessionExpires(t) PROVE LoginInv'
  BY <1>18 DEF SessionExpires
<1>16. ASSUME ServerRestart PROVE LoginInv'
  BY <1>16 DEF ServerRestart
<1>17. CASE UNCHANGED vars
  BY <1>17 DEF vars
<1> QED
  BY <1>1, <1>2, <1>3, <1>4, <1>5, <1>6, <1>7, <1>8, <1>9, <1>10, <1>11, <1>12, <1>13, <1>14, <1>15, <1>16, <1>17,
     <1>18
     DEF Next, LoginStep

LEMMA WholeNext == TypeOK /\ LoginInv /\ IdentityWhole /\ [Next]_vars => IdentityWhole'
<1> SUFFICES ASSUME TypeOK, LoginInv, IdentityWhole, [Next]_vars PROVE IdentityWhole'
  OBVIOUS
<1> USE DEF TypeOK, LoginInv, LoginOK, IdentityWhole, Loads, At, Go, Leave, disk, server
<1>1. ASSUME NEW d \in Devices, NEW c \in Creds, Login(d, c) PROVE IdentityWhole'
  BY <1>1 DEF Login
<1>2. ASSUME NEW d \in Devices, Check(d) PROVE IdentityWhole'
  BY <1>2 DEF Check
<1>3. ASSUME NEW d \in Devices, SaveWrite(d) PROVE IdentityWhole'
  BY <1>3 DEF SaveWrite
<1>4. ASSUME NEW d \in Devices, SaveMode(d) PROVE IdentityWhole'
  BY <1>4 DEF SaveMode
<1>5. ASSUME NEW d \in Devices, SaveRename(d) PROVE IdentityWhole'
  BY <1>5 DEF SaveRename
<1>6. ASSUME NEW d \in Devices, ServerLogin(d) PROVE IdentityWhole'
  BY <1>6 DEF ServerLogin
<1>7. ASSUME NEW d \in Devices, ServerRefuses(d) PROVE IdentityWhole'
  BY <1>7 DEF ServerRefuses
<1>8. ASSUME NEW d \in Devices, SaveToken(d) PROVE IdentityWhole'
  BY <1>8 DEF SaveToken
<1>9. ASSUME NEW d \in Devices, LoginDies(d) PROVE IdentityWhole'
  BY <1>9 DEF LoginDies
<1>10. ASSUME NEW d \in Devices, RemoveIdentity(d) PROVE IdentityWhole'
  BY <1>10 DEF RemoveIdentity
<1>11. ASSUME NEW d \in Devices, Start(d) PROVE IdentityWhole'
  BY <1>11 DEF Start
<1>12. ASSUME NEW d \in Devices, Register(d) PROVE IdentityWhole'
  BY <1>12 DEF Register
<1>13. ASSUME NEW d \in Devices, Stop(d) PROVE IdentityWhole'
  BY <1>13 DEF Stop
<1>14. ASSUME NEW d \in Devices, StartDies(d) PROVE IdentityWhole'
  BY <1>14 DEF StartDies
<1>15. ASSUME NEW c \in Creds, Expires(c) PROVE IdentityWhole'
  BY <1>15 DEF Expires
<1>18. ASSUME NEW t \in Tokens, SessionExpires(t) PROVE IdentityWhole'
  BY <1>18 DEF SessionExpires
<1>16. ASSUME ServerRestart PROVE IdentityWhole'
  BY <1>16 DEF ServerRestart
<1>17. CASE UNCHANGED vars
  BY <1>17 DEF vars
<1> QED
  BY <1>1, <1>2, <1>3, <1>4, <1>5, <1>6, <1>7, <1>8, <1>9, <1>10, <1>11, <1>12, <1>13, <1>14, <1>15, <1>16, <1>17,
     <1>18
     DEF Next, LoginStep

LEMMA LoggedInNext == TypeOK /\ LoginInv /\ LoggedIn /\ [Next]_vars => LoggedIn'
<1> SUFFICES ASSUME TypeOK, LoginInv, LoggedIn, [Next]_vars PROVE LoggedIn'
  OBVIOUS
<1> USE NoneApart DEF TypeOK, LoginInv, LoginOK, LoggedIn, At, Go, Leave, disk, server
<1>1. ASSUME NEW d \in Devices, NEW c \in Creds, Login(d, c) PROVE LoggedIn'
  BY <1>1 DEF Login
<1>2. ASSUME NEW d \in Devices, Check(d) PROVE LoggedIn'
  BY <1>2 DEF Check
<1>3. ASSUME NEW d \in Devices, SaveWrite(d) PROVE LoggedIn'
  BY <1>3 DEF SaveWrite
<1>4. ASSUME NEW d \in Devices, SaveMode(d) PROVE LoggedIn'
  BY <1>4 DEF SaveMode
<1>5. ASSUME NEW d \in Devices, SaveRename(d) PROVE LoggedIn'
  BY <1>5 DEF SaveRename
<1>6. ASSUME NEW d \in Devices, ServerLogin(d) PROVE LoggedIn'
  BY <1>6 DEF ServerLogin
<1>7. ASSUME NEW d \in Devices, ServerRefuses(d) PROVE LoggedIn'
  BY <1>7 DEF ServerRefuses
<1>8. ASSUME NEW d \in Devices, SaveToken(d) PROVE LoggedIn'
  BY <1>8 DEF SaveToken, Logins, Idle
<1>9. ASSUME NEW d \in Devices, LoginDies(d) PROVE LoggedIn'
  BY <1>9 DEF LoginDies
<1>10. ASSUME NEW d \in Devices, RemoveIdentity(d) PROVE LoggedIn'
  BY <1>10 DEF RemoveIdentity
<1>11. ASSUME NEW d \in Devices, Start(d) PROVE LoggedIn'
  BY <1>11 DEF Start
<1>12. ASSUME NEW d \in Devices, Register(d) PROVE LoggedIn'
  BY <1>12 DEF Register
<1>13. ASSUME NEW d \in Devices, Stop(d) PROVE LoggedIn'
  BY <1>13 DEF Stop
<1>14. ASSUME NEW d \in Devices, StartDies(d) PROVE LoggedIn'
  BY <1>14 DEF StartDies
<1>15. ASSUME NEW c \in Creds, Expires(c) PROVE LoggedIn'
  BY <1>15 DEF Expires
<1>18. ASSUME NEW t \in Tokens, SessionExpires(t) PROVE LoggedIn'
  BY <1>18 DEF SessionExpires
<1>16. ASSUME ServerRestart PROVE LoggedIn'
  BY <1>16 DEF ServerRestart
<1>17. CASE UNCHANGED vars
  BY <1>17 DEF vars
<1> QED
  BY <1>1, <1>2, <1>3, <1>4, <1>5, <1>6, <1>7, <1>8, <1>9, <1>10, <1>11, <1>12, <1>13, <1>14, <1>15, <1>16, <1>17,
     <1>18
     DEF Next, LoginStep

LEMMA Inductive == IInv /\ [Next]_vars => IInv'
BY TypeNext, LoginNext, WholeNext, LoggedInNext DEF IInv

LEMMA Invariance == Spec => []IInv
BY InvInit, Inductive, PTL DEF Spec

(* Files, tokens, logins and records stay what they can be.                *)
THEOREM TypeCorrect == Spec => []TypeOK
<1>1. IInv => TypeOK
  BY DEF IInv
<1> QED
  BY <1>1, Invariance, PTL

(* Wherever logins die, the identity file is missing or one that loads.    *)
THEOREM Whole == Spec => []IdentityWhole
<1>1. IInv => IdentityWhole
  BY DEF IInv
<1> QED
  BY <1>1, Invariance, PTL

(* After "logged in as" the identity and the token belong together.        *)
THEOREM LoggedInAs == Spec => []LoggedIn
<1>1. IInv => LoggedIn
  BY DEF IInv
<1> QED
  BY <1>1, Invariance, PTL

(* Only the user takes an identity away: none is ever replaced.            *)
THEOREM Kept == Spec => IdentityKept
<1> DEFINE Keeps == \A d \in Devices :
                      identity[d] # None => identity'[d] \in {identity[d], None}
<1>1. TypeOK /\ LoginInv /\ [Next]_vars => [Keeps]_vars
  <2> SUFFICES ASSUME TypeOK, LoginInv, [Next]_vars PROVE Keeps \/ UNCHANGED vars
    OBVIOUS
  <2>1. ASSUME NEW d \in Devices, SaveRename(d) PROVE Keeps
    BY <2>1 DEF SaveRename, LoginInv, LoginOK, At, TypeOK
  <2>2. ASSUME NEW d \in Devices, RemoveIdentity(d) PROVE Keeps
    BY <2>2 DEF RemoveIdentity, TypeOK
  <2>3. ASSUME ServerRestart PROVE Keeps
    BY <2>3 DEF ServerRestart, disk
  <2>4. ASSUME NEW c \in Creds, Expires(c) PROVE Keeps
    BY <2>4 DEF Expires, disk
  <2>7. ASSUME NEW t \in Tokens, SessionExpires(t) PROVE Keeps
    BY <2>7 DEF SessionExpires, disk
  <2>5. ASSUME NEW d \in Devices,
               \/ Check(d) \/ SaveWrite(d) \/ SaveMode(d) \/ ServerLogin(d)
               \/ ServerRefuses(d) \/ SaveToken(d) \/ LoginDies(d)
               \/ Start(d) \/ Register(d) \/ Stop(d) \/ StartDies(d)
        PROVE  Keeps
    BY <2>5 DEF Check, SaveWrite, SaveMode, ServerLogin, ServerRefuses, SaveToken,
                LoginDies, Start, Register, Stop, StartDies, disk
  <2>6. ASSUME NEW d \in Devices, NEW c \in Creds, Login(d, c) PROVE Keeps
    BY <2>6 DEF Login, disk
  <2> QED
    BY <2>1, <2>2, <2>3, <2>4, <2>5, <2>6, <2>7 DEF Next, LoginStep
<1>2. IInv => TypeOK /\ LoginInv
  BY DEF IInv
<1>3. IInv /\ [Next]_vars => [Keeps]_vars
  BY <1>1, <1>2
<1> QED
  BY <1>3, Invariance, PTL DEF Spec, IdentityKept
=============================================================================
