---------------------------- MODULE WatcherProofs ----------------------------
(***************************************************************************)
(* Proofs about Watcher, for any number of peers and any timeouts.         *)
(***************************************************************************)
EXTENDS Watcher, TLAPS

LEMMA Constants ==
  /\ Peers \in Nat /\ OnlineTimeout \in Nat /\ ConnectTimeout \in Nat
  /\ AckTimeout \in Nat /\ ShutdownTimeout \in Nat /\ PeerTtl \in Nat
  /\ HttpTime \in Nat /\ SetupTime \in Nat /\ ImportTime \in Nat /\ SendTime \in Nat
  /\ MaxPaths \in Nat /\ MaxPaths > 0 /\ MaxKernel \in Nat /\ MaxPassed \in Nat /\ MaxMissed \in Nat
  /\ Interval \in Nat /\ Interval > 0 /\ ChannelSize \in Nat /\ ChannelSize > 0
BY WatcherAssumption

LEMMA Limits ==
  /\ Limit \in [Waits -> Nat]
  /\ Limit["online"] = OnlineTimeout /\ Limit["setup"] = SetupTime
  /\ Limit["relay"] = OnlineTimeout /\ Limit["import"] = ImportTime
  /\ Limit["connect"] = ConnectTimeout /\ Limit["send"] = SendTime
  /\ Limit["ack"] = AckTimeout /\ Limit["close"] = ShutdownTimeout
  /\ Limit["register"] = HttpTime /\ Limit["reply"] = HttpTime
  /\ Limit["leave"] = HttpTime /\ Limit["fetch"] = HttpTime
<1>1. /\ DOMAIN PushLimit = {"setup", "relay", "import", "close"}
      /\ DOMAIN PeerLimit = {"connect", "send", "ack"}
  BY DEF PushLimit, PeerLimit
<1>2. /\ PushLimit["setup"] = SetupTime /\ PushLimit["relay"] = OnlineTimeout
      /\ PushLimit["import"] = ImportTime /\ PushLimit["close"] = ShutdownTimeout
      /\ PeerLimit["connect"] = ConnectTimeout /\ PeerLimit["send"] = SendTime
      /\ PeerLimit["ack"] = AckTimeout
  BY DEF PushLimit, PeerLimit
<1> QED
  BY <1>1, <1>2, Constants DEF Limit, Waits, Pushing

LEMMA Product ==
  ASSUME NEW a \in Nat, NEW b \in Nat
  PROVE  a * b \in Nat
OBVIOUS

(* What is left of a push when its next peer is taken, and its most.       *)
LEMMA OneLess ==
  ASSUME NEW a \in Nat, NEW b \in Nat, a > 0
  PROVE  a * b = (a - 1) * b + b
OBVIOUS

LEMMA AtMost ==
  ASSUME NEW a \in Nat, NEW c \in Nat, NEW b \in Nat, a <= c
  PROVE  a * b <= c * b
<1>1. PICK d \in Nat : c = a + d
  BY c - a \in Nat
<1>2. (a + d) * b = a * b + d * b
  OBVIOUS
<1>3. d * b \in Nat /\ a * b \in Nat
  BY Product
<1> QED
  BY <1>1, <1>2, <1>3

LEMMA Sizes ==
  /\ PeerTime \in Nat /\ PushTime \in Nat
  /\ HttpTime <= PushTime
<1>1. PeerTime \in Nat
  BY Constants DEF PeerTime
<1>2. Peers * PeerTime \in Nat
  BY <1>1, Constants, Product
<1> QED
  BY <1>1, <1>2, Constants DEF PushTime

-----------------------------------------------------------------------------

(* Moving an event along keeps it in one of the two queues; taking a path *)
(* leaves the others.                                                      *)
LEMMA EventType ==
  ASSUME NEW e \in Events
  PROVE  e \in Seq(Files) /\ Len(e) \in Nat /\ Len(e) <= MaxPaths
BY WatcherAssumption

LEMMA Moving ==
  ASSUME NEW q \in Seq(Events), NEW e \in Events
  PROVE  /\ Append(q, e) \in Seq(Events) /\ Len(Append(q, e)) = Len(q) + 1
         /\ Append(q, e) # <<>>
         /\ About(q) \/ Mentions(e) => About(Append(q, e))
<1>1. Append(q, e) \in Seq(Events) /\ Len(Append(q, e)) = Len(q) + 1
  OBVIOUS
<1>2. \A i \in 1 .. Len(q) : Append(q, e)[i] = q[i]
  OBVIOUS
<1>3. Append(q, e)[Len(q) + 1] = e
  OBVIOUS
<1>4. DOMAIN q = 1 .. Len(q) /\ DOMAIN Append(q, e) = 1 .. Len(q) + 1 /\ Len(q) \in Nat
  BY <1>1
<1>5. Append(q, e) # <<>>
  BY <1>1, <1>4
<1>6. About(q) \/ Mentions(e) => About(Append(q, e))
  BY <1>2, <1>3, <1>4 DEF About
<1> QED
  BY <1>1, <1>5, <1>6

LEMMA Taking ==
  ASSUME NEW S, NEW q \in Seq(S), q # <<>>
  PROVE  /\ Tail(q) \in Seq(S) /\ Len(Tail(q)) = Len(q) - 1 /\ Len(q) \in Nat /\ Len(q) > 0
         /\ Head(q) \in S
         /\ About(q) => About(Tail(q)) \/ Mentions(Head(q))
         /\ Mentions(q) => Mentions(Tail(q)) \/ Head(q) = "file"
<1>1. /\ Tail(q) \in Seq(S) /\ Len(Tail(q)) = Len(q) - 1 /\ Len(q) \in Nat /\ Len(q) > 0
      /\ Head(q) \in S /\ Head(q) = q[1]
  OBVIOUS
<1>2. \A i \in 1 .. Len(q) - 1 : Tail(q)[i] = q[i + 1]
  OBVIOUS
<1>3. DOMAIN q = 1 .. Len(q) /\ DOMAIN Tail(q) = 1 .. Len(q) - 1
  BY <1>1
<1>4. ASSUME NEW i \in DOMAIN q PROVE q[i] = Head(q) \/ \E j \in DOMAIN Tail(q) : Tail(q)[j] = q[i]
  <2>1. CASE i = 1
    BY <2>1, <1>1
  <2>2. CASE i # 1
    <3>1. i - 1 \in 1 .. Len(q) - 1 /\ (i - 1) + 1 = i
      BY <1>1, <1>3, <2>2
    <3>2. Tail(q)[i - 1] = q[i]
      BY <1>2, <3>1
    <3> QED
      BY <1>3, <3>1, <3>2
  <2> QED
    BY <2>1, <2>2
<1>5. About(q) => About(Tail(q)) \/ Mentions(Head(q))
  BY <1>4 DEF About
<1>6. Mentions(q) => Mentions(Tail(q)) \/ Head(q) = "file"
  BY <1>4 DEF Mentions
<1> QED
  BY <1>1, <1>5, <1>6

(* What the rest of an event's paths may take.                             *)
LEMMA PathsTime ==
  ASSUME NEW q \in Seq(Files)
  PROVE  /\ Len(q) \in Nat /\ Len(q) * PushTime \in Nat
         /\ q # <<>> => Len(q) * PushTime = Len(Tail(q)) * PushTime + PushTime
         /\ q = <<>> => Len(q) * PushTime = 0
<1>1. Len(q) \in Nat /\ Len(q) * PushTime \in Nat
  BY Sizes, Product
<1>2. ASSUME q # <<>> PROVE Len(q) * PushTime = Len(Tail(q)) * PushTime + PushTime
  <2>1. Len(Tail(q)) = Len(q) - 1 /\ Len(q) > 0
    BY <1>2, Taking
  <2> QED
    BY <1>1, <2>1, Sizes, OneLess
<1>3. ASSUME q = <<>> PROVE Len(q) * PushTime = 0
  BY <1>3, Sizes
<1> QED
  BY <1>1, <1>2, <1>3

LEMMA PathsBound ==
  ASSUME NEW q \in Seq(Files), NEW n \in Nat, Len(q) <= n
  PROVE  Len(q) * PushTime <= n * PushTime /\ n * PushTime \in Nat
BY Sizes, Product, AtMost

LEMMA Sum ==
  ASSUME NEW a \in Nat, NEW b \in Nat, NEW c \in Nat
  PROVE  (a + b) * c = a * c + b * c
OBVIOUS

LEMMA InvInit == Init => IInv
<1> SUFFICES ASSUME Init PROVE IInv
  OBVIOUS
<1>1. Numbers /\ Flags /\ Queues
  <2>1. Flags
    BY DEF Init, Flags
  <2>2. Numbers
    BY Constants, Limits DEF Init, Numbers, Stages, Waits, Gone
  <2>3. Queues
    BY Constants DEF Init, Queues
  <2> QED
    BY <2>1, <2>2, <2>3
<1>2. StageInv /\ AgeInv /\ ChangeInHand /\ TimeInv
  BY DEF Init, StageInv, AgeInv, ChangeInHand, TimeInv, Ended, Pushing
<1> QED
  BY <1>1, <1>2 DEF IInv, TypeOK

LEMMA FlagsNext == Flags /\ [Next]_vars => Flags'
<1> SUFFICES ASSUME Flags, [Next]_vars PROVE Flags'
  OBVIOUS
<1> USE DEF Flags, Go, loop, timer, record, channel, handler
<1>1. ASSUME Online PROVE Flags'
  BY <1>1 DEF Online
<1>2. ASSUME SetupFails PROVE Flags'
  BY <1>2 DEF SetupFails
<1>3. ASSUME Registered PROVE Flags'
  BY <1>3 DEF Registered
<1>4. ASSUME RegisterFails PROVE Flags'
  BY <1>4 DEF RegisterFails
<1>5. ASSUME Replied PROVE Flags'
  BY <1>5 DEF Replied
<1>6. ASSUME TakeStop PROVE Flags'
  BY <1>6 DEF TakeStop
<1>7. ASSUME TakeTick PROVE Flags'
  BY <1>7 DEF TakeTick
<1>8. ASSUME TakeEvent PROVE Flags'
  BY <1>8 DEF TakeEvent
<1>9. ASSUME NEW ok \in BOOLEAN, Deregistered(ok) PROVE Flags'
  BY <1>9 DEF Deregistered
<1>10. ASSUME SkipPath PROVE Flags'
  BY <1>10 DEF SkipPath, GiveUp
<1>11. ASSUME TakePath PROVE Flags'
  BY <1>11 DEF TakePath
<1>12. ASSUME HandlerReturns PROVE Flags'
  BY <1>12 DEF HandlerReturns
<1>13. ASSUME NoPeers PROVE Flags'
  BY <1>13 DEF NoPeers, Handled, GiveUp
<1>14. ASSUME NEW k \in 1 .. Peers, FetchPeers(k) PROVE Flags'
  BY <1>14 DEF FetchPeers
<1>15. ASSUME PushBound PROVE Flags'
  BY <1>15 DEF PushBound
<1>16. ASSUME PushOnline PROVE Flags'
  BY <1>16 DEF PushOnline
<1>17. ASSUME PushFails PROVE Flags'
  BY <1>17 DEF PushFails, Handled, GiveUp
<1>18. ASSUME Import PROVE Flags'
  BY <1>18 DEF Import
<1>19. ASSUME Accepts PROVE Flags'
  BY <1>19 DEF Accepts
<1>20. ASSUME Sent PROVE Flags'
  BY <1>20 DEF Sent
<1>21. ASSUME PeerDone PROVE Flags'
  BY <1>21 DEF PeerDone, NextPeer
<1>22. ASSUME Closed PROVE Flags'
  BY <1>22 DEF Closed, Handled
<1>23. ASSUME Pass PROVE Flags'
  BY <1>23 DEF Pass, NothingReady, Clock, Listed
<1>24. ASSUME RecordAges PROVE Flags'
  BY <1>24 DEF RecordAges, Listed
<1>25. ASSUME NEW e \in Events, FileChanges(e) PROVE Flags'
  BY <1>25 DEF FileChanges, Watching
<1>26. ASSUME Deliver PROVE Flags'
  BY <1>26 DEF Deliver, Watching
<1>27. ASSUME SendReturns PROVE Flags'
  BY <1>27 DEF SendReturns, Watching
<1>28. ASSUME SendFails PROVE Flags'
  BY <1>28 DEF SendFails
<1>29. ASSUME Interrupt PROVE Flags'
  BY <1>29 DEF Interrupt
<1>30. ASSUME ServerRestart PROVE Flags'
  BY <1>30 DEF ServerRestart, Listed
<1>31. CASE UNCHANGED vars
  BY <1>31 DEF vars, loop, timer, record, channel, handler
<1> QED
  BY <1>1, <1>2, <1>3, <1>4, <1>5, <1>6, <1>7, <1>8, <1>9, <1>10, <1>11,
     <1>12, <1>13, <1>14, <1>15, <1>16, <1>17, <1>18, <1>19, <1>20, <1>21,
     <1>22, <1>23, <1>24, <1>25, <1>26, <1>27, <1>28, <1>29, <1>30, <1>31
     DEF Next, Step, Notify

LEMMA QueuesNext == Queues /\ [Next]_vars => Queues'
<1> SUFFICES ASSUME Queues, [Next]_vars PROVE Queues'
  OBVIOUS
<1> USE Constants DEF Queues, Go, loop, timer, record, channel, handler
<1>a. /\ kernel # <<>> => /\ Tail(kernel) \in Seq(Events) /\ Head(kernel) \in Events
                          /\ Len(Tail(kernel)) <= MaxKernel
      /\ queue # <<>> => /\ Tail(queue) \in Seq(Events) /\ Head(queue) \in Seq(Files)
                         /\ Len(Tail(queue)) <= ChannelSize
      /\ paths # <<>> => Tail(paths) \in Seq(Files) /\ Head(paths) \in Files
  BY Taking, EventType
<1>b. \A e \in Events : /\ Append(kernel, e) \in Seq(Events) /\ Append(kernel, e) # <<>>
                        /\ Append(queue, e) \in Seq(Events)
                        /\ Len(kernel) < MaxKernel => Len(Append(kernel, e)) <= MaxKernel
                        /\ Len(queue) < ChannelSize => Len(Append(queue, e)) <= ChannelSize
  BY Moving
<1>1. ASSUME Online PROVE Queues'
  BY <1>1, <1>a, <1>b DEF Online
<1>2. ASSUME SetupFails PROVE Queues'
  BY <1>2, <1>a, <1>b DEF SetupFails
<1>3. ASSUME Registered PROVE Queues'
  BY <1>3, <1>a, <1>b DEF Registered
<1>4. ASSUME RegisterFails PROVE Queues'
  BY <1>4, <1>a, <1>b DEF RegisterFails
<1>5. ASSUME Replied PROVE Queues'
  BY <1>5, <1>a, <1>b DEF Replied
<1>6. ASSUME TakeStop PROVE Queues'
  BY <1>6, <1>a, <1>b DEF TakeStop
<1>7. ASSUME TakeTick PROVE Queues'
  BY <1>7, <1>a, <1>b DEF TakeTick
<1>8. ASSUME TakeEvent PROVE Queues'
  BY <1>8, <1>a, <1>b DEF TakeEvent
<1>9. ASSUME NEW ok \in BOOLEAN, Deregistered(ok) PROVE Queues'
  BY <1>9, <1>a, <1>b DEF Deregistered
<1>10. ASSUME SkipPath PROVE Queues'
  BY <1>10, <1>a, <1>b DEF SkipPath, GiveUp
<1>11. ASSUME TakePath PROVE Queues'
  BY <1>11, <1>a, <1>b DEF TakePath
<1>12. ASSUME HandlerReturns PROVE Queues'
  BY <1>12, <1>a, <1>b DEF HandlerReturns
<1>13. ASSUME NoPeers PROVE Queues'
  BY <1>13, <1>a, <1>b DEF NoPeers, Handled, GiveUp
<1>14. ASSUME NEW k \in 1 .. Peers, FetchPeers(k) PROVE Queues'
  BY <1>14, <1>a, <1>b DEF FetchPeers
<1>15. ASSUME PushBound PROVE Queues'
  BY <1>15, <1>a, <1>b DEF PushBound
<1>16. ASSUME PushOnline PROVE Queues'
  BY <1>16, <1>a, <1>b DEF PushOnline
<1>17. ASSUME PushFails PROVE Queues'
  BY <1>17, <1>a, <1>b DEF PushFails, Handled, GiveUp
<1>18. ASSUME Import PROVE Queues'
  BY <1>18, <1>a, <1>b DEF Import
<1>19. ASSUME Accepts PROVE Queues'
  BY <1>19, <1>a, <1>b DEF Accepts
<1>20. ASSUME Sent PROVE Queues'
  BY <1>20, <1>a, <1>b DEF Sent
<1>21. ASSUME PeerDone PROVE Queues'
  BY <1>21, <1>a, <1>b DEF PeerDone, NextPeer
<1>22. ASSUME Closed PROVE Queues'
  BY <1>22, <1>a, <1>b DEF Closed, Handled
<1>23. ASSUME Pass PROVE Queues'
  BY <1>23, <1>a, <1>b DEF Pass, NothingReady, Clock, Listed
<1>24. ASSUME RecordAges PROVE Queues'
  BY <1>24, <1>a, <1>b DEF RecordAges, Listed
<1>25. ASSUME NEW e \in Events, FileChanges(e) PROVE Queues'
  BY <1>25, <1>a, <1>b DEF FileChanges, Watching
<1>26. ASSUME Deliver PROVE Queues'
  BY <1>26, <1>a, <1>b DEF Deliver, Watching
<1>27. ASSUME SendReturns PROVE Queues'
  BY <1>27, <1>a, <1>b DEF SendReturns, Watching
<1>28. ASSUME SendFails PROVE Queues'
  BY <1>28, <1>a, <1>b DEF SendFails
<1>29. ASSUME Interrupt PROVE Queues'
  BY <1>29, <1>a, <1>b DEF Interrupt
<1>30. ASSUME ServerRestart PROVE Queues'
  BY <1>30, <1>a, <1>b DEF ServerRestart, Listed
<1>31. CASE UNCHANGED vars
  BY <1>31 DEF vars, loop, timer, record, channel, handler
<1> QED
  BY <1>1, <1>2, <1>3, <1>4, <1>5, <1>6, <1>7, <1>8, <1>9, <1>10, <1>11,
     <1>12, <1>13, <1>14, <1>15, <1>16, <1>17, <1>18, <1>19, <1>20, <1>21,
     <1>22, <1>23, <1>24, <1>25, <1>26, <1>27, <1>28, <1>29, <1>30, <1>31
     DEF Next, Step, Notify

LEMMA TypeNext == TypeOK /\ StageInv /\ [Next]_vars => TypeOK' /\ StageInv'
<1> SUFFICES ASSUME TypeOK, StageInv, [Next]_vars PROVE Numbers' /\ StageInv'
  BY FlagsNext, QueuesNext DEF TypeOK
<1>a. queue # <<>> => Len(Head(queue)) \in Nat /\ Len(Head(queue)) <= MaxPaths
  BY Taking, EventType DEF TypeOK, Queues
<1>b. /\ Len(paths) \in Nat
      /\ paths # <<>> => Len(Tail(paths)) = Len(paths) - 1 /\ Len(paths) > 0
  BY Taking DEF TypeOK, Queues
<1> USE Constants, Limits DEF TypeOK, Numbers, Flags, StageInv, Stages, Waits, Pushing,
                   Go, Gone, Ended, loop, timer, record, channel, handler
<1>1. ASSUME Online PROVE Numbers' /\ StageInv'
  BY <1>1, <1>a, <1>b DEF Online
<1>2. ASSUME SetupFails PROVE Numbers' /\ StageInv'
  BY <1>2, <1>a, <1>b DEF SetupFails
<1>3. ASSUME Registered PROVE Numbers' /\ StageInv'
  BY <1>3, <1>a, <1>b DEF Registered
<1>4. ASSUME RegisterFails PROVE Numbers' /\ StageInv'
  BY <1>4, <1>a, <1>b DEF RegisterFails
<1>5. ASSUME Replied PROVE Numbers' /\ StageInv'
  BY <1>5, <1>a, <1>b DEF Replied
<1>6. ASSUME TakeStop PROVE Numbers' /\ StageInv'
  BY <1>6, <1>a, <1>b DEF TakeStop
<1>7. ASSUME TakeTick PROVE Numbers' /\ StageInv'
  BY <1>7, <1>a, <1>b DEF TakeTick
<1>8. ASSUME TakeEvent PROVE Numbers' /\ StageInv'
  <2>1. /\ queue # <<>> /\ at = "select" /\ at' = "paths" /\ spent' = 0
        /\ paths' = Head(queue) /\ UNCHANGED <<left, started, due, missed, since, age>>
        /\ passed' = passed \/ passed' = passed + Len(Head(queue))
    BY <1>8 DEF TakeEvent
  <2>2. Numbers'
    BY <2>1, <1>a
  <2>3. StageInv'
    BY <2>1, <1>a
  <2> QED
    BY <2>2, <2>3
<1>9. ASSUME NEW ok \in BOOLEAN, Deregistered(ok) PROVE Numbers' /\ StageInv'
  BY <1>9, <1>a, <1>b DEF Deregistered
<1>10. ASSUME SkipPath PROVE Numbers' /\ StageInv'
  BY <1>10, <1>a, <1>b DEF SkipPath, GiveUp
<1>11. ASSUME TakePath PROVE Numbers' /\ StageInv'
  BY <1>11, <1>a, <1>b DEF TakePath
<1>12. ASSUME HandlerReturns PROVE Numbers' /\ StageInv'
  BY <1>12, <1>a, <1>b DEF HandlerReturns
<1>13. ASSUME NoPeers PROVE Numbers' /\ StageInv'
  BY <1>13, <1>a, <1>b DEF NoPeers, Handled, GiveUp
<1>14. ASSUME NEW k \in 1 .. Peers, FetchPeers(k) PROVE Numbers' /\ StageInv'
  BY <1>14, <1>a, <1>b DEF FetchPeers
<1>15. ASSUME PushBound PROVE Numbers' /\ StageInv'
  BY <1>15, <1>a, <1>b DEF PushBound
<1>16. ASSUME PushOnline PROVE Numbers' /\ StageInv'
  BY <1>16, <1>a, <1>b DEF PushOnline
<1>17. ASSUME PushFails PROVE Numbers' /\ StageInv'
  BY <1>17, <1>a, <1>b DEF PushFails, Handled, GiveUp
<1>18. ASSUME Import PROVE Numbers' /\ StageInv'
  BY <1>18, <1>a, <1>b DEF Import
<1>19. ASSUME Accepts PROVE Numbers' /\ StageInv'
  BY <1>19, <1>a, <1>b DEF Accepts
<1>20. ASSUME Sent PROVE Numbers' /\ StageInv'
  BY <1>20, <1>a, <1>b DEF Sent
<1>21. ASSUME PeerDone PROVE Numbers' /\ StageInv'
  <2>1. /\ at \in {"connect", "send", "ack"}
        /\ UNCHANGED <<started, due, missed, passed, since, age, paths>>
        /\ spent' = 0
        /\ \/ left > 0 /\ left' = left - 1 /\ at' = "connect"
           \/ left' = left /\ at' = "close"
    BY <1>21 DEF PeerDone, NextPeer
  <2>2. started /\ Len(paths) < MaxPaths /\ left \in Nat /\ left < Peers
    BY <2>1
  <2>3. CASE left > 0 /\ left' = left - 1 /\ at' = "connect"
    <3>1. left' \in 0 .. Peers /\ left' < Peers
      BY <2>2, <2>3
    <3>2. Numbers'
      BY <2>1, <2>3, <3>1
    <3>3. StageInv'
      BY <2>1, <2>2, <2>3, <3>1
    <3> QED
      BY <3>2, <3>3
  <2>4. CASE left' = left /\ at' = "close"
    <3>1. Numbers'
      BY <2>1, <2>4
    <3>2. StageInv'
      BY <2>1, <2>2, <2>4
    <3> QED
      BY <3>1, <3>2
  <2> QED
    BY <2>1, <2>3, <2>4
<1>22. ASSUME Closed PROVE Numbers' /\ StageInv'
  BY <1>22, <1>a, <1>b DEF Closed, Handled
<1>23. ASSUME Pass PROVE Numbers' /\ StageInv'
  <2>1. /\ UNCHANGED <<at, left, started, passed, paths>> /\ since' = since + 1
        /\ age' = IF Listed THEN age + 1 ELSE age
        /\ at \in Waits => spent' = spent + 1 /\ spent < Limit[at]
        /\ at \notin Waits => at = "select" /\ spent' = 0
        /\ Clock
    BY <1>23 DEF Pass, NothingReady
  <2>2. spent' \in Nat /\ (at' \in Waits => spent' <= Limit[at'])
    <3>1. at \in Waits => Limit[at] \in Nat
      OBVIOUS
    <3> QED
      BY <2>1, <3>1
  <2>3. age' \in 0 .. Gone
    BY <2>1 DEF Listed
  <2>4. due' \in 1 .. Interval /\ missed' \in Nat /\ (~started => UNCHANGED <<due, missed>>)
    <3>1. CASE ~started
      BY <2>1, <3>1 DEF Clock
    <3>2. CASE started /\ due > 1
      <4>1. due' = due - 1 /\ missed' = missed
        BY <2>1, <3>2 DEF Clock
      <4> QED
        BY <3>2, <4>1
    <3>3. CASE started /\ ~(due > 1)
      <4>1. due' = Interval /\ missed' = missed + 1
        BY <2>1, <3>3 DEF Clock
      <4> QED
        BY <3>3, <4>1
    <3> QED
      BY <3>1, <3>2, <3>3
  <2>5. Numbers'
    BY <2>1, <2>2, <2>3, <2>4
  <2>6. StageInv'
    BY <2>1, <2>4
  <2> QED
    BY <2>5, <2>6
<1>24. ASSUME RecordAges PROVE Numbers' /\ StageInv'
  BY <1>24, <1>a, <1>b DEF RecordAges, Listed
<1>25. ASSUME NEW e \in Events, FileChanges(e) PROVE Numbers' /\ StageInv'
  BY <1>25, <1>a, <1>b DEF FileChanges, Watching
<1>26. ASSUME Deliver PROVE Numbers' /\ StageInv'
  BY <1>26, <1>a, <1>b DEF Deliver, Watching
<1>27. ASSUME SendReturns PROVE Numbers' /\ StageInv'
  BY <1>27, <1>a, <1>b DEF SendReturns, Watching
<1>28. ASSUME SendFails PROVE Numbers' /\ StageInv'
  BY <1>28, <1>a, <1>b DEF SendFails
<1>29. ASSUME Interrupt PROVE Numbers' /\ StageInv'
  BY <1>29, <1>a, <1>b DEF Interrupt
<1>30. ASSUME ServerRestart PROVE Numbers' /\ StageInv'
  BY <1>30, <1>a, <1>b DEF ServerRestart, Listed
<1>31. CASE UNCHANGED vars
  BY <1>31 DEF vars, loop, timer, record, channel, handler
<1> QED
  BY <1>1, <1>2, <1>3, <1>4, <1>5, <1>6, <1>7, <1>8, <1>9, <1>10, <1>11,
     <1>12, <1>13, <1>14, <1>15, <1>16, <1>17, <1>18, <1>19, <1>20, <1>21,
     <1>22, <1>23, <1>24, <1>25, <1>26, <1>27, <1>28, <1>29, <1>30, <1>31
     DEF Next, Step, Notify

(* The record is no older than the last attempt that succeeded.            *)
LEMMA AgeNext == TypeOK /\ StageInv /\ AgeInv /\ [Next]_vars => AgeInv'
<1> SUFFICES ASSUME TypeOK, StageInv, AgeInv, [Next]_vars PROVE AgeInv'
  OBVIOUS
<1> USE Constants DEF TypeOK, Numbers, Flags, StageInv, AgeInv, Stages, Waits, Pushing,
            Go, Gone, Ended, loop, timer, record, channel, handler
<1>1. ASSUME Online PROVE AgeInv'
  BY <1>1 DEF Online
<1>2. ASSUME SetupFails PROVE AgeInv'
  BY <1>2 DEF SetupFails
<1>3. ASSUME Registered PROVE AgeInv'
  BY <1>3 DEF Registered
<1>4. ASSUME RegisterFails PROVE AgeInv'
  BY <1>4 DEF RegisterFails
<1>5. ASSUME Replied PROVE AgeInv'
  BY <1>5 DEF Replied
<1>6. ASSUME TakeStop PROVE AgeInv'
  BY <1>6 DEF TakeStop
<1>7. ASSUME TakeTick PROVE AgeInv'
  BY <1>7 DEF TakeTick
<1>8. ASSUME TakeEvent PROVE AgeInv'
  BY <1>8 DEF TakeEvent
<1>9. ASSUME NEW ok \in BOOLEAN, Deregistered(ok) PROVE AgeInv'
  BY <1>9 DEF Deregistered
<1>10. ASSUME SkipPath PROVE AgeInv'
  BY <1>10 DEF SkipPath, GiveUp
<1>11. ASSUME TakePath PROVE AgeInv'
  BY <1>11 DEF TakePath
<1>12. ASSUME HandlerReturns PROVE AgeInv'
  BY <1>12 DEF HandlerReturns
<1>13. ASSUME NoPeers PROVE AgeInv'
  BY <1>13 DEF NoPeers, Handled, GiveUp
<1>14. ASSUME NEW k \in 1 .. Peers, FetchPeers(k) PROVE AgeInv'
  BY <1>14 DEF FetchPeers
<1>15. ASSUME PushBound PROVE AgeInv'
  BY <1>15 DEF PushBound
<1>16. ASSUME PushOnline PROVE AgeInv'
  BY <1>16 DEF PushOnline
<1>17. ASSUME PushFails PROVE AgeInv'
  BY <1>17 DEF PushFails, Handled, GiveUp
<1>18. ASSUME Import PROVE AgeInv'
  BY <1>18 DEF Import
<1>19. ASSUME Accepts PROVE AgeInv'
  BY <1>19 DEF Accepts
<1>20. ASSUME Sent PROVE AgeInv'
  BY <1>20 DEF Sent
<1>21. ASSUME PeerDone PROVE AgeInv'
  BY <1>21 DEF PeerDone, NextPeer
<1>22. ASSUME Closed PROVE AgeInv'
  BY <1>22 DEF Closed, Handled
<1>23. ASSUME Pass PROVE AgeInv'
  BY <1>23 DEF Pass, NothingReady, Clock, Listed
<1>24. ASSUME RecordAges PROVE AgeInv'
  BY <1>24 DEF RecordAges, Listed
<1>25. ASSUME NEW e \in Events, FileChanges(e) PROVE AgeInv'
  BY <1>25 DEF FileChanges, Watching
<1>26. ASSUME Deliver PROVE AgeInv'
  BY <1>26 DEF Deliver, Watching
<1>27. ASSUME SendReturns PROVE AgeInv'
  BY <1>27 DEF SendReturns, Watching
<1>28. ASSUME SendFails PROVE AgeInv'
  BY <1>28 DEF SendFails
<1>29. ASSUME Interrupt PROVE AgeInv'
  BY <1>29 DEF Interrupt
<1>30. ASSUME ServerRestart PROVE AgeInv'
  BY <1>30 DEF ServerRestart, Listed
<1>31. CASE UNCHANGED vars
  BY <1>31 DEF vars, loop, timer, record, channel, handler
<1> QED
  BY <1>1, <1>2, <1>3, <1>4, <1>5, <1>6, <1>7, <1>8, <1>9, <1>10, <1>11,
     <1>12, <1>13, <1>14, <1>15, <1>16, <1>17, <1>18, <1>19, <1>20, <1>21,
     <1>22, <1>23, <1>24, <1>25, <1>26, <1>27, <1>28, <1>29, <1>30, <1>31
     DEF Next, Step, Notify

(* No event gets lost between notify and the handler that reads the file.  *)
LEMMA ChangeNext == TypeOK /\ StageInv /\ ChangeInHand /\ [Next]_vars => ChangeInHand'
<1> SUFFICES ASSUME Queues, Flags, StageInv, ChangeInHand, [Next]_vars PROVE ChangeInHand'
  BY DEF TypeOK
<1>b. /\ kernel # <<>> /\ About(kernel) => About(Tail(kernel)) \/ Mentions(Head(kernel))
      /\ queue # <<>> /\ About(queue) => About(Tail(queue)) \/ Mentions(Head(queue))
      /\ paths # <<>> /\ Mentions(paths) => Mentions(Tail(paths)) \/ Head(paths) = "file"
      /\ kernel # <<>> => Head(kernel) \in Events
  BY Taking DEF Queues
<1>c. \A e \in Events : /\ About(kernel) \/ Mentions(e) => About(Append(kernel, e))
                        /\ About(queue) \/ Mentions(e) => About(Append(queue, e))
  BY Moving DEF Queues
<1>d. waiting => kernel # <<>>
  BY DEF Queues
<1> USE DEF ChangeInHand, Flags, Stages, Waits, Pushing, Go, Gone, Ended,
            loop, timer, record, channel, handler
<1>1. ASSUME Online PROVE ChangeInHand'
  BY <1>1, <1>b, <1>c, <1>d DEF Online
<1>2. ASSUME SetupFails PROVE ChangeInHand'
  BY <1>2, <1>b, <1>c, <1>d DEF SetupFails
<1>3. ASSUME Registered PROVE ChangeInHand'
  BY <1>3, <1>b, <1>c, <1>d DEF Registered
<1>4. ASSUME RegisterFails PROVE ChangeInHand'
  BY <1>4, <1>b, <1>c, <1>d DEF RegisterFails
<1>5. ASSUME Replied PROVE ChangeInHand'
  BY <1>5, <1>b, <1>c, <1>d DEF Replied
<1>6. ASSUME TakeStop PROVE ChangeInHand'
  BY <1>6, <1>b, <1>c, <1>d DEF TakeStop
<1>7. ASSUME TakeTick PROVE ChangeInHand'
  BY <1>7, <1>b, <1>c, <1>d DEF TakeTick
<1>8. ASSUME TakeEvent PROVE ChangeInHand'
  <2>1. /\ queue # <<>> /\ at = "select" /\ queue' = Tail(queue) /\ paths' = Head(queue)
        /\ UNCHANGED <<kernel, unsent>>
    BY <1>8 DEF TakeEvent
  <2>2. ASSUME unsent = "yes" PROVE About(kernel') \/ About(queue') \/ Mentions(paths')
    <3>1. About(kernel) \/ About(queue) \/ Mentions(paths)
      BY <2>1, <2>2
    <3>2. paths = <<>>
      BY <2>1 DEF StageInv
    <3>3. ~Mentions(paths)
      BY <3>2 DEF Mentions
    <3> QED
      BY <2>1, <3>1, <3>3, <1>b
  <2> QED
    BY <2>1, <2>2
<1>9. ASSUME NEW ok \in BOOLEAN, Deregistered(ok) PROVE ChangeInHand'
  BY <1>9, <1>b, <1>c, <1>d DEF Deregistered
<1>10. ASSUME SkipPath PROVE ChangeInHand'
  BY <1>10, <1>b, <1>c, <1>d DEF SkipPath, GiveUp
<1>11. ASSUME TakePath PROVE ChangeInHand'
  BY <1>11, <1>b, <1>c, <1>d DEF TakePath
<1>12. ASSUME HandlerReturns PROVE ChangeInHand'
  BY <1>12, <1>b, <1>c, <1>d DEF HandlerReturns
<1>13. ASSUME NoPeers PROVE ChangeInHand'
  BY <1>13, <1>b, <1>c, <1>d DEF NoPeers, Handled, GiveUp
<1>14. ASSUME NEW k \in 1 .. Peers, FetchPeers(k) PROVE ChangeInHand'
  BY <1>14, <1>b, <1>c, <1>d DEF FetchPeers
<1>15. ASSUME PushBound PROVE ChangeInHand'
  BY <1>15, <1>b, <1>c, <1>d DEF PushBound
<1>16. ASSUME PushOnline PROVE ChangeInHand'
  BY <1>16, <1>b, <1>c, <1>d DEF PushOnline
<1>17. ASSUME PushFails PROVE ChangeInHand'
  BY <1>17, <1>b, <1>c, <1>d DEF PushFails, Handled, GiveUp
<1>18. ASSUME Import PROVE ChangeInHand'
  BY <1>18, <1>b, <1>c, <1>d DEF Import
<1>19. ASSUME Accepts PROVE ChangeInHand'
  BY <1>19, <1>b, <1>c, <1>d DEF Accepts
<1>20. ASSUME Sent PROVE ChangeInHand'
  BY <1>20, <1>b, <1>c, <1>d DEF Sent
<1>21. ASSUME PeerDone PROVE ChangeInHand'
  BY <1>21, <1>b, <1>c, <1>d DEF PeerDone, NextPeer
<1>22. ASSUME Closed PROVE ChangeInHand'
  BY <1>22, <1>b, <1>c, <1>d DEF Closed, Handled
<1>23. ASSUME Pass PROVE ChangeInHand'
  BY <1>23, <1>b, <1>c, <1>d DEF Pass, NothingReady, Clock, Listed
<1>24. ASSUME RecordAges PROVE ChangeInHand'
  BY <1>24, <1>b, <1>c, <1>d DEF RecordAges, Listed
<1>25. ASSUME NEW e \in Events, FileChanges(e) PROVE ChangeInHand'
  BY <1>25, <1>b, <1>c, <1>d DEF FileChanges, Watching
<1>26. ASSUME Deliver PROVE ChangeInHand'
  BY <1>26, <1>b, <1>c, <1>d DEF Deliver, Watching
<1>27. ASSUME SendReturns PROVE ChangeInHand'
  BY <1>27, <1>b, <1>c, <1>d DEF SendReturns, Watching
<1>28. ASSUME SendFails PROVE ChangeInHand'
  BY <1>28, <1>b, <1>c, <1>d DEF SendFails
<1>29. ASSUME Interrupt PROVE ChangeInHand'
  BY <1>29, <1>b, <1>c, <1>d DEF Interrupt
<1>30. ASSUME ServerRestart PROVE ChangeInHand'
  BY <1>30, <1>b, <1>c, <1>d DEF ServerRestart, Listed
<1>31. CASE UNCHANGED vars
  BY <1>31 DEF vars, loop, timer, record, channel, handler
<1> QED
  BY <1>1, <1>2, <1>3, <1>4, <1>5, <1>6, <1>7, <1>8, <1>9, <1>10, <1>11,
     <1>12, <1>13, <1>14, <1>15, <1>16, <1>17, <1>18, <1>19, <1>20, <1>21,
     <1>22, <1>23, <1>24, <1>25, <1>26, <1>27, <1>28, <1>29, <1>30, <1>31
     DEF Next, Step, Notify

-----------------------------------------------------------------------------
(* How long the push, or the answer, that the loop awaits may still take.  *)

LEMMA Rests ==
  ASSUME NEW t \in Nat, NEW k \in 0 .. Peers
  PROVE  /\ Rest("register", t, k) = HttpTime - t
         /\ Rest("reply", t, k) = HttpTime - t
         /\ Rest("leave", t, k) = HttpTime - t
         /\ Rest("fetch", t, k) = PushTime - t
         /\ Rest("setup", t, k) = SetupTime - t + OnlineTimeout + ImportTime + k * PeerTime
                                    + ShutdownTimeout
         /\ Rest("relay", t, k) = OnlineTimeout - t + ImportTime + k * PeerTime + ShutdownTimeout
         /\ Rest("import", t, k) = ImportTime - t + k * PeerTime + ShutdownTimeout
         /\ Rest("connect", t, k) = PeerTime - t + k * PeerTime + ShutdownTimeout
         /\ Rest("send", t, k) = SendTime - t + AckTimeout + k * PeerTime + ShutdownTimeout
         /\ Rest("ack", t, k) = AckTimeout - t + k * PeerTime + ShutdownTimeout
         /\ Rest("close", t, k) = ShutdownTimeout - t
         /\ Rest("online", t, k) = OnlineTimeout - t
         /\ Rest("select", t, k) = 0
         /\ Rest("paths", t, k) = 0
         /\ Rest("stopped", t, k) = 0
         /\ Rest("failed", t, k) = 0
<1>1. k * PeerTime \in Nat
  BY Product, Sizes, Constants
<1>2. PushTime \in Nat
  BY Sizes
<1>3. PeerTime = ConnectTimeout + SendTime + AckTimeout
  BY DEF PeerTime
<1> QED
  BY <1>1, <1>2, <1>3, Constants, Limits DEF Rest, After, Waits, Pushing

LEMMA RestBound ==
  ASSUME NEW w \in Stages, NEW t \in Nat, NEW k \in 0 .. Peers,
         w \in Waits => t <= Limit[w],
         w \in {"connect", "send", "ack"} => k < Peers
  PROVE  Rest(w, t, k) \in Nat /\ Rest(w, t, k) <= PushTime
<1> USE Constants, Limits, Sizes DEF Waits, Pushing
<1>1. Peers * PeerTime \in Nat /\ k * PeerTime \in Nat
      /\ k * PeerTime <= Peers * PeerTime
  BY Product, AtMost
<1>2. PushTime = HttpTime + SetupTime + OnlineTimeout + ImportTime + Peers * PeerTime
                   + ShutdownTimeout
  BY DEF PushTime
<1>3. PeerTime = ConnectTimeout + SendTime + AckTimeout
  BY DEF PeerTime
<1>4. CASE w \in {"select", "paths", "stopped", "failed"}
  <2>1. Rest(w, t, k) = 0
    BY <1>4 DEF Rest
  <2> QED
    BY <2>1
<1>5. CASE w \in {"register", "reply", "leave"}
  <2>1. t <= HttpTime /\ Rest(w, t, k) = HttpTime - t
    <3>1. /\ Rest("register", t, k) = HttpTime - t /\ Rest("reply", t, k) = HttpTime - t
          /\ Rest("leave", t, k) = HttpTime - t
      BY Rests
    <3> QED
      BY <1>5, <3>1
  <2> QED
    BY <2>1
<1>6. CASE w = "fetch"
  <2>1. Rest(w, t, k) = PushTime - t /\ t <= HttpTime
    BY <1>6, Rests
  <2> QED
    BY <2>1
<1>7. CASE w = "online"
  <2>1. Rest(w, t, k) = OnlineTimeout - t /\ t <= OnlineTimeout
    BY <1>7, Rests
  <2> QED
    BY <2>1, <1>1, <1>2
<1>8. CASE w = "close"
  <2>1. Rest(w, t, k) = ShutdownTimeout - t /\ t <= ShutdownTimeout
    BY <1>8, Rests
  <2> QED
    BY <2>1, <1>1, <1>2
<1>9. CASE w = "setup"
  <2>1. /\ Rest(w, t, k) = SetupTime - t + OnlineTimeout + ImportTime + k * PeerTime
                             + ShutdownTimeout
        /\ t <= SetupTime
    BY <1>9, Rests
  <2> QED
    BY <2>1, <1>1, <1>2
<1>10. CASE w = "relay"
  <2>1. /\ Rest(w, t, k) = OnlineTimeout - t + ImportTime + k * PeerTime + ShutdownTimeout
        /\ t <= OnlineTimeout
    BY <1>10, Rests
  <2> QED
    BY <2>1, <1>1, <1>2
<1>11. CASE w = "import"
  <2>1. /\ Rest(w, t, k) = ImportTime - t + k * PeerTime + ShutdownTimeout
        /\ t <= ImportTime
    BY <1>11, Rests
  <2> QED
    BY <2>1, <1>1, <1>2
<1>12. CASE w \in {"connect", "send", "ack"}
  <2>1. k + 1 \in Nat /\ k + 1 <= Peers
    BY <1>12
  <2>2. (k + 1) * PeerTime <= Peers * PeerTime
    BY <2>1, AtMost
  <2>3. (k + 1) * PeerTime = k * PeerTime + PeerTime
    BY Sum
  <2>4. PeerTime + k * PeerTime + ShutdownTimeout <= PushTime
    BY <1>1, <1>2, <2>2, <2>3
  <2>5. \/ Rest(w, t, k) = PeerTime - t + k * PeerTime + ShutdownTimeout /\ t <= ConnectTimeout
        \/ Rest(w, t, k) = SendTime - t + AckTimeout + k * PeerTime + ShutdownTimeout /\ t <= SendTime
        \/ Rest(w, t, k) = AckTimeout - t + k * PeerTime + ShutdownTimeout /\ t <= AckTimeout
    <3>1. CASE w = "connect"
      BY <3>1, Rests
    <3>2. CASE w = "send"
      BY <3>2, Rests
    <3>3. CASE w = "ack"
      BY <3>3, Rests
    <3> QED
      BY <1>12, <3>1, <3>2, <3>3
  <2> QED
    BY <1>1, <1>3, <2>4, <2>5
<1> QED
  BY <1>4, <1>5, <1>6, <1>7, <1>8, <1>9, <1>10, <1>11, <1>12 DEF Stages

LEMMA Less ==
  ASSUME NEW w \in Waits, NEW t \in Nat, NEW k \in 0 .. Peers
  PROVE  Rest(w, t + 1, k) = Rest(w, t, k) - 1
<1>1. k * PeerTime \in Nat
  BY Product, Sizes, Constants
<1>2. PushTime - HttpTime \in Nat
  BY Sizes, Constants
<1>3. After(w, k) \in Nat
  BY <1>1, <1>2, Constants DEF After
<1>4. Limit[w] \in Nat
  BY Limits
<1> QED
  BY <1>3, <1>4 DEF Rest

(* What the loop still awaits: this push, and those of the other paths.    *)
LEMMA Awaiting ==
  ASSUME Numbers, StageInv
  PROVE  Awaited \in Nat /\ Awaited <= PushTime
BY RestBound DEF Awaited, Numbers, StageInv

LEMMA Bounded ==
  ASSUME TypeOK, StageInv
  PROVE  /\ Remaining \in Nat /\ Remaining <= MaxPaths * PushTime
         /\ MaxPaths * PushTime \in Nat
         /\ Len(paths) * PushTime \in Nat
         /\ paths = <<>> => Remaining = Awaited
<1> USE Constants, Sizes
<1>1. Awaited \in Nat /\ Awaited <= PushTime
  BY Awaiting DEF TypeOK
<1>2. /\ Len(paths) \in Nat /\ Len(paths) * PushTime \in Nat
      /\ paths = <<>> => Len(paths) * PushTime = 0
  BY PathsTime DEF TypeOK, Queues
<1>3. MaxPaths - 1 \in Nat /\ MaxPaths * PushTime = (MaxPaths - 1) * PushTime + PushTime
      /\ (MaxPaths - 1) * PushTime \in Nat
  BY OneLess, Product
<1>4. CASE at \in Pushing
  <2>1. Len(paths) * PushTime <= (MaxPaths - 1) * PushTime
    <3>1. paths \in Seq(Files) /\ Len(paths) <= MaxPaths - 1
      BY <1>2, <1>3, <1>4 DEF StageInv, TypeOK, Queues
    <3> QED
      BY <1>3, <3>1, PathsBound
  <2> QED
    BY <1>1, <1>2, <1>3, <2>1 DEF Remaining
<1>5. CASE at = "paths"
  <2>1. Len(paths) * PushTime <= MaxPaths * PushTime
    BY <1>2, <1>5, PathsBound DEF StageInv, TypeOK, Queues
  <2>2. Awaited = 0
    BY <1>5, Rests DEF Awaited, TypeOK, Numbers
  <2> QED
    BY <1>2, <1>3, <2>1, <2>2 DEF Remaining
<1>6. CASE at \notin Pushing \cup {"paths"}
  <2>1. paths = <<>>
    BY <1>6 DEF StageInv
  <2> QED
    BY <1>1, <1>2, <1>3, <2>1 DEF Remaining
<1> QED
  BY <1>4, <1>5, <1>6

LEMMA Both ==
  ASSUME NEW a \in Nat, NEW b \in Nat, NEW c \in Nat, NEW d \in Nat, a <= c, b <= d
  PROVE  a + b <= c + d
OBVIOUS

LEMMA Whole ==
  ASSUME NEW n \in Nat
  PROVE  (n + MaxPaths) * PushTime \in Nat
<1>1. n + MaxPaths \in Nat
  BY Constants
<1> QED
  BY <1>1, Sizes, Product

(* Each event the loop prefers to a tick adds the pushes of its paths.     *)
LEMMA Preferred ==
  ASSUME NEW n \in Nat, passed \in Nat
  PROVE  /\ (passed + MaxPaths) * PushTime \in Nat
         /\ MaxPaths * PushTime <= (passed + MaxPaths) * PushTime
         /\ PushTime <= (passed + MaxPaths) * PushTime
         /\ (passed + n + MaxPaths) * PushTime = (passed + MaxPaths) * PushTime + n * PushTime
         /\ n * PushTime \in Nat
<1> USE Constants, Sizes
<1>1. passed + MaxPaths \in Nat
  OBVIOUS
<1>2. (passed + MaxPaths) * PushTime \in Nat /\ n * PushTime \in Nat
  BY <1>1, Product
<1>3. MaxPaths * PushTime <= (passed + MaxPaths) * PushTime
  BY <1>1, AtMost
<1>4. 1 * PushTime <= (passed + MaxPaths) * PushTime /\ 1 * PushTime = PushTime
  BY <1>1, AtMost
<1>5. ((passed + MaxPaths) + n) * PushTime = (passed + MaxPaths) * PushTime + n * PushTime
  BY <1>1, Sum
<1>6. (passed + MaxPaths) + n = passed + n + MaxPaths
  OBVIOUS
<1> QED
  BY <1>2, <1>3, <1>4, <1>5, <1>6

(* A step within a push, or out of it, that leaves the timer alone.        *)
LEMMA Progress ==
  ASSUME TypeOK, StageInv, TypeOK', StageInv', TimeInv, started, started',
         ~Ended, at \notin {"register", "leave"},
         at' \notin {"register", "leave"},
         UNCHANGED <<due, missed, passed, since>>,
         Remaining' <= Remaining
  PROVE  TimeInv'
<1>1. (passed + MaxPaths) * PushTime \in Nat /\ since \in Nat
      /\ HttpTime \in Nat /\ Interval \in Nat /\ due \in Nat
  BY Preferred, Constants DEF TypeOK, Numbers
<1>2. Remaining \in Nat
  BY Bounded
<1>3. Remaining' \in Nat
  <2>1. Awaited' \in Nat
    BY RestBound DEF Awaited, TypeOK, Numbers, StageInv
  <2>2. Len(paths') * PushTime \in Nat
    BY PathsTime DEF TypeOK, Queues
  <2> QED
    BY <2>1, <2>2 DEF Remaining
<1> QED
  BY <1>1, <1>2, <1>3 DEF TimeInv, Ended

(* The same for a step that leaves the other paths alone.                  *)
LEMMA WithinPush ==
  ASSUME TypeOK, StageInv, TypeOK', StageInv', TimeInv, started, started',
         ~Ended, at \notin {"register", "leave"},
         at' \notin {"register", "leave"},
         UNCHANGED <<due, missed, passed, since, paths>>,
         Awaited' <= Awaited
  PROVE  TimeInv'
<1>1. Awaited \in Nat /\ Len(paths) * PushTime \in Nat
  BY Awaiting, Bounded DEF TypeOK
<1>2. Awaited' \in Nat
  BY RestBound DEF Awaited, TypeOK, Numbers, StageInv
<1>3. Remaining' <= Remaining
  BY <1>1, <1>2 DEF Remaining
<1> QED
  BY <1>3, Progress

(* What the loop has waited for since the last attempt to register, when   *)
(* it is at select!, leaves the time for one more answer of the server.    *)
LEMMA InTime ==
  ASSUME TypeOK, StageInv, TimeInv, started, at = "select"
  PROVE  since + HttpTime <= Worst
<1>1. /\ (passed + MaxPaths) * PushTime \in Nat /\ since \in Nat /\ due \in Nat
      /\ Remaining \in Nat
  BY Preferred, Bounded, Constants DEF TypeOK, Numbers
<1>2. since <= Interval + HttpTime + (passed + MaxPaths) * PushTime
  BY <1>1, Constants DEF TimeInv, Ended
<1> QED
  BY <1>1, <1>2, Constants DEF Worst

LEMMA TimeNext ==
  TypeOK /\ StageInv /\ TimeInv /\ TypeOK' /\ StageInv' /\ [Next]_vars => TimeInv'
<1> SUFFICES ASSUME TypeOK, StageInv, TimeInv, TypeOK', StageInv', [Next]_vars
             PROVE  TimeInv'
  OBVIOUS
<1> USE Constants, Limits, Sizes DEF Go, loop, timer, record, channel, handler
<1>a. started \/ at \in {"online", "register", "reply", "failed"}
  BY DEF StageInv
<1>b. left \in 0 .. Peers /\ spent \in Nat /\ left' \in 0 .. Peers /\ spent' \in Nat
      /\ missed \in Nat /\ due \in 1 .. Interval /\ passed \in Nat /\ since \in Nat
      /\ Awaited = Rest(at, spent, left) /\ Awaited' = Rest(at', spent', left')
  BY DEF TypeOK, Numbers, Awaited
<1>c. /\ (passed + MaxPaths) * PushTime \in Nat
      /\ MaxPaths * PushTime <= (passed + MaxPaths) * PushTime
      /\ PushTime <= (passed + MaxPaths) * PushTime
      /\ MaxPaths * PushTime \in Nat
  BY <1>b, Preferred, Product
<1>d. left * PeerTime \in Nat
  BY <1>b, Product
<1>e. PeerTime = ConnectTimeout + SendTime + AckTimeout
  BY DEF PeerTime
<1>f. /\ Remaining \in Nat /\ Remaining <= MaxPaths * PushTime
      /\ Awaited \in Nat /\ Awaited <= PushTime
      /\ Len(paths) * PushTime \in Nat
      /\ Remaining = Awaited + Len(paths) * PushTime
      /\ paths = <<>> => Remaining = Awaited
  BY Bounded, Awaiting DEF TypeOK, Remaining
<1>h. /\ Remaining' = Awaited' + Len(paths') * PushTime
      /\ paths' = <<>> => Remaining' = Awaited'
  <2>1. Awaited' \in Nat
    BY RestBound DEF Awaited, TypeOK, Numbers, StageInv
  <2>2. paths' = <<>> => Len(paths') * PushTime = 0
    BY PathsTime DEF TypeOK, Queues
  <2> QED
    BY <2>1, <2>2 DEF Remaining
<1>i. at \notin Pushing \cup {"paths"} => paths = <<>>
  BY DEF StageInv
<1>g. ASSUME UNCHANGED <<at, spent, left, started, due, missed, passed, since, paths>>
      PROVE  TimeInv'
  <2>1. Remaining' = Remaining /\ Worst' = Worst
    BY <1>g DEF Remaining, Awaited, Worst
  <2> QED
    BY <1>g, <2>1 DEF TimeInv, Ended
<1>1. ASSUME Online PROVE TimeInv'
  BY <1>1 DEF Online, TimeInv, StageInv
<1>2. ASSUME SetupFails PROVE TimeInv'
  BY <1>2 DEF SetupFails, TimeInv, Ended
<1>3. ASSUME Registered PROVE TimeInv'
  <2>1. Awaited' = HttpTime /\ paths' = <<>>
    BY <1>3, <1>b, <1>i, Rests DEF Registered, Pushing
  <2>2. (passed' + MaxPaths) * PushTime \in Nat
    <3>1. passed' \in Nat
      BY DEF TypeOK, Numbers
    <3> QED
      BY <3>1, Whole
  <2>3. due' \in 1 .. Interval /\ missed' \in Nat /\ since' = 0
    BY <1>3 DEF TypeOK, Numbers, Registered
  <2> QED
    BY <1>3, <2>1, <2>2, <2>3, <1>h DEF Registered, TimeInv, StageInv
<1>4. ASSUME RegisterFails PROVE TimeInv'
  <2>1. Awaited' = 0 /\ paths' = <<>>
    BY <1>4, <1>b, <1>i, Rests DEF RegisterFails, Pushing
  <2>2. (passed' + MaxPaths) * PushTime \in Nat
    <3>1. passed' \in Nat
      BY DEF TypeOK, Numbers
    <3> QED
      BY <3>1, Whole
  <2>3. due' \in 1 .. Interval /\ missed' \in Nat /\ since' = 0
    BY <1>4 DEF TypeOK, Numbers, RegisterFails
  <2> QED
    BY <1>4, <2>1, <2>2, <2>3, <1>h DEF RegisterFails, TimeInv, StageInv
<1>5. ASSUME Replied PROVE TimeInv'
  <2>1. Awaited' = 0
    BY <1>5, <1>b, Rests DEF Replied
  <2>2. CASE started
    BY <1>5, <2>1, <2>2, <1>f, WithinPush DEF Replied, Ended
  <2>3. CASE ~started
    <3>1. since <= spent /\ spent <= HttpTime /\ missed = 0 /\ due = Interval
      BY <1>5, <2>3 DEF Replied, TimeInv, TypeOK, Numbers, StageInv, Waits
    <3>2. at' = "select" /\ UNCHANGED <<since, due, missed>>
      BY <1>5 DEF Replied
    <3> QED
      BY <3>1, <3>2, <1>b DEF TimeInv
  <2> QED
    BY <2>2, <2>3
<1>6. ASSUME TakeStop PROVE TimeInv'
  <2>1. started /\ since + HttpTime <= Worst
    BY <1>6, <1>a, InTime DEF TakeStop
  <2>2. Remaining' = HttpTime /\ Worst' = Worst
    BY <1>6, <1>b, <1>h, <1>i, Rests DEF TakeStop, Pushing, Worst
  <2> QED
    BY <1>6, <2>1, <2>2 DEF TakeStop, TimeInv
<1>7. ASSUME TakeTick PROVE TimeInv'
  <2>1. started /\ since + HttpTime <= Worst
    BY <1>7, <1>a, InTime DEF TakeTick
  <2>2. Remaining' = HttpTime /\ Worst' = Worst
    BY <1>7, <1>b, <1>h, <1>i, Rests DEF TakeTick, Pushing, Worst
  <2> QED
    BY <1>7, <2>1, <2>2 DEF TakeTick, TimeInv
<1>8. ASSUME TakeEvent PROVE TimeInv'
  <2>1. started /\ at = "select" /\ at' = "paths" /\ UNCHANGED <<started, due, missed, since>>
        /\ paths' = Head(queue) /\ Awaited' = 0
    BY <1>8, <1>a, <1>b, Rests DEF TakeEvent
  <2>2. CASE missed = 0
    BY <2>1, <2>2, <1>b DEF TimeInv, Ended
  <2>3. CASE missed # 0
    <3>1. passed' = passed + Len(paths') /\ Len(paths') \in Nat
      BY <1>8, <2>1, <2>3, PathsTime DEF TakeEvent, TypeOK, Queues
    <3>2. /\ (passed' + MaxPaths) * PushTime
               = (passed + MaxPaths) * PushTime + Len(paths') * PushTime
          /\ Len(paths') * PushTime \in Nat
      BY <3>1, <1>b, Preferred
    <3>3. since <= Interval + HttpTime + (passed + MaxPaths) * PushTime
      BY <2>1, <2>3, <1>b, <1>c, <1>f DEF TimeInv, Ended
    <3>4. since' + Remaining' <= Interval + HttpTime + (passed' + MaxPaths) * PushTime
      <4>1. Remaining' = Len(paths') * PushTime /\ since' = since
        BY <2>1, <3>2, <1>h
      <4> QED
        BY <3>2, <3>3, <4>1, <1>b, <1>c
    <3> QED
      BY <2>1, <2>3, <3>4 DEF TimeInv
  <2> QED
    BY <2>2, <2>3
<1>9. ASSUME SkipPath \/ TakePath PROVE TimeInv'
  <2>1. at = "paths" /\ paths # <<>> /\ paths' = Tail(paths) /\ started /\ started'
        /\ at' \in {"paths", "fetch"} /\ UNCHANGED <<due, missed, passed, since>>
    BY <1>9, <1>a DEF SkipPath, TakePath
  <2>2. Len(paths) * PushTime = Len(paths') * PushTime + PushTime
        /\ Len(paths') * PushTime \in Nat
    BY <2>1, PathsTime DEF TypeOK, Queues
  <2>3. Awaited' <= PushTime /\ Awaited' \in Nat
    BY RestBound DEF Awaited, TypeOK, Numbers, StageInv
  <2>4. Remaining' <= Remaining
    BY <2>2, <2>3, <1>f, <1>h
  <2> QED
    BY <2>1, <2>4, Progress DEF Ended
<1>21. ASSUME HandlerReturns PROVE TimeInv'
  <2>1. Awaited' = 0
    BY <1>21, <1>b, Rests DEF HandlerReturns
  <2> QED
    BY <1>21, <1>a, <2>1, <1>f, WithinPush DEF HandlerReturns, Ended
<1>10. ASSUME NEW ok \in BOOLEAN, Deregistered(ok) PROVE TimeInv'
  BY <1>10 DEF Deregistered, TimeInv, Ended
<1>11. ASSUME Handled, at \in {"fetch", "setup", "relay", "import", "close"} PROVE TimeInv'
  <2>1. Awaited' = 0
    BY <1>11, <1>b, Rests DEF Handled
  <2> QED
    BY <1>11, <1>a, <2>1, <1>f, WithinPush DEF Handled, Ended
<1>12. ASSUME NEW k \in 1 .. Peers, FetchPeers(k) PROVE TimeInv'
  <2>1. spent <= HttpTime /\ at = "fetch" /\ at' = "setup" /\ spent' = 0 /\ left' = k
    BY <1>12 DEF FetchPeers, TypeOK, Numbers, Waits, Pushing
  <2>2. k * PeerTime <= Peers * PeerTime /\ k * PeerTime \in Nat /\ Peers * PeerTime \in Nat
    BY AtMost, Product
  <2>3. Awaited' = SetupTime - 0 + OnlineTimeout + ImportTime + k * PeerTime + ShutdownTimeout
    BY <2>1, <1>b, Rests
  <2>4. Awaited = PushTime - spent
    BY <2>1, <1>b, Rests
  <2>5. Awaited' <= Awaited
    BY <2>1, <2>2, <2>3, <2>4, <1>b DEF PushTime
  <2> QED
    BY <1>12, <1>a, <2>1, <2>5, WithinPush DEF FetchPeers, Ended
<1>22. ASSUME PushBound PROVE TimeInv'
  <2>1. spent <= SetupTime /\ at = "setup" /\ at' = "relay" /\ spent' = 0 /\ left' = left
    BY <1>22 DEF PushBound, TypeOK, Numbers, Waits, Pushing
  <2>2. Awaited' = OnlineTimeout - 0 + ImportTime + left * PeerTime + ShutdownTimeout
    BY <2>1, <1>b, Rests
  <2>3. Awaited = SetupTime - spent + OnlineTimeout + ImportTime + left * PeerTime
                    + ShutdownTimeout
    BY <2>1, <1>b, Rests
  <2>4. Awaited' <= Awaited
    BY <2>1, <2>2, <2>3, <1>b, <1>d
  <2> QED
    BY <1>22, <1>a, <2>1, <2>4, WithinPush DEF PushBound, Ended
<1>13. ASSUME PushOnline PROVE TimeInv'
  <2>1. spent <= OnlineTimeout /\ at = "relay" /\ at' = "import" /\ spent' = 0 /\ left' = left
    BY <1>13 DEF PushOnline, TypeOK, Numbers, Waits, Pushing
  <2>2. Awaited' = ImportTime - 0 + left * PeerTime + ShutdownTimeout
    BY <2>1, <1>b, Rests
  <2>3. Awaited = OnlineTimeout - spent + ImportTime + left * PeerTime + ShutdownTimeout
    BY <2>1, <1>b, Rests
  <2>4. Awaited' <= Awaited
    BY <2>1, <2>2, <2>3, <1>b, <1>d
  <2> QED
    BY <1>13, <1>a, <2>1, <2>4, WithinPush DEF PushOnline, Ended
<1>14. ASSUME Import PROVE TimeInv'
  <2>1. spent <= ImportTime /\ at = "import" /\ at' = "connect" /\ spent' = 0 /\ left' = left - 1
        /\ left > 0
    BY <1>14 DEF Import, TypeOK, Numbers, Waits, Pushing, StageInv
  <2>2. Awaited' = PeerTime - 0 + left' * PeerTime + ShutdownTimeout
    BY <2>1, <1>b, Rests
  <2>3. Awaited = ImportTime - spent + left * PeerTime + ShutdownTimeout
    BY <2>1, <1>b, Rests
  <2>4. left * PeerTime = (left - 1) * PeerTime + PeerTime /\ left' * PeerTime \in Nat
    BY <2>1, <1>b, OneLess, Product
  <2>5. Awaited' <= Awaited
    BY <2>1, <2>2, <2>3, <2>4, <1>b, <1>d
  <2> QED
    BY <1>14, <1>a, <2>1, <2>5, WithinPush DEF Import, Ended
<1>15. ASSUME Accepts PROVE TimeInv'
  <2>1. spent <= ConnectTimeout /\ at = "connect" /\ at' = "send" /\ spent' = 0 /\ left' = left
    BY <1>15 DEF Accepts, TypeOK, Numbers, Waits, Pushing
  <2>2. Awaited' = SendTime - 0 + AckTimeout + left * PeerTime + ShutdownTimeout
    BY <2>1, <1>b, Rests
  <2>3. Awaited = PeerTime - spent + left * PeerTime + ShutdownTimeout
    BY <2>1, <1>b, Rests
  <2>4. Awaited' <= Awaited
    BY <2>1, <2>2, <2>3, <1>b, <1>d, <1>e
  <2> QED
    BY <1>15, <1>a, <2>1, <2>4, WithinPush DEF Accepts, Ended
<1>23. ASSUME Sent PROVE TimeInv'
  <2>1. spent <= SendTime /\ at = "send" /\ at' = "ack" /\ spent' = 0 /\ left' = left
    BY <1>23 DEF Sent, TypeOK, Numbers, Waits, Pushing
  <2>2. Awaited' = AckTimeout - 0 + left * PeerTime + ShutdownTimeout
    BY <2>1, <1>b, Rests
  <2>3. Awaited = SendTime - spent + AckTimeout + left * PeerTime + ShutdownTimeout
    BY <2>1, <1>b, Rests
  <2>4. Awaited' <= Awaited
    BY <2>1, <2>2, <2>3, <1>b, <1>d
  <2> QED
    BY <1>23, <1>a, <2>1, <2>4, WithinPush DEF Sent, Ended
<1>16. ASSUME PeerDone PROVE TimeInv'
  <2>1. Awaited >= left * PeerTime + ShutdownTimeout
    <3>1. CASE at = "connect"
      <4>1. spent <= ConnectTimeout
        BY <3>1 DEF TypeOK, Numbers, Waits, Pushing
      <4>2. Awaited = PeerTime - spent + left * PeerTime + ShutdownTimeout
        BY <3>1, <1>b, Rests
      <4> QED
        BY <4>1, <4>2, <1>b, <1>d, <1>e
    <3>2. CASE at = "send"
      <4>1. spent <= SendTime
        BY <3>2 DEF TypeOK, Numbers, Waits, Pushing
      <4>2. Awaited = SendTime - spent + AckTimeout + left * PeerTime + ShutdownTimeout
        BY <3>2, <1>b, Rests
      <4> QED
        BY <4>1, <4>2, <1>b, <1>d
    <3>3. CASE at = "ack"
      <4>1. spent <= AckTimeout
        BY <3>3 DEF TypeOK, Numbers, Waits, Pushing
      <4>2. Awaited = AckTimeout - spent + left * PeerTime + ShutdownTimeout
        BY <3>3, <1>b, Rests
      <4> QED
        BY <4>1, <4>2, <1>b, <1>d
    <3> QED
      BY <1>16, <3>1, <3>2, <3>3 DEF PeerDone
  <2>2. CASE left > 0
    <3>1. at' = "connect" /\ spent' = 0 /\ left' = left - 1
      BY <1>16, <2>2 DEF PeerDone, NextPeer
    <3>2. Awaited' = PeerTime - 0 + left' * PeerTime + ShutdownTimeout
      BY <3>1, <1>b, Rests
    <3>3. left * PeerTime = (left - 1) * PeerTime + PeerTime /\ left' * PeerTime \in Nat
      BY <2>2, <3>1, <1>b, OneLess, Product
    <3>4. Awaited' <= Awaited
      BY <2>1, <3>1, <3>2, <3>3, <1>f
    <3> QED
      BY <1>16, <1>a, <3>1, <3>4, WithinPush DEF PeerDone, NextPeer, Ended
  <2>3. CASE ~(left > 0)
    <3>1. at' = "close" /\ spent' = 0 /\ left' = left
      BY <1>16, <2>3 DEF PeerDone, NextPeer
    <3>2. Awaited' = ShutdownTimeout - 0
      BY <3>1, <1>b, Rests
    <3>3. Awaited' <= Awaited
      BY <2>1, <3>2, <1>d, <1>f
    <3> QED
      BY <1>16, <1>a, <3>1, <3>3, WithinPush DEF PeerDone, NextPeer, Ended
  <2> QED
    BY <2>2, <2>3
<1>17. ASSUME Pass PROVE TimeInv'
  <2>1. since' = since + 1 /\ UNCHANGED <<at, left, started, passed, paths>> /\ Clock
        /\ Worst' = Worst
    BY <1>17 DEF Pass, Worst
  <2>2. CASE at \in Waits
    <3>1. spent < Limit[at] /\ spent' = spent + 1
      BY <1>17, <2>2 DEF Pass, NothingReady, Waits, Pushing
    <3>2. Remaining' = Remaining - 1
      <4>1. Awaited' = Awaited - 1
        BY <2>1, <2>2, <3>1, <1>b, Less
      <4> QED
        BY <2>1, <4>1, <1>f, <1>h
    <3>3. ~started /\ at = "reply" => since' <= spent'
      BY <2>1, <3>1, <1>b DEF TimeInv
    <3>4. CASE started
      <4>1. CASE at \in {"register", "leave"}
        BY <2>1, <3>2, <3>4, <4>1, <1>b, <1>f DEF TimeInv
      <4>2. CASE at \notin {"register", "leave"} /\ due > 1
        <5>1. due' = due - 1 /\ missed' = missed /\ ~Ended
          BY <2>1, <2>2, <3>4, <4>2 DEF Clock, Ended, Waits, Pushing
        <5>2. CASE missed = 0
          BY <2>1, <3>4, <4>2, <5>1, <5>2, <1>b DEF TimeInv
        <5>3. CASE missed # 0
          <6>1. since + Remaining <= Interval + HttpTime + (passed + MaxPaths) * PushTime
            BY <3>4, <4>2, <5>1, <5>3 DEF TimeInv
          <6>2. since' + Remaining' <= Interval + HttpTime + (passed' + MaxPaths) * PushTime
            BY <2>1, <3>2, <6>1, <1>b, <1>c, <1>f
          <6> QED
            BY <2>1, <3>4, <4>2, <5>1, <5>3, <6>2 DEF TimeInv
        <5> QED
          BY <5>2, <5>3
      <4>3. CASE at \notin {"register", "leave"} /\ ~(due > 1)
        <5>1. due' = Interval /\ missed' = missed + 1 /\ ~Ended /\ due = 1
          BY <2>1, <2>2, <3>4, <4>3, <1>b DEF Clock, Ended, Waits, Pushing
        <5>2. since + Remaining <= Interval + HttpTime + (passed + MaxPaths) * PushTime
          <6>1. CASE missed = 0
            <7>1. since + due <= Interval + HttpTime
              BY <3>4, <4>3, <5>1, <6>1 DEF TimeInv
            <7>2. Remaining <= (passed + MaxPaths) * PushTime
              BY <1>c, <1>f
            <7>3. since <= Interval + HttpTime
              BY <7>1, <1>b
            <7>4. Interval + HttpTime \in Nat
              OBVIOUS
            <7> QED
              BY <7>2, <7>3, <7>4, <1>b, <1>c, <1>f, Both
          <6>2. CASE missed # 0
            BY <3>4, <4>3, <5>1, <6>2 DEF TimeInv
          <6> QED
            BY <6>1, <6>2
        <5>3. since' + Remaining' <= Interval + HttpTime + (passed' + MaxPaths) * PushTime
          BY <2>1, <3>2, <5>2, <1>b, <1>c, <1>f
        <5> QED
          BY <2>1, <3>4, <4>3, <5>1, <5>3, <1>b DEF TimeInv
      <4> QED
        BY <4>1, <4>2, <4>3
    <3>5. CASE ~started
      BY <2>1, <3>3, <3>5 DEF TimeInv
    <3> QED
      BY <3>4, <3>5
  <2>3. CASE at \notin Waits
    <3>1. at = "select" /\ missed = 0 /\ started
      BY <1>17, <2>3, <1>a DEF Pass, NothingReady
    <3>2. since + due <= Interval + HttpTime
      BY <3>1 DEF TimeInv, Ended
    <3>3. Remaining' = 0
      BY <2>1, <3>1, <1>b, <1>h, <1>i, Rests DEF Pushing
    <3> QED
      BY <2>1, <3>1, <3>2, <3>3, <1>b, <1>c DEF TimeInv, Clock
  <2> QED
    BY <2>2, <2>3
<1>18. CASE RecordAges \/ (\E e \in Events : FileChanges(e)) \/ Notify \/ Interrupt \/ ServerRestart
  BY <1>18, <1>g DEF RecordAges, FileChanges, Notify, Deliver, SendReturns,
                     SendFails, Interrupt, ServerRestart
<1>19. CASE UNCHANGED vars
  BY <1>19, <1>g DEF vars
<1>20. CASE NoPeers \/ PushFails \/ Closed
  BY <1>20, <1>11 DEF NoPeers, PushFails, Closed
<1> QED
  BY <1>1, <1>2, <1>3, <1>4, <1>5, <1>6, <1>7, <1>8, <1>9, <1>10, <1>12, <1>13,
     <1>14, <1>15, <1>16, <1>17, <1>18, <1>19, <1>20, <1>21, <1>22, <1>23 DEF Next, Step

-----------------------------------------------------------------------------

LEMMA Inductive == IInv /\ [Next]_vars => IInv'
BY TypeNext, AgeNext, ChangeNext, TimeNext DEF IInv, TypeOK

LEMMA Invariance == Spec => []IInv
BY InvInit, Inductive, PTL DEF Spec

(* Every wait of the loop ends at its limit at the latest, and the counters *)
(* of the timer and of the channel stay what they can be.                   *)
THEOREM TypeCorrect == Spec => []TypeOK
<1>1. IInv => TypeOK
  BY DEF IInv
<1> QED
  BY <1>1, Invariance, PTL

(* While the watcher runs it tries to register again before Worst has      *)
(* passed, for any number of peers, any limits of the waits and however    *)
(* many events select! prefers to the tick.                                *)
THEOREM InTimeAlways == Spec => []RegistersInTime
<1>1. IInv => RegistersInTime
  <2> SUFFICES ASSUME IInv, started, ~Ended PROVE since <= Worst
    BY DEF RegistersInTime
  <2>1. /\ Remaining \in Nat /\ since \in Nat /\ due \in Nat /\ passed \in Nat
        /\ (passed + MaxPaths) * PushTime \in Nat
    BY Bounded, Preferred, Constants DEF IInv, TypeOK, Numbers
  <2>2. CASE at \in {"register", "leave"}
    <3>1. Worst \in Nat
      BY <2>1, Constants DEF Worst
    <3> QED
      BY <2>1, <2>2, <3>1 DEF IInv, TimeInv
  <2>3. CASE at \notin {"register", "leave"}
    <3>1. since <= Interval + HttpTime + (passed + MaxPaths) * PushTime
      BY <2>1, <2>3, Constants DEF IInv, TimeInv
    <3> QED
      BY <2>1, <3>1, Constants DEF Worst
  <2> QED
    BY <2>2, <2>3
<1> QED
  BY <1>1, Invariance, PTL

(* No change is lost between notify and the handler that reads the file.   *)
THEOREM InHand == Spec => []ChangeInHand
<1>1. IInv => ChangeInHand
  BY DEF IInv
<1> QED
  BY <1>1, Invariance, PTL

=============================================================================
