---------------------------- MODULE StoreProofs ----------------------------
(***************************************************************************)
(* Proofs about Store, for every set of callers, handles and names, every  *)
(* assignment of callers to handles and every value of the limits.         *)
(***************************************************************************)
EXTENDS Store, FiniteSetTheorems, TLAPS

USE StoreAssumption

LEMMA TypeInit == Init => IInv
BY DEF Init, IInv, TypeOK, CallInv, LockInv, TempInv,
       File, Request, Returned, InAdd, HoldsLock

(* Every step keeps the type invariant; a caller in `add` has a request.   *)
LEMMA TypeNext == TypeOK /\ CallInv /\ [Next]_vars => TypeOK' /\ CallInv'
<1> SUFFICES ASSUME TypeOK, CallInv, [Next]_vars
             PROVE  TypeOK' /\ CallInv'
  OBVIOUS
<1> USE DEF TypeOK, CallInv, File, Request, Returned, InAdd, TempFiles
<1>1. ASSUME NEW c \in Callers, NEW n \in Names, NEW s \in Sizes, AddStat(c, n, s)
      PROVE  TypeOK' /\ CallInv'
  BY <1>1 DEF AddStat
<1>2. ASSUME NEW c \in Callers, NEW x \in TempNames, NEW s \in Sizes, AddCopy(c, x, s)
      PROVE  TypeOK' /\ CallInv'
  BY <1>2 DEF AddCopy
<1>3. ASSUME NEW c \in Callers, NEW x \in TempNames, AddCopyFails(c, x)
      PROVE  TypeOK' /\ CallInv'
  BY <1>3 DEF AddCopyFails, Return
<1>4. ASSUME NEW c \in Callers, AddLock(c)
      PROVE  TypeOK' /\ CallInv'
  BY <1>4 DEF AddLock
<1>5. ASSUME NEW c \in Callers, AddCounted(c)
      PROVE  TypeOK' /\ CallInv'
  BY <1>5 DEF AddCounted
<1>6. ASSUME NEW c \in Callers, NEW r \in Returned, pc[c] \in HoldsLock, Refuse(c, r)
      PROVE  TypeOK' /\ CallInv'
  BY <1>6 DEF Refuse, Return, Unlock, HoldsLock
<1>7. ASSUME NEW c \in Callers, AddAbsent(c)
      PROVE  TypeOK' /\ CallInv'
  BY <1>7 DEF AddAbsent
<1>8. ASSUME NEW c \in Callers, AddRename(c)
      PROVE  TypeOK' /\ CallInv'
  BY <1>8 DEF AddRename, Return, Unlock
<1>9. ASSUME NEW c \in Callers, AddRenameFails(c)
      PROVE  TypeOK' /\ CallInv'
  BY <1>9 DEF AddRenameFails, Return, Unlock
<1>10. ASSUME NEW n \in Names, Remove(n)
       PROVE  TypeOK' /\ CallInv'
  BY <1>10 DEF Remove
<1>11. ASSUME NEW k \in Cleaners, CleanList(k)
       PROVE  TypeOK' /\ CallInv'
  BY <1>11 DEF CleanList
<1>12. ASSUME NEW k \in Cleaners, NEW x \in TempNames, CleanRemove(k, x)
       PROVE  TypeOK' /\ CallInv'
  BY <1>12 DEF CleanRemove
<1>13. ASSUME NEW k \in Cleaners, NEW x \in TempNames, CleanStops(k, x)
       PROVE  TypeOK' /\ CallInv'
  BY <1>13 DEF CleanStops
<1>14. ASSUME NEW h \in Handles, Crash(h)
       PROVE  TypeOK' /\ CallInv'
  BY <1>14 DEF Crash
<1>15. CASE UNCHANGED vars
  BY <1>15 DEF vars
<1> QED
  BY <1>1, <1>2, <1>3, <1>4, <1>5, <1>6, <1>7, <1>8, <1>9, <1>10, <1>11,
     <1>12, <1>13, <1>14, <1>15
     DEF Next, CallerStep, AddOverLimit, AddScanFails, AddExists, HoldsLock

(* The actions inside the lock, by what they do to the mutex.              *)
LEMMA LockNext == TypeOK /\ CallInv /\ LockInv /\ [Next]_vars => LockInv'
<1> SUFFICES ASSUME TypeOK, CallInv, LockInv, [Next]_vars
             PROVE  LockInv'
  OBVIOUS
<1> USE DEF TypeOK, LockInv, Returned, InAdd, HoldsLock
<1>1. ASSUME NEW c \in Callers, NEW n \in Names, NEW s \in Sizes, AddStat(c, n, s)
      PROVE  LockInv'
  BY <1>1 DEF AddStat
<1>2. ASSUME NEW c \in Callers, NEW x \in TempNames, NEW s \in Sizes, AddCopy(c, x, s)
      PROVE  LockInv'
  BY <1>2 DEF AddCopy
<1>3. ASSUME NEW c \in Callers, NEW x \in TempNames, AddCopyFails(c, x)
      PROVE  LockInv'
  BY <1>3 DEF AddCopyFails, Return
<1>4. ASSUME NEW c \in Callers, AddLock(c)
      PROVE  LockInv'
  BY <1>4 DEF AddLock
<1>5. ASSUME NEW c \in Callers, AddCounted(c)
      PROVE  LockInv'
  BY <1>5 DEF AddCounted
<1>6. ASSUME NEW c \in Callers, NEW r \in Returned, pc[c] \in HoldsLock,
             Return(c, r), Unlock(c)
      PROVE  LockInv'
  BY <1>6 DEF Return, Unlock
<1>7. ASSUME NEW c \in Callers, AddAbsent(c)
      PROVE  LockInv'
  BY <1>7 DEF AddAbsent
<1>8. ASSUME NEW h \in Handles, Crash(h)
      PROVE  LockInv'
  BY <1>8 DEF Crash
<1>9. CASE UNCHANGED <<mu, pc>>
  BY <1>9
<1> QED
  BY <1>1, <1>2, <1>3, <1>4, <1>5, <1>6, <1>7, <1>8, <1>9
     DEF Next, CallerStep, AddOverLimit, AddScanFails, AddExists, Refuse,
         AddRename, AddRenameFails, Remove, CleanList, CleanRemove, CleanStops,
         vars

(* A copy takes a temp name nobody uses, so no call ever owns a temp file  *)
(* another wrote, and what is renamed is the caller's own copy.            *)
LEMMA TempNext ==
  TypeOK /\ CallInv /\ TempInv /\ [Next]_vars => TempInv'
<1> SUFFICES ASSUME TypeOK, CallInv, TempInv, [Next]_vars
             PROVE  TempInv'
  OBVIOUS
<1> USE DEF TypeOK, CallInv, TempInv, File, Request,
            Returned, InAdd
<1>1. ASSUME NEW c \in Callers, NEW n \in Names, NEW s \in Sizes, AddStat(c, n, s)
      PROVE  TempInv'
  BY <1>1 DEF AddStat
<1>2. ASSUME NEW c \in Callers, NEW x \in TempNames, NEW s \in Sizes, AddCopy(c, x, s)
      PROVE  TempInv'
  BY <1>2 DEF AddCopy, Named, Unused
<1>3. ASSUME NEW c \in Callers, NEW x \in TempNames, AddCopyFails(c, x)
      PROVE  TempInv'
  BY <1>3 DEF AddCopyFails, Return, Named, Unused
<1>4. ASSUME NEW c \in Callers, AddLock(c) \/ AddCounted(c) \/ AddAbsent(c)
      PROVE  TempInv'
  BY <1>4 DEF AddLock, AddCounted, AddAbsent
<1>5. ASSUME NEW c \in Callers, NEW r \in Returned, pc[c] \in HoldsLock, Refuse(c, r)
      PROVE  TempInv'
  BY <1>5 DEF Refuse, Return, HoldsLock
<1>6. ASSUME NEW c \in Callers, AddRename(c)
      PROVE  TempInv'
  BY <1>6 DEF AddRename, Return
<1>7. ASSUME NEW c \in Callers, AddRenameFails(c)
      PROVE  TempInv'
  BY <1>7 DEF AddRenameFails, Return
<1>8. ASSUME NEW n \in Names, Remove(n)
      PROVE  TempInv'
  BY <1>8 DEF Remove
<1>9. ASSUME NEW k \in Cleaners, NEW x \in TempNames, CleanRemove(k, x)
      PROVE  TempInv'
  BY <1>9 DEF CleanRemove
<1>10. ASSUME NEW h \in Handles, Crash(h)
       PROVE  TempInv'
  BY <1>10 DEF Crash
<1>11. CASE UNCHANGED <<files, temps, pc, call>>
  BY <1>11
<1> QED
  BY <1>1, <1>2, <1>3, <1>4, <1>5, <1>6, <1>7, <1>8, <1>9, <1>10, <1>11
     DEF Next, CallerStep, AddOverLimit, AddScanFails, AddExists, HoldsLock,
         CleanList, CleanStops, vars

(* The invariant every theorem below uses.                                 *)
THEOREM Invariant == Spec => []IInv
<1>1. Init => IInv
  BY TypeInit
<1>2. IInv /\ [Next]_vars => IInv'
  BY TypeNext, LockNext, TempNext DEF IInv
<1> QED
  BY <1>1, <1>2, PTL DEF Spec

(* Type correctness.                                                       *)
THEOREM TypeCorrect == Spec => []TypeOK
BY Invariant, PTL DEF IInv

-----------------------------------------------------------------------------
(* The temp files.                                                         *)

(* A call gives up its temp file only by renaming or removing it, or by    *)
(* dying; before its copy it has none to lose.                             *)
LEMMA OwnedNext == IInv /\ TempsOwned /\ [Next]_vars => TempsOwned'
<1> SUFFICES ASSUME IInv, TempsOwned, [Next]_vars
             PROVE  TempsOwned'
  OBVIOUS
<1> USE DEF IInv, TypeOK, CallInv, TempsOwned, TempFiles, Request, Returned, InAdd
<1>1. ASSUME UNCHANGED <<temps, leaked>>,
             \A c \in Callers : call[c] # None /\ call[c].tmp # None
                => call'[c] = call[c]
      PROVE  TempsOwned'
  BY <1>1
<1>2. ASSUME NEW c \in Callers, NEW n \in Names, NEW s \in Sizes, AddStat(c, n, s)
      PROVE  TempsOwned'
  BY <1>1, <1>2 DEF AddStat
<1>3. ASSUME NEW c \in Callers, NEW x \in TempNames, NEW s \in Sizes, AddCopy(c, x, s)
      PROVE  TempsOwned'
  BY <1>3 DEF AddCopy
<1>4. ASSUME NEW c \in Callers, NEW x \in TempNames, AddCopyFails(c, x)
      PROVE  TempsOwned'
  BY <1>4 DEF AddCopyFails, Return
<1>5. ASSUME NEW c \in Callers, NEW r \in Returned, pc[c] \in HoldsLock,
             temps' = [temps EXCEPT ![call[c].tmp] = None],
             leaked' = leaked \ {call[c].tmp}, Return(c, r)
      PROVE  TempsOwned'
  BY <1>5 DEF Return, HoldsLock
<1>6. ASSUME NEW c \in Callers, NEW r \in Returned, pc[c] \in HoldsLock,
             UNCHANGED temps,
             leaked' = leaked \cup ({call[c].tmp} \cap TempFiles), Return(c, r)
      PROVE  TempsOwned'
  BY <1>6 DEF Return, HoldsLock
<1>7. ASSUME NEW k \in Cleaners, NEW x \in TempNames, CleanRemove(k, x)
      PROVE  TempsOwned'
  BY <1>7 DEF CleanRemove
<1>8. ASSUME NEW h \in Handles, Crash(h)
      PROVE  TempsOwned'
  BY <1>8 DEF Crash
<1>9. CASE UNCHANGED <<temps, call, leaked>>
  BY <1>1, <1>9
<1> QED
  BY <1>2, <1>3, <1>4, <1>5, <1>6, <1>7, <1>8, <1>9
     DEF Next, CallerStep, AddLock, AddCounted, AddOverLimit, AddScanFails,
         AddAbsent, AddExists, AddRename, AddRenameFails, Refuse, Remove, CleanList,
         CleanStops, HoldsLock, vars

(* Whatever is cleaned, removed or killed meanwhile, and whichever calls   *)
(* had one name for their temp files, a file nobody owns is there because  *)
(* its copy, rename or removal failed or its process died.                 *)
THEOREM TempsAccounted == Spec => []TempsOwned
<1>1. Init => TempsOwned
  BY DEF Init, TempsOwned, TempFiles
<1> QED
  BY <1>1, OwnedNext, Invariant, PTL DEF Spec

-----------------------------------------------------------------------------
(* The count limit.                                                        *)

LEMMA StoredFinite ==
  /\ IsFiniteSet(Stored) /\ Cardinality(Stored) \in Nat
  /\ IsFiniteSet(Counted) /\ Cardinality(Counted) \in Nat
  /\ Cardinality(Counted) <= Cardinality(Handles)
  /\ Cardinality(Handles) \in Nat
BY FS_Subset, FS_CardinalityType DEF Stored, Counted

(* Storing under a name adds at most one file, freeing a name adds none.   *)
LEMMA StoredStep ==
  /\ Stored' \subseteq Stored => Cardinality(Stored') <= Cardinality(Stored)
  /\ \A n \in Names : Stored' \subseteq Stored \cup {n}
        => Cardinality(Stored') <= Cardinality(Stored) + 1
  /\ Cardinality(Stored') \in Nat
<1>1. IsFiniteSet(Stored) /\ IsFiniteSet(Stored') /\ Cardinality(Stored') \in Nat
  BY StoredFinite, FS_Subset, FS_CardinalityType DEF Stored
<1>2. Stored' \subseteq Stored => Cardinality(Stored') <= Cardinality(Stored)
  BY <1>1, FS_Subset
<1>3. ASSUME NEW n \in Names, Stored' \subseteq Stored \cup {n}
      PROVE  Cardinality(Stored') <= Cardinality(Stored) + 1
  <2>1. /\ IsFiniteSet(Stored \cup {n})
        /\ Cardinality(Stored \cup {n}) <= Cardinality(Stored) + 1
    <3>1. /\ IsFiniteSet(Stored \cup {n})
          /\ Cardinality(Stored \cup {n}) =
               IF n \in Stored THEN Cardinality(Stored) ELSE Cardinality(Stored) + 1
      BY <1>1, FS_AddElement
    <3> QED
      BY <3>1, StoredFinite
  <2>2. Cardinality(Stored') <= Cardinality(Stored \cup {n})
    BY <1>3, <2>1, FS_Subset
  <2>3. Cardinality(Stored \cup {n}) \in Nat
    BY <2>1, FS_CardinalityType
  <2> QED
    BY <1>1, <2>1, <2>2, <2>3, StoredFinite
<1> QED
  BY <1>1, <1>2, <1>3

(* The handles that have counted: they only lose members, or one of them.  *)
LEMMA CountedStep ==
  /\ Counted' \subseteq Counted => Cardinality(Counted') <= Cardinality(Counted)
  /\ \A h \in Counted : Counted' \subseteq Counted \ {h}
        => Cardinality(Counted') <= Cardinality(Counted) - 1
  /\ Cardinality(Counted') \in Nat
  /\ Cardinality(Counted') <= Cardinality(Handles)
<1>1. /\ Counted' \subseteq Handles
      /\ IsFiniteSet(Counted) /\ IsFiniteSet(Handles)
  BY StoredFinite DEF Counted
<1>2. /\ IsFiniteSet(Counted') /\ Cardinality(Counted') \in Nat
      /\ Cardinality(Counted') <= Cardinality(Handles)
  BY <1>1, FS_Subset, FS_CardinalityType
<1>3. Counted' \subseteq Counted => Cardinality(Counted') <= Cardinality(Counted)
  BY <1>1, FS_Subset
<1>4. ASSUME NEW h \in Counted, Counted' \subseteq Counted \ {h}
      PROVE  Cardinality(Counted') <= Cardinality(Counted) - 1
  <2>1. /\ IsFiniteSet(Counted \ {h})
        /\ Cardinality(Counted \ {h}) = Cardinality(Counted) - 1
    BY <1>1, FS_RemoveElement
  <2> QED
    BY <1>4, <2>1, FS_Subset
<1> QED
  BY <1>2, <1>3, <1>4

(* A handle counts before it renames and cannot count again in between, so *)
(* counting leaves room for one file per handle, and a rename uses its own *)
(* handle's room.                                                          *)
LEMMA CountNext == IInv /\ CountInv /\ [Next]_vars => CountInv'
<1> SUFFICES ASSUME IInv, CountInv, [Next]_vars
             PROVE  CountInv'
  OBVIOUS
<1>0. /\ Cardinality(Stored) \in Nat /\ Cardinality(Counted) \in Nat
      /\ Cardinality(Stored') \in Nat /\ Cardinality(Counted') \in Nat
      /\ Cardinality(Handles) \in Nat
  BY StoredFinite, StoredStep, CountedStep
<1>1. ASSUME Stored' \subseteq Stored, Counted' \subseteq Counted
      PROVE  CountInv'
  BY <1>0, <1>1, StoredStep, CountedStep DEF CountInv
<1>2. ASSUME NEW c \in Callers, AddCounted(c)
      PROVE  CountInv'
  <2>1. Stored' = Stored /\ Cardinality(Stored) < MaxFiles
    BY <1>2 DEF AddCounted, CanAdd, Stored
  <2>2. Cardinality(Counted') <= Cardinality(Handles)
    BY CountedStep
  <2> QED
    BY <1>0, <2>1, <2>2 DEF CountInv
<1>3. ASSUME NEW c \in Callers, AddRename(c)
      PROVE  CountInv'
  <2>1. call[c].name \in Names /\ HandleOf[c] \in Counted
    BY <1>3 DEF AddRename, IInv, TypeOK, CallInv, Request, Counted, InAdd
  <2>2. Stored' \subseteq Stored \cup {call[c].name}
    BY <1>3, <2>1 DEF AddRename, Stored, IInv, TypeOK
  <2>3. Counted' \subseteq Counted \ {HandleOf[c]}
    BY <1>3 DEF AddRename, Return, Counted, IInv, TypeOK, LockInv, HoldsLock
  <2>4. Cardinality(Stored') <= Cardinality(Stored) + 1
    BY <2>1, <2>2, StoredStep
  <2>5. Cardinality(Counted') <= Cardinality(Counted) - 1
    BY <2>1, <2>3, CountedStep
  <2> QED
    BY <1>0, <2>4, <2>5 DEF CountInv
<1>4. ASSUME NEW c \in Callers, NEW r \in Returned, Return(c, r), UNCHANGED files
      PROVE  CountInv'
  BY <1>1, <1>4 DEF Return, Stored, Counted, Returned, IInv, TypeOK
<1>5. ASSUME NEW c \in Callers, AddAbsent(c)
      PROVE  CountInv'
  BY <1>1, <1>5 DEF AddAbsent, Stored, Counted, IInv, TypeOK
<1>6. ASSUME NEW c \in Callers, NEW q \in {"statted", "copied", "locked"},
             pc' = [pc EXCEPT ![c] = q], UNCHANGED files
      PROVE  CountInv'
  BY <1>1, <1>6 DEF Stored, Counted, IInv, TypeOK
<1>7. ASSUME NEW n \in Names, Remove(n)
      PROVE  CountInv'
  BY <1>1, <1>7 DEF Remove, Stored, Counted, IInv, TypeOK
<1>8. ASSUME NEW h \in Handles, Crash(h)
      PROVE  CountInv'
  BY <1>1, <1>8 DEF Crash, Stored, Counted, IInv, TypeOK
<1>9. CASE UNCHANGED <<files, pc>>
  BY <1>1, <1>9 DEF Stored, Counted
<1> QED
  BY <1>2, <1>3, <1>4, <1>5, <1>6, <1>7, <1>8, <1>9
     DEF Next, CallerStep, AddStat, AddCopy, AddCopyFails, AddLock,
         AddOverLimit, AddScanFails, AddExists, Refuse, AddRenameFails,
         CleanList, CleanRemove, CleanStops, vars, Returned

(* A directory shared by n DddSync values never holds more than            *)
(* MAX_FILES + n - 1 files through `add`; with one value, MAX_FILES.       *)
THEOREM CountLimit == Spec => []CountBounded
<1>1. Init => CountInv
  <2>1. ASSUME Init
        PROVE  Stored = {} /\ Counted = {}
    BY <2>1 DEF Init, Stored, Counted
  <2>2. Cardinality(Handles) \in Nat \ {0}
    BY FS_CardinalityType, FS_EmptySet
  <2>3. ASSUME Init
        PROVE  Cardinality(Stored) = 0 /\ Cardinality(Counted) = 0
    BY <2>1, <2>3, FS_EmptySet
  <2> QED
    BY <2>2, <2>3 DEF CountInv
<1>2. CountInv => CountBounded
  BY StoredFinite DEF CountInv, CountBounded
<1> QED
  BY <1>1, <1>2, CountNext, Invariant, PTL DEF Spec

-----------------------------------------------------------------------------
(* One handle: `add` is atomic.                                            *)

LEMMA SeenNext == OneHandle /\ IInv /\ SeenInv /\ [Next]_vars => SeenInv'
<1> SUFFICES ASSUME OneHandle, IInv, SeenInv, [Next]_vars
             PROVE  SeenInv'
  OBVIOUS
<1> USE DEF IInv, TypeOK, SeenInv
<1>1. ASSUME UNCHANGED files,
             \A c \in Callers : pc'[c] \in {"counted", "absent"} =>
                                 pc'[c] = pc[c] /\ call'[c] = call[c]
      PROVE  SeenInv'
  BY <1>1 DEF Stored
<1>2. ASSUME NEW c \in Callers, AddCounted(c)
      PROVE  SeenInv'
  BY <1>2 DEF AddCounted, CanAdd, Stored
<1>3. ASSUME NEW c \in Callers, AddAbsent(c)
      PROVE  SeenInv'
  BY <1>3 DEF AddAbsent, Stored
<1>4. ASSUME NEW c \in Callers, AddRename(c)
      PROVE  SeenInv'
  <2>1. \A d \in Callers : pc'[d] \notin {"counted", "absent"}
    BY <1>4 DEF AddRename, Return, OneHandle, LockInv, HoldsLock
  <2> QED
    BY <2>1
<1>5. ASSUME NEW n \in Names, Remove(n)
      PROVE  SeenInv'
  <2>1. /\ Stored' \subseteq Stored
        /\ \A m \in Names : files[m] = None => files'[m] = None
    BY <1>5 DEF Remove, Stored
  <2>2. Cardinality(Stored') <= Cardinality(Stored)
    BY <2>1, StoredStep
  <2>3. \A c \in Callers : pc[c] = "absent" => call[c].name \in Names
    BY DEF CallInv, InAdd, Request
  <2> QED
    BY <1>5, <2>1, <2>2, <2>3, StoredFinite, StoredStep DEF Remove
<1>6. CASE \E c \in Callers, n \in Names, s \in Sizes : AddStat(c, n, s)
  BY <1>1, <1>6 DEF AddStat
<1>7. CASE \E c \in Callers, x \in TempNames, s \in Sizes : AddCopy(c, x, s)
  BY <1>1, <1>7 DEF AddCopy
<1>8. ASSUME NEW c \in Callers, NEW r \in Returned, Return(c, r), UNCHANGED files
      PROVE  SeenInv'
  BY <1>1, <1>8 DEF Return, Returned
<1>9. CASE \E c \in Callers : AddLock(c)
  BY <1>1, <1>9 DEF AddLock
<1>10. CASE \E h \in Handles : Crash(h)
  BY <1>1, <1>10 DEF Crash
<1>11. CASE UNCHANGED <<files, pc, call>>
  BY <1>1, <1>11
<1> QED
  BY <1>2, <1>3, <1>4, <1>5, <1>6, <1>7, <1>8, <1>9, <1>10, <1>11
     DEF Next, CallerStep, AddCopyFails, AddOverLimit, AddScanFails, AddExists,
         Refuse, AddRenameFails, CleanList, CleanRemove, CleanStops, vars,
         Returned

(* The instance has its own name for the Cardinality of FiniteSets.        *)
LEMMA SameCardinality ==
  /\ Abstract!Stored = Stored
  /\ Abstract!Cardinality(Abstract!Stored) = Cardinality(Stored)
<1>1. Abstract!Stored = Stored
  BY DEF Abstract!Stored, Stored
<1>2. Abstract!Cardinality(Stored) = Cardinality(Stored)
  BY DEF Cardinality, Abstract!Cardinality
<1> QED
  BY <1>1, <1>2

(* Every step of `add` is a step of the abstract store or none.            *)
LEMMA StepRefines ==
  ASSUME ~SourceMayChange, TicksDiffer
  PROVE  IInv /\ SeenInv /\ [Next]_vars => [Abstract!Next]_(Abstract!vars)
<1> SUFFICES ASSUME IInv, SeenInv, [Next]_vars
             PROVE  [Abstract!Next]_(Abstract!vars)
  OBVIOUS
<1> USE DEF IInv, TypeOK, Returned, InAdd
<1> DEFINE Asked(c) == IF call[c] = None THEN None
                       ELSE [name |-> call[c].name, size |-> call[c].size]
<1>0. ASSUME NEW c \in Callers, pc[c] \in InAdd
      PROVE  /\ call[c] # None /\ call[c] \in Request
             /\ Asked(c).name = call[c].name /\ Asked(c).size = call[c].size
             /\ Abstract!Fits(Asked(c)) <=> CanAdd(call[c].size)
  BY <1>0, SameCardinality DEF CallInv, Abstract!Fits, CanAdd
<1>1. ASSUME NEW c \in Callers, NEW n \in Names, NEW s \in Sizes, AddStat(c, n, s)
      PROVE  Abstract!Call(c, n, s)
  <2>1. [name |-> n, size |-> s, tmp |-> None] # None
    BY DEF Request
  <2> QED
    BY <1>1, <2>1 DEF AddStat, Abstract!Call, Abstract!Returned
<1>2. ASSUME UNCHANGED files,
             \A c \in Callers : pc'[c] # pc[c] => pc[c] \in InAdd /\ pc'[c] \in InAdd,
             \A c \in Callers : Asked(c)' = Asked(c)
      PROVE  UNCHANGED Abstract!vars
  BY <1>2 DEF Abstract!vars
<1>3. ASSUME NEW c \in Callers, NEW r \in Returned, pc[c] \in InAdd, Return(c, r)
      PROVE  Abstract!Return(c, r)
  BY <1>3 DEF Return, Abstract!Return
<1>4. ASSUME NEW c \in Callers, AddRename(c)
      PROVE  Abstract!Add(c)
  <2>1. /\ call[c].tmp \in TempNames /\ call[c].name \in Names
        /\ Asked(c) = [name |-> call[c].name, size |-> call[c].size]
    BY <1>0, <1>4 DEF AddRename, CallInv, Request
  <2>2. temps[call[c].tmp] = Asked(c)
    BY <1>4, <2>1 DEF AddRename, TempInv, File
  <2>3. files[call[c].name] = None /\ CanAdd(call[c].size)
    BY <1>4 DEF AddRename, SeenInv, CanAdd
  <2>4. Abstract!Return(c, "ok")
    BY <1>3, <1>4 DEF AddRename
  <2> QED
    BY <1>0, <1>4, <2>1, <2>2, <2>3, <2>4 DEF AddRename, Abstract!Add
<1>5. ASSUME NEW c \in Callers, NEW r \in Returned, pc[c] \in InAdd,
             Return(c, r), UNCHANGED files, Abstract!Reason(Asked(c), r)
      PROVE  Abstract!Refuse(c, r)
  BY <1>3, <1>5 DEF Abstract!Refuse
<1>6. ASSUME NEW c \in Callers, AddOverLimit(c)
      PROVE  Abstract!Reason(Asked(c), "limit")
  BY <1>0, <1>6 DEF AddOverLimit, Abstract!Reason
<1>7. ASSUME NEW c \in Callers, AddExists(c)
      PROVE  Abstract!Reason(Asked(c), "exists")
  BY <1>0, <1>7 DEF AddExists, Abstract!Reason
<1>8. ASSUME NEW n \in Names, Remove(n)
      PROVE  Abstract!Remove(n)
  BY <1>8 DEF Remove, Abstract!Remove
<1>9. ASSUME NEW h \in Handles, Crash(h)
      PROVE  \E cs \in SUBSET Callers : Abstract!Abandon(cs)
  <2>1. Abstract!Abandon({c \in Callers : HandleOf[c] = h})
    BY <1>9 DEF Crash, Abstract!Abandon
  <2> QED
    BY <2>1
<1> USE DEF Abstract!Next
<1>10. CASE \E c \in Callers, n \in Names, s \in Sizes : AddStat(c, n, s)
  BY <1>1, <1>10
<1>11. ASSUME NEW c \in Callers, CallerStep(c)
       PROVE  [Abstract!Next]_(Abstract!vars)
  <2>1. CASE AddRename(c)
    BY <1>4, <2>1
  <2>2. CASE AddOverLimit(c)
    BY <1>5, <1>6, <2>2 DEF AddOverLimit, Refuse, Abstract!Returned
  <2>3. CASE AddExists(c)
    BY <1>5, <1>7, <2>3 DEF AddExists, Refuse, Abstract!Returned
  <2>4. CASE \/ \E x \in TempNames : AddCopyFails(c, x)
             \/ AddScanFails(c) \/ AddRenameFails(c)
    <3>1. Abstract!Reason(Asked(c), "io")
      BY DEF Abstract!Reason
    <3> QED
      BY <1>5, <2>4, <3>1
         DEF AddCopyFails, AddScanFails, AddRenameFails, Refuse, Abstract!Returned
  <2>5. ASSUME NEW x \in TempNames, NEW s \in Sizes, AddCopy(c, x, s)
        PROVE  UNCHANGED Abstract!vars
    <3>1. call[c] # None /\ call'[c] # None
      BY <2>5, TypeNext DEF AddCopy, CallInv, Next, CallerStep
    <3> QED
      BY <1>0, <1>2, <2>5, <3>1 DEF AddCopy, Request
  <2>6. CASE AddLock(c) \/ AddCounted(c) \/ AddAbsent(c)
    BY <1>2, <2>6 DEF AddLock, AddCounted, AddAbsent
  <2> QED
    BY <1>11, <2>1, <2>2, <2>3, <2>4, <2>5, <2>6 DEF CallerStep
<1>12. CASE \E n \in Names : Remove(n)
  BY <1>8, <1>12
<1>13. CASE \E h \in Handles : Crash(h)
  BY <1>9, <1>13
<1>14. CASE UNCHANGED <<files, pc, call>>
  BY <1>2, <1>14
<1> QED
  BY <1>10, <1>11, <1>12, <1>13, <1>14
     DEF Next, CleanList, CleanRemove, CleanStops, vars

(* With one handle, sources that hold still while they are copied and a    *)
(* clock that gives no time twice, the detailed store implements the       *)
(* atomic one, whoever removes or cleans and whenever the process dies: no *)
(* add overwrites a file, exceeds a limit, or refuses for a reason that    *)
(* does not hold.                                                          *)
THEOREM AddIsAtomic ==
  ASSUME OneHandle, ~SourceMayChange, TicksDiffer
  PROVE  Spec => ImplementsAtomicStore
<1>1. Init => Abstract!Init /\ SeenInv
  BY DEF Init, Abstract!Init, SeenInv, InAdd
<1>2. IInv /\ SeenInv /\ [Next]_vars => SeenInv'
  BY SeenNext
<1>3. IInv /\ SeenInv /\ [Next]_vars => [Abstract!Next]_(Abstract!vars)
  BY StepRefines
<1> QED
  BY <1>1, <1>2, <1>3, Invariant, PTL
     DEF Spec, ImplementsAtomicStore, Abstract!Spec
=============================================================================
