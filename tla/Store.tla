------------------------------- MODULE Store -------------------------------
(***************************************************************************)
(* The local store, DddSync of src/src/store.rs.                           *)
(*                                                                         *)
(* A caller is a thread inside `add`.  Every DddSync value (a handle) has  *)
(* a mutex of its own, so the mutex orders the callers of one handle and   *)
(* nothing else: `remove` and `clean_temp_files` take no lock, and another *)
(* process that opened the same directory has another handle.              *)
(*                                                                         *)
(* `add` is one action per system call or lock operation, in the order of  *)
(* the code: stat the source, copy it to a temp name outside the lock,     *)
(* take the lock, count the files, look for the destination, rename.       *)
(***************************************************************************)
EXTENDS Naturals, FiniteSets

CONSTANTS
    Callers,            \* threads that call `add`
    Handles,            \* DddSync values open on the directory
    HandleOf,           \* the handle each caller uses
    Cleaners,           \* processes that run `dddatasync clean`
    Names,              \* names of source files, none with a leading dot
    TempNames,          \* the .tmp-* names uuid_simple can produce
    Sizes,              \* sizes of source files
    MaxFiles,           \* MAX_FILES
    MaxFileBytes,       \* MAX_FILE_BYTES
    SourceMayChange,    \* TRUE: a source may grow while `add` runs
    TicksDiffer,        \* TRUE: no process reads one time of the clock twice
    None

File == [name : Names, size : Sizes]
Request == [name : Names, size : Sizes, tmp : TempNames \cup {None}]

ASSUME StoreAssumption ==
    /\ IsFiniteSet(Handles) /\ Handles # {}
    /\ HandleOf \in [Callers -> Handles]
    /\ IsFiniteSet(Names)
    /\ Sizes \subseteq Nat /\ MaxFiles \in Nat /\ MaxFileBytes \in Nat
    /\ SourceMayChange \in BOOLEAN /\ TicksDiffer \in BOOLEAN
    /\ None \notin Callers \cup TempNames \cup File \cup Request

VARIABLES
    files,      \* the visible directory: a name to its file, or None
    temps,      \* the .tmp-* entries: a temp name to its file, or None
    mu,         \* the caller holding each handle's mutex, or None
    pc,         \* where each caller is in `add`, or how its last one returned
    call,       \* the request of the `add` in progress, or None
    sweep,      \* the temp names each cleaner has listed and not yet removed
    leaked      \* history: temp files a failure or a death has left behind

vars == <<files, temps, mu, pc, call, sweep, leaked>>

Returned == {"idle", "ok", "limit", "exists", "io"}
InAdd == {"statted", "copied", "locked", "counted", "absent"}
HoldsLock == {"locked", "counted", "absent"}

Init == /\ files = [n \in Names |-> None]
        /\ temps = [x \in TempNames |-> None]
        /\ mu = [h \in Handles |-> None]
        /\ pc = [c \in Callers |-> "idle"]
        /\ call = [c \in Callers |-> None]
        /\ sweep = [k \in Cleaners |-> {}]
        /\ leaked = {}

(* files() lists the visible entries; temp_files() the .tmp-* ones.        *)
Stored == {n \in Names : files[n] # None}
TempFiles == {x \in TempNames : temps[x] # None}

(* uuid_simple is the process id and the nanoseconds since 1970.  Two      *)
(* processes never produce one name; two threads of one process do when    *)
(* they read the same tick of the clock, or when it was set back.          *)
Unused(x) == /\ temps[x] = None
             /\ \A c \in Callers : call[c] # None => call[c].tmp # x
             /\ \A k \in Cleaners : x \notin sweep[k]

Named(c, x) == /\ TicksDiffer => Unused(x)
               /\ \A d \in Callers : call[d] # None /\ call[d].tmp = x
                                      => HandleOf[d] = HandleOf[c]

(* can_add_locked: the limits, for a file whose size was read earlier.     *)
(* (Mutant: one file too many.)                                            *)
CanAddOffByOne(size) == size <= MaxFileBytes /\ Cardinality(Stored) <= MaxFiles
CanAdd(size) == size <= MaxFileBytes /\ Cardinality(Stored) < MaxFiles

(* `add` returns r.                                                        *)
Return(c, r) == /\ pc' = [pc EXCEPT ![c] = r]
                /\ call' = [call EXCEPT ![c] = None]
Unlock(c) == mu' = [mu EXCEPT ![HandleOf[c]] = None]

(* `add` is called: the size of the source is read, and its file name.     *)
(* (Mutant: a path without a file name is not refused.)                    *)
AddStatAnyPath(c, n, s) == /\ pc[c] \in Returned
                           /\ call' = [call EXCEPT ![c] =
                                         [name |-> None, size |-> s, tmp |-> None]]
                           /\ pc' = [pc EXCEPT ![c] = "statted"]
                           /\ UNCHANGED <<files, temps, mu, sweep, leaked>>

AddStat(c, n, s) == /\ pc[c] \in Returned
                    /\ call' = [call EXCEPT ![c] =
                                  [name |-> n, size |-> s, tmp |-> None]]
                    /\ pc' = [pc EXCEPT ![c] = "statted"]
                    /\ UNCHANGED <<files, temps, mu, sweep, leaked>>

(* fs::copy of the source as it is now, whatever its size was at the stat, *)
(* over whatever has the temp name already.                                *)
AddCopy(c, x, s) ==
    /\ pc[c] = "statted"
    /\ SourceMayChange \/ s = call[c].size
    /\ Named(c, x)
    /\ temps' = [temps EXCEPT ![x] = [name |-> call[c].name, size |-> s]]
    /\ leaked' = leaked \ {x}
    /\ call' = [call EXCEPT ![c].tmp = x]
    /\ pc' = [pc EXCEPT ![c] = "copied"]
    /\ UNCHANGED <<files, mu, sweep>>

(* fs::copy fails: before it created the temp file, or half way, and then  *)
(* the `?` returns without removing what was written (of any length; the   *)
(* properties tell a partial copy from none only by its name).             *)
AddCopyFails(c, x) ==
    /\ pc[c] = "statted"
    /\ Named(c, x)
    /\ \/ UNCHANGED <<temps, leaked>>
       \/ /\ temps' = [temps EXCEPT ![x] =
                         [name |-> call[c].name, size |-> call[c].size]]
          /\ leaked' = leaked \cup {x}
    /\ Return(c, "io")
    /\ UNCHANGED <<files, mu, sweep>>

AddLock(c) == /\ pc[c] = "copied"
              /\ mu[HandleOf[c]] = None
              /\ mu' = [mu EXCEPT ![HandleOf[c]] = c]
              /\ pc' = [pc EXCEPT ![c] = "locked"]
              /\ UNCHANGED <<files, temps, call, sweep, leaked>>

(* An early return under the lock: the temp file is removed, or stays when *)
(* the removal fails, which is ignored; the guard is dropped.              *)
(* (Mutant: the temp file is not removed.)                                 *)
RefuseKeepingTemp(c, r) == /\ Return(c, r)
                           /\ Unlock(c)
                           /\ UNCHANGED <<files, temps, sweep, leaked>>

Refuse(c, r) == /\ \/ /\ temps' = [temps EXCEPT ![call[c].tmp] = None]
                      /\ leaked' = leaked \ {call[c].tmp}
                   \/ /\ UNCHANGED temps
                      /\ leaked' = leaked \cup ({call[c].tmp} \cap TempFiles)
                /\ Return(c, r)
                /\ Unlock(c)
                /\ UNCHANGED <<files, sweep>>

AddCounted(c) == /\ pc[c] = "locked"
                 /\ CanAdd(call[c].size)
                 /\ pc' = [pc EXCEPT ![c] = "counted"]
                 /\ UNCHANGED <<files, temps, mu, call, sweep, leaked>>

AddOverLimit(c) == /\ pc[c] = "locked"
                   /\ ~CanAdd(call[c].size)
                   /\ Refuse(c, "limit")

(* files() fails when an entry it has read the name of is gone before it   *)
(* reads its metadata: `remove` does not take the lock.                    *)
AddScanFails(c) == /\ pc[c] = "locked"
                   /\ Refuse(c, "io")

(* dest.exists().  (Mutant: it is not looked for.)                         *)
AddAbsentUnchecked(c) == /\ pc[c] = "counted"
                         /\ pc' = [pc EXCEPT ![c] = "absent"]
                         /\ UNCHANGED <<files, temps, mu, call, sweep, leaked>>

AddAbsent(c) == /\ pc[c] = "counted"
                /\ files[call[c].name] = None
                /\ pc' = [pc EXCEPT ![c] = "absent"]
                /\ UNCHANGED <<files, temps, mu, call, sweep, leaked>>

AddExists(c) == /\ pc[c] = "counted"
                /\ files[call[c].name] # None
                /\ Refuse(c, "exists")

(* fs::rename replaces the destination if there is one by now, and fails   *)
(* if the temp file was swept away, or for a reason of its own, and then   *)
(* the `?` returns without removing the temp file.                         *)
AddRename(c) == /\ pc[c] = "absent"
                /\ temps[call[c].tmp] # None
                /\ files' = [files EXCEPT ![call[c].name] = temps[call[c].tmp]]
                /\ temps' = [temps EXCEPT ![call[c].tmp] = None]
                /\ leaked' = leaked \ {call[c].tmp}
                /\ Return(c, "ok")
                /\ Unlock(c)
                /\ UNCHANGED sweep

AddRenameFails(c) == /\ pc[c] = "absent"
                     /\ leaked' = leaked \cup ({call[c].tmp} \cap TempFiles)
                     /\ Return(c, "io")
                     /\ Unlock(c)
                     /\ UNCHANGED <<files, temps, sweep>>

(* `dddatasync remove n`: no lock, and not held up by a running `add`.     *)
Remove(n) == /\ files[n] # None
             /\ files' = [files EXCEPT ![n] = None]
             /\ UNCHANGED <<temps, mu, pc, call, sweep, leaked>>

(* `dddatasync clean`: list every temp file, those of running calls too,   *)
(* then remove them one by one; the first that is gone ends it.            *)
CleanList(k) == /\ sweep[k] = {}
                /\ sweep' = [sweep EXCEPT ![k] = TempFiles]
                /\ UNCHANGED <<files, temps, mu, pc, call, leaked>>

CleanRemove(k, x) == /\ x \in sweep[k]
                     /\ temps[x] # None
                     /\ temps' = [temps EXCEPT ![x] = None]
                     /\ sweep' = [sweep EXCEPT ![k] = @ \ {x}]
                     /\ leaked' = leaked \ {x}
                     /\ UNCHANGED <<files, mu, pc, call>>

CleanStops(k, x) == /\ x \in sweep[k]
                    /\ temps[x] = None
                    /\ sweep' = [sweep EXCEPT ![k] = {}]
                    /\ UNCHANGED <<files, temps, mu, pc, call, leaked>>

(* The process that opened handle h dies, and is started again: its mutex  *)
(* is new, its calls are gone, their temp files stay.                      *)
Crash(h) ==
    LET dead == {c \in Callers : HandleOf[c] = h}
    IN  /\ pc' = [c \in Callers |-> IF c \in dead THEN "idle" ELSE pc[c]]
        /\ call' = [c \in Callers |-> IF c \in dead THEN None ELSE call[c]]
        /\ mu' = [mu EXCEPT ![h] = None]
        /\ leaked' = leaked \cup {x \in TempFiles :
                        \E c \in dead : call[c] # None /\ call[c].tmp = x}
        /\ UNCHANGED <<files, temps, sweep>>

CallerStep(c) == \/ \E x \in TempNames, s \in Sizes : AddCopy(c, x, s)
                 \/ \E x \in TempNames : AddCopyFails(c, x)
                 \/ AddLock(c)
                 \/ AddCounted(c)
                 \/ AddOverLimit(c)
                 \/ AddScanFails(c)
                 \/ AddAbsent(c)
                 \/ AddExists(c)
                 \/ AddRename(c)
                 \/ AddRenameFails(c)

Next == \/ \E c \in Callers, n \in Names, s \in Sizes : AddStat(c, n, s)
        \/ \E c \in Callers : CallerStep(c)
        \/ \E n \in Names : Remove(n)
        \/ \E k \in Cleaners : CleanList(k)
        \/ \E k \in Cleaners, x \in TempNames : CleanRemove(k, x)
        \/ \E k \in Cleaners, x \in TempNames : CleanStops(k, x)
        \/ \E h \in Handles : Crash(h)

Spec == Init /\ [][Next]_vars

-----------------------------------------------------------------------------

(* Every variable holds what the code can put there; a caller inside the   *)
(* locked region of `add` is the holder of its handle's mutex.             *)
TypeOK == /\ files \in [Names -> File \cup {None}]
          /\ temps \in [TempNames -> File \cup {None}]
          /\ mu \in [Handles -> Callers \cup {None}]
          /\ pc \in [Callers -> Returned \cup InAdd]
          /\ call \in [Callers -> Request \cup {None}]
          /\ sweep \in [Cleaners -> SUBSET TempNames]
          /\ leaked \subseteq TempNames

(* The count limit.  One handle holds the directory at MAX_FILES.  The     *)
(* mutex is not shared between handles: each further handle can have       *)
(* counted before another renamed, and lets one more file in, never more.  *)
CountBounded == Cardinality(Stored) <= MaxFiles + (Cardinality(Handles) - 1)

(* An `add` leaves its temp file behind only when the process dies or the  *)
(* copy, the rename or the removal of that file fails: every other .tmp-*  *)
(* entry belongs to an `add` in progress, also when two calls had the same *)
(* name for theirs and one has renamed or removed it under the other.      *)
TempsOwned == \A x \in TempFiles :
                \/ x \in leaked
                \/ \E c \in Callers : call[c] # None /\ call[c].tmp = x

(* With one handle, sources that hold still and a clock that gives no time *)
(* twice, `add` is atomic: the interleaved steps implement the abstract    *)
(* store.  A caller's outcome is "busy" from its stat to its return; its   *)
(* request has no temp name.                                               *)
Abstract == INSTANCE AtomicStore WITH
    request <- [c \in Callers |-> IF call[c] = None THEN None
                 ELSE [name |-> call[c].name, size |-> call[c].size]],
    outcome <- [c \in Callers |-> IF pc[c] \in InAdd THEN "busy" ELSE pc[c]]

ImplementsAtomicStore == Abstract!Spec

-----------------------------------------------------------------------------

(* What makes the properties inductive.  A caller has a request exactly    *)
(* while it is in `add`, with a temp name exactly from its copy on.        *)
CallInv == \A c \in Callers :
             /\ pc[c] \in InAdd <=> call[c] # None
             /\ pc[c] \in InAdd => (call[c].tmp = None <=> pc[c] = "statted")

(* Between the lock and the return a caller, and no other, holds the mutex.*)
LockInv == \A c \in Callers, h \in Handles :
             mu[h] = c <=> (HandleOf[c] = h /\ pc[c] \in HoldsLock)

(* If no tick is read twice, two calls never share a temp name, and a temp *)
(* file a call still owns is the copy it made.                             *)
TempInv == TicksDiffer =>
    /\ \A c, d \in Callers :
         call[c] # None /\ call[d] # None /\ call[c].tmp # None /\ c # d
            => call[c].tmp # call[d].tmp
    /\ \A c \in Callers :
         pc[c] \in InAdd \ {"statted"} /\ temps[call[c].tmp] # None
            => /\ temps[call[c].tmp].name = call[c].name
               /\ SourceMayChange \/ temps[call[c].tmp].size = call[c].size

(* The handles with a caller that has counted and not yet renamed.  Each   *)
(* of them may still add a file without looking again.                     *)
Counted == {h \in Handles : \E c \in Callers :
              HandleOf[c] = h /\ pc[c] \in {"counted", "absent"}}

CountInv == Cardinality(Stored) + Cardinality(Counted)
              <= MaxFiles + (Cardinality(Handles) - 1)

(* One process, as when `add` is called by the threads of one program.     *)
OneHandle == \A c, d \in Callers : HandleOf[c] = HandleOf[d]

(* What a caller has seen under the lock still holds when every caller     *)
(* shares the handle.                                                      *)
SeenInv == \A c \in Callers :
             /\ pc[c] \in {"counted", "absent"} =>
                  /\ call[c].size <= MaxFileBytes
                  /\ Cardinality(Stored) < MaxFiles
             /\ pc[c] = "absent" => files[call[c].name] = None

IInv == TypeOK /\ CallInv /\ LockInv /\ TempInv
=============================================================================
